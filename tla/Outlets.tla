------------------------------ MODULE Outlets ------------------------------
(***************************************************************************)
(* The mains sense and the PoE outlets, in the main loop of the            *)
(* application: console commands, mains_sense_poll, the outlet that        *)
(* follows the mains (app.c), poe_switcher_poll.                           *)
(*                                                                         *)
(* The mains are measured now and then: the sense circuit is powered for   *)
(* TIME_ON and each pass takes a sample; most of them decide.  A bit of the*)
(* configuration says whether they are; the console changes it at any time,*)
(* but the pins of the sense circuit are set up only at the start.         *)
(*                                                                         *)
(* Time is what the passes measure: less than the wrap of the 24-bit mark  *)
(* of prof_mark, however long a pass takes (PowerControl).                 *)
(***************************************************************************)
EXTENDS Integers

CONSTANTS
  TIME_ON, TIME_OFF,  (* TIME_ON_MS, TIME_OFF_MS, in ticks                  *)
  Channel, Ch0,       (* PoE channels; the one that follows the mains       *)
  adc_idx,            (* the current sensor of each PoE channel             *)
  MaxPass,            (* the longest time a pass can measure                *)
  MaxHit              (* bound on the samples of one measurement            *)

ASSUME SenseAssumption ==
  /\ TIME_ON \in Nat \ {0} /\ TIME_OFF \in Nat \ {0}
  /\ MaxPass \in Nat \ {0} /\ MaxHit \in Nat \ {0}
ASSUME ChannelAssumption == Ch0 \in Channel

VARIABLES
  step, diff_ms,
  sensed,             (* bit 0 of g_cfg_mains_sns_chnl_bits, and whether it *)
  wired,              (* was set when mains_sense_init set up the pins      *)
  on_phase,           (* inst[0] of mains_sense.c: the sense is powered,    *)
  tmr,                (* tmr_on or tmr_off, whichever runs,                 *)
  cnt_on, cnt_hit,    (* samples with voltage, and all,                     *)
  on,                 (* and the verdict                                    *)
  prev_mains_sw_0,
  poe_bits,           (* g_cfg_poe_sw_chnl_bits                             *)
  poe,                (* inst[].on of poe_switcher.c                        *)
  volts, steady,      (* is there mains voltage, and history: how long it   *)
                      (* has been so and was sensed                         *)
  byHand              (* history: the outlet has not just followed the mains*)

senseVars  == <<on_phase, tmr, cnt_on, cnt_hit, on>>
mainsVars  == <<sensed, wired, senseVars, volts, steady>>
poeVars    == <<prev_mains_sw_0, poe_bits, poe, byHand>>
outletVars == <<step, diff_ms, mainsVars, poeVars>>

Sensors == {adc_idx[c] : c \in Channel}

(* What it takes to see a change of the mains: the end of a measurement,   *)
(* a pause, a measurement, and what the passes add to the first two.       *)
Settled == 2 * TIME_ON + TIME_OFF + 2 * MaxPass - 2

OutletsInit ==
  /\ step = "loop" /\ diff_ms = 0 /\ sensed \in BOOLEAN /\ wired = sensed
  /\ on_phase = FALSE /\ tmr = 0 /\ cnt_on = 0 /\ cnt_hit = 0 /\ on = FALSE
  /\ prev_mains_sw_0 = FALSE /\ poe_bits \in SUBSET Channel /\ poe = {}
  /\ volts = FALSE /\ steady = 0 /\ byHand = FALSE

(* The pass starts.  It may measure no time at all; MaxHit bounds how many *)
(* passes of a measurement do.                                             *)
StartPass(d) ==
  /\ step = "loop" /\ step' = "net"
  /\ (on_phase /\ cnt_hit >= MaxHit => d > 0)
  /\ diff_ms' = d /\ UNCHANGED <<mainsVars, poeVars>>

(* The console switches an outlet, or changes its configuration bit.       *)
ConsolePoe(c, en) ==
  /\ step = "net"
  /\ poe' = IF en THEN poe \union {c} ELSE poe \ {c}
  /\ byHand' = (byHand \/ c = Ch0)
  /\ UNCHANGED <<step, diff_ms, mainsVars, prev_mains_sw_0, poe_bits>>
ConsoleBit(c) ==
  /\ step = "net"
  /\ poe_bits' = (poe_bits \ {c}) \union ({c} \ poe_bits)
  /\ UNCHANGED <<step, diff_ms, mainsVars, prev_mains_sw_0, poe, byHand>>

(* The console: cfg_mains_sns, or cfg read brings back what was stored.    *)
ConsoleSense ==
  /\ step = "net" /\ sensed' = ~sensed
  /\ UNCHANGED <<step, diff_ms, wired, senseVars, volts, steady, poeVars>>

NetEnd == step = "net" /\ step' = "mains" /\ UNCHANGED <<diff_ms, mainsVars, poeVars>>

-----------------------------------------------------------------------------
(* A measurement begins without samples.                                   *)
StartMeasuring == cnt_on' = 0 /\ cnt_hit' = 0

(* Mutant: the half is rounded up, which the only sample never exceeds.    *)
MostHit_RoundedUp(hits, all) == hits > (all + 1) \div 2
MostHit(hits, all) == hits > all \div 2

(* mains_sense_poll of channel 0: v, does the sample show voltage?         *)
Measure(v) ==
  /\ on_phase
  /\ cnt_on' = cnt_on + (IF v THEN 1 ELSE 0) /\ cnt_hit' = cnt_hit + 1
  /\ IF tmr + diff_ms >= TIME_ON
     THEN tmr' = 0 /\ on_phase' = FALSE /\ on' = MostHit(cnt_on', cnt_hit')
     ELSE tmr' = tmr + diff_ms /\ UNCHANGED <<on_phase, on>>
Pause ==
  /\ ~on_phase /\ UNCHANGED on
  /\ IF tmr + diff_ms >= TIME_OFF
     THEN tmr' = 0 /\ on_phase' = TRUE /\ StartMeasuring
     ELSE tmr' = tmr + diff_ms /\ UNCHANGED <<on_phase, cnt_on, cnt_hit>>
(* Nothing is polled while the bit is clear: a measurement that was begun  *)
(* is gone on with when it is set again.  v says whether there is voltage, *)
(* the sample does if the circuit is set up.                               *)
MainsPoll(v, sample) ==
  /\ step = "mains" /\ step' = "edge" /\ (wired => sample = v)
  /\ IF sensed THEN Measure(sample) \/ Pause ELSE UNCHANGED senseVars
  /\ volts' = v
  /\ steady' = IF ~sensed \/ v # volts THEN 0
               ELSE IF steady + diff_ms < Settled THEN steady + diff_ms ELSE Settled
  /\ UNCHANGED <<sensed, wired, diff_ms, poeVars>>

(* The outlet of channel 0 is switched when the verdict changes.           *)
Edge ==
  /\ step = "edge" /\ step' = "poe"
  /\ IF on = prev_mains_sw_0 THEN UNCHANGED <<poe, byHand>>
     ELSE /\ poe' = IF on THEN poe \union {Ch0} ELSE poe \ {Ch0}
          /\ byHand' = FALSE
  /\ prev_mains_sw_0' = on
  /\ UNCHANGED <<diff_ms, mainsVars, poe_bits>>

Tripped(over) == {c \in poe_bits : adc_idx[c] \in over}

(* poe_switcher_poll: over are the sensors that see too high a current.    *)
PoePoll(over) ==
  /\ step = "poe" /\ step' = "loop" /\ diff_ms' = 0
  /\ poe' = poe \ Tripped(over)
  /\ byHand' = (byHand \/ Ch0 \in poe \intersect Tripped(over))
  /\ UNCHANGED <<mainsVars, prev_mains_sw_0, poe_bits>>

OutletsNext ==
  \/ \E d \in 0 .. MaxPass : StartPass(d)
  \/ \E c \in Channel, en \in BOOLEAN : ConsolePoe(c, en)
  \/ \E c \in Channel : ConsoleBit(c)
  \/ ConsoleSense \/ NetEnd
  \/ \E v, sample \in BOOLEAN : MainsPoll(v, sample)
  \/ Edge
  \/ \E over \in SUBSET Sensors : PoePoll(over)

OutletsSpec == OutletsInit /\ [][OutletsNext]_outletVars

-----------------------------------------------------------------------------
(* Types: one type invariant of the module.                                *)
OutletsTypeOK ==
  /\ step \in {"loop", "net", "mains", "edge", "poe"} /\ diff_ms \in 0 .. MaxPass
  /\ sensed \in BOOLEAN /\ wired \in BOOLEAN
  /\ on_phase \in BOOLEAN /\ tmr \in Nat /\ cnt_on \in 0 .. cnt_hit /\ cnt_hit \in Nat
  /\ on \in BOOLEAN /\ volts \in BOOLEAN /\ steady \in 0 .. Settled
  /\ prev_mains_sw_0 \in BOOLEAN /\ poe_bits \subseteq Channel /\ poe \subseteq Channel
  /\ byHand \in BOOLEAN

(* The outlet of channel 0 is on once the mains have been there for long   *)
(* enough, and off once they have been gone, if they have been sensed all  *)
(* that time, by a circuit set up at the start, and unless the console or  *)
(* an over-current has switched the outlet since the last edge.  A pass    *)
(* longer than a measurement, samples of the time before, or those from    *)
(* before sensing was switched off and on again, do not change that        *)
(* (mains_sense_poll, cfg_mains_sns_cb, app.c:361-376).                    *)
OutletFollowsMains ==
  step = "poe" /\ wired /\ ~byHand /\ steady >= Settled => (Ch0 \in poe <=> volts)
=============================================================================
