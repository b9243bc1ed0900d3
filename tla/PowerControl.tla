---------------------------- MODULE PowerControl ----------------------------
(***************************************************************************)
(* The switched load (load_switcher.c) and the SYNC producer that lets the *)
(* CAN nodes send their PDOs (pdo_router.c), in the main loop of the       *)
(* application: communication reset, CAN stack, callbacks of the network   *)
(* stack, load_switcher_poll, pdo_switch_poll.                             *)
(*                                                                         *)
(* A pass is told diff_ms, how long the pass before has taken.  It may     *)
(* have taken long (a firmware block that goes to a node, an erase), and   *)
(* the mark of prof_mark has 24 bits: of 100 ms and more only what is left *)
(* beyond the wraps is measured, and nothing of a communication reset.     *)
(***************************************************************************)
EXTENDS Integers

CONSTANTS
  TIMEOUT_ON,  (* TIMEOUT_ON_MS, in ticks: no fault trips while it runs     *)
  LONGTERM,    (* TIMEOUT_CUR_LONGTERM_MS                                   *)
  Wrap,        (* the time after which the mark wraps                       *)
  MaxDuration, (* bound on the duration of a pass, and of a reset           *)
  MaxMissed    (* bound on the time of one overload that is not measured    *)

ASSUME TimeoutsAssumption ==
  /\ TIMEOUT_ON \in Nat \ {0} /\ LONGTERM \in Nat \ {0} /\ Wrap \in Nat \ {0}
  /\ MaxDuration \in Nat \ {0} /\ MaxMissed \in Nat

VARIABLES
  pc,               (* the next call of the pass                            *)
  diff,             (* diff_ms, and history: how long it really was since   *)
  lasted,           (* the time was taken last                              *)
  reset,            (* CO_process has asked for a communication reset       *)
  enabled, timeout_on_ms, timeout_cur_longterm_ms,
  pdo_permit, pdo_en,
  isProducer,       (* of CO->SYNC                                          *)
  sinceOn,          (* history: measured time since the load was switched on*)
  warm, missed,     (* history: how long the current has been high since    *)
                    (* then, and how much of that was not measured          *)
  quiet             (* history: a transfer has forbidden PDOs               *)

loadVars == <<enabled, timeout_on_ms, timeout_cur_longterm_ms, sinceOn, warm, missed>>
time     == <<diff, lasted>>
pdoVars  == <<pdo_permit, pdo_en, isProducer, quiet>>
vars     == <<pc, time, reset, loadVars, pdoVars>>

(* History times stop where the properties no longer tell them apart.      *)
OnCap   == TIMEOUT_ON + LONGTERM
WarmCap == OnCap + MaxMissed
AtMost(n, cap) == IF n < cap THEN n ELSE cap

LoadOn ==
  /\ enabled' = TRUE /\ timeout_on_ms' = TIMEOUT_ON
  /\ sinceOn' = 0 /\ warm' = 0 /\ missed' = 0
  /\ UNCHANGED timeout_cur_longterm_ms
LoadOff ==
  /\ enabled' = FALSE
  /\ UNCHANGED <<timeout_on_ms, timeout_cur_longterm_ms, sinceOn, warm, missed>>

(* Mutant: pdo_switch_poll without its second test.                        *)
PdoSwitch_OnOnly(permit) ==
  /\ pdo_permit' = permit
  /\ pdo_en' = (pdo_en \/ (permit /\ enabled))
  /\ isProducer' = (isProducer \/ (permit /\ enabled))
(* pdo_switch_poll with the permission given: pdo_enable is called, and    *)
(* the producer told, on a change of pdo_en only.                          *)
PdoSwitch(permit) ==
  /\ pdo_permit' = permit
  /\ pdo_en' = (permit /\ enabled)
  /\ isProducer' = IF pdo_en = (permit /\ enabled) THEN isProducer ELSE permit /\ enabled

-----------------------------------------------------------------------------
Init ==
  /\ pc = "comm" /\ diff = 0 /\ lasted = 0 /\ reset = FALSE
  /\ enabled = TRUE /\ timeout_on_ms = TIMEOUT_ON /\ timeout_cur_longterm_ms = 0
  /\ pdo_permit = FALSE /\ pdo_en = FALSE /\ isProducer = FALSE
  /\ sinceOn = 0 /\ warm = 0 /\ missed = 0 /\ quiet = FALSE

(* prof_mark: what is measured of the time d.                              *)
Measured(d) == d % Wrap

(* What the bound allows not to be measured of an overload.                *)
Bounded(unseen) == unseen > 0 => missed + lasted + unseen <= MaxMissed

(* The communication reset: CO_SYNC_init starts from the object dictionary,*)
(* where the gateway is no producer; then pdo_switch_en_global(true).  The *)
(* mark is taken anew, so that the time d it takes is lost.                *)
CommReset(d) ==
  /\ pc = "comm" /\ pc' = "can" /\ reset' = FALSE
  /\ lasted' = d /\ Bounded(d)
  /\ pdo_permit' = TRUE /\ pdo_en' = enabled
  /\ isProducer' = (enabled /\ ~pdo_en)
  /\ quiet' = FALSE
  /\ UNCHANGED <<diff, loadVars>>

(* The pass starts: the time since the last one, CO_process, which may ask *)
(* for a reset, and CO_process_SYNC, which sends if isProducer says so.    *)
CanPhase(d, r) ==
  /\ pc = "can" /\ pc' = "net" /\ diff' = Measured(d) /\ reset' = r
  /\ lasted' = lasted + d /\ Bounded(d - Measured(d))
  /\ sinceOn' = IF enabled THEN AtMost(sinceOn + Measured(d), OnCap) ELSE sinceOn
  /\ UNCHANGED <<enabled, timeout_on_ms, timeout_cur_longterm_ms, warm, missed, pdoVars>>

(* Callbacks of the network stack: console commands lon and loff.          *)
ConsoleOn  == pc = "net" /\ LoadOn /\ UNCHANGED <<pc, time, reset, pdoVars>>
ConsoleOff == pc = "net" /\ LoadOff /\ UNCHANGED <<pc, time, reset, pdoVars>>

(* A callback of a firmware transfer: pdo_switch_en_global(false).         *)
TransferCallback ==
  /\ pc = "net" /\ PdoSwitch(FALSE) /\ quiet' = TRUE
  /\ UNCHANGED <<pc, time, reset, loadVars>>

NetDone == pc = "net" /\ pc' = "load" /\ UNCHANGED <<time, reset, loadVars, pdoVars>>

-----------------------------------------------------------------------------
Amps == {"low", "longterm", "instant"}  (* |i_sns| against the two limits   *)

(* The time left after this pass.                                          *)
TimeoutOn == IF timeout_on_ms > diff THEN timeout_on_ms - diff ELSE 0

(* Mutant: the passes before this one are forgotten.                       *)
Longterm_Once(amps) == IF amps = "low" THEN 0 ELSE AtMost(diff, LONGTERM)
Longterm(amps) ==
  IF amps = "low" THEN 0 ELSE AtMost(timeout_cur_longterm_ms + diff, LONGTERM)

(* load_switcher_poll: amps is the current, pin the fault input.  The      *)
(* long-term time is counted up to LONGTERM, where it trips.               *)
Load(amps, pin) ==
  /\ pc = "load" /\ pc' = "pdo"
  /\ timeout_on_ms' = TimeoutOn
  /\ IF amps = "low" THEN warm' = 0 /\ missed' = 0
     ELSE IF enabled THEN /\ warm' = AtMost(warm + lasted, WarmCap)
                          /\ missed' = missed + lasted - diff
     ELSE UNCHANGED <<warm, missed>>
  /\ IF TimeoutOn > 0
     THEN UNCHANGED <<enabled, timeout_cur_longterm_ms>>
     ELSE /\ timeout_cur_longterm_ms' = Longterm(amps)
          /\ enabled' = (enabled /\ ~pin /\ amps # "instant" /\ Longterm(amps) < LONGTERM)
  /\ UNCHANGED <<time, reset, sinceOn, pdoVars>>

(* The loop goes on, or is left for a communication reset.                 *)
Pdo ==
  /\ pc = "pdo" /\ PdoSwitch(pdo_permit) /\ diff' = 0 /\ lasted' = 0
  /\ pc' = IF reset THEN "leave" ELSE "can"
  /\ UNCHANGED <<reset, quiet, loadVars>>

(* Mutant: the PDOs are not forbidden when the loop is left.               *)
LeaveLoop_Permitted ==
  /\ pc = "leave" /\ pc' = "comm"
  /\ UNCHANGED <<time, reset, loadVars, pdoVars>>
(* After the loop: pdo_switch_en_global(false).                            *)
LeaveLoop ==
  /\ pc = "leave" /\ pc' = "comm" /\ PdoSwitch(FALSE)
  /\ UNCHANGED <<time, reset, quiet, loadVars>>

Next ==
  \/ \E d \in 0 .. MaxDuration : CommReset(d)
  \/ \E d \in 0 .. MaxDuration, r \in BOOLEAN : CanPhase(d, r)
  \/ ConsoleOn \/ ConsoleOff \/ TransferCallback \/ NetDone
  \/ \E amps \in Amps, pin \in BOOLEAN : Load(amps, pin)
  \/ Pdo \/ LeaveLoop

Spec == Init /\ [][Next]_vars

-----------------------------------------------------------------------------
(* Types: one type invariant of the module.                                *)
PowerTypeOK ==
  /\ pc \in {"comm", "can", "net", "load", "pdo", "leave"}
  /\ diff \in 0 .. Wrap - 1 /\ lasted \in Nat /\ reset \in BOOLEAN
  /\ enabled \in BOOLEAN /\ timeout_on_ms \in 0 .. TIMEOUT_ON
  /\ timeout_cur_longterm_ms \in 0 .. LONGTERM
  /\ sinceOn \in 0 .. OnCap /\ warm \in 0 .. WarmCap /\ missed \in Nat
  /\ pdo_permit \in BOOLEAN /\ pdo_en \in BOOLEAN /\ isProducer \in BOOLEAN
  /\ quiet \in BOOLEAN

(* When the CAN stack gets to send a SYNC, the gateway is the producer if  *)
(* and only if the load is on and PDOs are permitted: whatever the order   *)
(* of trips, console commands, transfers and communication resets, which   *)
(* change the two sides of it at different places (pdo_router.c:14-48).    *)
SyncFollowsLoad == pc = "can" => (isProducer <=> pdo_permit /\ enabled)

(* After a firmware transfer has touched the bus, no SYNC is sent until    *)
(* the communication reset, whatever the load and the console do           *)
(* (tftp_server_callback.c, co_sdo_flasher.c: pdo_switch_en_global(false)).*)
QuietAfterTransfer == pc = "can" /\ quiet => ~isProducer

(* The load does not stay on under a fault.  Once the blanking time, as it *)
(* is measured, is over, not beyond the pass that sees the pin or the      *)
(* current.  With a current that is too high for long, not for longer than *)
(* the blanking and the long-term time together and what is not measured   *)
(* of it: the wraps of the mark in passes of 100 ms and more, and the      *)
(* communication resets.  However the passes cut the time, nothing else is *)
(* lost, though the long-term time stands still while the blanking runs    *)
(* (load_switcher_poll, prof_mark).                                        *)
TripsAtOnce(amps, pin) ==
  Load(amps, pin) /\ (pin \/ amps = "instant") /\ sinceOn >= TIMEOUT_ON => ~enabled'
OverloadEnds ==
  [][/\ \A amps \in Amps, pin \in BOOLEAN : TripsAtOnce(amps, pin)
     /\ pc = "load" /\ enabled' => warm' < TIMEOUT_ON + LONGTERM + missed']_vars
=============================================================================
