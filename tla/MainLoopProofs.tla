--------------------------- MODULE MainLoopProofs ---------------------------
(***************************************************************************)
(* What the main loop handles side by side (MCMainLoop): the power control *)
(* for all timeouts, the outlets for all durations of the measurement, the *)
(* LSS slave for every set of node-IDs and bit rates, and passes of any    *)
(* bounded length.                                                         *)
(***************************************************************************)
EXTENDS PowerControl, Outlets, LssSlave, TLAPS

-----------------------------------------------------------------------------
(* PowerControl *)

(* Outside the communication reset, pdo_en says what the producer does;    *)
(* when the loop starts a pass, both say what they should.                 *)
PdoInv ==
  /\ pc = "comm" => ~pdo_en
  /\ pc # "comm" => (isProducer <=> pdo_en)
  /\ pc = "can" => (pdo_en <=> pdo_permit /\ enabled)
  /\ quiet => ~pdo_permit

(* While the load is blanked, the time since it was switched on and the    *)
(* time left make up no more than the blanking time, the pass under way    *)
(* aside.                                                                  *)
BlankInv ==
  enabled /\ timeout_on_ms > 0 =>
    timeout_on_ms + sinceOn <= TIMEOUT_ON + (IF pc \in {"net", "load"} THEN diff ELSE 0)

(* No more is measured of a time than it takes.                            *)
TimeInv == diff <= lasted /\ (pc \in {"comm", "leave"} => diff = 0)

(* A high current is seen while the load is blanked, or counted, or not    *)
(* measured.                                                               *)
WarmInv ==
  enabled => \/ warm + timeout_on_ms <= TIMEOUT_ON + missed
             \/ /\ timeout_on_ms = 0 /\ timeout_cur_longterm_ms < LONGTERM
                /\ warm <= TIMEOUT_ON + timeout_cur_longterm_ms + missed

PowerInv == PowerTypeOK /\ PdoInv /\ TimeInv /\ BlankInv /\ WarmInv

(* The start: the load is on and blanked, the SYNC producer off.           *)
LEMMA PowerInitInv == Init => PowerInv
<1> SUFFICES ASSUME Init PROVE PowerInv
  OBVIOUS
<1>1. PowerTypeOK
  <2>1. TIMEOUT_ON \in Nat /\ LONGTERM \in Nat /\ MaxMissed \in Nat /\ Wrap \in Nat \ {0}
    BY TimeoutsAssumption
  <2>2. /\ 0 \in 0 .. Wrap - 1 /\ 0 \in Nat /\ TIMEOUT_ON \in 0 .. TIMEOUT_ON
        /\ 0 \in 0 .. LONGTERM /\ 0 \in 0 .. TIMEOUT_ON + LONGTERM
        /\ 0 \in 0 .. TIMEOUT_ON + LONGTERM + MaxMissed
    BY <2>1
  <2>3. /\ diff \in 0 .. Wrap - 1 /\ lasted \in Nat /\ timeout_on_ms \in 0 .. TIMEOUT_ON
        /\ timeout_cur_longterm_ms \in 0 .. LONGTERM /\ missed \in Nat
        /\ sinceOn \in 0 .. OnCap /\ warm \in 0 .. WarmCap
    BY <2>2, Zenon DEF Init, OnCap, WarmCap
  <2> QED BY <2>3 DEF Init, PowerTypeOK
<1>2. PdoInv
  BY DEF Init, PdoInv
<1>3. /\ timeout_on_ms = TIMEOUT_ON /\ sinceOn = 0 /\ warm = 0 /\ diff = 0 /\ lasted = 0
      /\ missed = 0 /\ TIMEOUT_ON \in Nat
  BY TimeoutsAssumption DEF Init
<1>4. TimeInv /\ BlankInv /\ WarmInv
  BY <1>3 DEF TimeInv, BlankInv, WarmInv
<1> QED BY <1>1, <1>2, <1>4 DEF PowerInv

(* The mark measures less than the wrap, and no more than the time it      *)
(* measures.                                                               *)
LEMMA MeasuredBound ==
  ASSUME NEW d \in Nat
  PROVE  Measured(d) \in 0 .. Wrap - 1 /\ Measured(d) <= d
<1>1. Wrap \in Nat \ {0}
  BY TimeoutsAssumption
<1>2. d % Wrap \in 0 .. Wrap - 1
  BY <1>1
<1>3. d % Wrap <= d
  BY <1>1
<1> QED BY <1>2, <1>3 DEF Measured

(* What a step does to the two times.                                      *)
LEMMA TimeStep == PowerTypeOK /\ TimeInv /\ Next => TimeInv' /\ diff' \in 0 .. Wrap - 1 /\ lasted' \in Nat
<1> SUFFICES ASSUME PowerTypeOK, TimeInv, Next
             PROVE  TimeInv' /\ diff' \in 0 .. Wrap - 1 /\ lasted' \in Nat
  OBVIOUS
<1>t. diff \in 0 .. Wrap - 1 /\ lasted \in Nat /\ Wrap \in Nat \ {0} /\ MaxDuration \in Nat
  BY TimeoutsAssumption DEF PowerTypeOK
<1>1. ASSUME NEW d \in 0 .. MaxDuration, CommReset(d)
      PROVE  TimeInv' /\ diff' \in 0 .. Wrap - 1 /\ lasted' \in Nat
  <2>1. diff = 0 /\ diff' = diff /\ lasted' = d /\ pc' = "can" /\ d \in Nat
    BY <1>1, <1>t DEF CommReset, TimeInv
  <2> QED BY <1>t, <2>1 DEF TimeInv
<1>2. ASSUME NEW d \in 0 .. MaxDuration, NEW r \in BOOLEAN, CanPhase(d, r)
      PROVE  TimeInv' /\ diff' \in 0 .. Wrap - 1 /\ lasted' \in Nat
  <2>1. diff' = Measured(d) /\ lasted' = lasted + d /\ pc' = "net"
    BY <1>2 DEF CanPhase
  <2>2. d \in Nat
    BY <1>t
  <2>3. Measured(d) \in 0 .. Wrap - 1 /\ Measured(d) <= d
    BY <2>2, MeasuredBound
  <2> QED BY <1>t, <2>1, <2>2, <2>3 DEF TimeInv
<1>3. CASE ConsoleOn \/ ConsoleOff \/ TransferCallback \/ NetDone
  <2>1. UNCHANGED <<diff, lasted>> /\ pc' \in {"net", "load"}
    BY <1>3 DEF ConsoleOn, ConsoleOff, TransferCallback, NetDone, time
  <2> QED BY <1>t, <2>1 DEF TimeInv
<1>4. ASSUME NEW amps \in Amps, NEW pin \in BOOLEAN, Load(amps, pin)
      PROVE  TimeInv' /\ diff' \in 0 .. Wrap - 1 /\ lasted' \in Nat
  <2>1. UNCHANGED <<diff, lasted>> /\ pc' = "pdo"
    BY <1>4 DEF Load, time
  <2> QED BY <1>t, <2>1 DEF TimeInv
<1>5. CASE Pdo
  <2>1. diff' = 0 /\ lasted' = 0
    BY <1>5 DEF Pdo
  <2> QED BY <1>t, <2>1 DEF TimeInv
<1>6. CASE LeaveLoop
  <2>1. UNCHANGED <<diff, lasted>> /\ pc = "leave"
    BY <1>6 DEF LeaveLoop, time
  <2> QED BY <1>t, <2>1 DEF TimeInv
<1> QED BY <1>1, <1>2, <1>3, <1>4, <1>5, <1>6 DEF Next

(* Every step keeps the types of the power control.                        *)
LEMMA PowerTypeStep == PowerTypeOK /\ TimeInv /\ Next => PowerTypeOK'
<1> SUFFICES ASSUME PowerTypeOK, TimeInv, Next PROVE PowerTypeOK'
  OBVIOUS
<1>t. diff' \in 0 .. Wrap - 1 /\ lasted' \in Nat
  BY TimeStep
<1>c. /\ TIMEOUT_ON \in Nat \ {0} /\ LONGTERM \in Nat \ {0} /\ Wrap \in Nat \ {0}
      /\ MaxMissed \in Nat /\ MaxDuration \in Nat
  BY TimeoutsAssumption
<1> USE <1>c DEF PowerTypeOK, OnCap, WarmCap
<1>1. ASSUME NEW d \in 0 .. MaxDuration, CommReset(d) PROVE PowerTypeOK'
  BY <1>1, <1>t DEF CommReset, loadVars
<1>2. ASSUME NEW d \in 0 .. MaxDuration, NEW r \in BOOLEAN, CanPhase(d, r) PROVE PowerTypeOK'
  <2>1. Measured(d) \in Nat
    BY MeasuredBound
  <2>2. sinceOn' \in 0 .. TIMEOUT_ON + LONGTERM
    BY <1>2, <2>1 DEF CanPhase, AtMost
  <2> QED BY <1>2, <1>t, <2>2 DEF CanPhase, pdoVars
<1>3. CASE ConsoleOn
  BY <1>3, <1>t DEF ConsoleOn, LoadOn, pdoVars
<1>4. CASE ConsoleOff
  BY <1>4, <1>t DEF ConsoleOff, LoadOff, pdoVars
<1>5. CASE TransferCallback
  <2>1. isProducer' \in BOOLEAN /\ pdo_en' \in BOOLEAN /\ pdo_permit' \in BOOLEAN
    BY <1>5 DEF TransferCallback, PdoSwitch
  <2> QED BY <1>5, <1>t, <2>1 DEF TransferCallback, loadVars
<1>6. CASE NetDone
  BY <1>6, <1>t DEF NetDone, loadVars, pdoVars
<1>7. ASSUME NEW amps \in Amps, NEW pin \in BOOLEAN, Load(amps, pin) PROVE PowerTypeOK'
  <2>1. timeout_on_ms' \in 0 .. TIMEOUT_ON
    BY <1>7 DEF Load, TimeoutOn
  <2>2. timeout_cur_longterm_ms' \in 0 .. LONGTERM
    BY <1>7 DEF Load, Longterm, AtMost
  <2>3. warm' \in 0 .. TIMEOUT_ON + LONGTERM + MaxMissed
    BY <1>7 DEF Load, AtMost
  <2>5. missed' \in Nat
    <3>1. missed' \in {0, missed + lasted - diff, missed}
      BY <1>7 DEF Load
    <3>2. diff <= lasted
      BY DEF TimeInv
    <3> QED BY <3>1, <3>2
  <2>4. enabled' \in BOOLEAN
    BY <1>7 DEF Load
  <2> QED BY <1>7, <1>t, <2>1, <2>2, <2>3, <2>4, <2>5 DEF Load, pdoVars
<1>8. CASE Pdo
  <2>1. isProducer' \in BOOLEAN /\ pdo_en' \in BOOLEAN /\ pdo_permit' \in BOOLEAN
    BY <1>8 DEF Pdo, PdoSwitch
  <2> QED BY <1>8, <1>t, <2>1 DEF Pdo, loadVars
<1>9. CASE LeaveLoop
  <2>1. isProducer' \in BOOLEAN /\ pdo_en' \in BOOLEAN /\ pdo_permit' \in BOOLEAN
    BY <1>9 DEF LeaveLoop, PdoSwitch
  <2> QED BY <1>9, <1>t, <2>1 DEF LeaveLoop, loadVars
<1> QED BY <1>1, <1>2, <1>3, <1>4, <1>5, <1>6, <1>7, <1>8, <1>9 DEF Next

(* pdo_switch_poll brings the producer in line with the two conditions.    *)
LEMMA PdoSwitchDoes ==
  ASSUME NEW permit \in BOOLEAN, PdoSwitch(permit),
         isProducer \in BOOLEAN, pdo_en \in BOOLEAN, isProducer <=> pdo_en
  PROVE  (pdo_en' <=> permit /\ enabled) /\ (isProducer' <=> pdo_en') /\ pdo_permit' = permit
BY DEF PdoSwitch

(* Every step keeps pdo_en and the producer in line where they must be.    *)
LEMMA PdoStep == PowerTypeOK /\ PdoInv /\ Next => PdoInv'
<1> SUFFICES ASSUME PowerTypeOK, PdoInv, Next PROVE PdoInv'
  OBVIOUS
<1>t. isProducer \in BOOLEAN /\ pdo_en \in BOOLEAN /\ pdo_permit \in BOOLEAN
      /\ enabled \in BOOLEAN
  BY DEF PowerTypeOK
<1>1. ASSUME NEW d, CommReset(d) PROVE PdoInv'
  BY <1>1, <1>t DEF CommReset, PdoInv, loadVars
<1>2. ASSUME NEW d, NEW r, CanPhase(d, r) PROVE PdoInv'
  BY <1>2 DEF CanPhase, PdoInv, pdoVars
<1>3. CASE ConsoleOn \/ ConsoleOff \/ NetDone
  BY <1>3 DEF ConsoleOn, ConsoleOff, NetDone, PdoInv, pdoVars
<1>4. CASE TransferCallback
  <2>1. PdoSwitch(FALSE) /\ pc = "net" /\ pc' = "net" /\ (isProducer <=> pdo_en)
    BY <1>4 DEF TransferCallback, PdoInv
  <2>2. (isProducer' <=> pdo_en') /\ pdo_permit' = FALSE
    BY <1>t, <2>1, PdoSwitchDoes
  <2> QED BY <2>1, <2>2 DEF PdoInv
<1>5. ASSUME NEW amps \in Amps, NEW pin \in BOOLEAN, Load(amps, pin) PROVE PdoInv'
  BY <1>5 DEF Load, PdoInv, pdoVars
<1>6. CASE Pdo
  <2>1. /\ PdoSwitch(pdo_permit) /\ pc = "pdo" /\ pc' \in {"leave", "can"}
        /\ (isProducer <=> pdo_en) /\ UNCHANGED <<quiet, enabled>>
    BY <1>6 DEF Pdo, PdoInv, loadVars
  <2>2. (pdo_en' <=> pdo_permit /\ enabled) /\ (isProducer' <=> pdo_en') /\ pdo_permit' = pdo_permit
    BY <1>t, <2>1, PdoSwitchDoes
  <2> QED BY <2>1, <2>2 DEF PdoInv
<1>7. CASE LeaveLoop
  <2>1. /\ PdoSwitch(FALSE) /\ pc = "leave" /\ pc' = "comm" /\ (isProducer <=> pdo_en)
    BY <1>7 DEF LeaveLoop, PdoInv
  <2>2. (pdo_en' <=> FALSE /\ enabled) /\ pdo_permit' = FALSE
    BY <1>t, <2>1, PdoSwitchDoes
  <2> QED BY <2>1, <2>2 DEF PdoInv
<1> QED BY <1>1, <1>2, <1>3, <1>4, <1>5, <1>6, <1>7 DEF Next

(* The sums that the steps below compare: w, t, c and e are what warm, the *)
(* blanking time left, the long-term time and missed were, l and d the     *)
(* real and the measured time of the pass.                                 *)
LEMMA PassSum ==
  ASSUME NEW w1 \in Nat, NEW w \in Nat, NEW t \in Nat, NEW d \in Nat, NEW l \in Nat,
         NEW e \in Nat, NEW max \in Nat, w1 <= w + l, w + t <= max + e
  PROVE  w1 + (t - d) <= max + (e + l - d)
OBVIOUS
LEMMA CountSum ==
  ASSUME NEW w1 \in Nat, NEW w \in Nat, NEW c \in Nat, NEW d \in Nat, NEW l \in Nat,
         NEW e \in Nat, NEW max \in Nat, w1 <= w + l, w <= max + c + e
  PROVE  w1 <= max + (c + d) + (e + l - d)
OBVIOUS

(* Time that was blanked, counted as overload or not measured, added up.   *)
LEMMA WarmBound ==
  ASSUME NEW w \in Nat, NEW t \in Nat, NEW c \in Nat, NEW e \in Nat, NEW max \in Nat,
         NEW long \in Nat \ {0}, w + t <= max + e \/ (c < long /\ w <= max + c + e)
  PROVE  w < max + long + e
OBVIOUS

(* Every step of the pass accounts for the time since the load was         *)
(* switched on.                                                            *)
LEMMA TimesStep ==
  PowerTypeOK /\ TimeInv /\ BlankInv /\ WarmInv /\ Next => BlankInv' /\ WarmInv'
<1> SUFFICES ASSUME PowerTypeOK, TimeInv, BlankInv, WarmInv, Next PROVE BlankInv' /\ WarmInv'
  OBVIOUS
<1>c. TIMEOUT_ON \in Nat /\ LONGTERM \in Nat \ {0} /\ MaxMissed \in Nat /\ MaxDuration \in Nat
  BY TimeoutsAssumption
<1>t. /\ timeout_on_ms \in Nat /\ sinceOn \in Nat /\ warm \in Nat /\ diff \in Nat
      /\ lasted \in Nat /\ missed \in Nat /\ timeout_cur_longterm_ms \in Nat
      /\ timeout_cur_longterm_ms <= LONGTERM
  BY <1>c DEF PowerTypeOK, OnCap, WarmCap
<1>1. ASSUME NEW d, CommReset(d) PROVE BlankInv' /\ WarmInv'
  <2>1. /\ pc = "comm" /\ pc' = "can"
        /\ UNCHANGED <<enabled, timeout_on_ms, timeout_cur_longterm_ms, sinceOn, warm, missed>>
    BY <1>1 DEF CommReset, loadVars
  <2> QED BY <1>t, <1>c, <2>1 DEF BlankInv, WarmInv
<1>2. ASSUME NEW d \in 0 .. MaxDuration, NEW r, CanPhase(d, r) PROVE BlankInv' /\ WarmInv'
  <2>m. d \in Nat /\ Measured(d) \in Nat
    BY <1>c, MeasuredBound
  <2>1. /\ pc = "can" /\ pc' = "net" /\ diff' = Measured(d)
        /\ UNCHANGED <<enabled, timeout_on_ms, timeout_cur_longterm_ms, warm, missed>>
        /\ (enabled => sinceOn' <= sinceOn + Measured(d) /\ sinceOn' \in Nat)
    BY <1>2, <1>t, <1>c, <2>m DEF CanPhase, AtMost, OnCap
  <2>2. BlankInv'
    BY <1>t, <1>c, <2>m, <2>1 DEF BlankInv
  <2> QED BY <2>1, <2>2 DEF WarmInv
<1>3. CASE ConsoleOn
  <2>1. timeout_on_ms' = TIMEOUT_ON /\ sinceOn' = 0 /\ warm' = 0 /\ missed' = 0 /\ diff' = diff
    BY <1>3 DEF ConsoleOn, LoadOn, time
  <2> QED BY <1>t, <1>c, <2>1 DEF BlankInv, WarmInv
<1>4. CASE ConsoleOff
  BY <1>4 DEF ConsoleOff, LoadOff, BlankInv, WarmInv
<1>5. CASE TransferCallback
  BY <1>5 DEF TransferCallback, BlankInv, WarmInv, loadVars, time
<1>6. CASE NetDone
  BY <1>6 DEF NetDone, BlankInv, WarmInv, loadVars, time
<1>7. ASSUME NEW amps \in Amps, NEW pin \in BOOLEAN, Load(amps, pin) PROVE BlankInv' /\ WarmInv'
  <2>1. /\ pc = "load" /\ pc' = "pdo" /\ UNCHANGED <<diff, sinceOn>>
        /\ timeout_on_ms' = TimeoutOn
    BY <1>7 DEF Load, time
  <2>w. warm' \in Nat /\ missed' \in Nat
    <3>1. PowerTypeOK'
      BY PowerTypeStep
    <3> QED BY <1>c, <3>1 DEF PowerTypeOK, OnCap, WarmCap
  <2>e. enabled' => enabled
    BY <1>7 DEF Load
  <2>l. amps = "low" => warm' = 0 /\ missed' = 0
    BY <1>7 DEF Load
  <2>2. enabled /\ amps # "low" => warm' <= warm + lasted /\ missed' = missed + lasted - diff
    BY <1>7, <1>t, <1>c DEF Load, AtMost, OnCap, WarmCap
  <2>3. CASE timeout_on_ms > diff
    <3>1. timeout_on_ms' = timeout_on_ms - diff /\ enabled' = enabled
      BY <1>7, <1>t, <2>1, <2>3 DEF Load, TimeoutOn
    <3>2. BlankInv'
      BY <1>t, <1>c, <2>1, <2>3, <3>1 DEF BlankInv
    <3>3. ASSUME enabled PROVE warm' + timeout_on_ms' <= TIMEOUT_ON + missed'
      <4>1. warm + timeout_on_ms <= TIMEOUT_ON + missed
        BY <1>t, <2>3, <3>3 DEF WarmInv
      <4>2. CASE amps = "low"
        <5>1. timeout_on_ms' <= TIMEOUT_ON
          BY <1>t, <1>c, <3>1 DEF PowerTypeOK
        <5> QED BY <1>t, <1>c, <2>l, <3>1, <4>2, <5>1
      <4>3. CASE amps # "low"
        <5>1. warm' <= warm + lasted /\ missed' = missed + lasted - diff
          BY <2>2, <3>3, <4>3
        <5>2. warm' + (timeout_on_ms - diff) <= TIMEOUT_ON + (missed + lasted - diff)
          BY <1>t, <1>c, <2>w, <4>1, <5>1, PassSum, Zenon
        <5> QED BY <3>1, <5>1, <5>2, Zenon
      <4> QED BY <4>2, <4>3
    <3> QED BY <3>1, <3>2, <3>3 DEF WarmInv
  <2>4. CASE ~(timeout_on_ms > diff)
    <3>1. /\ timeout_on_ms' = 0 /\ timeout_cur_longterm_ms' = Longterm(amps)
          /\ (enabled' => Longterm(amps) < LONGTERM)
      <4>1. TimeoutOn = 0
        BY <2>4 DEF TimeoutOn
      <4>2. ~(TimeoutOn > 0)
        BY <4>1
      <4>3. /\ timeout_cur_longterm_ms' = Longterm(amps)
            /\ enabled' = (enabled /\ ~pin /\ amps # "instant" /\ Longterm(amps) < LONGTERM)
        BY <1>7, <4>2 DEF Load
      <4> QED BY <2>1, <4>1, <4>3
    <3>2. CASE amps = "low"
      <4>1. timeout_cur_longterm_ms' = 0 /\ warm' = 0 /\ missed' = 0
        BY <2>l, <3>1, <3>2 DEF Longterm
      <4> QED BY <1>t, <1>c, <2>1, <3>1, <4>1 DEF BlankInv, WarmInv
    <3>3. CASE amps # "low"
      <4>1. enabled' => /\ timeout_cur_longterm_ms' = timeout_cur_longterm_ms + diff
                        /\ timeout_cur_longterm_ms' < LONGTERM
        BY <1>t, <1>c, <3>1, <3>3 DEF Longterm, AtMost
      <4>3. BlankInv'
        BY <3>1 DEF BlankInv
      <4>4. ASSUME enabled'
            PROVE  /\ timeout_on_ms' = 0 /\ timeout_cur_longterm_ms' < LONGTERM
                   /\ warm' <= TIMEOUT_ON + timeout_cur_longterm_ms' + missed'
        <5>1. warm' <= warm + lasted /\ missed' = missed + lasted - diff /\ enabled
          BY <2>e, <2>2, <3>3, <4>4
        <5>2. warm <= TIMEOUT_ON + timeout_cur_longterm_ms + missed
          BY <1>t, <1>c, <5>1 DEF WarmInv
        <5>3. warm' <= TIMEOUT_ON + (timeout_cur_longterm_ms + diff) + (missed + lasted - diff)
          BY <1>t, <1>c, <2>w, <5>1, <5>2, CountSum, Zenon
        <5> QED BY <3>1, <4>1, <4>4, <5>1, <5>3, Zenon
      <4> QED BY <4>3, <4>4 DEF WarmInv
    <3> QED BY <3>2, <3>3
  <2> QED BY <2>3, <2>4
<1>8. CASE Pdo
  <2>1. pc = "pdo" /\ diff' = 0 /\ UNCHANGED loadVars
    BY <1>8 DEF Pdo
  <2> QED BY <1>t, <1>c, <2>1 DEF BlankInv, WarmInv, loadVars
<1>9. CASE LeaveLoop
  BY <1>9, <1>t DEF LeaveLoop, BlankInv, WarmInv, loadVars, time
<1> QED BY <1>1, <1>2, <1>3, <1>4, <1>5, <1>6, <1>7, <1>8, <1>9 DEF Next

(* Every step keeps the invariant of the power control.                    *)
LEMMA PowerStepInv == PowerInv /\ [Next]_vars => PowerInv'
<1> SUFFICES ASSUME PowerInv, [Next]_vars PROVE PowerInv'
  OBVIOUS
<1>1. CASE Next
  BY <1>1, PowerTypeStep, PdoStep, TimeStep, TimesStep DEF PowerInv
<1>2. CASE UNCHANGED vars
  BY <1>2 DEF vars, time, loadVars, pdoVars, PowerInv, PowerTypeOK, PdoInv, TimeInv,
                BlankInv, WarmInv
<1> QED BY <1>1, <1>2

(* For every timeout: the types hold, the gateway sends SYNC exactly while *)
(* the load is on and PDOs are permitted, and never after a transfer.      *)
THEOREM PowerCorrect == Spec => [](PowerTypeOK /\ SyncFollowsLoad /\ QuietAfterTransfer)
<1>1. PowerInv => PowerTypeOK /\ SyncFollowsLoad /\ QuietAfterTransfer
  BY DEF PowerInv, PdoInv, SyncFollowsLoad, QuietAfterTransfer
<1> QED BY PowerInitInv, PowerStepInv, <1>1, PTL DEF Spec

(* load_switcher_poll switches off on a fault, and on a current that was   *)
(* high for long enough, as it is measured.                                *)
LEMMA TripStep ==
  ASSUME PowerInv, [Next]_vars
  PROVE  /\ \A amps \in Amps, pin \in BOOLEAN : TripsAtOnce(amps, pin)
         /\ pc = "load" /\ enabled' /\ ~UNCHANGED vars => warm' < TIMEOUT_ON + LONGTERM + missed'
<1>t. /\ timeout_on_ms \in Nat /\ sinceOn \in Nat /\ diff \in Nat
      /\ TIMEOUT_ON \in Nat /\ LONGTERM \in Nat \ {0} /\ enabled \in BOOLEAN
  BY TimeoutsAssumption DEF PowerInv, PowerTypeOK, OnCap
<1>1. ASSUME NEW amps \in Amps, NEW pin \in BOOLEAN, Load(amps, pin),
             pin \/ amps = "instant", sinceOn >= TIMEOUT_ON
      PROVE  ~enabled'
  <2>1. CASE ~enabled
    BY <1>1, <2>1 DEF Load
  <2>2. CASE enabled
    <3>1. ~(timeout_on_ms > diff)
      BY <1>1, <1>t, <2>2 DEF PowerInv, BlankInv, Load
    <3>2. ~(TimeoutOn > 0)
      BY <3>1 DEF TimeoutOn
    <3> QED BY <1>1, <3>2 DEF Load
  <2> QED BY <1>t, <2>1, <2>2
<1>2. PowerInv'
  BY PowerStepInv
<1>3. enabled' => warm' < TIMEOUT_ON + LONGTERM + missed'
  <2>1. warm' \in Nat /\ timeout_on_ms' \in Nat /\ timeout_cur_longterm_ms' \in Nat
        /\ missed' \in Nat
    BY <1>2, TimeoutsAssumption DEF PowerInv, PowerTypeOK, OnCap, WarmCap
  <2> SUFFICES ASSUME enabled' PROVE warm' < TIMEOUT_ON + LONGTERM + missed'
    OBVIOUS
  <2>2. \/ warm' + timeout_on_ms' <= TIMEOUT_ON + missed'
        \/ /\ timeout_cur_longterm_ms' < LONGTERM
           /\ warm' <= TIMEOUT_ON + timeout_cur_longterm_ms' + missed'
    BY <1>2 DEF PowerInv, WarmInv
  <2>3. TIMEOUT_ON \in Nat /\ LONGTERM \in Nat \ {0}
    BY TimeoutsAssumption
  <2> QED BY <2>1, <2>2, <2>3, WarmBound, Zenon
<1> QED BY <1>1, <1>3 DEF TripsAtOnce

(* The load does not stay on under a fault, for every timeout and every    *)
(* duration of the passes, those included of which the mark measures a     *)
(* part only: by no more than that the overload is longer.                 *)
THEOREM OverloadCorrect == Spec => OverloadEnds
<1>1. PowerInv /\ [Next]_vars =>
        [/\ \A amps \in Amps, pin \in BOOLEAN : TripsAtOnce(amps, pin)
         /\ pc = "load" /\ enabled' => warm' < TIMEOUT_ON + LONGTERM + missed']_vars
  BY TripStep
<1> QED BY PowerInitInv, PowerStepInv, <1>1, PTL DEF Spec, OverloadEnds

-----------------------------------------------------------------------------
(* Outlets *)

(* The longest a change of the mains can go unseen when a measurement      *)
(* begins: the one before, which had samples of both kinds, and the pause. *)
Unseen == TIME_ON + TIME_OFF + 2 * MaxPass - 2

(* The samples of a measurement agree with the mains as they are, unless   *)
(* the mains have changed, or were not sensed, since the measurement began.*)
SamplesInv ==
  wired /\ on_phase => steady <= tmr \/ cnt_on = (IF volts THEN cnt_hit ELSE 0)

(* How long the mains may have been steady while the verdict is wrong.     *)
VerdictInv ==
  wired /\ on # volts => steady <= tmr + (IF on_phase THEN Unseen ELSE TIME_ON + MaxPass - 1)

(* The outlet is what the last edge has made of it.                        *)
OutletInv ==
  /\ ~byHand => (Ch0 \in poe <=> prev_mains_sw_0)
  /\ step = "poe" => prev_mains_sw_0 = on

OutletsInv ==
  /\ OutletsTypeOK
  /\ tmr < (IF on_phase THEN TIME_ON ELSE TIME_OFF)
  /\ SamplesInv /\ VerdictInv /\ OutletInv

(* At the start nothing is measured and all outlets are off.               *)
LEMMA OutletsInitInv == OutletsInit => OutletsInv
<1> SUFFICES ASSUME OutletsInit PROVE OutletsInv
  OBVIOUS
<1>1. OutletsTypeOK
  <2>1. 0 \in 0 .. MaxPass /\ 0 \in 0 .. Settled /\ 0 \in 0 .. 0
    BY SenseAssumption DEF Settled
  <2> QED BY <2>1, Zenon DEF OutletsInit, OutletsTypeOK
<1> QED BY <1>1, SenseAssumption DEF OutletsInit, OutletsInv, SamplesInv, VerdictInv, OutletInv

(* A pass that is no sample leaves the mains sense as it is.               *)
LEMMA OtherPasses ==
  ASSUME OutletsInv, OutletsNext, UNCHANGED <<wired, senseVars, volts, steady>>,
         OutletsTypeOK', OutletInv'
  PROVE  OutletsInv'
BY DEF OutletsInv, SamplesInv, VerdictInv, senseVars

(* How steady the mains look after a poll.                                 *)
LEMMA SteadyStep ==
  ASSUME OutletsTypeOK, NEW v \in BOOLEAN, NEW sample \in BOOLEAN, MainsPoll(v, sample)
  PROVE  /\ steady' \in 0 .. Settled /\ volts' = v
         /\ ~sensed \/ v # volts => steady' = 0
         /\ v = volts => steady' <= steady + diff_ms
<1>1. Settled \in Nat /\ steady \in 0 .. Settled /\ diff_ms \in Nat
  BY SenseAssumption DEF OutletsTypeOK, Settled
<1>2. /\ volts' = v
      /\ steady' = IF ~sensed \/ v # volts THEN 0
               ELSE IF steady + diff_ms < Settled THEN steady + diff_ms ELSE Settled
  BY DEF MainsPoll
<1> QED BY <1>1, <1>2

(* The types of the mains sense, whatever the samples show.                *)
LEMMA SenseTypes ==
  ASSUME OutletsInv, NEW sample \in BOOLEAN, Measure(sample) \/ Pause
  PROVE  /\ tmr' \in Nat /\ cnt_on' \in 0 .. cnt_hit' /\ cnt_hit' \in Nat /\ on' \in BOOLEAN
         /\ on_phase' \in BOOLEAN /\ tmr' < (IF on_phase' THEN TIME_ON ELSE TIME_OFF)
<1>t. /\ TIME_ON \in Nat \ {0} /\ TIME_OFF \in Nat \ {0}
      /\ diff_ms \in Nat /\ tmr \in Nat /\ tmr < (IF on_phase THEN TIME_ON ELSE TIME_OFF)
      /\ cnt_hit \in Nat /\ cnt_on \in 0 .. cnt_hit /\ on \in BOOLEAN /\ on_phase \in BOOLEAN
  BY SenseAssumption DEF OutletsInv, OutletsTypeOK
<1>1. CASE Measure(sample)
  <2>1. cnt_on' \in 0 .. cnt_hit' /\ cnt_hit' \in Nat
    BY <1>t, <1>1 DEF Measure
  <2>2. CASE tmr + diff_ms >= TIME_ON
    <3>1. tmr' = 0 /\ on_phase' = FALSE /\ on' \in BOOLEAN
      BY <1>1, <2>2 DEF Measure, MostHit
    <3>2. tmr' \in Nat /\ tmr' < TIME_OFF
      BY <1>t, <3>1
    <3> QED BY <2>1, <3>1, <3>2
  <2>3. CASE ~(tmr + diff_ms >= TIME_ON)
    <3>1. tmr' = tmr + diff_ms /\ on_phase' = on_phase /\ on' = on /\ on_phase
      BY <1>1, <2>3 DEF Measure
    <3>2. tmr' \in Nat /\ tmr' < TIME_ON
      BY <1>t, <2>3, <3>1
    <3> QED BY <1>t, <2>1, <3>1, <3>2
  <2> QED BY <2>2, <2>3
<1>2. CASE Pause
  <2>1. CASE tmr + diff_ms >= TIME_OFF
    <3>1. tmr' = 0 /\ on_phase' = TRUE /\ on' = on /\ cnt_on' = 0 /\ cnt_hit' = 0
      BY <1>2, <2>1 DEF Pause, StartMeasuring
    <3> QED BY <1>t, <3>1
  <2>2. CASE ~(tmr + diff_ms >= TIME_OFF)
    <3>1. /\ tmr' = tmr + diff_ms /\ on_phase' = on_phase /\ on' = on /\ ~on_phase
          /\ cnt_on' = cnt_on /\ cnt_hit' = cnt_hit
      BY <1>2, <2>2 DEF Pause
    <3>2. tmr' \in Nat /\ tmr' < TIME_OFF
      BY <1>t, <2>2, <3>1
    <3> QED BY <1>t, <3>1, <3>2
  <2> QED BY <2>1, <2>2
<1> QED BY <1>1, <1>2

(* Nothing is polled: the mains count as steady from now on.               *)
LEMMA UnsensedStep ==
  ASSUME OutletsInv, NEW v \in BOOLEAN, NEW sample \in BOOLEAN, MainsPoll(v, sample), ~sensed
  PROVE  /\ UNCHANGED senseVars
         /\ SamplesInv' /\ VerdictInv'
<1>1. UNCHANGED senseVars
  BY DEF MainsPoll
<1>2. steady' = 0
  BY SteadyStep DEF OutletsInv
<1>3. tmr' \in Nat /\ steady' \in Nat
  BY <1>1, <1>2 DEF OutletsInv, OutletsTypeOK, senseVars
<1>4. Unseen \in Nat /\ TIME_ON + MaxPass - 1 \in Nat
  BY SenseAssumption DEF Unseen
<1>5. ASSUME NEW n \in Nat PROVE steady' <= tmr' + n
  <2>1. \A t \in Nat : 0 <= t + n
    OBVIOUS
  <2> QED BY <1>2, <1>3, <2>1
<1>6. SamplesInv'
  BY <1>2, <1>3 DEF SamplesInv
<1>7. VerdictInv'
  <2>1. steady' <= tmr' + Unseen /\ steady' <= tmr' + (TIME_ON + MaxPass - 1)
    BY <1>4, <1>5
  <2>2. CASE on_phase'
    BY <2>1, <2>2 DEF VerdictInv, Unseen
  <2>3. CASE ~on_phase'
    BY <2>1, <2>3 DEF VerdictInv, Unseen
  <2> QED BY <2>2, <2>3
<1> QED BY <1>1, <1>6, <1>7

(* A sample of a measurement by a circuit that is set up.                  *)
LEMMA MeasureStep ==
  ASSUME OutletsInv, NEW v \in BOOLEAN, MainsPoll(v, v), wired, Measure(v)
  PROVE  SamplesInv' /\ VerdictInv'
<1>t. /\ TIME_ON \in Nat \ {0} /\ TIME_OFF \in Nat \ {0} /\ MaxPass \in Nat \ {0}
      /\ diff_ms \in 0 .. MaxPass /\ tmr \in Nat /\ tmr < TIME_ON /\ steady \in Nat
      /\ cnt_hit \in Nat /\ cnt_on \in 0 .. cnt_hit /\ on \in BOOLEAN /\ volts \in BOOLEAN
      /\ on_phase
  BY SenseAssumption DEF OutletsInv, OutletsTypeOK, Measure
<1>1. /\ steady' \in Nat /\ volts' = v
      /\ v # volts => steady' = 0
      /\ v = volts => steady' <= steady + diff_ms
  BY SteadyStep DEF OutletsInv
<1>2. cnt_on' = cnt_on + (IF v THEN 1 ELSE 0) /\ cnt_hit' = cnt_hit + 1
  BY DEF Measure
<1>4. steady' <= tmr + diff_ms \/ cnt_on' = (IF v THEN cnt_hit' ELSE 0)
  BY <1>t, <1>1, <1>2 DEF OutletsInv, SamplesInv
<1>5. CASE tmr + diff_ms >= TIME_ON
  <2>1. tmr' = 0 /\ on_phase' = FALSE /\ on' = (cnt_on' > cnt_hit' \div 2)
    BY <1>5 DEF Measure, MostHit
  <2>2. SamplesInv'
    BY <2>1 DEF SamplesInv
  <2>3. cnt_on' = (IF v THEN cnt_hit' ELSE 0) => on' = v
    <3>1. cnt_hit' > cnt_hit' \div 2 /\ ~(0 > cnt_hit' \div 2)
      BY <1>t, <1>2
    <3> QED BY <2>1, <3>1
  <2>4. steady' <= tmr + diff_ms => steady' <= TIME_ON + MaxPass - 1
    BY <1>t, <1>1
  <2>5. VerdictInv'
    BY <1>t, <1>1, <1>4, <2>1, <2>3, <2>4 DEF VerdictInv
  <2> QED BY <2>2, <2>5
<1>6. CASE ~(tmr + diff_ms >= TIME_ON)
  <2>1. tmr' = tmr + diff_ms /\ on_phase' = on_phase /\ on' = on
    BY <1>6 DEF Measure
  <2>3. SamplesInv'
    BY <1>t, <1>1, <1>4, <2>1 DEF SamplesInv
  <2>4. VerdictInv'
    <3>1. Unseen \in Nat
      BY <1>t DEF Unseen
    <3>2. on # volts => steady <= tmr + Unseen
      BY <1>t DEF OutletsInv, VerdictInv
    <3>3. on' # volts' => steady' <= tmr' + Unseen
      BY <1>t, <1>1, <2>1, <3>1, <3>2
    <3> QED BY <1>t, <2>1, <3>3 DEF VerdictInv, Unseen
  <2> QED BY <2>3, <2>4
<1> QED BY <1>5, <1>6

(* A pass of the pause.                                                    *)
LEMMA PauseStep ==
  ASSUME OutletsInv, NEW v \in BOOLEAN, NEW sample \in BOOLEAN, MainsPoll(v, sample),
         wired, Pause
  PROVE  SamplesInv' /\ VerdictInv'
<1>t. /\ TIME_ON \in Nat \ {0} /\ TIME_OFF \in Nat \ {0} /\ MaxPass \in Nat \ {0}
      /\ diff_ms \in 0 .. MaxPass /\ tmr \in Nat /\ tmr < TIME_OFF /\ steady \in Nat
      /\ cnt_hit \in Nat /\ cnt_on \in 0 .. cnt_hit /\ on \in BOOLEAN /\ volts \in BOOLEAN
      /\ on_phase \in BOOLEAN /\ ~on_phase /\ on' = on
  BY SenseAssumption DEF OutletsInv, OutletsTypeOK, Pause
<1>1. /\ steady' \in Nat /\ volts' = v
      /\ v # volts => steady' = 0
      /\ v = volts => steady' <= steady + diff_ms
  BY SteadyStep DEF OutletsInv
<1>2. on # volts => steady <= tmr + (TIME_ON + MaxPass - 1)
  BY <1>t DEF OutletsInv, VerdictInv
<1>3. on' # volts' => steady' <= tmr + diff_ms + (TIME_ON + MaxPass - 1)
  BY <1>t, <1>1, <1>2
<1>4. CASE tmr + diff_ms >= TIME_OFF
  <2>1. tmr' = 0 /\ on_phase' = TRUE /\ cnt_on' = 0 /\ cnt_hit' = 0
    BY <1>4 DEF Pause, StartMeasuring
  <2>2. on' # volts' => steady' <= Unseen
    BY <1>t, <1>1, <1>3 DEF Unseen
  <2>3. SamplesInv'
    BY <2>1 DEF SamplesInv
  <2>4. VerdictInv'
    BY <1>t, <1>1, <2>1, <2>2 DEF VerdictInv, Unseen
  <2> QED BY <2>3, <2>4
<1>5. CASE ~(tmr + diff_ms >= TIME_OFF)
  <2>1. /\ tmr' = tmr + diff_ms /\ on_phase' = on_phase
        /\ cnt_on' = cnt_on /\ cnt_hit' = cnt_hit
    BY <1>5 DEF Pause
  <2>2. SamplesInv'
    BY <1>t, <2>1 DEF SamplesInv
  <2>3. VerdictInv'
    BY <1>t, <1>1, <1>3, <2>1 DEF VerdictInv
  <2> QED BY <2>2, <2>3
<1> QED BY <1>4, <1>5

(* Every step of the pass keeps the invariant of the outlets.              *)
LEMMA OutletsStepInv == OutletsInv /\ [OutletsNext]_outletVars => OutletsInv'
<1> SUFFICES ASSUME OutletsInv, [OutletsNext]_outletVars PROVE OutletsInv'
  OBVIOUS
<1>t. OutletsTypeOK /\ OutletInv
  BY DEF OutletsInv
<1>1. ASSUME NEW d \in 0 .. MaxPass, StartPass(d) PROVE OutletsInv'
  <2>1. OutletsTypeOK' /\ OutletInv' /\ UNCHANGED mainsVars
    BY <1>1, <1>t DEF StartPass, OutletsTypeOK, OutletInv, mainsVars, senseVars, poeVars
  <2> QED BY <1>1, <2>1, OtherPasses DEF OutletsNext, mainsVars
<1>2. ASSUME NEW c \in Channel, NEW en \in BOOLEAN, ConsolePoe(c, en) PROVE OutletsInv'
  <2>1. OutletsTypeOK' /\ UNCHANGED mainsVars
    BY <1>2, <1>t DEF ConsolePoe, OutletsTypeOK, mainsVars, senseVars
  <2>2. OutletInv'
    BY <1>2, <1>t DEF ConsolePoe, OutletInv
  <2> QED BY <1>2, <2>1, <2>2, OtherPasses DEF OutletsNext, mainsVars
<1>3. ASSUME NEW c \in Channel, ConsoleBit(c) PROVE OutletsInv'
  <2>1. OutletsTypeOK' /\ OutletInv' /\ UNCHANGED mainsVars
    BY <1>3, <1>t DEF ConsoleBit, OutletsTypeOK, OutletInv, mainsVars, senseVars
  <2> QED BY <1>3, <2>1, OtherPasses DEF OutletsNext, mainsVars
<1>4. CASE NetEnd
  <2>1. OutletsTypeOK' /\ OutletInv' /\ UNCHANGED mainsVars
    BY <1>4, <1>t DEF NetEnd, OutletsTypeOK, OutletInv, mainsVars, senseVars, poeVars
  <2> QED BY <1>4, <2>1, OtherPasses DEF OutletsNext, mainsVars
<1>5. ASSUME NEW v \in BOOLEAN, NEW sample \in BOOLEAN, MainsPoll(v, sample) PROVE OutletsInv'
  <2>1. /\ tmr' \in Nat /\ cnt_on' \in 0 .. cnt_hit' /\ cnt_hit' \in Nat /\ on' \in BOOLEAN
        /\ on_phase' \in BOOLEAN /\ tmr' < (IF on_phase' THEN TIME_ON ELSE TIME_OFF)
    <3>1. CASE sensed
      <4>1. Measure(sample) \/ Pause
        BY <1>5, <3>1 DEF MainsPoll
      <4> QED BY <4>1, SenseTypes
    <3>2. CASE ~sensed
      <4>1. UNCHANGED senseVars
        BY <1>5, <3>2, UnsensedStep
      <4> QED BY <4>1 DEF OutletsInv, OutletsTypeOK, senseVars
    <3> QED BY <3>1, <3>2
  <2>2. SamplesInv' /\ VerdictInv'
    <3>1. CASE ~sensed
      BY <1>5, <3>1, UnsensedStep
    <3>2. CASE ~wired
      BY <1>5, <3>2 DEF MainsPoll, SamplesInv, VerdictInv
    <3>3. CASE sensed /\ wired
      <4>1. sample = v /\ (Measure(sample) \/ Pause)
        BY <1>5, <3>3 DEF MainsPoll
      <4>2. CASE Measure(sample)
        <5>1. MainsPoll(v, v) /\ Measure(v)
          BY <1>5, <4>1, <4>2
        <5> QED BY <3>3, <5>1, MeasureStep
      <4>3. CASE Pause
        BY <1>5, <3>3, <4>3, PauseStep
      <4> QED BY <4>1, <4>2, <4>3
    <3> QED BY <3>1, <3>2, <3>3
  <2>3. steady' \in 0 .. Settled /\ volts' = v
    BY <1>t, <1>5, SteadyStep
  <2>4. step' = "edge" /\ UNCHANGED <<sensed, wired, diff_ms, poeVars>>
    BY <1>5 DEF MainsPoll
  <2>5. OutletsTypeOK' /\ OutletInv'
    BY <1>t, <2>1, <2>3, <2>4 DEF OutletsTypeOK, OutletInv, poeVars
  <2> QED BY <2>1, <2>2, <2>5 DEF OutletsInv
<1>9. CASE ConsoleSense
  <2>1. /\ OutletsTypeOK' /\ OutletInv' /\ UNCHANGED <<wired, senseVars, volts, steady>>
    BY <1>9, <1>t DEF ConsoleSense, OutletsTypeOK, OutletInv, senseVars, poeVars
  <2> QED BY <1>9, <2>1, OtherPasses DEF OutletsNext
<1>6. CASE Edge
  <2>1. OutletsTypeOK' /\ UNCHANGED mainsVars
    BY <1>6, <1>t, ChannelAssumption DEF Edge, OutletsTypeOK, mainsVars, senseVars
  <2>2. OutletInv'
    BY <1>6, <1>t DEF Edge, OutletInv, OutletsTypeOK, mainsVars, senseVars
  <2> QED BY <1>6, <2>1, <2>2, OtherPasses DEF OutletsNext, mainsVars
<1>7. ASSUME NEW over \in SUBSET Sensors, PoePoll(over) PROVE OutletsInv'
  <2>1. OutletsTypeOK' /\ UNCHANGED mainsVars
    BY <1>7, <1>t, SenseAssumption DEF PoePoll, OutletsTypeOK, mainsVars, senseVars
  <2>2. OutletInv'
    BY <1>7, <1>t DEF PoePoll, OutletInv
  <2> QED BY <1>7, <2>1, <2>2, OtherPasses DEF OutletsNext, mainsVars
<1>8. CASE UNCHANGED outletVars
  BY <1>8 DEF outletVars, mainsVars, senseVars, poeVars, OutletsInv, OutletsTypeOK,
                SamplesInv, VerdictInv, OutletInv
<1> QED BY <1>1, <1>2, <1>3, <1>4, <1>5, <1>6, <1>7, <1>8, <1>9 DEF OutletsNext

(* For every duration of measurement, pause and pass, any number of        *)
(* samples, and sensing that is switched off and on: the outlet follows    *)
(* the mains while they are sensed by a circuit that is set up.            *)
THEOREM OutletsCorrect == OutletsSpec => [](OutletsTypeOK /\ OutletFollowsMains)
<1>1. OutletsInv => OutletsTypeOK /\ OutletFollowsMains
  <2> SUFFICES ASSUME OutletsInv PROVE OutletFollowsMains
    BY DEF OutletsInv
  <2>1. wired /\ steady >= Settled => on = volts
    <3>1. /\ TIME_ON \in Nat \ {0} /\ TIME_OFF \in Nat \ {0} /\ MaxPass \in Nat \ {0}
          /\ tmr \in Nat /\ steady \in Nat /\ tmr < (IF on_phase THEN TIME_ON ELSE TIME_OFF)
      BY SenseAssumption DEF OutletsInv, OutletsTypeOK
    <3> QED BY <3>1 DEF OutletsInv, VerdictInv, Unseen, Settled
  <2> QED BY <2>1 DEF OutletsInv, OutletInv, OutletFollowsMains
<1> QED BY OutletsInitInv, OutletsStepInv, <1>1, PTL DEF OutletsSpec

-----------------------------------------------------------------------------
(* LssSlave *)

(* What is pending or stored can be put into force, or was given to the    *)
(* console.                                                                *)
Usable == Initialisable \union accepted
RatesInv ==
  /\ pendingBitRate \in Usable /\ bitRate \in Supported
  /\ accepted \subseteq Supported /\ accepted \subseteq ConsoleRate
  /\ pendingNodeID \in Id /\ activeNodeID \in Id
  /\ stored \in [id : Id, rate : Usable] \union {None}
  /\ up = "dead" => pendingBitRate \notin Initialisable

(* A slave that waits has nothing to process that configures it.           *)
ServiceInv ==
  /\ service \in Services \union {None}
  /\ lssState \in {"waiting", "configuration"}
  /\ lssState = "waiting" =>
       service \in {None, [cs |-> "global"], [cs |-> "identity"]}

IdleInv ==
  up = "run" /\ activeNodeID = Unset /\ pendingNodeID # Unset /\ lssState = "waiting"
    => service = [cs |-> "global"] \/ restored

(* A slave that has heard the start of the scan is where the master is, or *)
(* behind it once it did not confirm a part; so it is never where a part   *)
(* is looked at again, nor at the last.                                    *)
ScanInv ==
  /\ fastscanPos \in Part /\ scanAt \in Part \union {None} /\ lssSelect \subseteq Part
  /\ byFastscan \in BOOLEAN /\ deaf \in BOOLEAN /\ differs \in BOOLEAN
  /\ scanAt \in Part => /\ ~deaf => fastscanPos <= scanAt
                        /\ ~deaf /\ differs => fastscanPos < scanAt
                        /\ differs => scanAt > 0
  /\ byFastscan => lssState = "configuration" /\ (deaf \/ (~differs /\ scanAt = None))

LssInv ==
  /\ up \in {"start", "run", "dead"} /\ restored \in BOOLEAN
  /\ RatesInv /\ ServiceInv /\ IdleInv /\ ScanInv

-----------------------------------------------------------------------------
(* The rates of the table and of the console as sets of numbers.           *)
LEMMA RateSets ==
  /\ Supported \subseteq Nat /\ Initialisable \subseteq Supported
  /\ \A rate \in TableRate \intersect Supported : rate \in Initialisable
<1>1. Supported \subseteq (TableRate \union ConsoleRate) \ {0}
  BY DEF Supported
<1>2. Initialisable \subseteq Supported
  BY DEF Initialisable
<1>3. ASSUME NEW rate \in TableRate \intersect Supported PROVE rate \in Initialisable
  <2>1. rate \in 10 .. 1000
    BY <1>1, LssRates
  <2> QED BY <2>1 DEF Initialisable
<1> QED BY <1>1, <1>2, <1>3, LssAssumption

(* The service codes of requests.                                          *)
LEMMA ServiceCodes ==
  ASSUME NEW s \in Services
  PROVE  /\ s # None
         /\ s.cs = "rate" => s.rate \in TableRate
         /\ s.cs \in {"global", "select", "id", "rate", "activate", "store", "identity"}
  BY LssNone DEF Services, Requests, Identity

(* Init.                                                                   *)
LEMMA InitLssInv == LssInit => LssInv
<1> SUFFICES ASSUME LssInit PROVE LssInv
  OBVIOUS
<1> USE DEF LssInit
<1>1. RatesInv
  BY LssAssumption, LssRates, RateSets DEF RatesInv, Usable
<1>2. ServiceInv /\ IdleInv
  BY LssAssumption DEF ServiceInv, IdleInv
<1>3. ScanInv
  <2>1. scanAt = None /\ scanAt \notin Part
    BY LssAssumption
  <2>2. 0 \in Part /\ fastscanPos = 0 /\ lssSelect = {}
    BY DEF Part
  <2> QED BY <2>1, <2>2, Zenon DEF ScanInv
<1> QED BY <1>1, <1>2, <1>3 DEF LssInv

(* A slave that is initialised starts over with the scan.                  *)
LEMMA ClearedScan == ScanInv /\ Cleared /\ UNCHANGED scan => ScanInv'
<1> SUFFICES ASSUME ScanInv, Cleared, UNCHANGED scan PROVE ScanInv'
  OBVIOUS
<1>1. /\ fastscanPos' = 0 /\ lssSelect' = {} /\ byFastscan' = FALSE /\ deaf' = FALSE
      /\ scanAt' = scanAt /\ differs' = differs
  BY DEF Cleared, scan
<1>2. 0 \in Part /\ (scanAt \in Part => 0 <= scanAt)
  BY DEF Part
<1>3. scanAt \in Part /\ differs => 0 < scanAt
  BY DEF ScanInv, Part
<1> QED BY <1>1, <1>2, <1>3 DEF ScanInv

-----------------------------------------------------------------------------
(* The steps outside the slave: reset, console.                            *)
LEMMA OtherSteps ==
  ASSUME LssInv,
         LssBoot \/ CanInit \/ NmtReset \/ Save \/ Restore
           \/ \E rate \in ConsoleRate, nodes \in BOOLEAN : can_baud(rate, nodes)
  PROVE  LssInv'
<1> USE DEF LssInv
<1>1. CASE LssBoot
  <2>1. RatesInv'
    BY <1>1, LssAssumption, LssRates DEF RatesInv, Usable, LssBoot, history
  <2>2. ServiceInv' /\ IdleInv' /\ up' \in {"start", "run", "dead"} /\ restored' \in BOOLEAN
    BY <1>1 DEF ServiceInv, IdleInv, LssBoot, Cleared, history
  <2>3. ScanInv'
    BY <1>1, ClearedScan DEF LssBoot
  <2> QED BY <2>1, <2>2, <2>3
<1>2. CASE CanInit
  <2>1. UNCHANGED <<pending, stored, scan, accepted>>
    BY <1>2 DEF CanInit
  <2>2. CASE pendingBitRate \in Initialisable
    <3>1. /\ up' = "run" /\ bitRate' = pendingBitRate /\ activeNodeID' = pendingNodeID
          /\ Cleared /\ restored' = FALSE
      BY <1>2, <2>2 DEF CanInit
    <3>2. RatesInv'
      BY <2>1, <2>2, <3>1, RateSets DEF RatesInv, Usable, pending
    <3>3. ServiceInv' /\ IdleInv'
      BY <2>1, <3>1 DEF ServiceInv, IdleInv, Cleared, pending
    <3>4. ScanInv'
      BY <2>1, <3>1, ClearedScan
    <3> QED BY <3>1, <3>2, <3>3, <3>4
  <2>3. CASE pendingBitRate \notin Initialisable
    <3>1. up' = "dead" /\ UNCHANGED <<bitRate, activeNodeID, slave, restored>>
      BY <1>2, <2>3 DEF CanInit
    <3>2. RatesInv'
      BY <2>1, <2>3, <3>1 DEF RatesInv, Usable, pending
    <3> QED BY <2>1, <3>1, <3>2 DEF ServiceInv, IdleInv, ScanInv, slave, scan
  <2> QED BY <2>2, <2>3
<1>3. CASE NmtReset
  BY <1>3 DEF NmtReset, RatesInv, Usable, ServiceInv, IdleInv, ScanInv, pending, slave, scan,
              history
<1>4. CASE Save
  <2>1. RatesInv'
    BY <1>4 DEF Save, RatesInv, Usable, pending, history
  <2> QED BY <1>4, <2>1 DEF Save, ServiceInv, IdleInv, ScanInv, pending, slave, scan, history
<1>5. CASE Restore
  <2>1. RatesInv'
    BY <1>5 DEF Restore, LoadStored, RatesInv, Usable
  <2> QED BY <1>5, <2>1 DEF Restore, ServiceInv, IdleInv, ScanInv, slave, scan
<1>6. ASSUME NEW rate \in ConsoleRate, NEW nodes \in BOOLEAN, can_baud(rate, nodes)
      PROVE  LssInv'
  <2>1. /\ accepted' = accepted \union ({rate} \ TableRate) /\ pendingBitRate' = rate
        /\ up = "run" /\ rate \in Supported
        /\ UNCHANGED <<up, pendingNodeID, activeNodeID, bitRate, stored>>
    BY <1>6 DEF can_baud
  <2>2. rate \in Initialisable \union accepted'
    BY <2>1, RateSets
  <2>3. accepted \subseteq accepted' /\ accepted' \subseteq Supported
        /\ accepted' \subseteq ConsoleRate
    BY <2>1 DEF RatesInv
  <2>4. RatesInv'
    BY <2>1, <2>2, <2>3 DEF RatesInv, Usable
  <2> QED BY <1>6, <2>4 DEF can_baud, ServiceInv, IdleInv, ScanInv, slave, scan
<1> QED BY <1>1, <1>2, <1>3, <1>4, <1>5, <1>6

(* Receiving leaves the rates alone.                                       *)
LEMMA ReceiveRates ==
  ASSUME LssInv, UNCHANGED <<up, pending, activeNodeID, bitRate, stored, history>>
  PROVE  /\ up' \in {"start", "run", "dead"} /\ RatesInv'
         /\ pendingNodeID' = pendingNodeID /\ activeNodeID' = activeNodeID
         /\ restored' = restored /\ restored' \in BOOLEAN
BY DEF LssInv, RatesInv, Usable, pending, history

(* The messages of the master.                                             *)
LEMMA SwitchSteps ==
  ASSUME LssInv, SwitchWaiting \/ SwitchConfiguration \/ Request
  PROVE  LssInv'
<1> USE DEF LssInv
<1>1. /\ service = None /\ UNCHANGED <<deaf, scan>>
      /\ UNCHANGED <<up, pending, activeNodeID, bitRate, stored, history>>
  BY DEF SwitchWaiting, SwitchConfiguration, Request, Receive
<1>2. RatesInv' /\ up' \in {"start", "run", "dead"} /\ restored' \in BOOLEAN
  BY <1>1, ReceiveRates
<1>3. CASE SwitchWaiting
  <2>1. ServiceInv'
    BY <1>3, <1>1 DEF SwitchWaiting, ServiceInv, Services
  <2>2. IdleInv'
    BY <1>3, <1>1, ReceiveRates, LssNone DEF SwitchWaiting, GetsId, IdleInv, ServiceInv, Services
  <2>3. ScanInv'
    BY <1>1, <1>3 DEF SwitchWaiting, ScanInv, scan
  <2> QED BY <1>2, <2>1, <2>2, <2>3
<1>4. CASE SwitchConfiguration
  BY <1>4, <1>1, <1>2 DEF SwitchConfiguration, ServiceInv, IdleInv, ScanInv, scan
<1>5. CASE Request
  BY <1>5, <1>1, <1>2 DEF Request, Services, ServiceInv, IdleInv, ScanInv, scan
<1> QED BY <1>3, <1>4, <1>5

(* A slave that waits with nothing to process is not idle with a new ID.   *)
LEMMA SelectStep ==
  ASSUME LssInv, NEW part \in Part, NEW match \in BOOLEAN, Select(part, match)
  PROVE  LssInv'
<1> USE DEF LssInv
<1>1. /\ service = None /\ UNCHANGED <<deaf, scan>> /\ lssState = "waiting"
      /\ UNCHANGED <<up, pending, activeNodeID, bitRate, stored, history>>
  BY DEF Select, Receive
<1>2. RatesInv' /\ up' \in {"start", "run", "dead"} /\ restored' \in BOOLEAN
  BY <1>1, ReceiveRates
<1>3. ServiceInv'
  BY <1>1 DEF Select, ServiceInv, Services
<1>4. IdleInv'
  BY <1>1, ReceiveRates, LssNone DEF Select, IdleInv, Services
<1>5. ScanInv'
  BY <1>1 DEF Select, ScanInv, scan
<1> QED BY <1>2, <1>3, <1>4, <1>5

(* A message of a scan that the slave has nothing to do with.              *)
LEMMA KeptStep ==
  ASSUME LssInv, Kept, UNCHANGED <<up, pending, activeNodeID, bitRate, stored, history>>,
         UNCHANGED lssState
  PROVE  ServiceInv' /\ IdleInv'
<1>1. service' = service \/ (service' = Identity /\ lssState = "configuration")
  BY DEF Kept
<1>2. ServiceInv'
  BY <1>1 DEF LssInv, ServiceInv, Services, Requests
<1>3. IdleInv'
  BY <1>1 DEF LssInv, IdleInv, pending, history
<1> QED BY <1>2, <1>3

(* A scan starts: the slave starts over, or has missed it.                 *)
LEMMA ConfirmStep == LssInv /\ FastscanConfirm => LssInv'
<1> SUFFICES ASSUME LssInv, FastscanConfirm PROVE LssInv'
  OBVIOUS
<1> USE DEF LssInv
<1>1. /\ scanAt' = 0 /\ differs' = FALSE /\ deaf' = ~TakesPart
      /\ UNCHANGED <<up, pending, activeNodeID, bitRate, stored, history>>
      /\ UNCHANGED <<lssState, lssSelect, byFastscan>>
  BY DEF FastscanConfirm
<1>2. RatesInv' /\ up' \in {"start", "run", "dead"} /\ restored' \in BOOLEAN
  BY <1>1, ReceiveRates
<1>3. CASE TakesPart
  <2>1. service' = Identity /\ fastscanPos' = 0 /\ deaf' = FALSE /\ lssState = "waiting"
    BY <1>1, <1>3 DEF FastscanConfirm, TakesPart
  <2>2. ServiceInv' /\ IdleInv'
    BY <1>1, <1>3, <2>1 DEF ServiceInv, IdleInv, TakesPart, Unassigned, Services, Requests,
                            Identity, pending
  <2>3. ~byFastscan
    BY <2>1 DEF ScanInv
  <2>4. 0 \in Part /\ 0 <= 0
    BY DEF Part
  <2>5. ScanInv'
    BY <1>1, <2>1, <2>3, <2>4 DEF ScanInv
  <2> QED BY <1>2, <2>2, <2>5
<1>4. CASE ~TakesPart
  <2>1. Kept /\ fastscanPos' = fastscanPos /\ deaf' = TRUE
    BY <1>1, <1>4 DEF FastscanConfirm
  <2>2. ServiceInv' /\ IdleInv'
    BY <1>1, <2>1, KeptStep
  <2>3. 0 \in Part
    BY DEF Part
  <2>4. ScanInv'
    BY <1>1, <2>1, <2>3 DEF ScanInv
  <2> QED BY <1>2, <2>2, <2>4
<1> QED BY <1>3, <1>4

(* A message for a part: what the slave does, but for its place.           *)
LEMMA PartStep ==
  ASSUME LssInv, NEW part \in Part, NEW bit0 \in BOOLEAN, NEW next \in Part,
         NEW match \in BOOLEAN, FastscanPart(part, bit0, next, match)
  PROVE  /\ RatesInv' /\ ServiceInv' /\ IdleInv' /\ up' \in {"start", "run", "dead"}
         /\ restored' \in BOOLEAN /\ UNCHANGED <<lssSelect, deaf>>
         /\ ~Confirms(part, match) => UNCHANGED <<fastscanPos, lssState, byFastscan>>
         /\ Confirms(part, match) =>
              /\ fastscanPos = part /\ fastscanPos' = next /\ ~byFastscan
              /\ \/ bit0 /\ next < part /\ lssState' = "configuration" /\ byFastscan' = TRUE
                 \/ ~(bit0 /\ next < part) /\ UNCHANGED <<lssState, byFastscan>>
<1> USE DEF LssInv
<1>1. UNCHANGED <<up, pending, activeNodeID, bitRate, stored, lssSelect, deaf, history>>
  BY DEF FastscanPart
<1>2. RatesInv' /\ up' \in {"start", "run", "dead"} /\ restored' \in BOOLEAN
  BY <1>1, ReceiveRates
<1>3. CASE Confirms(part, match)
  <2>1. /\ service' = Identity /\ fastscanPos' = next /\ fastscanPos = part
        /\ lssState = "waiting" /\ Unassigned
        /\ \/ bit0 /\ next < part /\ lssState' = "configuration" /\ byFastscan' = TRUE
           \/ ~(bit0 /\ next < part) /\ UNCHANGED <<lssState, byFastscan>>
    BY <1>3 DEF FastscanPart, Confirms, TakesPart, AtPart
  <2>2. ServiceInv'
    BY <2>1 DEF ServiceInv, Services, Requests, Identity
  <2>3. IdleInv'
    BY <1>1, <2>1 DEF IdleInv, Unassigned, pending
  <2>4. ~byFastscan
    BY <2>1 DEF ScanInv
  <2> QED BY <1>1, <1>2, <1>3, <2>1, <2>2, <2>3, <2>4
<1>4. CASE ~Confirms(part, match)
  <2>1. Kept /\ UNCHANGED <<fastscanPos, lssState, byFastscan>>
    BY <1>4 DEF FastscanPart
  <2>2. ServiceInv' /\ IdleInv'
    BY <1>1, <2>1, KeptStep
  <2> QED BY <1>1, <1>2, <1>4, <2>1, <2>2
<1> QED BY <1>3, <1>4

(* The master looks for bits: nobody moves.                                *)
LEMMA ProbeStep ==
  ASSUME LssInv, NEW bit0 \in BOOLEAN, NEW match \in BOOLEAN, Probe(bit0, match)
  PROVE  LssInv'
<1>1. scanAt \in Part /\ FastscanPart(scanAt, bit0, scanAt, match) /\ UNCHANGED scan
  BY DEF Probe
<1>2. ~(scanAt < scanAt)
  BY <1>1 DEF Part
<1>3. /\ RatesInv' /\ ServiceInv' /\ IdleInv' /\ up' \in {"start", "run", "dead"}
      /\ restored' \in BOOLEAN
      /\ UNCHANGED <<lssSelect, deaf, fastscanPos, lssState, byFastscan>>
  BY <1>1, <1>2, PartStep
<1>4. ScanInv'
  BY <1>1, <1>3 DEF LssInv, ScanInv, scan
<1> QED BY <1>3, <1>4 DEF LssInv

(* The master verifies a part: the slave moves with it or stays behind.    *)
LEMMA VerifyStep ==
  ASSUME LssInv, NEW next \in Part, NEW match \in BOOLEAN, Verify(next, match)
  PROVE  LssInv'
<1>1. /\ scanAt \in Part /\ (next > scanAt \/ (next = 0 /\ scanAt > 0))
      /\ FastscanPart(scanAt, TRUE, next, match)
      /\ scanAt' = IF next = 0 THEN None ELSE next
      /\ differs' = (differs \/ ~Confirms(scanAt, match))
  BY DEF Verify
<1>2. /\ RatesInv' /\ ServiceInv' /\ IdleInv' /\ up' \in {"start", "run", "dead"}
      /\ restored' \in BOOLEAN /\ UNCHANGED <<lssSelect, deaf>>
      /\ ~Confirms(scanAt, match) => UNCHANGED <<fastscanPos, lssState, byFastscan>>
      /\ Confirms(scanAt, match) =>
           /\ fastscanPos = scanAt /\ fastscanPos' = next /\ ~byFastscan
           /\ \/ next < scanAt /\ lssState' = "configuration" /\ byFastscan' = TRUE
              \/ ~(next < scanAt) /\ UNCHANGED <<lssState, byFastscan>>
  BY <1>1, PartStep
<1>s. /\ fastscanPos \in Part /\ lssSelect \subseteq Part
      /\ byFastscan \in BOOLEAN /\ deaf \in BOOLEAN /\ differs \in BOOLEAN
      /\ ~deaf => fastscanPos <= scanAt
      /\ ~deaf /\ differs => fastscanPos < scanAt
      /\ byFastscan => lssState = "configuration" /\ deaf
  BY <1>1, LssAssumption DEF LssInv, ScanInv
<1>n. scanAt \in Nat /\ next \in Nat /\ fastscanPos \in Nat
  BY <1>1, <1>s DEF Part
<1>3. CASE Confirms(scanAt, match)
  <2>1. differs' = differs /\ (~deaf => ~differs)
    BY <1>1, <1>2, <1>3, <1>s, <1>n
  <2>2. CASE next = 0
    <3>1. scanAt' = None /\ lssState' = "configuration" /\ byFastscan' = TRUE
          /\ fastscanPos' = 0
      BY <1>1, <1>2, <1>3, <1>n, <2>2
    <3> QED BY <1>2, <1>s, <2>1, <3>1, LssAssumption DEF ScanInv, LssInv, Part
  <2>3. CASE next # 0
    <3>1. scanAt' = next /\ next > scanAt /\ UNCHANGED <<lssState, byFastscan>> /\ ~byFastscan
          /\ fastscanPos' = next
      BY <1>1, <1>2, <1>3, <1>n, <2>3
    <3> QED BY <1>2, <1>s, <1>n, <2>1, <3>1 DEF ScanInv, LssInv
  <2> QED BY <2>2, <2>3
<1>4. CASE ~Confirms(scanAt, match)
  <2>1. differs' = TRUE /\ UNCHANGED <<fastscanPos, lssState, byFastscan>>
    BY <1>1, <1>2, <1>4
  <2>2. CASE next = 0
    <3>1. scanAt' = None
      BY <1>1, <2>2
    <3> QED BY <1>2, <1>s, <2>1, <3>1, LssAssumption DEF ScanInv, LssInv
  <2>3. CASE next # 0
    <3>1. scanAt' = next /\ next > scanAt
      BY <1>1, <2>3
    <3>2. ~deaf => fastscanPos < next
      BY <1>s, <1>n, <3>1
    <3> QED BY <1>2, <1>s, <1>n, <2>1, <3>1, <3>2 DEF ScanInv, LssInv
  <2> QED BY <2>2, <2>3
<1> QED BY <1>3, <1>4

(* CO_LSSslave_process.                                                    *)
LEMMA ProcessStep ==
  ASSUME LssInv, Process
  PROVE  LssInv'
<1> USE DEF LssInv
<1>1. service \in Services /\ service' = None /\ activeNodeID' = activeNodeID
        /\ lssState' = lssState /\ restored' = restored /\ accepted' = accepted
  BY DEF Process, ServiceInv, history
<1>2. ScanInv' /\ ServiceInv'
  BY <1>1 DEF Process, ScanInv, ServiceInv, scan
<1>3. lss_check_br(service.rate) /\ service.cs = "rate" => service.rate \in Initialisable
  BY <1>1, ServiceCodes, RateSets DEF lss_check_br
<1>4. RatesInv' /\ up' \in {"start", "run", "dead"}
  <2> USE DEF Process, RatesInv, Usable, pending, history
  <2>1. CASE service.cs = "rate"
    BY <1>3, <2>1 DEF ProcessCases
  <2>2. CASE service.cs # "rate"
    BY <2>2 DEF ProcessCases, lss_activate_br
  <2> QED BY <2>1, <2>2
<1>5. IdleInv'
  <2>1. CASE lssState = "waiting"
    <3>1. service.cs \in {"global", "identity"}
      BY <1>1, <2>1, ServiceCodes DEF ServiceInv
    <3>2. pendingNodeID' = pendingNodeID
      BY <3>1 DEF Process, ProcessCases, pending
    <3>3. service = [cs |-> "global"] => up' = "start"
      BY DEF Process, ProcessCases
    <3>4. up = "run"
      BY DEF Process
    <3> QED BY <1>1, <2>1, <3>2, <3>3, <3>4 DEF IdleInv
  <2>2. CASE lssState # "waiting"
    BY <1>1, <2>2 DEF IdleInv
  <2> QED BY <2>1, <2>2
<1> QED BY <1>1, <1>2, <1>4, <1>5

-----------------------------------------------------------------------------

(* Every step keeps the invariant of the LSS slave.                        *)
LEMMA NextLssInv == LssInv /\ [LssNext]_lssVars => LssInv'
<1> SUFFICES ASSUME LssInv, [LssNext]_lssVars PROVE LssInv'
  OBVIOUS
<1>1. CASE LssNext
  <2>1. CASE LssBoot \/ CanInit \/ NmtReset \/ Save \/ Restore
               \/ \E rate \in ConsoleRate, nodes \in BOOLEAN : can_baud(rate, nodes)
    BY <2>1, OtherSteps
  <2>2. CASE SwitchWaiting \/ SwitchConfiguration \/ Request
    BY <2>2, SwitchSteps
  <2>3. CASE FastscanConfirm
    BY <2>3, ConfirmStep
  <2>4. ASSUME NEW part \in Part, NEW match \in BOOLEAN,
               Select(part, match) \/ Verify(part, match)
        PROVE  LssInv'
    BY <2>4, SelectStep, VerifyStep
  <2>5. ASSUME NEW bit0 \in BOOLEAN, NEW match \in BOOLEAN, Probe(bit0, match) PROVE LssInv'
    BY <2>5, ProbeStep
  <2>6. CASE Process
    BY <2>6, ProcessStep
  <2> QED BY <1>1, <2>1, <2>2, <2>3, <2>4, <2>5, <2>6 DEF LssNext
<1>2. CASE UNCHANGED lssVars
  BY <1>2 DEF lssVars, pending, slave, scan, history, LssInv, RatesInv, Usable, ServiceInv,
              IdleInv, ScanInv
<1> QED BY <1>1, <1>2

(* What the invariant of the LSS slave says of the properties.             *)
LEMMA LssInvImplies ==
  LssInv => LssTypeOK /\ FailsOnlyByConsole /\ NoIdleId /\ FastscanSelectsMatch
<1> SUFFICES ASSUME LssInv
             PROVE  LssTypeOK /\ FailsOnlyByConsole /\ NoIdleId /\ FastscanSelectsMatch
  OBVIOUS
<1>1. Usable \subseteq Nat
  BY RateSets DEF LssInv, RatesInv, Usable
<1>2. LssTypeOK
  BY <1>1 DEF LssInv, RatesInv, ServiceInv, ScanInv, LssTypeOK
<1>3. FailsOnlyByConsole /\ FastscanSelectsMatch
  BY DEF LssInv, RatesInv, Usable, ScanInv, FailsOnlyByConsole, FastscanSelectsMatch
<1>4. NoIdleId
  BY LssNone DEF LssInv, IdleInv, NoIdleId, Services
<1> QED BY <1>2, <1>3, <1>4

(* For every set of IDs and every table of rates, with nodes on the bus or *)
(* without, and for every scan of a master: only a rate that the console   *)
(* was given can keep the application from coming up, a node-ID that is    *)
(* assigned comes into force, and a fastscan whose start the gateway has   *)
(* heard selects it only if every part the master looked at is the         *)
(* gateway's.                                                              *)
THEOREM LssCorrect ==
  LssSpec => [](LssTypeOK /\ FailsOnlyByConsole /\ NoIdleId /\ FastscanSelectsMatch)
<1>1. LssInit => LssInv
  BY InitLssInv
<1>2. LssInv /\ [LssNext]_lssVars => LssInv'
  BY NextLssInv
<1> QED BY <1>1, <1>2, LssInvImplies, PTL DEF LssSpec
=============================================================================
