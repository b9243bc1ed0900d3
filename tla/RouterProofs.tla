---------------------------- MODULE RouterProofs ----------------------------
(***************************************************************************)
(* Proofs about the router, for any routes, values and capacity of the     *)
(* publisher: no value is lost, none is passed over, and the intervals are *)
(* kept up to two passes of the main loop.                                 *)
(***************************************************************************)
EXTENDS Router, SequenceTheorems, TLAPS

-----------------------------------------------------------------------------
(* h is the field f of n routes with the value x for one route more.       *)
Longer(h, f, n, S, x) ==
  h \in [1 .. n + 1 -> S] /\ h[n + 1] = x /\ \A i \in 1 .. n : h[i] = f[i]

(* A list that gets another entry: one longer, the old entries where they  *)
(* were.                                                                   *)
LEMMA AppendField ==
  ASSUME NEW S, NEW n \in Nat, NEW f \in [1 .. n -> S], NEW x \in S
  PROVE  Longer(Append(f, x), f, n, S, x)
<1>1. f \in Seq(S) /\ DOMAIN f = 1 .. n
  BY SeqDef, Zenon
<1>2. Len(f) = n
  BY <1>1, LenProperties
<1>3. /\ Append(f, x) \in Seq(S) /\ Len(Append(f, x)) = n + 1
      /\ Append(f, x)[n + 1] = x
      /\ \A i \in 1 .. n : Append(f, x)[i] = f[i]
  BY <1>1, <1>2, AppendProperties
<1>4. Append(f, x) \in [1 .. n + 1 -> S]
  BY <1>3, LenProperties
<1> QED BY <1>3, <1>4 DEF Longer

(* The 32 bits of last_pub_td only make a time shorter.                    *)
LEMMA WrapShortens ==
  ASSUME NEW a \in Nat
  PROVE  a % Wrap \in 0 .. Wrap - 1 /\ a % Wrap <= a
BY RouterAssumption, SMTT(30)

(* No route, no field.                                                     *)
LEMMA NoField == ASSUME NEW S PROVE << >> \in [1 .. 0 -> S]
<1>1. << >> \in Seq(S) /\ Len(<< >>) = 0
  BY EmptySeq
<1> QED BY <1>1, LenProperties

-----------------------------------------------------------------------------
(* What the properties rest on.  The value that on-change compares with is *)
(* the newest one, and it is published or flagged (router_add_pdo).        *)
KnownOrFlagged ==
  \A i \in 1 .. entries_cnt :
    data_prev[i] = data[i] /\ (flag_new_msg[i] \/ sent[i] = data[i])

(* router_poll has been at route i in this pass.                           *)
Polled(i) == pc = "poll" /\ (at = 0 \/ i < at)

(* A polled route only waits for its interval or for room.                 *)
PolledWaits ==
  \A i \in 1 .. entries_cnt :
    Polled(i) /\ flag_new_msg[i] => TooEarly(i, last_pub_td[i]) \/ ~Ring!Accepts

(* What router_poll will still charge to route i in this pass.             *)
Due(i) == IF Polled(i) THEN 0 ELSE diff

(* A route is charged, now and in the next pass, with two passes more than *)
(* has gone by, unless its interval is over anyway.                        *)
Charged(i) ==
  since[i] >= Interval(i) \/ last_pub_td[i] + Due(i) + elapsed <= since[i] + 2 * MaxPass
ChargedAll == \A i \in 1 .. entries_cnt : Charged(i)

RouterInv == RouterTypeOK /\ KnownOrFlagged /\ PolledWaits /\ ChargedAll

-----------------------------------------------------------------------------
(* What check_try_send leaves as it is: the other routes.                  *)
OthersKeep(i) ==
  \A j \in 1 .. entries_cnt : j # i =>
    /\ flag_new_msg'[j] = flag_new_msg[j] /\ last_pub_td'[j] = last_pub_td[j]
    /\ sent'[j] = sent[j] /\ since'[j] = since[j]

(* It publishes ...                                                        *)
Sent(i, v, td) ==
  /\ ~TooEarly(i, td) /\ Len(box') = Len(box) + 1
  /\ flag_new_msg'[i] = FALSE /\ last_pub_td'[i] = 0
  /\ sent'[i] = v /\ since'[i] = 0

(* ... or waits.                                                           *)
Held(i, td) ==
  /\ TooEarly(i, td) \/ ~Ring!Accepts
  /\ box' = box /\ flag_new_msg'[i] = TRUE /\ last_pub_td'[i] = td
  /\ sent'[i] = sent[i] /\ since'[i] = since[i]

FieldsTyped ==
  /\ last_pub_td' \in [1 .. entries_cnt -> 0 .. Wrap - 1]
  /\ flag_new_msg' \in [1 .. entries_cnt -> BOOLEAN]
  /\ sent' \in [1 .. entries_cnt -> Value] /\ since' \in [1 .. entries_cnt -> Nat]
  /\ box' \in Seq(Topics) /\ Len(box') <= Capacity

(* check_try_send publishes or waits, and does so for one route only.      *)
LEMMA TrySend ==
  ASSUME RouterTypeOK, NEW i \in 1 .. entries_cnt, NEW v \in Value,
         NEW td \in 0 .. Wrap - 1, check_try_send(i, v, td)
  PROVE  FieldsTyped /\ OthersKeep(i) /\ (Sent(i, v, td) \/ Held(i, td))
<1>1. CASE ~TooEarly(i, td) /\ Ring!Accepts
  <2>1. /\ flag_new_msg' = [flag_new_msg EXCEPT ![i] = FALSE]
        /\ last_pub_td' = [last_pub_td EXCEPT ![i] = 0]
        /\ sent' = [sent EXCEPT ![i] = v] /\ since' = [since EXCEPT ![i] = 0]
        /\ Len(box) < Capacity /\ box' = Append(box, routes[i].topic)
    BY <1>1 DEF check_try_send, Ring!Accept, Ring!Accepts
  <2>2. routes[i] \in Entries
    BY ElementOfSeq DEF RouterTypeOK, entries_cnt
  <2>3. routes[i].topic \in Topics
    BY <2>2 DEF Topics
  <2>4. box' \in Seq(Topics) /\ Len(box') = Len(box) + 1 /\ Len(box) \in Nat
    BY <2>1, <2>3, AppendProperties, LenProperties DEF RouterTypeOK
  <2>5. FieldsTyped
    BY <2>1, <2>4, RouterAssumption DEF RouterTypeOK, FieldsTyped
  <2>6. OthersKeep(i)
    BY <2>1 DEF RouterTypeOK, OthersKeep
  <2>7. Sent(i, v, td)
    BY <1>1, <2>1, <2>4 DEF RouterTypeOK, Sent
  <2> QED BY <2>5, <2>6, <2>7
<1>2. CASE ~(~TooEarly(i, td) /\ Ring!Accepts)
  <2>1. /\ flag_new_msg' = [flag_new_msg EXCEPT ![i] = TRUE]
        /\ last_pub_td' = [last_pub_td EXCEPT ![i] = td]
        /\ box' = box /\ sent' = sent /\ since' = since
    BY <1>2 DEF check_try_send, history
  <2>2. FieldsTyped
    BY <2>1 DEF RouterTypeOK, FieldsTyped
  <2>3. OthersKeep(i)
    BY <2>1 DEF RouterTypeOK, OthersKeep
  <2>4. Held(i, td)
    BY <1>2, <2>1 DEF RouterTypeOK, Held
  <2> QED BY <2>2, <2>3, <2>4
<1> QED BY <1>1, <1>2

-----------------------------------------------------------------------------
(* No route yet, nothing to publish.                                       *)
THEOREM RouterInit == Init => RouterInv
<1> SUFFICES ASSUME Init PROVE RouterInv
  OBVIOUS
<1>1. /\ routes = <<>> /\ data = <<>> /\ data_prev = <<>> /\ last_pub_td = <<>>
      /\ flag_new_msg = <<>> /\ box = <<>> /\ sent = <<>> /\ since = <<>>
  BY DEF Init
<1>2. entries_cnt = 0 /\ routes \in Seq(Entries)
  BY <1>1, EmptySeq DEF entries_cnt
<1>3. box \in Seq(Topics) /\ Len(box) = 0
  BY <1>1, EmptySeq
<1>4. /\ data \in [1 .. 0 -> Value] /\ data_prev \in [1 .. 0 -> Value]
      /\ last_pub_td \in [1 .. 0 -> 0 .. Wrap - 1]
      /\ flag_new_msg \in [1 .. 0 -> BOOLEAN]
      /\ sent \in [1 .. 0 -> Value] /\ since \in [1 .. 0 -> Nat]
  BY <1>1, NoField
<1>5. /\ pc = "rx" /\ at = 0 /\ frame \in Frames /\ diff = 0 /\ elapsed = 0
  BY DEF Init
<1>6. RouterTypeOK
  BY <1>2, <1>3, <1>4, <1>5, RouterAssumption DEF RouterTypeOK
<1>7. \A i \in 1 .. entries_cnt : FALSE
  BY <1>2
<1> QED BY <1>6, <1>7 DEF RouterInv, KnownOrFlagged, PolledWaits, ChargedAll

(* A route of the loop exists, and the next index does or ends the loop.   *)
LEMMA LoopIndex ==
  ASSUME RouterTypeOK
  PROVE  /\ entries_cnt \in Nat /\ at \in Int
         /\ (at # 0 => at \in 1 .. entries_cnt)
         /\ After(at) \in 0 .. entries_cnt
         /\ After(at) = IF at < entries_cnt THEN at + 1 ELSE 0
BY LenProperties DEF RouterTypeOK, entries_cnt, After

(* The interval of a route is less than the counter holds.                 *)
LEMMA IntervalOf ==
  ASSUME RouterTypeOK, NEW i \in 1 .. entries_cnt
  PROVE  Interval(i) \in Int /\ Interval(i) < Wrap
<1>1. routes[i] \in Entries
  BY ElementOfSeq DEF RouterTypeOK, entries_cnt
<1> QED BY <1>1, RouterAssumption DEF Interval

(* The routes are the same after a step that adds none.                    *)
LEMMA SameRoutes ==
  ASSUME routes' = routes
  PROVE  entries_cnt' = entries_cnt /\ \A i : Interval(i)' = Interval(i)
BY DEF entries_cnt, Interval

-----------------------------------------------------------------------------
(* One lemma per step of the main loop: a frame starts the loop over the   *)
(* routes ...                                                              *)
LEMMA ReceiveStep ==
  ASSUME RouterInv, NEW f \in Frames, Receive(f)
  PROVE  RouterInv'
<1>1. /\ pc \in {"rx", "net"} /\ pc' = pc /\ at' = 1 /\ frame' = f /\ entries_cnt > 0
      /\ UNCHANGED <<diff, elapsed, routes, data, data_prev, last_pub_td, flag_new_msg,
                     box, sent, since>>
  BY DEF Receive, fields, history
<1>2. entries_cnt' = entries_cnt /\ \A i : Interval(i)' = Interval(i)
  BY <1>1, SameRoutes
<1>3. entries_cnt \in Nat
  BY LoopIndex DEF RouterInv
<1>4. RouterTypeOK'
  BY <1>1, <1>2, <1>3 DEF RouterInv, RouterTypeOK
<1>5. \A i : ~Polled(i) /\ ~Polled(i)'
  BY <1>1 DEF Polled
<1>6. KnownOrFlagged'
  BY <1>1, <1>2 DEF RouterInv, KnownOrFlagged
<1>7. PolledWaits'
  BY <1>5 DEF PolledWaits
<1>8. ChargedAll'
  BY <1>1, <1>2, <1>5 DEF RouterInv, ChargedAll, Charged, Due
<1> QED BY <1>4, <1>6, <1>7, <1>8 DEF RouterInv

(* ... one route of it, with the on-change comparison ...                  *)
LEMMA AddPdoStep ==
  ASSUME RouterInv, NEW v \in Value, router_add_pdo(v)
  PROVE  RouterInv'
<1>1. /\ pc \in {"rx", "net"} /\ pc' = pc /\ at \in 1 .. entries_cnt /\ at' = After(at)
      /\ at' \in 0 .. entries_cnt
      /\ UNCHANGED <<frame, diff, elapsed, routes>>
  BY LoopIndex DEF router_add_pdo, RouterInv
<1>2. entries_cnt' = entries_cnt /\ \A i : Interval(i)' = Interval(i)
  BY <1>1, SameRoutes
<1>3. \A i : ~Polled(i) /\ ~Polled(i)'
  BY <1>1 DEF Polled
<1>4. PolledWaits'
  BY <1>3 DEF PolledWaits
<1>5. CASE routes[at].frame # frame
  <2>1. UNCHANGED <<data, data_prev, last_pub_td, flag_new_msg, box, sent, since>>
    BY <1>5 DEF router_add_pdo, fields, history
  <2>2. RouterTypeOK'
    BY <1>1, <1>2, <2>1 DEF RouterInv, RouterTypeOK
  <2>3. KnownOrFlagged'
    BY <1>2, <2>1 DEF RouterInv, KnownOrFlagged
  <2>4. ChargedAll'
    BY <1>1, <1>2, <1>3, <2>1 DEF RouterInv, ChargedAll, Charged, Due
  <2> QED BY <1>4, <2>2, <2>3, <2>4 DEF RouterInv
<1>6. CASE routes[at].frame = frame /\ Unchanged(at, v)
  <2>1. /\ data' = [data EXCEPT ![at] = v] /\ v = data_prev[at]
        /\ UNCHANGED <<data_prev, last_pub_td, flag_new_msg, box, sent, since>>
    BY <1>6 DEF router_add_pdo, history, Unchanged
  <2>2. data' = data
    BY <1>1, <2>1 DEF RouterInv, RouterTypeOK, KnownOrFlagged
  <2>3. RouterTypeOK'
    BY <1>1, <1>2, <2>1, <2>2 DEF RouterInv, RouterTypeOK
  <2>4. KnownOrFlagged'
    BY <1>2, <2>1, <2>2 DEF RouterInv, KnownOrFlagged
  <2>5. ChargedAll'
    BY <1>1, <1>2, <1>3, <2>1 DEF RouterInv, ChargedAll, Charged, Due
  <2> QED BY <1>4, <2>3, <2>4, <2>5 DEF RouterInv
<1>7. CASE routes[at].frame = frame /\ ~Unchanged(at, v)
  <2>1. /\ data' = [data EXCEPT ![at] = v] /\ data_prev' = [data_prev EXCEPT ![at] = v]
        /\ check_try_send(at, v, last_pub_td[at])
    BY <1>7 DEF router_add_pdo
  <2>2. last_pub_td[at] \in 0 .. Wrap - 1
    BY <1>1 DEF RouterInv, RouterTypeOK
  <2>3. /\ FieldsTyped /\ OthersKeep(at)
        /\ (Sent(at, v, last_pub_td[at]) \/ Held(at, last_pub_td[at]))
    BY <1>1, <2>1, <2>2, TrySend DEF RouterInv
  <2>4. RouterTypeOK'
    BY <1>1, <1>2, <2>1, <2>3 DEF RouterInv, RouterTypeOK, FieldsTyped
  <2>5. KnownOrFlagged'
    <3>1. \A j \in 1 .. entries_cnt : j # at => data'[j] = data[j] /\ data_prev'[j] = data_prev[j]
      BY <2>1 DEF RouterInv, RouterTypeOK
    <3>2. data'[at] = v /\ data_prev'[at] = v
      BY <1>1, <2>1 DEF RouterInv, RouterTypeOK
    <3>3. flag_new_msg'[at] \/ sent'[at] = v
      BY <2>3 DEF Sent, Held
    <3> QED BY <1>2, <2>3, <3>1, <3>2, <3>3 DEF RouterInv, KnownOrFlagged, OthersKeep
  <2>6. ChargedAll'
    <3> SUFFICES ASSUME NEW j \in 1 .. entries_cnt PROVE Charged(j)'
      BY <1>2 DEF ChargedAll
    <3>1. Charged(j) /\ Due(j) = diff /\ Due(j)' = diff
      BY <1>1, <1>3 DEF RouterInv, ChargedAll, Due
    <3>2. CASE j # at
      BY <1>1, <1>2, <2>3, <3>1, <3>2 DEF Charged, OthersKeep
    <3>3. CASE j = at /\ Sent(at, v, last_pub_td[at])
      BY <1>1, <1>2, <3>1, <3>3, RouterAssumption DEF Charged, Sent, RouterInv, RouterTypeOK
    <3>4. CASE j = at /\ Held(at, last_pub_td[at])
      BY <1>1, <1>2, <3>1, <3>4 DEF Charged, Held
    <3> QED BY <2>3, <3>2, <3>3, <3>4
  <2> QED BY <1>4, <2>4, <2>5, <2>6 DEF RouterInv
<1> QED BY <1>5, <1>6, <1>7

-----------------------------------------------------------------------------
(* ... the network stack runs ...                                          *)
LEMMA NetStartStep == ASSUME RouterInv, NetStart PROVE RouterInv'
<1>1. /\ pc = "rx" /\ pc' = "net"
      /\ UNCHANGED <<at, frame, diff, elapsed, routes, data, data_prev, last_pub_td,
                     flag_new_msg, box, sent, since>>
  BY DEF NetStart, fields, history
<1>2. entries_cnt' = entries_cnt /\ \A i : Interval(i)' = Interval(i)
  BY <1>1, SameRoutes
<1>3. \A i : ~Polled(i) /\ ~Polled(i)'
  BY <1>1 DEF Polled
<1>4. RouterTypeOK' /\ KnownOrFlagged'
  BY <1>1, <1>2 DEF RouterInv, RouterTypeOK, KnownOrFlagged
<1>5. PolledWaits' /\ ChargedAll'
  BY <1>1, <1>2, <1>3 DEF RouterInv, PolledWaits, ChargedAll, Charged, Due
<1> QED BY <1>4, <1>5 DEF RouterInv

(* ... messages leave, and make room ...                                   *)
LEMMA PublishedStep ==
  ASSUME RouterInv, NEW k \in 1 .. Capacity, Published(k)
  PROVE  RouterInv' /\ Len(box') <= Len(box)
<1>1. /\ pc = "net" /\ k \in 1 .. Len(box) /\ box' = SubSeq(box, k + 1, Len(box))
      /\ UNCHANGED <<pc, at, frame, diff, elapsed, routes, data, data_prev, last_pub_td,
                     flag_new_msg, sent, since>>
  BY DEF Published, Ring!Leave, loop, fields, history
<1>2. entries_cnt' = entries_cnt /\ \A i : Interval(i)' = Interval(i)
  BY <1>1, SameRoutes
<1>3. \A i : ~Polled(i) /\ ~Polled(i)'
  BY <1>1 DEF Polled
<1>4. box \in Seq(Topics) /\ Len(box) \in Nat /\ Len(box) <= Capacity
  BY LenProperties DEF RouterInv, RouterTypeOK
<1>5. \A i \in k + 1 .. Len(box) : box[i] \in Topics
  <2>1. \A i \in k + 1 .. Len(box) : i \in 1 .. Len(box)
    BY <1>1, <1>4
  <2> QED BY <1>4, <2>1, ElementOfSeq
<1>6. box' \in Seq(Topics) /\ Len(box') <= Len(box)
  <2>1. k + 1 \in Int /\ Len(box) \in Int
    BY <1>1, <1>4
  <2>2. /\ SubSeq(box, k + 1, Len(box)) \in Seq(Topics)
        /\ Len(SubSeq(box, k + 1, Len(box))) =
             IF k + 1 <= Len(box) THEN Len(box) - (k + 1) + 1 ELSE 0
    BY <1>5, <2>1, SubSeqProperties
  <2> QED BY <1>1, <1>4, <2>2
<1>7. Len(box') <= Capacity
  <2>1. Len(box') \in Nat
    BY <1>6, LenProperties
  <2> QED BY <1>4, <1>6, <2>1, RouterAssumption
<1>8. RouterTypeOK' /\ KnownOrFlagged'
  BY <1>1, <1>2, <1>6, <1>7 DEF RouterInv, RouterTypeOK, KnownOrFlagged
<1>9. PolledWaits' /\ ChargedAll'
  BY <1>1, <1>2, <1>3 DEF RouterInv, PolledWaits, ChargedAll, Charged, Due
<1> QED BY <1>6, <1>8, <1>9 DEF RouterInv

(* ... time passes, up to the bound of a pass ...                          *)
LEMMA ElapseStep == ASSUME RouterInv, Elapse PROVE RouterInv'
<1>1. /\ pc = "net" /\ elapsed < MaxPass /\ elapsed' = elapsed + 1
      /\ since' = [i \in DOMAIN since |-> Counted(i, since[i])]
      /\ UNCHANGED <<pc, at, frame, diff, routes, data, data_prev, last_pub_td,
                     flag_new_msg, box, sent>>
  BY DEF Elapse, fields
<1>2. entries_cnt' = entries_cnt /\ \A i : Interval(i)' = Interval(i)
  BY <1>1, SameRoutes
<1>3. \A i : ~Polled(i) /\ ~Polled(i)'
  BY <1>1 DEF Polled
<1>4. DOMAIN since = 1 .. entries_cnt
  BY DEF RouterInv, RouterTypeOK
<1>5. \A i \in 1 .. entries_cnt :
        /\ since'[i] \in Nat
        /\ since'[i] = IF since[i] < Interval(i) THEN since[i] + 1 ELSE since[i]
  BY <1>1, <1>4 DEF RouterInv, RouterTypeOK, Counted
<1>6. since' \in [1 .. entries_cnt -> Nat]
  BY <1>1, <1>4, <1>5
<1>7. RouterTypeOK' /\ KnownOrFlagged'
  <2>1. elapsed' \in 0 .. MaxPass
    BY <1>1, RouterAssumption DEF RouterInv, RouterTypeOK
  <2> QED BY <1>1, <1>2, <1>6, <2>1 DEF RouterInv, RouterTypeOK, KnownOrFlagged
<1>8. PolledWaits'
  BY <1>3 DEF PolledWaits
<1>9. ChargedAll'
  <2> SUFFICES ASSUME NEW i \in 1 .. entries_cnt PROVE Charged(i)'
    BY <1>2 DEF ChargedAll
  <2>1. Charged(i) /\ Due(i) = diff /\ Due(i)' = diff
    BY <1>1, <1>3 DEF RouterInv, ChargedAll, Due
  <2>2. /\ last_pub_td[i] \in Nat /\ since[i] \in Nat /\ diff \in Nat /\ elapsed \in Nat
        /\ Interval(i) \in Int /\ MaxPass \in Nat
    BY IntervalOf, RouterAssumption DEF RouterInv, RouterTypeOK
  <2> QED BY <1>1, <1>2, <1>5, <2>1, <2>2 DEF Charged
<1> QED BY <1>7, <1>8, <1>9 DEF RouterInv

(* ... a route is added, with all its fields ...                           *)
LEMMA AddEntryStep ==
  ASSUME RouterInv, NEW e \in Entries, router_add_entry(e)
  PROVE  RouterInv'
<1>1. /\ pc = "net" /\ entries_cnt + 1 < MAX_ROUTES /\ routes' = Append(routes, e)
      /\ data' = Append(data, ZERO) /\ data_prev' = Append(data_prev, ZERO)
      /\ last_pub_td' = Append(last_pub_td, 0) /\ flag_new_msg' = Append(flag_new_msg, FALSE)
      /\ sent' = Append(sent, ZERO) /\ since' = Append(since, 0)
      /\ UNCHANGED <<pc, at, frame, diff, elapsed, box>>
  BY DEF router_add_entry, loop
<1>2. entries_cnt \in Nat
  BY LoopIndex DEF RouterInv
<1>3. /\ routes' \in Seq(Entries) /\ entries_cnt' = entries_cnt + 1
      /\ \A i \in 1 .. entries_cnt : Interval(i)' = Interval(i)
  BY <1>1, AppendProperties DEF RouterInv, RouterTypeOK, entries_cnt, Interval
<1>4. /\ data \in [1 .. entries_cnt -> Value] /\ data_prev \in [1 .. entries_cnt -> Value]
      /\ last_pub_td \in [1 .. entries_cnt -> 0 .. Wrap - 1]
      /\ flag_new_msg \in [1 .. entries_cnt -> BOOLEAN]
      /\ sent \in [1 .. entries_cnt -> Value] /\ since \in [1 .. entries_cnt -> Nat]
      /\ ZERO \in Value /\ 0 \in 0 .. Wrap - 1 /\ FALSE \in BOOLEAN /\ 0 \in Nat
  BY RouterAssumption DEF RouterInv, RouterTypeOK
<1>5. /\ Longer(data', data, entries_cnt, Value, ZERO)
      /\ Longer(data_prev', data_prev, entries_cnt, Value, ZERO)
      /\ Longer(sent', sent, entries_cnt, Value, ZERO)
  BY <1>1, <1>2, <1>4, AppendField
<1>6. /\ Longer(last_pub_td', last_pub_td, entries_cnt, 0 .. Wrap - 1, 0)
      /\ Longer(flag_new_msg', flag_new_msg, entries_cnt, BOOLEAN, FALSE)
      /\ Longer(since', since, entries_cnt, Nat, 0)
  BY <1>1, <1>2, <1>4, AppendField
<1>7. at \in 0 .. entries_cnt + 1 /\ pc' = "net"
  BY <1>1, <1>2 DEF RouterInv, RouterTypeOK
<1>8. RouterTypeOK'
  BY <1>1, <1>3, <1>5, <1>6, <1>7 DEF RouterInv, RouterTypeOK, Longer
<1>9. \A i \in 1 .. entries_cnt + 1 : i \in 1 .. entries_cnt \/ i = entries_cnt + 1
  BY <1>2
<1>10. KnownOrFlagged'
  BY <1>3, <1>5, <1>6, <1>9 DEF RouterInv, KnownOrFlagged, Longer
<1>11. \A i : ~Polled(i) /\ ~Polled(i)'
  BY <1>1 DEF Polled
<1>12. PolledWaits'
  BY <1>11 DEF PolledWaits
<1>13. ChargedAll'
  <2> SUFFICES ASSUME NEW i \in 1 .. entries_cnt + 1 PROVE Charged(i)'
    BY <1>3 DEF ChargedAll
  <2>1. CASE i \in 1 .. entries_cnt
    <3>1. Charged(i)
      BY <2>1 DEF RouterInv, ChargedAll
    <3> QED BY <1>1, <1>3, <1>6, <1>11, <2>1, <3>1 DEF Charged, Due, Longer
  <2>2. CASE i = entries_cnt + 1
    <3>1. Due(i)' = diff /\ since'[i] = 0 /\ last_pub_td'[i] = 0 /\ elapsed' = elapsed
      BY <1>1, <1>6, <1>11, <2>2 DEF Due, Longer
    <3>2. diff \in 0 .. MaxPass /\ elapsed \in 0 .. MaxPass /\ MaxPass \in Nat
      BY RouterAssumption DEF RouterInv, RouterTypeOK
    <3> QED BY <3>1, <3>2 DEF Charged
  <2> QED BY <1>9, <2>1, <2>2
<1> QED BY <1>8, <1>10, <1>12, <1>13 DEF RouterInv

(* ... router_poll starts with the first route ...                         *)
LEMMA PollStartStep == ASSUME RouterInv, PollStart PROVE RouterInv'
<1>1. /\ pc = "net" /\ pc' = "poll" /\ at = 0 /\ at' = After(at)
      /\ UNCHANGED <<frame, diff, elapsed, routes, data, data_prev, last_pub_td,
                     flag_new_msg, box, sent, since>>
  BY DEF PollStart, fields, history
<1>2. entries_cnt' = entries_cnt /\ \A i : Interval(i)' = Interval(i)
  BY <1>1, SameRoutes
<1>3. \A i \in 1 .. entries_cnt : ~Polled(i) /\ ~Polled(i)'
  BY <1>1, LoopIndex DEF RouterInv, Polled
<1>4. RouterTypeOK' /\ KnownOrFlagged'
  BY <1>1, <1>2, LoopIndex DEF RouterInv, RouterTypeOK, KnownOrFlagged
<1>5. PolledWaits' /\ ChargedAll'
  BY <1>1, <1>2, <1>3 DEF RouterInv, PolledWaits, ChargedAll, Charged, Due
<1> QED BY <1>4, <1>5 DEF RouterInv

(* ... and the time of the pass falls due in the next one.                 *)
LEMMA PassEndStep == ASSUME RouterInv, PassEnd PROVE RouterInv'
<1>1. /\ pc = "poll" /\ pc' = "rx" /\ at = 0 /\ at' = at /\ diff' = elapsed /\ elapsed' = 0
      /\ UNCHANGED <<frame, routes, data, data_prev, last_pub_td, flag_new_msg, box, sent, since>>
  BY DEF PassEnd, fields, history
<1>2. entries_cnt' = entries_cnt /\ \A i : Interval(i)' = Interval(i)
  BY <1>1, SameRoutes
<1>3. \A i : Polled(i) /\ ~Polled(i)'
  BY <1>1 DEF Polled
<1>4. RouterTypeOK' /\ KnownOrFlagged'
  BY <1>1, <1>2, RouterAssumption DEF RouterInv, RouterTypeOK, KnownOrFlagged
<1>5. PolledWaits'
  BY <1>3 DEF PolledWaits
<1>6. ChargedAll'
  <2> SUFFICES ASSUME NEW i \in 1 .. entries_cnt PROVE Charged(i)'
    BY <1>2 DEF ChargedAll
  <2>1. Charged(i) /\ Due(i) = 0 /\ Due(i)' = diff'
    BY <1>3 DEF RouterInv, ChargedAll, Due
  <2>2. last_pub_td[i] \in Nat /\ elapsed \in Nat
    BY DEF RouterInv, RouterTypeOK
  <2> QED BY <1>1, <1>2, <2>1, <2>2 DEF Charged
<1> QED BY <1>4, <1>5, <1>6 DEF RouterInv

(* What router_poll adds to the time of a route is at most what is due.    *)
LEMMA PassedOf ==
  ASSUME RouterTypeOK, NEW i \in 1 .. entries_cnt
  PROVE  Passed(i) \in 0 .. Wrap - 1 /\ Passed(i) <= last_pub_td[i] + diff
<1>1. last_pub_td[i] + diff \in Nat
  BY RouterAssumption DEF RouterTypeOK
<1> QED BY <1>1, WrapShortens DEF Passed

(* router_poll goes from one route to the next.                            *)
LEMMA PolledNext ==
  ASSUME RouterTypeOK, pc = "poll", at # 0, pc' = pc, at' = After(at), routes' = routes
  PROVE  \A j \in 1 .. entries_cnt : /\ Polled(j) <=> j < at
                                     /\ Polled(j)' <=> j <= at
<1> SUFFICES ASSUME NEW j \in 1 .. entries_cnt
             PROVE  (Polled(j) <=> j < at) /\ (Polled(j)' <=> j <= at)
  OBVIOUS
<1>1. /\ entries_cnt \in Nat /\ at \in 1 .. entries_cnt
      /\ at' = IF at < entries_cnt THEN at + 1 ELSE 0
  BY LoopIndex
<1>2. Polled(j) <=> j < at
  BY DEF Polled
<1>3. Polled(j)' <=> j <= at
  BY <1>1 DEF Polled
<1> QED BY <1>2, <1>3

(* router_poll charges a route and may publish for it.                     *)
LEMMA PollStep == ASSUME RouterInv, router_poll PROVE RouterInv'
<1>1. /\ pc = "poll" /\ pc' = pc /\ at \in 1 .. entries_cnt /\ at # 0 /\ at' = After(at)
      /\ at' \in 0 .. entries_cnt
      /\ UNCHANGED <<frame, diff, elapsed, routes, data, data_prev>>
  BY LoopIndex DEF router_poll, RouterInv
<1>2. entries_cnt' = entries_cnt /\ \A i : Interval(i)' = Interval(i)
  BY <1>1, SameRoutes
<1>3. \A j \in 1 .. entries_cnt : (Polled(j) <=> j < at) /\ (Polled(j)' <=> j <= at)
  BY <1>1, PolledNext DEF RouterInv
<1>4. Passed(at) \in 0 .. Wrap - 1 /\ Passed(at) <= last_pub_td[at] + diff
  BY <1>1, PassedOf DEF RouterInv
<1>5. /\ FieldsTyped /\ OthersKeep(at) /\ Len(box) \in Nat
      /\ \/ Sent(at, data[at], Passed(at))
         \/ Held(at, Passed(at))
         \/ /\ ~flag_new_msg[at] /\ flag_new_msg' = flag_new_msg /\ box' = box
            /\ last_pub_td'[at] = Passed(at) /\ sent' = sent /\ since' = since
  <2>1. CASE flag_new_msg[at]
    <3>1. check_try_send(at, data[at], Passed(at)) /\ data[at] \in Value
      BY <1>1, <2>1 DEF router_poll, RouterInv, RouterTypeOK
    <3> QED BY <1>1, <1>4, <3>1, TrySend, LenProperties DEF RouterInv, RouterTypeOK
  <2>2. CASE ~flag_new_msg[at]
    <3>1. /\ last_pub_td' = [last_pub_td EXCEPT ![at] = Passed(at)]
          /\ flag_new_msg' = flag_new_msg /\ box' = box /\ sent' = sent /\ since' = since
      BY <2>2 DEF router_poll, history
    <3>2. FieldsTyped /\ OthersKeep(at)
      BY <1>4, <3>1 DEF RouterInv, RouterTypeOK, FieldsTyped, OthersKeep
    <3>3. last_pub_td'[at] = Passed(at) /\ Len(box) \in Nat
      BY <1>1, <3>1, LenProperties DEF RouterInv, RouterTypeOK
    <3> QED BY <2>2, <3>1, <3>2, <3>3
  <2> QED BY <2>1, <2>2
<1>6. RouterTypeOK'
  BY <1>1, <1>2, <1>5 DEF RouterInv, RouterTypeOK, FieldsTyped
<1>7. KnownOrFlagged'
  <2> SUFFICES ASSUME NEW j \in 1 .. entries_cnt
               PROVE  data_prev[j] = data[j] /\ (flag_new_msg'[j] \/ sent'[j] = data[j])
    BY <1>1, <1>2 DEF KnownOrFlagged
  <2>1. data_prev[j] = data[j] /\ (flag_new_msg[j] \/ sent[j] = data[j])
    BY DEF RouterInv, KnownOrFlagged
  <2>2. CASE j # at
    BY <1>5, <2>1, <2>2 DEF OthersKeep
  <2>3. CASE j = at
    BY <1>5, <2>1, <2>3 DEF Sent, Held
  <2> QED BY <2>2, <2>3
<1>8. PolledWaits'
  <2> SUFFICES ASSUME NEW j \in 1 .. entries_cnt, Polled(j)', flag_new_msg'[j]
               PROVE  TooEarly(j, last_pub_td'[j]) \/ ~(Len(box') < Capacity)
    BY <1>1, <1>2 DEF PolledWaits, TooEarly, Ring!Accepts
  <2>1. CASE j < at
    <3>1. TooEarly(j, last_pub_td[j]) \/ ~(Len(box) < Capacity)
      BY <1>3, <1>5, <2>1 DEF RouterInv, PolledWaits, OthersKeep, Ring!Accepts
    <3>2. last_pub_td'[j] = last_pub_td[j]
      BY <1>5, <2>1 DEF OthersKeep
    <3>3. Len(box') \in {Len(box), Len(box) + 1}
      BY <1>5 DEF Sent, Held
    <3> QED BY <1>5, <3>1, <3>2, <3>3, RouterAssumption
  <2>2. CASE j = at
    BY <1>5, <2>2 DEF Sent, Held, Ring!Accepts
  <2>3. j <= at
    BY <1>3
  <2> QED BY <1>1, <2>1, <2>2, <2>3
<1>9. ChargedAll'
  <2> SUFFICES ASSUME NEW j \in 1 .. entries_cnt PROVE Charged(j)'
    BY <1>2 DEF ChargedAll
  <2>1. /\ Charged(j) /\ diff \in Nat /\ elapsed \in 0 .. MaxPass /\ MaxPass \in Nat
        /\ last_pub_td[j] \in Nat /\ since[j] \in Nat /\ Interval(j) \in Int
    BY IntervalOf, RouterAssumption DEF RouterInv, RouterTypeOK, ChargedAll
  <2>2. CASE j # at
    <3>1. Due(j)' = Due(j)
      BY <1>1, <1>3, <2>2 DEF Due
    <3> QED BY <1>1, <1>2, <1>5, <2>1, <2>2, <3>1 DEF Charged, OthersKeep
  <2>3. CASE j = at
    <3>1. Due(j)' = 0 /\ Due(j) = diff
      BY <1>1, <1>3, <2>3 DEF Due
    <3>2. /\ last_pub_td'[j] \in Nat /\ last_pub_td'[j] <= last_pub_td[j] + diff
          /\ (since'[j] = since[j] \/ (since'[j] = 0 /\ last_pub_td'[j] = 0))
      BY <1>4, <1>5, <2>1, <2>3 DEF Sent, Held
    <3> QED BY <1>1, <1>2, <2>1, <3>1, <3>2 DEF Charged
  <2> QED BY <2>2, <2>3
<1> QED BY <1>6, <1>7, <1>8, <1>9 DEF RouterInv

-----------------------------------------------------------------------------
(* RouterInv is inductive.                                                 *)
THEOREM RouterStep == RouterInv /\ [Next]_vars => RouterInv'
<1> SUFFICES ASSUME RouterInv, [Next]_vars PROVE RouterInv'
  OBVIOUS
<1>1. ASSUME NEW f \in Frames, Receive(f) PROVE RouterInv'
  BY <1>1, ReceiveStep
<1>2. ASSUME NEW v \in Value, router_add_pdo(v) PROVE RouterInv'
  BY <1>2, AddPdoStep
<1>3. CASE NetStart
  BY <1>3, NetStartStep
<1>4. CASE Elapse
  BY <1>4, ElapseStep
<1>5. CASE PollStart
  BY <1>5, PollStartStep
<1>6. CASE router_poll
  BY <1>6, PollStep
<1>7. CASE PassEnd
  BY <1>7, PassEndStep
<1>8. ASSUME NEW k \in 1 .. Capacity, Published(k) PROVE RouterInv'
  BY <1>8, PublishedStep
<1>9. ASSUME NEW e \in Entries, router_add_entry(e) PROVE RouterInv'
  BY <1>9, AddEntryStep
<1>10. CASE UNCHANGED vars
  <2>1. /\ UNCHANGED <<pc, at, frame, diff, elapsed, routes, data, data_prev, last_pub_td,
                       flag_new_msg, box, sent, since>>
    BY <1>10 DEF vars, loop, fields, history
  <2>2. entries_cnt' = entries_cnt /\ \A i : Interval(i)' = Interval(i)
    BY <2>1, SameRoutes
  <2>3. RouterTypeOK' /\ KnownOrFlagged'
    BY <2>1, <2>2 DEF RouterInv, RouterTypeOK, KnownOrFlagged
  <2>4. PolledWaits' /\ ChargedAll'
    BY <2>1, <2>2 DEF RouterInv, PolledWaits, ChargedAll, Charged, Due, Polled, TooEarly,
                      Ring!Accepts
  <2> QED BY <2>3, <2>4 DEF RouterInv
<1> QED BY <1>1, <1>2, <1>3, <1>4, <1>5, <1>6, <1>7, <1>8, <1>9, <1>10 DEF Next

(* The invariant of the router, for any number of routes, any intervals,   *)
(* any capacity of the publisher and any duration of a pass (router.c).    *)
THEOREM RouterInvariant == Spec => []RouterInv
BY RouterInit, RouterStep, PTL DEF Spec

(* Types of the router.                                                    *)
THEOREM RouterTypes == Spec => []RouterTypeOK
<1>1. RouterInv => RouterTypeOK
  BY DEF RouterInv
<1> QED BY <1>1, RouterInvariant, PTL

(* A route whose flag is down has published the newest value it received   *)
(* (router_add_pdo, check_try_send).                                       *)
THEOREM RouterCorrect == Spec => []NewestIsPublished
<1>1. RouterInv => NewestIsPublished
  BY DEF RouterInv, KnownOrFlagged, NewestIsPublished
<1> QED BY <1>1, RouterInvariant, PTL

(* After router_poll a flag is up only while the interval runs or the      *)
(* publisher is full (router.c:204-211).                                   *)
THEOREM PollCorrect == Spec => []PollLeavesNothing
<1>1. RouterInv => PollLeavesNothing
  BY DEF RouterInv, PolledWaits, Polled, PollLeavesNothing
<1> QED BY <1>1, RouterInvariant, PTL

-----------------------------------------------------------------------------
(* Who publishes after the time td, of what was charged and is due, has    *)
(* waited for the interval up to two passes.                               *)
LEMMA SentInTime ==
  ASSUME RouterInv, NEW i \in 1 .. entries_cnt, NEW td \in Nat,
         td <= last_pub_td[i] + Due(i), ~TooEarly(i, td)
  PROVE  since[i] >= Interval(i) - 2 * MaxPass
<1>1. /\ since[i] \in Nat /\ last_pub_td[i] \in Nat /\ Due(i) \in Nat /\ elapsed \in Nat
      /\ Interval(i) \in Int /\ MaxPass \in Nat
  <2>1. since[i] \in Nat /\ last_pub_td[i] \in 0 .. Wrap - 1
    BY DEF RouterInv, RouterTypeOK
  <2>2. diff \in 0 .. MaxPass /\ elapsed \in 0 .. MaxPass /\ MaxPass \in Nat /\ Wrap \in Nat
    BY RouterAssumption DEF RouterInv, RouterTypeOK
  <2>3. Due(i) \in Nat
    BY <2>2 DEF Due
  <2> QED BY <2>1, <2>2, <2>3, IntervalOf DEF RouterInv
<1>2. since[i] >= Interval(i) \/ last_pub_td[i] + Due(i) + elapsed <= since[i] + 2 * MaxPass
  BY DEF RouterInv, ChargedAll, Charged
<1>3. Interval(i) <= 0 \/ td >= Interval(i)
  BY <1>1 DEF TooEarly
<1> QED BY <1>1, <1>2, <1>3

(* A step that publishes for a route comes from check_try_send.            *)
LEMMA PublishedByTrySend ==
  ASSUME RouterInv, [Next]_vars, NEW i \in 1 .. entries_cnt, Publishes(i)
  PROVE  since[i] >= Interval(i) - 2 * MaxPass
<1>1. /\ Len(box') > Len(box) /\ at = i /\ at # 0 /\ Len(box) \in Nat
      /\ at \in 1 .. entries_cnt
  BY LenProperties, LoopIndex DEF Publishes, RouterInv, RouterTypeOK
<1>2. box' # box
  BY <1>1
<1>3. ASSUME NEW v \in Value, router_add_pdo(v)
      PROVE  since[i] >= Interval(i) - 2 * MaxPass
  <2>1. pc # "poll" /\ check_try_send(at, v, last_pub_td[at])
    BY <1>2, <1>3 DEF router_add_pdo
  <2>2. last_pub_td[at] \in 0 .. Wrap - 1 /\ last_pub_td[at] \in Nat /\ diff \in Nat
    <3>1. /\ last_pub_td \in [1 .. entries_cnt -> 0 .. Wrap - 1]
          /\ diff \in 0 .. MaxPass /\ MaxPass \in Nat /\ Wrap \in Nat
      BY RouterAssumption DEF RouterInv, RouterTypeOK
    <3>2. last_pub_td[at] \in 0 .. Wrap - 1
      BY <1>1, <3>1
    <3> QED BY <3>1, <3>2
  <2>3. Sent(at, v, last_pub_td[at])
    BY <1>1, <1>2, <2>1, <2>2, TrySend DEF RouterInv, Held
  <2>4. Due(i) = diff
    BY <2>1 DEF Due, Polled
  <2> QED BY <1>1, <2>2, <2>3, <2>4, SentInTime DEF Sent
<1>4. CASE router_poll
  <2>1. pc = "poll" /\ check_try_send(at, data[at], Passed(at))
    BY <1>2, <1>4 DEF router_poll
  <2>2. /\ Passed(at) \in 0 .. Wrap - 1 /\ Passed(at) <= last_pub_td[at] + diff
        /\ data[at] \in Value
    BY <1>1, PassedOf DEF RouterInv, RouterTypeOK
  <2>3. Sent(at, data[at], Passed(at))
    BY <1>1, <1>2, <2>1, <2>2, TrySend DEF RouterInv, Held
  <2>4. Due(i) = diff
    BY <1>1, LoopIndex DEF Due, Polled, RouterInv
  <2> QED BY <1>1, <2>2, <2>3, <2>4, SentInTime DEF Sent
<1>5. ASSUME NEW k \in 1 .. Capacity, Published(k) PROVE FALSE
  <2>1. Len(box') <= Len(box) /\ RouterInv'
    BY <1>5, PublishedStep
  <2>2. Len(box') \in Nat
    BY <2>1, LenProperties DEF RouterInv, RouterTypeOK
  <2> QED BY <1>1, <2>1, <2>2
<1>6. ASSUME NEW f \in Frames, Receive(f) PROVE FALSE
  BY <1>2, <1>6 DEF Receive
<1>7. ASSUME NEW e \in Entries, router_add_entry(e) PROVE FALSE
  BY <1>2, <1>7 DEF router_add_entry
<1>8. ~NetStart /\ ~Elapse /\ ~PollStart /\ ~PassEnd /\ ~UNCHANGED vars
  BY <1>2 DEF NetStart, Elapse, PollStart, PassEnd, vars
<1> QED BY <1>3, <1>4, <1>5, <1>6, <1>7, <1>8 DEF Next

(* Two messages of a route are apart by its interval, short of two passes  *)
(* of the main loop at most, whatever the 32 bits of last_pub_td do        *)
(* ("not send too frequent", router.c:167).                                *)
THEOREM IntervalCorrect == Spec => IntervalNearlyKept
<1>1. RouterInv /\ [Next]_vars =>
        [\A i \in 1 .. entries_cnt :
           Publishes(i) => since[i] >= Interval(i) - 2 * MaxPass]_vars
  BY PublishedByTrySend
<1> QED BY RouterInit, RouterStep, <1>1, PTL DEF Spec, IntervalNearlyKept
=============================================================================
