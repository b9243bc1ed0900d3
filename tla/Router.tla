------------------------------- MODULE Router -------------------------------
(***************************************************************************)
(* The router of the gateway (app/comm/router.c): values that CAN nodes    *)
(* send in PDOs are published under a topic, always, on change or not more *)
(* often than an interval.  A route keeps the newest value, and a flag     *)
(* while that value waits for its interval or for room in the publisher.   *)
(*                                                                         *)
(* A pass of the main loop (app.c): frames are received (can_drv_rxed),    *)
(* the network stack runs, which may let messages leave the publisher, add *)
(* a route through the console or block and receive frames meanwhile       *)
(* (delay_ms_w_can_poll), and router_poll goes through the routes.  The    *)
(* time a pass measures, diff_ms, is that of the pass before it.           *)
(***************************************************************************)
EXTENDS Integers, Sequences

CONSTANTS
  Entries,     (* what router_add_entry may be given: records               *)
               (* [topic, frame, interval]; interval is negative for routes *)
               (* that publish on change, 0 for those that always publish   *)
  Value,       (* values that a route cuts out of a PDO, ZERO among them    *)
  ZERO,
  MAX_ROUTES,
  Capacity,    (* of the publisher                                          *)
  Wrap,        (* 2^32: last_pub_td is 32 bits wide                         *)
  MaxPass      (* bound on the duration of a pass                           *)

ASSUME RouterAssumption ==
  /\ \A e \in Entries : e.interval \in Int /\ e.interval < Wrap
  /\ ZERO \in Value /\ MAX_ROUTES \in Nat \ {0} /\ Capacity \in Nat \ {0}
  /\ Wrap \in Nat \ {0} /\ MaxPass \in Nat

VARIABLES
  pc,            (* rx, net, poll                                           *)
  at,            (* the loop over the routes: its index, 0 outside          *)
  frame,         (* the frame it handles                                    *)
  diff, elapsed, (* diff_ms; the time this pass has taken so far            *)
  routes,        (* the entries_cnt first entries of router.routes          *)
  data, data_prev, last_pub_td, flag_new_msg,     (* their fields           *)
  box,           (* the topics of the messages in the publisher             *)
  sent,          (* history: the value accepted last, ZERO before           *)
  since          (* history: time since then, or since the route was added, *)
                 (* as far as the interval tells it apart                   *)

loop    == <<pc, at, frame, diff, elapsed>>
fields  == <<data, data_prev, last_pub_td, flag_new_msg>>
history == <<sent, since>>
vars    == <<loop, routes, fields, box, history>>

Frames == {e.frame : e \in Entries}
Topics == {e.topic : e \in Entries}
Ring   == INSTANCE Outbox WITH Msg <- Topics
entries_cnt == Len(routes)
Interval(i) == routes[i].interval
(* The history of a route counts up to its interval.                       *)
Counted(i, n) == IF n < Interval(i) THEN n + 1 ELSE n

Init ==
  /\ pc = "rx" /\ at = 0 /\ frame \in Frames
  /\ diff = 0 /\ elapsed = 0
  /\ routes = <<>> /\ data = <<>> /\ data_prev = <<>>
  /\ last_pub_td = <<>> /\ flag_new_msg = <<>>
  /\ box = <<>> /\ sent = <<>> /\ since = <<>>

-----------------------------------------------------------------------------
(* Whether route i has to wait for its interval when td has passed.        *)
TooEarly(i, td) == Interval(i) > 0 /\ td < Interval(i)

(* Mutants: the time is not reset; the flag falls whatever the publisher   *)
(* says.                                                                   *)
check_try_send_Kept(i, v, td) ==
  /\ last_pub_td' = [last_pub_td EXCEPT ![i] = td]
  /\ IF ~TooEarly(i, td) /\ Ring!Accepts
     THEN /\ Ring!Accept(routes[i].topic)
          /\ flag_new_msg' = [flag_new_msg EXCEPT ![i] = FALSE]
          /\ sent' = [sent EXCEPT ![i] = v] /\ since' = [since EXCEPT ![i] = 0]
     ELSE flag_new_msg' = [flag_new_msg EXCEPT ![i] = TRUE] /\ UNCHANGED <<box, history>>
check_try_send_Unchecked(i, v, td) ==
  IF TooEarly(i, td)
  THEN /\ flag_new_msg' = [flag_new_msg EXCEPT ![i] = TRUE]
       /\ last_pub_td' = [last_pub_td EXCEPT ![i] = td] /\ UNCHANGED <<box, history>>
  ELSE /\ flag_new_msg' = [flag_new_msg EXCEPT ![i] = FALSE]
       /\ last_pub_td' = [last_pub_td EXCEPT ![i] = 0]
       /\ IF Ring!Accepts
          THEN /\ Ring!Accept(routes[i].topic)
               /\ sent' = [sent EXCEPT ![i] = v] /\ since' = [since EXCEPT ![i] = 0]
          ELSE UNCHANGED <<box, history>>
(* check_try_send of route i, whose flag is set, with the value v and the  *)
(* time td since it has published: the publisher may be full.              *)
check_try_send(i, v, td) ==
  IF ~TooEarly(i, td) /\ Ring!Accepts
  THEN /\ Ring!Accept(routes[i].topic)
       /\ flag_new_msg' = [flag_new_msg EXCEPT ![i] = FALSE]
       /\ last_pub_td' = [last_pub_td EXCEPT ![i] = 0]
       /\ sent' = [sent EXCEPT ![i] = v] /\ since' = [since EXCEPT ![i] = 0]
  ELSE /\ flag_new_msg' = [flag_new_msg EXCEPT ![i] = TRUE]
       /\ last_pub_td' = [last_pub_td EXCEPT ![i] = td]
       /\ UNCHANGED <<box, history>>

(* The index after i, 0 after the last route.                              *)
After(i) == IF i < entries_cnt THEN i + 1 ELSE 0

(* A frame is received; the loop over the routes starts.                   *)
Receive(f) ==
  /\ pc \in {"rx", "net"} /\ at = 0 /\ entries_cnt > 0
  /\ at' = 1 /\ frame' = f
  /\ UNCHANGED <<pc, diff, elapsed, routes, fields, box, history>>

(* Whether the value v is old for route i.                                 *)
Unchanged(i, v) == Interval(i) < 0 /\ v = data_prev[i]

(* router_add_pdo, one route of its loop: v is its part of the frame.      *)
router_add_pdo(v) ==
  /\ pc \in {"rx", "net"} /\ at # 0 /\ at' = After(at)
  /\ IF routes[at].frame # frame
     THEN v = ZERO /\ UNCHANGED <<fields, box, history>>
     ELSE /\ data' = [data EXCEPT ![at] = v]
          /\ IF Unchanged(at, v)
             THEN UNCHANGED <<data_prev, last_pub_td, flag_new_msg, box, history>>
             ELSE /\ data_prev' = [data_prev EXCEPT ![at] = v]
                  /\ check_try_send(at, v, last_pub_td[at])
  /\ UNCHANGED <<pc, frame, diff, elapsed, routes>>

-----------------------------------------------------------------------------
NetStart ==
  /\ pc = "rx" /\ at = 0 /\ pc' = "net"
  /\ UNCHANGED <<at, frame, diff, elapsed, routes, fields, box, history>>

(* Messages leave the publisher, also when the stack has blocked.          *)
Published(k) ==
  /\ pc = "net" /\ at = 0 /\ Ring!Leave(k)
  /\ UNCHANGED <<loop, routes, fields, history>>

(* Time passes in the network stack: a callback that blocks.               *)
Elapse ==
  /\ pc = "net" /\ at = 0 /\ elapsed < MaxPass /\ elapsed' = elapsed + 1
  /\ since' = [i \in DOMAIN since |-> Counted(i, since[i])]
  /\ UNCHANGED <<pc, at, frame, diff, routes, fields, box, sent>>

(* router_add_entry with an entry that parses: a topic is given once, and  *)
(* the last place is never used.                                           *)
router_add_entry(e) ==
  /\ pc = "net" /\ at = 0 /\ entries_cnt + 1 < MAX_ROUTES
  /\ \A i \in 1 .. entries_cnt : routes[i].topic # e.topic
  /\ routes' = Append(routes, e)
  /\ data' = Append(data, ZERO) /\ data_prev' = Append(data_prev, ZERO)
  /\ last_pub_td' = Append(last_pub_td, 0) /\ flag_new_msg' = Append(flag_new_msg, FALSE)
  /\ sent' = Append(sent, ZERO) /\ since' = Append(since, 0)
  /\ UNCHANGED <<loop, box>>

PollStart ==
  /\ pc = "net" /\ at = 0 /\ pc' = "poll" /\ at' = After(0)
  /\ UNCHANGED <<frame, diff, elapsed, routes, fields, box, history>>

(* last_pub_td after router_poll has added the pass.                       *)
Passed(i) == (last_pub_td[i] + diff) % Wrap

(* router_poll, one route of its loop.                                     *)
router_poll ==
  /\ pc = "poll" /\ at # 0 /\ at' = After(at)
  /\ IF flag_new_msg[at]
     THEN check_try_send(at, data[at], Passed(at))
     ELSE /\ last_pub_td' = [last_pub_td EXCEPT ![at] = Passed(at)]
          /\ UNCHANGED <<flag_new_msg, box, history>>
  /\ UNCHANGED <<pc, frame, diff, elapsed, routes, data, data_prev>>

(* The next pass measures the time this one has taken.                     *)
PassEnd ==
  /\ pc = "poll" /\ at = 0 /\ pc' = "rx" /\ diff' = elapsed /\ elapsed' = 0
  /\ UNCHANGED <<at, frame, routes, fields, box, history>>

Next ==
  \/ \E f \in Frames : Receive(f)
  \/ \E v \in Value : router_add_pdo(v)
  \/ NetStart \/ Elapse \/ PollStart \/ router_poll \/ PassEnd
  \/ \E k \in 1 .. Capacity : Published(k)
  \/ \E e \in Entries : router_add_entry(e)

Spec == Init /\ [][Next]_vars

-----------------------------------------------------------------------------
(* Types: one type invariant of the module.                                *)
RouterTypeOK ==
  /\ pc \in {"rx", "net", "poll"} /\ at \in 0 .. entries_cnt /\ frame \in Frames
  /\ diff \in 0 .. MaxPass /\ elapsed \in 0 .. MaxPass
  /\ routes \in Seq(Entries) /\ entries_cnt < MAX_ROUTES
  /\ data \in [1 .. entries_cnt -> Value] /\ data_prev \in [1 .. entries_cnt -> Value]
  /\ last_pub_td \in [1 .. entries_cnt -> 0 .. Wrap - 1]
  /\ flag_new_msg \in [1 .. entries_cnt -> BOOLEAN]
  /\ box \in Seq(Topics) /\ Len(box) <= Capacity
  /\ sent \in [1 .. entries_cnt -> Value]
  /\ since \in [1 .. entries_cnt -> Nat]

(* A route that waits for nothing has published the newest value it got:   *)
(* whatever was refused, overwritten or held back for its interval, on     *)
(* change or not.  Before the first value that is ZERO, which a route on   *)
(* change takes for known (router_add_pdo, check_try_send).                *)
NewestIsPublished ==
  \A i \in 1 .. entries_cnt : flag_new_msg[i] \/ sent[i] = data[i]

(* After router_poll a value only waits for its interval or because the    *)
(* publisher is full: no route is passed over (router.c:204-211).          *)
PollLeavesNothing ==
  pc = "poll" /\ at = 0 =>
    \A i \in 1 .. entries_cnt :
      flag_new_msg[i] => TooEarly(i, last_pub_td[i]) \/ ~Ring!Accepts

(* Route i publishes in this step.                                         *)
Publishes(i) == Len(box') > Len(box) /\ at = i

(* "not send too frequent" (router.c:167): an interval is short by no more *)
(* than two passes.  That much it may be: a pass is charged with the time  *)
(* of the one before it, so that a value published while the network stack *)
(* blocks starts with the time of both.  The wrap of last_pub_td may only  *)
(* make an interval longer (router_poll, check_try_send).                  *)
IntervalNearlyKept ==
  [][\A i \in 1 .. entries_cnt :
       Publishes(i) => since[i] >= Interval(i) - 2 * MaxPass]_vars
=============================================================================
