-------------------------- MODULE NodeFlasherProofs --------------------------
(***************************************************************************)
(* Proofs about the transfers to nodes, for any nodes, sessions, length of *)
(* the file and number of faults: the blocks acknowledged to an upload     *)
(* that met no other are on the program it was asked for, and no node is   *)
(* written that nobody asked for.                                          *)
(***************************************************************************)
EXTENDS NodeFlasher, SequenceTheorems, TLAPS

-----------------------------------------------------------------------------
(* What is left of a callback of a node: the program that runs is not      *)
(* known yet, or it is the other one.                                      *)
Identified == {<<"stop", "clear", "block">>, <<"clear", "block">>, <<"block">>}
NodeCalls  == Identified \union
  {<<"ident", "stop", "clear", "block">>, <<"start", "ident2", "stop", "clear", "block">>,
   <<"ident2", "stop", "clear", "block">>}

(* The counts of a session; a failure ends it.                             *)
CountsInv ==
  \A s \in Sess : /\ acked[s] <= tot[s] /\ tot[s] <= len[s]
                  /\ st[s] \in {"unused", "rd"} => tot[s] = 0
                  /\ st[s] = "wr" => acked[s] = tot[s] /\ (tot[s] < len[s] \/ len[s] = 0)

(* A call of the read callback, and one of the write callback.             *)
Reading == st[cur] = "rd" /\ ~ending /\ todo \in {<<"stop", "read">>, <<"read">>}
Writing ==
  /\ IF ending THEN st[cur] \in {"closed", "failed"} ELSE st[cur] = "wr" /\ tot[cur] < len[cur]
  /\ \/ write = "node" /\ todo \in NodeCalls
     \/ write = "node" /\ todo = <<"check">> /\ ending
     \/ write = "gw" /\ todo = <<"gw">>
     \/ write = "refuse" /\ todo = <<"refuse">>
  /\ tot[cur] > 0 /\ todo \in NodeCalls => todo = <<"block">>
  /\ ending /\ len[cur] > 0 => todo = <<"check">>
CallInv ==
  IF todo = <<>> THEN ~ending ELSE cur \in Sess /\ (Reading \/ Writing)

(* Who works on a node knows which, and who writes has a callback.         *)
GlobalsInv ==
  /\ write \in {"node", "refuse"} \/ (\E s \in Sess : st[s] = "rd") =>
       flasher_id \in Node /\ fw \in Prog
  /\ (\E s \in Sess : st[s] = "wr") => write # "none"

(* The uploads that can still write.  Unless two of them overlap, the      *)
(* globals are those of its request, and a sole one is alone.              *)
Busy(s) == st[s] = "wr" \/ (todo # <<>> /\ ending /\ cur = s)
Linked(s) == /\ write = WriteCallback(target[s])
             /\ target[s] # Gw => target[s] = <<flasher_id, fw>>
BusyInv ==
  \A s \in Sess : Busy(s) =>
    /\ target[s] \in asked
    /\ ~overlap \/ sole # None => Linked(s)
    /\ sole # None => s = sole

(* The target holds the first n blocks of s and is blank behind them.      *)
Exactly(s, n) == \A i \in 1 .. N : slot[target[s]][i] = (IF i <= n THEN s ELSE Blank)
NotRunning(s) == run[target[s][1]] # target[s][2]

(* How far the sole upload has come.                                       *)
Progress(s) ==
  st[s] = "wr" =>
    /\ tot[s] > 0 => Exactly(s, tot[s])
    /\ target[s] = Gw => (armed <=> tot[s] = 0)
    /\ target[s] # Gw /\ tot[s] > 0 => NotRunning(s)
    /\ cur = s /\ todo \in Identified => NotRunning(s)
    /\ cur = s /\ todo = <<"block">> => Exactly(s, tot[s])

FlasherInv ==
  /\ FlasherTypeOK /\ CountsInv /\ CallInv /\ GlobalsInv /\ BusyInv
  /\ sole # None => Progress(sole)
  /\ AckedIsOnTarget /\ NodeUntouched

-----------------------------------------------------------------------------
(* The exchanges of a callback, one by one.                                *)
Goes(next) == todo' = next /\ UNCHANGED <<cur, ending, st, tot, acked, done>>
Kept == UNCHANGED <<armed, slot, run>>
Cleared == [slot EXCEPT ![Written(flasher_id)] = Area(Blank)]
Programmed == [slot EXCEPT ![Written(flasher_id)][Place] = cur]

(* The callback after a node that answered with the same program.          *)
LEMMA RestartTodo ==
  <<"start", "ident2">> \o <<"stop", "clear", "block">> =
    <<"start", "ident2", "stop", "clear", "block">>
<1> DEFINE S == {"start", "ident2", "stop", "clear", "block"}
           a == <<"start", "ident2">>
           b == <<"stop", "clear", "block">>
           c == <<"start", "ident2", "stop", "clear", "block">>
<1>1. a \in Seq(S) /\ b \in Seq(S) /\ c \in Seq(S) /\ Len(a) = 2 /\ Len(b) = 3 /\ Len(c) = 5
  OBVIOUS
<1> HIDE DEF S
<1>2. /\ a \o b \in Seq(S) /\ Len(a \o b) = Len(a) + Len(b)
      /\ \A i \in 1 .. Len(a) + Len(b) :
           (a \o b)[i] = IF i <= Len(a) THEN a[i] ELSE b[i - Len(a)]
  BY <1>1, ConcatProperties
<1>3. \A i \in 1 .. 5 : (a \o b)[i] = c[i]
  <2> SUFFICES ASSUME NEW i \in 1 .. 5 PROVE (a \o b)[i] = c[i]
    OBVIOUS
  <2>1. (a \o b)[i] = IF i <= 2 THEN a[i] ELSE b[i - 2]
    BY <1>1, <1>2
  <2> QED BY <2>1
<1>4. Len(a \o b) = 5
  BY <1>1, <1>2
<1> QED BY <1>1, <1>2, <1>3, <1>4, SeqEqual, Zenon

(* The last exchange ends the callback, any other is followed by the next. *)
LEMMA LastExchange ==
  ASSUME NEW x, todo = <<x>>, Continue(<<>>) PROVE Returned(TRUE)
<1>1. <<>> \o Tail(<<x>>) = <<>>
  OBVIOUS
<1> QED BY <1>1, Zenon DEF Continue

(* An exchange that is not the last leaves the rest of the callback.       *)
LEMMA NextExchange ==
  ASSUME Continue(<<>>)
  PROVE  /\ todo = <<"stop", "read">> => Goes(<<"read">>)
         /\ todo = <<"ident", "stop", "clear", "block">> => Goes(<<"stop", "clear", "block">>)
         /\ todo = <<"start", "ident2", "stop", "clear", "block">> =>
              Goes(<<"ident2", "stop", "clear", "block">>)
         /\ todo = <<"ident2", "stop", "clear", "block">> => Goes(<<"stop", "clear", "block">>)
         /\ todo = <<"stop", "clear", "block">> => Goes(<<"clear", "block">>)
         /\ todo = <<"clear", "block">> => Goes(<<"block">>)
<1>1. /\ <<>> \o Tail(<<"stop", "read">>) = <<"read">>
      /\ <<>> \o Tail(<<"ident", "stop", "clear", "block">>) = <<"stop", "clear", "block">>
      /\ <<>> \o Tail(<<"start", "ident2", "stop", "clear", "block">>) =
           <<"ident2", "stop", "clear", "block">>
      /\ <<>> \o Tail(<<"ident2", "stop", "clear", "block">>) = <<"stop", "clear", "block">>
      /\ <<>> \o Tail(<<"stop", "clear", "block">>) = <<"clear", "block">>
      /\ <<>> \o Tail(<<"clear", "block">>) = <<"block">>
  OBVIOUS
<1>2. /\ <<"read">> # <<>> /\ <<"stop", "clear", "block">> # <<>>
      /\ <<"ident2", "stop", "clear", "block">> # <<>>
      /\ <<"clear", "block">> # <<>> /\ <<"block">> # <<>>
  OBVIOUS
<1>3. <<>> \o Tail(todo) # <<>> => Goes(<<>> \o Tail(todo))
  BY Zenon DEF Continue, Goes
<1> QED BY <1>1, <1>2, <1>3, Zenon

(* A read, or the end of a file, changes nothing of the node.              *)
LEMMA ReadExchange ==
  ASSUME Step, todo \in {<<"stop", "read">>, <<"read">>, <<"check">>}
  PROVE  /\ Kept
         /\ \/ \E ok \in BOOLEAN : Returned(ok)
            \/ todo = <<"stop", "read">> /\ Goes(<<"read">>)
<1>1. Head(todo) \in {"stop", "read", "check"}
  OBVIOUS
<1>2. Exchange \/ NoAnswer
  BY <1>1, Zenon DEF Step
<1>3. CASE Exchange
  <2>1. Continue(<<>>) /\ Kept
    BY <1>3 DEF Exchange, flash, Kept
  <2> QED BY <2>1, LastExchange, NextExchange, Zenon
<1>4. CASE NoAnswer
  <2>1. Returned(FALSE) /\ Kept
    BY <1>1, <1>4 DEF NoAnswer, Kept
  <2> QED BY <2>1
<1> QED BY <1>2, <1>3, <1>4

(* The node is asked what it runs: it is the other program, or it is       *)
(* restarted and asked again.                                              *)
LEMMA IdentExchange ==
  ASSUME Step, todo = <<"ident", "stop", "clear", "block">>
  PROVE  /\ Kept
         /\ \/ Returned(FALSE)
            \/ Goes(<<"start", "ident2", "stop", "clear", "block">>)
            \/ run[flasher_id] # fw /\ Goes(<<"stop", "clear", "block">>)
<1>1. Head(todo) = "ident" /\ Tail(todo) = <<"stop", "clear", "block">>
  OBVIOUS
<1>2. Ident \/ NoAnswer
  BY <1>1, Zenon DEF Step
<1>3. CASE Ident
  <2>1. Kept
    BY <1>3 DEF Ident, flash, Kept
  <2>2. CASE run[flasher_id] = fw
    <3>1. Continue(<<"start", "ident2">>)
      BY <1>3, <2>2 DEF Ident
    <3>2. <<"start", "ident2", "stop", "clear", "block">> # <<>>
      OBVIOUS
    <3>3. Goes(<<"start", "ident2", "stop", "clear", "block">>)
      BY <1>1, <3>1, <3>2, RestartTodo, Zenon DEF Continue, Goes
    <3> QED BY <2>1, <3>3
  <2>3. CASE run[flasher_id] # fw
    <3>1. Continue(<<>>)
      BY <1>3, <2>3 DEF Ident
    <3> QED BY <2>1, <2>3, <3>1, NextExchange
  <2> QED BY <2>2, <2>3
<1>4. CASE NoAnswer
  BY <1>1, <1>4 DEF NoAnswer, Kept
<1> QED BY <1>2, <1>3, <1>4

(* The restart, done or lost.                                              *)
LEMMA StartExchange ==
  ASSUME Step, todo = <<"start", "ident2", "stop", "clear", "block">>
  PROVE  /\ UNCHANGED <<armed, slot>> /\ run' \in {run, [run EXCEPT ![flasher_id] = "ldr"]}
         /\ Goes(<<"ident2", "stop", "clear", "block">>)
<1>1. Head(todo) = "start"
  OBVIOUS
<1>2. StartBootloader
  BY <1>1, Zenon DEF Step
<1> QED BY <1>2, NextExchange DEF StartBootloader, flash

(* Asked again, the same program ends the callback.                        *)
LEMMA Ident2Exchange ==
  ASSUME Step, todo = <<"ident2", "stop", "clear", "block">>
  PROVE  /\ Kept
         /\ \/ Returned(FALSE)
            \/ run[flasher_id] # fw /\ Goes(<<"stop", "clear", "block">>)
<1>1. Head(todo) = "ident2"
  OBVIOUS
<1>2. Ident2 \/ NoAnswer
  BY <1>1, Zenon DEF Step
<1>3. CASE Ident2
  <2>1. Kept /\ (IF run[flasher_id] = fw THEN Returned(FALSE) ELSE Continue(<<>>))
    BY <1>3 DEF Ident2, SameAgain, flash, Kept
  <2> QED BY <2>1, NextExchange
<1>4. CASE NoAnswer
  BY <1>1, <1>4 DEF NoAnswer, Kept
<1> QED BY <1>2, <1>3, <1>4

(* The program is stopped.                                                 *)
LEMMA StopExchange ==
  ASSUME Step, todo = <<"stop", "clear", "block">>
  PROVE  Kept /\ (Returned(FALSE) \/ Goes(<<"clear", "block">>))
<1>1. Head(todo) = "stop"
  OBVIOUS
<1>2. Exchange \/ NoAnswer
  BY <1>1, Zenon DEF Step
<1>3. CASE Exchange
  <2>1. Kept /\ Continue(<<>>)
    BY <1>3 DEF Exchange, flash, Kept
  <2> QED BY <2>1, NextExchange
<1>4. CASE NoAnswer
  BY <1>1, <1>4 DEF NoAnswer, Kept
<1> QED BY <1>2, <1>3, <1>4

(* The area is cleared, or no answer to that came.                         *)
LEMMA ClearExchange ==
  ASSUME Step, todo = <<"clear", "block">>
  PROVE  /\ UNCHANGED <<armed, run>>
         /\ \/ slot' \in {slot, Cleared} /\ Returned(FALSE)
            \/ slot' = Cleared /\ Goes(<<"block">>)
<1>1. Head(todo) = "clear"
  OBVIOUS
<1>2. Clear \/ NoAnswer
  BY <1>1, Zenon DEF Step
<1>3. CASE Clear
  BY <1>3, NextExchange DEF Clear, Cleared
<1>4. CASE NoAnswer
  BY <1>1, <1>4 DEF NoAnswer, Cleared
<1> QED BY <1>2, <1>3, <1>4

(* A block is programmed or refused, with or without an answer.            *)
LEMMA BlockExchange ==
  ASSUME Step, todo = <<"block">>, NodeTypes
  PROVE  /\ UNCHANGED <<armed, run>>
         /\ \/ slot' = slot /\ (Returned(FALSE) \/ (ending /\ Returned(TRUE)))
            \/ ~ending /\ slot' = Programmed /\ \E ok \in BOOLEAN : Returned(ok)
<1>1. Head(todo) = "block"
  OBVIOUS
<1>2. Block \/ NoAnswer
  BY <1>1, Zenon DEF Step
<1>3. CASE Block
  <2> DEFINE t == Written(flasher_id)
  <2>1. [slot EXCEPT ![t] = slot[t]] = slot
    BY DEF NodeTypes
  <2>2. Program(slot[t], t) /\ UNCHANGED <<armed, run>>
    BY <1>3 DEF Block
  <2>3. CASE HasData /\ slot[t][Place] # Blank
    BY <2>1, <2>2, <2>3 DEF Program
  <2>4. CASE ~(HasData /\ slot[t][Place] # Blank)
    <3>1. /\ slot' = [slot EXCEPT ![t] = IF HasData THEN [slot[t] EXCEPT ![Place] = cur] ELSE slot[t]]
          /\ Continue(<<>>)
      BY <2>2, <2>4 DEF Program
    <3>2. Returned(TRUE)
      BY <3>1, LastExchange
    <3>3. HasData => slot' = Programmed
      BY <3>1 DEF Programmed
    <3>4. ~HasData => slot' = slot
      BY <2>1, <3>1
    <3> QED BY <2>2, <3>2, <3>3, <3>4 DEF HasData
  <2> QED BY <2>3, <2>4
<1>4. CASE NoAnswer
  <2>1. Returned(FALSE) /\ UNCHANGED <<armed, run>>
    BY <1>4 DEF NoAnswer
  <2>2. slot' = slot \/ (~ending /\ slot' = Programmed)
    BY <1>1, <1>4 DEF NoAnswer, HasData, Programmed
  <2> QED BY <2>1, <2>2
<1> QED BY <1>2, <1>3, <1>4

(* The flash of the gateway before its next block.                         *)
GwArea == IF armed THEN Area(Blank) ELSE slot[Gw]

(* A block of the gateway's own loader.                                    *)
LEMMA GwExchange ==
  ASSUME Step, todo = <<"gw">>
  PROVE  /\ run' = run
         /\ \/ ending /\ UNCHANGED <<armed, slot>> /\ Returned(TRUE)
            \/ /\ ~ending /\ armed' = FALSE
               /\ \/ slot' = [slot EXCEPT ![Gw] = GwArea] /\ Returned(FALSE)
                  \/ slot' = [slot EXCEPT ![Gw] = [GwArea EXCEPT ![Place] = cur]] /\ Returned(TRUE)
<1>1. Head(todo) = "gw"
  OBVIOUS
<1>2. GwWrite
  BY <1>1, Zenon DEF Step
<1>3. CASE ending
  <2>1. Continue(<<>>) /\ UNCHANGED <<armed, slot, run>>
    BY <1>2, <1>3 DEF GwWrite, HasData
  <2> QED BY <1>3, <2>1, LastExchange
<1>4. CASE ~ending
  <2>1. Program(GwArea, Gw) /\ armed' = FALSE /\ run' = run
    BY <1>2, <1>4 DEF GwWrite, HasData, GwArea
  <2>2. \/ slot' = [slot EXCEPT ![Gw] = GwArea] /\ Returned(FALSE)
        \/ slot' = [slot EXCEPT ![Gw] = [GwArea EXCEPT ![Place] = cur]] /\ Continue(<<>>)
    BY <1>4, <2>1 DEF Program, HasData
  <2> QED BY <1>4, <2>1, <2>2, LastExchange
<1> QED BY <1>3, <1>4

(* The preloader is refused.                                               *)
LEMMA RefuseExchange ==
  ASSUME Step, todo = <<"refuse">>
  PROVE  Kept /\ Returned(FALSE)
<1>1. Head(todo) = "refuse"
  OBVIOUS
<1>2. Refuse
  BY <1>1, Zenon DEF Step
<1> QED BY <1>2 DEF Refuse, flash, Kept

-----------------------------------------------------------------------------
(* What an exchange leaves alone.                                          *)
SameRequest == UNCHANGED <<flasher_id, fw, write, target, len, sole, overlap, asked>>

(* The calls an exchange leaves behind, and the uploads that can write.    *)
Calls == SessionTypes /\ CountsInv /\ CallInv
Fewer == \A s \in Sess : /\ Busy(s)' => Busy(s)
                         /\ st'[s] \in {"rd", "wr", "unused"} => st'[s] = st[s]

(* The read callback and the end of a file change no count.                *)
LEMMA ReturnedUncounted ==
  ASSUME Calls, SameRequest, todo # <<>>, NEW ok \in BOOLEAN, Returned(ok), ending \/ Reading
  PROVE  /\ Calls' /\ Fewer /\ UNCHANGED <<cur, tot, acked, done>> /\ todo' = <<>>
         /\ \A s \in Sess : st'[s] = "wr" => st[s] = "wr"
<1>1. cur \in Sess /\ (Reading \/ Writing)
  BY DEF Calls, CallInv
<1>2. /\ todo' = <<>> /\ ending' = FALSE /\ UNCHANGED <<cur, tot, acked, done>>
      /\ \/ st' = st
         \/ st[cur] = "rd" /\ st' = [st EXCEPT ![cur] = "failed"]
  BY DEF Returned, Reading
<1>3. \A s \in Sess : st'[s] = st[s] \/ (st'[s] = "failed")
  BY <1>2 DEF Calls, SessionTypes
<1>4. SessionTypes'
  BY <1>1, <1>2 DEF Calls, SessionTypes, SameRequest
<1>5. CountsInv'
  BY <1>2, <1>3 DEF Calls, CountsInv, SameRequest
<1>6. CallInv'
  BY <1>2 DEF CallInv
<1>7. Fewer
  BY <1>2, <1>3 DEF Fewer, Busy
<1> QED BY <1>2, <1>3, <1>4, <1>5, <1>6, <1>7 DEF Calls

(* A block counts; it is acknowledged, or the session is over.             *)
LEMMA ReturnedCounted ==
  ASSUME Calls, SameRequest, todo # <<>>, NEW ok \in BOOLEAN, Returned(ok), ~ending, ~Reading
  PROVE  /\ Calls' /\ Fewer /\ cur' = cur /\ st[cur] = "wr" /\ cur \in Sess
         /\ tot' = [tot EXCEPT ![cur] = tot[cur] + 1]
         /\ acked' = IF ok THEN [acked EXCEPT ![cur] = acked[cur] + 1] ELSE acked
         /\ st'[cur] = "wr" => ok /\ todo' = <<>>
<1>1. cur \in Sess /\ Writing /\ st[cur] = "wr" /\ tot[cur] < len[cur]
  BY DEF Calls, CallInv, Writing
<1> DEFINE last == tot[cur] + 1 = len[cur]
<1>2. /\ tot' = [tot EXCEPT ![cur] = tot[cur] + 1]
      /\ acked' = (IF ok THEN [acked EXCEPT ![cur] = acked[cur] + 1] ELSE acked)
      /\ done' = (IF ok /\ last THEN done \union {cur} ELSE done)
      /\ st' = (IF ~ok THEN [st EXCEPT ![cur] = "failed"]
                ELSE IF last THEN [st EXCEPT ![cur] = "closed"] ELSE st)
      /\ todo' = (IF last THEN EndOfFile ELSE <<>>)
      /\ ending' = (last /\ EndOfFile # <<>>)
      /\ cur' = cur
  BY <1>1, Zenon DEF Returned
<1> HIDE DEF last
<1>3. /\ tot \in [Sess -> 0 .. N] /\ acked \in [Sess -> 0 .. N] /\ len \in [Sess -> {0, N}]
      /\ N \in Nat \ {0} /\ acked[cur] = tot[cur]
  BY <1>1, FlasherAssumption DEF Calls, SessionTypes, CountsInv
<1>4. tot' \in [Sess -> 0 .. N] /\ acked' \in [Sess -> 0 .. N]
  <2>1. tot[cur] + 1 \in 0 .. N /\ acked[cur] + 1 \in 0 .. N
    BY <1>1, <1>3
  <2> QED BY <1>1, <1>2, <1>3, <2>1
<1>5. SessionTypes'
  <2>1. st' \in [Sess -> {"unused", "rd", "wr", "failed", "closed"}] /\ done' \subseteq Sess
    BY <1>1, <1>2 DEF Calls, SessionTypes
  <2> QED BY <1>4, <2>1 DEF Calls, SessionTypes, SameRequest
<1>6. \A s \in Sess : /\ s # cur => st'[s] = st[s] /\ tot'[s] = tot[s] /\ acked'[s] = acked[s]
                      /\ st'[s] = st[s] \/ st'[s] \in {"failed", "closed"}
  BY <1>1, <1>2 DEF Calls, SessionTypes
<1>7. /\ tot'[cur] = tot[cur] + 1 /\ acked'[cur] = (IF ok THEN acked[cur] + 1 ELSE acked[cur])
      /\ st'[cur] = "wr" => ok /\ ~last
      /\ st'[cur] \in {"wr", "failed", "closed"}
      /\ ending' => st'[cur] \in {"failed", "closed"}
  BY <1>1, <1>2, <1>3 DEF Calls, SessionTypes
<1>8. CountsInv'
  <2> SUFFICES ASSUME NEW s \in Sess
               PROVE  /\ acked'[s] <= tot'[s] /\ tot'[s] <= len[s]
                      /\ st'[s] \in {"unused", "rd"} => tot'[s] = 0
                      /\ st'[s] = "wr" => acked'[s] = tot'[s] /\ (tot'[s] < len[s] \/ len[s] = 0)
    BY DEF CountsInv, SameRequest
  <2>1. CASE s = cur
    <3>1. tot[cur] + 1 <= len[cur] /\ (~last => tot[cur] + 1 < len[cur])
      BY <1>1, <1>3 DEF last
    <3> QED BY <1>1, <1>3, <1>7, <2>1, <3>1
  <2>2. CASE s # cur
    BY <1>6, <2>2 DEF Calls, CountsInv
  <2> QED BY <2>1, <2>2
<1>9. CallInv'
  <2>1. CASE last /\ write = "node"
    <3>1. todo' = <<"check">> /\ <<"check">> # <<>> /\ ending'
      BY <1>2, <2>1 DEF EndOfFile
    <3>2. <<"check">> \notin NodeCalls
      BY DEF NodeCalls, Identified
    <3>3. Writing'
      BY <1>2, <1>7, <2>1, <3>1, <3>2 DEF Writing, SameRequest, NodeCalls, Identified
    <3> QED BY <1>1, <1>2, <3>1, <3>3 DEF CallInv
  <2>2. CASE ~(last /\ write = "node")
    <3>1. todo' = <<>> /\ ending' = FALSE
      BY <1>2, <2>2 DEF EndOfFile
    <3> QED BY <3>1 DEF CallInv
  <2> QED BY <2>1, <2>2
<1>10. Fewer
  <2> SUFFICES ASSUME NEW s \in Sess
               PROVE  /\ Busy(s)' => Busy(s)
                      /\ st'[s] \in {"rd", "wr", "unused"} => st'[s] = st[s]
    BY DEF Fewer
  <2>1. Busy(s)' => st'[s] = "wr" \/ s = cur
    BY <1>2 DEF Busy
  <2> QED BY <1>1, <1>6, <2>1 DEF Busy
<1>11. st'[cur] = "wr" => todo' = <<>>
  BY <1>2, <1>7
<1> QED BY <1>1, <1>2, <1>5, <1>7, <1>8, <1>9, <1>10, <1>11 DEF Calls

(* The callback goes on.                                                   *)
LEMMA GoesOn ==
  ASSUME Calls, SameRequest, NEW next, Goes(next), next # <<>>,
         \/ Reading /\ next = <<"read">>
         \/ /\ Writing /\ write = "node" /\ next \in NodeCalls /\ todo \in NodeCalls
            /\ todo # <<"block">>
  PROVE  Calls' /\ Fewer
<1>1. cur \in Sess /\ todo # <<>>
  <2>1. todo # <<>>
    BY DEF Reading, NodeCalls, Identified
  <2> QED BY <2>1 DEF Calls, CallInv
<1>2. SessionTypes' /\ CountsInv'
  BY DEF Goes, Calls, SessionTypes, CountsInv, SameRequest
<1>3. Reading /\ next = <<"read">> => Reading'
  BY DEF Reading, Goes
<1>4. ASSUME Writing, write = "node", next \in NodeCalls, todo \in NodeCalls, todo # <<"block">>
      PROVE  Writing'
  <2>1. <<"check">> \notin NodeCalls
    BY DEF NodeCalls, Identified
  <2>2. ~(tot[cur] > 0) /\ ~(ending /\ len[cur] > 0)
    BY <1>4, <2>1 DEF Writing
  <2> QED BY <1>4, <2>2 DEF Writing, Goes, SameRequest, NodeCalls, Identified
<1>5. CallInv'
  BY <1>1, <1>3, <1>4 DEF CallInv, Goes
<1> QED BY <1>1, <1>2, <1>5 DEF Calls, Fewer, Goes, Busy

-----------------------------------------------------------------------------
(* An exchange and the requests.                                           *)
LEMMA StepSame == Step => SameRequest /\ todo # <<>>
BY DEF Step, SameRequest, globals

(* An exchange leaves the rest of the same callback or ends it.            *)
LEMMA StepCalls ==
  ASSUME FlasherInv, Step PROVE Calls' /\ Fewer
<1>1. Calls /\ SameRequest /\ todo # <<>> /\ cur \in Sess /\ (Reading \/ Writing) /\ NodeTypes
  BY StepSame DEF FlasherInv, FlasherTypeOK, Calls, CallInv
<1>2. ASSUME NEW ok \in BOOLEAN, Returned(ok) PROVE Calls' /\ Fewer
  BY <1>1, <1>2, ReturnedUncounted, ReturnedCounted, Zenon
<1>3. CASE Reading
  <2>1. (\E ok \in BOOLEAN : Returned(ok)) \/ Goes(<<"read">>)
    BY <1>3, ReadExchange DEF Reading
  <2> QED BY <1>1, <1>2, <1>3, <2>1, GoesOn
<1>4. CASE Writing /\ todo \in NodeCalls
  <2>0. write = "node"
    BY <1>4 DEF Writing, NodeCalls, Identified
  <2>1. ASSUME NEW next \in NodeCalls, Goes(next), todo # <<"block">> PROVE Calls' /\ Fewer
    <3>1. next # <<>>
      BY DEF NodeCalls, Identified
    <3> QED BY <1>1, <1>4, <2>0, <2>1, <3>1, GoesOn
  <2>2. \/ \E ok \in BOOLEAN : Returned(ok)
        \/ todo # <<"block">> /\ \E next \in NodeCalls : Goes(next)
    <3>1. /\ <<"start", "ident2", "stop", "clear", "block">> \in NodeCalls
          /\ <<"ident2", "stop", "clear", "block">> \in NodeCalls
          /\ <<"stop", "clear", "block">> \in NodeCalls
          /\ <<"clear", "block">> \in NodeCalls /\ <<"block">> \in NodeCalls
      BY DEF NodeCalls, Identified
    <3>2. CASE todo = <<"ident", "stop", "clear", "block">>
      BY <3>1, <3>2, IdentExchange
    <3>3. CASE todo = <<"start", "ident2", "stop", "clear", "block">>
      BY <3>1, <3>3, StartExchange
    <3>4. CASE todo = <<"ident2", "stop", "clear", "block">>
      BY <3>1, <3>4, Ident2Exchange
    <3>5. CASE todo = <<"stop", "clear", "block">>
      BY <3>1, <3>5, StopExchange
    <3>6. CASE todo = <<"clear", "block">>
      BY <3>1, <3>6, ClearExchange
    <3>7. CASE todo = <<"block">>
      BY <1>1, <3>7, BlockExchange
    <3> QED BY <1>4, <3>2, <3>3, <3>4, <3>5, <3>6, <3>7 DEF NodeCalls, Identified
  <2> QED BY <1>2, <2>1, <2>2
<1>5. CASE Writing /\ todo \notin NodeCalls
  <2>1. todo = <<"check">> \/ todo = <<"gw">> \/ todo = <<"refuse">>
    BY <1>5 DEF Writing
  <2>2. CASE todo = <<"check">>
    <3>1. todo # <<"stop", "read">>
      BY <2>2
    <3> QED BY <1>2, <2>2, <3>1, ReadExchange
  <2>3. CASE todo = <<"gw">>
    BY <1>2, <2>3, GwExchange
  <2>4. CASE todo = <<"refuse">>
    BY <1>2, <2>4, RefuseExchange
  <2> QED BY <2>1, <2>2, <2>3, <2>4
<1> QED BY <1>1, <1>3, <1>4, <1>5

(* What an exchange does to the flash of the nodes and of the gateway.     *)
LEMMA StepSlot ==
  ASSUME FlasherInv, Step
  PROVE  \/ slot' = slot
         \/ Writing /\ write = "node" /\ slot' = Cleared
         \/ Writing /\ ~ending /\ write = "node" /\ slot' = Programmed
         \/ /\ Writing /\ ~ending /\ write = "gw"
            /\ \/ slot' = [slot EXCEPT ![Gw] = GwArea]
               \/ slot' = [slot EXCEPT ![Gw] = [GwArea EXCEPT ![Place] = cur]]
<1>1. (Reading \/ Writing) /\ NodeTypes
  BY StepSame DEF FlasherInv, FlasherTypeOK, CallInv
<1>2. CASE todo = <<"clear", "block">>
  <2>1. Writing /\ write = "node"
    BY <1>1, <1>2 DEF Reading, Writing
  <2> QED BY <1>2, <2>1, ClearExchange
<1>3. CASE todo = <<"block">>
  <2>1. Writing /\ write = "node"
    BY <1>1, <1>3 DEF Reading, Writing
  <2> QED BY <1>1, <1>3, <2>1, BlockExchange
<1>4. CASE todo = <<"gw">>
  <2>1. Writing /\ write = "gw"
    BY <1>1, <1>4 DEF Reading, Writing, NodeCalls, Identified
  <2> QED BY <1>4, <2>1, GwExchange
<1>5. CASE todo = <<"refuse">>
  BY <1>5, RefuseExchange DEF Kept
<1>6. CASE todo \in {<<"stop", "read">>, <<"read">>, <<"check">>}
  BY <1>6, ReadExchange DEF Kept
<1>7. CASE todo \in NodeCalls \ {<<"clear", "block">>, <<"block">>}
  BY <1>7, IdentExchange, StartExchange, Ident2Exchange, StopExchange
  DEF Kept, NodeCalls, Identified
<1> QED BY <1>1, <1>2, <1>3, <1>4, <1>5, <1>6, <1>7 DEF Reading, Writing

(* The flag of the loader's sector and the programs that run.              *)
LEMMA StepRun ==
  ASSUME FlasherInv, Step
  PROVE  /\ armed' \in {armed, FALSE}
         /\ run' \in {run, [run EXCEPT ![flasher_id] = "ldr"]}
<1>1. (Reading \/ Writing) /\ NodeTypes
  BY StepSame DEF FlasherInv, FlasherTypeOK, CallInv
<1>2. CASE todo = <<"clear", "block">> \/ todo = <<"block">> \/ todo = <<"gw">>
  BY <1>1, <1>2, ClearExchange, BlockExchange, GwExchange
<1>3. CASE todo \in {<<"stop", "read">>, <<"read">>, <<"check">>} \/ todo = <<"refuse">>
  BY <1>3, RefuseExchange, ReadExchange DEF Kept
<1>4. CASE todo \in NodeCalls \ {<<"clear", "block">>, <<"block">>}
  BY <1>4, IdentExchange, StartExchange, Ident2Exchange, StopExchange
  DEF Kept, NodeCalls, Identified
<1> QED BY <1>1, <1>2, <1>3, <1>4 DEF Reading, Writing

(* An area of one content is an area.                                      *)
LEMMA AreaType == \A x \in Sess \union {Old, Blank} : Area(x) \in [1 .. N -> Sess \union {Old, Blank}]
BY DEF Area

(* The types, and whose flash an exchange may change.                      *)
LEMMA StepTypes ==
  ASSUME FlasherInv, Step
  PROVE  NodeTypes' /\ (\A n \in Node, p \in Prog : slot'[<<n, p>>] # slot[<<n, p>>] =>
                            Writing /\ write = "node" /\ n = flasher_id)
<1>1. /\ SessionTypes /\ NodeTypes /\ CountsInv /\ GlobalsInv /\ cur \in Sess /\ N \in Nat
  BY StepSame, FlasherAssumption DEF FlasherInv, FlasherTypeOK, CallInv
<1>2. armed' \in BOOLEAN /\ run' \in [Node -> {"ldr", "app"}]
  BY <1>1, StepRun DEF NodeTypes
<1>3. Writing /\ ~ending => Place \in 1 .. N
  BY <1>1 DEF Writing, SessionTypes, CountsInv, Place
<1>4. write = "node" => flasher_id \in Node /\ Written(flasher_id) \in Targets
  BY <1>1 DEF GlobalsInv, Written, Targets, Prog
<1>5. Gw \in Targets /\ \A n \in Node, p \in Prog : <<n, p>> # Gw /\ <<n, p>> \in Targets
  BY FlasherAssumption DEF Targets
<1>6. GwArea \in [1 .. N -> Sess \union {Old, Blank}]
  BY <1>1, <1>5, AreaType DEF GwArea, NodeTypes
<1>7. CASE slot' = slot
  BY <1>1, <1>2, <1>7 DEF NodeTypes
<1>8. CASE Writing /\ write = "node" /\ slot' = Cleared
  <2>1. slot' \in [Targets -> [1 .. N -> Sess \union {Old, Blank}]]
    BY <1>1, <1>4, <1>8, AreaType DEF Cleared, NodeTypes
  <2> QED BY <1>1, <1>2, <1>4, <1>5, <1>8, <2>1 DEF Cleared, NodeTypes, Written
<1>9. CASE Writing /\ ~ending /\ write = "node" /\ slot' = Programmed
  <2>1. slot' \in [Targets -> [1 .. N -> Sess \union {Old, Blank}]]
    BY <1>1, <1>3, <1>4, <1>9 DEF Programmed, NodeTypes
  <2> QED BY <1>1, <1>2, <1>4, <1>5, <1>9, <2>1 DEF Programmed, NodeTypes, Written
<1>10. CASE /\ Writing /\ ~ending /\ write = "gw"
            /\ \/ slot' = [slot EXCEPT ![Gw] = GwArea]
               \/ slot' = [slot EXCEPT ![Gw] = [GwArea EXCEPT ![Place] = cur]]
  <2>1. [GwArea EXCEPT ![Place] = cur] \in [1 .. N -> Sess \union {Old, Blank}]
    BY <1>1, <1>6
  <2>2. slot' \in [Targets -> [1 .. N -> Sess \union {Old, Blank}]]
    BY <1>1, <1>5, <1>6, <1>10, <2>1 DEF NodeTypes
  <2> QED BY <1>1, <1>2, <1>5, <1>10, <2>2 DEF NodeTypes
<1> QED BY <1>7, <1>8, <1>9, <1>10, StepSlot

(* The globals stay those of the uploads that can write.                   *)
LEMMA StepBusy ==
  ASSUME FlasherInv, Step PROVE GlobalsInv' /\ BusyInv'
<1>1. Fewer /\ SameRequest
  BY StepCalls, StepSame
<1>2. GlobalsInv'
  <2>1. \A s \in Sess : st'[s] \in {"rd", "wr"} => st'[s] = st[s]
    BY <1>1 DEF Fewer
  <2> QED BY <1>1, <2>1 DEF FlasherInv, GlobalsInv, SameRequest
<1>3. \A s \in Sess : Linked(s)' <=> Linked(s)
  BY <1>1 DEF Linked, WriteCallback, SameRequest
<1>4. BusyInv'
  BY <1>1, <1>3 DEF FlasherInv, BusyInv, Fewer, SameRequest
<1> QED BY <1>2, <1>4

(* The callback of an upload that is linked writes to its target.          *)
LEMMA WrittenIsTarget ==
  ASSUME NodeTypes, SessionTypes, NEW s \in Sess, Linked(s), write = "node"
  PROVE  /\ target[s] # Gw /\ target[s] = <<flasher_id, fw>> /\ target[s] \in Targets
         /\ flasher_id \in Node
         /\ NotRunning(s) <=> run[flasher_id] # fw
         /\ NotRunning(s) => Written(flasher_id) = target[s]
<1>1. target[s] # Gw /\ target[s] = <<flasher_id, fw>> /\ target[s] \in Targets
  BY DEF Linked, WriteCallback, SessionTypes
<1>2. flasher_id \in Node /\ fw \in Prog
  BY <1>1 DEF Targets
<1>3. target[s][1] = flasher_id /\ target[s][2] = fw
  BY <1>1
<1>4. fw # "preldr"
  BY <1>1, <1>3 DEF Linked, WriteCallback
<1>5. run[flasher_id] \in {"ldr", "app"}
  BY <1>2 DEF NodeTypes
<1> QED BY <1>1, <1>2, <1>3, <1>4, <1>5 DEF NotRunning, Written, Prog

(* The exchanges of the sole upload s, with n blocks counted so far.       *)
SoleStep(s, n) ==
  /\ FlasherInv /\ Step /\ SameRequest
  /\ sole # None /\ sole = s /\ cur = s /\ s \in Sess /\ n = tot[s] /\ Writing /\ ~ending

(* What is known then.                                                     *)
LEMMA SoleStepFacts ==
  ASSUME NEW s, NEW n, SoleStep(s, n)
  PROVE  /\ SessionTypes /\ NodeTypes /\ Calls /\ SameRequest /\ st[s] = "wr"
         /\ todo # <<>> /\ ~Reading /\ ~ending /\ cur = s /\ s \in Sess
         /\ Linked(s) /\ Progress(s) /\ acked[s] = n /\ tot[s] = n
         /\ N \in Nat \ {0} /\ n \in 0 .. N - 1 /\ Place = n + 1
         /\ sole' = s /\ target' = target /\ target[s] \in Targets
         /\ acked \in [Sess -> 0 .. N] /\ tot \in [Sess -> 0 .. N]
<1>1. /\ st[s] = "wr" /\ tot[s] < len[s] /\ s \in Sess /\ todo # <<>> /\ ~Reading /\ cur = s
      /\ sole' = s /\ target' = target
  BY DEF SoleStep, Writing, Step, Reading, SameRequest
<1>2. Busy(s)
  BY <1>1 DEF Busy
<1>3. Linked(s) /\ Progress(s)
  BY <1>1, <1>2 DEF SoleStep, FlasherInv, BusyInv
<1>4. SessionTypes /\ NodeTypes /\ Calls /\ CountsInv
  BY DEF SoleStep, FlasherInv, FlasherTypeOK, Calls
<1>5. /\ N \in Nat \ {0} /\ len[s] \in {0, N} /\ tot[s] \in 0 .. N /\ acked[s] = tot[s]
      /\ target[s] \in Targets /\ acked \in [Sess -> 0 .. N] /\ tot \in [Sess -> 0 .. N]
  BY <1>1, <1>4, FlasherAssumption DEF SessionTypes, CountsInv
<1>6. n = tot[s] /\ Place = tot[s] + 1 /\ SameRequest /\ ~ending
  BY DEF SoleStep, Place
<1>7. tot[s] \in 0 .. N - 1
  BY <1>1, <1>5
<1> QED BY <1>1, <1>3, <1>4, <1>5, <1>6, <1>7

(* A refused exchange ends the session, and leaves what is acknowledged.   *)
LEMMA SoleFails ==
  ASSUME NEW s, NEW n, SoleStep(s, n), Returned(FALSE),
         n > 0 => \A i \in 1 .. N :
           \/ slot'[target[s]][i] = slot[target[s]][i]
           \/ i = n + 1 /\ slot'[target[s]][i] = s
  PROVE  Progress(s)' /\ AckedIsOnTarget'
<1>1. acked' = acked /\ st'[s] # "wr"
  BY SoleStepFacts, ReturnedCounted
<1>2. Progress(s)'
  BY <1>1 DEF Progress
<1>3. n > 0 => Exactly(s, tot[s])
  BY SoleStepFacts DEF Progress
<1>4. n > 0 => \A i \in 1 .. N : slot[target[s]][i] = (IF i <= n THEN s ELSE Blank)
  BY <1>3, SoleStepFacts DEF Exactly
<1>5. n > 0 => \A i \in 1 .. N :
        IF i <= n THEN slot'[target[s]][i] = s
        ELSE slot'[target[s]][i] = Blank \/ (i = n + 1 /\ slot'[target[s]][i] = s)
  BY <1>4, SoleStepFacts
<1>6. sole' = s /\ target' = target /\ acked'[s] = n
  BY <1>1, SoleStepFacts
<1>7. AckedIsOnTarget'
  BY <1>5, <1>6 DEF AckedIsOnTarget
<1> QED BY <1>2, <1>7

(* A block that is taken is there, and nothing behind it.                  *)
LEMMA SoleTakes ==
  ASSUME NEW s, NEW n, SoleStep(s, n), Returned(TRUE),
         \A i \in 1 .. N : slot'[target[s]][i] = (IF i <= n + 1 THEN s ELSE Blank),
         target[s] = Gw => ~armed',
         target[s] # Gw => NotRunning(s) /\ run' = run
  PROVE  Progress(s)' /\ AckedIsOnTarget'
<1>1. /\ acked'[s] = n + 1 /\ tot'[s] = n + 1 /\ (st'[s] = "wr" => todo' = <<>>)
      /\ sole' = s /\ target' = target /\ n + 1 > 0 /\ n + 1 # 0
  <2>1. /\ cur = s /\ s \in Sess /\ tot[s] = n /\ acked[s] = n /\ n \in Nat
        /\ acked \in [Sess -> 0 .. N] /\ tot \in [Sess -> 0 .. N]
        /\ sole' = s /\ target' = target
    BY SoleStepFacts
  <2>2. /\ tot' = [tot EXCEPT ![cur] = tot[cur] + 1]
        /\ acked' = [acked EXCEPT ![cur] = acked[cur] + 1]
        /\ (st'[cur] = "wr" => todo' = <<>>)
    BY SoleStepFacts, ReturnedCounted
  <2> QED BY <2>1, <2>2
<1>2. AckedIsOnTarget'
  BY <1>1 DEF AckedIsOnTarget
<1>3. <<>> \notin Identified /\ <<>> # <<"block">>
  BY DEF Identified
<1>4. target[s] # Gw => NotRunning(s)'
  BY <1>1 DEF NotRunning
<1>5. Exactly(s, tot[s])'
  BY <1>1 DEF Exactly
<1>6. Progress(s)'
  BY <1>1, <1>3, <1>4, <1>5 DEF Progress
<1> QED BY <1>2, <1>6

(* A step towards the first block.                                         *)
LEMMA SoleGoes ==
  ASSUME NEW s, NEW n, SoleStep(s, n), NEW next, Goes(next), n = 0, target[s] # Gw,
         next \in Identified => run'[target[s][1]] # target[s][2],
         next = <<"block">> => \A i \in 1 .. N : slot'[target[s]][i] = Blank
  PROVE  Progress(s)' /\ AckedIsOnTarget'
<1>1. /\ tot'[s] = 0 /\ acked'[s] = 0 /\ todo' = next /\ sole' = s /\ target' = target
      /\ N \in Nat
  BY SoleStepFacts DEF Goes
<1>2. next = <<"block">> => Exactly(s, tot[s])'
  BY <1>1 DEF Exactly
<1>3. next \in Identified => NotRunning(s)'
  BY <1>1 DEF NotRunning
<1>4. Progress(s)'
  BY <1>1, <1>2, <1>3 DEF Progress
<1> QED BY <1>1, <1>4 DEF AckedIsOnTarget

(* Every exchange of the sole upload: the node runs the other program when *)
(* its area is cleared, and the blocks come in order.                      *)
LEMMA SoleExchange ==
  ASSUME NEW s, NEW n, SoleStep(s, n) PROVE Progress(s)' /\ AckedIsOnTarget'
<1> DEFINE t == target[s]
<1>1. Step /\ NodeTypes
  BY SoleStepFacts DEF SoleStep
<1>2. /\ Progress(s) /\ Linked(s) /\ st[s] = "wr" /\ cur = s /\ tot[s] = n /\ n \in 0 .. N - 1
      /\ N \in Nat \ {0} /\ Place = n + 1 /\ t \in Targets /\ s \in Sess /\ ~ending
      /\ slot \in [Targets -> [1 .. N -> Sess \union {Old, Blank}]]
  BY SoleStepFacts DEF NodeTypes
<1>3. Writing
  BY DEF SoleStep
<1>4. CASE write = "refuse"
  <2>1. todo = <<"refuse">>
    BY <1>3, <1>4 DEF Writing
  <2>2. Kept /\ Returned(FALSE)
    BY <1>1, <2>1, RefuseExchange
  <2> QED BY <2>2, SoleFails DEF Kept
<1>5. CASE write = "gw"
  <2>1. todo = <<"gw">> /\ t = Gw
    BY <1>2, <1>3, <1>5 DEF Writing, Linked, WriteCallback
  <2>2. \A i \in 1 .. N : GwArea[i] = (IF i <= n THEN s ELSE Blank)
    <3>1. CASE n = 0
      <4>1. GwArea = Area(Blank)
        BY <1>2, <2>1, <3>1 DEF Progress, GwArea
      <4> QED BY <1>2, <3>1, <4>1 DEF Area
    <3>2. CASE n # 0
      <4>1. GwArea = slot[t] /\ Exactly(s, n)
        BY <1>2, <2>1, <3>2 DEF Progress, GwArea
      <4> QED BY <1>2, <4>1 DEF Exactly
    <3> QED BY <3>1, <3>2
  <2>3. GwArea \in [1 .. N -> Sess \union {Old, Blank}]
    BY <1>2, <2>1, AreaType DEF GwArea
  <2>4. CASE slot' = [slot EXCEPT ![Gw] = GwArea] /\ Returned(FALSE)
    <3>1. n > 0 => GwArea = slot[t]
      BY <1>2, <2>1 DEF Progress, GwArea
    <3>2. slot'[t] = GwArea
      BY <1>2, <2>1, <2>4
    <3> QED BY <2>4, <3>1, <3>2, SoleFails
  <2>5. CASE /\ slot' = [slot EXCEPT ![Gw] = [GwArea EXCEPT ![Place] = cur]]
             /\ Returned(TRUE) /\ armed' = FALSE
    <3>1. slot'[t] = [GwArea EXCEPT ![Place] = cur]
      BY <1>2, <2>1, <2>5
    <3>2. \A i \in 1 .. N : slot'[t][i] = (IF i <= n + 1 THEN s ELSE Blank)
      BY <1>2, <2>2, <2>3, <3>1
    <3> QED BY <2>1, <2>5, <3>2, SoleTakes
  <2> QED BY <1>1, <1>2, <2>1, <2>4, <2>5, GwExchange
<1>6. CASE write = "node"
  <2>1. /\ t # Gw /\ flasher_id \in Node /\ t = <<flasher_id, fw>>
        /\ (NotRunning(s) <=> run[flasher_id] # fw)
        /\ (NotRunning(s) => Written(flasher_id) = t)
    BY <1>1, <1>2, <1>6, SoleStepFacts, WrittenIsTarget
  <2>2. todo \in NodeCalls
    BY <1>2, <1>3, <1>6 DEF Writing
  <2>3. todo # <<"block">> => n = 0
    BY <1>2, <1>3, <2>2 DEF Writing
  <2>4. t[1] = flasher_id /\ t[2] = fw
    BY <2>1
  <2>5. Kept /\ Returned(FALSE) => Progress(s)' /\ AckedIsOnTarget'
    BY SoleFails DEF Kept
  <2>6. todo \in Identified => run[flasher_id] # fw /\ Written(flasher_id) = t
    BY <1>2, <2>1 DEF Progress
  <2>7. ASSUME NEW next, Goes(next), Kept, todo # <<"block">>, next # <<"block">>,
               next \in Identified => run[flasher_id] # fw
        PROVE  Progress(s)' /\ AckedIsOnTarget'
    BY <2>1, <2>3, <2>4, <2>7, SoleGoes DEF Kept
  <2>8. CASE todo = <<"ident", "stop", "clear", "block">>
    <3>1. /\ <<"start", "ident2", "stop", "clear", "block">> \notin Identified
          /\ <<"start", "ident2", "stop", "clear", "block">> # <<"block">>
          /\ <<"stop", "clear", "block">> # <<"block">> /\ todo # <<"block">>
      BY <2>8 DEF Identified
    <3> QED BY <1>1, <2>5, <2>7, <2>8, <3>1, IdentExchange
  <2>9. CASE todo = <<"start", "ident2", "stop", "clear", "block">>
    <3>1. /\ <<"ident2", "stop", "clear", "block">> \notin Identified
          /\ <<"ident2", "stop", "clear", "block">> # <<"block">> /\ todo # <<"block">>
      BY <2>9 DEF Identified
    <3> QED BY <1>1, <2>1, <2>3, <2>9, <3>1, StartExchange, SoleGoes
  <2>10. CASE todo = <<"ident2", "stop", "clear", "block">>
    <3>1. <<"stop", "clear", "block">> # <<"block">> /\ todo # <<"block">>
      BY <2>10
    <3> QED BY <1>1, <2>5, <2>7, <2>10, <3>1, Ident2Exchange
  <2>11. CASE todo = <<"stop", "clear", "block">>
    <3>1. <<"clear", "block">> # <<"block">> /\ todo # <<"block">> /\ todo \in Identified
      BY <2>11 DEF Identified
    <3> QED BY <1>1, <2>5, <2>6, <2>7, <2>11, <3>1, StopExchange
  <2>12. CASE todo = <<"clear", "block">>
    <3>1. todo # <<"block">> /\ todo \in Identified
      BY <2>12 DEF Identified
    <3>2. n = 0 /\ Written(flasher_id) = t /\ run[flasher_id] # fw
      BY <2>3, <2>6, <3>1
    <3>3. CASE Returned(FALSE)
      <4>1. ~(n > 0)
        BY <3>2
      <4> QED BY <3>3, <4>1, SoleFails
    <3>4. CASE slot' = Cleared /\ Goes(<<"block">>) /\ run' = run
      <4>1. slot'[t] = Area(Blank)
        BY <1>2, <3>2, <3>4 DEF Cleared
      <4>2. \A i \in 1 .. N : slot'[t][i] = Blank
        BY <4>1 DEF Area
      <4>3. run'[t[1]] # t[2]
        BY <2>4, <3>2, <3>4
      <4> QED BY <2>1, <3>2, <3>4, <4>2, <4>3, SoleGoes
    <3> QED BY <1>1, <2>12, <3>3, <3>4, ClearExchange
  <2>13. CASE todo = <<"block">>
    <3>1. todo \in Identified
      BY <2>13 DEF Identified
    <3>2. Written(flasher_id) = t /\ NotRunning(s)
      BY <2>1, <2>6, <3>1
    <3>3. Exactly(s, n)
      BY <1>2, <2>13 DEF Progress
    <3>4. slot' = Programmed => \A i \in 1 .. N :
            slot'[t][i] = (IF i = n + 1 THEN s ELSE slot[t][i])
      <4> SUFFICES ASSUME slot' = Programmed, NEW i \in 1 .. N
                   PROVE  slot'[t][i] = (IF i = n + 1 THEN s ELSE slot[t][i])
        OBVIOUS
      <4>1. slot'[t] = [slot[t] EXCEPT ![n + 1] = s]
        BY <1>2, <3>2 DEF Programmed
      <4>2. slot[t] \in [1 .. N -> Sess \union {Old, Blank}]
        BY <1>2
      <4> QED BY <1>2, <4>1, <4>2
    <3>5. CASE slot' = slot /\ Returned(FALSE)
      BY <3>5, SoleFails
    <3>6. CASE slot' = Programmed /\ Returned(FALSE)
      BY <3>4, <3>6, SoleFails
    <3>7. CASE slot' = Programmed /\ Returned(TRUE) /\ run' = run
      <4>1. \A i \in 1 .. N : slot'[t][i] = (IF i <= n + 1 THEN s ELSE Blank)
        BY <1>2, <3>3, <3>4, <3>7 DEF Exactly
      <4> QED BY <2>1, <3>2, <3>7, <4>1, SoleTakes
    <3>8. \/ slot' = slot /\ Returned(FALSE)
          \/ slot' = Programmed /\ Returned(FALSE)
          \/ slot' = Programmed /\ Returned(TRUE) /\ run' = run
      <4>1. \A ok \in BOOLEAN : ok = TRUE \/ ok = FALSE
        OBVIOUS
      <4> QED BY <1>1, <1>2, <2>13, <4>1, BlockExchange
    <3> QED BY <3>5, <3>6, <3>7, <3>8
  <2> QED BY <2>2, <2>8, <2>9, <2>10, <2>11, <2>12, <2>13 DEF NodeCalls, Identified
<1> QED BY <1>3, <1>4, <1>5, <1>6 DEF Writing

(* Nobody else's exchange disturbs the sole upload.                        *)
LEMMA StepSole ==
  ASSUME FlasherInv, Step, sole' # None PROVE Progress(sole)' /\ AckedIsOnTarget'
<1>1. /\ SameRequest /\ todo # <<>> /\ cur \in Sess /\ (Reading \/ Writing) /\ Calls
      /\ NodeTypes /\ AckedIsOnTarget /\ Fewer
  BY StepSame, StepCalls DEF FlasherInv, FlasherTypeOK, CallInv, Calls
<1>2. PICK s : s = sole
  OBVIOUS
<1>3. s # None /\ s \in Sess /\ sole = s /\ sole' = s /\ target' = target /\ Progress(s)
  BY <1>1, <1>2 DEF FlasherInv, FlasherTypeOK, SameRequest
<1>4. CASE Reading
  <2>1. Kept
    BY <1>4, ReadExchange DEF Reading
  <2>2. acked' = acked /\ tot' = tot /\ (st'[s] = "wr" => st[s] = "wr") /\ todo' \in {<<>>, <<"read">>}
    <3>1. CASE \E ok \in BOOLEAN : Returned(ok)
      BY <1>1, <1>3, <1>4, <3>1, ReturnedUncounted
    <3>2. CASE Goes(<<"read">>)
      BY <3>2 DEF Goes
    <3> QED BY <1>4, <3>1, <3>2, ReadExchange DEF Reading
  <2>3. todo' \notin Identified /\ todo' # <<"block">>
    BY <2>2 DEF Identified
  <2>4. Exactly(s, tot[s]) => Exactly(s, tot[s])'
    BY <1>3, <2>1, <2>2 DEF Exactly, Kept
  <2>5. NotRunning(s) => NotRunning(s)'
    BY <1>3, <2>1 DEF NotRunning, Kept
  <2>6. Progress(s)'
    BY <1>3, <2>1, <2>2, <2>3, <2>4, <2>5 DEF Progress, Kept
  <2>7. AckedIsOnTarget'
    BY <1>1, <1>3, <2>1, <2>2 DEF AckedIsOnTarget, Kept
  <2> QED BY <1>3, <2>6, <2>7
<1>5. CASE Writing /\ ending
  <2>1. Busy(cur)
    BY <1>1, <1>5 DEF Busy
  <2>2. cur = s
    BY <1>1, <1>3, <2>1 DEF FlasherInv, BusyInv
  <2>3. st[s] # "wr"
    BY <1>5, <2>2 DEF Writing
  <2>4. st'[s] # "wr"
    BY <1>1, <1>3, <2>3 DEF Fewer
  <2>5. Progress(s)'
    BY <2>4 DEF Progress
  <2>6. acked' = acked
    <3>1. ASSUME NEW ok \in BOOLEAN, Returned(ok) PROVE acked' = acked
      BY <1>1, <1>5, <3>1, ReturnedUncounted
    <3>2. (\E ok \in BOOLEAN : Returned(ok)) \/ (\E next : Goes(next))
      BY <1>1, <1>5, ReadExchange, IdentExchange, StartExchange, Ident2Exchange, StopExchange,
         ClearExchange, BlockExchange, GwExchange, RefuseExchange
      DEF Writing, NodeCalls, Identified
    <3> QED BY <3>1, <3>2 DEF Goes
  <2>7. acked[s] > 0 => slot' = slot
    <3> SUFFICES ASSUME acked[s] > 0 PROVE slot' = slot
      OBVIOUS
    <3>1. len[s] > 0
      <4>1. acked[s] <= tot[s] /\ tot[s] <= len[s]
        BY <1>1, <1>3 DEF Calls, CountsInv
      <4>2. acked[s] \in Int /\ tot[s] \in Int /\ len[s] \in Int
        BY <1>1, <1>3, FlasherAssumption DEF Calls, SessionTypes
      <4> QED BY <4>1, <4>2
    <3>2. todo = <<"check">>
      BY <1>5, <2>2, <3>1 DEF Writing
    <3> QED BY <3>2, ReadExchange DEF Kept
  <2>8. AckedIsOnTarget'
    <3> SUFFICES ASSUME acked[s] > 0 PROVE AckedIsOnTarget'
      BY <1>3, <2>6 DEF AckedIsOnTarget
    <3>1. slot' = slot
      BY <2>7
    <3> QED BY <1>1, <1>3, <2>6, <3>1 DEF AckedIsOnTarget
  <2> QED BY <1>3, <2>5, <2>8
<1>6. CASE Writing /\ ~ending
  <2>1. Busy(cur)
    BY <1>6 DEF Writing, Busy
  <2>2. cur = s
    BY <1>1, <1>3, <2>1 DEF FlasherInv, BusyInv
  <2>3. PICK n : n = tot[s]
    OBVIOUS
  <2>4. SoleStep(s, n)
    BY <1>1, <1>3, <1>6, <2>2, <2>3 DEF SoleStep
  <2> QED BY <1>3, <2>4, SoleExchange
<1> QED BY <1>1, <1>4, <1>5, <1>6

(* Only a node that an upload was asked for is written.                    *)
LEMMA StepUntouched ==
  ASSUME FlasherInv, Step PROVE NodeUntouched'
<1>1. SameRequest /\ todo # <<>> /\ cur \in Sess /\ NodeTypes /\ SessionTypes
  BY StepSame DEF FlasherInv, FlasherTypeOK, CallInv
<1> SUFFICES ASSUME ~overlap', NEW n \in Node, NEW p \in Prog, slot'[<<n, p>>] # Area(Old)
             PROVE  asked' \intersect ({n} \X Prog) # {}
  BY DEF NodeUntouched, Area
<1>2. ~overlap /\ asked' = asked
  BY <1>1 DEF SameRequest
<1>3. CASE slot'[<<n, p>>] = slot[<<n, p>>]
  BY <1>2, <1>3 DEF FlasherInv, NodeUntouched
<1>4. CASE slot'[<<n, p>>] # slot[<<n, p>>]
  <2>1. Writing /\ write = "node" /\ n = flasher_id
    BY <1>4, StepTypes
  <2>2. Busy(cur)
    BY <1>1, <2>1 DEF Writing, Busy
  <2>3. target[cur] \in asked /\ Linked(cur)
    BY <1>1, <1>2, <2>2 DEF FlasherInv, BusyInv
  <2>4. target[cur] = <<n, fw>> /\ target[cur] \in Targets /\ target[cur] # Gw
    BY <1>1, <2>1, <2>3, WrittenIsTarget
  <2>5. target[cur] \in {n} \X Prog
    BY <2>4 DEF Targets
  <2> QED BY <1>2, <2>3, <2>5
<1> QED BY <1>3, <1>4

(* A callback of a node has a node to work on.                             *)
LEMMA CallHasNode ==
  ASSUME CallInv', GlobalsInv'
  PROVE  \A i \in DOMAIN todo' :
           todo'[i] \notin {"gw", "refuse"} => flasher_id' \in Node /\ fw' \in Prog
<1>1. CASE write' = "node" \/ write' = "refuse"
  BY <1>1 DEF GlobalsInv
<1>2. CASE write' \notin {"node", "refuse"} /\ todo' # <<>> /\ Reading'
  BY <1>2 DEF GlobalsInv, CallInv, Reading
<1>3. CASE write' \notin {"node", "refuse"} /\ todo' # <<>> /\ Writing'
  BY <1>3 DEF Writing
<1>4. CASE todo' = <<>>
  BY <1>4
<1> QED BY <1>1, <1>2, <1>3, <1>4 DEF CallInv

(* The bound of the faults.                                                *)
LEMMA FaultBound == faults \in 0 .. MaxFaults /\ (Fault \/ faults' = faults) => faults' \in 0 .. MaxFaults
BY FlasherAssumption DEF Fault

(* An exchange keeps the invariant.                                        *)
LEMMA StepInv ==
  ASSUME FlasherInv, Step PROVE FlasherInv'
<1>1. Calls' /\ GlobalsInv' /\ BusyInv' /\ NodeTypes' /\ NodeUntouched' /\ SameRequest
  BY StepCalls, StepBusy, StepTypes, StepUntouched, StepSame
<1>2. faults' \in 0 .. MaxFaults
  <2>1. Fault \/ faults' = faults
    BY DEF Step, Ident, StartBootloader, Ident2, Clear, Block, GwWrite, Refuse, Exchange, NoAnswer
  <2> QED BY <2>1, FaultBound DEF FlasherInv, FlasherTypeOK
<1>3. \A i \in DOMAIN todo' : todo'[i] \notin {"gw", "refuse"} => flasher_id' \in Node /\ fw' \in Prog
  <2>1. CallInv'
    BY <1>1 DEF Calls
  <2> QED BY <1>1, <2>1, CallHasNode
<1>4. FlasherTypeOK'
  BY <1>1, <1>2, <1>3 DEF FlasherInv, FlasherTypeOK, SameRequest, Calls
<1>5. AckedIsOnTarget' /\ (sole' # None => Progress(sole)')
  <2>1. CASE sole' = None
    BY <2>1 DEF AckedIsOnTarget
  <2>2. CASE sole' # None
    BY <2>2, StepSole
  <2> QED BY <2>1, <2>2
<1> QED BY <1>1, <1>4, <1>5 DEF FlasherInv, Calls

-----------------------------------------------------------------------------
(* The requests and packets, between two callbacks.                        *)
LEMMA CheckFileLinks ==
  ASSUME NEW t \in Targets, CheckFile(t)
  PROVE  /\ write' = WriteCallback(t) /\ write' \in {"gw", "node", "refuse"}
         /\ t # Gw => t = <<flasher_id', fw'>> /\ flasher_id' \in Node /\ fw' \in Prog
         /\ t = Gw => armed' = TRUE /\ write' = "gw" /\ flasher_id' = flasher_id /\ fw' = fw
         /\ armed' \in {armed, TRUE}
<1>1. CASE t = Gw
  BY <1>1 DEF CheckFile, WriteCallback
<1>2. CASE t # Gw
  <2>1. t \in Node \X Prog
    BY <1>2 DEF Targets
  <2>2. t = <<t[1], t[2]>> /\ t[1] \in Node /\ t[2] \in Prog
    BY <2>1
  <2> QED BY <1>2, <2>2 DEF CheckFile, WriteCallback, NodeOf
<1> QED BY <1>1, <1>2

(* A request keeps it: with an upload under way none is sole any more.     *)
LEMMA RequestInv ==
  ASSUME FlasherInv, NEW s \in Sess, NEW kind \in {"wr", "rd"}, NEW t \in Targets,
         NEW n \in {0, N}, kind = "rd" => t # Gw, Request(s, kind, t, n)
  PROVE  FlasherInv'
<1>1. /\ todo = <<>> /\ st[s] = "unused" /\ CheckFile(t)
      /\ target' = [target EXCEPT ![s] = t] /\ len' = [len EXCEPT ![s] = n]
      /\ overlap' = (overlap \/ Uploading # {})
      /\ sole' = (IF Uploading = {} THEN s ELSE None)
      /\ asked' = (IF kind = "wr" THEN asked \union {t} ELSE asked)
      /\ UNCHANGED <<tot, acked, done, ending, slot, run>>
  BY DEF Request
<1>2. /\ \/ st' = [st EXCEPT ![s] = kind] /\ faults' = faults
         \/ st' = [st EXCEPT ![s] = "failed"] /\ Fault
      /\ \/ kind = "rd" /\ st'[s] = "rd" /\ cur' = s /\ todo' = <<"stop", "read">>
         \/ kind # "rd" /\ cur' = cur /\ todo' = todo
         \/ st'[s] = "failed" /\ cur' = cur /\ todo' = todo
  <2>1. st \in [Sess -> {"unused", "rd", "wr", "failed", "closed"}]
    BY DEF FlasherInv, FlasherTypeOK, SessionTypes
  <2> QED BY <2>1 DEF Request
<1>3. /\ SessionTypes /\ NodeTypes /\ CountsInv /\ ~ending /\ tot[s] = 0 /\ acked[s] = 0
  BY <1>1, FlasherAssumption DEF FlasherInv, FlasherTypeOK, CountsInv, CallInv, SessionTypes
<1>4. \A r \in Sess : r # s => st'[r] = st[r] /\ target'[r] = target[r] /\ len'[r] = len[r]
  BY <1>1, <1>2, <1>3 DEF SessionTypes
<1>5. st'[s] \in {kind, "failed"} /\ target'[s] = t /\ len'[s] = n
  BY <1>1, <1>2, <1>3 DEF SessionTypes
<1>6. SessionTypes' /\ NodeTypes'
  <2>1. st' \in [Sess -> {"unused", "rd", "wr", "failed", "closed"}]
    BY <1>2, <1>3 DEF SessionTypes
  <2>2. armed' \in BOOLEAN
    BY <1>1, <1>3, CheckFileLinks DEF NodeTypes
  <2> QED BY <1>1, <1>3, <2>1, <2>2 DEF SessionTypes, NodeTypes
<1>7. CountsInv'
  <2> SUFFICES ASSUME NEW r \in Sess
               PROVE  /\ acked[r] <= tot[r] /\ tot[r] <= len'[r]
                      /\ st'[r] \in {"unused", "rd"} => tot[r] = 0
                      /\ st'[r] = "wr" => acked[r] = tot[r] /\ (tot[r] < len'[r] \/ len'[r] = 0)
    BY <1>1 DEF CountsInv
  <2>1. CASE r = s
    BY <1>3, <1>5, <2>1, FlasherAssumption
  <2>2. CASE r # s
    BY <1>3, <1>4, <2>2 DEF CountsInv
  <2> QED BY <2>1, <2>2
<1>8. CallInv'
  <2>1. CASE todo' = todo
    BY <1>1, <1>3, <2>1 DEF CallInv
  <2>2. CASE st'[s] = "rd" /\ cur' = s /\ todo' = <<"stop", "read">>
    BY <1>1, <1>3, <2>2 DEF CallInv, Reading
  <2> QED BY <1>2, <2>1, <2>2
<1>9. GlobalsInv'
  <2>0. write' # "none"
    BY <1>1, CheckFileLinks
  <2>1. CASE t # Gw
    BY <1>1, <2>0, <2>1, CheckFileLinks DEF GlobalsInv
  <2>2. CASE t = Gw
    <3>1. write' = "gw" /\ flasher_id' = flasher_id /\ fw' = fw /\ kind = "wr"
      BY <1>1, <2>2, CheckFileLinks
    <3>2. \A r \in Sess : st'[r] = "rd" => st[r] = "rd"
      BY <1>4, <1>5, <3>1
    <3> QED BY <2>0, <3>1, <3>2 DEF FlasherInv, GlobalsInv
  <2> QED BY <2>1, <2>2
<1>10. \A r \in Sess : Busy(r)' => st'[r] = "wr"
  BY <1>1, <1>3 DEF Busy
<1>11. BusyInv'
  <2> SUFFICES ASSUME NEW r \in Sess, st'[r] = "wr"
               PROVE  /\ target'[r] \in asked'
                      /\ ~overlap' \/ sole' # None => Linked(r)'
                      /\ sole' # None => r = sole'
    BY <1>10 DEF BusyInv
  <2>1. CASE r = s
    <3>1. kind = "wr"
      BY <1>5, <2>1
    <3>2. Linked(s)'
      BY <1>1, <1>5, CheckFileLinks DEF Linked, WriteCallback
    <3> QED BY <1>1, <1>5, <2>1, <3>1, <3>2
  <2>2. CASE r # s
    <3>1. st[r] = "wr" /\ r \in Uploading /\ target'[r] = target[r]
      BY <1>4, <2>2 DEF Uploading
    <3>2. overlap' /\ sole' = None
      BY <1>1, <3>1
    <3>3. target[r] \in asked
      BY <3>1 DEF FlasherInv, BusyInv, Busy
    <3> QED BY <1>1, <3>1, <3>2, <3>3
  <2> QED BY <2>1, <2>2
<1>12. FlasherTypeOK'
  <2>1. faults' \in 0 .. MaxFaults
    BY <1>2, FaultBound DEF FlasherInv, FlasherTypeOK
  <2>2. write' \in {"none", "gw", "node", "refuse"} /\ sole' \in Sess \union {None}
    BY <1>1, CheckFileLinks
  <2> QED BY <1>6, <1>8, <1>9, <2>1, <2>2, CallHasNode DEF FlasherTypeOK
<1>13. sole' # None => sole' = s /\ acked'[s] = 0 /\ tot'[s] = 0
  BY <1>1, <1>3
<1>14. AckedIsOnTarget'
  BY <1>13 DEF AckedIsOnTarget
<1>15. sole' # None => Progress(s)'
  <2> SUFFICES ASSUME st'[s] = "wr" PROVE Progress(s)'
    BY DEF Progress
  <2>1. todo' = <<>>
    BY <1>1, <1>2, <1>3
  <2>2. todo' \notin Identified /\ todo' # <<"block">>
    BY <2>1 DEF Identified
  <2>3. target'[s] = Gw => armed' = TRUE
    BY <1>1, <1>5, CheckFileLinks
  <2> QED BY <1>1, <1>3, <2>2, <2>3 DEF Progress
<1>16. NodeUntouched'
  BY <1>1 DEF FlasherInv, NodeUntouched, Area
<1> QED BY <1>7, <1>8, <1>9, <1>11, <1>12, <1>13, <1>14, <1>15, <1>16 DEF FlasherInv

(* What the write callback starts with is one of its calls.                *)
LEMMA FirstExchange ==
  ASSUME NEW offset, write \in {"gw", "node", "refuse"}
  PROVE  /\ Callback(offset) # <<>>
         /\ \/ write = "node" /\ Callback(offset) \in NodeCalls
            \/ write = "gw" /\ Callback(offset) = <<"gw">>
            \/ write = "refuse" /\ Callback(offset) = <<"refuse">>
         /\ Callback(offset) \in NodeCalls => write = "node"
         /\ offset # 0 /\ write = "node" => Callback(offset) = <<"block">>
         /\ offset = 0 => Callback(offset) \notin Identified
BY DEF Callback, NodeWrite, NodeCalls, Identified

(* A packet starts a callback.                                             *)
LEMMA PacketInv ==
  ASSUME FlasherInv, NEW s \in Sess, Packet(s) PROVE FlasherInv'
<1>1. /\ todo = <<>> /\ st[s] = "wr" /\ cur' = s /\ todo' = Callback(tot[s])
      /\ ending' = (len[s] = 0)
      /\ st' = (IF len[s] = 0 THEN [st EXCEPT ![s] = "closed"] ELSE st)
      /\ done' = (IF len[s] = 0 THEN done \union {s} ELSE done)
      /\ UNCHANGED <<flasher_id, fw, write, armed, slot, target, len, tot, acked, run,
                     sole, overlap, asked, faults>>
  BY DEF Packet, globals, flash, history
<1>2. /\ SessionTypes /\ NodeTypes /\ CountsInv /\ GlobalsInv /\ ~ending /\ Busy(s)
      /\ target[s] \in asked
  BY <1>1 DEF FlasherInv, FlasherTypeOK, CallInv, BusyInv, Busy
<1>3. tot[s] \in Nat /\ len[s] \in {0, N} /\ N \in Nat \ {0} /\ (tot[s] < len[s] \/ len[s] = 0)
      /\ tot[s] <= len[s]
  BY <1>1, <1>2, FlasherAssumption DEF SessionTypes, CountsInv
<1>4. \A r \in Sess : /\ r # s => st'[r] = st[r]
                      /\ st'[r] \in {"unused", "rd", "wr"} => st'[r] = st[r]
                      /\ st'[s] = IF len[s] = 0 THEN "closed" ELSE "wr"
  BY <1>1, <1>2 DEF SessionTypes
<1>5. SessionTypes'
  <2>1. st' \in [Sess -> {"unused", "rd", "wr", "failed", "closed"}] /\ done' \subseteq Sess
    BY <1>1, <1>2 DEF SessionTypes
  <2> QED BY <1>1, <1>2, <2>1 DEF SessionTypes
<1>6. CountsInv'
  BY <1>1, <1>2, <1>4 DEF CountsInv
<1>7. GlobalsInv'
  BY <1>1, <1>2, <1>4 DEF GlobalsInv
<1>8. \A r \in Sess : Busy(r)' => Busy(r)
  BY <1>1, <1>2, <1>4 DEF Busy
<1>9. BusyInv'
  <2>1. \A r \in Sess : Linked(r)' <=> Linked(r)
    BY <1>1 DEF Linked, WriteCallback
  <2> QED BY <1>1, <1>8, <2>1 DEF FlasherInv, BusyInv
<1>10. write \in {"gw", "node", "refuse"}
  BY <1>1, <1>2 DEF FlasherInv, FlasherTypeOK, GlobalsInv
<1>14. CallInv'
  <2>1. (tot[s] > 0 /\ todo' \in NodeCalls => todo' = <<"block">>) /\ todo' # <<>>
    BY <1>1, <1>3, <1>10, FirstExchange
  <2>2. /\ IF ending' THEN st'[s] \in {"closed", "failed"} ELSE st'[s] = "wr" /\ tot[s] < len[s]
        /\ ~(ending' /\ len[s] > 0)
    <3>1. CASE len[s] = 0
      <4>1. ending' = TRUE /\ st'[s] = "closed"
        BY <1>1, <1>4, <3>1
      <4>2. ~(len[s] > 0)
        BY <3>1
      <4> QED BY <4>1, <4>2
    <3>2. CASE len[s] # 0
      <4>1. ending' = FALSE /\ st'[s] = "wr"
        BY <1>1, <1>4, <3>2
      <4> QED BY <1>3, <3>2, <4>1
    <3> QED BY <3>1, <3>2
  <2>3. Writing'
    BY <1>1, <1>10, <2>1, <2>2, FirstExchange DEF Writing
  <2> QED BY <1>1, <2>1, <2>3 DEF CallInv
<1>11. FlasherTypeOK'
  BY <1>1, <1>2, <1>5, <1>7, <1>14, CallHasNode DEF FlasherInv, FlasherTypeOK, NodeTypes
<1>12. AckedIsOnTarget' /\ NodeUntouched'
  BY <1>1 DEF FlasherInv, AckedIsOnTarget, NodeUntouched, Area
<1>13. sole' # None => Progress(sole)'
  <2> SUFFICES ASSUME sole # None PROVE Progress(sole)'
    BY <1>1
  <2>1. s = sole /\ Progress(s) /\ Linked(s)
    BY <1>2 DEF FlasherInv, BusyInv
  <2>2. target[s] # Gw /\ tot[s] > 0 => NotRunning(s)
    BY <1>1, <2>1 DEF Progress
  <2>3. tot[s] > 0 => Exactly(s, tot[s])
    BY <1>1, <2>1 DEF Progress
  <2>4. (todo' \in Identified \/ todo' = <<"block">>) => tot[s] > 0 /\ write = "node"
    <3>1. <<"block">> \in Identified /\ Identified \subseteq NodeCalls
      BY DEF Identified, NodeCalls
    <3> QED BY <1>1, <1>3, <1>10, <3>1, FirstExchange
  <2>5. write = "node" => target[s] # Gw
    BY <2>1 DEF Linked, WriteCallback
  <2>6. (Exactly(s, tot[s]) => Exactly(s, tot[s])') /\ (NotRunning(s) => NotRunning(s)')
    BY <1>1 DEF Exactly, NotRunning
  <2>7. target[s] = Gw => (armed <=> tot[s] = 0)
    BY <1>1, <2>1 DEF Progress
  <2>8. Progress(s)'
    BY <1>1, <2>2, <2>3, <2>4, <2>5, <2>6, <2>7 DEF Progress
  <2> QED BY <1>1, <2>1, <2>8
<1> QED BY <1>5, <1>6, <1>7, <1>9, <1>11, <1>12, <1>13, <1>14 DEF FlasherInv

(* A download goes on or ends.                                             *)
LEMMA ReadOnInv ==
  ASSUME FlasherInv, NEW s \in Sess, ReadOn(s) PROVE FlasherInv'
<1>1. /\ todo = <<>> /\ st[s] = "rd"
      /\ \/ cur' = s /\ todo' = <<"read">> /\ st' = st
         \/ st' = [st EXCEPT ![s] = "closed"] /\ cur' = cur /\ todo' = todo
      /\ UNCHANGED <<flasher_id, fw, write, armed, slot, target, len, tot, acked, done, ending,
                     run, sole, overlap, asked, faults>>
  BY DEF ReadOn, globals, flash, history
<1>2. SessionTypes /\ CountsInv /\ GlobalsInv /\ ~ending
  BY <1>1 DEF FlasherInv, FlasherTypeOK, CallInv
<1>3. \A r \in Sess : st'[r] = st[r] \/ (st'[r] = "closed" /\ st[r] = "rd")
  BY <1>1, <1>2 DEF SessionTypes
<1>4. SessionTypes'
  <2>1. st' \in [Sess -> {"unused", "rd", "wr", "failed", "closed"}]
    BY <1>1, <1>2 DEF SessionTypes
  <2> QED BY <1>1, <1>2, <2>1 DEF SessionTypes
<1>5. CountsInv'
  BY <1>1, <1>2, <1>3 DEF CountsInv
<1>6. GlobalsInv'
  <2>1. \A r \in Sess : st'[r] \in {"rd", "wr"} => st'[r] = st[r]
    BY <1>3
  <2> QED BY <1>1, <1>2, <2>1 DEF GlobalsInv
<1>7. CallInv'
  BY <1>1, <1>2 DEF CallInv, Reading
<1>8. BusyInv'
  <2>1. \A r \in Sess : Linked(r)' <=> Linked(r)
    BY <1>1 DEF Linked, WriteCallback
  <2>2. \A r \in Sess : Busy(r)' => Busy(r)
    BY <1>1, <1>2, <1>3 DEF Busy
  <2> QED BY <1>1, <2>1, <2>2 DEF FlasherInv, BusyInv
<1>9. FlasherTypeOK'
  BY <1>1, <1>4, <1>6, <1>7, CallHasNode DEF FlasherInv, FlasherTypeOK, NodeTypes
<1>10. AckedIsOnTarget' /\ NodeUntouched'
  BY <1>1 DEF FlasherInv, AckedIsOnTarget, NodeUntouched, Area
<1>11. sole' # None => Progress(sole)'
  <2> SUFFICES ASSUME sole # None PROVE Progress(sole)'
    BY <1>1
  <2>1. PICK u : u = sole
    OBVIOUS
  <2>2. u \in Sess /\ Progress(u)
    BY <2>1 DEF FlasherInv, FlasherTypeOK
  <2>3. st'[u] = "wr" => st[u] = "wr"
    BY <1>3, <2>2
  <2>4. todo' \notin Identified /\ todo' # <<"block">>
    BY <1>1 DEF Identified
  <2>5. (Exactly(u, tot[u]) => Exactly(u, tot[u])') /\ (NotRunning(u) => NotRunning(u)')
    BY <1>1 DEF Exactly, NotRunning
  <2>6. Progress(u)'
    BY <1>1, <2>2, <2>3, <2>4, <2>5 DEF Progress
  <2> QED BY <1>1, <2>1, <2>6
<1> QED BY <1>5, <1>6, <1>7, <1>8, <1>9, <1>10, <1>11 DEF FlasherInv

(* A reset of the gateway ends every session.                              *)
LEMMA ResetInv ==
  ASSUME FlasherInv, GatewayReset PROVE FlasherInv'
<1>1. /\ Fault /\ write' = "none" /\ armed' = TRUE
      /\ st' = [s \in Sess |-> IF s \in Open THEN "failed" ELSE st[s]]
      /\ todo' = <<>> /\ ending' = FALSE
      /\ UNCHANGED <<target, len, tot, acked, done, run, slot, sole, overlap, asked>>
  BY DEF GatewayReset
<1>2. SessionTypes /\ NodeTypes /\ CountsInv
  BY DEF FlasherInv, FlasherTypeOK
<1>3. \A r \in Sess : st'[r] \notin {"rd", "wr"} /\ (st'[r] = "unused" => st[r] = "unused")
  BY <1>1, <1>2 DEF SessionTypes, Open
<1>4. SessionTypes' /\ NodeTypes'
  <2>1. st' \in [Sess -> {"unused", "rd", "wr", "failed", "closed"}]
    BY <1>1, <1>2 DEF SessionTypes
  <2> QED BY <1>1, <1>2, <2>1 DEF SessionTypes, NodeTypes
<1>5. CountsInv'
  <2>1. \A r \in Sess : (st'[r] \in {"unused", "rd"} => st[r] \in {"unused", "rd"}) /\ st'[r] # "wr"
    BY <1>3
  <2> QED BY <1>1, <1>2, <2>1 DEF CountsInv
<1>6. GlobalsInv' /\ CallInv' /\ BusyInv'
  BY <1>1, <1>3 DEF GlobalsInv, CallInv, BusyInv, Busy
<1>7. FlasherTypeOK'
  <2>1. faults' \in 0 .. MaxFaults
    BY <1>1, FaultBound DEF FlasherInv, FlasherTypeOK
  <2> QED BY <1>1, <1>4, <1>6, <2>1, CallHasNode DEF FlasherInv, FlasherTypeOK
<1>8. AckedIsOnTarget' /\ NodeUntouched'
  BY <1>1 DEF FlasherInv, AckedIsOnTarget, NodeUntouched, Area
<1>9. sole' # None => Progress(sole)'
  BY <1>1, <1>3 DEF FlasherInv, FlasherTypeOK, Progress
<1> QED BY <1>5, <1>6, <1>7, <1>8, <1>9 DEF FlasherInv

(* The restart of a node takes the claim from the upload to that node.     *)
LEMMA RestartInv ==
  ASSUME FlasherInv, NEW n \in Node, NodeRestart(n) PROVE FlasherInv'
<1>1. /\ Fault /\ run' \in {[run EXCEPT ![n] = "app"], [run EXCEPT ![n] = "ldr"]}
      /\ sole' = (IF sole # None /\ target[sole] \in {n} \X Prog THEN None ELSE sole)
      /\ UNCHANGED <<flasher_id, fw, write, st, target, len, tot, acked, done, cur, todo, ending,
                     armed, slot, overlap, asked>>
  BY DEF NodeRestart, globals, sessions, call, flash
<1>2. SessionTypes /\ NodeTypes
  BY DEF FlasherInv, FlasherTypeOK
<1>3. SessionTypes' /\ NodeTypes'
  BY <1>1, <1>2 DEF SessionTypes, NodeTypes
<1>4. CountsInv' /\ GlobalsInv'
  BY <1>1 DEF FlasherInv, CountsInv, GlobalsInv
<1>5. CallInv'
  BY <1>1 DEF FlasherInv, CallInv, Reading, Writing
<1>6. BusyInv'
  <2>1. \A r \in Sess : (Linked(r)' <=> Linked(r)) /\ (Busy(r)' <=> Busy(r))
    BY <1>1 DEF Linked, WriteCallback, Busy
  <2> QED BY <1>1, <2>1 DEF FlasherInv, BusyInv
<1>7. FlasherTypeOK'
  <2>1. faults' \in 0 .. MaxFaults
    BY <1>1, FaultBound DEF FlasherInv, FlasherTypeOK
  <2> QED BY <1>1, <1>3, <1>4, <1>5, <2>1, CallHasNode DEF FlasherInv, FlasherTypeOK
<1>8. AckedIsOnTarget' /\ NodeUntouched'
  BY <1>1 DEF FlasherInv, AckedIsOnTarget, NodeUntouched, Area
<1>9. sole' # None => Progress(sole)'
  <2> SUFFICES ASSUME sole' # None PROVE Progress(sole)'
    OBVIOUS
  <2>1. PICK u : u = sole
    OBVIOUS
  <2>2. sole' = u /\ u # None /\ u \in Sess /\ Progress(u) /\ target[u] \notin {n} \X Prog
    BY <1>1, <2>1 DEF FlasherInv, FlasherTypeOK
  <2>3. target[u] # Gw => (NotRunning(u) <=> NotRunning(u)')
    <3> SUFFICES ASSUME target[u] # Gw PROVE NotRunning(u) <=> NotRunning(u)'
      OBVIOUS
    <3>1. target[u] \in Node \X Prog
      BY <1>2, <2>2 DEF SessionTypes, Targets
    <3>2. target[u] = <<target[u][1], target[u][2]>> /\ target[u][2] \in Prog /\ target[u][1] \in Node
      BY <3>1
    <3>3. target[u][1] # n
      BY <2>2, <3>2
    <3>4. run'[target[u][1]] = run[target[u][1]]
      BY <1>1, <1>2, <3>2, <3>3 DEF NodeTypes
    <3> QED BY <1>1, <3>4 DEF NotRunning
  <2>4. Exactly(u, tot[u]) => Exactly(u, tot[u])'
    BY <1>1 DEF Exactly
  <2>5. st[u] = "wr" /\ todo \in Identified => target[u] # Gw
    <3> SUFFICES ASSUME st[u] = "wr", todo \in Identified PROVE target[u] # Gw
      OBVIOUS
    <3>1. write = "node"
      BY DEF FlasherInv, CallInv, Reading, Writing, Identified
    <3> QED BY <2>1, <2>2, <3>1 DEF FlasherInv, BusyInv, Busy, Linked, WriteCallback
  <2>6. todo = <<"block">> => todo \in Identified
    BY DEF Identified
  <2>7. Progress(u)'
    BY <1>1, <2>2, <2>3, <2>4, <2>5, <2>6 DEF Progress
  <2> QED BY <2>2, <2>7
<1> QED BY <1>4, <1>5, <1>6, <1>7, <1>8, <1>9 DEF FlasherInv

(* Init.                                                                   *)
LEMMA InitInv == Init => FlasherInv
<1> SUFFICES ASSUME Init PROVE FlasherInv
  OBVIOUS
<1>1. N \in Nat \ {0} /\ MaxFaults \in Nat /\ Upload \in Targets
  BY FlasherAssumption
<1>2. SessionTypes
  BY <1>1 DEF Init, SessionTypes
<1>3. NodeTypes
  <2>1. slot \in [Targets -> [1 .. N -> Sess \union {Old, Blank}]]
    BY AreaType DEF Init
  <2> QED BY <2>1 DEF Init, NodeTypes
<1>4. CountsInv /\ GlobalsInv /\ CallInv /\ BusyInv
  BY <1>1 DEF Init, CountsInv, GlobalsInv, CallInv, BusyInv, Busy
<1>5. FlasherTypeOK
  BY <1>1, <1>2, <1>3 DEF Init, FlasherTypeOK
<1>6. AckedIsOnTarget /\ sole = None
  BY DEF Init, AckedIsOnTarget
<1>7. NodeUntouched
  BY DEF Init, NodeUntouched, Targets
<1> QED BY <1>4, <1>5, <1>6, <1>7 DEF FlasherInv

(* For every set of nodes, sessions and wanted programs, every length of the *)
(* file and number of faults: a session that met no other has its          *)
(* acknowledged blocks, in order and nothing else, in the program it asked *)
(* for; and while uploads do not overlap no other node is written          *)
(* (co_sdo_flasher.c, tftp_server.c).                                      *)
THEOREM FlasherCorrect == Spec => [](FlasherTypeOK /\ AckedIsOnTarget /\ NodeUntouched)
<1>1. FlasherInv /\ [Next]_vars => FlasherInv'
  <2> SUFFICES ASSUME FlasherInv, [Next]_vars PROVE FlasherInv'
    OBVIOUS
  <2>1. CASE OwnRequest
    <3>1. \E s \in Own : Request(s, "wr", Upload, N)
      BY <2>1 DEF OwnRequest
    <3> QED BY <3>1, RequestInv, FlasherAssumption DEF Sess
  <2>2. CASE OtherRequest
    <3>1. PICK s \in Others, t \in Wanted : \/ \E n \in {0, N} : Request(s, "wr", t, n)
                                            \/ t # Gw /\ Request(s, "rd", t, N)
      BY <2>2 DEF OtherRequest
    <3>2. s \in Sess /\ t \in Targets
      BY FlasherAssumption DEF Sess
    <3> QED BY <3>1, <3>2, RequestInv
  <2>3. CASE Step
    BY <2>3, StepInv
  <2>4. CASE GatewayReset
    BY <2>4, ResetInv
  <2>5. CASE \E s \in Sess : Packet(s) \/ ReadOn(s)
    BY <2>5, PacketInv, ReadOnInv
  <2>6. CASE \E n \in Node : NodeRestart(n)
    BY <2>6, RestartInv
  <2>7. CASE UNCHANGED vars
    <3>1. UNCHANGED <<flasher_id, fw, write, st, target, len, tot, acked, done, cur, todo, ending,
                      armed, slot, run, sole, overlap, asked, faults>>
      BY <2>7 DEF vars, globals, sessions, call, flash, history
    <3>2. \A r : (Linked(r)' <=> Linked(r)) /\ (Busy(r)' <=> Busy(r))
      BY <3>1 DEF Linked, WriteCallback, Busy
    <3>3. FlasherTypeOK' /\ CountsInv' /\ GlobalsInv'
      BY <3>1 DEF FlasherInv, FlasherTypeOK, SessionTypes, NodeTypes, CountsInv, GlobalsInv
    <3>4. CallInv'
      BY <3>1 DEF FlasherInv, CallInv, Reading, Writing
    <3>5. BusyInv'
      BY <3>1, <3>2 DEF FlasherInv, BusyInv
    <3>6. AckedIsOnTarget' /\ NodeUntouched'
      BY <3>1 DEF FlasherInv, AckedIsOnTarget, NodeUntouched, Area
    <3>7. sole' # None => Progress(sole)'
      BY <3>1 DEF FlasherInv, Progress, Exactly, NotRunning
    <3> QED BY <3>3, <3>4, <3>5, <3>6, <3>7 DEF FlasherInv
  <2> QED BY <2>1, <2>2, <2>3, <2>4, <2>5, <2>6, <2>7 DEF Next
<1> QED BY <1>1, InitInv, PTL DEF Spec, FlasherInv
==============================================================================
