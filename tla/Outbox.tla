------------------------------- MODULE Outbox -------------------------------
(***************************************************************************)
(* What the publisher (app/comm/mqtt_app.c) promises to those who call     *)
(* mqtt_queue_publish: it takes a message or refuses it, refuses only when *)
(* it is full, and lets the messages go from the oldest on.                *)
(***************************************************************************)
EXTENDS Integers, Sequences

CONSTANTS Msg, Capacity  (* messages, and how many of them it holds       *)

VARIABLE box

Accepts == Len(box) < Capacity

Accept(m) == Accepts /\ box' = Append(box, m)

Leave(k) == k \in 1 .. Len(box) /\ box' = SubSeq(box, k + 1, Len(box))

Init == box = <<>>
Next == (\E m \in Msg : Accept(m)) \/ (\E k \in 1 .. Capacity : Leave(k))
Spec == Init /\ [][Next]_box
=============================================================================
