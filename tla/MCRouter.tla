------------------------------ MODULE MCRouter ------------------------------
(* Instances of Router for TLC: a route on change and two with an interval,*)
(* two of the three fed by the same frame.                                 *)
EXTENDS Router

CONSTANTS fa, fb, ta, tb, tc

MCEntries ==
  { [topic |-> ta, frame |-> fa, interval |-> -1],
    [topic |-> tb, frame |-> fa, interval |-> 3],
    [topic |-> tc, frame |-> fb, interval |-> 0] }
=============================================================================
