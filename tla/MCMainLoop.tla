---------------------------- MODULE MCMainLoop ----------------------------
(* The load, the outlets and the LSS slave are handled in the same loop    *)
(* and share no state, so that a behaviour is followed in one of them and  *)
(* the others stand still.                                                 *)
EXTENDS PowerControl, Outlets, LssSlave

CONSTANTS c0, c1, s0

(* Two outlets on one current sensor.                                      *)
MCAdcIdx == [c \in Channel |-> s0]

VARIABLE part  (* what this behaviour is about                             *)

MCInit ==
  /\ Init /\ OutletsInit /\ LssInit /\ part \in {"load", "outlets", "lss"}
  (* one state to stand in                                                 *)
  /\ part # "outlets" => poe_bits = {} /\ ~sensed
  /\ part # "lss" => stored = None
MCNext ==
  \/ part = "load" /\ Next /\ UNCHANGED <<outletVars, lssVars, part>>
  \/ part = "outlets" /\ OutletsNext /\ UNCHANGED <<vars, lssVars, part>>
  \/ part = "lss" /\ LssNext /\ UNCHANGED <<vars, outletVars, part>>
MCSpec == MCInit /\ [][MCNext]_<<vars, outletVars, lssVars, part>>
=============================================================================
