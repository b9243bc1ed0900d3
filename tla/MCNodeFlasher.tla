--------------------------- MODULE MCNodeFlasher ---------------------------
(* An instance of NodeFlasher for TLC.                                     *)
EXTENDS NodeFlasher

CONSTANTS n1, n2, a1, a2, a3, o1

MCUpload == <<n1, "app">>
MCWanted == {<<n1, "ldr">>, <<n2, "app">>, <<n2, "preldr">>, Gw}
=============================================================================
