---------------------------- MODULE MCBootChain ----------------------------
(* Instances of BootChain for TLC: slots of three blocks, the first two in *)
(* one erase sector, and two write sessions.                               *)
EXTENDS BootChain, TLC

CONSTANTS l1, l2, a1, a2, a3, n1

MCSectorOf == (0 :> 0) @@ (1 :> 0) @@ (2 :> 1)
(* l2 spans both sectors, a2 too, the alien file is longer than a slot.    *)
MCSize == (l1 :> 2) @@ (l2 :> 3) @@ (a1 :> 1) @@ (a2 :> 3) @@ (a3 :> 2) @@ (n1 :> 4)

(* Nothing tells two sessions apart but the order they are opened in.      *)
SessSymmetry == Permutations(Sess)
=============================================================================
