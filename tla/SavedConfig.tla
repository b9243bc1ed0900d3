---------------------------- MODULE SavedConfig ----------------------------
(***************************************************************************)
(* What the configuration storage promises: a table from keys to entries   *)
(* that is replaced as a whole, or lost as a whole.  A save replaces the   *)
(* entries of the program that saves and keeps those of the others, as     *)
(* long as the table is trusted; one that is not completed leaves the old  *)
(* table, untrusted, or none.                                              *)
(***************************************************************************)
CONSTANTS
  Own,         (* the tables the programs save                              *)
  Lost, Quiet  (* no table is stored; no save is under way                  *)

VARIABLES
  stored,   (* the table, or Lost                                           *)
  trusted,  (* a save will keep the entries it does not replace             *)
  goal      (* the table the save under way will leave, or Quiet            *)

vars == <<stored, trusted, goal>>

(* Own entries take the place of stored ones of the same key.              *)
Merge(old, own) ==
  [k \in DOMAIN old \union DOMAIN own |-> IF k \in DOMAIN own THEN own[k] ELSE old[k]]

Init == stored = Lost /\ trusted = FALSE /\ goal = Quiet

Begin(own) ==
  /\ goal = Quiet
  /\ goal' = IF trusted THEN Merge(stored, own) ELSE own
  /\ trusted' = FALSE /\ UNCHANGED stored

Wipe == goal # Quiet /\ stored' = Lost /\ UNCHANGED <<trusted, goal>>

Commit ==
  /\ goal # Quiet /\ stored = Lost
  /\ stored' = goal /\ trusted' = TRUE /\ goal' = Quiet

(* Power fails, or the flash does.                                         *)
GiveUp ==
  /\ goal # Quiet /\ goal' = Quiet
  /\ stored' \in {stored, Lost} /\ trusted' = FALSE

(* The program looks at the table again; a restart trusts nothing.         *)
Recheck == goal = Quiet /\ trusted' = (stored # Lost) /\ UNCHANGED <<stored, goal>>
Restart == goal = Quiet /\ trusted' = FALSE /\ UNCHANGED <<stored, goal>>

Next == (\E own \in Own : Begin(own)) \/ Wipe \/ Commit \/ GiveUp \/ Recheck \/ Restart

Spec == Init /\ [][Next]_vars
=============================================================================
