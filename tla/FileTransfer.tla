--------------------------- MODULE FileTransfer ---------------------------
(***************************************************************************)
(* What a write transfer promises to the firmware that sits behind the     *)
(* TFTP server: the chunks of the file arrive in order, each exactly once, *)
(* and the end of the file is announced once, after the last of them.      *)
(***************************************************************************)
EXTENDS Naturals, Sequences

CONSTANT N          (* number of chunks of the file                        *)
VARIABLES got,      (* the chunks handed to the firmware so far            *)
          status    (* open, complete (end announced) or aborted           *)

Init == got = <<>> /\ status = "open"

Deliver  == /\ status = "open" /\ Len(got) < N
            /\ got' = Append(got, Len(got) + 1)
            /\ status' \in {"open"} \union (IF Len(got) + 1 = N THEN {"complete"} ELSE {})
Complete == status = "open" /\ Len(got) = N /\ status' = "complete" /\ UNCHANGED got
Abort    == status = "open" /\ status' = "aborted" /\ UNCHANGED got

Spec == Init /\ [][Deliver \/ Complete \/ Abort]_<<got, status>>
=============================================================================
