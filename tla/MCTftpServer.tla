--------------------------- MODULE MCTftpServer ---------------------------
(* Instances of TftpServer for TLC.                                        *)
EXTENDS TftpServer

CONSTANTS w1, r1, s1, s2, s3

(* Four positions in two sectors: the file and one position behind it.     *)
MCSectorOf == <<1, 1, 2, 2>>
=============================================================================
