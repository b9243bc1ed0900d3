----------------------------- MODULE NodeFlasher -----------------------------
(***************************************************************************)
(* Firmware transfers of the application: the TFTP server calls the read   *)
(* and write callbacks that the last request has left in tftp_cb, and the  *)
(* ones for a CAN node (common/canopendriver/co_sdo_flasher.c) work on the *)
(* node and the program that the last request has left in g_sdo_flasher_id *)
(* and g_nd_fw_cb.  A callback is a sequence of SDO exchanges; the main    *)
(* loop and its watchdog wait for all of them.                             *)
(*                                                                         *)
(* The datagrams are those of TftpServer: here every packet arrives once   *)
(* and in order.  A node answers from the program it runs and writes the   *)
(* other one; it refuses a block on top of programmed flash.               *)
(***************************************************************************)
EXTENDS Integers, Sequences

CONSTANTS
  Node,          (* the nodes on the bus                                   *)
  Own, Others,   (* requests of a client that tries again, and of others   *)
  Upload,        (* the program that client wants to write                 *)
  Wanted,        (* the programs the others ask for                        *)
  N,             (* blocks of a file; a file of another client may be empty *)
  MaxFaults,     (* bound: answers lost, restarts, resets in a behaviour   *)
  Gw,            (* the loader of the gateway itself, as a target          *)
  None

Sess    == Own \union Others
Prog    == {"preldr", "ldr", "app"}
Targets == (Node \X Prog) \union {Gw}

ASSUME FlasherAssumption ==
  /\ N \in Nat \ {0} /\ MaxFaults \in Nat
  /\ Own \intersect Others = {} /\ None \notin Sess \union Node
  /\ Gw \notin Node \X Prog /\ Upload \in Targets /\ Wanted \subseteq Targets

VARIABLES
  flasher_id,  (* g_sdo_flasher_id                                         *)
  fw,          (* the program of g_nd_fw_cb                                *)
  write,       (* tftp_cb.write: none, gw, node or refuse                  *)
  armed,       (* the erase flag of the loader's sector is clear           *)
  st,          (* st[s]: unused, rd, wr, failed or closed                  *)
  target, len, tot,  (* what s asked for, its file, args->tot_bytes        *)
  acked,       (* blocks acknowledged to the client of s                   *)
  done,        (* sessions whose last block was acknowledged               *)
  cur, todo,   (* the session in whose callback the loop is, what is left  *)
  ending,      (* the callback is the one that announces the end           *)
  run, slot,   (* of the nodes: the program that runs, the flash           *)
  sole,        (* the session of the last request, if it has met no other  *)
  overlap,     (* a request was served while an upload was open            *)
  asked,       (* the programs an upload was asked for                     *)
  faults

globals  == <<flasher_id, fw, write>>
sessions == <<st, target, len, tot, acked, done>>
call     == <<cur, todo, ending>>
flash    == <<armed, slot>>
history  == <<sole, overlap, asked, faults>>
vars     == <<globals, sessions, call, flash, run, history>>

-----------------------------------------------------------------------------
Old   == "old"
Blank == "blank"
Area(content) == [i \in 1 .. N |-> content]
Uploading == {s \in Sess : st[s] = "wr"}
Open      == {s \in Sess : st[s] \in {"rd", "wr"}}

Init ==
  /\ flasher_id = None /\ fw = None /\ write = "none"
  /\ st = [s \in Sess |-> "unused"] /\ target = [s \in Sess |-> Upload]
  /\ len = [s \in Sess |-> N] /\ tot = [s \in Sess |-> 0]
  /\ acked = [s \in Sess |-> 0] /\ done = {}
  /\ cur = None /\ todo = <<>> /\ ending = FALSE
  /\ armed = TRUE /\ slot = [t \in Targets |-> Area(Old)]
  /\ run \in [Node -> {"ldr", "app"}]
  /\ sole = None /\ overlap = FALSE /\ asked = {} /\ faults = 0

Fault == faults < MaxFaults /\ faults' = faults + 1

-----------------------------------------------------------------------------
(* The write callback of a target.                                         *)
WriteCallback(t) ==
  IF t = Gw THEN "gw" ELSE IF t[2] = "preldr" THEN "refuse" ELSE "node"

(* The node the transfer works on (mutant: the first one ever asked for).  *)
NodeOf_Kept(t) == IF flasher_id = None THEN t[1] ELSE flasher_id
NodeOf(t) == t[1]

(* tftp_server_check_file for a file of a node, or the upload of the       *)
(* loader: nobody is asked whether a transfer is going on.                 *)
CheckFile(t) ==
  /\ write' = WriteCallback(t)
  /\ IF t = Gw THEN armed' = TRUE /\ UNCHANGED <<flasher_id, fw>>
     ELSE flasher_id' = NodeOf(t) /\ fw' = t[2] /\ UNCHANGED armed

(* A request: a download reads its first block at once, which stops the    *)
(* program of the node.  There may be no memory for a session, but the     *)
(* callbacks have changed by then.                                         *)
Request(s, kind, t, n) ==
  /\ todo = <<>> /\ st[s] = "unused" /\ CheckFile(t)
  /\ target' = [target EXCEPT ![s] = t] /\ len' = [len EXCEPT ![s] = n]
  /\ overlap' = (overlap \/ Uploading # {})
  /\ sole' = IF Uploading = {} THEN s ELSE None
  /\ asked' = IF kind = "wr" THEN asked \union {t} ELSE asked
  /\ \/ /\ st' = [st EXCEPT ![s] = kind] /\ UNCHANGED faults
        /\ IF kind = "rd" THEN cur' = s /\ todo' = <<"stop", "read">>
                          ELSE UNCHANGED <<cur, todo>>
     \/ st' = [st EXCEPT ![s] = "failed"] /\ Fault /\ UNCHANGED <<cur, todo>>
  /\ UNCHANGED <<tot, acked, done, ending, slot, run>>

(* The client asks for its upload again until one is done.                 *)
OwnRequest == /\ \A s \in Own : st[s] # "wr" /\ s \notin done
              /\ \E s \in Own : Request(s, "wr", Upload, N)
OtherRequest ==
  \E s \in Others, t \in Wanted :
    \/ \E n \in {0, N} : Request(s, "wr", t, n)
    \/ t # Gw /\ Request(s, "rd", t, N)

-----------------------------------------------------------------------------
(* The exchanges of cb_nd_wr at an offset (mutants: the node is not asked  *)
(* what it runs; its flash is not cleared).                                *)
NodeWrite_Blind(offset) ==
  IF offset = 0 THEN <<"stop", "clear", "block">> ELSE <<"block">>
NodeWrite_Dirty(offset) ==
  IF offset = 0 THEN <<"ident", "stop", "block">> ELSE <<"block">>
NodeWrite(offset) ==
  IF offset = 0 THEN <<"ident", "stop", "clear", "block">> ELSE <<"block">>

Callback(offset) ==
  IF write = "node" THEN NodeWrite(offset) ELSE <<write>>

(* wrq_recv_callback on the next packet of s.  A packet without data is    *)
(* not written: it is acknowledged and ends the file, whose end is then    *)
(* announced at offset 0, which the callback takes for a first block.      *)
Packet(s) ==
  /\ todo = <<>> /\ st[s] = "wr"
  /\ cur' = s /\ todo' = Callback(tot[s])
  /\ ending' = (len[s] = 0)
  /\ st' = IF len[s] = 0 THEN [st EXCEPT ![s] = "closed"] ELSE st
  /\ done' = IF len[s] = 0 THEN done \union {s} ELSE done
  /\ UNCHANGED <<globals, flash, target, len, tot, acked, run, history>>

(* rrq_recv_callback: the next block of a download, or the end of it.      *)
ReadOn(s) ==
  /\ todo = <<>> /\ st[s] = "rd"
  /\ \/ cur' = s /\ todo' = <<"read">> /\ UNCHANGED st
     \/ st' = [st EXCEPT ![s] = "closed"] /\ UNCHANGED <<cur, todo>>
  /\ UNCHANGED <<globals, flash, target, len, tot, acked, done, ending, run, history>>

-----------------------------------------------------------------------------
(* The end of a callback.  After the last packet the end of the file is    *)
(* announced, also when its block was refused, and the result is ignored.  *)
EndOfFile == IF write = "node" THEN <<"check">> ELSE <<>>

Returned(ok) ==
  IF ending \/ st[cur] = "rd"
  THEN /\ todo' = <<>> /\ ending' = FALSE
       /\ st' = IF st[cur] = "rd" /\ ~ok THEN [st EXCEPT ![cur] = "failed"] ELSE st
       /\ UNCHANGED <<cur, tot, acked, done>>
  ELSE LET last == tot[cur] + 1 = len[cur]
       IN /\ tot' = [tot EXCEPT ![cur] = @ + 1]
          /\ acked' = IF ok THEN [acked EXCEPT ![cur] = @ + 1] ELSE acked
          /\ done' = IF ok /\ last THEN done \union {cur} ELSE done
          /\ st' = IF ~ok THEN [st EXCEPT ![cur] = "failed"]
                   ELSE IF last THEN [st EXCEPT ![cur] = "closed"] ELSE st
          /\ todo' = IF last THEN EndOfFile ELSE <<>>
          /\ ending' = (last /\ EndOfFile # <<>>)
          /\ UNCHANGED cur

(* The callback goes on, after a new step of it if there is one.           *)
Continue(more) ==
  IF more \o Tail(todo) = <<>> THEN Returned(TRUE)
  ELSE todo' = more \o Tail(todo) /\ UNCHANGED <<cur, ending, st, tot, acked, done>>

(* The area a node writes while it runs its program.                       *)
Written(n) == <<n, IF run[n] = "app" THEN "ldr" ELSE "app">>
Place == tot[cur] + 1
HasData == ~ending

(* The same program answers: restart the node into its loader and ask      *)
(* again.  The answer to the restart is not looked at.                     *)
Ident == /\ Continue(IF run[flasher_id] = fw THEN <<"start", "ident2">> ELSE <<>>)
         /\ UNCHANGED <<flash, run, faults>>
StartBootloader ==
  /\ \/ run' = [run EXCEPT ![flasher_id] = "ldr"] /\ UNCHANGED faults
     \/ Fault /\ UNCHANGED run
  /\ Continue(<<>>) /\ UNCHANGED flash
SameAgain == run[flasher_id] = fw
Ident2 == /\ IF SameAgain THEN Returned(FALSE) ELSE Continue(<<>>)
          /\ UNCHANGED <<flash, run, faults>>
Clear == /\ slot' = [slot EXCEPT ![Written(flasher_id)] = Area(Blank)]
         /\ Continue(<<>>) /\ UNCHANGED <<armed, run, faults>>

(* A block: a node, as the flash of the gateway, takes it on blank flash.  *)
Program(area, t) ==
  IF HasData /\ area[Place] # Blank
  THEN slot' = [slot EXCEPT ![t] = area] /\ Returned(FALSE)
  ELSE /\ slot' = [slot EXCEPT ![t] = IF HasData THEN [area EXCEPT ![Place] = cur] ELSE area]
       /\ Continue(<<>>)
Block == /\ Program(slot[Written(flasher_id)], Written(flasher_id))
         /\ UNCHANGED <<armed, run, faults>>
GwWrite == /\ IF HasData THEN Program(IF armed THEN Area(Blank) ELSE slot[Gw], Gw)
                               /\ armed' = FALSE
                         ELSE Continue(<<>>) /\ UNCHANGED <<armed, slot>>
           /\ UNCHANGED <<run, faults>>

(* cb_nd_wr_preldr refuses; the exchanges left change nothing of the node. *)
Refuse   == Returned(FALSE) /\ UNCHANGED <<flash, run, faults>>
Exchange == Continue(<<>>) /\ UNCHANGED <<flash, run, faults>>

(* No answer, or a bad status: the node may have done it all the same.     *)
NoAnswer ==
  /\ Fault /\ Returned(FALSE) /\ UNCHANGED <<armed, run>>
  /\ \/ UNCHANGED slot
     \/ Head(todo) = "clear" /\ slot' = [slot EXCEPT ![Written(flasher_id)] = Area(Blank)]
     \/ /\ Head(todo) = "block" /\ HasData /\ slot[Written(flasher_id)][Place] = Blank
        /\ slot' = [slot EXCEPT ![Written(flasher_id)][Place] = cur]

Step ==
  /\ todo # <<>>
  /\ LET step == Head(todo) IN
       \/ step = "ident" /\ Ident
       \/ step = "start" /\ StartBootloader
       \/ step = "ident2" /\ Ident2
       \/ step = "clear" /\ Clear
       \/ step = "block" /\ Block
       \/ step = "gw" /\ GwWrite
       \/ step = "refuse" /\ Refuse
       \/ step \in {"stop", "check", "read"} /\ Exchange
       \/ step \notin {"start", "gw", "refuse"} /\ NoAnswer
  /\ UNCHANGED <<globals, target, len, sole, overlap, asked>>

-----------------------------------------------------------------------------
(* The exchanges may together take more than the 10 s of the watchdog; the *)
(* gateway may also lose its power.  The sessions are gone.                *)
GatewayReset ==
  /\ Fault
  /\ flasher_id' = None /\ fw' = None /\ write' = "none" /\ armed' = TRUE
  /\ st' = [s \in Sess |-> IF s \in Open THEN "failed" ELSE st[s]]
  /\ cur' = None /\ todo' = <<>> /\ ending' = FALSE
  /\ UNCHANGED <<target, len, tot, acked, done, run, slot, sole, overlap, asked>>

(* A node restarts: it starts a whole application, or stays in its loader. *)
WholeFile(area) == area[1] # Blank /\ \A i \in 1 .. N : area[i] = area[1]
NodeRestart(n) ==
  /\ Fault /\ WholeFile(slot[<<n, "ldr">>])
  /\ run' = [run EXCEPT ![n] = IF WholeFile(slot[<<n, "app">>]) THEN "app" ELSE "ldr"]
  /\ sole' = IF sole # None /\ target[sole] \in {n} \X Prog THEN None ELSE sole
  /\ UNCHANGED <<globals, sessions, call, flash, overlap, asked>>

Next ==
  \/ OwnRequest \/ OtherRequest \/ Step \/ GatewayReset
  \/ \E s \in Sess : Packet(s) \/ ReadOn(s)
  \/ \E n \in Node : NodeRestart(n)

Spec == Init /\ [][Next]_vars

(* The main loop runs, and the client that tries again goes on.            *)
FairSpec == /\ Spec /\ WF_vars(Step) /\ WF_vars(OwnRequest)
            /\ WF_vars(\E s \in Own : Packet(s))

-----------------------------------------------------------------------------
SessionTypes ==
  /\ st \in [Sess -> {"unused", "rd", "wr", "failed", "closed"}]
  /\ target \in [Sess -> Targets] /\ tot \in [Sess -> 0 .. N]
  /\ len \in [Sess -> {0, N}] /\ acked \in [Sess -> 0 .. N] /\ done \subseteq Sess
NodeTypes ==
  /\ slot \in [Targets -> [1 .. N -> Sess \union {Old, Blank}]]
  /\ armed \in BOOLEAN /\ run \in [Node -> {"ldr", "app"}]

(* Every variable has its type; a callback of a node has a node to work on *)
(* (g_nd_fw_cb is dereferenced, co_sdo_flasher.c:98, 124).                 *)
FlasherTypeOK ==
  /\ SessionTypes /\ NodeTypes
  /\ write \in {"none", "gw", "node", "refuse"} /\ sole \in Sess \union {None}
  /\ faults \in 0 .. MaxFaults
  /\ \A i \in DOMAIN todo :
       todo[i] \notin {"gw", "refuse"} => flasher_id \in Node /\ fw \in Prog

(* An upload that met no other request has its acknowledged blocks, and    *)
(* them only, in the program it was asked to write, on the node it was     *)
(* asked for, whatever answers were lost (cb_nd_wr, wrq_recv_callback).    *)
AckedIsOnTarget ==
  sole # None /\ acked[sole] > 0 =>
    \A i \in 1 .. N :
      LET content == slot[target[sole]][i]
      IN IF i <= acked[sole] THEN content = sole
         ELSE content = Blank \/ (i = acked[sole] + 1 /\ content = sole)

(* As long as transfers do not overlap, no node is touched that no upload  *)
(* was asked for (g_sdo_flasher_id is shared by all sessions).             *)
NodeUntouched ==
  overlap \/ \A n \in Node :
    (\E p \in Prog : slot[<<n, p>>] # Area(Old)) => asked \intersect ({n} \X Prog) # {}

(* A client that asks again after every failure gets its file onto the     *)
(* node, unless others use the server, from whatever a lost answer, a      *)
(* restart of the node or a reset of the gateway has left behind.          *)
EventuallyUploaded ==
  <>(\E s \in Sess : s \in done \/ (s \in Others /\ st[s] # "unused"))
=============================================================================
