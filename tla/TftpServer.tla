----------------------------- MODULE TftpServer -----------------------------
(***************************************************************************)
(* The TFTP server of the gateway (common/eth/tftp_server.c) between       *)
(* clients and the read and write callbacks of the firmware, over a        *)
(* network that may lose, delay, reorder and, for the message types in     *)
(* DupTypes, duplicate datagrams.                                          *)
(*                                                                         *)
(* A file is N chunks of one TFTP payload, numbered from 1; the last one   *)
(* is short, or empty when the length of the file is a multiple of the     *)
(* payload (EmptyLast).  The flash behind the write callback has a         *)
(* position per chunk: it holds a chunk of the file, the text of a client's *)
(* ERROR packet, what was there before (Old) or nothing (Blank).           *)
(* The block numbers of the files at hand fit the 16-bit field.            *)
(***************************************************************************)
EXTENDS Integers, Sequences, FiniteSets

CONSTANTS
  Writers, Readers, (* clients that upload, that download (one file each)  *)
  Sess,             (* sessions, in a behaviour each is opened at most once *)
  PoolSize,         (* MEMP_NUM_UDP_PCB left for sessions                  *)
  N, EmptyLast,     (* the files, see above                                *)
  Positions, SectorOf,  (* the flash area of the file and its sectors      *)
  DupTypes,         (* types of the datagrams the network may duplicate    *)
  WriteMayFail,     (* erasing or programming the flash may fail           *)
  ClientMayAbort,   (* a client may send an ERROR and go away              *)
  None              (* no session                                          *)

Clients == Writers \union Readers

ASSUME TftpAssumption ==
  /\ N \in Nat \ {0} /\ N < 2 ^ 16 /\ PoolSize \in Nat
  /\ Positions \in Nat /\ DOMAIN SectorOf = 1 .. Positions
  /\ EmptyLast \in BOOLEAN /\ WriteMayFail \in BOOLEAN /\ ClientMayAbort \in BOOLEAN
  /\ Writers \intersect Readers = {} /\ None \notin Sess \union Clients

VARIABLES
  st,      (* st[s]: unused, wr, rd (receive callback installed) or closed   *)
  peer,    (* peer[s]: the client of the session                             *)
  block,   (* args->block                                                    *)
  tot,     (* args->tot_bytes, in chunks                                     *)
  short,   (* args->data_len < TFTP_DATA_LEN_MAX, of a read                  *)
  flash,   (* what each position of the flash area holds                     *)
  armed,   (* sectors whose erase flag is clear: the next write erases them  *)
  ended,   (* sessions that announced the end of the file to the firmware    *)
  failed,  (* sessions whose write callback returned an error                *)
  misled,  (* history: read sessions that were sent a packet which is not the
              acknowledgement of their current block                         *)
  cst,     (* state of a client: idle, asked, busy, done, gone               *)
  tid,     (* the session a client talks to                                  *)
  pos,     (* the block a client has sent last, or expects next              *)
  copy,    (* what a reader has received                                     *)
  net      (* the datagrams in flight                                        *)

server == <<st, peer, block, tot, short, flash, armed, ended, failed, misled>>
client == <<cst, tid, pos, copy>>
vars   == <<server, client, net>>

-----------------------------------------------------------------------------
(* Contents of a position, and of a payload: a chunk 1 .. N or one of these *)
Blank == 0                   (* erased flash, the empty payload            *)
Text  == N + 1               (* of an ERROR packet                         *)
Old   == N + 2

HasData(chunk) == chunk # Blank /\ ~(EmptyLast /\ chunk = N)
IsShort(chunk) == chunk \notin 1 .. N - 1

(* Datagrams; those of a client name it, those of a session name it.       *)
Req(c)           == [type |-> IF c \in Writers THEN "WRQ" ELSE "RRQ", c |-> c]
Data(c, s, n)    == [type |-> "DATA", c |-> c, s |-> s, n |-> n, chunk |-> n]
CAck(c, s, n)    == [type |-> "CACK", c |-> c, s |-> s, n |-> n]
(* ERROR, with its code in the place of a block number                     *)
CErr(c, s, code) == [type |-> "CERR", c |-> c, s |-> s, n |-> code, chunk |-> Text]
UserAbort  == 0
UnknownTid == 5
SAck(s, n)       == [type |-> "SACK", c |-> peer[s], s |-> s, n |-> n]
SErr(c, s)       == [type |-> "SERR", c |-> c, s |-> s]
SData(s, n, chunk) ==
  [type |-> "SDATA", c |-> peer[s], s |-> s, n |-> n, chunk |-> chunk]

(* Datagram m is consumed, the set new is sent.                            *)
Exchange(m, new) == net' = (IF m.type \in DupTypes THEN net ELSE net \ {m}) \union new

Open == {s \in Sess : st[s] \in {"wr", "rd"}}

Init ==
  /\ st = [s \in Sess |-> "unused"] /\ peer = [s \in Sess |-> None]
  /\ block = [s \in Sess |-> 0] /\ tot = [s \in Sess |-> 0]
  /\ short = [s \in Sess |-> FALSE]
  /\ flash = [p \in 1 .. Positions |-> Old] /\ armed = {} /\ ended = {} /\ failed = {}
  /\ misled = {}
  /\ cst = [c \in Clients |-> "idle"] /\ tid = [c \in Clients |-> None]
  /\ pos = [c \in Clients |-> 0] /\ copy = [c \in Readers |-> <<>>]
  /\ net = {}

-----------------------------------------------------------------------------
(* process_tftp_request: take a control block for the session, if there is *)
(* one left; otherwise the request is dropped.                             *)
Allocatable(s) == st[s] = "unused" /\ Cardinality(Open) < PoolSize

Sectors == {SectorOf[p] : p \in 1 .. Positions}

(* The block number a write session starts from (mutant: the one before).  *)
FirstWrBlock_Before == -1
FirstWrBlock == 0

(* tftp_process_write: the firmware prepares for the file (its erase flags *)
(* are cleared) and block 0 is acknowledged.                               *)
ProcessWrite(s, m) ==
  /\ m \in net /\ m.type = "WRQ" /\ Allocatable(s)
  /\ st' = [st EXCEPT ![s] = "wr"] /\ peer' = [peer EXCEPT ![s] = m.c]
  /\ block' = [block EXCEPT ![s] = FirstWrBlock]
  /\ armed' = Sectors
  /\ Exchange(m, {[type |-> "SACK", c |-> m.c, s |-> s, n |-> 0]})
  /\ UNCHANGED <<tot, short, flash, ended, failed, misled, client>>

(* The read callback at offset t: the next chunk, nothing beyond the end   *)
(* (mutant: an offset too far).                                            *)
ReadAt_Skip(t) == IF t + 1 < N THEN t + 2 ELSE Blank
ReadAt(t) == IF t < N THEN t + 1 ELSE Blank

(* tftp_rd_send_next_block counts what it sends (mutant: it does not).     *)
OffsetAfter_Same(t, chunk) == t
OffsetAfter(t, chunk) == IF HasData(chunk) THEN t + 1 ELSE t

(* tftp_process_read: block 1 is sent at once.                             *)
ProcessRead(s, m) ==
  /\ m \in net /\ m.type = "RRQ" /\ Allocatable(s)
  /\ st' = [st EXCEPT ![s] = "rd"] /\ peer' = [peer EXCEPT ![s] = m.c]
  /\ block' = [block EXCEPT ![s] = 1]
  /\ tot' = [tot EXCEPT ![s] = OffsetAfter(0, ReadAt(0))]
  /\ short' = [short EXCEPT ![s] = IsShort(ReadAt(0))]
  /\ Exchange(m, {[type |-> "SDATA", c |-> m.c, s |-> s, n |-> 1, chunk |-> ReadAt(0)]})
  /\ UNCHANGED <<flash, armed, ended, failed, misled, client>>

(* No memory for the session: the client is told and nothing is kept.      *)
NoMemory(m) ==
  /\ m \in net /\ m.type \in {"WRQ", "RRQ"}
  /\ armed' = IF m.type = "WRQ" THEN Sectors ELSE armed
  /\ Exchange(m, {SErr(m.c, None)})
  /\ UNCHANGED <<st, peer, block, tot, short, flash, ended, failed, misled, client>>

-----------------------------------------------------------------------------
(* The number a packet must have to be written (mutant: any).              *)
Expected_Any(s, n) == TRUE
Expected(s, n) == n = block[s] + 1

(* The acknowledged number (mutant: of the packet after the one received). *)
AckNumber_Next(b) == b + 1
AckNumber(b) == b

(* platform_flash_write of one chunk at position p: its sector is erased   *)
(* if its flag is clear; programming over other data does not read back.   *)
EraseFor(p) == [q \in 1 .. Positions |->
                 IF SectorOf[p] \in armed /\ SectorOf[q] = SectorOf[p]
                 THEN Blank ELSE flash[q]]
CanWrite(p, chunk) == p <= Positions /\ EraseFor(p)[p] \in {Blank, chunk}

FlashWrite(p, chunk, ok) ==
  IF p > Positions
  THEN UNCHANGED <<flash, armed>>                      (* refused, error 6 *)
  ELSE /\ armed' = armed \ {SectorOf[p]}
       /\ flash' = IF ok THEN [EraseFor(p) EXCEPT ![p] = chunk] ELSE EraseFor(p)

(* wrq_recv_callback on a packet of a client; the operation code is not    *)
(* looked at, so that the text of an ERROR packet is file data as well.    *)
(* When the write fails the session is closed and the callback goes on     *)
(* with the freed arguments and control block: it counts the block, may    *)
(* acknowledge it, and closes again if the packet is short.  The end is    *)
(* announced to the firmware by a write of nothing behind the file.        *)
WrqPacket(s, m) ==
  /\ m \in net /\ m.type \in {"DATA", "CERR"} /\ m.s = s /\ st[s] = "wr"
  /\ LET fits  == Expected(s, m.n)
         write == fits /\ HasData(m.chunk)
         last  == IsShort(m.chunk)
         b     == IF fits THEN block[s] + 1 ELSE block[s]
         Outcome(ok) ==
           /\ block' = [block EXCEPT ![s] = b]
           /\ tot'   = [tot EXCEPT ![s] = IF write THEN @ + 1 ELSE @]
           /\ IF write THEN FlashWrite(tot[s] + 1, m.chunk, ok)
                       ELSE UNCHANGED <<flash, armed>>
           /\ st'    = [st EXCEPT ![s] = IF last \/ ~ok THEN "closed" ELSE @]
           /\ ended' = IF last /\ tot'[s] > 0 THEN ended \union {s} ELSE ended
           /\ IF ok
              THEN Exchange(m, {SAck(s, AckNumber(b))}) /\ UNCHANGED failed
              ELSE /\ failed' = failed \union {s}
                   /\ \E acked \in SUBSET {SAck(s, AckNumber(b))} :
                        Exchange(m, {SErr(peer[s], s)} \union acked)
     IN \/ (write => CanWrite(tot[s] + 1, m.chunk)) /\ Outcome(TRUE)
        \/ write /\ (WriteMayFail \/ ~CanWrite(tot[s] + 1, m.chunk)) /\ Outcome(FALSE)
  /\ UNCHANGED <<peer, short, misled, client>>

(* rrq_recv_callback: the block counts when the right one is acknowledged, *)
(* but the next chunk is sent in any case.  After the last chunk the       *)
(* session is closed, and the callback goes on with what it has freed: it  *)
(* may send one more block.                                                *)
CorrectAck(s, m) == m.type = "CACK" /\ m.n = block[s]

RrqAck(s, m) ==
  /\ m \in net /\ m.type \in {"CACK", "CERR"} /\ m.s = s /\ st[s] = "rd"
  /\ LET b     == IF CorrectAck(s, m) THEN block[s] + 1 ELSE block[s]
         chunk == ReadAt(tot[s])
     IN /\ block' = [block EXCEPT ![s] = b]
        /\ tot'   = [tot EXCEPT ![s] = OffsetAfter(tot[s], chunk)]
        /\ short' = [short EXCEPT ![s] = IsShort(chunk)]
        /\ misled' = IF CorrectAck(s, m) THEN misled ELSE misled \union {s}
        /\ IF short[s]
           THEN /\ st' = [st EXCEPT ![s] = "closed"]
                /\ \E sent \in SUBSET {SData(s, b, chunk)} : Exchange(m, sent)
           ELSE UNCHANGED st /\ Exchange(m, {SData(s, b, chunk)})
  /\ UNCHANGED <<peer, flash, armed, ended, failed, client>>

-----------------------------------------------------------------------------
(* The clients, RFC 1350: a client adopts the session that answers first,  *)
(* refuses others with an ERROR, and resends by way of the network.        *)
ClientAsk(c) ==
  /\ cst[c] = "idle" /\ cst' = [cst EXCEPT ![c] = "asked"]
  /\ net' = net \union {Req(c)}
  /\ UNCHANGED <<server, tid, pos, copy>>

(* An answer of a session the client does not talk to.                     *)
ClientForeign(c, m) ==
  /\ m \in net /\ m.type \in {"SACK", "SDATA"} /\ m.c = c
  /\ cst[c] \in {"busy", "done"} /\ m.s # tid[c]
  /\ Exchange(m, {CErr(c, m.s, UnknownTid)})
  /\ UNCHANGED <<server, client>>

Adopts(c, m) == (cst[c] = "asked" /\ m.n <= 1) \/ (cst[c] = "busy" /\ m.s = tid[c])

(* The awaited acknowledgement: send the next block, or be done.           *)
WriterAck(c, m) ==
  /\ m \in net /\ m.type = "SACK" /\ m.c = c /\ Adopts(c, m) /\ m.n = pos[c]
  /\ tid' = [tid EXCEPT ![c] = m.s]
  /\ IF pos[c] = N
     THEN /\ cst' = [cst EXCEPT ![c] = "done"] /\ Exchange(m, {}) /\ UNCHANGED pos
     ELSE /\ cst' = [cst EXCEPT ![c] = "busy"]
          /\ pos' = [pos EXCEPT ![c] = @ + 1]
          /\ Exchange(m, {Data(c, m.s, pos[c] + 1)})
  /\ UNCHANGED <<server, copy>>

(* The awaited block: keep it, acknowledge it.                             *)
ReaderData(c, m) ==
  /\ m \in net /\ m.type = "SDATA" /\ m.c = c /\ Adopts(c, m) /\ m.n = pos[c] + 1
  /\ tid' = [tid EXCEPT ![c] = m.s]
  /\ pos' = [pos EXCEPT ![c] = @ + 1]
  /\ copy' = [copy EXCEPT ![c] = Append(@, m.chunk)]
  /\ cst' = [cst EXCEPT ![c] = IF IsShort(m.chunk) THEN "done" ELSE "busy"]
  /\ Exchange(m, {CAck(c, m.s, m.n)})
  /\ UNCHANGED server

(* An ERROR of the server, or the user's interrupt, ends the transfer.     *)
ClientRefused(c, m) ==
  /\ m \in net /\ m.type = "SERR" /\ m.c = c /\ cst[c] \in {"asked", "busy"}
  /\ cst' = [cst EXCEPT ![c] = "gone"] /\ Exchange(m, {})
  /\ UNCHANGED <<server, tid, pos, copy>>

ClientAbort(c) ==
  /\ ClientMayAbort /\ cst[c] = "busy" /\ cst' = [cst EXCEPT ![c] = "gone"]
  /\ net' = net \union {CErr(c, tid[c], UserAbort)}
  /\ UNCHANGED <<server, tid, pos, copy>>

-----------------------------------------------------------------------------
Server == \E m \in net :
            \/ NoMemory(m)
            \/ \E s \in Sess : \/ ProcessWrite(s, m) \/ ProcessRead(s, m)
                               \/ WrqPacket(s, m) \/ RrqAck(s, m)
Client == \E c \in Clients :
            \/ ClientAsk(c) \/ ClientAbort(c)
            \/ \E m \in net : \/ ClientForeign(c, m) \/ ClientRefused(c, m)
                              \/ c \in Writers /\ WriterAck(c, m)
                              \/ c \in Readers /\ ReaderData(c, m)
Next == Server \/ Client

Spec == Init /\ [][Next]_vars

(* The server never sends anything again by itself: there is no timer in   *)
(* tftp_server.c.  What arrives at last is what a client repeats while it  *)
(* waits, its block or its last acknowledgement, and what an open session  *)
(* answers to the repetition of a block: the same acknowledgement.         *)
(* Nothing is assumed of requests and their answers, of blocks the server  *)
(* sends, of an acknowledgement whose session is closed, nor of a client   *)
(* that does not wait any more.                                            *)
Repeats(c, m) == cst[c] = "busy" /\ m.c = c /\ m.s = tid[c] /\ m.n = pos[c]

Fairness ==
  /\ \A c \in Writers :
       /\ WF_vars(\E m \in net : m.type = "DATA" /\ Repeats(c, m) /\ WrqPacket(tid[c], m))
       /\ WF_vars(\E m \in net : cst[c] = "busy" /\ st[tid[c]] = "wr" /\ WriterAck(c, m))
  /\ \A c \in Readers :
       WF_vars(\E m \in net : m.type = "CACK" /\ Repeats(c, m) /\ RrqAck(tid[c], m))

FairSpec == Spec /\ Fairness

-----------------------------------------------------------------------------
(* Every variable has its type.                                            *)
TypeOK ==
  /\ st \in [Sess -> {"unused", "wr", "rd", "closed"}]
  /\ peer \in [Sess -> Clients \union {None}]
  /\ block \in [Sess -> Nat] /\ tot \in [Sess -> Nat] /\ short \in [Sess -> BOOLEAN]
  /\ flash \in [1 .. Positions -> 0 .. N + 2] /\ armed \subseteq Sectors
  /\ ended \subseteq Sess /\ failed \subseteq Sess
  /\ misled \subseteq Sess
  /\ cst \in [Clients -> {"idle", "asked", "busy", "done", "gone"}]
  /\ tid \in [Clients -> Sess \union {None}] /\ pos \in [Clients -> 0 .. N]
  /\ copy \in [Readers -> Seq(0 .. N)]
  /\ \A m \in net : m.c \in Clients

(* The number of chunks of the file that carry data, the length of it.     *)
FileLen == IF EmptyLast THEN N - 1 ELSE N

(* The flash holds the first n chunks of the file.                         *)
Holds(n) == \A i \in 1 .. n : i <= FileLen => flash[i] = i

(* A block is acknowledged only when all blocks before it are in the flash *)
(* and it is, too, unless its own write has failed: then the client is     *)
(* sent an ERROR first, but the acknowledgement as well (tftp_server.c:125 *)
(* to 147).  From an acknowledgement on the client may forget the blocks.  *)
AckedIsStored ==
  \A m \in net : m.type = "SACK" =>
    Holds(IF m.s \in failed /\ m.n = block[m.s] THEN m.n - 1 ELSE m.n)

(* The uploading client that believes it is done has its file stored, and  *)
(* the firmware was told of the end of it, unless the write of the last    *)
(* block failed: that block may be acknowledged all the same.              *)
DoneIsStored ==
  \A c \in Writers : cst[c] = "done" =>
    IF tid[c] \in failed THEN Holds(N - 1) ELSE Holds(N) /\ tid[c] \in ended

(* A download that is complete is the file, unless its session has been    *)
(* sent a packet that did not acknowledge its current block: such a packet *)
(* makes it read on (rrq_recv_callback and the offset in tot_bytes).       *)
DownloadIsFile ==
  \A c \in Readers : cst[c] = "done" /\ tid[c] \notin misled => copy[c] = [i \in 1 .. N |-> i]

(* Whatever is repeated, no chunk reaches a downloading client twice or    *)
(* out of order: it may lose some (see ResendsSameChunk), and a block of   *)
(* nothing may end the file early.                                         *)
DownloadInOrder ==
  \A c \in Readers : \A j \in DOMAIN copy[c], i \in DOMAIN copy[c] :
    i < j => copy[c][i] # Blank /\ (copy[c][j] = Blank \/ copy[c][i] < copy[c][j])

(* Server and client never wait for each other: once a client has had an   *)
(* answer, its session is closed (an upload has ended or failed, a         *)
(* download has been read to its end), if the client keeps on repeating    *)
(* what is not answered.  That an uploading client learns of the end is    *)
(* not promised: the last acknowledgement may be lost, and the session     *)
(* that could repeat it is closed (tftp_server.c:153-157).                 *)
TransfersEnd ==
  \A c \in Clients, s \in Sess :
    (cst[c] = "busy" /\ tid[c] = s) ~> (cst[c] \in {"done", "gone"} \/ st[s] = "closed")

(* What the firmware has been handed: the positions from the first on that *)
(* hold a chunk of the file.                                               *)
Filled(area) == CHOOSE n \in 0 .. Positions :
                  /\ \A i \in 1 .. n : area[i] \in 1 .. N
                  /\ n < Positions => area[n + 1] \notin 1 .. N
Handed(area) == [i \in 1 .. Filled(area) |-> area[i]]

(* The write sessions, seen by the firmware, implement the abstract        *)
(* transfer: in order, each chunk once, the end announced after the last.  *)
T == INSTANCE FileTransfer WITH
       N <- FileLen,
       got <- Handed(flash),
       status <- IF failed # {} THEN "aborted"
                 ELSE IF ended # {} THEN "complete" ELSE "open"
UploadImplements == T!Spec

-----------------------------------------------------------------------------
(* "If the last write returned less than the maximum TFTP data pkt length, *)
(* then we've received the whole file and so we can quit": the end of the  *)
(* file is announced to the firmware only with the whole file in place.    *)
QuitsWithWholeFile == \A s \in ended : s \in failed \/ Holds(N)

(* "we did not receive the expected ACK, so do not update block #. This    *)
(* causes the current block to be resent": block n always carries chunk n. *)
ResendsSameChunk == \A m \in net : m.type = "SDATA" /\ m.n <= N => m.chunk = m.n

(* "This lets the host know that we are still waiting on block number      *)
(* args->block+1": what is acknowledged need not be sent again, it and all *)
(* blocks before it are in the flash.                                      *)
WaitsForNext == \A m \in net : m.type = "SACK" => Holds(m.n)
=============================================================================
