-------------------------- MODULE TftpServerProofs --------------------------
(***************************************************************************)
(* Proofs about the TFTP server, for files of any length, any number of    *)
(* sessions and readers, any flash area and any loss and reordering.       *)
(***************************************************************************)
EXTENDS TftpServer, FiniteSetTheorems, SequenceTheorems, TLAPS

-----------------------------------------------------------------------------
(* What is known of datagrams without any assumption on the network: who   *)
(* sent them and which session they are for.                               *)
Shape(m) ==
  /\ m.type \in {"WRQ", "RRQ", "DATA", "CACK", "CERR", "SACK", "SDATA", "SERR"}
  /\ m.c \in Clients /\ cst[m.c] # "idle"
  /\ m.type = "WRQ" => m.c \in Writers /\ m = [type |-> "WRQ", c |-> m.c]
  /\ m.type = "RRQ" => m.c \in Readers
  /\ m.type \in {"DATA", "CACK", "CERR", "SACK", "SDATA"} => m.s \in Sess /\ peer[m.s] = m.c
  /\ m.type = "DATA" => m.c \in Writers /\ m.n \in 1 .. pos[m.c] /\ m.chunk = m.n
  /\ m.type = "CACK" => m.c \in Readers /\ m.n \in Nat /\ m = CAck(m.c, m.s, m.n)
  /\ m.type = "CERR" => m.n \in {UserAbort, UnknownTid} /\ m.chunk = Text
  /\ m.type = "SACK" => m.c \in Writers /\ m.n \in Nat
  /\ m.type = "SDATA" => m.c \in Readers /\ m.n \in Nat /\ m.chunk \in 0 .. N

Types ==
  /\ st \in [Sess -> {"unused", "wr", "rd", "closed"}]
  /\ peer \in [Sess -> Clients \union {None}]
  /\ block \in [Sess -> Nat] /\ tot \in [Sess -> Nat] /\ short \in [Sess -> BOOLEAN]
  /\ flash \in [1 .. Positions -> 0 .. N + 2] /\ armed \subseteq Sectors
  /\ ended \subseteq Sess /\ failed \subseteq Sess /\ misled \subseteq Sess
  /\ cst \in [Clients -> {"idle", "asked", "busy", "done", "gone"}]
  /\ tid \in [Clients -> Sess \union {None}] /\ pos \in [Clients -> Nat]
  /\ copy \in [Readers -> Seq(0 .. N)]

(* A session belongs to the client whose request opened it, for good.      *)
Peers ==
  /\ \A s \in Sess : st[s] = "unused" => peer[s] = None /\ tot[s] = 0
  /\ \A s \in Sess : st[s] = "wr" => peer[s] \in Writers
  /\ \A s \in Sess : st[s] = "rd" => peer[s] \in Readers
  /\ \A s \in Sess : peer[s] \in Clients => cst[peer[s]] # "idle"

(* A client talks to a session of its own.                                 *)
Talks ==
  /\ \A c \in Clients : cst[c] \in {"idle", "asked"} => pos[c] = 0
  /\ \A c \in Clients : cst[c] \in {"busy", "done"} => tid[c] \in Sess /\ peer[tid[c]] = c
  /\ \A c \in Writers : pos[c] <= N

Base == Types /\ Peers /\ Talks /\ \A m \in net : Shape(m)

-----------------------------------------------------------------------------
(* An upload at a time, requested once: with two of them, or a repeated    *)
(* request, the erase flags are cleared under the first, and its sectors   *)
(* are erased once more, and WaitsForNext is false of it.                  *)
OneUpload == "WRQ" \notin DupTypes /\ \A c, d \in Writers : c = d

(* What a write session has counted is in the flash, in sectors the next   *)
(* write does not erase.                                                   *)
Counted(s) ==
  /\ block[s] \in 0 .. N /\ tot[s] = IF block[s] <= FileLen THEN block[s] ELSE FileLen
  /\ \A i \in 1 .. tot[s] : i <= Positions /\ flash[i] = i /\ SectorOf[i] \notin armed
  /\ block[s] = N => st[s] = "closed" /\ (FileLen > 0 => s \in ended)

(* When a write fails its block is counted, too, but only those before it  *)
(* are in the flash.                                                       *)
StoredBefore(s) == block[s] \in 1 .. N /\ Holds(block[s] - 1)

WriteMsg(m) ==
  /\ m.type = "WRQ" => \A s \in Sess : peer[s] \notin Writers
  /\ m.type = "SACK" => m.n <= block[m.s]
  /\ m.type = "CERR" /\ m.c \in Writers => m.n = UserAbort

WriteInv ==
  /\ \A s, t \in Sess : peer[s] \in Writers /\ peer[t] \in Writers => s = t
  /\ \A s \in Sess : s \in failed => peer[s] \in Writers /\ st[s] = "closed" /\ StoredBefore(s)
  /\ \A s \in Sess : peer[s] \in Writers /\ s \notin failed => Counted(s)
  /\ \A c \in Writers : cst[c] = "done" => block[tid[c]] = N
  /\ \A m \in net : WriteMsg(m)

-----------------------------------------------------------------------------
(* What a read session has counted when it has sent block k.               *)
CountAt(k) == IF HasData(k) THEN k ELSE k - 1
SentUpTo(s, k) == st[s] = "rd" /\ block[s] = k /\ tot[s] = CountAt(k) /\ short[s] = IsShort(k)

(* As long as a session has been sent nothing but the acknowledgements of  *)
(* its current blocks, its block k carries chunk k.                        *)
ReadMsg(m) ==
  /\ m.type = "SDATA" /\ cst[m.c] = "asked" => m.n = 1 /\ m.chunk = 1
  /\ m.type = "SDATA" /\ cst[m.c] = "busy" /\ m.s = tid[m.c] /\ m.s \notin misled =>
       m.chunk = m.n /\ m.n <= block[m.s]
  /\ m.type = "CACK" => cst[m.c] # "asked" /\ m.s = tid[m.c] /\ m.n <= pos[m.c]
  /\ m.type = "CERR" => cst[m.c] # "asked"

ReaderOK(c) ==
  /\ \A s \in Sess : cst[c] = "asked" /\ peer[s] = c => SentUpTo(s, 1)
  /\ cst[c] = "busy" /\ tid[c] \notin misled =>
       /\ pos[c] \in 1 .. N - 1 /\ copy[c] = [i \in 1 .. pos[c] |-> i]
       /\ \E k \in {pos[c], pos[c] + 1} : SentUpTo(tid[c], k)
  /\ cst[c] = "done" /\ tid[c] \notin misled => copy[c] = [i \in 1 .. N |-> i]

ReadInv ==
  /\ \A c \in Readers : ReaderOK(c)
  /\ \A m \in net : m.c \in Readers => ReadMsg(m)

(* Whatever is repeated, a session never reads back: a block carries a     *)
(* later chunk than every block of a lower number.  So does what a reader  *)
(* has, and awaits.                                                        *)
Later(chunk, k) == chunk = Blank \/ chunk > k

Ascending(c) ==
  /\ copy[c] \in Seq(0 .. N) /\ Len(copy[c]) = pos[c]
  /\ \A i, j \in 1 .. pos[c] : i < j => copy[c][i] # Blank /\ Later(copy[c][j], copy[c][i])
  /\ \A i \in 1 .. pos[c] : Later(copy[c][i], i - 1)

ChunkMsg(m) ==
  /\ m.n <= block[m.s] /\ (m.chunk \in 1 .. N - 1 => m.chunk <= tot[m.s])
  /\ cst[m.c] = "busy" /\ m.s = tid[m.c] /\ m.n = pos[m.c] + 1 =>
       Later(m.chunk, copy[m.c][pos[m.c]])

ReaderRow(c) ==
  /\ Ascending(c) /\ pos[c] <= N
  /\ cst[c] \in {"idle", "asked"} => pos[c] = 0
  /\ cst[c] = "busy" => /\ pos[c] >= 1 /\ copy[c][pos[c]] \in 1 .. N - 1
                        /\ copy[c][pos[c]] <= tot[tid[c]]

RowInv ==
  /\ \A c \in Readers : ReaderRow(c)
  /\ \A m \in net : m.type = "SDATA" => ChunkMsg(m)
  /\ \A m, z \in net :
       m.type = "SDATA" /\ z.type = "SDATA" /\ m.s = z.s /\ m.n < z.n /\ m.chunk \in 1 .. N - 1
         => Later(z.chunk, m.chunk)

-----------------------------------------------------------------------------
(* Arithmetic of the constants and records.                                *)
LEMMA Constants ==
  /\ N \in Nat /\ N >= 1 /\ Positions \in Nat /\ FileLen \in 0 .. N
  /\ \A c \in Clients : (c \in Writers) # (c \in Readers)
  /\ None \notin Clients /\ None \notin Sess
  /\ Writers \subseteq Clients /\ Readers \subseteq Clients
<1>1. N \in Nat /\ N >= 1 /\ Positions \in Nat
  BY TftpAssumption
<1>2. FileLen \in 0 .. N
  BY <1>1 DEF FileLen
<1>3. \A c \in Clients : (c \in Writers) # (c \in Readers)
  BY TftpAssumption DEF Clients
<1>4. None \notin Clients /\ None \notin Sess
  BY TftpAssumption DEF Clients
<1>5. Writers \subseteq Clients /\ Readers \subseteq Clients
  BY DEF Clients
<1> QED BY <1>1, <1>2, <1>3, <1>4, <1>5

(* The numbers up to n, as a sequence.                                     *)
UpTo(n) == [i \in 1 .. n |-> i]

(* The chunks 1 .. n are n chunks, and one more makes n + 1.               *)
LEMMA UpToIs ==
  ASSUME NEW n \in Nat
  PROVE  Len(UpTo(n)) = n /\ Append(UpTo(n), n + 1) = UpTo(n + 1)
<1> DEFINE f == UpTo(n)
<1>1. f \in [1 .. n -> Nat] /\ DOMAIN f = 1 .. n /\ \A i \in 1 .. n : f[i] = i
  BY DEF UpTo
<1> HIDE DEF f
<1>2. f \in Seq(Nat)
  BY <1>1, SeqDef, Zenon
<1>3. Len(f) = n
  BY <1>1, <1>2, LenProperties
<1>4. /\ DOMAIN Append(f, n + 1) = 1 .. n + 1
      /\ \A i \in 1 .. n + 1 : Append(f, n + 1)[i] = i
      /\ Append(f, n + 1) = [i \in 1 .. n + 1 |-> Append(f, n + 1)[i]]
  BY <1>1, <1>2, <1>3, AppendProperties
<1>5. Append(f, n + 1) = [i \in 1 .. n + 1 |-> i]
  BY <1>4
<1> QED BY <1>3, <1>5 DEF f, UpTo

(* A datagram that is taken leaves the network, unless it may be repeated. *)
LEMMA Exchanged ==
  ASSUME NEW m, NEW new, Exchange(m, new)
  PROVE  /\ net' \subseteq net \union new
         /\ m.type \notin DupTypes => m \notin net' \/ m \in new
BY DEF Exchange

(* What a step may not take back for a datagram to keep its shape.         *)
Grows(new) ==
  /\ net' \subseteq net \union new
  /\ \A s \in Sess : peer[s] \in Clients => peer'[s] = peer[s]
  /\ \A c \in Clients : cst[c] # "idle" => cst'[c] # "idle"
  /\ \A c \in Clients : pos[c] <= pos'[c]

(* A network that only grows by well formed datagrams stays well formed.   *)
LEMMA ShapesKept ==
  ASSUME Base, Types', NEW new, Grows(new), \A m \in new : Shape(m)'
  PROVE  (\A m \in net : Shape(m))'
<1>1. ASSUME NEW m \in net PROVE Shape(m)'
  <2>1. Shape(m) /\ pos \in [Clients -> Nat] /\ pos' \in [Clients -> Nat]
    BY DEF Base, Types
  <2>2. m.c \in Clients /\ pos[m.c] <= pos'[m.c] /\ cst'[m.c] # "idle"
    BY <2>1 DEF Shape, Grows
  <2>3. m.type \in {"DATA", "CACK", "CERR", "SACK", "SDATA"} => m.s \in Sess /\ peer'[m.s] = m.c
    BY <2>1 DEF Shape, Grows
  <2>4. m.type = "DATA" => m.n \in 1 .. pos'[m.c]
    BY <2>1, <2>2 DEF Shape
  <2> QED BY <2>1, <2>2, <2>3, <2>4 DEF Shape
<1> QED BY <1>1 DEF Grows

(* At the start no session is open and nothing is in flight.               *)
LEMMA InitBase == Init => Base
<1> SUFFICES ASSUME Init PROVE Base
  OBVIOUS
<1>1. Types
  <2>1. /\ copy \in [Readers -> Seq(0 .. N)] /\ flash \in [1 .. Positions -> 0 .. N + 2]
    BY Constants, EmptySeq DEF Init, Old
  <2>2. /\ st \in [Sess -> {"unused", "wr", "rd", "closed"}]
        /\ peer \in [Sess -> Clients \union {None}] /\ tid \in [Clients -> Sess \union {None}]
        /\ cst \in [Clients -> {"idle", "asked", "busy", "done", "gone"}]
        /\ block \in [Sess -> Nat] /\ tot \in [Sess -> Nat] /\ short \in [Sess -> BOOLEAN]
        /\ pos \in [Clients -> Nat]
    BY DEF Init
  <2>3. armed = {} /\ ended = {} /\ failed = {} /\ misled = {}
    BY DEF Init
  <2> QED BY <2>1, <2>2, <2>3 DEF Types
<1>2. Peers /\ Talks
  BY Constants DEF Init, Peers, Talks
<1> QED BY <1>1, <1>2 DEF Init, Base

-----------------------------------------------------------------------------
(* The server's actions.                                                   *)
LEMMA OpenBase ==
  ASSUME Base, NEW s \in Sess, NEW m \in net, ProcessWrite(s, m) \/ ProcessRead(s, m)
  PROVE  Base'
<1>c. Shape(m) /\ Types /\ Peers /\ Talks /\ st[s] = "unused" /\ m.c \in Clients
  BY DEF Base, ProcessWrite, ProcessRead, Allocatable, Shape
<1>1. CASE ProcessWrite(s, m)
  <2> DEFINE x == [type |-> "SACK", c |-> m.c, s |-> s, n |-> 0]
  <2>1. /\ st' = [st EXCEPT ![s] = "wr"] /\ peer' = [peer EXCEPT ![s] = m.c]
        /\ block' = [block EXCEPT ![s] = 0] /\ armed' = Sectors /\ Exchange(m, {x})
        /\ UNCHANGED <<tot, short, flash, ended, failed, misled, cst, tid, pos, copy>>
    BY <1>1 DEF ProcessWrite, client, FirstWrBlock
  <2>2. m.c \in Writers
    BY <1>1, <1>c DEF ProcessWrite, Shape
  <2>3. Types'
    BY <1>c, <2>1, <2>2 DEF Types, Sectors
  <2>4. Grows({x})
    BY <1>c, <2>1, Exchanged, Constants DEF Grows, Peers, Types
  <2>5. Shape(x)'
    BY <1>c, <2>1, <2>2 DEF Shape, Types
  <2>6. Peers' /\ Talks'
    BY <1>c, <2>1, <2>2, Constants DEF Peers, Talks, Types, Shape
  <2> QED BY <2>3, <2>4, <2>5, <2>6, ShapesKept DEF Base
<1>2. CASE ProcessRead(s, m)
  <2> DEFINE x == [type |-> "SDATA", c |-> m.c, s |-> s, n |-> 1, chunk |-> ReadAt(0)]
  <2>1. /\ st' = [st EXCEPT ![s] = "rd"] /\ peer' = [peer EXCEPT ![s] = m.c]
        /\ block' = [block EXCEPT ![s] = 1] /\ Exchange(m, {x})
        /\ tot' = [tot EXCEPT ![s] = IF HasData(ReadAt(0)) THEN 1 ELSE 0]
        /\ short' = [short EXCEPT ![s] = IsShort(ReadAt(0))]
        /\ UNCHANGED <<flash, armed, ended, failed, misled, cst, tid, pos, copy>>
    BY <1>2 DEF ProcessRead, client, OffsetAfter
  <2>2. m.c \in Readers /\ ReadAt(0) \in 0 .. N /\ IsShort(ReadAt(0)) \in BOOLEAN
    BY <1>2, <1>c, Constants DEF ProcessRead, Shape, ReadAt, Blank, IsShort
  <2>3. Types'
    BY <1>c, <2>1, <2>2 DEF Types, Sectors
  <2>4. Grows({x})
    BY <1>c, <2>1, Exchanged, Constants DEF Grows, Peers, Types
  <2>5. Shape(x)'
    BY <1>c, <2>1, <2>2 DEF Shape, Types
  <2>6. Peers' /\ Talks'
    BY <1>c, <2>1, <2>2, Constants DEF Peers, Talks, Types, Shape
  <2> QED BY <2>3, <2>4, <2>5, <2>6, ShapesKept DEF Base
<1> QED BY <1>1, <1>2

(* A request that finds no free session (NoMemory) is answered with an     *)
(* ERROR.                                                                  *)
LEMMA NoMemoryBase ==
  ASSUME Base, NEW m \in net, NoMemory(m)
  PROVE  Base'
<1> DEFINE x == SErr(m.c, None)
<1>c. Shape(m) /\ Types /\ Peers /\ Talks /\ m.c \in Clients
  BY DEF Base, Shape
<1>1. /\ Exchange(m, {x}) /\ armed' \in {armed, Sectors}
      /\ UNCHANGED <<st, peer, block, tot, short, flash, ended, failed, misled, cst, tid, pos, copy>>
  BY DEF NoMemory, client
<1>2. Types'
  BY <1>c, <1>1 DEF Types, Sectors
<1>3. Grows({x})
  BY <1>c, <1>1, Exchanged DEF Grows, Types
<1>4. Shape(x)'
  BY <1>c, <1>1 DEF Shape, SErr
<1>5. Peers' /\ Talks'
  BY <1>c, <1>1 DEF Peers, Talks
<1> QED BY <1>2, <1>3, <1>4, <1>5, ShapesKept DEF Base

(* What wrq_recv_callback does, whether the write succeeds (ok) or not.    *)
Accepted(s, m) == Expected(s, m.n)
Written(s, m) == Accepted(s, m) /\ HasData(m.chunk)
BlockAfter(s, m) == IF Accepted(s, m) THEN block[s] + 1 ELSE block[s]

(* What wrq_recv_callback does to its session, the flash and the counts.   *)
LEMMA PacketEffect ==
  ASSUME NEW s \in Sess, NEW m \in net, WrqPacket(s, m), Types
  PROVE  \E ok \in BOOLEAN :
           /\ m.type \in {"DATA", "CERR"} /\ m.s = s /\ st[s] = "wr"
           /\ block' = [block EXCEPT ![s] = BlockAfter(s, m)]
           /\ tot' = [tot EXCEPT ![s] = IF Written(s, m) THEN tot[s] + 1 ELSE tot[s]]
           /\ IF Written(s, m) THEN FlashWrite(tot[s] + 1, m.chunk, ok)
                               ELSE UNCHANGED <<flash, armed>>
           /\ Written(s, m) /\ ok => CanWrite(tot[s] + 1, m.chunk)
           /\ ~ok => Written(s, m)
           /\ st' = [st EXCEPT ![s] = IF IsShort(m.chunk) \/ ~ok THEN "closed" ELSE st[s]]
           /\ ended' = IF IsShort(m.chunk) /\ tot'[s] > 0 THEN ended \union {s} ELSE ended
           /\ failed' = IF ok THEN failed ELSE failed \union {s}
           /\ net' \subseteq net \union {SAck(s, BlockAfter(s, m)), SErr(peer[s], s)}
           /\ UNCHANGED <<peer, short, misled, cst, tid, pos, copy>>
BY DEF WrqPacket, Accepted, Written, BlockAfter, AckNumber, Exchange, client, Types
(* The flash operation changes its own position, and the others only by an *)
(* erase of their sector.                                                  *)
LEMMA FlashWritten ==
  ASSUME Types, NEW p \in Nat, p >= 1, NEW chunk \in 0 .. N + 2, NEW ok \in BOOLEAN,
         FlashWrite(p, chunk, ok)
  PROVE  /\ flash' \in [1 .. Positions -> 0 .. N + 2] /\ armed' \subseteq armed
         /\ \A q \in 1 .. Positions :
              q # p /\ SectorOf[q] \notin armed => flash'[q] = flash[q]
         /\ p <= Positions /\ ok => flash'[p] = chunk /\ SectorOf[p] \notin armed'
<1>1. CASE p > Positions
  BY <1>1, Constants DEF FlashWrite, Types
<1>2. CASE p <= Positions
  <2>1. /\ EraseFor(p) \in [1 .. Positions -> 0 .. N + 2]
        /\ \A q \in 1 .. Positions : SectorOf[q] \notin armed => EraseFor(p)[q] = flash[q]
    BY Constants DEF EraseFor, Types, Blank
  <2>2. /\ armed' = armed \ {SectorOf[p]}
        /\ flash' = IF ok THEN [EraseFor(p) EXCEPT ![p] = chunk] ELSE EraseFor(p)
    BY <1>2, Constants DEF FlashWrite
  <2>3. p \in 1 .. Positions
    BY <1>2, Constants
  <2> QED BY <2>1, <2>2, <2>3
<1> QED BY <1>1, <1>2, Constants

(* A packet of an upload keeps the types and who talks to whom.            *)
LEMMA WrqBase ==
  ASSUME Base, NEW s \in Sess, NEW m \in net, WrqPacket(s, m)
  PROVE  Base'
<1>b. PICK b : b = BlockAfter(s, m)
  OBVIOUS
<1> DEFINE x == [type |-> "SACK", c |-> m.c, s |-> s, n |-> b]
           y == [type |-> "SERR", c |-> m.c, s |-> s]
<1>c. Shape(m) /\ Types /\ Peers /\ Talks
  BY DEF Base
<1>1. PICK ok \in BOOLEAN :
        /\ m.type \in {"DATA", "CERR"} /\ m.s = s /\ st[s] = "wr"
        /\ block' = [block EXCEPT ![s] = BlockAfter(s, m)]
        /\ tot' = [tot EXCEPT ![s] = IF Written(s, m) THEN tot[s] + 1 ELSE tot[s]]
        /\ IF Written(s, m) THEN FlashWrite(tot[s] + 1, m.chunk, ok)
                            ELSE UNCHANGED <<flash, armed>>
        /\ st' = [st EXCEPT ![s] = IF IsShort(m.chunk) \/ ~ok THEN "closed" ELSE st[s]]
        /\ ended' = IF IsShort(m.chunk) /\ tot'[s] > 0 THEN ended \union {s} ELSE ended
        /\ failed' = IF ok THEN failed ELSE failed \union {s}
        /\ net' \subseteq net \union {SAck(s, BlockAfter(s, m)), SErr(peer[s], s)}
        /\ UNCHANGED <<peer, short, misled, cst, tid, pos, copy>>
  BY <1>c, PacketEffect
<1>2. /\ peer[s] = m.c /\ m.c \in Writers /\ b \in Nat
      /\ m.chunk \in 0 .. N + 2 /\ block[s] \in Nat /\ tot[s] \in Nat
  <2>1. peer[s] = m.c /\ m.c \in Writers
    BY <1>c, <1>1 DEF Shape, Peers
  <2>2. block[s] \in Nat /\ tot[s] \in Nat /\ b \in Nat
    BY <1>c, <1>b DEF Types, BlockAfter
  <2>3. m.chunk \in 0 .. N + 2
    <3>1. pos[m.c] \in Nat /\ pos[m.c] <= N
      BY <1>c, <2>1, Constants DEF Talks, Types
    <3> QED BY <1>c, <1>1, <3>1, Constants DEF Shape, Text
  <2> QED BY <2>1, <2>2, <2>3
<1>3. flash' \in [1 .. Positions -> 0 .. N + 2] /\ armed' \subseteq armed
  <2>1. CASE Written(s, m)
    <3>1. tot[s] + 1 \in Nat /\ tot[s] + 1 >= 1
      BY <1>2
    <3> QED BY <1>c, <1>1, <1>2, <2>1, <3>1, FlashWritten
  <2>2. CASE ~Written(s, m)
    BY <1>c, <1>1, <2>2 DEF Types
  <2> QED BY <2>1, <2>2
<1>4. Types'
  <2>1. armed' \subseteq Sectors'
    BY <1>c, <1>3 DEF Types, Sectors
  <2>2. /\ block' \in [Sess -> Nat] /\ tot' \in [Sess -> Nat] /\ ended' \subseteq Sess
        /\ failed' \subseteq Sess /\ st' \in [Sess -> {"unused", "wr", "rd", "closed"}]
    BY <1>c, <1>b, <1>1, <1>2 DEF Types
  <2> QED BY <1>c, <1>1, <1>3, <2>1, <2>2 DEF Types
<1>5. Grows({x, y})
  BY <1>c, <1>b, <1>1, <1>2 DEF Grows, Types, SAck, SErr
<1>6. Shape(x)' /\ Shape(y)'
  <2>1. m.c \in Clients /\ cst'[m.c] # "idle" /\ peer'[s] = m.c
    BY <1>c, <1>1, <1>2 DEF Shape
  <2> QED BY <1>2, <2>1 DEF Shape
<1>7. Peers' /\ Talks'
  BY <1>c, <1>1, <1>2, Constants DEF Peers, Talks, Types
<1> QED BY <1>4, <1>5, <1>6, <1>7, ShapesKept DEF Base

(* So does an acknowledgement of a download (rrq_recv_callback).           *)
LEMMA RrqBase ==
  ASSUME Base, NEW s \in Sess, NEW m \in net, RrqAck(s, m)
  PROVE  Base'
<1>b. PICK b : b = IF CorrectAck(s, m) THEN block[s] + 1 ELSE block[s]
  OBVIOUS
<1>k. PICK k : k = ReadAt(tot[s])
  OBVIOUS
<1> DEFINE x == [type |-> "SDATA", c |-> m.c, s |-> s, n |-> b, chunk |-> k]
<1>c. Shape(m) /\ Types /\ Peers /\ Talks
  BY DEF Base
<1>1. /\ m.type \in {"CACK", "CERR"} /\ m.s = s /\ st[s] = "rd"
      /\ block' = [block EXCEPT ![s] = b]
      /\ tot' = [tot EXCEPT ![s] = IF HasData(k) THEN tot[s] + 1 ELSE tot[s]]
      /\ short' = [short EXCEPT ![s] = IsShort(k)]
      /\ st' = st \/ st' = [st EXCEPT ![s] = "closed"]
      /\ net' \subseteq net \union {SData(s, b, k)}
      /\ misled' \subseteq misled \union {s}
      /\ UNCHANGED <<peer, flash, armed, ended, failed, cst, tid, pos, copy>>
  BY <1>b, <1>k DEF RrqAck, Exchange, client, OffsetAfter
<1>2. /\ peer[s] = m.c /\ m.c \in Readers /\ b \in Nat /\ k \in 0 .. N
      /\ tot[s] \in Nat /\ IsShort(k) \in BOOLEAN
  <2>1. peer[s] = m.c /\ m.c \in Readers /\ block[s] \in Nat /\ tot[s] \in Nat
    BY <1>c, <1>1 DEF Shape, Peers, Types
  <2> QED BY <1>b, <1>k, <2>1, Constants DEF ReadAt, Blank, IsShort
<1>3. Types'
  <2>1. st' \in [Sess -> {"unused", "wr", "rd", "closed"}]
    BY <1>c, <1>1 DEF Types
  <2>2. /\ block' \in [Sess -> Nat] /\ tot' \in [Sess -> Nat] /\ short' \in [Sess -> BOOLEAN]
    BY <1>c, <1>1, <1>2 DEF Types
  <2> QED BY <1>c, <1>1, <2>1, <2>2 DEF Types, Sectors
<1>4. Grows({x})
  BY <1>c, <1>1, <1>2 DEF Grows, Types, SData
<1>5. Shape(x)'
  BY <1>c, <1>1, <1>2 DEF Shape
<1>6. Peers' /\ Talks'
  BY <1>c, <1>1, <1>2, Constants DEF Peers, Talks, Types
<1> QED BY <1>3, <1>4, <1>5, <1>6, ShapesKept DEF Base

-----------------------------------------------------------------------------
(* The clients' actions.                                                   *)
LEMMA AskBase ==
  ASSUME Base, NEW c \in Clients, ClientAsk(c)
  PROVE  Base'
<1> DEFINE x == Req(c)
<1>c. Types /\ Peers /\ Talks
  BY DEF Base
<1>1. /\ cst[c] = "idle" /\ cst' = [cst EXCEPT ![c] = "asked"] /\ net' = net \union {x}
      /\ UNCHANGED <<st, peer, block, tot, short, flash, armed, ended, failed, misled, tid, pos, copy>>
  BY DEF ClientAsk, server
<1>2. Types'
  BY <1>c, <1>1 DEF Types, Sectors
<1>3. Grows({x})
  BY <1>c, <1>1 DEF Grows, Types
<1>4. Shape(x)'
  BY <1>c, <1>1, Constants DEF Shape, Req, Types
<1>5. Peers' /\ Talks'
  BY <1>c, <1>1, Constants DEF Peers, Talks, Types
<1> QED BY <1>2, <1>3, <1>4, <1>5, ShapesKept DEF Base

(* A client that gives up sends an ERROR to the session it talks to.       *)
LEMMA AbortBase ==
  ASSUME Base, NEW c \in Clients, ClientAbort(c)
  PROVE  Base'
<1>i. PICK s : s = tid[c]
  OBVIOUS
<1> DEFINE x == CErr(c, s, UserAbort)
<1>c. Types /\ Peers /\ Talks
  BY DEF Base
<1>1. /\ cst[c] = "busy" /\ cst' = [cst EXCEPT ![c] = "gone"] /\ net' = net \union {x}
      /\ UNCHANGED <<st, peer, block, tot, short, flash, armed, ended, failed, misled, tid, pos, copy>>
  BY <1>i DEF ClientAbort, server
<1>2. Types'
  BY <1>c, <1>1 DEF Types, Sectors
<1>3. Grows({x})
  BY <1>c, <1>1 DEF Grows, Types
<1>4. Shape(x)'
  BY <1>c, <1>i, <1>1 DEF Shape, CErr, Types, Talks
<1>5. Peers' /\ Talks'
  BY <1>c, <1>1 DEF Peers, Talks, Types
<1> QED BY <1>2, <1>3, <1>4, <1>5, ShapesKept DEF Base

(* A datagram of a session the client does not talk to is answered with an *)
(* ERROR.                                                                  *)
LEMMA ForeignBase ==
  ASSUME Base, NEW c \in Clients, NEW m \in net, ClientForeign(c, m)
  PROVE  Base'
<1> DEFINE x == CErr(c, m.s, UnknownTid)
<1>c. Shape(m) /\ Types /\ Peers /\ Talks
  BY DEF Base
<1>1. /\ m.type \in {"SACK", "SDATA"} /\ m.c = c /\ Exchange(m, {x})
      /\ UNCHANGED <<st, peer, block, tot, short, flash, armed, ended, failed, misled, cst, tid, pos, copy>>
  BY DEF ClientForeign, server, client
<1>2. Types'
  BY <1>c, <1>1 DEF Types, Sectors
<1>3. Grows({x})
  BY <1>c, <1>1, Exchanged DEF Grows, Types
<1>4. Shape(x)'
  BY <1>c, <1>1 DEF Shape, CErr
<1>5. Peers' /\ Talks'
  BY <1>c, <1>1 DEF Peers, Talks
<1> QED BY <1>2, <1>3, <1>4, <1>5, ShapesKept DEF Base

(* A client that is refused is gone.                                       *)
LEMMA RefusedBase ==
  ASSUME Base, NEW c \in Clients, NEW m \in net, ClientRefused(c, m)
  PROVE  Base'
<1>c. Types /\ Peers /\ Talks
  BY DEF Base
<1>1. /\ cst[c] \in {"asked", "busy"} /\ cst' = [cst EXCEPT ![c] = "gone"] /\ Exchange(m, {})
      /\ UNCHANGED <<st, peer, block, tot, short, flash, armed, ended, failed, misled, tid, pos, copy>>
  BY DEF ClientRefused, server
<1>2. Types'
  BY <1>c, <1>1 DEF Types, Sectors
<1>3. Grows({})
  BY <1>c, <1>1, Exchanged DEF Grows, Types
<1>4. Peers' /\ Talks'
  BY <1>c, <1>1 DEF Peers, Talks, Types
<1> QED BY <1>2, <1>3, <1>4, ShapesKept DEF Base

(* A writer that gets its acknowledgement sends the next block.            *)
LEMMA AckBase ==
  ASSUME Base, NEW c \in Writers, NEW m \in net, WriterAck(c, m)
  PROVE  Base'
<1>n. PICK n : n = pos[c] + 1
  OBVIOUS
<1> DEFINE x == Data(c, m.s, n)
<1>c. /\ Shape(m) /\ Types /\ Peers /\ Talks /\ c \in Clients /\ pos[c] \in 0 .. N
      /\ m.s \in Sess /\ peer[m.s] = c /\ cst[c] \in {"asked", "busy"}
  BY Constants DEF Base, WriterAck, Adopts, Shape, Types, Talks
<1>1. /\ tid' = [tid EXCEPT ![c] = m.s]
      /\ UNCHANGED <<st, peer, block, tot, short, flash, armed, ended, failed, misled, copy>>
  BY DEF WriterAck, server
<1>2. CASE pos[c] = N
  <2>1. cst' = [cst EXCEPT ![c] = "done"] /\ Exchange(m, {}) /\ pos' = pos
    BY <1>2 DEF WriterAck
  <2>2. Types'
    BY <1>c, <1>1, <2>1 DEF Types, Sectors
  <2>3. Grows({})
    BY <1>c, <1>1, <2>1, Exchanged DEF Grows, Types
  <2>4. Peers' /\ Talks'
    BY <1>c, <1>1, <2>1 DEF Peers, Talks, Types
  <2> QED BY <2>2, <2>3, <2>4, ShapesKept DEF Base
<1>3. CASE pos[c] # N
  <2>1. /\ cst' = [cst EXCEPT ![c] = "busy"] /\ pos' = [pos EXCEPT ![c] = n]
        /\ Exchange(m, {x}) /\ n \in 1 .. N
    BY <1>c, <1>n, <1>3, Constants DEF WriterAck, Types
  <2>2. Types'
    <3>1. pos' \in [Clients -> Nat] /\ tid' \in [Clients -> Sess \union {None}]
      BY <1>c, <1>1, <2>1 DEF Types
    <3>2. cst' \in [Clients -> {"idle", "asked", "busy", "done", "gone"}]
      BY <1>c, <2>1 DEF Types
    <3> QED BY <1>c, <1>1, <3>1, <3>2 DEF Types, Sectors
  <2>3. Grows({x})
    BY <1>c, <1>n, <1>1, <2>1, Exchanged DEF Grows, Types
  <2>4. Shape(x)'
    BY <1>c, <1>1, <2>1 DEF Shape, Data, Types
  <2>5. Peers' /\ Talks'
    BY <1>c, <1>1, <2>1 DEF Peers, Talks, Types
  <2> QED BY <2>2, <2>3, <2>4, <2>5, ShapesKept DEF Base
<1> QED BY <1>2, <1>3

(* A reader that gets its block acknowledges it.                           *)
LEMMA DataBase ==
  ASSUME Base, NEW c \in Readers, NEW m \in net, ReaderData(c, m)
  PROVE  Base'
<1> DEFINE x == CAck(c, m.s, m.n)
<1>c. /\ Shape(m) /\ Types /\ Peers /\ Talks /\ c \in Clients /\ c \notin Writers
      /\ m.s \in Sess /\ peer[m.s] = c /\ m.n \in Nat /\ m.chunk \in 0 .. N
      /\ cst[c] \in {"asked", "busy"}
  BY Constants DEF Base, ReaderData, Adopts, Shape, Types
<1>1. /\ tid' = [tid EXCEPT ![c] = m.s] /\ pos' = [pos EXCEPT ![c] = pos[c] + 1]
      /\ copy' = [copy EXCEPT ![c] = Append(copy[c], m.chunk)]
      /\ cst' = [cst EXCEPT ![c] = IF IsShort(m.chunk) THEN "done" ELSE "busy"]
      /\ Exchange(m, {x})
      /\ UNCHANGED <<st, peer, block, tot, short, flash, armed, ended, failed, misled>>
  BY <1>c DEF ReaderData, server, Types
<1>2. Types'
  <2>1. copy[c] \in Seq(0 .. N) /\ Append(copy[c], m.chunk) \in Seq(0 .. N)
    BY <1>c, AppendProperties DEF Types
  <2>2. pos[c] + 1 \in Nat
    BY <1>c DEF Types
  <2> QED BY <1>c, <1>1, <2>1, <2>2 DEF Types, Sectors
<1>3. Grows({x})
  BY <1>c, <1>1, Exchanged DEF Grows, Types
<1>4. Shape(x)'
  BY <1>c, <1>1 DEF Shape, CAck, Types
<1>5. Peers' /\ Talks'
  BY <1>c, <1>1 DEF Peers, Talks, Types
<1> QED BY <1>2, <1>3, <1>4, <1>5, ShapesKept DEF Base

(* Every step keeps the types and who talks to whom.                       *)
LEMMA StepBase == Base /\ [Next]_vars => Base'
<1> SUFFICES ASSUME Base, [Next]_vars PROVE Base'
  OBVIOUS
<1>1. CASE Server
  BY <1>1, NoMemoryBase, OpenBase, WrqBase, RrqBase DEF Server
<1>2. CASE Client
  BY <1>2, AskBase, AbortBase, ForeignBase, RefusedBase, AckBase, DataBase DEF Client
<1>3. CASE UNCHANGED vars
  BY <1>3 DEF vars, server, client, Base, Types, Peers, Talks, Shape, Sectors
<1> QED BY <1>1, <1>2, <1>3 DEF Next
-----------------------------------------------------------------------------
(* Uploads.  A step that leaves the sessions of writers alone.             *)
Steady(new) ==
  /\ net' \subseteq net \union new
  /\ \A s \in Sess : peer[s] \in Writers \/ peer'[s] \in Writers =>
       /\ peer'[s] = peer[s] /\ st'[s] = st[s]
       /\ block'[s] = block[s] /\ tot'[s] = tot[s]
  /\ flash' = flash /\ armed' = armed /\ ended' = ended /\ failed' = failed
  /\ \A c \in Writers : cst'[c] = "done" =>
       tid'[c] \in Sess /\ peer[tid'[c]] \in Writers /\ block[tid'[c]] = N

(* A step that leaves uploads alone keeps what is known of them.           *)
LEMMA WriteSteady ==
  ASSUME Base, WriteInv, NEW new, Steady(new), \A m \in new : WriteMsg(m)'
  PROVE  WriteInv'
<1>1. \A s, t \in Sess : peer'[s] \in Writers /\ peer'[t] \in Writers => s = t
  BY DEF WriteInv, Steady
<1>2. ASSUME NEW s \in Sess, s \in failed'
      PROVE  peer'[s] \in Writers /\ st'[s] = "closed" /\ StoredBefore(s)'
  <2>1. peer[s] \in Writers /\ st[s] = "closed" /\ StoredBefore(s)
    BY <1>2 DEF WriteInv, Steady
  <2>2. peer'[s] = peer[s] /\ st'[s] = st[s] /\ block'[s] = block[s] /\ flash' = flash
    BY <2>1 DEF Steady
  <2> QED BY <2>1, <2>2 DEF StoredBefore, Holds
<1>3. ASSUME NEW s \in Sess, peer'[s] \in Writers, s \notin failed'
      PROVE  Counted(s)'
  <2>1. Counted(s) /\ st'[s] = st[s] /\ block'[s] = block[s] /\ tot'[s] = tot[s]
    BY <1>3 DEF WriteInv, Steady
  <2> QED BY <2>1 DEF Counted, Steady
<1>4. \A c \in Writers : cst'[c] = "done" => block'[tid'[c]] = N
  BY DEF Steady
<1>5. ASSUME NEW m \in net PROVE WriteMsg(m)'
  <2>1. WriteMsg(m) /\ Shape(m)
    BY DEF Base, WriteInv
  <2>2. m.type = "WRQ" => \A s \in Sess : peer'[s] \notin Writers
    BY <2>1 DEF WriteMsg, Steady
  <2>3. m.type = "SACK" => m.n <= block'[m.s]
    BY <2>1 DEF WriteMsg, Shape, Steady
  <2> QED BY <2>1, <2>2, <2>3 DEF WriteMsg
<1>6. \A m \in net' : WriteMsg(m)'
  BY <1>5 DEF Steady
<1> QED BY <1>1, <1>2, <1>3, <1>4, <1>6 DEF WriteInv

(* The clauses on clients of a step that changes none.                     *)
LEMMA DoneBefore ==
  ASSUME Base, WriteInv, NEW c \in Writers, cst[c] = "done"
  PROVE  tid[c] \in Sess /\ peer[tid[c]] \in Writers /\ block[tid[c]] = N
BY Constants DEF Base, Talks, WriteInv

(* The one upload begins with nothing counted and all sectors due to be    *)
(* erased.                                                                 *)
LEMMA OpenWrite ==
  ASSUME Base, Base', WriteInv, OneUpload, NEW s \in Sess, NEW m \in net, ProcessWrite(s, m)
  PROVE  WriteInv'
<1> DEFINE x == [type |-> "SACK", c |-> m.c, s |-> s, n |-> 0]
<1>1. /\ m.type = "WRQ" /\ st[s] = "unused" /\ st' = [st EXCEPT ![s] = "wr"]
      /\ peer' = [peer EXCEPT ![s] = m.c] /\ block' = [block EXCEPT ![s] = 0]
      /\ armed' = Sectors /\ Exchange(m, {x})
      /\ UNCHANGED <<tot, short, flash, ended, failed, misled, cst, tid, pos, copy>>
  BY DEF ProcessWrite, client, FirstWrBlock, Allocatable
<1>2. /\ Shape(m) /\ WriteMsg(m) /\ Types /\ tot[s] = 0 /\ m.c \in Writers
      /\ m = [type |-> "WRQ", c |-> m.c]
  BY <1>1 DEF Base, WriteInv, Peers, Shape
<1>3. /\ \A t \in Sess : peer[t] \notin Writers
      /\ \A t \in Sess : peer'[t] \in Writers => t = s
  BY <1>1, <1>2 DEF WriteMsg, Types
<1>4. failed = {}
  BY <1>2, <1>3 DEF WriteInv, Types
<1>5. Counted(s)'
  <2>1. block'[s] = 0 /\ tot'[s] = 0
    BY <1>1, <1>2 DEF Types
  <2> QED BY <2>1, Constants DEF Counted
<1>6. ASSUME NEW z \in net' PROVE WriteMsg(z)'
  <2>1. CASE z = x
    BY <1>1, <1>2, <2>1 DEF WriteMsg, Types
  <2>2. CASE z # x
    <3>1. z \in net /\ Shape(z) /\ WriteMsg(z) /\ z # m
      <4>1. net' \subseteq net \union {x} /\ (m \notin net' \/ m \in {x})
        BY <1>1, Exchanged DEF OneUpload
      <4> QED BY <2>2, <4>1 DEF Base, WriteInv
    <3>2. z.type # "WRQ"
      BY <1>2, <3>1 DEF Shape, OneUpload
    <3>3. z.type # "SACK"
      BY <1>3, <3>1 DEF Shape
    <3> QED BY <3>1, <3>2, <3>3 DEF WriteMsg
  <2> QED BY <2>1, <2>2
<1>7. \A c \in Writers : cst'[c] # "done"
  BY <1>1, <1>3, DoneBefore
<1>8. \A t \in Sess : peer'[t] \in Writers => Counted(t)'
  BY <1>3, <1>5
<1> QED BY <1>1, <1>3, <1>4, <1>6, <1>7, <1>8 DEF WriteInv

(* A refused request is no packet of an upload.                            *)
LEMMA NoMemoryWrite ==
  ASSUME Base, Base', WriteInv, NEW m \in net, NoMemory(m)
  PROVE  WriteInv'
<1> DEFINE x == SErr(m.c, None)
<1>1. /\ net' \subseteq net \union {x} /\ armed' = IF m.type = "WRQ" THEN Sectors ELSE armed
      /\ UNCHANGED <<st, peer, block, tot, short, flash, ended, failed, misled, cst, tid, pos, copy>>
  BY Exchanged DEF NoMemory, client
<1>2. WriteMsg(x)'
  BY DEF WriteMsg, SErr
<1>3. CASE m.type # "WRQ"
  <2>1. Steady({x})
    BY <1>1, <1>3, DoneBefore DEF Steady
  <2> QED BY <1>2, <2>1, WriteSteady
<1>4. CASE m.type = "WRQ"
  <2>1. \A s \in Sess : peer[s] \notin Writers
    BY <1>4 DEF WriteInv, WriteMsg
  <2>2. failed = {}
    BY <2>1 DEF WriteInv, Base, Types
  <2>3. \A z \in net : WriteMsg(z)'
    BY <1>1 DEF WriteInv, WriteMsg
  <2>4. \A c \in Writers : cst'[c] # "done"
    BY <1>1, <2>1, DoneBefore
  <2> QED BY <1>1, <1>2, <2>1, <2>2, <2>3, <2>4 DEF WriteInv
<1> QED BY <1>3, <1>4

(* A datagram with the expected number is the next block of the file: no   *)
(* ERROR of a client can have it.                                          *)
LEMMA NextBlock ==
  ASSUME Base, WriteInv, NEW s \in Sess, NEW m \in net, m.s = s, st[s] = "wr",
         m.type \in {"DATA", "CERR"}, Accepted(s, m)
  PROVE  m.chunk = block[s] + 1 /\ block[s] + 1 <= N
<1>1. Shape(m) /\ WriteMsg(m) /\ peer[s] = m.c /\ m.c \in Writers /\ m.c \in Clients
  BY DEF Base, WriteInv, Shape, Peers
<1>2. block[s] \in Nat /\ pos[m.c] \in Nat /\ pos[m.c] <= N
  BY <1>1 DEF Base, Types, Talks
<1>3. m.type = "DATA"
  BY <1>1, <1>2 DEF WriteMsg, Accepted, Expected, UserAbort
<1> QED BY <1>1, <1>2, <1>3, Constants DEF Shape, Accepted, Expected

(* The heart of it: a packet on the write session.                         *)
LEMMA PacketCounted ==
  ASSUME Base, WriteInv, NEW s \in Sess, NEW m \in net, NEW ok \in BOOLEAN,
         m.type \in {"DATA", "CERR"}, m.s = s, st[s] = "wr", ok,
         block' = [block EXCEPT ![s] = BlockAfter(s, m)],
         tot' = [tot EXCEPT ![s] = IF Written(s, m) THEN tot[s] + 1 ELSE tot[s]],
         IF Written(s, m) THEN FlashWrite(tot[s] + 1, m.chunk, ok)
                         ELSE UNCHANGED <<flash, armed>>,
         Written(s, m) /\ ok => CanWrite(tot[s] + 1, m.chunk),
         st' = [st EXCEPT ![s] = IF IsShort(m.chunk) \/ ~ok THEN "closed" ELSE st[s]],
         ended' = IF IsShort(m.chunk) /\ tot'[s] > 0 THEN ended \union {s} ELSE ended
  PROVE  Counted(s)'
<1>1. /\ Types /\ peer[s] \in Writers /\ s \notin failed /\ Counted(s)
      /\ block[s] \in Nat /\ tot[s] \in Nat /\ block[s] < N
  <2>1. Types /\ peer[s] \in Writers /\ s \notin failed
    BY DEF Base, Peers, WriteInv
  <2>2. Counted(s)
    BY <2>1 DEF WriteInv
  <2>3. block[s] \in Nat /\ tot[s] \in Nat
    BY <2>1 DEF Types
  <2>4. block[s] < N
    <3>1. block[s] \in 0 .. N /\ block[s] # N
      BY <2>2 DEF Counted
    <3>2. N \in Nat
      BY Constants
    <3> QED BY <3>1, <3>2
  <2> QED BY <2>1, <2>2, <2>3, <2>4
<1>2. /\ block'[s] = BlockAfter(s, m)
      /\ tot'[s] = IF Written(s, m) THEN tot[s] + 1 ELSE tot[s]
      /\ st'[s] = IF IsShort(m.chunk) THEN "closed" ELSE st[s]
  BY <1>1 DEF Types
<1>3. Accepted(s, m) => m.chunk = block[s] + 1 /\ block[s] + 1 <= N
  BY NextBlock
<1>4. /\ block'[s] \in 0 .. N
      /\ tot'[s] = IF block'[s] <= FileLen THEN block'[s] ELSE FileLen
      /\ Written(s, m) => m.chunk = tot[s] + 1
  <2>1. CASE ~Accepted(s, m)
    BY <1>1, <1>2, <2>1 DEF Counted, BlockAfter, Written
  <2>2. CASE Accepted(s, m) /\ ~HasData(m.chunk)
    <3>1. EmptyLast /\ m.chunk = N /\ block[s] = N - 1
      BY <1>1, <1>3, <2>2, Constants DEF HasData, Blank
    <3> QED BY <1>1, <1>2, <2>2, <3>1, Constants DEF Counted, BlockAfter, Written, FileLen
  <2>3. CASE Accepted(s, m) /\ HasData(m.chunk)
    <3>1. block[s] + 1 <= FileLen
      BY <1>1, <1>3, <2>3, Constants DEF HasData, FileLen
    <3> QED BY <1>1, <1>2, <1>3, <2>3, <3>1, Constants DEF Counted, BlockAfter, Written
  <2> QED BY <2>1, <2>2, <2>3
<1>5. \A i \in 1 .. tot'[s] : i <= Positions /\ flash'[i] = i /\ SectorOf[i] \notin armed'
  <2>1. CASE ~Written(s, m)
    BY <1>1, <1>2, <2>1 DEF Counted
  <2>2. CASE Written(s, m)
    <3> DEFINE p == tot[s] + 1
    <3>1. p \in Nat /\ p >= 1 /\ m.chunk = p /\ p <= Positions
      BY <1>1, <1>4, <2>2 DEF CanWrite
    <3>2. m.chunk \in 0 .. N + 2
      BY <1>1, <1>3, <2>2, Constants DEF Written
    <3>3. FlashWrite(p, m.chunk, ok)
      BY <2>2
    <3> HIDE DEF p
    <3>4. /\ armed' \subseteq armed /\ flash'[p] = p /\ SectorOf[p] \notin armed'
          /\ \A q \in 1 .. Positions : q # p /\ SectorOf[q] \notin armed => flash'[q] = flash[q]
      BY <1>1, <3>1, <3>2, <3>3, FlashWritten
    <3>5. ASSUME NEW i \in 1 .. tot[s]
          PROVE  i <= Positions /\ flash'[i] = i /\ SectorOf[i] \notin armed'
      <4>1. i <= Positions /\ flash[i] = i /\ SectorOf[i] \notin armed
        BY <1>1 DEF Counted
      <4>2. i \in 1 .. Positions /\ i # p
        BY <1>1, <4>1, Constants DEF p
      <4> QED BY <3>4, <4>1, <4>2
    <3>6. \A i \in 1 .. tot'[s] : i \in 1 .. tot[s] \/ i = p
      BY <1>1, <1>2, <2>2 DEF p
    <3> QED BY <3>1, <3>4, <3>5, <3>6
  <2> QED BY <2>1, <2>2
<1>6. block'[s] = N => st'[s] = "closed" /\ (FileLen > 0 => s \in ended')
  <2>1. SUFFICES ASSUME block'[s] = N
                 PROVE  st'[s] = "closed" /\ (FileLen > 0 => s \in ended')
    OBVIOUS
  <2>2. m.chunk = N
    BY <1>1, <1>2, <1>3, <2>1 DEF BlockAfter
  <2>3. IsShort(m.chunk)
    BY <2>2, Constants DEF IsShort
  <2>4. tot'[s] = FileLen
    BY <1>4, <2>1, Constants
  <2> QED BY <1>2, <2>3, <2>4
<1> QED BY <1>4, <1>5, <1>6 DEF Counted

(* A write that fails takes nothing from the blocks before it: their       *)
(* sectors have been erased already.                                       *)
LEMMA FailedStores ==
  ASSUME Base, WriteInv, NEW s \in Sess, NEW m \in net,
         m.type \in {"DATA", "CERR"}, m.s = s, st[s] = "wr", Written(s, m),
         block' = [block EXCEPT ![s] = BlockAfter(s, m)],
         FlashWrite(tot[s] + 1, m.chunk, FALSE)
  PROVE  StoredBefore(s)'
<1>1. Types /\ Counted(s) /\ block[s] \in Nat /\ tot[s] \in Nat
  BY DEF Base, Types, Peers, WriteInv
<1>2. m.chunk = block[s] + 1 /\ block[s] + 1 <= N /\ block'[s] = block[s] + 1
  BY <1>1, NextBlock DEF Written, BlockAfter, Types
<1>p. PICK p : p = tot[s] + 1
  OBVIOUS
<1>3. p \in Nat /\ p >= 1 /\ m.chunk \in 0 .. N + 2 /\ FlashWrite(p, m.chunk, FALSE)
  <2>1. p \in Nat /\ p >= 1
    BY <1>p, <1>1
  <2>2. m.chunk \in 0 .. N + 2
    BY <1>1, <1>2, Constants
  <2> QED BY <1>p, <2>1, <2>2
<1>4. \A q \in 1 .. Positions : q # p /\ SectorOf[q] \notin armed => flash'[q] = flash[q]
  BY <1>1, <1>3, FlashWritten
<1>5. ASSUME NEW i \in 1 .. block[s], i <= FileLen PROVE flash'[i] = i
  <2>1. i \in 1 .. tot[s] /\ i # p
    BY <1>p, <1>1, <1>5, Constants DEF Counted
  <2>2. i <= Positions /\ flash[i] = i /\ SectorOf[i] \notin armed
    BY <1>1, <2>1 DEF Counted
  <2>3. i \in 1 .. Positions
    BY <2>1, <2>2, Constants
  <2> QED BY <1>4, <2>1, <2>2, <2>3
<1>6. block'[s] \in 1 .. N /\ block'[s] - 1 = block[s]
  BY <1>1, <1>2, Constants
<1> QED BY <1>5, <1>6 DEF StoredBefore, Holds, FileLen

(* A packet of the upload: the next block is written where the count says, *)
(* any other is not.                                                       *)
LEMMA PacketWrite ==
  ASSUME Base, Base', WriteInv, NEW s \in Sess, NEW m \in net, WrqPacket(s, m)
  PROVE  WriteInv'
<1>b. PICK b : b = BlockAfter(s, m)
  OBVIOUS
<1>c. Shape(m) /\ Types /\ Peers /\ Talks
  BY DEF Base
<1> DEFINE x == [type |-> "SACK", c |-> m.c, s |-> s, n |-> b]
           y == [type |-> "SERR", c |-> m.c, s |-> s]
<1>1. PICK ok \in BOOLEAN :
        /\ m.type \in {"DATA", "CERR"} /\ m.s = s /\ st[s] = "wr"
        /\ block' = [block EXCEPT ![s] = BlockAfter(s, m)]
        /\ tot' = [tot EXCEPT ![s] = IF Written(s, m) THEN tot[s] + 1 ELSE tot[s]]
        /\ IF Written(s, m) THEN FlashWrite(tot[s] + 1, m.chunk, ok)
                            ELSE UNCHANGED <<flash, armed>>
        /\ Written(s, m) /\ ok => CanWrite(tot[s] + 1, m.chunk)
        /\ ~ok => Written(s, m)
        /\ st' = [st EXCEPT ![s] = IF IsShort(m.chunk) \/ ~ok THEN "closed" ELSE st[s]]
        /\ ended' = IF IsShort(m.chunk) /\ tot'[s] > 0 THEN ended \union {s} ELSE ended
        /\ failed' = IF ok THEN failed ELSE failed \union {s}
        /\ net' \subseteq net \union {SAck(s, BlockAfter(s, m)), SErr(peer[s], s)}
        /\ UNCHANGED <<peer, short, misled, cst, tid, pos, copy>>
  BY <1>c, PacketEffect
<1>2. /\ peer[s] = m.c /\ m.c \in Writers /\ s \notin failed /\ Counted(s)
      /\ block[s] \in Nat /\ b \in Nat /\ block'[s] = b /\ block[s] <= b /\ block[s] < N
  <2>1. peer[s] = m.c /\ m.c \in Writers /\ s \notin failed
    BY <1>c, <1>1 DEF Shape, Peers, WriteInv
  <2>2. Counted(s) /\ block[s] \in Nat
    BY <1>c, <2>1 DEF WriteInv, Types
  <2>3. b \in Nat /\ block'[s] = b /\ block[s] <= b
    BY <1>b, <1>c, <1>1, <2>2 DEF Types, BlockAfter
  <2> QED BY <1>1, <2>1, <2>2, <2>3, Constants DEF Counted
<1>3. \A t \in Sess : peer[t] \in Writers => t = s
  BY <1>2 DEF WriteInv
<1>4. ASSUME NEW t \in Sess, t \in failed'
      PROVE  peer'[t] \in Writers /\ st'[t] = "closed" /\ StoredBefore(t)'
  <2>1. t \notin failed
    BY <1>2, <1>3 DEF WriteInv
  <2>2. t = s /\ ~ok
    BY <1>1, <1>4, <2>1
  <2>3. peer'[s] \in Writers /\ st'[s] = "closed"
    BY <1>c, <1>1, <1>2, <2>2 DEF Types
  <2> QED BY <1>1, <2>2, <2>3, FailedStores
<1>5. s \notin failed' => Counted(s)'
  <2>1. SUFFICES ASSUME ok PROVE Counted(s)'
    BY <1>1
  <2> QED BY <1>1, <2>1, PacketCounted
<1>6. \A c \in Writers : cst'[c] # "done"
  <2>1. ASSUME NEW c \in Writers, cst[c] = "done" PROVE FALSE
    BY <1>2, <1>3, <2>1, DoneBefore
  <2> QED BY <1>1, <2>1
<1>7. ASSUME NEW z \in net' PROVE WriteMsg(z)'
  <2>1. z \in net \/ z = x \/ z = y
    BY <1>b, <1>1, <1>2 DEF SAck, SErr
  <2>2. CASE z = x
    BY <1>2, <2>2 DEF WriteMsg
  <2>3. CASE z = y
    BY <2>3 DEF WriteMsg
  <2>4. CASE z \in net
    <3>1. WriteMsg(z) /\ Shape(z)
      BY <2>4 DEF WriteInv, Base
    <3>2. z.type # "WRQ"
      BY <1>2, <3>1 DEF WriteMsg
    <3>3. z.type = "SACK" => z.n <= block'[z.s]
      <4>1. z.type = "SACK" => z.s = s /\ z.n \in Nat
        BY <1>3, <3>1 DEF Shape
      <4> QED BY <1>1, <1>2, <3>1, <4>1 DEF WriteMsg
    <3> QED BY <3>1, <3>2, <3>3 DEF WriteMsg
  <2> QED BY <2>1, <2>2, <2>3, <2>4
<1> QED BY <1>1, <1>3, <1>4, <1>5, <1>6, <1>7 DEF WriteInv

(* The steps that leave the uploads alone.                                 *)
LEMMA ReadsWrite ==
  ASSUME Base, Base', WriteInv, NEW s \in Sess, NEW m \in net, ProcessRead(s, m) \/ RrqAck(s, m)
  PROVE  WriteInv'
<1>c. Shape(m) /\ Types /\ Peers
  BY DEF Base
<1>1. CASE ProcessRead(s, m)
  <2> DEFINE x == [type |-> "SDATA", c |-> m.c, s |-> s, n |-> 1, chunk |-> ReadAt(0)]
  <2>1. /\ m.type = "RRQ" /\ st[s] = "unused" /\ st' = [st EXCEPT ![s] = "rd"]
        /\ peer' = [peer EXCEPT ![s] = m.c] /\ block' = [block EXCEPT ![s] = 1]
        /\ tot' = [tot EXCEPT ![s] = IF HasData(ReadAt(0)) THEN 1 ELSE 0] /\ Exchange(m, {x})
        /\ UNCHANGED <<flash, armed, ended, failed, misled, cst, tid, pos, copy>>
    BY <1>1 DEF ProcessRead, Allocatable, client, OffsetAfter
  <2>2. m.c \notin Writers /\ peer[s] \notin Writers
    BY <1>c, <2>1, Constants DEF Shape, Peers
  <2>3. Steady({x})
    BY <1>c, <2>1, <2>2, Exchanged, DoneBefore DEF Steady, Types
  <2>4. WriteMsg(x)'
    BY DEF WriteMsg
  <2> QED BY <2>3, <2>4, WriteSteady
<1>2. CASE RrqAck(s, m)
  <2>b. PICK b : b = IF CorrectAck(s, m) THEN block[s] + 1 ELSE block[s]
    OBVIOUS
  <2>k. PICK k : k = ReadAt(tot[s])
    OBVIOUS
  <2> DEFINE x == [type |-> "SDATA", c |-> m.c, s |-> s, n |-> b, chunk |-> k]
  <2>1. /\ m.type \in {"CACK", "CERR"} /\ m.s = s /\ st[s] = "rd"
        /\ block' = [block EXCEPT ![s] = b]
        /\ tot' = [tot EXCEPT ![s] = IF HasData(k) THEN tot[s] + 1 ELSE tot[s]]
        /\ st' = st \/ st' = [st EXCEPT ![s] = "closed"]
        /\ net' \subseteq net \union {SData(s, b, k)}
        /\ misled' \subseteq misled \union {s}
      /\ UNCHANGED <<peer, flash, armed, ended, failed, cst, tid, pos, copy>>
    BY <1>2, <2>b, <2>k DEF RrqAck, Exchange, client, OffsetAfter
  <2>2. peer[s] = m.c /\ m.c \notin Writers
    BY <1>c, <2>1, Constants DEF Shape, Peers
  <2>3. \A t \in Sess : t # s => block'[t] = block[t] /\ tot'[t] = tot[t] /\ st'[t] = st[t]
    BY <1>c, <2>1 DEF Types
  <2>4. Steady({x})
    BY <1>c, <2>1, <2>2, <2>3, DoneBefore DEF Steady, SData
  <2>5. WriteMsg(x)'
    BY DEF WriteMsg
  <2> QED BY <2>4, <2>5, WriteSteady
<1> QED BY <1>1, <1>2

(* The steps of the clients: a writer never runs ahead of its              *)
(* acknowledgements.                                                       *)
LEMMA ClientsWrite ==
  ASSUME Base, Base', WriteInv, OneUpload, Client
  PROVE  WriteInv'
<1>c. Types /\ Peers /\ Talks
  BY DEF Base
<1>1. ASSUME NEW c \in Clients, ClientAsk(c) PROVE WriteInv'
  <2>1. /\ cst[c] = "idle" /\ cst' = [cst EXCEPT ![c] = "asked"] /\ net' = net \union {Req(c)}
        /\ UNCHANGED <<st, peer, block, tot, short, flash, armed, ended, failed, misled, tid, pos, copy>>
    BY <1>1 DEF ClientAsk, server
  <2>2. Steady({Req(c)})
    BY <1>c, <2>1, DoneBefore DEF Steady, Types
  <2>3. WriteMsg(Req(c))'
    <3>1. SUFFICES ASSUME c \in Writers PROVE \A s \in Sess : peer[s] \notin Writers
      BY <2>1 DEF WriteMsg, Req
    <3>2. \A s \in Sess : peer[s] # c
      BY <1>c, <2>1 DEF Peers
    <3> QED BY <3>1, <3>2 DEF OneUpload
  <2> QED BY <2>2, <2>3, WriteSteady
<1>2. ASSUME NEW c \in Clients, ClientAbort(c) PROVE WriteInv'
  <2>i. PICK s : s = tid[c]
    OBVIOUS
  <2> DEFINE x == CErr(c, s, UserAbort)
  <2>1. /\ cst' = [cst EXCEPT ![c] = "gone"] /\ net' = net \union {x}
        /\ UNCHANGED <<st, peer, block, tot, short, flash, armed, ended, failed, misled, tid, pos, copy>>
    BY <1>2, <2>i DEF ClientAbort, server
  <2>2. Steady({x})
    BY <1>c, <2>1, DoneBefore DEF Steady, Types
  <2>3. WriteMsg(x)'
    BY DEF WriteMsg, CErr
  <2> QED BY <2>2, <2>3, WriteSteady
<1>3. ASSUME NEW c \in Clients, NEW m \in net, ClientForeign(c, m) PROVE WriteInv'
  <2> DEFINE x == CErr(c, m.s, UnknownTid)
  <2>1. /\ m.type \in {"SACK", "SDATA"} /\ m.c = c /\ Exchange(m, {x})
        /\ cst[c] \in {"busy", "done"} /\ m.s # tid[c]
        /\ UNCHANGED <<st, peer, block, tot, short, flash, armed, ended, failed, misled, cst, tid, pos, copy>>
    BY <1>3 DEF ClientForeign, server, client
  <2>2. Steady({x})
    BY <2>1, Exchanged, DoneBefore DEF Steady
  <2>3. c \notin Writers
    <3>1. m.s \in Sess /\ peer[m.s] = c /\ tid[c] \in Sess /\ peer[tid[c]] = c
      BY <1>c, <2>1 DEF Base, Shape, Talks
    <3> QED BY <2>1, <3>1 DEF WriteInv
  <2>4. WriteMsg(x)'
    BY <2>3 DEF WriteMsg, CErr
  <2> QED BY <2>2, <2>4, WriteSteady
<1>4. ASSUME NEW c \in Clients, NEW m \in net, ClientRefused(c, m) PROVE WriteInv'
  <2>1. /\ cst' = [cst EXCEPT ![c] = "gone"] /\ Exchange(m, {})
        /\ UNCHANGED <<st, peer, block, tot, short, flash, armed, ended, failed, misled, tid, pos, copy>>
    BY <1>4 DEF ClientRefused, server
  <2>2. Steady({})
    BY <1>c, <2>1, Exchanged, DoneBefore DEF Steady, Types
  <2> QED BY <2>2, WriteSteady
<1>5. ASSUME NEW c \in Writers, NEW m \in net, WriterAck(c, m) PROVE WriteInv'
  <2>n. PICK n : n = pos[c] + 1
    OBVIOUS
  <2> DEFINE x == Data(c, m.s, n)
  <2>1. /\ m.type = "SACK" /\ m.c = c /\ m.n = pos[c] /\ tid' = [tid EXCEPT ![c] = m.s]
        /\ cst' = [cst EXCEPT ![c] = IF pos[c] = N THEN "done" ELSE "busy"]
        /\ net' \subseteq net \union {x}
        /\ UNCHANGED <<st, peer, block, tot, short, flash, armed, ended, failed, misled, copy>>
    BY <1>5, <2>n DEF WriterAck, Exchange, server
  <2>2. m.s \in Sess /\ peer[m.s] \in Writers /\ m.n <= block[m.s]
    BY <2>1 DEF Base, Shape, WriteInv, WriteMsg
  <2>3. pos[c] = N => block[m.s] = N
    <3>1. block[m.s] \in 0 .. N
      BY <2>2, Constants DEF WriteInv, Counted, StoredBefore
    <3> QED BY <2>1, <2>2, <3>1, Constants
  <2>4. c \in Clients
    BY Constants
  <2>5. \A d \in Writers : cst'[d] = "done" =>
          tid'[d] \in Sess /\ peer[tid'[d]] \in Writers /\ block[tid'[d]] = N
    <3>1. ASSUME NEW d \in Writers, d # c
          PROVE  d \in Clients /\ cst'[d] = cst[d] /\ tid'[d] = tid[d]
      BY <1>c, <2>1, <3>1, Constants DEF Types
    <3>2. cst'[c] = (IF pos[c] = N THEN "done" ELSE "busy") /\ tid'[c] = m.s
      BY <1>c, <2>1, <2>4 DEF Types
    <3> QED BY <2>2, <2>3, <3>1, <3>2, DoneBefore
  <2>6. Steady({x})
    BY <2>1, <2>5 DEF Steady
  <2>7. WriteMsg(x)'
    BY DEF WriteMsg, Data
  <2> QED BY <2>6, <2>7, WriteSteady
<1>6. ASSUME NEW c \in Readers, NEW m \in net, ReaderData(c, m) PROVE WriteInv'
  <2> DEFINE x == CAck(c, m.s, m.n)
  <2>1. /\ tid' = [tid EXCEPT ![c] = m.s]
        /\ cst' = [cst EXCEPT ![c] = IF IsShort(m.chunk) THEN "done" ELSE "busy"]
        /\ Exchange(m, {x})
        /\ UNCHANGED <<st, peer, block, tot, short, flash, armed, ended, failed, misled>>
    BY <1>6 DEF ReaderData, server
  <2>2. \A d \in Writers : d # c /\ d \in Clients
    BY Constants
  <2>3. Steady({x})
    BY <1>c, <2>1, <2>2, Exchanged, DoneBefore DEF Steady, Types
  <2>4. WriteMsg(x)'
    BY DEF WriteMsg, CAck
  <2> QED BY <2>3, <2>4, WriteSteady
<1> QED BY <1>1, <1>2, <1>3, <1>4, <1>5, <1>6 DEF Client

(* At the start there is no upload.                                        *)
LEMMA InitWrite == Init => WriteInv
BY Constants DEF Init, WriteInv

(* With one upload at a time every step keeps what is known of it.         *)
LEMMA StepWrite == Base /\ Base' /\ WriteInv /\ OneUpload /\ [Next]_vars => WriteInv'
<1> SUFFICES ASSUME Base, Base', WriteInv, OneUpload, [Next]_vars PROVE WriteInv'
  OBVIOUS
<1>1. CASE Server
  BY <1>1, NoMemoryWrite, OpenWrite, ReadsWrite, PacketWrite DEF Server
<1>2. CASE Client
  BY <1>2, ClientsWrite
<1>3. CASE UNCHANGED vars
  <2>1. /\ UNCHANGED <<st, peer, block, tot, flash, armed, ended, failed, cst, tid, net>>
    BY <1>3 DEF vars, server, client
  <2>2. Steady({})
    BY <2>1, DoneBefore DEF Steady
  <2> QED BY <2>2, WriteSteady
<1> QED BY <1>1, <1>2, <1>3 DEF Next

(* What the invariant means for the host and for the firmware.             *)
LEMMA CountedHolds ==
  ASSUME Base, WriteInv, NEW s \in Sess, peer[s] \in Writers, s \notin failed
  PROVE  Holds(block[s])
<1>1. Counted(s) /\ FileLen \in 0 .. N
  BY Constants DEF WriteInv
<1>2. ASSUME NEW i \in 1 .. block[s], i <= FileLen PROVE flash[i] = i
  <2>1. i \in 1 .. tot[s]
    BY <1>1, <1>2 DEF Counted
  <2> QED BY <1>1, <2>1 DEF Counted
<1> QED BY <1>2 DEF Holds

(* What is known of the upload says that the acknowledged and the done are *)
(* stored.                                                                 *)
LEMMA StoredNow ==
  ASSUME Base, WriteInv
  PROVE  AckedIsStored /\ (FileLen > 0 => DoneIsStored)
<1>1. ASSUME NEW m \in net, m.type = "SACK"
      PROVE  Holds(IF m.s \in failed /\ m.n = block[m.s] THEN m.n - 1 ELSE m.n)
  <2>1. /\ m.s \in Sess /\ peer[m.s] \in Writers /\ m.n \in Nat /\ m.n <= block[m.s]
        /\ block[m.s] \in Nat
    BY <1>1 DEF Base, Shape, WriteInv, WriteMsg, Types
  <2>2. CASE m.s \notin failed
    <3>1. Holds(block[m.s])
      BY <2>1, <2>2, CountedHolds
    <3> QED BY <2>1, <2>2, <3>1 DEF Holds
  <2>3. CASE m.s \in failed
    <3>1. Holds(block[m.s] - 1)
      BY <2>1, <2>3 DEF WriteInv, StoredBefore
    <3> QED BY <2>1, <2>3, <3>1 DEF Holds
  <2> QED BY <2>2, <2>3
<1>2. ASSUME FileLen > 0, NEW c \in Writers, cst[c] = "done"
      PROVE  IF tid[c] \in failed THEN Holds(N - 1) ELSE Holds(N) /\ tid[c] \in ended
  <2>1. tid[c] \in Sess /\ peer[tid[c]] \in Writers /\ block[tid[c]] = N
    BY <1>2, DoneBefore
  <2>2. CASE tid[c] \in failed
    BY <2>1, <2>2 DEF WriteInv, StoredBefore
  <2>3. CASE tid[c] \notin failed
    <3>1. Holds(N) /\ Counted(tid[c])
      BY <2>1, <2>3, CountedHolds DEF WriteInv
    <3> QED BY <1>2, <2>1, <2>3, <3>1 DEF Counted
  <2> QED BY <2>2, <2>3
<1> QED BY <1>1, <1>2 DEF AckedIsStored, DoneIsStored

(* An upload at a time whose request is not repeated, on a flash whose     *)
(* every write may fail: all blocks before an acknowledged one are stored, *)
(* and the acknowledged one as well unless its own write has failed, which *)
(* wrq_recv_callback acknowledges all the same.  When the host is done the *)
(* firmware has the whole file and knows it, or all but a last block that  *)
(* failed.  Of an empty file the firmware is not told, as its callback     *)
(* takes a write of nothing for the end only at an address above 0         *)
(* (cb_wr_gw_app).  Without the condition it is false (README).            *)
THEOREM UploadCorrect ==
  OneUpload /\ Spec => [](AckedIsStored /\ (FileLen > 0 => DoneIsStored))
<1> SUFFICES ASSUME OneUpload
             PROVE  Spec => [](AckedIsStored /\ (FileLen > 0 => DoneIsStored))
  OBVIOUS
<1>1. Base /\ Base' /\ WriteInv /\ [Next]_vars => WriteInv'
  BY StepWrite
<1>2. Base /\ WriteInv => AckedIsStored /\ (FileLen > 0 => DoneIsStored)
  BY StoredNow
<1> QED BY InitBase, StepBase, InitWrite, <1>1, <1>2, PTL DEF Spec

-----------------------------------------------------------------------------
(* The order of the chunks of downloads, whatever is repeated.  A step that *)
(* takes nothing from a reader, and from a session nothing it has counted. *)
RowGrows(new) ==
  /\ net' \subseteq net \union new
  /\ \A c \in Readers :
       /\ tid'[c] = tid[c] /\ pos'[c] = pos[c] /\ copy'[c] = copy[c]
       /\ cst'[c] \in {cst[c], "gone"} \/ (cst[c] = "idle" /\ cst'[c] = "asked")
  /\ \A s \in Sess : peer[s] \in Readers => block'[s] >= block[s] /\ tot'[s] >= tot[s]

(* A block that may follow those in flight for the same session.           *)
Follows(z) ==
  /\ ChunkMsg(z)'
  /\ \A m \in net : m.type = "SDATA" /\ m.s = z.s =>
       m.n <= z.n /\ (m.chunk \in 1 .. N - 1 => Later(z.chunk, m.chunk))

(* Such a step that sends at most one block, which follows, keeps the order.*)
LEMMA RowKept ==
  ASSUME Base, Base', RowInv, NEW new, RowGrows(new),
         \A z \in new : z.type = "SDATA" => Follows(z),
         \A y, z \in new : y.type = "SDATA" /\ z.type = "SDATA" => y = z
  PROVE  RowInv'
<1>1. ASSUME NEW c \in Readers PROVE ReaderRow(c)'
  <2>1. ReaderRow(c)
    BY DEF RowInv
  <2>2. Ascending(c)'
    BY <2>1 DEF ReaderRow, Ascending, RowGrows
  <2>3. cst[c] = "busy" =>
          /\ tid[c] \in Sess /\ tot'[tid[c]] >= tot[tid[c]]
          /\ tot[tid[c]] \in Nat /\ tot'[tid[c]] \in Nat
    BY Constants DEF Base, Talks, Types, RowGrows
  <2>4. cst'[c] = "busy" => cst[c] = "busy"
    BY DEF RowGrows
  <2>5. cst'[c] \in {"idle", "asked"} => cst[c] \in {"idle", "asked"}
    BY DEF RowGrows
  <2>6. cst'[c] = "busy" => /\ pos'[c] >= 1 /\ copy'[c][pos'[c]] \in 1 .. N - 1
                            /\ copy'[c][pos'[c]] <= tot'[tid'[c]]
    BY <2>1, <2>3, <2>4, Constants DEF ReaderRow, RowGrows
  <2> QED BY <2>1, <2>2, <2>5, <2>6 DEF ReaderRow, RowGrows
<1>2. ASSUME NEW m \in net, m.type = "SDATA" PROVE ChunkMsg(m)'
  <2>1. ChunkMsg(m) /\ Shape(m)
    BY <1>2 DEF RowInv, Base
  <2>2. /\ m.s \in Sess /\ m.c \in Readers /\ peer[m.s] = m.c /\ m.n \in Nat
        /\ block[m.s] \in Nat /\ block'[m.s] \in Nat /\ tot[m.s] \in Nat /\ tot'[m.s] \in Nat
    BY <1>2, <2>1 DEF Shape, Base, Types
  <2>3. block'[m.s] >= block[m.s] /\ tot'[m.s] >= tot[m.s]
    BY <2>2 DEF RowGrows
  <2>4. m.n <= block'[m.s] /\ (m.chunk \in 1 .. N - 1 => m.chunk <= tot'[m.s])
    BY <2>1, <2>2, <2>3, Constants DEF ChunkMsg
  <2>5. cst'[m.c] = "busy" => cst[m.c] = "busy"
    BY <2>2 DEF RowGrows
  <2> QED BY <2>1, <2>2, <2>4, <2>5 DEF ChunkMsg, RowGrows
<1>3. \A m \in net' : m.type = "SDATA" => ChunkMsg(m)'
  BY <1>2 DEF RowGrows, Follows
<1>4. ASSUME NEW m \in net', NEW z \in net',
             m.type = "SDATA", z.type = "SDATA", m.s = z.s, m.n < z.n, m.chunk \in 1 .. N - 1
      PROVE  Later(z.chunk, m.chunk)
  <2>1. m.n \in Nat /\ z.n \in Nat
    BY <1>4 DEF Base, Shape
  <2>2. CASE m \in net /\ z \in net
    BY <1>4, <2>2 DEF RowInv
  <2>3. CASE m \in net /\ z \in new
    BY <1>4, <2>3 DEF Follows
  <2>4. CASE m \in new /\ z \in net
    <3>1. z.n <= m.n
      BY <1>4, <2>4 DEF Follows
    <3> QED BY <1>4, <2>1, <3>1
  <2>5. CASE m \in new /\ z \in new
    <3>1. m = z
      BY <1>4, <2>5
    <3> QED BY <1>4, <2>1, <3>1
  <2> QED BY <1>4, <2>2, <2>3, <2>4, <2>5 DEF RowGrows
<1> QED BY <1>1, <1>3, <1>4 DEF RowInv

(* At the start nothing is received and nothing in flight.                 *)
LEMMA InitRow == Init => RowInv
<1> SUFFICES ASSUME Init PROVE RowInv
  OBVIOUS
<1>1. \A c \in Readers : copy[c] = <<>> /\ pos[c] = 0 /\ cst[c] = "idle"
  BY Constants DEF Init
<1>2. <<>> \in Seq(0 .. N) /\ Len(<<>>) = 0
  BY EmptySeq
<1>3. \A c \in Readers : ReaderRow(c)
  <2> SUFFICES ASSUME NEW c \in Readers PROVE ReaderRow(c)
    OBVIOUS
  <2>1. 1 .. pos[c] = {} /\ pos[c] <= N
    BY <1>1, Constants
  <2>2. Ascending(c)
    BY <1>1, <1>2, <2>1 DEF Ascending
  <2> QED BY <1>1, <2>1, <2>2 DEF ReaderRow
<1> QED BY <1>3 DEF Init, RowInv

(* The server: a session reads on, never back.                             *)
LEMMA ServerRow ==
  ASSUME Base, Base', RowInv, NEW s \in Sess, NEW m \in net,
         \/ NoMemory(m) \/ ProcessWrite(s, m) \/ ProcessRead(s, m)
         \/ WrqPacket(s, m) \/ RrqAck(s, m)
  PROVE  RowInv'
<1>c. Shape(m) /\ Types /\ Peers /\ Talks
  BY DEF Base
<1>1. CASE NoMemory(m)
  <2> DEFINE x == SErr(m.c, None)
  <2>1. /\ Exchange(m, {x})
        /\ UNCHANGED <<st, peer, block, tot, cst, tid, pos, copy>>
    BY <1>1 DEF NoMemory, client
  <2>2. RowGrows({x})
    BY <1>c, <2>1, Exchanged DEF RowGrows, Types
  <2>3. x.type # "SDATA"
    BY DEF SErr
  <2> HIDE DEF x
  <2> QED BY <2>2, <2>3, RowKept
<1>2. CASE ProcessWrite(s, m)
  <2> DEFINE x == [type |-> "SACK", c |-> m.c, s |-> s, n |-> 0]
  <2>1. /\ st[s] = "unused" /\ block' = [block EXCEPT ![s] = 0]
        /\ Exchange(m, {x}) /\ UNCHANGED <<tot, cst, tid, pos, copy>>
    BY <1>2 DEF ProcessWrite, Allocatable, client, FirstWrBlock
  <2>2. peer[s] \notin Readers
    BY <1>c, <2>1, Constants DEF Peers
  <2>3. RowGrows({x})
    BY <1>c, <2>1, <2>2, Exchanged DEF RowGrows, Types
  <2>4. x.type # "SDATA"
    OBVIOUS
  <2> HIDE DEF x
  <2> QED BY <2>3, <2>4, RowKept
<1>3. CASE ProcessRead(s, m)
  <2>k. PICK k : k = ReadAt(0)
    OBVIOUS
  <2> DEFINE x == [type |-> "SDATA", c |-> m.c, s |-> s, n |-> 1, chunk |-> k]
  <2>1. /\ st[s] = "unused" /\ block' = [block EXCEPT ![s] = 1]
        /\ tot' = [tot EXCEPT ![s] = IF HasData(k) THEN 1 ELSE 0]
        /\ m.type = "RRQ" /\ Exchange(m, {x}) /\ UNCHANGED <<cst, tid, pos, copy>>
    BY <1>3, <2>k DEF ProcessRead, Allocatable, client, OffsetAfter
  <2>2. peer[s] \notin Clients /\ m.c \in Clients
    BY <1>c, <2>1, Constants DEF Peers, Shape
  <2>3. RowGrows({x})
    BY <1>c, <2>1, <2>2, Exchanged, Constants DEF RowGrows, Types
  <2>4. block'[s] = 1 /\ (k \in 1 .. N - 1 => k <= tot'[s])
    BY <1>c, <2>k, <2>1, Constants DEF Types, ReadAt, HasData, Blank
  <2>5. ChunkMsg(x)'
    <3>1. cst[m.c] = "busy" => tid[m.c] # s
      BY <1>c, <2>2 DEF Talks
    <3> QED BY <2>1, <2>4, <3>1 DEF ChunkMsg
  <2>6. Follows(x)
    <3>1. \A z \in net : z.type = "SDATA" => z.s # s
      BY <2>2 DEF Base, Shape
    <3> QED BY <2>5, <3>1 DEF Follows
  <2> HIDE DEF x
  <2> QED BY <2>3, <2>6, RowKept
<1>4. CASE WrqPacket(s, m)
  <2>b. PICK b : b = BlockAfter(s, m)
    OBVIOUS
  <2> DEFINE x == [type |-> "SACK", c |-> m.c, s |-> s, n |-> b]
             y == [type |-> "SERR", c |-> m.c, s |-> s]
  <2>1. PICK v, w :
          /\ m.s = s /\ st[s] = "wr" /\ m.type \in {"DATA", "CERR"}
          /\ block' = [block EXCEPT ![s] = v] /\ tot' = [tot EXCEPT ![s] = w]
          /\ net' \subseteq net \union {SAck(s, BlockAfter(s, m)), SErr(peer[s], s)}
          /\ UNCHANGED <<peer, short, misled, cst, tid, pos, copy>>
    BY <1>c, <1>4, PacketEffect
  <2>2. peer[s] = m.c /\ m.c \notin Readers
    BY <1>c, <2>1, Constants DEF Shape, Peers
  <2>3. RowGrows({x, y})
    BY <1>c, <2>b, <2>1, <2>2 DEF RowGrows, Types, SAck, SErr
  <2>4. x.type # "SDATA" /\ y.type # "SDATA"
    OBVIOUS
  <2> HIDE DEF x, y
  <2> QED BY <2>3, <2>4, RowKept
<1>5. CASE RrqAck(s, m)
  <2>b. PICK b : b = IF CorrectAck(s, m) THEN block[s] + 1 ELSE block[s]
    OBVIOUS
  <2>k. PICK k : k = ReadAt(tot[s])
    OBVIOUS
  <2> DEFINE x == [type |-> "SDATA", c |-> m.c, s |-> s, n |-> b, chunk |-> k]
             y == SData(s, b, k)
  <2>1. /\ m.type \in {"CACK", "CERR"} /\ m.s = s /\ st[s] = "rd"
        /\ block' = [block EXCEPT ![s] = b]
        /\ tot' = [tot EXCEPT ![s] = IF HasData(k) THEN tot[s] + 1 ELSE tot[s]]
        /\ Exchange(m, {}) \/ Exchange(m, {y})
        /\ UNCHANGED <<peer, cst, tid, pos, copy>>
    BY <1>5, <2>b, <2>k DEF RrqAck, client, OffsetAfter
  <2>2. /\ peer[s] = m.c /\ m.c \in Readers /\ block[s] \in Nat /\ tot[s] \in Nat
        /\ b \in Nat /\ b >= block[s] /\ block'[s] = b /\ tot'[s] >= tot[s]
    BY <1>c, <2>b, <2>1 DEF Shape, Peers, Types
  <2>3. RowGrows({x})
    <3>1. net' \subseteq net \union {y} /\ y = x
      BY <2>1, <2>2, Exchanged DEF SData
    <3>2. \A t \in Sess : t # s => block'[t] = block[t] /\ tot'[t] = tot[t]
      BY <1>c, <2>1 DEF Types
    <3> HIDE DEF x, y
    <3> QED BY <1>c, <2>1, <2>2, <3>1, <3>2 DEF RowGrows, Types
  <2>4. k = Blank \/ k = tot[s] + 1
    BY <2>k DEF ReadAt
  <2>5. k \in 1 .. N - 1 => k <= tot'[s]
    BY <1>c, <2>1, <2>2, <2>4, Constants DEF HasData, Blank, Types
  <2>6. cst[m.c] = "busy" /\ s = tid[m.c] => Later(k, copy[m.c][pos[m.c]])
    BY <2>2, <2>4, Constants DEF Later, RowInv, ReaderRow
  <2>7. ChunkMsg(x)'
    BY <2>1, <2>2, <2>5, <2>6 DEF ChunkMsg
  <2>8. ASSUME NEW z \in net, z.type = "SDATA", z.s = s
        PROVE  z.n <= b /\ (z.chunk \in 1 .. N - 1 => Later(k, z.chunk))
    <3>1. ChunkMsg(z) /\ z.n \in Nat
      BY <2>8 DEF RowInv, Base, Shape
    <3> QED BY <2>2, <2>4, <2>8, <3>1, Constants DEF ChunkMsg, Later
  <2>9. Follows(x)
    BY <2>7, <2>8 DEF Follows
  <2> HIDE DEF x
  <2> QED BY <2>3, <2>9, RowKept
<1> QED BY <1>1, <1>2, <1>3, <1>4, <1>5

(* A reader that takes the awaited block has one chunk more, a later one.  *)
LEMMA TakeRow ==
  ASSUME Base, Base', RowInv, NEW c \in Readers, NEW m \in net, ReaderData(c, m)
  PROVE  RowInv'
<1>n. PICK n : n = pos[c]
  OBVIOUS
<1>k. PICK k : k = m.chunk
  OBVIOUS
<1> DEFINE x == CAck(c, m.s, m.n)
<1>1. /\ m.type = "SDATA" /\ m.c = c /\ m.n = n + 1 /\ Exchange(m, {x})
      /\ cst[c] = "asked" \/ (cst[c] = "busy" /\ m.s = tid[c])
      /\ tid' = [tid EXCEPT ![c] = m.s] /\ pos' = [pos EXCEPT ![c] = n + 1]
      /\ copy' = [copy EXCEPT ![c] = Append(copy[c], k)]
      /\ cst' = [cst EXCEPT ![c] = IF IsShort(k) THEN "done" ELSE "busy"]
      /\ UNCHANGED <<peer, block, tot>>
  BY <1>n, <1>k, Constants DEF ReaderData, Adopts, server, Base, Types
<1>2. /\ Shape(m) /\ Types /\ Talks /\ ChunkMsg(m) /\ ReaderRow(c) /\ c \in Clients
      /\ m.s \in Sess /\ peer[m.s] = c /\ n \in Nat /\ k \in 0 .. N
  BY <1>n, <1>k, <1>1, Constants DEF Base, Shape, Types, RowInv
<1>3. /\ cst'[c] = IF IsShort(k) THEN "done" ELSE "busy"
      /\ tid'[c] = m.s /\ pos'[c] = n + 1 /\ copy'[c] = Append(copy[c], k)
      /\ \A d \in Readers : d # c => /\ cst'[d] = cst[d] /\ tid'[d] = tid[d]
                                     /\ pos'[d] = pos[d] /\ copy'[d] = copy[d]
  BY <1>1, <1>2, Constants DEF Types
<1>4. /\ copy[c] \in Seq(0 .. N) /\ Len(copy[c]) = n
      /\ \A i, j \in 1 .. n : i < j => copy[c][i] # Blank /\ Later(copy[c][j], copy[c][i])
      /\ \A i \in 1 .. n : Later(copy[c][i], i - 1)
  BY <1>n, <1>2 DEF ReaderRow, Ascending
<1>5. /\ Append(copy[c], k) \in Seq(0 .. N) /\ Len(Append(copy[c], k)) = n + 1
      /\ \A i \in 1 .. n : Append(copy[c], k)[i] = copy[c][i]
      /\ Append(copy[c], k)[n + 1] = k
  BY <1>2, <1>4, AppendProperties
<1>6. n = 0 \/ (n \in 1 .. N - 1 /\ copy[c][n] \in 1 .. N - 1 /\ Later(k, copy[c][n]))
  <2>1. CASE cst[c] = "asked"
    BY <1>n, <1>2, <2>1 DEF ReaderRow
  <2>2. CASE cst[c] = "busy" /\ m.s = tid[c]
    <3>1. n >= 1 /\ copy[c][n] \in 1 .. N - 1
      BY <1>n, <1>2, <2>2 DEF ReaderRow
    <3>2. Later(copy[c][n], n - 1)
      BY <1>2, <1>4, <3>1
    <3>3. n < N
      BY <1>2, <3>1, <3>2, Constants DEF Later, Blank
    <3>4. Later(k, copy[c][n])
      BY <1>n, <1>k, <1>1, <1>2, <2>2 DEF ChunkMsg
    <3> QED BY <1>2, <3>1, <3>3, <3>4, Constants
  <2> QED BY <1>1, <2>1, <2>2
<1>7. \A i \in 1 .. n : copy[c][i] # Blank /\ Later(k, copy[c][i]) /\ copy[c][i] \in 0 .. N
  <2> SUFFICES ASSUME NEW i \in 1 .. n
               PROVE  copy[c][i] # Blank /\ Later(k, copy[c][i]) /\ copy[c][i] \in 0 .. N
    OBVIOUS
  <2>0. copy[c][i] \in 0 .. N
    BY <1>2, <1>4, ElementOfSeq
  <2>1. CASE i = n
    BY <1>2, <1>6, <2>0, <2>1, Constants DEF Blank
  <2>2. CASE i < n
    <3>1. copy[c][i] # Blank /\ Later(copy[c][n], copy[c][i])
      BY <1>2, <1>4, <2>2
    <3> QED BY <1>2, <1>6, <2>0, <3>1, Constants DEF Later, Blank
  <2> QED BY <1>2, <2>1, <2>2
<1>8. Later(k, n)
  <2>1. n # 0 => Later(copy[c][n], n - 1)
    BY <1>2, <1>4
  <2> QED BY <1>2, <1>6, <2>1, Constants DEF Later, Blank
<1>9. ReaderRow(c)'
  <2>1. \A i, j \in 1 .. n + 1 : i < j => /\ Append(copy[c], k)[i] # Blank
                                         /\ Later(Append(copy[c], k)[j], Append(copy[c], k)[i])
    <3> SUFFICES ASSUME NEW i \in 1 .. n + 1, NEW j \in 1 .. n + 1, i < j
                 PROVE  /\ Append(copy[c], k)[i] # Blank
                        /\ Later(Append(copy[c], k)[j], Append(copy[c], k)[i])
      OBVIOUS
    <3>1. i \in 1 .. n /\ (j \in 1 .. n \/ j = n + 1)
      BY <1>2
    <3> QED BY <1>4, <1>5, <1>7, <3>1
  <2>2. \A i \in 1 .. n + 1 : Later(Append(copy[c], k)[i], i - 1)
    <3> SUFFICES ASSUME NEW i \in 1 .. n + 1 PROVE Later(Append(copy[c], k)[i], i - 1)
      OBVIOUS
    <3>1. i \in 1 .. n \/ i = n + 1
      BY <1>2
    <3>2. (n + 1) - 1 = n
      BY <1>2
    <3> QED BY <1>4, <1>5, <1>8, <3>1, <3>2
  <2>3. Ascending(c)'
    BY <1>3, <1>5, <2>1, <2>2 DEF Ascending
  <2>4. ~IsShort(k) => k \in 1 .. N - 1 /\ k <= tot[m.s]
    BY <1>k, <1>2 DEF IsShort, ChunkMsg
  <2>5. n + 1 <= N /\ n + 1 >= 1
    BY <1>2, <1>6, Constants
  <2> QED BY <1>1, <1>3, <1>5, <2>3, <2>4, <2>5 DEF ReaderRow
<1>10. ASSUME NEW d \in Readers, d # c PROVE ReaderRow(d)'
  <2>1. ReaderRow(d) /\ d \in Clients
    BY Constants DEF RowInv
  <2> QED BY <1>1, <1>3, <1>10, <2>1 DEF ReaderRow, Ascending
<1>11. \A z \in net' : z.type = "SDATA" => z \in net
  BY <1>1, Exchanged DEF CAck
<1>12. ASSUME NEW z \in net, z.type = "SDATA" PROVE ChunkMsg(z)'
  <2>1. ChunkMsg(z) /\ z.c \in Readers /\ z.s \in Sess
    BY <1>12 DEF RowInv, Base, Shape
  <2>2. CASE z.c # c
    BY <1>1, <1>3, <2>1, <2>2 DEF ChunkMsg
  <2>3. CASE z.c = c
    <3>1. ASSUME cst'[c] = "busy", z.s = m.s, z.n = n + 1 + 1
          PROVE  Later(z.chunk, k)
      <4>1. k \in 1 .. N - 1 /\ m.n < z.n
        BY <1>1, <1>2, <1>3, <3>1 DEF IsShort
      <4> QED BY <1>k, <1>1, <1>12, <3>1, <4>1 DEF RowInv
    <3> QED BY <1>1, <1>3, <1>5, <2>1, <2>3, <3>1 DEF ChunkMsg
  <2> QED BY <2>2, <2>3
<1>13. \A z \in net' : z.type = "SDATA" => ChunkMsg(z)'
  BY <1>11, <1>12
<1> QED BY <1>9, <1>10, <1>11, <1>13 DEF RowInv

(* A client changes no more than its state.                                *)
Quiet(c, new) ==
  /\ net' \subseteq net \union new /\ UNCHANGED <<peer, block, tot, tid, pos, copy>>
  /\ \/ cst' = cst \/ cst' = [cst EXCEPT ![c] = "gone"]
     \/ cst[c] = "idle" /\ cst' = [cst EXCEPT ![c] = "asked"]

(* The other steps of the clients send no block.                           *)
LEMMA ClientRow ==
  ASSUME Base, Base', RowInv, Client
  PROVE  RowInv'
<1>c. Types
  BY DEF Base
<1>1. ASSUME NEW c \in Clients, NEW new, Quiet(c, new), \A z \in new : z.type # "SDATA"
      PROVE  RowInv'
  <2>1. RowGrows(new)
    BY <1>c, <1>1, Constants DEF Quiet, RowGrows, Types
  <2> QED BY <1>1, <2>1, RowKept
<1>2. ASSUME NEW c \in Clients, ClientAsk(c) PROVE RowInv'
  <2> DEFINE x == Req(c)
  <2>1. Quiet(c, {x})
    BY <1>2 DEF ClientAsk, server, Quiet
  <2>2. \A z \in {x} : z.type # "SDATA"
    BY DEF Req
  <2> HIDE DEF x
  <2> QED BY <1>1, <2>1, <2>2
<1>3. ASSUME NEW c \in Clients, ClientAbort(c) PROVE RowInv'
  <2>i. PICK s : s = tid[c]
    OBVIOUS
  <2> DEFINE x == CErr(c, s, UserAbort)
  <2>1. Quiet(c, {x})
    BY <1>3, <2>i DEF ClientAbort, server, Quiet
  <2>2. \A z \in {x} : z.type # "SDATA"
    BY DEF CErr
  <2> HIDE DEF x
  <2> QED BY <1>1, <2>1, <2>2
<1>4. ASSUME NEW c \in Clients, NEW m \in net, ClientForeign(c, m) PROVE RowInv'
  <2> DEFINE x == CErr(c, m.s, UnknownTid)
  <2>1. Quiet(c, {x})
    BY <1>4, Exchanged DEF ClientForeign, server, client, Quiet
  <2>2. \A z \in {x} : z.type # "SDATA"
    BY DEF CErr
  <2> HIDE DEF x
  <2> QED BY <1>1, <2>1, <2>2
<1>5. ASSUME NEW c \in Clients, NEW m \in net, ClientRefused(c, m) PROVE RowInv'
  <2>1. Quiet(c, {})
    BY <1>5, Exchanged DEF ClientRefused, server, Quiet
  <2> QED BY <1>1, <2>1
<1>6. ASSUME NEW c \in Writers, NEW m \in net, WriterAck(c, m) PROVE RowInv'
  <2>n. PICK n : n = pos[c] + 1
    OBVIOUS
  <2> DEFINE x == Data(c, m.s, n)
  <2>1. /\ tid' = [tid EXCEPT ![c] = m.s] /\ net' \subseteq net \union {x}
        /\ cst' = [cst EXCEPT ![c] = IF pos[c] = N THEN "done" ELSE "busy"]
        /\ pos' = pos \/ pos' = [pos EXCEPT ![c] = n]
        /\ UNCHANGED <<peer, block, tot, copy>>
    BY <1>6, <2>n DEF WriterAck, Exchange, server
  <2>2. \A d \in Readers : cst'[d] = cst[d] /\ tid'[d] = tid[d] /\ pos'[d] = pos[d]
    BY <1>c, <2>1, Constants DEF Types
  <2>3. RowGrows({x})
    BY <1>c, <2>1, <2>2 DEF RowGrows, Types
  <2>4. x.type # "SDATA"
    BY DEF Data
  <2> HIDE DEF x
  <2> QED BY <2>3, <2>4, RowKept
<1>7. ASSUME NEW c \in Readers, NEW m \in net, ReaderData(c, m) PROVE RowInv'
  BY <1>7, TakeRow
<1> QED BY <1>2, <1>3, <1>4, <1>5, <1>6, <1>7 DEF Client

(* Every step keeps the order of the chunks.                               *)
LEMMA StepRow == Base /\ Base' /\ RowInv /\ [Next]_vars => RowInv'
<1> SUFFICES ASSUME Base, Base', RowInv, [Next]_vars PROVE RowInv'
  OBVIOUS
<1>1. ASSUME NEW m \in net, NoMemory(m) PROVE RowInv'
  <2> DEFINE x == SErr(m.c, None)
  <2>1. RowGrows({x})
    BY <1>1, Exchanged DEF NoMemory, client, RowGrows, Base, Types
  <2>2. x.type # "SDATA"
    BY DEF SErr
  <2> HIDE DEF x
  <2> QED BY <2>1, <2>2, RowKept
<1>2. CASE Server
  BY <1>1, <1>2, ServerRow DEF Server
<1>3. CASE Client
  BY <1>3, ClientRow
<1>4. CASE UNCHANGED vars
  <2>1. UNCHANGED <<peer, block, tot, cst, tid, pos, copy, net>>
    BY <1>4 DEF vars, server, client
  <2>2. RowGrows({})
    BY <2>1 DEF RowGrows, Base, Types
  <2> QED BY <2>2, RowKept
<1> QED BY <1>2, <1>3, <1>4 DEF Next

(* A reader without an answer has nothing.                                 *)
LEMMA NothingRead ==
  ASSUME RowInv, NEW c \in Readers, cst[c] = "asked"
  PROVE  copy[c] = UpTo(0)
<1>1. copy[c] \in Seq(0 .. N) /\ Len(copy[c]) = 0
  BY DEF RowInv, ReaderRow, Ascending
<1>2. copy[c] = <<>>
  BY <1>1, EmptySeq
<1>3. UpTo(0) = <<>>
  BY DEF UpTo
<1> QED BY <1>2, <1>3

(* Every variable has its type, whatever is repeated: the numbers of a     *)
(* download, too, end with the file, ...                                   *)
THEOREM TftpTypes == Spec => []TypeOK
<1>1. Base /\ RowInv => TypeOK
  <2> SUFFICES ASSUME Base, RowInv PROVE TypeOK
    OBVIOUS
  <2>1. pos \in [Clients -> 0 .. N]
    <3>1. \A c \in Clients : pos[c] \in 0 .. N
      BY Constants DEF Base, Types, Talks, RowInv, ReaderRow
    <3> QED BY <3>1 DEF Base, Types
  <2>2. \A m \in net : m.c \in Clients
    BY DEF Base, Shape
  <2> QED BY <2>1, <2>2 DEF Base, Types, TypeOK
<1>2. Base /\ Base' /\ RowInv /\ [Next]_vars => RowInv'
  BY StepRow
<1> QED BY InitBase, StepBase, InitRow, <1>1, <1>2, PTL DEF Spec

(* ... and no chunk reaches a downloading client twice or out of order     *)
(* (rrq_recv_callback, which reads on at every packet and never back), for *)
(* any number of readers and sessions and any repetition.                  *)
THEOREM DownloadOrdered == Spec => []DownloadInOrder
<1>1. Base /\ RowInv => DownloadInOrder
  <2> SUFFICES ASSUME Base, RowInv,
                      NEW c \in Readers, NEW j \in DOMAIN copy[c], NEW i \in DOMAIN copy[c], i < j
               PROVE  copy[c][i] # Blank /\ (copy[c][j] = Blank \/ copy[c][i] < copy[c][j])
    BY DEF DownloadInOrder
  <2>1. Ascending(c) /\ pos[c] \in Nat
    BY Constants DEF RowInv, ReaderRow, Base, Types
  <2>2. copy[c] \in Seq(0 .. N) /\ Len(copy[c]) = pos[c]
    BY <2>1 DEF Ascending
  <2>3. i \in 1 .. pos[c] /\ j \in 1 .. pos[c]
    BY <2>2, LenProperties
  <2>4. copy[c][i] \in 0 .. N /\ copy[c][j] \in 0 .. N
    BY <2>2, <2>3, ElementOfSeq
  <2>5. copy[c][i] # Blank /\ Later(copy[c][j], copy[c][i])
    BY <2>1, <2>3 DEF Ascending
  <2> QED BY <2>4, <2>5, Constants DEF Later
<1>2. Base /\ Base' /\ RowInv /\ [Next]_vars => RowInv'
  BY StepRow
<1> QED BY InitBase, StepBase, InitRow, <1>1, <1>2, PTL DEF Spec

-----------------------------------------------------------------------------
(* Downloads that are not misled.  What the read callback returns to a     *)
(* session that has sent block k, and the count after it.                  *)
LEMMA ReadNext ==
  ASSUME NEW k \in 0 .. N - 1
  PROVE  /\ ReadAt(k) = k + 1 /\ k + 1 \in 1 .. N
         /\ k > 0 => CountAt(k) = k /\ ~IsShort(k)
         /\ CountAt(k + 1) = IF HasData(k + 1) THEN k + 1 ELSE k
         /\ IsShort(k + 1) <=> k + 1 = N
BY Constants DEF ReadAt, CountAt, HasData, IsShort, Blank

(* A step that leaves a reader and its sessions alone keeps what is known  *)
(* of its datagrams.                                                       *)
SameReader(c) ==
  /\ cst'[c] = cst[c] /\ tid'[c] = tid[c] /\ pos'[c] = pos[c] /\ copy'[c] = copy[c]
  /\ \A s \in Sess : peer[s] = c \/ peer'[s] = c =>
       /\ peer'[s] = peer[s] /\ st'[s] = st[s] /\ block'[s] = block[s]
       /\ tot'[s] = tot[s] /\ short'[s] = short[s] /\ (s \in misled' <=> s \in misled)

(* A reader is where it was if its own sessions and counts are.            *)
LEMMA ReaderSame ==
  ASSUME Base, NEW c \in Readers, ReaderOK(c), SameReader(c)
  PROVE  ReaderOK(c)'
<1>1. \A s \in Sess, k \in Nat : peer[s] = c /\ SentUpTo(s, k) => SentUpTo(s, k)'
  BY DEF SameReader, SentUpTo
<1>2. \A s \in Sess : cst'[c] = "asked" /\ peer'[s] = c => SentUpTo(s, 1)'
  BY <1>1 DEF ReaderOK, SameReader
<1>3. ASSUME cst'[c] = "busy", tid'[c] \notin misled'
      PROVE  /\ pos'[c] \in 1 .. N - 1 /\ copy'[c] = [i \in 1 .. pos'[c] |-> i]
             /\ \E k \in {pos'[c], pos'[c] + 1} : SentUpTo(tid[c], k)'
  <2>1. tid[c] \in Sess /\ peer[tid[c]] = c /\ tid[c] \notin misled /\ cst[c] = "busy"
    BY <1>3, Constants DEF Base, Talks, SameReader
  <2>2. pos[c] \in Nat
    BY Constants DEF Base, Types
  <2> QED BY <1>1, <2>1, <2>2 DEF ReaderOK, SameReader
<1>4. cst'[c] = "done" /\ tid'[c] \notin misled' => copy'[c] = [i \in 1 .. N |-> i]
  <2>1. cst[c] = "done" => tid[c] \in Sess /\ peer[tid[c]] = c
    BY Constants DEF Base, Talks
  <2> QED BY <2>1 DEF ReaderOK, SameReader
<1> QED BY <1>2, <1>3, <1>4 DEF ReaderOK, SameReader

(* So is a datagram to or from it.                                         *)
LEMMA MsgSame ==
  ASSUME Base, NEW m \in net, m.c \in Readers, ReadMsg(m), SameReader(m.c)
  PROVE  ReadMsg(m)'
<1>1. Shape(m)
  BY DEF Base
<1>2. m.type \in {"SDATA", "CACK"} =>
        m.s \in Sess /\ block'[m.s] = block[m.s] /\ (m.s \in misled' <=> m.s \in misled)
  BY <1>1 DEF Shape, SameReader
<1> QED BY <1>2 DEF ReadMsg, SameReader

(* All readers but d are left alone.                                       *)
Only(d, new) ==
  /\ net' \subseteq net \union new
  /\ \A c \in Readers : c # d => SameReader(c)

(* A step of one client does not disturb the downloads of the others.      *)
LEMMA OthersSame ==
  ASSUME Base, ReadInv, NEW d, NEW new, Only(d, new),
         d \in Readers => ReaderOK(d)',
         \A m \in net : m.c = d /\ d \in Readers /\ m \in net' => ReadMsg(m)',
         \A m \in new : m.c \in Readers => ReadMsg(m)'
  PROVE  ReadInv'
<1>1. \A c \in Readers : ReaderOK(c)'
  <2>1. ASSUME NEW c \in Readers, c # d PROVE ReaderOK(c)'
    BY <2>1, ReaderSame DEF Only, ReadInv
  <2> QED BY <2>1
<1>2. ASSUME NEW m \in net', m.c \in Readers PROVE ReadMsg(m)'
  <2>1. CASE m \in new
    BY <1>2, <2>1
  <2>2. CASE m \in net /\ m.c = d
    BY <1>2, <2>2
  <2>3. CASE m \in net /\ m.c # d
    BY <1>2, <2>3, MsgSame DEF Only, ReadInv
  <2> QED BY <1>2, <2>1, <2>2, <2>3 DEF Only
<1> QED BY <1>1, <1>2 DEF ReadInv, ReaderOK

(* At the start there is no download.                                      *)
LEMMA InitRead == Init => ReadInv
<1> SUFFICES ASSUME Init PROVE ReadInv
  OBVIOUS
<1>1. \A c \in Readers : cst[c] = "idle"
  BY Constants DEF Init
<1>2. net = {}
  BY DEF Init
<1> QED BY <1>1, <1>2 DEF ReadInv, ReaderOK

(* The steps of uploads and those that send no block.                      *)
LEMMA UploadsRead ==
  ASSUME Base, ReadInv, NEW s \in Sess, NEW m \in net, ProcessWrite(s, m) \/ WrqPacket(s, m)
  PROVE  ReadInv'
<1>c. Shape(m) /\ Types /\ Peers
  BY DEF Base
<1>1. CASE ProcessWrite(s, m)
  <2> DEFINE x == [type |-> "SACK", c |-> m.c, s |-> s, n |-> 0]
  <2>1. /\ m.type = "WRQ" /\ st[s] = "unused" /\ st' = [st EXCEPT ![s] = "wr"]
        /\ peer' = [peer EXCEPT ![s] = m.c] /\ block' = [block EXCEPT ![s] = 0]
        /\ Exchange(m, {x}) /\ UNCHANGED <<tot, short, misled, cst, tid, pos, copy>>
    BY <1>1 DEF ProcessWrite, Allocatable, client, FirstWrBlock
  <2>2. m.c \notin Readers /\ peer[s] \notin Readers
    BY <1>c, <2>1, Constants DEF Shape, Peers
  <2>3. Only(m.c, {x})
    BY <1>c, <2>1, <2>2, Exchanged DEF Only, SameReader, Types
  <2> QED BY <2>2, <2>3, OthersSame
<1>2. CASE WrqPacket(s, m)
  <2>b. PICK b : b = BlockAfter(s, m)
    OBVIOUS
  <2> DEFINE x == [type |-> "SACK", c |-> m.c, s |-> s, n |-> b]
             y == [type |-> "SERR", c |-> m.c, s |-> s]
  <2>1. PICK v, w, u :
          /\ m.s = s /\ st[s] = "wr" /\ m.type \in {"DATA", "CERR"}
          /\ block' = [block EXCEPT ![s] = v] /\ tot' = [tot EXCEPT ![s] = w]
          /\ st' = [st EXCEPT ![s] = u]
          /\ net' \subseteq net \union {SAck(s, BlockAfter(s, m)), SErr(peer[s], s)}
          /\ UNCHANGED <<peer, short, misled, cst, tid, pos, copy>>
    BY <1>c, <1>2, PacketEffect
  <2>2. peer[s] = m.c /\ m.c \notin Readers
    BY <1>c, <2>1, Constants DEF Shape, Peers
  <2>3. Only(m.c, {x, y})
    BY <1>c, <2>b, <2>1, <2>2 DEF Only, SameReader, Types, SAck, SErr
  <2> QED BY <2>2, <2>3, OthersSame
<1> QED BY <1>1, <1>2

(* A request refused for lack of a session changes no download.            *)
LEMMA NoMemoryRead ==
  ASSUME Base, ReadInv, NEW m \in net, NoMemory(m)
  PROVE  ReadInv'
<1> DEFINE x == SErr(m.c, None)
<1>1. /\ Exchange(m, {x})
      /\ UNCHANGED <<st, peer, block, tot, short, misled, cst, tid, pos, copy>>
  BY DEF NoMemory, client
<1>2. Only(None, {x}) /\ None \notin Readers
  BY <1>1, Exchanged, Constants DEF Only, SameReader
<1>3. ReadMsg(x)'
  BY DEF ReadMsg, SErr
<1>4. \A z \in {x} : ReadMsg(z)'
  BY <1>3
<1>5. \A z \in net : z.c = None => z.c \notin Readers
  BY <1>2
<1> HIDE DEF x
<1> QED BY <1>2, <1>4, <1>5, OthersSame

(* A request opens a session, which sends block 1.                         *)
LEMMA OpenRead ==
  ASSUME Base, Base', ReadInv, NEW s \in Sess, NEW m \in net, ProcessRead(s, m)
  PROVE  ReadInv'
<1> DEFINE x == [type |-> "SDATA", c |-> m.c, s |-> s, n |-> 1, chunk |-> ReadAt(0)]
           c == m.c
<1>1. /\ m.type = "RRQ" /\ st[s] = "unused" /\ st' = [st EXCEPT ![s] = "rd"]
      /\ peer' = [peer EXCEPT ![s] = c] /\ block' = [block EXCEPT ![s] = 1]
      /\ tot' = [tot EXCEPT ![s] = IF HasData(ReadAt(0)) THEN 1 ELSE 0]
      /\ short' = [short EXCEPT ![s] = IsShort(ReadAt(0))] /\ Exchange(m, {x})
      /\ UNCHANGED <<misled, cst, tid, pos, copy>>
  BY DEF ProcessRead, Allocatable, client, OffsetAfter
<1>2. /\ Shape(m) /\ Types /\ Peers /\ Talks /\ c \in Readers /\ c \in Clients
      /\ peer[s] = None /\ cst[c] # "idle"
  BY <1>1, Constants DEF Base, Shape, Peers
<1>3. /\ ReadAt(0) = 1 /\ CountAt(1) = (IF HasData(1) THEN 1 ELSE 0)
  BY ReadNext, Constants
<1>4. SentUpTo(s, 1)'
  BY <1>1, <1>2, <1>3 DEF SentUpTo, Types
<1>5. \A t \in Sess, k \in Nat : t # s /\ SentUpTo(t, k) => SentUpTo(t, k)'
  BY <1>1, <1>2 DEF SentUpTo, Types
<1>6. \A t \in Sess : t # s => peer'[t] = peer[t] /\ st'[t] = st[t] /\ block'[t] = block[t]
                            /\ tot'[t] = tot[t] /\ short'[t] = short[t]
  BY <1>1, <1>2 DEF Types
<1>7. peer'[s] = c
  BY <1>1, <1>2 DEF Types
<1> HIDE DEF c
<1>8. Only(c, {x})
  BY <1>1, <1>2, <1>6, <1>7, Exchanged, Constants DEF Only, SameReader
<1>9. ReaderOK(c)'
  <2>1. ReaderOK(c)
    BY <1>2 DEF ReadInv
  <2>2. \A t \in Sess : cst'[c] = "asked" /\ peer'[t] = c => SentUpTo(t, 1)'
    <3>1. ASSUME NEW t \in Sess, t # s, cst'[c] = "asked", peer'[t] = c PROVE SentUpTo(t, 1)'
      BY <1>1, <1>5, <1>6, <2>1, <3>1 DEF ReaderOK
    <3> QED BY <1>4, <3>1
  <2>3. ASSUME cst[c] = "busy", tid[c] \notin misled
        PROVE  /\ pos'[c] \in 1 .. N - 1 /\ copy'[c] = [i \in 1 .. pos'[c] |-> i]
               /\ \E k \in {pos'[c], pos'[c] + 1} : SentUpTo(tid[c], k)'
    <3>1. SUFFICES \E k \in {pos[c], pos[c] + 1} : SentUpTo(tid[c], k)'
      BY <1>1, <2>1, <2>3 DEF ReaderOK
    <3>2. tid[c] \in Sess /\ peer[tid[c]] = c /\ tid[c] # s /\ pos[c] \in Nat
      BY <1>2, <2>3, Constants DEF Talks, Types
    <3>3. PICK t : t = tid[c] /\ t = tid'[c]
      BY <1>1
    <3>4. PICK k \in {pos[c], pos[c] + 1} : SentUpTo(t, k)
      BY <2>1, <2>3, <3>3 DEF ReaderOK
    <3>5. SentUpTo(t, k)'
      BY <1>5, <3>2, <3>3, <3>4
    <3> QED BY <3>3, <3>4, <3>5 DEF SentUpTo
  <2> QED BY <1>1, <2>1, <2>2, <2>3 DEF ReaderOK
<1>10. ASSUME NEW z \in net, z.c = c PROVE ReadMsg(z)'
  <2>1. ReadMsg(z) /\ Shape(z)
    BY <1>2, <1>10 DEF ReadInv, Base
  <2>2. z.type \in {"SDATA", "CACK"} => block'[z.s] = block[z.s]
    BY <1>2, <1>6, <2>1, Constants DEF Shape
  <2> QED BY <1>1, <2>1, <2>2 DEF ReadMsg
<1>11. ReadMsg(x)'
  <2>1. cst[c] = "busy" => tid[c] # s
    BY <1>2, Constants DEF Talks
  <2> QED BY <1>1, <1>3, <2>1 DEF ReadMsg, c
<1>12. \A z \in {x} : ReadMsg(z)'
  BY <1>11
<1> HIDE DEF x
<1> QED BY <1>8, <1>9, <1>10, <1>12, OthersSame

(* An acknowledgement: if it is of the block sent last, the answer is the  *)
(* next chunk under the next number; any other misleads the session.       *)
LEMMA AckRead ==
  ASSUME Base, Base', ReadInv, NEW s \in Sess, NEW m \in net, RrqAck(s, m)
  PROVE  ReadInv'
<1>b. PICK b : b = IF CorrectAck(s, m) THEN block[s] + 1 ELSE block[s]
  OBVIOUS
<1>k. PICK k : k = ReadAt(tot[s])
  OBVIOUS
<1> DEFINE x == [type |-> "SDATA", c |-> m.c, s |-> s, n |-> b, chunk |-> k]
           c == m.c
           y == SData(s, b, k)
<1>1. /\ m.type \in {"CACK", "CERR"} /\ m.s = s /\ st[s] = "rd"
      /\ block' = [block EXCEPT ![s] = b]
      /\ tot' = [tot EXCEPT ![s] = IF HasData(k) THEN tot[s] + 1 ELSE tot[s]]
      /\ short' = [short EXCEPT ![s] = IsShort(k)]
      /\ st' = IF short[s] THEN [st EXCEPT ![s] = "closed"] ELSE st
      /\ misled' = IF CorrectAck(s, m) THEN misled ELSE misled \union {s}
      /\ UNCHANGED <<peer, cst, tid, pos, copy>>
  BY <1>b, <1>k DEF RrqAck, client, OffsetAfter
<1>2. /\ Shape(m) /\ Types /\ Talks /\ ReadMsg(m) /\ ReaderOK(c) /\ peer[s] = c
      /\ c \in Readers /\ c \in Clients /\ pos[c] \in Nat /\ cst[c] # "asked"
  BY <1>1, Constants DEF Base, Shape, Peers, ReadMsg, Types, ReadInv
<1>3. net' \subseteq net \union {x}
  <2>1. y = x
    BY <1>2 DEF SData
  <2>2. Exchange(m, {}) \/ Exchange(m, {y})
    BY <1>b, <1>k DEF RrqAck
  <2> HIDE DEF x, y
  <2> QED BY <2>1, <2>2, Exchanged
<1>4. \A t \in Sess : t # s => st'[t] = st[t] /\ block'[t] = block[t]
                            /\ tot'[t] = tot[t] /\ short'[t] = short[t]
                            /\ (t \in misled' <=> t \in misled)
  BY <1>1, <1>2 DEF Types
<1> HIDE DEF c
<1>5. ASSUME cst[c] = "busy", tid[c] = s, s \notin misled'
      PROVE  /\ m.type = "CACK" /\ m.n = pos[c] /\ block[s] = pos[c] /\ b = pos[c] + 1
             /\ k = pos[c] + 1 /\ SentUpTo(s, pos[c] + 1)'
  <2>0. CorrectAck(s, m) /\ s \notin misled
    BY <1>1, <1>5
  <2>1. m.type = "CACK" /\ m.n = pos[c] /\ block[s] = pos[c]
    <3>1. m.type = "CACK" /\ m.n = block[s] /\ m.n <= pos[c]
      BY <1>2, <2>0 DEF CorrectAck, ReadMsg, c
    <3>2. block[s] \in {pos[c], pos[c] + 1}
      BY <1>2, <1>5, <2>0 DEF ReaderOK, SentUpTo
    <3> QED BY <1>2, <3>1, <3>2
  <2>2. b = pos[c] + 1
    BY <1>b, <2>1 DEF CorrectAck
  <2>3. pos[c] \in 1 .. N - 1 /\ SentUpTo(s, pos[c])
    <3>1. PICK j \in {pos[c], pos[c] + 1} : SentUpTo(s, j)
      BY <1>2, <1>5, <2>0 DEF ReaderOK
    <3> QED BY <1>2, <1>5, <2>0, <2>1, <3>1 DEF ReaderOK, SentUpTo
  <2>4. /\ tot[s] = pos[c] /\ short[s] = FALSE /\ k = pos[c] + 1
        /\ CountAt(pos[c] + 1) = IF HasData(pos[c] + 1) THEN pos[c] + 1 ELSE pos[c]
    <3>1. pos[c] \in 0 .. N - 1 /\ pos[c] > 0
      BY <2>3, Constants
    <3>2. CountAt(pos[c]) = pos[c] /\ ~IsShort(pos[c]) /\ ReadAt(pos[c]) = pos[c] + 1
      BY <3>1, ReadNext
    <3> QED BY <1>k, <2>3, <3>1, <3>2, ReadNext DEF SentUpTo
  <2>5. /\ st'[s] = "rd" /\ block'[s] = pos[c] + 1 /\ tot'[s] = CountAt(pos[c] + 1)
        /\ short'[s] = IsShort(pos[c] + 1)
    BY <1>1, <1>2, <2>2, <2>4 DEF Types
  <2>6. pos'[c] = pos[c]
    BY <1>1
  <2> QED BY <2>1, <2>2, <2>4, <2>5, <2>6 DEF SentUpTo
<1>6. Only(c, {x})
  BY <1>1, <1>2, <1>3, <1>4 DEF Only, SameReader
<1>7. ReaderOK(c)'
  <2>1. ASSUME cst[c] = "busy", tid[c] \notin misled'
        PROVE  \E j \in {pos[c], pos[c] + 1} : SentUpTo(tid[c], j)'
    <3>1. CASE tid[c] = s
      BY <1>1, <1>5, <2>1, <3>1 DEF SentUpTo
    <3>2. CASE tid[c] # s
      <4>1. tid[c] \in Sess /\ tid'[c] = tid[c] /\ tid[c] \notin misled
        BY <1>1, <1>2, <2>1 DEF Talks
      <4>2. PICK j \in {pos[c], pos[c] + 1} : SentUpTo(tid[c], j)
        BY <1>2, <2>1, <4>1 DEF ReaderOK
      <4> QED BY <1>4, <3>2, <4>1, <4>2 DEF SentUpTo
    <3> QED BY <3>1, <3>2
  <2>2. misled \subseteq misled'
    BY <1>1
  <2> QED BY <1>1, <1>2, <2>1, <2>2 DEF ReaderOK
<1>8. ASSUME NEW z \in net, z.c = c, z \in net' PROVE ReadMsg(z)'
  <2>1. ReadMsg(z) /\ Shape(z)
    BY <1>2, <1>8 DEF ReadInv, Base
  <2>2. z.type = "SDATA" /\ cst[c] = "busy" /\ z.s = tid[c] /\ z.s \notin misled' =>
          z.chunk = z.n /\ z.n <= block'[z.s]
    <3> SUFFICES ASSUME z.type = "SDATA", cst[c] = "busy", z.s = tid[c], z.s \notin misled'
                 PROVE  z.chunk = z.n /\ z.n <= block'[z.s]
      OBVIOUS
    <3>1. z.s \notin misled /\ z.chunk = z.n /\ z.n <= block[z.s]
      BY <1>1, <1>8, <2>1 DEF ReadMsg
    <3>2. block'[z.s] = block[z.s] \/ (z.s = s /\ block'[s] = block[s] + 1)
      BY <1>1, <1>2, <1>4, <1>5, <2>1 DEF Shape, Types
    <3> QED BY <1>2, <2>1, <3>1, <3>2 DEF Shape, Types
  <2> QED BY <1>1, <1>8, <2>1, <2>2 DEF ReadMsg
<1>9. ReadMsg(x)'
  <2>1. cst[c] = "busy" /\ tid[c] = s /\ s \notin misled' => k = b /\ b <= block'[s]
    BY <1>1, <1>2, <1>5 DEF Types
  <2> QED BY <1>1, <1>2, <2>1 DEF ReadMsg, c
<1>10. \A z \in {x} : ReadMsg(z)'
  BY <1>9
<1> HIDE DEF x
<1> QED BY <1>6, <1>7, <1>8, <1>10, OthersSame

(* The awaited block: it is the next chunk.                                *)
LEMMA DataRead ==
  ASSUME Base, Base', RowInv, ReadInv, NEW c \in Readers, NEW m \in net, ReaderData(c, m)
  PROVE  ReadInv'
<1> DEFINE x == CAck(c, m.s, m.n)
<1>n. PICK n : n = pos[c]
  OBVIOUS
<1>1. /\ m.type = "SDATA" /\ m.c = c /\ m.n = n + 1 /\ Exchange(m, {x})
      /\ cst[c] = "asked" \/ (cst[c] = "busy" /\ m.s = tid[c])
      /\ tid' = [tid EXCEPT ![c] = m.s] /\ pos' = [pos EXCEPT ![c] = n + 1]
      /\ copy' = [copy EXCEPT ![c] = Append(copy[c], m.chunk)]
      /\ cst' = [cst EXCEPT ![c] = IF IsShort(m.chunk) THEN "done" ELSE "busy"]
      /\ UNCHANGED <<st, peer, block, tot, short, misled>>
  BY <1>n, Constants DEF ReaderData, Adopts, server, Base, Types
<1>2. /\ Shape(m) /\ Types /\ Talks /\ ReadMsg(m) /\ ReaderOK(c) /\ c \in Clients
      /\ m.s \in Sess /\ peer[m.s] = c /\ n \in Nat
  BY <1>n, <1>1, Constants DEF Base, Shape, Types, ReadInv
<1>3. /\ cst'[c] = IF IsShort(m.chunk) THEN "done" ELSE "busy"
      /\ tid'[c] = m.s /\ pos'[c] = n + 1 /\ copy'[c] = Append(copy[c], m.chunk)
  BY <1>1, <1>2, Constants DEF Types
<1>4. ASSUME m.s \notin misled
      PROVE  /\ n < N /\ m.chunk = n + 1 /\ SentUpTo(m.s, n + 1)
             /\ IsShort(m.chunk) <=> n + 1 = N
             /\ copy'[c] = [i \in 1 .. n + 1 |-> i]
  <2>1. n < N /\ m.chunk = n + 1 /\ SentUpTo(m.s, n + 1) /\ copy[c] = UpTo(n)
    <3>1. CASE cst[c] = "asked"
      <4>1. n = 0 /\ m.chunk = 1 /\ SentUpTo(m.s, 1)
        BY <1>n, <1>1, <1>2, <3>1 DEF Talks, ReadMsg, ReaderOK
      <4>2. copy[c] = UpTo(0)
        BY <1>n, <1>2, <3>1, <4>1, NothingRead DEF RowInv
      <4> QED BY <4>1, <4>2, Constants
    <3>2. CASE cst[c] = "busy" /\ m.s = tid[c]
      <4>1. m.chunk = n + 1 /\ n + 1 <= block[m.s] /\ n \in 1 .. N - 1 /\ copy[c] = UpTo(n)
        BY <1>n, <1>1, <1>2, <1>4, <3>2 DEF ReadMsg, ReaderOK, UpTo
      <4>2. PICK j \in {n, n + 1} : SentUpTo(m.s, j)
        BY <1>n, <1>2, <1>4, <3>2 DEF ReaderOK
      <4>3. j = n + 1
        BY <4>1, <4>2 DEF SentUpTo
      <4> QED BY <4>1, <4>2, <4>3, Constants
    <3> QED BY <1>1, <3>1, <3>2
  <2>2. IsShort(m.chunk) <=> n + 1 = N
    BY <1>2, <2>1, Constants DEF IsShort
  <2>3. Append(UpTo(n), n + 1) = UpTo(n + 1)
    BY <1>2, UpToIs
  <2> QED BY <1>3, <2>1, <2>2, <2>3 DEF UpTo
<1>7. ReaderOK(c)'
  <2>1. ASSUME m.s \notin misled
        PROVE  /\ cst'[c] = "busy" => pos'[c] \in 1 .. N - 1 /\ SentUpTo(tid[c], n + 1)'
               /\ cst'[c] = "done" => n + 1 = N
    <3>1. SentUpTo(m.s, n + 1)'
      BY <1>1, <1>4, <2>1 DEF SentUpTo
    <3>2. SentUpTo(tid[c], n + 1)'
      BY <1>3, <3>1 DEF SentUpTo
    <3> QED BY <1>2, <1>3, <1>4, <2>1, <3>2, Constants
  <2>2. cst'[c] # "asked"
    BY <1>3
  <2>3. m.s \notin misled => copy'[c] = [i \in 1 .. n + 1 |-> i]
    BY <1>4
  <2>4. ASSUME cst'[c] = "busy", tid'[c] \notin misled'
        PROVE  /\ pos'[c] \in 1 .. N - 1 /\ copy'[c] = [i \in 1 .. pos'[c] |-> i]
               /\ \E k \in {pos'[c], pos'[c] + 1} : SentUpTo(tid[c], k)'
    <3>1. m.s \notin misled
      BY <1>1, <1>3, <2>4
    <3> QED BY <1>3, <2>1, <2>3, <2>4, <3>1
  <2>5. ASSUME cst'[c] = "done", tid'[c] \notin misled'
        PROVE  copy'[c] = [i \in 1 .. N |-> i]
    <3>1. m.s \notin misled
      BY <1>1, <1>3, <2>5
    <3> QED BY <2>1, <2>3, <2>5, <3>1
  <2> QED BY <2>2, <2>4, <2>5 DEF ReaderOK
<1>8. Only(c, {x})
  BY <1>1, <1>2, Exchanged, Constants DEF Only, SameReader, Types
<1>9. ASSUME NEW z \in net, z.c = c PROVE ReadMsg(z)'
  <2>1. ReadMsg(z) /\ Shape(z)
    BY <1>9 DEF ReadInv, Base
  <2>2. m.s \notin misled => block'[m.s] = n + 1
    BY <1>1, <1>4 DEF SentUpTo
  <2>3. CASE cst[c] = "asked"
    BY <1>1, <1>2, <1>3, <1>9, <2>1, <2>2, <2>3 DEF ReadMsg
  <2>4. CASE cst[c] = "busy" /\ m.s = tid[c]
    <3>1. z.type = "SDATA" /\ z.s = tid'[c] /\ z.s \notin misled' =>
            z.chunk = z.n /\ z.n <= block'[z.s]
      BY <1>1, <1>3, <1>9, <2>1, <2>4 DEF ReadMsg
    <3>2. z.type = "CACK" => z.s = tid'[c] /\ z.n <= n + 1
      BY <1>n, <1>2, <1>3, <1>9, <2>1, <2>4 DEF ReadMsg, Shape
    <3>3. cst'[c] # "asked"
      BY <1>3
    <3> QED BY <1>3, <1>9, <3>1, <3>2, <3>3 DEF ReadMsg
  <2> QED BY <1>1, <2>3, <2>4
<1>10. ReadMsg(x)'
  BY <1>1, <1>2, <1>3 DEF ReadMsg, CAck
<1>11. \A z \in {x} : ReadMsg(z)'
  BY <1>10
<1> HIDE DEF x
<1> QED BY <1>7, <1>8, <1>9, <1>11, OthersSame

(* A client gives up, and may say so.                                      *)
Leaves(c, new) ==
  /\ cst[c] \in {"asked", "busy"} /\ cst' = [cst EXCEPT ![c] = "gone"]
  /\ net' \subseteq net \union new
  /\ UNCHANGED <<st, peer, block, tot, short, misled, tid, pos, copy>>

(* The steps of the clients: a reader counts a block once.                 *)
LEMMA ClientsRead ==
  ASSUME Base, Base', RowInv, ReadInv, Client
  PROVE  ReadInv'
<1>c. Types /\ Peers /\ Talks
  BY DEF Base
<1>1. ASSUME NEW c \in Clients, ClientAsk(c) PROVE ReadInv'
  <2> DEFINE x == Req(c)
  <2>1. /\ cst[c] = "idle" /\ cst' = [cst EXCEPT ![c] = "asked"] /\ net' = net \union {x}
        /\ UNCHANGED <<st, peer, block, tot, short, misled, tid, pos, copy>>
    BY <1>1 DEF ClientAsk, server
  <2>2. Only(c, {x})
    BY <1>c, <2>1, Constants DEF Only, SameReader, Types
  <2>3. ASSUME c \in Readers PROVE ReaderOK(c)'
    <3>1. ReaderOK(c) /\ cst'[c] = "asked" /\ pos'[c] = pos[c]
      BY <1>c, <2>1, <2>3, Constants DEF Types, ReadInv
    <3>2. \A s \in Sess : peer'[s] # c
      BY <1>c, <2>1 DEF Peers
    <3> QED BY <2>1, <3>1, <3>2 DEF ReaderOK
  <2>4. \A z \in net : z.c # c
    BY <2>1 DEF Base, Shape
  <2>5. ReadMsg(x)'
    BY DEF ReadMsg, Req
  <2>6. \A z \in {x} : ReadMsg(z)'
    BY <2>5
  <2> HIDE DEF x
  <2> QED BY <2>2, <2>3, <2>4, <2>6, OthersSame
<1>2. ASSUME NEW c \in Clients, NEW new, Leaves(c, new),
             \A z \in new : z.type = "CERR" /\ z.c = c
      PROVE  ReadInv'
  <2>1. Only(c, new)
    BY <1>c, <1>2, Constants DEF Only, SameReader, Types, Leaves
  <2>2. cst'[c] = "gone"
    BY <1>c, <1>2 DEF Types, Leaves
  <2>3. ASSUME c \in Readers PROVE ReaderOK(c)'
    <3>1. ReaderOK(c)
      BY <2>3 DEF ReadInv
    <3> QED BY <1>2, <2>2, <3>1 DEF ReaderOK, Leaves
  <2>4. ASSUME NEW z \in net, z.c = c, c \in Readers PROVE ReadMsg(z)'
    <3>1. ReadMsg(z)
      BY <2>4 DEF ReadInv
    <3> QED BY <1>2, <2>2, <2>4, <3>1 DEF ReadMsg, Leaves
  <2>5. \A z \in new : ReadMsg(z)'
    BY <1>2, <2>2 DEF ReadMsg
  <2> QED BY <2>1, <2>3, <2>4, <2>5, OthersSame
<1>3. ASSUME NEW c \in Clients, ClientAbort(c) PROVE ReadInv'
  <2>i. PICK s : s = tid[c]
    OBVIOUS
  <2> DEFINE x == CErr(c, s, UserAbort)
  <2>1. Leaves(c, {x})
    BY <1>3, <2>i DEF ClientAbort, server, Leaves
  <2>2. \A z \in {x} : z.type = "CERR" /\ z.c = c
    BY DEF CErr
  <2> HIDE DEF x
  <2> QED BY <1>2, <2>1, <2>2
<1>4. ASSUME NEW c \in Clients, NEW m \in net, ClientRefused(c, m) PROVE ReadInv'
  <2>1. Leaves(c, {})
    BY <1>4, Exchanged DEF ClientRefused, server, Leaves
  <2> QED BY <1>2, <2>1
<1>5. ASSUME NEW c \in Clients, NEW m \in net, ClientForeign(c, m) PROVE ReadInv'
  <2> DEFINE x == CErr(c, m.s, UnknownTid)
  <2>1. /\ Exchange(m, {x}) /\ cst[c] \in {"busy", "done"} /\ m.s # tid[c]
        /\ UNCHANGED <<st, peer, block, tot, short, misled, cst, tid, pos, copy>>
    BY <1>5 DEF ClientForeign, server, client
  <2>2. Only(None, {x}) /\ None \notin Readers
    BY <2>1, Exchanged, Constants DEF Only, SameReader
  <2>3. ReadMsg(x)'
    BY <2>1 DEF ReadMsg, CErr
  <2>4. \A z \in {x} : ReadMsg(z)'
    BY <2>3
  <2> HIDE DEF x
  <2> QED BY <2>2, <2>4, OthersSame
<1>6. ASSUME NEW c \in Writers, NEW m \in net, WriterAck(c, m) PROVE ReadInv'
  <2>n. PICK n : n = pos[c] + 1
    OBVIOUS
  <2> DEFINE x == Data(c, m.s, n)
  <2>1. /\ tid' = [tid EXCEPT ![c] = m.s] /\ net' \subseteq net \union {x}
        /\ cst' = [cst EXCEPT ![c] = IF pos[c] = N THEN "done" ELSE "busy"]
        /\ pos' = pos \/ pos' = [pos EXCEPT ![c] = n]
        /\ UNCHANGED <<st, peer, block, tot, short, misled, copy>>
    BY <1>6, <2>n DEF WriterAck, Exchange, server
  <2>2. \A d \in Readers : cst'[d] = cst[d] /\ tid'[d] = tid[d] /\ pos'[d] = pos[d]
    BY <1>c, <2>1, Constants DEF Types
  <2>3. Only(c, {x}) /\ c \notin Readers
    BY <2>1, <2>2, Constants DEF Only, SameReader
  <2>4. ReadMsg(x)'
    BY DEF ReadMsg, Data
  <2>5. \A z \in {x} : ReadMsg(z)'
    BY <2>4
  <2> HIDE DEF x
  <2> QED BY <2>3, <2>5, OthersSame
<1>7. ASSUME NEW c \in Readers, NEW m \in net, ReaderData(c, m) PROVE ReadInv'
  BY <1>7, DataRead
<1> QED BY <1>1, <1>3, <1>4, <1>5, <1>6, <1>7 DEF Client

(* Every step keeps what is known of downloads.                            *)
LEMMA StepRead == Base /\ Base' /\ RowInv /\ ReadInv /\ [Next]_vars => ReadInv'
<1> SUFFICES ASSUME Base, Base', RowInv, ReadInv, [Next]_vars PROVE ReadInv'
  OBVIOUS
<1>1. CASE Server
  BY <1>1, NoMemoryRead, OpenRead, AckRead, UploadsRead DEF Server
<1>2. CASE Client
  BY <1>2, ClientsRead
<1>3. CASE UNCHANGED vars
  <2>1. UNCHANGED <<st, peer, block, tot, short, misled, cst, tid, pos, copy, net>>
    BY <1>3 DEF vars, server, client
  <2>2. Only(None, {}) /\ None \notin Readers
    BY <2>1, Constants DEF Only, SameReader
  <2> QED BY <2>2, OthersSame
<1> QED BY <1>1, <1>2, <1>3 DEF Next

(* A download that is complete is the file, its blocks in order, each once, *)
(* unless its session has been sent a packet that was not the              *)
(* acknowledgement of its current block (rrq_recv_callback answers it with *)
(* the next chunk under the old number, see tftp_resend): for any number   *)
(* of readers, any repetition of requests, blocks and acknowledgements,    *)
(* and sessions that nobody wanted.                                        *)
THEOREM DownloadCorrect == Spec => []DownloadIsFile
<1>1. ReadInv => DownloadIsFile
  BY DEF ReadInv, ReaderOK, DownloadIsFile
<1>2. Base /\ Base' /\ RowInv /\ [Next]_vars => RowInv'
  BY StepRow
<1>3. Base /\ Base' /\ RowInv /\ ReadInv /\ [Next]_vars => ReadInv'
  BY StepRead
<1> QED BY InitBase, StepBase, InitRow, InitRead, <1>1, <1>2, <1>3, PTL DEF Spec

-----------------------------------------------------------------------------
(* The upload as the firmware sees it.  The flash holds no chunk behind    *)
(* what the write session has counted, no packet is ahead of the session,  *)
(* and the end is announced by a session that is closed.                   *)
Clean(n) == \A i \in 1 .. Positions : i > n => flash[i] \notin 1 .. N
OrderMsg(m) ==
  /\ m.type = "DATA" /\ m.s \notin failed => m.n <= block[m.s] + 1
  /\ m.type = "CERR" => m.c \notin Writers
OrderInv ==
  /\ (\A s \in Sess : peer[s] \notin Writers) => Clean(0)
  /\ \A s \in Sess : peer[s] \in Writers /\ s \notin failed => Clean(tot[s])
  /\ \A s \in ended : peer[s] \in Writers /\ st[s] = "closed"
  /\ \A m \in net : OrderMsg(m)

(* The sessions of writers and the flash are as they were.                 *)
SameWrites ==
  /\ flash' = flash /\ ended' = ended /\ failed' = failed
  /\ \A s \in Sess : peer[s] \in Writers \/ peer'[s] \in Writers =>
       /\ peer'[s] = peer[s] /\ st'[s] = st[s]
       /\ block'[s] = block[s] /\ tot'[s] = tot[s]

Sends(new) == SameWrites /\ net' \subseteq net \union new

(* Such a step keeps the order.                                            *)
LEMMA OrderKept ==
  ASSUME Base, OrderInv, NEW new, Sends(new),
         \A m \in new : OrderMsg(m)'
  PROVE  OrderInv'
<1>s. SameWrites /\ net' \subseteq net \union new
  BY DEF Sends
<1>1. (\A s \in Sess : peer'[s] \notin Writers) => Clean(0)'
  BY <1>s DEF OrderInv, SameWrites, Clean
<1>2. ASSUME NEW s \in Sess, peer'[s] \in Writers, s \notin failed' PROVE Clean(tot[s])'
  BY <1>s, <1>2 DEF OrderInv, SameWrites, Clean
<1>3. \A s \in ended' : peer'[s] \in Writers /\ st'[s] = "closed"
  BY <1>s DEF Base, Types, OrderInv, SameWrites
<1>4. ASSUME NEW m \in net PROVE OrderMsg(m)'
  <2>1. OrderMsg(m) /\ Shape(m)
    BY DEF Base, OrderInv
  <2>2. m.type = "DATA" => m.s \in Sess /\ peer[m.s] \in Writers
    BY <2>1 DEF Shape
  <2> QED BY <1>s, <2>1, <2>2 DEF OrderMsg, SameWrites
<1> QED BY <1>s, <1>1, <1>2, <1>3, <1>4 DEF OrderInv

(* The downloads, and requests that are refused.                           *)
LEMMA ReadsOrder ==
  ASSUME Base, OrderInv, NEW m \in net,
         NoMemory(m) \/ \E s \in Sess : ProcessRead(s, m) \/ RrqAck(s, m)
  PROVE  OrderInv'
<1>c. Shape(m) /\ Types /\ Peers
  BY DEF Base
<1>1. CASE NoMemory(m)
  <2> DEFINE x == SErr(m.c, None)
  <2>1. Sends({x})
    BY <1>1, Exchanged DEF NoMemory, client, SameWrites, Sends
  <2>2. OrderMsg(x)'
    BY DEF OrderMsg, SErr
  <2>3. \A z \in {x} : OrderMsg(z)'
    BY <2>2
  <2> HIDE DEF x
  <2> QED BY <2>1, <2>3, OrderKept
<1>2. ASSUME NEW s \in Sess, ProcessRead(s, m) PROVE OrderInv'
  <2> DEFINE x == [type |-> "SDATA", c |-> m.c, s |-> s, n |-> 1, chunk |-> ReadAt(0)]
  <2>1. /\ m.type = "RRQ" /\ st[s] = "unused" /\ st' = [st EXCEPT ![s] = "rd"]
        /\ peer' = [peer EXCEPT ![s] = m.c] /\ block' = [block EXCEPT ![s] = 1]
        /\ tot' = [tot EXCEPT ![s] = IF HasData(ReadAt(0)) THEN 1 ELSE 0] /\ Exchange(m, {x})
        /\ UNCHANGED <<flash, ended, failed>>
    BY <1>2 DEF ProcessRead, Allocatable, client, OffsetAfter
  <2>2. m.c \notin Writers /\ peer[s] \notin Writers
    BY <1>c, <2>1, Constants DEF Shape, Peers
  <2>3. Sends({x})
    BY <1>c, <2>1, <2>2, Exchanged DEF SameWrites, Types, Sends
  <2>4. OrderMsg(x)'
    BY DEF OrderMsg
  <2>5. \A z \in {x} : OrderMsg(z)'
    BY <2>4
  <2> HIDE DEF x
  <2> QED BY <2>3, <2>5, OrderKept
<1>3. ASSUME NEW s \in Sess, RrqAck(s, m) PROVE OrderInv'
  <2>b. PICK b : b = IF CorrectAck(s, m) THEN block[s] + 1 ELSE block[s]
    OBVIOUS
  <2>k. PICK k : k = ReadAt(tot[s])
    OBVIOUS
  <2> DEFINE x == [type |-> "SDATA", c |-> m.c, s |-> s, n |-> b, chunk |-> k]
  <2>1. /\ m.type \in {"CACK", "CERR"} /\ m.s = s /\ st[s] = "rd"
        /\ block' = [block EXCEPT ![s] = b]
        /\ tot' = [tot EXCEPT ![s] = IF HasData(k) THEN tot[s] + 1 ELSE tot[s]]
        /\ st' = st \/ st' = [st EXCEPT ![s] = "closed"]
        /\ net' \subseteq net \union {SData(s, b, k)}
        /\ UNCHANGED <<peer, flash, ended, failed>>
    BY <1>3, <2>b, <2>k DEF RrqAck, Exchange, OffsetAfter
  <2>2. peer[s] = m.c /\ m.c \notin Writers
    BY <1>c, <2>1, Constants DEF Shape, Peers
  <2>3. \A t \in Sess : t # s => block'[t] = block[t] /\ tot'[t] = tot[t] /\ st'[t] = st[t]
    BY <1>c, <2>1 DEF Types
  <2>4. Sends({x})
    BY <1>c, <2>1, <2>2, <2>3 DEF SameWrites, SData, Sends
  <2>5. OrderMsg(x)'
    BY DEF OrderMsg
  <2>6. \A z \in {x} : OrderMsg(z)'
    BY <2>5
  <2> HIDE DEF x
  <2> QED BY <2>4, <2>6, OrderKept
<1> QED BY <1>1, <1>2, <1>3

(* The clients: the next block is sent when the one before is counted.     *)
LEMMA ClientsOrder ==
  ASSUME Base, WriteInv, OrderInv, ~ClientMayAbort, Client PROVE OrderInv'
<1>c. Types /\ Peers /\ Talks
  BY DEF Base
<1>s. server' = server => SameWrites
  BY DEF server, SameWrites
<1>1. ASSUME NEW c \in Clients, ClientAsk(c) \/ ClientAbort(c) PROVE OrderInv'
  <2> DEFINE x == Req(c)
  <2>1. Sends({x})
    BY <1>1, <1>s DEF ClientAsk, ClientAbort, Sends
  <2>2. OrderMsg(x)'
    BY DEF OrderMsg, Req
  <2>3. \A z \in {x} : OrderMsg(z)'
    BY <2>2
  <2> HIDE DEF x
  <2> QED BY <2>1, <2>3, OrderKept
<1>2. ASSUME NEW c \in Clients, NEW m \in net, ClientForeign(c, m) PROVE OrderInv'
  <2> DEFINE x == CErr(c, m.s, UnknownTid)
  <2>1. /\ m.type \in {"SACK", "SDATA"} /\ m.c = c /\ Sends({x})
        /\ cst[c] \in {"busy", "done"} /\ m.s # tid[c]
    BY <1>2, <1>s, Exchanged DEF ClientForeign, Sends
  <2>2. c \notin Writers
    <3>1. m.s \in Sess /\ peer[m.s] = c /\ tid[c] \in Sess /\ peer[tid[c]] = c
      BY <1>c, <2>1 DEF Base, Shape, Talks
    <3> QED BY <2>1, <3>1 DEF WriteInv
  <2>3. OrderMsg(x)'
    BY <2>2 DEF OrderMsg, CErr
  <2>4. \A z \in {x} : OrderMsg(z)'
    BY <2>3
  <2> HIDE DEF x
  <2> QED BY <2>1, <2>4, OrderKept
<1>3. ASSUME NEW c \in Clients, NEW m \in net, ClientRefused(c, m) PROVE OrderInv'
  <2>1. Sends({})
    BY <1>3, <1>s, Exchanged DEF ClientRefused, Sends
  <2> QED BY <2>1, OrderKept
<1>4. ASSUME NEW c \in Writers, NEW m \in net, WriterAck(c, m) PROVE OrderInv'
  <2>n. PICK n : n = pos[c] + 1
    OBVIOUS
  <2> DEFINE x == Data(c, m.s, n)
  <2>1. /\ m.type = "SACK" /\ m.n = pos[c] /\ Sends({x})
    BY <1>4, <1>s, <2>n DEF WriterAck, Exchange, Sends
  <2>2. /\ m.s \in Sess /\ peer[m.s] \in Writers /\ m.n \in Nat /\ block[m.s] \in Nat
        /\ m.n <= block[m.s]
    BY <1>c, <2>1 DEF Base, Shape, WriteInv, WriteMsg, Types
  <2>3. OrderMsg(x)'
    BY <2>n, <2>1, <2>2 DEF OrderMsg, Data, Sends, SameWrites
  <2>4. \A z \in {x} : OrderMsg(z)'
    BY <2>3
  <2> HIDE DEF x
  <2> QED BY <2>1, <2>4, OrderKept
<1>5. ASSUME NEW c \in Readers, NEW m \in net, ReaderData(c, m) PROVE OrderInv'
  <2> DEFINE x == CAck(c, m.s, m.n)
  <2>1. Sends({x})
    BY <1>5, <1>s, Exchanged DEF ReaderData, Sends
  <2>2. OrderMsg(x)'
    BY DEF OrderMsg, CAck
  <2>3. \A z \in {x} : OrderMsg(z)'
    BY <2>2
  <2> HIDE DEF x
  <2> QED BY <2>1, <2>3, OrderKept
<1> QED BY <1>1, <1>2, <1>3, <1>4, <1>5 DEF Client

(* An upload is opened: nothing is in the flash.                           *)
LEMMA OpenOrder ==
  ASSUME Base, WriteInv, OrderInv, NEW s \in Sess, NEW m \in net, ProcessWrite(s, m)
  PROVE  OrderInv'
<1> DEFINE x == [type |-> "SACK", c |-> m.c, s |-> s, n |-> 0]
<1>1. /\ m.type = "WRQ" /\ st[s] = "unused" /\ peer' = [peer EXCEPT ![s] = m.c]
      /\ Exchange(m, {x}) /\ UNCHANGED <<tot, flash, ended, failed>>
  BY DEF ProcessWrite, Allocatable
<1>2. Types /\ tot[s] = 0 /\ \A t \in Sess : peer[t] \notin Writers
  BY <1>1 DEF Base, Peers, WriteInv, WriteMsg
<1>3. ended = {} /\ Clean(0) /\ m.c \in Writers
  BY <1>1, <1>2 DEF OrderInv, Types, Base, Shape
<1>4. \A t \in Sess : peer'[t] \in Writers => t = s
  BY <1>1, <1>2 DEF Types
<1>5. Clean(tot[s])'
  BY <1>1, <1>2, <1>3 DEF Clean
<1>6. peer'[s] \in Writers
  BY <1>1, <1>2, <1>3 DEF Types
<1>7. ASSUME NEW z \in net' PROVE OrderMsg(z)'
  <2>1. z = x \/ z \in net
    BY <1>1, Exchanged
  <2>2. CASE z = x
    BY <2>2 DEF OrderMsg
  <2>3. CASE z \in net
    <3>1. z.type # "DATA" /\ OrderMsg(z)
      BY <1>2, <2>3 DEF Base, Shape, OrderInv
    <3> QED BY <3>1 DEF OrderMsg
  <2> QED BY <2>1, <2>2, <2>3
<1> QED BY <1>1, <1>3, <1>4, <1>5, <1>6, <1>7 DEF OrderInv

(* Writing a chunk erases other positions or leaves them.                  *)
LEMMA FlashTouched ==
  ASSUME Types, NEW p \in Nat, p >= 1, NEW chunk \in 0 .. N + 2, NEW ok \in BOOLEAN,
         FlashWrite(p, chunk, ok)
  PROVE  \A q \in 1 .. Positions : q # p \/ ~ok => flash'[q] \in {flash[q], Blank}
<1>1. CASE p > Positions
  BY <1>1, Constants DEF FlashWrite, Types
<1>2. CASE p <= Positions
  <2>1. \A q \in 1 .. Positions : EraseFor(p)[q] \in {flash[q], Blank}
    BY DEF EraseFor
  <2>2. flash' = IF ok THEN [EraseFor(p) EXCEPT ![p] = chunk] ELSE EraseFor(p)
    BY <1>2, Constants DEF FlashWrite
  <2>3. DOMAIN EraseFor(p) = 1 .. Positions /\ p \in 1 .. Positions
    BY <1>2, Constants DEF EraseFor
  <2> QED BY <2>1, <2>2, <2>3 DEF EraseFor
<1> QED BY <1>1, <1>2, Constants

(* What a packet of the upload does to the flash and to the announcements: *)
(* it is out of turn, or it is the next chunk, which is taken or not.      *)
LEMMA PacketOrder ==
  ASSUME Base, Base', WriteInv, WriteInv', OrderInv, NEW s \in Sess, NEW m \in net,
         WrqPacket(s, m)
  PROVE  /\ peer[s] \in Writers /\ failed = {} /\ ended = {} /\ Counted(s) /\ Clean(tot[s])
         /\ peer' = peer /\ tot[s] \in Nat /\ block' = [block EXCEPT ![s] = BlockAfter(s, m)]
         /\ net' \subseteq net \union {SAck(s, BlockAfter(s, m)), SErr(peer[s], s)}
         /\ \A q \in 1 .. Positions : q # tot[s] + 1 => flash'[q] \in {flash[q], Blank}
         /\ \A q \in 1 .. tot[s] : flash'[q] = flash[q]
         /\ \/ /\ failed' = {s} /\ st'[s] = "closed" /\ ended' \subseteq {s}
               /\ \A q \in 1 .. Positions : flash'[q] \in {flash[q], Blank}
            \/ /\ failed' = {} /\ tot'[s] \in {tot[s], tot[s] + 1} /\ Counted(s)'
               /\ tot'[s] = tot[s] => flash' = flash
               /\ \/ ended' = {}
                  \/ ended' = {s} /\ st'[s] = "closed" /\ tot'[s] = FileLen
<1>c. Shape(m) /\ Types /\ Peers /\ Talks
  BY DEF Base
<1>1. PICK ok \in BOOLEAN :
        /\ m.type \in {"DATA", "CERR"} /\ m.s = s /\ st[s] = "wr"
        /\ block' = [block EXCEPT ![s] = BlockAfter(s, m)]
        /\ tot' = [tot EXCEPT ![s] = IF Written(s, m) THEN tot[s] + 1 ELSE tot[s]]
        /\ IF Written(s, m) THEN FlashWrite(tot[s] + 1, m.chunk, ok)
                            ELSE UNCHANGED <<flash, armed>>
        /\ Written(s, m) /\ ok => CanWrite(tot[s] + 1, m.chunk)
        /\ st' = [st EXCEPT ![s] = IF IsShort(m.chunk) \/ ~ok THEN "closed" ELSE st[s]]
        /\ ended' = IF IsShort(m.chunk) /\ tot'[s] > 0 THEN ended \union {s} ELSE ended
        /\ failed' = IF ok THEN failed ELSE failed \union {s}
        /\ net' \subseteq net \union {SAck(s, BlockAfter(s, m)), SErr(peer[s], s)}
        /\ UNCHANGED <<peer, short, misled, cst, tid, pos, copy>>
  BY <1>c, PacketEffect
<1>2. peer[s] = m.c /\ m.c \in Writers /\ \A t \in Sess : peer[t] \in Writers => t = s
  BY <1>c, <1>1 DEF Shape, Peers, WriteInv
<1>3. failed = {} /\ ended = {}
  BY <1>c, <1>1, <1>2 DEF WriteInv, OrderInv, Types
<1>4. Counted(s) /\ Clean(tot[s]) /\ tot[s] \in Nat /\ block[s] \in Nat /\ block[s] < N
      /\ \A i \in 1 .. tot[s] : i \in 1 .. Positions /\ SectorOf[i] \notin armed
  <2>1. Counted(s) /\ Clean(tot[s]) /\ tot[s] \in Nat /\ block[s] \in Nat
    BY <1>c, <1>2, <1>3 DEF WriteInv, OrderInv, Types
  <2> QED BY <1>1, <2>1, Constants DEF Counted
<1>5. m.type = "DATA" /\ m.chunk = m.n /\ m.n \in Nat /\ m.n <= block[s] + 1
  BY <1>c, <1>1, <1>2, <1>3 DEF OrderInv, OrderMsg, Shape
<1>6. /\ tot'[s] = IF Written(s, m) THEN tot[s] + 1 ELSE tot[s]
      /\ st'[s] = IF IsShort(m.chunk) \/ ~ok THEN "closed" ELSE st[s]
      /\ block'[s] = BlockAfter(s, m)
  BY <1>c, <1>1 DEF Types
<1>7. /\ \A q \in 1 .. Positions : q # tot[s] + 1 \/ ~ok => flash'[q] \in {flash[q], Blank}
      /\ \A q \in 1 .. tot[s] : flash'[q] = flash[q]
      /\ ~Written(s, m) => flash' = flash
  <2>1. CASE ~Written(s, m)
    BY <1>1, <2>1
  <2>2. CASE Written(s, m)
    <3>p. PICK p : p = tot[s] + 1
      OBVIOUS
    <3>1. p \in Nat /\ p >= 1 /\ FlashWrite(p, m.chunk, ok) /\ \A q \in 1 .. tot[s] : q # p
      BY <1>1, <1>4, <2>2, <3>p
    <3>2. m.chunk \in 0 .. N + 2
      BY <1>4, <1>5, Constants
    <3>3. \A q \in 1 .. Positions : q # p \/ ~ok => flash'[q] \in {flash[q], Blank}
      BY <1>c, <3>1, <3>2, FlashTouched
    <3>4. \A q \in 1 .. Positions : q # p /\ SectorOf[q] \notin armed => flash'[q] = flash[q]
      BY <1>c, <3>1, <3>2, FlashWritten
    <3> QED BY <1>4, <2>2, <3>p, <3>1, <3>3, <3>4
  <2> QED BY <2>1, <2>2
<1>8. CASE ~ok
  BY <1>1, <1>2, <1>3, <1>4, <1>6, <1>7, <1>8
<1>9. CASE ok
  <2>1. failed' = {} /\ Counted(s)'
    <3>1. failed' = {}
      BY <1>1, <1>3, <1>9
    <3>2. peer' = peer
      BY <1>1
    <3> QED BY <1>2, <3>1, <3>2 DEF WriteInv
  <2>2. IsShort(m.chunk) => tot'[s] = FileLen
    <3> SUFFICES ASSUME IsShort(m.chunk) PROVE tot'[s] = FileLen
      OBVIOUS
    <3>1. m.n = N /\ block[s] + 1 = N
      BY <1>c, <1>1, <1>4, <1>5, Constants DEF IsShort, Shape
    <3>2. block'[s] = N
      BY <1>1, <1>6, <3>1 DEF BlockAfter, Accepted, Expected
    <3> QED BY <2>1, <3>2, Constants DEF Counted
  <2>3. ended' = {} \/ (ended' = {s} /\ IsShort(m.chunk) /\ tot'[s] > 0)
    BY <1>1, <1>3
  <2>4. st'[s] = "closed" \/ ~IsShort(m.chunk)
    BY <1>6
  <2>5. tot'[s] \in {tot[s], tot[s] + 1} /\ (tot'[s] = tot[s] => flash' = flash)
    BY <1>4, <1>6, <1>7
  <2>6. ended' = {} \/ (ended' = {s} /\ st'[s] = "closed" /\ tot'[s] = FileLen)
    BY <2>2, <2>3, <2>4
  <2> QED BY <1>1, <1>2, <1>3, <1>4, <1>7, <2>1, <2>5, <2>6
<1> QED BY <1>8, <1>9

(* A packet keeps the order.                                               *)
LEMMA PacketKeepsOrder ==
  ASSUME Base, Base', WriteInv, WriteInv', OrderInv, NEW s \in Sess, NEW m \in net,
         WrqPacket(s, m)
  PROVE  OrderInv'
<1>b. PICK b : b = BlockAfter(s, m)
  OBVIOUS
<1>c. Types /\ Types'
  BY DEF Base
<1>1. /\ peer[s] \in Writers /\ failed = {} /\ ended = {} /\ Clean(tot[s])
      /\ peer' = peer /\ tot[s] \in Nat /\ block' = [block EXCEPT ![s] = b]
      /\ net' \subseteq net \union {SAck(s, b), SErr(peer[s], s)}
      /\ \A q \in 1 .. Positions : q # tot[s] + 1 => flash'[q] \in {flash[q], Blank}
      /\ failed' = {s} \/ (failed' = {} /\ tot'[s] \in {tot[s], tot[s] + 1})
      /\ tot'[s] = tot[s] /\ failed' = {} => flash' = flash
      /\ ended' = {} \/ (ended' \subseteq {s} /\ st'[s] = "closed")
  BY <1>b, PacketOrder
<1>2. \A t \in Sess : peer[t] \in Writers => t = s
  BY <1>1 DEF WriteInv
<1>3. s \notin failed' => Clean(tot[s])'
  <2> SUFFICES ASSUME s \notin failed', NEW i \in 1 .. Positions, i > tot'[s]
               PROVE  flash'[i] \notin 1 .. N
    BY DEF Clean
  <2>1. CASE tot'[s] = tot[s]
    BY <1>1, <2>1 DEF Clean
  <2>2. CASE tot'[s] = tot[s] + 1
    <3>1. i # tot[s] + 1 /\ i > tot[s] /\ i \in Nat
      BY <1>1, <2>2, Constants
    <3>2. flash'[i] \in {flash[i], Blank} /\ flash[i] \notin 1 .. N
      BY <1>1, <3>1 DEF Clean
    <3> QED BY <3>2, Constants DEF Blank
  <2> QED BY <1>1, <2>1, <2>2
<1>4. block[s] \in Nat /\ b \in Nat /\ b >= block[s] /\ block'[s] = b
  BY <1>b, <1>c, <1>1 DEF Types, BlockAfter
<1>5. ASSUME NEW z \in net' PROVE OrderMsg(z)'
  <2>1. z.type \notin {"DATA", "CERR"} \/ z \in net
    BY <1>1 DEF SAck, SErr
  <2>2. CASE z \in net
    <3>1. Shape(z) /\ OrderMsg(z)
      BY <2>2 DEF Base, OrderInv
    <3>2. z.type = "DATA" => z.s = s /\ z.n \in Nat
      BY <1>2, <3>1, Constants DEF Shape
    <3> QED BY <1>1, <1>4, <3>1, <3>2 DEF OrderMsg
  <2> QED BY <2>1, <2>2 DEF OrderMsg
<1> QED BY <1>1, <1>2, <1>3, <1>5 DEF OrderInv

(* Init.                                                                   *)
LEMMA InitOrder == Init => OrderInv
<1> SUFFICES ASSUME Init PROVE OrderInv
  OBVIOUS
<1>1. \A s \in Sess : peer[s] \notin Writers
  BY Constants DEF Init
<1>2. Clean(0)
  BY Constants DEF Init, Clean, Old
<1> QED BY <1>1, <1>2 DEF Init, OrderInv

(* Every step keeps the order, if no client gives up with an ERROR.        *)
LEMMA StepOrder ==
  Base /\ Base' /\ WriteInv /\ WriteInv' /\ OrderInv /\ ~ClientMayAbort /\ [Next]_vars => OrderInv'
<1> SUFFICES ASSUME Base, Base', WriteInv, WriteInv', OrderInv, ~ClientMayAbort, [Next]_vars
             PROVE  OrderInv'
  OBVIOUS
<1>1. CASE Server
  BY <1>1, ReadsOrder, OpenOrder, PacketKeepsOrder DEF Server
<1>2. CASE Client
  BY <1>2, ClientsOrder
<1>3. CASE UNCHANGED vars
  <2>1. Sends({})
    BY <1>3 DEF vars, server, Sends, SameWrites
  <2> QED BY <2>1, OrderKept
<1> QED BY <1>1, <1>2, <1>3 DEF Next

-----------------------------------------------------------------------------
(* An area with the first n chunks and no other.                           *)
LEMMA HandedIs ==
  ASSUME NEW area, NEW n \in 0 .. Positions, n <= N,
         \A i \in 1 .. n : area[i] = i,
         \A i \in 1 .. Positions : i > n => area[i] \notin 1 .. N
  PROVE  Handed(area) = UpTo(n)
<1> DEFINE P(k) == /\ \A i \in 1 .. k : area[i] \in 1 .. N
                   /\ k < Positions => area[k + 1] \notin 1 .. N
<1>1. P(n)
  BY Constants
<1>2. ASSUME NEW k \in 0 .. Positions, P(k) PROVE k = n
  <2>1. CASE k < n
    <3>1. k + 1 \in 1 .. n /\ k < Positions
      BY <2>1, Constants
    <3> QED BY <1>2, <3>1, Constants
  <2>2. CASE k > n
    <3>1. n + 1 \in 1 .. k /\ n + 1 \in 1 .. Positions /\ n + 1 > n
      BY <2>2, Constants
    <3> QED BY <1>2, <3>1
  <2> QED BY <2>1, <2>2, Constants
<1>3. Filled(area) = CHOOSE k \in 0 .. Positions : P(k)
  BY DEF Filled
<1> HIDE DEF P
<1>4. Filled(area) = n
  BY <1>1, <1>2, <1>3
<1> QED BY <1>4 DEF Handed, UpTo

(* What the firmware sees of the end.                                      *)
Seen == IF failed # {} THEN "aborted" ELSE IF ended # {} THEN "complete" ELSE "open"

(* A packet delivers the next chunk, announces the end, ends the transfer, *)
(* or is not noticed.                                                      *)
LEMMA PacketDelivers ==
  ASSUME Base, Base', WriteInv, WriteInv', OrderInv, OrderInv', NEW s \in Sess, NEW m \in net,
         WrqPacket(s, m), NEW got, NEW next, got = Handed(flash), next = Handed(flash')
  PROVE  \/ next = got /\ Seen' = Seen
         \/ /\ Seen = "open" /\ Len(got) < FileLen /\ next = Append(got, Len(got) + 1)
            /\ Seen' \in {"open"} \union (IF Len(got) + 1 = FileLen THEN {"complete"} ELSE {})
         \/ Seen = "open" /\ Len(got) = FileLen /\ Seen' = "complete" /\ next = got
         \/ Seen = "open" /\ Seen' = "aborted" /\ next = got
<1>n. PICK n : n = tot[s]
  OBVIOUS
<1>1. /\ peer[s] \in Writers /\ failed = {} /\ ended = {} /\ Counted(s) /\ Clean(n)
      /\ n \in Nat /\ peer' = peer
      /\ \A q \in 1 .. n : flash'[q] = flash[q]
      /\ \/ /\ failed' = {s}
            /\ \A q \in 1 .. Positions : flash'[q] \in {flash[q], Blank}
         \/ /\ failed' = {} /\ tot'[s] \in {n, n + 1} /\ Counted(s)'
            /\ tot'[s] = n => flash' = flash
            /\ ended' = {} \/ (ended' = {s} /\ tot'[s] = FileLen)
  BY <1>n, PacketOrder
<1>2. n \in 0 .. FileLen /\ n \in 0 .. Positions /\ \A i \in 1 .. n : flash[i] = i
  <2>1. /\ block[s] \in 0 .. N /\ n = IF block[s] <= FileLen THEN block[s] ELSE FileLen
        /\ \A i \in 1 .. n : i <= Positions /\ flash[i] = i
    BY <1>n, <1>1 DEF Counted
  <2>2. n = 0 \/ n \in 1 .. n
    BY <1>1
  <2> QED BY <1>1, <2>1, <2>2, Constants
<1>3. n <= N /\ FileLen \in 0 .. N
  BY <1>2, Constants
<1>4. got = UpTo(n) /\ Len(got) = n /\ Append(got, n + 1) = UpTo(n + 1)
  BY <1>1, <1>2, <1>3, HandedIs, UpToIs DEF Clean
<1>5. Seen = "open"
  BY <1>1 DEF Seen
<1>6. CASE failed' = {s} /\ \A q \in 1 .. Positions : flash'[q] \in {flash[q], Blank}
  <2>1. \A i \in 1 .. n : flash'[i] = i
    BY <1>1, <1>2
  <2>2. \A i \in 1 .. Positions : i > n => flash'[i] \notin 1 .. N
    BY <1>1, <1>6, Constants DEF Clean, Blank
  <2>3. next = UpTo(n)
    BY <1>2, <1>3, <2>1, <2>2, HandedIs
  <2>4. Seen' = "aborted"
    BY <1>6 DEF Seen
  <2> QED BY <1>4, <1>5, <2>3, <2>4
<1>7. CASE /\ failed' = {} /\ tot'[s] \in {n, n + 1} /\ Counted(s)'
           /\ tot'[s] = n => flash' = flash
           /\ ended' = {} \/ (ended' = {s} /\ tot'[s] = FileLen)
  <2>1. Seen' = (IF ended' = {} THEN "open" ELSE "complete")
    BY <1>7 DEF Seen
  <2>2. CASE tot'[s] = n
    <3>1. next = got
      BY <1>7, <2>2
    <3> QED BY <1>4, <1>5, <1>7, <2>1, <2>2, <3>1
  <2>3. CASE tot'[s] = n + 1
    <3>1. n + 1 <= FileLen /\ n + 1 \in 0 .. Positions /\ \A i \in 1 .. n + 1 : flash'[i] = i
      <4>1. /\ block'[s] \in 0 .. N
            /\ n + 1 = IF block'[s] <= FileLen THEN block'[s] ELSE FileLen
            /\ \A i \in 1 .. n + 1 : i <= Positions /\ flash'[i] = i
        BY <1>7, <2>3 DEF Counted
      <4>2. n + 1 \in 1 .. n + 1
        BY <1>1
      <4> QED BY <1>1, <4>1, <4>2, Constants
    <3>2. \A i \in 1 .. Positions : i > n + 1 => flash'[i] \notin 1 .. N
      <4>1. Clean(tot[s])'
        BY <1>1, <1>7 DEF OrderInv
      <4> QED BY <2>3, <4>1 DEF Clean
    <3>3. n + 1 <= N
      BY <1>1, <1>3, <3>1, Constants
    <3>4. next = UpTo(n + 1)
      BY <3>1, <3>2, <3>3, HandedIs
    <3>5. n < FileLen
      BY <1>1, <1>3, <3>1
    <3> QED BY <1>4, <1>5, <1>7, <2>1, <2>3, <3>4, <3>5
  <2> QED BY <1>7, <2>2, <2>3
<1> QED BY <1>1, <1>6, <1>7

(* Only packets of the upload are noticed by the firmware.                 *)
LEMMA OthersUnnoticed ==
  ASSUME [Next]_vars
  PROVE  \/ UNCHANGED <<flash, failed, ended>>
         \/ \E m \in net, s \in Sess : WrqPacket(s, m)
<1>1. CASE Server
  <2>1. ASSUME NEW m \in net, NoMemory(m) PROVE UNCHANGED <<flash, failed, ended>>
    BY <2>1 DEF NoMemory
  <2>2. ASSUME NEW m \in net, NEW s \in Sess, ProcessWrite(s, m) \/ ProcessRead(s, m) \/ RrqAck(s, m)
        PROVE  UNCHANGED <<flash, failed, ended>>
    BY <2>2 DEF ProcessWrite, ProcessRead, RrqAck
  <2> QED BY <1>1, <2>1, <2>2 DEF Server
<1>2. CASE Client
  <2>1. server' = server
    BY <1>2 DEF Client, ClientAsk, ClientAbort, ClientForeign, ClientRefused, WriterAck, ReaderData
  <2> QED BY <2>1 DEF server
<1>3. CASE UNCHANGED vars
  BY <1>3 DEF vars, server
<1> QED BY <1>1, <1>2, <1>3 DEF Next

(* An upload at a time that is not given up is, to the firmware, the       *)
(* transfer of FileTransfer: the chunks in order, each once, and the end   *)
(* announced after the last (wrq_recv_callback), for files of any length,  *)
(* any flash, any loss and reordering and repeated blocks.                 *)
THEOREM UploadRefines == OneUpload /\ ~ClientMayAbort /\ Spec => UploadImplements
<1> SUFFICES ASSUME OneUpload, ~ClientMayAbort PROVE Spec => UploadImplements
  OBVIOUS
<1> DEFINE got == Handed(flash)
           seen == IF failed # {} THEN "aborted" ELSE IF ended # {} THEN "complete" ELSE "open"
<1>1. Init => got = <<>> /\ seen = "open"
  <2> SUFFICES ASSUME Init PROVE got = <<>> /\ seen = "open"
    OBVIOUS
  <2>1. got = UpTo(0)
    BY Constants, HandedIs DEF Init, Old
  <2>2. UpTo(0) = <<>>
    BY DEF UpTo
  <2> QED BY <2>1, <2>2 DEF Init
<1>2. Base /\ Base' /\ WriteInv /\ WriteInv' /\ OrderInv /\ OrderInv' /\ [Next]_vars =>
        \/ got' = got /\ seen' = seen
        \/ /\ seen = "open" /\ Len(got) < FileLen /\ got' = Append(got, Len(got) + 1)
           /\ seen' \in {"open"} \union (IF Len(got) + 1 = FileLen THEN {"complete"} ELSE {})
        \/ seen = "open" /\ Len(got) = FileLen /\ seen' = "complete" /\ got' = got
        \/ seen = "open" /\ seen' = "aborted" /\ got' = got
  <2>1. UNCHANGED <<flash, failed, ended>> => got' = got /\ seen' = seen
    BY DEF Handed, Filled
  <2>2. got' = Handed(flash')
    BY DEF Handed, Filled
  <2> QED BY <2>1, <2>2, PacketDelivers, OthersUnnoticed DEF Seen
<1>3. Init => T!Init
  BY <1>1 DEF T!Init
<1>4. Base /\ Base' /\ WriteInv /\ WriteInv' /\ OrderInv /\ OrderInv' /\ [Next]_vars =>
        [T!Deliver \/ T!Complete \/ T!Abort]_<<got, seen>>
  BY <1>2 DEF T!Deliver, T!Complete, T!Abort
<1>5. Base /\ Base' /\ WriteInv /\ [Next]_vars => WriteInv'
  BY StepWrite
<1>6. Base /\ Base' /\ WriteInv /\ WriteInv' /\ OrderInv /\ [Next]_vars => OrderInv'
  BY StepOrder
<1> QED BY InitBase, StepBase, InitWrite, InitOrder, <1>3, <1>4, <1>5, <1>6, PTL
        DEF Spec, UploadImplements, T!Spec
=============================================================================
