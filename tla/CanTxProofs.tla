---------------------------- MODULE CanTxProofs ----------------------------
(***************************************************************************)
(* Proofs about the transmission of CAN messages, for any number of        *)
(* buffers, mailboxes and requests: the counter covers the waiting         *)
(* messages, none of them is stranded, and a refill finds a mailbox.       *)
(***************************************************************************)
EXTENDS CanTx, FiniteSetTheorems, SequenceTheorems, WellFoundedInduction, TLAPS

Frames == [box : Mailboxes, buf : {Direct} \union Buffers, msg : Nat]

(* No mailbox holds two frames.                                            *)
BoxesOnce == \A j, k \in DOMAIN mail : mail[j].box = mail[k].box => j = k

(* The inductive invariant.                                                *)
CanInv == TypeOK /\ CountCoversFull /\ NeverStranded /\ BoxesOnce /\ RefillFits

-----------------------------------------------------------------------------
(* A set of numbers that is not empty has a lowest one.                    *)
LEMMA LowestIn ==
  ASSUME NEW S \in SUBSET Nat, S # {}
  PROVE  LowestOf(S) \in S
<1>1. \E x \in S : \A y \in S : ~(<<y, x>> \in OpToRel(<, Nat))
  BY NatLessThanWellFounded, WFMin
<1>2. \A x, y \in Nat : <<y, x>> \in OpToRel(<, Nat) <=> y < x
  BY DEF OpToRel
<1>3. \A x, y \in Nat : ~(y < x) => x <= y
  OBVIOUS
<1>4. \E x \in S : \A y \in S : x <= y
  BY <1>1, <1>2, <1>3, Zenon
<1>. QED
  BY <1>4 DEF LowestOf

(* The buffers that are waiting are finitely many.                         *)
LEMMA FullFinite ==
  ASSUME TypeOK
  PROVE  IsFiniteSet(full) /\ Cardinality(full) \in Nat
<1>1. IsFiniteSet(Buffers)
  BY CanAssumption, FS_Interval DEF Buffers
<1>2. IsFiniteSet(full)
  BY <1>1, FS_Subset DEF TypeOK
<1>. QED
  BY <1>2, FS_CardinalityType

(* What can_drv_tx does to the mailboxes.                                  *)
LEMMA LoadEffect ==
  ASSUME mail \in Seq(Frames), BoxesOnce, FreeBoxes # {},
         NEW b \in {Direct} \union Buffers, NEW m \in Nat,
         NEW done \in SUBSET Mailboxes, done \intersect BusyBoxes = {},
         Load(b, m, done)
  PROVE  /\ mail' \in Seq(Frames) /\ mail' # <<>> /\ rqcp' \subseteq Mailboxes
         /\ BoxesOnce' /\ RefillFits'
<1>. DEFINE box == LowestOf(FreeBoxes)
            frame == [box |-> box, buf |-> b, msg |-> m]
<1>1. box \in Mailboxes /\ box \notin BusyBoxes
  BY LowestIn, CanAssumption DEF FreeBoxes
<1>2. mail' = Append(mail, frame) /\ rqcp' = done \ {box}
  BY DEF Load
<1>3. frame \in Frames /\ frame.box = box
  BY <1>1 DEF Frames
<1>. HIDE DEF box, frame
<1>4. /\ mail' \in Seq(Frames) /\ mail' # <<>>
      /\ Len(mail') = Len(mail) + 1 /\ Len(mail) \in Nat
      /\ DOMAIN mail = 1 .. Len(mail) /\ DOMAIN mail' = 1 .. Len(mail) + 1
      /\ \A i \in 1 .. Len(mail) : mail'[i] = mail[i]
      /\ mail'[Len(mail) + 1] = frame
  <2>1. /\ Append(mail, frame) \in Seq(Frames) /\ Append(mail, frame) # <<>>
        /\ Len(Append(mail, frame)) = Len(mail) + 1
        /\ \A i \in 1 .. Len(mail) : Append(mail, frame)[i] = mail[i]
        /\ Append(mail, frame)[Len(mail) + 1] = frame
    BY <1>3, AppendProperties
  <2>. QED
    BY <1>2, <2>1
<1>5. \A i \in 1 .. Len(mail) : mail[i].box # box
  BY <1>1, <1>4 DEF BusyBoxes
<1>6. BoxesOnce'
  <2>1. ASSUME NEW j \in 1 .. Len(mail) + 1, NEW k \in 1 .. Len(mail) + 1,
               mail'[j].box = mail'[k].box
        PROVE  j = k
    <3>1. CASE j = Len(mail) + 1 /\ k = Len(mail) + 1
      BY <3>1
    <3>2. CASE j \in 1 .. Len(mail) /\ k \in 1 .. Len(mail)
      BY <1>4, <2>1, <3>2 DEF BoxesOnce
    <3>3. CASE j \in 1 .. Len(mail) /\ k = Len(mail) + 1
      BY <1>3, <1>4, <1>5, <2>1, <3>3
    <3>4. CASE j = Len(mail) + 1 /\ k \in 1 .. Len(mail)
      BY <1>3, <1>4, <1>5, <2>1, <3>4
    <3>. QED
      BY <1>4, <3>1, <3>2, <3>3, <3>4
  <2>. QED
    BY <1>4, <2>1 DEF BoxesOnce
<1>7. RefillFits'
  <2>1. ASSUME NEW k \in 1 .. Len(mail) + 1
        PROVE  mail'[k].box \notin rqcp'
    <3>1. CASE k = Len(mail) + 1
      BY <1>2, <1>3, <1>4, <3>1
    <3>2. CASE k \in 1 .. Len(mail)
      BY <1>2, <1>4, <3>2 DEF BusyBoxes
    <3>. QED
      BY <1>4, <3>1, <3>2
  <2>. QED
    BY <1>4, <2>1 DEF RefillFits, BusyBoxes
<1>. QED
  BY <1>2, <1>4, <1>6, <1>7

(* The mailboxes without the one that is transmitted.                      *)
LEMMA WithoutFirst ==
  ASSUME mail \in Seq(Frames), 1 \in DOMAIN mail
  PROVE  /\ Without(1) \in Seq(Frames) /\ DOMAIN Without(1) = 1 .. Len(mail) - 1
         /\ \A i \in 1 .. Len(mail) - 1 : Without(1)[i] = mail[i + 1]
<1>1. /\ Len(mail) \in Nat /\ DOMAIN mail = 1 .. Len(mail)
      /\ \A i \in 2 .. Len(mail) : mail[i] \in Frames
  BY ElementOfSeq
<1>2. SubSeq(mail, 1, 0) = <<>>
  BY SubSeqEmpty
<1>3. /\ SubSeq(mail, 2, Len(mail)) \in Seq(Frames)
      /\ Len(SubSeq(mail, 2, Len(mail))) = Len(mail) - 1
      /\ \A i \in 1 .. Len(mail) - 1 : SubSeq(mail, 2, Len(mail))[i] = mail[i + 1]
  <2>1. /\ SubSeq(mail, 2, Len(mail)) \in Seq(Frames)
        /\ Len(SubSeq(mail, 2, Len(mail))) = IF 2 <= Len(mail) THEN Len(mail) - 2 + 1 ELSE 0
        /\ \A i \in 1 .. Len(mail) - 2 + 1 : SubSeq(mail, 2, Len(mail))[i] = mail[2 + i - 1]
    BY <1>1, SubSeqProperties
  <2>. QED
    BY <1>1, <2>1
<1>4. Without(1) = SubSeq(mail, 2, Len(mail))
  <2>1. Without(1) = <<>> \o SubSeq(mail, 2, Len(mail))
    BY <1>2 DEF Without
  <2>. QED
    BY <1>3, <2>1, ConcatEmptySeq
<1>. DEFINE rest == SubSeq(mail, 2, Len(mail))
<1>. HIDE DEF rest
<1>5. /\ rest \in Seq(Frames) /\ Len(rest) = Len(mail) - 1
      /\ \A i \in 1 .. Len(mail) - 1 : rest[i] = mail[i + 1]
  BY <1>3 DEF rest
<1>6. DOMAIN rest = 1 .. Len(mail) - 1
  BY <1>5, LenProperties
<1>7. Without(1) = rest
  BY <1>4 DEF rest
<1>. QED
  BY <1>5, <1>6, <1>7

(* The mailbox that has been transmitted is out, and its RQCP is set.      *)
LEMMA TransmitEffect ==
  ASSUME TypeOK, BoxesOnce, RefillFits, Transmit
  PROVE  /\ mail' \in Seq(Frames) /\ rqcp' \subseteq Mailboxes /\ rqcp' # {}
         /\ bus' \in Seq(({Direct} \union Buffers) \X Nat)
         /\ BoxesOnce' /\ RefillFits'
<1>. USE DEF IsNext
<1>1. /\ 1 \in DOMAIN mail /\ mail' = Without(1)
      /\ rqcp' = rqcp \union {mail[1].box}
      /\ bus' = Append(bus, <<mail[1].buf, mail[1].msg>>)
  BY DEF Transmit
<1>2. /\ mail \in Seq(Frames) /\ Len(mail) \in Nat /\ DOMAIN mail = 1 .. Len(mail)
      /\ \A i \in 1 .. Len(mail) : mail[i] \in Frames
  <2>1. mail \in Seq(Frames)
    BY DEF TypeOK, Frames
  <2>. QED
    BY <2>1, ElementOfSeq
<1>6. /\ mail' \in Seq(Frames) /\ DOMAIN mail' = 1 .. Len(mail) - 1
      /\ \A i \in 1 .. Len(mail) - 1 : mail'[i] = mail[i + 1]
  BY <1>1, <1>2, WithoutFirst
<1>7. BoxesOnce'
  <2>1. ASSUME NEW j \in 1 .. Len(mail) - 1, NEW k \in 1 .. Len(mail) - 1,
               mail'[j].box = mail'[k].box
        PROVE  j = k
    <3>1. j + 1 \in DOMAIN mail /\ k + 1 \in DOMAIN mail
      BY <1>2
    <3>2. mail[j + 1].box = mail[k + 1].box
      BY <1>6, <2>1
    <3>3. j + 1 = k + 1
      BY <3>1, <3>2 DEF BoxesOnce
    <3>. QED
      BY <3>3
  <2>. QED
    BY <1>6, <2>1 DEF BoxesOnce
<1>8. RefillFits'
  <2>1. ASSUME NEW k \in 1 .. Len(mail) - 1
        PROVE  mail'[k].box \notin rqcp'
    <3>1. k + 1 \in DOMAIN mail /\ k + 1 # 1
      BY <1>2
    <3>2. mail[k + 1].box # mail[1].box
      BY <1>1, <3>1 DEF BoxesOnce
    <3>3. mail[k + 1].box \notin rqcp
      BY <3>1 DEF RefillFits, BusyBoxes
    <3>. QED
      BY <1>1, <1>6, <3>2, <3>3
  <2>. QED
    BY <1>6, <2>1 DEF RefillFits, BusyBoxes
<1>9. mail[1].box \in Mailboxes /\ mail[1].buf \in {Direct} \union Buffers /\ mail[1].msg \in Nat
  BY <1>1, <1>2 DEF Frames
<1>10. bus' \in Seq(({Direct} \union Buffers) \X Nat)
  <2>1. <<mail[1].buf, mail[1].msg>> \in ({Direct} \union Buffers) \X Nat
    BY <1>9
  <2>2. bus \in Seq(({Direct} \union Buffers) \X Nat)
    BY DEF TypeOK
  <2>. QED
    BY <1>1, <2>1, <2>2, AppendProperties
<1>. QED
  BY <1>1, <1>6, <1>7, <1>8, <1>9, <1>10 DEF TypeOK

-----------------------------------------------------------------------------
(* The driver starts with nothing waiting.                                 *)
LEMMA InitCan == Init => CanInv
<1>. SUFFICES ASSUME Init PROVE CanInv
  OBVIOUS
<1>1. TypeOK
  <2>1. /\ data \in [Buffers -> Nat] /\ requests \in 0 .. MaxRequests /\ CANtxCount \in Nat
        /\ pending \in 0 .. RxDepth
    BY CanAssumption DEF Init
  <2>2. /\ mail \in Seq([box : Mailboxes, buf : {Direct} \union Buffers, msg : Nat])
        /\ bus \in Seq(({Direct} \union Buffers) \X Nat)
    BY EmptySeq DEF Init
  <2>. QED
    BY <2>1, <2>2 DEF Init, TypeOK
<1>2. CountCoversFull
  BY FS_EmptySet DEF Init, CountCoversFull
<1>. QED
  BY <1>1, <1>2 DEF Init, CanInv, NeverStranded, BoxesOnce, RefillFits

(* CO_CANsend, on its three ways.                                          *)
LEMMA SendKeeps ==
  ASSUME CanInv, NEW b \in Buffers, CO_CANsend(b)
  PROVE  CanInv'
<1>1. /\ TypeOK /\ CountCoversFull /\ BoxesOnce /\ RefillFits
      /\ mail \in Seq(Frames) /\ IsFiniteSet(full) /\ Cardinality(full) \in Nat
      /\ requests \in Nat /\ MaxRequests \in Nat /\ CANtxCount \in Nat
  BY CanAssumption, FullFinite DEF CanInv, TypeOK, Frames
<1>2. /\ requests' \in 0 .. MaxRequests /\ data' \in [Buffers -> Nat]
      /\ UNCHANGED <<bus, aborted, pending, overrun>>
  BY <1>1 DEF CO_CANsend, TypeOK, fifo
<1>3. /\ mail' \in Seq(Frames) /\ mail' # <<>> /\ rqcp' \subseteq Mailboxes
      /\ BoxesOnce' /\ RefillFits'
  <2>1. CASE FreeBoxes # {}
    <3>1. Load(b, requests + 1, rqcp)
      BY <2>1 DEF CO_CANsend
    <3>2. b \in {Direct} \union Buffers /\ requests + 1 \in Nat /\ rqcp \in SUBSET Mailboxes
          /\ rqcp \intersect BusyBoxes = {}
      BY <1>1 DEF TypeOK, RefillFits
    <3>. QED
      BY <1>1, <2>1, <3>1, <3>2, LoadEffect
  <2>2. CASE FreeBoxes = {}
    <3>1. UNCHANGED <<mail, rqcp>>
      BY <2>2 DEF CO_CANsend, module
    <3>2. BusyBoxes # {}
      BY <2>2, CanAssumption DEF FreeBoxes
    <3>3. mail # <<>>
      BY <3>2 DEF BusyBoxes
    <3>. QED
      BY <1>1, <3>1, <3>3 DEF TypeOK, BoxesOnce, RefillFits, BusyBoxes
  <2>. QED
    BY <2>1, <2>2
<1>4. full' \subseteq Buffers /\ CANtxCount' \in Nat /\ bufferInhibitFlag' \in BOOLEAN
      /\ CountCoversFull'
  <2>1. CASE FreeBoxes # {} /\ CANtxCount = 0
    BY <1>1, <2>1 DEF CO_CANsend, TypeOK, CountCoversFull
  <2>2. CASE ~(FreeBoxes # {} /\ CANtxCount = 0)
    <3>1. /\ full' = full \union {b} /\ CANtxCount' = CANtxCount + 1
          /\ bufferInhibitFlag' = bufferInhibitFlag
      BY <2>2 DEF CO_CANsend, Counted
    <3>2. Cardinality(full \union {b}) <= Cardinality(full) + 1
          /\ Cardinality(full \union {b}) \in Nat
      <4>1. IsFiniteSet(full) /\ Cardinality(full) \in Nat
        BY <1>1
      <4>2. Cardinality(full \union {b}) =
              IF b \in full THEN Cardinality(full) ELSE Cardinality(full) + 1
        BY <4>1, FS_AddElement, Zenon
      <4>. QED
        BY <4>1, <4>2
    <3>3. CountCoversFull'
      BY <1>1, <3>1, <3>2 DEF CountCoversFull
    <3>. QED
      BY <1>1, <3>1, <3>3 DEF TypeOK
  <2>. QED
    BY <2>1, <2>2
<1>. QED
  BY <1>1, <1>2, <1>3, <1>4 DEF CanInv, TypeOK, NeverStranded, Frames

(* What is received does not touch what is sent.                           *)
LEMMA ReceptionEffect ==
  ASSUME TypeOK, Receive \/ TakeReceived
  PROVE  /\ UNCHANGED <<full, data, CANtxCount, bufferInhibitFlag, mail, rqcp>>
         /\ UNCHANGED <<requests, bus, aborted>>
         /\ pending' \in 0 .. RxDepth /\ overrun' \in BOOLEAN
<1>1. RxDepth \in Nat /\ pending \in 0 .. RxDepth /\ overrun \in BOOLEAN
  BY CanAssumption DEF TypeOK
<1>2. /\ UNCHANGED <<full, data, CANtxCount, bufferInhibitFlag, mail, rqcp>>
      /\ UNCHANGED <<requests, bus, aborted>>
  BY DEF Receive, TakeReceived, driver, module, past
<1>3. pending' \in 0 .. RxDepth
  <2>1. CASE Receive
    <3>1. (pending < RxDepth /\ pending' = pending + 1) \/ pending' = pending
      BY <2>1 DEF Receive
    <3>. QED
      BY <1>1, <3>1
  <2>2. CASE TakeReceived
    <3>1. pending > 0 /\ (pending' = pending - 1 \/ pending' = pending)
      BY <2>2 DEF TakeReceived
    <3>. QED
      BY <1>1, <3>1
  <2>. QED
    BY <2>1, <2>2
<1>4. overrun' \in BOOLEAN
  <2>1. overrun' = TRUE \/ overrun' = FALSE \/ overrun' = overrun
    BY DEF Receive, TakeReceived
  <2>. QED
    BY <1>1, <2>1
<1>. QED
  BY <1>2, <1>3, <1>4

(* ... and keeps the invariant.                                            *)
LEMMA ReceptionKeeps ==
  ASSUME CanInv, Receive \/ TakeReceived
  PROVE  CanInv'
<1>1. TypeOK /\ CountCoversFull /\ NeverStranded /\ BoxesOnce /\ RefillFits
  BY DEF CanInv
<1>2. /\ UNCHANGED <<full, data, CANtxCount, bufferInhibitFlag, mail, rqcp>>
      /\ UNCHANGED <<requests, bus, aborted>>
      /\ pending' \in 0 .. RxDepth /\ overrun' \in BOOLEAN
  BY <1>1, ReceptionEffect
<1>. QED
  BY <1>1, <1>2 DEF CanInv, TypeOK, CountCoversFull, NeverStranded, BoxesOnce,
     RefillFits, BusyBoxes

(* Refill: what it takes out of its buffer, it counts.                     *)
LEMMA RefillKeeps ==
  ASSUME CanInv, Refill
  PROVE  CanInv'
<1>1. /\ TypeOK /\ CountCoversFull /\ BoxesOnce /\ RefillFits
      /\ mail \in Seq(Frames) /\ IsFiniteSet(full) /\ Cardinality(full) \in Nat
      /\ CANtxCount \in Nat /\ full \subseteq Buffers
  BY FullFinite DEF CanInv, TypeOK, Frames
<1>2. UNCHANGED <<data, requests, bus, aborted, pending, overrun>>
  BY DEF Refill, past, fifo
<1>3. CASE CANtxCount > 0 /\ full # {}
  <2>1. /\ full' = full \ {Waiting} /\ CANtxCount' = CANtxCount - 1
        /\ bufferInhibitFlag' = (Waiting \in SyncBuffers)
        /\ IF FreeBoxes # {} THEN Load(Waiting, data[Waiting], {})
                             ELSE rqcp' = {} /\ UNCHANGED mail
    BY <1>3 DEF Refill, Released
  <2>2. Waiting \in full
    <3>1. full \in SUBSET Nat
      BY <1>1, CanAssumption DEF Buffers
    <3>. QED
      BY <1>3, <3>1, LowestIn DEF Waiting
  <2>3. CountCoversFull' /\ CANtxCount' \in Nat
    <3>1. Cardinality(full \ {Waiting}) = Cardinality(full) - 1
      BY <1>1, <2>2, FS_RemoveElement
    <3>. QED
      BY <1>1, <1>3, <2>1, <3>1 DEF CountCoversFull
  <2>4. /\ mail' \in Seq(Frames) /\ mail' # <<>> /\ rqcp' \subseteq Mailboxes
        /\ BoxesOnce' /\ RefillFits'
    <3>1. CASE FreeBoxes # {}
      <4>1. Load(Waiting, data[Waiting], {})
        BY <2>1, <3>1
      <4>2. Waiting \in {Direct} \union Buffers /\ data[Waiting] \in Nat
            /\ {} \in SUBSET Mailboxes /\ {} \intersect BusyBoxes = {}
        BY <1>1, <2>2 DEF TypeOK
      <4>. QED
        BY <1>1, <3>1, <4>1, <4>2, LoadEffect
    <3>2. CASE FreeBoxes = {}
      <4>1. rqcp' = {} /\ mail' = mail
        BY <2>1, <3>2
      <4>2. BusyBoxes # {}
        BY <3>2, CanAssumption DEF FreeBoxes
      <4>3. mail # <<>>
        BY <4>2 DEF BusyBoxes
      <4>. QED
        BY <1>1, <4>1, <4>3 DEF BoxesOnce, RefillFits
    <3>. QED
      BY <3>1, <3>2
  <2>5. full' \subseteq Buffers /\ bufferInhibitFlag' \in BOOLEAN
    BY <1>1, <2>1
  <2>. QED
    BY <1>1, <1>2, <2>3, <2>4, <2>5 DEF CanInv, TypeOK, NeverStranded, Frames
<1>4. CASE ~(CANtxCount > 0 /\ full # {})
  <2>1. /\ CANtxCount' = 0 /\ bufferInhibitFlag' = FALSE /\ rqcp' = {}
        /\ UNCHANGED <<full, mail>>
    BY <1>4 DEF Refill, Released
  <2>2. full = {}
    <3>1. CASE CANtxCount = 0
      BY <1>1, <3>1, FS_EmptySet DEF CountCoversFull
    <3>. QED
      BY <1>1, <1>4, <3>1
  <2>3. CountCoversFull'
    BY <2>1, <2>2, FS_EmptySet DEF CountCoversFull
  <2>. QED
    BY <1>1, <1>2, <2>1, <2>2, <2>3
    DEF CanInv, TypeOK, NeverStranded, BoxesOnce, RefillFits
<1>. QED
  BY <1>3, <1>4

(* The end of the synchronous window: mailboxes that are aborted set RQCP, *)
(* and the counter falls by what is dropped.                               *)
LEMMA ClearKeeps ==
  ASSUME CanInv, CO_CANclearPendingSyncPDOs
  PROVE  CanInv'
<1>. DEFINE Aborts == mail # <<>> /\ bufferInhibitFlag
            Through(n) ==
              /\ bus' = bus \o [k \in 1 .. n |-> <<mail[k].buf, mail[k].msg>>]
              /\ aborted' = aborted \union {mail[k].buf : k \in n + 1 .. Len(mail)}
<1>1. /\ TypeOK /\ CountCoversFull /\ NeverStranded /\ BoxesOnce /\ RefillFits
      /\ mail \in Seq(Frames) /\ IsFiniteSet(full) /\ Cardinality(full) \in Nat
      /\ CANtxCount \in Nat /\ full \subseteq Buffers
  BY FullFinite DEF CanInv, TypeOK, Frames
<1>2. /\ IF Aborts
         THEN /\ mail' = <<>> /\ rqcp' = rqcp \union BusyBoxes
              /\ bufferInhibitFlag' = FALSE
              /\ \E n \in {0, 1} : Through(n)
         ELSE UNCHANGED <<module, bufferInhibitFlag, bus, aborted>>
      /\ full' = full \ Dropped /\ CANtxCount' = CANtxCount - Cardinality(Dropped)
      /\ UNCHANGED <<data, requests, pending, overrun>>
  BY DEF CO_CANclearPendingSyncPDOs, fifo
<1>3. CountCoversFull' /\ CANtxCount' \in Nat /\ full' \subseteq full
  <2>1. Dropped \in SUBSET full
    BY DEF Dropped
  <2>2. full \intersect Dropped = Dropped
    BY <2>1
  <2>3. IsFiniteSet(Dropped) /\ Cardinality(Dropped) <= Cardinality(full)
        /\ Cardinality(Dropped) \in Nat
    BY <1>1, <2>1, FS_Subset, FS_CardinalityType
  <2>4. Cardinality(full \ Dropped) = Cardinality(full) - Cardinality(full \intersect Dropped)
    BY <1>1, FS_Difference
  <2>5. full' = full \ Dropped /\ CANtxCount' = CANtxCount - Cardinality(Dropped)
    BY <1>2
  <2>6. Cardinality(full') = Cardinality(full) - Cardinality(Dropped)
    BY <2>2, <2>4, <2>5
  <2>7. CANtxCount \in Nat /\ Cardinality(full) \in Nat /\ CANtxCount >= Cardinality(full)
    BY <1>1 DEF CountCoversFull
  <2>8. CANtxCount' >= Cardinality(full') /\ CANtxCount' \in Nat
    BY <2>3, <2>5, <2>6, <2>7
  <2>. QED
    BY <2>5, <2>8 DEF CountCoversFull
<1>4. CASE Aborts
  <2>1. /\ mail' = <<>> /\ rqcp' = rqcp \union BusyBoxes /\ bufferInhibitFlag' = FALSE
    BY <1>2, <1>4
  <2>2. PICK n \in {0, 1} : Through(n)
    BY <1>2, <1>4
  <2>3. /\ Len(mail) \in Nat /\ Len(mail) >= 1 /\ DOMAIN mail = 1 .. Len(mail)
        /\ \A k \in 1 .. Len(mail) : mail[k] \in Frames
    <3>1. mail # <<>>
      BY <1>4
    <3>2. \A k \in 1 .. Len(mail) : mail[k] \in Frames
      BY <1>1, ElementOfSeq
    <3>. QED
      BY <1>1, <3>1, <3>2
  <2>4. BusyBoxes # {} /\ BusyBoxes \subseteq Mailboxes
    BY <2>3 DEF BusyBoxes, Frames
  <2>5. bus' \in Seq(({Direct} \union Buffers) \X Nat)
    <3>. DEFINE T == ({Direct} \union Buffers) \X Nat
                sent == [k \in 1 .. n |-> <<mail[k].buf, mail[k].msg>>]
    <3>1. \A k \in 1 .. n : <<mail[k].buf, mail[k].msg>> \in T
      BY <2>3 DEF Frames
    <3>2. sent \in [1 .. n -> T] /\ n \in Nat
      BY <3>1
    <3>3. bus \in Seq(T) /\ bus' = bus \o sent
      BY <1>1, <2>2 DEF TypeOK
    <3>. HIDE DEF T, sent
    <3>4. sent \in Seq(T)
      BY <3>2, SeqDef, Zenon
    <3>5. bus' \in Seq(T)
      BY <3>3, <3>4, ConcatProperties
    <3>. QED
      BY <3>5 DEF T
  <2>6. aborted' \subseteq {Direct} \union Buffers
    <3>1. n + 1 .. Len(mail) \subseteq 1 .. Len(mail)
      BY <2>3
    <3>. QED
      BY <1>1, <2>2, <2>3, <3>1 DEF TypeOK, Frames
  <2>7. TypeOK'
    <3>1. mail' \in Seq([box : Mailboxes, buf : {Direct} \union Buffers, msg : Nat])
      BY <2>1, EmptySeq
    <3>. QED
      BY <1>1, <1>2, <1>3, <2>1, <2>4, <2>5, <2>6, <3>1 DEF TypeOK
  <2>8. NeverStranded' /\ BoxesOnce' /\ RefillFits'
    <3>1. rqcp' # {} /\ DOMAIN mail' = {}
      BY <2>1, <2>4
    <3>. QED
      BY <3>1 DEF NeverStranded, BoxesOnce, RefillFits, BusyBoxes
  <2>. QED
    BY <1>3, <2>7, <2>8 DEF CanInv
<1>5. CASE ~Aborts
  <2>1. /\ UNCHANGED <<mail, rqcp, bufferInhibitFlag, bus, aborted, data, requests>>
        /\ UNCHANGED <<pending, overrun>>
    BY <1>2, <1>5 DEF module
  <2>2. TypeOK'
    BY <1>1, <1>3, <2>1 DEF TypeOK
  <2>3. NeverStranded' /\ BoxesOnce' /\ RefillFits'
    BY <1>1, <1>3, <2>1 DEF NeverStranded, BoxesOnce, RefillFits, BusyBoxes
  <2>. QED
    BY <1>3, <2>2, <2>3 DEF CanInv
<1>. QED
  BY <1>4, <1>5

(* Every step keeps the invariant.                                         *)
LEMMA NextCan == CanInv /\ [Next]_vars => CanInv'
<1>. SUFFICES ASSUME CanInv, [Next]_vars PROVE CanInv'
  OBVIOUS
<1>0. /\ TypeOK /\ CountCoversFull /\ NeverStranded /\ BoxesOnce /\ RefillFits
      /\ mail \in Seq(Frames) /\ requests \in Nat /\ MaxRequests \in Nat
  BY CanAssumption DEF CanInv, TypeOK, Frames
<1>1. ASSUME NEW b \in Buffers, CO_CANsend(b)
      PROVE  CanInv'
  BY <1>1, SendKeeps
<1>2. CASE co_drv_send_ex
  <2>1. /\ requests' = requests + 1 /\ requests < MaxRequests
        /\ FreeBoxes # {} /\ Load(Direct, requests + 1, rqcp)
        /\ UNCHANGED <<full, data, CANtxCount, bufferInhibitFlag, bus, aborted>>
        /\ UNCHANGED <<pending, overrun>>
    BY <1>2 DEF co_drv_send_ex, driver, fifo
  <2>2. Direct \in {Direct} \union Buffers /\ requests + 1 \in Nat
        /\ rqcp \in SUBSET Mailboxes /\ rqcp \intersect BusyBoxes = {}
    BY <1>0 DEF TypeOK, RefillFits
  <2>3. /\ mail' \in Seq(Frames) /\ mail' # <<>> /\ rqcp' \subseteq Mailboxes
        /\ BoxesOnce' /\ RefillFits'
    BY <1>0, <2>1, <2>2, LoadEffect
  <2>4. TypeOK'
    BY <1>0, <2>1, <2>3 DEF TypeOK, Frames
  <2>. QED
    BY <1>0, <2>1, <2>3, <2>4 DEF CanInv, CountCoversFull, NeverStranded
<1>3. CASE Transmit
  <2>1. /\ UNCHANGED <<full, data, CANtxCount, bufferInhibitFlag, requests, aborted>>
        /\ UNCHANGED <<pending, overrun>>
    BY <1>3 DEF Transmit, driver, fifo
  <2>2. /\ mail' \in Seq(Frames) /\ rqcp' \subseteq Mailboxes /\ rqcp' # {}
        /\ bus' \in Seq(({Direct} \union Buffers) \X Nat)
        /\ BoxesOnce' /\ RefillFits'
    BY <1>0, <1>3, TransmitEffect
  <2>3. TypeOK'
    BY <1>0, <2>1, <2>2 DEF TypeOK, Frames
  <2>. QED
    BY <1>0, <2>1, <2>2, <2>3 DEF CanInv, CountCoversFull, NeverStranded
<1>4. CASE CO_CANinterrupt \/ Receive
  BY <1>4, RefillKeeps, ReceptionKeeps DEF CO_CANinterrupt
<1>5. CASE CO_CANclearPendingSyncPDOs
  BY <1>5, ClearKeeps
<1>6. CASE CO_CANmodule_init
  <2>1. /\ full' = {} /\ CANtxCount' = 0 /\ bufferInhibitFlag' = FALSE
        /\ mail' = <<>> /\ rqcp' = {} /\ pending' = 0 /\ overrun' = FALSE
        /\ UNCHANGED <<data, requests, bus, aborted>>
    BY <1>6 DEF CO_CANmodule_init, past
  <2>2. mail' \in Seq([box : Mailboxes, buf : {Direct} \union Buffers, msg : Nat])
    BY <2>1, EmptySeq
  <2>3. TypeOK'
    <3>1. 0 \in 0 .. RxDepth
      BY CanAssumption
    <3>. QED
      BY <1>0, <2>1, <2>2, <3>1 DEF TypeOK
  <2>4. CountCoversFull'
    BY <2>1, FS_EmptySet DEF CountCoversFull
  <2>. QED
    BY <2>1, <2>3, <2>4 DEF CanInv, NeverStranded, BoxesOnce, RefillFits
<1>7. CASE UNCHANGED vars
  BY <1>0, <1>7 DEF vars, driver, module, fifo, past, CanInv, TypeOK, CountCoversFull,
     NeverStranded, BoxesOnce, RefillFits, BusyBoxes
<1>. QED
  BY <1>1, <1>2, <1>3, <1>4, <1>5, <1>6, <1>7 DEF Next

(* The invariant holds in every behaviour.                                 *)
LEMMA CanInvHolds == Spec => []CanInv
BY InitCan, NextCan, PTL DEF Spec

(* Every variable of the driver keeps its type: CANtxCount, an unsigned    *)
(* number in the code, is never counted down below 0 by CO_CANinterrupt or *)
(* CO_CANclearPendingSyncPDOs.                                             *)
THEOREM TypeCorrect == Spec => []TypeOK
<1>1. CanInv => TypeOK
  BY DEF CanInv
<1>. QED
  BY CanInvHolds, <1>1, PTL

(* CANtxCount never says that less is waiting than is.                     *)
THEOREM CountHolds == Spec => []CountCoversFull
<1>1. CanInv => CountCoversFull
  BY DEF CanInv
<1>. QED
  BY CanInvHolds, <1>1, PTL

(* While a message waits, a frame is on its way or has ended unnoticed:    *)
(* the next poll that finds nothing received moves it (CO_CANinterrupt).   *)
THEOREM NothingStranded == Spec => []NeverStranded
<1>1. CanInv => NeverStranded
  BY DEF CanInv
<1>. QED
  BY CanInvHolds, <1>1, PTL

(* CO_CANinterrupt, which ignores what can_drv_tx answers, never takes a   *)
(* message out of its buffer that no mailbox can take.                     *)
THEOREM RefillsFit == Spec => []RefillFits
<1>1. CanInv => RefillFits
  BY DEF CanInv
<1>. QED
  BY CanInvHolds, <1>1, PTL

-----------------------------------------------------------------------------
(* Why no older message follows a newer one: a buffer holds the newest     *)
(* message of its object, ...                                              *)
BufferNewest ==
  /\ \A b \in Buffers : data[b] <= requests
  /\ \A i \in DOMAIN bus : bus[i][1] # Direct => bus[i][2] <= data[bus[i][1]]
  /\ \A k \in DOMAIN mail : mail[k].buf # Direct => mail[k].msg <= data[mail[k].buf]

(* ... the mailboxes hold nothing older than what was transmitted ...      *)
BusBeforeMail ==
  \A i \in DOMAIN bus, k \in DOMAIN mail :
    bus[i][1] = mail[k].buf /\ mail[k].buf # Direct => bus[i][2] <= mail[k].msg

(* ... and the messages of an object in the order of the requests.         *)
MailInOrder ==
  \A j, k \in DOMAIN mail :
    j < k /\ mail[j].buf = mail[k].buf /\ mail[k].buf # Direct => mail[j].msg <= mail[k].msg

OrderInv == CanInv /\ BufferNewest /\ BusBeforeMail /\ MailInOrder /\ NewestLast

(* The elements of the two sequences.                                      *)
LEMMA OrderTypes ==
  ASSUME TypeOK
  PROVE  /\ mail \in Seq(Frames) /\ DOMAIN mail = 1 .. Len(mail) /\ Len(mail) \in Nat
         /\ DOMAIN bus = 1 .. Len(bus) /\ Len(bus) \in Nat
         /\ bus \in Seq(({Direct} \union Buffers) \X Nat)
         /\ \A k \in DOMAIN mail : mail[k].buf \in {Direct} \union Buffers /\ mail[k].msg \in Nat
         /\ \A i \in DOMAIN bus : bus[i][1] \in {Direct} \union Buffers /\ bus[i][2] \in Nat
<1>1. mail \in Seq(Frames) /\ bus \in Seq(({Direct} \union Buffers) \X Nat)
  BY DEF TypeOK, Frames
<1>2. /\ DOMAIN mail = 1 .. Len(mail) /\ Len(mail) \in Nat
      /\ DOMAIN bus = 1 .. Len(bus) /\ Len(bus) \in Nat
  BY <1>1, LenProperties
<1>3. \A k \in DOMAIN mail : mail[k] \in Frames
  BY <1>1, <1>2, ElementOfSeq
<1>4. \A i \in DOMAIN bus : bus[i] \in ({Direct} \union Buffers) \X Nat
  BY <1>1, <1>2, ElementOfSeq
<1>. QED
  BY <1>1, <1>2, <1>3, <1>4 DEF Frames

(* A message enters the mailboxes, the newest of its object.               *)
LEMMA LoadOrder ==
  ASSUME OrderInv, NEW b \in {Direct} \union Buffers, NEW m \in Nat, NEW done, Load(b, m, done),
         data' \in [Buffers -> Nat], bus' = bus, requests' \in Nat, requests <= requests',
         \A c \in Buffers : data'[c] = IF c = b THEN m ELSE data[c],
         b # Direct => data[b] <= m /\ m <= requests'
  PROVE  BufferNewest' /\ BusBeforeMail' /\ MailInOrder' /\ NewestLast'
<1>. DEFINE frame == [box |-> LowestOf(FreeBoxes), buf |-> b, msg |-> m]
<1>1. mail' = Append(mail, frame) /\ frame.buf = b /\ frame.msg = m
  BY DEF Load
<1>. HIDE DEF frame
<1>2. /\ mail \in Seq(Frames) /\ DOMAIN mail = 1 .. Len(mail) /\ Len(mail) \in Nat
      /\ \A k \in DOMAIN mail : mail[k].buf \in {Direct} \union Buffers /\ mail[k].msg \in Nat
      /\ \A i \in DOMAIN bus : bus[i][1] \in {Direct} \union Buffers /\ bus[i][2] \in Nat
      /\ data \in [Buffers -> Nat] /\ requests \in Nat
  BY OrderTypes DEF OrderInv, CanInv, TypeOK
<1>3. /\ DOMAIN mail' = 1 .. Len(mail) + 1 /\ mail'[Len(mail) + 1] = frame
      /\ \A k \in DOMAIN mail : mail'[k] = mail[k]
  BY <1>1, <1>2
<1>4. \A k \in DOMAIN mail' : k \in DOMAIN mail \/ k = Len(mail) + 1
  BY <1>2, <1>3
<1>5. \A c \in Buffers : data[c] <= data'[c] /\ data[c] \in Nat /\ data'[c] \in Nat
  <2>1. \A c \in Buffers : c # Direct
    BY CanAssumption DEF Buffers, Direct
  <2>. QED
    BY <1>2, <2>1
<1>6. BufferNewest'
  <2>1. \A c \in Buffers : data'[c] <= requests'
    BY <1>2, <1>5, CanAssumption DEF OrderInv, BufferNewest, Buffers, Direct
  <2>2. \A i \in DOMAIN bus : bus[i][1] # Direct => bus[i][2] <= data'[bus[i][1]]
    BY <1>2, <1>5 DEF OrderInv, BufferNewest
  <2>3. ASSUME NEW k \in DOMAIN mail', mail'[k].buf # Direct
        PROVE  mail'[k].msg <= data'[mail'[k].buf]
    <3>1. CASE k \in DOMAIN mail
      BY <1>2, <1>3, <1>5, <2>3, <3>1 DEF OrderInv, BufferNewest
    <3>2. CASE k = Len(mail) + 1
      BY <1>1, <1>3, <1>5, <2>3, <3>2
    <3>. QED
      BY <1>4, <3>1, <3>2
  <2>. QED
    BY <2>1, <2>2, <2>3 DEF BufferNewest
<1>7. \A i \in DOMAIN bus : bus[i][1] = b /\ b # Direct => bus[i][2] <= m
  BY <1>2, <1>5 DEF OrderInv, BufferNewest
<1>8. \A k \in DOMAIN mail : mail[k].buf = b /\ b # Direct => mail[k].msg <= m
  BY <1>2, <1>5 DEF OrderInv, BufferNewest
<1>9. BusBeforeMail'
  BY <1>1, <1>3, <1>4, <1>7 DEF OrderInv, BusBeforeMail
<1>10. MailInOrder'
  <2>1. ASSUME NEW j \in DOMAIN mail', NEW k \in DOMAIN mail', j < k,
               mail'[j].buf = mail'[k].buf, mail'[k].buf # Direct
        PROVE  mail'[j].msg <= mail'[k].msg
    <3>1. j \in DOMAIN mail
      BY <1>2, <1>3, <2>1
    <3>2. CASE k \in DOMAIN mail
      BY <1>3, <2>1, <3>1, <3>2 DEF OrderInv, MailInOrder
    <3>3. CASE k = Len(mail) + 1
      BY <1>1, <1>3, <1>8, <2>1, <3>1, <3>3
    <3>. QED
      BY <1>4, <3>2, <3>3
  <2>. QED
    BY <2>1 DEF MailInOrder
<1>11. NewestLast'
  BY DEF OrderInv, NewestLast
<1>. QED
  BY <1>6, <1>9, <1>10, <1>11

(* The oldest frame goes from the mailboxes to the bus.                    *)
LEMMA BusOrder ==
  ASSUME OrderInv, 1 \in DOMAIN mail, UNCHANGED <<data, requests>>,
         bus' = Append(bus, <<mail[1].buf, mail[1].msg>>),
         NEW rest, mail' = rest,
         \/ rest = <<>>
         \/ DOMAIN rest = 1 .. Len(mail) - 1 /\ \A i \in 1 .. Len(mail) - 1 : rest[i] = mail[i + 1]
  PROVE  BufferNewest' /\ BusBeforeMail' /\ MailInOrder' /\ NewestLast'
<1>1. /\ DOMAIN mail = 1 .. Len(mail) /\ Len(mail) \in Nat
      /\ DOMAIN bus = 1 .. Len(bus) /\ Len(bus) \in Nat
      /\ bus \in Seq(({Direct} \union Buffers) \X Nat)
      /\ \A k \in DOMAIN mail : mail[k].buf \in {Direct} \union Buffers /\ mail[k].msg \in Nat
      /\ \A i \in DOMAIN bus : bus[i][1] \in {Direct} \union Buffers /\ bus[i][2] \in Nat
      /\ data \in [Buffers -> Nat] /\ requests \in Nat
  BY OrderTypes DEF OrderInv, CanInv, TypeOK
<1>. DEFINE frame == <<mail[1].buf, mail[1].msg>>
<1>2. frame \in ({Direct} \union Buffers) \X Nat /\ frame[1] = mail[1].buf /\ frame[2] = mail[1].msg
  BY <1>1
<1>. HIDE DEF frame
<1>3. /\ DOMAIN bus' = 1 .. Len(bus) + 1 /\ bus'[Len(bus) + 1] = frame
      /\ \A i \in DOMAIN bus : bus'[i] = bus[i]
  BY <1>1, <1>2 DEF frame
<1>4. \A i \in DOMAIN bus' : i \in DOMAIN bus \/ i = Len(bus) + 1
  BY <1>1, <1>3
<1>5. \A k \in DOMAIN mail' : 1 < k + 1 /\ k + 1 \in DOMAIN mail /\ mail'[k] = mail[k + 1] /\ k \in Nat
  BY <1>1
<1>6. BufferNewest'
  <2>1. \A i \in DOMAIN bus' : bus'[i][1] # Direct => bus'[i][2] <= data[bus'[i][1]]
    BY <1>2, <1>3, <1>4 DEF OrderInv, BufferNewest
  <2>2. \A k \in DOMAIN mail' : mail'[k].buf # Direct => mail'[k].msg <= data[mail'[k].buf]
    BY <1>5 DEF OrderInv, BufferNewest
  <2>. QED
    BY <2>1, <2>2 DEF OrderInv, BufferNewest
<1>7. BusBeforeMail'
  <2>1. ASSUME NEW i \in DOMAIN bus', NEW k \in DOMAIN mail',
               bus'[i][1] = mail'[k].buf, mail'[k].buf # Direct
        PROVE  bus'[i][2] <= mail'[k].msg
    <3>1. CASE i \in DOMAIN bus
      BY <1>3, <1>5, <2>1, <3>1 DEF OrderInv, BusBeforeMail
    <3>2. CASE i = Len(bus) + 1
      BY <1>2, <1>3, <1>5, <2>1, <3>2 DEF OrderInv, MailInOrder
    <3>. QED
      BY <1>4, <3>1, <3>2
  <2>. QED
    BY <2>1 DEF BusBeforeMail
<1>8. MailInOrder'
  <2>1. ASSUME NEW j \in DOMAIN mail', NEW k \in DOMAIN mail', j < k,
               mail'[j].buf = mail'[k].buf, mail'[k].buf # Direct
        PROVE  mail'[j].msg <= mail'[k].msg
    <3>1. j + 1 < k + 1 /\ j + 1 \in DOMAIN mail /\ k + 1 \in DOMAIN mail
      BY <1>5, <2>1
    <3>. QED
      BY <1>5, <2>1, <3>1 DEF OrderInv, MailInOrder
  <2>. QED
    BY <2>1 DEF MailInOrder
<1>9. NewestLast'
  <2>1. ASSUME NEW i \in DOMAIN bus', NEW j \in DOMAIN bus', i < j,
               bus'[i][1] = bus'[j][1], bus'[i][1] # Direct
        PROVE  bus'[i][2] <= bus'[j][2]
    <3>1. i \in DOMAIN bus
      BY <1>1, <1>3, <2>1
    <3>2. CASE j \in DOMAIN bus
      BY <1>3, <2>1, <3>1, <3>2 DEF OrderInv, NewestLast
    <3>3. CASE j = Len(bus) + 1
      BY <1>2, <1>3, <2>1, <3>1, <3>3 DEF OrderInv, BusBeforeMail
    <3>. QED
      BY <1>4, <3>2, <3>3
  <2>. QED
    BY <2>1 DEF NewestLast
<1>. QED
  BY <1>6, <1>7, <1>8, <1>9

(* The buffers get newer, or the mailboxes are emptied.                    *)
LEMMA KeepOrder ==
  ASSUME OrderInv, bus' = bus, mail' \in {mail, <<>>},
         data' \in [Buffers -> Nat], requests' \in Nat,
         \A c \in Buffers : data[c] <= data'[c] /\ data'[c] <= requests'
  PROVE  BufferNewest' /\ BusBeforeMail' /\ MailInOrder' /\ NewestLast'
<1>1. /\ \A k \in DOMAIN mail : mail[k].buf \in {Direct} \union Buffers /\ mail[k].msg \in Nat
      /\ \A i \in DOMAIN bus : bus[i][1] \in {Direct} \union Buffers /\ bus[i][2] \in Nat
      /\ data \in [Buffers -> Nat]
  BY OrderTypes DEF OrderInv, CanInv, TypeOK
<1>2. \A k \in DOMAIN mail' : k \in DOMAIN mail /\ mail'[k] = mail[k]
  BY EmptySeq
<1>3. BufferNewest'
  <2>1. \A i \in DOMAIN bus : bus[i][1] # Direct => bus[i][2] <= data'[bus[i][1]]
    BY <1>1 DEF OrderInv, BufferNewest
  <2>2. \A k \in DOMAIN mail' : mail'[k].buf # Direct => mail'[k].msg <= data'[mail'[k].buf]
    BY <1>1, <1>2 DEF OrderInv, BufferNewest
  <2>. QED
    BY <2>1, <2>2 DEF BufferNewest
<1>4. BusBeforeMail' /\ MailInOrder' /\ NewestLast'
  BY <1>2 DEF OrderInv, BusBeforeMail, MailInOrder, NewestLast
<1>. QED
  BY <1>3, <1>4

(* CO_CANsend numbers a message above all others.                          *)
LEMMA SendOrder ==
  ASSUME OrderInv, NEW b \in Buffers, CO_CANsend(b)
  PROVE  BufferNewest' /\ BusBeforeMail' /\ MailInOrder' /\ NewestLast'
<1>1. /\ requests \in Nat /\ data \in [Buffers -> Nat] /\ requests' = requests + 1
      /\ data' = [data EXCEPT ![b] = requests + 1] /\ bus' = bus
      /\ \A c \in Buffers : data[c] <= requests
  BY DEF OrderInv, CanInv, TypeOK, BufferNewest, CO_CANsend
<1>2. /\ data' \in [Buffers -> Nat] /\ requests' \in Nat /\ requests + 1 \in Nat
      /\ \A c \in Buffers : data'[c] = IF c = b THEN requests + 1 ELSE data[c]
      /\ requests <= requests' /\ data[b] <= requests + 1 /\ requests + 1 <= requests'
      /\ b \in {Direct} \union Buffers
  BY <1>1
<1>3. CASE FreeBoxes # {}
  <2>1. Load(b, requests + 1, rqcp)
    BY <1>3 DEF CO_CANsend
  <2>. QED
    BY <1>1, <1>2, <2>1, LoadOrder
<1>4. CASE FreeBoxes = {}
  <2>1. mail' = mail
    BY <1>4 DEF CO_CANsend, module
  <2>2. \A c \in Buffers : data[c] <= data'[c] /\ data'[c] <= requests'
    BY <1>1, <1>2
  <2>. QED
    BY <1>1, <1>2, <2>1, <2>2, KeepOrder
<1>. QED
  BY <1>3, <1>4

(* Refill sends what is in the buffer now, not what was left.              *)
LEMMA RefillOrder ==
  ASSUME OrderInv, Refill
  PROVE  BufferNewest' /\ BusBeforeMail' /\ MailInOrder' /\ NewestLast'
<1>1. /\ UNCHANGED <<data, requests, bus>> /\ requests \in Nat /\ data \in [Buffers -> Nat]
      /\ \A c \in Buffers : data[c] <= requests /\ data[c] \in Nat
  BY DEF OrderInv, CanInv, TypeOK, BufferNewest, Refill, past
<1>2. CASE CANtxCount > 0 /\ full # {} /\ FreeBoxes # {}
  <2>1. Load(Waiting, data[Waiting], {})
    BY <1>2 DEF Refill, Released
  <2>2. Waiting \in Buffers
    <3>1. full \in SUBSET Nat /\ full \subseteq Buffers
      BY CanAssumption DEF OrderInv, CanInv, TypeOK, Buffers
    <3>. QED
      BY <1>2, <3>1, LowestIn DEF Waiting
  <2>3. /\ Waiting \in {Direct} \union Buffers /\ data[Waiting] \in Nat
        /\ data[Waiting] <= data[Waiting] /\ data[Waiting] <= requests' /\ requests <= requests'
        /\ \A c \in Buffers : data'[c] = IF c = Waiting THEN data[Waiting] ELSE data[c]
    BY <1>1, <2>2
  <2>. QED
    BY <1>1, <2>1, <2>3, LoadOrder
<1>3. CASE ~(CANtxCount > 0 /\ full # {} /\ FreeBoxes # {})
  <2>1. mail' = mail
    BY <1>3 DEF Refill
  <2>. QED
    BY <1>1, <2>1, KeepOrder
<1>. QED
  BY <1>2, <1>3

(* An abort lets the oldest frame through or none.                         *)
LEMMA ClearOrder ==
  ASSUME OrderInv, CO_CANclearPendingSyncPDOs
  PROVE  BufferNewest' /\ BusBeforeMail' /\ MailInOrder' /\ NewestLast'
<1>. DEFINE Aborts == mail # <<>> /\ bufferInhibitFlag
            Sent(n) == [k \in 1 .. n |-> <<mail[k].buf, mail[k].msg>>]
<1>1. /\ UNCHANGED <<data, requests>> /\ requests \in Nat /\ data \in [Buffers -> Nat]
      /\ \A c \in Buffers : data[c] <= requests /\ data[c] \in Nat
  BY DEF OrderInv, CanInv, TypeOK, BufferNewest, CO_CANclearPendingSyncPDOs
<1>2. CASE ~Aborts
  <2>1. mail' = mail /\ bus' = bus
    BY <1>2 DEF CO_CANclearPendingSyncPDOs, module
  <2>. QED
    BY <1>1, <2>1, KeepOrder
<1>3. CASE Aborts
  <2>1. mail' = <<>> /\ \E n \in {0, 1} : bus' = bus \o Sent(n)
    BY <1>3 DEF CO_CANclearPendingSyncPDOs
  <2>2. /\ mail \in Seq(Frames) /\ bus \in Seq(({Direct} \union Buffers) \X Nat)
        /\ 1 \in DOMAIN mail
        /\ <<mail[1].buf, mail[1].msg>> \in ({Direct} \union Buffers) \X Nat
    <3>1. mail # <<>> /\ TypeOK
      BY <1>3 DEF OrderInv, CanInv
    <3>2. Len(mail) # 0
      BY <3>1, OrderTypes, EmptySeq
    <3>. QED
      BY <3>1, <3>2, OrderTypes
  <2>3. CASE bus' = bus \o Sent(0)
    <3>1. Sent(0) = <<>>
      BY SMT
    <3>2. bus' = bus
      BY <2>2, <2>3, <3>1, ConcatEmptySeq
    <3>. QED
      BY <1>1, <2>1, <3>2, KeepOrder
  <2>4. CASE bus' = bus \o Sent(1)
    <3>1. Sent(1) = << <<mail[1].buf, mail[1].msg>> >>
      BY SMT
    <3>2. bus' = Append(bus, <<mail[1].buf, mail[1].msg>>)
      BY <2>2, <2>4, <3>1, AppendIsConcat
    <3>. QED
      BY <1>1, <2>1, <2>2, <3>2, BusOrder
  <2>. QED
    BY <2>1, <2>3, <2>4
<1>. QED
  BY <1>2, <1>3

(* The order is kept by every step.                                        *)
LEMMA NextOrder == OrderInv /\ [Next]_vars => OrderInv'
<1>. SUFFICES ASSUME OrderInv, [Next]_vars
              PROVE  BufferNewest' /\ BusBeforeMail' /\ MailInOrder' /\ NewestLast'
  BY NextCan DEF OrderInv
<1>0. /\ requests \in Nat /\ data \in [Buffers -> Nat] /\ mail \in Seq(Frames)
      /\ \A c \in Buffers : data[c] <= requests /\ data[c] \in Nat
  BY OrderTypes DEF OrderInv, CanInv, TypeOK, BufferNewest
<1>1. ASSUME NEW b \in Buffers, CO_CANsend(b)
      PROVE  BufferNewest' /\ BusBeforeMail' /\ MailInOrder' /\ NewestLast'
  BY <1>1, SendOrder
<1>2. CASE co_drv_send_ex
  <2>1. /\ requests' = requests + 1 /\ Load(Direct, requests + 1, rqcp)
        /\ UNCHANGED <<data, bus>>
    BY <1>2 DEF co_drv_send_ex, driver
  <2>2. /\ requests' \in Nat /\ requests + 1 \in Nat /\ requests <= requests'
        /\ Direct \in {Direct} \union Buffers /\ data' \in [Buffers -> Nat]
        /\ \A c \in Buffers : data'[c] = IF c = Direct THEN requests + 1 ELSE data[c]
    BY <1>0, <2>1, CanAssumption DEF Buffers, Direct
  <2>. QED
    BY <2>1, <2>2, LoadOrder
<1>3. CASE Transmit
  <2>1. /\ 1 \in DOMAIN mail /\ mail' = Without(1) /\ UNCHANGED <<data, requests>>
        /\ bus' = Append(bus, <<mail[1].buf, mail[1].msg>>)
    BY <1>3 DEF Transmit, IsNext, driver
  <2>2. /\ DOMAIN Without(1) = 1 .. Len(mail) - 1
        /\ \A i \in 1 .. Len(mail) - 1 : Without(1)[i] = mail[i + 1]
    BY <1>0, <2>1, WithoutFirst
  <2>. QED
    BY <2>1, <2>2, BusOrder
<1>4. CASE Refill
  BY <1>4, RefillOrder
<1>5. CASE CO_CANclearPendingSyncPDOs
  BY <1>5, ClearOrder
<1>6. CASE CO_CANmodule_init
  <2>1. mail' = <<>> /\ UNCHANGED <<data, requests, bus>>
    BY <1>6 DEF CO_CANmodule_init, past
  <2>. QED
    BY <1>0, <2>1, KeepOrder
<1>7. CASE Receive \/ TakeReceived
  <2>1. UNCHANGED <<data, requests, bus, mail>>
    BY <1>7, ReceptionEffect DEF OrderInv, CanInv
  <2>. QED
    BY <1>0, <2>1, KeepOrder
<1>8. CASE UNCHANGED vars
  <2>1. UNCHANGED <<data, requests, bus, mail>>
    BY <1>8 DEF vars, driver, module, past
  <2>. QED
    BY <1>0, <2>1, KeepOrder
<1>. QED
  BY <1>1, <1>2, <1>3, <1>4, <1>5, <1>6, <1>7, <1>8 DEF Next, CO_CANinterrupt

(* Nothing is requested, waiting or transmitted at the start.              *)
LEMMA InitOrder == Init => OrderInv
<1>. SUFFICES ASSUME Init PROVE OrderInv
  OBVIOUS
<1>1. CanInv
  BY InitCan
<1>2. /\ DOMAIN bus = {} /\ DOMAIN mail = {} /\ requests = 0
      /\ data = [b \in Buffers |-> 0]
  BY EmptySeq DEF Init
<1>. QED
  BY <1>1, <1>2 DEF OrderInv, BufferNewest, BusBeforeMail, MailInOrder, NewestLast

(* On the bus no message of an object is followed by an older one, however *)
(* its messages went: at once, from the buffer, both ways, or with an      *)
(* abort between (CO_CANsend, CO_CANinterrupt).                            *)
THEOREM OrderCorrect == Spec => []NewestLast
<1>1. OrderInv => NewestLast
  BY DEF OrderInv
<1>. QED
  BY InitOrder, NextOrder, <1>1, PTL DEF Spec
=============================================================================
