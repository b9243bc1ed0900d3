------------------------------- MODULE CanTx -------------------------------
(***************************************************************************)
(* Transmission of CAN messages (common/canopendriver/CO_driver_target.c   *)
(* and can_driver.c): CO_CANsend puts a message into a free mailbox of the *)
(* CAN module or leaves it in its buffer for CO_CANinterrupt, which the    *)
(* main loop polls.  The mailboxes are emptied by the bus, at any time and *)
(* in the order of the requests (TXFP); a mailbox that is done sets RQCP,  *)
(* which a new request clears.  Received frames wait in a FIFO of the      *)
(* module, and a poll that finds one there does nothing else: the mailboxes*)
(* are looked at only by a poll that finds the FIFO empty.                 *)
(*                                                                         *)
(* A buffer holds the newest message of one object (a TPDO, the SDO        *)
(* server, ...); messages are numbered in the order of the requests.       *)
(***************************************************************************)
EXTENDS Integers, Sequences, FiniteSets

CONSTANTS
  txSize,       (* number of buffers                                       *)
  SyncBuffers,  (* buffers with syncFlag: synchronous PDOs                 *)
  Mailboxes,    (* numbers of the mailboxes, the lowest free one is taken  *)
  RxDepth,      (* frames the receive FIFO holds                           *)
  MaxRequests   (* bound on the messages of a behaviour                    *)

Buffers == 1 .. txSize
Direct  == 0      (* in the place of a buffer: a message of co_drv_send_ex *)

ASSUME CanAssumption ==
  /\ txSize \in Nat /\ RxDepth \in Nat /\ SyncBuffers \subseteq Buffers /\ MaxRequests \in Nat
  /\ Mailboxes \in SUBSET Nat /\ IsFiniteSet(Mailboxes) /\ Mailboxes # {}

VARIABLES
  full,       (* the buffers with bufferFull                               *)
  data,       (* data[b]: the message in buffer b                          *)
  CANtxCount,
  bufferInhibitFlag,
  mail,       (* the busy mailboxes in the order of the bus                *)
  rqcp,       (* mailboxes whose RQCP is set                               *)
  pending,    (* frames in the receive FIFO (FMP0)                         *)
  overrun,    (* a frame found the FIFO full (FOVR0)                       *)
  requests,   (* history: the number of messages requested                 *)
  bus,        (* history: <<buffer, message>> as they were transmitted     *)
  aborted     (* history: messages taken out of mailboxes by an abort      *)

driver == <<full, data, CANtxCount, bufferInhibitFlag>>
module == <<mail, rqcp>>
fifo   == <<pending, overrun>>
past   == <<requests, bus, aborted>>
vars   == <<driver, module, fifo, past>>

Init ==
  /\ full = {} /\ data = [b \in Buffers |-> 0]
  /\ CANtxCount = 0 /\ bufferInhibitFlag = FALSE
  /\ mail = <<>> /\ rqcp = {} /\ pending = 0 /\ overrun = FALSE
  /\ requests = 0 /\ bus = <<>> /\ aborted = {}

-----------------------------------------------------------------------------
BusyBoxes == {mail[k].box : k \in DOMAIN mail}
(* The mailboxes can_drv_tx may take (mutant: TME is not looked at).       *)
FreeBoxes_Unchecked == Mailboxes
FreeBoxes == Mailboxes \ BusyBoxes
LowestOf(S) == CHOOSE x \in S : \A y \in S : x <= y

(* can_drv_tx of message m of buffer b when a mailbox is free: done is the *)
(* set of RQCP bits at that point.                                         *)
Load(b, m, done) ==
  LET box == LowestOf(FreeBoxes)
  IN /\ mail' = Append(mail, [box |-> box, buf |-> b, msg |-> m])
     /\ rqcp' = done \ {box}

(* CANtxCount after a message was left in its buffer (mutant: forgotten).  *)
Counted_Not == CANtxCount
Counted == CANtxCount + 1

(* CO_CANsend: while messages are waiting, a message goes to a free        *)
(* mailbox and is left in its buffer as well.                              *)
CO_CANsend(b) ==
  /\ requests < MaxRequests /\ requests' = requests + 1
  /\ data' = [data EXCEPT ![b] = requests + 1]
  /\ IF FreeBoxes # {} THEN Load(b, requests + 1, rqcp) ELSE UNCHANGED module
  /\ IF FreeBoxes # {} /\ CANtxCount = 0
     THEN bufferInhibitFlag' = (b \in SyncBuffers) /\ UNCHANGED <<full, CANtxCount>>
     ELSE /\ full' = full \union {b} /\ CANtxCount' = Counted
          /\ UNCHANGED bufferInhibitFlag
  /\ UNCHANGED <<fifo, bus, aborted>>

(* co_drv_send_ex: past the buffers, into a mailbox or nowhere.            *)
co_drv_send_ex ==
  /\ requests < MaxRequests /\ requests' = requests + 1
  /\ FreeBoxes # {} /\ Load(Direct, requests + 1, rqcp)
  /\ UNCHANGED <<driver, fifo, bus, aborted>>

(* The frame the bus takes next (mutant: TXFP is not set, any of them).    *)
IsNext_Any(k) == TRUE
IsNext(k) == k = 1

Without(k) == SubSeq(mail, 1, k - 1) \o SubSeq(mail, k + 1, Len(mail))

Transmit ==
  \E k \in DOMAIN mail :
    /\ IsNext(k)
    /\ bus' = Append(bus, <<mail[k].buf, mail[k].msg>>)
    /\ rqcp' = rqcp \union {mail[k].box} /\ mail' = Without(k)
    /\ UNCHANGED <<driver, fifo, requests, aborted>>

(* A frame of another node passes the filter, which lets all of them pass. *)
Receive ==
  /\ IF pending < RxDepth THEN pending' = pending + 1 /\ UNCHANGED overrun
                          ELSE overrun' = TRUE /\ UNCHANGED pending
  /\ UNCHANGED <<driver, module, past>>

(* The waiting buffer that is sent next.                                   *)
Waiting == LowestOf(full)

(* The RQCP bits after can_drv_release_tx_message: the write of one bit    *)
(* clears them all.                                                        *)
Released == {}

(* One frame is read, or no more than the overrun noted.                   *)
TakeReceived ==
  /\ pending > 0
  /\ IF overrun THEN overrun' = FALSE /\ UNCHANGED pending
                ELSE pending' = pending - 1 /\ UNCHANGED overrun
  /\ UNCHANGED <<driver, module, past>>

(* One waiting message is moved to a mailbox, lost if none is free.        *)
Refill ==
  /\ pending = 0 /\ rqcp # {}
  /\ IF CANtxCount > 0 /\ full # {}
     THEN /\ full' = full \ {Waiting} /\ CANtxCount' = CANtxCount - 1
          /\ bufferInhibitFlag' = (Waiting \in SyncBuffers)
          /\ IF FreeBoxes # {} THEN Load(Waiting, data[Waiting], Released)
                               ELSE rqcp' = Released /\ UNCHANGED mail
     ELSE /\ CANtxCount' = 0 /\ bufferInhibitFlag' = FALSE /\ rqcp' = Released
          /\ UNCHANGED <<full, mail>>
  /\ UNCHANGED <<data, fifo, past>>

(* One poll of the module by the main loop: reception comes first.         *)
CO_CANinterrupt == TakeReceived \/ Refill

(* The synchronous messages dropped from the buffers.                      *)
Dropped == IF CANtxCount > 0 THEN full \intersect SyncBuffers ELSE {}

(* The synchronous window has passed: all mailboxes are aborted if the     *)
(* flag is set, and what waits in the buffers is dropped.                  *)
CO_CANclearPendingSyncPDOs ==
  LET Aborts   == mail # <<>> /\ bufferInhibitFlag
      (* the frame on the bus may still get through                        *)
      Through(n) ==
        /\ bus' = bus \o [k \in 1 .. n |-> <<mail[k].buf, mail[k].msg>>]
        /\ aborted' = aborted \union {mail[k].buf : k \in n + 1 .. Len(mail)}
  IN /\ IF Aborts
        THEN /\ mail' = <<>> /\ rqcp' = rqcp \union BusyBoxes
             /\ bufferInhibitFlag' = FALSE
             /\ \E n \in {0, 1} : Through(n)
        ELSE UNCHANGED <<module, bufferInhibitFlag, bus, aborted>>
     /\ full' = full \ Dropped /\ CANtxCount' = CANtxCount - Cardinality(Dropped)
     /\ UNCHANGED <<data, fifo, requests>>

(* A communication reset: CO_CANmodule_disable resets the module, then     *)
(* CO_CANmodule_init and CO_CANtxBufferInit start over.                    *)
CO_CANmodule_init ==
  /\ full' = {} /\ CANtxCount' = 0 /\ bufferInhibitFlag' = FALSE
  /\ mail' = <<>> /\ rqcp' = {} /\ pending' = 0 /\ overrun' = FALSE
  /\ UNCHANGED <<data, past>>

Next ==
  \/ \E b \in Buffers : CO_CANsend(b)
  \/ co_drv_send_ex
  \/ Transmit \/ Receive \/ CO_CANinterrupt
  \/ CO_CANclearPendingSyncPDOs \/ CO_CANmodule_init

Spec == Init /\ [][Next]_vars

(* The bus takes the oldest frame at last (its arbitration is not lost for *)
(* ever) and the main loop polls the module for ever.  What a poll does is *)
(* not its choice: nothing here says that it ever gets to Refill.          *)
FairSpec == Spec /\ WF_vars(Transmit) /\ WF_vars(CO_CANinterrupt)

-----------------------------------------------------------------------------
(* Every variable has its type.                                            *)
TypeOK ==
  /\ full \subseteq Buffers /\ data \in [Buffers -> Nat]
  /\ CANtxCount \in Nat /\ bufferInhibitFlag \in BOOLEAN
  /\ mail \in Seq([box : Mailboxes, buf : {Direct} \union Buffers, msg : Nat])
  /\ rqcp \subseteq Mailboxes /\ pending \in 0 .. RxDepth /\ overrun \in BOOLEAN
  /\ requests \in 0 .. MaxRequests /\ bus \in Seq(({Direct} \union Buffers) \X Nat)
  /\ aborted \subseteq {Direct} \union Buffers

(* CANtxCount never says that less is waiting than is: with 0, neither     *)
(* CO_CANinterrupt nor CO_CANsend would look at the buffers.               *)
CountCoversFull == CANtxCount >= Cardinality(full)

(* A waiting message is never stranded: as long as there is one, a frame   *)
(* is on its way whose end will be noticed, or one has ended unnoticed.    *)
NeverStranded == full # {} => mail # <<>> \/ rqcp # {}

(* What CO_CANinterrupt takes out of its buffer finds a mailbox: an RQCP   *)
(* that is set tells of a mailbox that is free.                            *)
RefillFits == rqcp \intersect BusyBoxes = {}

(* No object's older message follows a newer one on the bus.               *)
NewestLast ==
  \A i, j \in DOMAIN bus :
    (i < j /\ bus[i][1] = bus[j][1] /\ bus[i][1] # Direct) => bus[i][2] <= bus[j][2]

(* The other nodes leave gaps in what is received, and polls meet them.    *)
BusLeavesGaps == []<>(pending = 0) /\ SF_vars(Refill)

(* When the senders pause and the bus leaves gaps, every buffer is emptied *)
(* (CO_CANinterrupt).  Without the gaps not: WaitingIsSent.                *)
Drains == BusLeavesGaps => <>[](full = {})

(* "Message will be then sent by CAN TX interrupt as soon as CAN module is *)
(* freed" (CO_driver.h:287): a message does not wait for ever.  The module *)
(* is polled, and frames received at every poll keep the message waiting.  *)
WaitingIsSent == \A b \in Buffers : (b \in full) ~> (b \notin full)

(* "message is copied directly to the CAN module. Otherwise CO_CANsend()   *)
(* function sets bufferFull flag" (CO_driver.h:286): no message goes both  *)
(* ways, and so none is transmitted twice.                                 *)
SentOnce == \A i, j \in DOMAIN bus : bus[i] = bus[j] => i = j

(* "If flag is true, then message in transmit buffer is synchronous PDO    *)
(* message, which will be aborted" (CO_driver.h:338): no other message is. *)
AbortsOnlySync == aborted \subseteq SyncBuffers
=============================================================================
