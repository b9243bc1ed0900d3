-------------------------- MODULE MqttQueueProofs --------------------------
(***************************************************************************)
(* Proofs about the MQTT publisher, for a ring of any size, any number of  *)
(* messages and any heap: the reconnect timer is unique, and the ring is a *)
(* queue whose oldest message is the one lwIP works on.                    *)
(***************************************************************************)
EXTENDS MqttQueue, SequenceTheorems, TLAPS

-----------------------------------------------------------------------------
(* Arithmetic on the slots of the ring.                                    *)
LEMMA SlotAt ==
  \A t \in Slots, i \in 0 .. MQTT_QUEUE_SIZE :
    /\ (t + i) % MQTT_QUEUE_SIZE \in Slots
    /\ (t + i) % MQTT_QUEUE_SIZE =
         IF t + i < MQTT_QUEUE_SIZE THEN t + i ELSE t + i - MQTT_QUEUE_SIZE
BY QueueAssumption, SMTT(30) DEF Slots

(* The tail is the slot of the oldest message.                             *)
LEMMA SlotItself == \A t \in Slots : (t + 0) % MQTT_QUEUE_SIZE = t
BY QueueAssumption, SMTT(30) DEF Slots

(* The slot after the last one is the first.                               *)
LEMMA SuccOf ==
  \A i \in Slots : /\ Succ(i) \in Slots
                   /\ Succ(i) = IF i = MQTT_QUEUE_SIZE - 1 THEN 0 ELSE i + 1
BY QueueAssumption, SMTT(30) DEF Succ, Slots

(* What "(head - tail) % MQTT_QUEUE_SIZE" is when it wraps.                *)
LEMMA Distance ==
  \A h, t \in Slots :
    (h - t) % MQTT_QUEUE_SIZE = IF h >= t THEN h - t ELSE h - t + MQTT_QUEUE_SIZE
BY QueueAssumption, SMTT(30) DEF Slots

(* The same of the ring itself.                                            *)
LEMMA LengthOf ==
  ASSUME head \in Slots, tail \in Slots
  PROVE  /\ Length \in Slots
         /\ Length = IF head >= tail THEN head - tail ELSE head - tail + MQTT_QUEUE_SIZE
BY QueueAssumption, Distance, SMTT(30) DEF Length, Slots

(* A message that enters the ring goes behind all others.                  *)
LEMMA PublishRing ==
  ASSUME TypeOK, HasRoom, tail' = tail, head' = Succ(head),
         storage' = [storage EXCEPT ![head] = accepted + 1]
  PROVE  /\ head' \in Slots /\ Length' = Length + 1
         /\ \A i \in 0 .. Length - 1 : Waiting(i)' = Waiting(i)
         /\ \A i \in {Length} : Waiting(i)' = accepted + 1
         /\ storage'[tail] = Waiting(0)'
<1>1. head \in Slots /\ tail \in Slots /\ Succ(head) # tail /\ MQTT_QUEUE_SIZE \in Nat
  BY QueueAssumption DEF TypeOK, HasRoom
<1>2. head' \in Slots
  BY <1>1, SuccOf
<1>3. Length' = IF head' >= tail' THEN head' - tail' ELSE head' - tail' + MQTT_QUEUE_SIZE
  BY <1>1, <1>2, Distance DEF Length
<1>4. Length \in Slots
      /\ Length = IF head >= tail THEN head - tail ELSE head - tail + MQTT_QUEUE_SIZE
  BY <1>1, LengthOf
<1>5. Length' = Length + 1
  BY <1>1, <1>3, <1>4, SuccOf DEF Slots
<1>6. ASSUME NEW i \in 0 .. Length - 1
      PROVE  Waiting(i)' = Waiting(i)
  <2>1. i \in 0 .. MQTT_QUEUE_SIZE
    BY <1>1, <1>4 DEF Slots
  <2>2. (tail + i) % MQTT_QUEUE_SIZE =
          IF tail + i < MQTT_QUEUE_SIZE THEN tail + i ELSE tail + i - MQTT_QUEUE_SIZE
    BY <1>1, <2>1, SlotAt
  <2>3. (tail + i) % MQTT_QUEUE_SIZE # head
    BY <1>1, <1>4, <2>2 DEF Slots
  <2>. QED
    BY <1>1, <2>3 DEF Waiting, TypeOK
<1>7. ASSUME NEW i \in {Length}
      PROVE  Waiting(i)' = accepted + 1
  <2>0. i \in 0 .. MQTT_QUEUE_SIZE
    BY <1>1, <1>4 DEF Slots
  <2>1. (tail + i) % MQTT_QUEUE_SIZE =
          IF tail + i < MQTT_QUEUE_SIZE THEN tail + i ELSE tail + i - MQTT_QUEUE_SIZE
    BY <1>1, <2>0, SlotAt
  <2>2. (tail' + i) % MQTT_QUEUE_SIZE = head
    BY <1>1, <1>4, <2>1 DEF Slots
  <2>. QED
    BY <1>1, <2>2 DEF Waiting, TypeOK
<1>8. storage'[tail] = Waiting(0)'
  BY <1>1, SlotItself DEF Waiting
<1>. QED
  BY <1>2, <1>5, <1>6, <1>7, <1>8

(* k messages leave the ring at its other end.                             *)
LEMMA PopRing ==
  ASSUME TypeOK, NEW k \in 1 .. Length, tail' = (tail + k) % MQTT_QUEUE_SIZE,
         UNCHANGED <<head, storage>>
  PROVE  /\ tail' \in Slots /\ Length' = Length - k
         /\ \A i \in 0 .. Length - k : Waiting(i)' = Waiting(i + k)
<1>1. head \in Slots /\ tail \in Slots /\ MQTT_QUEUE_SIZE \in Nat
  BY QueueAssumption DEF TypeOK
<1>2. Length \in Slots
      /\ Length = IF head >= tail THEN head - tail ELSE head - tail + MQTT_QUEUE_SIZE
  BY <1>1, LengthOf
<1>3. tail' \in Slots
      /\ tail' = IF tail + k < MQTT_QUEUE_SIZE THEN tail + k ELSE tail + k - MQTT_QUEUE_SIZE
  <2>1. k \in 0 .. MQTT_QUEUE_SIZE
    BY <1>1, <1>2 DEF Slots
  <2>. QED
    BY <1>1, <2>1, SlotAt
<1>4. Length' = IF head' >= tail' THEN head' - tail' ELSE head' - tail' + MQTT_QUEUE_SIZE
  BY <1>1, <1>3, Distance DEF Length
<1>5. Length' = Length - k
  BY <1>1, <1>2, <1>3, <1>4 DEF Slots
<1>6. ASSUME NEW i \in 0 .. Length - k
      PROVE  Waiting(i)' = Waiting(i + k)
  <2>1. i \in 0 .. MQTT_QUEUE_SIZE /\ i + k \in 0 .. MQTT_QUEUE_SIZE
    BY <1>1, <1>2 DEF Slots
  <2>2. (tail' + i) % MQTT_QUEUE_SIZE =
          IF tail' + i < MQTT_QUEUE_SIZE THEN tail' + i ELSE tail' + i - MQTT_QUEUE_SIZE
    BY <1>3, <2>1, SlotAt
  <2>3. (tail + (i + k)) % MQTT_QUEUE_SIZE =
          IF tail + (i + k) < MQTT_QUEUE_SIZE THEN tail + (i + k)
                                              ELSE tail + (i + k) - MQTT_QUEUE_SIZE
    BY <1>1, <2>1, SlotAt
  <2>4. (tail' + i) % MQTT_QUEUE_SIZE = (tail + (i + k)) % MQTT_QUEUE_SIZE
    BY <1>1, <1>2, <1>3, <2>1, <2>2, <2>3 DEF Slots
  <2>. QED
    BY <2>4 DEF Waiting
<1>. QED
  BY <1>3, <1>5, <1>6

-----------------------------------------------------------------------------
(* What mqtt_queue_send_next does with message m when no other request is  *)
(* pending: it is in flight, or nothing is.                                *)
LEMMA SendNextEffect ==
  ASSUME NEW m, mqtt_queue_send_next(m, {}), asserted \in BOOLEAN
  PROVE  /\ asserted' \in BOOLEAN
         /\ \/ /\ is_sending' = TRUE /\ pend_req_queue' = {m}
               /\ output' = Append(output, m) /\ handed' = m
            \/ /\ is_sending' \in BOOLEAN /\ pend_req_queue' = {}
               /\ UNCHANGED <<output, handed>>
BY DEF mqtt_queue_send_next, Handover, Refusal, NullClient

(* The parts of the invariant that depend on what is in flight, after such *)
(* a step.                                                                 *)
LEMMA InFlight ==
  ASSUME Length' \in Nat, accepted' \in Nat, NEW m \in Nat, NEW h \in Nat,
         accepted' - Length' = h,
         \/ /\ is_sending' = TRUE /\ pend_req_queue' = {m} /\ handed' = m
            /\ Length' > 0 /\ m = Waiting(0)' /\ m = accepted' - Length' + 1
         \/ is_sending' \in BOOLEAN /\ pend_req_queue' = {} /\ handed' = h
  PROVE  RequestIsOldest' /\ NothingSkipped' /\ HandedIsNext'
<1>1. CASE /\ is_sending' = TRUE /\ pend_req_queue' = {m} /\ handed' = m
           /\ Length' > 0 /\ m = Waiting(0)' /\ m = accepted' - Length' + 1
  BY <1>1 DEF RequestIsOldest, NothingSkipped, HandedIsNext
<1>2. CASE is_sending' \in BOOLEAN /\ pend_req_queue' = {} /\ handed' = h
  <2>1. RequestIsOldest' /\ pend_req_queue' \subseteq {handed'}
    BY <1>2 DEF RequestIsOldest
  <2>2. handed' = h
    BY <1>2
  <2>3. accepted' - Length' <= handed' /\ ~(handed' > accepted' - Length')
    <3>1. \A a, l, n \in Nat : a - l = n => a - l <= n /\ ~(n > a - l)
      OBVIOUS
    <3>. QED
      BY <2>2, <3>1, Zenon
  <2>. QED
    BY <2>1, <2>3 DEF NothingSkipped, HandedIsNext
<1>. QED
  BY <1>1, <1>2

(* The initial ring is empty.                                              *)
LEMMA InitRing == Init => TypeOK /\ RingInv
<1>. SUFFICES ASSUME Init PROVE TypeOK /\ RingInv
  OBVIOUS
<1>1. TypeOK
  <2>1. /\ storage \in [Slots -> 0 .. MaxMsg] /\ head \in Slots /\ tail \in Slots
        /\ timers \in Nat /\ clients \in 1 .. Heap
        /\ accepted \in 0 .. MaxMsg /\ handed \in 0 .. MaxMsg
    BY QueueAssumption DEF Init, Slots
  <2>2. output \in Seq(1 .. MaxMsg) /\ received \in Seq(1 .. MaxMsg)
    BY DEF Init
  <2>3. /\ is_sending \in BOOLEAN /\ static_client \in BOOLEAN /\ asserted \in BOOLEAN
        /\ pend_req_queue \subseteq 1 .. MaxMsg
        /\ conn_state \in {"down", "tcp", "mqtt", "up"}
    BY DEF Init
  <2>. QED
    BY <2>1, <2>2, <2>3 DEF TypeOK
<1>2. Length = 0
  BY <1>1, LengthOf DEF Init, TypeOK
<1>. QED
  BY <1>1, <1>2 DEF Init, RingInv, RingIsFifo, RequestIsOldest, NothingSkipped, HandedIsNext

(* A publication.                                                          *)
LEMMA PublishKeepsRing ==
  ASSUME TypeOK, RingInv, mqtt_queue_publish
  PROVE  TypeOK' /\ RingInv'
<1>1. /\ tail' = tail /\ head' = Succ(head) /\ accepted' = accepted + 1
      /\ storage' = [storage EXCEPT ![head] = accepted + 1]
      /\ HasRoom /\ accepted \in Nat /\ accepted' \in 0 .. MaxMsg /\ MaxMsg \in Nat
      /\ UNCHANGED <<lwip, received>>
  BY QueueAssumption DEF mqtt_queue_publish, TypeOK
<1>2. /\ head' \in Slots /\ Length' = Length + 1
      /\ \A i \in 0 .. Length - 1 : Waiting(i)' = Waiting(i)
      /\ \A i \in {Length} : Waiting(i)' = accepted + 1
      /\ storage'[tail] = Waiting(0)'
  BY <1>1, PublishRing
<1>3. Length \in Nat /\ Length <= accepted
  BY LengthOf, QueueAssumption DEF TypeOK, RingInv, Slots
<1>4. RingIsFifo'
  <2>1. ASSUME NEW i \in 0 .. Length' - 1
        PROVE  Waiting(i)' = accepted' - Length' + 1 + i
    <3>1. CASE i = Length
      BY <1>1, <1>2, <1>3, <3>1
    <3>2. CASE i # Length
      <4>1. i \in 0 .. Length - 1
        BY <1>2, <1>3, <3>2
      <4>2. Waiting(i) = accepted - Length + 1 + i
        BY <4>1 DEF RingInv, RingIsFifo
      <4>. QED
        BY <1>1, <1>2, <1>3, <4>1, <4>2
    <3>. QED
      BY <3>1, <3>2
  <2>. QED
    BY <2>1 DEF RingIsFifo
<1>5. storage'[tail] = accepted' - Length' + 1 /\ storage'[tail] \in 1 .. MaxMsg
  <2>1. 0 \in 0 .. Length' - 1
    BY <1>2, <1>3
  <2>2. Waiting(0)' = accepted' - Length' + 1 + 0
    BY <1>4, <2>1 DEF RingIsFifo
  <2>. QED
    BY <1>1, <1>2, <1>3, <2>2
<1>6. storage' \in [Slots -> 0 .. MaxMsg]
  BY <1>1 DEF TypeOK
<1>7. CASE is_sending
  <2>1. UNCHANGED <<is_sending, pend_req_queue, output, handed, asserted>>
    BY <1>7 DEF mqtt_queue_publish, Busy
  <2>2. TypeOK'
    BY <1>1, <1>2, <1>6, <2>1 DEF TypeOK, lwip
  <2>3. RequestIsOldest'
    <3>1. ASSUME NEW m \in pend_req_queue
          PROVE  is_sending' /\ Length' > 0 /\ m = Waiting(0)'
      <4>1. is_sending /\ Length > 0 /\ m = Waiting(0)
        BY DEF RingInv, RequestIsOldest
      <4>2. 0 \in 0 .. Length - 1
        BY <1>3, <4>1
      <4>. QED
        BY <1>2, <1>3, <2>1, <4>1, <4>2
    <3>. QED
      BY <2>1, <3>1 DEF RequestIsOldest
  <2>4. NothingSkipped' /\ HandedIsNext'
    <3>1. accepted' - Length' = accepted - Length
      BY <1>1, <1>2, <1>3
    <3>. QED
      BY <2>1, <3>1 DEF RingInv, NothingSkipped, HandedIsNext
  <2>. QED
    BY <1>1, <1>2, <1>3, <1>4, <2>2, <2>3, <2>4 DEF RingInv
<1>8. CASE ~is_sending
  <2>1. pend_req_queue = {}
    BY <1>8 DEF RingInv, RequestIsOldest
  <2>2. mqtt_queue_send_next(storage'[tail], {})
    BY <1>8, <2>1 DEF mqtt_queue_publish, Busy
  <2>3. PICK m \in 1 .. MaxMsg : m = storage'[tail]
    BY <1>5
  <2>4. mqtt_queue_send_next(m, {}) /\ asserted \in BOOLEAN
    BY <2>2, <2>3 DEF TypeOK
  <2>5. /\ asserted' \in BOOLEAN
        /\ \/ /\ is_sending' = TRUE /\ pend_req_queue' = {m}
              /\ output' = Append(output, m) /\ handed' = m
           \/ /\ is_sending' \in BOOLEAN /\ pend_req_queue' = {}
              /\ UNCHANGED <<output, handed>>
    BY <2>4, SendNextEffect
  <2>6. TypeOK'
    <3>1. output' \in Seq(1 .. MaxMsg) /\ handed' \in 0 .. MaxMsg
      <4>1. output \in Seq(1 .. MaxMsg) /\ handed \in 0 .. MaxMsg
        BY DEF TypeOK
      <4>2. CASE output' = Append(output, m) /\ handed' = m
        BY <4>1, <4>2
      <4>3. CASE UNCHANGED <<output, handed>>
        BY <4>1, <4>3
      <4>. QED
        BY <2>5, <4>2, <4>3
    <3>2. pend_req_queue' \subseteq 1 .. MaxMsg
      BY <2>5
    <3>3. is_sending' \in BOOLEAN /\ asserted' \in BOOLEAN
      BY <2>5
    <3>. QED
      BY <1>1, <1>2, <1>6, <3>1, <3>2, <3>3 DEF TypeOK, lwip
  <2>7. handed = accepted - Length /\ handed \in Nat
    BY <1>1, <1>3, <1>8 DEF RingInv, NothingSkipped, HandedIsNext, TypeOK
  <2>8. RequestIsOldest' /\ NothingSkipped' /\ HandedIsNext'
    <3>1. Length' \in Nat /\ accepted' \in Nat /\ m \in Nat /\ accepted' - Length' = handed
      BY <1>1, <1>2, <1>3, <2>7
    <3>2. Length' > 0 /\ m = Waiting(0)' /\ m = accepted' - Length' + 1
      BY <1>2, <1>3, <1>5, <2>3
    <3>. QED
      BY <2>5, <2>7, <3>1, <3>2, InFlight
  <2>. QED
    BY <1>1, <1>2, <1>3, <1>4, <2>6, <2>8 DEF RingInv
<1>. QED
  BY <1>7, <1>8

(* What is left after k messages have left the ring is still a queue.      *)
LEMMA PopKeepsFifo ==
  ASSUME TypeOK, RingInv, NEW k \in 1 .. Length, tail' = (tail + k) % MQTT_QUEUE_SIZE,
         UNCHANGED <<head, storage, accepted>>
  PROVE  /\ tail' \in Slots /\ Length' = Length - k /\ Length' <= accepted'
         /\ Length \in Nat /\ accepted \in 0 .. MaxMsg /\ Length <= accepted /\ MaxMsg \in Nat
         /\ RingIsFifo'
         /\ Length' > 0 => /\ Waiting(k) = Waiting(0)'
                           /\ Waiting(k) = accepted' - Length' + 1
<1>1. Length \in Nat /\ Length <= accepted /\ accepted \in 0 .. MaxMsg /\ MaxMsg \in Nat
  BY LengthOf, QueueAssumption DEF TypeOK, RingInv, Slots
<1>2. /\ tail' \in Slots /\ Length' = Length - k
      /\ \A i \in 0 .. Length - k : Waiting(i)' = Waiting(i + k)
  BY PopRing
<1>3. accepted' = accepted
  OBVIOUS
<1>4. ASSUME NEW i \in 0 .. Length' - 1
      PROVE  /\ Waiting(i)' = Waiting(i + k)
             /\ Waiting(i)' = accepted' - Length' + 1 + i
  <2>1. i \in 0 .. Length - k /\ i + k \in 0 .. Length - 1
    BY <1>1, <1>2
  <2>2. Waiting(i + k) = accepted - Length + 1 + (i + k)
    BY <2>1 DEF RingInv, RingIsFifo
  <2>. QED
    BY <1>1, <1>2, <1>3, <2>1, <2>2
<1>5. RingIsFifo'
  BY <1>4 DEF RingIsFifo
<1>6. ASSUME Length' > 0
      PROVE  Waiting(k) = Waiting(0)' /\ Waiting(k) = accepted' - Length' + 1
  <2>1. 0 \in 0 .. Length' - 1 /\ 0 + k = k
    BY <1>1, <1>2, <1>6
  <2>2. Waiting(0)' = Waiting(0 + k) /\ Waiting(0)' = accepted' - Length' + 1 + 0
    BY <1>4, <2>1
  <2>. QED
    BY <1>1, <1>2, <1>3, <2>1, <2>2
<1>. QED
  BY <1>1, <1>2, <1>3, <1>5, <1>6

(* What a due callback says of the state it finds.                         *)
LEMMA Due ==
  ASSUME TypeOK, RingInv, NEW m \in pend_req_queue
  PROVE  /\ Length > 0 /\ pend_req_queue = {m}
         /\ m = handed /\ handed = accepted - Length + 1
<1>1. Length > 0 /\ m = Waiting(0) /\ pend_req_queue = {m} /\ m = handed
  BY DEF RingInv, RequestIsOldest, HandedIsNext
<1>2. Length \in Nat /\ accepted \in Nat
  BY LengthOf, QueueAssumption DEF TypeOK, Slots
<1>3. 0 \in 0 .. Length - 1
  BY <1>1, <1>2
<1>4. Waiting(0) = accepted - Length + 1 + 0
  BY <1>3 DEF RingInv, RingIsFifo
<1>. QED
  BY <1>1, <1>2, <1>4

(* The callback of a request.                                              *)
LEMMA CallbackKeepsRing ==
  ASSUME TypeOK, RingInv, NEW m \in pend_req_queue, mqtt_pub_request_cb(m)
  PROVE  TypeOK' /\ RingInv'
<1>1. /\ Length > 0 /\ pend_req_queue \ {m} = {}
      /\ handed \in Nat /\ handed = accepted - Length + 1
  BY Due DEF TypeOK
<1>2. /\ tail' = (tail + 1) % MQTT_QUEUE_SIZE
      /\ UNCHANGED <<head, storage, accepted, lwip, received>>
  BY DEF mqtt_pub_request_cb, Succ
<1>3. 1 \in 1 .. Length
  BY <1>1, LengthOf, QueueAssumption DEF TypeOK, Slots
<1>4. /\ tail' \in Slots /\ Length' = Length - 1 /\ Length' <= accepted'
      /\ Length \in Nat /\ accepted \in 0 .. MaxMsg /\ Length <= accepted /\ MaxMsg \in Nat
      /\ RingIsFifo'
      /\ Length' > 0 => /\ Waiting(1) = Waiting(0)'
                        /\ Waiting(1) = accepted' - Length' + 1
  BY <1>2, <1>3, PopKeepsFifo
<1>5. /\ Length' \in Nat /\ accepted' \in Nat /\ accepted' = accepted
      /\ accepted' - Length' = handed
  BY <1>1, <1>2, <1>3, <1>4
<1>6. storage' \in [Slots -> 0 .. MaxMsg] /\ head' \in Slots
  BY <1>2 DEF TypeOK
<1>7. CASE Length = 1
  <2>1. /\ is_sending' = FALSE /\ pend_req_queue' = {}
        /\ UNCHANGED <<output, handed, asserted>>
    BY <1>1, <1>7 DEF mqtt_pub_request_cb, Refusal
  <2>2. TypeOK'
    BY <1>2, <1>4, <1>6, <2>1 DEF TypeOK, lwip
  <2>3. is_sending' \in BOOLEAN /\ pend_req_queue' = {} /\ handed' = handed
    BY <2>1
  <2>4. RequestIsOldest' /\ NothingSkipped' /\ HandedIsNext'
    BY <1>1, <1>5, <2>3, InFlight
  <2>. QED
    BY <1>4, <2>2, <2>4 DEF RingInv
<1>8. CASE Length # 1
  <2>1. Length' > 0
    BY <1>1, <1>4, <1>8
  <2>2. Waiting(1) = Waiting(0)' /\ Waiting(1) = accepted' - Length' + 1
    BY <1>4, <2>1
  <2>3. Waiting(1) \in 1 .. MaxMsg
    BY <1>4, <1>5, <2>1, <2>2
  <2>4. PICK n \in 1 .. MaxMsg : n = Waiting(1)
    BY <2>3
  <2>5. mqtt_queue_send_next(n, {}) /\ asserted \in BOOLEAN
    BY <1>1, <1>8, <2>4 DEF mqtt_pub_request_cb, TypeOK
  <2>6. /\ asserted' \in BOOLEAN
        /\ \/ /\ is_sending' = TRUE /\ pend_req_queue' = {n}
              /\ output' = Append(output, n) /\ handed' = n
           \/ /\ is_sending' \in BOOLEAN /\ pend_req_queue' = {}
              /\ UNCHANGED <<output, handed>>
    BY <2>5, SendNextEffect
  <2>7. TypeOK'
    <3>1. output' \in Seq(1 .. MaxMsg) /\ handed' \in 0 .. MaxMsg
      <4>1. output \in Seq(1 .. MaxMsg) /\ handed \in 0 .. MaxMsg
        BY DEF TypeOK
      <4>2. CASE output' = Append(output, n) /\ handed' = n
        BY <4>1, <4>2
      <4>3. CASE UNCHANGED <<output, handed>>
        BY <4>1, <4>3
      <4>. QED
        BY <2>6, <4>2, <4>3
    <3>2. pend_req_queue' \subseteq 1 .. MaxMsg
      BY <2>6
    <3>3. is_sending' \in BOOLEAN /\ asserted' \in BOOLEAN
      BY <2>6
    <3>. QED
      BY <1>2, <1>4, <1>6, <3>1, <3>2, <3>3 DEF TypeOK, lwip
  <2>8. RequestIsOldest' /\ NothingSkipped' /\ HandedIsNext'
    <3>1. n \in Nat /\ n = Waiting(0)' /\ n = accepted' - Length' + 1
      BY <2>2, <2>4
    <3>. QED
      BY <1>1, <1>5, <2>1, <2>6, <3>1, InFlight
  <2>. QED
    BY <1>4, <2>7, <2>8 DEF RingInv
<1>. QED
  BY <1>7, <1>8

(* Completions that TCP brings: up to k messages at once.                  *)
LEMMA SentKeepsRing ==
  ASSUME TypeOK, RingInv, NEW k \in 1 .. MQTT_QUEUE_SIZE, TcpSent(k)
  PROVE  TypeOK' /\ RingInv'
<1>. DEFINE gone == [i \in 1 .. k - 1 |-> Waiting(i)]
<1>1. k \in 1 .. Length /\ tail' = (tail + k) % MQTT_QUEUE_SIZE
      /\ UNCHANGED <<storage, head, lwip, accepted, received, asserted>>
  BY DEF TcpSent, past
<1>2. PICK m \in pend_req_queue : m \notin Confirmed
  BY DEF TcpSent
<1>3. /\ Length > 0 /\ pend_req_queue = {m}
      /\ m = handed /\ handed = accepted - Length + 1
  BY Due
<1>4. pend_req_queue \intersect Confirmed = {}
  BY <1>2, <1>3
<1>5. /\ tail' \in Slots /\ Length' = Length - k /\ Length' <= accepted'
      /\ Length \in Nat /\ accepted \in 0 .. MaxMsg /\ Length <= accepted /\ MaxMsg \in Nat
      /\ RingIsFifo'
      /\ Length' > 0 => /\ Waiting(k) = Waiting(0)'
                        /\ Waiting(k) = accepted' - Length' + 1
  BY <1>1, PopKeepsFifo
<1>6. accepted' = accepted /\ Length' \in Nat /\ accepted' \in Nat
      /\ accepted' - Length' = accepted - Length + k
  BY <1>1, <1>5
<1>7. ASSUME NEW i \in 0 .. Length - 1
      PROVE  Waiting(i) = accepted - Length + 1 + i /\ Waiting(i) \in 1 .. MaxMsg
  <2>1. Waiting(i) = accepted - Length + 1 + i
    BY DEF RingInv, RingIsFifo
  <2>. QED
    BY <1>5, <2>1
<1>8. Waiting(k - 1) = accepted' - Length' /\ Waiting(k - 1) \in 1 .. MaxMsg
  <2>1. k - 1 \in 0 .. Length - 1
    BY <1>1, <1>5
  <2>2. Waiting(k - 1) = accepted - Length + 1 + (k - 1) /\ Waiting(k - 1) \in 1 .. MaxMsg
    BY <1>7, <2>1
  <2>. QED
    BY <1>1, <1>5, <1>6, <2>2
<1>9. output \o gone \in Seq(1 .. MaxMsg)
  <2>1. k - 1 \in Nat
    BY <1>1
  <2>2. \A i \in 1 .. k - 1 : i \in 0 .. Length - 1
    BY <1>1, <1>5
  <2>3. gone \in [1 .. k - 1 -> 1 .. MaxMsg]
    BY <1>7, <2>2
  <2>4. gone \in Seq(1 .. MaxMsg)
    BY <2>1, <2>3, SeqDef, Zenon
  <2>. HIDE DEF gone
  <2>. QED
    BY <2>4 DEF TypeOK
<1>10. \/ /\ is_sending' = FALSE /\ pend_req_queue' = {}
          /\ output' = output \o gone /\ handed' = Waiting(k - 1)
       \/ /\ k < Length /\ is_sending' = TRUE /\ pend_req_queue' = {Waiting(k)}
          /\ output' = Append(output \o gone, Waiting(k)) /\ handed' = Waiting(k)
  BY <1>4 DEF TcpSent
<1>. HIDE DEF gone
<1>11. storage' \in [Slots -> 0 .. MaxMsg] /\ head' \in Slots
       /\ asserted' \in BOOLEAN
  BY <1>1 DEF TypeOK
<1>12. CASE /\ is_sending' = FALSE /\ pend_req_queue' = {}
            /\ output' = output \o gone /\ handed' = Waiting(k - 1)
  <2>1. PICK h \in 1 .. MaxMsg : h = Waiting(k - 1)
    BY <1>8
  <2>2. TypeOK'
    <3>1. handed' \in 0 .. MaxMsg /\ output' \in Seq(1 .. MaxMsg)
      BY <1>9, <1>12, <2>1
    <3>2. is_sending' \in BOOLEAN /\ pend_req_queue' \subseteq 1 .. MaxMsg
      BY <1>12
    <3>. QED
      BY <1>1, <1>5, <1>11, <3>1, <3>2 DEF TypeOK, lwip
  <2>3. RequestIsOldest' /\ NothingSkipped' /\ HandedIsNext'
    <3>1. is_sending' \in BOOLEAN /\ pend_req_queue' = {} /\ handed' = h
      BY <1>12, <2>1
    <3>2. h \in Nat /\ accepted' - Length' = h
      BY <1>8, <2>1
    <3>. QED
      BY <1>6, <3>1, <3>2, InFlight
  <2>. QED
    BY <1>5, <2>2, <2>3 DEF RingInv
<1>13. CASE /\ k < Length /\ is_sending' = TRUE /\ pend_req_queue' = {Waiting(k)}
            /\ output' = Append(output \o gone, Waiting(k)) /\ handed' = Waiting(k)
  <2>1. k \in 0 .. Length - 1 /\ Length' > 0
    BY <1>1, <1>5, <1>13
  <2>2. PICK n \in 1 .. MaxMsg : n = Waiting(k)
    BY <1>7, <2>1
  <2>3. n = Waiting(0)' /\ n = accepted' - Length' + 1
    BY <1>5, <2>1, <2>2
  <2>4. TypeOK'
    <3>1. handed' \in 0 .. MaxMsg /\ output' \in Seq(1 .. MaxMsg)
      <4>1. output' = Append(output \o gone, n) /\ handed' = n
        BY <1>13, <2>2
      <4>. QED
        BY <1>9, <4>1
    <3>2. is_sending' \in BOOLEAN /\ pend_req_queue' \subseteq 1 .. MaxMsg
      BY <1>13, <2>2
    <3>. QED
      BY <1>1, <1>5, <1>11, <3>1, <3>2 DEF TypeOK, lwip
  <2>5. RequestIsOldest' /\ NothingSkipped' /\ HandedIsNext'
    <3>1. is_sending' = TRUE /\ pend_req_queue' = {n} /\ handed' = n
      BY <1>13, <2>2
    <3>2. PICK h \in Nat : h = accepted' - Length'
      BY <1>8
    <3>3. n \in Nat /\ h \in Nat /\ accepted' - Length' = h
      BY <2>2, <3>2
    <3>. QED
      BY <1>6, <2>1, <2>3, <3>1, <3>3, InFlight
  <2>. QED
    BY <1>5, <2>4, <2>5 DEF RingInv
<1>. QED
  BY <1>10, <1>12, <1>13

(* What the connection does leaves the ring alone, and never adds a        *)
(* request.                                                                *)
LEMMA ConnectionKeepsRing ==
  ASSUME RingInv, UNCHANGED <<queue, handed, accepted>>, pend_req_queue' \subseteq pend_req_queue
  PROVE  RingInv'
<1>1. Length' = Length /\ \A i : Waiting(i)' = Waiting(i)
  BY DEF queue, Length, Waiting
<1>2. RingIsFifo' /\ NothingSkipped' /\ Length' <= accepted'
  BY <1>1 DEF RingInv, RingIsFifo, NothingSkipped
<1>3. RequestIsOldest'
  BY <1>1 DEF RingInv, RequestIsOldest, queue
<1>4. HandedIsNext'
  BY <1>1 DEF RingInv, HandedIsNext, queue
<1>. QED
  BY <1>2, <1>3, <1>4 DEF RingInv

-----------------------------------------------------------------------------
(* Every step keeps the invariant.                                         *)
LEMMA NextRing == TypeOK /\ RingInv /\ [Next]_vars => TypeOK' /\ RingInv'
<1>. SUFFICES ASSUME TypeOK, RingInv, [Next]_vars
              PROVE  TypeOK' /\ RingInv'
  OBVIOUS
<1>1. CASE mqtt_queue_publish
  BY <1>1, PublishKeepsRing
<1>2. ASSUME NEW m \in 1 .. MaxMsg, PubAck(m) \/ RequestTimeout(m)
      PROVE  TypeOK' /\ RingInv'
  <2>1. m \in pend_req_queue /\ mqtt_pub_request_cb(m)
    BY <1>2 DEF PubAck, RequestTimeout
  <2>. QED
    BY <2>1, CallbackKeepsRing
<1>3. ASSUME NEW k \in 1 .. MQTT_QUEUE_SIZE, TcpSent(k)
      PROVE  TypeOK' /\ RingInv'
  BY <1>3, SentKeepsRing
<1>4. CASE TcpConnected \/ ConnAccepted
  <2>1. UNCHANGED <<queue, static_client, timers, clients, pend_req_queue, output, handed, past>>
        /\ conn_state' \in {"down", "tcp", "mqtt", "up"}
    BY <1>4 DEF TcpConnected, ConnAccepted
  <2>2. RingInv'
    BY <2>1, ConnectionKeepsRing DEF past
  <2>. QED
    BY <2>1, <2>2 DEF TypeOK, queue, past
<1>5. CASE BrokerReceives
  <2>1. UNCHANGED <<queue, lwip, pend_req_queue, handed, accepted, asserted>>
        /\ output # <<>> /\ received' = Append(received, Head(output)) /\ output' = Tail(output)
    BY <1>5 DEF BrokerReceives
  <2>2. RingInv'
    BY <2>1, ConnectionKeepsRing
  <2>3. output' \in Seq(1 .. MaxMsg) /\ received' \in Seq(1 .. MaxMsg)
    <3>1. output \in Seq(1 .. MaxMsg) /\ received \in Seq(1 .. MaxMsg)
      BY DEF TypeOK
    <3>2. Head(output) \in 1 .. MaxMsg /\ Tail(output) \in Seq(1 .. MaxMsg)
      BY <2>1, <3>1, HeadTailProperties
    <3>. QED
      BY <2>1, <3>1, <3>2, AppendProperties
  <2>. QED
    BY <2>1, <2>2, <2>3 DEF TypeOK, queue, lwip
<1>6. CASE mqtt_close
  <2>1. /\ UNCHANGED <<queue, static_client, clients, handed, past>>
        /\ conn_state' = "down" /\ timers' = Rearmed
        /\ pend_req_queue' = {} /\ output' = <<>>
    BY <1>6 DEF mqtt_close, Cleared
  <2>2. RingInv'
    BY <2>1, ConnectionKeepsRing DEF past
  <2>3. timers' \in Nat /\ output' \in Seq(1 .. MaxMsg)
    BY <2>1 DEF TypeOK, Rearmed
  <2>. QED
    BY <2>1, <2>2, <2>3 DEF TypeOK, queue, past
<1>7. CASE reconnect_cb
  <2>1. /\ UNCHANGED <<queue, handed, past>>
        /\ pend_req_queue' = {} /\ output' = <<>>
        /\ static_client' \in BOOLEAN
        /\ conn_state' \in {"down", "tcp", "mqtt", "up"}
    BY <1>7 DEF reconnect_cb, Cleared, Started
  <2>2. timers' \in Nat /\ clients' \in 1 .. Heap
    BY <1>7, QueueAssumption DEF reconnect_cb, Started, TypeOK
  <2>3. RingInv'
    BY <2>1, ConnectionKeepsRing DEF past
  <2>4. output' \in Seq(1 .. MaxMsg)
    BY <2>1
  <2>. QED
    BY <2>1, <2>2, <2>3, <2>4 DEF TypeOK, queue, past
<1>8. CASE UNCHANGED vars
  <2>1. RingInv'
    BY <1>8, ConnectionKeepsRing DEF vars, past
  <2>. QED
    BY <1>8, <2>1 DEF vars, TypeOK, queue, lwip, past
<1>. QED
  BY <1>1, <1>2, <1>3, <1>4, <1>5, <1>6, <1>7, <1>8 DEF Next

(* Every variable of the publisher keeps its type: head and tail never     *)
(* leave the ring, whatever completes, fails or times out.                 *)
THEOREM TypeCorrect == Spec => []TypeOK
<1>1. TypeOK /\ RingInv => TypeOK
  OBVIOUS
<1>. QED
  BY InitRing, NextRing, <1>1, PTL DEF Spec

(* The ring is a queue: it holds the messages accepted last, in order;     *)
(* none leaves it before lwIP was given it; and the callback that is due,  *)
(* the one that will advance the tail, belongs to its oldest message.      *)
THEOREM RingHolds == Spec => []RingInv
BY InitRing, NextRing, PTL DEF Spec

(* mqtt_pub_request_cb advances the tail over the message that was sent,   *)
(* and over no other.                                                      *)
THEOREM CallbackFits == Spec => []RequestIsOldest
<1>1. RingInv => RequestIsOldest
  BY DEF RingInv
<1>. QED
  BY RingHolds, <1>1, PTL

(* No message leaves the ring unless lwIP was given it.                    *)
THEOREM NoneSkipped == Spec => []NothingSkipped
<1>1. RingInv => NothingSkipped
  BY DEF RingInv
<1>. QED
  BY RingHolds, <1>1, PTL

(* conn_cb and reconnect_cb between them keep one way back to the broker:  *)
(* a connection, or exactly one timer, however often either fails.         *)
THEOREM OneTimer == Spec => []OneWayForward
<1>1. Init => OneWayForward
  BY DEF Init, OneWayForward
<1>2. OneWayForward /\ [Next]_vars => OneWayForward'
  <2>. SUFFICES ASSUME OneWayForward, [Next]_vars
                PROVE  OneWayForward'
    OBVIOUS
  <2>1. CASE mqtt_close
    BY <2>1 DEF mqtt_close, Rearmed, OneWayForward
  <2>2. CASE reconnect_cb
    BY <2>2 DEF reconnect_cb, Started, OneWayForward
  <2>3. CASE TcpConnected \/ ConnAccepted
    BY <2>3 DEF TcpConnected, ConnAccepted, OneWayForward
  <2>4. CASE mqtt_queue_publish \/ BrokerReceives \/ UNCHANGED vars
    BY <2>4 DEF mqtt_queue_publish, BrokerReceives, vars, lwip, OneWayForward
  <2>5. ASSUME NEW m \in 1 .. MaxMsg, PubAck(m) \/ RequestTimeout(m)
        PROVE  OneWayForward'
    BY <2>5 DEF PubAck, RequestTimeout, mqtt_pub_request_cb, lwip, OneWayForward
  <2>6. ASSUME NEW k \in 1 .. MQTT_QUEUE_SIZE, TcpSent(k)
        PROVE  OneWayForward'
    BY <2>6 DEF TcpSent, lwip, OneWayForward
  <2>. QED
    BY <2>1, <2>2, <2>3, <2>4, <2>5, <2>6 DEF Next
<1>. QED
  BY <1>1, <1>2, PTL DEF Spec

-----------------------------------------------------------------------------
(* What the users of the publisher and the broker may rely on: the ring is *)
(* an Outbox, and no message is sent twice.                                *)

(* n messages of a storage from slot t on, as a sequence.                  *)
BoxOf(st, t, n) == [i \in 1 .. n |-> st[(t + (i - 1)) % MQTT_QUEUE_SIZE]]

(* A function on 1 .. n is a sequence of length n.                         *)
LEMMA FunctionIsSeq ==
  ASSUME NEW S, NEW n \in Nat, NEW f \in [1 .. n -> S]
  PROVE  f \in Seq(S) /\ Len(f) = n
<1>1. f \in Seq(S) /\ DOMAIN f = 1 .. n
  BY SeqDef, Zenon
<1> QED BY <1>1, LenProperties

(* What a ring holds from a position on is a sequence.                     *)
LEMMA BoxIsSeq ==
  ASSUME NEW st \in [Slots -> 0 .. MaxMsg], NEW t \in Slots,
         NEW n \in Nat, n <= MQTT_QUEUE_SIZE
  PROVE  /\ BoxOf(st, t, n) \in Seq(0 .. MaxMsg) /\ Len(BoxOf(st, t, n)) = n
         /\ \A i \in 1 .. n : BoxOf(st, t, n)[i] = st[(t + (i - 1)) % MQTT_QUEUE_SIZE]
<1>1. \A i \in 1 .. n : st[(t + (i - 1)) % MQTT_QUEUE_SIZE] \in 0 .. MaxMsg
  <2> SUFFICES ASSUME NEW i \in 1 .. n
               PROVE  st[(t + (i - 1)) % MQTT_QUEUE_SIZE] \in 0 .. MaxMsg
    OBVIOUS
  <2>1. i - 1 \in 0 .. MQTT_QUEUE_SIZE
    BY QueueAssumption
  <2>2. (t + (i - 1)) % MQTT_QUEUE_SIZE \in Slots
    BY <2>1, SlotAt
  <2> QED BY <2>2
<1>2. BoxOf(st, t, n) \in [1 .. n -> 0 .. MaxMsg]
  BY <1>1 DEF BoxOf
<1>3. BoxOf(st, t, n) \in Seq(0 .. MaxMsg) /\ DOMAIN BoxOf(st, t, n) = 1 .. n
  BY <1>2, SeqDef, Zenon
<1>4. Len(BoxOf(st, t, n)) = n
  BY <1>3, LenProperties
<1> QED BY <1>3, <1>4 DEF BoxOf

(* The ring as a sequence, the oldest message first.                       *)
Box == BoxOf(storage, tail, Length)

(* The box of this state: as long as the ring is full, the oldest message  *)
(* first.                                                                  *)
LEMMA BoxOfRing ==
  ASSUME TypeOK
  PROVE  /\ Length \in Nat /\ Length <= MQTT_QUEUE_SIZE - 1
         /\ Box \in Seq(0 .. MaxMsg) /\ Len(Box) = Length
         /\ \A i \in 1 .. Length : Box[i] = Waiting(i - 1)
<1>1. Length \in Nat /\ Length <= MQTT_QUEUE_SIZE - 1
  BY LengthOf, QueueAssumption DEF TypeOK, Slots
<1>2. storage \in [Slots -> 0 .. MaxMsg] /\ tail \in Slots /\ Length <= MQTT_QUEUE_SIZE
  BY <1>1, QueueAssumption DEF TypeOK
<1> QED BY <1>1, <1>2, BoxIsSeq DEF Box, Waiting

(* The same of the box of the next state.                                  *)
LEMMA BoxOfNextRing ==
  ASSUME TypeOK', Length' \in Nat, Length' <= MQTT_QUEUE_SIZE
  PROVE  /\ Box' \in Seq(0 .. MaxMsg) /\ Len(Box') = Length'
         /\ \A i \in 1 .. Length' : Box'[i] = Waiting(i - 1)'
<1>1. storage' \in [Slots -> 0 .. MaxMsg] /\ tail' \in Slots
  BY DEF TypeOK
<1>2. Box' = BoxOf(storage', tail', Length')
  BY DEF Box, BoxOf, Length
<1>3. \A i : Waiting(i - 1)' = storage'[(tail' + (i - 1)) % MQTT_QUEUE_SIZE]
  BY DEF Waiting
<1> QED BY <1>1, <1>2, <1>3, BoxIsSeq

(* A message that is queued (mqtt_queue_publish) is appended to a box with *)
(* room, whatever the wrap of head.                                        *)
LEMMA PublishAccepts ==
  ASSUME TypeOK, TypeOK', mqtt_queue_publish
  PROVE  \E m \in 1 .. MaxMsg : Len(Box) < MQTT_QUEUE_SIZE - 1 /\ Box' = Append(Box, m)
<1>1. /\ tail' = tail /\ head' = Succ(head) /\ HasRoom
      /\ storage' = [storage EXCEPT ![head] = accepted + 1]
      /\ accepted + 1 \in 1 .. MaxMsg
  BY QueueAssumption DEF mqtt_queue_publish, TypeOK
<1>2. /\ Length' = Length + 1
      /\ \A i \in 0 .. Length - 1 : Waiting(i)' = Waiting(i)
      /\ \A i \in {Length} : Waiting(i)' = accepted + 1
  BY <1>1, PublishRing
<1>3. /\ Length \in Nat /\ Box \in Seq(0 .. MaxMsg) /\ Len(Box) = Length
      /\ \A i \in 1 .. Length : Box[i] = Waiting(i - 1)
      /\ Length <= MQTT_QUEUE_SIZE - 1
  BY BoxOfRing
<1>4. Length' \in Nat /\ Length' <= MQTT_QUEUE_SIZE
  BY <1>2, <1>3, QueueAssumption
<1>5. /\ Box' \in Seq(0 .. MaxMsg) /\ Len(Box') = Length'
      /\ \A i \in 1 .. Length' : Box'[i] = Waiting(i - 1)'
  BY <1>4, BoxOfNextRing
<1>6. Length' <= MQTT_QUEUE_SIZE - 1
  <2>1. head' \in Slots /\ tail' \in Slots
    BY DEF TypeOK
  <2>2. Length' \in Slots
    <3>1. Length' = (head' - tail') % MQTT_QUEUE_SIZE
      BY DEF Length
    <3>2. \A h, t \in Slots : (h - t) % MQTT_QUEUE_SIZE \in Slots
      BY Distance, QueueAssumption DEF Slots
    <3> QED BY <2>1, <3>1, <3>2
  <2> QED BY <2>2, QueueAssumption DEF Slots
<1> DEFINE longer == Append(Box, accepted + 1)
<1>7. /\ longer \in Seq(0 .. MaxMsg) /\ Len(longer) = Length + 1
      /\ longer[Length + 1] = accepted + 1
      /\ \A i \in 1 .. Length : longer[i] = Box[i]
  BY <1>1, <1>3, AppendProperties
<1> HIDE DEF longer
<1>8. ASSUME NEW i \in 1 .. Length'
      PROVE  Box'[i] = longer[i]
  <2>1. CASE i = Length + 1
    <3>1. i - 1 \in {Length}
      BY <1>3, <2>1
    <3>2. Waiting(i - 1)' = accepted + 1
      BY <1>2, <3>1
    <3> QED BY <1>5, <1>7, <1>8, <2>1, <3>2
  <2>2. CASE i # Length + 1
    <3>1. i - 1 \in 0 .. Length - 1 /\ i \in 1 .. Length
      BY <1>2, <1>3, <2>2
    <3>2. Waiting(i - 1)' = Waiting(i - 1)
      BY <1>2, <3>1
    <3> QED BY <1>3, <1>5, <1>7, <1>8, <3>1, <3>2
  <2> QED BY <2>1, <2>2
<1>9. Box' = longer
  BY <1>2, <1>5, <1>7, <1>8, SeqEqual, Zenon
<1>10. Len(Box) < MQTT_QUEUE_SIZE - 1
  BY <1>2, <1>3, <1>6, QueueAssumption
<1> QED BY <1>1, <1>9, <1>10 DEF longer

(* A tail that moves on by k takes the k oldest messages from the front of *)
(* the box, whatever the wrap.                                             *)
LEMMA PopLeaves ==
  ASSUME TypeOK, TypeOK', NEW k \in 1 .. Length, tail' = (tail + k) % MQTT_QUEUE_SIZE,
         UNCHANGED <<head, storage>>
  PROVE  k \in 1 .. Len(Box) /\ Box' = SubSeq(Box, k + 1, Len(Box))
<1>1. /\ Length' = Length - k
      /\ \A i \in 0 .. Length - k : Waiting(i)' = Waiting(i + k)
  BY PopRing
<1>2. /\ Length \in Nat /\ Box \in Seq(0 .. MaxMsg) /\ Len(Box) = Length
      /\ \A i \in 1 .. Length : Box[i] = Waiting(i - 1)
      /\ Length <= MQTT_QUEUE_SIZE - 1
  BY BoxOfRing
<1>3. Length' \in Nat /\ Length' <= MQTT_QUEUE_SIZE
  BY <1>1, <1>2, QueueAssumption
<1>4. /\ Box' \in Seq(0 .. MaxMsg) /\ Len(Box') = Length'
      /\ \A i \in 1 .. Length' : Box'[i] = Waiting(i - 1)'
  BY <1>3, BoxOfNextRing
<1> DEFINE rest == SubSeq(Box, k + 1, Length)
<1>5. \A i \in k + 1 .. Length : Box[i] \in 0 .. MaxMsg
  <2>1. \A i \in k + 1 .. Length : i \in 1 .. Len(Box)
    BY <1>2
  <2> QED BY <1>2, <2>1, ElementOfSeq
<1>6. /\ rest \in Seq(0 .. MaxMsg) /\ Len(rest) = Length'
      /\ \A i \in 1 .. Length' : rest[i] = Box[k + i]
  <2>1. k + 1 \in Int /\ Length \in Int /\ Length - (k + 1) + 1 = Length'
        /\ (IF k + 1 <= Length THEN Length - (k + 1) + 1 ELSE 0) = Length'
    BY <1>1, <1>2
  <2>2. /\ rest \in Seq(0 .. MaxMsg) /\ Len(rest) = Length'
        /\ \A i \in 1 .. Length' : rest[i] = Box[k + 1 + i - 1]
    BY <1>5, <2>1, SubSeqProperties
  <2>3. \A i \in 1 .. Length' : k + 1 + i - 1 = k + i
    BY <1>3
  <2> QED BY <2>2, <2>3
<1> HIDE DEF rest
<1>7. ASSUME NEW i \in 1 .. Length'
      PROVE  Box'[i] = rest[i]
  <2>1. i - 1 \in 0 .. Length - k /\ k + i \in 1 .. Length /\ (i - 1) + k = (k + i) - 1
    BY <1>1, <1>2
  <2>2. Waiting(i - 1)' = Waiting((i - 1) + k)
    BY <1>1, <2>1
  <2>3. Waiting((i - 1) + k) = Box[k + i]
    BY <1>2, <2>1
  <2> QED BY <1>4, <1>6, <1>7, <2>2, <2>3
<1>8. Box' = rest
  BY <1>4, <1>6, <1>7, SeqEqual, Zenon
<1> QED BY <1>2, <1>8 DEF rest

(* Every step of the publisher is one of the Outbox, or none.              *)
LEMMA RingStep ==
  ASSUME TypeOK, RingInv, [Next]_vars
  PROVE  [\/ \E m \in 1 .. MaxMsg : Len(Box) < MQTT_QUEUE_SIZE - 1 /\ Box' = Append(Box, m)
          \/ \E k \in 1 .. MQTT_QUEUE_SIZE - 1 :
               k \in 1 .. Len(Box) /\ Box' = SubSeq(Box, k + 1, Len(Box))]_Box
<1>t. TypeOK'
  BY NextRing
<1>l. Length \in Nat /\ Length <= MQTT_QUEUE_SIZE - 1 /\ Len(Box) = Length
  BY BoxOfRing
<1>1. CASE mqtt_queue_publish
  BY <1>1, <1>t, PublishAccepts
<1>2. ASSUME NEW k \in 1 .. Length, tail' = (tail + k) % MQTT_QUEUE_SIZE,
             UNCHANGED <<head, storage>>
      PROVE  \E n \in 1 .. MQTT_QUEUE_SIZE - 1 :
               n \in 1 .. Len(Box) /\ Box' = SubSeq(Box, n + 1, Len(Box))
  <2>1. k \in 1 .. MQTT_QUEUE_SIZE - 1
    BY <1>l, QueueAssumption
  <2>2. k \in 1 .. Len(Box) /\ Box' = SubSeq(Box, k + 1, Len(Box))
    BY <1>2, <1>t, PopLeaves
  <2> QED BY <2>1, <2>2
<1>3. ASSUME NEW m \in 1 .. MaxMsg, PubAck(m) \/ RequestTimeout(m)
      PROVE  \E n \in 1 .. MQTT_QUEUE_SIZE - 1 :
               n \in 1 .. Len(Box) /\ Box' = SubSeq(Box, n + 1, Len(Box))
  <2>1. m \in pend_req_queue /\ mqtt_pub_request_cb(m)
    BY <1>3 DEF PubAck, RequestTimeout
  <2>2. 1 \in 1 .. Length
    BY <1>l, <2>1, Due
  <2>3. tail' = (tail + 1) % MQTT_QUEUE_SIZE /\ UNCHANGED <<head, storage>>
    BY <2>1 DEF mqtt_pub_request_cb, Succ
  <2> QED BY <1>2, <2>2, <2>3
<1>4. ASSUME NEW k \in 1 .. MQTT_QUEUE_SIZE, TcpSent(k)
      PROVE  \E n \in 1 .. MQTT_QUEUE_SIZE - 1 :
               n \in 1 .. Len(Box) /\ Box' = SubSeq(Box, n + 1, Len(Box))
  <2>1. k \in 1 .. Length /\ tail' = (tail + k) % MQTT_QUEUE_SIZE /\ UNCHANGED <<head, storage>>
    BY <1>4 DEF TcpSent
  <2> QED BY <1>2, <2>1
<1>5. CASE TcpConnected \/ ConnAccepted \/ BrokerReceives \/ mqtt_close \/ reconnect_cb
           \/ UNCHANGED vars
  <2>1. UNCHANGED <<storage, head, tail>>
    BY <1>5 DEF TcpConnected, ConnAccepted, BrokerReceives, mqtt_close, reconnect_cb, vars, queue
  <2> QED BY <2>1 DEF Box, BoxOf, Length
<1> QED BY <1>1, <1>3, <1>4, <1>5 DEF Next

(* At the start the box is empty.                                          *)
LEMMA EmptyBox == Init => Box = <<>>
<1> SUFFICES ASSUME Init PROVE Box = <<>>
  OBVIOUS
<1>1. TypeOK /\ Length = 0
  <2>1. 0 \in Slots
    BY QueueAssumption DEF Slots
  <2> QED BY <2>1, InitRing, Distance DEF Init, Length
<1>2. Box \in Seq(0 .. MaxMsg) /\ Len(Box) = 0
  BY <1>1, BoxOfRing
<1> QED BY <1>2, EmptySeq

(* For a ring of any size, the publisher is an Outbox that holds one       *)
(* message less than it has slots.                                         *)
THEOREM OutboxCorrect == Spec => IsOutbox
<1> DEFINE seen == [i \in 1 .. Length |-> Waiting(i - 1)]
<1>1. seen = Box
  BY DEF Box, BoxOf, Waiting
<1>2. seen' = Box'
  BY DEF Box, BoxOf, Waiting, Length
<1> HIDE DEF seen
<1>3. Init => seen = <<>>
  BY <1>1, EmptyBox
<1>4. TypeOK /\ RingInv /\ [Next]_vars =>
        [\/ \E m \in 1 .. MaxMsg : Len(seen) < MQTT_QUEUE_SIZE - 1 /\ seen' = Append(seen, m)
         \/ \E k \in 1 .. MQTT_QUEUE_SIZE - 1 :
              k \in 1 .. Len(seen) /\ seen' = SubSeq(seen, k + 1, Len(seen))]_seen
  BY <1>1, <1>2, RingStep
<1>5. Init => Users!Init
  BY <1>3 DEF Users!Init, seen
<1>6. TypeOK /\ RingInv /\ [Next]_vars => [Users!Next]_([i \in 1 .. Length |-> Waiting(i - 1)])
  BY <1>4 DEF Users!Next, Users!Accept, Users!Accepts, Users!Leave, seen
<1> QED BY InitRing, NextRing, <1>5, <1>6, PTL DEF Spec, IsOutbox, Users!Spec

-----------------------------------------------------------------------------
(* The messages that arrived (r) and those on their way (o) rise, and none *)
(* is newer than the one handed over last (h).                             *)
Rise(s) == \A i, j \in 1 .. Len(s) : i < j => s[i] < s[j]
Below(s, h) == \A i \in 1 .. Len(s) : s[i] <= h
Order(r, o, h) ==
  /\ Rise(r) /\ Rise(o) /\ Below(r, h) /\ Below(o, h)
  /\ \A i \in 1 .. Len(r), j \in 1 .. Len(o) : r[i] < o[j]

(* A connection that is lost cuts the output and keeps the order.          *)
LEMMA OrderEmptied ==
  ASSUME NEW r \in Seq(Nat), NEW o \in Seq(Nat), NEW h \in Nat, Order(r, o, h)
  PROVE  Order(r, <<>>, h)
<1>1. Len(<<>>) = 0 /\ \A i : i \notin 1 .. 0
  BY EmptySeq
<1> QED BY <1>1 DEF Order, Rise, Below

(* A message above all that was handed over goes behind the output.        *)
LEMMA OrderAppend ==
  ASSUME NEW r \in Seq(Nat), NEW o \in Seq(Nat), NEW h \in Nat, Order(r, o, h),
         NEW m \in Nat, m > h
  PROVE  Order(r, Append(o, m), m)
<1> DEFINE p == Append(o, m)
<1>1. /\ p \in Seq(Nat) /\ Len(p) = Len(o) + 1 /\ p[Len(o) + 1] = m
      /\ \A i \in 1 .. Len(o) : p[i] = o[i]
  BY AppendProperties
<1> HIDE DEF p
<1>2. Len(o) \in Nat /\ Len(r) \in Nat
  BY LenProperties
<1>3. (\A i \in 1 .. Len(o) : o[i] \in Nat) /\ (\A i \in 1 .. Len(r) : r[i] \in Nat)
  BY ElementOfSeq
<1>4. \A j \in 1 .. Len(p) : j \in 1 .. Len(o) \/ (j = Len(o) + 1 /\ j \notin 1 .. Len(o))
  BY <1>1, <1>2
<1>5. (\A i \in 1 .. Len(o) : o[i] < m) /\ (\A i \in 1 .. Len(r) : r[i] < m)
  BY <1>3 DEF Order, Below
<1>6. Below(r, m) /\ Rise(r)
  BY <1>3, <1>5 DEF Order, Below
<1>7. Below(p, m)
  <2> SUFFICES ASSUME NEW i \in 1 .. Len(p) PROVE p[i] <= m
    BY DEF Below
  <2>1. CASE i \in 1 .. Len(o)
    <3>1. p[i] = o[i] /\ o[i] \in Nat /\ o[i] < m
      BY <1>1, <1>3, <1>5, <2>1
    <3> QED BY <3>1
  <2>2. CASE i = Len(o) + 1
    BY <1>1, <2>2
  <2> QED BY <1>4, <2>1, <2>2
<1>8. ASSUME NEW i \in 1 .. Len(p), NEW j \in 1 .. Len(p), i < j PROVE p[i] < p[j]
  <2>1. i \in 1 .. Len(o)
    BY <1>1, <1>2, <1>8
  <2>2. CASE j \in 1 .. Len(o)
    <3>1. o[i] < o[j]
      BY <1>8, <2>1, <2>2 DEF Order, Rise
    <3> QED BY <1>1, <2>1, <2>2, <3>1
  <2>3. CASE j = Len(o) + 1
    BY <1>1, <1>5, <2>1, <2>3
  <2> QED BY <1>4, <2>2, <2>3
<1>9. ASSUME NEW i \in 1 .. Len(r), NEW j \in 1 .. Len(p) PROVE r[i] < p[j]
  <2>1. CASE j \in 1 .. Len(o)
    <3>1. r[i] < o[j]
      BY <2>1 DEF Order
    <3> QED BY <1>1, <2>1, <3>1
  <2>2. CASE j = Len(o) + 1
    BY <1>1, <1>5, <2>2
  <2> QED BY <1>4, <2>1, <2>2
<1>10. Rise(p)
  BY <1>8 DEF Rise
<1> QED BY <1>6, <1>7, <1>9, <1>10 DEF Order, p

(* What the broker receives is the first of the output.                    *)
LEMMA OrderReceive ==
  ASSUME NEW r \in Seq(Nat), NEW o \in Seq(Nat), NEW h \in Nat, Order(r, o, h), o # <<>>
  PROVE  Order(Append(r, Head(o)), Tail(o), h)
<1> DEFINE a == Append(r, Head(o))  t == Tail(o)
<1>1. /\ Len(o) \in Nat \ {0} /\ Head(o) = o[1] /\ o[1] \in Nat /\ Len(r) \in Nat
      /\ t \in Seq(Nat) /\ Len(t) = Len(o) - 1 /\ \A i \in 1 .. Len(t) : t[i] = o[i + 1]
  BY HeadTailProperties, LenProperties, EmptySeq, ElementOfSeq
<1>2. /\ Len(a) = Len(r) + 1 /\ a[Len(r) + 1] = o[1]
      /\ \A i \in 1 .. Len(r) : a[i] = r[i]
  BY <1>1, AppendProperties
<1> HIDE DEF a, t
<1>3. \A j \in 1 .. Len(a) : j \in 1 .. Len(r) \/ j = Len(r) + 1
  BY <1>1, <1>2
<1>4. 1 \in 1 .. Len(o)
  BY <1>1
<1>5. \A j \in 1 .. Len(t) : j + 1 \in 1 .. Len(o) /\ 1 < j + 1
  BY <1>1
<1>6. Below(a, h)
  BY <1>2, <1>3, <1>4 DEF Order, Below
<1>7. Below(t, h)
  BY <1>1, <1>5 DEF Order, Below
<1>8. Rise(t)
  <2> SUFFICES ASSUME NEW i \in 1 .. Len(t), NEW j \in 1 .. Len(t), i < j PROVE t[i] < t[j]
    BY DEF Rise
  <2>1. i + 1 < j + 1
    OBVIOUS
  <2>2. o[i + 1] < o[j + 1]
    BY <1>5, <2>1 DEF Order, Rise
  <2> QED BY <1>1, <2>2
<1>9. Rise(a)
  <2> SUFFICES ASSUME NEW i \in 1 .. Len(a), NEW j \in 1 .. Len(a), i < j PROVE a[i] < a[j]
    BY DEF Rise
  <2>1. i \in 1 .. Len(r)
    BY <1>1, <1>2
  <2>2. CASE j \in 1 .. Len(r)
    <3>1. r[i] < r[j]
      BY <2>1, <2>2 DEF Order, Rise
    <3> QED BY <1>2, <2>1, <2>2, <3>1
  <2>3. CASE j = Len(r) + 1
    <3>1. r[i] < o[1]
      BY <1>4, <2>1 DEF Order
    <3> QED BY <1>2, <2>1, <2>3, <3>1
  <2> QED BY <1>3, <2>2, <2>3
<1>10. ASSUME NEW i \in 1 .. Len(a), NEW j \in 1 .. Len(t) PROVE a[i] < t[j]
  <2>1. CASE i \in 1 .. Len(r)
    <3>1. r[i] < o[j + 1]
      BY <1>5, <2>1 DEF Order
    <3> QED BY <1>1, <1>2, <2>1, <3>1
  <2>2. CASE i = Len(r) + 1
    <3>1. o[1] < o[j + 1]
      BY <1>4, <1>5 DEF Order, Rise
    <3> QED BY <1>1, <1>2, <2>2, <3>1
  <2> QED BY <1>3, <2>1, <2>2
<1> QED BY <1>6, <1>7, <1>8, <1>9, <1>10 DEF Order, a, t

(* The messages that TCP has taken follow the one handed over last.        *)
LEMMA OrderConcat ==
  ASSUME NEW r \in Seq(Nat), NEW o \in Seq(Nat), NEW h \in Nat, Order(r, o, h),
         NEW g \in Seq(Nat), \A i \in 1 .. Len(g) : g[i] = h + i
  PROVE  Order(r, o \o g, h + Len(g))
<1> DEFINE p == o \o g  top == h + Len(g)
<1>1. /\ Len(p) = Len(o) + Len(g)
      /\ \A i \in 1 .. Len(o) + Len(g) : p[i] = IF i <= Len(o) THEN o[i] ELSE g[i - Len(o)]
  BY ConcatProperties
<1>2. Len(o) \in Nat /\ Len(r) \in Nat /\ Len(g) \in Nat /\ top \in Nat /\ h <= top
  BY LenProperties
<1> HIDE DEF p, top
<1>3. \A i \in 1 .. Len(p) : \/ i \in 1 .. Len(o) /\ p[i] = o[i]
                             \/ i > Len(o) /\ p[i] = h + (i - Len(o)) /\ p[i] <= top
  <2> TAKE i \in 1 .. Len(p)
  <2>1. CASE i <= Len(o)
    BY <1>1, <1>2, <2>1
  <2>2. CASE ~(i <= Len(o))
    <3>1. i - Len(o) \in 1 .. Len(g) /\ i > Len(o) /\ h + (i - Len(o)) <= top
      BY <1>1, <1>2, <2>2 DEF top
    <3>2. p[i] = g[i - Len(o)]
      BY <1>1, <2>2
    <3> QED BY <3>1, <3>2
  <2> QED BY <2>1, <2>2
<1>4. (\A i \in 1 .. Len(o) : o[i] \in Nat) /\ (\A i \in 1 .. Len(r) : r[i] \in Nat)
  BY ElementOfSeq
<1>5. (\A i \in 1 .. Len(o) : o[i] <= h) /\ (\A i \in 1 .. Len(r) : r[i] <= h)
  BY DEF Order, Below
<1>6. Below(r, top) /\ Rise(r)
  BY <1>2, <1>4, <1>5 DEF Order, Below
<1>7. Below(p, top)
  BY <1>2, <1>3, <1>4, <1>5 DEF Below
<1>8. Rise(p)
  <2> SUFFICES ASSUME NEW i \in 1 .. Len(p), NEW j \in 1 .. Len(p), i < j PROVE p[i] < p[j]
    BY DEF Rise
  <2>1. CASE i \in 1 .. Len(o) /\ j \in 1 .. Len(o)
    <3>1. o[i] < o[j]
      BY <2>1 DEF Order, Rise
    <3>2. p[i] = o[i] /\ p[j] = o[j]
      BY <1>2, <1>3, <2>1
    <3> QED BY <3>1, <3>2
  <2>2. CASE i \in 1 .. Len(o) /\ j > Len(o)
    <3>1. p[i] = o[i] /\ o[i] <= h /\ o[i] \in Nat
      BY <1>2, <1>3, <1>4, <1>5, <2>2
    <3>2. p[j] = h + (j - Len(o))
      BY <1>2, <1>3, <2>2
    <3> QED BY <1>2, <2>2, <3>1, <3>2
  <2>3. CASE i > Len(o)
    <3>1. p[i] = h + (i - Len(o)) /\ p[j] = h + (j - Len(o))
      BY <1>2, <1>3, <2>3
    <3> QED BY <1>2, <3>1
  <2> QED BY <1>2, <1>3, <2>1, <2>2, <2>3
<1>9. ASSUME NEW i \in 1 .. Len(r), NEW j \in 1 .. Len(p) PROVE r[i] < p[j]
  <2>1. CASE j \in 1 .. Len(o) /\ p[j] = o[j]
    <3>1. r[i] < o[j]
      BY <2>1 DEF Order
    <3> QED BY <2>1, <3>1
  <2>2. CASE j > Len(o) /\ p[j] = h + (j - Len(o))
    BY <1>2, <1>4, <1>5, <2>2
  <2> QED BY <1>3, <2>1, <2>2
<1> QED BY <1>6, <1>7, <1>8, <1>9 DEF Order, p, top

-----------------------------------------------------------------------------
OrderInv == Order(received, output, handed)

(* What the broker has and what is in the output are numbers.              *)
LEMMA MsgTypes ==
  ASSUME TypeOK
  PROVE  received \in Seq(Nat) /\ output \in Seq(Nat) /\ handed \in Nat
<1>1. received \in Seq(1 .. MaxMsg) /\ output \in Seq(1 .. MaxMsg) /\ handed \in 0 .. MaxMsg
  BY DEF TypeOK
<1>2. 1 .. MaxMsg \subseteq Nat
  OBVIOUS
<1>3. ASSUME NEW s \in Seq(1 .. MaxMsg) PROVE s \in Seq(Nat)
  <2>1. s \in [1 .. Len(s) -> 1 .. MaxMsg] /\ Len(s) \in Nat
    BY LenProperties
  <2>2. s \in [1 .. Len(s) -> Nat]
    BY <1>2, <2>1
  <2> QED BY <2>1, <2>2, FunctionIsSeq
<1>4. handed \in Nat
  BY <1>1
<1> QED BY <1>1, <1>3, <1>4

(* What is handed over next is newer than all that was.                    *)
LEMMA NextIsNewer ==
  ASSUME TypeOK', RingInv', NEW m, m \in pend_req_queue', NEW h \in Nat,
         NEW old \in Int, h <= old, accepted' - Length' = old
  PROVE  m \in Nat /\ m > h
<1>1. head' \in Slots /\ tail' \in Slots /\ accepted' \in Nat
  BY DEF TypeOK
<1>2. Length' \in Nat
  <2>1. Length' = (head' - tail') % MQTT_QUEUE_SIZE
    BY DEF Length
  <2>2. \A a, b \in Slots : (a - b) % MQTT_QUEUE_SIZE \in Slots
    BY Distance, QueueAssumption DEF Slots
  <2> QED BY <1>1, <2>1, <2>2 DEF Slots
<1>3. Length' > 0 /\ m = Waiting(0)'
  BY DEF RingInv, RequestIsOldest
<1>4. \A n \in Nat : n > 0 => 0 \in 0 .. n - 1
  OBVIOUS
<1>5. 0 \in 0 .. Length' - 1
  BY <1>2, <1>3, <1>4
<1>6. Waiting(0)' = accepted' - Length' + 1 + 0
  BY <1>5 DEF RingInv, RingIsFifo
<1>7. m = old + 1 + 0
  BY <1>3, <1>6
<1> QED BY <1>7

(* What mqtt_queue_send_next hands over, if anything, keeps the order.     *)
LEMMA SendKeepsOrder ==
  ASSUME TypeOK, TypeOK', RingInv', OrderInv, NEW m, mqtt_queue_send_next(m, {}),
         UNCHANGED received, NEW old \in Int, handed <= old, accepted' - Length' = old
  PROVE  OrderInv'
<1>1. \/ /\ is_sending' = TRUE /\ pend_req_queue' = {m}
         /\ output' = Append(output, m) /\ handed' = m
      \/ /\ is_sending' \in BOOLEAN /\ pend_req_queue' = {}
         /\ UNCHANGED <<output, handed>>
  <2>1. asserted \in BOOLEAN
    BY DEF TypeOK
  <2> QED BY <2>1, SendNextEffect
<1>t. received \in Seq(Nat) /\ output \in Seq(Nat) /\ handed \in Nat
  BY MsgTypes
<1>2. CASE pend_req_queue' = {m} /\ output' = Append(output, m) /\ handed' = m
  <2>1. m \in Nat /\ m > handed
    BY <1>t, <1>2, NextIsNewer
  <2>2. Order(received, Append(output, m), m)
    BY <1>t, <2>1, OrderAppend DEF OrderInv
  <2> QED BY <1>2, <2>2 DEF OrderInv
<1>3. CASE UNCHANGED <<output, handed>>
  BY <1>3 DEF OrderInv
<1> QED BY <1>1, <1>2, <1>3

(* Every step keeps what the broker has and will get strictly increasing.  *)
LEMMA OrderStep ==
  ASSUME TypeOK, RingInv, OrderInv, [Next]_vars
  PROVE  OrderInv'
<1>n. TypeOK' /\ RingInv'
  BY NextRing
<1>t. received \in Seq(Nat) /\ output \in Seq(Nat) /\ handed \in Nat
  BY MsgTypes
<1>l. Length \in Nat /\ Length <= MQTT_QUEUE_SIZE - 1 /\ accepted \in Nat
  BY BoxOfRing DEF TypeOK
<1>1. CASE mqtt_queue_publish
  <2>1. /\ tail' = tail /\ head' = Succ(head) /\ accepted' = accepted + 1 /\ HasRoom
        /\ storage' = [storage EXCEPT ![head] = accepted + 1] /\ received' = received
    BY <1>1 DEF mqtt_queue_publish
  <2>2. Length' = Length + 1
    BY <2>1, PublishRing
  <2>3. CASE is_sending
    BY <1>1, <2>1, <2>3 DEF mqtt_queue_publish, Busy, OrderInv
  <2>4. CASE ~is_sending
    <3>1. pend_req_queue = {}
      BY <2>4 DEF RingInv, RequestIsOldest
    <3>2. mqtt_queue_send_next(storage'[tail], {})
      BY <1>1, <2>4, <3>1 DEF mqtt_queue_publish, Busy
    <3>3. accepted - Length \in Int /\ accepted' - Length' = accepted - Length
      BY <1>l, <2>1, <2>2
    <3>4. handed <= accepted - Length
      BY <1>l, <1>t, <2>4 DEF RingInv, HandedIsNext
    <3> QED BY <1>n, <2>1, <3>2, <3>3, <3>4, SendKeepsOrder
  <2> QED BY <2>3, <2>4 DEF TypeOK
<1>2. ASSUME NEW m \in 1 .. MaxMsg, PubAck(m) \/ RequestTimeout(m)
      PROVE  OrderInv'
  <2>1. m \in pend_req_queue /\ mqtt_pub_request_cb(m)
    BY <1>2 DEF PubAck, RequestTimeout
  <2>2. Length > 0 /\ pend_req_queue \ {m} = {} /\ handed = accepted - Length + 1
    BY <2>1, Due
  <2>3. tail' = (tail + 1) % MQTT_QUEUE_SIZE /\ UNCHANGED <<head, storage, accepted, received>>
    BY <2>1 DEF mqtt_pub_request_cb, Succ
  <2>4. 1 \in 1 .. Length
    BY <1>l, <2>2
  <2>5. Length' = Length - 1
    BY <2>3, <2>4, PopRing
  <2>6. CASE Length = 1
    BY <2>1, <2>3, <2>6 DEF mqtt_pub_request_cb, Refusal, OrderInv
  <2>7. CASE Length # 1
    <3>1. mqtt_queue_send_next(Waiting(1), {})
      BY <2>1, <2>2, <2>7 DEF mqtt_pub_request_cb
    <3>2. handed \in Int /\ handed <= handed /\ accepted' - Length' = handed
      BY <1>l, <1>t, <2>2, <2>3, <2>5
    <3> QED BY <1>n, <2>3, <3>1, <3>2, SendKeepsOrder
  <2> QED BY <2>6, <2>7
<1>3. ASSUME NEW k \in 1 .. MQTT_QUEUE_SIZE, TcpSent(k)
      PROVE  OrderInv'
  <2> DEFINE gone == [i \in 1 .. k - 1 |-> Waiting(i)]
  <2>1. PICK m \in pend_req_queue : m \notin Confirmed
    BY <1>3 DEF TcpSent
  <2>2. Length > 0 /\ pend_req_queue = {m} /\ handed = accepted - Length + 1
    BY Due
  <2>3. k \in 1 .. Length /\ tail' = (tail + k) % MQTT_QUEUE_SIZE
        /\ UNCHANGED <<head, storage, accepted, received>>
    BY <1>3 DEF TcpSent, past
  <2>4. Length' = Length - k
    BY <2>3, PopRing
  <2>5. \A i \in 0 .. Length - 1 : Waiting(i) = handed + i
    <3>1. \A i \in 0 .. Length - 1 : Waiting(i) = accepted - Length + 1 + i
      BY DEF RingInv, RingIsFifo
    <3> QED BY <2>2, <3>1
  <2>6. gone \in Seq(Nat) /\ Len(gone) = k - 1 /\ \A i \in 1 .. Len(gone) : gone[i] = handed + i
    <3>1. \A i \in 1 .. k - 1 : i \in 0 .. Length - 1
      BY <1>l, <2>3
    <3>n. k - 1 \in Nat
      BY <1>l, <2>3
    <3>2. \A i \in 1 .. k - 1 : Waiting(i) = handed + i
      BY <2>5, <3>1
    <3>3. \A i \in 1 .. k - 1 : Waiting(i) \in Nat
      BY <1>t, <3>2
    <3>4. gone \in [1 .. k - 1 -> Nat]
      BY <3>3
    <3>5. gone \in Seq(Nat) /\ Len(gone) = k - 1
      BY <3>n, <3>4, FunctionIsSeq
    <3> QED BY <3>2, <3>5
  <2>7. \/ output' = output \o gone /\ handed' = Waiting(k - 1)
        \/ /\ k < Length /\ output' = Append(output \o gone, Waiting(k))
           /\ handed' = Waiting(k)
    BY <1>3 DEF TcpSent
  <2> HIDE DEF gone
  <2>8. Waiting(k - 1) = handed + (k - 1) /\ handed + (k - 1) \in Nat
    <3>1. k - 1 \in 0 .. Length - 1 /\ k - 1 \in Nat
      BY <1>l, <2>3
    <3> QED BY <1>t, <2>5, <3>1
  <2>9. Order(received, output \o gone, handed + (k - 1)) /\ output \o gone \in Seq(Nat)
    <3>1. Order(received, output \o gone, handed + Len(gone))
      BY <1>t, <2>6, OrderConcat DEF OrderInv
    <3> QED BY <1>t, <2>6, <3>1, ConcatProperties
  <2>10. CASE output' = output \o gone /\ handed' = Waiting(k - 1)
    BY <2>3, <2>8, <2>9, <2>10 DEF OrderInv
  <2>11. CASE /\ k < Length /\ output' = Append(output \o gone, Waiting(k))
              /\ handed' = Waiting(k)
    <3>1. Waiting(k) = handed + k /\ handed + k \in Nat /\ handed + k > handed + (k - 1)
      <4>1. k \in 0 .. Length - 1
        BY <1>l, <2>11
      <4> QED BY <1>t, <2>5, <4>1
    <3>2. Order(received, Append(output \o gone, handed + k), handed + k)
      BY <1>t, <2>8, <2>9, <3>1, OrderAppend
    <3> QED BY <2>3, <2>11, <3>1, <3>2 DEF OrderInv
  <2> QED BY <2>7, <2>10, <2>11
<1>4. CASE BrokerReceives
  <2>1. /\ output # <<>> /\ received' = Append(received, Head(output))
        /\ output' = Tail(output) /\ handed' = handed
    BY <1>4 DEF BrokerReceives
  <2> QED BY <1>t, <2>1, OrderReceive DEF OrderInv
<1>5. CASE mqtt_close \/ reconnect_cb
  <2>1. output' = <<>> /\ UNCHANGED <<received, handed>>
    BY <1>5 DEF mqtt_close, reconnect_cb, past
  <2> QED BY <1>t, <2>1, OrderEmptied DEF OrderInv
<1>6. CASE TcpConnected \/ ConnAccepted \/ UNCHANGED vars
  BY <1>6 DEF TcpConnected, ConnAccepted, vars, past, OrderInv
<1> QED BY <1>1, <1>2, <1>3, <1>4, <1>5, <1>6 DEF Next

(* Nothing is sent at the start.                                           *)
LEMMA OrderInit == Init => OrderInv
<1>1. Len(<<>>) = 0 /\ \A i : i \notin 1 .. 0
  BY EmptySeq
<1> QED BY <1>1 DEF Init, OrderInv, Order, Rise, Below

(* Strictly increasing numbers are in order and occur once.                *)
LEMMA OrderSaysOnce ==
  ASSUME TypeOK, OrderInv
  PROVE  AtMostOnceInOrder
<1> DEFINE all == received \o output
<1>t. received \in Seq(Nat) /\ output \in Seq(Nat)
  BY MsgTypes
<1>1. /\ all \in Seq(Nat) /\ Len(all) = Len(received) + Len(output)
      /\ \A i \in 1 .. Len(received) + Len(output) :
           all[i] = IF i <= Len(received) THEN received[i] ELSE output[i - Len(received)]
  BY <1>t, ConcatProperties
<1>2. Len(received) \in Nat /\ Len(output) \in Nat /\ DOMAIN all = 1 .. Len(all)
  BY <1>t, <1>1, LenProperties
<1> HIDE DEF all
<1>3. \A i \in 1 .. Len(all) :
        \/ i \in 1 .. Len(received) /\ all[i] = received[i]
        \/ /\ i > Len(received) /\ i - Len(received) \in 1 .. Len(output)
           /\ all[i] = output[i - Len(received)]
  BY <1>1, <1>2
<1>4. ASSUME NEW i \in 1 .. Len(all), NEW j \in 1 .. Len(all), i < j
      PROVE  all[i] < all[j]
  <2>1. CASE i \in 1 .. Len(received) /\ j \in 1 .. Len(received)
    <3>1. received[i] < received[j]
      BY <1>4, <2>1 DEF OrderInv, Order, Rise
    <3>2. all[i] = received[i] /\ all[j] = received[j]
      BY <1>2, <1>3, <2>1
    <3> QED BY <3>1, <3>2
  <2>2. CASE i \in 1 .. Len(received) /\ j > Len(received)
    <3>1. j - Len(received) \in 1 .. Len(output) /\ all[j] = output[j - Len(received)]
          /\ all[i] = received[i]
      BY <1>2, <1>3, <2>2
    <3>2. received[i] < output[j - Len(received)]
      BY <2>2, <3>1 DEF OrderInv, Order
    <3> QED BY <3>1, <3>2
  <2>3. CASE i > Len(received)
    <3>1. /\ i - Len(received) \in 1 .. Len(output) /\ all[i] = output[i - Len(received)]
          /\ j - Len(received) \in 1 .. Len(output) /\ all[j] = output[j - Len(received)]
          /\ i - Len(received) < j - Len(received)
      BY <1>2, <1>3, <1>4, <2>3
    <3>2. output[i - Len(received)] < output[j - Len(received)]
      BY <3>1 DEF OrderInv, Order, Rise
    <3> QED BY <3>1, <3>2
  <2> QED BY <1>2, <1>3, <2>1, <2>2, <2>3
<1>5. \A i, j \in DOMAIN all : i < j => all[i] < all[j]
  BY <1>2, <1>4
<1> QED BY <1>5 DEF AtMostOnceInOrder, all

(* For a ring of any size and any number of messages: the broker gets each *)
(* at most once, in the order in which they were accepted.                 *)
THEOREM OnceInOrder == Spec => []AtMostOnceInOrder
<1>1. TypeOK /\ RingInv /\ OrderInv /\ [Next]_vars => OrderInv'
  BY OrderStep
<1>2. TypeOK /\ OrderInv => AtMostOnceInOrder
  BY OrderSaysOnce
<1> QED BY InitRing, NextRing, OrderInit, <1>1, <1>2, PTL DEF Spec
=============================================================================
