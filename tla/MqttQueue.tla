----------------------------- MODULE MqttQueue -----------------------------
(***************************************************************************)
(* The publisher of the gateway (app/comm/mqtt_app.c): a ring of messages, *)
(* a flag that says that lwIP is busy with one of them, and a client that  *)
(* is set up anew five seconds after its connection failed.  The client    *)
(* side of lwIP (common/lwip/src/apps/mqtt/mqtt.c) is modelled as far as   *)
(* this code sees it: the state of the connection, the publish requests    *)
(* whose callback is due, and the messages on their way to the broker.     *)
(*                                                                         *)
(* Everything runs in the main loop: each callback is one step.  A message *)
(* is named by the order in which it was accepted; those in Confirmed have *)
(* a quality of service above 0, which the broker acknowledges.            *)
(***************************************************************************)
EXTENDS Integers, Sequences, FiniteSets

CONSTANTS
  MQTT_QUEUE_SIZE,
  MaxMsg,       (* bound on the messages accepted in a behaviour            *)
  Confirmed,    (* messages with QoS 1 or 2                                 *)
  Heap          (* number of clients that fit the heap of lwIP              *)

ASSUME QueueAssumption ==
  /\ MQTT_QUEUE_SIZE \in Nat /\ MQTT_QUEUE_SIZE > 1
  /\ MaxMsg \in Nat /\ Heap \in Nat \ {0}
  /\ Confirmed \subseteq 1 .. MaxMsg

VARIABLES
  storage, head, tail, is_sending,       (* mq                             *)
  static_client,  (* static_client # NULL                                  *)
  timers,         (* timeouts that will call reconnect_cb                  *)
  clients,        (* clients allocated so far: none is ever freed          *)
  conn_state,     (* down, tcp (TCP_CONNECTING), mqtt (MQTT_CONNECTING), up *)
  pend_req_queue, (* messages whose callback is due                        *)
  output,         (* messages handed to lwIP and not yet at the broker     *)
  accepted,       (* history: the number of messages taken into the ring   *)
  handed,         (* history: the newest message handed to lwIP            *)
  received,       (* history: what the broker received                     *)
  asserted        (* history: an assertion of lwIP failed                  *)

queue == <<storage, head, tail, is_sending>>
lwip  == <<static_client, timers, clients, conn_state>>
past  == <<accepted, received, asserted>>
vars  == <<queue, lwip, pend_req_queue, output, handed, past>>

Slots == 0 .. MQTT_QUEUE_SIZE - 1
(* The slot after slot i (mutant: without the wrap).                       *)
Succ_NoWrap(i) == i + 1
Succ(i) == (i + 1) % MQTT_QUEUE_SIZE
Length == (head - tail) % MQTT_QUEUE_SIZE
(* The message i places behind the oldest one in the ring.                 *)
Waiting(i) == storage[(tail + i) % MQTT_QUEUE_SIZE]

(* The outcomes of mqtt_app_init_client for the client it allocates: the   *)
(* connection is on its way, or a timer is armed to try again (mutant: an  *)
(* error of mqtt_client_connect is not followed up).                       *)
Started_Silent(armed) ==
  \/ conn_state' = "tcp" /\ timers' = armed
  \/ conn_state' = "down" /\ timers' = armed
Started(armed) ==
  \/ conn_state' = "tcp" /\ timers' = armed
  \/ conn_state' = "down" /\ timers' = armed + 1

Init ==
  /\ storage = [i \in Slots |-> 0] /\ head = 0 /\ tail = 0 /\ is_sending = FALSE
  /\ static_client = TRUE /\ clients = 1
  /\ \/ conn_state = "tcp" /\ timers = 0
     \/ conn_state = "down" /\ timers = 1
  /\ pend_req_queue = {} /\ output = <<>> /\ handed = 0
  /\ accepted = 0 /\ received = <<>> /\ asserted = FALSE

-----------------------------------------------------------------------------
(* mqtt_publish of message m refuses without a connection and whenever     *)
(* lwIP is short of memory; otherwise a callback is due for the message.   *)
(* reqs are the requests that are pending when it is called.               *)
Handover(m, reqs) ==
  /\ conn_state # "down"
  /\ is_sending' = TRUE /\ pend_req_queue' = reqs \union {m}
  /\ output' = Append(output, m) /\ handed' = m

Refusal(reqs) ==
  is_sending' = FALSE /\ pend_req_queue' = reqs /\ UNCHANGED <<output, handed>>

(* Without a client the assertion of mqtt_publish fails, and what it does  *)
(* with the null pointer is undefined: it may fail, or pretend success.    *)
NullClient(reqs) ==
  is_sending' \in BOOLEAN /\ pend_req_queue' = reqs /\ UNCHANGED <<output, handed>>

mqtt_queue_send_next(m, reqs) ==
  IF static_client
  THEN (Handover(m, reqs) \/ Refusal(reqs)) /\ UNCHANGED asserted
  ELSE NullClient(reqs) /\ asserted' = TRUE

(* Whether a publisher has to wait for the message in flight (mutant: it   *)
(* does not look).                                                         *)
Busy_Ignored == FALSE
Busy == is_sending

(* The check for a free slot (mutant: the last slot is used as well).      *)
HasRoom_Last == Length < MQTT_QUEUE_SIZE
HasRoom == Succ(head) # tail

(* mqtt_queue_publish.  A full ring refuses and changes nothing.           *)
mqtt_queue_publish ==
  /\ accepted < MaxMsg /\ HasRoom
  /\ storage' = [storage EXCEPT ![head] = accepted + 1]
  /\ head' = Succ(head) /\ accepted' = accepted + 1
  /\ IF Busy THEN UNCHANGED <<is_sending, pend_req_queue, output, handed, asserted>>
             ELSE mqtt_queue_send_next(storage'[tail], pend_req_queue)
  /\ UNCHANGED <<tail, lwip, received>>

-----------------------------------------------------------------------------
(* mqtt_pub_request_cb for request m, whatever the result: the oldest      *)
(* message leaves the ring, and the next one is handed over.               *)
mqtt_pub_request_cb(m) ==
  /\ tail' = Succ(tail)
  /\ IF Length = 1 THEN Refusal(pend_req_queue \ {m}) /\ UNCHANGED asserted
                   ELSE mqtt_queue_send_next(Waiting(1), pend_req_queue \ {m})
  /\ UNCHANGED <<storage, head, lwip, accepted, received>>

(* mqtt_message_received: the broker acknowledges message m.               *)
PubAck(m) ==
  /\ conn_state = "up" /\ m \in pend_req_queue \intersect Confirmed
  /\ \E i \in DOMAIN received : received[i] = m
  /\ mqtt_pub_request_cb(m)

(* mqtt_request_time_elapsed: no answer for 30 s.                          *)
RequestTimeout(m) ==
  conn_state = "up" /\ m \in pend_req_queue /\ mqtt_pub_request_cb(m)

(* mqtt_tcp_sent_cb: TCP has delivered something.  Requests of QoS 0 are   *)
(* completed one after the other, those included that their callbacks add: *)
(* k messages leave the ring, until it is empty, lwIP has no room for the  *)
(* next one, or the next one waits for the broker.                         *)
TcpSent(k) ==
  /\ conn_state = "up" /\ pend_req_queue \ Confirmed # {}
  /\ k \in 1 .. Length /\ \A i \in 0 .. k - 1 : Waiting(i) \notin Confirmed
  /\ tail' = (tail + k) % MQTT_QUEUE_SIZE
  /\ LET confirms == k < Length /\ Waiting(k) \in Confirmed
         gone     == [i \in 1 .. k - 1 |-> Waiting(i)]
     IN \/ /\ is_sending' = FALSE
           /\ pend_req_queue' = pend_req_queue \intersect Confirmed
           /\ output' = output \o gone /\ handed' = Waiting(k - 1)
        \/ /\ confirms /\ is_sending' = TRUE
           /\ pend_req_queue' = (pend_req_queue \intersect Confirmed) \union {Waiting(k)}
           /\ output' = Append(output \o gone, Waiting(k)) /\ handed' = Waiting(k)
  /\ UNCHANGED <<storage, head, lwip, past>>

-----------------------------------------------------------------------------
(* The connection: TCP is up, the broker accepts, the broker reads.        *)
TcpConnected ==
  /\ conn_state = "tcp" /\ conn_state' = "mqtt"
  /\ UNCHANGED <<queue, static_client, timers, clients, pend_req_queue, output, handed, past>>

ConnAccepted ==
  /\ conn_state = "mqtt" /\ conn_state' = "up"
  /\ UNCHANGED <<queue, static_client, timers, clients, pend_req_queue, output, handed, past>>

BrokerReceives ==
  /\ conn_state \in {"mqtt", "up"} /\ output # <<>>
  /\ received' = Append(received, Head(output)) /\ output' = Tail(output)
  /\ UNCHANGED <<queue, lwip, pend_req_queue, handed, accepted, asserted>>

(* The reconnect timers after conn_cb has replaced the one that may be     *)
(* pending (mutant: it only removes it).                                   *)
Rearmed_Forgotten == IF timers > 0 THEN timers - 1 ELSE 0
Rearmed == (IF timers > 0 THEN timers - 1 ELSE 0) + 1

(* The requests left after mqtt_clear_requests: their callbacks are never  *)
(* called (mutant: the list is not cleared).                               *)
Cleared_Kept == pend_req_queue
Cleared == {}

(* mqtt_close, for any reason, and conn_cb.                                *)
mqtt_close ==
  /\ conn_state # "down"
  /\ conn_state' = "down" /\ timers' = Rearmed
  /\ pend_req_queue' = Cleared /\ output' = <<>>
  /\ UNCHANGED <<queue, static_client, clients, handed, past>>

(* reconnect_cb: mqtt_app_init_client drops the old client without freeing *)
(* it, and tries again later when there is no memory for a new one.        *)
reconnect_cb ==
  /\ timers > 0
  /\ pend_req_queue' = Cleared /\ output' = <<>>
  /\ \/ /\ clients < Heap /\ clients' = clients + 1
        /\ static_client' = TRUE /\ Started(timers - 1)
     \/ /\ clients = Heap /\ static_client' = FALSE
        /\ conn_state' = "down" /\ timers' = timers /\ UNCHANGED clients
  /\ UNCHANGED <<queue, handed, past>>

-----------------------------------------------------------------------------
Next ==
  \/ mqtt_queue_publish
  \/ \E m \in 1 .. MaxMsg : PubAck(m) \/ RequestTimeout(m)
  \/ \E k \in 1 .. MQTT_QUEUE_SIZE : TcpSent(k)
  \/ TcpConnected \/ ConnAccepted \/ BrokerReceives
  \/ mqtt_close \/ reconnect_cb

Spec == Init /\ [][Next]_vars

(* Timers run in the main loop (sys_check_timeouts); the peer answers, and *)
(* nothing is assumed of the publishers and of the loss of connections.    *)
FairSpec ==
  /\ Spec
  /\ WF_vars(reconnect_cb) /\ WF_vars(TcpConnected) /\ WF_vars(ConnAccepted)
  /\ WF_vars(BrokerReceives)
  /\ WF_vars(\E m \in 1 .. MaxMsg : RequestTimeout(m))

-----------------------------------------------------------------------------
(* Every variable has its type.                                            *)
TypeOK ==
  /\ storage \in [Slots -> 0 .. MaxMsg] /\ head \in Slots /\ tail \in Slots
  /\ is_sending \in BOOLEAN /\ static_client \in BOOLEAN /\ asserted \in BOOLEAN
  /\ timers \in Nat /\ clients \in 1 .. Heap
  /\ conn_state \in {"down", "tcp", "mqtt", "up"}
  /\ pend_req_queue \subseteq 1 .. MaxMsg
  /\ output \in Seq(1 .. MaxMsg) /\ received \in Seq(1 .. MaxMsg)
  /\ accepted \in 0 .. MaxMsg /\ handed \in 0 .. MaxMsg

(* The callback that is due belongs to the oldest message of the ring, and *)
(* to no other: the tail it advances is that message's slot.               *)
RequestIsOldest ==
  \A m \in pend_req_queue : is_sending /\ Length > 0 /\ m = Waiting(0)

(* The ring holds the messages accepted last, in order.                    *)
RingIsFifo == \A i \in 0 .. Length - 1 : Waiting(i) = accepted - Length + 1 + i

(* No message leaves the ring before it was handed to lwIP: mqtt_pub_request_cb *)
(* pops only what was sent, and a refused message stays.                   *)
NothingSkipped == accepted - Length <= handed

(* Where the message in flight stands: lwIP was given all that has left    *)
(* the ring, and at most the oldest of those in it.                        *)
HandedIsNext ==
  /\ handed > accepted - Length => is_sending /\ handed = accepted - Length + 1
  /\ pend_req_queue \subseteq {handed}

(* The inductive invariant of the ring.                                    *)
RingInv ==
  /\ Length <= accepted
  /\ RingIsFifo /\ RequestIsOldest /\ NothingSkipped /\ HandedIsNext

(* The ring as its users see it, the router among them: whatever becomes   *)
(* of the connection, it holds all the messages its slots but one can hold,*)
(* loses none, and lets them go in the order they came (mqtt_app.c:111-136,*)
(* the callbacks of lwIP).                                                 *)
Users == INSTANCE Outbox WITH
           Msg <- 1 .. MaxMsg, Capacity <- MQTT_QUEUE_SIZE - 1,
           box <- [i \in 1 .. Length |-> Waiting(i - 1)]
IsOutbox == Users!Spec

(* The broker gets every message at most once and in the order accepted,   *)
(* across refusals, timeouts and reconnections.                            *)
AtMostOnceInOrder ==
  LET all == received \o output
  IN \A i, j \in DOMAIN all : i < j => all[i] < all[j]

(* Either there is a connection, or exactly one timer that will try again: *)
(* never neither, never two ("so as not to multiply them").                *)
OneWayForward == timers = IF conn_state = "down" THEN 1 ELSE 0

(* A connection that failed is tried again, as long as there is memory.    *)
Retries == (conn_state = "down") ~> (conn_state # "down" \/ clients = Heap)

(* A callback that is due comes, or its connection ends: no request waits  *)
(* for ever, whatever the broker loses.                                    *)
RequestsEnd ==
  \A m \in 1 .. MaxMsg : (m \in pend_req_queue) ~> (m \notin pend_req_queue)

(* "The flag whether lwIP is busy sending right now": when it is set, a    *)
(* callback is due that will clear it.                                     *)
FlagMeansBusy == is_sending => pend_req_queue # {}

(* LWIP_ASSERT("mqtt_publish: client != NULL", client)                     *)
ClientIsNotNull == ~asserted
=============================================================================
