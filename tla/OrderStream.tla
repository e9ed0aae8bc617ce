------------------------------ MODULE OrderStream ------------------------------
(***************************************************************************)
(* Orders on the JetStream stream "orders": PublishOrder stores them, the  *)
(* listener's durable consumer brings them to Receive.  SubscribeEphemeral *)
(* (the one registerListener uses) does not acknowledge, and               *)
(* SubscribeEventSourcing acknowledges each message two seconds after it   *)
(* was received, whatever Receive returned.                                *)
(*                                                                         *)
(* JetStream is external.  Without acknowledgements a message is settled   *)
(* when it is sent to the client; with them it is sent again when it is    *)
(* not acknowledged in time, up to MaxDeliver times.  The client buffers   *)
(* what it is sent and runs the callback for one message after another.    *)
(***************************************************************************)
EXTENDS Naturals, Sequences

CONSTANTS
  Messages,
  MaxDeliver,     \* 5 in the code
  MaxRestarts     \* bound on restarts

ASSUME StreamAssumption == MaxDeliver \in Nat \ {0} /\ MaxRestarts \in Nat

VARIABLES
  policy,      \* none or explicit: AckPolicy of the consumer
  link,        \* down, up, listening
  streamed,    \* messages the stream has
  sent,        \* sent[m]: how often m was sent to the client
  settled,     \* messages the consumer is done with
  buffer,      \* the client's messages, the one in the callback first
  inHandler,   \* the callback runs for Head(buffer), and Receive has returned
  received,    \* received[m]: calls of Receive
  restarts

streamVars == <<policy, link, streamed, sent, settled, buffer, inHandler, received, restarts>>

StreamTypeOK ==
  /\ policy \in {"none", "explicit"} /\ link \in {"down", "up", "listening"}
  /\ streamed \subseteq Messages /\ settled \subseteq streamed
  /\ sent \in [Messages -> 0 .. MaxDeliver] /\ received \in [Messages -> 0 .. MaxDeliver]
  /\ buffer \in Seq(Messages) /\ inHandler \in BOOLEAN
  /\ restarts \in 0 .. MaxRestarts

\* The consumers' configurations: whether a message has to be acknowledged.
SubscribeEphemeral == "none"
SubscribeEventSourcing == "explicit"

StreamInit ==
  /\ policy \in {SubscribeEphemeral, SubscribeEventSourcing} /\ link = "down"
  /\ streamed = {} /\ sent = [m \in Messages |-> 0] /\ settled = {}
  /\ buffer = <<>> /\ inHandler = FALSE /\ received = [m \in Messages |-> 0]
  /\ restarts = 0

\* NatsInfrastructureImpl.Init connects.
ConnectNats ==
  /\ link = "down"
  /\ link' = "up"
  /\ UNCHANGED <<policy, streamed, sent, settled, buffer, inHandler, received, restarts>>

\* NatsMesssaging.Init: once connected, a driver made with runListener lets the order
\* listener have its consumer.
RegisterListener ==
  /\ link = "up"
  /\ link' = "listening"
  /\ UNCHANGED <<policy, streamed, sent, settled, buffer, inHandler, received, restarts>>

\* What the client has buffered is gone, and the callback that runs cannot
\* acknowledge any more.
Cut ==
  /\ link # "down" /\ restarts < MaxRestarts
  /\ link' = "down" /\ restarts' = restarts + 1
  /\ buffer' = <<>> /\ inHandler' = FALSE
  /\ UNCHANGED <<policy, streamed, sent, settled, received>>

\* The process ends, or the connection breaks, which nats.NoReconnect makes final.
LinkLost == Cut

\* Close asks the connection to drain, which only begins to, and closes it.
CloseNats == Cut

\* PublishOrder: the stream has acknowledged the message.  When Publish fails the
\* caller gets the error; the message may have been stored or not.
PublishOrder(m) ==
  /\ m \notin streamed
  /\ streamed' = streamed \cup {m}
  /\ UNCHANGED <<policy, link, sent, settled, buffer, inHandler, received, restarts>>

\* Not sent yet, or not acknowledged in time.
Deliverable(m) == m \in streamed \ settled /\ sent[m] < MaxDeliver

\* Mutant: the client drops what comes while its buffer is full.
SendToClient_Slow(m) ==
  /\ link = "listening" /\ Deliverable(m)
  /\ sent' = [sent EXCEPT ![m] = @ + 1]
  /\ settled' = IF policy = "none" THEN settled \cup {m} ELSE settled
  /\ buffer' = IF Len(buffer) < 1 THEN Append(buffer, m) ELSE buffer
  /\ UNCHANGED <<policy, link, streamed, inHandler, received, restarts>>

SendToClient(m) ==
  /\ link = "listening" /\ Deliverable(m)
  /\ sent' = [sent EXCEPT ![m] = @ + 1]
  /\ settled' = IF policy = "none" THEN settled \cup {m} ELSE settled
  /\ buffer' = Append(buffer, m)
  /\ UNCHANGED <<policy, link, streamed, inHandler, received, restarts>>

\* The callback: the message is decoded, or not, and given to Receive.
ReceiveOrder(m) ==
  /\ buffer # <<>> /\ ~inHandler /\ Head(buffer) = m
  /\ received' = [received EXCEPT ![m] = @ + 1]
  /\ inHandler' = TRUE
  /\ UNCHANGED <<policy, link, streamed, sent, settled, buffer, restarts>>

\* The callback ends, with Ack after its pause under the explicit policy.
CallbackEnds ==
  /\ inHandler
  /\ inHandler' = FALSE /\ buffer' = Tail(buffer)
  /\ settled' = IF policy = "explicit" THEN settled \cup {Head(buffer)} ELSE settled
  /\ UNCHANGED <<policy, link, streamed, sent, received, restarts>>

StreamNext ==
  \/ ConnectNats \/ RegisterListener \/ LinkLost \/ CloseNats \/ CallbackEnds
  \/ \E m \in Messages : PublishOrder(m) \/ SendToClient(m) \/ ReceiveOrder(m)

StreamSpec == StreamInit /\ [][StreamNext]_streamVars

-------------------------------------------------------------------------------
Buffered(m) == \E i \in DOMAIN buffer : buffer[i] = m

\* The reporting consumer never receives an order twice, restarts included; with
\* explicit acknowledgement, an order the stream will not send again was received,
\* even where a redelivery is still buffered.  An order goes unreceived for good only
\* if the process or its connection went down while it was buffered: waiting in the
\* buffer does not use up MaxDeliver.
DeliveryGuarantee ==
  /\ policy = "none" => \A m \in Messages : received[m] <= 1
  /\ policy = "explicit" => \A m \in settled : received[m] > 0
  /\ restarts = 0 =>
       \A m \in streamed : received[m] > 0 \/ Buffered(m) \/ Deliverable(m)
===============================================================================
