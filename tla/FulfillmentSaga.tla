---------------------------- MODULE FulfillmentSaga ----------------------------
(***************************************************************************)
(* use_cases/loyalty/saga/order_fulfillment_saga.go: the saga that waits   *)
(* for loyalty.account.credited and inventory.stock.reserved and then      *)
(* publishes orders.fulfillment.ready, for one correlation id (sagas of    *)
(* different ids share no row).                                            *)
(*                                                                         *)
(* The bus delivers each topic's messages one at a time, and again after   *)
(* an error; the handlers of the two topics run side by side.  A crash     *)
(* loses what is in the go-channel.  The code as wired has no other        *)
(* channel; with a SQL backend the critical topics would be durable.       *)
(* The repository is an interface without implementation in the code: each *)
(* of its calls is one step here, that works on a copy of the row.         *)
(***************************************************************************)
EXTENDS Naturals

CONSTANTS
  MaxMsgs,      \* messages per topic, duplicates included
  MaxFaults,    \* failed steps and crashes
  Durable       \* the topics with a SQL publisher and subscriber

Prerequisites == {"credited", "reserved"}

\* inventory.stock.reserved is not among the bus's critical topics.
CriticalTopics == {"credited"}

ASSUME SagaAssumption ==
  /\ MaxMsgs \in Nat /\ MaxFaults \in Nat
  /\ Durable \subseteq CriticalTopics

\* FulfillmentSagaState: the prerequisites seen, and whether CompletedAt is set.
States == [seen : SUBSET Prerequisites, completed : BOOLEAN]
NewState == [seen |-> {}, completed |-> FALSE]

VARIABLES
  unacked,    \* unacked[t]: messages of topic t that are not acknowledged
  published,  \* published[t]: messages of topic t published so far
  accepted,   \* the topics of which Handle accepted a message (returned nil)
  step,       \* step[t]: the step the handler of topic t is about to take
  state,      \* state[t]: its copy of the saga's state
  row,        \* the saga's row in the database
  ready,      \* number of orders.fulfillment.ready events published
  faults,     \* failed steps and crashes so far
  overlap,    \* the two handlers have run at the same time
  interrupted \* a fault has hit a handler between Complete and PublishReady

sagaVars == <<unacked, published, accepted, step, state, row, ready, faults, overlap, interrupted>>

SagaTypeOK ==
  /\ unacked \in [Prerequisites -> Nat]
  /\ published \in [Prerequisites -> Nat]
  /\ accepted \subseteq Prerequisites
  /\ step \in [Prerequisites -> {"wait", "find", "save", "complete", "publish", "ack"}]
  /\ state \in [Prerequisites -> States]
  /\ row \in States
  /\ ready \in Nat
  /\ faults \in 0 .. MaxFaults
  /\ overlap \in BOOLEAN /\ interrupted \in BOOLEAN

SagaInit ==
  /\ unacked = [t \in Prerequisites |-> 0]
  /\ published = [t \in Prerequisites |-> 0]
  /\ accepted = {}
  /\ step = [t \in Prerequisites |-> "wait"]
  /\ state = [t \in Prerequisites |-> NewState]
  /\ row = NewState
  /\ ready = 0
  /\ faults = 0
  /\ overlap = FALSE /\ interrupted = FALSE

SagaGoto(t, to) == step' = [step EXCEPT ![t] = to]

\* The loyalty or inventory domain publishes its event, possibly once more.
PublishPrerequisite(t) ==
  /\ published[t] < MaxMsgs
  /\ published' = [published EXCEPT ![t] = @ + 1]
  /\ unacked' = [unacked EXCEPT ![t] = @ + 1]
  /\ UNCHANGED <<accepted, step, state, row, ready, faults, overlap, interrupted>>

\* The bus hands a message to the handler.
DeliverPrerequisite(t) ==
  /\ step[t] = "wait" /\ unacked[t] > 0
  /\ SagaGoto(t, "find")
  /\ overlap' = (overlap \/ \E u \in Prerequisites : step[u] # "wait")
  /\ UNCHANGED <<unacked, published, accepted, state, row, ready, faults, interrupted>>

\* Mutant: FindOrCreate always creates.
FindOrCreate_Fresh(t) ==
  /\ step[t] = "find"
  /\ SagaGoto(t, "save")
  /\ state' = [state EXCEPT ![t] = [NewState EXCEPT !.seen = {t}]]
  /\ UNCHANGED <<unacked, published, accepted, row, ready, faults, overlap, interrupted>>

\* The handler reads the state; a completed saga needs nothing more.
FindOrCreate(t) ==
  /\ step[t] = "find"
  /\ IF row.completed
       THEN SagaGoto(t, "ack") /\ UNCHANGED state
       ELSE /\ SagaGoto(t, "save")
            /\ state' = [state EXCEPT ![t] = [row EXCEPT !.seen = @ \cup {t}]]
  /\ UNCHANGED <<unacked, published, accepted, row, ready, faults, overlap, interrupted>>

\* Mutant: CompletedAt is saved along with the last prerequisite.
Save_Completed(t) ==
  /\ step[t] = "save"
  /\ row' = [state[t] EXCEPT !.completed = (state[t].seen = Prerequisites)]
  /\ SagaGoto(t, IF state[t].seen = Prerequisites THEN "complete" ELSE "ack")
  /\ UNCHANGED <<unacked, published, accepted, state, ready, faults, overlap, interrupted>>

\* The first Save; without the other prerequisite the handler is done.
Save(t) ==
  /\ step[t] = "save"
  /\ row' = state[t]
  /\ SagaGoto(t, IF state[t].seen = Prerequisites THEN "complete" ELSE "ack")
  /\ UNCHANGED <<unacked, published, accepted, state, ready, faults, overlap, interrupted>>

\* The second Save, with CompletedAt.
Complete(t) ==
  /\ step[t] = "complete"
  /\ state' = [state EXCEPT ![t].completed = TRUE]
  /\ row' = state'[t]
  /\ SagaGoto(t, "publish")
  /\ UNCHANGED <<unacked, published, accepted, ready, faults, overlap, interrupted>>

\* orders.fulfillment.ready is published, last.
PublishReady(t) ==
  /\ step[t] = "publish"
  /\ ready' = ready + 1
  /\ SagaGoto(t, "ack")
  /\ UNCHANGED <<unacked, published, accepted, state, row, faults, overlap, interrupted>>

\* Handle returned nil: the message is acknowledged.
Acknowledge(t) ==
  /\ step[t] = "ack"
  /\ SagaGoto(t, "wait")
  /\ unacked' = [unacked EXCEPT ![t] = @ - 1]
  /\ accepted' = accepted \cup {t}
  /\ UNCHANGED <<published, state, row, ready, faults, overlap, interrupted>>

\* A call to the database or the bus fails: Handle returns the error, the message
\* is not acknowledged and will be delivered again.
StepFails(t) ==
  /\ step[t] # "wait" /\ faults < MaxFaults
  /\ SagaGoto(t, "wait")
  /\ faults' = faults + 1
  /\ interrupted' = (interrupted \/ step[t] = "publish")
  /\ UNCHANGED <<unacked, published, accepted, state, row, ready, overlap>>

\* The process dies between two steps: the row stays, and so do the messages of
\* the durable topics.
SagaCrash ==
  /\ \E t \in Prerequisites : step[t] # "wait"
  /\ faults < MaxFaults
  /\ step' = [t \in Prerequisites |-> "wait"]
  /\ unacked' = [t \in Prerequisites |-> IF t \in Durable THEN unacked[t] ELSE 0]
  /\ faults' = faults + 1
  /\ interrupted' = (interrupted \/ \E t \in Prerequisites : step[t] = "publish")
  /\ UNCHANGED <<published, accepted, state, row, ready, overlap>>

Handle(t) ==
  \/ DeliverPrerequisite(t)
  \/ FindOrCreate(t)
  \/ Save(t)
  \/ Complete(t)
  \/ PublishReady(t)
  \/ Acknowledge(t)

SagaNext ==
  \/ \E t \in Prerequisites : PublishPrerequisite(t) \/ Handle(t) \/ StepFails(t)
  \/ SagaCrash

SagaSpec == SagaInit /\ [][SagaNext]_sagaVars

\* A message that can be delivered is, and a handler that runs goes on.
FairSagaSpec == SagaSpec /\ \A t \in Prerequisites : WF_sagaVars(Handle(t))

-------------------------------------------------------------------------------
(* Properties.                                                                *)

\* The order is announced, and the saga recorded as completed, only after both
\* prerequisites were published, whatever the two handlers overwrite of each
\* other's state (Handle).
ReadyOnlyWhenBoth ==
  ready > 0 \/ row.completed => \A t \in Prerequisites : published[t] > 0

\* As long as handlers run one at a time a completed saga stays completed,
\* through redelivery, failures and crashes (FindOrCreate, Save).
CompletedKept == [][row.completed /\ ~overlap => row' = row]_sagaVars

\* As long as handlers run one at a time the order is announced at most once,
\* however often the prerequisites are delivered and whatever fails
\* (FindOrCreate, Complete).
ReadyAtMostOnce == ~overlap => ready <= 1

\* Once both prerequisites are published the order is announced, unless a fault
\* or two handlers at the same time interfere (Handle).
ReadyEventually ==
  (\A t \in Prerequisites : published[t] > 0) ~> (ready > 0 \/ faults > 0 \/ overlap)

\* "When both are received for the same CorrelationID, it publishes
\* orders.fulfillment.ready": once Handle has accepted both and no message is
\* left to handle, the order has been announced.
HandledMeansReady ==
  accepted = Prerequisites /\ (\A t \in Prerequisites : unacked[t] = 0) => ready > 0

\* "Persisted in DB (saga_states table) so progress survives app restarts": as long as
\* handlers run one at a time, a completed saga that nobody is handling has
\* announced the order, through failures and crashes at every point but one, the
\* moment between the second Save and the publication (Complete, PublishReady).
CompletedIsAnnounced ==
  row.completed /\ ~overlap /\ (\A t \in Prerequisites : step[t] = "wait") =>
    ready > 0 \/ interrupted
===============================================================================
