---------------------------- MODULE ServicesProofs -----------------------------
(***************************************************************************)
(* Proofs about the fulfilment saga, the buses and the request-reply over  *)
(* NATS, for any value of the constants.                                   *)
(***************************************************************************)
EXTENDS FulfillmentSaga, EventBus, OrderDetail, TLAPS

-------------------------------------------------------------------------------
(* The saga, for any number of messages, faults and either transport.  Two    *)
(* inductive invariants:                                                      *)
(*                                                                            *)
(*  - Provenance: a flag in the row or in a handler's copy comes from a       *)
(*    message that was published, so whatever the handlers overwrite of each  *)
(*    other's work, nothing is announced that was not complete;               *)
(*  - Turns: while the handlers have never overlapped, one of them at most is *)
(*    busy, and its step says what the row and the announcements are.         *)

Busy(t) == step[t] # "wait"

BothPublished == \A t \in Prerequisites : published[t] > 0

\* A handler is busy with a message that was published and is not acknowledged.
Deliveries ==
  /\ \A t \in Prerequisites : Busy(t) => unacked[t] > 0
  /\ \A t \in Prerequisites : unacked[t] > 0 => published[t] > 0

Provenance ==
  /\ \A t \in Prerequisites : t \in row.seen => published[t] > 0
  /\ \A t, u \in Prerequisites : t \in state[u].seen => published[t] > 0
  /\ \A t \in Prerequisites : step[t] \in {"complete", "publish"} => BothPublished
  /\ \A t \in Prerequisites : state[t].completed => BothPublished
  /\ row.completed => BothPublished
  /\ ready > 0 => BothPublished

Turns ==
  ~overlap =>
    /\ \A t, u \in Prerequisites : Busy(t) /\ Busy(u) => t = u
    /\ \A t \in Prerequisites :
         step[t] \in {"save", "complete"} => ~row.completed /\ ~state[t].completed
    /\ \A t \in Prerequisites : step[t] = "publish" => row.completed /\ ready = 0
    /\ ready > 0 => row.completed
    /\ ready <= 1
    /\ row.completed =>
         ready > 0 \/ interrupted \/ \E t \in Prerequisites : step[t] = "publish"

SagaInv == SagaTypeOK /\ Deliveries /\ Provenance
-------------------------------------------------------------------------------
\* The types and the bookkeeping of deliveries are kept by every step.
LEMMA DeliveriesStep ==
  ASSUME SagaTypeOK, Deliveries, [SagaNext]_sagaVars
  PROVE  SagaTypeOK' /\ Deliveries'
<1> USE SagaAssumption DEF SagaTypeOK, Deliveries, Busy, SagaGoto, States
<1>1. ASSUME NEW t \in Prerequisites, PublishPrerequisite(t) PROVE SagaTypeOK' /\ Deliveries'
  BY <1>1 DEF PublishPrerequisite
<1>2. ASSUME NEW t \in Prerequisites, DeliverPrerequisite(t) PROVE SagaTypeOK' /\ Deliveries'
  BY Zenon, <1>2 DEF DeliverPrerequisite
<1>3. ASSUME NEW t \in Prerequisites, FindOrCreate(t) PROVE SagaTypeOK' /\ Deliveries'
  BY <1>3 DEF FindOrCreate
<1>4. ASSUME NEW t \in Prerequisites, Save(t) PROVE SagaTypeOK' /\ Deliveries'
  BY Zenon, <1>4 DEF Save
<1>5. ASSUME NEW t \in Prerequisites, Complete(t) PROVE SagaTypeOK' /\ Deliveries'
  BY Zenon, <1>5 DEF Complete
<1>6. ASSUME NEW t \in Prerequisites, PublishReady(t) PROVE SagaTypeOK' /\ Deliveries'
  BY <1>6 DEF PublishReady
<1>7. ASSUME NEW t \in Prerequisites, Acknowledge(t) PROVE SagaTypeOK' /\ Deliveries'
  BY <1>7 DEF Acknowledge
<1>8. ASSUME NEW t \in Prerequisites, StepFails(t) PROVE SagaTypeOK' /\ Deliveries'
  BY <1>8 DEF StepFails
<1>9. CASE SagaCrash
  BY <1>9 DEF SagaCrash
<1>10. CASE UNCHANGED sagaVars
  BY Zenon, <1>10 DEF sagaVars
<1> QED
  BY Zenon, <1>1, <1>2, <1>3, <1>4, <1>5, <1>6, <1>7, <1>8, <1>9, <1>10 DEF SagaNext, Handle

\* No step takes back a publication.
LEMMA PublishedGrows ==
  ASSUME SagaTypeOK, [SagaNext]_sagaVars, NEW u \in Prerequisites, published[u] > 0
  PROVE  published'[u] > 0
BY DEF SagaTypeOK, SagaNext, Handle, sagaVars, PublishPrerequisite, DeliverPrerequisite, FindOrCreate,
       Save, Complete, PublishReady, Acknowledge, StepFails, SagaCrash

\* Every flag that a step writes is one it read or the topic of its own message.
LEMMA ProvenanceStep ==
  ASSUME SagaInv, [SagaNext]_sagaVars
  PROVE  Provenance'
<1>1. BothPublished => BothPublished'
  BY Zenon, PublishedGrows DEF BothPublished, SagaInv
<1>2. \A u \in Prerequisites : published[u] > 0 => published'[u] > 0
  BY Zenon, PublishedGrows DEF SagaInv
<1> USE <1>1, <1>2 DEF SagaInv, SagaTypeOK, Provenance, SagaGoto, States
<1>3. ASSUME NEW t \in Prerequisites,
             PublishPrerequisite(t) \/ DeliverPrerequisite(t) \/ Acknowledge(t) \/ StepFails(t)
      PROVE  Provenance'
  BY Zenon, <1>3 DEF PublishPrerequisite, DeliverPrerequisite, Acknowledge, StepFails
<1>4. ASSUME NEW t \in Prerequisites, FindOrCreate(t) PROVE Provenance'
  <2>1. published[t] > 0
    BY Zenon, <1>4 DEF FindOrCreate, Deliveries, Busy
  <2> QED
    BY <1>4, <2>1 DEF FindOrCreate
<1>5. ASSUME NEW t \in Prerequisites, Save(t) PROVE Provenance'
  <2>1. state[t].seen = Prerequisites => BothPublished
    BY Zenon DEF BothPublished
  <2> QED
    BY Zenon, <1>5, <2>1 DEF Save
<1>6. ASSUME NEW t \in Prerequisites, Complete(t) PROVE Provenance'
  BY Zenon, <1>6 DEF Complete
<1>7. ASSUME NEW t \in Prerequisites, PublishReady(t) PROVE Provenance'
  BY Zenon, <1>7 DEF PublishReady
<1>8. CASE SagaCrash
  BY Zenon, <1>8 DEF SagaCrash
<1>9. CASE UNCHANGED sagaVars
  BY Zenon, <1>9 DEF sagaVars, BothPublished
<1> QED
  BY Zenon, <1>3, <1>4, <1>5, <1>6, <1>7, <1>8, <1>9 DEF SagaNext, Handle
-------------------------------------------------------------------------------
\* While handlers take turns, the step of the busy one says what is in the row.
LEMMA TurnsStep ==
  ASSUME SagaInv, Turns, [SagaNext]_sagaVars
  PROVE  Turns'
<1> USE DEF SagaInv, SagaTypeOK, Turns, Busy, SagaGoto, States
<1>1. ASSUME NEW t \in Prerequisites, PublishPrerequisite(t) PROVE Turns'
  BY Zenon, <1>1 DEF PublishPrerequisite
<1>2. ASSUME NEW t \in Prerequisites, DeliverPrerequisite(t) PROVE Turns'
  BY Zenon, <1>2 DEF DeliverPrerequisite
<1>3. ASSUME NEW t \in Prerequisites, FindOrCreate(t) PROVE Turns'
  BY <1>3 DEF FindOrCreate
<1>4. ASSUME NEW t \in Prerequisites, Save(t) PROVE Turns'
  BY <1>4 DEF Save
<1>5. ASSUME NEW t \in Prerequisites, Complete(t) PROVE Turns'
  BY <1>5 DEF Complete
<1>6. ASSUME NEW t \in Prerequisites, PublishReady(t) PROVE Turns'
  BY <1>6 DEF PublishReady
<1>7. ASSUME NEW t \in Prerequisites, Acknowledge(t) PROVE Turns'
  BY Zenon, <1>7 DEF Acknowledge
<1>8. ASSUME NEW t \in Prerequisites, StepFails(t) PROVE Turns'
  BY Zenon, <1>8 DEF StepFails
<1>9. CASE SagaCrash
  BY Zenon, <1>9 DEF SagaCrash
<1>10. CASE UNCHANGED sagaVars
  BY Zenon, <1>10 DEF sagaVars
<1> QED
  BY Zenon, <1>1, <1>2, <1>3, <1>4, <1>5, <1>6, <1>7, <1>8, <1>9, <1>10 DEF SagaNext, Handle
-------------------------------------------------------------------------------
\* At first nothing is published, and both handlers wait (NewOrderFulfillmentSaga).
LEMMA SagaInitially == SagaInit => SagaInv /\ Turns
<1> SUFFICES ASSUME SagaInit PROVE SagaInv /\ Turns
  OBVIOUS
<1>1. SagaTypeOK
  <2>1. NewState \in States
    BY Zenon DEF NewState, States
  <2>2. faults \in 0 .. MaxFaults
    BY SagaAssumption DEF SagaInit
  <2>3. ready \in Nat /\ 0 \in Nat
    BY Zenon DEF SagaInit
  <2> QED
    BY <2>1, <2>2, <2>3, Zenon DEF SagaInit, SagaTypeOK
<1>2. ASSUME NEW t \in Prerequisites
      PROVE  step[t] = "wait" /\ state[t] = NewState /\ unacked[t] = 0
  BY Zenon DEF SagaInit
<1>3. NewState.seen = {} /\ NewState.completed = FALSE
  BY Zenon DEF NewState
<1>4. row = NewState /\ ready = 0
  BY Zenon DEF SagaInit
<1>5. Deliveries
  BY <1>2 DEF Deliveries, Busy
<1>6. Provenance
  BY <1>2, <1>3, <1>4 DEF Provenance
<1>7. Turns
  BY <1>2, <1>3, <1>4 DEF Turns, Busy
<1> QED
  BY Zenon, <1>1, <1>5, <1>6, <1>7 DEF SagaInv

\* Both invariants hold throughout (Handle, redelivery, faults).
THEOREM SagaInductive == SagaSpec => [](SagaInv /\ Turns)
<1>1. ASSUME SagaInv, Turns, [SagaNext]_sagaVars PROVE SagaInv' /\ Turns'
  BY Zenon, <1>1, DeliveriesStep, ProvenanceStep, TurnsStep DEF SagaInv
<1> QED
  BY <1>1, SagaInitially, PTL DEF SagaSpec

\* The order is announced, and the saga completed, only after both prerequisites
\* were published, even when the handlers overwrite each other's state.
THEOREM NeverEarly == SagaSpec => []ReadyOnlyWhenBoth
<1>1. SagaInv => ReadyOnlyWhenBoth
  BY Zenon DEF SagaInv, Provenance, ReadyOnlyWhenBoth, BothPublished
<1> QED
  BY <1>1, SagaInductive, PTL

\* While handlers take turns the order is announced once at most, however often
\* the messages come and whatever fails.
THEOREM AnnouncedOnce == SagaSpec => []ReadyAtMostOnce
<1>1. Turns => ReadyAtMostOnce
  BY Zenon DEF Turns, ReadyAtMostOnce
<1> QED
  BY <1>1, SagaInductive, PTL

\* While handlers take turns a completed saga that is at rest was announced, but
\* for a fault between the second Save and the publication.
THEOREM Announced == SagaSpec => []CompletedIsAnnounced
<1>1. SagaInv /\ Turns => CompletedIsAnnounced
  BY Zenon DEF SagaInv, SagaTypeOK, Turns, CompletedIsAnnounced
<1> QED
  BY <1>1, SagaInductive, PTL

\* While handlers take turns no step changes the row of a completed saga.
THEOREM CompletionKept == SagaSpec => CompletedKept
<1>1. ASSUME SagaInv, Turns, [SagaNext]_sagaVars
      PROVE  [row.completed /\ ~overlap => row' = row]_sagaVars
  BY Zenon, <1>1 DEF SagaInv, SagaTypeOK, Turns, SagaNext, Handle, sagaVars, PublishPrerequisite,
              DeliverPrerequisite, FindOrCreate, Save, Complete, PublishReady, Acknowledge,
              StepFails, SagaCrash
<1> QED
  BY <1>1, SagaInductive, PTL DEF SagaSpec, CompletedKept

-------------------------------------------------------------------------------
(* The buses.                                                                 *)

\* A handler listens where Publish sends its topic, unless the SQL backend came after
\* a Subscribe; even then none listens on SQL to a topic that is not sent there.
Routed ==
  \A h \in Handlers :
    /\ ~lateSql => bound[h] \in {"none", Route(TopicOf[h])}
    /\ bound[h] = "sql" => Route(TopicOf[h]) = "sql"

\* What is owed was published while the router ran, to a handler of its topic.
Owed ==
  /\ owed # {} => router = "running"
  /\ \A p \in owed : transport[p[2]] = Route(TopicOf[p[2]]) /\ TopicOf[p[1]] = TopicOf[p[2]]

BusInv == BusTypeOK /\ Routed /\ Owed /\ NoneLostWhileRunning

\* The variables keep their types.
LEMMA BusTypeStep == BusTypeOK /\ [BusNext]_busVars => BusTypeOK'
<1> SUFFICES ASSUME BusTypeOK, [BusNext]_busVars PROVE BusTypeOK'
  OBVIOUS
<1> USE BusAssumption DEF BusTypeOK, Transports, Pairs
<1>1. ASSUME NEW w \in {"driver", "fx"}, Build(w) PROVE BusTypeOK'
  BY Zenon, <1>1 DEF Build
<1>2. CASE SetSQLBackend BY Zenon, <1>2 DEF SetSQLBackend
<1>3. CASE RegisterLoyalty \/ RegistrarRegister
  BY Zenon, <1>3 DEF RegisterLoyalty, RegistrarRegister
<1>4. CASE Run \/ StopRouter BY Zenon, <1>4 DEF Run, StopRouter
<1>5. CASE Crash
  <2>1. crashes + 1 \in 0 .. MaxCrashes BY <1>5 DEF Crash
  <2>2. QED BY Zenon, <1>5, <2>1 DEF Crash
<1>6. ASSUME NEW h \in Handlers, Subscribe(h) PROVE BusTypeOK'
  BY Zenon, <1>6 DEF Subscribe
<1>7. ASSUME NEW e \in Events, Publish(e) PROVE BusTypeOK'
  <2>1. /\ owed' \subseteq Handlers \X Events /\ channel' \subseteq Handlers \X Events
        /\ transport' \in [Events -> {"none", "gochannel", "sql"}]
    BY Zenon, <1>7 DEF Publish, Subscribers, Route
  <2>2. QED BY Zenon, <1>7, <2>1 DEF Publish
<1>8. ASSUME NEW h \in Handlers, NEW e \in Events, DeliverStep(h, e) PROVE BusTypeOK'
  <2>1. CASE DeliverUndecodable(h, e) \/ Deliver(h, e)
    <3>1. <<h, e>> \in Handlers \X Events OBVIOUS
    <3>2. /\ acked' \subseteq Handlers \X Events /\ channel' \subseteq Handlers \X Events
          /\ handled' \subseteq Handlers \X Events
      BY Zenon, <2>1, <3>1 DEF DeliverUndecodable, Deliver, Ack
    <3>3. QED BY Zenon, <2>1, <3>2 DEF DeliverUndecodable, Deliver
  <2>2. CASE DeliverFails(h, e)
    <3>1. nacks + 1 \in 0 .. MaxNacks BY <2>2 DEF DeliverFails
    <3>2. QED BY Zenon, <2>2, <3>1 DEF DeliverFails
  <2>3. QED BY Zenon, <1>8, <2>1, <2>2 DEF DeliverStep
<1>9. CASE UNCHANGED busVars BY Zenon, <1>9 DEF busVars
<1>10. QED
  BY Zenon, <1>1, <1>2, <1>3, <1>4, <1>5, <1>6, <1>7, <1>8, <1>9 DEF BusNext

\* SetSQLBackend and Subscribe are the only steps that could part a handler from its
\* topic's publisher.
LEMMA RoutedStep == BusTypeOK /\ Routed /\ [BusNext]_busVars => Routed'
<1> SUFFICES ASSUME BusTypeOK, Routed, [BusNext]_busVars, NEW h \in Handlers
             PROVE  /\ ~lateSql' => bound'[h] \in {"none", Route(TopicOf[h])'}
                    /\ bound'[h] = "sql" => Route(TopicOf[h])' = "sql"
  BY Zenon DEF Routed
<1> USE DEF BusTypeOK, Routed, Route
<1>1. CASE SetSQLBackend BY Zenon, <1>1 DEF SetSQLBackend
<1>2. CASE Crash BY Zenon, <1>2 DEF Crash
<1>3. ASSUME NEW g \in Handlers, Subscribe(g)
      PROVE  /\ ~lateSql' => bound'[h] \in {"none", Route(TopicOf[h])'}
             /\ bound'[h] = "sql" => Route(TopicOf[h])' = "sql"
  <2>1. CASE h = g BY Zenon, <1>3, <2>1 DEF Subscribe
  <2>2. CASE h # g BY Zenon, <1>3, <2>2 DEF Subscribe
  <2>3. QED BY Zenon, <2>1, <2>2
<1>4. CASE ~SetSQLBackend /\ ~Crash /\ \A g \in Handlers : ~Subscribe(g)
  <2>1. UNCHANGED <<bound, sqlSet, lateSql>>
    BY Zenon, <1>4 DEF BusNext, busVars, Build, RegisterLoyalty, RegistrarRegister, Run, StopRouter,
         Publish, DeliverStep, DeliverUndecodable, Deliver, DeliverFails
  <2>2. QED BY Zenon, <2>1
<1>5. QED BY Zenon, <1>1, <1>2, <1>3, <1>4

\* Apart from publishing and delivering, a step under a running router leaves what is
\* on its way alone.
LEMMA DeliveryFrame ==
  ASSUME [BusNext]_busVars, router' = "running", ~Run,
         \A e \in Events : ~Publish(e), \A h \in Handlers, e \in Events : ~DeliverStep(h, e)
  PROVE  UNCHANGED <<router, sqlSet, lateSql, bound, transport, channel, owed, acked>>
BY Zenon DEF BusNext, busVars, Build, RegisterLoyalty, RegistrarRegister, SetSQLBackend, StopRouter,
             Crash, Subscribe

\* What Publish adds to what is owed, and that it was not published before.
LEMMA PublishOwes ==
  ASSUME BusTypeOK, Owed, NEW e \in Events, Publish(e), NEW p \in owed'
  PROVE  /\ router = "running" /\ UNCHANGED <<router, sqlSet, lateSql, bound, acked>>
         /\ channel \subseteq channel'
         /\ \/ p \in owed /\ p[2] # e /\ transport'[p[2]] = transport[p[2]]
            \/ /\ p = <<p[1], e>> /\ p[2] = e /\ p[1] \in Handlers
               /\ TopicOf[p[1]] = TopicOf[e] /\ bound[p[1]] # "none"
               /\ transport'[e] = Route(TopicOf[e])
               /\ Route(TopicOf[e]) = "gochannel" /\ bound[p[1]] = "gochannel" => p \in channel'
<1>1. transport[e] = "none" /\ transport' = [transport EXCEPT ![e] = Route(TopicOf[e])]
      /\ UNCHANGED <<router, sqlSet, lateSql, bound, acked>> /\ channel \subseteq channel'
  BY Zenon DEF Publish
<1>2. CASE p \in owed
  <2>1. transport[p[2]] = Route(TopicOf[p[2]]) /\ router = "running"
    BY Zenon, <1>2 DEF Owed
  <2>2. p[2] # e BY Zenon, <1>1, <2>1 DEF Route
  <2>3. p[2] \in Events BY <1>2 DEF BusTypeOK, Pairs
  <2>4. QED BY Zenon, <1>1, <1>2, <2>1, <2>2, <2>3 DEF BusTypeOK
<1>3. CASE p \notin owed
  <2>1. router = "running" /\ p \in Subscribers(e) \X {e}
    BY Zenon, <1>3 DEF Publish
  <2>2. p = <<p[1], e>> /\ p[2] = e /\ p[1] \in Subscribers(e)
    BY <2>1
  <2>3. p[1] \in Handlers /\ TopicOf[p[1]] = TopicOf[e] /\ bound[p[1]] # "none"
    BY Zenon, <2>2 DEF Subscribers
  <2>4. ASSUME Route(TopicOf[e]) = "gochannel", bound[p[1]] = "gochannel" PROVE p \in channel'
    <3>1. p[1] \in {h \in Subscribers(e) : bound[h] = "gochannel"} BY Zenon, <2>2, <2>4
    <3>2. p \in {h \in Subscribers(e) : bound[h] = "gochannel"} \X {e} BY <2>1, <3>1
    <3>3. QED BY Zenon, <2>1, <2>4, <3>2 DEF Publish
  <2>5. transport'[e] = Route(TopicOf[e]) BY Zenon, <1>1 DEF BusTypeOK
  <2>6. QED BY Zenon, <1>1, <2>1, <2>2, <2>3, <2>4, <2>5
<1>4. QED BY Zenon, <1>2, <1>3

\* Something is owed only to the topic's handlers of a running router.
LEMMA OwedStep == BusTypeOK /\ Owed /\ [BusNext]_busVars => Owed'
<1> SUFFICES ASSUME BusTypeOK, Owed, [BusNext]_busVars, NEW p \in owed'
             PROVE  /\ router' = "running" /\ TopicOf[p[1]] = TopicOf[p[2]]
                    /\ transport'[p[2]] = Route(TopicOf[p[2]])'
  BY Zenon DEF Owed
<1>1. ASSUME NEW e \in Events, Publish(e)
      PROVE  /\ router' = "running" /\ TopicOf[p[1]] = TopicOf[p[2]]
             /\ transport'[p[2]] = Route(TopicOf[p[2]])'
  <2>1. router' = "running" /\ sqlSet' = sqlSet BY Zenon, <1>1, PublishOwes
  <2>2. Route(TopicOf[p[2]])' = Route(TopicOf[p[2]]) BY Zenon, <2>1 DEF Route
  <2>3. CASE p \in owed /\ p[2] # e BY Zenon, <1>1, <2>1, <2>2, <2>3, PublishOwes DEF Owed
  <2>4. CASE ~(p \in owed /\ p[2] # e) BY Zenon, <1>1, <2>1, <2>2, <2>4, PublishOwes
  <2>5. QED BY Zenon, <2>3, <2>4
<1>2. CASE StopRouter \/ Crash BY Zenon, <1>2 DEF StopRouter, Crash
<1>3. CASE UNCHANGED <<router, sqlSet, transport, owed>> BY Zenon, <1>3 DEF Owed, Route
<1>4. CASE Run \/ SetSQLBackend BY Zenon, <1>4 DEF Run, SetSQLBackend, Owed
<1>5. CASE ~Run /\ ~SetSQLBackend /\ ~StopRouter /\ ~Crash /\ \A e \in Events : ~Publish(e)
  <2>1. UNCHANGED <<router, sqlSet, transport, owed>>
    BY Zenon, <1>5 DEF BusNext, busVars, Build, RegisterLoyalty, RegistrarRegister, Subscribe,
         DeliverStep, DeliverUndecodable, Deliver, DeliverFails
  <2>2. QED BY Zenon, <1>3, <2>1
<1>6. QED BY Zenon, <1>1, <1>2, <1>4, <1>5

\* Nothing that was accepted for a handler disappears, and nothing is acknowledged that
\* a handler would not have had.
LEMMA NoneLostStep ==
  BusTypeOK /\ Routed /\ Owed /\ NoneLostWhileRunning /\ [BusNext]_busVars
    => NoneLostWhileRunning'
<1> SUFFICES ASSUME BusTypeOK, Routed, Owed, NoneLostWhileRunning, [BusNext]_busVars
             PROVE  NoneLostWhileRunning'
  OBVIOUS
<1> DEFINE Kept(p) ==
      p \in acked \/ Pending(p[1], p[2]) \/ (lateSql /\ Stored(p[1], p[2]))
<1>1. ASSUME router' = "running", NEW p \in owed' PROVE Kept(p)'
  <2>0. p \in owed /\ router = "running" => Kept(p) /\ p = <<p[1], p[2]>>
    <3>1. p \in owed => p = <<p[1], p[2]>> BY DEF BusTypeOK, Pairs
    <3>2. QED BY Zenon, <3>1 DEF NoneLostWhileRunning
  <2>1. ASSUME NEW e \in Events, Publish(e) PROVE Kept(p)'
    <3>1. CASE p \in owed /\ p[2] # e
      BY Zenon, <1>1, <2>0, <2>1, <3>1, PublishOwes DEF Pending, Stored
    <3>2. CASE ~(p \in owed /\ p[2] # e)
      <4>1. /\ router = "running" /\ UNCHANGED <<router, sqlSet, lateSql, bound, acked>>
            /\ p = <<p[1], e>> /\ p[2] = e /\ p[1] \in Handlers
            /\ TopicOf[p[1]] = TopicOf[e] /\ bound[p[1]] # "none"
            /\ transport'[e] = Route(TopicOf[e])
            /\ Route(TopicOf[e]) = "gochannel" /\ bound[p[1]] = "gochannel" => p \in channel'
        BY Zenon, <2>1, <3>2, PublishOwes
      <4>2. CASE Route(TopicOf[e]) = "gochannel"
        <5>1. bound[p[1]] = "gochannel"
          BY Zenon, <4>1, <4>2 DEF Routed, BusTypeOK, Transports
        <5>2. QED BY Zenon, <4>1, <4>2, <5>1 DEF Pending
      <4>3. CASE Route(TopicOf[e]) = "sql"
        <5>1. lateSql \/ bound[p[1]] = "sql" BY Zenon, <4>1, <4>3 DEF Routed
        <5>2. QED BY Zenon, <4>1, <4>3, <5>1 DEF Pending, Stored
      <4>4. QED BY Zenon, <4>2, <4>3 DEF Route
    <3>3. QED BY Zenon, <3>1, <3>2
  <2>2. ASSUME NEW h \in Handlers, NEW e \in Events, DeliverStep(h, e) PROVE Kept(p)'
    <3>1. UNCHANGED <<router, lateSql, bound, transport, owed>>
      BY Zenon, <2>2 DEF DeliverStep, DeliverUndecodable, Deliver, DeliverFails
    <3>2. /\ acked \subseteq acked'
          /\ \A q \in channel : q \in channel' \/ q \in acked'
      BY Zenon, <2>2 DEF DeliverStep, DeliverUndecodable, Deliver, DeliverFails, Ack
    <3>3. QED BY Zenon, <1>1, <2>0, <3>1, <3>2 DEF Pending, Stored
  <2>3. CASE Run BY Zenon, <1>1, <2>3 DEF Run, Owed
  <2>4. CASE /\ ~Run /\ \A e \in Events : ~Publish(e)
             /\ \A h \in Handlers, e \in Events : ~DeliverStep(h, e)
    <3>1. UNCHANGED <<router, sqlSet, lateSql, bound, transport, channel, owed, acked>>
      BY Zenon, <1>1, <2>4, DeliveryFrame
    <3>2. QED BY Zenon, <1>1, <2>0, <3>1 DEF Pending, Stored
  <2>5. QED BY Zenon, <2>1, <2>2, <2>3, <2>4
<1>2. ASSUME NEW p \in acked' PROVE p \in handled' \/ p[2] \notin Bare
  <2>1. ASSUME NEW h \in Handlers, NEW e \in Events, DeliverStep(h, e)
        PROVE  p \in handled' \/ p[2] \notin Bare
    <3>1. <<h, e>>[2] = e OBVIOUS
    <3>2. QED
      BY Zenon, <1>2, <2>1, <3>1 DEF DeliverStep, DeliverUndecodable, Deliver, DeliverFails, Ack,
           Decodes, NoneLostWhileRunning
  <2>2. CASE \A h \in Handlers, e \in Events : ~DeliverStep(h, e)
    <3>1. UNCHANGED <<acked, handled>>
      BY Zenon, <2>2 DEF BusNext, busVars, Build, RegisterLoyalty, RegistrarRegister, SetSQLBackend, Run,
           StopRouter, Crash, Subscribe, Publish
    <3>2. QED BY Zenon, <1>2, <3>1 DEF NoneLostWhileRunning
  <2>3. QED BY Zenon, <2>1, <2>2
<1>3. QED BY Zenon, <1>1, <1>2 DEF NoneLostWhileRunning

\* The invariant of the buses is inductive.
THEOREM BusInductive == BusSpec => []BusInv
<1>1. BusInit => BusInv
  <2>1. BusInit => BusTypeOK
    <3>1. 0 \in 0 .. MaxNacks /\ 0 \in 0 .. MaxCrashes BY BusAssumption
    <3>2. QED BY Zenon, <3>1 DEF BusInit, BusTypeOK, Transports, Pairs
  <2>2. BusInit => Routed /\ Owed /\ NoneLostWhileRunning
    BY Zenon DEF BusInit, Routed, Owed, NoneLostWhileRunning
  <2>3. QED BY Zenon, <2>1, <2>2 DEF BusInv
<1>2. BusInv /\ [BusNext]_busVars => BusInv'
  BY Zenon, BusTypeStep, RoutedStep, OwedStep, NoneLostStep DEF BusInv
<1>3. QED BY <1>1, <1>2, PTL DEF BusSpec

\* Whatever is published, subscribed, delivered, refused, stopped and restarted: under a
\* running router what was accepted for a handler is on its way, acknowledged or, if the
\* SQL backend was set too late, stored for the next start; and it is acknowledged only
\* if it was handled or not decodable.
THEOREM NoneLost == BusSpec => []NoneLostWhileRunning
<1>1. BusInv => NoneLostWhileRunning BY Zenon DEF BusInv
<1>2. QED BY <1>1, BusInductive, PTL

-------------------------------------------------------------------------------
(* Request-reply.                                                             *)

Breakers == [state : {"closed", "open", "half-open"}, requests : Nat, failed : Nat, succeeded : Nat]

\* The types the proofs need; the counts' bounds are left to DetailTypeOK.
DetailTypes ==
  /\ client \in {"order", "customer"}
  /\ save \in [Orders -> {"idle", "items", "ok", "error"}]
  /\ items \in [Orders -> Nat] /\ found \subseteq Orders
  /\ cb \in Breakers
  /\ pc \in [Callers -> {"idle", "request", "waiting"}]
  /\ asked \in [Callers -> Orders]
  /\ inbox \in [Callers -> {"sent", "dropped", "reply"}]
  /\ failures \in 0 .. 2

\* A row stands for all of its items, and a reply that is waited for for a row.
RowsComplete ==
  /\ \A o \in found : save[o] = "ok" /\ items[o] = ItemCount
  /\ client = "order" =>
       \A c \in Callers : pc[c] = "waiting" /\ inbox[c] = "reply" => asked[c] \in found

\* Before the second failure the breaker is closed and has counted what failed.
Counted == failures < 2 => cb.state = "closed" /\ cb.failed <= failures

DetailInv == DetailTypes /\ RowsComplete /\ ReplyIsComplete /\ Counted

\* A cleared breaker, and one after an outcome.
LEMMA BreakerTypes ==
  /\ \A t \in {"closed", "open", "half-open"} :
       Clear(t) \in Breakers /\ Clear(t).state = t /\ Clear(t).failed = 0
  /\ \A b \in Breakers :
       /\ [b EXCEPT !.requests = @ + 1] \in Breakers
       /\ [b EXCEPT !.failed = @ + 1] \in Breakers
       /\ [b EXCEPT !.succeeded = IF b.state = "half-open" THEN @ + 1 ELSE @] \in Breakers
<1>1. \A t \in {"closed", "open", "half-open"} :
        Clear(t) \in Breakers /\ Clear(t).state = t /\ Clear(t).failed = 0
  BY DEF Clear, Breakers
<1>2. QED BY <1>1 DEF Breakers

\* An outcome makes a breaker of a breaker.
LEMMA OutcomeTypes ==
  ASSUME NEW b \in Breakers PROVE AfterSuccess(b) \in Breakers /\ AfterFailure(b) \in Breakers
BY Zenon, BreakerTypes DEF AfterSuccess, AfterFailure

\* The first failure of a closed breaker does not trip it: of three requests, which is
\* the least that may, sixty percent are two.
LEMMA FirstFailure ==
  ASSUME NEW b \in Breakers, b.state = "closed", b.failed = 0
  PROVE  AfterFailure(b).state = "closed" /\ AfterFailure(b).failed = 1
<1> DEFINE n == [b EXCEPT !.failed = @ + 1]
<1>1. n.failed = 1 /\ n.state = "closed" /\ n.requests = b.requests /\ b.requests \in Nat
  BY DEF Breakers
<1>2. Settings.minRequests = 3
  BY DEF Settings, NewOrderDetailRequestImpl, NewCustomerDetailRequestImpl
<1>3. ~ReadyToTrip(n)
  <2> HIDE DEF n
  <2>1. QED BY <1>1, <1>2 DEF ReadyToTrip
<1>4. AfterFailure(b) = n BY Zenon, <1>3 DEF AfterFailure
<1>5. QED BY Zenon, <1>1, <1>4

\* A success leaves a closed breaker closed, with no more failures than before.
LEMMA SuccessCloses ==
  ASSUME NEW b \in Breakers, b.state = "closed"
  PROVE  AfterSuccess(b).state = "closed" /\ AfterSuccess(b).failed <= b.failed
<1> DEFINE n == [b EXCEPT !.succeeded = IF b.state = "half-open" THEN @ + 1 ELSE @]
<1>1. n.state = "closed" /\ n.failed = b.failed /\ b.failed \in Nat BY DEF Breakers
<1>2. Clear("closed").state = "closed" /\ Clear("closed").failed = 0 BY Zenon, BreakerTypes
<1>3. AfterSuccess(b) = Clear("closed") \/ AfterSuccess(b) = n BY Zenon DEF AfterSuccess
<1>4. QED
  <2> HIDE DEF n
  <2>1. QED BY <1>1, <1>2, <1>3

\* The variables keep their types.
LEMMA DetailTypesStep == DetailTypes /\ [DetailNext]_detailVars => DetailTypes'
<1> SUFFICES ASSUME DetailTypes, [DetailNext]_detailVars PROVE DetailTypes'
  OBVIOUS
<1> USE OrderAssumption DEF DetailTypes
<1>1. ASSUME NEW o \in Orders, CreateOrder(o) \/ SaveItem(o) \/ SaveRow(o) \/ SaveFails(o)
      PROVE  DetailTypes'
  <2>1. items[o] + 1 \in Nat OBVIOUS
  <2>2. CASE SaveItem(o) BY Zenon, <2>1, <2>2 DEF SaveItem, callVars
  <2>3. CASE SaveRow(o) BY Zenon, <2>3 DEF SaveRow, callVars
  <2>4. CASE CreateOrder(o) BY Zenon, <2>4 DEF CreateOrder, callVars
  <2>5. CASE SaveFails(o) BY Zenon, <2>5 DEF SaveFails, callVars
  <2> HIDE DEF DetailTypes
  <2>6. QED BY Zenon, <1>1, <2>2, <2>3, <2>4, <2>5
<1>2. CASE ListenerStart \/ ListenerStop
  BY Zenon, <1>2 DEF ListenerStart, ListenerStop, orderVars, callVars
<1>3. CASE BreakerHalfOpens
  BY Zenon, <1>3, BreakerTypes DEF BreakerHalfOpens, SetBreaker, orderVars
<1>4. ASSUME NEW c \in Callers, Serve(c) \/ \E a \in {"reply", "dropped"} : ServeCustomer(c, a)
      PROVE  DetailTypes'
  <2>1. PICK a \in {"reply", "dropped"} : inbox' = [inbox EXCEPT ![c] = a]
    BY Zenon, <1>4 DEF Serve, ServeCustomer, Answer
  <2>2. UNCHANGED <<client, orderVars, cb, pc, asked, failures>>
    BY Zenon, <1>4 DEF Serve, ServeCustomer
  <2>3. QED BY Zenon, <2>1, <2>2 DEF orderVars
<1>5. ASSUME NEW c \in Callers, NEW o \in Orders, Call(c, o) PROVE DetailTypes'
  BY Zenon, <1>5 DEF Call, orderVars
<1>6. ASSUME NEW c \in Callers, CallerStep(c) PROVE DetailTypes'
  <2>1. CASE Request(c) BY Zenon, <2>1, BreakerTypes DEF Request, orderVars
  <2>2. CASE Refused(c) BY Zenon, <2>2 DEF Refused, Attempted, orderVars
  <2>3. CASE Reply(c)
    <3>1. cb' \in Breakers BY Zenon, <2>3, OutcomeTypes DEF Reply, SetBreaker
    <3>2. QED BY Zenon, <2>3, <3>1 DEF Reply, Attempted, orderVars
  <2>4. CASE Timeout(c)
    <3>1. cb' \in Breakers BY Zenon, <2>4, OutcomeTypes DEF Timeout, SetBreaker
    <3>2. failures' \in 0 .. 2 BY <2>4 DEF Timeout
    <3>3. QED BY Zenon, <2>4, <3>1, <3>2 DEF Timeout, Attempted, orderVars
  <2>5. QED BY Zenon, <1>6, <2>1, <2>2, <2>3, <2>4 DEF CallerStep
<1>7. CASE UNCHANGED detailVars BY Zenon, <1>7 DEF detailVars, orderVars, callVars
<1>8. QED BY Zenon, <1>1, <1>2, <1>3, <1>4, <1>5, <1>6, <1>7 DEF DetailNext

\* Rows and items are only added, and the items before the row.
LEMMA RowsStep ==
  DetailTypes /\ RowsComplete /\ [DetailNext]_detailVars =>
    /\ client' = client /\ found \subseteq found'
    /\ \A o \in found' : save'[o] = "ok" /\ items'[o] = ItemCount
<1> SUFFICES ASSUME DetailTypes, RowsComplete, [DetailNext]_detailVars
             PROVE  /\ client' = client /\ found \subseteq found'
                    /\ \A o \in found' : save'[o] = "ok" /\ items'[o] = ItemCount
  OBVIOUS
<1>1. ASSUME NEW o \in Orders, CreateOrder(o) \/ SaveItem(o) \/ SaveRow(o) \/ SaveFails(o)
      PROVE  /\ client' = client /\ found \subseteq found'
             /\ \A q \in found' : save'[q] = "ok" /\ items'[q] = ItemCount
  <2>1. save[o] # "ok" BY Zenon, <1>1 DEF CreateOrder, SaveItem, SaveRow, SaveFails
  <2>2. o \notin found BY Zenon, <2>1 DEF RowsComplete
  <2>3. CASE SaveRow(o) BY Zenon, <2>2, <2>3 DEF SaveRow, DetailTypes, RowsComplete
  <2>4. CASE CreateOrder(o) \/ SaveItem(o) \/ SaveFails(o)
    BY Zenon, <2>2, <2>4 DEF CreateOrder, SaveItem, SaveFails, DetailTypes, RowsComplete
  <2>5. QED BY Zenon, <1>1, <2>3, <2>4
<1>2. CASE ~\E o \in Orders : CreateOrder(o) \/ SaveItem(o) \/ SaveRow(o) \/ SaveFails(o)
  <2>1. UNCHANGED <<client, save, items, found>>
    BY Zenon, <1>2 DEF DetailNext, detailVars, ListenerStart, ListenerStop, BreakerHalfOpens, Serve,
         ServeCustomer, Call, CallerStep, Request, Refused, Reply, Timeout, orderVars
  <2>2. QED BY Zenon, <2>1 DEF RowsComplete
<1>3. QED BY Zenon, <1>1, <1>2

\* A reply that is waited for is about an order whose row was found.
LEMMA WaitingStep == DetailTypes /\ RowsComplete /\ [DetailNext]_detailVars => RowsComplete'
<1> SUFFICES ASSUME DetailTypes, RowsComplete, [DetailNext]_detailVars, client = "order",
                    NEW c \in Callers, pc'[c] = "waiting", inbox'[c] = "reply"
             PROVE  asked'[c] \in found
  BY Zenon, RowsStep DEF RowsComplete
<1> USE DEF DetailTypes
<1>1. CASE pc'[c] = pc[c] /\ inbox'[c] = inbox[c] /\ asked'[c] = asked[c]
  BY Zenon, <1>1 DEF RowsComplete
<1>2. ASSUME NEW d \in Callers, Serve(d) PROVE asked'[c] \in found
  <2>1. CASE d = c BY Zenon, <1>2, <2>1 DEF Serve, Answer
  <2>2. CASE d # c BY Zenon, <1>1, <1>2, <2>2 DEF Serve
  <2>3. QED BY Zenon, <2>1, <2>2
<1>3. ASSUME NEW d \in Callers, NEW o \in Orders, Call(d, o) PROVE asked'[c] \in found
  BY Zenon, <1>1, <1>3 DEF Call
<1>4. ASSUME NEW d \in Callers, CallerStep(d) PROVE asked'[c] \in found
  <2>1. CASE d = c
    BY Zenon, <1>4, <2>1 DEF CallerStep, Request, Refused, Reply, Timeout, Attempted
  <2>2. CASE d # c
    BY Zenon, <1>1, <1>4, <2>2 DEF CallerStep, Request, Refused, Reply, Timeout, Attempted
  <2>3. QED BY Zenon, <2>1, <2>2
<1>5. CASE ListenerStop BY Zenon, <1>1, <1>5 DEF ListenerStop
<1>6. CASE /\ ~ListenerStop
           /\ \A d \in Callers : /\ ~Serve(d) /\ ~CallerStep(d)
                                /\ \A o \in Orders : ~Call(d, o)
  <2>1. UNCHANGED <<pc, inbox, asked>>
    BY Zenon, <1>6 DEF DetailNext, detailVars, CreateOrder, SaveItem, SaveRow, SaveFails,
         ListenerStart, BreakerHalfOpens, ServeCustomer, callVars
  <2>2. QED BY Zenon, <1>1, <2>1
<1>7. QED BY Zenon, <1>2, <1>3, <1>4, <1>5, <1>6

\* So every order somebody got a reply for is complete.
LEMMA ReplyStep ==
  DetailTypes /\ RowsComplete /\ ReplyIsComplete /\ [DetailNext]_detailVars => ReplyIsComplete'
<1> SUFFICES ASSUME DetailTypes, RowsComplete, ReplyIsComplete, [DetailNext]_detailVars,
                    NEW o \in replied'
             PROVE  o \in found
  BY Zenon, RowsStep DEF ReplyIsComplete
<1>1. ASSUME NEW c \in Callers, Reply(c) PROVE o \in found
  BY Zenon, <1>1 DEF Reply, RowsComplete, ReplyIsComplete
<1>2. CASE \A c \in Callers : ~Reply(c)
  <2>1. replied' = replied
    BY Zenon, <1>2 DEF DetailNext, detailVars, CreateOrder, SaveItem, SaveRow, SaveFails,
         ListenerStart, ListenerStop, BreakerHalfOpens, Serve, ServeCustomer, Call, CallerStep,
         Request, Refused, Timeout, callVars
  <2>2. QED BY Zenon, <2>1 DEF ReplyIsComplete
<1>3. QED BY Zenon, <1>1, <1>2

\* The breaker stays closed through the first failure.
LEMMA CountedStep == DetailTypes /\ Counted /\ [DetailNext]_detailVars => Counted'
<1> SUFFICES ASSUME DetailTypes, Counted, [DetailNext]_detailVars, failures' < 2
             PROVE  cb'.state = "closed" /\ cb'.failed <= failures'
  BY Zenon DEF Counted
<1>0. cb \in Breakers /\ cb.failed \in Nat /\ failures \in 0 .. 2 BY DEF DetailTypes, Breakers
<1>1. CASE UNCHANGED <<cb, failures>> BY Zenon, <1>1 DEF Counted
<1>2. CASE BreakerHalfOpens BY Zenon, <1>2 DEF BreakerHalfOpens, Counted
<1>3. ASSUME NEW c \in Callers, Request(c) PROVE cb'.state = "closed" /\ cb'.failed <= failures'
  <2>1. cb'.state = cb.state /\ cb'.failed = cb.failed /\ failures' = failures
    BY <1>0, <1>3 DEF Request, Breakers
  <2>2. QED BY Zenon, <2>1 DEF Counted
<1>4. ASSUME NEW c \in Callers, Reply(c) PROVE cb'.state = "closed" /\ cb'.failed <= failures'
  <2>1. failures' = failures /\ (cb' = cb \/ cb' = AfterSuccess(cb))
    BY Zenon, <1>4 DEF Reply, SetBreaker
  <2>2. cb.state = "closed" /\ cb.failed <= failures BY Zenon, <2>1 DEF Counted
  <2>3. CASE cb' = AfterSuccess(cb)
    <3>1. cb'.state = "closed" /\ cb'.failed <= cb.failed BY Zenon, <1>0, <2>2, <2>3, SuccessCloses
    <3>2. cb'.failed \in Nat BY <1>0, <2>3, OutcomeTypes DEF Breakers
    <3>3. QED BY <1>0, <2>1, <2>2, <3>1, <3>2
  <2>4. QED BY Zenon, <2>1, <2>2, <2>3
<1>5. ASSUME NEW c \in Callers, Timeout(c) PROVE cb'.state = "closed" /\ cb'.failed <= failures'
  <2>1. /\ failures' = IF failures < 2 THEN failures + 1 ELSE failures
        /\ cb' = cb \/ cb' = AfterFailure(cb)
    BY Zenon, <1>5 DEF Timeout, SetBreaker
  <2>2. failures = 0 /\ failures' = 1 BY <1>0, <2>1
  <2>3. cb.state = "closed" /\ cb.failed = 0
    <3>1. cb.state = "closed" /\ cb.failed <= failures BY <2>2 DEF Counted
    <3>2. QED BY <1>0, <2>2, <3>1
  <2>4. cb'.state = "closed" /\ cb'.failed \in {0, 1}
    BY Zenon, <1>0, <2>1, <2>3, FirstFailure
  <2>5. QED BY <2>2, <2>4
<1>6. CASE ~BreakerHalfOpens /\ \A c \in Callers : ~Request(c) /\ ~Reply(c) /\ ~Timeout(c)
  <2>1. UNCHANGED <<cb, failures>>
    BY Zenon, <1>6 DEF DetailNext, detailVars, CreateOrder, SaveItem, SaveRow, SaveFails,
         ListenerStart, ListenerStop, Serve, ServeCustomer, Call, CallerStep, Refused, callVars
  <2>2. QED BY Zenon, <1>1, <2>1
<1>7. QED BY Zenon, <1>2, <1>3, <1>4, <1>5, <1>6

\* The invariant of the request-reply is inductive.
THEOREM DetailInductive == DetailSpec => []DetailInv
<1>1. DetailInit => DetailInv
  <2>1. ASSUME DetailInit PROVE DetailTypes
    <3>1. (CHOOSE o \in Orders : TRUE) \in Orders BY Zenon, OrderAssumption
    <3>2. 0 \in Nat /\ 0 \in 0 .. 2 OBVIOUS
    <3>3. QED BY Zenon, <2>1, <3>1, <3>2, BreakerTypes DEF DetailInit, DetailTypes
  <2>2. ASSUME DetailInit PROVE Counted
    <3>1. cb.state = "closed" /\ cb.failed = 0 /\ failures = 0
      BY Zenon, <2>2, BreakerTypes DEF DetailInit
    <3>2. QED BY <3>1 DEF Counted
  <2>3. DetailInit => RowsComplete /\ ReplyIsComplete
    BY Zenon DEF DetailInit, RowsComplete, ReplyIsComplete
  <2>4. QED BY Zenon, <2>1, <2>2, <2>3 DEF DetailInv
<1>2. DetailInv /\ [DetailNext]_detailVars => DetailInv'
  BY Zenon, DetailTypesStep, WaitingStep, ReplyStep, CountedStep DEF DetailInv
<1>3. QED BY <1>1, <1>2, PTL DEF DetailSpec

\* However saving, asking, answering, timeouts and outages interleave, a reply is about
\* an order that was saved with all its items.
THEOREM RepliesComplete == DetailSpec => []ReplyIsComplete
<1>1. DetailInv => ReplyIsComplete BY Zenon DEF DetailInv
<1>2. QED BY <1>1, DetailInductive, PTL

\* However many callers share a breaker, one failure does not open it.
THEOREM FailureTolerated == DetailSpec => []OneFailureTolerated
<1>1. DetailInv => OneFailureTolerated BY Zenon DEF DetailInv, Counted, OneFailureTolerated
<1>2. QED BY <1>1, DetailInductive, PTL
===============================================================================
