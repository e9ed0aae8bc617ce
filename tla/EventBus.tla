-------------------------------- MODULE EventBus -------------------------------
(***************************************************************************)
(* The event, command and query buses of drivers/watermill (a driver of    *)
(* the application) and drivers/watermill_fx (an fx module): Publish picks *)
(* a transport per topic, Subscribe picks one per handler, the router      *)
(* delivers, and a message is acknowledged, dropped or delivered again.    *)
(*                                                                         *)
(* Watermill is external.  Its go channel is not persistent: a message     *)
(* goes to the subscriptions that are running when it is published and     *)
(* stays with them until acknowledged.  Its SQL transport keeps a row      *)
(* until the subscriber's group has acknowledged it.                       *)
(***************************************************************************)
EXTENDS Naturals, FiniteSets

CONSTANTS
  Events,        \* envelopes, each published once
  Handlers,      \* event handlers
  Topics,
  Critical,      \* criticalTopics
  TopicOf,       \* TopicOf[x]: the topic of an event, or a handler's subscription
  Bare,          \* envelopes whose Payload is nil
  MaxCrashes,    \* bound on restarts
  MaxNacks       \* bound on failures of handlers

ASSUME BusAssumption ==
  /\ Critical \subseteq Topics /\ Bare \subseteq Events
  /\ TopicOf \in [Events \cup Handlers -> Topics]
  /\ MaxCrashes \in Nat /\ MaxNacks \in Nat

VARIABLES
  wiring,        \* none, driver or fx
  router,        \* off, running or stopped
  sqlSet,        \* SetSQLBackend has been called
  lateSql,       \* it was called after a Subscribe
  bound,         \* bound[h]: the transport of h's subscription
  registered,    \* the command and query handlers are on their buses
  transport,     \* transport[e]: where e was published
  channel,       \* go channel: <<h, e>> not acknowledged yet
  owed,          \* <<h, e>>: e was accepted while h's subscription runs
  acked,         \* <<h, e>> acknowledged
  handled,       \* <<h, e>> for which h.Handle returned nil
  nacks, crashes

busVars == <<wiring, router, sqlSet, lateSql, registered, bound, transport, channel, owed, acked, handled,
          nacks, crashes>>

Pairs == Handlers \X Events
Transports == {"none", "gochannel", "sql"}

BusTypeOK ==
  /\ wiring \in {"none", "driver", "fx"} /\ router \in {"off", "running", "stopped"}
  /\ registered \in BOOLEAN /\ sqlSet \in BOOLEAN /\ lateSql \in BOOLEAN
  /\ bound \in [Handlers -> Transports] /\ transport \in [Events -> Transports]
  /\ channel \subseteq Pairs /\ owed \subseteq Pairs /\ acked \subseteq Pairs /\ handled \subseteq Pairs
  /\ nacks \in 0 .. MaxNacks /\ crashes \in 0 .. MaxCrashes

BusInit ==
  /\ wiring = "none" /\ router = "off"
  /\ registered = FALSE /\ sqlSet = FALSE /\ lateSql = FALSE
  /\ bound = [h \in Handlers |-> "none"] /\ transport = [e \in Events |-> "none"]
  /\ channel = {} /\ owed = {} /\ acked = {} /\ handled = {}
  /\ nacks = 0 /\ crashes = 0

-------------------------------------------------------------------------------
(* Wiring: WatermillDriver.Init and registerHandlers, or watermillfx.New and  *)
(* the registrars.                                                            *)

\* The router and the buses are built.
Build(w) ==
  /\ wiring = "none"
  /\ wiring' = w
  /\ UNCHANGED <<router, sqlSet, lateSql, registered, bound, transport, channel, owed, acked, handled,
                 nacks, crashes>>

\* The domain's commands and queries come first, then its subscriptions.  The
\* driver's own function registers them.
RegisterLoyalty ==
  /\ wiring = "driver" /\ ~registered
  /\ registered' = TRUE
  /\ UNCHANGED <<wiring, router, sqlSet, lateSql, bound, transport, channel, owed, acked, handled,
                 nacks, crashes>>

\* Under fx the domain's registrar does.
RegistrarRegister ==
  /\ wiring = "fx" /\ ~registered
  /\ registered' = TRUE
  /\ UNCHANGED <<wiring, router, sqlSet, lateSql, bound, transport, channel, owed, acked, handled,
                 nacks, crashes>>

\* SetSQLBackend, to be called by the wiring once the database is there; the
\* repository's wirings do not call it.
SetSQLBackend ==
  /\ wiring # "none" /\ router = "off" /\ ~sqlSet
  /\ sqlSet' = TRUE
  /\ lateSql' = \E h \in Handlers : bound[h] # "none"
  /\ UNCHANGED <<wiring, router, registered, bound, transport, channel, owed, acked, handled, nacks,
                 crashes>>

\* Mutant: everything published goes to the SQL backend once there is one.
Route_All(t) == IF sqlSet THEN "sql" ELSE "gochannel"

\* The transport Publish chooses for a topic.
Route(t) == IF t \in Critical /\ sqlSet THEN "sql" ELSE "gochannel"

\* Subscribe makes the same choice when it is called, and adds the handler.
Subscribe(h) ==
  /\ registered /\ router = "off" /\ bound[h] = "none"
  /\ bound' = [bound EXCEPT ![h] = IF TopicOf[h] \in Critical /\ sqlSet THEN "sql" ELSE "gochannel"]
  /\ UNCHANGED <<wiring, router, sqlSet, lateSql, registered, transport, channel, owed, acked, handled,
                 nacks, crashes>>

Wired == registered /\ \A h \in Handlers : bound[h] # "none"

\* The goroutine that runs the router subscribes every handler.
Run ==
  /\ Wired /\ router = "off"
  /\ router' = "running"
  /\ UNCHANGED <<wiring, sqlSet, lateSql, registered, bound, transport, channel, owed, acked, handled,
                 nacks, crashes>>

\* The router ends with its context or with Close; what the go channel holds is
\* gone.  fx gives OnStart a context that expires with the start timeout.
StopRouter ==
  /\ router = "running"
  /\ router' = "stopped" /\ channel' = {} /\ owed' = {}
  /\ UNCHANGED <<wiring, sqlSet, lateSql, registered, bound, transport, acked, handled, nacks,
                 crashes>>

\* The process ends and starts again.
Crash ==
  /\ wiring # "none" /\ crashes < MaxCrashes
  /\ crashes' = crashes + 1
  /\ wiring' = "none" /\ router' = "off" /\ sqlSet' = FALSE /\ lateSql' = FALSE
  /\ bound' = [h \in Handlers |-> "none"] /\ registered' = FALSE /\ channel' = {} /\ owed' = {}
  /\ UNCHANGED <<transport, acked, handled, nacks>>

-------------------------------------------------------------------------------
(* Events.                                                                    *)

Subscribers(e) == {h \in Handlers : TopicOf[h] = TopicOf[e] /\ bound[h] # "none"}

\* Publish marshals the envelope and hands it to the transport.  An SQL publisher
\* that fails returns its error to the caller and nothing is stored, as if
\* Publish had not been called.
Publish(e) ==
  /\ wiring # "none" /\ transport[e] = "none"
  /\ transport' = [transport EXCEPT ![e] = Route(TopicOf[e])]
  /\ owed' = IF router = "running" THEN owed \cup (Subscribers(e) \X {e}) ELSE owed
  /\ channel' = IF Route(TopicOf[e]) = "gochannel" /\ router = "running"
                  THEN channel \cup ({h \in Subscribers(e) : bound[h] = "gochannel"} \X {e})
                  ELSE channel
  /\ UNCHANGED <<wiring, router, sqlSet, lateSql, registered, bound, acked, handled, nacks, crashes>>

\* What the router has to deliver.
Stored(h, e) == transport[e] = "sql" /\ TopicOf[h] = TopicOf[e] /\ <<h, e>> \notin acked

Pending(h, e) ==
  /\ router = "running"
  /\ \/ <<h, e>> \in channel
     \/ bound[h] = "sql" /\ Stored(h, e)

\* Payload is the interface DomainEvent, which encoding/json cannot decode into:
\* only an envelope whose payload is null comes back.
Decodes(e) == e \in Bare

\* Mutant: the wrapper forgets to acknowledge.
Ack_Never(h, e) == UNCHANGED <<acked, channel>>

Ack(h, e) == acked' = acked \cup {<<h, e>>} /\ channel' = channel \ {<<h, e>>}

\* The envelope does not decode: logged, acknowledged, dropped.
DeliverUndecodable(h, e) ==
  /\ Pending(h, e) /\ ~Decodes(e)
  /\ Ack(h, e)
  /\ UNCHANGED <<wiring, router, sqlSet, lateSql, registered, bound, transport, owed, handled, nacks,
                 crashes>>

\* Handle returns nil: the router acknowledges.
Deliver(h, e) ==
  /\ Pending(h, e) /\ Decodes(e)
  /\ Ack(h, e)
  /\ handled' = handled \cup {<<h, e>>}
  /\ UNCHANGED <<wiring, router, sqlSet, lateSql, registered, bound, transport, owed, nacks, crashes>>

\* Handle fails: the router does not acknowledge, and the message comes again.
DeliverFails(h, e) ==
  /\ Pending(h, e) /\ Decodes(e) /\ nacks < MaxNacks
  /\ nacks' = nacks + 1
  /\ UNCHANGED <<wiring, router, sqlSet, lateSql, registered, bound, transport, channel, owed, acked,
                 handled, crashes>>

DeliverStep(h, e) == DeliverUndecodable(h, e) \/ Deliver(h, e) \/ DeliverFails(h, e)

BusNext ==
  \/ \E w \in {"driver", "fx"} : Build(w)
  \/ SetSQLBackend \/ RegisterLoyalty \/ RegistrarRegister \/ Run \/ StopRouter \/ Crash
  \/ \E h \in Handlers : Subscribe(h)
  \/ \E e \in Events : Publish(e)
  \/ \E h \in Handlers, e \in Events : DeliverStep(h, e)

BusSpec == BusInit /\ [][BusNext]_busVars

\* Each subscription's goroutine goes on as long as its router runs.
FairBusSpec == BusSpec /\ \A h \in Handlers, e \in Events : WF_busVars(DeliverStep(h, e))

-------------------------------------------------------------------------------
(* Properties.                                                                *)

\* What was published since the router runs is on its way to every handler of its
\* topic or acknowledged: the transport Publish chooses is the one the handler
\* listens on.  If the SQL backend was set after a Subscribe, the two can part; even
\* then the event is kept by the transport, until a restart subscribes in order.  And
\* what was acknowledged was handled, unless it did not decode: a failing handler is
\* not.
NoneLostWhileRunning ==
  /\ router = "running" =>
       \A p \in owed :
         \/ p \in acked
         \/ Pending(p[1], p[2])
         \/ lateSql /\ Stored(p[1], p[2])
  /\ \A p \in acked : p \in handled \/ p[2] \notin Bare

\* What a running router has to deliver is acknowledged, unless the router stops.
PendingIsSettled ==
  \A h \in Handlers, e \in Events : Pending(h, e) ~> (<<h, e>> \in acked \/ router # "running")

\* on_order_completed_handler.go:41: the event is replayed until acknowledged, so a
\* critical event is acknowledged only after its handler has had it.  Fails: real
\* envelopes do not decode, and Subscribe acknowledges them.
CriticalReachesHandler ==
  \A p \in acked : TopicOf[p[2]] \in Critical => p \in handled
===============================================================================
