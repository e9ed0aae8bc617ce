------------------------------ MODULE Monitoring ------------------------------
(***************************************************************************)
(* drivers/monitoring: Otel.Init builds the tracer, meter and logger       *)
(* providers one after the other, each over an exporter of its own, and    *)
(* shuts down what it has when one fails; Close shuts all of them down.    *)
(* A manager of either version drives it: v1 closes the driver even if its *)
(* Init has failed.                                                        *)
(***************************************************************************)
EXTENDS Naturals, Sequences

VARIABLES
  flags,       \* EnableTelemetry and EnableCollectLog
  manager,     \* v1 or v2
  otel,        \* new, exporter, build, ready, failed, closed, panicked
  todo,        \* providers that Init has still to set up
  exporters,   \* exporters that were created
  cleanups,    \* shutdownFuncs
  shut         \* shut[p]: how often p was shut down

otelVars == <<flags, manager, otel, todo, exporters, cleanups, shut>>

Providers == {"tracer", "meter", "logger"}

OtelTypeOK ==
  /\ flags \in [{"meter", "logger"} -> BOOLEAN] /\ manager \in {"v1", "v2"}
  /\ otel \in {"new", "exporter", "build", "ready", "failed", "closed", "panicked"}
  /\ todo \in Seq(Providers) /\ exporters \subseteq Providers
  /\ cleanups \in Seq(Providers) /\ shut \in [Providers -> Nat]

OtelInit ==
  /\ flags \in [{"meter", "logger"} -> BOOLEAN] /\ manager \in {"v1", "v2"}
  /\ otel = "new" /\ todo = <<>> /\ exporters = {}
  /\ cleanups = <<>> /\ shut = [p \in Providers |-> 0]

\* The providers the configuration asks for, in order.
Wanted ==
  LET on(p) == p = "tracer" \/ flags[p] IN SelectSeq(<<"tracer", "meter", "logger">>, on)

\* Init enters setupOTelSDK.
SetupOTelSDK ==
  /\ otel = "new"
  /\ otel' = "exporter" /\ todo' = Wanted
  /\ UNCHANGED <<flags, manager, exporters, cleanups, shut>>

\* The exporter of a provider is made.
NewOTLP(p) ==
  /\ otel = "exporter"
  /\ exporters' = exporters \cup {p}
  /\ otel' = "build"
  /\ UNCHANGED <<flags, manager, todo, cleanups, shut>>

\* The provider is built over its exporter, and its Shutdown registered.
Build(p) ==
  /\ otel = "build" /\ p \in exporters
  /\ cleanups' = Append(cleanups, p) /\ todo' = Tail(todo)
  /\ otel' = "exporter"
  /\ UNCHANGED <<flags, manager, exporters, shut>>

Turn(p) == todo # <<>> /\ Head(todo) = p

NewTraceProvider == Turn("tracer") /\ (NewOTLP("tracer") \/ Build("tracer"))

NewMeterProvider == Turn("meter") /\ (NewOTLP("meter") \/ Build("meter"))

NewLoggerProvider == Turn("logger") /\ (NewOTLP("logger") \/ Build("logger"))

\* The providers whose Shutdown is in the list.
Registered == {cleanups[i] : i \in DOMAIN cleanups}

\* Mutant: the list of cleanups is kept.
Shutdown_Kept ==
  /\ shut' = [p \in Providers |-> shut[p] + IF p \in Registered THEN 1 ELSE 0]
  /\ UNCHANGED cleanups

\* The closure shutdown: every registered cleanup, then the list is emptied.
Shutdown ==
  /\ shut' = [p \in Providers |-> shut[p] + IF p \in Registered THEN 1 ELSE 0]
  /\ cleanups' = <<>>

\* An exporter or a provider fails: handleErr cleans up and Init returns the error.
SetupFails ==
  /\ otel \in {"exporter", "build"} /\ todo # <<>>
  /\ Shutdown
  /\ otel' = "failed"
  /\ UNCHANGED <<flags, manager, todo, exporters>>

\* Init keeps the closure.
SetupReturns ==
  /\ otel = "exporter" /\ todo = <<>>
  /\ otel' = "ready"
  /\ UNCHANGED <<flags, manager, todo, exporters, cleanups, shut>>

\* Close calls the closure, once per CloseAllDriver.
CloseOtel ==
  /\ otel \in {"ready", "closed"}
  /\ Shutdown
  /\ otel' = "closed"
  /\ UNCHANGED <<flags, manager, todo, exporters>>

\* v1 closes the driver after a failed Init: there is no closure to call.
CloseFailed ==
  /\ otel = "failed" /\ manager = "v1"
  /\ otel' = "panicked"
  /\ UNCHANGED <<flags, manager, todo, exporters, cleanups, shut>>

OtelNext ==
  \/ SetupOTelSDK \/ NewTraceProvider \/ NewMeterProvider \/ NewLoggerProvider
  \/ SetupFails \/ SetupReturns
  \/ CloseOtel \/ CloseFailed

OtelSpec == OtelInit /\ [][OtelNext]_otelVars

-------------------------------------------------------------------------------
\* otel.go:40: each registered cleanup is invoked once: after a failed Init or a
\* Close, and after closing again, every provider that was built was shut down
\* exactly once.
EachProviderShutOnce ==
  /\ \A p \in Providers : shut[p] <= 1
  /\ otel \in {"failed", "closed", "panicked"} =>
       /\ cleanups = <<>>
       /\ \A p \in exporters : shut[p] = 1 \/ (todo # <<>> /\ Head(todo) = p)
===============================================================================
