----------------------------- MODULE AppLifecycle ------------------------------
(***************************************************************************)
(* One process from bootstrap/main.go to its end: service.go, the          *)
(* application of internal/base_app.go, the commands of cmd/, the hooks    *)
(* and the driver manager, with the goroutines that run beside main: the   *)
(* signal handler, the drivers' goroutines that may stop the application   *)
(* or end the process, and the HTTP requests, which call app.Driver().     *)
(*                                                                         *)
(* NewCommands enables master and worker; the other commands are in cmd/   *)
(* with their registration commented out, and are modelled as they stand.  *)
(***************************************************************************)
EXTENDS Hooks, DriverManager, Sequences

CONSTANTS
  Commands,    \* commands the root command offers
  Requests     \* HTTP requests, one goroutine each

\* The hooks, keys, commands and drivers the code names; "user" stands for the
\* program's own key.
ASSUME LifecycleAssumption ==
  /\ HookNames = {"before", "after", "stop"}
  /\ {"user", "a_load_cfg", "b_bootstrap", "close_connection_db", "print_log"} \subseteq Keys
  /\ Commands \subseteq {"master", "worker", "http", "message-broker", "all"}
  /\ {"master", "echo", "worker", "otel", "nats"} \subseteq Drivers

VARIABLES
  main,        \* where the main goroutine is
  cmd,         \* the command that runs
  plan,        \* drivers the command has still to run
  ctx,         \* the application's context: none, live or cancelled
  signalled,   \* SIGINT or SIGTERM has arrived
  config,      \* b.config is set
  data,        \* b.data: nil, open or closed
  dataCloses,  \* how often Data().Close("sql") has run
  mgr,         \* how many managers DriverV2 has made; the last one counts
  fx,          \* the fx application of the command all
  fxSignalled, \* a signal has arrived while fx was listening
  reqs         \* reqs[r]: where request r is

cmdVars == <<cmd, plan>>
dataVars == <<config, data, dataCloses>>
runVars == <<ctx, signalled, fx, fxSignalled>>
ownVars == <<main, cmdVars, dataVars, runVars, mgr, reqs>>
vars == <<hookVars, managerVars, ownVars>>

Ended == main \in {"exit", "dead"}
Up == {d \in inited : closes[d] = 0}

\* A command: the after hooks it executes, sorted and without some or all of them;
\* the drivers it runs, in order; and what follows the last of them, waiting for the
\* context, running fx, or returning to main.
AllHooks == [sorted |-> FALSE, excluded |-> {}]
AllBut(k) == [sorted |-> TRUE, excluded |-> {k}]

NewMasterCommand ==
  [hooks |-> AllBut("b_bootstrap"), drivers |-> <<"master", "echo">>, then |-> "wait"]

\* Mutant: the wrong handler is excluded.
NewWorkerCommand_NoConfig ==
  [hooks |-> AllBut("a_load_cfg"), drivers |-> <<"worker">>, then |-> "wait"]

NewWorkerCommand ==
  [hooks |-> AllBut("b_bootstrap"), drivers |-> <<"worker">>, then |-> "wait"]

NewHttpCommand == [hooks |-> AllHooks, drivers |-> <<"echo">>, then |-> "stop"]

NewMessageBrokerCommand ==
  [hooks |-> AllHooks, drivers |-> <<"otel", "nats">>, then |-> "stop"]

NewAllCommand == [hooks |-> AllHooks, drivers |-> <<"otel", "nats">>, then |-> "fx"]

Command(c) ==
  CASE c = "master" -> NewMasterCommand
    [] c = "worker" -> NewWorkerCommand
    [] c = "http" -> NewHttpCommand
    [] c = "message-broker" -> NewMessageBrokerCommand
    [] c = "all" -> NewAllCommand

\* The Init of master and echo never returns an error.
MayFail == {"worker", "otel", "nats"}

TypeOK ==
  /\ HooksTypeOK /\ ManagerTypeOK
  /\ main \in {"new", "boot", "register", "command", "hooks", "driver", "create", "init",
               "append", "wait", "fx", "stop", "stophooks", "makemgr", "closeall", "close",
               "shutdown", "lasthooks", "exit", "dead"}
  /\ cmd \in Commands \cup {"none"}
  /\ plan \in Seq(Drivers)
  /\ ctx \in {"none", "live", "cancelled"}
  /\ signalled \in BOOLEAN /\ fxSignalled \in BOOLEAN /\ config \in BOOLEAN
  /\ data \in {"nil", "open", "closed"} /\ dataCloses \in Nat /\ mgr \in Nat
  /\ fx \in {"off", "running", "stopped"}
  /\ reqs \in [Requests -> {"idle", "driver", "create", "get", "done"}]

Init ==
  /\ HooksInit /\ version = "v2" /\ NewManager
  /\ main = "new" /\ cmd = "none" /\ plan = <<>>
  /\ ctx = "none" /\ signalled = FALSE /\ fxSignalled = FALSE
  /\ config = FALSE /\ data = "nil" /\ dataCloses = 0 /\ mgr = 0
  /\ fx = "off" /\ reqs = [r \in Requests |-> "idle"]

At(from, to) == main = from /\ main' = to

Die == main' = "dead"

-------------------------------------------------------------------------------
(* Start-up.                                                                  *)

\* Context makes the application's context when it is first asked for.
Context == IF ctx = "none" THEN "live" ELSE ctx

\* service.New, the context and the signal handler; the program around it may
\* add handlers of its own to any hook before Start.
NewService ==
  /\ At("new", "boot")
  /\ ctx' = Context
  /\ \E H \in SUBSET HookNames :
       handlers' = [h \in HookNames |-> IF h \in H THEN {"user"} ELSE {}]
  /\ UNCHANGED <<round, ran, hookFailed, managerVars, cmdVars, signalled, dataVars, mgr, fx,
                 fxSignalled, reqs>>

\* Bootstrap executes the before hooks and ignores the outcome.
Bootstrap ==
  /\ At("boot", "register")
  /\ round' = Execute(handlers, "before")
  /\ UNCHANGED <<handlers, ran, hookFailed, managerVars, cmdVars, runVars, dataVars, mgr, reqs>>

\* Then it adds its two handlers, and the commands are registered.
RegisterHandlers ==
  /\ At("register", "command") /\ RoundOver
  /\ handlers' = Add(Add(handlers, "after", "a_load_cfg"), "after", "b_bootstrap")
  /\ UNCHANGED <<round, ran, hookFailed, managerVars, cmdVars, runVars, dataVars, mgr, reqs>>

\* Cobra runs a command, which first executes the after hooks.
RunCommand(c) ==
  /\ At("command", "hooks")
  /\ cmd' = c /\ plan' = Command(c).drivers
  /\ LET hooks == Command(c).hooks IN
       round' = IF hooks.sorted THEN ExecuteWithExclude(handlers, "after", hooks.excluded)
                                ELSE Execute(handlers, "after")
  /\ UNCHANGED <<handlers, ran, hookFailed, managerVars, runVars, dataVars, mgr, reqs>>

\* No such command: cobra returns an error or prints the help.
NoCommand ==
  /\ At("command", "stop")
  /\ UNCHANGED <<hookVars, managerVars, cmdVars, runVars, dataVars, mgr, reqs>>

\* The next handler of the round returns.  The program's own handler has no
\* effect the model tells apart.
RunHandler(k) ==
  /\ ~Ended /\ HandlerReturns(k)
  /\ config' = (config \/ k \in {"a_load_cfg", "b_bootstrap"})
  /\ data' = IF k = "b_bootstrap" THEN "open"
             ELSE IF k = "close_connection_db" /\ data # "nil" THEN "closed" ELSE data
  /\ dataCloses' = IF k = "close_connection_db" /\ data # "nil" THEN dataCloses + 1 ELSE dataCloses
  /\ UNCHANGED <<managerVars, main, cmdVars, runVars, mgr, reqs>>

\* Only the program's own handler returns an error.
UserHandlerFails ==
  /\ ~Ended /\ HandlerFails("user")
  /\ UNCHANGED <<managerVars, ownVars>>

\* A missing or invalid configuration, or a data source that does not connect,
\* is a panic.
HandlerPanics ==
  /\ ~Ended /\ \E k \in {"a_load_cfg", "b_bootstrap"} : MayRun(k)
  /\ Die
  /\ UNCHANGED <<hookVars, managerVars, cmdVars, runVars, dataVars, mgr, reqs>>

\* The command goes on to its drivers, whatever Execute returned.
HooksDone ==
  /\ At("hooks", "driver") /\ RoundOver
  /\ UNCHANGED <<hookVars, managerVars, cmdVars, runVars, dataVars, mgr, reqs>>

-------------------------------------------------------------------------------
(* Drivers.                                                                   *)

\* NewEcho and the commands that look at the telemetry switch dereference b.config.
NeedsConfig == Head(plan) \in {"echo", "otel"}

NilConfig ==
  /\ main = "driver" /\ NeedsConfig /\ ~config
  /\ Die
  /\ UNCHANGED <<hookVars, managerVars, cmdVars, runVars, dataVars, mgr, reqs>>

TelemetryDisabled ==
  /\ main = "driver" /\ Head(plan) = "otel" /\ config
  /\ plan' = Tail(plan)
  /\ UNCHANGED <<hookVars, managerVars, main, cmd, runVars, dataVars, mgr, reqs>>

\* Mutant: the new manager is returned and not stored.
Unset_Always == TRUE

\* DriverV2 looks at b.driverv2 without the mutex.
Unset == mgr = 0

\* The command evaluates app.Driver().
CallDriver ==
  /\ main = "driver" /\ (NeedsConfig => config)
  /\ main' = IF Unset THEN "create" ELSE "init"
  /\ UNCHANGED <<hookVars, managerVars, cmdVars, runVars, dataVars, mgr, reqs>>

\* DriverV2 makes and stores a manager, without looking again.
NewManagerV2 ==
  /\ mgr' = mgr + 1
  /\ drivers' = {}
  /\ UNCHANGED <<version, stage, inited, closes, closer, closing, closeAlls>>

CreateManager ==
  /\ At("create", "init")
  /\ NewManagerV2
  /\ UNCHANGED <<hookVars, cmdVars, runVars, dataVars, reqs>>

StartDriver ==
  /\ At("init", "append")
  /\ RunInit(Head(plan))
  /\ UNCHANGED <<hookVars, cmdVars, runVars, dataVars, mgr, reqs>>

\* The worker command returns the error, the telemetry driver's exits the
\* process on the spot, the message broker's is only logged.
StartDriverFails ==
  /\ main = "init" /\ Head(plan) \in MayFail
  /\ RunInitFails(Head(plan))
  /\ main' = CASE Head(plan) = "worker" -> "stop"
               [] Head(plan) = "otel" -> "dead"
               [] Head(plan) = "nats" -> Command(cmd).then
  /\ UNCHANGED <<hookVars, cmdVars, runVars, dataVars, mgr, reqs>>

\* The NATS driver's listener gets no consumer, logs that and uses it.
StartDriverPanics ==
  /\ main = "init" /\ Head(plan) = "nats"
  /\ Die
  /\ UNCHANGED <<hookVars, managerVars, cmdVars, runVars, dataVars, mgr, reqs>>

DriverRuns ==
  /\ main = "append"
  /\ RunAppend(Head(plan))
  /\ plan' = Tail(plan)
  /\ main' = IF Tail(plan) = <<>> THEN Command(cmd).then ELSE "driver"
  /\ UNCHANGED <<hookVars, cmd, runVars, dataVars, mgr, reqs>>

-------------------------------------------------------------------------------
(* Running.                                                                   *)

Signal ==
  /\ main \notin {"new", "exit", "dead"}
  /\ ~signalled \/ (fx = "running" /\ ~fxSignalled)
  /\ signalled' = TRUE
  /\ fxSignalled' = (fx = "running")
  /\ UNCHANGED <<hookVars, managerVars, main, cmdVars, ctx, dataVars, mgr, fx, reqs>>

\* Stop cancels the context, if there is one.
Stop == ctx' = IF ctx = "none" THEN "none" ELSE "cancelled"

\* The goroutine of ShutdownSignal.
SignalStops ==
  /\ ~Ended /\ signalled /\ ctx # "cancelled"
  /\ Stop
  /\ UNCHANGED <<hookVars, managerVars, main, cmdVars, signalled, dataVars, mgr, fx,
                 fxSignalled, reqs>>

\* The master's gateway, an operator's exit or the master's order to a worker.
DriverStops ==
  /\ ~Ended /\ ctx # "cancelled"
  /\ {"master", "worker"} \cap Up # {}
  /\ Stop
  /\ UNCHANGED <<hookVars, managerVars, main, cmdVars, signalled, dataVars, mgr, fx,
                 fxSignalled, reqs>>

\* The goroutine that serves HTTP cannot listen: os.Exit.
Serving == "echo" \in Up \/ fx = "running"

ServerFails ==
  /\ ~Ended /\ Serving
  /\ Die
  /\ UNCHANGED <<hookVars, managerVars, cmdVars, runVars, dataVars, mgr, reqs>>

Cancelled ==
  /\ At("wait", "stop") /\ ctx = "cancelled"
  /\ UNCHANGED <<hookVars, managerVars, cmdVars, runVars, dataVars, mgr, reqs>>

\* fx.New(...).Run(): a constructor that fails or panics ends the process;
\* otherwise the HTTP server and the router run until a signal reaches fx.
FxStart ==
  /\ main = "fx" /\ fx = "off"
  /\ \/ fx' = "running" /\ main' = main
     \/ fx' = fx /\ Die
  /\ UNCHANGED <<hookVars, managerVars, cmdVars, ctx, signalled, dataVars, mgr, fxSignalled, reqs>>

FxStop ==
  /\ At("fx", "stop") /\ fx = "running" /\ fxSignalled
  /\ fx' = "stopped"
  /\ UNCHANGED <<hookVars, managerVars, cmdVars, ctx, signalled, dataVars, mgr, fxSignalled, reqs>>

-------------------------------------------------------------------------------
(* HTTP requests: /health and /workers look the master up in the manager.     *)

ReqGoto(r, from, to) == ~Ended /\ reqs[r] = from /\ reqs' = [reqs EXCEPT ![r] = to]

Request(r) ==
  /\ Serving
  /\ ReqGoto(r, "idle", "driver")
  /\ UNCHANGED <<hookVars, managerVars, main, cmdVars, runVars, dataVars, mgr>>

RequestCallsDriver(r) ==
  /\ ReqGoto(r, "driver", IF Unset THEN "create" ELSE "get")
  /\ UNCHANGED <<hookVars, managerVars, main, cmdVars, runVars, dataVars, mgr>>

\* The request makes a manager if it saw none, and looks the master up: Get takes
\* the read lock, so it waits for CloseAllDriver.
RequestGets(r) ==
  /\ ~Ended /\ reqs[r] \in {"create", "get"}
  /\ reqs[r] = "get" => ~Locked
  /\ reqs' = [reqs EXCEPT ![r] = "done"]
  /\ IF reqs[r] = "create" THEN NewManagerV2 ELSE UNCHANGED <<managerVars, mgr>>
  /\ UNCHANGED <<hookVars, main, cmdVars, dataVars, runVars>>

-------------------------------------------------------------------------------
(* Service.Shutdown.                                                          *)

\* Main has the command's outcome and executes the stop hooks.
StopHooks ==
  /\ At("stop", "stophooks")
  /\ round' = Execute(handlers, "stop")
  /\ UNCHANGED <<handlers, ran, hookFailed, managerVars, cmdVars, runVars, dataVars, mgr, reqs>>

\* Mutant: Service.Shutdown goes on to App.Shutdown without closing the drivers.
ShutdownDriver_Omitted ==
  /\ main = "stophooks" /\ RoundOver
  /\ main' = "shutdown"
  /\ UNCHANGED <<hookVars, managerVars, cmdVars, runVars, dataVars, mgr, reqs>>

ShutdownDriver ==
  /\ main = "stophooks" /\ RoundOver
  /\ main' = IF Unset THEN "makemgr" ELSE "closeall"
  /\ UNCHANGED <<hookVars, managerVars, cmdVars, runVars, dataVars, mgr, reqs>>

ShutdownCreates ==
  /\ At("makemgr", "closeall")
  /\ NewManagerV2
  /\ UNCHANGED <<hookVars, cmdVars, runVars, dataVars, reqs>>

CloseAllDriver ==
  /\ At("closeall", "close")
  /\ CloseBegin
  /\ UNCHANGED <<hookVars, cmdVars, runVars, dataVars, mgr, reqs>>

\* Mutant: a driver's Close is graceful and waits for the requests in progress.
CloseDriver_Graceful(d) ==
  /\ main = "close"
  /\ \A r \in Requests : reqs[r] \in {"idle", "done"}
  /\ CloseOne(d)
  /\ UNCHANGED <<hookVars, ownVars>>

\* Echo's Close does not wait for requests in progress.
CloseDriver(d) ==
  /\ main = "close"
  /\ CloseOne(d)
  /\ UNCHANGED <<hookVars, ownVars>>

DriversClosed ==
  /\ At("close", "shutdown")
  /\ CloseEnd
  /\ UNCHANGED <<hookVars, cmdVars, runVars, dataVars, mgr, reqs>>

\* Mutant: the handlers are added after the round has begun.
AppShutdown_AddsLate ==
  /\ main = "shutdown"
  /\ main' = "lasthooks"
  /\ handlers' = Add(Add(handlers, "stop", "close_connection_db"), "stop", "print_log")
  /\ round' = Execute(handlers, "stop")
  /\ UNCHANGED <<ran, hookFailed, managerVars, cmdVars, runVars, dataVars, mgr, reqs>>

\* App.Shutdown adds its handlers and executes the stop hooks again, the
\* program's own included; a key it finds taken makes it return at once.
AppShutdown ==
  /\ main = "shutdown"
  /\ IF "close_connection_db" \in handlers["stop"]
       THEN main' = "exit" /\ UNCHANGED <<handlers, round>>
       ELSE /\ main' = "lasthooks"
            /\ handlers' = Add(Add(handlers, "stop", "close_connection_db"), "stop", "print_log")
            /\ round' = Execute(handlers', "stop")
  /\ UNCHANGED <<ran, hookFailed, managerVars, cmdVars, runVars, dataVars, mgr, reqs>>

Exit ==
  /\ At("lasthooks", "exit") /\ RoundOver
  /\ UNCHANGED <<hookVars, managerVars, cmdVars, runVars, dataVars, mgr, reqs>>

-------------------------------------------------------------------------------
CommandStep == NewService \/ Bootstrap \/ RegisterHandlers \/ HooksDone \/ NilConfig
  \/ TelemetryDisabled \/ CallDriver \/ CreateManager \/ DriverRuns \/ Cancelled
  \/ FxStart \/ FxStop

HookStep == (\E k \in Keys : RunHandler(k)) \/ UserHandlerFails \/ HandlerPanics

ShutdownStep == StopHooks \/ ShutdownDriver \/ ShutdownCreates \/ CloseAllDriver
  \/ (\E d \in Drivers : CloseDriver(d)) \/ DriversClosed \/ AppShutdown \/ Exit

RequestStep(r) == RequestCallsDriver(r) \/ RequestGets(r)

Next ==
  \/ CommandStep
  \/ HookStep
  \/ ShutdownStep
  \/ (\E c \in Commands : RunCommand(c)) \/ NoCommand
  \/ StartDriver \/ StartDriverFails \/ StartDriverPanics
  \/ Signal \/ SignalStops \/ DriverStops \/ ServerFails
  \/ \E r \in Requests : Request(r) \/ RequestStep(r)

Spec == Init /\ [][Next]_vars

\* Each goroutine runs when it can.  The Init of worker, otel and nats talks to
\* another process and may block for good, so only that of master and echo is fair.
FairSpec ==
  /\ Spec
  /\ WF_vars(CommandStep \/ HookStep \/ ShutdownStep)
  /\ WF_vars(cmd \in {"master", "http"} /\ StartDriver)
  /\ WF_vars(SignalStops)
  /\ \A r \in Requests : WF_vars(RequestStep(r))

-------------------------------------------------------------------------------
(* Properties.                                                                *)

\* DriverV2's unlocked check never makes a second manager: the main goroutine has
\* made the first one before any request can ask for it.
OneManager == mgr <= 1

\* A process that ends in order has closed every driver it started, once, and
\* none that failed to start; the data sources, which drivers may still use, are
\* closed after them.
ClosedInOrder ==
  /\ main = "exit" => \A d \in Drivers : closes[d] = IF d \in inited THEN 1 ELSE 0
  /\ data = "closed" => Up = {}

\* Service.Shutdown executes the stop hooks twice.  An orderly end closes the data
\* sources once all the same, and runs the program's own handler exactly twice, unless
\* that handler failed before close_connection_db had its turn.
StopHooksRun ==
  main = "exit" /\ "stop" \notin hookFailed =>
    /\ dataCloses = IF data = "nil" THEN 0 ELSE 1
    /\ "user" \in handlers["stop"] => ran["stop"]["user"] = 2

\* Whatever the order of the after hooks, a command reaches its drivers with a
\* configuration and, if it asked for them, data sources, unless one of the
\* program's own handlers failed.
Configured ==
  main \in {"driver", "create", "init", "append", "wait", "fx"} /\ "after" \notin hookFailed =>
    config /\ (data = "open" <=> cmd \notin {"master", "worker"})

\* A cancelled master ends, and so does any command that has reached its wait, and
\* the command all once a signal reaches fx.
StopEnds ==
  (\/ ctx = "cancelled" /\ (cmd = "master" \/ main = "wait")
   \/ fxSignalled) ~> Ended
===============================================================================
