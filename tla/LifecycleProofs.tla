---------------------------- MODULE LifecycleProofs ----------------------------
(***************************************************************************)
(* The promises of the v2 driver manager, for any set of drivers and any   *)
(* number of calls of CloseAllDriver, and those of the application that    *)
(* runs it, for any number of requests.                                    *)
(*                                                                         *)
(* None of the manager's is inductive alone: that no driver is forgotten   *)
(* when the list is emptied needs that the loop has closed whatever it     *)
(* passed, which needs that nothing is appended while it runs.  Ledger     *)
(* relates a driver's stage, its place in the list and its closes.         *)
(*                                                                         *)
(* The application's invariant says, for each place of the main goroutine, *)
(* what the plan, the manager and the hooks look like there.               *)
(***************************************************************************)
EXTENDS AppLifecycle, TLAPS

\* The part about the loop of CloseAllDriver, which both managers share.
Loop ==
  /\ closing \subseteq drivers
  /\ ~closer => closing = {}

\* What the v2 manager knows of one driver.
Ledger(d) ==
  /\ stage[d] # "returned" => d \notin drivers /\ closes[d] = 0
  /\ stage[d] = "append" => d \in inited
  /\ stage[d] = "new" => d \notin inited
  /\ d \in drivers => d \in inited
  /\ closes[d] > 0 => d \in inited
  /\ d \in inited /\ stage[d] = "returned" => d \in drivers \/ closes[d] = 1
  /\ d \in drivers /\ (~closer \/ d \in closing) => closes[d] = 0
  /\ d \in drivers /\ closer /\ d \notin closing => closes[d] = 1
  /\ closes[d] <= 1

ManagerInv ==
  /\ ManagerTypeOK
  /\ Loop
  /\ version = "v2" => \A d \in Drivers : Ledger(d)

\* Each step of a manager keeps the types and the loop's bookkeeping.
LEMMA LoopStep ==
  ASSUME ManagerTypeOK, Loop, [ManagerNext]_managerVars
  PROVE  ManagerTypeOK' /\ Loop'
<1> USE DEF ManagerTypeOK, Loop, Versions
<1>1. ASSUME NEW d \in Drivers, RunInit(d) PROVE ManagerTypeOK' /\ Loop'
  BY <1>1 DEF RunInit
<1>2. ASSUME NEW d \in Drivers, RunInitFails(d) PROVE ManagerTypeOK' /\ Loop'
  BY <1>2 DEF RunInitFails
<1>3. ASSUME NEW d \in Drivers, RunAppend(d) PROVE ManagerTypeOK' /\ Loop'
  BY <1>3 DEF RunAppend
<1>4. ASSUME NEW d \in Drivers, CloseOne(d) PROVE ManagerTypeOK' /\ Loop'
  BY <1>4 DEF CloseOne
<1>5. CASE CloseBegin
  BY <1>5 DEF CloseBegin
<1>6. CASE CloseEnd
  BY Zenon, <1>6 DEF CloseEnd
<1>7. CASE UNCHANGED managerVars
  BY <1>7 DEF managerVars
<1> QED
  BY <1>1, <1>2, <1>3, <1>4, <1>5, <1>6, <1>7 DEF ManagerNext

\* Each step of the v2 manager keeps every driver's ledger: RunDriver touches its
\* own driver only, and the mutex keeps RunAppend out of a running CloseAllDriver.
LEMMA LedgerStep ==
  ASSUME ManagerInv, version = "v2", [ManagerNext]_managerVars, NEW e \in Drivers
  PROVE  Ledger(e)'
<1>1. Ledger(e) /\ ManagerTypeOK /\ Loop
  BY DEF ManagerInv
<1> USE <1>1 DEF Ledger, ManagerTypeOK, Loop
<1>2. ASSUME NEW d \in Drivers, RunInit(d) PROVE Ledger(e)'
  BY <1>2 DEF RunInit
<1>3. ASSUME NEW d \in Drivers, RunInitFails(d) PROVE Ledger(e)'
  BY <1>3 DEF RunInitFails
<1>4. ASSUME NEW d \in Drivers, RunAppend(d) PROVE Ledger(e)'
  <2>1. ~closer
    BY <1>4 DEF RunAppend, Locked
  <2> QED
    BY <1>4, <2>1 DEF RunAppend
<1>5. ASSUME NEW d \in Drivers, CloseOne(d) PROVE Ledger(e)'
  <2>1. CASE e = d
    BY <1>5, <2>1 DEF CloseOne
  <2>2. CASE e # d
    BY <1>5, <2>2 DEF CloseOne
  <2> QED
    BY <2>1, <2>2
<1>6. CASE CloseBegin
  BY <1>6 DEF CloseBegin
<1>7. CASE CloseEnd
  BY <1>7 DEF CloseEnd
<1>8. CASE UNCHANGED managerVars
  BY <1>8 DEF managerVars
<1> QED
  BY <1>2, <1>3, <1>4, <1>5, <1>6, <1>7, <1>8 DEF ManagerNext

\* A new manager has no driver, and every ledger is blank (NewDriver, NewManagerV2).
LEMMA ManagerInitially == ManagerInit => ManagerInv
<1> SUFFICES ASSUME ManagerInit PROVE ManagerInv
  OBVIOUS
<1> USE DEF ManagerInit, NewManager
<1>1. ManagerTypeOK
  BY Zenon DEF ManagerTypeOK, Versions
<1>2. Loop
  BY DEF Loop
<1>3. ASSUME NEW d \in Drivers PROVE Ledger(d)
  <2>1. stage[d] = "new" /\ closes[d] = 0 /\ d \notin drivers /\ d \notin inited
    BY Zenon
  <2> QED
    BY <2>1 DEF Ledger
<1> QED
  BY <1>1, <1>2, <1>3 DEF ManagerInv

\* No step changes which manager this is.
LEMMA VersionKept == [ManagerNext]_managerVars => version' = version
BY DEF ManagerNext, managerVars, RunInit, RunInitFails, RunAppend, CloseOne, CloseBegin, CloseEnd

\* ManagerInv is inductive (all of RunDriver and CloseAllDriver).
THEOREM ManagerInductive == ManagerSpec => []ManagerInv
<1>1. ASSUME ManagerInv, [ManagerNext]_managerVars PROVE ManagerInv'
  <2>1. ManagerTypeOK' /\ Loop'
    BY <1>1, LoopStep DEF ManagerInv
  <2>2. ASSUME version' = "v2", NEW d \in Drivers PROVE Ledger(d)'
    BY <1>1, <2>2, LedgerStep, VersionKept
  <2> QED
    BY <2>1, <2>2 DEF ManagerInv
<1> QED
  BY <1>1, ManagerInitially, PTL DEF ManagerSpec

\* v2: a driver that started is in the list or has been closed, however RunDriver
\* and CloseAllDriver interleave.
THEOREM NobodyForgotten == ManagerSpec => []NoDriverForgotten
<1>1. ManagerInv => NoDriverForgotten
  BY DEF ManagerInv, ManagerTypeOK, Ledger, NoDriverForgotten
<1> QED
  BY <1>1, ManagerInductive, PTL

\* v2: Close is called once at most, and only on a driver whose Init succeeded.
THEOREM ClosedOnce == ManagerSpec => []ClosedOnceIfStarted
<1>1. ManagerInv => ClosedOnceIfStarted
  <2> SUFFICES ASSUME ManagerInv, version = "v2", NEW d \in Drivers
               PROVE  closes[d] <= 1 /\ (closes[d] = 1 => d \in inited)
    BY Zenon DEF ClosedOnceIfStarted
  <2>1. Ledger(d)
    BY Zenon DEF ManagerInv
  <2> QED
    BY <2>1 DEF Ledger
<1> QED
  BY <1>1, ManagerInductive, PTL

\* v2: Instance and Has never return a closed driver.
THEOREM FoundIsOpen == ManagerSpec => []LookupFindsOpen
<1>1. ManagerInv => LookupFindsOpen
  BY DEF ManagerInv, Ledger, LookupFindsOpen, Found, Locked
<1> QED
  BY <1>1, ManagerInductive, PTL

-------------------------------------------------------------------------------
(* The application.                                                           *)

Starting == {"driver", "create", "init", "append"}
Running == Starting \cup {"wait", "fx"}
Last == {"lasthooks", "exit"}

\* What is left of a command's drivers.
Plans == {<<"master", "echo">>, <<"echo">>, <<"worker">>, <<"otel", "nats">>, <<"nats">>}

PlanInv ==
  /\ main \in {"hooks"} \cup Running => cmd \in Commands
  /\ main \in {"hooks"} \cup Starting => plan \in Plans

\* There is one manager from the first driver on, nobody else has asked for one
\* before, and main is the only goroutine that changes it.
ManagersInv ==
  /\ mgr \in {0, 1}
  /\ main \in {"new", "boot", "register", "command", "hooks", "create", "makemgr"} => mgr = 0
  /\ main \in {"init", "append", "wait", "fx", "closeall", "close", "shutdown"} \cup Last => mgr = 1
  /\ fx # "off" \/ inited # {} => mgr = 1
  /\ reqs \in [Requests -> {"idle", "driver", "get", "done"}]
  /\ \A r \in Requests : reqs[r] # "idle" => mgr = 1

\* Only the driver main is at can be between Init and the append, and when the
\* manager has closed its drivers all that started are closed.
DriversInv ==
  /\ version = "v2" /\ ManagerInv
  /\ \A d \in Drivers : stage[d] = "append" =>
       main = "dead" \/ (main = "append" /\ d = Head(plan))
  /\ main \in {"shutdown"} \cup Last \/ data = "closed" => \A d \in inited : closes[d] = 1

\* Which keys are registered, and which of them the current round has still to run.
KeysInv ==
  /\ HooksTypeOK
  /\ handlers["before"] \subseteq {"user"}
  /\ handlers["after"] \subseteq {"user", "a_load_cfg", "b_bootstrap"}
  /\ main \in {"command", "hooks"} => {"a_load_cfg", "b_bootstrap"} \subseteq handlers["after"]
  /\ main \notin Last \cup {"dead"} => handlers["stop"] \subseteq {"user"}
  /\ main \notin {"register", "hooks", "stophooks", "lasthooks", "dead"} => round.todo = {}
  /\ main = "register" => round.hook = "before" /\ round.todo \subseteq {"user"}
  /\ main = "hooks" => round.hook = "after" /\ "close_connection_db" \notin round.todo
  /\ main = "stophooks" => round.hook = "stop" /\ round.todo \subseteq {"user"}
  /\ main = "lasthooks" => round.hook = "stop" /\ "b_bootstrap" \notin round.todo

Excluded == cmd \in {"master", "worker"}

\* The data sources: opened by a handler of the after hooks, closed by one of the last round.
DataInv ==
  /\ data \in {"nil", "open", "closed"} /\ config \in BOOLEAN
  /\ main \in {"new", "boot", "register", "command"} => data = "nil"
  /\ main = "hooks" /\ Excluded => "b_bootstrap" \notin round.todo /\ data = "nil"
  /\ main = "hooks" /\ "after" \notin hookFailed =>
       /\ "a_load_cfg" \in round.todo \/ config
       /\ Excluded \/ "b_bootstrap" \in round.todo \/ data = "open"
  /\ Configured
  /\ data = "closed" =>
       main \in Last \cup {"dead"} /\ (main # "dead" => "close_connection_db" \notin round.todo)
  /\ dataCloses = IF data = "closed" THEN 1 ELSE 0
  /\ main \in Last /\ "stop" \notin hookFailed =>
       "close_connection_db" \in round.todo \/ data # "open"

\* How often the program's own stop handler has run.
UserRuns ==
  CASE main = "stophooks" -> IF "user" \in round.todo THEN 0 ELSE 1
    [] main \in {"makemgr", "closeall", "close", "shutdown"} -> 1
    [] main = "lasthooks" -> IF "user" \in round.todo THEN 1 ELSE 2
    [] main = "exit" -> 2
    [] main \notin {"stophooks", "makemgr", "closeall", "close", "shutdown"} \cup Last -> 0

UserInv ==
  /\ main = "new" => ran["stop"]["user"] = 0
  /\ main # "dead" /\ "stop" \notin hookFailed /\ "user" \in handlers["stop"] =>
       ran["stop"]["user"] = UserRuns

LifeInv == PlanInv /\ ManagersInv /\ DriversInv /\ KeysInv /\ DataInv /\ UserInv

-------------------------------------------------------------------------------
(* Moves of the main goroutine that leave a part of the state alone.          *)

LEMMA ManagerFrame ==
  ASSUME UNCHANGED managerVars
  PROVE  ManagerInv' <=> ManagerInv
<1>1. UNCHANGED <<version, stage, inited, drivers, closes, closer, closing, closeAlls>>
  BY Zenon DEF managerVars
<1>2. (ManagerTypeOK' <=> ManagerTypeOK) /\ (Loop' <=> Loop)
  BY Zenon, <1>1 DEF ManagerTypeOK, Loop
<1>3. \A d : Ledger(d)' <=> Ledger(d)
  BY Zenon, <1>1 DEF Ledger
<1> QED
  BY Zenon, <1>1, <1>2, <1>3 DEF ManagerInv

\* Where main may go without touching the manager.
ManagerMove ==
  \/ main' = main \/ main' = "dead"
  \/ main \in {"new", "boot", "register", "command"} /\ main' \in {"boot", "register", "command", "hooks"}
  \/ main \in {"command", "wait"} /\ main' = "stop"
  \/ main = "hooks" /\ main' = "driver"
  \/ main = "driver" /\ main' = "create" /\ mgr = 0
  \/ main = "driver" /\ main' = "init" /\ mgr # 0
  \/ main = "stop" /\ main' = "stophooks"
  \/ main = "stophooks" /\ main' = "makemgr" /\ mgr = 0
  \/ main = "stophooks" /\ main' = "closeall" /\ mgr # 0
  \/ main \in {"shutdown"} \cup Last /\ main' \in Last

LEMMA ManagerMoves ==
  ASSUME ManagersInv, DriversInv, ManagerMove, UNCHANGED <<managerVars, mgr, fx, reqs>>,
         main = "append" => plan' = plan, data' = "closed" => data = "closed" \/ main \in Last
  PROVE  ManagersInv' /\ DriversInv'
<1>1. UNCHANGED <<version, stage, inited, closes, mgr, fx, reqs>>
  BY Zenon DEF managerVars
<1>2. ManagersInv'
  BY <1>1 DEF ManagersInv, ManagerMove, Last
<1>3. version' = "v2" /\ ManagerInv'
  BY Zenon, <1>1, ManagerFrame DEF DriversInv
<1>4. ASSUME NEW d \in Drivers, stage'[d] = "append"
      PROVE  main' = "dead" \/ (main' = "append" /\ d = Head(plan'))
  <2>1. main = "dead" \/ (main = "append" /\ d = Head(plan))
    BY Zenon, <1>1, <1>4 DEF DriversInv
  <2>2. main \in {"append", "dead"} => main' \in {main, "dead"}
    BY DEF ManagerMove, Last
  <2> QED
    BY Zenon, <2>1, <2>2
<1>5. main' \in {"shutdown"} \cup Last => main \in {"shutdown"} \cup Last
  BY DEF ManagerMove, Last
<1>6. main \in Last => main \in {"shutdown"} \cup Last
  OBVIOUS
<1>7. main' \in {"shutdown"} \cup Last \/ data' = "closed" => \A d \in inited' : closes'[d] = 1
  BY Zenon, <1>1, <1>5, <1>6 DEF DriversInv
<1> QED
  BY Zenon, <1>2, <1>3, <1>4, <1>7 DEF DriversInv

LEMMA PlanMoves ==
  ASSUME PlanInv, ManagerMove, UNCHANGED cmdVars, main' = "hooks" => main = "hooks"
  PROVE  PlanInv'
<1>1. cmd' = cmd /\ plan' = plan
  BY Zenon DEF cmdVars
<1>2. /\ main' \in {"hooks"} \cup Running => main \in {"hooks"} \cup Running
      /\ main' \in {"hooks"} \cup Starting => main \in {"hooks"} \cup Starting
  BY DEF ManagerMove, Running, Starting, Last
<1> QED
  BY Zenon, <1>1, <1>2 DEF PlanInv

\* Where main may go without touching the hooks.
HookMove ==
  \/ main' = main \/ main' = "dead"
  \/ main \in Running /\ main' \in Running \cup {"stop"}
  \/ main = "command" /\ main' = "stop"
  \/ main = "hooks" /\ main' = "driver" /\ RoundOver
  \/ main = "stophooks" /\ main' \in {"makemgr", "closeall"} /\ RoundOver
  \/ main \in {"makemgr", "closeall", "close"} /\ main' \in {"closeall", "close", "shutdown"}
  \/ main = "lasthooks" /\ main' = "exit" /\ RoundOver

LEMMA HookMoves ==
  ASSUME KeysInv, DataInv, UserInv, HookMove, UNCHANGED <<hookVars, dataVars, cmd>>
  PROVE  KeysInv' /\ DataInv' /\ UserInv'
<1>1. UNCHANGED <<handlers, round, ran, hookFailed, config, data, dataCloses, cmd>>
  BY Zenon DEF hookVars, dataVars
<1>2. HooksTypeOK' <=> HooksTypeOK
  BY Zenon, <1>1 DEF HooksTypeOK
<1>3. KeysInv'
  BY <1>1, <1>2 DEF KeysInv, HookMove, RoundOver, Running, Starting, Last
<1>4. DataInv'
  BY <1>1 DEF DataInv, Configured, Excluded, HookMove, RoundOver, Running, Starting, Last
<1>5. UserInv'
  BY <1>1 DEF UserInv, UserRuns, HookMove, RoundOver, Running, Starting, Last
<1> QED
  BY Zenon, <1>3, <1>4, <1>5

\* The steps that only move main, or change nothing the invariant is about.
Quiet ==
  \/ NoCommand \/ HandlerPanics \/ HooksDone \/ NilConfig \/ CallDriver \/ StartDriverPanics
  \/ Signal \/ SignalStops \/ DriverStops \/ ServerFails \/ Cancelled \/ ShutdownDriver \/ Exit
  \/ UNCHANGED vars

LEMMA QuietStep == LifeInv /\ Quiet => LifeInv'
<1> SUFFICES ASSUME LifeInv, Quiet PROVE LifeInv'
  OBVIOUS
<1>1. UNCHANGED <<hookVars, managerVars, cmdVars, dataVars, fx, mgr, reqs>>
  <2>1. CASE NoCommand \/ HandlerPanics \/ HooksDone \/ NilConfig \/ CallDriver \/ StartDriverPanics
    BY Zenon, <2>1 DEF NoCommand, HandlerPanics, HooksDone, NilConfig, CallDriver, StartDriverPanics, runVars
  <2>2. CASE ServerFails \/ Cancelled \/ ShutdownDriver \/ Exit
    BY Zenon, <2>2 DEF ServerFails, Cancelled, ShutdownDriver, Exit, runVars
  <2>3. CASE Signal \/ SignalStops \/ DriverStops
    BY Zenon, <2>3 DEF Signal, SignalStops, DriverStops
  <2>4. CASE UNCHANGED vars
    BY Zenon, <2>4 DEF vars, ownVars, runVars
  <2> QED
    BY Zenon, <2>1, <2>2, <2>3, <2>4 DEF Quiet
<1>2. ManagerMove /\ HookMove /\ (main' = "hooks" => main = "hooks") /\ (main = "append" => main' \in {"append", "dead"})
  <2>1. CASE HandlerPanics \/ NilConfig \/ StartDriverPanics \/ ServerFails
    <3>1. main' = "dead"
      BY Zenon, <2>1 DEF HandlerPanics, NilConfig, StartDriverPanics, ServerFails, Die
    <3> QED
      BY <3>1 DEF ManagerMove, HookMove
  <2>2. CASE Signal \/ SignalStops \/ DriverStops \/ UNCHANGED vars
    <3>1. main' = main
      BY Zenon, <2>2 DEF Signal, SignalStops, DriverStops, vars, ownVars
    <3> QED
      BY <3>1 DEF ManagerMove, HookMove
  <2>3. CASE NoCommand \/ HooksDone \/ Cancelled
    BY <2>3 DEF NoCommand, HooksDone, Cancelled, At, ManagerMove, HookMove, Running, Starting
  <2>4. CASE CallDriver
    BY <2>4 DEF CallDriver, Unset, ManagerMove, HookMove, Running, Starting
  <2>5. CASE ShutdownDriver
    BY <2>5 DEF ShutdownDriver, Unset, ManagerMove, HookMove
  <2>6. CASE Exit
    BY <2>6 DEF Exit, At, ManagerMove, HookMove, Last
  <2> QED
    BY Zenon, <2>1, <2>2, <2>3, <2>4, <2>5, <2>6 DEF Quiet
<1>3. plan' = plan /\ cmd' = cmd /\ data' = data
  BY Zenon, <1>1 DEF cmdVars, dataVars
<1>4. ManagersInv' /\ DriversInv'
  BY Zenon, <1>1, <1>2, <1>3, ManagerMoves DEF LifeInv
<1>5. PlanInv'
  BY Zenon, <1>1, <1>2, PlanMoves DEF LifeInv
<1>6. KeysInv' /\ DataInv' /\ UserInv'
  BY Zenon, <1>1, <1>2, <1>3, HookMoves DEF LifeInv
<1> QED
  BY Zenon, <1>4, <1>5, <1>6 DEF LifeInv

\* fx and the requests: the manager is there when they run, so that no request
\* makes one.
LEMMA FxStep == LifeInv /\ (FxStart \/ FxStop) => LifeInv'
<1> SUFFICES ASSUME LifeInv, FxStart \/ FxStop PROVE LifeInv'
  OBVIOUS
<1>1. /\ UNCHANGED <<hookVars, managerVars, cmdVars, dataVars, mgr, reqs>>
      /\ main = "fx" /\ main' \in {"fx", "stop", "dead"}
  BY DEF FxStart, FxStop, At, Die
<1>2. plan' = plan /\ cmd' = cmd /\ data' = data /\ UNCHANGED <<version, stage, inited, closes>>
  BY Zenon, <1>1 DEF cmdVars, dataVars, managerVars
<1>3. HookMove
  BY <1>1 DEF HookMove, Running, Starting
<1>4. ManagersInv'
  BY <1>1, <1>2 DEF LifeInv, ManagersInv, Last
<1>5. DriversInv'
  <2>1. ManagerInv' /\ version' = "v2"
    BY Zenon, <1>1, <1>2, ManagerFrame DEF LifeInv, DriversInv
  <2>2. \A d \in Drivers : stage[d] # "append"
    BY <1>1 DEF LifeInv, DriversInv
  <2>3. main' \notin {"shutdown"} \cup Last
    BY <1>1 DEF Last
  <2> QED
    BY Zenon, <1>2, <2>1, <2>2, <2>3 DEF LifeInv, DriversInv
<1>6. PlanInv'
  BY <1>1, <1>2 DEF LifeInv, PlanInv, Running, Starting
<1>7. KeysInv' /\ DataInv' /\ UserInv'
  BY Zenon, <1>1, <1>2, <1>3, HookMoves DEF LifeInv
<1> QED
  BY Zenon, <1>4, <1>5, <1>6, <1>7 DEF LifeInv

LEMMA RequestsStep ==
  ASSUME LifeInv, NEW r \in Requests, Request(r) \/ RequestStep(r)
  PROVE  LifeInv'
<1>1. /\ UNCHANGED <<hookVars, managerVars, main, cmdVars, dataVars, runVars, mgr>>
      /\ mgr = 1 /\ \E q \in {"driver", "get", "done"} : reqs' = [reqs EXCEPT ![r] = q]
  <2>1. CASE Request(r)
    <3>1. fx = "running" \/ inited # {}
      BY Zenon, <2>1 DEF Request, Serving, Up
    <3>2. mgr = 1
      BY <3>1 DEF LifeInv, ManagersInv
    <3> QED
      BY Zenon, <2>1, <3>2 DEF Request, ReqGoto
  <2>2. CASE RequestCallsDriver(r)
    <3>1. mgr = 1
      BY <2>2 DEF RequestCallsDriver, ReqGoto, LifeInv, ManagersInv
    <3>2. ~Unset
      BY <3>1 DEF Unset
    <3> QED
      BY Zenon, <2>2, <3>1, <3>2 DEF RequestCallsDriver, ReqGoto
  <2>3. CASE RequestGets(r)
    <3>1. reqs[r] # "create" /\ mgr = 1
      BY <2>3 DEF RequestGets, LifeInv, ManagersInv
    <3> QED
      BY Zenon, <2>3, <3>1 DEF RequestGets
  <2> QED
    BY Zenon, <2>1, <2>2, <2>3 DEF RequestStep
<1>2. cmd' = cmd /\ plan' = plan /\ fx' = fx /\ data' = data /\ UNCHANGED <<version, stage, inited, closes>>
  BY Zenon, <1>1 DEF cmdVars, runVars, dataVars, managerVars
<1>3. ManagersInv'
  BY <1>1, <1>2 DEF LifeInv, ManagersInv
<1>4. DriversInv' /\ PlanInv'
  BY Zenon, <1>1, <1>2, ManagerFrame DEF LifeInv, DriversInv, PlanInv
<1>5. HookMove
  BY Zenon, <1>1 DEF HookMove
<1>6. KeysInv' /\ DataInv' /\ UserInv'
  BY Zenon, <1>1, <1>2, <1>5, HookMoves DEF LifeInv
<1> QED
  BY Zenon, <1>3, <1>4, <1>6 DEF LifeInv

-------------------------------------------------------------------------------
(* Steps that touch the manager.                                              *)

LEMMA PlanHeads ==
  ASSUME NEW p \in Plans
  PROVE  /\ Head(p) \in {"master", "echo", "worker", "otel", "nats"}
         /\ Tail(p) # <<>> => Tail(p) \in Plans
         /\ Head(p) = "otel" => Tail(p) \in Plans
<1>1. CASE p = <<"master", "echo">>
  BY <1>1 DEF Plans
<1>2. CASE p = <<"otel", "nats">>
  BY <1>2 DEF Plans
<1>3. CASE p = <<"echo">> \/ p = <<"worker">> \/ p = <<"nats">>
  <2>1. PICK x \in {"echo", "worker", "nats"} : p = <<x>>
    BY Zenon, <1>3
  <2>2. Head(p) = x /\ Tail(p) = <<>>
    BY <2>1
  <2> QED
    BY <2>1, <2>2
<1> QED
  BY Zenon, <1>1, <1>2, <1>3 DEF Plans

\* What a command does after its drivers.
LEMMA ThenWhere == \A c \in Commands : Command(c).then \in {"wait", "stop", "fx"}
<1> SUFFICES ASSUME NEW c \in Commands PROVE Command(c).then \in {"wait", "stop", "fx"}
  OBVIOUS
<1>1. c \in {"master", "worker", "http", "message-broker", "all"}
  BY LifecycleAssumption
<1> QED
  BY <1>1 DEF Command, NewMasterCommand, NewWorkerCommand, NewHttpCommand, NewMessageBrokerCommand, NewAllCommand

LEMMA ManagerInvStep == ManagerInv /\ [ManagerNext]_managerVars => ManagerInv'
<1> SUFFICES ASSUME ManagerInv, [ManagerNext]_managerVars PROVE ManagerInv'
  OBVIOUS
<1>1. ManagerTypeOK' /\ Loop'
  BY LoopStep DEF ManagerInv
<1>2. ASSUME version' = "v2", NEW d \in Drivers PROVE Ledger(d)'
  BY <1>2, LedgerStep, VersionKept
<1> QED
  BY <1>1, <1>2 DEF ManagerInv

LEMMA TelemetryStep == LifeInv /\ TelemetryDisabled => LifeInv'
<1> SUFFICES ASSUME LifeInv, TelemetryDisabled PROVE LifeInv'
  OBVIOUS
<1>1. /\ main = "driver" /\ main' = main /\ Head(plan) = "otel" /\ plan' = Tail(plan) /\ cmd' = cmd
      /\ UNCHANGED <<hookVars, managerVars, dataVars, mgr, reqs, fx, data>>
  BY Zenon DEF TelemetryDisabled, runVars, dataVars
<1>2. plan \in Plans /\ cmd \in Commands
  BY <1>1 DEF LifeInv, PlanInv, Running, Starting
<1>3. plan' \in Plans
  BY Zenon, <1>1, <1>2, PlanHeads
<1>4. PlanInv'
  BY Zenon, <1>1, <1>2, <1>3 DEF PlanInv
<1>5. ManagerMove /\ HookMove /\ main # "append"
  BY <1>1 DEF ManagerMove, HookMove
<1>6. ManagersInv' /\ DriversInv'
  BY Zenon, <1>1, <1>5, ManagerMoves DEF LifeInv
<1>7. KeysInv' /\ DataInv' /\ UserInv'
  BY Zenon, <1>1, <1>5, HookMoves DEF LifeInv
<1> QED
  BY Zenon, <1>4, <1>6, <1>7 DEF LifeInv

\* A manager is made only when there is none, so that no list is lost.
LEMMA CreateStep == LifeInv /\ (CreateManager \/ ShutdownCreates) => LifeInv'
<1> SUFFICES ASSUME LifeInv, CreateManager \/ ShutdownCreates PROVE LifeInv'
  OBVIOUS
<1>1. /\ (main = "create" /\ main' = "init") \/ (main = "makemgr" /\ main' = "closeall")
      /\ NewManagerV2 /\ UNCHANGED <<hookVars, cmdVars, runVars, dataVars, reqs>>
  BY Zenon DEF CreateManager, ShutdownCreates, At
<1>2. cmd' = cmd /\ plan' = plan /\ fx' = fx /\ data' = data
  BY Zenon, <1>1 DEF cmdVars, runVars, dataVars
<1>3. /\ mgr' = mgr + 1 /\ drivers' = {}
      /\ UNCHANGED <<version, stage, inited, closes, closer, closing, closeAlls>>
  BY Zenon, <1>1 DEF NewManagerV2
<1>4. mgr = 0 /\ inited = {} /\ fx = "off" /\ version = "v2" /\ ManagerInv
  BY <1>1 DEF LifeInv, ManagersInv, DriversInv
<1>5. ManagersInv'
  BY <1>1, <1>2, <1>3, <1>4 DEF LifeInv, ManagersInv, Last
<1>6. DriversInv'
  <2>1. ManagerTypeOK /\ Loop /\ \A d \in Drivers : Ledger(d)
    BY Zenon, <1>4 DEF ManagerInv
  <2>2. drivers = {}
    BY <1>4, <2>1 DEF Ledger, ManagerTypeOK
  <2>3. drivers' = drivers
    BY Zenon, <1>3, <2>2
  <2>4. UNCHANGED managerVars
    BY Zenon, <1>3, <2>3 DEF managerVars
  <2>5. ManagerInv'
    BY Zenon, <1>4, <2>4, ManagerFrame
  <2>6. \A d \in Drivers : stage[d] # "append"
    BY <1>1 DEF LifeInv, DriversInv
  <2> QED
    BY Zenon, <1>3, <1>4, <2>5, <2>6 DEF DriversInv
<1>7. PlanInv'
  BY <1>1, <1>2 DEF LifeInv, PlanInv, Running, Starting
<1>8. HookMove
  BY <1>1 DEF HookMove, Running, Starting
<1>9. KeysInv' /\ DataInv' /\ UserInv'
  BY Zenon, <1>1, <1>2, <1>8, HookMoves DEF LifeInv
<1> QED
  BY Zenon, <1>5, <1>6, <1>7, <1>9 DEF LifeInv

\* RunDriver's two halves and a failing Init, on the driver main is at.
LEMMA DriverStep == LifeInv /\ (StartDriver \/ StartDriverFails \/ DriverRuns) => LifeInv'
<1> SUFFICES ASSUME LifeInv, StartDriver \/ StartDriverFails \/ DriverRuns PROVE LifeInv'
  OBVIOUS
<1>1. main \in {"init", "append"} /\ UNCHANGED <<hookVars, cmd, runVars, dataVars, mgr, reqs>>
  BY DEF StartDriver, StartDriverFails, DriverRuns, At, cmdVars
<1>2. fx' = fx /\ data' = data /\ mgr' = mgr /\ reqs' = reqs
  BY Zenon, <1>1 DEF runVars, dataVars
<1>3. cmd \in Commands /\ plan \in Plans /\ mgr = 1 /\ version = "v2" /\ ManagerInv
  BY <1>1 DEF LifeInv, PlanInv, ManagersInv, DriversInv, Running, Starting
<1>4. PICK d \in Drivers : d = Head(plan) /\ d \in {"master", "echo", "worker", "otel", "nats"}
  BY <1>3, PlanHeads, LifecycleAssumption
<1>5. PICK t \in {"wait", "stop", "fx"} : t = Command(cmd).then
  BY Zenon, <1>3, ThenWhere
<1>6. \A e \in Drivers : stage[e] = "append" => main = "append" /\ e = d
  BY <1>1, <1>4 DEF LifeInv, DriversInv
<1>7. stage \in [Drivers -> {"new", "append", "returned"}] /\ data # "closed"
  BY <1>1, <1>3 DEF LifeInv, DataInv, Last, ManagerInv, ManagerTypeOK
<1>8. /\ \/ RunInit(d) /\ main' = "append" /\ plan' = plan
         \/ RunInitFails(d) /\ main' \in {"stop", "dead", t} /\ plan' = plan
         \/ RunAppend(d) /\ plan' = Tail(plan) /\ main' = IF Tail(plan) = <<>> THEN t ELSE "driver"
  <2>1. CASE StartDriver
    BY Zenon, <1>4, <2>1 DEF StartDriver, At, cmdVars
  <2>2. CASE StartDriverFails
    BY <1>4, <1>5, <2>2 DEF StartDriverFails, cmdVars, MayFail
  <2>3. CASE DriverRuns
    BY Zenon, <1>4, <1>5, <2>3 DEF DriverRuns
  <2> QED
    BY Zenon, <2>1, <2>2, <2>3
<1>9. main' \in {"append", "driver", "wait", "stop", "fx", "dead"}
  BY <1>5, <1>8
<1>10. ManagerInv' /\ version' = version
  BY Zenon, <1>3, <1>8, ManagerInvStep, VersionKept DEF ManagerNext
<1>11. \A e \in Drivers : stage'[e] = "append" => main' = "append" /\ e = Head(plan')
  <2>1. CASE RunInit(d) /\ main' = "append" /\ plan' = plan
    <3>1. main = "init"
      BY <1>4, <1>6, <1>1, <2>1, <1>7 DEF StartDriver, StartDriverFails, DriverRuns, At, RunInit, RunAppend
    <3> QED
      BY <1>4, <1>6, <1>7, <2>1, <3>1 DEF RunInit
  <2>2. CASE RunInitFails(d) /\ plan' = plan
    BY <1>3, <1>6, <1>7, <2>2 DEF RunInitFails
  <2>3. CASE RunAppend(d)
    BY <1>6, <1>7, <2>3 DEF RunAppend
  <2> QED
    BY Zenon, <1>8, <2>1, <2>2, <2>3
<1>12. DriversInv'
  <2>1. main' \notin {"shutdown"} \cup Last
    BY <1>9 DEF Last
  <2> QED
    BY Zenon, <1>2, <1>3, <1>7, <1>10, <1>11, <2>1 DEF DriversInv
<1>13. ManagersInv'
  BY <1>2, <1>3, <1>9 DEF LifeInv, ManagersInv, Last
<1>14. PlanInv'
  <2>1. main' \in Starting => plan' \in Plans
    <3>1. plan' = plan \/ main' \in {"wait", "stop", "fx"} \/ (plan' = Tail(plan) /\ Tail(plan) # <<>>)
      BY Zenon, <1>5, <1>8
    <3>2. CASE plan' = plan
      BY Zenon, <1>3, <3>2
    <3>3. CASE main' \in {"wait", "stop", "fx"}
      BY <3>3 DEF Starting
    <3>4. CASE plan' = Tail(plan) /\ Tail(plan) # <<>>
      BY Zenon, <1>3, <3>4, PlanHeads
    <3> QED
      BY Zenon, <3>1, <3>2, <3>3, <3>4
  <2>2. main' \notin {"hooks"}
    BY <1>9
  <2> QED
    BY Zenon, <1>1, <1>3, <2>1, <2>2 DEF PlanInv
<1>15. HookMove
  BY <1>1, <1>9 DEF HookMove, Running, Starting
<1>16. KeysInv' /\ DataInv' /\ UserInv'
  BY Zenon, <1>1, <1>15, HookMoves DEF LifeInv
<1> QED
  BY Zenon, <1>12, <1>13, <1>14, <1>16 DEF LifeInv

\* CloseAllDriver: when its loop is through, every driver that started is closed.
LEMMA CloseStep ==
  LifeInv /\ (CloseAllDriver \/ (\E d \in Drivers : CloseDriver(d)) \/ DriversClosed) => LifeInv'
<1> SUFFICES ASSUME LifeInv, CloseAllDriver \/ (\E d \in Drivers : CloseDriver(d)) \/ DriversClosed
             PROVE  LifeInv'
  OBVIOUS
<1>1. /\ UNCHANGED <<hookVars, cmdVars, dataVars, mgr, reqs, fx>>
      /\ \/ main = "closeall" /\ main' = "close" /\ CloseBegin
         \/ main = "close" /\ main' = "close" /\ \E d \in Drivers : CloseOne(d)
         \/ main = "close" /\ main' = "shutdown" /\ CloseEnd
  BY Zenon DEF CloseAllDriver, CloseDriver, DriversClosed, At, ownVars, runVars
<1>2. cmd' = cmd /\ plan' = plan /\ data' = data
  BY Zenon, <1>1 DEF cmdVars, dataVars
<1>3. version = "v2" /\ ManagerInv /\ mgr = 1 /\ \A d \in Drivers : stage[d] # "append"
  BY <1>1 DEF LifeInv, ManagersInv, DriversInv
<1>4. stage' = stage /\ inited' = inited
  BY Zenon, <1>1 DEF CloseBegin, CloseOne, CloseEnd
<1>5. ManagerInv' /\ version' = version
  BY Zenon, <1>1, <1>3, ManagerInvStep, VersionKept DEF ManagerNext
<1>6. ASSUME main' = "shutdown", NEW d \in inited
      PROVE  closes'[d] = 1
  <2>1. CloseEnd
    BY Zenon, <1>1, <1>6
  <2>2. d \in Drivers /\ stage[d] \in {"new", "append", "returned"} /\ Ledger(d)
    BY <1>3 DEF ManagerInv, ManagerTypeOK
  <2> QED
    BY <1>3, <2>1, <2>2 DEF CloseEnd, Ledger
<1>7. main' \notin Last /\ data # "closed"
  BY <1>1 DEF Last, LifeInv, DataInv
<1>8. DriversInv'
  BY Zenon, <1>2, <1>3, <1>4, <1>5, <1>6, <1>7 DEF DriversInv
<1>9. ManagersInv'
  BY <1>1, <1>3, <1>4 DEF LifeInv, ManagersInv, Last
<1>10. PlanInv'
  BY <1>1 DEF PlanInv, Running, Starting
<1>11. HookMove
  BY <1>1 DEF HookMove
<1>12. KeysInv' /\ DataInv' /\ UserInv'
  BY Zenon, <1>1, <1>2, <1>11, HookMoves DEF LifeInv
<1> QED
  BY Zenon, <1>8, <1>9, <1>10, <1>12 DEF LifeInv

-------------------------------------------------------------------------------
(* Steps that touch the hooks.                                                *)

\* The part of the invariant about the plan and the manager, in those steps.
LEMMA HookStepsElsewhere ==
  ASSUME LifeInv, ManagerMove, UNCHANGED <<managerVars, cmdVars, mgr, fx, reqs>>,
         main' = "hooks" => main = "hooks", data' = "closed" => data = "closed" \/ main \in Last
  PROVE  PlanInv' /\ ManagersInv' /\ DriversInv'
<1>1. plan' = plan
  BY Zenon DEF cmdVars
<1>2. PlanInv'
  BY Zenon, PlanMoves DEF LifeInv
<1> QED
  BY Zenon, <1>1, <1>2, ManagerMoves DEF LifeInv

LEMMA NamedHooks == "before" \in HookNames /\ "after" \in HookNames /\ "stop" \in HookNames
  BY LifecycleAssumption

LEMMA NamedKeys ==
  /\ "user" \in Keys /\ "a_load_cfg" \in Keys /\ "b_bootstrap" \in Keys
  /\ "close_connection_db" \in Keys /\ "print_log" \in Keys
  BY LifecycleAssumption

LEMMA NewServiceStep == LifeInv /\ NewService => LifeInv'
<1> SUFFICES ASSUME LifeInv, NewService PROVE LifeInv'
  OBVIOUS
<1>1. /\ main = "new" /\ main' = "boot"
      /\ UNCHANGED <<round, ran, hookFailed, managerVars, cmdVars, dataVars, mgr, fx, reqs>>
  BY Zenon DEF NewService, At
<1>2. PICK H \in SUBSET HookNames : handlers' = [h \in HookNames |-> IF h \in H THEN {"user"} ELSE {}]
  BY Zenon DEF NewService
<1>3. UNCHANGED <<config, data, dataCloses, cmd>>
  BY Zenon, <1>1 DEF dataVars, cmdVars
<1>4. handlers' \in [HookNames -> SUBSET Keys] /\ \A h \in HookNames : handlers'[h] \subseteq {"user"}
  BY <1>2, NamedKeys
<1>5. KeysInv'
  <2>1. HooksTypeOK'
    BY Zenon, <1>1, <1>4 DEF LifeInv, KeysInv, HooksTypeOK
  <2>2. round.todo = {}
    BY <1>1 DEF LifeInv, KeysInv
  <2> QED
    BY <1>1, <1>4, <2>1, <2>2, NamedHooks DEF KeysInv, Last
<1>6. DataInv'
  BY <1>1, <1>3 DEF LifeInv, DataInv, Configured, Last
<1>7. UserInv'
  <2>1. ran["stop"]["user"] = 0
    BY <1>1 DEF LifeInv, UserInv
  <2> QED
    BY <1>1, <2>1 DEF UserInv, UserRuns, Last
<1>8. ManagerMove /\ data' # "closed"
  BY <1>1, <1>3 DEF ManagerMove, LifeInv, DataInv
<1>9. PlanInv' /\ ManagersInv' /\ DriversInv'
  BY <1>1, <1>8, HookStepsElsewhere
<1> QED
  BY Zenon, <1>5, <1>6, <1>7, <1>9 DEF LifeInv

LEMMA BootstrapStep == LifeInv /\ Bootstrap => LifeInv'
<1> SUFFICES ASSUME LifeInv, Bootstrap PROVE LifeInv'
  OBVIOUS
<1>1. /\ main = "boot" /\ main' = "register"
      /\ round' = [hook |-> "before", todo |-> handlers["before"], sorted |-> FALSE]
      /\ UNCHANGED <<handlers, ran, hookFailed, managerVars, cmdVars, dataVars, mgr, reqs, fx>>
  BY Zenon DEF Bootstrap, At, Execute, runVars
<1>2. UNCHANGED <<config, data, dataCloses, cmd>>
  BY Zenon, <1>1 DEF dataVars, cmdVars
<1>3. KeysInv'
  <2>1. HooksTypeOK
    BY Zenon DEF LifeInv, KeysInv
  <2>2. round' \in Rounds
    BY <1>1, <2>1, NamedHooks DEF HooksTypeOK, Rounds
  <2>3. HooksTypeOK'
    BY Zenon, <1>1, <2>1, <2>2 DEF HooksTypeOK
  <2> QED
    BY <1>1, <2>3 DEF LifeInv, KeysInv, Last
<1>4. DataInv'
  BY <1>1, <1>2 DEF LifeInv, DataInv, Configured, Last
<1>5. UserInv'
  BY <1>1 DEF LifeInv, UserInv, UserRuns, Last
<1>6. ManagerMove /\ data' # "closed"
  BY <1>1, <1>2 DEF ManagerMove, LifeInv, DataInv
<1>7. PlanInv' /\ ManagersInv' /\ DriversInv'
  BY <1>1, <1>6, HookStepsElsewhere
<1> QED
  BY Zenon, <1>3, <1>4, <1>5, <1>7 DEF LifeInv

LEMMA RegisterStep == LifeInv /\ RegisterHandlers => LifeInv'
<1> SUFFICES ASSUME LifeInv, RegisterHandlers PROVE LifeInv'
  OBVIOUS
<1>1. /\ main = "register" /\ main' = "command" /\ round.todo = {}
      /\ handlers' = Add(Add(handlers, "after", "a_load_cfg"), "after", "b_bootstrap")
      /\ UNCHANGED <<round, ran, hookFailed, managerVars, cmdVars, dataVars, mgr, reqs, fx>>
  BY Zenon DEF RegisterHandlers, At, RoundOver, runVars
<1>2. UNCHANGED <<config, data, dataCloses, cmd>>
  BY Zenon, <1>1 DEF dataVars, cmdVars
<1>3. handlers \in [HookNames -> SUBSET Keys]
  BY Zenon DEF LifeInv, KeysInv, HooksTypeOK
<1>4. /\ handlers' \in [HookNames -> SUBSET Keys]
      /\ handlers'["after"] = handlers["after"] \cup {"a_load_cfg", "b_bootstrap"}
      /\ handlers'["before"] = handlers["before"] /\ handlers'["stop"] = handlers["stop"]
  BY <1>1, <1>3, NamedHooks, NamedKeys DEF Add
<1>5. KeysInv'
  <2>1. HooksTypeOK'
    BY Zenon, <1>1, <1>4 DEF LifeInv, KeysInv, HooksTypeOK
  <2> QED
    BY <1>1, <1>4, <2>1 DEF LifeInv, KeysInv, Last
<1>6. DataInv'
  BY <1>1, <1>2 DEF LifeInv, DataInv, Configured, Last
<1>7. UserInv'
  BY <1>1, <1>4 DEF LifeInv, UserInv, UserRuns, Last
<1>8. ManagerMove /\ data' # "closed"
  BY <1>1, <1>2 DEF ManagerMove, LifeInv, DataInv
<1>9. PlanInv' /\ ManagersInv' /\ DriversInv'
  BY <1>1, <1>8, HookStepsElsewhere
<1> QED
  BY Zenon, <1>5, <1>6, <1>7, <1>9 DEF LifeInv

\* What a command asks of the hooks: only master and worker leave b_bootstrap out,
\* and nobody leaves a_load_cfg out.
LEMMA CommandRuns ==
  ASSUME NEW c \in Commands
  PROVE  /\ Command(c).drivers \in Plans
         /\ Command(c).hooks = IF c \in {"master", "worker"} THEN AllBut("b_bootstrap") ELSE AllHooks
<1>1. c \in {"master", "worker", "http", "message-broker", "all"}
  BY LifecycleAssumption
<1>2. CASE c = "master"
  BY <1>2 DEF Command, NewMasterCommand, Plans
<1>3. CASE c = "worker"
  BY <1>3 DEF Command, NewWorkerCommand, Plans
<1>4. CASE c = "http"
  BY <1>4 DEF Command, NewHttpCommand, Plans
<1>5. CASE c = "message-broker"
  BY <1>5 DEF Command, NewMessageBrokerCommand, Plans
<1>6. CASE c = "all"
  BY <1>6 DEF Command, NewAllCommand, Plans
<1> QED
  BY Zenon, <1>1, <1>2, <1>3, <1>4, <1>5, <1>6

LEMMA RunCommandStep ==
  ASSUME LifeInv, NEW c \in Commands, RunCommand(c)
  PROVE  LifeInv'
<1>1. /\ main = "command" /\ main' = "hooks" /\ cmd' = c /\ plan' = Command(c).drivers
      /\ round' = IF Command(c).hooks.sorted
                  THEN ExecuteWithExclude(handlers, "after", Command(c).hooks.excluded)
                  ELSE Execute(handlers, "after")
      /\ UNCHANGED <<handlers, ran, hookFailed, managerVars, dataVars, mgr, reqs, fx>>
  BY Zenon DEF RunCommand, At, runVars
<1>2. UNCHANGED <<config, data, dataCloses>>
  BY Zenon, <1>1 DEF dataVars
<1>3. HooksTypeOK
  BY Zenon DEF LifeInv, KeysInv
<1>4. /\ round' \in Rounds /\ round'.hook = "after"
      /\ round'.todo = handlers["after"] \ (IF c \in {"master", "worker"} THEN {"b_bootstrap"} ELSE {})
  <2>1. handlers["after"] \subseteq Keys
    BY <1>3, NamedHooks DEF HooksTypeOK
  <2>2. CASE c \in {"master", "worker"}
    <3>1. Command(c).hooks = AllBut("b_bootstrap")
      BY Zenon, <2>2, CommandRuns
    <3>2. Command(c).hooks.sorted /\ Command(c).hooks.excluded = {"b_bootstrap"}
      BY <3>1 DEF AllBut
    <3>3. round' = [hook |-> "after", todo |-> handlers["after"] \ {"b_bootstrap"}, sorted |-> TRUE]
      BY Zenon, <1>1, <3>2 DEF ExecuteWithExclude
    <3> QED
      BY <2>1, <2>2, <3>3, NamedHooks DEF Rounds
  <2>3. CASE c \notin {"master", "worker"}
    <3>1. Command(c).hooks = AllHooks
      BY Zenon, <2>3, CommandRuns
    <3>2. ~Command(c).hooks.sorted
      BY <3>1 DEF AllHooks
    <3>3. round' = [hook |-> "after", todo |-> handlers["after"], sorted |-> FALSE]
      BY Zenon, <1>1, <3>2 DEF Execute
    <3> QED
      BY <2>1, <2>3, <3>3, NamedHooks DEF Rounds
  <2> QED
    BY Zenon, <2>2, <2>3
<1>5. /\ {"a_load_cfg", "b_bootstrap"} \subseteq handlers["after"]
      /\ "close_connection_db" \notin handlers["after"]
  BY <1>1 DEF LifeInv, KeysInv
<1>6. KeysInv'
  <2>1. HooksTypeOK'
    BY Zenon, <1>1, <1>3, <1>4 DEF HooksTypeOK
  <2> QED
    BY <1>1, <1>4, <1>5, <2>1 DEF LifeInv, KeysInv, Last
<1>7. DataInv'
  BY <1>1, <1>2, <1>4, <1>5 DEF LifeInv, DataInv, Configured, Excluded, Last
<1>8. UserInv'
  BY <1>1 DEF LifeInv, UserInv, UserRuns, Last
<1>9. ManagerMove /\ data' # "closed" /\ main # "append"
  BY <1>1, <1>2 DEF ManagerMove, LifeInv, DataInv
<1>10. ManagersInv' /\ DriversInv'
  BY Zenon, <1>1, <1>9, ManagerMoves DEF LifeInv
<1>11. PlanInv'
  BY Zenon, <1>1, CommandRuns DEF PlanInv
<1> QED
  BY Zenon, <1>6, <1>7, <1>8, <1>10, <1>11 DEF LifeInv

\* A handler that has run: the round without it, and its count in the round's hook.
LEMMA RanOnce ==
  ASSUME HooksTypeOK, NEW k \in Keys, k \in round.todo,
         round' = [round EXCEPT !.todo = {}] \/ round' = [round EXCEPT !.todo = @ \ {k}],
         ran' = [ran EXCEPT ![round.hook][k] = @ + 1]
  PROVE  /\ round' \in Rounds /\ round'.hook = round.hook /\ round'.todo \subseteq round.todo \ {k}
         /\ ran' \in [HookNames -> [Keys -> Nat]]
         /\ round.hook # "stop" \/ k # "user" => ran'["stop"]["user"] = ran["stop"]["user"]
         /\ round.hook = "stop" /\ k = "user" => ran'["stop"]["user"] = ran["stop"]["user"] + 1
<1>1. round \in [hook : HookNames, todo : SUBSET Keys, sorted : BOOLEAN]
  BY Zenon DEF HooksTypeOK, Rounds
<1>2. round' \in Rounds /\ round'.hook = round.hook /\ round'.todo \subseteq round.todo \ {k}
  BY <1>1 DEF Rounds
<1>3. round.hook \in HookNames /\ ran \in [HookNames -> [Keys -> Nat]]
  BY <1>1 DEF HooksTypeOK
<1>4. ran' \in [HookNames -> [Keys -> Nat]]
  BY <1>3
<1>5. /\ round.hook # "stop" \/ k # "user" => ran'["stop"]["user"] = ran["stop"]["user"]
      /\ round.hook = "stop" /\ k = "user" => ran'["stop"]["user"] = ran["stop"]["user"] + 1
  BY <1>3, NamedHooks, NamedKeys
<1> QED
  BY Zenon, <1>2, <1>4, <1>5

\* While a handler can run, main waits for one of the four rounds.
LEMMA InRound ==
  ASSUME LifeInv, NEW k \in round.todo, ~Ended
  PROVE  main \in {"register", "hooks", "stophooks", "lasthooks"}
  BY DEF LifeInv, KeysInv, Ended

LEMMA RunHandlerStep ==
  ASSUME LifeInv, NEW k \in Keys, RunHandler(k)
  PROVE  LifeInv'
<1>1. /\ k \in round.todo /\ round' = [round EXCEPT !.todo = @ \ {k}]
      /\ ran' = [ran EXCEPT ![round.hook][k] = @ + 1]
      /\ UNCHANGED <<handlers, hookFailed, managerVars, main, cmdVars, mgr, reqs, fx, cmd>>
      /\ ~Ended
  BY Zenon DEF RunHandler, HandlerReturns, MayRun, runVars, cmdVars
<1>2. /\ config' = (config \/ k \in {"a_load_cfg", "b_bootstrap"})
      /\ data' = IF k = "b_bootstrap" THEN "open"
                 ELSE IF k = "close_connection_db" /\ data # "nil" THEN "closed" ELSE data
      /\ dataCloses' = IF k = "close_connection_db" /\ data # "nil" THEN dataCloses + 1 ELSE dataCloses
  BY Zenon DEF RunHandler
<1>3. main \in {"register", "hooks", "stophooks", "lasthooks"}
  BY Zenon, <1>1, InRound
<1>4. HooksTypeOK
  BY Zenon DEF LifeInv, KeysInv
<1>5. /\ round' \in Rounds /\ round'.hook = round.hook
      /\ ran' \in [HookNames -> [Keys -> Nat]]
      /\ round.hook # "stop" \/ k # "user" => ran'["stop"]["user"] = ran["stop"]["user"]
      /\ round.hook = "stop" /\ k = "user" => ran'["stop"]["user"] = ran["stop"]["user"] + 1
  BY Zenon, <1>1, <1>4, RanOnce
<1>6. round'.todo = round.todo \ {k}
  BY <1>1, <1>4 DEF HooksTypeOK, Rounds
<1>7. /\ main = "register" \/ main = "stophooks" => k = "user"
      /\ main = "hooks" => k # "close_connection_db"
      /\ main = "lasthooks" => k # "b_bootstrap"
      /\ main \in {"register", "hooks"} => round.hook # "stop"
      /\ main \in {"stophooks", "lasthooks"} => round.hook = "stop"
  BY <1>1 DEF LifeInv, KeysInv
<1>8. KeysInv'
  <2>1. HooksTypeOK'
    BY Zenon, <1>1, <1>4, <1>5 DEF HooksTypeOK
  <2> QED
    BY <1>1, <1>3, <1>5, <1>6, <2>1 DEF LifeInv, KeysInv, Last
<1>9. DataInv'
  <2>1. DataInv /\ main' = main /\ cmd' = cmd /\ hookFailed' = hookFailed
    BY Zenon, <1>1 DEF LifeInv
  <2>2. CASE main \in {"register", "stophooks"}
    <3>1. config' = config /\ data' = data /\ dataCloses' = dataCloses
      BY <1>2, <1>7, <2>1, <2>2 DEF DataInv
    <3> QED
      BY <2>1, <2>2, <3>1 DEF DataInv, Configured, Last
  <2>3. CASE main = "hooks"
    <3>1. data # "closed" /\ dataCloses = 0 /\ dataCloses' = 0
      BY <1>2, <1>7, <2>1, <2>3 DEF DataInv, Last
    <3>2. Excluded' <=> Excluded
      BY Zenon, <2>1 DEF Excluded
    <3>3. data' = IF k = "b_bootstrap" THEN "open" ELSE data
      BY Zenon, <1>2, <1>7, <2>3
    <3> QED
      BY Zenon, <1>1, <1>2, <1>6, <2>1, <2>3, <3>1, <3>2, <3>3 DEF DataInv, Configured, Last
  <2>4. CASE main = "lasthooks"
    <3>1. CASE k = "close_connection_db"
      <4>1. data # "closed" /\ dataCloses = 0
        BY <1>1, <2>1, <2>4, <3>1 DEF DataInv
      <4> QED
        BY <1>2, <1>6, <2>1, <2>4, <3>1, <4>1 DEF DataInv, Configured, Last
    <3>2. CASE k # "close_connection_db"
      <4>1. data' = data /\ dataCloses' = dataCloses /\ config' \in BOOLEAN
        BY <1>2, <1>7, <2>1, <2>4, <3>2 DEF DataInv
      <4> QED
        BY <1>6, <2>1, <2>4, <3>2, <4>1 DEF DataInv, Configured, Last
    <3> QED
      BY Zenon, <3>1, <3>2
  <2> QED
    BY <1>3, <2>2, <2>3, <2>4
<1>10. UserInv'
  BY <1>1, <1>3, <1>5, <1>6, <1>7 DEF LifeInv, UserInv, UserRuns, Last
<1>11. ManagerMove /\ (data' = "closed" => data = "closed" \/ main \in Last)
  BY <1>1, <1>2, <1>3, <1>7 DEF ManagerMove, Last
<1>12. PlanInv' /\ ManagersInv' /\ DriversInv'
  BY Zenon, <1>1, <1>11, HookStepsElsewhere
<1> QED
  BY Zenon, <1>8, <1>9, <1>10, <1>12 DEF LifeInv

\* A handler of the program's own fails: the round is over, and the hook has failed.
LEMMA UserFailsStep == LifeInv /\ UserHandlerFails => LifeInv'
<1> SUFFICES ASSUME LifeInv, UserHandlerFails PROVE LifeInv'
  OBVIOUS
<1>1. /\ "user" \in round.todo /\ round' = [round EXCEPT !.todo = {}]
      /\ ran' = [ran EXCEPT ![round.hook]["user"] = @ + 1]
      /\ hookFailed' = hookFailed \cup {round.hook}
      /\ UNCHANGED <<handlers, managerVars, main, cmdVars, dataVars, mgr, reqs, fx>>
      /\ ~Ended
  BY Zenon DEF UserHandlerFails, HandlerFails, MayRun, ownVars, runVars
<1>2. UNCHANGED <<config, data, dataCloses, cmd>>
  BY Zenon, <1>1 DEF dataVars, cmdVars
<1>3. main \in {"register", "hooks", "stophooks", "lasthooks"}
  BY Zenon, <1>1, InRound
<1>4. HooksTypeOK
  BY Zenon DEF LifeInv, KeysInv
<1>5. /\ round' \in Rounds /\ round'.hook = round.hook
      /\ ran' \in [HookNames -> [Keys -> Nat]]
      /\ round.hook # "stop" => ran'["stop"]["user"] = ran["stop"]["user"]
  BY Zenon, <1>1, <1>4, RanOnce, NamedKeys
<1>6. round'.todo = {} /\ round.hook \in HookNames
  BY <1>1, <1>4 DEF HooksTypeOK, Rounds
<1>7. /\ main \in {"register", "hooks"} => round.hook # "stop"
      /\ main = "hooks" => round.hook = "after"
      /\ main \in {"stophooks", "lasthooks"} => round.hook = "stop"
  BY DEF LifeInv, KeysInv
<1>8. KeysInv'
  <2>1. hookFailed' \subseteq HookNames
    BY <1>1, <1>4, <1>6 DEF HooksTypeOK
  <2>2. HooksTypeOK'
    BY Zenon, <1>1, <1>4, <1>5, <2>1 DEF HooksTypeOK
  <2> QED
    BY <1>1, <1>3, <1>5, <1>6, <2>2 DEF LifeInv, KeysInv, Last
<1>9. DataInv'
  BY <1>1, <1>2, <1>3, <1>6, <1>7 DEF LifeInv, DataInv, Configured, Excluded, Last
<1>10. UserInv'
  BY <1>1, <1>3, <1>5, <1>7 DEF LifeInv, UserInv, UserRuns, Last
<1>11. ManagerMove
  BY Zenon, <1>1 DEF ManagerMove
<1>12. PlanInv' /\ ManagersInv' /\ DriversInv'
  BY Zenon, <1>1, <1>2, <1>11, HookStepsElsewhere
<1> QED
  BY Zenon, <1>8, <1>9, <1>10, <1>12 DEF LifeInv

\* The first round of the stop hooks.
LEMMA StopHooksStep == LifeInv /\ StopHooks => LifeInv'
<1> SUFFICES ASSUME LifeInv, StopHooks PROVE LifeInv'
  OBVIOUS
<1>1. /\ main = "stop" /\ main' = "stophooks"
      /\ round' = [hook |-> "stop", todo |-> handlers["stop"], sorted |-> FALSE]
      /\ UNCHANGED <<handlers, ran, hookFailed, managerVars, cmdVars, dataVars, mgr, reqs, fx>>
  BY Zenon DEF StopHooks, At, Execute, runVars
<1>2. UNCHANGED <<config, data, dataCloses, cmd>>
  BY Zenon, <1>1 DEF dataVars, cmdVars
<1>3. HooksTypeOK
  BY Zenon DEF LifeInv, KeysInv
<1>4. round' \in Rounds /\ round'.hook = "stop" /\ round'.todo = handlers["stop"]
  BY <1>1, <1>3, NamedHooks DEF HooksTypeOK, Rounds
<1>5. KeysInv'
  <2>1. HooksTypeOK'
    BY Zenon, <1>1, <1>3, <1>4 DEF HooksTypeOK
  <2> QED
    BY <1>1, <1>4, <2>1 DEF LifeInv, KeysInv, Last
<1>6. DataInv'
  BY <1>1, <1>2 DEF LifeInv, DataInv, Configured, Last
<1>7. UserInv'
  BY <1>1, <1>4 DEF LifeInv, UserInv, UserRuns, Last
<1>8. ManagerMove /\ data' # "closed"
  BY <1>1, <1>2 DEF ManagerMove, LifeInv, DataInv, Last
<1>9. PlanInv' /\ ManagersInv' /\ DriversInv'
  BY <1>1, <1>8, HookStepsElsewhere
<1> QED
  BY Zenon, <1>5, <1>6, <1>7, <1>9 DEF LifeInv

\* App.Shutdown finds its key free, adds its handlers and begins the second round.
LEMMA AppShutdownStep == LifeInv /\ AppShutdown => LifeInv'
<1> SUFFICES ASSUME LifeInv, AppShutdown PROVE LifeInv'
  OBVIOUS
<1>1. main = "shutdown" /\ UNCHANGED <<ran, hookFailed, managerVars, cmdVars, dataVars, mgr, reqs, fx>>
  BY Zenon DEF AppShutdown, runVars
<1>2. "close_connection_db" \notin handlers["stop"] /\ handlers["stop"] \subseteq {"user"}
  BY <1>1 DEF LifeInv, KeysInv, Last
<1>3. /\ main' = "lasthooks" /\ round' = [hook |-> "stop", todo |-> handlers'["stop"], sorted |-> FALSE]
      /\ handlers' = Add(Add(handlers, "stop", "close_connection_db"), "stop", "print_log")
  BY Zenon, <1>2 DEF AppShutdown, Execute
<1>4. UNCHANGED <<config, data, dataCloses, cmd>>
  BY Zenon, <1>1 DEF dataVars, cmdVars
<1>5. HooksTypeOK
  BY Zenon DEF LifeInv, KeysInv
<1>6. /\ handlers' \in [HookNames -> SUBSET Keys]
      /\ handlers'["stop"] = handlers["stop"] \cup {"close_connection_db", "print_log"}
      /\ handlers'["before"] = handlers["before"] /\ handlers'["after"] = handlers["after"]
  BY <1>3, <1>5, NamedHooks, NamedKeys DEF Add, HooksTypeOK
<1>7. round' \in Rounds /\ round'.hook = "stop" /\ round'.todo = handlers'["stop"]
  BY <1>3, <1>6, NamedHooks DEF Rounds
<1>8. KeysInv'
  <2>1. HooksTypeOK'
    BY Zenon, <1>1, <1>5, <1>6, <1>7 DEF HooksTypeOK
  <2> QED
    BY <1>2, <1>3, <1>6, <1>7, <2>1 DEF LifeInv, KeysInv, Last
<1>9. DataInv'
  BY <1>1, <1>3, <1>4, <1>6, <1>7 DEF LifeInv, DataInv, Configured, Last
<1>10. UserInv'
  BY <1>1, <1>3, <1>6, <1>7 DEF LifeInv, UserInv, UserRuns, Last
<1>11. ManagerMove /\ data' # "closed" /\ main' # "hooks"
  BY <1>1, <1>3, <1>4 DEF ManagerMove, LifeInv, DataInv, Last
<1>12. PlanInv' /\ ManagersInv' /\ DriversInv'
  BY Zenon, <1>1, <1>11, HookStepsElsewhere
<1> QED
  BY Zenon, <1>8, <1>9, <1>10, <1>12 DEF LifeInv

-------------------------------------------------------------------------------
LEMMA LifeInitial == Init => LifeInv
<1> SUFFICES ASSUME Init PROVE LifeInv
  OBVIOUS
<1>1. /\ HooksInit /\ version = "v2" /\ NewManager
      /\ main = "new" /\ cmd = "none" /\ plan = <<>> /\ config = FALSE /\ data = "nil"
      /\ dataCloses = 0 /\ mgr = 0 /\ fx = "off" /\ reqs = [r \in Requests |-> "idle"]
  BY Zenon DEF Init
<1>2. PlanInv
  BY <1>1 DEF PlanInv, Running, Starting
<1>3. ManagersInv
  BY <1>1 DEF ManagersInv, NewManager, Last
<1>4. DriversInv
  <2>1. ManagerInv
    BY Zenon, <1>1, ManagerInitially DEF ManagerInit, Versions
  <2>2. inited = {} /\ \A d \in Drivers : stage[d] # "append"
    BY <1>1 DEF NewManager
  <2> QED
    BY Zenon, <1>1, <2>1, <2>2 DEF DriversInv
<1>5. /\ handlers = [h \in HookNames |-> {}] /\ hookFailed = {}
      /\ ran = [h \in HookNames |-> [k \in Keys |-> 0]]
      /\ round = [hook |-> CHOOSE h \in HookNames : TRUE, todo |-> {}, sorted |-> FALSE]
  BY Zenon, <1>1 DEF HooksInit
<1>6. KeysInv
  <2>1. (CHOOSE h \in HookNames : TRUE) \in HookNames
    BY Zenon, NamedHooks
  <2>2. HooksTypeOK
    BY <1>5, <2>1 DEF HooksTypeOK, Rounds
  <2>3. round.todo = {} /\ \A h \in HookNames : handlers[h] = {}
    BY <1>5
  <2> QED
    BY <1>1, <2>2, <2>3, NamedHooks DEF KeysInv, Last
<1>7. DataInv
  BY Zenon, <1>1 DEF DataInv, Configured, Last
<1>8. UserInv
  BY <1>1, <1>5, NamedHooks, NamedKeys DEF UserInv, UserRuns
<1> QED
  BY Zenon, <1>2, <1>3, <1>4, <1>6, <1>7, <1>8 DEF LifeInv

LEMMA LifeStep == LifeInv /\ [Next]_vars => LifeInv'
<1> SUFFICES ASSUME LifeInv, [Next]_vars PROVE LifeInv'
  OBVIOUS
<1>1. CASE CommandStep
  BY Zenon, <1>1, NewServiceStep, BootstrapStep, RegisterStep, QuietStep, TelemetryStep, CreateStep,
     DriverStep, FxStep DEF CommandStep, Quiet
<1>2. CASE HookStep
  BY Zenon, <1>2, RunHandlerStep, UserFailsStep, QuietStep DEF HookStep, Quiet
<1>3. CASE ShutdownStep
  BY Zenon, <1>3, StopHooksStep, QuietStep, CreateStep, CloseStep, AppShutdownStep DEF ShutdownStep, Quiet
<1>4. CASE (\E c \in Commands : RunCommand(c)) \/ NoCommand \/ StartDriver \/ StartDriverFails \/ StartDriverPanics
  BY Zenon, <1>4, RunCommandStep, QuietStep, DriverStep DEF Quiet
<1>5. CASE Signal \/ SignalStops \/ DriverStops \/ ServerFails \/ UNCHANGED vars
  BY Zenon, <1>5, QuietStep DEF Quiet
<1>6. ASSUME NEW r \in Requests, Request(r) \/ RequestStep(r) PROVE LifeInv'
  BY Zenon, <1>6, RequestsStep
<1> QED
  BY Zenon, <1>1, <1>2, <1>3, <1>4, <1>5, <1>6 DEF Next

\* The inductive invariant of the process, from service.New to its end, for any
\* number of requests, any of the five commands, and whatever drivers and keys there
\* are beyond those the code names.
THEOREM LifeInductive == Spec => []LifeInv
  BY LifeInitial, LifeStep, PTL DEF Spec

\* DriverV2 reads b.driverv2 without its mutex, and there is still only one manager:
\* requests can ask for it only when main has made it.
THEOREM SingleManager == Spec => []OneManager
<1>1. LifeInv => OneManager
  BY DEF LifeInv, ManagersInv, OneManager
<1> QED
  BY <1>1, LifeInductive, PTL

\* Service.Shutdown: CloseAllDriver closes what RunDriver started, exactly once, and
\* App.Shutdown closes the data sources only after that.
THEOREM OrderlyEnd == Spec => []ClosedInOrder
<1>1. LifeInv => ClosedInOrder
  <2> SUFFICES ASSUME LifeInv PROVE ClosedInOrder
    OBVIOUS
  <2>1. /\ main = "exit" \/ data = "closed" => \A d \in inited : closes[d] = 1
        /\ ManagerTypeOK /\ \A d \in Drivers : Ledger(d)
    BY DEF LifeInv, DriversInv, ManagerInv, Last
  <2>2. \A d \in Drivers : d \notin inited => closes[d] = 0
    BY <2>1 DEF Ledger, ManagerTypeOK
  <2>3. data = "closed" => Up = {}
    BY <2>1 DEF Up
  <2> QED
    BY Zenon, <2>1, <2>2, <2>3 DEF ClosedInOrder
<1> QED
  BY <1>1, LifeInductive, PTL

\* Service.Shutdown executes the stop hooks, App.Shutdown again: the data sources are
\* closed once and the program's own handler runs twice, unless it fails.
THEOREM HooksRunTwice == Spec => []StopHooksRun
<1>1. LifeInv => StopHooksRun
  <2> SUFFICES ASSUME LifeInv, main = "exit", "stop" \notin hookFailed
               PROVE  /\ dataCloses = IF data = "nil" THEN 0 ELSE 1
                      /\ "user" \in handlers["stop"] => ran["stop"]["user"] = 2
    BY Zenon DEF StopHooksRun
  <2>1. round.todo = {}
    BY DEF LifeInv, KeysInv
  <2>2. dataCloses = IF data = "nil" THEN 0 ELSE 1
    BY <2>1 DEF LifeInv, DataInv, Last
  <2>3. "user" \in handlers["stop"] => ran["stop"]["user"] = 2
    BY DEF LifeInv, UserInv, UserRuns, Last
  <2> QED
    BY Zenon, <2>2, <2>3
<1> QED
  BY <1>1, LifeInductive, PTL

\* The after hooks (base_app.go's a_load_cfg and b_bootstrap) have run when a command
\* comes to its drivers, in whatever order the map yielded them.
THEOREM ReadyBeforeDrivers == Spec => []Configured
<1>1. LifeInv => Configured
  BY Zenon DEF LifeInv, DataInv
<1> QED
  BY <1>1, LifeInductive, PTL
===============================================================================
