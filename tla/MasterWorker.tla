----------------------------- MODULE MasterWorker -----------------------------
(***************************************************************************)
(* The supervision protocol as a whole: one master process (the `master`   *)
(* command) with its goroutines, and the worker processes that dial it.    *)
(* The components' actions are in the modules this one extends; here are   *)
(* the master's process-wide state (its context and whether it still       *)
(* runs), the actions that involve it, and the composition.                *)
(***************************************************************************)
EXTENDS ConnectionRegistry

CONSTANT Stuck        \* workers whose process may stop running without ending

ASSUME StuckAssumption == Stuck \subseteq Workers

VARIABLES
  cancelled,   \* the master's application context is cancelled
  down         \* why the master process has ended, "no" while it runs

vars == <<workerEnd, masterEnd, toWorker, toMaster, proc, wstop, hasFD, status,
          senders, accept, gw, workerEvent, conns, reg, regW, health, pinging,
          pingW, elimKeys, elimPid, closing, closeKeys, cancelled, down>>

Causes == {"no", "exit", "killed", "panic", "race"}

Up == down = "no"

TypeOK ==
  /\ SockTypeOK
  /\ WorkerTypeOK
  /\ ClientTypeOK
  /\ GatewayTypeOK
  /\ RegistryTypeOK
  /\ cancelled \in BOOLEAN
  /\ down \in Causes

Init ==
  /\ SockInit
  /\ WorkerInit
  /\ ClientInit
  /\ GatewayInit
  /\ RegistryInit
  /\ cancelled = FALSE
  /\ down = "no"

-------------------------------------------------------------------------------
(* The worker processes.                                                      *)

\* A worker is started while the master's unix listener exists.  The listener
\* is never closed, so this succeeds even after the accept loop has returned.
StartWorker(w) ==
  /\ Up /\ Listening
  /\ Dial(w)
  /\ GwGoto(w, "backlog")
  /\ UNCHANGED <<accept, workerEvent, clientVars, registryVars, cancelled, down>>

StartWorkerFails(w) ==
  /\ ~Up \/ ~Listening
  /\ DialFails(w)
  /\ UNCHANGED <<gatewayVars, clientVars, registryVars, cancelled, down>>

\* The driver's Init and, once it has returned, the goroutine ReceiveMessage.
WorkerStep(w) ==
  /\ \/ ReceiveFD(w)
     \/ ReceiveFDFails(w)
     \/ Report(w)
     \/ ReportFails(w)
     \/ ReceiveMessage(w)
     \/ MasterLost(w)
  /\ UNCHANGED <<gatewayVars, clientVars, registryVars, cancelled, down>>

\* The worker's main goroutine, waiting for the context.
WorkerMain(w) ==
  /\ WorkerExit(w)
  /\ UNCHANGED <<gatewayVars, clientVars, registryVars, cancelled, down>>

\* What the outside does to a worker.
WorkerFault(w) ==
  /\ WorkerSignal(w) \/ WorkerCrash(w)
  /\ UNCHANGED <<gatewayVars, clientVars, registryVars, cancelled, down>>

-------------------------------------------------------------------------------
(* The master's goroutines.                                                   *)

\* The goroutine of ListenAndServe, later handleWorker.
AcceptLoop ==
  /\ Up
  /\ \/ Listen
     \/ AcceptSelect(cancelled)
     \/ \E w \in Workers : Accept(w)
  /\ UNCHANGED <<workerVars, registryVars, cancelled, down>>

\* ListenAndServe cannot open the unix listener: app.Stop().
NoUnixListener ==
  /\ Up
  /\ ListenFails
  /\ cancelled' = TRUE
  /\ UNCHANGED <<workerVars, registryVars, down>>

\* The goroutine that serves w's connection.
Gateway(w) ==
  /\ Up
  /\ \/ WriteProceed(w)
     \/ WriteProceedFails(w)
     \/ ReadPid(w)
     \/ ReadPidFails(w)
     \/ Offer(w)
  /\ UNCHANGED <<workerVars, registryVars, cancelled, down>>

Registration ==
  /\ Up
  /\ \/ RegStart
     \/ RegStartFails
     \/ AddLock
     \/ Add
  /\ UNCHANGED <<cancelled, down>>

Health ==
  /\ Up
  /\ \/ Tick
     \/ \E w \in Workers : PingSkip(w) \/ PingPick(w)
     \/ PingSend
     \/ PingFails
     \/ EliminateBegin
     \/ \E p \in Pids : EliminateVisit(p)
     \/ Remove
     \/ EliminateEnd
     \/ HealthReturn(cancelled)
  /\ UNCHANGED <<cancelled, down>>

\* A goroutine WorkerClient.Shutdown started.
Sender(w) ==
  /\ Up
  /\ SendShutdown(w)
  /\ UNCHANGED <<workerVars, gatewayVars, registryVars, cancelled, down>>

\* An interrupt or SIGTERM reaches the master: Service.ShutdownSignal.
MasterSignal ==
  /\ Up /\ ~cancelled
  /\ cancelled' = TRUE
  /\ UNCHANGED <<sockVars, workerVars, clientVars, gatewayVars, registryVars, down>>

\* The main goroutine: the command returns when the context is done, then
\* Service.Shutdown closes the driver.
Main ==
  /\ Up
  /\ \/ cancelled /\ CloseBegin
     \/ \E p \in Pids : CloseVisit(p)
     \/ CloseEnd
  /\ UNCHANGED <<cancelled, down>>

\* The process ends: the kernel closes its sockets, and all it had in memory is
\* gone.
EndMaster(cause) ==
  /\ down' = cause
  /\ MasterClosesAll
  /\ ClientsLost /\ GatewayLost /\ RegistryLost
  /\ UNCHANGED <<workerVars, cancelled>>

\* Main returns, without waiting for any other goroutine.
MasterExit == Up /\ closing = "exit" /\ EndMaster("exit")

\* The master is killed, or the HTTP driver calls os.Exit.
MasterCrash == Up /\ EndMaster("killed")

\* The TCP listener did not open; its nil value is used all the same.
ListenPanic == Up /\ accept = "init" /\ EndMaster("panic")

\* "fatal error: concurrent map iteration and map write".
MapFatal == Up /\ MapRace /\ EndMaster("race")

-------------------------------------------------------------------------------
Next ==
  \/ \E w \in Workers :
       \/ StartWorker(w)
       \/ StartWorkerFails(w)
       \/ WorkerStep(w)
       \/ WorkerMain(w)
       \/ WorkerFault(w)
       \/ Gateway(w)
       \/ Sender(w)
  \/ AcceptLoop
  \/ NoUnixListener
  \/ Registration
  \/ Health
  \/ MasterSignal
  \/ Main
  \/ MasterExit
  \/ MasterCrash
  \/ ListenPanic
  \/ MapFatal

\* Every goroutine of the master that can run eventually does, and so does every
\* worker process that is not stuck; nothing says that workers are started,
\* signals sent or faults happen.  A stuck worker may stop at any point for good,
\* its socket open: a suspended process, or one that no longer reads.
Fairness ==
  /\ \A w \in Workers \ Stuck : WF_vars(WorkerStep(w)) /\ WF_vars(WorkerMain(w))
  /\ \A w \in Workers : WF_vars(Gateway(w)) /\ WF_vars(Sender(w))
  /\ WF_vars(AcceptLoop \/ NoUnixListener \/ ListenPanic)
  /\ WF_vars(Registration)
  /\ WF_vars(Health)
  /\ WF_vars(Main)
  /\ WF_vars(MasterExit)

Spec == Init /\ [][Next]_vars

\* More than one worker process has been started.
Crowded == \E v, w \in Workers : v # w /\ proc[v] # "new" /\ proc[w] # "new"

\* The bound of the liveness run: a master that is asked to stop has had one
\* worker, and one that serves any number of them.
LiveSpec == Init /\ [][Next /\ ~(Crowded' /\ cancelled')]_vars /\ Fairness

\* The behaviours in which nobody asks the master to stop.
ServingSpec == Init /\ [][Next /\ ~cancelled']_vars /\ Fairness

-------------------------------------------------------------------------------
(* Safety.                                                                    *)

\* No two processes ever run under the same pid, i.e. the operating system does
\* not reuse a pid within the life of the master.
DistinctPids == \A v, w \in Workers : PidOf[v] = PidOf[w] => v = w

\* Whoever is in the registry has been through the whole handshake: it holds the
\* listener descriptor, its gateway goroutine is finished, its client is started
\* and it is filed under the pid it reported (AcceptHandshake, handleHandshake,
\* WorkerClient.Start and ConnectionRegistry.Add, in four goroutines of two
\* processes).
RegisteredHoldsListener ==
  \A p \in Pids : conns[p] # None =>
    /\ hasFD[conns[p]]
    /\ gw[conns[p]] = "done"
    /\ status[conns[p]] \in {"Connected", "Disconnected"}
    /\ PidOf[conns[p]] = p

\* Until the master closes its connections, a client it considers Disconnected
\* belongs to a process that has ended or has closed its connection on the way
\* out: the failure detector made of Broadcast and WorkerClient.Shutdown does not
\* give up on a worker that is still connected.
DisconnectedIsGone ==
  closing = "no" => \A w \in Workers : status[w] = "Disconnected" => proc[w] = "gone"

\* A worker is sent the order to stop only by a master that is stopping itself,
\* although Broadcast starts a goroutine that sends that order whenever a
\* heartbeat fails.
StopOrderOnlyWhenClosing ==
  closing = "no" =>
    \A w \in Workers : \A i \in DOMAIN toWorker[w] : toWorker[w][i] # "Shutdown"

\* Where the client of w can be while it is on its way to the registry.
Queued(w) == \E i \in DOMAIN workerEvent : workerEvent[i] = w
Held(w) ==
  \/ gw[w] \in {"handshake", "offer"}
  \/ Queued(w)
  \/ regW = w
  \/ Registered(w)

\* A worker that finished its side of the handshake is never dropped between the
\* gateway goroutine, the channel, the registration loop and the registry while
\* the master serves: someone still holds its connection (handleHandshake,
\* Master.Run, Add, eliminateWorkers).  It needs pids that are not reused.
NoWorkerLost ==
  closing = "no" => \A w \in Workers : proc[w] = "running" => Held(w)

\* A client is in one place only: it is not started, added or removed twice.
HeldOnce ==
  /\ \A i, j \in DOMAIN workerEvent : workerEvent[i] = workerEvent[j] => i = j
  /\ \A w \in Workers :
       /\ Queued(w) => regW # w /\ ~Registered(w) /\ gw[w] = "done"
       /\ regW = w => ~Registered(w) /\ gw[w] = "done"

\* An entry of the registry is removed or replaced, while the master serves,
\* only when the process it was made for has ended (eliminateWorkers with its
\* unlocked check and locked Remove; Add over an existing key).
EvictsOnlyTheGone ==
  [][\A p \in Pids :
       (conns[p] # None /\ conns'[p] # conns[p] /\ closing' = "no")
         => proc[conns[p]] = "gone"]_vars

-------------------------------------------------------------------------------
(* The strengthening that makes the safety properties inductive.              *)

\* How the process, the two ends of its connection and its gateway goroutine
\* go together.
Connection ==
  \A w \in Workers :
    /\ proc[w] = "new" => gw[w] = "none" /\ ~hasFD[w] /\ toWorker[w] = <<>>
    /\ workerEnd[w] = "open" <=> Alive(w)
    /\ proc[w] \in {"report", "running"} => hasFD[w]
    /\ toMaster[w] => hasFD[w] /\ proc[w] \in {"running", "gone"}
    /\ gw[w] \in {"backlog", "proceed", "handshake", "offer", "done"} => masterEnd[w] = "open"

\* A client has been through Start.
Started(w) == status[w] \in {"Connected", "Disconnected"}

\* Where a client is tells how far it has come.
Stages ==
  /\ \A w \in Workers :
       /\ status[w] # "none" => hasFD[w] /\ gw[w] \in {"offer", "done"}
       /\ gw[w] = "offer" => status[w] = "Connecting"
       /\ Queued(w) => status[w] = "Connecting" /\ gw[w] = "done"
       /\ regW = w => status[w] = "Connected" /\ gw[w] = "done"
       /\ w \in pinging \cup {pingW} => Started(w) /\ gw[w] = "done" /\ w # regW
  /\ \A p \in Pids : conns[p] # None =>
       /\ Started(conns[p]) /\ gw[conns[p]] = "done"
       /\ PidOf[conns[p]] = p
       /\ conns[p] # regW
  /\ \A i, j \in DOMAIN workerEvent : workerEvent[i] = workerEvent[j] => i = j

\* What the failure detector knows, down to the goroutines it has started.
Detector ==
  /\ DisconnectedIsGone
  /\ closing = "no" => \A w \in Workers : senders[w] > 0 => status[w] = "Disconnected"
  /\ StopOrderOnlyWhenClosing

\* With distinct pids: a live worker is always in somebody's hands.
Custody ==
  closing = "no" => \A w \in Workers :
    /\ proc[w] = "receiveFD" => gw[w] \in {"backlog", "proceed", "handshake"}
    /\ proc[w] = "receiveFD" /\ toWorker[w] # <<>> => gw[w] = "handshake"
    /\ proc[w] = "report" => gw[w] = "handshake"
    /\ proc[w] = "running" => Held(w)

\* With distinct pids: what the health loop has in hand is still registered, and
\* what it is about to remove is still the client it saw Disconnected.
InHand ==
  /\ \A w \in pinging : Registered(w)
  /\ health = "send" => Registered(pingW)
  /\ health \notin {"ping", "send"} => pinging = {}
  /\ health = "remove" => conns[elimPid] # None /\ status[conns[elimPid]] = "Disconnected"

IInv == TypeOK /\ Connection /\ Stages /\ Detector

DInv == IInv /\ Custody /\ InHand

-------------------------------------------------------------------------------
(* Refinement: the registry implements the abstract Membership.               *)

Members == {w \in Workers : Registered(w)}

M == INSTANCE Membership WITH
       Procs   <- Workers,
       ready   <- {w \in Workers : hasFD[w]},
       ended   <- {w \in Workers : proc[w] = "gone"},
       members <- Members,
       dropped <- {w \in Workers : status[w] = "Disconnected"} \ Members,
       serving <- closing = "no"

\* Sockets, goroutines and messages amount to Membership: a process joins once,
\* with the listener in hand, and is dropped in normal operation only after it
\* has ended.
ImplementsMembership == M!MSpec

-------------------------------------------------------------------------------
(* Liveness.                                                                  *)

\* The health loop waits in a write to a worker that does not read: Send holds no
\* deadline, and the worker's buffer is full.
BlockedByStuck == health = "send" /\ pingW \in Stuck /\ Len(toWorker[pingW]) = SockCap

\* A registered worker that ends is evicted by the health loop, or the master
\* itself ends: pings, failed sends and two unlocked loops do get there.  Only a
\* registered worker that lives and reads no more keeps the loop from it.
GoneIsEvicted ==
  \A w \in Workers :
    (Registered(w) /\ proc[w] = "gone") ~> (~Registered(w) \/ BlockedByStuck)

\* Once its context is cancelled the master ends, whatever its workers do: a
\* worker that reads no more holds up the health loop and the goroutines of
\* WorkerClient.Shutdown, and CloseAllConnections waits for neither.
MasterTerminates == cancelled ~> ~Up

\* No worker that runs outlives the master, whatever state the handshake was in.
OrphansEnd == \A w \in Workers \ Stuck : (~Up /\ Alive(w)) ~> proc[w] = "gone"

\* A worker told to stop, by a signal or by the master, ends; in the handshake it
\* has to wait for the master's answer first, which another worker that hangs in
\* its own handshake does not delay.
StoppedWorkerEnds ==
  \A w \in Workers \ Stuck : (Alive(w) /\ wstop[w]) ~> proc[w] = "gone"

\* A started worker is registered, unless it ends, the master ends, or the
\* registration loop has returned because of an earlier worker.  A worker that
\* hangs, in its handshake or later, does not keep another one out.
AdmittedUnlessLoopDead ==
  \A w \in Workers \ Stuck :
    Alive(w) ~> (Registered(w) \/ proc[w] = "gone" \/ ~Up \/ reg = "dead")

\* The same without the last excuse: one worker's failure does not keep the
\* master from taking in the others (use_cases/bus/ipc_server.go:179).
EveryWorkerAdmitted ==
  \A w \in Workers : Alive(w) ~> (Registered(w) \/ proc[w] = "gone" \/ ~Up)
===============================================================================
