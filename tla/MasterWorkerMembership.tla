----------------------- MODULE MasterWorkerMembership -------------------------
(***************************************************************************)
(* What MasterWorker guarantees when pids are not reused: no live worker   *)
(* is lost, only ended ones are evicted, and the whole implements          *)
(* Membership, every step of a process or goroutine being a step of        *)
(* Membership or changing nothing Membership speaks of.                    *)
(***************************************************************************)
EXTENDS MasterWorkerProofs

USE DEF Ends, Lines, ProcStates, Statuses, AcceptStates, GwStates, Causes

\* A client that is about to be added replaces nobody.
LEMMA AddReplacesNobody ==
  ASSUME DistinctPids, TypeOK, Stages, Add
  PROVE  regW \in Workers /\ PidOf[regW] \in Pids /\ conns[PidOf[regW]] = None
<1>1. regW \in Workers /\ PidOf[regW] \in Pids
  BY Zenon, NoneAssumption, PidOfAssumption DEF Add, TypeOK, RegistryTypeOK
<1>2. ASSUME conns[PidOf[regW]] # None PROVE FALSE
  <2> DEFINE u == conns[PidOf[regW]]
  <2>1. u \in Workers /\ PidOf[u] = PidOf[regW] /\ u # regW
    BY <1>1, <1>2 DEF Stages, TypeOK, RegistryTypeOK
  <2>2. QED BY Zenon, <1>1, <2>1 DEF DistinctPids
<1>3. QED BY Zenon, <1>1, <1>2

\* A live worker stays in somebody's hands.
LEMMA CustodyStep == DistinctPids /\ IInv /\ Custody /\ InHand /\ [Next]_vars => Custody'
<1> SUFFICES ASSUME DistinctPids, IInv, Custody, InHand, [Next]_vars, closing' = "no" PROVE Custody'
  BY Zenon DEF Custody
<1> USE NoneAssumption, PidOfAssumption
<1>t. TypeOK /\ Connection /\ Stages /\ Detector
  BY Zenon DEF IInv
<1> USE DEF Custody, Held, Queued, Registered, TypeOK, SockTypeOK, WorkerTypeOK, ClientTypeOK, GatewayTypeOK, RegistryTypeOK
<1>1. ASSUME NEW w \in Workers, StartWorker(w) PROVE Custody'
  BY <1>t, <1>1 DEF StartWorker, Dial, GwGoto, clientVars, registryVars, Connection
<1>2. ASSUME NEW w \in Workers, StartWorkerFails(w) PROVE Custody'
  BY <1>t, <1>2 DEF StartWorkerFails, DialFails, sockVars, gatewayVars, clientVars, registryVars
<1>3. ASSUME NEW w \in Workers, WorkerStep(w) PROVE Custody'
  <2> USE <1>t, <1>3 DEF WorkerStep, gatewayVars, clientVars, registryVars
  <2>1. CASE ReceiveFD(w)
    BY <2>1 DEF ReceiveFD, WorkerReads
  <2>2. CASE ReceiveFDFails(w) \/ ReportFails(w)
    <3>1. /\ proc' = [proc EXCEPT ![w] = "gone"]
          /\ toWorker' = [toWorker EXCEPT ![w] = <<>>]
      BY Zenon, <2>2 DEF ReceiveFDFails, ReportFails, EndProcess, WorkerCloses
    <3>2. QED BY <3>1
  <2>3. CASE Report(w)
    BY <2>3 DEF Report
  <2>4. CASE ReceiveMessage(w)
    BY <2>4 DEF ReceiveMessage, WorkerReads
  <2>5. CASE MasterLost(w)
    BY Zenon, <2>5 DEF MasterLost, sockVars
  <2>6. QED BY Zenon, <2>1, <2>2, <2>3, <2>4, <2>5
<1>4. ASSUME NEW w \in Workers, WorkerMain(w) PROVE Custody'
  BY <1>t, <1>4 DEF WorkerMain, WorkerExit, EndProcess, WorkerCloses, gatewayVars, clientVars, registryVars
<1>5. ASSUME NEW w \in Workers, WorkerFault(w) PROVE Custody'
  BY <1>t, <1>5 DEF WorkerFault, WorkerSignal, WorkerCrash, EndProcess, WorkerCloses, sockVars, gatewayVars,
     clientVars, registryVars
<1>6. ASSUME NEW w \in Workers, Gateway(w) PROVE Custody'
  <2> USE <1>t, <1>6 DEF Gateway, workerVars, registryVars
  <2>1. CASE WriteProceed(w)
    BY <2>1 DEF WriteProceed, MasterWrites, GwGoto, clientVars
  <2>2. CASE WriteProceedFails(w) \/ ReadPidFails(w)
    <3>1. ~Alive(w)
      BY Zenon, <2>2 DEF WriteProceedFails, ReadPidFails, Connection
    <3>2. QED
      BY <2>2, <3>1 DEF WriteProceedFails, ReadPidFails, MasterCloses, GwGoto, clientVars, Alive
  <2>3. CASE ReadPid(w)
    BY <2>3 DEF ReadPid, NewWorkerClient, GwGoto, Connection, Stages
  <2>4. CASE Offer(w)
    <3>1. \A v \in Workers : Queued(v) \/ v = w => Queued(v)'
      <4>1. workerEvent \in Seq(Workers) /\ workerEvent' = Append(workerEvent, w)
        BY Zenon, <2>4 DEF Offer
      <4>2. SUFFICES ASSUME NEW v \in Workers, Queued(v) \/ v = w PROVE Queued(v)'
        BY Zenon
      <4>3. \E i \in DOMAIN Append(workerEvent, w) : Append(workerEvent, w)[i] = v
        BY ONLY <4>1, <4>2, AppendKeeps, w \in Workers DEF Queued
      <4>4. QED BY Zenon, <4>1, <4>3
    <3> HIDE DEF Queued
    <3>2. QED
      BY Zenon, <2>4, <3>1 DEF Offer, GwGoto, clientVars, sockVars
  <2>5. QED BY Zenon, <2>1, <2>2, <2>3, <2>4
<1>7. ASSUME NEW w \in Workers, Sender(w) PROVE Custody'
  BY <1>t, <1>7 DEF Sender, SendShutdown, Send, SendFails, MasterWrites, MasterWriteFails, sockVars,
     workerVars, gatewayVars, registryVars, Detector, DisconnectedIsGone
<1>8. CASE AcceptLoop
  BY <1>t, <1>8 DEF AcceptLoop, Listen, AcceptSelect, Accept, GwGoto, clientVars, sockVars, workerVars, registryVars
<1>9. CASE NoUnixListener
  BY Zenon, <1>9 DEF NoUnixListener, ListenFails, clientVars, sockVars, workerVars, registryVars
<1>10. CASE Registration
  <2> USE <1>t, <1>10 DEF Registration, healthVars, closeVars, workerVars
  <2>1. CASE RegStart \/ RegStartFails
    <3> DEFINE w == Head(workerEvent)
    <3>1. w \in Workers /\ Queued(w)
      BY <2>1 DEF RegStart, RegStartFails
    <3>2. status[w] = "Connecting" /\ gw[w] = "done"
      BY Zenon, <3>1 DEF Stages
    <3>3. \A v \in Workers : Queued(v) => v = w \/ Queued(v)'
      <4>1. workerEvent \in Seq(Workers) /\ workerEvent # <<>> /\ workerEvent' = Tail(workerEvent)
        BY Zenon, <2>1 DEF RegStart, RegStartFails
      <4>2. SUFFICES ASSUME NEW v \in Workers, Queued(v), v # w PROVE Queued(v)'
        BY Zenon
      <4>3. \E i \in DOMAIN Tail(workerEvent) : Tail(workerEvent)[i] = v
        BY ONLY Zenon, <4>1, <4>2, TailKeeps DEF Queued
      <4>4. QED BY Zenon, <4>1, <4>3
    <3>4. regW = None /\ closing = "no"
      BY Zenon, <2>1 DEF RegStart, RegStartFails
    <3>5. /\ status' = [status EXCEPT ![w] = "Connected"]
          /\ toWorker' = [toWorker EXCEPT ![w] = Append(@, "Ping")] \/ toWorker' = toWorker
          /\ UNCHANGED <<gw, proc, conns, health, elimPid>>
      BY Zenon, <2>1 DEF RegStart, RegStartFails, StartOK, StartFails, Send, SendFails, MasterWrites,
         MasterWriteFails, sockVars
    <3>6. regW' = w \/ proc[w] = "gone"
      <4>1. CASE RegStart
        BY Zenon, <4>1 DEF RegStart
      <4>2. CASE RegStartFails
        BY Zenon, <3>1, <3>2, <4>2, SendFailsGone DEF RegStartFails, StartFails
      <4>3. QED BY Zenon, <2>1, <4>1, <4>2
    <3> HIDE DEF w
    <3>7. proc[w] \notin {"receiveFD", "report"}
      BY Zenon, <3>1, <3>2, <3>4
    <3>8. \A v \in Workers :
            /\ proc'[v] = "receiveFD" => gw'[v] \in {"backlog", "proceed", "handshake"}
            /\ proc'[v] = "receiveFD" /\ toWorker'[v] # <<>> => gw'[v] = "handshake"
            /\ proc'[v] = "report" => gw'[v] = "handshake"
      <4>1. \A v \in Workers : v # w => toWorker'[v] = toWorker[v]
        BY ONLY TypeOK, <3>5
      <4>2. QED BY Zenon, <3>4, <3>5, <3>7, <4>1
    <3>9. \A v \in Workers : proc'[v] = "running" => Held(v)'
      <4> HIDE DEF Queued
      <4>1. SUFFICES ASSUME NEW v \in Workers, proc[v] = "running" PROVE Held(v)'
        BY Zenon, <3>5
      <4>2. Held(v)
        BY Zenon, <3>4, <4>1
      <4>3. CASE v = w
        BY Zenon, <3>6, <4>1, <4>3
      <4>4. CASE v # w
        BY Zenon, <3>3, <3>4, <3>5, <4>2, <4>4
      <4>5. QED BY Zenon, <4>3, <4>4
    <3>10. QED BY Zenon, <3>8, <3>9
  <2>2. CASE AddLock
    BY Zenon, <2>2 DEF AddLock, gatewayVars, clientVars, sockVars
  <2>3. CASE Add
    <3>1. regW \in Workers /\ PidOf[regW] \in Pids /\ conns[PidOf[regW]] = None
      BY Zenon, <2>3, AddReplacesNobody
    <3>2. /\ conns' = [conns EXCEPT ![PidOf[regW]] = regW]
          /\ UNCHANGED <<closing, gw, workerEvent, proc, toWorker, status, health, elimPid>>
      BY Zenon, <2>3 DEF Add, gatewayVars, clientVars, sockVars
    <3>3. \A v \in Workers : Held(v) => Held(v)'
      BY <3>1, <3>2
    <3>4. QED BY Zenon, <3>2, <3>3
  <2>4. QED BY Zenon, <2>1, <2>2, <2>3
<1>11. CASE Health
  <2> USE <1>t, <1>11 DEF Health, Keys, regVars, closeVars, gatewayVars, workerVars
  <2>1. CASE Tick \/ EliminateBegin \/ EliminateEnd \/ HealthReturn(cancelled)
    <3>1. UNCHANGED <<proc, gw, toWorker, workerEvent, regW, conns, status, closing>>
      BY Zenon, <2>1 DEF Tick, EliminateBegin, EliminateEnd, HealthReturn, clientVars, sockVars
    <3>2. QED BY Zenon, <3>1
  <2>2. ASSUME NEW w \in Workers, PingSkip(w) \/ PingPick(w) PROVE Custody'
    <3>1. UNCHANGED <<proc, gw, toWorker, workerEvent, regW, conns, status, closing>>
      BY Zenon, <2>2 DEF PingSkip, PingPick, clientVars, sockVars
    <3>2. QED BY Zenon, <3>1
  <2>3. CASE PingSend
    <3>1. pingW \in Workers /\ gw[pingW] = "done"
      BY Zenon, <2>3 DEF PingSend, Stages
    <3>2. QED
      BY <2>3, <3>1 DEF PingSend, Send, MasterWrites, clientVars
  <2>4. CASE PingFails
    BY Zenon, <2>4 DEF PingFails, SendFails, MasterWriteFails, Shutdown, sockVars
  <2>5. ASSUME NEW p \in Pids, EliminateVisit(p) PROVE Custody'
    BY Zenon, <2>5 DEF EliminateVisit, clientVars, sockVars
  <2>6. CASE Remove
    <3>1. elimPid \in Pids /\ conns[elimPid] \in Workers /\ status[conns[elimPid]] = "Disconnected"
      BY <2>6 DEF Remove, InHand
    <3>2. proc[conns[elimPid]] = "gone"
      BY Zenon, <2>6, <3>1 DEF Remove, Detector, DisconnectedIsGone
    <3>3. \A v \in Workers : proc[v] = "running" /\ Held(v) => Held(v)'
      BY Zenon, <2>6, <3>1, <3>2 DEF Remove
    <3>4. QED
      BY Zenon, <2>6, <3>3 DEF Remove, clientVars, sockVars
  <2>7. QED BY Zenon, <2>1, <2>2, <2>3, <2>4, <2>5, <2>6
<1>12. CASE MasterSignal
  BY Zenon, <1>12 DEF MasterSignal, sockVars, workerVars, clientVars, gatewayVars, registryVars
<1>13. CASE Main
  BY Zenon, <1>13 DEF Main, CloseBegin, CloseVisit, CloseEnd
<1>14. ASSUME NEW c \in Causes, EndMaster(c) PROVE Custody'
  BY Zenon, <1>14 DEF EndMaster, RegistryLost
<1>15. CASE UNCHANGED vars
  BY Zenon, <1>15 DEF vars
<1>16. QED
  BY Zenon, <1>1, <1>2, <1>3, <1>4, <1>5, <1>6, <1>7, <1>8, <1>9, <1>10, <1>11, <1>12, <1>13, <1>14, <1>15
     DEF Next, MasterExit, MasterCrash, ListenPanic, MapFatal

\* What the health loop has in hand stays registered until it lets go of it.
LEMMA InHandStep == DistinctPids /\ IInv /\ InHand /\ [Next]_vars => InHand'
<1> SUFFICES ASSUME DistinctPids, IInv, InHand, [Next]_vars PROVE InHand'
  OBVIOUS
<1> USE NoneAssumption, PidOfAssumption
<1>t. TypeOK /\ Connection /\ Stages
  BY Zenon DEF IInv
<1> USE DEF InHand, Registered
<1>1. CASE UNCHANGED <<conns, health, pinging, pingW, elimPid, status>>
  BY Zenon, <1>1
<1>2. ASSUME NEW w \in Workers,
             StartWorkerFails(w) \/ WorkerStep(w) \/ WorkerMain(w) \/ WorkerFault(w) \/ StartWorker(w) \/ Sender(w)
      PROVE  InHand'
  <2>1. UNCHANGED <<conns, health, pinging, pingW, elimPid, status>>
    BY Zenon, <1>2, <1>t, WorkerFrame DEF StartWorker, Sender, SendShutdown, clientVars, registryVars
  <2>2. QED BY Zenon, <1>1, <2>1
<1>3. ASSUME NEW w \in Workers, Gateway(w) PROVE InHand'
  <2>1. CASE ReadPid(w)
    <3>1. /\ UNCHANGED <<conns, health, pinging, pingW, elimPid>>
          /\ status' = [status EXCEPT ![w] = "Connecting"]
          /\ gw[w] = "handshake"
      BY Zenon, <1>3, <2>1 DEF Gateway, ReadPid, NewWorkerClient, registryVars
    <3>2. \A p \in Pids : conns[p] # w
      BY <1>t, <3>1 DEF Stages, TypeOK, RegistryTypeOK
    <3>3. QED
      BY <1>t, <3>1, <3>2 DEF TypeOK, RegistryTypeOK, ClientTypeOK
  <2>2. CASE ~ReadPid(w)
    <3>1. UNCHANGED <<conns, health, pinging, pingW, elimPid, status>>
      BY Zenon, <1>3, <2>2 DEF Gateway, WriteProceed, WriteProceedFails, ReadPidFails, Offer, clientVars, registryVars
    <3>2. QED BY <1>1, <3>1
  <2>3. QED BY Zenon, <2>1, <2>2
<1>4. CASE AcceptLoop \/ NoUnixListener \/ MasterSignal
  <2>1. UNCHANGED <<conns, health, pinging, pingW, elimPid, status>>
    BY Zenon, <1>4 DEF AcceptLoop, NoUnixListener, MasterSignal, Listen, ListenFails, AcceptSelect, Accept,
       clientVars, registryVars
  <2>2. QED BY Zenon, <1>1, <2>1
<1>5. CASE Registration
  <2>1. CASE RegStart \/ RegStartFails
    <3> DEFINE w == Head(workerEvent)
    <3>1. w \in Workers /\ Queued(w)
      BY <1>t, <2>1 DEF RegStart, RegStartFails, TypeOK, GatewayTypeOK, Queued
    <3>2. status[w] = "Connecting"
      BY Zenon, <1>t, <3>1 DEF Stages
    <3>3. /\ status' = [status EXCEPT ![w] = "Connected"]
          /\ UNCHANGED <<conns, health, pinging, pingW, elimPid>>
      BY Zenon, <2>1 DEF RegStart, RegStartFails, StartOK, StartFails, healthVars
    <3> HIDE DEF w
    <3>4. \A p \in Pids : conns[p] # None => conns[p] # w
      BY Zenon, <1>t, <3>1, <3>2 DEF Stages, Started
    <3>5. QED
      BY <1>t, <3>1, <3>2, <3>3, <3>4 DEF TypeOK, RegistryTypeOK, ClientTypeOK
  <2>2. CASE AddLock
    <3>1. UNCHANGED <<conns, health, pinging, pingW, elimPid, status>>
      BY Zenon, <2>2 DEF AddLock, healthVars, clientVars
    <3>2. QED BY <1>1, <3>1
  <2>3. CASE Add
    <3>1. regW \in Workers /\ PidOf[regW] \in Pids /\ conns[PidOf[regW]] = None
      BY Zenon, <1>t, <2>3, AddReplacesNobody
    <3>2. /\ conns' = [conns EXCEPT ![PidOf[regW]] = regW]
          /\ UNCHANGED <<health, pinging, pingW, elimPid, status>>
      BY Zenon, <2>3 DEF Add, clientVars
    <3>3. \A v \in Workers : conns[PidOf[v]] = v => conns'[PidOf[v]] = v
      BY Zenon, <1>t, <3>1, <3>2 DEF TypeOK, RegistryTypeOK
    <3>4. (\A v \in pinging : v \in Workers) /\ (health = "send" => pingW \in Workers)
      BY Zenon, <1>t DEF TypeOK, RegistryTypeOK
    <3>5. health = "remove" => conns'[elimPid] = conns[elimPid]
      BY Zenon, <1>t, <3>1, <3>2 DEF TypeOK, RegistryTypeOK
    <3>6. QED BY Zenon, <3>2, <3>3, <3>4, <3>5
  <2>4. QED BY Zenon, <1>5, <2>1, <2>2, <2>3 DEF Registration
<1>6. CASE Health
  <2> USE <1>t DEF TypeOK, RegistryTypeOK, ClientTypeOK
  <2>1. CASE Tick
    <3>1. pinging' = {conns[p] : p \in Keys} /\ health' = "ping" /\ UNCHANGED conns
      BY Zenon, <2>1 DEF Tick, regVars
    <3>2. \A p \in Keys : conns[PidOf[conns[p]]] = conns[p]
      BY Zenon DEF Keys, Stages
    <3>3. QED BY <3>1, <3>2
  <2>2. ASSUME NEW w \in Workers, PingSkip(w) \/ PingPick(w) PROVE InHand'
    BY Zenon, <2>2 DEF PingSkip, PingPick, clientVars, regVars
  <2>3. CASE PingSend
    BY Zenon, <2>3 DEF PingSend, clientVars, regVars
  <2>4. CASE PingFails
    BY Zenon, <2>4 DEF PingFails, Shutdown, regVars
  <2>5. CASE EliminateBegin
    BY Zenon, <2>5 DEF EliminateBegin, clientVars, regVars
  <2>6. ASSUME NEW p \in Pids, EliminateVisit(p) PROVE InHand'
    BY Zenon, <2>6 DEF EliminateVisit, Keys, clientVars, regVars
  <2>7. CASE Remove
    BY Zenon, <2>7 DEF Remove, clientVars
  <2>8. CASE EliminateEnd \/ HealthReturn(cancelled)
    BY Zenon, <2>8 DEF EliminateEnd, HealthReturn, clientVars, regVars
  <2>9. QED BY Zenon, <1>6, <2>1, <2>2, <2>3, <2>4, <2>5, <2>6, <2>7, <2>8 DEF Health
<1>7. CASE Main
  <2>1. CASE CloseBegin \/ CloseEnd
    <3>1. UNCHANGED <<conns, health, pinging, pingW, elimPid, status>>
      BY Zenon, <2>1 DEF CloseBegin, CloseEnd, regVars, healthVars, clientVars
    <3>2. QED BY <1>1, <3>1
  <2>2. ASSUME NEW p \in Pids, CloseVisit(p) PROVE InHand'
    BY <1>t, <2>2 DEF CloseVisit, Shutdown, Keys, regVars, healthVars, TypeOK, RegistryTypeOK, ClientTypeOK
  <2>3. QED BY Zenon, <1>7, <2>1, <2>2 DEF Main
<1>8. ASSUME NEW c \in Causes, EndMaster(c) PROVE InHand'
  BY Zenon, <1>8 DEF EndMaster, RegistryLost
<1>9. CASE UNCHANGED vars
  BY Zenon, <1>1, <1>9 DEF vars
<1>10. QED
  BY Zenon, <1>2, <1>3, <1>4, <1>5, <1>6, <1>7, <1>8, <1>9
     DEF Next, MasterExit, MasterCrash, ListenPanic, MapFatal

\* The same for the invariant that needs distinct pids.
LEMMA InitDInv == Init => DInv
<1>1. Init => Custody /\ InHand
  BY Zenon DEF Init, WorkerInit, RegistryInit, Custody, InHand
<1>2. QED BY Zenon, <1>1, InitIInv DEF DInv

\* With distinct pids, every step of master or workers keeps DInv.
LEMMA DInvStep == DistinctPids /\ DInv /\ [Next]_vars => DInv'
BY Zenon, TypeStep, ConnectionStep, StagesStep, DetectorStep, CustodyStep, InHandStep DEF DInv, IInv

\* The stronger invariant of pids that are not reused.
THEOREM InductiveDistinct == DistinctPids => (Spec => []DInv)
<1> SUFFICES ASSUME DistinctPids PROVE Spec => []DInv
  OBVIOUS
<1>1. DInv /\ [Next]_vars => DInv'
  BY Zenon, DInvStep
<1>2. QED BY InitDInv, <1>1, PTL DEF Spec

\* While the master serves, a worker that finished its handshake is in the hands
\* of a goroutine, of the channel or of the registry.
THEOREM NeverLost == DistinctPids => (Spec => []NoWorkerLost)
<1> SUFFICES ASSUME DistinctPids PROVE Spec => []NoWorkerLost
  OBVIOUS
<1>1. DInv => NoWorkerLost
  BY Zenon DEF DInv, Custody, NoWorkerLost
<1>2. QED BY <1>1, InductiveDistinct, PTL

\* The map of the registry is written by Add and by Remove, and lost with the
\* process.
LEMMA ConnsFrame ==
  ASSUME TypeOK, [Next]_vars, conns' # conns
  PROVE  Add \/ Remove \/ closing' = "exit"
<1>1. ASSUME NEW w \in Workers,
             StartWorkerFails(w) \/ WorkerStep(w) \/ WorkerMain(w) \/ WorkerFault(w) \/ StartWorker(w)
             \/ Sender(w) \/ Gateway(w)
      PROVE  UNCHANGED conns
  BY Zenon, <1>1 DEF StartWorkerFails, WorkerStep, WorkerMain, WorkerFault, StartWorker, Sender, Gateway, registryVars
<1>2. CASE AcceptLoop \/ NoUnixListener \/ MasterSignal
  BY Zenon, <1>2 DEF AcceptLoop, NoUnixListener, MasterSignal, registryVars
<1>3. CASE Registration
  BY Zenon, <1>3 DEF Registration, RegStart, RegStartFails, AddLock
<1>4. CASE Health
  BY Zenon, <1>4 DEF Health, Tick, PingSkip, PingPick, PingSend, PingFails, EliminateBegin, EliminateVisit,
     EliminateEnd, HealthReturn, regVars
<1>5. CASE Main
  BY Zenon, <1>5 DEF Main, CloseBegin, CloseVisit, CloseEnd, regVars
<1>6. ASSUME NEW c \in Causes, EndMaster(c) PROVE closing' = "exit"
  BY Zenon, <1>6 DEF EndMaster, RegistryLost
<1>7. CASE UNCHANGED vars
  BY Zenon, <1>7 DEF vars
<1>8. QED
  BY Zenon, <1>1, <1>2, <1>3, <1>4, <1>5, <1>6, <1>7 DEF Next, MasterExit, MasterCrash, ListenPanic, MapFatal

\* Only the entry of a worker that has ended is removed or replaced while the
\* master serves.
THEOREM EvictionJustified == DistinctPids => (Spec => EvictsOnlyTheGone)
<1> SUFFICES ASSUME DistinctPids PROVE Spec => EvictsOnlyTheGone
  OBVIOUS
<1> DEFINE Justified == \A p \in Pids :
             (conns[p] # None /\ conns'[p] # conns[p] /\ closing' = "no") => proc[conns[p]] = "gone"
<1>1. DInv /\ [Next]_vars => [Justified]_vars
  <2>1. SUFFICES ASSUME DInv, [Next]_vars, NEW p \in Pids,
                        conns[p] # None, conns'[p] # conns[p], closing' = "no"
                 PROVE  proc[conns[p]] = "gone"
    OBVIOUS
  <2>2. TypeOK /\ Stages /\ Detector /\ InHand
    BY Zenon, <2>1 DEF DInv, IInv
  <2>3. Add \/ Remove
    BY Zenon, <2>1, <2>2, ConnsFrame
  <2>4. CASE Add
    <3>1. conns[PidOf[regW]] = None /\ conns' = [conns EXCEPT ![PidOf[regW]] = regW]
      BY Zenon, <2>2, <2>4, AddReplacesNobody DEF Add
    <3>2. QED BY Zenon, <2>1, <2>2, <3>1 DEF TypeOK, RegistryTypeOK
  <2>5. CASE Remove
    <3>1. /\ health = "remove" /\ conns' = [conns EXCEPT ![elimPid] = None]
          /\ closing = "no"
      BY Zenon, <2>1, <2>5 DEF Remove, closeVars
    <3>2. p = elimPid /\ status[conns[p]] = "Disconnected"
      BY Zenon, <2>1, <2>2, <3>1 DEF TypeOK, RegistryTypeOK, InHand
    <3>3. QED
      BY Zenon, <2>1, <2>2, <3>1, <3>2 DEF TypeOK, RegistryTypeOK, Detector, DisconnectedIsGone
  <2>6. QED BY Zenon, <2>3, <2>4, <2>5
<1>2. QED BY <1>1, InductiveDistinct, PTL DEF Spec, EvictsOnlyTheGone
-------------------------------------------------------------------------------
(* The refinement.                                                            *)

HIDE DEF Ends, Lines, ProcStates, Statuses, AcceptStates, GwStates, Causes

Ready == {w \in Workers : hasFD[w]}
Ended == {w \in Workers : proc[w] = "gone"}
Dropped == {w \in Workers : status[w] = "Disconnected"} \ Members
Serving == closing = "no"

\* A step that leaves alone the variables the mapping is made of is a stutter.
LEMMA Stutter ==
  ASSUME UNCHANGED <<hasFD, proc, conns, status, closing>>
  PROVE  UNCHANGED M!mvars
BY Zenon DEF M!mvars, Members, Registered

\* A step of a worker process is GetReady, End or a stutter.
LEMMA WorkerImplements ==
  ASSUME TypeOK, NEW w \in Workers,
         StartWorker(w) \/ StartWorkerFails(w) \/ WorkerStep(w) \/ WorkerMain(w) \/ WorkerFault(w)
  PROVE  [M!MNext]_(M!mvars)
<1> USE DEF TypeOK, WorkerTypeOK
<1>1. UNCHANGED <<conns, status, closing>>
  BY Zenon, WorkerFrame DEF StartWorker, clientVars, registryVars
<1>2. UNCHANGED <<Members, Dropped, Serving>>
  BY Zenon, <1>1 DEF Members, Registered, Dropped, Serving
<1>3. CASE ReceiveFD(w)
  <2>1. UNCHANGED Ended
    BY Zenon, <1>3 DEF ReceiveFD, Ended
  <2>2. w \notin Ended
    BY Zenon, <1>3 DEF ReceiveFD, Ended
  <2>3. Ready' = Ready \cup {w}
    BY Zenon, <1>3 DEF ReceiveFD, Ready
  <2>4. CASE w \in Ready
    <3>1. UNCHANGED Ready
      BY Zenon, <2>3, <2>4
    <3>2. QED BY Zenon, <1>2, <2>1, <3>1 DEF M!mvars, Ready, Ended, Dropped, Serving
  <2>5. CASE w \notin Ready
    <3>1. M!GetReady(w)
      BY Zenon, <1>2, <2>1, <2>2, <2>3, <2>5 DEF M!GetReady, Ready, Ended, Dropped, Serving
    <3>2. QED BY Zenon, <3>1 DEF M!MNext
  <2>6. QED BY Zenon, <2>4, <2>5
<1>4. ASSUME UNCHANGED hasFD, proc' = [proc EXCEPT ![w] = "gone"], proc[w] # "gone"
      PROVE  [M!MNext]_(M!mvars)
  <2>1. w \notin Ended /\ Ended' = Ended \cup {w} /\ UNCHANGED Ready
    BY Zenon, <1>4 DEF Ended, Ready
  <2>2. M!End(w)
    BY Zenon, <1>2, <2>1 DEF M!End, Ready, Ended, Dropped, Serving
  <2>3. QED BY Zenon, <2>2 DEF M!MNext
<1>5. ASSUME UNCHANGED <<hasFD, Ended>> PROVE [M!MNext]_(M!mvars)
  BY Zenon, <1>2, <1>5 DEF M!mvars, Ended, Dropped, Serving
<1>6. CASE StartWorker(w)
  BY Zenon, <1>5, <1>6 DEF StartWorker, Dial, Ended
<1>7. CASE StartWorkerFails(w)
  BY Zenon, <1>4, <1>7 DEF StartWorkerFails, DialFails
<1>8. CASE WorkerStep(w) /\ ~ReceiveFD(w)
  <2>1. CASE ReceiveFDFails(w) \/ ReportFails(w)
    BY Zenon, <1>4, <2>1 DEF ReceiveFDFails, ReportFails, EndProcess
  <2>2. CASE Report(w)
    BY Zenon, <1>5, <2>2 DEF Report, Ended
  <2>3. CASE ReceiveMessage(w) \/ MasterLost(w)
    BY Zenon, <1>5, <2>3 DEF ReceiveMessage, MasterLost, Ended
  <2>4. QED BY Zenon, <1>8, <2>1, <2>2, <2>3 DEF WorkerStep
<1>9. CASE WorkerMain(w)
  BY Zenon, <1>4, <1>9 DEF WorkerMain, WorkerExit, EndProcess
<1>10. CASE WorkerFault(w)
  <2>1. CASE WorkerSignal(w)
    BY Zenon, <1>5, <2>1 DEF WorkerSignal, Ended
  <2>2. CASE WorkerCrash(w)
    BY Zenon, <1>4, <2>2 DEF WorkerCrash, EndProcess, Alive
  <2>3. QED BY Zenon, <1>10, <2>1, <2>2 DEF WorkerFault
<1>11. QED BY Zenon, <1>3, <1>6, <1>7, <1>8, <1>9, <1>10

\* A client that becomes Connecting or Connected was not Disconnected, so it was
\* not among the dropped.
LEMMA StatusStutter ==
  ASSUME TypeOK, NEW w \in Workers, status[w] # "Disconnected",
         NEW s \in Statuses, s # "Disconnected", status' = [status EXCEPT ![w] = s],
         UNCHANGED <<hasFD, proc, conns, closing>>
  PROVE  UNCHANGED M!mvars
<1>1. UNCHANGED Members
  BY Zenon DEF Members, Registered
<1>2. {v \in Workers : status'[v] = "Disconnected"} = {v \in Workers : status[v] = "Disconnected"}
  BY Zenon DEF TypeOK, ClientTypeOK
<1>3. QED BY Zenon, <1>1, <1>2 DEF M!mvars

\* A registered client that becomes Disconnected is not dropped by that.
LEMMA ShutdownStutter ==
  ASSUME TypeOK, NEW w \in Workers, Registered(w), Shutdown(w),
         UNCHANGED <<hasFD, proc, conns, closing>>
  PROVE  UNCHANGED M!mvars
<1>1. UNCHANGED Members /\ w \in Members
  BY Zenon DEF Members, Registered
<1>2. Dropped' = Dropped
  BY Zenon, <1>1 DEF Dropped, Shutdown, TypeOK, ClientTypeOK
<1>3. QED BY Zenon, <1>1, <1>2 DEF M!mvars, Dropped

\* A step of the gateway, of the accept loop or of a sender is a stutter.
LEMMA GatewayImplements ==
  ASSUME TypeOK, Stages,
         AcceptLoop \/ NoUnixListener \/ MasterSignal \/ \E w \in Workers : Gateway(w) \/ Sender(w)
  PROVE  UNCHANGED M!mvars
<1>1. CASE AcceptLoop \/ NoUnixListener \/ MasterSignal
  <2>1. UNCHANGED <<hasFD, proc, conns, status, closing>>
    BY Zenon, <1>1 DEF AcceptLoop, NoUnixListener, MasterSignal, Listen, ListenFails, AcceptSelect, Accept,
       clientVars, registryVars, workerVars
  <2>2. QED BY Zenon, <2>1, Stutter
<1>2. ASSUME NEW w \in Workers, Sender(w) PROVE UNCHANGED M!mvars
  <2>1. UNCHANGED <<hasFD, proc, conns, status, closing>>
    BY Zenon, <1>2 DEF Sender, SendShutdown, registryVars, workerVars
  <2>2. QED BY Zenon, <2>1, Stutter
<1>3. ASSUME NEW w \in Workers, Gateway(w), ReadPid(w) PROVE UNCHANGED M!mvars
  <2>1. /\ status[w] = "none" /\ status' = [status EXCEPT ![w] = "Connecting"]
        /\ UNCHANGED <<hasFD, proc, conns, closing>>
    BY Zenon, <1>3 DEF Gateway, ReadPid, NewWorkerClient, registryVars, workerVars, Stages
  <2>2. QED BY Zenon, <2>1, StatusStutter DEF Statuses
<1>4. ASSUME NEW w \in Workers, Gateway(w), ~ReadPid(w) PROVE UNCHANGED M!mvars
  <2>1. UNCHANGED <<hasFD, proc, conns, status, closing>>
    BY Zenon, <1>4 DEF Gateway, WriteProceed, WriteProceedFails, ReadPidFails, Offer, clientVars, registryVars, workerVars
  <2>2. QED BY <2>1, Stutter
<1>5. QED BY Zenon, <1>1, <1>2, <1>3, <1>4

\* A step of the registration loop is Join or a stutter.
LEMMA RegistrationImplements ==
  ASSUME DistinctPids, TypeOK, Stages, Registration
  PROVE  [M!MNext]_(M!mvars)
<1> USE NoneAssumption, PidOfAssumption
<1>1. CASE RegStart \/ RegStartFails
  <2> DEFINE w == Head(workerEvent)
  <2>1. w \in Workers /\ Queued(w)
    BY <1>1 DEF RegStart, RegStartFails, TypeOK, GatewayTypeOK, Queued
  <2>2. /\ status[w] = "Connecting" /\ status' = [status EXCEPT ![w] = "Connected"]
        /\ UNCHANGED <<hasFD, proc, conns, closing>>
    BY Zenon, <1>1, <2>1 DEF RegStart, RegStartFails, StartOK, StartFails, Stages, workerVars, closeVars
  <2> HIDE DEF w
  <2>3. QED BY Zenon, <2>1, <2>2, StatusStutter DEF Statuses
<1>2. CASE AddLock
  <2>1. UNCHANGED <<hasFD, proc, conns, status, closing>>
    BY Zenon, <1>2 DEF AddLock, clientVars, workerVars, closeVars
  <2>2. QED BY Zenon, <2>1, Stutter
<1>3. CASE Add
  <2>1. regW \in Workers /\ PidOf[regW] \in Pids /\ conns[PidOf[regW]] = None
    BY Zenon, <1>3, AddReplacesNobody
  <2>2. /\ conns' = [conns EXCEPT ![PidOf[regW]] = regW]
        /\ UNCHANGED <<hasFD, proc, status, closing>>
    BY Zenon, <1>3 DEF Add, clientVars, workerVars
  <2>3. status[regW] = "Connected" /\ hasFD[regW]
    BY Zenon, <2>1 DEF Stages
  <2>4. regW \notin Members /\ Members' = Members \cup {regW}
    BY <2>1, <2>2 DEF Members, Registered, TypeOK, RegistryTypeOK, DistinctPids
  <2>5. regW \in Ready \ (Members \cup Dropped) /\ Dropped' = Dropped
    BY Zenon, <2>1, <2>2, <2>3, <2>4 DEF Ready, Dropped
  <2>6. UNCHANGED <<Ready, Ended, Serving>>
    BY Zenon, <2>2 DEF Ready, Ended, Serving
  <2>7. M!Join(regW)
    BY Zenon, <2>4, <2>5, <2>6 DEF M!Join, Ready, Ended, Dropped, Serving
  <2>8. QED BY Zenon, <2>1, <2>7 DEF M!MNext
<1>4. QED BY Zenon, <1>1, <1>2, <1>3 DEF Registration

\* A step of the health loop is Drop or a stutter.
LEMMA HealthImplements ==
  ASSUME DistinctPids, IInv, InHand, Health
  PROVE  [M!MNext]_(M!mvars)
<1> USE NoneAssumption, PidOfAssumption
<1>t. TypeOK /\ Stages /\ Detector
  BY Zenon DEF IInv
<1>1. CASE PingFails
  <2>1. pingW \in Workers /\ Registered(pingW)
    BY Zenon, <1>t, <1>1 DEF PingFails, TypeOK, RegistryTypeOK, InHand
  <2>2. Shutdown(pingW) /\ UNCHANGED <<hasFD, proc, conns, closing>>
    BY Zenon, <1>1 DEF PingFails, workerVars, regVars, closeVars
  <2>3. QED BY Zenon, <1>t, <2>1, <2>2, ShutdownStutter
<1>2. CASE Remove
  <2>0. PICK w \in Workers : conns[elimPid] = w
    BY Zenon, <1>t, <1>2 DEF Remove, TypeOK, RegistryTypeOK, InHand
  <2>1. elimPid \in Pids /\ status[w] = "Disconnected"
    BY Zenon, <1>t, <1>2, <2>0 DEF Remove, TypeOK, RegistryTypeOK, InHand
  <2>2. PidOf[w] = elimPid
    BY Zenon, <1>t, <2>0, <2>1 DEF Stages
  <2>3. /\ conns' = [conns EXCEPT ![elimPid] = None]
        /\ UNCHANGED <<hasFD, proc, status, closing>>
    BY Zenon, <1>2 DEF Remove, clientVars, workerVars, closeVars
  <2>4. w \in Members /\ Members' = Members \ {w}
    BY <1>t, <2>0, <2>1, <2>2, <2>3 DEF Members, Registered, TypeOK, RegistryTypeOK
  <2>5. Dropped' = Dropped \cup {w}
    BY Zenon, <2>1, <2>3, <2>4 DEF Dropped
  <2>6. Serving => w \in Ended
    BY Zenon, <1>t, <2>1 DEF Serving, Ended, Detector, DisconnectedIsGone
  <2>7. UNCHANGED <<Ready, Ended, Serving>>
    BY Zenon, <2>3 DEF Ready, Ended, Serving
  <2>8. M!Drop(w)
    BY Zenon, <2>4, <2>5, <2>6, <2>7 DEF M!Drop, Ready, Ended, Dropped, Serving
  <2>9. QED BY Zenon, <2>8 DEF M!MNext
<1>3. CASE ~PingFails /\ ~Remove
  <2>1. UNCHANGED <<hasFD, proc, conns, status, closing>>
    BY Zenon, <1>3 DEF Health, Tick, PingSkip, PingPick, PingSend, EliminateBegin, EliminateVisit,
       EliminateEnd, HealthReturn, clientVars, workerVars, regVars, closeVars
  <2>2. QED BY Zenon, <2>1, Stutter
<1>4. QED BY Zenon, <1>1, <1>2, <1>3

\* A step of the main goroutine is Retire or a stutter.
LEMMA MainImplements ==
  ASSUME TypeOK, Stages, Main
  PROVE  [M!MNext]_(M!mvars)
<1>1. CASE CloseBegin
  <2>1. Serving /\ Serving' = FALSE
    BY Zenon, <1>1 DEF CloseBegin, Serving
  <2>2. UNCHANGED <<hasFD, proc, conns, status>>
    BY Zenon, <1>1 DEF CloseBegin, regVars, clientVars, workerVars
  <2>3. M!Retire
    BY Zenon, <2>1, <2>2 DEF M!Retire, Serving, Members, Registered
  <2>4. QED BY Zenon, <2>3 DEF M!MNext
<1>2. ASSUME NEW p \in Pids, CloseVisit(p) PROVE [M!MNext]_(M!mvars)
  <2>1. conns[p] \in Workers /\ Registered(conns[p])
    BY <1>2 DEF CloseVisit, Keys, Stages, TypeOK, RegistryTypeOK, Registered
  <2>2. Shutdown(conns[p]) /\ UNCHANGED <<hasFD, proc, conns, closing>>
    BY Zenon, <1>2 DEF CloseVisit, regVars, workerVars
  <2>3. QED BY Zenon, <2>1, <2>2, ShutdownStutter
<1>3. CASE CloseEnd
  <2>1. UNCHANGED <<hasFD, proc, conns, status>> /\ closing # "no" /\ closing' # "no"
    BY Zenon, <1>3 DEF CloseEnd, regVars, clientVars, workerVars
  <2>2. UNCHANGED Serving
    BY Zenon, <2>1 DEF Serving
  <2>3. QED BY Zenon, <2>1, <2>2 DEF M!mvars, Serving, Members, Registered
<1>4. QED BY Zenon, <1>1, <1>2, <1>3 DEF Main

\* The end of the master process is Vanish.
LEMMA EndImplements ==
  ASSUME NEW c, EndMaster(c)
  PROVE  M!MNext
<1>1. Members' = {} /\ Dropped' = {} /\ Serving' = FALSE
  BY Zenon, NoneAssumption, PidOfAssumption DEF EndMaster, RegistryLost, ClientsLost, Members, Registered, Dropped, Serving
<1>2. UNCHANGED <<Ready, Ended>>
  BY Zenon DEF EndMaster, workerVars, Ready, Ended
<1>3. M!Vanish
  BY Zenon, <1>1, <1>2 DEF M!Vanish, Ready, Ended, Dropped, Serving
<1>4. QED BY Zenon, <1>3 DEF M!MNext

\* The sockets, goroutines and messages of the master and its workers implement
\* Membership when pids are not reused: a process joins at most once and with the
\* listener in hand, and is dropped in normal operation only after it has ended.
THEOREM Refinement == DistinctPids => (Spec => ImplementsMembership)
<1> SUFFICES ASSUME DistinctPids PROVE Spec => ImplementsMembership
  OBVIOUS
<1>1. Init => M!MInit
  BY NoneAssumption, PidOfAssumption DEF Init, WorkerInit, ClientInit, RegistryInit, M!MInit, Members, Registered
<1>2. DInv /\ [Next]_vars => [M!MNext]_(M!mvars)
  <2> SUFFICES ASSUME DInv, [Next]_vars PROVE [M!MNext]_(M!mvars)
    OBVIOUS
  <2>1. TypeOK /\ Stages /\ IInv /\ InHand
    BY Zenon DEF DInv, IInv
  <2>2. ASSUME NEW w \in Workers,
               StartWorker(w) \/ StartWorkerFails(w) \/ WorkerStep(w) \/ WorkerMain(w) \/ WorkerFault(w)
        PROVE  [M!MNext]_(M!mvars)
    BY Zenon, <2>1, <2>2, WorkerImplements
  <2>3. CASE AcceptLoop \/ NoUnixListener \/ MasterSignal \/ \E w \in Workers : Gateway(w) \/ Sender(w)
    BY Zenon, <2>1, <2>3, GatewayImplements
  <2>4. CASE Registration
    BY Zenon, <2>1, <2>4, RegistrationImplements
  <2>5. CASE Health
    BY Zenon, <2>1, <2>5, HealthImplements
  <2>6. CASE Main
    BY Zenon, <2>1, <2>6, MainImplements
  <2>7. CASE MasterExit \/ MasterCrash \/ ListenPanic \/ MapFatal
    BY Zenon, <2>7, EndImplements DEF MasterExit, MasterCrash, ListenPanic, MapFatal
  <2>8. CASE UNCHANGED vars
    <3>1. UNCHANGED <<hasFD, proc, conns, status, closing>>
      BY Zenon, <2>8 DEF vars
    <3>2. QED BY Zenon, <3>1, Stutter
  <2>9. QED BY Zenon, <2>2, <2>3, <2>4, <2>5, <2>6, <2>7, <2>8 DEF Next
<1>3. QED BY <1>1, <1>2, InductiveDistinct, PTL DEF Spec, ImplementsMembership, M!MSpec
===============================================================================
