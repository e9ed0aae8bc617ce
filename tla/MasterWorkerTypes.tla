-------------------------- MODULE MasterWorkerTypes ---------------------------
(***************************************************************************)
(* Steps of MasterWorker keep its variables' types and the relation between*)
(* a process, the ends of its socket and its gateway goroutine, for any    *)
(* workers, pids, buffer and channel capacities.                           *)
(***************************************************************************)
EXTENDS MasterWorker, TLAPS

USE DEF Ends, Lines, ProcStates, Statuses, AcceptStates, GwStates, Causes

\* Every variable keeps its type: the step case, one action after the other.
LEMMA TypeStep == TypeOK /\ [Next]_vars => TypeOK'
<1> SUFFICES ASSUME TypeOK, [Next]_vars PROVE TypeOK'
  OBVIOUS
<1> USE NoneAssumption, PidOfAssumption, SockCapAssumption, EventCapAssumption
<1> USE DEF TypeOK, SockTypeOK, WorkerTypeOK, ClientTypeOK, GatewayTypeOK, RegistryTypeOK
<1>1. ASSUME NEW w \in Workers, StartWorker(w) PROVE TypeOK'
  BY <1>1 DEF StartWorker, Dial, GwGoto, clientVars, registryVars
<1>2. ASSUME NEW w \in Workers, StartWorkerFails(w) PROVE TypeOK'
  BY <1>2 DEF StartWorkerFails, DialFails, sockVars, gatewayVars, clientVars, registryVars
<1>3. ASSUME NEW w \in Workers, WorkerStep(w) PROVE TypeOK'
  <2> USE <1>3 DEF WorkerStep, gatewayVars, clientVars, registryVars
  <2>1. CASE ReceiveFD(w)
    BY <2>1 DEF ReceiveFD, WorkerReads
  <2>2. CASE ReceiveFDFails(w)
    BY <2>2 DEF ReceiveFDFails, EndProcess, WorkerCloses
  <2>3. CASE Report(w)
    BY <2>3 DEF Report
  <2>4. CASE ReportFails(w)
    BY <2>4 DEF ReportFails, EndProcess, WorkerCloses
  <2>5. CASE ReceiveMessage(w)
    BY <2>5 DEF ReceiveMessage, WorkerReads
  <2>6. CASE MasterLost(w)
    BY <2>6 DEF MasterLost, sockVars
  <2>7. QED BY Zenon, <2>1, <2>2, <2>3, <2>4, <2>5, <2>6
<1>4. ASSUME NEW w \in Workers, WorkerMain(w) PROVE TypeOK'
  BY <1>4 DEF WorkerMain, WorkerExit, EndProcess, WorkerCloses, gatewayVars, clientVars, registryVars
<1>5. ASSUME NEW w \in Workers, WorkerFault(w) PROVE TypeOK'
  <2> USE <1>5 DEF WorkerFault, gatewayVars, clientVars, registryVars
  <2>1. CASE WorkerSignal(w)
    BY <2>1 DEF WorkerSignal, sockVars
  <2>2. CASE WorkerCrash(w)
    BY <2>2 DEF WorkerCrash, EndProcess, WorkerCloses
  <2>3. QED BY Zenon, <2>1, <2>2
<1>6. ASSUME NEW w \in Workers, Gateway(w) PROVE TypeOK'
  <2> USE <1>6 DEF Gateway, workerVars, registryVars
  <2>1. CASE WriteProceed(w)
    BY <2>1 DEF WriteProceed, MasterWrites, GwGoto, clientVars
  <2>2. CASE WriteProceedFails(w)
    BY <2>2 DEF WriteProceedFails, MasterCloses, GwGoto, clientVars
  <2>3. CASE ReadPid(w)
    BY <2>3 DEF ReadPid, NewWorkerClient, GwGoto
  <2>4. CASE ReadPidFails(w)
    BY <2>4 DEF ReadPidFails, MasterCloses, GwGoto, clientVars
  <2>5. CASE Offer(w)
    BY <2>5 DEF Offer, GwGoto, clientVars, sockVars
  <2>6. QED BY Zenon, <2>1, <2>2, <2>3, <2>4, <2>5
<1>7. ASSUME NEW w \in Workers, Sender(w) PROVE TypeOK'
  <2> USE <1>7 DEF Sender, SendShutdown, workerVars, gatewayVars, registryVars
  <2>1. CASE Send(w, "Shutdown")
    BY <2>1 DEF Send, MasterWrites
  <2>2. CASE SendFails(w)
    BY <2>2 DEF SendFails, MasterWriteFails, sockVars
  <2>3. QED BY Zenon, <2>1, <2>2
<1>8. CASE AcceptLoop
  <2> USE <1>8 DEF AcceptLoop, clientVars, sockVars, workerVars, registryVars
  <2>1. CASE Listen
    BY <2>1 DEF Listen
  <2>2. CASE AcceptSelect(cancelled)
    BY <2>2 DEF AcceptSelect
  <2>3. ASSUME NEW w \in Workers, Accept(w) PROVE TypeOK'
    BY <2>3 DEF Accept, GwGoto
  <2>4. QED BY Zenon, <2>1, <2>2, <2>3
<1>9. CASE NoUnixListener
  BY <1>9 DEF NoUnixListener, ListenFails, clientVars, sockVars, workerVars, registryVars
<1>10. CASE Registration
  <2> USE <1>10 DEF Registration, healthVars, closeVars, workerVars
  <2>1. CASE RegStart
    <3>1. Head(workerEvent) \in Workers /\ workerEvent' \in Seq(Workers)
      BY <2>1 DEF RegStart
    <3>2. regW' \in Workers /\ reg' = "add"
      BY Zenon, <2>1, <3>1 DEF RegStart
    <3>3. \E v \in Workers :
            /\ status' = [status EXCEPT ![v] = "Connected"]
            /\ toWorker' = [toWorker EXCEPT ![v] = Append(@, "Ping")]
            /\ UNCHANGED <<senders, workerEnd, masterEnd, toMaster>>
      BY Zenon, <2>1, <3>1 DEF RegStart, StartOK, Send, MasterWrites
    <3>4. SockTypeOK' /\ ClientTypeOK'
      BY ONLY TypeOK, <3>3
    <3>5. WorkerTypeOK' /\ GatewayTypeOK'
      BY Zenon, <2>1, <3>1 DEF RegStart
    <3>6. RegistryTypeOK' /\ cancelled' \in BOOLEAN /\ down' \in Causes
      BY Zenon, <2>1, <3>2 DEF RegStart
    <3>7. QED BY Zenon, <3>4, <3>5, <3>6
  <2>2. CASE RegStartFails
    BY <2>2 DEF RegStartFails, StartFails, SendFails, MasterWriteFails, sockVars
  <2>3. CASE AddLock
    BY <2>3 DEF AddLock, gatewayVars, clientVars, sockVars
  <2>4. CASE Add
    <3>1. regW \in Workers /\ PidOf[regW] \in Pids
      BY Zenon, <2>4 DEF Add
    <3>2. elimKeys' \subseteq Pids /\ closeKeys' \subseteq Pids
      BY <2>4, <3>1 DEF Add, MayProduce
    <3>3. conns' \in [Pids -> Workers \cup {None}]
      BY Zenon, <2>4, <3>1 DEF Add
    <3>4. QED
      BY <2>4, <3>2, <3>3 DEF Add, gatewayVars, clientVars, sockVars
  <2>5. QED BY Zenon, <2>1, <2>2, <2>3, <2>4
<1>11. CASE Health
  <2> USE <1>11 DEF Health, Keys, regVars, closeVars, gatewayVars, workerVars
  <2>1. CASE Tick
    BY <2>1 DEF Tick, clientVars, sockVars
  <2>2. ASSUME NEW w \in Workers, PingSkip(w) PROVE TypeOK'
    BY <2>2 DEF PingSkip, clientVars, sockVars
  <2>3. ASSUME NEW w \in Workers, PingPick(w) PROVE TypeOK'
    BY <2>3 DEF PingPick, clientVars, sockVars
  <2>4. CASE PingSend
    BY <2>4 DEF PingSend, Send, MasterWrites, clientVars
  <2>5. CASE PingFails
    BY <2>5 DEF PingFails, SendFails, MasterWriteFails, Shutdown, sockVars
  <2>6. CASE EliminateBegin
    BY <2>6 DEF EliminateBegin, clientVars, sockVars
  <2>7. ASSUME NEW p \in Pids, EliminateVisit(p) PROVE TypeOK'
    BY <2>7 DEF EliminateVisit, clientVars, sockVars
  <2>8. CASE Remove
    BY <2>8 DEF Remove, clientVars, sockVars
  <2>9. CASE EliminateEnd
    BY <2>9 DEF EliminateEnd, clientVars, sockVars
  <2>10. CASE HealthReturn(cancelled)
    BY <2>10 DEF HealthReturn, clientVars, sockVars
  <2>11. QED BY Zenon, <2>1, <2>2, <2>3, <2>4, <2>5, <2>6, <2>7, <2>8, <2>9, <2>10
<1>12. CASE MasterSignal
  BY <1>12 DEF MasterSignal, sockVars, workerVars, clientVars, gatewayVars, registryVars
<1>13. CASE Main
  <2> USE <1>13 DEF Main, Keys, regVars, healthVars, gatewayVars, sockVars, workerVars
  <2>1. CASE CloseBegin
    BY <2>1 DEF CloseBegin, clientVars
  <2>2. ASSUME NEW p \in Pids, CloseVisit(p) PROVE TypeOK'
    BY <2>2 DEF CloseVisit, Shutdown
  <2>3. CASE CloseEnd
    BY <2>3 DEF CloseEnd, clientVars
  <2>4. QED BY Zenon, <2>1, <2>2, <2>3
<1>14. ASSUME NEW c \in Causes, EndMaster(c) PROVE TypeOK'
  BY <1>14 DEF EndMaster, MasterClosesAll, ClientsLost, GatewayLost, RegistryLost, workerVars
<1>15. CASE UNCHANGED vars
  BY <1>15 DEF vars
<1>16. QED
  BY Zenon, <1>1, <1>2, <1>3, <1>4, <1>5, <1>6, <1>7, <1>8, <1>9, <1>10, <1>11, <1>12, <1>13, <1>14, <1>15
     DEF Next, MasterExit, MasterCrash, ListenPanic, MapFatal

-------------------------------------------------------------------------------
\* The steps of the registration loop, the health loop and the main goroutine
\* leave processes and gateway goroutines alone; what they may touch of the
\* sockets is the buffer of an open connection.
LEMMA RegistryFrame ==
  ASSUME Registration \/ Health \/ Main
  PROVE  UNCHANGED <<proc, wstop, hasFD, gw, accept, workerEnd, masterEnd, toMaster, cancelled, down>>
<1>1. CASE Registration
  BY Zenon, <1>1 DEF Registration, RegStart, RegStartFails, AddLock, Add, StartOK, StartFails, Send,
     SendFails, MasterWrites, MasterWriteFails, sockVars, gatewayVars, workerVars
<1>2. CASE Health
  BY Zenon, <1>2 DEF Health, Tick, PingSkip, PingPick, PingSend, PingFails, EliminateBegin, EliminateVisit,
     Remove, EliminateEnd, HealthReturn, Send, SendFails, MasterWrites, MasterWriteFails,
     sockVars, gatewayVars, workerVars
<1>3. CASE Main
  BY Zenon, <1>3 DEF Main, CloseBegin, CloseVisit, CloseEnd, sockVars, gatewayVars, workerVars
<1>4. QED BY Zenon, <1>1, <1>2, <1>3

\* Only a connection whose worker end is open has its buffer written.
LEMMA RegistryWrites ==
  ASSUME TypeOK, Registration \/ Health \/ Main
  PROVE  \A w \in Workers : workerEnd[w] # "open" => toWorker'[w] = toWorker[w]
<1> USE DEF TypeOK, SockTypeOK
<1>1. CASE Registration
  BY Zenon, <1>1 DEF Registration, RegStart, RegStartFails, AddLock, Add, StartOK, StartFails, Send,
     SendFails, MasterWrites, MasterWriteFails, sockVars
<1>2. CASE Health
  BY Zenon, <1>2 DEF Health, Tick, PingSkip, PingPick, PingSend, PingFails, EliminateBegin, EliminateVisit,
     Remove, EliminateEnd, HealthReturn, Send, SendFails, MasterWrites, MasterWriteFails, sockVars
<1>3. CASE Main
  BY Zenon, <1>3 DEF Main, CloseBegin, CloseVisit, CloseEnd, sockVars
<1>4. QED BY Zenon, <1>1, <1>2, <1>3

\* Process, connection and gateway goroutine stay in step.
LEMMA ConnectionStep == TypeOK /\ Connection /\ [Next]_vars => Connection'
<1> SUFFICES ASSUME TypeOK, Connection, [Next]_vars PROVE Connection'
  OBVIOUS
<1> USE DEF TypeOK, SockTypeOK, WorkerTypeOK, GatewayTypeOK, Connection, Alive
<1>1. ASSUME NEW w \in Workers, StartWorker(w) PROVE Connection'
  BY <1>1 DEF StartWorker, Dial, GwGoto
<1>2. ASSUME NEW w \in Workers, StartWorkerFails(w) PROVE Connection'
  BY Zenon, <1>2 DEF StartWorkerFails, DialFails, sockVars, gatewayVars
<1>3. ASSUME NEW w \in Workers, WorkerStep(w) PROVE Connection'
  <2> USE <1>3 DEF WorkerStep, gatewayVars
  <2>1. CASE ReceiveFD(w)
    BY <2>1 DEF ReceiveFD, WorkerReads
  <2>2. CASE ReceiveFDFails(w)
    BY <2>2 DEF ReceiveFDFails, EndProcess, WorkerCloses
  <2>3. CASE Report(w)
    BY <2>3 DEF Report
  <2>4. CASE ReportFails(w)
    BY <2>4 DEF ReportFails, EndProcess, WorkerCloses
  <2>5. CASE ReceiveMessage(w)
    BY <2>5 DEF ReceiveMessage, WorkerReads
  <2>6. CASE MasterLost(w)
    BY Zenon, <2>6 DEF MasterLost, sockVars
  <2>7. QED BY Zenon, <2>1, <2>2, <2>3, <2>4, <2>5, <2>6
<1>4. ASSUME NEW w \in Workers, WorkerMain(w) PROVE Connection'
  BY <1>4 DEF WorkerMain, WorkerExit, EndProcess, WorkerCloses, gatewayVars
<1>5. ASSUME NEW w \in Workers, WorkerFault(w) PROVE Connection'
  <2> USE <1>5 DEF WorkerFault, gatewayVars
  <2>1. CASE WorkerSignal(w)
    BY Zenon, <2>1 DEF WorkerSignal, sockVars
  <2>2. CASE WorkerCrash(w)
    BY <2>2 DEF WorkerCrash, EndProcess, WorkerCloses
  <2>3. QED BY Zenon, <2>1, <2>2
<1>6. ASSUME NEW w \in Workers, Gateway(w) PROVE Connection'
  <2> USE <1>6 DEF Gateway, workerVars
  <2>1. CASE WriteProceed(w)
    BY <2>1 DEF WriteProceed, MasterWrites, GwGoto
  <2>2. CASE WriteProceedFails(w)
    BY <2>2 DEF WriteProceedFails, MasterCloses, GwGoto
  <2>3. CASE ReadPid(w)
    BY <2>3 DEF ReadPid, GwGoto
  <2>4. CASE ReadPidFails(w)
    BY <2>4 DEF ReadPidFails, MasterCloses, GwGoto
  <2>5. CASE Offer(w)
    BY Zenon, <2>5 DEF Offer, GwGoto, sockVars
  <2>6. QED BY Zenon, <2>1, <2>2, <2>3, <2>4, <2>5
<1>7. ASSUME NEW w \in Workers, Sender(w) PROVE Connection'
  <2> USE <1>7 DEF Sender, SendShutdown, workerVars, gatewayVars
  <2>1. CASE Send(w, "Shutdown")
    BY Zenon, <2>1 DEF Send, MasterWrites
  <2>2. CASE SendFails(w)
    BY Zenon, <2>2 DEF SendFails, MasterWriteFails, sockVars
  <2>3. QED BY Zenon, <2>1, <2>2
<1>8. CASE AcceptLoop
  <2> USE <1>8 DEF AcceptLoop, sockVars, workerVars
  <2>1. CASE Listen
    BY Zenon, <2>1 DEF Listen
  <2>2. CASE AcceptSelect(cancelled)
    BY Zenon, <2>2 DEF AcceptSelect
  <2>3. ASSUME NEW w \in Workers, Accept(w) PROVE Connection'
    BY <2>3 DEF Accept, GwGoto
  <2>4. QED BY Zenon, <2>1, <2>2, <2>3
<1>9. CASE NoUnixListener
  BY Zenon, <1>9 DEF NoUnixListener, ListenFails, sockVars, workerVars
<1>10. CASE Registration \/ Health \/ Main
  BY <1>10, RegistryFrame, RegistryWrites
<1>11. CASE MasterSignal
  BY Zenon, <1>11 DEF MasterSignal, sockVars, workerVars, gatewayVars
<1>12. ASSUME NEW c \in Causes, EndMaster(c) PROVE Connection'
  BY Zenon, <1>12 DEF EndMaster, MasterClosesAll, GatewayLost, workerVars
<1>13. CASE UNCHANGED vars
  BY Zenon, <1>13 DEF vars
<1>14. QED
  BY Zenon, <1>1, <1>2, <1>3, <1>4, <1>5, <1>6, <1>7, <1>8, <1>9, <1>10, <1>11, <1>12, <1>13
     DEF Next, MasterExit, MasterCrash, ListenPanic, MapFatal
===============================================================================
