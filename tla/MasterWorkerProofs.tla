------------------------- MODULE MasterWorkerProofs ---------------------------
(***************************************************************************)
(* The invariants of MasterWorker, whether or not pids are reused: where a *)
(* client is on its way from its gateway goroutine to the registry tells   *)
(* how far it has come (Stages), what the failure detector knows           *)
(* (Detector), and the theorems.                                           *)
(***************************************************************************)
EXTENDS MasterWorkerTypes

USE DEF Ends, Lines, ProcStates, Statuses, AcceptStates, GwStates, Causes

\* A worker's own steps change nothing in the master's memory, and never take
\* the descriptor away from anybody.
LEMMA WorkerFrame ==
  ASSUME TypeOK, NEW w \in Workers,
         StartWorkerFails(w) \/ WorkerStep(w) \/ WorkerMain(w) \/ WorkerFault(w)
  PROVE  /\ UNCHANGED <<clientVars, gatewayVars, registryVars, cancelled, down>>
         /\ \A v \in Workers : hasFD[v] => hasFD'[v]
<1> USE DEF TypeOK, WorkerTypeOK
<1>1. CASE StartWorkerFails(w)
  BY Zenon, <1>1 DEF StartWorkerFails, DialFails
<1>2. CASE WorkerStep(w)
  BY Zenon, <1>2 DEF WorkerStep, ReceiveFD, ReceiveFDFails, Report, ReportFails, ReceiveMessage, MasterLost, EndProcess
<1>3. CASE WorkerMain(w)
  BY Zenon, <1>3 DEF WorkerMain, WorkerExit, EndProcess
<1>4. CASE WorkerFault(w)
  BY Zenon, <1>4 DEF WorkerFault, WorkerSignal, WorkerCrash, EndProcess
<1>5. QED BY Zenon, <1>1, <1>2, <1>3, <1>4

\* A client that is not in WorkerEvent can be sent on it without making a
\* repetition, and nothing else gets in with it.
LEMMA QueueAppend ==
  ASSUME NEW S, NEW q \in Seq(S), NEW x \in S,
         \A i \in DOMAIN q : q[i] # x,
         \A i, j \in DOMAIN q : q[i] = q[j] => i = j
  PROVE  /\ \A i, j \in DOMAIN Append(q, x) : Append(q, x)[i] = Append(q, x)[j] => i = j
         /\ \A i \in DOMAIN Append(q, x) : Append(q, x)[i] = x \/ \E j \in DOMAIN q : q[j] = Append(q, x)[i]
OBVIOUS

\* Receiving from WorkerEvent leaves no repetition, and only what was there before
\* other than the client received.
LEMMA QueueTail ==
  ASSUME NEW S, NEW q \in Seq(S), q # <<>>,
         \A i, j \in DOMAIN q : q[i] = q[j] => i = j
  PROVE  /\ \A i, j \in DOMAIN Tail(q) : Tail(q)[i] = Tail(q)[j] => i = j
         /\ \A i \in DOMAIN Tail(q) : Tail(q)[i] # Head(q) /\ \E j \in DOMAIN q : q[j] = Tail(q)[i]
OBVIOUS

\* A send on WorkerEvent loses nothing: old and new clients are in the channel.
LEMMA AppendKeeps ==
  ASSUME NEW S, NEW q \in Seq(S), NEW x \in S, NEW y, (\E i \in DOMAIN q : q[i] = y) \/ y = x
  PROVE  \E i \in DOMAIN Append(q, x) : Append(q, x)[i] = y
<1>1. CASE y = x
  <2>1. Len(q) + 1 \in DOMAIN Append(q, x) /\ Append(q, x)[Len(q) + 1] = x
    OBVIOUS
  <2>2. QED BY Zenon, <1>1, <2>1
<1>2. CASE \E i \in DOMAIN q : q[i] = y
  <2>1. PICK i \in DOMAIN q : q[i] = y
    BY Zenon, <1>2
  <2>2. i \in DOMAIN Append(q, x) /\ Append(q, x)[i] = q[i]
    OBVIOUS
  <2>3. QED BY Zenon, <2>1, <2>2
<1>3. QED BY Zenon, <1>1, <1>2

\* Receiving from WorkerEvent keeps every client other than the one received.
LEMMA TailKeeps ==
  ASSUME NEW S, NEW q \in Seq(S), q # <<>>, NEW y, \E i \in DOMAIN q : q[i] = y, y # Head(q)
  PROVE  \E i \in DOMAIN Tail(q) : Tail(q)[i] = y
<1>1. PICK i \in DOMAIN q : q[i] = y
  OBVIOUS
<1>2. i # 1 /\ i \in 1 .. Len(q)
  BY <1>1
<1>3. i - 1 \in DOMAIN Tail(q) /\ Tail(q)[i - 1] = q[i]
  BY <1>2
<1>4. QED BY Zenon, <1>1, <1>3

\* A line other than Shutdown does not put a Shutdown on the wire.
LEMMA AppendAvoids ==
  ASSUME NEW S, NEW q \in Seq(S), NEW x \in S, NEW y, x # y, \A i \in DOMAIN q : q[i] # y
  PROVE  \A i \in DOMAIN Append(q, x) : Append(q, x)[i] # y
OBVIOUS

\* A client is in one stage at a time and moves on only forwards.
LEMMA StagesStep == TypeOK /\ Connection /\ Stages /\ [Next]_vars => Stages'
<1> SUFFICES ASSUME TypeOK, Connection, Stages, [Next]_vars PROVE Stages'
  OBVIOUS
<1> USE NoneAssumption, PidOfAssumption
<1> USE DEF TypeOK, WorkerTypeOK, ClientTypeOK, GatewayTypeOK, RegistryTypeOK, Stages, Started, Queued
<1>1. ASSUME NEW w \in Workers, StartWorker(w) PROVE Stages'
  <2>1. gw[w] = "none" /\ status[w] = "none"
    BY Zenon, <1>1 DEF StartWorker, Dial, Connection
  <2>2. QED
    BY <1>1, <2>1 DEF StartWorker, Dial, GwGoto, clientVars, registryVars
<1>2. ASSUME NEW w \in Workers,
             StartWorkerFails(w) \/ WorkerStep(w) \/ WorkerMain(w) \/ WorkerFault(w)
      PROVE  Stages'
  BY <1>2, WorkerFrame DEF clientVars, gatewayVars, registryVars
<1>3. ASSUME NEW w \in Workers, Gateway(w) PROVE Stages'
  <2> USE <1>3 DEF Gateway, workerVars, registryVars
  <2>1. CASE WriteProceed(w)
    BY <2>1 DEF WriteProceed, GwGoto, clientVars
  <2>2. CASE WriteProceedFails(w)
    BY <2>2 DEF WriteProceedFails, GwGoto, clientVars
  <2>3. CASE ReadPid(w)
    BY <2>3 DEF ReadPid, NewWorkerClient, GwGoto, Connection
  <2>4. CASE ReadPidFails(w)
    BY <2>4 DEF ReadPidFails, GwGoto, clientVars
  <2>5. CASE Offer(w)
    <3>1. \A i \in DOMAIN workerEvent : workerEvent[i] # w
      <4>1. ~Queued(w)
        BY Zenon, <2>5 DEF Offer
      <4>2. QED BY Zenon, <4>1
    <3>2. /\ \A i, j \in DOMAIN workerEvent' : workerEvent'[i] = workerEvent'[j] => i = j
          /\ \A i \in DOMAIN workerEvent' : workerEvent'[i] = w \/ \E j \in DOMAIN workerEvent : workerEvent[j] = workerEvent'[i]
      BY <2>5, <3>1, QueueAppend DEF Offer
    <3>3. \A v \in Workers : Queued(v)' => v = w \/ Queued(v)
      BY <3>2
    <3>4. QED
      BY <2>5, <3>2, <3>3 DEF Offer, GwGoto, clientVars
  <2>6. QED BY Zenon, <2>1, <2>2, <2>3, <2>4, <2>5
<1>4. ASSUME NEW w \in Workers, Sender(w) PROVE Stages'
  BY <1>4 DEF Sender, SendShutdown, workerVars, gatewayVars, registryVars
<1>5. CASE AcceptLoop
  <2> USE <1>5 DEF AcceptLoop, clientVars, workerVars, registryVars
  <2>1. CASE Listen \/ AcceptSelect(cancelled)
    BY <2>1 DEF Listen, AcceptSelect
  <2>2. ASSUME NEW w \in Workers, Accept(w) PROVE Stages'
    BY <2>2 DEF Accept, GwGoto
  <2>3. QED BY Zenon, <2>1, <2>2
<1>6. CASE NoUnixListener
  BY <1>6 DEF NoUnixListener, ListenFails, clientVars, workerVars, registryVars
<1>7. CASE Registration
  <2> USE <1>7 DEF Registration, healthVars, closeVars, workerVars
  <2>1. CASE RegStart \/ RegStartFails
    <3> DEFINE w == Head(workerEvent)
    <3>1. w \in Workers /\ Queued(w)
      BY <2>1 DEF RegStart, RegStartFails
    <3>2. /\ \A i, j \in DOMAIN workerEvent' : workerEvent'[i] = workerEvent'[j] => i = j
          /\ \A i \in DOMAIN workerEvent' : workerEvent'[i] # w /\ \E j \in DOMAIN workerEvent : workerEvent[j] = workerEvent'[i]
      <4>1. /\ workerEvent \in Seq(Workers) /\ workerEvent # <<>>
            /\ workerEvent' = Tail(workerEvent)
            /\ \A i, j \in DOMAIN workerEvent : workerEvent[i] = workerEvent[j] => i = j
        BY Zenon, <2>1 DEF RegStart, RegStartFails
      <4> HIDE DEF Stages, TypeOK
      <4>2. QED BY Zenon, <4>1, QueueTail
    <3>3. \A v \in Workers : Queued(v)' => v # w /\ Queued(v)
      BY <3>2
    <3>4. /\ status' = [status EXCEPT ![w] = "Connected"]
          /\ regW' \in {w, regW}
          /\ UNCHANGED <<gw, hasFD, pinging, pingW, conns>>
      BY Zenon, <2>1 DEF RegStart, RegStartFails, StartOK, StartFails
    <3>5. status[w] = "Connecting" /\ gw[w] = "done" /\ hasFD[w]
      BY Zenon, <3>1
    <3> HIDE DEF w
    <3>6. \A p \in Pids : conns[p] # w
      <4>1. SUFFICES ASSUME NEW p \in Pids, conns[p] = w PROVE FALSE
        OBVIOUS
      <4>2. conns[p] # None
        BY <3>1, <4>1
      <4>3. Started(conns[p])
        BY Zenon, <4>2
      <4>4. QED BY Zenon, <3>5, <4>1, <4>3
    <3>7. QED
      BY <3>1, <3>2, <3>3, <3>4, <3>5, <3>6
  <2>2. CASE AddLock
    BY <2>2 DEF AddLock, gatewayVars, clientVars
  <2>3. CASE Add
    <3>1. regW \in Workers /\ PidOf[regW] \in Pids
      BY Zenon, <2>3 DEF Add
    <3>2. conns' = [conns EXCEPT ![PidOf[regW]] = regW] /\ regW' = None
      BY Zenon, <2>3 DEF Add
    <3>3. QED
      BY <2>3, <3>1, <3>2 DEF Add, gatewayVars, clientVars
  <2>4. QED BY Zenon, <2>1, <2>2, <2>3
<1>8. CASE Health
  <2> USE <1>8 DEF Health, Keys, regVars, closeVars, gatewayVars, workerVars
  <2>1. CASE Tick
    BY <2>1 DEF Tick, clientVars
  <2>2. ASSUME NEW w \in Workers, PingSkip(w) \/ PingPick(w) PROVE Stages'
    BY <2>2 DEF PingSkip, PingPick, clientVars
  <2>3. CASE PingSend
    BY <2>3 DEF PingSend, clientVars
  <2>4. CASE PingFails
    BY <2>4 DEF PingFails, Shutdown
  <2>5. CASE EliminateBegin
    BY <2>5 DEF EliminateBegin, clientVars
  <2>6. ASSUME NEW p \in Pids, EliminateVisit(p) PROVE Stages'
    BY <2>6 DEF EliminateVisit, clientVars
  <2>7. CASE Remove
    BY <2>7 DEF Remove, clientVars
  <2>8. CASE EliminateEnd \/ HealthReturn(cancelled)
    BY <2>8 DEF EliminateEnd, HealthReturn, clientVars
  <2>9. QED BY Zenon, <2>1, <2>2, <2>3, <2>4, <2>5, <2>6, <2>7, <2>8
<1>9. CASE MasterSignal
  BY <1>9 DEF MasterSignal, workerVars, clientVars, gatewayVars, registryVars
<1>10. CASE Main
  <2> USE <1>10 DEF Main, Keys, regVars, healthVars, gatewayVars, workerVars
  <2>1. CASE CloseBegin \/ CloseEnd
    BY <2>1 DEF CloseBegin, CloseEnd, clientVars
  <2>2. ASSUME NEW p \in Pids, CloseVisit(p) PROVE Stages'
    BY <2>2 DEF CloseVisit, Shutdown
  <2>3. QED BY Zenon, <2>1, <2>2
<1>11. ASSUME NEW c \in Causes, EndMaster(c) PROVE Stages'
  BY <1>11 DEF EndMaster, ClientsLost, GatewayLost, RegistryLost, workerVars
<1>12. CASE UNCHANGED vars
  BY <1>12 DEF vars
<1>13. QED
  BY Zenon, <1>1, <1>2, <1>3, <1>4, <1>5, <1>6, <1>7, <1>8, <1>9, <1>10, <1>11, <1>12
     DEF Next, MasterExit, MasterCrash, ListenPanic, MapFatal

-------------------------------------------------------------------------------
\* A process that has ended stays so, and a worker's own steps only take lines
\* out of its buffer.
LEMMA WorkerBuffers ==
  ASSUME TypeOK, NEW w \in Workers,
         StartWorker(w) \/ StartWorkerFails(w) \/ WorkerStep(w) \/ WorkerMain(w) \/ WorkerFault(w)
  PROVE  /\ \A v \in Workers : proc[v] = "gone" => proc'[v] = "gone"
         /\ \A v \in Workers : \/ toWorker'[v] = toWorker[v]
                               \/ toWorker[v] # <<>> /\ toWorker'[v] = Tail(toWorker[v])
                               \/ toWorker'[v] = <<>>
<1> USE DEF TypeOK, SockTypeOK, WorkerTypeOK
<1>1. CASE StartWorker(w) \/ StartWorkerFails(w)
  BY Zenon, <1>1 DEF StartWorker, StartWorkerFails, Dial, DialFails, sockVars
<1>2. CASE WorkerStep(w)
  <2>1. CASE ReceiveFD(w) \/ ReceiveMessage(w)
    <3>1. toWorker[w] # <<>> /\ toWorker' = [toWorker EXCEPT ![w] = Tail(toWorker[w])]
      BY Zenon, <2>1 DEF ReceiveFD, ReceiveMessage, WorkerReads
    <3>2. proc[w] # "gone" /\ (proc' = proc \/ proc' = [proc EXCEPT ![w] = "report"])
      BY Zenon, <2>1 DEF ReceiveFD, ReceiveMessage
    <3>3. QED BY Zenon, <3>1, <3>2
  <2>2. CASE Report(w)
    BY Zenon, <2>2 DEF Report, sockVars
  <2>3. CASE ReceiveFDFails(w) \/ ReportFails(w) \/ MasterLost(w)
    BY Zenon, <2>3 DEF ReceiveFDFails, ReportFails, MasterLost, EndProcess, WorkerCloses, sockVars
  <2>4. QED BY Zenon, <1>2, <2>1, <2>2, <2>3 DEF WorkerStep
<1>3. CASE WorkerMain(w)
  BY Zenon, <1>3 DEF WorkerMain, WorkerExit, EndProcess, WorkerCloses
<1>4. CASE WorkerFault(w)
  BY Zenon, <1>4 DEF WorkerFault, WorkerSignal, WorkerCrash, EndProcess, WorkerCloses, sockVars
<1>5. QED BY Zenon, <1>1, <1>2, <1>3, <1>4

\* Send to a client that was handed over fails only if the worker has ended.
LEMMA SendFailsGone ==
  ASSUME TypeOK, Connection, Stages, NEW w \in Workers, status[w] # "none", gw[w] = "done", SendFails(w)
  PROVE  proc[w] = "gone"
<1>1. hasFD[w] /\ proc[w] # "new"
  BY Zenon DEF Stages, Connection
<1>2. masterEnd[w] = "open" /\ workerEnd[w] # "open"
  BY Zenon DEF SendFails, MasterWriteFails, Connection
<1>3. QED
  BY Zenon, <1>1, <1>2 DEF Connection, Alive, TypeOK, WorkerTypeOK

\* Until the master stops, only a Disconnected client has a Shutdown to send.
LEMMA NoSenders ==
  ASSUME TypeOK, Detector, closing = "no", NEW w \in Workers, status[w] # "Disconnected"
  PROVE  senders[w] = 0
<1>1. senders[w] \in Nat /\ ~(senders[w] > 0)
  BY Zenon DEF TypeOK, ClientTypeOK, Detector
<1>2. QED BY <1>1

\* The failure detector stays accurate.
LEMMA DetectorStep == TypeOK /\ Connection /\ Stages /\ Detector /\ [Next]_vars => Detector'
<1> SUFFICES ASSUME TypeOK, Connection, Stages, Detector, [Next]_vars PROVE Detector'
  OBVIOUS
<1> USE NoneAssumption
<1> USE DEF TypeOK, SockTypeOK, WorkerTypeOK, ClientTypeOK, Detector, DisconnectedIsGone, StopOrderOnlyWhenClosing
<1>1. ASSUME NEW w \in Workers,
             StartWorker(w) \/ StartWorkerFails(w) \/ WorkerStep(w) \/ WorkerMain(w) \/ WorkerFault(w)
      PROVE  Detector'
  <2>1. UNCHANGED <<status, senders, closing>>
    BY Zenon, <1>1, WorkerFrame DEF StartWorker, clientVars, registryVars
  <2>2. closing = "no" => \A v \in Workers : \A i \in DOMAIN toWorker'[v] : toWorker'[v][i] # "Shutdown"
    <3>1. SUFFICES ASSUME closing = "no", NEW v \in Workers, NEW i \in DOMAIN toWorker'[v]
                   PROVE  toWorker'[v][i] # "Shutdown"
      OBVIOUS
    <3>2. toWorker[v] \in Seq(Lines) /\ \A k \in DOMAIN toWorker[v] : toWorker[v][k] # "Shutdown"
      BY Zenon, <3>1
    <3>3. CASE toWorker'[v] = toWorker[v]
      BY Zenon, <3>1, <3>2, <3>3
    <3>4. CASE toWorker[v] # <<>> /\ toWorker'[v] = Tail(toWorker[v])
      BY <3>1, <3>2, <3>4
    <3>5. CASE toWorker'[v] = <<>>
      BY <3>1, <3>5
    <3>6. QED BY Zenon, <1>1, <3>3, <3>4, <3>5, WorkerBuffers
  <2>3. QED BY Zenon, <1>1, <2>1, <2>2, WorkerBuffers
<1>2. ASSUME NEW w \in Workers, Gateway(w) PROVE Detector'
  <2> USE <1>2 DEF Gateway, workerVars, registryVars
  <2>1. CASE WriteProceed(w)
    BY <2>1 DEF WriteProceed, MasterWrites, clientVars
  <2>2. CASE ReadPid(w)
    <3>1. closing = "no" => senders[w] = 0
      <4>1. status[w] # "Disconnected"
        BY Zenon, <2>2 DEF ReadPid, Stages
      <4>2. QED BY Zenon, <4>1, NoSenders
    <3>2. QED
      BY <2>2, <3>1 DEF ReadPid, NewWorkerClient
  <2>3. CASE WriteProceedFails(w) \/ ReadPidFails(w)
    BY <2>3 DEF WriteProceedFails, ReadPidFails, MasterCloses, clientVars
  <2>4. CASE Offer(w)
    BY <2>4 DEF Offer, clientVars, sockVars
  <2>5. QED BY Zenon, <2>1, <2>2, <2>3, <2>4
<1>3. ASSUME NEW w \in Workers, Sender(w) PROVE Detector'
  <2>1. closing = "no" => ~Send(w, "Shutdown")
    BY Zenon, <1>3 DEF Sender, SendShutdown, Send, MasterWrites, Connection, Alive
  <2>2. closing = "no" => UNCHANGED toWorker
    BY Zenon, <1>3, <2>1 DEF Sender, SendShutdown, SendFails, MasterWriteFails, sockVars
  <2>3. QED
    BY <1>3, <2>2 DEF Sender, SendShutdown, workerVars, registryVars
<1>4. CASE AcceptLoop \/ NoUnixListener
  BY <1>4 DEF AcceptLoop, NoUnixListener, Listen, ListenFails, AcceptSelect, Accept, clientVars,
     sockVars, workerVars, registryVars
<1>5. CASE Registration
  <2> USE <1>5 DEF Registration, closeVars, workerVars
  <2>1. CASE RegStart \/ RegStartFails
    <3> DEFINE w == Head(workerEvent)
    <3>1. w \in Workers /\ status[w] = "Connecting"
      <4>1. w \in Workers /\ Queued(w)
        BY <2>1 DEF RegStart, RegStartFails, GatewayTypeOK, Queued
      <4>2. QED BY Zenon, <4>1 DEF Stages
    <3>2. closing = "no" => senders[w] = 0
      BY Zenon, <3>1, NoSenders
    <3>3. /\ status' = [status EXCEPT ![w] = "Connected"]
          /\ toWorker' = [toWorker EXCEPT ![w] = Append(@, "Ping")] \/ toWorker' = toWorker
          /\ UNCHANGED <<senders, proc, closing>>
      BY Zenon, <2>1 DEF RegStart, RegStartFails, StartOK, StartFails, Send, SendFails, MasterWrites,
         MasterWriteFails, sockVars
    <3> HIDE DEF w
    <3>4. StopOrderOnlyWhenClosing'
      <4>1. SUFFICES ASSUME closing = "no", NEW v \in Workers, NEW i \in DOMAIN toWorker'[v]
                     PROVE  toWorker'[v][i] # "Shutdown"
        BY Zenon, <3>3
      <4>2. toWorker[v] \in Seq(Lines) /\ \A k \in DOMAIN toWorker[v] : toWorker[v][k] # "Shutdown"
        BY Zenon, <4>1
      <4>3. toWorker'[v] = toWorker[v] \/ toWorker'[v] = Append(toWorker[v], "Ping")
        BY <3>1, <3>3
      <4>4. CASE toWorker'[v] = toWorker[v]
        BY Zenon, <4>1, <4>2, <4>4
      <4>5. CASE toWorker'[v] = Append(toWorker[v], "Ping")
        <5>1. "Ping" \in Lines /\ "Ping" # "Shutdown"
          OBVIOUS
        <5> HIDE DEF Lines
        <5>2. QED BY ONLY <4>1, <4>2, <4>5, <5>1, AppendAvoids
      <4>6. QED BY Zenon, <4>3, <4>4, <4>5
    <3>5. DisconnectedIsGone' /\ (closing' = "no" => \A v \in Workers : senders'[v] > 0 => status'[v] = "Disconnected")
      BY Zenon, <3>1, <3>2, <3>3
    <3>6. QED BY Zenon, <3>4, <3>5
  <2>2. CASE AddLock \/ Add
    BY <2>2 DEF AddLock, Add, clientVars, sockVars
  <2>3. QED BY Zenon, <2>1, <2>2
<1>6. CASE Health
  <2> USE <1>6 DEF Health, closeVars, workerVars
  <2>1. CASE PingSend
    BY <2>1 DEF PingSend, Send, MasterWrites, clientVars
  <2>2. CASE PingFails
    <3>1. pingW \in Workers
      BY Zenon, <2>2 DEF PingFails, RegistryTypeOK
    <3>2. proc[pingW] = "gone"
      BY Zenon, <2>2, <3>1, SendFailsGone DEF PingFails, Stages, Started
    <3>3. QED
      BY <2>2, <3>1, <3>2 DEF PingFails, Shutdown, SendFails, MasterWriteFails, sockVars
  <2>3. CASE Tick \/ EliminateBegin \/ Remove \/ EliminateEnd \/ HealthReturn(cancelled)
    <3>1. UNCHANGED <<status, senders, proc, toWorker, closing>>
      BY Zenon, <2>3 DEF Tick, EliminateBegin, Remove, EliminateEnd, HealthReturn, clientVars, sockVars
    <3>2. QED BY Zenon, <3>1
  <2>4. ASSUME NEW w \in Workers, PingSkip(w) \/ PingPick(w) PROVE Detector'
    BY <2>4 DEF PingSkip, PingPick, clientVars, sockVars
  <2>5. ASSUME NEW p \in Pids, EliminateVisit(p) PROVE Detector'
    BY Zenon, <2>5 DEF EliminateVisit, clientVars, sockVars
  <2>6. QED BY Zenon, <2>1, <2>2, <2>3, <2>4, <2>5
<1>7. CASE MasterSignal
  BY <1>7 DEF MasterSignal, sockVars, workerVars, clientVars, registryVars
<1>8. CASE Main
  <2>1. closing' # "no"
    BY Zenon, <1>8 DEF Main, CloseBegin, CloseVisit, CloseEnd
  <2>2. QED BY Zenon, <2>1
<1>9. ASSUME NEW c \in Causes, EndMaster(c) PROVE Detector'
  BY Zenon, <1>9 DEF EndMaster, RegistryLost
<1>10. CASE UNCHANGED vars
  BY <1>10 DEF vars
<1>11. QED
  BY Zenon, <1>1, <1>2, <1>3, <1>4, <1>5, <1>6, <1>7, <1>8, <1>9, <1>10
     DEF Next, MasterExit, MasterCrash, ListenPanic, MapFatal

-------------------------------------------------------------------------------
\* The processes start in a state that satisfies the inductive invariant.
LEMMA InitIInv == Init => IInv
<1> SUFFICES ASSUME Init PROVE IInv
  OBVIOUS
<1> USE NoneAssumption, PidOfAssumption
<1> USE DEF Init, SockInit, WorkerInit, ClientInit, GatewayInit, RegistryInit
<1>1. TypeOK
  <2>1. SockTypeOK
    BY DEF SockTypeOK
  <2>2. WorkerTypeOK /\ ClientTypeOK
    BY Zenon DEF WorkerTypeOK, ClientTypeOK
  <2>3. GatewayTypeOK
    BY DEF GatewayTypeOK
  <2>4. RegistryTypeOK
    BY Zenon DEF RegistryTypeOK
  <2>5. QED BY Zenon, <2>1, <2>2, <2>3, <2>4 DEF TypeOK
<1>2. Connection
  BY Zenon DEF Connection, Alive
<1>3. Stages
  BY DEF Stages, Queued
<1>4. Detector
  BY DEF Detector, DisconnectedIsGone, StopOrderOnlyWhenClosing
<1>5. QED BY Zenon, <1>1, <1>2, <1>3, <1>4 DEF IInv

\* Every variable of the master, of its goroutines, of the sockets and of the
\* worker processes keeps its type, and a loop has a worker or a pid in hand
\* exactly while it is busy with one.
THEOREM TypeCorrect == Spec => []TypeOK
<1>1. Init => TypeOK
  BY Zenon, InitIInv DEF IInv
<1>2. QED BY <1>1, TypeStep, PTL DEF Spec

\* The inductive invariant holds for any workers, any pids, reused or not, and
\* any capacity of the sockets and of the channel.
THEOREM Inductive == Spec => []IInv
<1>1. IInv /\ [Next]_vars => IInv'
  BY Zenon, TypeStep, ConnectionStep, StagesStep, DetectorStep DEF IInv
<1>2. QED BY InitIInv, <1>1, PTL DEF Spec

\* A registered worker has been through the whole handshake and is filed under
\* its own pid.
THEOREM RegisteredHolds == Spec => []RegisteredHoldsListener
<1>1. IInv => RegisteredHoldsListener
  BY NoneAssumption DEF IInv, Stages, Started, RegisteredHoldsListener, TypeOK, RegistryTypeOK
<1>2. QED BY <1>1, Inductive, PTL

\* The master gives up only on workers that have ended, until it stops itself.
THEOREM DetectorAccurate == Spec => []DisconnectedIsGone
<1>1. IInv => DisconnectedIsGone
  BY Zenon DEF IInv, Detector
<1>2. QED BY <1>1, Inductive, PTL

\* A live worker is told to stop only by a master that is stopping.
THEOREM StopOrderJustified == Spec => []StopOrderOnlyWhenClosing
<1>1. IInv => StopOrderOnlyWhenClosing
  BY Zenon DEF IInv, Detector
<1>2. QED BY <1>1, Inductive, PTL

\* A client is in one place only on its way into the registry.
THEOREM HandedOverOnce == Spec => []HeldOnce
<1>1. IInv => HeldOnce
  BY NoneAssumption, PidOfAssumption DEF IInv, Stages, Started, HeldOnce, Queued, Registered, TypeOK, RegistryTypeOK
<1>2. QED BY <1>1, Inductive, PTL
===============================================================================
