--------------------------- MODULE IPCServerGateway ---------------------------
(***************************************************************************)
(* use_cases/bus/ipc_server.go: the listener workers dial, and one         *)
(* goroutine per accepted connection that passes the TCP listener's        *)
(* descriptor to the worker, reads its pid and hands the new client to the *)
(* registration loop over the channel WorkerEvent.                         *)
(***************************************************************************)
EXTENDS WorkerClient

CONSTANT EventCap     \* capacity of the channel WorkerEvent

ASSUME EventCapAssumption == EventCap \in Nat \ {0}

VARIABLES
  accept,        \* where the accepting goroutine (handleWorker) is
  gw,            \* gw[w]: where the goroutine serving w's connection is
  workerEvent    \* contents of the channel WorkerEvent, oldest first

gatewayVars == <<accept, gw, workerEvent>>

AcceptStates ==
  { "init",     \* ListenAndServe has not listened yet
    "failed",   \* no unix listener
    "select",   \* at the top of handleWorker's loop
    "accept",   \* in processWorker, blocked in AcceptUnix
    "return" }  \* handleWorker has returned

GwStates ==
  { "none",       \* no connection
    "backlog",    \* dialled, not accepted
    "proceed",    \* accepted, about to send PROCEED and the descriptor
    "handshake",  \* blocked reading the pid, without a deadline
    "offer",      \* blocked sending the client on WorkerEvent
    "done",       \* the goroutine has returned, the client is handed over
    "closed" }    \* the goroutine closed the connection and returned

GatewayTypeOK ==
  /\ accept \in AcceptStates
  /\ gw \in [Workers -> GwStates]
  /\ workerEvent \in Seq(Workers)

GatewayInit ==
  /\ accept = "init"
  /\ gw = [w \in Workers |-> "none"]
  /\ workerEvent = <<>>

\* The process that ran the gateway ends.
GatewayLost ==
  /\ accept' = "return"
  /\ gw' = [w \in Workers |-> "none"]
  /\ workerEvent' = <<>>

Listening == accept \notin {"init", "failed"}

GwGoto(w, pc) == gw' = [gw EXCEPT ![w] = pc]

\* Both listeners open: the accept loop starts.
Listen ==
  /\ accept = "init"
  /\ accept' = "select"
  /\ UNCHANGED <<gw, workerEvent, clientVars, sockVars>>

\* The unix listener does not open: ListenAndServe stops the application and
\* returns (the application's side is in MasterWorker).
ListenFails ==
  /\ accept = "init"
  /\ accept' = "failed"
  /\ UNCHANGED <<gw, workerEvent, clientVars, sockVars>>

\* The top of handleWorker's loop: it ends once the context is cancelled.
AcceptSelect(cancelled) ==
  /\ accept = "select"
  /\ accept' = IF cancelled THEN "return" ELSE "accept"
  /\ UNCHANGED <<gw, workerEvent, clientVars, sockVars>>

\* AcceptUnix returns a connection, whose goroutine starts, and processWorker
\* returns.  A deadline that expires first only goes round its own loop.
Accept(w) ==
  /\ accept = "accept" /\ gw[w] = "backlog"
  /\ accept' = "select"
  /\ GwGoto(w, "proceed")
  /\ UNCHANGED <<workerEvent, clientVars, sockVars>>

\* writeProceedConnection sends the descriptor.
WriteProceed(w) ==
  /\ gw[w] = "proceed"
  /\ MasterWrites(w, "PROCEED")
  /\ GwGoto(w, "handshake")
  /\ UNCHANGED <<accept, workerEvent, clientVars>>

\* writeProceedConnection fails because the worker has gone.
WriteProceedFails(w) ==
  /\ gw[w] = "proceed"
  /\ workerEnd[w] = "closed"
  /\ MasterCloses(w)
  /\ GwGoto(w, "closed")
  /\ UNCHANGED <<accept, workerEvent, clientVars>>

\* handleHandshake reads the pid, which may outlive the worker that wrote it,
\* and makes the client.
ReadPid(w) ==
  /\ gw[w] = "handshake" /\ toMaster[w]
  /\ toMaster' = [toMaster EXCEPT ![w] = FALSE]
  /\ NewWorkerClient(w)
  /\ GwGoto(w, "offer")
  /\ UNCHANGED <<workerEnd, masterEnd, toWorker, accept, workerEvent>>

\* Mutant: no return after the failed read, and a client made for pid 0, which is
\* no worker's, goes to the registration loop.
ReadPidFails_NoReturn(w) ==
  /\ gw[w] = "handshake" /\ ~toMaster[w]
  /\ workerEnd[w] = "closed"
  /\ Len(workerEvent) < EventCap
  /\ MasterCloses(w)
  /\ workerEvent' = Append(workerEvent, "pid 0")
  /\ GwGoto(w, "closed")
  /\ UNCHANGED <<accept, clientVars>>

\* The worker went away without reporting.
ReadPidFails(w) ==
  /\ gw[w] = "handshake" /\ ~toMaster[w]
  /\ workerEnd[w] = "closed"
  /\ MasterCloses(w)
  /\ GwGoto(w, "closed")
  /\ UNCHANGED <<accept, workerEvent, clientVars>>

\* Mutant: a select with a default branch drops the client when the channel is full.
Offer_NonBlocking(w) ==
  /\ gw[w] = "offer"
  /\ workerEvent' = IF Len(workerEvent) < EventCap THEN Append(workerEvent, w)
                                                   ELSE workerEvent
  /\ GwGoto(w, "done")
  /\ UNCHANGED <<accept, clientVars, sockVars>>

\* The send on WorkerEvent goes through once the channel has room.
Offer(w) ==
  /\ gw[w] = "offer"
  /\ Len(workerEvent) < EventCap
  /\ workerEvent' = Append(workerEvent, w)
  /\ GwGoto(w, "done")
  /\ UNCHANGED <<accept, clientVars, sockVars>>
===============================================================================
