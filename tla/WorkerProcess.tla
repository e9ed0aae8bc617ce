---------------------------- MODULE WorkerProcess -----------------------------
(***************************************************************************)
(* A worker process, from the `worker` command to its exit:                *)
(* cmd/workercmd.go runs WorkerAdapter.Init (drivers/worker/worker.go),    *)
(* which dials the master, takes part in the handshake                     *)
(* (use_cases/workercore/worker.go) and leaves ReceiveMessage running; the *)
(* command then waits for the application context and the service closes   *)
(* the driver on the way out.                                              *)
(***************************************************************************)
EXTENDS UnixSocket

CONSTANTS
  Pids,       \* operating-system process ids
  PidOf       \* PidOf[w]: the pid worker process w runs under

ASSUME PidOfAssumption == PidOf \in [Workers -> Pids]

VARIABLES
  proc,       \* proc[w]: where the worker process is
  wstop,      \* wstop[w]: the worker's application context is cancelled
  hasFD       \* hasFD[w]: the worker stored the listener descriptor (w.fd)

workerVars == <<proc, wstop, hasFD>>

ProcStates ==
  { "new",        \* not started yet
    "receiveFD",  \* dialled, blocked in receiveFD
    "report",     \* has the descriptor, about to write its pid
    "running",    \* handshake done, ReceiveMessage is reading
    "gone" }      \* its connection is closed: it has ended, or is about to

Alive(w) == proc[w] \in {"receiveFD", "report", "running"}

WorkerTypeOK ==
  /\ proc \in [Workers -> ProcStates]
  /\ wstop \in [Workers -> BOOLEAN]
  /\ hasFD \in [Workers -> BOOLEAN]

WorkerInit ==
  /\ proc = [w \in Workers |-> "new"]
  /\ wstop = [w \in Workers |-> FALSE]
  /\ hasFD = [w \in Workers |-> FALSE]

\* The operating system hands out a pid only when no live process has it.
PidFree(w) == \A v \in Workers : PidOf[v] = PidOf[w] => ~Alive(v)

\* net.DialUnix succeeds: the connection waits in the listener's backlog.
Dial(w) ==
  /\ proc[w] = "new" /\ PidFree(w)
  /\ proc' = [proc EXCEPT ![w] = "receiveFD"]
  /\ workerEnd' = [workerEnd EXCEPT ![w] = "open"]
  /\ masterEnd' = [masterEnd EXCEPT ![w] = "open"]
  /\ UNCHANGED <<toWorker, toMaster, wstop, hasFD>>

\* net.DialUnix fails: Init, RunDriver and the command return the error and the
\* process ends.
DialFails(w) ==
  /\ proc[w] = "new" /\ PidFree(w)
  /\ proc' = [proc EXCEPT ![w] = "gone"]
  /\ UNCHANGED <<sockVars, wstop, hasFD>>

\* The process ends, whatever ended it; the kernel closes its socket.
EndProcess(w) ==
  /\ proc' = [proc EXCEPT ![w] = "gone"]
  /\ WorkerCloses(w)
  /\ UNCHANGED <<wstop, hasFD>>

\* receiveFD reads the key message and AcceptHandshake stores the descriptor.
ReceiveFD(w) ==
  /\ proc[w] = "receiveFD"
  /\ WorkerReads(w, "PROCEED")
  /\ hasFD' = [hasFD EXCEPT ![w] = TRUE]
  /\ proc' = [proc EXCEPT ![w] = "report"]
  /\ UNCHANGED wstop

\* Mutant: end of file is taken for an interrupted read, and the read retried.
ReceiveFDFails_Retries(w) ==
  /\ proc[w] = "receiveFD"
  /\ WorkerSeesEOF(w)
  /\ UNCHANGED <<sockVars, workerVars>>

\* receiveFD meets end of file: AcceptHandshake fails and the command returns.
ReceiveFDFails(w) ==
  /\ proc[w] = "receiveFD"
  /\ WorkerSeesEOF(w)
  /\ EndProcess(w)

\* AcceptHandshake writes the pid; Init then starts ReceiveMessage.
Report(w) ==
  /\ proc[w] = "report"
  /\ masterEnd[w] = "open"
  /\ toMaster' = [toMaster EXCEPT ![w] = TRUE]
  /\ proc' = [proc EXCEPT ![w] = "running"]
  /\ UNCHANGED <<workerEnd, masterEnd, toWorker, wstop, hasFD>>

\* The pid cannot be written because the master has gone.
ReportFails(w) ==
  /\ proc[w] = "report"
  /\ masterEnd[w] = "closed"
  /\ EndProcess(w)

\* ReceiveMessage takes one line: Shutdown cancels the application context, any
\* other type is only printed.  The scanner reads ahead by the buffer, so lines
\* that follow a Shutdown or a signal can still leave the socket until the
\* process exits; nothing more comes of them.
ReceiveMessage(w) ==
  /\ proc[w] = "running"
  /\ \E line \in Lines :
       /\ WorkerReads(w, line)
       /\ wstop' = [wstop EXCEPT ![w] = @ \/ line = "Shutdown"]
  /\ UNCHANGED <<proc, hasFD>>

\* Mutant: ReceiveMessage returns at end of file without cancelling the context.
MasterLost_Returns(w) ==
  /\ proc[w] = "running"
  /\ WorkerSeesEOF(w)
  /\ UNCHANGED <<sockVars, workerVars>>

\* ReceiveMessage meets end of file and cancels the application context.
MasterLost(w) ==
  /\ proc[w] = "running"
  /\ WorkerSeesEOF(w)
  /\ ~wstop[w]
  /\ wstop' = [wstop EXCEPT ![w] = TRUE]
  /\ UNCHANGED <<sockVars, proc, hasFD>>

\* An interrupt cancels the context.  Init does not look at the context, so a
\* worker still in the handshake goes on waiting for the master.
WorkerSignal(w) ==
  /\ Alive(w) /\ ~wstop[w]
  /\ wstop' = [wstop EXCEPT ![w] = TRUE]
  /\ UNCHANGED <<sockVars, proc, hasFD>>

\* The command sees the cancelled context and returns; Service.Shutdown closes
\* the driver, hence the connection, and the process ends.  That is one step
\* here: between the two the process only logs, and its pid is not free yet.
WorkerExit(w) ==
  /\ proc[w] = "running" /\ wstop[w]
  /\ EndProcess(w)

\* The process is killed.
WorkerCrash(w) ==
  /\ Alive(w)
  /\ EndProcess(w)
===============================================================================
