------------------------------ MODULE UnixSocket ------------------------------
(***************************************************************************)
(* The stream socket between the master and each worker process, as the    *)
(* Go code sees it through net.UnixConn.  This is the kernel, not code of  *)
(* the repository: every definition here is modelled from how              *)
(* use_cases/bus, use_cases/workerclient and use_cases/workercore use it.  *)
(*                                                                         *)
(* A worker process dials once, so a connection is identified with the     *)
(* process that dialled it.  Bytes still queued when the peer closes can   *)
(* be read before end of file is seen; a write to a closed peer fails; a   *)
(* write to a full buffer blocks, because neither side ever sets a write   *)
(* deadline.                                                               *)
(***************************************************************************)
EXTENDS Naturals, Sequences

CONSTANTS
  Workers,    \* worker processes, one per process that is ever started
  SockCap     \* messages that fit in the buffer towards a worker

ASSUME SockCapAssumption == SockCap \in Nat \ {0}

VARIABLES
  workerEnd,  \* workerEnd[w]: the worker's end of its connection
  masterEnd,  \* masterEnd[w]: the master's end of it
  toWorker,   \* toWorker[w]: lines on their way to the worker, oldest first
  toMaster    \* toMaster[w]: the "<pid>\n" report is unread by the master

sockVars == <<workerEnd, masterEnd, toWorker, toMaster>>

Ends == {"none", "open", "closed"}

\* What the master puts on the wire: the key message that carries the listener
\* descriptor, heartbeats, and the order to stop.
Lines == {"PROCEED", "Ping", "Shutdown"}

SockTypeOK ==
  /\ workerEnd \in [Workers -> Ends]
  /\ masterEnd \in [Workers -> Ends]
  /\ toWorker \in [Workers -> Seq(Lines)]
  /\ toMaster \in [Workers -> BOOLEAN]

SockInit ==
  /\ workerEnd = [w \in Workers |-> "none"]
  /\ masterEnd = [w \in Workers |-> "none"]
  /\ toWorker = [w \in Workers |-> <<>>]
  /\ toMaster = [w \in Workers |-> FALSE]

\* The master writes one line to w and the write succeeds.
MasterWrites(w, line) ==
  /\ workerEnd[w] = "open" /\ masterEnd[w] = "open"
  /\ Len(toWorker[w]) < SockCap
  /\ toWorker' = [toWorker EXCEPT ![w] = Append(@, line)]
  /\ UNCHANGED <<workerEnd, masterEnd, toMaster>>

\* The master's write to w returns an error: nobody holds the other end.
MasterWriteFails(w) ==
  /\ workerEnd[w] # "open" \/ masterEnd[w] # "open"
  /\ UNCHANGED sockVars

\* The worker reads the next line.
WorkerReads(w, line) ==
  /\ workerEnd[w] = "open"
  /\ toWorker[w] # <<>>
  /\ line = Head(toWorker[w])
  /\ toWorker' = [toWorker EXCEPT ![w] = Tail(@)]
  /\ UNCHANGED <<workerEnd, masterEnd, toMaster>>

\* The worker's read returns end of file: the master's end is gone and
\* nothing is left in the buffer.
WorkerSeesEOF(w) ==
  /\ workerEnd[w] = "open"
  /\ masterEnd[w] = "closed"
  /\ toWorker[w] = <<>>

\* The worker's end goes away, with whatever it had not read.
WorkerCloses(w) ==
  /\ workerEnd' = [workerEnd EXCEPT ![w] = "closed"]
  /\ toWorker' = [toWorker EXCEPT ![w] = <<>>]
  /\ UNCHANGED <<masterEnd, toMaster>>

\* The master closes its end of one connection.
MasterCloses(w) ==
  /\ masterEnd' = [masterEnd EXCEPT ![w] = "closed"]
  /\ UNCHANGED <<workerEnd, toWorker, toMaster>>

\* The master process ends: the kernel closes every end it held.
MasterClosesAll ==
  /\ masterEnd' = [w \in Workers |-> IF masterEnd[w] = "open" THEN "closed" ELSE masterEnd[w]]
  /\ toMaster' = [w \in Workers |-> FALSE]
  /\ UNCHANGED <<workerEnd, toWorker>>
===============================================================================
