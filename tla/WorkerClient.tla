----------------------------- MODULE WorkerClient -----------------------------
(***************************************************************************)
(* use_cases/workerclient: the object the master keeps for each worker     *)
(* that finished its handshake.  It is shared by the gateway goroutine     *)
(* that makes it, the registration loop, the health loop, the shutdown     *)
(* path and the goroutines Shutdown starts; status is read and written     *)
(* without the client's mutex, which only serialises writes to the socket. *)
(***************************************************************************)
EXTENDS UnixSocket

VARIABLES
  status,     \* status[w]: WorkerClient.status, "none" before NewWorkerClient
  senders     \* senders[w]: goroutines of Shutdown that have not sent yet

clientVars == <<status, senders>>

Statuses == {"none", "Connecting", "Connected", "Disconnected"}

ClientTypeOK ==
  /\ status \in [Workers -> Statuses]
  /\ senders \in [Workers -> Nat]

ClientInit ==
  /\ status = [w \in Workers |-> "none"]
  /\ senders = [w \in Workers |-> 0]

\* The process that held the clients ends.
ClientsLost ==
  /\ status' = [w \in Workers |-> "none"]
  /\ senders' = [w \in Workers |-> 0]

NewWorkerClient(w) ==
  /\ status' = [status EXCEPT ![w] = "Connecting"]
  /\ UNCHANGED senders

\* Mutant: a write deadline, so that a full buffer counts as a failed Send.
SendFails_Deadline(w) ==
  /\ \/ workerEnd[w] # "open"
     \/ Len(toWorker[w]) = SockCap
  /\ UNCHANGED sockVars

\* Send fails exactly when the connection has lost its worker.
SendFails(w) == MasterWriteFails(w)

Send(w, line) == MasterWrites(w, line)

\* Start marks the client Connected whatever becomes of its first Ping.
StartOK(w) ==
  /\ status' = [status EXCEPT ![w] = "Connected"]
  /\ Send(w, "Ping")
  /\ UNCHANGED senders

StartFails(w) ==
  /\ status' = [status EXCEPT ![w] = "Connected"]
  /\ SendFails(w)
  /\ UNCHANGED senders

\* Shutdown marks the client Disconnected and leaves the Shutdown message to a
\* goroutine nobody waits for.  The socket itself stays open.
Shutdown(w) ==
  /\ status' = [status EXCEPT ![w] = "Disconnected"]
  /\ senders' = [senders EXCEPT ![w] = @ + 1]

\* One goroutine of Shutdown gets to its Send; an error is only logged.
SendShutdown(w) ==
  /\ senders[w] > 0
  /\ senders' = [senders EXCEPT ![w] = @ - 1]
  /\ Send(w, "Shutdown") \/ SendFails(w)
  /\ UNCHANGED status
===============================================================================
