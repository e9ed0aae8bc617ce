-------------------------- MODULE ConnectionRegistry --------------------------
(***************************************************************************)
(* use_cases/mastercore/registry.go with the registration loop of          *)
(* use_cases/mastercore/master.go: the map from pid to client, written     *)
(* under a mutex by Add and Remove, copied under it by GetAll, and ranged  *)
(* over WITHOUT it by eliminateWorkers and CloseAllConnections.            *)
(*                                                                         *)
(* A range over a Go map produces every entry present from start to end    *)
(* once; an entry removed before it is reached is not produced, and one    *)
(* added meanwhile may or may not be.  A range that meets a write in       *)
(* progress is a fatal error of the runtime when the runtime notices it.   *)
(***************************************************************************)
EXTENDS IPCServerGateway, WorkerProcess

CONSTANT None         \* no worker, no pid

ASSUME NoneAssumption == None \notin Workers /\ None \notin Pids

VARIABLES
  conns,      \* conns[p]: the client registered under pid p
  reg,        \* where the registration loop is
  regW,       \* the client it is busy with
  health,     \* where CheckHealthWorkers is
  pinging,    \* clients of GetAll's copy that are still to be pinged
  pingW,      \* the client whose State was read and whose Ping is next
  elimKeys,   \* keys eliminateWorkers' range may still produce
  elimPid,    \* the pid it decided to Remove
  closing,    \* where the shutdown path is
  closeKeys   \* keys CloseAllConnections' range may still produce

regVars == <<conns, reg, regW>>
healthVars == <<health, pinging, pingW, elimKeys, elimPid>>
closeVars == <<closing, closeKeys>>
registryVars == <<conns, reg, regW, health, pinging, pingW, elimKeys, elimPid,
                  closing, closeKeys>>

Keys == {p \in Pids : conns[p] # None}
Registered(w) == conns[PidOf[w]] = w

RegistryTypeOK ==
  /\ conns \in [Pids -> Workers \cup {None}]
  /\ reg \in {"recv", "add", "write", "dead"}
  /\ regW \in Workers \cup {None}
  /\ health \in {"wait", "ping", "send", "eliminate", "remove", "return"}
  /\ pinging \subseteq Workers
  /\ pingW \in Workers \cup {None}
  /\ elimKeys \subseteq Pids
  /\ elimPid \in Pids \cup {None}
  /\ closing \in {"no", "range", "exit"}
  /\ closeKeys \subseteq Pids
  \* A loop has something in hand exactly while it is busy with it.
  /\ reg \in {"add", "write"} <=> regW # None
  /\ health = "send" <=> pingW # None
  /\ health = "remove" <=> elimPid # None

RegistryInit ==
  /\ conns = [p \in Pids |-> None]
  /\ reg = "recv" /\ regW = None
  /\ health = "wait" /\ pinging = {} /\ pingW = None
  /\ elimKeys = {} /\ elimPid = None
  /\ closing = "no" /\ closeKeys = {}

\* The process that held the registry ends.
RegistryLost ==
  /\ conns' = [p \in Pids |-> None]
  /\ reg' = "dead" /\ regW' = None
  /\ health' = "return" /\ pinging' = {} /\ pingW' = None
  /\ elimKeys' = {} /\ elimPid' = None
  /\ closing' = "exit" /\ closeKeys' = {}

\* Add holds the mutex from Lock to Unlock.
Unlocked == reg # "write"

-------------------------------------------------------------------------------
(* The registration loop: for e := range evt { e.Start(); workers.Add(e) }    *)

\* It takes a client and starts it.
RegStart ==
  /\ reg = "recv" /\ workerEvent # <<>>
  /\ LET w == Head(workerEvent) IN
       /\ StartOK(w)
       /\ regW' = w
  /\ workerEvent' = Tail(workerEvent)
  /\ reg' = "add"
  /\ UNCHANGED <<accept, gw, conns, healthVars, closeVars, workerVars>>

\* Start fails: the loop returns and nobody receives from WorkerEvent any more.
RegStartFails ==
  /\ reg = "recv" /\ workerEvent # <<>>
  /\ StartFails(Head(workerEvent))
  /\ workerEvent' = Tail(workerEvent)
  /\ reg' = "dead"
  /\ UNCHANGED <<accept, gw, conns, regW, healthVars, closeVars, workerVars>>

\* Add locks the mutex and begins to write the map.
AddLock ==
  /\ reg = "add"
  /\ reg' = "write"
  /\ UNCHANGED <<conns, regW, healthVars, closeVars, gatewayVars, clientVars,
                 sockVars, workerVars>>

\* A range in progress may produce an entry that is new to the map, or not.
MayProduce(keys, newKeys, ranging, p) ==
  IF ranging /\ conns[p] = None THEN newKeys \in {keys, keys \cup {p}}
                                ELSE newKeys = keys

\* Mutant: the loop does not move on, and adds the same client again.
Add_Repeats ==
  /\ reg = "write"
  /\ LET p == PidOf[regW] IN
       /\ conns' = [conns EXCEPT ![p] = regW]
       /\ MayProduce(elimKeys, elimKeys', health \in {"eliminate", "remove"}, p)
       /\ MayProduce(closeKeys, closeKeys', closing = "range", p)
  /\ reg' = "add"
  /\ UNCHANGED <<regW, health, pinging, pingW, elimPid, closing, gatewayVars,
                 clientVars, sockVars, workerVars>>

\* Add completes: the client replaces whatever was registered under its pid.
Add ==
  /\ reg = "write"
  /\ LET p == PidOf[regW] IN
       /\ conns' = [conns EXCEPT ![p] = regW]
       /\ MayProduce(elimKeys, elimKeys', health \in {"eliminate", "remove"}, p)
       /\ MayProduce(closeKeys, closeKeys', closing = "range", p)
  /\ reg' = "recv" /\ regW' = None
  /\ UNCHANGED <<health, pinging, pingW, elimPid, closing, gatewayVars,
                 clientVars, sockVars, workerVars>>

-------------------------------------------------------------------------------
(* CheckHealthWorkers: on each tick, pingWorkers and then eliminateWorkers.   *)

\* The ticker fires; pingWorkers copies the clients under the read lock.
Tick ==
  /\ health = "wait" /\ Unlocked
  /\ pinging' = {conns[p] : p \in Keys}
  /\ health' = "ping"
  /\ UNCHANGED <<regVars, pingW, elimKeys, elimPid, closeVars, gatewayVars,
                 clientVars, sockVars, workerVars>>

\* Broadcast skips a client it sees Disconnected.
PingSkip(w) ==
  /\ health = "ping" /\ w \in pinging
  /\ status[w] = "Disconnected"
  /\ pinging' = pinging \ {w}
  /\ UNCHANGED <<regVars, health, pingW, elimKeys, elimPid, closeVars,
                 gatewayVars, clientVars, sockVars, workerVars>>

\* Otherwise it goes on to send to it.
PingPick(w) ==
  /\ health = "ping" /\ w \in pinging
  /\ status[w] # "Disconnected"
  /\ pinging' = pinging \ {w}
  /\ health' = "send" /\ pingW' = w
  /\ UNCHANGED <<regVars, elimKeys, elimPid, closeVars, gatewayVars, clientVars,
                 sockVars, workerVars>>

\* The heartbeat reaches the socket.
PingSend ==
  /\ health = "send"
  /\ Send(pingW, "Ping")
  /\ health' = "ping" /\ pingW' = None
  /\ UNCHANGED <<regVars, pinging, elimKeys, elimPid, closeVars, gatewayVars,
                 clientVars, workerVars>>

\* Mutant: Broadcast only logs a failed heartbeat.
PingFails_OnlyLogs ==
  /\ health = "send"
  /\ SendFails(pingW)
  /\ health' = "ping" /\ pingW' = None
  /\ UNCHANGED <<regVars, pinging, elimKeys, elimPid, closeVars, gatewayVars,
                 clientVars, workerVars>>

\* It does not, and Broadcast shuts the client down.
PingFails ==
  /\ health = "send"
  /\ SendFails(pingW)
  /\ Shutdown(pingW)
  /\ health' = "ping" /\ pingW' = None
  /\ UNCHANGED <<regVars, pinging, elimKeys, elimPid, closeVars, gatewayVars,
                 workerVars>>

\* Everybody is pinged: eliminateWorkers begins its range.
EliminateBegin ==
  /\ health = "ping" /\ pinging = {}
  /\ health' = "eliminate"
  /\ elimKeys' = Keys
  /\ UNCHANGED <<regVars, pinging, pingW, elimPid, closeVars, gatewayVars,
                 clientVars, sockVars, workerVars>>

\* The range produces an entry and its client's State is read, both without
\* the mutex; Remove is the next thing to happen if it is Disconnected.
EliminateVisit(p) ==
  /\ health = "eliminate" /\ p \in elimKeys \cap Keys
  /\ elimKeys' = elimKeys \ {p}
  /\ IF status[conns[p]] = "Disconnected"
       THEN health' = "remove" /\ elimPid' = p
       ELSE UNCHANGED <<health, elimPid>>
  /\ UNCHANGED <<regVars, pinging, pingW, closeVars, gatewayVars, clientVars,
                 sockVars, workerVars>>

\* Remove deletes, under the mutex, whatever is registered under the pid now.
Remove ==
  /\ health = "remove" /\ Unlocked
  /\ conns' = [conns EXCEPT ![elimPid] = None]
  /\ health' = "eliminate" /\ elimPid' = None
  /\ UNCHANGED <<reg, regW, pinging, pingW, elimKeys, closeVars, gatewayVars,
                 clientVars, sockVars, workerVars>>

\* The range is over and the loop waits for the next tick.
EliminateEnd ==
  /\ health = "eliminate" /\ elimKeys \cap Keys = {}
  /\ health' = "wait" /\ elimKeys' = {}
  /\ UNCHANGED <<regVars, pinging, pingW, elimPid, closeVars, gatewayVars,
                 clientVars, sockVars, workerVars>>

\* The loop takes the other branch of its select once the context is done.
HealthReturn(cancelled) ==
  /\ health = "wait" /\ cancelled
  /\ health' = "return"
  /\ UNCHANGED <<regVars, pinging, pingW, elimKeys, elimPid, closeVars,
                 gatewayVars, clientVars, sockVars, workerVars>>

-------------------------------------------------------------------------------
(* CloseAllConnections, run by the main goroutine on the way out.             *)

\* Total takes the read lock; then the range begins.
CloseBegin ==
  /\ closing = "no" /\ Unlocked
  /\ closing' = "range" /\ closeKeys' = Keys
  /\ UNCHANGED <<regVars, healthVars, gatewayVars, clientVars, sockVars, workerVars>>

\* The range produces an entry, whose client is shut down.
CloseVisit(p) ==
  /\ closing = "range" /\ p \in closeKeys \cap Keys
  /\ closeKeys' = closeKeys \ {p}
  /\ Shutdown(conns[p])
  /\ UNCHANGED <<regVars, healthVars, closing, gatewayVars, sockVars, workerVars>>

\* Mutant: the master waits for every registered worker to leave before it ends.
CloseEnd_WaitsForWorkers ==
  /\ closing = "range" /\ closeKeys \cap Keys = {}
  /\ \A p \in Keys : ~Alive(conns[p])
  /\ closing' = "exit" /\ closeKeys' = {}
  /\ UNCHANGED <<regVars, healthVars, gatewayVars, clientVars, sockVars, workerVars>>

\* The range is over: Stop closes the TCP listener and Close returns.
CloseEnd ==
  /\ closing = "range" /\ closeKeys \cap Keys = {}
  /\ closing' = "exit" /\ closeKeys' = {}
  /\ UNCHANGED <<regVars, healthVars, gatewayVars, clientVars, sockVars, workerVars>>

\* A goroutine is ranging over the map without the mutex while another one that
\* holds it is writing the map.
MapRace ==
  \/ reg = "write" /\ health = "eliminate"
  \/ reg = "write" /\ closing = "range"
  \/ health = "remove" /\ Unlocked /\ closing = "range"
===============================================================================
