------------------------------ MODULE Membership ------------------------------
(***************************************************************************)
(* What the master's registry promises about the worker processes, with no *)
(* sockets, goroutines, pids or messages: which processes are members,     *)
(* when one may join, and when one may be dropped.                         *)
(***************************************************************************)
CONSTANT Procs

VARIABLES
  ready,     \* processes that hold the shared listener
  ended,     \* processes that have ended
  members,   \* processes the supervisor supervises
  dropped,   \* processes it no longer does
  serving    \* the supervisor is in normal operation

mvars == <<ready, ended, members, dropped, serving>>

MInit ==
  /\ ready = {} /\ ended = {} /\ members = {} /\ dropped = {}
  /\ serving = TRUE

\* A process obtains the listener while it runs.
GetReady(w) ==
  /\ w \notin ready \cup ended
  /\ ready' = ready \cup {w}
  /\ UNCHANGED <<ended, members, dropped, serving>>

\* A process ends, at any time.
End(w) ==
  /\ w \notin ended
  /\ ended' = ended \cup {w}
  /\ UNCHANGED <<ready, members, dropped, serving>>

\* A process joins at most once, and only with the listener in hand.
Join(w) ==
  /\ w \in ready \ (members \cup dropped)
  /\ members' = members \cup {w}
  /\ UNCHANGED <<ready, ended, dropped, serving>>

\* In normal operation only a process that has ended is dropped.
Drop(w) ==
  /\ w \in members
  /\ serving => w \in ended
  /\ members' = members \ {w}
  /\ dropped' = dropped \cup {w}
  /\ UNCHANGED <<ready, ended, serving>>

\* The supervisor begins to shut down.
Retire ==
  /\ serving
  /\ serving' = FALSE
  /\ UNCHANGED <<ready, ended, members, dropped>>

\* The supervisor ends, orderly or not, and its registry with it.
Vanish ==
  /\ serving' = FALSE
  /\ members' = {} /\ dropped' = {}
  /\ UNCHANGED <<ready, ended>>

MNext ==
  \/ \E w \in Procs : GetReady(w) \/ End(w) \/ Join(w) \/ Drop(w)
  \/ Retire
  \/ Vanish

MSpec == MInit /\ [][MNext]_mvars
===============================================================================
