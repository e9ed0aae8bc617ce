---------------------------- MODULE OperatorControl ----------------------------
(***************************************************************************)
(* The operator's side of the master: handleController accepts TCP         *)
(* connections, handleConnectionController turns each line into an event   *)
(* on a channel, and the control loop of Master.Run executes the events    *)
(* against the command registry until the first error.                     *)
(***************************************************************************)
EXTENDS Naturals, Sequences

CONSTANTS
  Operators,    \* connections
  EventBuffer,  \* capacity of the channel Event, 1 in the code
  MaxLines      \* bound on the lines of a connection

ASSUME ControlAssumption == EventBuffer \in Nat \ {0} /\ MaxLines \in Nat

VARIABLES
  accepting,   \* handleController is in its loop
  session,     \* session[o]: none, reading, sending (blocked on the channel), closed
  line,        \* line[o]: lines read on o's connection
  typed,       \* typed[o]: the command of the last line
  events,      \* the channel Event: <<connection, number of the line, command>>
  loop,        \* running, or ended for good
  executed     \* events the control loop took, oldest first

controlVars == <<accepting, session, line, typed, events, loop, executed>>

\* Spellings an operator may type; RegisterCommand registers "noop".
Names == {"noop", "NOOP", "stop"}
ToUpper(n) == CASE n \in {"noop", "NOOP"} -> "NOOP" [] n = "stop" -> "STOP"
Event(o, k, n) == <<o, k, n>>

ControlTypeOK ==
  /\ accepting \in BOOLEAN
  /\ session \in [Operators -> {"none", "reading", "sending", "closed"}]
  /\ line \in [Operators -> 0 .. MaxLines] /\ typed \in [Operators -> Names]
  /\ Len(events) <= EventBuffer /\ loop \in {"running", "ended"}
  /\ \A s \in {events, executed} : \A i \in DOMAIN s : s[i] \in Operators \X (1 .. MaxLines) \X Names

\* Master.Run has started the loop and the listener.
ControlInit ==
  /\ accepting = TRUE
  /\ session = [o \in Operators |-> "none"]
  /\ line = [o \in Operators |-> 0] /\ typed = [o \in Operators |-> "noop"]
  /\ events = <<>> /\ loop = "running" /\ executed = <<>>

\* handleController accepts a connection and starts its goroutine.
AcceptOperator(o) ==
  /\ accepting /\ session[o] = "none"
  /\ session' = [session EXCEPT ![o] = "reading"]
  /\ UNCHANGED <<accepting, line, typed, events, loop, executed>>

\* The listener is closed, or Accept fails: no more connections; those that are
\* open stay.
ListenerClosed ==
  /\ accepting
  /\ accepting' = FALSE
  /\ UNCHANGED <<session, line, typed, events, loop, executed>>

\* The scanner returns a line.
ReadLine(o, n) ==
  /\ session[o] = "reading" /\ line[o] < MaxLines
  /\ session' = [session EXCEPT ![o] = "sending"]
  /\ line' = [line EXCEPT ![o] = @ + 1] /\ typed' = [typed EXCEPT ![o] = n]
  /\ UNCHANGED <<accepting, events, loop, executed>>

\* Mutant: an event that finds the channel full is dropped.
SendEvent_Drops(o) ==
  /\ session[o] = "sending"
  /\ events' = IF Len(events) < EventBuffer
               THEN Append(events, Event(o, line[o], typed[o])) ELSE events
  /\ session' = [session EXCEPT ![o] = "reading"]
  /\ UNCHANGED <<accepting, line, typed, loop, executed>>

\* The event goes into the channel once there is room.
SendEvent(o) ==
  /\ session[o] = "sending" /\ Len(events) < EventBuffer
  /\ events' = Append(events, Event(o, line[o], typed[o]))
  /\ session' = [session EXCEPT ![o] = "reading"]
  /\ UNCHANGED <<accepting, line, typed, loop, executed>>

\* The operator goes away; a goroutine that is sending does not notice.
HangUp(o) ==
  /\ session[o] = "reading"
  /\ session' = [session EXCEPT ![o] = "closed"]
  /\ UNCHANGED <<accepting, line, typed, events, loop, executed>>

\* Register normalises the name.
Commands == {ToUpper("noop")}

\* Execute looks the name up as it was typed.
Known(n) == n \in Commands

\* The control loop takes an event and executes it; the first error ends the loop.
Control ==
  /\ loop = "running" /\ events # <<>>
  /\ executed' = Append(executed, Head(events))
  /\ events' = Tail(events)
  /\ loop' = IF Known(Head(events)[3]) THEN "running" ELSE "ended"
  /\ UNCHANGED <<accepting, session, line, typed>>

ControlNext ==
  \/ ListenerClosed \/ Control
  \/ \E o \in Operators :
       \/ AcceptOperator(o) \/ SendEvent(o) \/ HangUp(o)
       \/ \E n \in Names : ReadLine(o, n)

ControlSpec == ControlInit /\ [][ControlNext]_controlVars

-------------------------------------------------------------------------------
\* The events that were executed or wait in the channel, oldest first.
Taken == executed \o events

\* The lines of o that its goroutine has sent.
SentLines(o) == IF session[o] = "sending" THEN line[o] - 1 ELSE line[o]

\* However connections interleave and block, and whenever the loop ends or an operator
\* hangs up, every line of a connection but the one being sent was executed or waits,
\* once, in the order it was typed (ReadLine, SendEvent, Control).
LinesInOrder ==
  /\ \A o \in Operators :
       {Taken[i][2] : i \in {j \in DOMAIN Taken : Taken[j][1] = o}} = 1 .. SentLines(o)
  /\ \A i, j \in DOMAIN Taken :
       i < j /\ Taken[i][1] = Taken[j][1] => Taken[i][2] < Taken[j][2]

\* "Normalize ke uppercase biar case-insensitive (STOP == stop)": the loop ends only
\* at a command that is registered in no spelling.  Register normalises, Execute does
\* not, so the program's own "noop", typed as it is registered, ends the loop.
CaseInsensitive ==
  loop = "ended" => ToUpper(executed[Len(executed)][3]) \notin Commands
===============================================================================
