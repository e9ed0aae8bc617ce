------------------------------ MODULE CreditLedger ------------------------------
(***************************************************************************)
(* What crediting loyalty points promises, with no steps, rows, keys or    *)
(* messages: a posting is one step, an answer says what became of it, and  *)
(* the promises are the stronger the less has gone wrong so far.           *)
(***************************************************************************)
EXTENDS Integers

CONSTANTS
  Calls,
  Customers,
  None,         \* no event
  CustomerOf,   \* CustomerOf[r]: whom call r credits
  EventOf,      \* EventOf[r]: the event call r is made for, or None
  PointsOf      \* PointsOf[r]: what call r credits

VARIABLES
  balance,   \* balance[c]: the points customer c can see
  earned,    \* earned[c]: the points of all postings for customer c
  posted,    \* calls that posted their points
  told,      \* told[r]: the answer to call r
  undone,    \* calls whose credit was declared failed
  alone,     \* no two calls have run at the same time
  sound      \* nothing has failed

lvars == <<balance, earned, posted, told, undone, alone, sound>>

SameCause(r, s) == EventOf[r] # None /\ EventOf[r] = EventOf[s]

LInit ==
  /\ earned = [c \in Customers |-> 0] /\ balance = earned
  /\ posted = {} /\ told = [r \in Calls |-> "none"] /\ undone = {}
  /\ alone = TRUE /\ sound = TRUE

\* Points are posted before the call is answered, and only positive ones.  Undisturbed,
\* an event is posted once.  Calls that run alone add to the balance; calls that do
\* not may overwrite each other, and never make it more than what was earned.
Post(r) ==
  LET c == CustomerOf[r] IN
  /\ r \notin posted /\ told[r] = "none" /\ PointsOf[r] > 0
  /\ alone /\ sound => \A s \in posted : ~SameCause(r, s)
  /\ posted' = posted \cup {r}
  /\ earned' = [earned EXCEPT ![c] = @ + PointsOf[r]]
  /\ balance' = [balance EXCEPT ![c] = balance'[c]]
  /\ IF alone THEN balance'[c] = balance[c] + PointsOf[r]
              ELSE balance'[c] \in Int /\ balance'[c] <= earned'[c]
  /\ UNCHANGED <<told, undone, alone, sound>>

\* A call is answered once.  Success means that it posted, and no other call for its
\* event succeeds; a duplicate, that another call for its event posted; an error,
\* undisturbed, that it posted nothing.  The error may be the first sign of a failure.
Answer(r, result) ==
  /\ told[r] = "none" /\ told' = [told EXCEPT ![r] = result]
  /\ result = "error" \/ sound' = sound
  /\ sound' => sound
  /\ result = "ok" => r \in posted /\ \A s \in Calls : SameCause(r, s) => told[s] # "ok"
  /\ result = "duplicate" => \E s \in posted : s # r /\ SameCause(r, s)
  /\ result = "error" /\ alone /\ sound' => r \notin posted
  /\ UNCHANGED <<balance, earned, posted, undone, alone>>

\* A credit is declared failed after its call ended in an error, and undisturbed never:
\* a duplicate has nothing of its own to take back.
Undo(r) ==
  /\ told[r] = "error" /\ ~(alone /\ sound)
  /\ undone' = undone \cup {r}
  /\ UNCHANGED <<balance, earned, posted, told, alone, sound>>

\* A call begins while another one runs.
Crowd ==
  /\ alone' = FALSE
  /\ UNCHANGED <<balance, earned, posted, told, undone, sound>>

\* Something fails.
Disturb ==
  /\ sound' = FALSE
  /\ UNCHANGED <<balance, earned, posted, told, undone, alone>>

LNext ==
  \/ \E r \in Calls :
       Post(r) \/ Undo(r) \/ \E result \in {"ok", "duplicate", "error"} : Answer(r, result)
  \/ Crowd
  \/ Disturb

LSpec == LInit /\ [][LNext]_lvars

-------------------------------------------------------------------------------
LType ==
  /\ balance \in [Customers -> Int] /\ earned \in [Customers -> Int]
  /\ told \in [Calls -> {"none", "ok", "duplicate", "error"}]
  /\ posted \subseteq Calls /\ undone \subseteq Calls
  /\ alone \in BOOLEAN /\ sound \in BOOLEAN

\* What a customer and an event can count on, as the sum of all steps: a balance never
\* exceeds what was earned and, of calls that run alone, is that; one success an
\* event; and undisturbed one posting an event, and no credit declared failed.
Promise ==
  /\ \A c \in Customers : balance[c] <= earned[c]
  /\ alone => balance = earned
  /\ \A r, s \in Calls : SameCause(r, s) /\ told[r] = "ok" /\ told[s] = "ok" => r = s
  /\ alone /\ sound =>
       /\ \A r, s \in posted : SameCause(r, s) => r = s
       /\ undone = {}
=================================================================================
