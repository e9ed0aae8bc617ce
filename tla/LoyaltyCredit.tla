----------------------------- MODULE LoyaltyCredit -----------------------------
(***************************************************************************)
(* Crediting loyalty points: CreditLoyaltyHandler.Handle over the GORM     *)
(* repositories, called concurrently by the HTTP controller and by         *)
(* OnOrderCompletedHandler.  The handler's six steps each go to the        *)
(* database or the bus on their own: no caller opens a transaction, and    *)
(* the repositories are built on the plain connection.                     *)
(*                                                                         *)
(* A call is one invocation of Handle; a redelivered event or a repeated   *)
(* request is another call with the same event id.                         *)
(***************************************************************************)
EXTENDS Integers

CONSTANTS
  Calls,        \* invocations of Handle
  Customers,
  Events,       \* event ids
  None,         \* no event id, no aggregate, no account
  CustomerOf,   \* CustomerOf[r]: cmd.CustomerID
  EventOf,      \* EventOf[r]: cmd.CausationEventID, None when empty
  ByEvent,      \* the calls made by OnOrderCompletedHandler
  Amount        \* Amount[r]: the order's total for those, cmd.Points for others

\* What there is to know of a LoyaltyAccount, in memory and in its row.
Aggregates == [id : Calls, balance : Int, tier : {"BRONZE", "SILVER", "GOLD"}]

ASSUME CallAssumption ==
  /\ None \notin Events /\ None \notin Aggregates
  /\ CustomerOf \in [Calls -> Customers]
  /\ EventOf \in [Calls -> Events \cup {None}]
  /\ ByEvent \subseteq {r \in Calls : EventOf[r] # None}
  /\ Amount \in [Calls -> Int]

VARIABLES
  account,      \* account[c]: the customer's row of loyalty_accounts, None if absent
  keys,         \* rows of idempotency_keys
  pc,           \* pc[r]: the step call r is about to take
  agg,          \* agg[r]: the aggregate call r holds
  answer,       \* answer[r]: what the caller was told
  saved,        \* calls whose Save took effect
  earned,       \* earned[c]: the points of all saves for customer c
  credited,     \* calls whose LoyaltyCredited event was published
  compensated,  \* calls for which LoyaltyCreditFailed was published
  faults,       \* a step has failed, or the process has crashed
  overlap       \* two calls have run at the same time

creditVars == <<account, keys, pc, agg, answer, saved, earned, credited, compensated, faults, overlap>>

-------------------------------------------------------------------------------
(* The domain's pure parts.                                                   *)

\* OnOrderCompletedHandler: a tenth of the order's total, and at least one.
PointsFor(total) == IF total \div 10 < 1 THEN 1 ELSE total \div 10

Points(r) == IF r \in ByEvent THEN PointsFor(Amount[r]) ELSE Amount[r]

CalculateTier(balance) ==
  IF balance >= 2000 THEN "GOLD" ELSE IF balance >= 500 THEN "SILVER" ELSE "BRONZE"

\* A new aggregate has a fresh id, named here after the call that makes it.
NewLoyaltyAggregate(r) == [id |-> r, balance |-> 0, tier |-> "BRONZE"]

\* NewPoints refuses negative points and CreditPoints refuses zero.
MayCredit(r) == Points(r) > 0

CreditPoints(a, points) ==
  [a EXCEPT !.balance = @ + points, !.tier = CalculateTier(a.balance + points)]

-------------------------------------------------------------------------------
Steps == {"idle", "exists", "find", "credit", "save", "publish", "mark", "compensate", "done"}
Running(r) == pc[r] \notin {"idle", "done"}

CreditTypeOK ==
  /\ account \in [Customers -> Aggregates \cup {None}]
  /\ keys \subseteq Events
  /\ pc \in [Calls -> Steps]
  /\ agg \in [Calls -> Aggregates \cup {None}]
  /\ answer \in [Calls -> {"none", "ok", "duplicate", "error"}]
  /\ saved \subseteq Calls /\ earned \in [Customers -> Int]
  /\ credited \subseteq Calls /\ compensated \subseteq ByEvent
  /\ faults \in BOOLEAN /\ overlap \in BOOLEAN

CreditInit ==
  /\ account = [c \in Customers |-> None]
  /\ keys = {}
  /\ pc = [r \in Calls |-> "idle"]
  /\ agg = [r \in Calls |-> None]
  /\ answer = [r \in Calls |-> "none"]
  /\ saved = {} /\ earned = [c \in Customers |-> 0]
  /\ credited = {} /\ compensated = {}
  /\ faults = FALSE /\ overlap = FALSE

Goto(r, step) == pc' = [pc EXCEPT ![r] = step]

\* Handle returns: an HTTP caller has its response, and OnOrderCompletedHandler
\* acknowledges the message or, after any error at all, compensates first.
Return(r, result) ==
  /\ answer' = [answer EXCEPT ![r] = result]
  /\ Goto(r, IF r \in ByEvent /\ result # "ok" THEN "compensate" ELSE "done")

\* The controller or the event handler dispatches the command.
Dispatch(r) ==
  /\ pc[r] = "idle"
  /\ Goto(r, IF EventOf[r] = None THEN "find" ELSE "exists")
  /\ overlap' = (overlap \/ \E s \in Calls : Running(s))
  /\ UNCHANGED <<account, keys, agg, answer, saved, earned, credited, compensated, faults>>

\* Mutant: the key is looked up and the outcome ignored.
Exists_Ignored(r) ==
  /\ pc[r] = "exists"
  /\ Goto(r, "find")
  /\ UNCHANGED <<account, keys, agg, answer, saved, earned, credited, compensated, faults, overlap>>

\* 1. The idempotency check.
Exists(r) ==
  /\ pc[r] = "exists"
  /\ IF EventOf[r] \in keys
       THEN Return(r, "duplicate")
       ELSE Goto(r, "find") /\ UNCHANGED answer
  /\ UNCHANGED <<account, keys, agg, saved, earned, credited, compensated, faults, overlap>>

\* Mutant: the row is found, its balance is not carried over.
FindByCustomerID_Fresh(r) ==
  /\ pc[r] = "find"
  /\ agg' = [agg EXCEPT ![r] =
               IF account[CustomerOf[r]] = None
                 THEN NewLoyaltyAggregate(r)
                 ELSE [account[CustomerOf[r]] EXCEPT !.balance = 0]]
  /\ Goto(r, "credit")
  /\ UNCHANGED <<account, keys, answer, saved, earned, credited, compensated, faults, overlap>>

\* 2. Load the customer's aggregate, or make one.
FindByCustomerID(r) ==
  /\ pc[r] = "find"
  /\ agg' = [agg EXCEPT ![r] = IF account[CustomerOf[r]] = None
                                 THEN NewLoyaltyAggregate(r)
                                 ELSE account[CustomerOf[r]]]
  /\ Goto(r, "credit")
  /\ UNCHANGED <<account, keys, answer, saved, earned, credited, compensated, faults, overlap>>

\* 3. Mutate it, in memory.
Credit(r) ==
  /\ pc[r] = "credit"
  /\ IF MayCredit(r)
       THEN /\ agg' = [agg EXCEPT ![r] = CreditPoints(@, Points(r))]
            /\ Goto(r, "save")
            /\ UNCHANGED answer
       ELSE Return(r, "error") /\ UNCHANGED agg
  /\ UNCHANGED <<account, keys, saved, earned, credited, compensated, faults, overlap>>

\* INSERT ... ON CONFLICT (id) DO UPDATE: the row of that id is inserted or
\* updated, and another row for the same customer makes the statement fail.
Conflict(r) ==
  LET row == account[CustomerOf[r]] IN row # None /\ row.id # agg[r].id

\* Mutant: the error is not looked at, and the handler goes on.
SaveRejected_Ignored(r) ==
  /\ pc[r] = "save" /\ Conflict(r)
  /\ Goto(r, "publish")
  /\ UNCHANGED <<account, keys, agg, answer, saved, earned, credited, compensated, faults, overlap>>

\* 4. Save refused: two first credits of one customer raced.
SaveRejected(r) ==
  /\ pc[r] = "save" /\ Conflict(r)
  /\ Return(r, "error")
  /\ UNCHANGED <<account, keys, agg, saved, earned, credited, compensated, faults, overlap>>

\* Mutant: the statement adds the aggregate's balance to the row's.
Save_Adds(r) ==
  /\ pc[r] = "save" /\ ~Conflict(r)
  /\ LET row == account[CustomerOf[r]] IN
       account' = [account EXCEPT ![CustomerOf[r]] =
                     IF row = None THEN agg[r] ELSE CreditPoints(row, agg[r].balance)]
  /\ saved' = saved \cup {r}
  /\ earned' = [earned EXCEPT ![CustomerOf[r]] = @ + Points(r)]
  /\ Goto(r, "publish")
  /\ UNCHANGED <<keys, agg, answer, credited, compensated, faults, overlap>>

\* 4. Save: balance and tier as the aggregate has them, whatever the row says now.
Save(r) ==
  /\ pc[r] = "save" /\ ~Conflict(r)
  /\ account' = [account EXCEPT ![CustomerOf[r]] = agg[r]]
  /\ saved' = saved \cup {r}
  /\ earned' = [earned EXCEPT ![CustomerOf[r]] = @ + Points(r)]
  /\ Goto(r, "publish")
  /\ UNCHANGED <<keys, agg, answer, credited, compensated, faults, overlap>>

\* 5. Publish the LoyaltyCredited event; a request without event id is done.
Publish(r) ==
  /\ pc[r] = "publish"
  /\ credited' = credited \cup {r}
  /\ IF EventOf[r] = None
       THEN Return(r, "ok")
       ELSE Goto(r, "mark") /\ UNCHANGED answer
  /\ UNCHANGED <<account, keys, agg, saved, earned, compensated, faults, overlap>>

\* Mutant: a key that is already there is not an error (ON CONFLICT DO NOTHING).
Mark_Ignores(r) ==
  /\ pc[r] = "mark"
  /\ keys' = keys \cup {EventOf[r]}
  /\ Return(r, "ok")
  /\ UNCHANGED <<account, agg, saved, earned, credited, compensated, faults, overlap>>

\* 6. Mark the key, whose column is UNIQUE.
Mark(r) ==
  /\ pc[r] = "mark"
  /\ IF EventOf[r] \in keys
       THEN Return(r, "error") /\ UNCHANGED keys
       ELSE Return(r, "ok") /\ keys' = keys \cup {EventOf[r]}
  /\ UNCHANGED <<account, agg, saved, earned, credited, compensated, faults, overlap>>

\* OnOrderCompletedHandler publishes the compensating event and acknowledges.
Compensate(r) ==
  /\ pc[r] = "compensate"
  /\ compensated' = compensated \cup {r}
  /\ Goto(r, "done")
  /\ UNCHANGED <<account, keys, agg, answer, saved, earned, credited, faults, overlap>>

\* The compensating event cannot be published: logged, and acknowledged.
CompensateFails(r) ==
  /\ pc[r] = "compensate"
  /\ Goto(r, "done")
  /\ faults' = TRUE
  /\ UNCHANGED <<account, keys, agg, answer, saved, earned, credited, compensated, overlap>>

\* The database or the bus fails a step, which has no effect.
StepFails(r) ==
  /\ pc[r] \in {"exists", "find", "save", "publish", "mark"}
  /\ Return(r, "error")
  /\ faults' = TRUE
  /\ UNCHANGED <<account, keys, agg, saved, earned, credited, compensated, overlap>>

\* The process dies: calls in progress end unanswered, the tables stay.
Crash ==
  /\ \E r \in Calls : Running(r)
  /\ pc' = [r \in Calls |-> IF Running(r) THEN "done" ELSE pc[r]]
  /\ agg' = [r \in Calls |-> None]
  /\ faults' = TRUE
  /\ UNCHANGED <<account, keys, answer, saved, earned, credited, compensated, overlap>>

HandleStep(r) ==
  \/ Dispatch(r)
  \/ Exists(r)
  \/ FindByCustomerID(r)
  \/ Credit(r)
  \/ SaveRejected(r)
  \/ Save(r)
  \/ Publish(r)
  \/ Mark(r)
  \/ Compensate(r)
  \/ CompensateFails(r)
  \/ StepFails(r)

CreditNext == (\E r \in Calls : HandleStep(r)) \/ Crash

CreditSpec == CreditInit /\ [][CreditNext]_creditVars

-------------------------------------------------------------------------------
(* Properties.                                                                *)

SameEvent(r, s) == EventOf[r] # None /\ EventOf[r] = EventOf[s]

\* A call is refused as a duplicate only when another call for the same event got
\* all the way: its points were saved and its event published.  The key is marked
\* last, so it never vouches for work that was not done, whatever fails or crashes
\* (Exists, Save, Publish, Mark).
DuplicateIsJustified ==
  \A r \in Calls : answer[r] = "duplicate" =>
    \E s \in Calls : s # r /\ SameEvent(r, s) /\ s \in saved \cap credited

\* However many calls run for one event, at most one of them reports success: the
\* unique key decides between those that passed the check together (Exists, Mark).
AtMostOneSuccess ==
  \A r, s \in Calls : SameEvent(r, s) /\ answer[r] = "ok" /\ answer[s] = "ok" => r = s

\* The thresholds of the tiers.
TierFits(a) ==
  /\ a.tier = "GOLD" <=> a.balance >= 2000
  /\ a.tier = "BRONZE" <=> a.balance < 500

\* Points come from credits only: a balance never exceeds the points of the calls
\* that saved it, even when saves overwrite each other, and the tier column agrees
\* with the balance that ended up beside it (CreditPoints, CalculateTier, Save).
NoPointsFromNowhere ==
  \A c \in Customers : account[c] # None =>
    /\ account[c].balance <= earned[c]
    /\ TierFits(account[c])

\* As long as calls run one at a time the balance is exactly the sum of what was
\* saved, through failures and crashes (FindByCustomerID, Credit, Save).
BalanceIsSum ==
  ~overlap => \A c \in Customers : account[c] # None =>
    account[c].balance = earned[c]

\* As long as calls run one at a time and nothing fails, an event is credited
\* once, however often it is delivered (Exists, Mark).
CreditedOnceUnlessFault ==
  ~faults /\ ~overlap => \A r, s \in saved : SameEvent(r, s) => r = s

\* "Either all steps commit together OR all roll back": a call that is over has
\* saved, published and marked, or none of the three.
AllOrNothing ==
  \A r \in Calls : pc[r] = "done" /\ EventOf[r] # None /\ r \in saved =>
    r \in credited /\ EventOf[r] \in keys

\* As long as calls run one at a time and nothing fails, OnOrderCompletedHandler
\* compensates only what Handle refused as a duplicate: no call that saved its points,
\* nor one that failed for another reason (Exists, Credit, Save, Mark, Return).
OnlyDuplicatesCompensated ==
  ~faults /\ ~overlap => \A r \in compensated : answer[r] = "duplicate" /\ r \notin saved

\* "This handler is idempotent via the command handler's idempotency check", and "if
\* the same event is replayed, the Exists check returns true and the handler returns
\* early without side effects": undisturbed, no credit that was made is compensated
\* because its event came again.
ReplayHasNoEffect ==
  ~faults /\ ~overlap => \A r \in compensated, s \in saved : ~SameEvent(r, s)

-------------------------------------------------------------------------------
(* Refinement: the handler implements the abstract CreditLedger.              *)

\* The points a customer can see: none without a row.
Balance == [c \in Customers |-> IF account[c] = None THEN 0 ELSE account[c].balance]

\* The calls whose own failure was compensated.  OnOrderCompletedHandler compensates a
\* refused duplicate as well, which no ledger would: those messages have no place in
\* CreditLedger, and ReplayHasNoEffect is about them.
Undone == {r \in compensated : answer[r] = "error"}

L == INSTANCE CreditLedger WITH
  PointsOf <- [r \in Calls |-> Points(r)],
  balance <- Balance, posted <- saved, told <- answer, undone <- Undone,
  alone <- ~overlap, sound <- ~faults

\* The six steps of a call amount to one posting and one answer, whatever interleaves,
\* fails or crashes, and a ledger is what they keep: postings that run alone add up,
\* others never make more than was earned; an answer says what became of the call; and
\* undisturbed an event is posted once, an error means that nothing was, and no failure
\* is compensated (Exists, FindByCustomerID, Save, Mark, Return, Compensate).
ImplementsLedger == L!LSpec

-------------------------------------------------------------------------------
(* The strengthenings that make them inductive.                               *)

\* What a call has done when it is about to take a step.
Progress ==
  \A r \in Calls :
    /\ pc[r] \in {"credit", "save"} => agg[r] # None
    /\ pc[r] \in {"publish", "mark"} => r \in saved
    /\ pc[r] = "mark" => r \in credited /\ EventOf[r] # None
    /\ pc[r] = "exists" => EventOf[r] # None
    /\ r \in saved => pc[r] \in {"publish", "mark", "compensate", "done"}
    /\ pc[r] = "compensate" => r \in ByEvent

\* A call is answered when it is over, and compensated after it was refused.
Told ==
  \A r \in Calls :
    /\ pc[r] \notin {"compensate", "done"} => answer[r] = "none"
    /\ pc[r] = "compensate" \/ r \in compensated => answer[r] \in {"error", "duplicate"}

\* What a key stands for, and what stands for a success.
Keyed ==
  /\ \A e \in keys : \E s \in saved \cap credited : EventOf[s] = e
  /\ \A r \in Calls : answer[r] = "ok" /\ EventOf[r] # None => EventOf[r] \in keys

IInv == CreditTypeOK /\ Progress /\ Keyed /\ DuplicateIsJustified /\ AtMostOneSuccess

\* An aggregate in memory is worth no more than what its customer earned, and its own
\* points once they were added: rows may be stale, never too rich.
Worth ==
  /\ \A c \in Customers : earned[c] >= 0
  /\ \A r \in Calls :
       /\ pc[r] = "credit" =>
            agg[r].balance <= earned[CustomerOf[r]] /\ TierFits(agg[r])
       /\ pc[r] = "save" =>
            /\ Points(r) > 0 /\ TierFits(agg[r])
            /\ agg[r].balance <= earned[CustomerOf[r]] + Points(r)

\* One call at a time: what the running call holds is its customer's row and what was
\* earned, exactly.
Serial ==
  ~overlap =>
    /\ \A r, s \in Calls : Running(r) /\ Running(s) => r = s
    /\ \A c \in Customers : account[c] = None => earned[c] = 0
    /\ \A r \in Calls :
         /\ pc[r] = "credit" => agg[r].balance = earned[CustomerOf[r]]
         /\ pc[r] = "save" => agg[r].balance = earned[CustomerOf[r]] + Points(r)
         /\ pc[r] \in {"credit", "save"} => ~Conflict(r)

\* One call at a time and no failure: the key is there once the call that saved is
\* over, it is not while a call that has passed the check runs, and only a duplicate
\* is compensated, whose call has saved nothing.
Undisturbed ==
  ~faults /\ ~overlap =>
    \A r \in Calls :
      /\ EventOf[r] # None =>
           /\ r \in saved => pc[r] \in {"publish", "mark"} \/ EventOf[r] \in keys
           /\ pc[r] \in {"find", "credit", "save", "publish", "mark"} => EventOf[r] \notin keys
      /\ pc[r] = "compensate" \/ r \in compensated =>
           r \notin saved /\ answer[r] = "duplicate" /\ pc[r] \in {"compensate", "done"}

BInv ==
  /\ IInv /\ Worth /\ NoPointsFromNowhere /\ Serial /\ BalanceIsSum
  /\ Undisturbed /\ CreditedOnceUnlessFault
===============================================================================
