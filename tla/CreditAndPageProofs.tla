-------------------------- MODULE CreditAndPageProofs --------------------------
(***************************************************************************)
(* Theorems about two components that share no state.  Crediting: what the *)
(* idempotency key guarantees, for any calls, customers and events, under  *)
(* any interleaving of calls, failures and crashes; what the balance is    *)
(* worth then; what holds only while calls do not overlap; and that its    *)
(* steps implement the abstract CreditLedger.  Pages: a walk over a table  *)
(* sorted by a unique column misses no row and repeats none, for any       *)
(* table, page size and limits.                                            *)
(***************************************************************************)
EXTENDS LoyaltyCredit, Paging, WellFoundedInduction, TLAPS

-------------------------------------------------------------------------------
(* Crediting.                                                                 *)

\* CreditPoints gives an aggregate back.
LEMMA CreditType ==
  ASSUME NEW a \in Aggregates, NEW p \in Int
  PROVE  CreditPoints(a, p) \in Aggregates
<1>1. a.balance + p \in Int
  BY DEF Aggregates
<1>2. CalculateTier(a.balance + p) \in {"BRONZE", "SILVER", "GOLD"}
  BY <1>1 DEF CalculateTier
<1>3. QED
  BY Zenon, <1>1, <1>2 DEF CreditPoints, Aggregates

\* The points of a call are a number, whoever made it.
LEMMA PointsType == ASSUME NEW r \in Calls PROVE Points(r) \in Int
  BY CallAssumption DEF Points, PointsFor

\* The variables keep their types.
LEMMA TypeStep == CreditTypeOK /\ Progress /\ [CreditNext]_creditVars => CreditTypeOK'
<1> SUFFICES ASSUME CreditTypeOK, Progress, [CreditNext]_creditVars PROVE CreditTypeOK'
  OBVIOUS
<1> USE CallAssumption DEF CreditTypeOK, Steps, Goto, Return
<1>1. ASSUME NEW r \in Calls, HandleStep(r) PROVE CreditTypeOK'
  <2>1. CASE Dispatch(r) BY Zenon, <2>1 DEF Dispatch
  <2>2. CASE Exists(r) BY Zenon, <2>2 DEF Exists
  <2>3. CASE FindByCustomerID(r)
    <3>1. NewLoyaltyAggregate(r) \in Aggregates
      BY DEF NewLoyaltyAggregate, Aggregates
    <3>2. QED BY Zenon, <2>3, <3>1 DEF FindByCustomerID
  <2>4. CASE Credit(r)
    <3>1. agg[r] \in Aggregates
      BY Zenon, <2>4 DEF Credit, Progress
    <3>2. CreditPoints(agg[r], Points(r)) \in Aggregates
      BY Zenon, <3>1, CreditType, PointsType
    <3>3. QED BY <2>4, <3>2 DEF Credit
  <2>5. CASE SaveRejected(r) BY Zenon, <2>5 DEF SaveRejected
  <2>6. CASE Save(r)
    <3>1. agg[r] \in Aggregates
      BY Zenon, <2>6 DEF Save, Progress
    <3>2. earned[CustomerOf[r]] + Points(r) \in Int
      BY PointsType
    <3>3. QED BY Zenon, <2>6, <3>1, <3>2 DEF Save
  <2>7. CASE Publish(r) BY Zenon, <2>7 DEF Publish
  <2>8. CASE Mark(r) BY <2>8 DEF Mark, Progress
  <2>9. CASE Compensate(r) BY Zenon, <2>9 DEF Compensate, Progress
  <2>10. CASE CompensateFails(r) BY Zenon, <2>10 DEF CompensateFails
  <2>11. CASE StepFails(r) BY Zenon, <2>11 DEF StepFails
  <2>12. QED BY Zenon, <1>1, <2>1, <2>2, <2>3, <2>4, <2>5, <2>6, <2>7, <2>8, <2>9, <2>10, <2>11
                DEF HandleStep
<1>2. CASE Crash BY Zenon, <1>2 DEF Crash
<1>3. CASE UNCHANGED creditVars BY Zenon, <1>3 DEF creditVars
<1>4. QED BY Zenon, <1>1, <1>2, <1>3 DEF CreditNext

\* What a call has done follows from the step it is at, and stays so.
LEMMA ProgressStep == CreditTypeOK /\ Progress /\ [CreditNext]_creditVars => Progress'
<1> SUFFICES ASSUME CreditTypeOK, Progress, [CreditNext]_creditVars, NEW s \in Calls
             PROVE  /\ pc'[s] \in {"credit", "save"} => agg'[s] # None
                    /\ pc'[s] \in {"publish", "mark"} => s \in saved'
                    /\ pc'[s] = "mark" => s \in credited' /\ EventOf[s] # None
                    /\ pc'[s] = "exists" => EventOf[s] # None
                    /\ s \in saved' => pc'[s] \in {"publish", "mark", "compensate", "done"}
                    /\ pc'[s] = "compensate" => s \in ByEvent
  BY Zenon DEF Progress
<1> USE CallAssumption DEF CreditTypeOK, Steps, Goto, Return
<1>1. ASSUME NEW r \in Calls, HandleStep(r)
      PROVE  /\ pc'[s] \in {"credit", "save"} => agg'[s] # None
             /\ pc'[s] \in {"publish", "mark"} => s \in saved'
             /\ pc'[s] = "mark" => s \in credited' /\ EventOf[s] # None
             /\ pc'[s] = "exists" => EventOf[s] # None
             /\ s \in saved' => pc'[s] \in {"publish", "mark", "compensate", "done"}
             /\ pc'[s] = "compensate" => s \in ByEvent
  <2>1. CASE Dispatch(r) BY Zenon, <2>1 DEF Dispatch, Progress
  <2>2. CASE Exists(r) BY <2>2 DEF Exists, Progress
  <2>3. CASE FindByCustomerID(r)
    <3>1. NewLoyaltyAggregate(r) # None
      BY DEF NewLoyaltyAggregate, Aggregates
    <3>2. QED BY Zenon, <2>3, <3>1 DEF FindByCustomerID, Progress
  <2>4. CASE Credit(r)
    <3>1. CreditPoints(agg[r], Points(r)) # None
      BY <2>4, CreditType, PointsType DEF Credit, Progress
    <3>2. QED BY <2>4, <3>1 DEF Credit, Progress
  <2>5. CASE SaveRejected(r) BY Zenon, <2>5 DEF SaveRejected, Progress
  <2>6. CASE Save(r) BY Zenon, <2>6 DEF Save, Progress
  <2>7. CASE Publish(r) BY <2>7 DEF Publish, Progress
  <2>8. CASE Mark(r) BY <2>8 DEF Mark, Progress
  <2>9. CASE Compensate(r) BY Zenon, <2>9 DEF Compensate, Progress
  <2>10. CASE CompensateFails(r) BY Zenon, <2>10 DEF CompensateFails, Progress
  <2>11. CASE StepFails(r) BY Zenon, <2>11 DEF StepFails, Progress
  <2>12. QED BY Zenon, <1>1, <2>1, <2>2, <2>3, <2>4, <2>5, <2>6, <2>7, <2>8, <2>9, <2>10, <2>11
                DEF HandleStep
<1>2. CASE Crash BY Zenon, <1>2 DEF Crash, Running, Progress
<1>3. CASE UNCHANGED creditVars BY Zenon, <1>3 DEF creditVars, Progress
<1>4. QED BY Zenon, <1>1, <1>2, <1>3 DEF CreditNext

\* No step takes a save, a published event, a key or an answer back, except that
\* a call in progress gets its answer.
LEMMA Monotone ==
  CreditTypeOK /\ Progress /\ [CreditNext]_creditVars =>
    /\ saved \subseteq saved' /\ credited \subseteq credited' /\ keys \subseteq keys'
    /\ \A r \in Calls : answer'[r] # answer[r] =>
         \/ answer'[r] = "error"
         \/ Exists(r) /\ answer'[r] = "duplicate" /\ EventOf[r] \in keys
         \/ Publish(r) /\ answer'[r] = "ok" /\ EventOf[r] = None
         \/ Mark(r) /\ answer'[r] = "ok" /\ EventOf[r] \notin keys
<1> SUFFICES ASSUME CreditTypeOK, Progress, [CreditNext]_creditVars
             PROVE  /\ saved \subseteq saved' /\ credited \subseteq credited' /\ keys \subseteq keys'
                    /\ \A r \in Calls : answer'[r] # answer[r] =>
                         \/ answer'[r] = "error"
                         \/ Exists(r) /\ answer'[r] = "duplicate" /\ EventOf[r] \in keys
                         \/ Publish(r) /\ answer'[r] = "ok" /\ EventOf[r] = None
                         \/ Mark(r) /\ answer'[r] = "ok" /\ EventOf[r] \notin keys
  OBVIOUS
<1>1. CASE \E r \in Calls : HandleStep(r)
  <2>1. PICK r \in Calls : HandleStep(r) BY Zenon, <1>1
  <2>2. CASE Exists(r) BY Zenon, <2>2 DEF Exists, Return, CreditTypeOK
  <2>3. CASE Publish(r) BY Zenon, <2>3 DEF Publish, Return, CreditTypeOK
  <2>4. CASE Mark(r) BY Zenon, <2>4 DEF Mark, Return, CreditTypeOK
  <2>5. CASE Dispatch(r) \/ FindByCustomerID(r) \/ Compensate(r) \/ CompensateFails(r)
    BY Zenon, <2>5 DEF Dispatch, FindByCustomerID, Compensate, CompensateFails
  <2>6. CASE Save(r) BY Zenon, <2>6 DEF Save
  <2>7. CASE Credit(r) BY Zenon, <2>7 DEF Credit, Return, CreditTypeOK
  <2>8. CASE SaveRejected(r) \/ StepFails(r)
    BY Zenon, <2>8 DEF SaveRejected, StepFails, Return, CreditTypeOK
  <2>9. QED BY Zenon, <2>1, <2>2, <2>3, <2>4, <2>5, <2>6, <2>7, <2>8 DEF HandleStep
<1>2. CASE Crash BY Zenon, <1>2 DEF Crash
<1>3. CASE UNCHANGED creditVars BY Zenon, <1>3 DEF creditVars
<1>4. QED BY Zenon, <1>1, <1>2, <1>3 DEF CreditNext

\* Only Mark adds a key, and it adds the one of its own call, which has saved and
\* published.
LEMMA NewKey ==
  ASSUME CreditTypeOK, Progress, [CreditNext]_creditVars, NEW e \in keys' \ keys
  PROVE  \E s \in saved \cap credited : EventOf[s] = e
<1>1. CASE \E r \in Calls : HandleStep(r)
  <2>1. PICK r \in Calls : HandleStep(r) BY Zenon, <1>1
  <2>2. CASE Mark(r) BY Zenon, <2>2 DEF Mark, Progress
  <2>3. CASE ~Mark(r)
    <3>1. keys' = keys
      BY Zenon, <2>1, <2>3 DEF HandleStep, Dispatch, Exists, FindByCustomerID, Credit, SaveRejected,
                        Save, Publish, Compensate, CompensateFails, StepFails
    <3>2. QED BY Zenon, <3>1
  <2>4. QED BY Zenon, <2>2, <2>3
<1>2. CASE Crash BY Zenon, <1>2 DEF Crash
<1>3. CASE UNCHANGED creditVars BY Zenon, <1>3 DEF creditVars
<1>4. QED BY Zenon, <1>1, <1>2, <1>3 DEF CreditNext

\* Every key stands for finished work, and every success for a key.
LEMMA KeyedStep == CreditTypeOK /\ Progress /\ Keyed /\ [CreditNext]_creditVars => Keyed'
<1> SUFFICES ASSUME CreditTypeOK, Progress, Keyed, [CreditNext]_creditVars PROVE Keyed'
  OBVIOUS
<1>1. \A e \in keys' : \E s \in saved' \cap credited' : EventOf[s] = e
  <2> TAKE e \in keys'
  <2>1. \E s \in saved \cap credited : EventOf[s] = e
    BY Zenon, NewKey DEF Keyed
  <2>2. QED BY Zenon, <2>1, Monotone
<1>2. ASSUME NEW r \in Calls, answer'[r] = "ok", EventOf[r] # None
      PROVE  EventOf[r] \in keys'
  <2>1. CASE answer'[r] = answer[r] BY Zenon, <1>2, <2>1, Monotone DEF Keyed
  <2>2. CASE Mark(r) BY Zenon, <2>2 DEF Mark
  <2>3. CASE answer'[r] # answer[r] /\ ~Mark(r) BY Zenon, <1>2, <2>3, Monotone
  <2>4. QED BY Zenon, <2>1, <2>2, <2>3
<1>3. QED BY Zenon, <1>1, <1>2 DEF Keyed

\* A new refusal has a witness: the call whose key it met; it is another call,
\* because this one has not saved.
LEMMA DuplicateStep ==
  CreditTypeOK /\ Progress /\ Keyed /\ DuplicateIsJustified /\ [CreditNext]_creditVars => DuplicateIsJustified'
<1> SUFFICES ASSUME CreditTypeOK, Progress, Keyed, DuplicateIsJustified, [CreditNext]_creditVars,
                    NEW r \in Calls, answer'[r] = "duplicate"
             PROVE  \E s \in Calls : s # r /\ SameEvent(r, s) /\ s \in saved' \cap credited'
  BY Zenon DEF DuplicateIsJustified, SameEvent
<1>1. \E s \in Calls : s # r /\ SameEvent(r, s) /\ s \in saved \cap credited
  <2>1. CASE answer'[r] = answer[r] BY Zenon, <2>1 DEF DuplicateIsJustified
  <2>2. CASE answer'[r] # answer[r]
    <3>1. Exists(r) /\ EventOf[r] \in keys BY Zenon, <2>2, Monotone
    <3>2. PICK s \in saved \cap credited : EventOf[s] = EventOf[r] BY Zenon, <3>1 DEF Keyed
    <3>3. r \notin saved /\ EventOf[r] # None BY Zenon, <3>1 DEF Exists, Progress
    <3>4. QED BY Zenon, <3>2, <3>3 DEF SameEvent, CreditTypeOK
  <2>3. QED BY Zenon, <2>1, <2>2
<1>2. QED BY Zenon, <1>1, Monotone

\* A second success would have to mark a key that the first one left.
LEMMA SuccessStep ==
  CreditTypeOK /\ Progress /\ Keyed /\ AtMostOneSuccess /\ [CreditNext]_creditVars => AtMostOneSuccess'
<1> SUFFICES ASSUME CreditTypeOK, Progress, Keyed, AtMostOneSuccess, [CreditNext]_creditVars,
                    NEW r \in Calls, NEW s \in Calls, SameEvent(r, s),
                    answer'[r] = "ok", answer'[s] = "ok"
             PROVE  r = s
  BY Zenon DEF AtMostOneSuccess, SameEvent
<1>1. EventOf[r] # None /\ EventOf[r] = EventOf[s] BY Zenon DEF SameEvent
<1>2. CASE answer'[r] = answer[r] /\ answer'[s] = answer[s]
  BY Zenon, <1>2 DEF AtMostOneSuccess
<1>3. CASE answer'[r] # answer[r] /\ answer'[s] = answer[s]
  BY Zenon, <1>1, <1>3, Monotone DEF Keyed
<1>4. CASE answer'[r] = answer[r] /\ answer'[s] # answer[s]
  BY Zenon, <1>1, <1>4, Monotone DEF Keyed
<1>5. CASE answer'[r] # answer[r] /\ answer'[s] # answer[s]
  <2>1. Mark(r) /\ Mark(s) BY Zenon, <1>1, <1>5, Monotone
  <2>2. pc[r] = "mark" /\ pc'[r] # "mark" /\ pc' = [pc EXCEPT ![s] = pc'[s]]
    BY Zenon, <2>1 DEF Mark, Return, Goto, CreditTypeOK
  <2>3. QED BY Zenon, <2>2 DEF CreditTypeOK
<1>6. QED BY Zenon, <1>2, <1>3, <1>4, <1>5

\* The invariant holds initially: no call has begun.
LEMMA InitIInv == CreditInit => IInv
<1>1. 0 \in Int OBVIOUS
<1>2. ASSUME CreditInit PROVE CreditTypeOK
  <2>1. account \in [Customers -> Aggregates \cup {None}] /\ earned \in [Customers -> Int]
    BY Zenon, <1>1, <1>2 DEF CreditInit
  <2>2. pc \in [Calls -> Steps] /\ agg \in [Calls -> Aggregates \cup {None}]
    BY Zenon, <1>2 DEF CreditInit, Steps
  <2>3. answer \in [Calls -> {"none", "ok", "duplicate", "error"}]
    BY Zenon, <1>2 DEF CreditInit
  <2>4. QED BY Zenon, <1>2, <2>1, <2>2, <2>3 DEF CreditInit, CreditTypeOK
<1>3. CreditInit => Progress /\ Keyed
  BY Zenon DEF CreditInit, Progress, Keyed
<1>4. CreditInit => DuplicateIsJustified /\ AtMostOneSuccess
  BY Zenon DEF CreditInit, DuplicateIsJustified, AtMostOneSuccess
<1>5. QED BY Zenon, <1>2, <1>3, <1>4 DEF IInv

\* The invariant of crediting is inductive, whatever the calls, customers and
\* events, whatever fails and whenever the process crashes.
THEOREM Inductive == CreditSpec => []IInv
<1>1. CreditInit => IInv BY InitIInv
<1>2. IInv /\ [CreditNext]_creditVars => IInv'
  BY Zenon, TypeStep, ProgressStep, KeyedStep, DuplicateStep, SuccessStep DEF IInv
<1>3. QED BY <1>1, <1>2, PTL DEF CreditSpec

\* An event id is refused as a duplicate only after all of its work was done:
\* the key, marked last, never vouches for a credit that was lost.
THEOREM DuplicatesJustified == CreditSpec => []DuplicateIsJustified
<1>1. IInv => DuplicateIsJustified BY Zenon DEF IInv
<1>2. QED BY <1>1, Inductive, PTL

\* At most one call per event id reports success.
THEOREM SuccessUnique == CreditSpec => []AtMostOneSuccess
<1>1. IInv => AtMostOneSuccess BY Zenon DEF IInv
<1>2. QED BY <1>1, Inductive, PTL

-------------------------------------------------------------------------------
(* The balance.                                                               *)

\* Crediting adds the points and gives the tier its new value.
LEMMA CreditWorth ==
  ASSUME NEW a \in Aggregates, NEW p \in Int
  PROVE  CreditPoints(a, p).balance = a.balance + p /\ TierFits(CreditPoints(a, p))
<1>1. a.balance + p \in Int
  BY DEF Aggregates
<1>2. /\ CreditPoints(a, p).balance = a.balance + p
      /\ CreditPoints(a, p).tier = CalculateTier(a.balance + p)
  BY Zenon DEF CreditPoints, Aggregates
<1>3. ASSUME NEW b \in Int
      PROVE  /\ CalculateTier(b) = "GOLD" <=> b >= 2000
             /\ CalculateTier(b) = "BRONZE" <=> b < 500
  BY DEF CalculateTier
<1>4. QED BY <1>1, <1>2, <1>3 DEF TierFits

\* A step of a call leaves the other calls alone.
LEMMA CallFrame ==
  ASSUME CreditTypeOK, NEW r \in Calls, HandleStep(r), NEW s \in Calls, s # r
  PROVE  /\ pc'[s] = pc[s] /\ agg'[s] = agg[s] /\ answer'[s] = answer[s]
         /\ s \in saved' <=> s \in saved
         /\ s \in compensated' <=> s \in compensated
<1>1. pc'[s] = pc[s]
  BY Zenon DEF HandleStep, Dispatch, Exists, FindByCustomerID, Credit, SaveRejected, Save, Publish,
               Mark, Compensate, CompensateFails, StepFails, Return, Goto, CreditTypeOK
<1>2. agg'[s] = agg[s]
  BY Zenon DEF HandleStep, Dispatch, Exists, FindByCustomerID, Credit, SaveRejected, Save, Publish,
               Mark, Compensate, CompensateFails, StepFails, CreditTypeOK
<1>3. (s \in saved' <=> s \in saved) /\ (s \in compensated' <=> s \in compensated)
  BY Zenon DEF HandleStep, Dispatch, Exists, FindByCustomerID, Credit, SaveRejected, Save, Publish,
               Mark, Compensate, CompensateFails, StepFails
<1>4. answer'[s] = answer[s]
  <2>1. UNCHANGED answer \/ \E result : Return(r, result)
    BY Zenon DEF HandleStep, Dispatch, Exists, FindByCustomerID, Credit, SaveRejected,
         Save, Publish, Mark, Compensate, CompensateFails, StepFails
  <2>2. QED BY Zenon, <2>1 DEF Return, CreditTypeOK
<1>5. QED BY Zenon, <1>1, <1>2, <1>3, <1>4

\* Only Save touches the accounts.
LEMMA AccountFrame ==
  ASSUME NEW r \in Calls, HandleStep(r), ~Save(r)
  PROVE  UNCHANGED <<account, saved, earned>>
BY Zenon DEF HandleStep, Dispatch, Exists, FindByCustomerID, Credit, SaveRejected, Publish,
             Mark, Compensate, CompensateFails, StepFails

\* What Save does to the accounts, and that it is done by a call with points.
LEMMA SaveEffect ==
  ASSUME CreditTypeOK, Progress, Worth, NEW r \in Calls, Save(r)
  PROVE  /\ pc[r] = "save" /\ pc'[r] = "publish" /\ agg[r] \in Aggregates
         /\ account'[CustomerOf[r]] = agg[r]
         /\ earned'[CustomerOf[r]] = earned[CustomerOf[r]] + Points(r)
         /\ Points(r) \in Int /\ Points(r) > 0
         /\ \A c \in Customers \ {CustomerOf[r]} : account'[c] = account[c] /\ earned'[c] = earned[c]
<1>1. /\ pc[r] = "save" /\ pc'[r] = "publish" /\ agg[r] \in Aggregates
      /\ account'[CustomerOf[r]] = agg[r]
      /\ earned'[CustomerOf[r]] = earned[CustomerOf[r]] + Points(r)
      /\ \A c \in Customers \ {CustomerOf[r]} : account'[c] = account[c] /\ earned'[c] = earned[c]
  BY Zenon, CallAssumption DEF Save, Goto, CreditTypeOK, Progress
<1>2. Points(r) \in Int /\ Points(r) > 0
  BY Zenon, <1>1, PointsType DEF Worth
<1>3. QED BY Zenon, <1>1, <1>2

\* A customer's account changes only when a call for that customer saves.
LEMMA AccountChanges ==
  ASSUME CreditTypeOK, Progress, Worth, [CreditNext]_creditVars, NEW c \in Customers,
         ~\E r \in Calls : Save(r) /\ CustomerOf[r] = c
  PROVE  account'[c] = account[c] /\ earned'[c] = earned[c]
<1>1. CASE \E r \in Calls : Save(r)
  <2>1. PICK r \in Calls : Save(r) BY <1>1
  <2>2. c # CustomerOf[r] BY Zenon, <2>1
  <2>3. QED BY Zenon, <2>1, <2>2, SaveEffect
<1>2. CASE ~\E r \in Calls : Save(r)
  BY Zenon, <1>2, AccountFrame DEF CreditNext, Crash, creditVars
<1>3. QED BY Zenon, <1>1, <1>2

\* What was earned is never taken back.
LEMMA EarnedGrows ==
  ASSUME CreditTypeOK, Progress, Worth, [CreditNext]_creditVars, NEW c \in Customers
  PROVE  earned'[c] \in Int /\ earned'[c] >= earned[c] /\ earned'[c] >= 0
<1>0. earned[c] \in Int /\ earned[c] >= 0 BY Zenon DEF CreditTypeOK, Worth
<1>1. CASE \E r \in Calls : Save(r) /\ CustomerOf[r] = c
  <2>1. PICK r \in Calls : Save(r) /\ CustomerOf[r] = c BY <1>1
  <2>2. earned'[c] = earned[c] + Points(r) /\ Points(r) \in Int /\ Points(r) > 0
    BY Zenon, <2>1, SaveEffect
  <2>3. QED BY <1>0, <2>2
<1>2. CASE ~\E r \in Calls : Save(r) /\ CustomerOf[r] = c
  <2>1. earned'[c] = earned[c] BY Zenon, <1>2, AccountChanges
  <2>2. QED BY <1>0, <2>1
<1>3. QED BY Zenon, <1>1, <1>2

\* A call holds an aggregate only after FindByCustomerID and Credit.
LEMMA HoldsAfter ==
  ASSUME CreditTypeOK, NEW r \in Calls, HandleStep(r), ~FindByCustomerID(r), ~Credit(r)
  PROVE  pc'[r] \notin {"credit", "save"}
<1>1. pc'[r] \in {"find", "exists", "publish", "mark", "compensate", "done"}
  BY Zenon DEF HandleStep, Dispatch, Exists, SaveRejected, Save, Publish,
               Mark, Compensate, CompensateFails, StepFails, Return, Goto, CreditTypeOK
<1>2. QED BY <1>1

\* No aggregate is worth more than what its customer earned.
LEMMA WorthStep ==
  CreditTypeOK /\ Progress /\ Worth /\ NoPointsFromNowhere /\ [CreditNext]_creditVars => Worth'
<1> SUFFICES ASSUME CreditTypeOK, Progress, Worth, NoPointsFromNowhere, [CreditNext]_creditVars PROVE Worth'
  OBVIOUS
<1> DEFINE Bound(s) ==
      /\ pc[s] = "credit" => agg[s].balance <= earned[CustomerOf[s]] /\ TierFits(agg[s])
      /\ pc[s] = "save" => /\ Points(s) > 0 /\ TierFits(agg[s])
                           /\ agg[s].balance <= earned[CustomerOf[s]] + Points(s)
<1>1. ASSUME NEW s \in Calls, pc'[s] = pc[s], agg'[s] = agg[s] PROVE Bound(s)'
  <2>1. /\ CustomerOf[s] \in Customers /\ Points(s) \in Int
        /\ pc[s] \in {"credit", "save"} => agg[s] \in Aggregates
    BY Zenon, CallAssumption, PointsType DEF Progress, CreditTypeOK
  <2>2. /\ earned[CustomerOf[s]] \in Int /\ earned'[CustomerOf[s]] \in Int
        /\ earned'[CustomerOf[s]] >= earned[CustomerOf[s]]
    BY Zenon, <2>1, EarnedGrows DEF CreditTypeOK
  <2>3. pc[s] \in {"credit", "save"} => agg[s].balance \in Int
    BY <2>1 DEF Aggregates
  <2>4. Bound(s) BY Zenon DEF Worth
  <2>5. TierFits(agg[s]) => TierFits(agg[s])' BY <1>1 DEF TierFits
  <2>6. QED BY <1>1, <2>1, <2>2, <2>3, <2>4, <2>5
<1>2. ASSUME NEW r \in Calls, FindByCustomerID(r) PROVE Bound(r)'
  <2>1. /\ CustomerOf[r] \in Customers /\ pc'[r] = "credit"
        /\ earned' = earned /\ earned[CustomerOf[r]] >= 0
        /\ \/ agg'[r] = NewLoyaltyAggregate(r)
           \/ agg'[r] = account[CustomerOf[r]] /\ account[CustomerOf[r]] # None
    BY Zenon, <1>2, CallAssumption DEF FindByCustomerID, Goto, CreditTypeOK, Worth
  <2>2. NewLoyaltyAggregate(r).balance = 0 /\ TierFits(NewLoyaltyAggregate(r))
    BY DEF NewLoyaltyAggregate, TierFits
  <2>3. account[CustomerOf[r]] # None =>
          account[CustomerOf[r]].balance <= earned[CustomerOf[r]] /\ TierFits(account[CustomerOf[r]])
    BY Zenon, <2>1 DEF NoPointsFromNowhere
  <2>4. earned[CustomerOf[r]] \in Int BY Zenon, <2>1 DEF CreditTypeOK
  <2>5. agg'[r].balance <= earned[CustomerOf[r]] /\ TierFits(agg'[r])
    BY <2>1, <2>2, <2>3, <2>4
  <2>6. QED BY <2>1, <2>5 DEF TierFits
<1>3. ASSUME NEW r \in Calls, Credit(r) PROVE Bound(r)'
  <2>1. CASE MayCredit(r)
    <3>1. /\ CustomerOf[r] \in Customers /\ pc[r] = "credit" /\ pc'[r] = "save"
          /\ earned' = earned /\ agg'[r] = CreditPoints(agg[r], Points(r))
          /\ Points(r) > 0 /\ Points(r) \in Int /\ agg[r] \in Aggregates
      BY Zenon, <1>3, <2>1, CallAssumption, PointsType
         DEF Credit, Goto, MayCredit, CreditTypeOK, Progress
    <3>2. agg'[r].balance = agg[r].balance + Points(r) /\ TierFits(agg'[r])
      BY Zenon, <3>1, CreditWorth
    <3>3. agg[r].balance <= earned[CustomerOf[r]] /\ earned[CustomerOf[r]] \in Int
      BY Zenon, <3>1 DEF Worth, CreditTypeOK
    <3>4. agg[r].balance \in Int BY <3>1 DEF Aggregates
    <3>5. agg'[r].balance <= earned[CustomerOf[r]] + Points(r)
      BY <3>1, <3>2, <3>3, <3>4
    <3>6. QED BY <3>1, <3>2, <3>5 DEF TierFits
  <2>2. CASE ~MayCredit(r)
    <3>1. pc'[r] \in {"compensate", "done"}
      BY Zenon, <1>3, <2>2 DEF Credit, Return, Goto, CreditTypeOK
    <3>2. QED BY <3>1
  <2>3. QED BY Zenon, <2>1, <2>2
<1>4. ASSUME NEW s \in Calls PROVE Bound(s)'
  <2>1. CASE \E r \in Calls : HandleStep(r)
    <3>1. PICK r \in Calls : HandleStep(r) BY <2>1
    <3>2. CASE s # r BY Zenon, <1>1, <3>1, <3>2, CallFrame
    <3>3. CASE s = r
      <4>1. CASE ~FindByCustomerID(r) /\ ~Credit(r)
        <5>1. pc'[s] \notin {"credit", "save"} BY Zenon, <3>1, <3>3, <4>1, HoldsAfter
        <5>2. QED BY Zenon, <5>1
      <4>2. QED BY Zenon, <1>2, <1>3, <3>1, <3>3, <4>1
    <3>4. QED BY Zenon, <3>2, <3>3
  <2>2. CASE Crash
    <3>1. pc'[s] \notin {"credit", "save"} BY Zenon, <2>2 DEF Crash, Running, CreditTypeOK
    <3>2. QED BY Zenon, <3>1
  <2>3. CASE UNCHANGED creditVars BY Zenon, <1>1, <2>3 DEF creditVars
  <2>4. QED BY Zenon, <2>1, <2>2, <2>3 DEF CreditNext
<1>5. \A c \in Customers : earned'[c] >= 0 BY Zenon, EarnedGrows
<1>6. QED BY Zenon, <1>4, <1>5 DEF Worth

\* Neither is a row.
LEMMA NoPointsStep ==
  CreditTypeOK /\ Progress /\ Worth /\ NoPointsFromNowhere /\ [CreditNext]_creditVars => NoPointsFromNowhere'
<1> SUFFICES ASSUME CreditTypeOK, Progress, Worth, NoPointsFromNowhere, [CreditNext]_creditVars,
                    NEW c \in Customers, account'[c] # None
             PROVE  account'[c].balance <= earned'[c] /\ TierFits(account'[c])
  BY Zenon DEF NoPointsFromNowhere, TierFits
<1>1. CASE account'[c] = account[c] /\ earned'[c] = earned[c]
  BY Zenon, <1>1 DEF NoPointsFromNowhere
<1>2. CASE \E r \in Calls : Save(r) /\ CustomerOf[r] = c
  <2>1. PICK r \in Calls : Save(r) /\ CustomerOf[r] = c BY <1>2
  <2>2. account'[c] = agg[r] /\ earned'[c] = earned[c] + Points(r) /\ pc[r] = "save"
    BY Zenon, <2>1, SaveEffect
  <2>3. QED BY Zenon, <2>1, <2>2 DEF Worth
<1>3. QED BY Zenon, <1>1, <1>2, AccountChanges

-------------------------------------------------------------------------------
(* One call at a time.                                                        *)

\* A call that runs after a step ran before it or was dispatched by it, and calls
\* that have not overlapped had not before.
LEMMA RunningStep ==
  ASSUME CreditTypeOK, Serial, [CreditNext]_creditVars, ~overlap'
  PROVE  /\ ~overlap
         /\ \A s, t \in Calls : Running(s)' /\ Running(t)' => s = t
<1>1. CASE \E r \in Calls : HandleStep(r)
  <2>1. PICK r \in Calls : HandleStep(r) BY <1>1
  <2>2. CASE Dispatch(r)
    <3>1. ~overlap /\ \A s \in Calls : ~Running(s)
      BY Zenon, <2>2 DEF Dispatch
    <3>2. \A s \in Calls : s # r => pc'[s] = pc[s]
      BY Zenon, <2>1, CallFrame
    <3>3. QED BY Zenon, <3>1, <3>2 DEF Running
  <2>3. CASE ~Dispatch(r)
    <3>1. overlap' = overlap /\ Running(r)
      BY Zenon, <2>1, <2>3 DEF HandleStep, Exists, FindByCustomerID, Credit, SaveRejected, Save,
           Publish, Mark, Compensate, CompensateFails, StepFails, Running
    <3>2. \A s \in Calls : s # r => pc'[s] = pc[s]
      BY Zenon, <2>1, CallFrame
    <3>3. QED BY Zenon, <3>1, <3>2 DEF Running, Serial
  <2>4. QED BY Zenon, <2>2, <2>3
<1>2. CASE Crash
  <2>1. overlap' = overlap /\ \A s \in Calls : ~Running(s)'
    BY Zenon, <1>2 DEF Crash, Running, CreditTypeOK
  <2>2. QED BY Zenon, <2>1
<1>3. CASE UNCHANGED creditVars BY Zenon, <1>3 DEF creditVars, Running, Serial
<1>4. QED BY Zenon, <1>1, <1>2, <1>3 DEF CreditNext

\* While calls do not overlap, the aggregate of the running call is up to date.
LEMMA SerialStep ==
  CreditTypeOK /\ Progress /\ Worth /\ Serial /\ BalanceIsSum /\ [CreditNext]_creditVars => Serial'
<1> SUFFICES ASSUME CreditTypeOK, Progress, Worth, Serial, BalanceIsSum, [CreditNext]_creditVars, ~overlap'
             PROVE  /\ \A c \in Customers : account'[c] = None => earned'[c] = 0
                    /\ \A s \in Calls :
                         /\ pc'[s] = "credit" => agg'[s].balance = earned'[CustomerOf[s]]
                         /\ pc'[s] = "save" =>
                              agg'[s].balance = earned'[CustomerOf[s]] + Points(s)
                         /\ pc'[s] \in {"credit", "save"} => ~Conflict(s)'
  BY Zenon, RunningStep DEF Serial
<1>0. ~overlap BY Zenon, RunningStep
<1>1. ASSUME NEW c \in Customers, account'[c] = None PROVE earned'[c] = 0
  <2>1. CASE \E r \in Calls : Save(r) /\ CustomerOf[r] = c
    <3>1. PICK r \in Calls : Save(r) /\ CustomerOf[r] = c BY <2>1
    <3>2. account'[c] \in Aggregates BY Zenon, <3>1, SaveEffect
    <3>3. QED BY Zenon, <1>1, <3>2, CallAssumption
  <2>2. CASE account'[c] = account[c] /\ earned'[c] = earned[c]
    BY Zenon, <1>0, <1>1, <2>2 DEF Serial
  <2>3. QED BY Zenon, <2>1, <2>2, AccountChanges
<1>2. ASSUME NEW s \in Calls, pc'[s] \in {"credit", "save"}
      PROVE  /\ pc'[s] = "credit" => agg'[s].balance = earned'[CustomerOf[s]]
             /\ pc'[s] = "save" => agg'[s].balance = earned'[CustomerOf[s]] + Points(s)
             /\ ~Conflict(s)'
  <2>0. CustomerOf[s] \in Customers BY Zenon, CallAssumption
  <2>1. CASE \E r \in Calls : HandleStep(r)
    <3>1. PICK r \in Calls : HandleStep(r) BY <2>1
    <3>2. CASE s # r
      <4>1. pc'[s] = pc[s] /\ agg'[s] = agg[s] /\ Running(s)
        BY Zenon, <1>2, <3>1, <3>2, CallFrame DEF Running
      <4>2. ~Save(r)
        BY Zenon, <1>0, <3>2, <4>1 DEF Serial, Running, Save
      <4>3. earned' = earned /\ account' = account BY Zenon, <3>1, <4>2, AccountFrame
      <4>4. QED BY Zenon, <1>0, <1>2, <4>1, <4>3 DEF Serial, Conflict
    <3>3. CASE s = r /\ FindByCustomerID(r)
      <4>1. /\ pc'[s] = "credit" /\ earned' = earned /\ account' = account
            /\ agg'[s] = IF account[CustomerOf[s]] = None THEN NewLoyaltyAggregate(s)
                                                          ELSE account[CustomerOf[s]]
        BY Zenon, <3>3 DEF FindByCustomerID, Goto, CreditTypeOK
      <4>2. agg'[s].balance = earned[CustomerOf[s]]
        <5>1. CASE account[CustomerOf[s]] = None
          <6>1. NewLoyaltyAggregate(s).balance = 0 BY DEF NewLoyaltyAggregate
          <6>2. QED BY <1>0, <2>0, <4>1, <5>1, <6>1 DEF Serial
        <5>2. CASE account[CustomerOf[s]] # None
          BY Zenon, <1>0, <2>0, <4>1, <5>2 DEF BalanceIsSum
        <5>3. QED BY Zenon, <5>1, <5>2
      <4>3. ~Conflict(s)' BY Zenon, <4>1 DEF Conflict
      <4>4. QED BY Zenon, <4>1, <4>2, <4>3
    <3>4. CASE s = r /\ Credit(r)
      <4>1. CASE MayCredit(r)
        <5>1. /\ pc[s] = "credit" /\ pc'[s] = "save" /\ earned' = earned /\ account' = account
              /\ agg'[s] = CreditPoints(agg[s], Points(s))
              /\ Points(s) \in Int /\ agg[s] \in Aggregates
          BY Zenon, <3>4, <4>1, PointsType DEF Credit, Goto, CreditTypeOK, Progress
        <5>2. agg'[s].balance = agg[s].balance + Points(s) BY Zenon, <5>1, CreditWorth
        <5>3. agg[s].balance = earned[CustomerOf[s]] BY Zenon, <1>0, <5>1 DEF Serial
        <5>4. agg'[s].id = agg[s].id BY Zenon, <5>1 DEF CreditPoints, Aggregates
        <5>5. ~Conflict(s)' BY Zenon, <1>0, <5>1, <5>4 DEF Serial, Conflict
        <5>6. QED BY Zenon, <5>1, <5>2, <5>3, <5>5
      <4>2. CASE ~MayCredit(r)
        BY Zenon, <1>2, <3>4, <4>2 DEF Credit, Return, Goto, CreditTypeOK
      <4>3. QED BY Zenon, <4>1, <4>2
    <3>5. QED BY Zenon, <1>2, <3>1, <3>2, <3>3, <3>4, HoldsAfter
  <2>2. CASE Crash BY Zenon, <1>2, <2>2 DEF Crash, Running, CreditTypeOK
  <2>3. CASE UNCHANGED creditVars BY Zenon, <1>0, <1>2, <2>3 DEF creditVars, Serial, Conflict
  <2>4. QED BY Zenon, <2>1, <2>2, <2>3 DEF CreditNext
<1>3. QED BY Zenon, <1>1, <1>2

\* So what it saves is the sum.
LEMMA SumStep ==
  CreditTypeOK /\ Progress /\ Worth /\ Serial /\ BalanceIsSum /\ [CreditNext]_creditVars => BalanceIsSum'
<1> SUFFICES ASSUME CreditTypeOK, Progress, Worth, Serial, BalanceIsSum, [CreditNext]_creditVars, ~overlap',
                    NEW c \in Customers, account'[c] # None
             PROVE  account'[c].balance = earned'[c]
  BY Zenon DEF BalanceIsSum
<1>0. ~overlap BY Zenon, RunningStep
<1>1. CASE account'[c] = account[c] /\ earned'[c] = earned[c]
  BY Zenon, <1>0, <1>1 DEF BalanceIsSum
<1>2. CASE \E r \in Calls : Save(r) /\ CustomerOf[r] = c
  <2>1. PICK r \in Calls : Save(r) /\ CustomerOf[r] = c BY <1>2
  <2>2. /\ account'[c] = agg[r] /\ pc[r] = "save"
        /\ earned'[c] = earned[CustomerOf[r]] + Points(r)
    BY Zenon, <2>1, SaveEffect
  <2>3. QED BY Zenon, <1>0, <2>1, <2>2 DEF Serial
<1>3. CASE ~\E r \in Calls : Save(r) /\ CustomerOf[r] = c
  <2>1. account'[c] = account[c] /\ earned'[c] = earned[c] BY Zenon, <1>3, AccountChanges
  <2>2. QED BY Zenon, <1>1, <2>1
<1>4. QED BY Zenon, <1>2, <1>3

-------------------------------------------------------------------------------
(* One call at a time, and no failure.                                        *)

\* An order is worth a point at least, so crediting it is not refused.
LEMMA EventCredits ==
  ASSUME NEW r \in ByEvent
  PROVE  MayCredit(r)
<1>1. Amount[r] \in Int BY Zenon, CallAssumption
<1>2. PointsFor(Amount[r]) > 0 BY <1>1 DEF PointsFor
<1>3. QED BY Zenon, <1>2 DEF MayCredit, Points

\* What a step of the one running call does to its key and its compensation.
LEMMA UndisturbedCall ==
  ASSUME CreditTypeOK, Progress, Serial, Undisturbed, NEW r \in Calls, HandleStep(r),
         ~faults', ~overlap, ~overlap'
  PROVE  /\ EventOf[r] # None =>
              /\ r \in saved' => pc'[r] \in {"publish", "mark"} \/ EventOf[r] \in keys'
              /\ pc'[r] \in {"find", "credit", "save", "publish", "mark"} => EventOf[r] \notin keys'
         /\ pc'[r] = "compensate" \/ r \in compensated' =>
              r \notin saved' /\ answer'[r] = "duplicate" /\ pc'[r] \in {"compensate", "done"}
<1>0. ~faults
  BY Zenon DEF HandleStep, Dispatch, Exists, FindByCustomerID, Credit, SaveRejected, Save, Publish,
               Mark, Compensate, CompensateFails, StepFails
<1> USE <1>0 DEF Undisturbed, Progress, CreditTypeOK, Goto, Return
<1>1. CASE Dispatch(r) BY <1>1 DEF Dispatch
<1>2. CASE Exists(r) BY <1>2 DEF Exists
<1>3. CASE FindByCustomerID(r) BY <1>3 DEF FindByCustomerID
<1>4. CASE Credit(r)
  <2>1. r \in ByEvent => MayCredit(r) BY Zenon, EventCredits
  <2>2. QED BY <1>4, <2>1 DEF Credit
<1>5. CASE SaveRejected(r) BY Zenon, <1>5 DEF SaveRejected, Serial
<1>6. CASE Save(r) BY <1>6 DEF Save
<1>7. CASE Publish(r) BY <1>7 DEF Publish
<1>8. CASE Mark(r) BY <1>8 DEF Mark
<1>9. CASE Compensate(r) BY <1>9 DEF Compensate
<1>10. CASE CompensateFails(r) \/ StepFails(r) BY <1>10 DEF CompensateFails, StepFails
<1> HIDE DEF Undisturbed, Progress, CreditTypeOK, Goto, Return
<1>11. QED BY Zenon, <1>1, <1>2, <1>3, <1>4, <1>5, <1>6, <1>7, <1>8, <1>9, <1>10 DEF HandleStep

\* Only Mark adds a key.
LEMMA KeysFrame ==
  ASSUME NEW r \in Calls, HandleStep(r), ~Mark(r)
  PROVE  keys' = keys
BY Zenon DEF HandleStep, Dispatch, Exists, FindByCustomerID, Credit, SaveRejected,
             Save, Publish, Compensate, CompensateFails, StepFails

\* Without failures and overlaps, a key is there when its call is over, and not before.
LEMMA UndisturbedStep ==
  CreditTypeOK /\ Progress /\ Serial /\ Undisturbed /\ [CreditNext]_creditVars => Undisturbed'
<1> SUFFICES ASSUME CreditTypeOK, Progress, Serial, Undisturbed, [CreditNext]_creditVars, ~faults', ~overlap',
                    NEW s \in Calls
             PROVE  /\ EventOf[s] # None =>
                         /\ s \in saved' => pc'[s] \in {"publish", "mark"} \/ EventOf[s] \in keys'
                         /\ pc'[s] \in {"find", "credit", "save", "publish", "mark"} =>
                              EventOf[s] \notin keys'
                    /\ pc'[s] = "compensate" \/ s \in compensated' =>
                         /\ s \notin saved' /\ answer'[s] = "duplicate"
                         /\ pc'[s] \in {"compensate", "done"}
  BY Zenon DEF Undisturbed
<1>0. ~overlap BY Zenon, RunningStep
<1>1. CASE \E r \in Calls : HandleStep(r)
  <2>1. PICK r \in Calls : HandleStep(r) BY <1>1
  <2>2. CASE s = r BY Zenon, <1>0, <2>1, <2>2, UndisturbedCall
  <2>3. CASE s # r
    <3>1. /\ pc'[s] = pc[s] /\ answer'[s] = answer[s] /\ (s \in saved' <=> s \in saved)
          /\ (s \in compensated' <=> s \in compensated)
      BY Zenon, <2>1, <2>3, CallFrame
    <3>2. ~faults /\ keys \subseteq keys'
      <4>1. ~faults
        BY Zenon, <2>1 DEF HandleStep, Dispatch, Exists, FindByCustomerID, Credit, SaveRejected,
             Save, Publish, Mark, Compensate, CompensateFails, StepFails
      <4>2. QED BY Zenon, <4>1, Monotone
    <3>3. Running(s) => keys' = keys
      BY Zenon, <1>0, <2>1, <2>3, KeysFrame DEF Serial, Running, Mark
    <3>4. QED BY Zenon, <1>0, <3>1, <3>2, <3>3 DEF Undisturbed, Running
  <2>4. QED BY Zenon, <2>2, <2>3
<1>2. CASE Crash BY Zenon, <1>2 DEF Crash
<1>3. CASE UNCHANGED creditVars BY Zenon, <1>0, <1>3 DEF creditVars, Undisturbed
<1>4. QED BY Zenon, <1>1, <1>2, <1>3 DEF CreditNext

\* So a second call for the same event finds it.
LEMMA CreditedOnceStep ==
  CreditTypeOK /\ Progress /\ Serial /\ Undisturbed /\ CreditedOnceUnlessFault /\ [CreditNext]_creditVars
    => CreditedOnceUnlessFault'
<1> SUFFICES ASSUME CreditTypeOK, Progress, Serial, Undisturbed, CreditedOnceUnlessFault, [CreditNext]_creditVars,
                    ~faults', ~overlap', NEW s \in saved', NEW t \in saved', SameEvent(s, t)
             PROVE  s = t
  BY Zenon DEF CreditedOnceUnlessFault, SameEvent
<1>0. ~overlap BY Zenon, RunningStep
<1>1. ~faults
  BY Zenon DEF CreditNext, Crash, creditVars, HandleStep, Dispatch, Exists, FindByCustomerID, Credit,
       SaveRejected, Save, Publish, Mark, Compensate, CompensateFails, StepFails
<1>2. ASSUME NEW r \in Calls, Save(r), NEW q \in saved, SameEvent(r, q) \/ SameEvent(q, r)
      PROVE  r = q
  <2>1. EventOf[r] # None /\ EventOf[q] = EventOf[r] /\ q \in Calls /\ pc[r] = "save"
    BY Zenon, <1>2 DEF SameEvent, Save, CreditTypeOK
  <2>2. EventOf[r] \notin keys BY Zenon, <1>0, <1>1, <2>1 DEF Undisturbed
  <2>3. pc[q] \in {"publish", "mark"} BY Zenon, <1>0, <1>1, <1>2, <2>1, <2>2 DEF Undisturbed
  <2>4. QED BY Zenon, <1>0, <2>1, <2>3 DEF Serial, Running
<1>3. CASE \E r \in Calls : Save(r)
  <2>1. PICK r \in Calls : Save(r) BY <1>3
  <2>2. saved' = saved \cup {r} BY Zenon, <2>1 DEF Save
  <2>3. QED BY Zenon, <1>0, <1>1, <1>2, <2>1, <2>2 DEF CreditedOnceUnlessFault
<1>4. CASE ~\E r \in Calls : Save(r)
  <2>1. saved' = saved BY Zenon, <1>4, AccountFrame DEF CreditNext, Crash, creditVars
  <2>2. QED BY Zenon, <1>0, <1>1, <2>1 DEF CreditedOnceUnlessFault
<1>5. QED BY Zenon, <1>3, <1>4

-------------------------------------------------------------------------------
(* Together.                                                                  *)

\* The second inductive invariant, over the first.
THEOREM BalanceInductive == CreditSpec => []BInv
<1>1. CreditInit => BInv
  <2>1. CreditInit => IInv BY InitIInv
  <2>2. CreditInit => Worth
    BY DEF CreditInit, Worth
  <2>3. CreditInit => NoPointsFromNowhere /\ BalanceIsSum /\ CreditedOnceUnlessFault
    BY DEF CreditInit, NoPointsFromNowhere, BalanceIsSum, CreditedOnceUnlessFault
  <2>4. CreditInit => Serial /\ Undisturbed
    BY DEF CreditInit, Serial, Running, Undisturbed
  <2>5. QED BY Zenon, <2>1, <2>2, <2>3, <2>4 DEF BInv
<1>2. BInv /\ [CreditNext]_creditVars => BInv'
  <2>1. BInv /\ [CreditNext]_creditVars => IInv'
    BY Zenon, TypeStep, ProgressStep, KeyedStep, DuplicateStep, SuccessStep DEF BInv, IInv
  <2>2. QED
    BY Zenon, <2>1, WorthStep, NoPointsStep, SerialStep, SumStep, UndisturbedStep, CreditedOnceStep
       DEF BInv, IInv
<1>3. QED BY <1>1, <1>2, PTL DEF CreditSpec

\* However calls interleave and overwrite each other's rows, fail and crash, no balance
\* exceeds what was credited, and the tier fits it.
THEOREM NothingFromNowhere == CreditSpec => []NoPointsFromNowhere
<1>1. BInv => NoPointsFromNowhere BY Zenon DEF BInv
<1>2. QED BY <1>1, BalanceInductive, PTL

\* Without overlapping calls no credit is lost either, through failures and crashes.
THEOREM NoCreditLost == CreditSpec => []BalanceIsSum
<1>1. BInv => BalanceIsSum BY Zenon DEF BInv
<1>2. QED BY <1>1, BalanceInductive, PTL

\* Without overlapping calls and failures an event is credited once, however often it
\* is delivered.
THEOREM CreditedOnce == CreditSpec => []CreditedOnceUnlessFault
<1>1. BInv => CreditedOnceUnlessFault BY Zenon DEF BInv
<1>2. QED BY <1>1, BalanceInductive, PTL

\* And then nothing but a duplicate is compensated, and no call that saved its points.
THEOREM DuplicatesCompensated == CreditSpec => []OnlyDuplicatesCompensated
<1>1. BInv => OnlyDuplicatesCompensated
  <2>1. BInv => compensated \subseteq Calls
    BY Zenon, CallAssumption DEF BInv, IInv, CreditTypeOK
  <2>2. QED BY Zenon, <2>1 DEF BInv, Undisturbed, OnlyDuplicatesCompensated
<1>2. QED BY <1>1, BalanceInductive, PTL

-------------------------------------------------------------------------------
(* Crediting implements the abstract ledger.                                  *)

\* The answer of a call goes with the step it is at.
LEMMA ToldStep == CreditTypeOK /\ Progress /\ Told /\ [CreditNext]_creditVars => Told'
<1> SUFFICES ASSUME CreditTypeOK, Progress, Told, [CreditNext]_creditVars, NEW s \in Calls
             PROVE  /\ pc'[s] \notin {"compensate", "done"} => answer'[s] = "none"
                    /\ pc'[s] = "compensate" \/ s \in compensated' =>
                         answer'[s] \in {"error", "duplicate"}
  BY Zenon DEF Told
<1>1. CASE \E r \in Calls : HandleStep(r)
  <2>1. PICK r \in Calls : HandleStep(r) BY <1>1
  <2>2. CASE s # r
    BY Zenon, <2>1, <2>2, CallFrame DEF Told
  <2>3. CASE s = r
    <3>1. ASSUME NEW result \in {"ok", "duplicate", "error"}, Return(r, result)
          PROVE  /\ pc'[r] \in {"compensate", "done"} /\ answer'[r] = result
                 /\ pc'[r] = "compensate" => result # "ok"
      BY <3>1 DEF Return, Goto, CreditTypeOK
    <3>2. ASSUME Return(r, "ok") \/ Return(r, "duplicate") \/ Return(r, "error")
          PROVE  /\ pc'[r] \in {"compensate", "done"}
                 /\ pc'[r] = "compensate" => answer'[r] \in {"error", "duplicate"}
      BY Zenon, <3>1, <3>2
    <3>3. CASE Compensate(r) \/ CompensateFails(r)
      <4>1. answer' = answer /\ pc[r] = "compensate" /\ Goto(r, "done")
        BY Zenon, <3>3 DEF Compensate, CompensateFails
      <4>2. pc'[r] = "done" BY Zenon, <4>1 DEF Goto, CreditTypeOK
      <4>3. QED BY Zenon, <2>3, <4>1, <4>2 DEF Told
    <3>4. CASE ~(Compensate(r) \/ CompensateFails(r))
      <4>1. pc[r] \notin {"compensate", "done"} /\ compensated' = compensated
        BY Zenon, <2>1, <3>4 DEF HandleStep, Dispatch, Exists, FindByCustomerID, Credit, SaveRejected,
             Save, Publish, Mark, StepFails
      <4>2. r \notin compensated' BY Zenon, <4>1 DEF Told
      <4>3. CASE Return(r, "ok") \/ Return(r, "duplicate") \/ Return(r, "error")
        BY Zenon, <2>3, <3>2, <4>2, <4>3
      <4>4. CASE ~(Return(r, "ok") \/ Return(r, "duplicate") \/ Return(r, "error"))
        <5>1. answer' = answer /\ \E step \in Steps \ {"compensate"} : Goto(r, step)
          BY Zenon, <2>1, <3>4, <4>4 DEF HandleStep, Dispatch, Exists, FindByCustomerID, Credit,
               SaveRejected, Save, Publish, Mark, StepFails, Steps
        <5>2. pc'[r] # "compensate" BY Zenon, <5>1 DEF Goto, CreditTypeOK
        <5>3. QED BY Zenon, <2>3, <4>1, <4>2, <5>1, <5>2 DEF Told
      <4>5. QED BY Zenon, <4>3, <4>4
    <3>5. QED BY Zenon, <3>3, <3>4
  <2>4. QED BY Zenon, <2>2, <2>3
<1>2. CASE Crash
  <2>1. /\ UNCHANGED <<answer, compensated>>
        /\ pc'[s] # "compensate" /\ (pc'[s] # "done" => pc'[s] = pc[s])
    BY Zenon, <1>2 DEF Crash, Running
  <2>2. QED BY Zenon, <2>1 DEF Told
<1>3. CASE UNCHANGED creditVars BY Zenon, <1>3 DEF creditVars, Told
<1>4. QED BY Zenon, <1>1, <1>2, <1>3 DEF CreditNext

\* A Save is a posting: of a call that runs alone, one that adds to the balance; of
\* others, one that never makes it more than was earned.
LEMMA SavePosts ==
  ASSUME BInv, Told, NEW r \in Calls, Save(r)
  PROVE  L!Post(r)
<1> DEFINE c == CustomerOf[r]
<1>0. CreditTypeOK /\ Progress /\ Worth /\ Serial /\ BalanceIsSum /\ Undisturbed
  BY Zenon DEF BInv, IInv
<1>1. /\ pc[r] = "save" /\ agg[r] \in Aggregates /\ account'[c] = agg[r]
      /\ earned'[c] = earned[c] + Points(r) /\ Points(r) \in Int /\ Points(r) > 0
      /\ \A d \in Customers \ {c} : account'[d] = account[d]
  BY Zenon, <1>0, SaveEffect
<1>2. c \in Customers /\ earned[c] \in Int
  BY Zenon, <1>0, CallAssumption DEF CreditTypeOK
<1>3. r \notin saved /\ answer[r] = "none"
  BY Zenon, <1>0, <1>1 DEF Progress, Told
<1>4. [q \in Calls |-> Points(q)][r] = Points(r)
  BY Zenon
<1>5. Balance'[c] = agg[r].balance
  BY Zenon, <1>1, <1>2, CallAssumption DEF Balance
<1>6. Balance' = [Balance EXCEPT ![c] = Balance'[c]]
  <2>1. \A d \in Customers \ {c} : Balance'[d] = Balance[d]
    BY Zenon, <1>1 DEF Balance
  <2>2. Balance' = [d \in Customers |-> Balance'[d]] /\ Balance = [d \in Customers |-> Balance[d]]
    BY Zenon DEF Balance
  <2>3. QED BY Zenon, <2>1, <2>2
<1>7. ASSUME ~overlap PROVE Balance'[c] = Balance[c] + Points(r)
  <2>1. agg[r].balance = earned[c] + Points(r)
    BY Zenon, <1>0, <1>1, <1>7 DEF Serial
  <2>2. Balance[c] = earned[c]
    BY Zenon, <1>0, <1>2, <1>7 DEF Balance, Serial, BalanceIsSum
  <2>3. QED BY Zenon, <1>5, <2>1, <2>2
<1>8. Balance'[c] \in Int /\ Balance'[c] <= earned'[c]
  <2>1. agg[r].balance \in Int BY Zenon, <1>1 DEF Aggregates
  <2>2. QED BY Zenon, <1>0, <1>1, <1>5, <2>1 DEF Worth
<1>9. ASSUME ~overlap, ~faults, NEW s \in saved PROVE ~SameEvent(r, s)
  <2>1. s \in Calls /\ pc[s] \in {"publish", "mark"} \cup {"compensate", "done"}
    BY Zenon, <1>0 DEF CreditTypeOK, Progress
  <2>2. EventOf[r] # None => EventOf[r] \notin keys
    BY Zenon, <1>0, <1>1, <1>9 DEF Undisturbed
  <2>3. pc[s] \notin {"publish", "mark"}
    BY Zenon, <1>0, <1>1, <1>9, <2>1 DEF Serial, Running
  <2>4. QED BY Zenon, <1>0, <1>9, <2>1, <2>2, <2>3 DEF Undisturbed, SameEvent
<1>10. /\ saved' = saved \cup {r} /\ earned' = [earned EXCEPT ![c] = @ + Points(r)]
       /\ UNCHANGED <<answer, compensated, overlap, faults>>
  BY Zenon DEF Save
<1>11. Undone' = Undone BY Zenon, <1>10 DEF Undone
<1>12. QED
  BY Zenon, <1>1, <1>3, <1>4, <1>6, <1>7, <1>8, <1>9, <1>10, <1>11 DEF L!Post, L!SameCause, SameEvent

\* The end of Handle is an answer of the ledger, when it keeps what its answer promises.
LEMMA ReturnAnswers ==
  ASSUME CreditTypeOK, Told, NEW r \in Calls, NEW result \in {"ok", "duplicate", "error"},
         Return(r, result), pc[r] \notin {"compensate", "done"},
         UNCHANGED <<account, earned, saved, compensated, overlap>>,
         faults' = faults \/ (result = "error" /\ faults' = TRUE),
         result = "ok" => r \in saved /\ \A s \in Calls : SameEvent(r, s) => answer[s] # "ok",
         result = "duplicate" => \E s \in saved : s # r /\ SameEvent(r, s),
         result = "error" /\ ~overlap /\ ~faults' => r \notin saved
  PROVE  L!LNext
<1>1. Balance' = Balance
  BY Zenon DEF Balance
<1>2. answer[r] = "none" /\ answer' = [answer EXCEPT ![r] = result]
  BY Zenon DEF Told, Return
<1>3. (result = "error" \/ (~faults') = (~faults)) /\ (~faults' => ~faults)
  BY DEF CreditTypeOK
<1>4. Undone' = Undone
  <2>1. r \notin compensated /\ \A s \in compensated : s # r => answer'[s] = answer[s]
    BY Zenon, <1>2, CallAssumption DEF Told, CreditTypeOK
  <2>2. QED BY Zenon, <2>1 DEF Undone
<1>5. L!Answer(r, result)
  BY Zenon, <1>1, <1>2, <1>3, <1>4 DEF L!Answer, L!SameCause, SameEvent
<1>6. QED BY Zenon, <1>5 DEF L!LNext

\* Every step of a call is a step of the ledger, or none.
LEMMA CallImplements ==
  ASSUME BInv, Told, NEW r \in Calls, HandleStep(r)
  PROVE  [L!LNext]_(L!lvars)
<1>0. CreditTypeOK /\ Progress /\ Keyed /\ Undisturbed /\ DuplicateIsJustified
  BY Zenon DEF BInv, IInv
<1>1. ASSUME UNCHANGED <<account, earned, saved, answer, compensated, overlap, faults>>
      PROVE  UNCHANGED L!lvars
  BY Zenon, <1>1 DEF L!lvars, Balance, Undone
<1>2. CASE Dispatch(r)
  <2>1. UNCHANGED <<account, earned, saved, answer, compensated, faults>>
    BY Zenon, <1>2 DEF Dispatch
  <2>2. CASE overlap' = overlap BY Zenon, <1>1, <2>1, <2>2
  <2>3. CASE overlap' # overlap
    <3>1. overlap' = TRUE BY Zenon, <1>0, <1>2, <2>3 DEF Dispatch, CreditTypeOK
    <3>2. L!Crowd BY Zenon, <2>1, <3>1 DEF L!Crowd, Balance, Undone
    <3>3. QED BY Zenon, <3>2 DEF L!LNext
  <2>4. QED BY Zenon, <2>2, <2>3
<1>3. CASE Exists(r)
  <2>1. CASE EventOf[r] \in keys
    <3>1. r \notin saved /\ EventOf[r] # None BY Zenon, <1>0, <1>3 DEF Exists, Progress
    <3>2. \E s \in saved : s # r /\ SameEvent(r, s)
      BY Zenon, <1>0, <2>1, <3>1 DEF Keyed, SameEvent
    <3>3. /\ pc[r] = "exists" /\ Return(r, "duplicate")
          /\ UNCHANGED <<account, earned, saved, compensated, overlap, faults>>
      BY Zenon, <1>3, <2>1 DEF Exists
    <3>4. QED BY Zenon, <1>0, <3>2, <3>3, ReturnAnswers
  <2>2. CASE EventOf[r] \notin keys BY Zenon, <1>1, <1>3, <2>2 DEF Exists
  <2>3. QED BY Zenon, <2>1, <2>2
<1>4. CASE FindByCustomerID(r) BY Zenon, <1>1, <1>4 DEF FindByCustomerID
<1>5. CASE Credit(r)
  <2>1. CASE MayCredit(r) BY Zenon, <1>1, <1>5, <2>1 DEF Credit
  <2>2. CASE ~MayCredit(r)
    <3>1. /\ pc[r] = "credit" /\ Return(r, "error")
          /\ UNCHANGED <<account, earned, saved, compensated, overlap, faults>>
      BY Zenon, <1>5, <2>2 DEF Credit
    <3>2. r \notin saved BY Zenon, <1>0, <3>1 DEF Progress
    <3>3. QED BY Zenon, <1>0, <3>1, <3>2, ReturnAnswers
  <2>3. QED BY Zenon, <2>1, <2>2
<1>6. CASE SaveRejected(r)
  <2>1. /\ pc[r] = "save" /\ Return(r, "error")
        /\ UNCHANGED <<account, earned, saved, compensated, overlap, faults>>
    BY Zenon, <1>6 DEF SaveRejected
  <2>2. r \notin saved BY Zenon, <1>0, <2>1 DEF Progress
  <2>3. QED BY Zenon, <1>0, <2>1, <2>2, ReturnAnswers
<1>7. CASE Save(r) BY Zenon, <1>7, SavePosts DEF L!LNext
<1>8. CASE Publish(r)
  <2>1. CASE EventOf[r] = None
    <3>1. /\ pc[r] = "publish" /\ Return(r, "ok")
          /\ UNCHANGED <<account, earned, saved, compensated, overlap, faults>>
      BY Zenon, <1>8, <2>1 DEF Publish
    <3>2. r \in saved /\ \A s \in Calls : ~SameEvent(r, s)
      BY Zenon, <1>0, <2>1, <3>1 DEF Progress, SameEvent
    <3>3. QED BY Zenon, <1>0, <3>1, <3>2, ReturnAnswers
  <2>2. CASE EventOf[r] # None BY Zenon, <1>1, <1>8, <2>2 DEF Publish
  <2>3. QED BY Zenon, <2>1, <2>2
<1>9. CASE Mark(r)
  <2>0. /\ pc[r] = "mark" /\ UNCHANGED <<account, earned, saved, compensated, overlap, faults>>
        /\ r \in saved /\ EventOf[r] # None
    BY Zenon, <1>0, <1>9 DEF Mark, Progress
  <2>1. CASE EventOf[r] \in keys
    <3>1. Return(r, "error") BY Zenon, <1>9, <2>1 DEF Mark
    <3>2. overlap \/ faults BY Zenon, <1>0, <2>0, <2>1 DEF Undisturbed
    <3>3. QED BY Zenon, <1>0, <2>0, <3>1, <3>2, ReturnAnswers
  <2>2. CASE EventOf[r] \notin keys
    <3>1. Return(r, "ok") BY Zenon, <1>9, <2>2 DEF Mark
    <3>2. \A s \in Calls : SameEvent(r, s) => answer[s] # "ok"
      BY Zenon, <1>0, <2>2 DEF Keyed, SameEvent
    <3>3. QED BY Zenon, <1>0, <2>0, <3>1, <3>2, ReturnAnswers
  <2>3. QED BY Zenon, <2>1, <2>2
<1>10. CASE Compensate(r)
  <2>1. /\ answer[r] \in {"error", "duplicate"} /\ (~overlap /\ ~faults => answer[r] = "duplicate")
        /\ compensated' = compensated \cup {r}
        /\ UNCHANGED <<account, earned, saved, answer, overlap, faults>>
    BY Zenon, <1>0, <1>10 DEF Compensate, Told, Undisturbed
  <2>2. CASE answer[r] = "duplicate"
    <3>1. Undone' = Undone BY <2>1, <2>2 DEF Undone
    <3>2. QED BY Zenon, <2>1, <3>1 DEF L!lvars, Balance
  <2>3. CASE answer[r] = "error"
    <3>1. Undone' = Undone \cup {r} BY Zenon, <2>1, <2>3 DEF Undone
    <3>2. ~(~overlap /\ ~faults) BY <2>1, <2>3
    <3>3. L!Undo(r) BY Zenon, <2>1, <2>3, <3>1, <3>2 DEF L!Undo, Balance
    <3>4. QED BY Zenon, <3>3 DEF L!LNext
  <2>4. QED BY Zenon, <2>1, <2>2, <2>3
<1>11. CASE CompensateFails(r)
  <2>1. L!Disturb BY Zenon, <1>11 DEF CompensateFails, L!Disturb, Balance, Undone
  <2>2. QED BY Zenon, <2>1 DEF L!LNext
<1>12. CASE StepFails(r)
  <2>1. /\ pc[r] \notin {"compensate", "done"} /\ Return(r, "error") /\ faults' = TRUE
        /\ UNCHANGED <<account, earned, saved, compensated, overlap>>
    BY Zenon, <1>12 DEF StepFails
  <2>2. QED BY Zenon, <1>0, <2>1, ReturnAnswers
<1>13. QED
  BY Zenon, <1>2, <1>3, <1>4, <1>5, <1>6, <1>7, <1>8, <1>9, <1>10, <1>11, <1>12 DEF HandleStep

\* Crediting implements the ledger: for any calls, customers, events and amounts, and
\* through any interleaving of calls, failures and crashes, what its six steps do to
\* the tables and tell the callers is a sequence of postings and truthful answers.
THEOREM LedgerKept == CreditSpec => ImplementsLedger
<1>1. CreditInit => L!LInit
  <2>1. ASSUME CreditInit PROVE Balance = earned
    BY Zenon, <2>1 DEF CreditInit, Balance
  <2>2. CreditInit => Undone = {} BY Zenon DEF CreditInit, Undone
  <2>3. QED BY Zenon, <2>1, <2>2 DEF CreditInit, L!LInit
<1>2. CreditInit => Told
  BY Zenon DEF CreditInit, Told
<1>3. BInv /\ Told /\ [CreditNext]_creditVars => Told'
  BY Zenon, ToldStep DEF BInv, IInv
<1>4. BInv /\ Told /\ [CreditNext]_creditVars => [L!LNext]_(L!lvars)
  <2> SUFFICES ASSUME BInv, Told, [CreditNext]_creditVars PROVE [L!LNext]_(L!lvars)
    OBVIOUS
  <2>1. CASE \E r \in Calls : HandleStep(r) BY Zenon, <2>1, CallImplements
  <2>2. CASE Crash
    <3>1. L!Disturb BY Zenon, <2>2 DEF Crash, L!Disturb, Balance, Undone
    <3>2. QED BY Zenon, <3>1 DEF L!LNext
  <2>3. CASE UNCHANGED creditVars BY Zenon, <2>3 DEF creditVars, L!lvars, Balance, Undone
  <2>4. QED BY Zenon, <2>1, <2>2, <2>3 DEF CreditNext
<1>5. QED BY <1>1, <1>2, <1>3, <1>4, BalanceInductive, PTL DEF CreditSpec, ImplementsLedger, L!LSpec

\* A posting keeps the ledger's promises.
LEMMA PostKeeps ==
  ASSUME L!LType, L!Promise, NEW r \in Calls, L!Post(r)
  PROVE  L!LType' /\ L!Promise'
<1> DEFINE c == CustomerOf[r]
<1>0. /\ c \in Customers /\ Points(r) \in Int /\ Points(r) > 0
      /\ [q \in Calls |-> Points(q)][r] = Points(r)
  BY Zenon, CallAssumption, PointsType DEF L!Post
<1>1. /\ saved' = saved \cup {r} /\ answer' = answer /\ Undone' = Undone
      /\ (~overlap') = (~overlap) /\ (~faults') = (~faults)
      /\ r \notin saved /\ answer[r] = "none"
      /\ (~overlap /\ ~faults => \A s \in saved : ~L!SameCause(r, s))
  BY Zenon DEF L!Post, L!LType
<1>2. /\ earned' = [earned EXCEPT ![c] = earned[c] + Points(r)]
      /\ Balance' = [Balance EXCEPT ![c] = Balance'[c]]
      /\ ~overlap => Balance'[c] = Balance[c] + Points(r)
      /\ overlap => Balance'[c] \in Int /\ Balance'[c] <= earned'[c]
  BY Zenon, <1>0 DEF L!Post
<1>3. earned \in [Customers -> Int] /\ Balance \in [Customers -> Int]
  BY Zenon DEF L!LType
<1>4. Balance[c] \in Int /\ earned[c] \in Int /\ Balance[c] <= earned[c]
  BY Zenon, <1>0, <1>3 DEF L!Promise
<1>5. earned'[c] = earned[c] + Points(r)
  BY Zenon, <1>0, <1>2, <1>3
<1>6. Balance'[c] \in Int /\ earned'[c] \in Int /\ Balance'[c] <= earned'[c]
  BY <1>0, <1>2, <1>4, <1>5
<1>7. earned' \in [Customers -> Int] /\ Balance' \in [Customers -> Int]
  BY Zenon, <1>2, <1>3, <1>5, <1>6
<1>8. \A d \in Customers : Balance'[d] <= earned'[d]
  BY Zenon, <1>2, <1>3, <1>6 DEF L!Promise
<1>9. ~overlap' => Balance' = earned'
  <2>1. ASSUME ~overlap' PROVE Balance' = earned'
    <3>1. ~overlap /\ Balance = earned BY Zenon, <1>1, <2>1 DEF L!Promise
    <3>2. Balance'[c] = earned[c] + Points(r) BY Zenon, <1>2, <3>1
    <3>3. QED BY Zenon, <1>2, <3>1, <3>2
  <2>2. QED BY <2>1
<1>10. L!LType'
  BY Zenon, <1>1, <1>7 DEF L!LType
<1>11. ASSUME ~overlap, ~faults
       PROVE  /\ \A s, t \in saved' : L!SameCause(s, t) => s = t
              /\ Undone' = {}
  <2>2. \A s \in saved : ~L!SameCause(r, s) /\ ~L!SameCause(s, r)
    BY Zenon, <1>1, <1>11 DEF L!SameCause
  <2>3. (\A s, t \in saved : L!SameCause(s, t) => s = t) /\ Undone = {}
    BY Zenon, <1>11 DEF L!Promise
  <2>4. Undone' = {} BY Zenon, <1>1, <2>3
  <2>5. ASSUME NEW s \in saved', NEW t \in saved', L!SameCause(s, t) PROVE s = t
    <3>1. (s = r \/ s \in saved) /\ (t = r \/ t \in saved) BY Zenon, <1>1
    <3>2. QED BY Zenon, <2>2, <2>3, <2>5, <3>1
  <2>6. QED BY Zenon, <2>4, <2>5
<1>12. QED
  BY Zenon, <1>1, <1>8, <1>9, <1>10, <1>11 DEF L!Promise, L!SameCause

\* An answer keeps them.
LEMMA AnswerKeeps ==
  ASSUME L!LType, L!Promise, NEW r \in Calls,
         NEW result \in {"ok", "duplicate", "error"}, L!Answer(r, result)
  PROVE  L!LType' /\ L!Promise'
<1>1. /\ answer[r] = "none" /\ answer' = [answer EXCEPT ![r] = result]
      /\ Balance' = Balance /\ UNCHANGED <<earned, saved>> /\ Undone' = Undone
      /\ (~overlap' <=> ~overlap) /\ (~faults' => ~faults)
      /\ result = "ok" => \A s \in Calls : L!SameCause(r, s) => answer[s] # "ok"
  BY Zenon DEF L!Answer
<1>2. L!LType'
  BY Zenon, <1>1 DEF L!LType
<1>3. \A s, t \in Calls : L!SameCause(s, t) /\ answer'[s] = "ok" /\ answer'[t] = "ok" => s = t
  BY Zenon, <1>1 DEF L!Promise, L!LType, L!SameCause
<1>4. QED BY Zenon, <1>1, <1>2, <1>3 DEF L!Promise, L!SameCause

\* The rest of the ledger's steps, and none, keep them.
LEMMA OthersKeep ==
  ASSUME L!LType, L!Promise,
         (\E r \in Calls : L!Undo(r)) \/ L!Crowd \/ L!Disturb \/ UNCHANGED L!lvars
  PROVE  L!LType' /\ L!Promise'
<1>1. CASE \E r \in Calls : L!Undo(r)
  <2>1. PICK r \in Calls : L!Undo(r) BY <1>1
  <2>2. /\ Balance' = Balance /\ UNCHANGED <<earned, saved, answer>>
        /\ (~overlap') = (~overlap) /\ (~faults') = (~faults)
        /\ Undone' = Undone \cup {r} /\ ~(~overlap /\ ~faults)
    BY Zenon, <2>1 DEF L!Undo
  <2>3. L!LType' BY Zenon, <2>2 DEF L!LType
  <2>4. L!Promise' BY Zenon, <2>2 DEF L!Promise, L!SameCause
  <2>5. QED BY Zenon, <2>3, <2>4
<1>2. CASE L!Crowd \/ L!Disturb \/ UNCHANGED L!lvars
  <2>1. /\ Balance' = Balance /\ UNCHANGED <<earned, saved, answer>> /\ Undone' = Undone
        /\ (~overlap' => ~overlap) /\ (~faults' => ~faults)
    BY Zenon, <1>2 DEF L!Crowd, L!Disturb, L!lvars
  <2>2. (~overlap') \in BOOLEAN /\ (~faults') \in BOOLEAN OBVIOUS
  <2>3. L!LType' BY Zenon, <2>1, <2>2 DEF L!LType
  <2>4. L!Promise' BY Zenon, <2>1 DEF L!Promise, L!SameCause
  <2>5. QED BY Zenon, <2>3, <2>4
<1>3. QED BY Zenon, <1>1, <1>2

\* The abstract ledger is worth implementing: whatever its postings, answers and
\* failures, balances are what was earned, an event succeeds once and, undisturbed, is
\* posted once and no credit is declared failed.  The crediting properties follow from it alone.
THEOREM LedgerPromises == ImplementsLedger => []L!Promise
<1>1. L!LInit => L!LType /\ L!Promise
  <2> SUFFICES ASSUME L!LInit PROVE L!LType /\ L!Promise
    OBVIOUS
  <2>1. /\ earned = [c \in Customers |-> 0] /\ Balance = earned
        /\ saved = {} /\ answer = [r \in Calls |-> "none"] /\ Undone = {}
        /\ (~overlap) = TRUE /\ (~faults) = TRUE
    BY Zenon DEF L!LInit
  <2>2. 0 \in Int /\ 0 <= 0 OBVIOUS
  <2>3. L!LType BY Zenon, <2>1, <2>2 DEF L!LType
  <2>4. \A c \in Customers : Balance[c] <= earned[c] BY Zenon, <2>1, <2>2
  <2>5. L!Promise BY Zenon, <2>1, <2>4 DEF L!Promise
  <2>6. QED BY Zenon, <2>3, <2>5
<1>2. L!LType /\ L!Promise /\ [L!LNext]_(L!lvars) => (L!LType /\ L!Promise)'
  BY Zenon, PostKeeps, AnswerKeeps, OthersKeep DEF L!LNext
<1>3. QED BY <1>1, <1>2, PTL DEF ImplementsLedger, L!LSpec

-------------------------------------------------------------------------------
(* Pages.                                                                     *)

\* The least element of a set of numbers, which stands for an induction.
LEMMA Least ==
  ASSUME NEW T \in SUBSET Nat, T # {}
  PROVE  \E x \in T : \A y \in T : x <= y
<1>1. IsWellFoundedOn(OpToRel(<, Nat), Nat) BY NatLessThanWellFounded
<1>2. PICK x \in T : \A y \in T : ~(<<y, x>> \in OpToRel(<, Nat)) BY Zenon, <1>1, WFMin
<1>3. ASSUME NEW y \in T PROVE x <= y
  <2>1. x \in Nat /\ y \in Nat OBVIOUS
  <2>2. ASSUME y < x PROVE <<y, x>> \in OpToRel(<, Nat)
    BY <2>1, <2>2 DEF OpToRel
  <2>3. ~(y < x) BY Zenon, <1>2, <2>2
  <2>4. QED BY <2>1, <2>3
<1>4. QED BY Zenon, <1>3

\* A listing of 1 .. n in ascending order is the identity.
LEMMA Ascending ==
  ASSUME NEW n \in Nat, NEW q \in Bijection(1 .. n, 1 .. n),
         \A i, j \in 1 .. n : q[i] < q[j] => i < j
  PROVE  \A i \in 1 .. n : q[i] = i
<1>1. /\ q \in [1 .. n -> 1 .. n] /\ \A i, j \in 1 .. n : q[i] = q[j] => i = j
      /\ \A k \in 1 .. n : \E i \in 1 .. n : q[i] = k
  BY Zenon DEF Bijection, Injection, Surjection, IsInjective
<1>2. SUFFICES ASSUME {i \in 1 .. n : q[i] # i} # {} PROVE FALSE
  BY Zenon
<1>3. PICK i \in 1 .. n : q[i] # i /\ \A j \in 1 .. n : q[j] # j => i <= j
  <2>1. {j \in 1 .. n : q[j] # j} \in SUBSET Nat OBVIOUS
  <2>2. PICK i \in {j \in 1 .. n : q[j] # j} : \A y \in {j \in 1 .. n : q[j] # j} : i <= y
    BY Zenon, <1>2, <2>1, Least
  <2>3. QED BY Zenon, <2>2
<1>4. q[i] > i
  <2>1. PICK v \in 1 .. n : v = q[i] BY Zenon, <1>1
  <2>2. ASSUME v < i PROVE FALSE
    <3>1. q[v] = v BY <1>3, <2>2
    <3>2. v = i BY Zenon, <1>1, <2>1, <3>1
    <3>3. QED BY <2>2, <3>2
  <2>3. QED BY <1>3, <2>1, <2>2
<1>5. PICK k \in 1 .. n : q[k] = i BY Zenon, <1>1
<1>6. k < i BY <1>1, <1>4, <1>5
<1>7. QED BY <1>3, <1>5, <1>6

\* In descending order it counts down.
LEMMA Descending ==
  ASSUME NEW n \in Nat, NEW q \in Bijection(1 .. n, 1 .. n),
         \A i, j \in 1 .. n : q[i] > q[j] => i < j
  PROVE  \A i \in 1 .. n : q[i] = n + 1 - i
<1>1. /\ q \in [1 .. n -> 1 .. n] /\ \A i, j \in 1 .. n : q[i] = q[j] => i = j
      /\ \A k \in 1 .. n : \E i \in 1 .. n : q[i] = k
  BY Zenon DEF Bijection, Injection, Surjection, IsInjective
<1>2. SUFFICES ASSUME {i \in 1 .. n : q[i] # n + 1 - i} # {} PROVE FALSE
  BY Zenon
<1>3. PICK i \in 1 .. n : q[i] # n + 1 - i /\ \A j \in 1 .. n : q[j] # n + 1 - j => i <= j
  <2>1. {j \in 1 .. n : q[j] # n + 1 - j} \in SUBSET Nat OBVIOUS
  <2>2. PICK i \in {j \in 1 .. n : q[j] # n + 1 - j} :
          \A y \in {j \in 1 .. n : q[j] # n + 1 - j} : i <= y
    BY Zenon, <1>2, <2>1, Least
  <2>3. QED BY Zenon, <2>2
<1>4. q[i] < n + 1 - i
  <2>1. PICK v \in 1 .. n : v = q[i] BY Zenon, <1>1
  <2>2. ASSUME v > n + 1 - i PROVE FALSE
    <3>1. PICK j \in 1 .. n : j = n + 1 - v BY <2>1
    <3>2. j < i /\ v = n + 1 - j BY <2>2, <3>1
    <3>3. q[j] = n + 1 - j BY <1>3, <3>2
    <3>4. j = i BY Zenon, <1>1, <2>1, <3>2, <3>3
    <3>5. QED BY <3>2, <3>4
  <2>3. QED BY <1>3, <2>1, <2>2
<1>5. PICK k \in 1 .. n : q[k] = n + 1 - i
  <2>1. n + 1 - i \in 1 .. n OBVIOUS
  <2>2. QED BY Zenon, <1>1, <2>1
<1>6. k < i BY <1>1, <1>4, <1>5
<1>7. QED BY <1>3, <1>5, <1>6

\* The rows seen so far are the first ones in the order asked for, as far as that
\* order is fixed: in descending order an insert moves every row.
SeenInOrder ==
  IF OrderBy.desc THEN rows = first => \A i \in DOMAIN rowsSeen : rowsSeen[i] = rows + 1 - i
                  ELSE \A i \in DOMAIN rowsSeen : rowsSeen[i] = i

\* All pages before the current one were full, and the last one reaches beyond the
\* rows there were when the walk began.
PageInv ==
  /\ rows \in Nat /\ total \in Nat /\ first \in Nat /\ page \in Nat \ {0} /\ size \in Int
  /\ helper \in Helpers /\ rowsSeen \in Seq(Nat)
  /\ walk \in {"idle", "counted", "between", "done"}
  /\ walk = "idle" => page = 1 /\ rowsSeen = <<>>
  /\ walk # "idle" => first <= rows
  /\ walk = "counted" => first <= total /\ total <= rows
  /\ walk # "done" => Len(rowsSeen) = Offset /\ Offset <= rows
  /\ walk = "done" => first <= Len(rowsSeen) /\ Len(rowsSeen) <= rows
  /\ sorter = {"id"} => SeenInOrder

LEMMA SizePositive == size \in Int => PageSize \in Nat \ {0}
  BY PagingAssumption DEF PageSize

\* Before the last page every page is full; the last one ends at or after the last row.
LEMMA PageCounts ==
  ASSUME NEW n \in Nat, size \in Int, page \in Nat \ {0}
  PROVE  /\ page < PageCount(n) => Offset + PageSize <= n
         /\ ~(page < PageCount(n)) => n <= Offset + PageSize
         /\ Offset \in Nat
<1>1. PageSize \in Nat \ {0} BY SizePositive
<1>2. PICK s \in Nat \ {0} : s = PageSize BY Zenon, <1>1
<1>3. PICK c \in Int : c = (n + s - 1) \div s BY <1>2
<1>4. c * s <= n + s - 1 /\ n + s - 1 < c * s + s
  BY <1>2, <1>3
<1>5. PICK p \in Nat : p = page - 1 BY DEF PageInv
<1>6. Offset = p * s BY <1>2, <1>5 DEF Offset
<1>7. ASSUME page < c PROVE p * s + s <= n
  <2>1. PICK d \in Nat : c = p + 2 + d BY <1>5, <1>7
  <2>2. c * s = p * s + 2 * s + d * s /\ d * s >= 0 BY <2>1, <1>2, <1>5
  <2>3. QED BY <2>2, <1>4, <1>2, <1>5
<1>8. ASSUME ~(page < c) PROVE n <= p * s + s
  <2>1. PICK d \in Nat : p + 1 = c + d BY <1>5, <1>8
  <2>2. p * s + s = c * s + d * s /\ d * s >= 0 BY <2>1, <1>2, <1>3, <1>5
  <2>3. QED BY <2>2, <1>4, <1>2, <1>3, <1>5
<1>9. p * s \in Nat BY <1>2, <1>5
<1>10. QED BY <1>2, <1>3, <1>6, <1>7, <1>8, <1>9 DEF PageCount

\* ORDER BY does not change during a walk.
LEMMA OrderKept ==
  ASSUME UNCHANGED <<sorter, direction, helper>>
  PROVE  OrderBy' = OrderBy
  BY Zenon DEF OrderBy, WithSort, WithSortV2, WithSortAllColumn

LEMMA OrderListed ==
  ASSUME helper \in Helpers
  PROVE  OrderBy.orders = Listings(sorter)
  BY DEF OrderBy, WithSort, WithSortV2, WithSortAllColumn, Helpers

\* The table sorted by its id has one order.
LEMMA SortedById ==
  ASSUME rows \in Nat, helper \in Helpers, sorter = {"id"}, NEW q \in Results
  PROVE  /\ q \in [1 .. rows -> 1 .. rows]
         /\ \A i \in 1 .. rows : q[i] = IF OrderBy.desc THEN rows + 1 - i ELSE i
<1>1. q \in Bijection(1 .. rows, 1 .. rows)
  BY Zenon DEF Results
<1>2. q \in [1 .. rows -> 1 .. rows] BY Zenon, <1>1 DEF Bijection, Injection
<1>3. PICK cols \in Listings({"id"}) :
        \A i, j \in DOMAIN q : Precedes(cols, q[i], q[j]) => i < j
  BY Zenon, OrderListed DEF Results
<1>4. 1 \in DOMAIN cols /\ cols[1] = "id"
  <2>1. PICK n \in 0 .. 2 : cols \in Bijection(1 .. n, {"id"}) BY Zenon, <1>3 DEF Listings
  <2>2. cols \in [1 .. n -> {"id"}] /\ \E i \in 1 .. n : cols[i] = "id"
    BY Zenon, <2>1 DEF Bijection, Injection, Surjection
  <2>3. 1 \in 1 .. n BY <2>2
  <2>4. QED BY Zenon, <2>2, <2>3
<1>5. ASSUME NEW r, NEW s, Below("id", r, s) PROVE Precedes(cols, r, s)
  <2>1. \A j \in 1 .. 1 - 1 : FALSE OBVIOUS
  <2>2. QED BY Zenon, <1>4, <1>5, <2>1 DEF Precedes
<1>6. \A i, j \in 1 .. rows : Below("id", q[i], q[j]) => i < j
  BY Zenon, <1>2, <1>3, <1>5
<1>7. CASE OrderBy.desc
  <2>1. \A i, j \in 1 .. rows : q[i] > q[j] => i < j BY Zenon, <1>6, <1>7 DEF Below
  <2>2. QED BY Zenon, <1>1, <1>2, <1>7, <2>1, Descending
<1>8. CASE ~OrderBy.desc
  <2>1. \A i, j \in 1 .. rows : q[i] < q[j] => i < j BY Zenon, <1>6, <1>8 DEF Below
  <2>2. QED BY Zenon, <1>1, <1>2, <1>8, <2>1, Ascending
<1>9. QED BY Zenon, <1>7, <1>8

\* What a page adds: the rows of q from where the pages before it ended.
IsJoined(t, s, q, m) ==
  /\ t \in Seq(Nat) /\ Len(t) = m
  /\ \A i \in 1 .. Len(s) : t[i] = s[i]
  /\ \A i \in Len(s) + 1 .. m : t[i] = q[i]

IsConcat(t, s, u) ==
  /\ t \in Seq(Nat) /\ Len(t) = Len(s) + Len(u)
  /\ \A i \in 1 .. Len(s) : t[i] = s[i]
  /\ \A i \in Len(s) + 1 .. Len(s) + Len(u) : t[i] = u[i - Len(s)]

LEMMA Concat ==
  ASSUME NEW s \in Seq(Nat), NEW u \in Seq(Nat)
  PROVE  IsConcat(s \o u, s, u)
<1>1. s \o u \in Seq(Nat) /\ Len(s \o u) = Len(s) + Len(u) OBVIOUS
<1>2. \A i \in 1 .. Len(s) : (s \o u)[i] = s[i] OBVIOUS
<1>3. \A i \in Len(s) + 1 .. Len(s) + Len(u) : (s \o u)[i] = u[i - Len(s)] OBVIOUS
<1>4. QED BY Zenon, <1>1, <1>2, <1>3 DEF IsConcat

LEMMA Joined ==
  ASSUME NEW n \in Nat, NEW q \in [1 .. n -> 1 .. n], NEW s \in Seq(Nat), NEW m \in Nat,
         Len(s) <= m, m <= n
  PROVE  IsJoined(s \o [i \in 1 .. m - Len(s) |-> q[Len(s) + i]], s, q, m)
<1>1. PICK l \in Nat : l = Len(s) OBVIOUS
<1>2. l <= m BY Zenon, <1>1
<1>3. PICK d \in Nat : d = m - l BY <1>2
<1>4. ASSUME NEW j \in 1 .. d PROVE l + j \in 1 .. n
  <2>1. l + j <= m BY <1>3
  <2>2. QED BY <2>1
<1>5. PICK u : u = [i \in 1 .. d |-> q[l + i]] BY Zenon
<1>6. u \in [1 .. d -> Nat]
  <2>1. \A j \in 1 .. d : q[l + j] \in 1 .. n BY Zenon, <1>4
  <2>2. \A x \in 1 .. n : x \in Nat OBVIOUS
  <2>3. QED BY Zenon, <1>5, <2>1, <2>2
<1>7. u \in Seq(Nat) /\ Len(u) = d BY <1>6
<1>8. PICK t : t = s \o u BY Zenon
<1>9. /\ t \in Seq(Nat) /\ Len(t) = l + d
      /\ \A i \in 1 .. l : t[i] = s[i]
      /\ \A i \in l + 1 .. l + d : t[i] = u[i - l]
  <2>1. IsConcat(t, s, u) BY Zenon, <1>7, <1>8, Concat
  <2>2. QED BY Zenon, <1>1, <1>7, <2>1 DEF IsConcat
<1>10. l + d = m BY <1>3
<1>11. ASSUME NEW i \in l + 1 .. m PROVE t[i] = q[i]
  <2>1. i - l \in 1 .. d /\ l + (i - l) = i BY <1>3
  <2>2. u[i - l] = q[l + (i - l)] BY Zenon, <1>5, <2>1
  <2>3. t[i] = u[i - l] BY Zenon, <1>9, <1>10
  <2>4. QED BY Zenon, <2>1, <2>2, <2>3
<1>12. IsJoined(t, s, q, m) BY Zenon, <1>1, <1>9, <1>10, <1>11 DEF IsJoined
<1>13. t = s \o [i \in 1 .. m - Len(s) |-> q[Len(s) + i]] BY Zenon, <1>1, <1>3, <1>5, <1>8
<1>14. QED BY Zenon, <1>12, <1>13

\* The last page of a walk and the others.
LEMMA PageStep ==
  ASSUME PageInv, NEW q \in Results, Page(q)
  PROVE  PageInv'
<1>1. /\ rows \in Nat /\ total \in Nat /\ first \in Nat /\ page \in Nat \ {0} /\ size \in Int
      /\ helper \in Helpers /\ rowsSeen \in Seq(Nat) /\ walk = "counted"
      /\ first <= total /\ total <= rows /\ Len(rowsSeen) = Offset /\ Offset <= rows
  BY Zenon DEF PageInv, Page
<1>2. PICK m \in Nat :
        /\ m = IF Offset + PageSize < rows THEN Offset + PageSize ELSE rows
        /\ Offset <= m /\ m <= rows
  BY <1>1, SizePositive, PageCounts
<1>3. /\ UNCHANGED <<rows, sorter, direction, helper, size, total, first>>
      /\ rowsSeen' = rowsSeen \o [i \in 1 .. m - Len(rowsSeen) |-> q[Len(rowsSeen) + i]]
  <2>1. m - Len(rowsSeen) = IF Offset + PageSize < rows THEN PageSize ELSE rows - Offset
    BY <1>1, <1>2, SizePositive
  <2>2. QED BY Zenon, <1>1, <2>1 DEF Page, Window
<1>4. q \in [1 .. rows -> 1 .. rows]
  BY Zenon DEF Results, Bijection, Injection
<1>5. /\ rowsSeen' \in Seq(Nat) /\ Len(rowsSeen') = m
      /\ \A i \in 1 .. Len(rowsSeen) : rowsSeen'[i] = rowsSeen[i]
      /\ \A i \in Len(rowsSeen) + 1 .. m : rowsSeen'[i] = q[i]
  <2>1. Len(rowsSeen) <= m BY <1>1, <1>2
  <2>2. IsJoined(rowsSeen', rowsSeen, q, m) BY Zenon, <1>1, <1>2, <1>3, <1>4, <2>1, Joined
  <2>3. QED BY Zenon, <2>2 DEF IsJoined
<1>6. ASSUME sorter' = {"id"} PROVE SeenInOrder'
  <2>1. OrderBy' = OrderBy BY Zenon, <1>3, OrderKept
  <2>2. sorter = {"id"} /\ SeenInOrder BY Zenon, <1>3, <1>6 DEF PageInv
  <2>3. \A i \in 1 .. rows : q[i] = IF OrderBy.desc THEN rows + 1 - i ELSE i
    BY Zenon, <1>1, <2>2, SortedById
  <2>4. DOMAIN rowsSeen' = 1 .. m /\ DOMAIN rowsSeen = 1 .. Len(rowsSeen) BY <1>1, <1>5
  <2>5. \A i \in 1 .. m : i \in 1 .. rows /\ (i \in 1 .. Len(rowsSeen) \/ i \in Len(rowsSeen) + 1 .. m)
    BY <1>1, <1>2
  <2>6. QED BY Zenon, <1>3, <1>5, <2>1, <2>2, <2>3, <2>4, <2>5 DEF SeenInOrder
<1>7. PageSize' = PageSize BY Zenon, <1>3 DEF PageSize
<1>8. CASE page < PageCount(total)
  <2>1. page' = page + 1 /\ walk' = "between" BY Zenon, <1>8 DEF Page
  <2>2. Offset + PageSize <= total BY Zenon, <1>1, <1>8, PageCounts
  <2>3. m = Offset + PageSize BY <1>1, <1>2, <2>2, SizePositive, PageCounts
  <2>4. Offset' = Offset + PageSize
    BY <1>1, <1>7, <2>1, SizePositive DEF Offset
  <2>5. QED BY <1>1, <1>2, <1>3, <1>5, <1>6, <2>1, <2>3, <2>4 DEF PageInv
<1>9. CASE ~(page < PageCount(total))
  <2>1. page' = page /\ walk' = "done" BY Zenon, <1>9 DEF Page
  <2>2. total <= Offset + PageSize BY Zenon, <1>1, <1>9, PageCounts
  <2>3. first <= m BY <1>1, <1>2, <2>2, SizePositive, PageCounts
  <2>4. QED BY <1>1, <1>2, <1>3, <1>5, <1>6, <2>1, <2>3 DEF PageInv
<1>10. QED BY Zenon, <1>8, <1>9

\* The invariant of a walk, through inserts at any moment.
THEOREM PageInductive == PageSpec => []PageInv
<1>1. PageInit => PageInv
  <2> SUFFICES ASSUME PageInit PROVE PageInv OBVIOUS
  <2>1. rows \in Nat /\ size \in Int BY PagingAssumption DEF PageInit
  <2>2. Offset = 0 BY <2>1, SizePositive DEF PageInit, Offset
  <2>3. SeenInOrder BY DEF PageInit, SeenInOrder
  <2>4. QED BY <2>1, <2>2, <2>3 DEF PageInit, PageInv
<1>2. PageInv /\ [PageNext]_pageVars => PageInv'
  <2> SUFFICES ASSUME PageInv, [PageNext]_pageVars PROVE PageInv' OBVIOUS
  <2>1. CASE Count
    <3>1. Offset' = Offset BY Zenon, <2>1 DEF Count, Offset, PageSize
    <3>2. OrderBy' = OrderBy BY Zenon, <2>1, OrderKept DEF Count
    <3>3. ASSUME sorter' = {"id"} PROVE SeenInOrder'
      <4>1. CASE walk = "idle" BY <2>1, <3>2, <4>1 DEF Count, PageInv, SeenInOrder
      <4>2. CASE walk # "idle" BY Zenon, <2>1, <3>2, <3>3, <4>2 DEF Count, PageInv, SeenInOrder
      <4>3. QED BY Zenon, <4>1, <4>2
    <3>4. QED BY <2>1, <3>1, <3>3 DEF Count, PageInv
  <2>2. CASE Insert
    <3>1. Offset' = Offset BY Zenon, <2>2 DEF Insert, Offset, PageSize
    <3>2. OrderBy' = OrderBy BY Zenon, <2>2, OrderKept DEF Insert
    <3>3. rows' \in Nat /\ rows' # first' BY <2>2 DEF Insert, PageInv
    <3>4. ASSUME sorter' = {"id"} PROVE SeenInOrder'
      BY Zenon, <2>2, <3>2, <3>3, <3>4 DEF Insert, PageInv, SeenInOrder
    <3>5. Offset \in Nat BY Zenon, PageCounts DEF PageInv
    <3>6. QED BY <2>2, <3>1, <3>3, <3>4, <3>5 DEF Insert, PageInv
  <2>3. ASSUME NEW q \in Results, Page(q) PROVE PageInv'
    BY Zenon, <2>3, PageStep
  <2>4. CASE UNCHANGED pageVars
    <3>1. Offset' = Offset BY Zenon, <2>4 DEF pageVars, Offset, PageSize
    <3>2. OrderBy' = OrderBy BY Zenon, <2>4, OrderKept DEF pageVars
    <3>3. SeenInOrder' <=> SeenInOrder BY Zenon, <2>4, <3>2 DEF pageVars, SeenInOrder
    <3>4. QED BY Zenon, <2>4, <3>1, <3>3 DEF pageVars, PageInv
  <2>5. QED BY Zenon, <2>1, <2>2, <2>3, <2>4 DEF PageNext
<1>3. QED BY <1>1, <1>2, PTL DEF PageSpec

\* A walk sorted by the unique column returns every row that was there when it began
\* exactly once, for any table, page size and limits.
THEOREM NoRowMissed == PageSpec => []WalkIsComplete
<1>1. PageInv => WalkIsComplete
  <2> SUFFICES ASSUME PageInv, walk = "done", sorter = {"id"}, OrderBy.desc => rows = first,
                      NEW r \in 1 .. first
               PROVE  SeenOnce(r)
    BY Zenon DEF WalkIsComplete
  <2>1. /\ DOMAIN rowsSeen = 1 .. Len(rowsSeen) /\ first <= Len(rowsSeen) /\ Len(rowsSeen) <= rows
        /\ first \in Nat /\ rows \in Nat /\ Len(rowsSeen) \in Nat
    BY DEF PageInv
  <2>2. SeenInOrder BY Zenon DEF PageInv
  <2>3. \E k \in DOMAIN rowsSeen : {i \in DOMAIN rowsSeen : rowsSeen[i] = r} = {k}
    <3>1. CASE OrderBy.desc
      <4>1. rows = first /\ \A i \in DOMAIN rowsSeen : rowsSeen[i] = rows + 1 - i
        BY Zenon, <2>2, <3>1 DEF SeenInOrder
      <4>2. rows + 1 - r \in DOMAIN rowsSeen BY <2>1, <4>1
      <4>3. {i \in DOMAIN rowsSeen : rowsSeen[i] = r} = {rows + 1 - r} BY <2>1, <4>1, <4>2
      <4>4. QED BY Zenon, <4>2, <4>3
    <3>2. CASE ~OrderBy.desc
      <4>1. \A i \in DOMAIN rowsSeen : rowsSeen[i] = i BY Zenon, <2>2, <3>2 DEF SeenInOrder
      <4>2. r \in DOMAIN rowsSeen BY <2>1
      <4>3. QED BY Zenon, <4>1, <4>2
    <3>3. QED BY Zenon, <3>1, <3>2
  <2>4. QED BY Zenon, <2>3 DEF SeenOnce
<1>2. QED BY <1>1, PageInductive, PTL
===============================================================================
