------------------------------ MODULE OrderDetail ------------------------------
(***************************************************************************)
(* Orders and the request-reply around them: SaveOrder writes an order     *)
(* statement by statement; OrderDetailListenerImpl answers the question    *)
(* for an order from the same tables; GetOrderDetail asks it over NATS and *)
(* GetDetailCustomer asks another service, each through a circuit breaker  *)
(* of its own.  The two clients share nothing, so a behaviour is about one *)
(* of them.                                                                *)
(*                                                                         *)
(* NATS and gobreaker are external.  A request is answered into an inbox   *)
(* of its own until its timeout; a reply that comes later is dropped.  The *)
(* breaker's counts are never reset while it is closed (no Interval).      *)
(***************************************************************************)
EXTENDS Naturals

CONSTANTS
  Orders,
  ItemCount,     \* items of an order
  Callers,       \* goroutines that ask, again and again
  Attempts,      \* rounds of GetDetailCustomer's loop, 50 in the code
  MaxCount,      \* bound on a closed breaker's request count
  MaxOutages     \* bound on how often the listener goes away

ASSUME OrderAssumption ==
  /\ Orders # {} /\ ItemCount \in Nat /\ Attempts \in Nat \ {0} /\ MaxCount \in Nat /\ MaxOutages \in Nat

VARIABLES
  client,     \* order (GetOrderDetail) or customer (GetDetailCustomer)
  save,       \* save[o]: where CreateOrder is
  items,      \* items[o]: item rows written
  found,      \* orders that have their row
  listening,  \* the listener is subscribed
  outages,
  cb,         \* state and counts of the breaker
  pc,         \* pc[c]: idle, request (about to ask), waiting
  tries,      \* tries[c]: attempts made by this call
  stale,      \* stale[c]: the breaker has changed state since c was admitted
  asked,      \* asked[c]: the order c asks for
  inbox,      \* inbox[c]: empty, or what was replied
  replied,    \* orders some caller got a reply for
  failures    \* requests that failed, over all time, up to 2

orderVars == <<save, items, found>>
callVars == <<cb, pc, tries, stale, asked, inbox, replied, failures>>
detailVars == <<client, orderVars, listening, outages, callVars>>

\* The breakers' settings.
NewOrderDetailRequestImpl == [maxRequests |-> 3, minRequests |-> 3]
NewCustomerDetailRequestImpl == [maxRequests |-> 3, minRequests |-> 3]
Settings == IF client = "order" THEN NewOrderDetailRequestImpl ELSE NewCustomerDetailRequestImpl

Clear(state) == [state |-> state, requests |-> 0, failed |-> 0, succeeded |-> 0]
Tries == IF client = "customer" THEN Attempts ELSE 1

DetailTypeOK ==
  /\ client \in {"order", "customer"}
  /\ save \in [Orders -> {"idle", "items", "ok", "error"}]
  /\ items \in [Orders -> 0 .. ItemCount] /\ found \subseteq Orders
  /\ listening \in BOOLEAN /\ outages \in 0 .. MaxOutages
  /\ cb \in [state : {"closed", "open", "half-open"}, requests : 0 .. MaxCount,
             failed : 0 .. MaxCount, succeeded : 0 .. Settings.maxRequests]
  /\ pc \in [Callers -> {"idle", "request", "waiting"}]
  /\ tries \in [Callers -> 0 .. Attempts] /\ stale \in [Callers -> BOOLEAN]
  /\ asked \in [Callers -> Orders]
  /\ inbox \in [Callers -> {"sent", "dropped", "reply"}]
  /\ replied \subseteq Orders /\ failures \in 0 .. 2

DetailInit ==
  /\ client \in {"order", "customer"}
  /\ save = [o \in Orders |-> "idle"] /\ items = [o \in Orders |-> 0] /\ found = {}
  /\ listening = FALSE /\ outages = 0
  /\ cb = Clear("closed")
  /\ pc = [c \in Callers |-> "idle"] /\ tries = [c \in Callers |-> 0]
  /\ stale = [c \in Callers |-> FALSE]
  /\ asked = [c \in Callers |-> CHOOSE o \in Orders : TRUE]
  /\ inbox = [c \in Callers |-> "dropped"]
  /\ replied = {} /\ failures = 0

-------------------------------------------------------------------------------
(* CreateOrder and SaveOrder, without a transaction.                          *)

\* GetDetailCustomer looks at no order, so its behaviours need none.
CreateOrder(o) ==
  /\ client = "order" /\ save[o] = "idle"
  /\ save' = [save EXCEPT ![o] = "items"]
  /\ UNCHANGED <<client, items, found, listening, outages, callVars>>

\* SaveOrder's loop over the items.  A row of order_items names no order: which order
\* an item was written for is what the model remembers, not what the tables tell.
SaveItem(o) ==
  /\ save[o] = "items" /\ items[o] < ItemCount
  /\ items' = [items EXCEPT ![o] = @ + 1]
  /\ UNCHANGED <<client, save, found, listening, outages, callVars>>

\* Mutant: the order's row is written before its items.
SaveRow_First(o) ==
  /\ save[o] = "items"
  /\ found' = found \cup {o}
  /\ save' = [save EXCEPT ![o] = IF items[o] = ItemCount THEN "ok" ELSE "items"]
  /\ UNCHANGED <<client, items, listening, outages, callVars>>

\* The order's row comes last.
SaveRow(o) ==
  /\ save[o] = "items" /\ items[o] = ItemCount
  /\ found' = found \cup {o}
  /\ save' = [save EXCEPT ![o] = "ok"]
  /\ UNCHANGED <<client, items, listening, outages, callVars>>

\* Any statement may fail: the caller gets ErrOrderFailedToCreate, and the rows
\* written so far stay.
SaveFails(o) ==
  /\ save[o] = "items"
  /\ save' = [save EXCEPT ![o] = "error"]
  /\ UNCHANGED <<client, items, found, listening, outages, callVars>>

-------------------------------------------------------------------------------
(* The listener.                                                              *)

\* Start subscribes, when the NATS driver registers its listeners.
ListenerStart ==
  /\ client = "order" /\ ~listening
  /\ listening' = TRUE
  /\ UNCHANGED <<client, orderVars, outages, callVars>>

\* Stop, or the end of its process or connection: requests it has not answered
\* stay unanswered.
ListenerStop ==
  /\ listening /\ outages < MaxOutages
  /\ listening' = FALSE /\ outages' = outages + 1
  /\ inbox' = [c \in Callers |->
                 IF inbox[c] = "sent" THEN "dropped" ELSE inbox[c]]
  /\ UNCHANGED <<client, orderVars, cb, pc, tries, stale, asked, replied, failures>>

\* Without the row, FindByID fails and the listener returns without a reply.
Answer(c) == IF asked[c] \in found THEN "reply" ELSE "dropped"

Serve(c) ==
  /\ client = "order" /\ listening /\ inbox[c] = "sent"
  /\ inbox' = [inbox EXCEPT ![c] = Answer(c)]
  /\ UNCHANGED <<client, orderVars, listening, outages, cb, pc, tries, stale, asked, replied, failures>>

\* The customer service, which is another program, answers or does not.
ServeCustomer(c, answer) ==
  /\ client = "customer" /\ inbox[c] = "sent"
  /\ inbox' = [inbox EXCEPT ![c] = answer]
  /\ UNCHANGED <<client, orderVars, listening, outages, cb, pc, tries, stale, asked, replied, failures>>

-------------------------------------------------------------------------------
(* The breaker.                                                               *)

\* Mutant: no minimum number of requests.
ReadyToTrip_Eager(b) == 5 * b.failed >= 3 * b.requests

\* Enough requests, of which sixty percent failed.
ReadyToTrip(b) == b.requests >= Settings.minRequests /\ 5 * b.failed >= 3 * b.requests

Admits(b) ==
  \/ b.state = "closed" /\ b.requests < MaxCount
  \/ b.state = "half-open" /\ b.requests < Settings.maxRequests

\* What a breaker becomes after an outcome that still counts.
AfterSuccess(b) ==
  LET n == [b EXCEPT !.succeeded = IF b.state = "half-open" THEN @ + 1 ELSE @] IN
  IF n.succeeded >= Settings.maxRequests THEN Clear("closed") ELSE n

AfterFailure(b) ==
  LET n == [b EXCEPT !.failed = @ + 1] IN
  IF b.state = "half-open" \/ ReadyToTrip(n) THEN Clear("open") ELSE n

\* Requests admitted before the breaker changed state no longer count.
SetBreaker(b) ==
  /\ cb' = b
  /\ stale' = [c \in Callers |-> stale[c] \/ b.state # cb.state]

\* The open state times out.
BreakerHalfOpens ==
  /\ cb.state = "open"
  /\ SetBreaker(Clear("half-open"))
  /\ UNCHANGED <<client, orderVars, listening, outages, pc, tries, asked, inbox, replied, failures>>

-------------------------------------------------------------------------------
(* The callers.                                                               *)

\* GetOrderDetail or GetDetailCustomer is called.
Call(c, o) ==
  /\ pc[c] = "idle"
  /\ pc' = [pc EXCEPT ![c] = "request"]
  /\ asked' = [asked EXCEPT ![c] = o]
  /\ tries' = [tries EXCEPT ![c] = 0]
  /\ UNCHANGED <<client, orderVars, listening, outages, cb, stale, inbox, replied, failures>>

\* GetOrderDetail returns after one attempt, GetDetailCustomer after all of them,
\* whatever they brought.
Returns(c, ok) == tries[c] + 1 >= Tries

Attempted(c, ok) ==
  /\ tries' = [tries EXCEPT ![c] = @ + 1]
  /\ pc' = [pc EXCEPT ![c] = IF Returns(c, ok) THEN "idle" ELSE "request"]

\* The breaker lets the request through.
Request(c) ==
  /\ pc[c] = "request" /\ Admits(cb)
  /\ pc' = [pc EXCEPT ![c] = "waiting"]
  /\ cb' = [cb EXCEPT !.requests = @ + 1]
  /\ stale' = [stale EXCEPT ![c] = FALSE]
  /\ inbox' = [inbox EXCEPT ![c] = IF client = "order" /\ ~listening THEN "dropped" ELSE "sent"]
  /\ UNCHANGED <<client, orderVars, listening, outages, tries, asked, replied, failures>>

\* The breaker refuses: open, or enough probes under way.
Refused(c) ==
  /\ pc[c] = "request"
  /\ cb.state = "open" \/ (cb.state = "half-open" /\ cb.requests >= Settings.maxRequests)
  /\ Attempted(c, FALSE)
  /\ UNCHANGED <<client, orderVars, listening, outages, cb, stale, asked, inbox, replied, failures>>

\* The reply arrives in time and is translated.
Reply(c) ==
  /\ pc[c] = "waiting" /\ inbox[c] = "reply"
  /\ Attempted(c, TRUE)
  /\ replied' = IF client = "order" THEN replied \cup {asked[c]} ELSE replied
  /\ IF stale[c] THEN UNCHANGED <<cb, stale>> ELSE SetBreaker(AfterSuccess(cb))
  /\ UNCHANGED <<client, orderVars, listening, outages, asked, inbox, failures>>

\* Mutant: the request has no timeout.
Timeout_Never(c) == FALSE

\* No reply within two seconds, or no responders at all.
Timeout(c) ==
  /\ pc[c] = "waiting"
  /\ Attempted(c, FALSE)
  /\ inbox' = [inbox EXCEPT ![c] = "dropped"]
  /\ failures' = IF failures < 2 THEN failures + 1 ELSE failures
  /\ IF stale[c] THEN UNCHANGED <<cb, stale>> ELSE SetBreaker(AfterFailure(cb))
  /\ UNCHANGED <<client, orderVars, listening, outages, asked, replied>>

CallerStep(c) == Request(c) \/ Refused(c) \/ Reply(c) \/ Timeout(c)

DetailNext ==
  \/ \E o \in Orders : CreateOrder(o) \/ SaveItem(o) \/ SaveRow(o) \/ SaveFails(o)
  \/ ListenerStart \/ ListenerStop
  \/ BreakerHalfOpens
  \/ \E c \in Callers :
       \/ Serve(c) \/ CallerStep(c)
       \/ \E a \in {"reply", "dropped"} : ServeCustomer(c, a)
       \/ \E o \in Orders : Call(c, o)

DetailSpec == DetailInit /\ [][DetailNext]_detailVars

\* Goroutines run, the open state's and the requests' timers fire.
FairDetailSpec ==
  /\ DetailSpec
  /\ WF_detailVars(BreakerHalfOpens)
  /\ \A c \in Callers : WF_detailVars(CallerStep(c))

-------------------------------------------------------------------------------
(* Properties.                                                                *)

\* A reply is only ever about an order that was saved with all its items, however
\* saving and asking interleave.
ReplyIsComplete == \A o \in replied : o \in found /\ items[o] = ItemCount

\* One failed request never opens a breaker.
OneFailureTolerated == failures < 2 => cb.state = "closed"

\* A call returns, whatever the other side does: no timer, no refusal and no admission
\* can keep it (as far as MaxCount lets the model count).
CallReturns == \A c \in Callers : pc[c] # "idle" ~>
  (pc[c] = "idle" \/ cb.requests = MaxCount)
===============================================================================
