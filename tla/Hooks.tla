--------------------------------- MODULE Hooks ---------------------------------
(***************************************************************************)
(* pkg/hooks: named handlers and the ways to run them.  Execute ranges     *)
(* over the map, so in any order; ExecuteWithExclude sorts the keys.  Both *)
(* stop at the first handler that fails.  A round is one such call; the    *)
(* application makes them from its main goroutine only.                    *)
(***************************************************************************)
EXTENDS Naturals

CONSTANTS
  HookNames,   \* the application's hooks
  Keys,        \* keys handlers are registered under
  Rank         \* Rank[k]: the place of k in sort.Strings

ASSUME RankAssumption == Rank \in [Keys -> Nat]

VARIABLES
  handlers,    \* handlers[h]: keys registered with hook h
  round,       \* the hook being executed, its keys still to run, in sorted order or not
  ran,         \* ran[h][k]: how often handler k of hook h has returned
  hookFailed   \* hooks of which a handler has returned an error

hookVars == <<handlers, round, ran, hookFailed>>

Rounds == [hook : HookNames, todo : SUBSET Keys, sorted : BOOLEAN]

HooksTypeOK ==
  /\ handlers \in [HookNames -> SUBSET Keys]
  /\ round \in Rounds
  /\ ran \in [HookNames -> [Keys -> Nat]]
  /\ hookFailed \subseteq HookNames

\* hooks.New, once per hook.
HooksInit ==
  /\ handlers = [h \in HookNames |-> {}]
  /\ round = [hook |-> CHOOSE h \in HookNames : TRUE, todo |-> {}, sorted |-> FALSE]
  /\ ran = [h \in HookNames |-> [k \in Keys |-> 0]]
  /\ hookFailed = {}

\* Add refuses a key that is already set, and keeps its handler.
Add(hs, h, k) == [hs EXCEPT ![h] = @ \cup {k}]

\* Execute: all handlers.  Without any it only returns ErrHandlerNotRegistered.
Execute(hs, h) == [hook |-> h, todo |-> hs[h], sorted |-> FALSE]

\* ExecuteWithExclude: all but the excluded ones, sorted.
ExecuteWithExclude(hs, h, excluded) ==
  [hook |-> h, todo |-> hs[h] \ excluded, sorted |-> TRUE]

RoundOver == round.todo = {}

\* orderedLoop sorts the keys; the range over the map may yield any.
MayRun(k) ==
  /\ k \in round.todo
  /\ round.sorted => \A j \in round.todo : Rank[k] <= Rank[j]

\* ExecuteOnly runs the handler, which returns an error: the round is over.
HandlerFails(k) ==
  /\ MayRun(k)
  /\ round' = [round EXCEPT !.todo = {}]
  /\ ran' = [ran EXCEPT ![round.hook][k] = @ + 1]
  /\ hookFailed' = hookFailed \cup {round.hook}
  /\ UNCHANGED handlers

\* ExecuteOnly runs the handler, which returns nil.
HandlerReturns(k) ==
  /\ MayRun(k)
  /\ round' = [round EXCEPT !.todo = @ \ {k}]
  /\ ran' = [ran EXCEPT ![round.hook][k] = @ + 1]
  /\ UNCHANGED <<handlers, hookFailed>>
===============================================================================
