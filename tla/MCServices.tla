------------------------------- MODULE MCServices -------------------------------
(***************************************************************************)
(* The buses, the request-reply over NATS and the fulfilment saga, which   *)
(* share no state, in one run: a behaviour is a behaviour of one of them,  *)
(* chosen at the start, with the fairness of its own specification.        *)
(***************************************************************************)
EXTENDS EventBus, OrderDetail, FulfillmentSaga, TLC

CONSTANTS completed, bare, notice, onCompleted, onNotice

VARIABLE focus    \* the component this behaviour is about

vars == <<focus, busVars, detailVars, sagaVars>>

MCTopicOf ==
  [x \in {completed, bare, onCompleted} |-> "orders.order.completed"] @@
  [x \in {notice, onNotice} |-> "notification.sent"]

Parts == {"bus", "detail", "saga"}

Init ==
  /\ focus \in Parts
  /\ IF focus = "detail" THEN TRUE ELSE client = "order"
  /\ BusInit /\ DetailInit /\ SagaInit

\* A step of one component.
OnBus(A) == focus = "bus" /\ A /\ UNCHANGED <<focus, detailVars, sagaVars>>
OnDetail(A) == focus = "detail" /\ A /\ UNCHANGED <<focus, busVars, sagaVars>>
OnSaga(A) == focus = "saga" /\ A /\ UNCHANGED <<focus, busVars, detailVars>>

Next ==
  \/ focus = "bus" /\ BusNext /\ UNCHANGED <<focus, detailVars, sagaVars>>
  \/ focus = "detail" /\ DetailNext /\ UNCHANGED <<focus, busVars, sagaVars>>
  \/ focus = "saga" /\ SagaNext /\ UNCHANGED <<focus, busVars, detailVars>>

Spec == Init /\ [][Next]_vars

FairSpec ==
  /\ Spec
  /\ \A h \in Handlers, e \in Events : WF_vars(OnBus(DeliverStep(h, e)))
  /\ WF_vars(OnDetail(BreakerHalfOpens))
  /\ \A c \in Callers : WF_vars(OnDetail(CallerStep(c)))
  /\ \A t \in Prerequisites : WF_vars(OnSaga(Handle(t)))

\* The state of each component has its type.
TypeOK == focus \in Parts /\ BusTypeOK /\ DetailTypeOK /\ SagaTypeOK
=================================================================================
