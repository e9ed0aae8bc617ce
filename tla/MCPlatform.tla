------------------------------- MODULE MCPlatform -------------------------------
(***************************************************************************)
(* The components of the platform that share no state with each other,     *)
(* checked in one run: a behaviour is a behaviour of one of them, chosen   *)
(* at the start, while the others stay in an initial state.                *)
(***************************************************************************)
EXTENDS DriverManager, LogBatch, LogRecord, DataSources, HttpApi, OperatorControl,
        OrderStream, Monitoring, Paging, MCLoyaltyCredit

VARIABLE focus    \* the component this behaviour is about

baseVars == <<managerVars, logVars, recordVars>>
edgeVars == <<sourceVars, httpVars, controlVars>>
dataVars == <<streamVars, otelVars, pageVars, creditVars>>
vars == <<focus, baseVars, edgeVars, dataVars>>

Parts == {"manager", "log", "record", "sources", "http", "control", "stream", "otel", "page",
          "credit"}

MCAttrLists == {<<"a">>, <<"b">>, <<"a", "a">>, <<"a", "b">>}

MCSizes == {-1, 0, 1, 2, 9}

Init ==
  /\ focus \in Parts
  /\ IF focus = "manager" THEN TRUE ELSE version = "v1"
  /\ IF focus = "sources" THEN TRUE
     ELSE databases = <<[adapter |-> "unknown", alias |-> "default", fields |-> "few"]>>
  /\ IF focus = "http" THEN TRUE ELSE mode = "production"
  /\ IF focus = "stream" THEN TRUE ELSE policy = "none"
  /\ IF focus = "otel" THEN TRUE
     ELSE flags = [f \in {"meter", "logger"} |-> FALSE] /\ manager = "v1"
  /\ IF focus = "page" THEN TRUE
     ELSE rows = 0 /\ sorter = {} /\ direction = "ascend" /\ helper = "WithSort" /\ size = 0
  /\ ManagerInit /\ LogInit /\ RecordInit /\ SourceInit /\ HttpInit /\ ControlInit
  /\ StreamInit /\ OtelInit /\ PageInit /\ CreditInit

Next ==
  \/ focus = "manager" /\ ManagerNext /\ UNCHANGED <<focus, logVars, recordVars, edgeVars, dataVars>>
  \/ focus = "log" /\ LogNext /\ UNCHANGED <<focus, managerVars, recordVars, edgeVars, dataVars>>
  \/ focus = "record" /\ RecordNext /\ UNCHANGED <<focus, managerVars, logVars, edgeVars, dataVars>>
  \/ focus = "sources" /\ SourceNext /\ UNCHANGED <<focus, baseVars, httpVars, controlVars, dataVars>>
  \/ focus = "http" /\ HttpNext /\ UNCHANGED <<focus, baseVars, sourceVars, controlVars, dataVars>>
  \/ focus = "control" /\ ControlNext /\ UNCHANGED <<focus, baseVars, sourceVars, httpVars, dataVars>>
  \/ focus = "stream" /\ StreamNext /\ UNCHANGED <<focus, baseVars, edgeVars, otelVars, pageVars, creditVars>>
  \/ focus = "otel" /\ OtelNext /\ UNCHANGED <<focus, baseVars, edgeVars, streamVars, pageVars, creditVars>>
  \/ focus = "page" /\ PageNext /\ UNCHANGED <<focus, baseVars, edgeVars, streamVars, otelVars, creditVars>>
  \/ focus = "credit" /\ CreditNext /\ UNCHANGED <<focus, baseVars, edgeVars, streamVars, otelVars, pageVars>>

Spec == Init /\ [][Next]_vars

\* Every component's state has its type.
TypeOK ==
  /\ focus \in Parts
  /\ ManagerTypeOK /\ LogTypeOK /\ RecordTypeOK /\ SourceTypeOK /\ HttpTypeOK
  /\ ControlTypeOK /\ StreamTypeOK /\ OtelTypeOK /\ PageTypeOK /\ CreditTypeOK
=================================================================================
