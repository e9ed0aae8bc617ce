----------------------------- MODULE PlatformProofs -----------------------------
(***************************************************************************)
(* Theorems about the components of the platform that share no state: the  *)
(* HTTP interface, the telemetry, the order stream, the operator's         *)
(* connections and the data sources.                                       *)
(***************************************************************************)
EXTENDS HttpApi, Monitoring, OrderStream, OperatorControl, DataSources, TLAPS

-------------------------------------------------------------------------------
(* The HTTP interface.                                                        *)

\* What the way back relies on: an outcome that the handlers can have produced, which
\* is not a reply any more once it is with the error handler, and becomes one when
\* Recover had the error handler answer.
Outgoing(c) ==
  /\ phase[c] = "recovered" => outcome[c].kind = "error" /\ outcome[c].code = 500 /\ route[c] # "unknown"
  /\ phase[c] = "error" => outcome[c].kind # "reply"
  /\ outcome[c].kind # "reply" => outcome[c].code \in {400, 404, 500}
  /\ outcome[c].kind = "reply" =>
       /\ outcome[c].text \in {"data", "none"}
       /\ \/ outcome[c].code \in {200, 201}
          \/ outcome[c].code = 400 /\ route[c] = "workers"
          \/ outcome[c].code = 500 /\ route[c] # "unknown"
  /\ outcome[c].kind = "api" /\ outcome[c].text = "internal" =>
       outcome[c].code = 500 \/ (outcome[c].code = 400 /\ route[c] = "credit")

\* What a client has got, or has not got yet.
Answered(c) ==
  /\ phase[c] # "done" => response[c] = Aborted
  /\ header[c] => id[c] = "own"
  /\ mode = "production" /\ response[c].text = "internal" =>
       route[c] = "credit" /\ response[c].code = 400
  /\ phase[c] = "done" /\ response[c].text \in {"public", "internal"} =>
       response[c].id = id[c]
  /\ alive /\ phase[c] = "done" /\ response[c] = Aborted =>
       /\ outcome[c].kind = "reply"
       /\ \/ outcome[c].code = 400 /\ route[c] = "workers"
          \/ outcome[c].code = 500 /\ route[c] # "unknown"

HttpInv == HttpTypeOK /\ \A c \in Clients : Outgoing(c) /\ Answered(c)

\* The state of an exchange before anything was written.
LEMMA Blank ==
  /\ Unwritten.kind = "reply" /\ Unwritten.code = 200 /\ Unwritten.text = "data"
  /\ Aborted.text = "none" /\ Aborted.code = 0
  BY Zenon DEF Unwritten, Outcome, Aborted, Response

\* The fields of an outcome, and the responses made of outcomes.
LEMMA OutcomeFields ==
  ASSUME NEW kind, NEW code, NEW text
  PROVE  /\ Outcome(kind, code, text).kind = kind
         /\ Outcome(kind, code, text).code = code
         /\ Outcome(kind, code, text).text = text
  BY Zenon DEF Outcome

LEMMA OutcomesMade ==
  ASSUME NEW kind \in {"reply", "http", "api", "error"}, NEW code \in {200, 201, 400, 404, 500},
         NEW text \in {"none", "data", "public", "internal"}
  PROVE  Outcome(kind, code, text) \in Outcomes
  BY DEF Outcomes, Outcome

LEMMA ResponsesMade ==
  /\ Aborted \in Responses
  /\ \A o \in Outcomes : Response(o.code, o.text, "none") \in Responses
  /\ \A o \in Outcomes, r \in {"none", "own", "made"} : Response(o.code, Body(o), r) \in Responses
  BY DEF Outcomes, Responses, Response, Aborted, Body

\* A step of client c leaves the request of every other client alone.
Same(d) ==
  /\ phase'[d] = phase[d] /\ route'[d] = route[d] /\ header'[d] = header[d]
  /\ id'[d] = id[d] /\ outcome'[d] = outcome[d] /\ response'[d] = response[d]

\* What a client's request does short of ending the process.
RequestStep(c) ==
  \/ \E r \in Routes, h \in BOOLEAN : Receive(c, r, h)
  \/ CheckMaster(c) \/ NoRoute(c) \/ HandlerRecovered(c) \/ RecoverAnswers(c)
  \/ GetBalance(c)
  \/ \E text \in {"public", "internal"} : BindFails(c, text)
  \/ \E ok \in BOOLEAN : CreditAnswered(c, ok)
  \/ LogRequest(c) \/ HttpErrorHandler(c)

LEMMA HttpSteps ==
  ASSUME [HttpNext]_httpVars
  PROVE  \/ MasterDriver \/ UNCHANGED httpVars
         \/ \E c \in Clients : RequestStep(c) \/ Fatal(c)
  BY Zenon DEF HttpNext, RequestStep

\* What a handler may return to c.
MayReturn(c, o) ==
  /\ o \in Outcomes
  /\ o.kind # "reply" => o.code \in {400, 404, 500}
  /\ o.kind = "reply" =>
       /\ o.text \in {"data", "none"}
       /\ \/ o.code \in {200, 201}
          \/ o.code = 400 /\ route[c] = "workers"
          \/ o.code = 500 /\ route[c] # "unknown"
  /\ o.kind = "api" /\ o.text = "internal" =>
       o.code = 500 \/ (o.code = 400 /\ route[c] = "credit")

\* A handler that returns.
HandlerStep(c) ==
  \/ CheckMaster(c) \/ NoRoute(c) \/ RecoverAnswers(c) \/ GetBalance(c)
  \/ \E text \in {"public", "internal"} : BindFails(c, text)
  \/ \E ok \in BOOLEAN : CreditAnswered(c, ok)

\* Whatever a handler does, it returns something the way back can cope with.
LEMMA HandlerReturns ==
  ASSUME HttpTypeOK, NEW c \in Clients, Outgoing(c), HandlerStep(c)
  PROVE  phase[c] # "done" /\ \E o : Returned(c, o) /\ MayReturn(c, o)
<1>1. CASE CheckMaster(c)
  <2> DEFINE code == IF route[c] = "workers" /\ ~masterUp THEN 400 ELSE 200
  <2>1. code = 200 \/ (code = 400 /\ route[c] = "workers")
    OBVIOUS
  <2>2. phase[c] # "done" /\ Returned(c, Outcome("reply", code, "data"))
    BY Zenon, <1>1 DEF CheckMaster
  <2> HIDE DEF code
  <2>3. MayReturn(c, Outcome("reply", code, "data"))
    BY <2>1, OutcomeFields, OutcomesMade DEF MayReturn
  <2> QED BY Zenon, <2>2, <2>3
<1>2. CASE NoRoute(c)
  <2>1. MayReturn(c, Outcome("http", 404, "public"))
    BY OutcomeFields, OutcomesMade DEF MayReturn
  <2> QED BY Zenon, <1>2, <2>1 DEF NoRoute
<1>3. CASE RecoverAnswers(c)
  <2>1. outcome[c].kind = "error" /\ outcome[c].code = 500 /\ route[c] # "unknown"
    BY Zenon, <1>3 DEF RecoverAnswers, Outgoing
  <2>2. Body(outcome[c]) = "none"
    BY Zenon, <2>1 DEF Body
  <2>3. MayReturn(c, Outcome("reply", 500, "none"))
    BY <2>1, OutcomeFields, OutcomesMade DEF MayReturn
  <2> QED BY <1>3, <2>1, <2>2, <2>3 DEF RecoverAnswers
<1>4. MayReturn(c, NewServiceError)
  BY OutcomeFields, OutcomesMade DEF MayReturn, NewServiceError
<1>5. CASE GetBalance(c)
  <2>1. MayReturn(c, Outcome("reply", 200, "data"))
    BY OutcomeFields, OutcomesMade DEF MayReturn
  <2> QED BY Zenon, <1>4, <1>5, <2>1 DEF GetBalance
<1>6. ASSUME NEW text \in {"public", "internal"}, BindFails(c, text)
      PROVE  phase[c] # "done" /\ \E o : Returned(c, o) /\ MayReturn(c, o)
  <2>1. route[c] = "credit" BY Zenon, <1>6 DEF BindFails
  <2>2. MayReturn(c, Outcome("api", 400, text))
    BY <2>1, OutcomeFields, OutcomesMade DEF MayReturn
  <2> QED BY Zenon, <1>6, <2>2 DEF BindFails
<1>7. ASSUME NEW ok \in BOOLEAN, CreditAnswered(c, ok)
      PROVE  phase[c] # "done" /\ \E o : Returned(c, o) /\ MayReturn(c, o)
  <2>1. MayReturn(c, Outcome("reply", 201, "data"))
    BY OutcomeFields, OutcomesMade DEF MayReturn
  <2> QED BY Zenon, <1>4, <1>7, <2>1 DEF CreditAnswered
<1> QED
  BY Zenon, <1>1, <1>2, <1>3, <1>5, <1>6, <1>7 DEF HandlerStep

\* The state has its type.
LEMMA HttpTypeStep ==
  ASSUME HttpInv, [HttpNext]_httpVars
  PROVE  HttpTypeOK'
<1>t. HttpTypeOK BY Zenon DEF HttpInv
<1>1. CASE MasterDriver
  BY Zenon, <1>t, <1>1 DEF HttpTypeOK, MasterDriver, requestVars
<1>2. CASE UNCHANGED httpVars
  BY Zenon, <1>t, <1>2 DEF HttpTypeOK, httpVars, requestVars
<1>3. ASSUME NEW c \in Clients, RequestStep(c) \/ Fatal(c)
      PROVE  HttpTypeOK'
  <2>1. ASSUME NEW r \in Routes, NEW h \in BOOLEAN, Receive(c, r, h)
        PROVE  HttpTypeOK'
    <3>1. Unwritten \in Outcomes /\ Aborted \in Responses
      BY OutcomesMade, ResponsesMade DEF Unwritten
    <3>2. /\ phase' \in [Clients -> {"idle", "handler", "recovered", "returned", "error", "done"}]
          /\ id' \in [Clients -> {"none", "own", "made"}]
      BY Zenon, <1>t, <2>1 DEF HttpTypeOK, Receive
    <3>3. /\ route' \in [Clients -> Routes] /\ header' \in [Clients -> BOOLEAN]
          /\ outcome' \in [Clients -> Outcomes] /\ response' \in [Clients -> Responses]
      BY Zenon, <1>t, <2>1, <3>1 DEF HttpTypeOK, Receive
    <3> QED
      BY Zenon, <1>t, <2>1, <3>2, <3>3 DEF HttpTypeOK, Receive
  <2>2. CASE HandlerStep(c)
    <3>1. PICK o \in Outcomes : Returned(c, o)
      BY <1>t, <2>2, HandlerReturns DEF MayReturn, HttpInv
    <3> QED
      BY Zenon, <1>t, <3>1 DEF HttpTypeOK, Returned
  <2>3. CASE HandlerRecovered(c)
    <3>1. Outcome("error", 500, "internal") \in Outcomes
      BY OutcomesMade
    <3> QED
      BY Zenon, <1>t, <2>3, <3>1 DEF HttpTypeOK, HandlerRecovered
  <2>4. ASSUME NEW r \in Responses, Ends(c, r),
               UNCHANGED <<alive, mode, masterUp, route, header, id, outcome>>
        PROVE  HttpTypeOK'
    BY Zenon, <1>t, <2>4 DEF Ends, HttpTypeOK
  <2>5. outcome[c] \in Outcomes
    BY Zenon, <1>t DEF HttpTypeOK
  <2>6. CASE LogRequest(c)
    <3>1. Aborted \in Responses /\ Response(outcome[c].code, outcome[c].text, "none") \in Responses
      BY Zenon, <2>5, ResponsesMade
    <3>2. CASE phase' = [phase EXCEPT ![c] = "error"] /\ UNCHANGED response
      BY Zenon, <1>t, <2>6, <3>2 DEF LogRequest, HttpTypeOK
    <3> QED
      BY Zenon, <2>4, <2>6, <3>1, <3>2 DEF LogRequest
  <2>7. CASE HttpErrorHandler(c)
    <3>1. BodyId(c) \in {"none", "own", "made"}
      BY Zenon, <1>t DEF BodyId, GetRequestId, HttpTypeOK
    <3>2. Response(outcome[c].code, Body(outcome[c]), BodyId(c)) \in Responses
      BY Zenon, <2>5, <3>1, ResponsesMade
    <3> QED
      BY Zenon, <2>4, <2>7, <3>2 DEF HttpErrorHandler
  <2>8. CASE Fatal(c)
    BY Zenon, <1>t, <2>8 DEF Fatal, HttpTypeOK
  <2> QED
    BY Zenon, <1>3, <2>1, <2>2, <2>3, <2>6, <2>7, <2>8 DEF RequestStep, HandlerStep
<1> QED
  BY Zenon, <1>1, <1>2, <1>3, HttpSteps

\* One client's step changes nothing of the others, nor the mode, nor ends the process.
LEMMA OthersUntouched ==
  ASSUME HttpInv, NEW c \in Clients, RequestStep(c)
  PROVE  mode' = mode /\ alive' = alive /\ \A d \in Clients : d # c => Same(d)
<1>t. HttpTypeOK BY Zenon DEF HttpInv
<1>1. ASSUME NEW r \in Routes, NEW h \in BOOLEAN, Receive(c, r, h)
      PROVE  mode' = mode /\ alive' = alive /\ \A d \in Clients : d # c => Same(d)
  BY Zenon, <1>t, <1>1 DEF Receive, Same, HttpTypeOK
<1>2. CASE HandlerStep(c)
  <2>1. PICK o : Returned(c, o)
    BY Zenon, <1>t, <1>2, HandlerReturns DEF HttpInv
  <2> QED BY Zenon, <1>t, <2>1 DEF Returned, Same, HttpTypeOK
<1>3. CASE HandlerRecovered(c)
  BY Zenon, <1>t, <1>3 DEF HandlerRecovered, Same, HttpTypeOK
<1>4. CASE LogRequest(c)
  BY Zenon, <1>t, <1>4 DEF LogRequest, Ends, Same, HttpTypeOK
<1>5. CASE HttpErrorHandler(c)
  BY Zenon, <1>t, <1>5 DEF HttpErrorHandler, Ends, Same, HttpTypeOK
<1> QED
  BY Zenon, <1>1, <1>2, <1>3, <1>4, <1>5 DEF RequestStep, HandlerStep

\* The request's own step on its way to an outcome.
LEMMA OutgoingStep ==
  ASSUME HttpInv, NEW c \in Clients, RequestStep(c)
  PROVE  Outgoing(c)'
<1>t. HttpTypeOK /\ Outgoing(c)
  BY Zenon DEF HttpInv
<1>1. ASSUME NEW r \in Routes, NEW h \in BOOLEAN, Receive(c, r, h)
      PROVE  Outgoing(c)'
  <2>1. phase'[c] = "handler" /\ outcome'[c] = Unwritten
    BY Zenon, <1>1, <1>t DEF Receive, HttpTypeOK
  <2> QED
    BY <2>1, Blank DEF Outgoing
<1>2. CASE HandlerStep(c)
  <2>1. PICK o : Returned(c, o) /\ MayReturn(c, o)
    BY Zenon, <1>t, <1>2, HandlerReturns
  <2>2. phase'[c] = "returned" /\ outcome'[c] = o /\ UNCHANGED route
    BY Zenon, <2>1, <1>t DEF Returned, HttpTypeOK
  <2> QED
    BY <2>1, <2>2 DEF Outgoing, MayReturn
<1>3. CASE HandlerRecovered(c)
  <2>1. /\ phase'[c] = "recovered" /\ outcome'[c] = Outcome("error", 500, "internal")
        /\ route'[c] = route[c] /\ route[c] # "unknown"
    BY <1>3, <1>t DEF HandlerRecovered, HttpTypeOK
  <2> QED
    BY <2>1, OutcomeFields DEF Outgoing
<1>4. CASE LogRequest(c) \/ HttpErrorHandler(c)
  <2>1. /\ phase'[c] = "done" \/ (phase'[c] = "error" /\ outcome[c].kind # "reply")
        /\ UNCHANGED <<route, outcome>>
    BY Zenon, <1>4, <1>t DEF LogRequest, HttpErrorHandler, Ends, HttpTypeOK
  <2> QED
    BY <1>t, <2>1 DEF Outgoing
<1> QED
  BY Zenon, <1>1, <1>2, <1>3, <1>4 DEF RequestStep, HandlerStep

\* The request's own step on the way back to its client.
LEMMA AnsweredStep ==
  ASSUME HttpInv, NEW c \in Clients, RequestStep(c)
  PROVE  Answered(c)'
<1>t. HttpTypeOK /\ Outgoing(c) /\ Answered(c) /\ outcome[c] \in Outcomes
  BY Zenon DEF HttpInv, HttpTypeOK
<1>a. Aborted.text = "none" /\ Aborted.code = 0
  BY Zenon, Blank
<1>m. mode' = mode /\ alive' = alive
  BY Zenon, OthersUntouched
<1>1. ASSUME NEW r \in Routes, NEW h \in BOOLEAN, Receive(c, r, h)
      PROVE  Answered(c)'
  <2>1. /\ phase'[c] = "handler" /\ response'[c] = Aborted /\ header'[c] = h
        /\ h => id'[c] = "own"
    BY Zenon, <1>1, <1>t DEF Receive, HttpTypeOK
  <2> QED
    BY Zenon, <1>a, <2>1 DEF Answered
<1>2. ASSUME UNCHANGED <<header, id, response>>, phase[c] # "done", phase'[c] # "done"
      PROVE  Answered(c)'
  <2>1. response'[c] = Aborted
    BY Zenon, <1>2, <1>t DEF Answered
  <2> QED
    BY Zenon, <1>2, <1>t, <1>a, <2>1 DEF Answered
<1>3. CASE HandlerStep(c)
  <2>1. phase[c] # "done" /\ \E o : Returned(c, o)
    BY Zenon, <1>t, <1>3, HandlerReturns
  <2>2. UNCHANGED <<header, id, response>> /\ phase'[c] = "returned"
    BY Zenon, <1>t, <2>1 DEF Returned, HttpTypeOK
  <2> QED
    BY Zenon, <1>2, <2>1, <2>2
<1>4. CASE HandlerRecovered(c)
  <2>1. /\ UNCHANGED <<header, id, response>> /\ phase[c] = "handler"
        /\ phase'[c] = "recovered"
    BY Zenon, <1>t, <1>4 DEF HandlerRecovered, HttpTypeOK
  <2> QED
    BY Zenon, <1>2, <2>1
<1>5. CASE LogRequest(c)
  <2>u. UNCHANGED <<header, id, route, outcome>> /\ phase[c] = "returned"
    BY Zenon, <1>5 DEF LogRequest
  <2>h. header[c] => id[c] = "own"
    BY Zenon, <1>t DEF Answered
  <2>1. CASE LoggerPanics(outcome[c]) /\ Ends(c, Aborted)
    <3>1. response'[c] = Aborted /\ phase'[c] = "done"
      BY Zenon, <2>1, <1>t DEF Ends, HttpTypeOK
    <3>2. outcome[c].kind = "reply" /\ outcome[c].code >= 400
      BY Zenon, <2>1 DEF LoggerPanics, LoggedStatus
    <3>3. \/ outcome[c].code = 400 /\ route[c] = "workers"
          \/ outcome[c].code = 500 /\ route[c] # "unknown"
      BY <3>2, <1>t DEF Outgoing
    <3> QED
      BY <1>a, <2>h, <2>u, <3>1, <3>2, <3>3 DEF Answered
  <2>2. CASE /\ outcome[c].kind = "reply" /\ ~LoggerPanics(outcome[c])
             /\ Ends(c, Response(outcome[c].code, outcome[c].text, "none"))
    <3>1. response'[c] = Response(outcome[c].code, outcome[c].text, "none") /\ phase'[c] = "done"
      BY Zenon, <2>2, <1>t DEF Ends, HttpTypeOK
    <3>2. response'[c].text = outcome[c].text /\ response'[c].code = outcome[c].code
      BY <3>1 DEF Response
    <3>3. outcome[c].text \in {"data", "none"} /\ outcome[c].code # 0
      BY <2>2, <1>t DEF Outgoing
    <3>4. response'[c] # Aborted
      BY Zenon, <3>2, <3>3, <1>a
    <3>5. response'[c].text \notin {"public", "internal"}
      BY <3>2, <3>3
    <3> QED
      BY Zenon, <2>h, <2>u, <3>1, <3>4, <3>5 DEF Answered
  <2>3. CASE phase' = [phase EXCEPT ![c] = "error"] /\ UNCHANGED response
    BY Zenon, <1>2, <1>t, <2>3, <2>u DEF HttpTypeOK
  <2> QED
    BY Zenon, <1>5, <2>1, <2>2, <2>3 DEF LogRequest
<1>6. CASE HttpErrorHandler(c)
  <2>u. UNCHANGED <<header, id, route, outcome>> /\ phase[c] = "error"
    BY Zenon, <1>6 DEF HttpErrorHandler
  <2>1. /\ response'[c] = Response(outcome[c].code, Body(outcome[c]), BodyId(c))
        /\ phase'[c] = "done"
    BY Zenon, <1>6, <1>t DEF HttpErrorHandler, Ends, HttpTypeOK
  <2>2. /\ response'[c].text = Body(outcome[c]) /\ response'[c].code = outcome[c].code
        /\ response'[c].id = BodyId(c)
    BY <2>1 DEF Response
  <2>3. outcome[c].code \in {400, 404, 500}
    BY <2>u, <1>t DEF Outgoing
  <2>4. response'[c] # Aborted
    BY <2>2, <2>3, <1>a
  <2>5. mode = "production" /\ Body(outcome[c]) = "internal" =>
          route[c] = "credit" /\ outcome[c].code = 400
    <3>1. outcome[c].kind = "api" /\ outcome[c].text = "internal" =>
            outcome[c].code = 500 \/ (outcome[c].code = 400 /\ route[c] = "credit")
      BY Zenon, <1>t DEF Outgoing
    <3> QED
      BY <3>1 DEF Body, Masked
  <2>6. Body(outcome[c]) \in {"public", "internal"} => BodyId(c) = id[c]
    BY <1>t DEF Body, BodyId, GetRequestId, Answered
  <2>7. header[c] => id[c] = "own"
    BY Zenon, <1>t DEF Answered
  <2> QED
    BY <1>m, <2>u, <2>1, <2>2, <2>4, <2>5, <2>6, <2>7 DEF Answered
<1> QED
  BY Zenon, <1>1, <1>3, <1>4, <1>5, <1>6 DEF RequestStep, HandlerStep

\* Another client's step, the end of the process included, keeps what a client has.
LEMMA OtherRequest ==
  ASSUME HttpInv, NEW c \in Clients, RequestStep(c), NEW d \in Clients, d # c
  PROVE  Outgoing(d)' /\ Answered(d)'
<1>1. Outgoing(d) /\ Answered(d)
  BY Zenon DEF HttpInv
<1>2. Same(d) /\ mode' = mode /\ alive' = alive
  BY Zenon, OthersUntouched
<1>3. Outgoing(d)'
  BY <1>1, <1>2 DEF Outgoing, Same
<1>4. Answered(d)'
  BY <1>1, <1>2 DEF Answered, Same
<1> QED
  BY Zenon, <1>3, <1>4

LEMMA FatalStep ==
  ASSUME HttpInv, NEW c \in Clients, Fatal(c), NEW d \in Clients
  PROVE  Outgoing(d)' /\ Answered(d)'
<1>1. Outgoing(d) /\ Answered(d)
  BY Zenon DEF HttpInv
<1>2. /\ UNCHANGED <<mode, route, header, id, outcome, response>>
      /\ phase'[d] = "done" /\ alive' = FALSE
  BY Zenon DEF Fatal
<1>3. Outgoing(d)'
  BY <1>1, <1>2 DEF Outgoing
<1>4. Answered(d)'
  BY <1>1, <1>2, Blank DEF Answered
<1> QED
  BY Zenon, <1>3, <1>4

\* The inductive invariant of the HTTP interface.
THEOREM HttpInductive == HttpSpec => []HttpInv
<1>1. HttpInit => HttpInv
  <2> SUFFICES ASSUME HttpInit PROVE HttpInv
    OBVIOUS
  <2>1. Unwritten \in Outcomes /\ Aborted \in Responses /\ "unknown" \in Routes
    BY OutcomesMade, ResponsesMade DEF Routes, Unwritten
  <2>2. HttpTypeOK
    <3>1. /\ phase \in [Clients -> {"idle", "handler", "recovered", "returned", "error", "done"}]
          /\ id \in [Clients -> {"none", "own", "made"}]
      BY Zenon DEF HttpInit
    <3> QED
      BY Zenon, <2>1, <3>1 DEF HttpInit, HttpTypeOK
  <2>3. ASSUME NEW c \in Clients
        PROVE  /\ phase[c] = "idle" /\ ~header[c]
               /\ outcome[c] = Unwritten /\ response[c] = Aborted
    BY Zenon DEF HttpInit
  <2>4. ASSUME NEW c \in Clients PROVE Outgoing(c) /\ Answered(c)
    BY <2>3, Blank DEF Outgoing, Answered
  <2> QED
    BY Zenon, <2>2, <2>4 DEF HttpInv
<1>2. HttpInv /\ [HttpNext]_httpVars => HttpInv'
  <2> SUFFICES ASSUME HttpInv, [HttpNext]_httpVars PROVE HttpInv'
    OBVIOUS
  <2>1. HttpTypeOK'
    BY Zenon, HttpTypeStep
  <2>2. CASE MasterDriver \/ UNCHANGED httpVars
    <3>1. UNCHANGED <<mode, alive, requestVars>>
      BY Zenon, <2>2 DEF MasterDriver, httpVars
    <3>2. \A c \in Clients : Outgoing(c)' /\ Answered(c)'
      BY <3>1 DEF HttpInv, requestVars, Outgoing, Answered
    <3> QED
      BY Zenon, <2>1, <3>2 DEF HttpInv
  <2>3. ASSUME NEW c \in Clients, RequestStep(c)
        PROVE  HttpInv'
    BY Zenon, <2>1, <2>3, OutgoingStep, AnsweredStep, OtherRequest DEF HttpInv
  <2>4. ASSUME NEW c \in Clients, Fatal(c)
        PROVE  HttpInv'
    BY Zenon, <2>1, <2>4, FatalStep DEF HttpInv
  <2> QED
    BY Zenon, <2>2, <2>3, <2>4, HttpSteps
<1> QED
  BY <1>1, <1>2, PTL DEF HttpSpec

\* In production no client reads an internal error's words but the decoder's about a
\* body of its own that did not bind, and every error it can read carries the id of
\* its request: for any number of clients and requests.
THEOREM InternalsHidden == HttpSpec => []ErrorBodies
<1>1. ASSUME HttpInv PROVE ErrorBodies
  <2>a. \A c \in Clients : Answered(c)
    BY Zenon, <1>1 DEF HttpInv
  <2>1. ASSUME NEW c \in Clients, mode = "production", response[c].text = "internal"
        PROVE  route[c] = "credit" /\ response[c].code = 400
    BY Zenon, <2>a, <2>1 DEF Answered
  <2>2. ASSUME NEW c \in Clients, phase[c] = "done", response[c].text \in {"public", "internal"}
        PROVE  response[c].id = id[c]
    BY Zenon, <2>a, <2>2 DEF Answered
  <2> QED
    BY Zenon, <2>1, <2>2 DEF ErrorBodies
<1> QED
  BY <1>1, HttpInductive, PTL

\* While the process lives, every error a handler returns is answered: only a reply
\* with an error status, the handler's own or Recover's, costs a client its answer.
THEOREM AnswersArrive == HttpSpec => []OnlyLoggerAborts
<1>1. HttpInv => OnlyLoggerAborts
  BY Zenon DEF HttpInv, Answered, OnlyLoggerAborts
<1> QED
  BY <1>1, HttpInductive, PTL

-------------------------------------------------------------------------------
(* The telemetry driver.                                                      *)

\* Until the cleanups run nothing was shut down and every exporter made is behind a
\* registered cleanup, but for the one of the provider being built; after they ran
\* there is none left to run again.
OtelInv ==
  /\ cleanups \in Seq(Providers) /\ exporters \subseteq Providers /\ shut \in [Providers -> Nat]
  /\ otel \in {"new", "exporter", "build", "ready", "failed", "closed", "panicked"}
  /\ otel \in {"new", "exporter", "build", "ready"} => \A p \in Providers : shut[p] = 0
  /\ otel = "new" => exporters = {}
  /\ otel \in {"exporter", "ready"} => exporters \subseteq Registered
  /\ otel = "build" => todo # <<>> /\ exporters \subseteq Registered \cup {Head(todo)}
  /\ EachProviderShutOnce

\* The list of cleanups, as a set.
LEMMA NoneRegistered ==
  ASSUME cleanups = <<>>
  PROVE  Registered = {}
  BY DEF Registered

LEMMA BuildRegisters ==
  ASSUME cleanups \in Seq(Providers), NEW p \in Providers, Build(p)
  PROVE  cleanups' \in Seq(Providers) /\ Registered' = Registered \cup {p}
<1>1. cleanups' = Append(cleanups, p)
  BY Zenon DEF Build
<1>2. /\ cleanups' \in Seq(Providers) /\ Len(cleanups) \in Nat
      /\ DOMAIN cleanups' = 1 .. Len(cleanups) + 1 /\ DOMAIN cleanups = 1 .. Len(cleanups)
      /\ cleanups'[Len(cleanups) + 1] = p
      /\ \A i \in 1 .. Len(cleanups) : cleanups'[i] = cleanups[i]
  BY <1>1
<1> QED
  BY <1>2 DEF Registered

\* The closure runs every cleanup that is registered, once.
LEMMA ShutdownEffect ==
  ASSUME OtelInv, Shutdown
  PROVE  /\ cleanups' = <<>> /\ shut' \in [Providers -> Nat]
         /\ \A p \in Providers :
              /\ p \in Registered => shut'[p] = shut[p] + 1
              /\ p \notin Registered => shut'[p] = shut[p]
  BY DEF OtelInv, Shutdown

\* The inductive invariant of the telemetry driver.
THEOREM OtelInductive == OtelSpec => []OtelInv
<1>1. OtelInit => OtelInv
  BY DEF OtelInit, OtelInv, EachProviderShutOnce
<1>2. OtelInv /\ [OtelNext]_otelVars => OtelInv'
  <2> SUFFICES ASSUME OtelInv, [OtelNext]_otelVars PROVE OtelInv'
    OBVIOUS
  <2>1. CASE SetupOTelSDK
    BY <2>1 DEF SetupOTelSDK, OtelInv, EachProviderShutOnce
  <2>2. ASSUME NEW p \in Providers, Turn(p), NewOTLP(p)
        PROVE  OtelInv'
    BY Zenon, <2>2 DEF Turn, NewOTLP, OtelInv, EachProviderShutOnce, Registered
  <2>3. ASSUME NEW p \in Providers, Turn(p), Build(p)
        PROVE  OtelInv'
    <3>1. cleanups' \in Seq(Providers) /\ Registered' = Registered \cup {p}
      BY Zenon, <2>3, BuildRegisters DEF OtelInv
    <3> QED
      BY Zenon, <2>3, <3>1 DEF Turn, Build, OtelInv, EachProviderShutOnce
  <2>4. CASE SetupFails
    <3>1. Shutdown
      BY Zenon, <2>4 DEF SetupFails
    <3>2. /\ \A p \in Providers : shut[p] = 0
          /\ \A p \in exporters : p \in Registered \/ (todo # <<>> /\ Head(todo) = p)
      BY Zenon, <2>4 DEF SetupFails, OtelInv
    <3>3. /\ cleanups' = <<>> /\ shut' \in [Providers -> Nat]
          /\ \A p \in Providers :
               IF p \in Registered THEN shut'[p] = 1 ELSE shut'[p] = 0
      BY <3>1, <3>2, ShutdownEffect
    <3>4. exporters \subseteq Providers /\ exporters' = exporters /\ todo' = todo /\ otel' = "failed"
      BY Zenon, <2>4 DEF SetupFails, OtelInv
    <3>5. EachProviderShutOnce'
      BY <3>2, <3>3, <3>4 DEF EachProviderShutOnce
    <3> QED
      BY <3>3, <3>4, <3>5 DEF OtelInv
  <2>5. CASE SetupReturns
    BY Zenon, <2>5 DEF SetupReturns, OtelInv, EachProviderShutOnce, Registered
  <2>6. CASE CloseOtel
    <3>1. Shutdown
      BY Zenon, <2>6 DEF CloseOtel
    <3>2. exporters \subseteq Providers /\ exporters' = exporters /\ todo' = todo /\ otel' = "closed"
      BY Zenon, <2>6 DEF CloseOtel, OtelInv
    <3>3. cleanups' = <<>> /\ shut' \in [Providers -> Nat]
      BY Zenon, <3>1, ShutdownEffect
    <3>4. ASSUME otel = "ready"
          PROVE  EachProviderShutOnce'
      <4>1. /\ \A p \in Providers : shut[p] = 0
            /\ \A p \in exporters : p \in Registered
        BY Zenon, <3>4 DEF OtelInv
      <4>2. \A p \in Providers :
               IF p \in Registered THEN shut'[p] = 1 ELSE shut'[p] = 0
        BY <3>1, <4>1, ShutdownEffect
      <4> QED
        BY <3>2, <3>3, <4>1, <4>2 DEF EachProviderShutOnce
    <3>5. ASSUME otel = "closed"
          PROVE  EachProviderShutOnce'
      <4>1. EachProviderShutOnce /\ Registered = {}
        BY Zenon, <3>5, NoneRegistered DEF OtelInv, EachProviderShutOnce
      <4>2. \A p \in Providers : shut'[p] = shut[p]
        BY Zenon, <3>1, <4>1, ShutdownEffect
      <4> QED
        BY Zenon, <3>2, <3>3, <3>5, <4>1, <4>2 DEF EachProviderShutOnce
    <3>6. EachProviderShutOnce'
      BY Zenon, <2>6, <3>4, <3>5 DEF CloseOtel
    <3> QED
      BY <3>2, <3>3, <3>6 DEF OtelInv
  <2>7. CASE CloseFailed
    BY Zenon, <2>7 DEF CloseFailed, OtelInv, EachProviderShutOnce
  <2>8. CASE UNCHANGED otelVars
    BY Zenon, <2>8 DEF otelVars, OtelInv, EachProviderShutOnce, Registered
  <2> QED
    BY Zenon, <2>1, <2>2, <2>3, <2>4, <2>5, <2>6, <2>7, <2>8
    DEF OtelNext, NewTraceProvider, NewMeterProvider, NewLoggerProvider, Providers
<1> QED
  BY <1>1, <1>2, PTL DEF OtelSpec

\* Whichever step of Init fails, and however often Close is called, no provider is shut
\* down twice and none that was built is left running.
THEOREM ShutOnce == OtelSpec => []EachProviderShutOnce
<1>1. OtelInv => EachProviderShutOnce
  BY Zenon DEF OtelInv
<1> QED
  BY <1>1, OtelInductive, PTL

-------------------------------------------------------------------------------
(* The order stream.                                                          *)

StreamTypes ==
  /\ policy \in {"none", "explicit"} /\ streamed \subseteq Messages /\ settled \subseteq Messages
  /\ sent \in [Messages -> Nat] /\ received \in [Messages -> Nat]
  /\ buffer \in Seq(Messages) /\ inHandler \in BOOLEAN /\ restarts \in Nat

\* What is settled, buffered or received was sent; the message in the callback was
\* received; and as long as nothing was cut, what was sent was received or waits.
Accounted ==
  /\ \A m \in settled : sent[m] > 0
  /\ \A i \in DOMAIN buffer : sent[buffer[i]] > 0
  /\ \A m \in Messages : received[m] > 0 => sent[m] > 0
  /\ inHandler => buffer # <<>> /\ received[Head(buffer)] > 0
  /\ restarts = 0 => \A m \in Messages : sent[m] > 0 => received[m] > 0 \/ Buffered(m)

\* Without acknowledgements a message is sent at most once, so that the buffer has no
\* message twice and none that was received, except the one in the callback.
AtMostOnce ==
  /\ \A m \in Messages : sent[m] > 0 => m \in settled
  /\ \A i, j \in DOMAIN buffer : buffer[i] = buffer[j] => i = j
  /\ \A i \in DOMAIN buffer : received[buffer[i]] > 0 => i = 1 /\ inHandler
  /\ \A m \in Messages : received[m] <= 1

StreamInv ==
  /\ StreamTypes /\ Accounted
  /\ policy = "none" => AtMostOnce
  /\ policy = "explicit" => \A m \in settled : received[m] > 0

\* What Append and Tail make of a queue, position by position.
LEMMA AppendAt ==
  ASSUME NEW S, NEW s \in Seq(S), NEW x \in S
  PROVE  /\ Append(s, x) \in Seq(S) /\ Append(s, x) # <<>> /\ Len(s) \in Nat
         /\ DOMAIN s = 1 .. Len(s) /\ DOMAIN Append(s, x) = 1 .. Len(s) + 1
         /\ \A i \in 1 .. Len(s) : Append(s, x)[i] = s[i]
         /\ Append(s, x)[Len(s) + 1] = x
         /\ s # <<>> => Head(Append(s, x)) = Head(s)
<1>1. /\ Append(s, x) \in Seq(S) /\ Append(s, x) # <<>> /\ Len(s) \in Nat
      /\ DOMAIN s = 1 .. Len(s) /\ DOMAIN Append(s, x) = 1 .. Len(s) + 1
      /\ \A i \in 1 .. Len(s) : Append(s, x)[i] = s[i]
      /\ Append(s, x)[Len(s) + 1] = x
  OBVIOUS
<1>2. ASSUME s # <<>>
      PROVE  Head(Append(s, x)) = Head(s)
  <2>1. 1 \in 1 .. Len(s) /\ Head(s) = s[1] /\ Head(Append(s, x)) = Append(s, x)[1]
    BY <1>2
  <2> QED
    BY Zenon, <1>1, <2>1
<1> QED
  BY Zenon, <1>1, <1>2

LEMMA TailAt ==
  ASSUME NEW S, NEW s \in Seq(S), s # <<>>
  PROVE  /\ Tail(s) \in Seq(S) /\ Head(s) \in S /\ Len(s) \in Nat \ {0}
         /\ DOMAIN s = 1 .. Len(s) /\ DOMAIN Tail(s) = 1 .. Len(s) - 1
         /\ \A i \in 1 .. Len(s) - 1 : Tail(s)[i] = s[i + 1]
         /\ Head(s) = s[1]
  OBVIOUS

LEMMA SendStep ==
  ASSUME StreamInv, NEW m \in Messages, SendToClient(m)
  PROVE  StreamInv'
<1> DEFINE b == Append(buffer, m)
<1>1. StreamTypes /\ Accounted /\ m \notin settled
  BY Zenon DEF StreamInv, SendToClient, Deliverable
<1>2. /\ b \in Seq(Messages) /\ b # <<>> /\ Len(buffer) \in Nat
      /\ DOMAIN buffer = 1 .. Len(buffer) /\ DOMAIN b = 1 .. Len(buffer) + 1
      /\ \A i \in 1 .. Len(buffer) : b[i] = buffer[i]
      /\ b[Len(buffer) + 1] = m
      /\ buffer # <<>> => Head(b) = Head(buffer)
  BY Zenon, <1>1, AppendAt DEF StreamTypes
<1>3. /\ buffer' = b /\ sent' = [sent EXCEPT ![m] = sent[m] + 1]
      /\ settled' = IF policy = "none" THEN settled \cup {m} ELSE settled
      /\ UNCHANGED <<policy, streamed, inHandler, received, restarts>>
  BY Zenon DEF SendToClient
<1> HIDE DEF b
<1>4. /\ sent' \in [Messages -> Nat] /\ sent'[m] > 0
      /\ \A k \in Messages : k # m => sent'[k] = sent[k]
      /\ \A k \in Messages : sent[k] > 0 => sent'[k] > 0
  BY <1>1, <1>3 DEF StreamTypes
<1>5. StreamTypes'
  BY <1>1, <1>2, <1>3, <1>4 DEF StreamTypes
<1>6. \A i \in DOMAIN b : i = Len(buffer) + 1 \/ (i \in DOMAIN buffer /\ b[i] = buffer[i])
  BY <1>2
<1>7. \A i \in DOMAIN buffer : i \in DOMAIN b /\ buffer[i] \in Messages
  BY <1>1, <1>2 DEF StreamTypes
<1>8. Accounted'
  <2>1. \A k \in settled' : sent'[k] > 0
    BY Zenon, <1>1, <1>3, <1>4 DEF StreamTypes, Accounted
  <2>2. \A i \in DOMAIN b : sent'[b[i]] > 0
    BY Zenon, <1>1, <1>2, <1>4, <1>6, <1>7 DEF Accounted
  <2>3. \A k \in Messages : received[k] > 0 => sent'[k] > 0
    BY Zenon, <1>1, <1>4 DEF Accounted
  <2>4. inHandler => b # <<>> /\ received[Head(b)] > 0
    BY Zenon, <1>1, <1>2 DEF Accounted
  <2>5. \A k \in Messages : Buffered(k) \/ k = m => \E i \in DOMAIN b : b[i] = k
    BY <1>2, <1>6, <1>7 DEF Buffered
  <2>6. restarts = 0 => \A k \in Messages : sent'[k] > 0 =>
                          received[k] > 0 \/ \E i \in DOMAIN b : b[i] = k
    BY Zenon, <1>1, <1>4, <2>5 DEF Accounted
  <2> QED
    BY Zenon, <1>3, <2>1, <2>2, <2>3, <2>4, <2>6 DEF Accounted, Buffered
<1>9. ASSUME policy = "none"
      PROVE  AtMostOnce'
  <2>1. AtMostOnce /\ settled' = settled \cup {m}
    BY Zenon, <1>3, <1>9 DEF StreamInv
  <2>2. ~(sent[m] > 0) /\ ~(received[m] > 0)
    BY Zenon, <1>1, <2>1 DEF AtMostOnce, Accounted
  <2>3. \A i \in DOMAIN buffer : buffer[i] # m
    BY Zenon, <1>1, <2>2 DEF Accounted
  <2>4. \A i, j \in DOMAIN b : b[i] = b[j] => i = j
    BY Zenon, <1>2, <1>6, <2>1, <2>3 DEF AtMostOnce
  <2>5. \A i \in DOMAIN b : received[b[i]] > 0 => i = 1 /\ inHandler
    BY Zenon, <1>2, <1>6, <2>1, <2>2 DEF AtMostOnce
  <2>6. \A k \in Messages : sent'[k] > 0 => k \in settled'
    BY Zenon, <1>4, <2>1 DEF AtMostOnce
  <2> QED
    BY Zenon, <1>3, <2>1, <2>4, <2>5, <2>6 DEF AtMostOnce
<1>10. policy = "explicit" => \A k \in settled' : received'[k] > 0
  BY Zenon, <1>3 DEF StreamInv
<1> QED
  BY Zenon, <1>3, <1>5, <1>8, <1>9, <1>10 DEF StreamInv

LEMMA ReceiveStep ==
  ASSUME StreamInv, NEW m \in Messages, ReceiveOrder(m)
  PROVE  StreamInv'
<1>1. StreamTypes /\ Accounted
  BY Zenon DEF StreamInv
<1>2. /\ buffer # <<>> /\ ~inHandler /\ Head(buffer) = m /\ inHandler' = TRUE
      /\ received' = [received EXCEPT ![m] = received[m] + 1]
      /\ UNCHANGED <<policy, streamed, sent, settled, buffer, restarts>>
  BY Zenon DEF ReceiveOrder
<1>3. buffer[1] = m /\ 1 \in DOMAIN buffer /\ \A i \in DOMAIN buffer : buffer[i] \in Messages
  BY <1>1, <1>2, TailAt DEF StreamTypes
<1>4. /\ received' \in [Messages -> Nat] /\ received'[m] = received[m] + 1 /\ received'[m] > 0
      /\ \A k \in Messages : k # m => received'[k] = received[k]
      /\ \A k \in Messages : received[k] > 0 => received'[k] > 0
  BY <1>1, <1>2 DEF StreamTypes
<1>5. StreamTypes'
  BY Zenon, <1>1, <1>2, <1>4 DEF StreamTypes
<1>6. Accounted'
  <2>1. sent[m] > 0
    BY Zenon, <1>1, <1>3 DEF Accounted
  <2>2. /\ \A k \in settled : sent[k] > 0
        /\ \A i \in DOMAIN buffer : sent[buffer[i]] > 0
        /\ \A k \in Messages : received'[k] > 0 => sent[k] > 0
        /\ buffer # <<>> /\ received'[Head(buffer)] > 0
    BY Zenon, <1>1, <1>2, <1>4, <2>1 DEF Accounted
  <2>3. restarts = 0 => \A k \in Messages : sent[k] > 0 => received'[k] > 0 \/ Buffered(k)
    BY Zenon, <1>1, <1>4 DEF Accounted
  <2> QED
    BY Zenon, <1>2, <2>2, <2>3 DEF Accounted, Buffered
<1>7. ASSUME policy = "none"
      PROVE  AtMostOnce'
  <2>1. AtMostOnce
    BY Zenon, <1>7 DEF StreamInv
  <2>2. received[m] = 0
    BY <1>1, <1>2, <1>3, <2>1 DEF AtMostOnce, StreamTypes
  <2>3. \A k \in Messages : received'[k] <= 1
    BY <1>4, <2>1, <2>2 DEF AtMostOnce
  <2>4. \A i \in DOMAIN buffer : received'[buffer[i]] > 0 => i = 1
    BY Zenon, <1>2, <1>3, <1>4, <2>1 DEF AtMostOnce
  <2> QED
    BY Zenon, <1>2, <2>1, <2>3, <2>4 DEF AtMostOnce
<1>8. policy = "explicit" => \A k \in settled : received'[k] > 0
  BY Zenon, <1>1, <1>4 DEF StreamInv, StreamTypes
<1> QED
  BY Zenon, <1>2, <1>5, <1>6, <1>7, <1>8 DEF StreamInv

LEMMA EndStep ==
  ASSUME StreamInv, CallbackEnds
  PROVE  StreamInv'
<1> DEFINE t == Tail(buffer)
           m == Head(buffer)
<1>1. StreamTypes /\ Accounted /\ buffer # <<>> /\ received[m] > 0
  BY Zenon DEF StreamInv, CallbackEnds, Accounted
<1>2. /\ t \in Seq(Messages) /\ m \in Messages /\ m = buffer[1] /\ Len(buffer) \in Nat \ {0}
      /\ DOMAIN buffer = 1 .. Len(buffer) /\ DOMAIN t = 1 .. Len(buffer) - 1
      /\ \A i \in 1 .. Len(buffer) - 1 : t[i] = buffer[i + 1]
  BY Zenon, <1>1, TailAt DEF StreamTypes
<1>3. /\ buffer' = t /\ inHandler' = FALSE
      /\ settled' = IF policy = "explicit" THEN settled \cup {m} ELSE settled
      /\ UNCHANGED <<policy, streamed, sent, received, restarts>>
  BY Zenon DEF CallbackEnds
<1> HIDE DEF t, m
<1>4. \A i \in DOMAIN t : i + 1 \in DOMAIN buffer /\ t[i] = buffer[i + 1] /\ i + 1 # 1
  BY <1>2
<1>5. \A i \in DOMAIN buffer : i = 1 \/ \E j \in DOMAIN t : t[j] = buffer[i]
  <2> SUFFICES ASSUME NEW i \in DOMAIN buffer, i # 1 PROVE \E j \in DOMAIN t : t[j] = buffer[i]
    OBVIOUS
  <2>1. i - 1 \in DOMAIN t /\ t[i - 1] = buffer[i]
    BY <1>2
  <2> QED
    BY Zenon, <2>1
<1>6. StreamTypes'
  BY Zenon, <1>1, <1>2, <1>3 DEF StreamTypes
<1>7. sent[m] > 0
  BY Zenon, <1>1, <1>2 DEF Accounted
<1>8. Accounted'
  <2>1. \A k \in settled' : sent[k] > 0
    BY Zenon, <1>1, <1>3, <1>7 DEF Accounted
  <2>2. \A i \in DOMAIN t : sent[t[i]] > 0
    BY Zenon, <1>1, <1>4 DEF Accounted
  <2>3. \A k \in Messages : Buffered(k) => k = m \/ \E j \in DOMAIN t : t[j] = k
    BY Zenon, <1>2, <1>5 DEF Buffered
  <2>4. restarts = 0 => \A k \in Messages : sent[k] > 0 =>
                          received[k] > 0 \/ \E j \in DOMAIN t : t[j] = k
    BY Zenon, <1>1, <2>3 DEF Accounted
  <2> QED
    BY Zenon, <1>1, <1>3, <2>1, <2>2, <2>4 DEF Accounted, Buffered
<1>9. ASSUME policy = "none"
      PROVE  AtMostOnce'
  <2>1. AtMostOnce /\ settled' = settled
    BY Zenon, <1>3, <1>9 DEF StreamInv
  <2>2. \A i, j \in DOMAIN t : t[i] = t[j] => i = j
    BY <1>2, <1>4, <2>1 DEF AtMostOnce
  <2>3. \A i \in DOMAIN t : ~(received[t[i]] > 0)
    BY Zenon, <1>4, <2>1 DEF AtMostOnce
  <2> QED
    BY Zenon, <1>3, <2>1, <2>2, <2>3 DEF AtMostOnce
<1>10. policy = "explicit" => \A k \in settled' : received[k] > 0
  BY Zenon, <1>1, <1>3 DEF StreamInv
<1> QED
  BY Zenon, <1>3, <1>6, <1>8, <1>9, <1>10 DEF StreamInv

LEMMA CutStep ==
  ASSUME StreamInv, Cut
  PROVE  StreamInv'
<1>1. StreamTypes /\ Accounted
  BY Zenon DEF StreamInv
<1>2. /\ restarts' = restarts + 1 /\ buffer' = <<>> /\ inHandler' = FALSE
      /\ UNCHANGED <<policy, streamed, sent, settled, received>>
  BY Zenon DEF Cut
<1>3. restarts' \in Nat /\ restarts' # 0 /\ <<>> \in Seq(Messages) /\ DOMAIN buffer' = {}
  BY <1>1, <1>2 DEF StreamTypes
<1>4. StreamTypes'
  BY Zenon, <1>1, <1>2, <1>3 DEF StreamTypes
<1>5. Accounted'
  BY Zenon, <1>1, <1>2, <1>3 DEF Accounted
<1>6. policy = "none" => AtMostOnce'
  BY Zenon, <1>2, <1>3 DEF StreamInv, AtMostOnce
<1> QED
  BY Zenon, <1>2, <1>4, <1>5, <1>6 DEF StreamInv

\* The inductive invariant of the order stream.
THEOREM StreamInductive == StreamSpec => []StreamInv
<1>1. StreamInit => StreamInv
  <2> SUFFICES ASSUME StreamInit PROVE StreamInv
    OBVIOUS
  <2>1. \A m \in Messages : sent[m] = 0 /\ received[m] = 0
    BY Zenon DEF StreamInit
  <2>2. /\ sent \in [Messages -> Nat] /\ received \in [Messages -> Nat]
        /\ buffer \in Seq(Messages) /\ DOMAIN buffer = {} /\ restarts \in Nat
    BY DEF StreamInit
  <2>3. StreamTypes /\ inHandler = FALSE /\ settled = {}
    BY Zenon, <2>2 DEF StreamInit, StreamTypes, SubscribeEphemeral, SubscribeEventSourcing
  <2> QED
    BY <2>1, <2>2, <2>3 DEF StreamInv, Accounted, AtMostOnce
<1>2. StreamInv /\ [StreamNext]_streamVars => StreamInv'
  <2> SUFFICES ASSUME StreamInv, [StreamNext]_streamVars PROVE StreamInv'
    OBVIOUS
  <2>1. CASE \/ ConnectNats \/ RegisterListener \/ UNCHANGED streamVars
             \/ \E m \in Messages : PublishOrder(m)
    <3>1. streamed' \subseteq Messages /\
          UNCHANGED <<policy, sent, settled, buffer, inHandler, received, restarts>>
      BY Zenon, <2>1 DEF ConnectNats, RegisterListener, PublishOrder, streamVars, StreamInv, StreamTypes
    <3> QED
      BY Zenon, <3>1 DEF StreamInv, StreamTypes, Accounted, AtMostOnce, Buffered
  <2>2. CASE LinkLost \/ CloseNats
    BY Zenon, <2>2, CutStep DEF LinkLost, CloseNats
  <2>3. CASE CallbackEnds
    BY Zenon, <2>3, EndStep
  <2>4. ASSUME NEW m \in Messages, SendToClient(m) \/ ReceiveOrder(m)
        PROVE  StreamInv'
    BY Zenon, <2>4, SendStep, ReceiveStep
  <2> QED
    BY Zenon, <2>1, <2>2, <2>3, <2>4 DEF StreamNext
<1> QED
  BY <1>1, <1>2, PTL DEF StreamSpec

\* At most once without acknowledgements, at least once before a message is settled
\* with them, and nothing lost while nothing breaks: for any MaxDeliver and any number
\* of restarts.
THEOREM Delivered == StreamSpec => []DeliveryGuarantee
<1>1. StreamInv => DeliveryGuarantee
  <2> SUFFICES ASSUME StreamInv PROVE DeliveryGuarantee
    OBVIOUS
  <2>1. ASSUME restarts = 0, NEW m \in streamed
        PROVE  received[m] > 0 \/ Buffered(m) \/ Deliverable(m)
    <3>1. m \in Messages /\ sent[m] \in Nat
      BY Zenon DEF StreamInv, StreamTypes
    <3>2. CASE sent[m] > 0
      BY Zenon, <2>1, <3>1, <3>2 DEF StreamInv, Accounted
    <3>3. CASE sent[m] = 0
      BY <2>1, <3>1, <3>3, StreamAssumption DEF StreamInv, Accounted, Deliverable
    <3> QED
      BY <3>1, <3>2, <3>3
  <2> QED
    BY Zenon, <2>1 DEF StreamInv, AtMostOnce, DeliveryGuarantee
<1> QED
  BY <1>1, StreamInductive, PTL

-------------------------------------------------------------------------------
(* The operator's connections.                                                *)

Lines == Operators \X Nat \X Names

\* A line that is being sent was typed.
ControlInv ==
  /\ executed \in Seq(Lines) /\ events \in Seq(Lines)
  /\ session \in [Operators -> {"none", "reading", "sending", "closed"}]
  /\ line \in [Operators -> Nat] /\ typed \in [Operators -> Names]
  /\ \A o \in Operators : session[o] = "sending" => line[o] > 0
  /\ LinesInOrder

\* Sending an event puts it last of all that was taken, and executing one changes
\* nothing of that.
LEMMA ConcatAppend ==
  ASSUME NEW S, NEW s \in Seq(S), NEW t \in Seq(S), NEW x \in S
  PROVE  s \o t \in Seq(S) /\ s \o Append(t, x) = Append(s \o t, x)
  OBVIOUS

LEMMA ConcatTail ==
  ASSUME NEW S, NEW s \in Seq(S), NEW t \in Seq(S), t # <<>>
  PROVE  Append(s, Head(t)) \o Tail(t) = s \o t
  OBVIOUS

\* A step that neither sends nor executes leaves the lines as they are.
LEMMA QuietStep ==
  ASSUME ControlInv, UNCHANGED <<executed, events>>,
         session' \in [Operators -> {"none", "reading", "sending", "closed"}],
         line' \in [Operators -> Nat], typed' \in [Operators -> Names],
         \A o \in Operators : session'[o] = "sending" => line'[o] > 0,
         \A o \in Operators : SentLines(o)' = SentLines(o)
  PROVE  ControlInv'
<1>1. Taken' = Taken
  BY Zenon DEF Taken
<1>2. LinesInOrder'
  <2>1. \A o \in Operators :
          {Taken'[i][2] : i \in {j \in DOMAIN Taken' : Taken'[j][1] = o}} = 1 .. SentLines(o)'
    BY <1>1 DEF ControlInv, LinesInOrder
  <2>2. \A i, j \in DOMAIN Taken' :
          i < j /\ Taken'[i][1] = Taken'[j][1] => Taken'[i][2] < Taken'[j][2]
    BY Zenon, <1>1 DEF ControlInv, LinesInOrder
  <2> QED
    BY Zenon, <2>1, <2>2 DEF LinesInOrder
<1> QED
  BY Zenon, <1>2 DEF ControlInv

LEMMA ReadLineStep ==
  ASSUME ControlInv, NEW o \in Operators, NEW n \in Names, ReadLine(o, n)
  PROVE  ControlInv'
<1>1. /\ session[o] = "reading" /\ session' = [session EXCEPT ![o] = "sending"]
      /\ line' = [line EXCEPT ![o] = line[o] + 1] /\ typed' = [typed EXCEPT ![o] = n]
      /\ UNCHANGED <<executed, events, loop>>
  BY Zenon DEF ReadLine
<1>2. /\ session' \in [Operators -> {"none", "reading", "sending", "closed"}]
      /\ line' \in [Operators -> Nat] /\ typed' \in [Operators -> Names]
  BY <1>1 DEF ControlInv
<1>3. \A k \in Operators : session'[k] = "sending" => line'[k] > 0
  BY <1>1 DEF ControlInv
<1>4. \A k \in Operators : SentLines(k)' = SentLines(k)
  BY <1>1 DEF ControlInv, SentLines
<1> QED
  BY Zenon, <1>1, <1>2, <1>3, <1>4, QuietStep

LEMMA SessionStep ==
  ASSUME ControlInv, NEW o \in Operators, AcceptOperator(o) \/ HangUp(o)
  PROVE  ControlInv'
<1>1. PICK v \in {"reading", "closed"} :
        /\ session[o] # "sending" /\ session' = [session EXCEPT ![o] = v]
        /\ UNCHANGED <<line, typed, executed, events, loop>>
  BY Zenon DEF AcceptOperator, HangUp
<1>2. session' \in [Operators -> {"none", "reading", "sending", "closed"}]
  BY Zenon, <1>1 DEF ControlInv
<1>3. \A k \in Operators : session'[k] = "sending" => session[k] = "sending"
  BY Zenon, <1>1 DEF ControlInv
<1>4. \A k \in Operators : SentLines(k)' = SentLines(k)
  BY Zenon, <1>1 DEF ControlInv, SentLines
<1> QED
  BY Zenon, <1>1, <1>2, <1>3, <1>4, QuietStep DEF ControlInv

LEMMA SendEventStep ==
  ASSUME ControlInv, NEW o \in Operators, SendEvent(o)
  PROVE  ControlInv'
<1> DEFINE e == Event(o, line[o], typed[o])
<1>1. /\ session[o] = "sending" /\ session' = [session EXCEPT ![o] = "reading"]
      /\ events' = Append(events, e)
      /\ UNCHANGED <<line, typed, executed, loop>>
  BY Zenon DEF SendEvent
<1>2. e \in Lines /\ e[1] = o /\ e[2] = line[o] /\ line[o] \in Nat \ {0}
  BY <1>1 DEF ControlInv, Lines, Event
<1> HIDE DEF e
<1>3. Taken \in Seq(Lines) /\ Taken' = Append(Taken, e) /\ events' \in Seq(Lines)
  BY <1>1, <1>2, ConcatAppend DEF ControlInv, Taken
<1>4. /\ Len(Taken) \in Nat /\ DOMAIN Taken = 1 .. Len(Taken)
      /\ DOMAIN Taken' = 1 .. Len(Taken) + 1
      /\ \A i \in 1 .. Len(Taken) : Taken'[i] = Taken[i]
      /\ Taken'[Len(Taken) + 1] = e
  BY <1>2, <1>3, AppendAt
<1>5. /\ session' \in [Operators -> {"none", "reading", "sending", "closed"}]
      /\ \A k \in Operators : session'[k] = "sending" => session[k] = "sending"
  BY Zenon, <1>1 DEF ControlInv
<1>6. /\ SentLines(o) = line[o] - 1 /\ SentLines(o)' = line[o]
      /\ \A k \in Operators : k # o => SentLines(k)' = SentLines(k)
  BY Zenon, <1>1 DEF ControlInv, SentLines
<1>7. LinesInOrder
  BY Zenon DEF ControlInv
<1>8. \A k \in Operators :
        {Taken'[i][2] : i \in {j \in DOMAIN Taken' : Taken'[j][1] = k}} = 1 .. SentLines(k)'
  <2> SUFFICES ASSUME NEW k \in Operators
               PROVE  {Taken'[i][2] : i \in {j \in DOMAIN Taken' : Taken'[j][1] = k}}
                        = 1 .. SentLines(k)'
    OBVIOUS
  <2> DEFINE old == {Taken[i][2] : i \in {j \in DOMAIN Taken : Taken[j][1] = k}}
             new == {Taken'[i][2] : i \in {j \in DOMAIN Taken' : Taken'[j][1] = k}}
  <2>1. old = 1 .. SentLines(k)
    BY Zenon, <1>7 DEF LinesInOrder
  <2>2. CASE k = o
    <3>1. new = old \cup {line[o]}
      BY <1>2, <1>4, <2>2
    <3> HIDE DEF old, new
    <3>2. new = 1 .. line[o]
      BY <1>2, <1>6, <2>1, <2>2, <3>1
    <3> QED
      BY Zenon, <1>6, <2>2, <3>2 DEF new
  <2>3. CASE k # o
    <3>1. new = old
      BY <1>2, <1>4, <2>3
    <3> HIDE DEF old, new
    <3> QED
      BY Zenon, <1>6, <2>1, <2>3, <3>1 DEF new
  <2> QED
    BY Zenon, <2>2, <2>3
<1>9. \A i, j \in DOMAIN Taken' :
        i < j /\ Taken'[i][1] = Taken'[j][1] => Taken'[i][2] < Taken'[j][2]
  <2> SUFFICES ASSUME NEW i \in DOMAIN Taken', NEW j \in DOMAIN Taken',
                      i < j, Taken'[i][1] = Taken'[j][1]
               PROVE  Taken'[i][2] < Taken'[j][2]
    OBVIOUS
  <2>1. i \in DOMAIN Taken /\ Taken'[i] = Taken[i]
    BY <1>4
  <2>2. CASE j \in DOMAIN Taken
    BY Zenon, <1>4, <1>7, <2>1, <2>2 DEF LinesInOrder
  <2>3. CASE j \notin DOMAIN Taken
    <3>1. Taken'[j] = e
      BY <1>4, <2>3
    <3>2. Taken[i][2] \in 1 .. SentLines(o)
      <4>1. i \in {k \in DOMAIN Taken : Taken[k][1] = o}
        BY Zenon, <1>2, <2>1, <3>1
      <4>2. {Taken[l][2] : l \in {k \in DOMAIN Taken : Taken[k][1] = o}} = 1 .. SentLines(o)
        BY Zenon, <1>7 DEF LinesInOrder
      <4> QED
        BY Zenon, <4>1, <4>2
    <3> QED
      BY <1>2, <1>6, <2>1, <3>1, <3>2
  <2> QED
    BY Zenon, <2>2, <2>3
<1>10. LinesInOrder'
  BY Zenon, <1>8, <1>9 DEF LinesInOrder
<1> QED
  BY Zenon, <1>1, <1>3, <1>5, <1>10 DEF ControlInv

LEMMA ControlStep ==
  ASSUME ControlInv, Control
  PROVE  ControlInv'
<1> DEFINE e == Head(events)
<1>1. /\ events # <<>> /\ executed' = Append(executed, e) /\ events' = Tail(events)
      /\ UNCHANGED <<session, line, typed>>
  BY Zenon DEF Control
<1>2. executed \in Seq(Lines) /\ events \in Seq(Lines) /\ e \in Lines
  BY <1>1 DEF ControlInv
<1>3. executed' \in Seq(Lines) /\ events' \in Seq(Lines) /\ Taken' = Taken
  BY <1>1, <1>2, ConcatTail DEF Taken
<1>4. \A o \in Operators : SentLines(o)' = SentLines(o)
  BY Zenon, <1>1 DEF SentLines
<1>5. LinesInOrder'
  <2>1. \A o \in Operators :
          {Taken'[i][2] : i \in {j \in DOMAIN Taken' : Taken'[j][1] = o}} = 1 .. SentLines(o)'
    BY <1>3, <1>4 DEF ControlInv, LinesInOrder
  <2>2. \A i, j \in DOMAIN Taken' :
          i < j /\ Taken'[i][1] = Taken'[j][1] => Taken'[i][2] < Taken'[j][2]
    BY Zenon, <1>3 DEF ControlInv, LinesInOrder
  <2> QED
    BY Zenon, <2>1, <2>2 DEF LinesInOrder
<1> QED
  BY Zenon, <1>1, <1>3, <1>5 DEF ControlInv

\* The inductive invariant of the operator's side.
THEOREM ControlInductive == ControlSpec => []ControlInv
<1>1. ControlInit => ControlInv
  <2> SUFFICES ASSUME ControlInit PROVE ControlInv
    OBVIOUS
  <2>1. Taken = <<>> /\ DOMAIN Taken = {}
        /\ executed \in Seq(Lines) /\ events \in Seq(Lines)
    BY DEF ControlInit, Taken
  <2>2. /\ session \in [Operators -> {"none", "reading", "sending", "closed"}]
        /\ line \in [Operators -> Nat] /\ typed \in [Operators -> Names]
    BY Zenon DEF ControlInit, Names
  <2>3. \A o \in Operators : session[o] # "sending" /\ 1 .. SentLines(o) = {}
    BY DEF ControlInit, SentLines
  <2>4. LinesInOrder
    BY Zenon, <2>1, <2>3 DEF LinesInOrder
  <2> QED
    BY Zenon, <2>1, <2>2, <2>3, <2>4 DEF ControlInv
<1>2. ControlInv /\ [ControlNext]_controlVars => ControlInv'
  <2> SUFFICES ASSUME ControlInv, [ControlNext]_controlVars PROVE ControlInv'
    OBVIOUS
  <2>1. CASE ListenerClosed \/ UNCHANGED controlVars
    <3>1. UNCHANGED <<session, line, typed, events, loop, executed>>
      BY Zenon, <2>1 DEF ListenerClosed, controlVars
    <3>2. \A o \in Operators : SentLines(o)' = SentLines(o)
      BY Zenon, <3>1 DEF SentLines
    <3> QED
      BY Zenon, <3>1, <3>2, QuietStep DEF ControlInv
  <2>2. CASE Control
    BY Zenon, <2>2, ControlStep
  <2>3. ASSUME NEW o \in Operators,
               AcceptOperator(o) \/ SendEvent(o) \/ HangUp(o) \/ \E n \in Names : ReadLine(o, n)
        PROVE  ControlInv'
    BY Zenon, <2>3, SessionStep, SendEventStep, ReadLineStep
  <2> QED
    BY Zenon, <2>1, <2>2, <2>3 DEF ControlNext
<1> QED
  BY <1>1, <1>2, PTL DEF ControlSpec

\* However many operators there are and however full the channel is, no line is lost,
\* doubled or overtaken by a later one of its connection, the loop's end or not.
THEOREM InOrder == ControlSpec => []LinesInOrder
<1>1. ControlInv => LinesInOrder
  BY Zenon DEF ControlInv
<1> QED
  BY <1>1, ControlInductive, PTL

-------------------------------------------------------------------------------
(* The data sources.                                                          *)

SourceTypes ==
  /\ databases \in Seq(DatabaseConfigs) /\ next \in Nat \ {0} /\ next <= Len(databases) + 1
  /\ held \in [RegisteredSQLAdapters -> Nat] /\ result \in [Aliases -> Nat]
  /\ alias \in [Aliases -> RegisteredSQLAdapters \cup {"none"}] /\ left \subseteq Aliases

\* i is the last of the databases opened so far that has the alias, or the adapter; 0
\* if there is none.
LastAlias(n, i) ==
  /\ i = 0 => \A j \in 1 .. next - 1 : databases[j].alias # n
  /\ i # 0 => /\ i \in 1 .. next - 1 /\ databases[i].alias = n
              /\ \A j \in i + 1 .. next - 1 : databases[j].alias # n

LastAdapter(a, i) ==
  /\ i = 0 => \A j \in 1 .. next - 1 : databases[j].adapter # a
  /\ i # 0 => /\ i \in 1 .. next - 1 /\ databases[i].adapter = a
              /\ \A j \in i + 1 .. next - 1 : databases[j].adapter # a

\* A later database with the adapter or the alias of i.
Shared(i) ==
  \E j \in i + 1 .. Len(databases) :
    databases[j].adapter = databases[i].adapter \/ databases[j].alias = databases[i].alias

\* The maps are those of the databases opened so far.
Mapped ==
  /\ \A n \in Aliases : LastAlias(n, result[n])
  /\ \A n \in Aliases :
       alias[n] = IF result[n] = 0 THEN "none" ELSE databases[result[n]].adapter
  /\ \A a \in RegisteredSQLAdapters : LastAdapter(a, held[a])
  /\ \A i \in 1 .. next - 1 : InitConnection(databases[i]) # "error"

SourceInv ==
  /\ SourceTypes /\ Mapped
  /\ boot \in {"connecting", "connected"} => open = 1 .. next - 1
  /\ boot \in {"config", "panicked"} => open = {}
  /\ boot = "config" => next = 1
  /\ boot \in {"connected", "closing", "closed"} => next = Len(databases) + 1
  /\ boot \in {"closing", "closed"} =>
       /\ open \subseteq 1 .. Len(databases)
       /\ \A i \in open : Shared(i) \/ databases[i].alias \in left
  /\ boot = "closed" => left = {}

\* A connection comes from a registered adapter and is of one of the two types.
LEMMA ConnectionKinds ==
  ASSUME NEW d, InitConnection(d) # "error"
  PROVE  d.adapter \in RegisteredSQLAdapters /\ InitConnection(d) \in {"sql", "gorm"}
<1>1. d.adapter \in RegisteredSQLAdapters
  BY Zenon DEF InitConnection
<1>2. /\ Postgres(d) \in {"sql", "error"} /\ MySQL(d) \in {"sql", "error"}
      /\ PostgresGorm(d) \in {"gorm", "error"} /\ SQLite(d) \in {"sql", "error"}
      /\ SQLiteGorm(d) \in {"gorm", "error"}
  BY Zenon DEF Postgres, MySQL, PostgresGorm, SQLite, SQLiteGorm
<1>3. InitConnection(d) \in {"sql", "gorm", "error"}
  BY <1>1, <1>2 DEF InitConnection, RegisteredSQLAdapters
<1> QED
  BY Zenon, <1>1, <1>3

\* Connect keeps its maps right, database by database.
LEMMA ConnectStep ==
  ASSUME SourceInv, ConnectNext
  PROVE  SourceInv'
<1> DEFINE d == databases[next]
<1>1. /\ boot = "connecting" /\ next <= Len(databases) /\ InitConnection(d) # "error"
      /\ open' = open \cup {next} /\ held' = [held EXCEPT ![d.adapter] = next]
      /\ result' = [result EXCEPT ![d.alias] = next]
      /\ alias' = [alias EXCEPT ![d.alias] = d.adapter] /\ next' = next + 1
      /\ UNCHANGED <<databases, boot, left>>
  BY Zenon DEF ConnectNext, Opened
<1>2. SourceTypes /\ Mapped /\ open = 1 .. next - 1
  BY Zenon, <1>1 DEF SourceInv
<1>3. d.adapter \in RegisteredSQLAdapters /\ d.alias \in Aliases
  <2>1. d \in DatabaseConfigs
    BY <1>1, <1>2 DEF SourceTypes
  <2> QED
    BY <1>1, <2>1, ConnectionKinds DEF DatabaseConfigs
<1> HIDE DEF d
<1>4. /\ result' \in [Aliases -> Nat] /\ held' \in [RegisteredSQLAdapters -> Nat]
      /\ alias' \in [Aliases -> RegisteredSQLAdapters \cup {"none"}]
      /\ next' \in Nat \ {0} /\ next' <= Len(databases) + 1
  BY <1>1, <1>2, <1>3 DEF SourceTypes
<1>5. SourceTypes'
  BY Zenon, <1>1, <1>2, <1>4 DEF SourceTypes
<1>6. /\ result'[d.alias] = next /\ alias'[d.alias] = d.adapter /\ held'[d.adapter] = next
      /\ \A n \in Aliases : n # d.alias => result'[n] = result[n] /\ alias'[n] = alias[n]
      /\ \A a \in RegisteredSQLAdapters : a # d.adapter => held'[a] = held[a]
  BY Zenon, <1>1, <1>2, <1>3 DEF SourceTypes
<1>7. \A n \in Aliases : LastAlias(n, result[n])'
  <2> SUFFICES ASSUME NEW n \in Aliases PROVE LastAlias(n, result[n])'
    OBVIOUS
  <2>1. CASE n = d.alias
    BY <1>1, <1>2, <1>6, <2>1 DEF LastAlias, SourceTypes, d
  <2>2. CASE n # d.alias
    BY <1>1, <1>2, <1>6, <2>2 DEF LastAlias, SourceTypes, Mapped, d
  <2> QED
    BY Zenon, <2>1, <2>2
<1>8. \A a \in RegisteredSQLAdapters : LastAdapter(a, held[a])'
  <2> SUFFICES ASSUME NEW a \in RegisteredSQLAdapters PROVE LastAdapter(a, held[a])'
    OBVIOUS
  <2>1. CASE a = d.adapter
    BY <1>1, <1>2, <1>6, <2>1 DEF LastAdapter, SourceTypes, d
  <2>2. CASE a # d.adapter
    BY <1>1, <1>2, <1>6, <2>2 DEF LastAdapter, SourceTypes, Mapped, d
  <2> QED
    BY Zenon, <2>1, <2>2
<1>9. \A n \in Aliases :
        alias'[n] = IF result'[n] = 0 THEN "none" ELSE databases'[result'[n]].adapter
  BY <1>1, <1>2, <1>6 DEF Mapped, SourceTypes, d
<1>10. \A k \in 1 .. next' - 1 : InitConnection(databases'[k]) # "error"
  BY <1>1, <1>2 DEF Mapped, SourceTypes, d
<1>11. Mapped'
  BY Zenon, <1>7, <1>8, <1>9, <1>10 DEF Mapped
<1>12. open' = 1 .. next' - 1
  BY <1>1, <1>2 DEF SourceTypes
<1> QED
  BY Zenon, <1>1, <1>5, <1>11, <1>12 DEF SourceInv

\* When the shutdown begins, a database that no later one shares anything with is still
\* the one its adapter holds, and its alias still names that adapter.
LEMMA SoleOwner ==
  ASSUME SourceTypes, Mapped, next = Len(databases) + 1,
         NEW i \in 1 .. Len(databases), ~Shared(i)
  PROVE  /\ databases[i].alias \in Aliases /\ databases[i].adapter \in RegisteredSQLAdapters
         /\ alias[databases[i].alias] = databases[i].adapter
         /\ held[databases[i].adapter] = i
<1> DEFINE n == databases[i].alias
           a == databases[i].adapter
<1>1. Len(databases) \in Nat /\ next - 1 = Len(databases) /\ i \in 1 .. next - 1 /\ i \in Nat
  BY DEF SourceTypes
<1>2. n \in Aliases /\ a \in RegisteredSQLAdapters
  <2>1. databases[i] \in DatabaseConfigs
    BY <1>1 DEF SourceTypes
  <2>2. InitConnection(databases[i]) # "error"
    BY Zenon, <1>1 DEF Mapped
  <2> QED
    BY Zenon, <2>1, <2>2, ConnectionKinds DEF DatabaseConfigs
<1>3. \A j \in i + 1 .. next - 1 : databases[j].adapter # a /\ databases[j].alias # n
  BY Zenon, <1>1 DEF Shared
<1>4. result[n] = i
  <2>1. LastAlias(n, result[n]) /\ result[n] \in Nat
    BY Zenon, <1>2 DEF Mapped, SourceTypes
  <2> QED
    BY <1>1, <1>3, <2>1 DEF LastAlias
<1>5. held[a] = i
  <2>1. LastAdapter(a, held[a]) /\ held[a] \in Nat
    BY Zenon, <1>2 DEF Mapped, SourceTypes
  <2> QED
    BY <1>1, <1>3, <2>1 DEF LastAdapter
<1>6. alias[n] = a
  BY <1>1, <1>2, <1>4 DEF Mapped
<1> QED
  BY Zenon, <1>2, <1>5, <1>6

\* Nothing of what the maps say depends on anything but the maps and the databases.
LEMMA MappedFrame ==
  ASSUME SourceTypes, Mapped, UNCHANGED <<databases, next, held, result, alias>>, left' \subseteq Aliases
  PROVE  SourceTypes' /\ Mapped'
  BY Zenon DEF SourceTypes, Mapped, LastAlias, LastAdapter

LEMMA SourceStart ==
  ASSUME SourceInit
  PROVE  SourceInv
<1>1. databases \in Seq(DatabaseConfigs) /\ Len(databases) \in Nat
  <2>1. PICK n \in 1 .. MaxDatabases : databases \in [1 .. n -> DatabaseConfigs]
    BY Zenon DEF SourceInit
  <2> QED
    BY <2>1
<1>2. /\ next = 1 /\ open = {} /\ left = {} /\ boot = "config"
      /\ held \in [RegisteredSQLAdapters -> Nat] /\ result \in [Aliases -> Nat]
      /\ \A n \in Aliases : result[n] = 0 /\ alias[n] = "none"
      /\ \A a \in RegisteredSQLAdapters : held[a] = 0
  BY Zenon DEF SourceInit
<1>3. alias \in [Aliases -> RegisteredSQLAdapters \cup {"none"}]
  BY Zenon DEF SourceInit
<1>4. SourceTypes
  BY <1>1, <1>2, <1>3 DEF SourceTypes
<1>5. Mapped
  <2>1. 1 .. next - 1 = {}
    BY <1>2
  <2> QED
    BY Zenon, <1>2, <2>1 DEF Mapped, LastAlias, LastAdapter
<1> QED
  BY Zenon, <1>2, <1>4, <1>5 DEF SourceInv

\* Closing an alias's adapter closes the database that only this alias leads to.
LEMMA CloseStep ==
  ASSUME SourceInv, NEW n \in Aliases, CloseAlias(n)
  PROVE  SourceInv'
<1>1. /\ boot = "closing" /\ left' = left \ {n} /\ open' = open \ {held[alias[n]]}
      /\ UNCHANGED <<databases, boot, next, held, result, alias>>
  BY Zenon DEF CloseAlias, Close
<1>2. /\ SourceTypes /\ Mapped /\ next = Len(databases) + 1 /\ open \subseteq 1 .. Len(databases)
      /\ \A i \in open : Shared(i) \/ databases[i].alias \in left
  BY Zenon, <1>1 DEF SourceInv
<1>3. SourceTypes' /\ Mapped'
  BY <1>1, <1>2, MappedFrame DEF SourceTypes
<1>4. \A i : Shared(i)' <=> Shared(i)
  BY Zenon, <1>1 DEF Shared
<1>5. ASSUME NEW i \in open'
      PROVE  Shared(i) \/ databases[i].alias \in left'
  <2>1. i \in open /\ i \in 1 .. Len(databases) /\ i # held[alias[n]]
    BY Zenon, <1>1, <1>2
  <2>2. ~Shared(i) => databases[i].alias # n
    BY Zenon, <1>2, <2>1, SoleOwner
  <2> QED
    BY Zenon, <1>1, <1>2, <2>1, <2>2
<1>6. open' \subseteq 1 .. Len(databases)
  BY Zenon, <1>1, <1>2
<1> QED
  BY <1>1, <1>2, <1>3, <1>4, <1>5, <1>6 DEF SourceInv

\* The inductive invariant of the data sources.
THEOREM SourceInductive == SourceSpec => []SourceInv
<1>1. SourceInit => SourceInv
  BY Zenon, SourceStart
<1>2. SourceInv /\ [SourceNext]_sourceVars => SourceInv'
  <2> SUFFICES ASSUME SourceInv, [SourceNext]_sourceVars PROVE SourceInv'
    OBVIOUS
  <2>1. SourceTypes /\ Mapped
    BY Zenon DEF SourceInv
  <2>2. ASSUME UNCHANGED <<databases, next, held, result, alias>>, left' \subseteq Aliases
        PROVE  SourceTypes' /\ Mapped' /\ \A i : Shared(i)' <=> Shared(i)
    BY Zenon, <2>1, <2>2, MappedFrame DEF Shared
  <2>3. ASSUME NEW readable \in BOOLEAN, NEW other \in BOOLEAN, NewConfig(readable, other)
        PROVE  SourceInv'
    <3>1. /\ boot = "config" /\ boot' \in {"connecting", "panicked"}
          /\ UNCHANGED <<databases, next, open, held, result, alias, left>>
      BY Zenon, <2>3 DEF NewConfig
    <3>2. open = {} /\ (boot' = "connecting" => next = 1)
      BY Zenon, <3>1 DEF SourceInv
    <3> QED
      BY <2>1, <2>2, <3>1, <3>2 DEF SourceInv, SourceTypes
  <2>4. CASE ConnectNext
    BY Zenon, <2>4, ConnectStep
  <2>5. CASE ConnectFails
    BY <2>1, <2>2, <2>5 DEF ConnectFails, SourceInv, SourceTypes
  <2>6. CASE Connected
    <3>1. next = Len(databases) + 1
      BY <2>1, <2>6 DEF Connected, SourceTypes
    <3> QED
      BY <2>1, <2>2, <2>6, <3>1 DEF Connected, SourceInv, SourceTypes
  <2>7. CASE Disconnect
    <3>1. /\ boot = "connected" /\ boot' = "closing" /\ left' = {n \in Aliases : alias[n] # "none"}
          /\ UNCHANGED <<databases, next, open, held, result, alias>>
      BY Zenon, <2>7 DEF Disconnect
    <3>2. next = Len(databases) + 1 /\ open = 1 .. Len(databases)
      BY <3>1, <2>1 DEF SourceInv, SourceTypes
    <3>3. \A i \in open : Shared(i) \/ databases[i].alias \in left'
      BY Zenon, <2>1, <3>1, <3>2, SoleOwner DEF RegisteredSQLAdapters
    <3> QED
      BY <2>2, <3>1, <3>2, <3>3 DEF SourceInv
  <2>8. CASE Disconnected
    BY Zenon, <2>1, <2>2, <2>8 DEF Disconnected, SourceInv, SourceTypes
  <2>9. ASSUME NEW n \in Aliases, CloseAlias(n)
        PROVE  SourceInv'
    BY Zenon, <2>9, CloseStep
  <2>10. CASE UNCHANGED sourceVars
    BY <2>1, <2>2, <2>10 DEF sourceVars, SourceInv, SourceTypes
  <2> QED
    BY Zenon, <2>3, <2>4, <2>5, <2>6, <2>7, <2>8, <2>9, <2>10 DEF SourceNext
<1> QED
  BY <1>1, <1>2, PTL DEF SourceSpec

\* With any number of databases and any sharing of adapters and aliases among them, an
\* alias stands for the last database configured under it, as that database's type.
THEOREM AliasesResolve == SourceSpec => []AliasResolves
<1>1. SourceInv => AliasResolves
  <2> SUFFICES ASSUME SourceInv, boot = "connected",
                      NEW k \in DOMAIN databases
               PROVE  LET n == databases[k].alias IN
                      /\ {ProvideGorm(n), ProvideSQL(n)} = {0, LastWith(n)}
                      /\ InitConnection(databases[LastWith(n)]) = "gorm" <=> ProvideGorm(n) # 0
                      /\ LastWith(n) \in open
    BY Zenon DEF AliasResolves
  <2> DEFINE n == databases[k].alias
  <2>1. /\ SourceTypes /\ Mapped /\ next - 1 = Len(databases) /\ open = 1 .. Len(databases)
        /\ Len(databases) \in Nat /\ DOMAIN databases = 1 .. Len(databases)
    BY DEF SourceInv, SourceTypes
  <2>2. n \in Aliases
    <3>1. databases[k] \in DatabaseConfigs
      BY <2>1 DEF SourceTypes
    <3> QED
      BY Zenon, <3>1 DEF DatabaseConfigs
  <2>3. LastAlias(n, result[n]) /\ result[n] \in Nat
    BY Zenon, <2>1, <2>2 DEF Mapped, SourceTypes
  <2> HIDE DEF n
  <2>4. /\ result[n] \in DOMAIN databases /\ result[n] # 0 /\ databases[result[n]].alias = n
        /\ \A j \in DOMAIN databases : databases[j].alias = n => j <= result[n]
    BY <2>1, <2>3 DEF LastAlias, n
  <2>5. \A i \in DOMAIN databases :
          databases[i].alias = n /\ (\A j \in DOMAIN databases : databases[j].alias = n => j <= i)
            => i = result[n]
    BY <2>1, <2>4
  <2>6. LastWith(n) = result[n]
    BY Zenon, <2>4, <2>5 DEF LastWith
  <2>7. InitConnection(databases[result[n]]) \in {"sql", "gorm"}
    BY <2>1, <2>4, ConnectionKinds DEF Mapped
  <2>8. /\ {ProvideGorm(n), ProvideSQL(n)} = {0, LastWith(n)}
        /\ InitConnection(databases[LastWith(n)]) = "gorm" <=> ProvideGorm(n) # 0
    BY <2>4, <2>6, <2>7 DEF ProvideGorm, ProvideSQL, Get, GetRaw
  <2> QED
    BY Zenon, <2>1, <2>4, <2>6, <2>8 DEF n
<1> QED
  BY <1>1, SourceInductive, PTL

\* Whatever the configuration shares, Disconnect closes every database that no later
\* one shares its adapter or its alias with, in whichever order it meets the aliases.
THEOREM OnlySharedLeak == SourceSpec => []LeakNeedsSharing
<1>1. SourceInv => LeakNeedsSharing
  BY Zenon DEF SourceInv, LeakNeedsSharing, Shared
<1> QED
  BY <1>1, SourceInductive, PTL

=================================================================================
