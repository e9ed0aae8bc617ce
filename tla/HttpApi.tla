-------------------------------- MODULE HttpApi --------------------------------
(***************************************************************************)
(* drivers/http: a request passes the request logger, the request id and   *)
(* the recovering middleware to a route's handler; what the handler        *)
(* returns goes back through the logger and, when it is an error, to       *)
(* HttpErrorHandler.  The routes are /health, /workers, GetBalance with    *)
(* the query handler behind it, and CreditPoints.                          *)
(*                                                                         *)
(* Echo is external: RequestLogger without HandleError reads the status of *)
(* the response, or of an echo.HTTPError, before the error handler runs;   *)
(* Recover has the error handler write the answer to a panic and returns   *)
(* no error.  A panic in the logger is outside Recover: net/http closes    *)
(* the connection, and an answer that is still in its buffer is lost.      *)
(* What crediting does to the account is module LoyaltyCredit.             *)
(***************************************************************************)
EXTENDS Naturals

CONSTANT Clients

VARIABLES
  alive,      \* the process is
  mode,       \* app.Config().App.Mode
  masterUp,   \* the manager has the master driver
  phase,      \* phase[c]: idle, handler, recovered, returned, error (handler), done
  route,
  header,     \* header[c]: the request brought its own id
  id,         \* id[c]: none, own or made: X-Request-ID of the response
  outcome,    \* outcome[c]: what the handler returned
  response    \* response[c]: what the client got

requestVars == <<phase, route, header, id, outcome, response>>
httpVars == <<alive, mode, masterUp, requestVars>>

Routes == {"health", "workers", "balance", "credit", "unknown"}

\* A handler wrote a reply itself, or returned an echo.HTTPError, an ApiError or
\* any other error; text says whose words the message is in.
Outcome(kind, code, text) == [kind |-> kind, code |-> code, text |-> text]
Outcomes ==
  [kind : {"reply", "http", "api", "error"}, code : {200, 201, 400, 404, 500},
   text : {"none", "data", "public", "internal"}]

\* Echo's response before anything is written to it.
Unwritten == Outcome("reply", 200, "data")

\* The client's view: a status, what the body shows and the id in it.
Response(code, text, rid) == [code |-> code, text |-> text, id |-> rid]
Aborted == Response(0, "none", "none")
Responses ==
  [code : {0, 200, 201, 400, 404, 500}, text : {"none", "data", "public", "internal"},
   id : {"none", "own", "made"}]

HttpTypeOK ==
  /\ alive \in BOOLEAN /\ mode \in {"development", "production"} /\ masterUp \in BOOLEAN
  /\ phase \in [Clients -> {"idle", "handler", "recovered", "returned", "error", "done"}]
  /\ route \in [Clients -> Routes] /\ header \in [Clients -> BOOLEAN]
  /\ id \in [Clients -> {"none", "own", "made"}]
  /\ outcome \in [Clients -> Outcomes] /\ response \in [Clients -> Responses]

HttpInit ==
  /\ alive = TRUE /\ mode \in {"development", "production"}
  /\ masterUp = FALSE
  /\ phase = [c \in Clients |-> "idle"] /\ route = [c \in Clients |-> "unknown"]
  /\ header = [c \in Clients |-> FALSE] /\ id = [c \in Clients |-> "none"]
  /\ outcome = [c \in Clients |-> Unwritten]
  /\ response = [c \in Clients |-> Aborted]

-------------------------------------------------------------------------------
\* A client sends its first or its next request; the RequestID middleware takes over
\* its id or makes one.
Receive(c, r, h) ==
  /\ alive /\ phase[c] \in {"idle", "done"}
  /\ phase' = [phase EXCEPT ![c] = "handler"]
  /\ route' = [route EXCEPT ![c] = r] /\ header' = [header EXCEPT ![c] = h]
  /\ id' = [id EXCEPT ![c] = IF h THEN "own" ELSE "made"]
  /\ outcome' = [outcome EXCEPT ![c] = Unwritten] /\ response' = [response EXCEPT ![c] = Aborted]
  /\ UNCHANGED <<alive, mode, masterUp>>

\* The master driver is appended to the manager, or the manager closes it.
MasterDriver ==
  /\ alive /\ masterUp' = ~masterUp
  /\ UNCHANGED <<alive, mode, requestVars>>

Returned(c, o) ==
  /\ outcome' = [outcome EXCEPT ![c] = o]
  /\ phase' = [phase EXCEPT ![c] = "returned"]
  /\ UNCHANGED <<alive, mode, masterUp, route, header, id, response>>

\* InitRoutes: both handlers look the master up and write their reply themselves.
CheckMaster(c) ==
  /\ phase[c] = "handler" /\ route[c] \in {"health", "workers"}
  /\ Returned(c, Outcome("reply", IF route[c] = "workers" /\ ~masterUp THEN 400 ELSE 200, "data"))

\* No route: echo's own error.
NoRoute(c) ==
  /\ phase[c] = "handler" /\ route[c] = "unknown"
  /\ Returned(c, Outcome("http", 404, "public"))

\* A handler panics; Recover catches it.
HandlerRecovered(c) ==
  /\ phase[c] = "handler" /\ route[c] # "unknown"
  /\ outcome' = [outcome EXCEPT ![c] = Outcome("error", 500, "internal")]
  /\ phase' = [phase EXCEPT ![c] = "recovered"]
  /\ UNCHANGED <<alive, mode, masterUp, route, header, id, response>>

\* NewServiceError: no error of the loyalty domain is a BaseException, so that each
\* becomes NewInternalServerError with the error's own words.
NewServiceError == Outcome("api", 500, "internal")

\* The cache both wirings pass never has a value, and keeps none.
CacheGet == FALSE

\* The read repository finds the customer's row, or returns an error when there is no
\* row or the query fails.
GetBalanceByCustomerID == {"row", "error"}

\* GetLoyaltyBalanceHandler.Handle: the cache, then the read repository.
HandleQuery == IF CacheGet THEN {"row"} ELSE GetBalanceByCustomerID

\* The controller replies with the result or turns the error into its own.
GetBalance(c) ==
  /\ phase[c] = "handler" /\ route[c] = "balance"
  /\ \E r \in HandleQuery :
       Returned(c, IF r = "row" THEN Outcome("reply", 200, "data") ELSE NewServiceError)

\* CreditPoints: the body does not bind.  The message is echo's error in full: the
\* decoder's own error, or only the words for a media type it does not support.
BindFails(c, text) ==
  /\ phase[c] = "handler" /\ route[c] = "credit"
  /\ Returned(c, Outcome("api", 400, text))

\* CreditPoints: the command succeeds or fails.
CreditAnswered(c, ok) ==
  /\ phase[c] = "handler" /\ route[c] = "credit"
  /\ Returned(c, IF ok THEN Outcome("reply", 201, "data") ELSE NewServiceError)

-------------------------------------------------------------------------------
(* The way back.                                                              *)

\* The status RequestLogger sees: the response's, which is 200 until something is
\* written, or an echo.HTTPError's.
LoggedStatus(o) == IF o.kind \in {"reply", "http"} THEN o.code ELSE 200

\* Mutant: LogError is not set, so that v.Error is always nil.
LoggerPanics_Unset(o) == LoggedStatus(o) >= 400

\* LogValuesFunc dereferences v.Error from 400 on, and a reply has none.
LoggerPanics(o) == LoggedStatus(o) >= 400 /\ o.kind = "reply"

Ends(c, r) ==
  /\ response' = [response EXCEPT ![c] = r]
  /\ phase' = [phase EXCEPT ![c] = "done"]

\* The request is logged; a reply then reaches the client, an error goes on to the
\* error handler.
LogRequest(c) ==
  /\ phase[c] = "returned"
  /\ \/ LoggerPanics(outcome[c]) /\ Ends(c, Aborted)
     \/ /\ outcome[c].kind = "reply" /\ ~LoggerPanics(outcome[c])
        /\ Ends(c, Response(outcome[c].code, outcome[c].text, "none"))
     \/ /\ outcome[c].kind # "reply" /\ ~LoggerPanics(outcome[c])
        /\ phase' = [phase EXCEPT ![c] = "error"] /\ UNCHANGED response
  /\ UNCHANGED <<alive, mode, masterUp, route, header, id, outcome>>

GetRequestId(c) == IF header[c] THEN "own" ELSE id[c]

Masked(o) == mode = "production" /\ o.code = 500

\* Mutant: the report is written, which has a message for every kind of error.
Body_Report(o) == IF o.kind = "api" /\ Masked(o) THEN "public" ELSE o.text

\* The body is the ApiError; for any other error it is null.
Body(o) ==
  IF o.kind = "api" THEN (IF Masked(o) THEN "public" ELSE o.text) ELSE "none"

BodyId(c) == IF outcome[c].kind = "api" THEN GetRequestId(c) ELSE "none"

\* The error handler, called by echo or by Recover, cannot write its answer and ends
\* the process with log.Fatal: every request that is not done goes unanswered, and no
\* other comes.
Fatal(c) ==
  /\ phase[c] \in {"error", "recovered"}
  /\ alive' = FALSE
  /\ phase' = [k \in Clients |-> "done"]
  /\ UNCHANGED <<mode, masterUp, route, header, id, outcome, response>>

HttpErrorHandler(c) ==
  /\ phase[c] = "error"
  /\ Ends(c, Response(outcome[c].code, Body(outcome[c]), BodyId(c)))
  /\ UNCHANGED <<alive, mode, masterUp, route, header, id, outcome>>

\* The same under Recover: the answer is written, as if the handler had replied with
\* it, and the logger comes next.
RecoverAnswers(c) ==
  /\ phase[c] = "recovered"
  /\ Returned(c, Outcome("reply", outcome[c].code, Body(outcome[c])))

HttpNext ==
  \/ MasterDriver
  \/ \E c \in Clients :
       \/ \E r \in Routes, h \in BOOLEAN : Receive(c, r, h)
       \/ CheckMaster(c) \/ NoRoute(c) \/ HandlerRecovered(c) \/ RecoverAnswers(c)
       \/ GetBalance(c)
       \/ \E text \in {"public", "internal"} : BindFails(c, text)
       \/ \E ok \in BOOLEAN : CreditAnswered(c, ok)
       \/ LogRequest(c) \/ HttpErrorHandler(c) \/ Fatal(c)

HttpSpec == HttpInit /\ [][HttpNext]_httpVars

-------------------------------------------------------------------------------
\* In production a client reads an internal error's words only when the body of its
\* own request did not bind (NewBadRequestError, which HttpErrorHandler does not mask):
\* never those of a service error or of a panic, whichever way the error takes.  Every
\* error whose words it can read carries the id under which the request was answered,
\* the caller's own if it sent one.
ErrorBodies ==
  \A c \in Clients :
    /\ mode = "production" /\ response[c].text = "internal" =>
         route[c] = "credit" /\ response[c].code = 400
    /\ phase[c] = "done" /\ response[c].text \in {"public", "internal"} =>
         response[c].id = id[c]

\* As long as the process lives, every error that a handler returns is answered.  A
\* request goes unanswered only where the response has an error status and the logger
\* no error to read: workers asked for while there is no master, or a panic that
\* Recover has answered.
OnlyLoggerAborts ==
  alive => \A c \in Clients : phase[c] = "done" /\ response[c] = Aborted =>
    /\ outcome[c].kind = "reply"
    /\ \/ outcome[c].code = 400 /\ route[c] = "workers"
       \/ outcome[c].code = 500 /\ route[c] # "unknown"
===============================================================================
