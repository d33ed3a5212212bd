--------------------------- MODULE MiddlewareChain ---------------------------
(***************************************************************************)
(* MiddlewareManager and CsrfMiddleware (src/piconaut/middleware) with the *)
(* answers Response hands to libh2o (src/piconaut/http/response.cc).       *)
(*                                                                         *)
(* Handle calls the first middleware with a function next, which calls the *)
(* second one, and so on: a request is a stack of calls on one thread.  A  *)
(* middleware is a CsrfMiddleware or the user's.  The user's code is any   *)
(* code that either answers or calls next, once, before it returns; it may *)
(* add headers and middlewares all the while.  A client repeats a token    *)
(* that it has read in an answer, or sends none.                           *)
(***************************************************************************)
EXTENDS Naturals, SequencesExt

CONSTANTS
  Tokens,          \* values of GenerateToken
  Statuses,        \* status codes the user's code answers with
  NoToken,         \* the "" that GetHeader returns for want of a header
  User,            \* stands for a middleware of the user
  MaxMiddlewares,  \* bound: length of the chain
  MaxHeaders       \* bound: headers the user's code adds to an answer

ASSUME TokenAssumption ==
  Tokens \cap {NoToken, User, "content-type", "other"} = {}
ASSUME BoundsAssumption == MaxMiddlewares \in Nat /\ MaxHeaders \in Nat

VARIABLES
  middlewares,  \* middlewares_: the token of a CsrfMiddleware, or User
  stack,        \* the calls of Handle in progress: what each has done
  req,          \* the request: its method and its X-CSRF-Token
  res,          \* req_->res: status and headers
  sent,         \* what h2o_send_inline was given for this request
  known         \* the tokens that clients have read

vars == <<middlewares, stack, req, res, sent, known>>

(* "GET" stands for every method but POST. *)
Methods == {"GET", "POST"}
Headers == Tokens \cup {"content-type", "other"}

Request  == [method : Methods, token : Tokens \cup {NoToken}]
Response == [status : Statuses \cup {0, 200, 403}, headers : Seq(Headers)]
Answer   == [res : Response, by : Nat]

(* What libh2o gives a new request. *)
NewResponse == [status |-> 0, headers |-> << >>]

Depth == Len(stack)
Idle  == stack = << >>

Csrf(i) == middlewares[i] # User

EnteredCsrf == ~Idle /\ Csrf(Depth) /\ stack[Depth] = "enter"
InUserCode  == ~Idle /\ ~Csrf(Depth)

Init ==
  /\ middlewares = << >>
  /\ stack = << >>
  /\ req = [method |-> "GET", token |-> NoToken]
  /\ res = NewResponse
  /\ sent = << >>
  /\ known = {}
-------------------------------------------------------------------------------
(* A mistake to catch: the function given to the last middleware calls it  *)
(* once more.                                                              *)
ExecuteLastAgain(calls) ==
  IF Len(calls) <= Len(middlewares) THEN Append(calls, "enter") ELSE calls

(* execute(index + 1) from a stack of calls: the next middleware starts,   *)
(* or nothing happens behind the last one.                                 *)
Execute(calls) ==
  IF Len(calls) < Len(middlewares) THEN Append(calls, "enter") ELSE calls

(* The top call marks that it has called next or has answered. *)
Marked(mark) == [stack EXCEPT ![Depth] = mark]

(* Add, by main() or by a middleware of the user while it handles.  A      *)
(* CsrfMiddleware makes its token when it is constructed, from the clock:  *)
(* no client has seen it before.                                           *)
Add(m) ==
  /\ Idle \/ InUserCode
  /\ m \notin known
  /\ Len(middlewares) < MaxMiddlewares
  /\ middlewares' = Append(middlewares, m)
  /\ UNCHANGED <<stack, req, res, sent, known>>

(* MiddlewareManager::Handle. *)
Handle(r) ==
  /\ Idle
  /\ req' = r
  /\ res' = NewResponse
  /\ sent' = << >>
  /\ stack' = Execute(<< >>)
  /\ UNCHANGED <<middlewares, known>>
-------------------------------------------------------------------------------
(* Response.                                                               *)

Tokened(headers) == Range(headers) \cap Tokens

(* Send(body, status_code): Status, then h2o_send_inline, which writes the *)
(* names of the headers from where AddHeader's argument was.  The string   *)
(* that held "X-CSRF-Token" is gone by then: its bytes may still be there  *)
(* or not, and a client reads the tokens whose names have survived.        *)
Send(response, status) ==
  /\ res' = [response EXCEPT !.status = status]
  /\ sent' = Append(sent, [res |-> res', by |-> Depth])
  /\ \E survived \in SUBSET Tokened(response.headers) :
       known' = known \cup survived

(* SendJson(json, status_code) adds the content type first. *)
SendJson(status) ==
  Send([res EXCEPT !.headers = Append(@, "content-type")], status)
-------------------------------------------------------------------------------
(* CsrfMiddleware::Handle.                                                 *)

CsrfHeader == "X-CSRF-Token"

(* The name under which libh2o keeps that header of a request: names are   *)
(* stored in lower case, however the client writes them.                   *)
StoredName == "x-csrf-token"

(* Request::GetHeader: h2o_find_header_by_str compares names byte by byte. *)
GetHeader(name) == IF name = StoredName THEN req.token ELSE NoToken

(* A mistake to catch: a request without a token is not looked at. *)
ValidateTokenIfAny ==
  GetHeader(CsrfHeader) \in {NoToken, middlewares[Depth]}

ValidateToken == GetHeader(CsrfHeader) = middlewares[Depth]

Refused == req.method = "POST" /\ ~ValidateToken

(* A mistake to catch: no return after Send. *)
RefuseAndGoOn ==
  /\ EnteredCsrf
  /\ Refused
  /\ Send([res EXCEPT !.status = 403], 200)
  /\ stack' = Execute(Marked("next"))
  /\ UNCHANGED <<middlewares, req>>

(* Status(403), then Send, whose default status code takes its place: the  *)
(* answer that says Forbidden has status 200.                              *)
Refuse ==
  /\ EnteredCsrf
  /\ Refused
  /\ Send([res EXCEPT !.status = 403], 200)
  /\ stack' = Marked("answered")
  /\ UNCHANGED <<middlewares, req>>

(* A mistake to catch: next is called before the header is added. *)
PassTokenTooLate ==
  /\ EnteredCsrf
  /\ ~Refused
  /\ stack' = Execute(Marked("next"))
  /\ UNCHANGED <<middlewares, req, res, sent, known>>

(* AddHeader, then next.  libh2o has the header's value by reference to    *)
(* csrf_token_, which lives as long as the middleware does.                *)
Pass ==
  /\ EnteredCsrf
  /\ ~Refused
  /\ res' = [res EXCEPT !.headers = Append(@, middlewares[Depth])]
  /\ stack' = Execute(Marked("next"))
  /\ UNCHANGED <<middlewares, req, sent, known>>
-------------------------------------------------------------------------------
(* The user's middlewares.                                                 *)

CallNext ==
  /\ InUserCode
  /\ stack[Depth] = "enter"
  /\ stack' = Execute(Marked("next"))
  /\ UNCHANGED <<middlewares, req, res, sent, known>>

Reply(status) ==
  /\ InUserCode
  /\ stack[Depth] = "enter"
  /\ Send(res, status) \/ SendJson(status)
  /\ stack' = Marked("answered")
  /\ UNCHANGED <<middlewares, req>>

AddHeader ==
  /\ InUserCode
  /\ Len(SelectSeq(res.headers, LAMBDA h : h = "other")) < MaxHeaders
  /\ res' = [res EXCEPT !.headers = Append(@, "other")]
  /\ UNCHANGED <<middlewares, stack, req, sent, known>>

(* A call of Handle returns: the user's at any time, CsrfMiddleware's when *)
(* it has refused or next has returned.                                    *)
Return ==
  /\ ~Idle
  /\ Csrf(Depth) => stack[Depth] # "enter"
  /\ stack' = Front(stack)
  /\ UNCHANGED <<middlewares, req, res, sent, known>>

Next ==
  \/ \E m \in Tokens \cup {User} : Add(m)
  \/ \E r \in Request : (r.token \in known \cup {NoToken}) /\ Handle(r)
  \/ Refuse
  \/ Pass
  \/ CallNext
  \/ \E status \in Statuses : Reply(status)
  \/ AddHeader
  \/ Return

Spec == Init /\ [][Next]_vars

-------------------------------------------------------------------------------
(* Types: no call is behind the last middleware, and every call but the    *)
(* last one is waiting for its next.                                       *)
TypeOK ==
  /\ middlewares \in Seq(Tokens \cup {User})
  /\ stack \in Seq({"enter", "next", "answered"})
  /\ Depth <= Len(middlewares)
  /\ \A i \in 1..(Depth - 1) : stack[i] = "next"
  /\ req \in Request
  /\ res \in Response
  /\ sent \in Seq(Answer)
  /\ known \subseteq Tokens

(* However the chain is made, and also when it grows while it runs, a      *)
(* request is answered at most once, and behind the middleware that        *)
(* answered none is called: libh2o's h2o_send_inline must not be called    *)
(* twice for a request.                                                    *)
AnsweredOnce ==
  /\ Len(sent) <= 1
  /\ sent # << >> => Depth <= Last(sent).by

(* Nothing behind a CsrfMiddleware handles or answers a POST, with or      *)
(* without a token and also when the chain grows while it runs: the        *)
(* request goes on only past a middleware that found its own token.        *)
PostStopsAtCsrf ==
  req.method = "POST" =>
    /\ \A i \in 1..(Depth - 1) : ~Csrf(i)
    /\ \A k \in 1..Len(sent) : \A i \in 1..(sent[k].by - 1) : ~Csrf(i)

(* Whoever answers behind a CsrfMiddleware, the list of headers that      *)
(* libh2o then sends has its token, because AddHeader comes before next    *)
(* (whether the name of that header has survived is another question).     *)
TokenOnAnswers ==
  \A k \in 1..Len(sent) : \A i \in 1..(sent[k].by - 1) :
    Csrf(i) => middlewares[i] \in Range(sent[k].res.headers)
===============================================================================
