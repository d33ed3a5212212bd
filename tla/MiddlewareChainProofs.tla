------------------------ MODULE MiddlewareChainProofs ------------------------
(***************************************************************************)
(* Theorems about MiddlewareChain, for any tokens and any number of        *)
(* middlewares: its types, that a request is answered once, and what       *)
(* CsrfMiddleware does to a POST and to the answers from behind it.        *)
(***************************************************************************)
EXTENDS MiddlewareChain, SequenceTheorems, TLAPS

(* Once there is an answer, no call is at its beginning, where it could    *)
(* answer or call next.                                                    *)
AnswerEnds == sent # << >> => Idle \/ stack[Depth] # "enter"

(* Who answered is in the chain. *)
AnswerBy == \A k \in 1..Len(sent) : sent[k].by \in 1..Len(middlewares)

(* A CsrfMiddleware that has called next was not given a POST. *)
PostRefused ==
  \A i \in 1..Depth : (Csrf(i) /\ stack[i] = "next") => req.method # "POST"

(* What a CsrfMiddleware that has called next has done before. *)
HeadersAdded ==
  \A i \in 1..Depth :
    (Csrf(i) /\ stack[i] = "next") => middlewares[i] \in Range(res.headers)

IInv ==
  /\ TypeOK
  /\ AnsweredOnce
  /\ AnswerEnds
  /\ AnswerBy
  /\ PostRefused
  /\ PostStopsAtCsrf
  /\ HeadersAdded
  /\ TokenOnAnswers
-------------------------------------------------------------------------------
LEMMA InitIInv == Init => IInv
  BY DEF Init, IInv, TypeOK, AnsweredOnce, AnswerEnds, AnswerBy, PostRefused,
     PostStopsAtCsrf, HeadersAdded, TokenOnAnswers, Depth, Idle, NewResponse,
     Request, Response, Methods, Headers

LEMMA AppendRange ==
  ASSUME NEW S, NEW s \in Seq(S), NEW x \in S
  PROVE  Range(Append(s, x)) = Range(s) \cup {x}
<1>1. /\ DOMAIN Append(s, x) = 1..(Len(s) + 1) /\ DOMAIN s = 1..Len(s)
      /\ \A i \in 1..Len(s) : Append(s, x)[i] = s[i]
      /\ Append(s, x)[Len(s) + 1] = x /\ Len(s) \in Nat
  OBVIOUS
<1>2. DOMAIN Append(s, x) = DOMAIN s \cup {Len(s) + 1}
  BY <1>1
<1>. QED BY <1>1, <1>2 DEF Range

(* Execute behind the middleware of the top call. *)
LEMMA NextCalled ==
  ASSUME TypeOK, ~Idle, stack[Depth] = "enter", stack' = Execute(Marked("next")),
         UNCHANGED middlewares
  PROVE  /\ stack' \in Seq({"enter", "next", "answered"})
         /\ Depth' \in {Depth, Depth + 1} /\ Depth' <= Len(middlewares)
         /\ \A i \in 1..Depth :
              stack'[i] = IF i = Depth THEN "next" ELSE stack[i]
         /\ Depth' = Depth + 1 => stack'[Depth'] = "enter"
         /\ \A i \in 1..Depth : stack'[i] = "next"
<1>. DEFINE calls == Marked("next")
<1>1. /\ calls \in Seq({"enter", "next", "answered"})
      /\ Len(calls) = Depth
      /\ \A i \in 1..Depth : calls[i] = IF i = Depth THEN "next" ELSE stack[i]
  BY DEF TypeOK, Depth, Marked, Idle
<1>2. Depth \in Nat \ {0} /\ Len(middlewares) \in Nat
  BY DEF TypeOK, Depth, Idle
<1>3. CASE Len(calls) < Len(middlewares)
  BY <1>1, <1>2, <1>3 DEF Execute, Depth, TypeOK
<1>4. CASE ~(Len(calls) < Len(middlewares))
  BY <1>1, <1>2, <1>4 DEF Execute, Depth, TypeOK
<1>. QED BY <1>3, <1>4
-------------------------------------------------------------------------------
(* Add. *)
LEMMA AddIInv ==
  ASSUME IInv, NEW m \in Tokens \cup {User}, Add(m)
  PROVE  IInv'
<1>1. /\ middlewares' \in Seq(Tokens \cup {User})
      /\ Len(middlewares') = Len(middlewares) + 1
      /\ \A i \in 1..Len(middlewares) : middlewares'[i] = middlewares[i]
      /\ middlewares'[Len(middlewares) + 1] = m
  BY DEF Add, IInv, TypeOK
<1>2. /\ Range(middlewares) \subseteq Range(middlewares')
      /\ Range(middlewares') = Range(middlewares) \cup {m}
  BY AppendRange DEF Add, IInv, TypeOK
<1>3. /\ Depth' = Depth /\ Depth \in Nat /\ Len(middlewares) \in Nat
      /\ Depth <= Len(middlewares)
  <2>1. UNCHANGED stack
    BY DEF Add
  <2>. QED BY <2>1 DEF IInv, TypeOK, Depth
<1>4. \A i \in 1..Depth : Csrf(i)' <=> Csrf(i)
  BY <1>1, <1>3 DEF Csrf, IInv, TypeOK
<1>5. TypeOK'
  <2>1. UNCHANGED <<stack, req, res, sent, known>>
    BY DEF Add
  <2>2. Depth' <= Len(middlewares')
    BY <1>1, <1>3
  <2>. QED BY <1>1, <1>3, <2>1, <2>2 DEF IInv, TypeOK
<1>6. AnsweredOnce' /\ AnswerEnds' /\ AnswerBy'
  <2>1. UNCHANGED <<stack, sent>> /\ Len(middlewares) \in Nat
    BY DEF Add, IInv, TypeOK
  <2>2. AnsweredOnce'
    BY <1>3, <2>1 DEF IInv, AnsweredOnce, Last
  <2>3. AnswerEnds'
    BY <1>3, <2>1 DEF IInv, AnswerEnds, Idle
  <2>4. AnswerBy'
    BY <1>1, <2>1 DEF IInv, AnswerBy
  <2>. QED BY <2>2, <2>3, <2>4
<1>7. PostRefused'
  BY <1>3, <1>4 DEF Add, IInv, PostRefused
<1>8. PostStopsAtCsrf'
  <2>1. \A k \in 1..Len(sent) : sent[k].by \in 1..Len(middlewares)
    BY DEF IInv, AnswerBy
  <2>2. \A i \in 1..Len(middlewares) : Csrf(i)' <=> Csrf(i)
    BY <1>1 DEF Csrf
  <2>3. UNCHANGED <<stack, req, sent>>
    BY DEF Add
  <2>. QED BY <1>3, <2>1, <2>2, <2>3 DEF IInv, PostStopsAtCsrf
<1>9. HeadersAdded'
  BY <1>1, <1>3, <1>4 DEF Add, IInv, HeadersAdded, TypeOK
<1>10. TokenOnAnswers'
  <2>. SUFFICES ASSUME NEW k \in 1..Len(sent), NEW i \in 1..(sent[k].by - 1), Csrf(i)'
                PROVE  middlewares'[i] \in Range(sent[k].res.headers)
    BY DEF Add, TokenOnAnswers
  <2>1. sent[k].by \in 1..Len(middlewares) /\ Len(middlewares) \in Nat
    BY DEF IInv, AnswerBy, TypeOK
  <2>2. middlewares'[i] = middlewares[i]
    BY <1>1, <2>1
  <2>. QED BY <2>2 DEF IInv, TokenOnAnswers, Csrf
<1>. QED BY <1>5, <1>6, <1>7, <1>8, <1>9, <1>10 DEF IInv
-------------------------------------------------------------------------------
(* What Pass and CallNext have in common: the top call calls next, with    *)
(* perhaps more headers than before.                                       *)
LEMMA CalledNextIInv ==
  ASSUME IInv, ~Idle, stack[Depth] = "enter", stack' = Execute(Marked("next")),
         UNCHANGED <<middlewares, req, sent, known>>,
         res' \in Response,
         Range(res.headers) \subseteq Range(res'.headers),
         Csrf(Depth) => middlewares[Depth] \in Range(res'.headers),
         Csrf(Depth) => req.method # "POST"
  PROVE  IInv'
<1>1. /\ stack' \in Seq({"enter", "next", "answered"})
      /\ Depth' \in {Depth, Depth + 1} /\ Depth' <= Len(middlewares)
      /\ \A i \in 1..Depth : stack'[i] = IF i = Depth THEN "next" ELSE stack[i]
      /\ Depth' = Depth + 1 => stack'[Depth'] = "enter"
      /\ \A i \in 1..Depth : stack'[i] = "next"
  BY NextCalled DEF IInv
<1>2. Depth \in Nat \ {0}
  BY DEF IInv, TypeOK, Idle, Depth
<1>3. sent = << >> /\ Len(sent) = 0
  BY DEF IInv, AnswerEnds
<1>4. TypeOK'
  <2>1. \A i \in 1..(Depth' - 1) : stack'[i] = "next"
    BY <1>1, <1>2
  <2>. QED BY <1>1, <2>1 DEF IInv, TypeOK
<1>5. AnsweredOnce' /\ AnswerEnds' /\ AnswerBy' /\ TokenOnAnswers'
  BY <1>3 DEF AnsweredOnce, AnswerEnds, AnswerBy, TokenOnAnswers
<1>7. \A i \in 1..Depth' : (Csrf(i)' /\ stack'[i] = "next") =>
        Csrf(i) /\ i \in 1..Depth /\ (i = Depth \/ stack[i] = "next")
  BY <1>1, <1>2 DEF Csrf
<1>8. PostRefused'
  BY <1>7 DEF IInv, PostRefused
<1>9. HeadersAdded'
  BY <1>7 DEF IInv, HeadersAdded
<1>10. PostStopsAtCsrf'
  <2>1. \A i \in 1..(Depth' - 1) : i \in 1..Depth' /\ stack'[i] = "next"
    <3>. DEFINE d == Depth'
                e == Depth
    <3>1. d \in Nat /\ d \in {e, e + 1} /\ e \in Nat
      BY <1>1, <1>2
    <3>2. \A i \in 1..e : stack'[i] = "next"
      BY <1>1
    <3>. HIDE DEF d, e
    <3>3. \A i \in 1..(d - 1) : i \in 1..d /\ i \in 1..e
      BY <3>1
    <3>. QED BY <3>2, <3>3 DEF d
  <2>2. SUFFICES ASSUME req.method = "POST", NEW i \in 1..(Depth' - 1) PROVE ~Csrf(i)
    BY <1>3 DEF PostStopsAtCsrf, Csrf
  <2>3. Csrf(i) => Csrf(i)' /\ req'.method = "POST"
    BY <2>2 DEF Csrf
  <2>. QED BY <1>8, <2>1, <2>2, <2>3 DEF PostRefused
<1>. QED BY <1>4, <1>5, <1>8, <1>9, <1>10 DEF IInv

(* What Refuse and Reply have in common: the top call answers. *)
LEMMA AnsweredIInv ==
  ASSUME IInv, ~Idle, stack[Depth] = "enter", stack' = Marked("answered"),
         UNCHANGED <<middlewares, req>>,
         NEW response \in Response, NEW status \in Statuses \cup {200},
         Send(response, status),
         Range(res.headers) \subseteq Range(response.headers),
         Tokened(response.headers) \subseteq Tokened(res.headers)
  PROVE  IInv'
<1>1. /\ stack' \in Seq({"enter", "next", "answered"})
      /\ Depth' = Depth /\ Depth \in Nat \ {0} /\ Depth <= Len(middlewares)
      /\ Len(middlewares) \in Nat
      /\ \A i \in 1..Depth : stack'[i] = IF i = Depth THEN "answered" ELSE stack[i]
  BY DEF IInv, TypeOK, Marked, Idle, Depth
<1>2. sent = << >>
  BY DEF IInv, AnswerEnds
<1>3. /\ res' \in Response
      /\ res'.headers = response.headers
  BY DEF Send, Response
<1>4. /\ sent' = Append(sent, [res |-> res', by |-> Depth])
      /\ \E survived \in SUBSET Tokened(response.headers) :
           known' = known \cup survived
  BY DEF Send
<1>5. /\ Len(sent') = 1
      /\ sent'[1].res = res' /\ sent'[1].by = Depth
      /\ sent' \in Seq(Answer)
  <2>. DEFINE answer == [res |-> res', by |-> Depth]
  <2>1. answer \in Answer /\ answer.res = res' /\ answer.by = Depth
    BY <1>1, <1>3 DEF Answer
  <2>2. sent' = <<answer>>
    BY <1>2, <1>4
  <2>. HIDE DEF answer
  <2>. QED BY <2>1, <2>2
<1>6. TypeOK'
  <2>1. \A i \in 1..(Depth' - 1) : stack'[i] = "next"
    BY <1>1 DEF IInv, TypeOK
  <2>2. known' \subseteq Tokens
    BY <1>4 DEF IInv, TypeOK, Tokened
  <2>. QED BY <1>1, <1>3, <1>5, <2>1, <2>2 DEF IInv, TypeOK
<1>7. AnsweredOnce' /\ AnswerEnds' /\ AnswerBy'
  BY <1>1, <1>5 DEF AnsweredOnce, AnswerEnds, AnswerBy, Last
<1>9. \A i \in 1..Depth' : stack'[i] = "next" => i \in 1..Depth /\ stack[i] = "next"
  BY <1>1
<1>10. PostRefused'
  BY <1>9 DEF IInv, PostRefused, Csrf
<1>11. HeadersAdded'
  BY <1>3, <1>9 DEF IInv, HeadersAdded, Csrf
<1>12. TokenOnAnswers'
  <2>. SUFFICES ASSUME NEW i \in 1..(Depth - 1), Csrf(i)
                PROVE  middlewares[i] \in Range(res'.headers)
    BY <1>5 DEF TokenOnAnswers, Csrf
  <2>1. i \in 1..Depth /\ stack[i] = "next"
    BY <1>1 DEF IInv, TypeOK
  <2>. QED BY <1>3, <2>1 DEF IInv, HeadersAdded
<1>13. PostStopsAtCsrf'
  <2>. SUFFICES ASSUME req.method = "POST", NEW i \in 1..(Depth - 1) PROVE ~Csrf(i)
    BY <1>1, <1>5 DEF PostStopsAtCsrf, Csrf
  <2>1. i \in 1..Depth /\ stack[i] = "next"
    BY <1>1 DEF IInv, TypeOK
  <2>. QED BY <2>1 DEF IInv, PostRefused
<1>. QED BY <1>6, <1>7, <1>10, <1>11, <1>12, <1>13 DEF IInv
-------------------------------------------------------------------------------
(* One lemma per action. *)

LEMMA HandleIInv ==
  ASSUME IInv, NEW r \in Request, r.token \in known \cup {NoToken}, Handle(r)
  PROVE  IInv'
<1>1. /\ req' = r /\ res' = NewResponse /\ sent' = << >>
      /\ UNCHANGED <<middlewares, known>>
  BY DEF Handle
<1>2. /\ stack' \in Seq({"enter", "next", "answered"})
      /\ Depth' \in {0, 1} /\ Depth' <= Len(middlewares)
      /\ \A i \in 1..Depth' : stack'[i] = "enter"
  <2>1. Len(middlewares) \in Nat /\ Len(<< >>) = 0
    BY DEF IInv, TypeOK
  <2>2. CASE 0 < Len(middlewares)
    <3>1. stack' = <<"enter">>
      BY <2>1, <2>2 DEF Handle, Execute
    <3>. QED BY <1>1, <2>1, <2>2, <3>1 DEF Depth
  <2>3. CASE ~(0 < Len(middlewares))
    <3>1. stack' = << >>
      BY <2>1, <2>3 DEF Handle, Execute
    <3>. QED BY <1>1, <2>1, <3>1 DEF Depth
  <2>. QED BY <2>2, <2>3
<1>3. res' \in Response /\ Len(sent') = 0 /\ sent' \in Seq(Answer)
  BY <1>1 DEF NewResponse, Response
<1>4. TypeOK'
  <2>1. \A d \in {0, 1} : 1..(d - 1) = {}
    OBVIOUS
  <2>. QED BY <1>1, <1>2, <1>3, <2>1 DEF IInv, TypeOK
<1>5. AnsweredOnce' /\ AnswerEnds' /\ AnswerBy' /\ TokenOnAnswers'
  BY <1>1, <1>3 DEF AnsweredOnce, AnswerEnds, AnswerBy, TokenOnAnswers
<1>6. PostRefused' /\ HeadersAdded'
  BY <1>2 DEF PostRefused, HeadersAdded
<1>7. PostStopsAtCsrf'
  <2>. DEFINE d == Depth'
  <2>1. 1..(d - 1) = {} /\ 1..Len(sent') = {}
    <3>1. d \in {0, 1}
      BY <1>2
    <3>. HIDE DEF d
    <3>. QED BY <1>3, <3>1
  <2>. QED BY <2>1 DEF PostStopsAtCsrf
<1>. QED BY <1>4, <1>5, <1>6, <1>7 DEF IInv

LEMMA RefuseIInv ==
  ASSUME IInv, Refuse
  PROVE  IInv'
<1>. DEFINE response == [res EXCEPT !.status = 403]
<1>1. /\ ~Idle /\ stack[Depth] = "enter" /\ stack' = Marked("answered")
      /\ UNCHANGED <<middlewares, req>> /\ Send(response, 200)
  BY DEF Refuse, EnteredCsrf
<1>2. response \in Response /\ response.headers = res.headers
  <2>1. res \in Response
    BY DEF IInv, TypeOK
  <2>. QED BY <2>1 DEF Response
<1>. HIDE DEF response
<1>. QED BY <1>1, <1>2, AnsweredIInv DEF Tokened

LEMMA PassIInv ==
  ASSUME IInv, Pass
  PROVE  IInv'
<1>1. /\ ~Idle /\ Csrf(Depth) /\ stack[Depth] = "enter" /\ ~Refused
      /\ res' = [res EXCEPT !.headers = Append(@, middlewares[Depth])]
      /\ stack' = Execute(Marked("next"))
      /\ UNCHANGED <<middlewares, req, sent, known>>
  BY DEF Pass, EnteredCsrf
<1>2. Depth \in 1..Len(middlewares)
  BY <1>1 DEF IInv, TypeOK, Idle, Depth
<1>3. middlewares[Depth] \in Tokens /\ middlewares[Depth] \in Range(middlewares)
  BY <1>1, <1>2 DEF Csrf, IInv, TypeOK, Range
<1>4. /\ res.headers \in Seq(Headers) /\ middlewares[Depth] \in Headers
      /\ res'.headers = Append(res.headers, middlewares[Depth])
      /\ res' \in Response
  <2>1. res \in Response /\ middlewares[Depth] \in Headers
    BY <1>3 DEF IInv, TypeOK, Headers
  <2>2. res.headers \in Seq(Headers)
    BY <2>1 DEF Response
  <2>3. Append(res.headers, middlewares[Depth]) \in Seq(Headers)
    BY <2>1, <2>2
  <2>. QED BY <1>1, <2>1, <2>2, <2>3 DEF Response
<1>5. Range(res'.headers) = Range(res.headers) \cup {middlewares[Depth]}
  BY <1>4, AppendRange
<1>7. req.method # "POST"
  <2>1. GetHeader(CsrfHeader) = NoToken
    BY DEF GetHeader, CsrfHeader, StoredName
  <2>2. ~ValidateToken
    BY <1>3, <2>1, TokenAssumption DEF ValidateToken
  <2>. QED BY <1>1, <2>2 DEF Refused
<1>8. /\ Range(res.headers) \subseteq Range(res'.headers)
      /\ middlewares[Depth] \in Range(res'.headers)
  BY <1>5
<1>. QED BY <1>1, <1>4, <1>7, <1>8, CalledNextIInv

LEMMA CallNextIInv ==
  ASSUME IInv, CallNext
  PROVE  IInv'
  BY CalledNextIInv DEF CallNext, InUserCode, IInv, TypeOK

LEMMA ReplyIInv ==
  ASSUME IInv, NEW status \in Statuses, Reply(status)
  PROVE  IInv'
<1>1. /\ ~Idle /\ stack[Depth] = "enter" /\ stack' = Marked("answered")
      /\ UNCHANGED <<middlewares, req>>
  BY DEF Reply, InUserCode
<1>2. CASE Send(res, status)
  BY <1>1, <1>2, AnsweredIInv DEF IInv, TypeOK
<1>3. CASE SendJson(status)
  <2>. DEFINE response == [res EXCEPT !.headers = Append(@, "content-type")]
  <2>1. /\ res.headers \in Seq(Headers) /\ "content-type" \in Headers
        /\ response.headers = Append(res.headers, "content-type")
        /\ response \in Response
    <3>1. res \in Response /\ "content-type" \in Headers
      BY DEF IInv, TypeOK, Headers
    <3>2. res.headers \in Seq(Headers)
      BY <3>1 DEF Response
    <3>3. Append(res.headers, "content-type") \in Seq(Headers)
      BY <3>1, <3>2
    <3>. QED BY <3>1, <3>2, <3>3 DEF Response
  <2>2. Range(response.headers) = Range(res.headers) \cup {"content-type"}
    BY <2>1, AppendRange
  <2>3. Send(response, status)
    BY <1>3 DEF SendJson
  <2>4. Tokened(response.headers) \subseteq Tokened(res.headers)
    BY <2>2, TokenAssumption DEF Tokened
  <2>5. response \in Response /\ Range(res.headers) \subseteq Range(response.headers)
    BY <2>1, <2>2
  <2>. HIDE DEF response
  <2>. QED BY <1>1, <2>3, <2>4, <2>5, AnsweredIInv
<1>. QED BY <1>2, <1>3 DEF Reply

LEMMA AddHeaderIInv ==
  ASSUME IInv, AddHeader
  PROVE  IInv'
<1>1. /\ res' = [res EXCEPT !.headers = Append(@, "other")]
      /\ UNCHANGED <<middlewares, stack, req, sent, known>>
  BY DEF AddHeader
<1>2. res \in Response /\ "other" \in Headers /\ res.headers \in Seq(Headers)
  BY DEF IInv, TypeOK, Headers, Response
<1>3. Append(res.headers, "other") \in Seq(Headers)
  BY <1>2
<1>4. res' \in Response /\ res'.headers = Append(res.headers, "other")
  BY <1>1, <1>2, <1>3 DEF Response
<1>5. Range(res'.headers) = Range(res.headers) \cup {"other"}
  BY <1>2, <1>4, AppendRange
<1>7. Depth' = Depth /\ \A i : Csrf(i)' <=> Csrf(i)
  BY <1>1 DEF Depth, Csrf
<1>8. TypeOK'
  BY <1>1, <1>4, <1>7 DEF IInv, TypeOK
<1>9. AnsweredOnce' /\ AnswerEnds' /\ AnswerBy' /\ TokenOnAnswers'
  BY <1>1, <1>7 DEF IInv, AnsweredOnce, AnswerEnds, Idle, AnswerBy, TokenOnAnswers
<1>10. PostRefused' /\ PostStopsAtCsrf'
  BY <1>1, <1>7 DEF IInv, PostRefused, PostStopsAtCsrf
<1>11. HeadersAdded'
  BY <1>1, <1>5, <1>7 DEF IInv, HeadersAdded
<1>. QED BY <1>8, <1>9, <1>10, <1>11 DEF IInv

LEMMA ReturnIInv ==
  ASSUME IInv, Return
  PROVE  IInv'
<1>1. ~Idle /\ stack' = Front(stack) /\ UNCHANGED <<middlewares, req, res, sent, known>>
  BY DEF Return
<1>2. /\ stack' \in Seq({"enter", "next", "answered"})
      /\ Depth \in Nat \ {0} /\ Depth' = Depth - 1
      /\ \A i \in 1..Depth' : stack'[i] = stack[i] /\ stack'[i] = "next"
      /\ Depth <= Len(middlewares) /\ Len(middlewares) \in Nat
  <2>1. /\ stack \in Seq({"enter", "next", "answered"})
        /\ Depth \in Nat \ {0}
        /\ stack' = SubSeq(stack, 1, Depth - 1)
        /\ \A i \in 1..(Depth - 1) : stack[i] = "next"
    BY <1>1 DEF IInv, TypeOK, Idle, Depth, Front
  <2>2. /\ stack' \in Seq({"enter", "next", "answered"})
        /\ Len(stack') = Depth - 1
        /\ \A i \in 1..(Depth - 1) : stack'[i] = stack[i]
    <3>. DEFINE d == Depth - 1
    <3>1. d \in Nat /\ \A i \in 1..d : i \in 1..Len(stack)
      BY <2>1 DEF Depth
    <3>2. \A i \in 1..d : stack[i] \in {"enter", "next", "answered"}
      BY <2>1, <3>1
    <3>. HIDE DEF d
    <3>3. /\ SubSeq(stack, 1, d) \in Seq({"enter", "next", "answered"})
          /\ Len(SubSeq(stack, 1, d)) = d
          /\ \A i \in 1..d : SubSeq(stack, 1, d)[i] = stack[i]
      BY <3>1, <3>2, SubSeqProperties
    <3>. QED BY <2>1, <3>3 DEF d
  <2>3. Depth' = Depth - 1
    BY <2>2 DEF Depth
  <2>4. Depth <= Len(middlewares) /\ Len(middlewares) \in Nat
    BY DEF IInv, TypeOK
  <2>. QED BY <2>1, <2>2, <2>3, <2>4
<1>3. TypeOK'
  <2>1. \A i \in 1..(Depth' - 1) : stack'[i] = "next"
    BY <1>2
  <2>. QED BY <1>1, <1>2, <2>1 DEF IInv, TypeOK
<1>4. AnsweredOnce' /\ AnswerBy' /\ TokenOnAnswers'
  <2>1. sent # << >> => Len(sent) \in 1..Len(sent)
    BY DEF IInv, TypeOK
  <2>2. sent # << >> => Last(sent).by \in Nat
    BY <2>1 DEF IInv, TypeOK, AnswerBy, Last
  <2>3. AnsweredOnce'
    BY <1>1, <1>2, <2>2 DEF IInv, AnsweredOnce, Last
  <2>. QED BY <1>1, <2>3 DEF IInv, AnswerBy, TokenOnAnswers, Csrf
<1>5. AnswerEnds'
  <2>1. Idle' \/ Depth' \in 1..Depth'
    BY <1>2 DEF Idle, Depth
  <2>. QED BY <1>2, <2>1 DEF AnswerEnds
<1>6. PostStopsAtCsrf'
  <2>1. \A i \in 1..(Depth' - 1) : i \in 1..(Depth - 1)
    BY <1>2
  <2>. QED BY <1>1, <2>1 DEF IInv, PostStopsAtCsrf, Csrf
<1>7. \A i \in 1..Depth' : i \in 1..Depth /\ stack[i] = stack'[i]
  BY <1>2
<1>8. PostRefused' /\ HeadersAdded'
  BY <1>1, <1>7 DEF IInv, PostRefused, HeadersAdded, Csrf
<1>. QED BY <1>3, <1>4, <1>5, <1>6, <1>8 DEF IInv
-------------------------------------------------------------------------------
LEMMA StepIInv == IInv /\ [Next]_vars => IInv'
<1>. SUFFICES ASSUME IInv, [Next]_vars
              PROVE  IInv'
  OBVIOUS
<1>1. CASE UNCHANGED vars
  BY <1>1 DEF vars, IInv, TypeOK, AnsweredOnce, AnswerEnds, AnswerBy, PostRefused,
     PostStopsAtCsrf, HeadersAdded, TokenOnAnswers, Depth, Idle, Csrf, Last
<1>2. CASE Next
  BY <1>2, AddIInv, HandleIInv, RefuseIInv, PassIInv, CallNextIInv,
     ReplyIInv, AddHeaderIInv, ReturnIInv DEF Next
<1>. QED BY <1>1, <1>2

LEMMA Invariance == Spec => []IInv
  BY InitIInv, StepIInv, PTL DEF Spec

(* The variables keep their types: no call is behind the last middleware,  *)
(* and every call of Handle but the last waits for the next one.           *)
THEOREM TypeCorrect == Spec => []TypeOK
  BY Invariance, PTL DEF IInv

(* A request is answered at most once, and no middleware is called behind  *)
(* the one that answered it: no second h2o_send_inline for a request.      *)
THEOREM OneAnswer == Spec => []AnsweredOnce
  BY Invariance, PTL DEF IInv

(* Nothing behind a CsrfMiddleware handles or answers a POST: its Handle   *)
(* calls next for a POST only when GetHeader returns its token, and        *)
(* GetHeader never finds "X-CSRF-Token" among names in lower case.         *)
THEOREM NoPostPasses == Spec => []PostStopsAtCsrf
  BY Invariance, PTL DEF IInv

(* An answer from behind a CsrfMiddleware has its token among the headers  *)
(* that libh2o sends.                                                      *)
THEOREM AnswersHaveTokens == Spec => []TokenOnAnswers
  BY Invariance, PTL DEF IInv
===============================================================================
