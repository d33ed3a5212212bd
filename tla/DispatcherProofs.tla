--------------------------- MODULE DispatcherProofs ---------------------------
(***************************************************************************)
(* Theorems about Dispatcher, for every set of threads, patterns, requests *)
(* and handlers.                                                           *)
(***************************************************************************)
EXTENDS Dispatcher, TLAPS

-------------------------------------------------------------------------------
(* The operators the tree is built from. *)

(* The empty map has no keys. *)
LEMMA EmptyMapFacts == DOMAIN EmptyMap = {}
BY DEF EmptyMap

(* The key of a part is a text. *)
LEMMA NodeKeyType ==
  ASSUME NEW part \in Part
  PROVE  NodeKey(part) \in Text
BY TextAssumption DEF Part, NodeKey

(* A fresh node is a node without a key. *)
LEMMA NewNodeType == NewNode \in Node
BY TextAssumption DEF NewNode, Node, NodeType

LEMMA NewNodeKey == NewNode.key = 0
BY DEF NewNode

(* Labelling leaves a node a node with its key and handler. *)
LEMMA LabelFacts ==
  ASSUME NEW node \in Node, NEW part \in Part
  PROVE  /\ Label(node, part) \in Node
         /\ Label(node, part).key = node.key
         /\ Label(node, part).handler = node.handler
         /\ (Label(node, part).type = "kParameter") <=> (NodeKey(part) = Wild)
BY DEF Label, Node, NodeType, Part

-------------------------------------------------------------------------------
(* Where a registrar is in AddRoute: what it needs to take its next step   *)
(* inside the arrays, maps and nodes it works on.                          *)
RegistrarInv ==
  /\ << >> \in DOMAIN tree
  /\ \A r \in Registrars :
       /\ rpc[r] # "idle" => rpath[r] \in Templates
       /\ Adding(r) \/ rpc[r] = "emplace" => rpath[r] \in ValidTemplates
       /\ Adding(r) => rnode[r] \in DOMAIN tree /\ LiesOn(rnode[r], rpath[r])
       /\ rpc[r] = "child" => Len(rnode[r]) < Len(rpath[r])
       /\ rpc[r] = "label" => Len(rnode[r]) > 0
       /\ rpc[r] \in {"key", "handler"} => Len(rnode[r]) = Len(rpath[r])

TypeInv == TypeOK /\ RegistrarInv

LEMMA TypeInit == Init => TypeInv
<1> SUFFICES ASSUME Init PROVE TypeInv
  OBVIOUS
<1>1. /\ DOMAIN tree = {<< >>}
      /\ tree[<< >>] \in Node
  <2>1. tree = Put(EmptyMap, << >>, NewNode)
    BY DEF Init
  <2>2. DOMAIN tree = DOMAIN EmptyMap \cup {<< >>} /\ tree[<< >>] = NewNode
    BY <2>1 DEF Put
  <2> QED
    BY <2>2, EmptyMapFacts, NewNodeType
<1>2. TypeOK
  <2>1. DOMAIN tree \subseteq Seq(Text) /\ \A n \in DOMAIN tree : tree[n] \in Node
    BY <1>1
  <2>2. DOMAIN routes = {} /\ \A w \in Workers : DOMAIN wparams[w] = {}
    BY EmptyMapFacts DEF Init
  <2>3. /\ DOMAIN routes \subseteq Nat
        /\ \A k \in DOMAIN routes : routes[k] \in Route
        /\ DOMAIN wparams = Workers
        /\ \A w \in Workers : /\ DOMAIN wparams[w] \subseteq Text
                              /\ \A x \in DOMAIN wparams[w] : wparams[w][x] \in Text
    BY <2>2 DEF Init
  <2>4. /\ mutex \in [Locks -> Registrars \cup {Free}]
        /\ serving \in BOOLEAN
        /\ log \subseteq Templates \X Handlers
    BY DEF Init
  <2>5. /\ rpc = [r \in Registrars |-> "idle"]
        /\ rpath \in [Registrars -> Templates \cup {<< >>}]
        /\ rhandler \in [Registrars -> Handlers]
        /\ rnode \in [Registrars -> Seq(Text)]
        /\ todo \in [Registrars -> 0..MaxRegistrations]
        /\ caller \in [Registrars -> Workers \cup {Free}]
    BY ThreadsAssumption DEF Init
  <2>6. /\ wpc = [w \in Workers |-> "idle"]
        /\ wreq \in [Workers -> Requests \cup {<< >>}]
        /\ wnode \in [Workers -> Seq(Text)]
        /\ wroute \in [Workers -> Route \cup {NoRoute}]
    BY DEF Init
  <2> QED
    BY <2>1, <2>3, <2>4, <2>5, <2>6 DEF TypeOK
<1>3. RegistrarInv
  BY <1>1 DEF Init, RegistrarInv, Adding
<1> QED
  BY <1>2, <1>3 DEF TypeInv

(* The text a worker looks at is a text. *)
LEMMA WTextType ==
  ASSUME TypeOK, NEW w \in Workers, Matching(w)
  PROVE  WText(w) \in Text
<1>1. wreq[w] \in Requests \cup {<< >>} /\ wnode[w] \in Seq(Text)
  BY DEF TypeOK
<1>2. << >> \in Seq(Text)
  OBVIOUS
<1>3. wreq[w] \in Seq(Text)
  BY <1>1, <1>2, RequestsAssumption, Zenon
<1> QED
  BY <1>1, <1>3 DEF Matching, WText

LEMMA TypeNext == TypeInv /\ [Next]_vars => TypeInv'
<1> SUFFICES ASSUME TypeInv, [Next]_vars PROVE TypeInv'
  OBVIOUS
<1> USE DEF TypeInv
<1>1. CASE Start
  BY <1>1 DEF Start, TypeOK, RegistrarInv, Adding, registrarVars, workerVars
<1>2. ASSUME NEW r \in Registrars, NEW t \in Templates, NEW h \in Handlers,
             RegisterRouteHandler(r, t, h)
      PROVE  TypeInv'
  <2> USE <1>2 DEF RegisterRouteHandler
  <2>1. /\ todo' \in [Registrars -> 0..MaxRegistrations]
        /\ rpath' \in [Registrars -> Templates \cup {<< >>}]
        /\ rhandler' \in [Registrars -> Handlers]
        /\ caller' \in [Registrars -> Workers \cup {Free}]
    BY ThreadsAssumption DEF TypeOK
  <2>2. TypeOK'
    BY <2>1 DEF TypeOK, workerVars
  <2>3. RegistrarInv'
    BY DEF TypeOK, RegistrarInv, Adding, workerVars
  <2> QED
    BY <2>2, <2>3
<1>3. ASSUME NEW r \in Registrars, LockDispatcher(r)
      PROVE  TypeInv'
  BY <1>3 DEF LockDispatcher, TypeOK, RegistrarInv, Adding, workerVars, Locks
<1>4. ASSUME NEW r \in Registrars, EnterAddRoute(r)
      PROVE  TypeInv'
  <2>1. TypeOK'
    BY <1>4 DEF EnterAddRoute, TypeOK, workerVars, Locks
  <2>2. RegistrarInv'
    BY <1>4, TemplatesAssumption
       DEF EnterAddRoute, TypeOK, RegistrarInv, Adding, LiesOn
  <2> QED
    BY <2>1, <2>2
<1>5. ASSUME NEW r \in Registrars, RejectRoute(r)
      PROVE  TypeInv'
  BY <1>5 DEF RejectRoute, TypeOK, RegistrarInv, Adding, workerVars, Locks
<1>6. ASSUME NEW r \in Registrars, StepToChild(r)
      PROVE  TypeInv'
  <2> DEFINE n == rnode[r]
             k == NodeKey(RPart(r))
             c == Append(n, k)
  <2>1. /\ rpc[r] = "child" /\ Adding(r)
        /\ rpath[r] \in Templates /\ rpath[r] \in Seq(Part)
        /\ n \in Seq(Text) /\ n \in DOMAIN tree
        /\ LiesOn(n, rpath[r]) /\ Len(n) < Len(rpath[r])
    BY <1>6, TemplatesAssumption DEF StepToChild, TypeOK, RegistrarInv, Adding
  <2>2. k = NodeKey(rpath[r][Len(n) + 1]) /\ k \in Text
    BY <2>1, NodeKeyType DEF RPart
  <2>3. /\ c \in Seq(Text) /\ Len(c) = Len(n) + 1 /\ LiesOn(c, rpath[r])
    BY <2>1, <2>2 DEF LiesOn
  <2>4. /\ DOMAIN tree' = DOMAIN tree \cup {c}
        /\ \A x \in DOMAIN tree : tree'[x] = tree[x]
        /\ tree'[c] \in Node
    <3>1. tree' = GetOrCreateChild(tree, n, k)
      BY <1>6 DEF StepToChild
    <3>2. /\ DOMAIN tree' = DOMAIN tree \cup {c}
          /\ \A x \in DOMAIN tree : tree'[x] = tree[x]
          /\ c \notin DOMAIN tree => tree'[c] = NewNode
      <4>1. CASE c \in DOMAIN tree
        BY <3>1, <4>1 DEF GetOrCreateChild
      <4>2. CASE c \notin DOMAIN tree
        <5>1. tree' = Put(tree, c, NewNode)
          BY <3>1, <4>2 DEF GetOrCreateChild
        <5> QED
          BY <4>2, <5>1 DEF Put
      <4> QED
        BY <4>1, <4>2
    <3> QED
      BY <3>2, NewNodeType DEF TypeOK
  <2>5. /\ rnode' = [rnode EXCEPT ![r] = c]
        /\ rpc' = [rpc EXCEPT ![r] = "label"]
        /\ UNCHANGED <<routes, mutex, serving, rpath, rhandler, todo, caller,
                       workerVars, log>>
    BY <1>6 DEF StepToChild
  <2>6. TypeOK'
    BY <2>3, <2>4, <2>5 DEF TypeOK, workerVars
  <2>7. RegistrarInv'
    BY <2>1, <2>3, <2>4, <2>5 DEF TypeOK, RegistrarInv, Adding
  <2> QED
    BY <2>6, <2>7
<1>7. ASSUME NEW r \in Registrars, LabelNode(r)
      PROVE  TypeInv'
  <2> DEFINE n == rnode[r]
             part == rpath[r][Len(n)]
  <2>1. /\ rpc[r] = "label" /\ Adding(r)
        /\ rpath[r] \in Templates /\ rpath[r] \in Seq(Part)
        /\ n \in Seq(Text) /\ n \in DOMAIN tree /\ tree[n] \in Node
        /\ LiesOn(n, rpath[r]) /\ Len(n) > 0
    BY <1>7, TemplatesAssumption DEF LabelNode, TypeOK, RegistrarInv, Adding
  <2>2. part \in Part
    BY <2>1 DEF LiesOn
  <2>3. /\ DOMAIN tree' = DOMAIN tree
        /\ \A x \in DOMAIN tree : tree'[x] \in Node
    <3>1. tree' = Put(tree, n, Label(tree[n], part))
      BY <1>7 DEF LabelNode
    <3>2. Label(tree[n], part) \in Node
      BY <2>1, <2>2, LabelFacts
    <3> QED
      BY <2>1, <3>1, <3>2 DEF Put, TypeOK
  <2>4. /\ rpc' = [rpc EXCEPT ![r] =
                     IF Len(n) < Len(rpath[r]) THEN "child" ELSE "key"]
        /\ UNCHANGED <<routes, mutex, serving, rpath, rhandler, rnode, todo,
                       caller, workerVars, log>>
    BY <1>7 DEF LabelNode
  <2>5. TypeOK'
    BY <2>3, <2>4 DEF TypeOK, workerVars
  <2>6. /\ Len(n) <= Len(rpath[r]) /\ Len(n) \in Nat /\ Len(rpath[r]) \in Nat
        /\ rpc'[r] = IF Len(n) < Len(rpath[r]) THEN "child" ELSE "key"
        /\ \A s \in Registrars : s # r => rpc'[s] = rpc[s]
    BY <2>1, <2>4 DEF TypeOK, LiesOn
  <2>7. RegistrarInv'
    BY <2>1, <2>3, <2>4, <2>6 DEF RegistrarInv, Adding
  <2> QED
    BY <2>5, <2>7
<1>8. ASSUME NEW r \in Registrars, SetKey(r)
      PROVE  TypeInv'
  <2>1. rnode[r] \in DOMAIN tree /\ HashOf[rpath[r]] \in Nat
    BY <1>8, HashAssumption DEF SetKey, RegistrarInv, Adding
  <2>2. DOMAIN tree' = DOMAIN tree /\ \A x \in DOMAIN tree : tree'[x] \in Node
    BY <1>8, <2>1 DEF SetKey, TypeOK, Node
  <2>3. TypeOK'
    BY <1>8, <2>2 DEF SetKey, TypeOK, workerVars
  <2>4. RegistrarInv'
    BY <1>8, <2>2 DEF SetKey, TypeOK, RegistrarInv, Adding
  <2> QED
    BY <2>3, <2>4
<1>9. ASSUME NEW r \in Registrars, SetHandler(r)
      PROVE  TypeInv'
  <2>1. rnode[r] \in DOMAIN tree
    BY <1>9 DEF SetHandler, RegistrarInv, Adding
  <2>2. DOMAIN tree' = DOMAIN tree /\ \A x \in DOMAIN tree : tree'[x] \in Node
    BY <1>9, <2>1 DEF SetHandler, TypeOK, Node
  <2>3. TypeOK'
    BY <1>9, <2>2 DEF SetHandler, TypeOK, workerVars, Locks
  <2>4. RegistrarInv'
    BY <1>9, <2>2 DEF SetHandler, TypeOK, RegistrarInv, Adding
  <2> QED
    BY <2>3, <2>4
<1>10. ASSUME NEW r \in Registrars, EmplaceRoute(r)
       PROVE  TypeInv'
  <2> DEFINE k == HashOf[rpath[r]]
             route == [path |-> rpath[r], handler |-> rhandler[r]]
  <2>1. /\ rpath[r] \in Templates /\ rhandler[r] \in Handlers
        /\ k \in Nat /\ route \in Route
    BY <1>10, HashAssumption DEF EmplaceRoute, TypeOK, RegistrarInv, Route
  <2>2. DOMAIN routes' \subseteq Nat /\ \A x \in DOMAIN routes' : routes'[x] \in Route
    <3>1. routes' = routes \/ routes' = Put(routes, k, route)
      BY <1>10 DEF EmplaceRoute, Emplaced
    <3> QED
      BY <2>1, <3>1 DEF Put, TypeOK
  <2>3. TypeOK'
    BY <1>10, <2>1, <2>2 DEF EmplaceRoute, TypeOK, workerVars, Locks
  <2>4. RegistrarInv'
    BY <1>10 DEF EmplaceRoute, TypeOK, RegistrarInv, Adding
  <2> QED
    BY <2>3, <2>4
<1>11. ASSUME NEW w \in Workers, NEW p \in Requests, Receive(w, p)
       PROVE  TypeInv'
  BY <1>11 DEF Receive, TypeOK, RegistrarInv, Adding, registrarVars, EmptyMap
<1>12. ASSUME NEW w \in Workers, MatchStatic(w)
       PROVE  TypeInv'
  <2>1. WText(w) \in Text
    BY <1>12, WTextType DEF MatchStatic
  <2>2. wnode' \in [Workers -> Seq(Text)]
    BY <1>12, <2>1 DEF MatchStatic, TypeOK
  <2> QED
    BY <1>12, <2>2 DEF MatchStatic, TypeOK, RegistrarInv, Adding, registrarVars
<1>13. ASSUME NEW w \in Workers, MatchParameter(w)
       PROVE  TypeInv'
  <2> DEFINE name == tree[Append(wnode[w], Wild)].param_name
             q == Put(wparams[w], name, WText(w))
  <2>1. WText(w) \in Text /\ Wild \in Text
    BY <1>13, WTextType, TextAssumption DEF MatchParameter
  <2>2. wnode' \in [Workers -> Seq(Text)]
    BY <1>13, <2>1 DEF MatchParameter, TypeOK
  <2>3. name \in Text
    BY <1>13 DEF MatchParameter, HasParameterChild, TypeOK, Node
  <2>4. DOMAIN q \subseteq Text /\ \A x \in DOMAIN q : q[x] \in Text
    BY <2>1, <2>3 DEF Put, TypeOK
  <2>5. wparams' = [wparams EXCEPT ![w] = q]
    BY <1>13 DEF MatchParameter
  <2>6. /\ DOMAIN wparams' = Workers
        /\ \A v \in Workers :
             /\ DOMAIN wparams'[v] \subseteq Text
             /\ \A x \in DOMAIN wparams'[v] : wparams'[v][x] \in Text
    BY <2>4, <2>5 DEF TypeOK
  <2>7. TypeOK'
    BY <1>13, <2>2, <2>6 DEF MatchParameter, TypeOK, registrarVars
  <2>8. RegistrarInv'
    BY <1>13 DEF MatchParameter, RegistrarInv, Adding, registrarVars
  <2> QED
    BY <2>7, <2>8
<1>14. ASSUME NEW w \in Workers, LookUpRoute(w)
       PROVE  TypeInv'
  BY <1>14 DEF LookUpRoute, TypeOK, RegistrarInv, Adding, registrarVars
<1>15. ASSUME NEW w \in Workers,
              MatchFails(w) \/ LookUpThrows(w) \/ Invoke(w) \/ ReturnToLoop(w)
       PROVE  TypeInv'
  BY <1>15 DEF MatchFails, LookUpThrows, Invoke, ReturnToLoop,
               TypeOK, RegistrarInv, Adding, registrarVars
<1>16. CASE UNCHANGED vars
  BY <1>16 DEF vars, TypeOK, RegistrarInv, Adding, registrarVars, workerVars
<1> QED
  BY <1>1, <1>2, <1>3, <1>4, <1>5, <1>6, <1>7, <1>8, <1>9, <1>10, <1>11,
     <1>12, <1>13, <1>14, <1>15, <1>16
     DEF Next, RegistrarStep, WorkerStep, Terminating

(* Every variable always has its declared type, and AddRoute never indexes *)
(* outside the pattern it inserts or leaves the tree it walks.             *)
THEOREM TypeCorrect == Spec => []TypeOK
<1>1. TypeInv => TypeOK
  BY DEF TypeInv
<1> QED
  BY TypeInit, TypeNext, <1>1, PTL DEF Spec

-------------------------------------------------------------------------------
(* Who holds the two mutexes. *)
LockInv ==
  \A r \in Registrars :
    /\ mutex["dispatcher"] = r <=> rpc[r] \notin {"idle", "lock"}
    /\ mutex["router"] = r <=> Adding(r)

(* What the one registration in progress has put into the tree, and where  *)
(* the routes come from.                                                   *)
TableInv ==
  /\ TreeWellFormed
  /\ TreeAndRoutesAgree
  /\ \A e \in log : e[1] \in ValidTemplates
  /\ \A k \in DOMAIN routes : /\ HashOf[routes[k].path] = k
                              /\ <<routes[k].path, routes[k].handler>> \in log
  /\ \A r \in Registrars :
       rpc[r] \in {"handler", "emplace"} =>
         /\ Shape(rpath[r]) \in DOMAIN tree
         /\ tree[Shape(rpath[r])].key # 0
         /\ rpc[r] = "emplace" => tree[Shape(rpath[r])].handler

(* What a request has matched so far, and what it has captured. *)
Walked(w) ==
  /\ wreq[w] \in Requests
  /\ wnode[w] \in DOMAIN tree
  /\ Len(wnode[w]) <= Len(wreq[w])
  /\ \A i \in 1..Len(wnode[w]) :
       IF wnode[w][i] = Wild THEN wreq[w][i] \in ParamTexts
       ELSE wnode[w][i] = wreq[w][i]
  /\ \A x \in DOMAIN wparams[w] :
       \E i \in 1..Len(wnode[w]) : wnode[w][i] = Wild /\ wparams[w][x] = wreq[w][i]

(* The route a request was given ends where the request's walk ended. *)
Routed(w) ==
  /\ Len(wnode[w]) = Len(wreq[w])
  /\ \E e \in log : /\ e[1] = wroute[w].path
                    /\ e[2] = wroute[w].handler
                    /\ Shape(e[1]) = wnode[w]

WorkerInv ==
  \A w \in Workers :
    /\ wpc[w] \in {"match", "invoke", "called", "silent"} => Walked(w)
    /\ wpc[w] \in {"invoke", "called", "silent"} => Routed(w)

(* Serving a request changes nothing that a registration works on. *)
LEMMA RequestsOnlyRead ==
  ASSUME NEW w \in Workers,
         WorkerStep(w) \/ \E p \in Requests : Receive(w, p)
  PROVE  UNCHANGED <<tree, routes, mutex, serving, registrarVars, log>>
BY DEF WorkerStep, Receive, MatchStatic, MatchParameter, MatchFails,
       LookUpRoute, LookUpThrows, Invoke, ReturnToLoop

LEMMA LockNext == TypeOK /\ LockInv /\ [Next]_vars => LockInv'
<1> SUFFICES ASSUME TypeOK, LockInv, [Next]_vars PROVE LockInv'
  OBVIOUS
<1> USE ThreadsAssumption DEF LockInv, TypeOK, Adding, Locks
<1>1. CASE Start \/ UNCHANGED vars
  BY <1>1 DEF Start, vars, registrarVars
<1>2. ASSUME NEW r \in Registrars, NEW t \in Templates, NEW h \in Handlers,
             RegisterRouteHandler(r, t, h)
      PROVE  LockInv'
  BY <1>2 DEF RegisterRouteHandler
<1>3. ASSUME NEW r \in Registrars, LockDispatcher(r)
      PROVE  LockInv'
  BY <1>3 DEF LockDispatcher
<1>4. ASSUME NEW r \in Registrars, EnterAddRoute(r) \/ RejectRoute(r)
      PROVE  LockInv'
  <2>1. CASE EnterAddRoute(r)
    BY <2>1 DEF EnterAddRoute
  <2>2. CASE RejectRoute(r)
    <3>1. /\ rpc[r] = "addroute" /\ rpc' = [rpc EXCEPT ![r] = "idle"]
          /\ mutex' = [mutex EXCEPT !["dispatcher"] = Free]
      BY <2>2 DEF RejectRoute
    <3> QED
      BY <3>1
  <2> QED
    BY <1>4, <2>1, <2>2
<1>5. ASSUME NEW r \in Registrars, StepToChild(r) \/ LabelNode(r) \/ SetKey(r)
      PROVE  LockInv'
  BY <1>5 DEF StepToChild, LabelNode, SetKey
<1>6. ASSUME NEW r \in Registrars, SetHandler(r) \/ EmplaceRoute(r)
      PROVE  LockInv'
  <2>1. CASE SetHandler(r)
    BY <2>1 DEF SetHandler
  <2>2. CASE EmplaceRoute(r)
    <3>1. /\ rpc[r] = "emplace" /\ rpc' = [rpc EXCEPT ![r] = "idle"]
          /\ mutex' = [mutex EXCEPT !["dispatcher"] = Free]
      BY <2>2 DEF EmplaceRoute
    <3> QED
      BY <3>1
  <2> QED
    BY <1>6, <2>1, <2>2
<1>7. ASSUME NEW w \in Workers,
             WorkerStep(w) \/ \E p \in Requests : Receive(w, p)
      PROVE  LockInv'
  BY <1>7, RequestsOnlyRead DEF registrarVars
<1> QED
  BY <1>1, <1>2, <1>3, <1>4, <1>5, <1>6, <1>7
     DEF Next, RegistrarStep, Terminating

-------------------------------------------------------------------------------
(* H2OServer has one event loop, so there is one thread that serves        *)
(* requests; a handler that registers routes registers them on it.         *)
OneLoop ==
  \/ Discipline = "before_start"
  \/ Discipline = "in_handler" /\ \A v, w \in Workers : v = w

(* Requests and registrations keep out of each other's way: nothing is     *)
(* served before Start, and from then on a registration runs inside the    *)
(* handler that its caller has called.                                     *)
QuietInv ==
  /\ ~serving => \A w \in Workers : wpc[w] = "idle"
  /\ serving => \A r \in Registrars : rpc[r] # "idle" =>
       /\ Discipline = "in_handler"
       /\ caller[r] \in Workers
       /\ wpc[caller[r]] = "called"

LEMMA QuietInit == Init => QuietInv
BY DEF Init, QuietInv

(* With one event loop, no registration runs while a request is anywhere   *)
(* but inside its handler.                                                 *)
LEMMA LoopAlone ==
  ASSUME OneLoop, QuietInv, NEW w \in Workers, wpc[w] \notin {"idle", "called"}
  PROVE  serving /\ NoneRegisters
BY DEF OneLoop, QuietInv, NoneRegisters

(* Nor while the event loop takes the next step.                           *)
LEMMA WorkerAlone ==
  ASSUME OneLoop, QuietInv, NEW w \in Workers,
         WorkerStep(w) \/ \E p \in Requests : Receive(w, p)
  PROVE  serving /\ NoneRegisters
<1>1. CASE wpc[w] \notin {"idle", "called"}
  BY <1>1, LoopAlone
<1>2. CASE wpc[w] = "idle"
  <2>1. serving
    BY <1>2 DEF WorkerStep, Receive, MatchStatic, MatchParameter, MatchFails,
                Matching, Matched, LookUpRoute, LookUpThrows, Invoke, ReturnToLoop
  <2> QED
    BY <1>2, <2>1 DEF OneLoop, QuietInv, NoneRegisters
<1>3. CASE wpc[w] = "called"
  <2>1. serving /\ \A r \in Registrars : caller[r] # w
    BY <1>3 DEF WorkerStep, Receive, MatchStatic, MatchParameter, MatchFails,
                Matching, Matched, LookUpRoute, LookUpThrows, Invoke, ReturnToLoop,
                QuietInv
  <2> QED
    BY <2>1 DEF OneLoop, QuietInv, NoneRegisters
<1> QED
  BY <1>1, <1>2, <1>3

(* A registration that goes on keeps its caller waiting.                   *)
LEMMA RegistrarBusy ==
  ASSUME TypeOK, NEW r \in Registrars, RegistrarStep(r)
  PROVE  /\ ~NoneRegisters
         /\ UNCHANGED <<serving, workerVars>>
         /\ \A s \in Registrars : rpc'[s] # "idle" =>
              rpc[s] # "idle" /\ caller'[s] = caller[s]
<1>1. ~NoneRegisters /\ UNCHANGED <<serving, workerVars>>
  BY DEF RegistrarStep, LockDispatcher, EnterAddRoute, RejectRoute, StepToChild,
         LabelNode, SetKey, SetHandler, EmplaceRoute, NoneRegisters
<1>2. CASE LockDispatcher(r) \/ EnterAddRoute(r) \/ StepToChild(r) \/ LabelNode(r)
           \/ SetKey(r) \/ SetHandler(r)
  <2>1. /\ caller' = caller /\ rpc[r] # "idle"
        /\ \A s \in Registrars : s # r => rpc'[s] = rpc[s]
    BY <1>2 DEF LockDispatcher, EnterAddRoute, StepToChild, LabelNode, SetKey,
                SetHandler, TypeOK
  <2> QED
    BY <1>1, <2>1
<1>3. CASE RejectRoute(r) \/ EmplaceRoute(r)
  <2>1. /\ rpc' = [rpc EXCEPT ![r] = "idle"]
        /\ caller' = [caller EXCEPT ![r] = Free]
    BY <1>3 DEF RejectRoute, EmplaceRoute
  <2> QED
    BY <1>1, <2>1 DEF TypeOK
<1> QED
  BY <1>2, <1>3 DEF RegistrarStep

LEMMA QuietNext ==
  ASSUME OneLoop
  PROVE  TypeOK /\ QuietInv /\ [Next]_vars => QuietInv'
<1> SUFFICES ASSUME TypeOK, QuietInv, [Next]_vars
             PROVE  QuietInv'
  OBVIOUS
<1>1. CASE Start
  BY <1>1 DEF Start, OneLoop, QuietInv, NoneRegisters, registrarVars, workerVars
<1>2. ASSUME NEW r \in Registrars, NEW t \in Templates, NEW h \in Handlers,
             RegisterRouteHandler(r, t, h)
      PROVE  QuietInv'
  <2>1. PICK c \in Workers \cup {Free} :
          MayRegister(c) /\ caller' = [caller EXCEPT ![r] = c]
    BY <1>2 DEF RegisterRouteHandler
  <2>2. /\ UNCHANGED <<serving, wpc>>
        /\ \A s \in Registrars : s # r => rpc'[s] = rpc[s] /\ caller'[s] = caller[s]
        /\ caller'[r] = c
    BY <1>2, <2>1 DEF RegisterRouteHandler, workerVars, TypeOK
  <2>3. serving => c \in Workers /\ Discipline = "in_handler" /\ wpc[c] = "called"
    BY <2>1 DEF MayRegister, OneLoop
  <2> QED
    BY <2>2, <2>3 DEF QuietInv
<1>3. ASSUME NEW r \in Registrars, RegistrarStep(r)
      PROVE  QuietInv'
  BY <1>3, RegistrarBusy DEF QuietInv, workerVars
<1>4. ASSUME NEW w \in Workers,
             WorkerStep(w) \/ \E p \in Requests : Receive(w, p)
      PROVE  QuietInv'
  BY <1>4, WorkerAlone, RequestsOnlyRead DEF QuietInv, NoneRegisters, registrarVars
<1>5. CASE UNCHANGED vars
  BY <1>5 DEF vars, QuietInv, registrarVars, workerVars
<1> QED
  BY <1>1, <1>2, <1>3, <1>4, <1>5 DEF Next, Terminating

(* A registration has the tree and routes_ to itself: no two are between   *)
(* taking and releasing the dispatcher's mutex.                            *)
LEMMA OneRegistration ==
  ASSUME LockInv, NEW r \in Registrars, NEW s \in Registrars, r # s,
         rpc[r] \notin {"idle", "lock"}
  PROVE  rpc[s] \in {"idle", "lock"}
BY DEF LockInv

(* No two threads ever access a node or routes_ at once with one of them   *)
(* writing: registrations are kept apart by the dispatcher's mutex, and    *)
(* MatchRoute from them because main() registers before it calls Start and *)
(* a handler registers on the one event loop.                              *)
THEOREM RaceFree ==
  ASSUME OneLoop
  PROVE  Spec => []NoDataRace
<1>1. Init => LockInv /\ QuietInv
  BY ThreadsAssumption, QuietInit DEF Init, LockInv, Adding, Locks
<1>2. LockInv /\ QuietInv => NoDataRace
  <2> SUFFICES ASSUME LockInv, QuietInv, NEW r \in Registrars
               PROVE  /\ \A s \in Registrars \ {r} :
                           RegistrarWrites(r) \cap
                             (RegistrarWrites(s) \cup RegistrarReads(s)) = {}
                      /\ \A w \in Workers :
                           RegistrarWrites(r) \cap WorkerReads(w) = {}
    BY DEF NoDataRace
  <2>1. \A s \in Registrars : rpc[s] \in {"idle", "lock"} =>
          RegistrarWrites(s) = {} /\ RegistrarReads(s) = {}
    BY DEF RegistrarWrites, RegistrarReads
  <2>2. CASE rpc[r] \in {"idle", "lock"}
    BY <2>1, <2>2
  <2>3. CASE rpc[r] \notin {"idle", "lock"}
    <3>1. \A s \in Registrars \ {r} : RegistrarWrites(s) = {} /\ RegistrarReads(s) = {}
      BY <2>1, <2>3, OneRegistration
    <3>2. \A w \in Workers : wpc[w] \in {"idle", "called"}
      BY <2>3, LoopAlone DEF NoneRegisters
    <3>3. \A w \in Workers : WorkerReads(w) = {}
      BY <3>2 DEF WorkerReads, Matching, Matched
    <3> QED
      BY <3>1, <3>3
  <2> QED
    BY <2>2, <2>3
<1>3. TypeOK /\ LockInv /\ QuietInv /\ [Next]_vars => LockInv' /\ QuietInv'
  BY LockNext, QuietNext
<1> QED
  BY TypeCorrect, <1>1, <1>2, <1>3, PTL DEF Spec

-------------------------------------------------------------------------------
(* The node at the end of the way to a pattern is the pattern's node. *)
LEMMA EndOfWay ==
  ASSUME NEW n \in Seq(Text), NEW t \in Seq(Part),
         LiesOn(n, t), Len(n) = Len(t)
  PROVE  n = Shape(t)
<1>1. n = [i \in 1..Len(n) |-> n[i]]
  OBVIOUS
<1>2. \A i \in 1..Len(n) : n[i] = NodeKey(t[i])
  BY DEF LiesOn
<1> QED
  BY <1>1, <1>2 DEF Shape

(* The node one key shorter is the one the key was appended to. *)
LEMMA ParentOfChild ==
  ASSUME NEW n \in Seq(Text), NEW k \in Text
  PROVE  /\ SubSeq(Append(n, k), 1, Len(Append(n, k)) - 1) = n
         /\ Append(n, k)[Len(Append(n, k))] = k
OBVIOUS

(* The patterns known do not change while a registration is in progress. *)
LEMMA KnownKept ==
  ASSUME UNCHANGED <<rpath, log>>,
         \A s \in Registrars : (Adding(s)' \/ rpc'[s] = "emplace") <=>
                               (Adding(s) \/ rpc[s] = "emplace")
  PROVE  KnownTemplates' = KnownTemplates
BY DEF KnownTemplates

(* Steps that touch neither structure and no registration inside AddRoute  *)
(* or after it keep TableInv.                                              *)
LEMMA TableKept ==
  ASSUME TableInv, UNCHANGED <<tree, routes, log>>,
         \A s \in Registrars :
           /\ Adding(s) \/ rpc[s] = "emplace" =>
                /\ rpc'[s] = rpc[s]
                /\ rpath'[s] = rpath[s]
                /\ rnode'[s] = rnode[s]
           /\ rpc'[s] \in {"handler", "emplace"} => rpc'[s] = rpc[s]
  PROVE  TableInv'
<1>1. \A t \in KnownTemplates : t \in KnownTemplates'
  BY DEF KnownTemplates, Adding
<1>2. TreeWellFormed'
  BY <1>1 DEF TableInv, TreeWellFormed, Adding
<1>3. TreeAndRoutesAgree'
  BY DEF TableInv, TreeAndRoutesAgree, Adding
<1> QED
  BY <1>2, <1>3 DEF TableInv, Adding

LEMMA TableInit == Init => TableInv
<1> SUFFICES ASSUME Init PROVE TableInv
  OBVIOUS
<1>1. DOMAIN tree = {<< >>} /\ tree[<< >>].key = 0
  <2>1. tree = Put(EmptyMap, << >>, NewNode)
    BY DEF Init
  <2>2. DOMAIN tree = DOMAIN EmptyMap \cup {<< >>} /\ tree[<< >>] = NewNode
    BY <2>1 DEF Put
  <2> QED
    BY <2>2, EmptyMapFacts, NewNodeKey
<1>2. DOMAIN routes = {} /\ log = {}
  BY EmptyMapFacts DEF Init
<1>3. \A r \in Registrars : rpc[r] = "idle"
  BY DEF Init
<1> QED
  BY <1>1, <1>2, <1>3 DEF TableInv, TreeWellFormed, TreeAndRoutesAgree

(* Stepping to a child keeps TableInv. *)
LEMMA ChildKeepsTable ==
  ASSUME TypeInv, LockInv, TableInv, NEW r \in Registrars, StepToChild(r), TypeInv'
  PROVE  TableInv'
<1> DEFINE n == rnode[r]
           k == NodeKey(RPart(r))
           c == Append(n, k)
<1>1. /\ rpc[r] = "child" /\ rpath[r] \in ValidTemplates
      /\ n \in Seq(Text) /\ n \in DOMAIN tree /\ rpath[r] \in Seq(Part)
      /\ Len(n) < Len(rpath[r])
  BY TemplatesAssumption DEF StepToChild, TypeInv, TypeOK, RegistrarInv, Adding
<1>2. k \in Text
  BY <1>1, NodeKeyType DEF RPart
<1>3. /\ rpc' = [rpc EXCEPT ![r] = "label"] /\ rnode' = [rnode EXCEPT ![r] = c]
      /\ UNCHANGED <<routes, rpath, log>>
  BY DEF StepToChild
<1>4. rpc'[r] = "label" /\ rnode'[r] = c /\ Adding(r)'
  BY <1>1, <1>3 DEF TypeInv, TypeOK, Adding
<1>5. LiesOn(c, rpath[r])
  BY <1>3, <1>4 DEF TypeInv, RegistrarInv
<1>6. /\ DOMAIN tree' = DOMAIN tree \cup {c}
      /\ \A x \in DOMAIN tree : tree'[x] = tree[x]
      /\ c \notin DOMAIN tree => tree'[c] = NewNode
  <2>1. tree' = GetOrCreateChild(tree, n, k)
    BY DEF StepToChild
  <2>2. CASE c \in DOMAIN tree
    BY <2>1, <2>2 DEF GetOrCreateChild
  <2>3. CASE c \notin DOMAIN tree
    <3>1. tree' = Put(tree, c, NewNode)
      BY <2>1, <2>3 DEF GetOrCreateChild
    <3> QED
      BY <2>3, <3>1 DEF Put
  <2> QED
    BY <2>2, <2>3
<1>7. KnownTemplates' = KnownTemplates /\ rpath[r] \in KnownTemplates
  BY <1>1, <1>3 DEF KnownTemplates, Adding, TypeInv, TypeOK
<1>8. \A s \in Registrars : s # r => rpc'[s] = rpc[s] /\ rnode'[s] = rnode[s]
  BY <1>3 DEF TypeInv, TypeOK
<1>9. TreeWellFormed'
  <2> SUFFICES ASSUME NEW m \in DOMAIN tree' \ {<< >>}
               PROVE  /\ SubSeq(m, 1, Len(m) - 1) \in DOMAIN tree'
                      /\ \E t \in KnownTemplates' :
                           t \in ValidTemplates /\ LiesOn(m, t)
                      /\ \/ (tree'[m].type = "kParameter") <=> (m[Len(m)] = Wild)
                         \/ \E s \in Registrars : rpc'[s] = "label" /\ rnode'[s] = m
    BY <1>6 DEF TableInv, TreeWellFormed
  <2>1. CASE m = c
    <3>1. SubSeq(c, 1, Len(c) - 1) = n
      BY <1>1, <1>2, ParentOfChild
    <3>2. SubSeq(m, 1, Len(m) - 1) \in DOMAIN tree'
      BY <1>1, <1>6, <2>1, <3>1
    <3>3. \E t \in KnownTemplates' : t \in ValidTemplates /\ LiesOn(m, t)
      BY <1>1, <1>5, <1>7, <2>1
    <3>4. \E s \in Registrars : rpc'[s] = "label" /\ rnode'[s] = m
      BY <1>4, <2>1
    <3> QED
      BY <3>2, <3>3, <3>4
  <2>2. CASE m # c
    <3>1. m \in DOMAIN tree \ {<< >>}
      BY <1>6, <2>2
    <3>2. /\ SubSeq(m, 1, Len(m) - 1) \in DOMAIN tree
          /\ \E t \in KnownTemplates : t \in ValidTemplates /\ LiesOn(m, t)
          /\ \/ (tree[m].type = "kParameter") <=> (m[Len(m)] = Wild)
             \/ \E s \in Registrars : rpc[s] = "label" /\ rnode[s] = m
      BY <3>1 DEF TableInv, TreeWellFormed
    <3>3. tree'[m] = tree[m] /\ SubSeq(m, 1, Len(m) - 1) \in DOMAIN tree'
      BY <1>6, <3>1, <3>2
    <3>4. \A s \in Registrars :
            rpc[s] = "label" => rpc'[s] = "label" /\ rnode'[s] = rnode[s]
      BY <1>1, <1>8
    <3> QED
      BY <1>7, <3>2, <3>3, <3>4
  <2> QED
    BY <2>1, <2>2
<1>10. TreeAndRoutesAgree'
  <2>1. \A m \in DOMAIN tree' : tree'[m].key # 0 => m \in DOMAIN tree
    BY <1>6, NewNodeKey
  <2>2. \A s \in Registrars : rpc[s] \in {"handler", "emplace"} => rpc'[s] = rpc[s]
    BY <1>1, <1>8
  <2> QED
    BY <1>3, <1>6, <2>1, <2>2 DEF TableInv, TreeAndRoutesAgree
<1>11. \A s \in Registrars : rpc'[s] \in {"handler", "emplace"} => rpc'[s] = rpc[s]
  BY <1>4, <1>8
<1> QED
  BY <1>3, <1>6, <1>9, <1>10, <1>11 DEF TableInv

(* Labelling a node keeps TableInv: it gives the node the type its key     *)
(* stands for.                                                             *)
LEMMA LabelKeepsTable ==
  ASSUME TypeInv, LockInv, TableInv, NEW r \in Registrars, LabelNode(r), TypeInv'
  PROVE  TableInv'
<1> DEFINE n == rnode[r]
           part == rpath[r][Len(n)]
<1>1. /\ rpc[r] = "label" /\ Adding(r)
      /\ rpath[r] \in Seq(Part) /\ rpath[r] \in Templates
      /\ n \in Seq(Text) /\ n \in DOMAIN tree /\ tree[n] \in Node
      /\ LiesOn(n, rpath[r]) /\ Len(n) > 0
  BY TemplatesAssumption DEF LabelNode, TypeInv, TypeOK, RegistrarInv, Adding
<1>2. part \in Part /\ NodeKey(part) = n[Len(n)]
  BY <1>1 DEF LiesOn
<1>3. /\ DOMAIN tree' = DOMAIN tree
      /\ \A m \in DOMAIN tree : /\ m # n => tree'[m] = tree[m]
                                /\ tree'[m].key = tree[m].key
                                /\ tree'[m].handler = tree[m].handler
      /\ (tree'[n].type = "kParameter") <=> (n[Len(n)] = Wild)
  <2>1. tree' = Put(tree, n, Label(tree[n], part))
    BY DEF LabelNode
  <2>2. /\ Label(tree[n], part).key = tree[n].key
        /\ Label(tree[n], part).handler = tree[n].handler
        /\ (Label(tree[n], part).type = "kParameter") <=> (n[Len(n)] = Wild)
    BY <1>1, <1>2, LabelFacts
  <2>3. /\ DOMAIN tree' = DOMAIN tree
        /\ \A m \in DOMAIN tree : m # n => tree'[m] = tree[m]
        /\ tree'[n] = Label(tree[n], part)
    BY <1>1, <2>1 DEF Put
  <2> QED
    BY <1>1, <2>2, <2>3
<1>4. /\ \A s \in Registrars : s # r => rpc'[s] = rpc[s]
      /\ rpc'[r] \in {"child", "key"}
      /\ UNCHANGED <<routes, rpath, rnode, log>>
  BY DEF LabelNode, TypeInv, TypeOK
<1>5. KnownTemplates' = KnownTemplates
  <2>1. \A s \in Registrars : (Adding(s)' \/ rpc'[s] = "emplace") <=>
                              (Adding(s) \/ rpc[s] = "emplace")
    BY <1>1, <1>4 DEF Adding
  <2> QED
    BY <1>4, <2>1, KnownKept
<1>6. \A s \in Registrars : rpc[s] = "label" => s = r
  BY <1>1, OneRegistration
<1>7. TreeWellFormed'
  <2> SUFFICES ASSUME NEW m \in DOMAIN tree \ {<< >>}
               PROVE  (tree'[m].type = "kParameter") <=> (m[Len(m)] = Wild)
    BY <1>3, <1>5 DEF TableInv, TreeWellFormed
  <2>1. CASE m = n
    BY <1>3, <2>1
  <2>2. CASE m # n
    BY <1>3, <1>6, <2>2 DEF TableInv, TreeWellFormed
  <2> QED
    BY <2>1, <2>2
<1>8. \A s \in Registrars : rpc[s] \in {"handler", "emplace"} => rpc'[s] = rpc[s]
  BY <1>1, <1>4
<1>9. TreeAndRoutesAgree'
  BY <1>3, <1>4, <1>8 DEF TableInv, TreeAndRoutesAgree
<1>10. \A s \in Registrars : rpc'[s] \in {"handler", "emplace"} => rpc'[s] = rpc[s]
  BY <1>4
<1> QED
  BY <1>3, <1>4, <1>7, <1>9, <1>10 DEF TableInv

(* Giving the last node its key keeps TableInv. *)
LEMMA KeyKeepsTable ==
  ASSUME TypeInv, LockInv, TableInv, NEW r \in Registrars, SetKey(r), TypeInv'
  PROVE  TableInv'
<1> DEFINE n == rnode[r]
           t == rpath[r]
<1>1. /\ rpc[r] = "key" /\ t \in ValidTemplates /\ t \in Templates
      /\ n \in DOMAIN tree /\ n = Shape(t) /\ tree[n] \in Node
  <2>1. /\ rpc[r] = "key" /\ t \in ValidTemplates /\ t \in Templates
        /\ n \in DOMAIN tree /\ LiesOn(n, t) /\ Len(n) = Len(t)
        /\ n \in Seq(Text) /\ t \in Seq(Part)
    BY TemplatesAssumption DEF SetKey, TypeInv, TypeOK, RegistrarInv, Adding
  <2> QED
    BY <2>1, EndOfWay DEF TypeInv, TypeOK
<1>2. /\ DOMAIN tree' = DOMAIN tree
      /\ \A m \in DOMAIN tree : /\ m # n => tree'[m] = tree[m]
                                /\ tree'[m].type = tree[m].type
                                /\ tree'[m].handler = tree[m].handler
      /\ tree'[n].key = HashOf[t]
  BY <1>1 DEF SetKey, Node
<1>3. HashOf[t] # 0
  BY <1>1, HashAssumption
<1>4. /\ \A s \in Registrars : s # r => rpc'[s] = rpc[s]
      /\ rpc'[r] = "handler"
      /\ UNCHANGED <<routes, rpath, rnode, log>>
  BY DEF SetKey, TypeInv, TypeOK
<1>5. KnownTemplates' = KnownTemplates
  <2>1. \A s \in Registrars : (Adding(s)' \/ rpc'[s] = "emplace") <=>
                              (Adding(s) \/ rpc[s] = "emplace")
    BY <1>1, <1>4 DEF Adding
  <2> QED
    BY <1>4, <2>1, KnownKept
<1>6. TreeWellFormed'
  <2>1. \A s \in Registrars : rpc[s] = "label" => rpc'[s] = "label"
    BY <1>1, <1>4
  <2>2. \A m \in DOMAIN tree : tree'[m].type = tree[m].type
    BY <1>2
  <2> QED
    BY <1>2, <1>4, <1>5, <2>1, <2>2 DEF TableInv, TreeWellFormed
<1>7. TreeAndRoutesAgree'
  <2>1. ASSUME NEW m \in DOMAIN tree, tree'[m].key # 0
        PROVE  \E u \in ValidTemplates :
                 /\ HashOf[u] = tree'[m].key
                 /\ Shape(u) = m
                 /\ \/ /\ tree'[m].handler
                       /\ HashOf[u] \in DOMAIN routes
                       /\ routes[HashOf[u]].path = u
                    \/ \E s \in Registrars : /\ rpc'[s] \in {"handler", "emplace"}
                                             /\ rpath[s] = u
    <3>1. CASE m = n
      BY <1>1, <1>2, <1>4, <3>1
    <3>2. CASE m # n
      BY <1>1, <1>2, <1>4, <2>1, <3>2 DEF TableInv, TreeAndRoutesAgree
    <3> QED
      BY <3>1, <3>2
  <2>2. ASSUME NEW e \in log
        PROVE  /\ HashOf[e[1]] \in DOMAIN routes
               /\ Shape(e[1]) \in DOMAIN tree
               /\ tree'[Shape(e[1])].key # 0
               /\ tree'[Shape(e[1])].handler
    BY <1>2, <1>3 DEF TableInv, TreeAndRoutesAgree
  <2> QED
    BY <1>2, <1>4, <2>1, <2>2 DEF TreeAndRoutesAgree
<1>8. ASSUME NEW s \in Registrars, rpc'[s] \in {"handler", "emplace"}
      PROVE  /\ Shape(rpath[s]) \in DOMAIN tree
             /\ tree'[Shape(rpath[s])].key # 0
             /\ rpc'[s] = "emplace" => tree'[Shape(rpath[s])].handler
  <2>1. CASE s = r
    BY <1>1, <1>2, <1>3, <1>4, <2>1
  <2>2. CASE s # r
    BY <1>1, <1>4, <1>8, <2>2, OneRegistration
  <2> QED
    BY <2>1, <2>2
<1> QED
  BY <1>2, <1>4, <1>6, <1>7, <1>8 DEF TableInv

(* Storing the executor in the node keeps TableInv. *)
LEMMA HandlerKeepsTable ==
  ASSUME TypeInv, LockInv, TableInv, NEW r \in Registrars, SetHandler(r)
  PROVE  TableInv'
<1> DEFINE n == rnode[r]
<1>1. /\ rpc[r] = "handler" /\ n \in DOMAIN tree /\ tree[n] \in Node
      /\ n = Shape(rpath[r])
  <2>1. /\ rpc[r] = "handler" /\ n \in DOMAIN tree
        /\ LiesOn(n, rpath[r]) /\ Len(n) = Len(rpath[r])
        /\ n \in Seq(Text) /\ rpath[r] \in Seq(Part)
    BY TemplatesAssumption DEF SetHandler, TypeInv, TypeOK, RegistrarInv, Adding
  <2> QED
    BY <2>1, EndOfWay DEF TypeInv, TypeOK
<1>2. /\ DOMAIN tree' = DOMAIN tree
      /\ \A m \in DOMAIN tree : /\ m # n => tree'[m] = tree[m]
                                /\ tree'[m].type = tree[m].type
                                /\ tree'[m].key = tree[m].key
      /\ tree'[n].handler = TRUE
  BY <1>1 DEF SetHandler, Node
<1>3. /\ \A s \in Registrars : s # r => rpc'[s] = rpc[s]
      /\ rpc'[r] = "emplace"
      /\ UNCHANGED <<routes, rpath, rnode, log>>
  BY DEF SetHandler, TypeInv, TypeOK
<1>4. KnownTemplates' = KnownTemplates
  <2>1. \A s \in Registrars : (Adding(s)' \/ rpc'[s] = "emplace") <=>
                              (Adding(s) \/ rpc[s] = "emplace")
    BY <1>1, <1>3 DEF Adding
  <2> QED
    BY <1>3, <2>1, KnownKept
<1>5. TreeWellFormed'
  <2>1. \A s \in Registrars : rpc[s] = "label" => rpc'[s] = "label"
    BY <1>1, <1>3
  <2>2. \A m \in DOMAIN tree : tree'[m].type = tree[m].type
    BY <1>2
  <2> QED
    BY <1>2, <1>3, <1>4, <2>1, <2>2 DEF TableInv, TreeWellFormed
<1>6. TreeAndRoutesAgree'
  <2>1. \A s \in Registrars : rpc[s] \in {"handler", "emplace"} =>
                              rpc'[s] \in {"handler", "emplace"}
    BY <1>3
  <2>2. \A m \in DOMAIN tree : tree[m].handler => tree'[m].handler
    BY <1>2
  <2> QED
    BY <1>2, <1>3, <2>1, <2>2 DEF TableInv, TreeAndRoutesAgree
<1>7. ASSUME NEW s \in Registrars, rpc'[s] \in {"handler", "emplace"}
      PROVE  /\ Shape(rpath[s]) \in DOMAIN tree
             /\ tree'[Shape(rpath[s])].key # 0
             /\ rpc'[s] = "emplace" => tree'[Shape(rpath[s])].handler
  <2>1. CASE s = r
    BY <1>1, <1>2, <2>1 DEF TableInv
  <2>2. CASE s # r
    BY <1>1, <1>3, <1>7, <2>2, OneRegistration
  <2> QED
    BY <2>1, <2>2
<1> QED
  BY <1>2, <1>3, <1>5, <1>6, <1>7 DEF TableInv

(* Emplacing the route completes what the node's key announced. *)
LEMMA EmplaceKeepsTable ==
  ASSUME TypeInv, LockInv, TableInv, NEW r \in Registrars, EmplaceRoute(r)
  PROVE  TableInv'
<1> DEFINE t == rpath[r]
           h == rhandler[r]
           k == HashOf[t]
<1>1. /\ rpc[r] = "emplace" /\ t \in ValidTemplates /\ t \in Templates
      /\ Shape(t) \in DOMAIN tree /\ tree[Shape(t)].key # 0
      /\ tree[Shape(t)].handler
  BY DEF EmplaceRoute, TypeInv, RegistrarInv, TableInv
<1>2. /\ \A s \in Registrars : s # r => rpc'[s] = rpc[s]
      /\ rpc'[r] = "idle"
      /\ UNCHANGED <<tree, rpath, rnode>>
      /\ log' = log \cup {<<t, h>>}
  BY DEF EmplaceRoute, TypeInv, TypeOK
<1>3. /\ DOMAIN routes' = DOMAIN routes \cup {k}
      /\ \A x \in DOMAIN routes : routes'[x] = routes[x]
      /\ k \notin DOMAIN routes => routes'[k] = [path |-> t, handler |-> h]
  <2>1. CASE k \in DOMAIN routes
    BY <2>1 DEF EmplaceRoute, Emplaced
  <2>2. CASE k \notin DOMAIN routes
    <3>1. routes' = Put(routes, k, [path |-> t, handler |-> h])
      BY <2>2 DEF EmplaceRoute, Emplaced
    <3> QED
      BY <2>2, <3>1 DEF Put
  <2> QED
    BY <2>1, <2>2
<1>4. routes'[k].path = t
  <2>1. CASE k \in DOMAIN routes
    <3>1. routes[k].path \in Templates /\ HashOf[routes[k].path] = k
      BY <2>1 DEF TypeInv, TypeOK, Route, TableInv
    <3> QED
      BY <1>1, <1>3, <2>1, <3>1, HashAssumption
  <2>2. CASE k \notin DOMAIN routes
    BY <1>3, <2>2
  <2> QED
    BY <2>1, <2>2
<1>5. \A u \in KnownTemplates : u \in KnownTemplates'
  <2>1. <<t, h>> \in log' /\ <<t, h>>[1] = t
    BY <1>2
  <2>2. \A s \in Registrars : Adding(s) \/ rpc[s] = "emplace" =>
          rpath[s] = t \/ (Adding(s)' \/ rpc'[s] = "emplace")
    BY <1>2 DEF Adding
  <2> QED
    BY <1>2, <2>1, <2>2 DEF KnownTemplates
<1>6. TreeWellFormed'
  <2>1. \A s \in Registrars : rpc[s] = "label" => rpc'[s] = "label"
    BY <1>1, <1>2
  <2> QED
    BY <1>2, <1>5, <2>1 DEF TableInv, TreeWellFormed
<1>7. TreeAndRoutesAgree'
  <2>1. ASSUME NEW m \in DOMAIN tree, tree[m].key # 0
        PROVE  \E u \in ValidTemplates :
                 /\ HashOf[u] = tree[m].key
                 /\ Shape(u) = m
                 /\ \/ /\ tree[m].handler
                       /\ HashOf[u] \in DOMAIN routes'
                       /\ routes'[HashOf[u]].path = u
                    \/ \E s \in Registrars : /\ rpc'[s] \in {"handler", "emplace"}
                                             /\ rpath[s] = u
    <3>1. PICK u \in ValidTemplates :
            /\ HashOf[u] = tree[m].key
            /\ Shape(u) = m
            /\ \/ /\ tree[m].handler
                  /\ HashOf[u] \in DOMAIN routes
                  /\ routes[HashOf[u]].path = u
               \/ \E s \in Registrars : /\ rpc[s] \in {"handler", "emplace"}
                                        /\ rpath[s] = u
      BY <2>1 DEF TableInv, TreeAndRoutesAgree
    <3>2. CASE u = t
      BY <1>1, <1>3, <1>4, <3>1, <3>2
    <3>3. CASE u # t
      BY <1>2, <1>3, <3>1, <3>3
    <3> QED
      BY <3>2, <3>3
  <2>2. ASSUME NEW e \in log'
        PROVE  /\ HashOf[e[1]] \in DOMAIN routes'
               /\ Shape(e[1]) \in DOMAIN tree
               /\ tree[Shape(e[1])].key # 0
               /\ tree[Shape(e[1])].handler
    <3>1. CASE e \in log
      BY <1>3, <3>1 DEF TableInv, TreeAndRoutesAgree
    <3>2. CASE e = <<t, h>>
      BY <1>1, <1>3, <3>2
    <3> QED
      BY <1>2, <3>1, <3>2
  <2> QED
    BY <1>2, <2>1, <2>2 DEF TreeAndRoutesAgree
<1>8. \A e \in log' : e[1] \in ValidTemplates
  BY <1>1, <1>2 DEF TableInv
<1>9. \A x \in DOMAIN routes' : /\ HashOf[routes'[x].path] = x
                                /\ <<routes'[x].path, routes'[x].handler>> \in log'
  BY <1>2, <1>3 DEF TableInv
<1>10. \A s \in Registrars : rpc'[s] \in {"handler", "emplace"} => rpc'[s] = rpc[s]
  BY <1>2
<1> QED
  BY <1>2, <1>6, <1>7, <1>8, <1>9, <1>10 DEF TableInv

LEMMA TableNext ==
  TypeInv /\ TypeInv' /\ LockInv /\ TableInv /\ [Next]_vars => TableInv'
<1> SUFFICES ASSUME TypeInv, TypeInv', LockInv, TableInv, [Next]_vars
             PROVE  TableInv'
  OBVIOUS
<1>1. CASE Start \/ UNCHANGED vars
  BY <1>1, TableKept DEF Start, vars, registrarVars
<1>2. ASSUME NEW r \in Registrars, NEW t \in Templates, NEW h \in Handlers,
             RegisterRouteHandler(r, t, h)
      PROVE  TableInv'
  BY <1>2, TableKept DEF RegisterRouteHandler, Adding, TypeInv, TypeOK
<1>3. ASSUME NEW r \in Registrars,
             LockDispatcher(r) \/ EnterAddRoute(r) \/ RejectRoute(r)
      PROVE  TableInv'
  BY <1>3, TableKept
     DEF LockDispatcher, EnterAddRoute, RejectRoute, Adding, TypeInv, TypeOK
<1>4. ASSUME NEW r \in Registrars,
             StepToChild(r) \/ LabelNode(r) \/ SetKey(r) \/ SetHandler(r)
               \/ EmplaceRoute(r)
      PROVE  TableInv'
  BY <1>4, ChildKeepsTable, LabelKeepsTable, KeyKeepsTable, HandlerKeepsTable,
     EmplaceKeepsTable
<1>5. ASSUME NEW w \in Workers,
             WorkerStep(w) \/ \E p \in Requests : Receive(w, p)
      PROVE  TableInv'
  BY <1>5, RequestsOnlyRead, TableKept DEF registrarVars
<1> QED
  BY <1>1, <1>2, <1>3, <1>4, <1>5 DEF Next, RegistrarStep, Terminating

(* The tree is well formed, whatever registrations run and however they    *)
(* interleave.                                                             *)
THEOREM TreeStaysWellFormed == Spec => []TreeWellFormed
<1>1. Init => LockInv
  BY ThreadsAssumption DEF Init, LockInv, Adding, Locks
<1>2. TypeInv => TypeOK
  BY DEF TypeInv
<1>3. TableInv => TreeWellFormed
  BY DEF TableInv
<1> QED
  BY TypeInit, TypeNext, <1>1, <1>2, <1>3, LockNext, TableInit, TableNext, PTL DEF Spec

(* The tree and routes_ agree, although they are updated one after the     *)
(* other and under two different mutexes.                                  *)
THEOREM TreeAndRoutesStayInAgreement == Spec => []TreeAndRoutesAgree
<1>1. Init => LockInv
  BY ThreadsAssumption DEF Init, LockInv, Adding, Locks
<1>2. TypeInv => TypeOK
  BY DEF TypeInv
<1>3. TableInv => TreeAndRoutesAgree
  BY DEF TableInv
<1> QED
  BY TypeInit, TypeNext, <1>1, <1>2, <1>3, LockNext, TableInit, TableNext, PTL DEF Spec

-------------------------------------------------------------------------------
(* The way of a pattern, part for part. *)
LEMMA ShapeFacts ==
  ASSUME NEW t \in Templates
  PROVE  /\ Len(Shape(t)) = Len(t)
         /\ \A i \in 1..Len(t) : /\ Shape(t)[i] = NodeKey(t[i])
                                 /\ t[i].var <=> Shape(t)[i] = Wild
                                 /\ ~t[i].var => Shape(t)[i] = t[i].text
<1>1. t \in Seq(Part)
  BY TemplatesAssumption
<1>2. Len(Shape(t)) = Len(t) /\ \A i \in 1..Len(t) : Shape(t)[i] = NodeKey(t[i])
  BY <1>1 DEF Shape
<1>3. ASSUME NEW i \in 1..Len(t)
      PROVE  /\ t[i].var <=> Shape(t)[i] = Wild
             /\ ~t[i].var => Shape(t)[i] = t[i].text
  <2>1. ~t[i].var => t[i].text # Wild
    BY TemplatesAssumption
  <2> QED
    BY <1>2, <2>1 DEF NodeKey
<1> QED
  BY <1>2, <1>3

(* A request's path has texts for parts. *)
LEMMA RequestType == ASSUME NEW p \in Requests PROVE p \in Seq(Text)
BY RequestsAssumption

(* A tree that grows and a longer log take nothing from a request. *)
LEMMA WorkersKept ==
  ASSUME WorkerInv, UNCHANGED workerVars,
         DOMAIN tree \subseteq DOMAIN tree', log \subseteq log'
  PROVE  WorkerInv'
<1> SUFFICES ASSUME NEW w \in Workers
             PROVE  /\ wpc'[w] \in {"match", "invoke", "called", "silent"} => Walked(w)'
                    /\ wpc'[w] \in {"invoke", "called", "silent"} => Routed(w)'
  BY DEF WorkerInv
<1>1. Walked(w) => Walked(w)'
  BY DEF Walked, workerVars
<1>2. Routed(w) => Routed(w)'
  BY DEF Routed, workerVars
<1> QED
  BY <1>1, <1>2 DEF WorkerInv, workerVars

(* A step of one worker takes nothing from the others. *)
LEMMA OtherWorkersKept ==
  ASSUME WorkerInv, NEW w \in Workers, UNCHANGED <<tree, log>>,
         \A v \in Workers : v # w =>
           /\ wpc'[v] = wpc[v]
           /\ wreq'[v] = wreq[v]
           /\ wnode'[v] = wnode[v]
           /\ wparams'[v] = wparams[v]
           /\ wroute'[v] = wroute[v],
         wpc'[w] \in {"match", "invoke", "called", "silent"} => Walked(w)',
         wpc'[w] \in {"invoke", "called", "silent"} => Routed(w)'
  PROVE  WorkerInv'
<1> SUFFICES ASSUME NEW v \in Workers, v # w
             PROVE  /\ wpc'[v] \in {"match", "invoke", "called", "silent"} => Walked(v)'
                    /\ wpc'[v] \in {"invoke", "called", "silent"} => Routed(v)'
  BY DEF WorkerInv
<1>1. Walked(v) => Walked(v)'
  BY DEF Walked
<1>2. Routed(v) => Routed(v)'
  BY DEF Routed
<1> QED
  BY <1>1, <1>2 DEF WorkerInv

(* A static node is never the one that parameters share, once no pattern   *)
(* is being inserted.                                                      *)
LEMMA StaticIsLiteral ==
  ASSUME TypeInv, TableInv, NoneRegisters, NEW n \in Seq(Text), NEW k \in Text,
         HasStaticChild(tree, n, k)
  PROVE  k # Wild
<1> DEFINE c == Append(n, k)
<1>1. c \in DOMAIN tree /\ tree[c].type = "kStatic"
  BY DEF HasStaticChild
<1>2. c # << >> /\ c[Len(c)] = k
  BY ParentOfChild
<1>3. (tree[c].type = "kParameter") <=> (c[Len(c)] = Wild)
  BY <1>1, <1>2 DEF TableInv, TreeWellFormed, NoneRegisters
<1> QED
  BY <1>1, <1>2, <1>3

(* Registrations only add nodes and log entries. *)
LEMMA RegistrationsOnlyAdd ==
  ASSUME TypeInv, NEW r \in Registrars, RegistrarStep(r)
  PROVE  /\ UNCHANGED workerVars
         /\ DOMAIN tree \subseteq DOMAIN tree'
         /\ log \subseteq log'
<1>1. CASE LockDispatcher(r) \/ EnterAddRoute(r) \/ RejectRoute(r) \/ EmplaceRoute(r)
  BY <1>1 DEF LockDispatcher, EnterAddRoute, RejectRoute, EmplaceRoute
<1>2. CASE StepToChild(r)
  <2>1. tree' = tree \/ \E c : tree' = Put(tree, c, NewNode)
    BY <1>2 DEF StepToChild, GetOrCreateChild
  <2> QED
    BY <1>2, <2>1 DEF StepToChild, Put
<1>3. CASE LabelNode(r)
  <2>1. \E n, v : tree' = Put(tree, n, v)
    BY <1>3 DEF LabelNode
  <2> QED
    BY <1>3, <2>1 DEF LabelNode, Put
<1>4. CASE SetKey(r) \/ SetHandler(r)
  BY <1>4 DEF SetKey, SetHandler
<1> QED
  BY <1>1, <1>2, <1>3, <1>4 DEF RegistrarStep

(* Following a literal part. *)
LEMMA StaticKeepsWorkers ==
  ASSUME TypeInv, TableInv, WorkerInv, NoneRegisters,
         NEW w \in Workers, MatchStatic(w)
  PROVE  WorkerInv'
<1> DEFINE n == wnode[w]
           k == WText(w)
           c == Append(n, k)
<1>1. /\ wpc[w] = "match" /\ Walked(w) /\ Len(n) < Len(wreq[w])
      /\ n \in Seq(Text) /\ wreq[w] \in Seq(Text)
  BY RequestType DEF MatchStatic, Matching, WorkerInv, TypeInv, TypeOK, Walked
<1>2. k = wreq[w][Len(n) + 1] /\ k \in Text
  BY <1>1 DEF WText
<1>3. c \in DOMAIN tree /\ k # Wild
  BY <1>1, <1>2, StaticIsLiteral DEF MatchStatic, HasStaticChild
<1>4. /\ wnode' = [wnode EXCEPT ![w] = c] /\ wnode'[w] = c
      /\ UNCHANGED <<tree, log, wpc, wreq, wparams, wroute>>
  BY DEF MatchStatic, TypeInv, TypeOK
<1>5. /\ Len(c) = Len(n) + 1
      /\ \A i \in 1..Len(n) : c[i] = n[i]
      /\ c[Len(n) + 1] = k
  BY <1>1, <1>2
<1>6. Walked(w)'
  <2>1. \A i \in 1..Len(c) : IF c[i] = Wild THEN wreq[w][i] \in ParamTexts
                             ELSE c[i] = wreq[w][i]
    BY <1>1, <1>2, <1>3, <1>5 DEF Walked
  <2>2. \A x \in DOMAIN wparams[w] :
          \E i \in 1..Len(c) : c[i] = Wild /\ wparams[w][x] = wreq[w][i]
    BY <1>1, <1>5 DEF Walked
  <2> QED
    BY <1>1, <1>3, <1>4, <1>5, <2>1, <2>2 DEF Walked
<1> QED
  BY <1>1, <1>4, <1>6, OtherWorkersKept DEF TypeInv, TypeOK

(* Following a parameter part. *)
LEMMA ParameterKeepsWorkers ==
  ASSUME TypeInv, WorkerInv, NEW w \in Workers, MatchParameter(w)
  PROVE  WorkerInv'
<1> DEFINE n == wnode[w]
           k == WText(w)
           c == Append(n, Wild)
           name == tree[c].param_name
           q == Put(wparams[w], name, k)
<1>1. /\ wpc[w] = "match" /\ Walked(w) /\ Len(n) < Len(wreq[w])
      /\ n \in Seq(Text) /\ wreq[w] \in Seq(Text)
      /\ c \in DOMAIN tree /\ k \in ParamTexts
  BY RequestType
     DEF MatchParameter, Matching, HasParameterChild, WorkerInv, TypeInv, TypeOK, Walked
<1>2. k = wreq[w][Len(n) + 1] /\ Wild \in Text
  BY TextAssumption DEF WText
<1>3. /\ wnode' = [wnode EXCEPT ![w] = c] /\ wnode'[w] = c
      /\ wparams' = [wparams EXCEPT ![w] = q]
      /\ UNCHANGED <<tree, log, wpc, wreq, wroute>>
  BY DEF MatchParameter, TypeInv, TypeOK
<1>4. /\ Len(c) = Len(n) + 1
      /\ \A i \in 1..Len(n) : c[i] = n[i]
      /\ c[Len(n) + 1] = Wild
  BY <1>1, <1>2
<1>5. ASSUME wparams'[w] = q
      PROVE  Walked(w)'
  <2>1. \A i \in 1..Len(c) : IF c[i] = Wild THEN wreq[w][i] \in ParamTexts
                             ELSE c[i] = wreq[w][i]
    BY <1>1, <1>2, <1>4 DEF Walked
  <2>2. ASSUME NEW x \in DOMAIN q
        PROVE  \E i \in 1..Len(c) : c[i] = Wild /\ q[x] = wreq[w][i]
    <3>1. CASE x = name
      <4>1. q[x] = k
        BY <3>1 DEF Put
      <4> QED
        BY <1>1, <1>2, <1>4, <4>1
    <3>2. CASE x # name
      <4>1. x \in DOMAIN wparams[w] /\ q[x] = wparams[w][x]
        BY <2>2, <3>2 DEF Put
      <4>2. PICK i \in 1..Len(n) : n[i] = Wild /\ wparams[w][x] = wreq[w][i]
        BY <1>1, <4>1 DEF Walked
      <4> QED
        BY <1>1, <1>4, <4>1, <4>2
    <3> QED
      BY <3>1, <3>2
  <2> QED
    BY <1>1, <1>3, <1>4, <1>5, <2>1, <2>2 DEF Walked
<1> QED
  BY <1>1, <1>3, <1>5, OtherWorkersKept DEF TypeInv, TypeOK

(* Looking the route up: the tree's key leads to the route of a pattern    *)
(* that ends at this very node.                                            *)
LEMMA LookUpKeepsWorkers ==
  ASSUME TypeInv, TableInv, WorkerInv, NoneRegisters,
         NEW w \in Workers, LookUpRoute(w)
  PROVE  WorkerInv'
<1> DEFINE n == wnode[w]
           k == tree[n].key
           e == <<routes[k].path, routes[k].handler>>
<1>1. /\ wpc[w] = "match" /\ Walked(w) /\ Len(n) = Len(wreq[w])
      /\ n \in DOMAIN tree /\ k \in DOMAIN routes
  BY DEF LookUpRoute, Matched, WorkerInv, Walked
<1>2. /\ routes[k].path \in Templates /\ HashOf[routes[k].path] = k
      /\ e \in log
  BY <1>1 DEF TypeInv, TypeOK, Route, TableInv
<1>3. k # 0
  BY <1>2, HashAssumption
<1>4. PICK t \in ValidTemplates : HashOf[t] = k /\ Shape(t) = n
  BY <1>1, <1>3 DEF TableInv, TreeAndRoutesAgree
<1>5. routes[k].path = t
  BY <1>2, <1>4, HashAssumption, TemplatesAssumption
<1>6. /\ wroute'[w] = routes[k] /\ wpc'[w] = "invoke"
      /\ UNCHANGED <<tree, log, wreq, wnode, wparams>>
      /\ \A v \in Workers : v # w => wpc'[v] = wpc[v] /\ wroute'[v] = wroute[v]
  BY DEF LookUpRoute, TypeInv, TypeOK
<1>7. Walked(w)'
  BY <1>1, <1>6 DEF Walked
<1>8. Routed(w)'
  BY <1>1, <1>2, <1>4, <1>5, <1>6 DEF Routed
<1> QED
  BY <1>6, <1>7, <1>8, OtherWorkersKept

LEMMA WorkerNext ==
  ASSUME OneLoop
  PROVE  TypeInv /\ TableInv /\ QuietInv /\ WorkerInv /\ [Next]_vars => WorkerInv'
<1> SUFFICES ASSUME TypeInv, TableInv, QuietInv, WorkerInv, [Next]_vars
             PROVE  WorkerInv'
  OBVIOUS
<1>1. CASE Start \/ UNCHANGED vars
  BY <1>1, WorkersKept DEF Start, vars
<1>2. ASSUME NEW r \in Registrars, NEW t \in Templates, NEW h \in Handlers,
             RegisterRouteHandler(r, t, h)
      PROVE  WorkerInv'
  BY <1>2, WorkersKept DEF RegisterRouteHandler
<1>3. ASSUME NEW r \in Registrars, RegistrarStep(r)
      PROVE  WorkerInv'
  BY <1>3, WorkersKept, RegistrationsOnlyAdd
<1>4. ASSUME NEW w \in Workers, NEW p \in Requests, Receive(w, p)
      PROVE  WorkerInv'
  <2>1. /\ wreq'[w] = p /\ wnode'[w] = << >> /\ wparams'[w] = EmptyMap
        /\ wpc'[w] = "match"
        /\ UNCHANGED <<tree, log>>
        /\ \A v \in Workers : v # w =>
             /\ wpc'[v] = wpc[v] /\ wreq'[v] = wreq[v] /\ wnode'[v] = wnode[v]
             /\ wparams'[v] = wparams[v] /\ wroute'[v] = wroute[v]
    BY <1>4 DEF Receive, TypeInv, TypeOK
  <2>2. << >> \in DOMAIN tree /\ Len(p) \in Nat
    BY RequestType DEF TypeInv, RegistrarInv
  <2>3. Walked(w)'
    BY <2>1, <2>2, EmptyMapFacts DEF Walked
  <2> QED
    BY <2>1, <2>3, OtherWorkersKept
<1>5. ASSUME NEW w \in Workers, WorkerStep(w)
      PROVE  WorkerInv'
  <2>1. NoneRegisters
    BY <1>5, WorkerAlone
  <2>2. CASE MatchStatic(w) \/ MatchParameter(w) \/ LookUpRoute(w)
    BY <2>1, <2>2, StaticKeepsWorkers, ParameterKeepsWorkers, LookUpKeepsWorkers
  <2>3. CASE MatchFails(w) \/ LookUpThrows(w) \/ Invoke(w) \/ ReturnToLoop(w)
    <3>1. /\ UNCHANGED <<tree, log, wreq, wnode, wparams, wroute>>
          /\ \A v \in Workers : v # w => wpc'[v] = wpc[v]
          /\ wpc'[w] \in {"match", "invoke", "called", "silent"} => wpc[w] = "invoke"
      BY <2>3 DEF MatchFails, LookUpThrows, Invoke, ReturnToLoop, TypeInv, TypeOK
    <3>2. Walked(w) => Walked(w)'
      BY <3>1 DEF Walked
    <3>3. Routed(w) => Routed(w)'
      BY <3>1 DEF Routed
    <3> QED
      BY <3>1, <3>2, <3>3, OtherWorkersKept DEF WorkerInv
  <2> QED
    BY <1>5, <2>2, <2>3 DEF WorkerStep
<1> QED
  BY <1>1, <1>2, <1>3, <1>4, <1>5 DEF Next, Terminating

(* A request that has been given a route has the form of its pattern. *)
LEMMA WorkersSound == TypeInv /\ WorkerInv => DispatchSound
<1> SUFFICES ASSUME TypeInv, WorkerInv, NEW w \in Workers, wpc[w] = "called"
             PROVE  \E e \in log :
                      /\ e[2] = wroute[w].handler
                      /\ Fits(e[1], wreq[w], ParamTexts)
                      /\ \A x \in DOMAIN wparams[w] :
                           \E i \in 1..Len(e[1]) :
                             e[1][i].var /\ wparams[w][x] = wreq[w][i]
  BY DEF DispatchSound
<1>1. Walked(w) /\ Routed(w)
  BY DEF WorkerInv
<1>2. PICK e \in log : e[2] = wroute[w].handler /\ Shape(e[1]) = wnode[w]
  BY <1>1 DEF Routed
<1>3. PICK t \in Templates : t = e[1]
  BY <1>2 DEF TypeInv, TypeOK
<1>4. Len(t) = Len(wreq[w]) /\ Len(wnode[w]) = Len(t)
  <2>1. Shape(t) = wnode[w]
    BY <1>2, <1>3
  <2> QED
    BY <1>1, <2>1, ShapeFacts DEF Routed
<1>5. \A i \in 1..Len(t) : /\ t[i].var <=> wnode[w][i] = Wild
                           /\ ~t[i].var => wnode[w][i] = t[i].text
  <2>1. Shape(t) = wnode[w]
    BY <1>2, <1>3
  <2> QED
    BY <2>1, ShapeFacts
<1>6. Fits(t, wreq[w], ParamTexts)
  <2>1. \A i \in 1..Len(t) : IF wnode[w][i] = Wild THEN wreq[w][i] \in ParamTexts
                             ELSE wnode[w][i] = wreq[w][i]
    BY <1>1, <1>4 DEF Walked
  <2>2. \A i \in 1..Len(t) : IF t[i].var THEN wreq[w][i] \in ParamTexts
                             ELSE t[i].text = wreq[w][i]
    BY <1>5, <2>1
  <2> QED
    BY <1>4, <2>2 DEF Fits
<1>7. ASSUME NEW x \in DOMAIN wparams[w]
      PROVE  \E i \in 1..Len(t) : t[i].var /\ wparams[w][x] = wreq[w][i]
  <2>1. PICK i \in 1..Len(wnode[w]) : wnode[w][i] = Wild /\ wparams[w][x] = wreq[w][i]
    BY <1>1 DEF Walked
  <2>2. i \in 1..Len(t)
    BY <1>4
  <2>3. t[i].var
    BY <1>5, <2>1, <2>2
  <2> QED
    BY <2>1, <2>2, <2>3
<1> QED
  BY <1>2, <1>3, <1>6, <1>7

(* The inductive invariant. *)
Inv == TypeInv /\ LockInv /\ TableInv /\ QuietInv /\ WorkerInv

LEMMA InvHolds ==
  ASSUME OneLoop
  PROVE  Spec => []Inv
<1>1. Init => Inv
  <2>1. Init => LockInv
    BY ThreadsAssumption DEF Init, LockInv, Adding, Locks
  <2>2. Init => WorkerInv
    BY DEF Init, WorkerInv
  <2> QED
    BY TypeInit, TableInit, QuietInit, <2>1, <2>2 DEF Inv
<1>2. Inv /\ [Next]_vars => Inv'
  BY TypeNext, LockNext, TableNext, QuietNext, WorkerNext DEF Inv, TypeInv
<1> QED
  BY <1>1, <1>2, PTL DEF Spec

(* Whatever the routes and the request, a handler is only ever called for  *)
(* a request of the form it was registered for, with parameters taken from *)
(* where its pattern has them.                                             *)
THEOREM DispatchIsSound ==
  ASSUME OneLoop
  PROVE  Spec => []DispatchSound
<1>1. Inv => DispatchSound
  BY WorkersSound DEF Inv
<1> QED
  BY InvHolds, <1>1, PTL

(* A match that ends at a registered pattern's node never throws. *)
THEOREM RegisteredRoutesAreFound ==
  ASSUME OneLoop
  PROVE  Spec => RegisteredNeverThrows
<1>1. ASSUME Inv, [Next]_vars
      PROVE  [\A w \in Workers, e \in log :
                Ends(w, {"threw"}) => Shape(e[1]) # wnode[w]]_vars
  <2> SUFFICES ASSUME NEW w \in Workers, NEW e \in log,
                      Ends(w, {"threw"}), Shape(e[1]) = wnode[w]
               PROVE  FALSE
    OBVIOUS
  <2> DEFINE n == wnode[w]
  <2>1. /\ n \in DOMAIN tree /\ tree[n].key # 0 /\ tree[n].handler
    BY <1>1 DEF Inv, TableInv, TreeAndRoutesAgree
  <2>2. wpc[w] # "threw" /\ wpc'[w] = "threw"
    BY DEF Ends, Outcomes
  <2>3. LookUpThrows(w) \/ Invoke(w)
    <3>1. ~UNCHANGED wpc
      BY <2>2
    <3>2. PICK v \in Workers : WorkerStep(v) \/ \E p \in Requests : Receive(v, p)
      BY <1>1, <3>1
         DEF Next, vars, workerVars, Start, RegisterRouteHandler, RegistrarStep,
             LockDispatcher, EnterAddRoute, RejectRoute, StepToChild, LabelNode,
             SetKey, SetHandler, EmplaceRoute, Terminating
    <3>3. v = w
      BY <2>2, <3>2, <1>1
         DEF WorkerStep, Receive, MatchStatic, MatchParameter, MatchFails,
             LookUpRoute, LookUpThrows, Invoke, ReturnToLoop, Inv, TypeInv, TypeOK
    <3> QED
      BY <1>1, <2>2, <3>2, <3>3
         DEF WorkerStep, Receive, MatchStatic, MatchParameter, MatchFails,
             LookUpRoute, ReturnToLoop, Inv, TypeInv, TypeOK
  <2>4. NoneRegisters
    BY <1>1, <2>3, WorkerAlone DEF Inv, WorkerStep
  <2>5. CASE LookUpThrows(w)
    <3>1. tree[n].key \in DOMAIN routes
      BY <1>1, <2>1, <2>4 DEF Inv, TableInv, TreeAndRoutesAgree, NoneRegisters
    <3> QED
      BY <2>5, <3>1 DEF LookUpThrows
  <2>6. CASE Invoke(w)
    BY <2>1, <2>2, <2>6 DEF Invoke, Inv, TypeInv, TypeOK
  <2> QED
    BY <2>3, <2>5, <2>6
<1> QED
  BY InvHolds, <1>1, PTL DEF Spec, RegisteredNeverThrows

===============================================================================
