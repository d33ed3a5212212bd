------------------------------ MODULE Dispatcher ------------------------------
(***************************************************************************)
(* GlobalDispatcherHandler and the Router inside it, one action per step   *)
(* that another thread can see.                                            *)
(*                                                                         *)
(* Registrars are threads inside RegisterRouteHandler; Workers are threads *)
(* inside __HandleImpl, which H2OServer runs on its event loop.  A         *)
(* registration holds dispatcher mutex_ throughout and router mutex_       *)
(* during AddRoute; a request takes no lock at all.                        *)
(*                                                                         *)
(* Reads and writes of one location are atomic here.  In C++ an            *)
(* unordered access to a location that is being written is undefined, so   *)
(* runs in which requests overlap registrations say what happens at best;  *)
(* NoDataRace tells where the undefined cases are.                         *)
(***************************************************************************)
EXTENDS RouterTree

CONSTANTS
  Registrars,       \* threads that register routes
  Workers,          \* threads that serve requests
  Templates,        \* route patterns, split at '/'
  ValidTemplates,   \* those that IsValidRoute accepts
  Requests,         \* normalised request paths, split at '/'
  ParamTexts,       \* texts matched by "^[a-zA-Z0-9_-]+$"
  Handlers,         \* handlers a program registers
  NullHandler,      \* a null shared_ptr, which registration accepts
  HashOf,           \* std::hash<std::string> on the patterns
  Discipline,       \* when registrations may happen, see MayRegister
  MaxRegistrations, \* bound: registrations each registrar makes
  Free              \* not a thread

Disciplines == {"before_start", "in_handler", "anytime"}

ASSUME TemplatesAssumption ==
  /\ Templates \subseteq Seq(Part)
  /\ ValidTemplates \subseteq Templates
  /\ \A t \in Templates : /\ t # << >>
                          /\ \A i \in 1..Len(t) : ~t[i].var => t[i].text # Wild

ASSUME RequestsAssumption ==
  /\ Requests \subseteq Seq(Text)
  /\ << >> \notin Requests
  /\ ParamTexts \subseteq Text
  /\ Wild \notin ParamTexts

(* No two patterns collide, and none hashes to the key of a fresh node.    *)
ASSUME HashAssumption ==
  /\ HashOf \in [Templates -> Nat]
  /\ \A t \in Templates : HashOf[t] # 0
  /\ \A t, u \in Templates : HashOf[t] = HashOf[u] => t = u

ASSUME ThreadsAssumption ==
  /\ Free \notin Registrars \cup Workers
  /\ NullHandler \in Handlers
  /\ MaxRegistrations \in Nat
  /\ Discipline \in Disciplines

VARIABLES
  tree,      \* router_.root_
  routes,    \* routes_ : key -> Route
  mutex,     \* owners of GlobalDispatcherHandler::mutex_ and Router::mutex_
  serving,   \* H2OServer::Start has been called
  rpc,       \* where each registrar is
  rpath,     \* argument path of RegisterRouteHandler
  rhandler,  \* argument handler of RegisterRouteHandler
  rnode,     \* node in AddRoute
  todo,      \* registrations each registrar has left
  caller,    \* the worker in whose handler a registration runs, or Free
  wpc,       \* where each worker is
  wreq,      \* path of the request
  wnode,     \* node in MatchRoute, then the node of route_result
  wparams,   \* params
  wroute,    \* the Route that routes_.at returned
  log        \* history: <<pattern, handler>> of registrations that returned

registrarVars == <<rpc, rpath, rhandler, rnode, todo, caller>>
workerVars    == <<wpc, wreq, wnode, wparams, wroute>>
vars == <<tree, routes, mutex, serving, registrarVars, workerVars, log>>

Locks == {"dispatcher", "router"}

NoRoute == [path |-> << >>, handler |-> NullHandler]

Init ==
  /\ tree = Put(EmptyMap, << >>, NewNode)
  /\ routes = EmptyMap
  /\ mutex = [l \in Locks |-> Free]
  /\ serving = FALSE
  /\ rpc = [r \in Registrars |-> "idle"]
  /\ rpath = [r \in Registrars |-> << >>]
  /\ rhandler = [r \in Registrars |-> NullHandler]
  /\ rnode = [r \in Registrars |-> << >>]
  /\ todo = [r \in Registrars |-> MaxRegistrations]
  /\ caller = [r \in Registrars |-> Free]
  /\ wpc = [w \in Workers |-> "idle"]
  /\ wreq = [w \in Workers |-> << >>]
  /\ wnode = [w \in Workers |-> << >>]
  /\ wparams = [w \in Workers |-> EmptyMap]
  /\ wroute = [w \in Workers |-> NoRoute]
  /\ log = {}

-------------------------------------------------------------------------------
(* When registrations happen.  main.cc registers every route and then      *)
(* calls Start ("before_start").  A handler may also register routes: the  *)
(* worker that called it waits for them ("in_handler").  Router's comment  *)
(* promises more: registration on any other thread while requests are      *)
(* served ("anytime").                                                     *)

NoneRegisters == \A r \in Registrars : rpc[r] = "idle"

(* c calls RegisterRouteHandler: a worker from the handler it is in, or    *)
(* another thread.                                                         *)
MayRegister(c) ==
  \/ c = Free /\ (~serving \/ Discipline = "anytime")
  \/ c \in Workers /\ Discipline = "in_handler" /\ wpc[c] = "called"

(* A mistake to catch: the server is started while routes are registered. *)
StartEarly ==
  /\ ~serving
  /\ serving' = TRUE
  /\ UNCHANGED <<tree, routes, mutex, registrarVars, workerVars, log>>

(* main() calls Start behind its registrations. *)
Start ==
  /\ ~serving
  /\ Discipline = "anytime" \/ NoneRegisters
  /\ serving' = TRUE
  /\ UNCHANGED <<tree, routes, mutex, registrarVars, workerVars, log>>

-------------------------------------------------------------------------------
(* RegisterRouteHandler.                                                   *)

RegisterRouteHandler(r, t, h) ==
  /\ rpc[r] = "idle"
  /\ todo[r] > 0
  /\ \E c \in Workers \cup {Free} :
       MayRegister(c) /\ caller' = [caller EXCEPT ![r] = c]
  /\ todo' = [todo EXCEPT ![r] = @ - 1]
  /\ rpath' = [rpath EXCEPT ![r] = t]
  /\ rhandler' = [rhandler EXCEPT ![r] = h]
  /\ rpc' = [rpc EXCEPT ![r] = "lock"]
  /\ UNCHANGED <<tree, routes, mutex, serving, rnode, workerVars, log>>

(* A mistake to catch: RegisterRouteHandler without its lock_guard. *)
LockNothing(r) ==
  /\ rpc[r] = "lock"
  /\ rpc' = [rpc EXCEPT ![r] = "addroute"]
  /\ UNCHANGED <<tree, routes, mutex, serving, rpath, rhandler, rnode,
                 todo, caller, workerVars, log>>

(* lock_guard on the dispatcher's mutex, then the call of AddRoute. *)
LockDispatcher(r) ==
  /\ rpc[r] = "lock"
  /\ mutex["dispatcher"] = Free
  /\ mutex' = [mutex EXCEPT !["dispatcher"] = r]
  /\ rpc' = [rpc EXCEPT ![r] = "addroute"]
  /\ UNCHANGED <<tree, routes, serving, rpath, rhandler, rnode,
                 todo, caller, workerVars, log>>

(* lock_guard on the router's mutex; the pattern is valid and is split. *)
EnterAddRoute(r) ==
  /\ rpc[r] = "addroute"
  /\ mutex["router"] = Free
  /\ rpath[r] \in ValidTemplates
  /\ mutex' = [mutex EXCEPT !["router"] = r]
  /\ rnode' = [rnode EXCEPT ![r] = << >>]
  /\ rpc' = [rpc EXCEPT ![r] = "child"]
  /\ UNCHANGED <<tree, routes, serving, rpath, rhandler, todo,
                 caller, workerVars, log>>

(* A mistake to catch: the exception leaves with the mutex locked. *)
RejectAndKeepLock(r) ==
  /\ rpc[r] = "addroute"
  /\ mutex["router"] = Free
  /\ rpath[r] \notin ValidTemplates
  /\ rpc' = [rpc EXCEPT ![r] = "idle"]
  /\ caller' = [caller EXCEPT ![r] = Free]
  /\ UNCHANGED <<tree, routes, mutex, serving, rpath, rhandler, rnode, todo,
                 workerVars, log>>

(* invalid_argument: both guards unlock as the exception leaves. *)
RejectRoute(r) ==
  /\ rpc[r] = "addroute"
  /\ mutex["router"] = Free
  /\ rpath[r] \notin ValidTemplates
  /\ mutex' = [mutex EXCEPT !["dispatcher"] = Free]
  /\ rpc' = [rpc EXCEPT ![r] = "idle"]
  /\ caller' = [caller EXCEPT ![r] = Free]
  /\ UNCHANGED <<tree, routes, serving, rpath, rhandler, rnode, todo,
                 workerVars, log>>

RPart(r) == rpath[r][Len(rnode[r]) + 1]

(* One iteration of AddRoute's loop: find or insert the child, step to it. *)
StepToChild(r) ==
  /\ rpc[r] = "child"
  /\ tree' = GetOrCreateChild(tree, rnode[r], NodeKey(RPart(r)))
  /\ rnode' = [rnode EXCEPT ![r] = Append(@, NodeKey(RPart(r)))]
  /\ rpc' = [rpc EXCEPT ![r] = "label"]
  /\ UNCHANGED <<routes, mutex, serving, rpath, rhandler, todo,
                 caller, workerVars, log>>

(* The rest of the iteration: param_name, param_regex and type. *)
LabelNode(r) ==
  /\ rpc[r] = "label"
  /\ tree' = Put(tree, rnode[r],
                 Label(tree[rnode[r]], rpath[r][Len(rnode[r])]))
  /\ rpc' = [rpc EXCEPT ![r] =
               IF Len(rnode[r]) < Len(rpath[r]) THEN "child" ELSE "key"]
  /\ UNCHANGED <<routes, mutex, serving, rpath, rhandler, rnode,
                 todo, caller, workerVars, log>>

SetKey(r) ==
  /\ rpc[r] = "key"
  /\ tree' = [tree EXCEPT ![rnode[r]].key = HashOf[rpath[r]]]
  /\ rpc' = [rpc EXCEPT ![r] = "handler"]
  /\ UNCHANGED <<routes, mutex, serving, rpath, rhandler, rnode,
                 todo, caller, workerVars, log>>

(* node->handler = Dispatcher; AddRoute returns and its guard unlocks. *)
SetHandler(r) ==
  /\ rpc[r] = "handler"
  /\ tree' = [tree EXCEPT ![rnode[r]].handler = TRUE]
  /\ mutex' = [mutex EXCEPT !["router"] = Free]
  /\ rpc' = [rpc EXCEPT ![r] = "emplace"]
  /\ UNCHANGED <<routes, serving, rpath, rhandler, rnode, todo,
                 caller, workerVars, log>>

(* A mistake to catch: routes_[key] = route, where the last one wins. *)
Assigned(k, route) == Put(routes, k, route)

(* unordered_map::emplace, which keeps an entry that is there already. *)
Emplaced(k, route) == IF k \in DOMAIN routes THEN routes ELSE Put(routes, k, route)

(* routes_.emplace; the dispatcher's guard unlocks and the call returns. *)
EmplaceRoute(r) ==
  /\ rpc[r] = "emplace"
  /\ routes' = Emplaced(HashOf[rpath[r]],
                        [path |-> rpath[r], handler |-> rhandler[r]])
  /\ mutex' = [mutex EXCEPT !["dispatcher"] = Free]
  /\ log' = log \cup {<<rpath[r], rhandler[r]>>}
  /\ rpc' = [rpc EXCEPT ![r] = "idle"]
  /\ caller' = [caller EXCEPT ![r] = Free]
  /\ UNCHANGED <<tree, serving, rpath, rhandler, rnode, todo, workerVars>>

-------------------------------------------------------------------------------
(* __HandleImpl.                                                           *)

(* HandlerCallback enters __HandleImpl, which enters MatchRoute. *)
Receive(w, p) ==
  /\ serving
  /\ wpc[w] = "idle"
  /\ wreq' = [wreq EXCEPT ![w] = p]
  /\ wnode' = [wnode EXCEPT ![w] = << >>]
  /\ wparams' = [wparams EXCEPT ![w] = EmptyMap]
  /\ wroute' = [wroute EXCEPT ![w] = NoRoute]
  /\ wpc' = [wpc EXCEPT ![w] = "match"]
  /\ UNCHANGED <<tree, routes, mutex, serving, registrarVars, log>>

WText(w) == wreq[w][Len(wnode[w]) + 1]

(* There is a part left to match. *)
Matching(w) == wpc[w] = "match" /\ Len(wnode[w]) < Len(wreq[w])

(* Every part has matched: route_result points into wnode[w]. *)
Matched(w) == wpc[w] = "match" /\ Len(wnode[w]) = Len(wreq[w])

MatchStatic(w) ==
  /\ Matching(w)
  /\ HasStaticChild(tree, wnode[w], WText(w))
  /\ wnode' = [wnode EXCEPT ![w] = Append(@, WText(w))]
  /\ UNCHANGED <<tree, routes, mutex, serving, registrarVars,
                 wpc, wreq, wparams, wroute, log>>

(* A mistake to catch: the parameter's regex is not consulted. *)
MatchAnyParameter(w) ==
  /\ Matching(w)
  /\ ~HasStaticChild(tree, wnode[w], WText(w))
  /\ HasParameterChild(tree, wnode[w])
  /\ wnode' = [wnode EXCEPT ![w] = Append(@, Wild)]
  /\ wparams' = [wparams EXCEPT ![w] =
                   Put(@, tree[Append(wnode[w], Wild)].param_name, WText(w))]
  /\ UNCHANGED <<tree, routes, mutex, serving, registrarVars,
                 wpc, wreq, wroute, log>>

MatchParameter(w) ==
  /\ Matching(w)
  /\ ~HasStaticChild(tree, wnode[w], WText(w))
  /\ HasParameterChild(tree, wnode[w])
  /\ WText(w) \in ParamTexts
  /\ wnode' = [wnode EXCEPT ![w] = Append(@, Wild)]
  /\ wparams' = [wparams EXCEPT ![w] =
                   Put(@, tree[Append(wnode[w], Wild)].param_name, WText(w))]
  /\ UNCHANGED <<tree, routes, mutex, serving, registrarVars,
                 wpc, wreq, wroute, log>>

(* A mistake to catch: the walk stays where it is instead of returning. *)
MatchContinues(w) ==
  /\ Matching(w)
  /\ ~HasStaticChild(tree, wnode[w], WText(w))
  /\ HasParameterChild(tree, wnode[w]) => WText(w) \notin ParamTexts
  /\ UNCHANGED vars

(* Both return statements with a null result; __HandleImpl sends 404. *)
MatchFails(w) ==
  /\ Matching(w)
  /\ ~HasStaticChild(tree, wnode[w], WText(w))
  /\ HasParameterChild(tree, wnode[w]) => WText(w) \notin ParamTexts
  /\ wpc' = [wpc EXCEPT ![w] = "notfound"]
  /\ UNCHANGED <<tree, routes, mutex, serving, registrarVars,
                 wreq, wnode, wparams, wroute, log>>

(* routes_.at with the key of the node the match ended at. *)
LookUpRoute(w) ==
  /\ Matched(w)
  /\ tree[wnode[w]].key \in DOMAIN routes
  /\ wroute' = [wroute EXCEPT ![w] = routes[tree[wnode[w]].key]]
  /\ wpc' = [wpc EXCEPT ![w] = "invoke"]
  /\ UNCHANGED <<tree, routes, mutex, serving, registrarVars,
                 wreq, wnode, wparams, log>>

(* A mistake to catch: routes_[key], which inserts an empty entry. *)
LookUpInserts(w) ==
  /\ Matched(w)
  /\ tree[wnode[w]].key \notin DOMAIN routes
  /\ routes' = Put(routes, tree[wnode[w]].key, NoRoute)
  /\ wpc' = [wpc EXCEPT ![w] = "invoke"]
  /\ UNCHANGED <<tree, mutex, serving, registrarVars,
                 wreq, wnode, wparams, wroute, log>>

(* routes_.at throws out_of_range, which leaves the callback. *)
LookUpThrows(w) ==
  /\ Matched(w)
  /\ tree[wnode[w]].key \notin DOMAIN routes
  /\ wpc' = [wpc EXCEPT ![w] = "threw"]
  /\ UNCHANGED <<tree, routes, mutex, serving, registrarVars,
                 wreq, wnode, wparams, wroute, log>>

(* A mistake to catch: Dispatcher calls a null handler. *)
InvokeUnchecked(w) ==
  /\ wpc[w] = "invoke"
  /\ wpc' = [wpc EXCEPT ![w] =
               IF ~tree[wnode[w]].handler \/ wroute[w].handler = NullHandler
               THEN "threw" ELSE "called"]
  /\ UNCHANGED <<tree, routes, mutex, serving, registrarVars,
                 wreq, wnode, wparams, wroute, log>>

(* The call through route_result.executor: Dispatcher calls the handler,   *)
(* or returns when it is null; an empty std::function would throw.         *)
Invoke(w) ==
  /\ wpc[w] = "invoke"
  /\ wpc' = [wpc EXCEPT ![w] =
               IF ~tree[wnode[w]].handler THEN "threw"
               ELSE IF wroute[w].handler = NullHandler THEN "silent"
               ELSE "called"]
  /\ UNCHANGED <<tree, routes, mutex, serving, registrarVars,
                 wreq, wnode, wparams, wroute, log>>

(* __HandleImpl returns to the event loop, after Send in the 404 case and  *)
(* when the user's HandleRequest returns in the other, which is after the  *)
(* registrations it has made.                                              *)
ReturnToLoop(w) ==
  /\ \A r \in Registrars : caller[r] # w
  /\ wpc[w] \in {"notfound", "silent", "called"}
  /\ wpc' = [wpc EXCEPT ![w] = "idle"]
  /\ UNCHANGED <<tree, routes, mutex, serving, registrarVars,
                 wreq, wnode, wparams, wroute, log>>

(* Every event loop was left by an exception: the program is over. *)
Terminating ==
  /\ \A w \in Workers : wpc[w] = "threw"
  /\ NoneRegisters
  /\ UNCHANGED vars

-------------------------------------------------------------------------------
RegistrarStep(r) ==
  \/ LockDispatcher(r)
  \/ EnterAddRoute(r)
  \/ RejectRoute(r)
  \/ StepToChild(r)
  \/ LabelNode(r)
  \/ SetKey(r)
  \/ SetHandler(r)
  \/ EmplaceRoute(r)

WorkerStep(w) ==
  \/ MatchStatic(w)
  \/ MatchParameter(w)
  \/ MatchFails(w)
  \/ LookUpRoute(w)
  \/ LookUpThrows(w)
  \/ Invoke(w)
  \/ ReturnToLoop(w)

Next ==
  \/ Start
  \/ \E r \in Registrars, t \in Templates, h \in Handlers :
       RegisterRouteHandler(r, t, h)
  \/ \E r \in Registrars : RegistrarStep(r)
  \/ \E w \in Workers, p \in Requests : Receive(w, p)
  \/ \E w \in Workers : WorkerStep(w)
  \/ Terminating

Spec == Init /\ [][Next]_vars

(* Threads inside a call keep running and user handlers return; nobody has *)
(* to register a route, to start the server or to send a request.          *)
Fairness ==
  /\ \A r \in Registrars : WF_vars(RegistrarStep(r))
  /\ \A w \in Workers : WF_vars(WorkerStep(w))

FairSpec == Spec /\ Fairness
-------------------------------------------------------------------------------
(* Types: every variable of the dispatcher, the router and their callers   *)
(* holds what its C++ declaration says.                                    *)
Route == [path : Templates, handler : Handlers]

TypeOK ==
  /\ DOMAIN tree \subseteq Seq(Text)
  /\ \A n \in DOMAIN tree : tree[n] \in Node
  /\ DOMAIN routes \subseteq Nat
  /\ \A k \in DOMAIN routes : routes[k] \in Route
  /\ mutex \in [Locks -> Registrars \cup {Free}]
  /\ serving \in BOOLEAN
  /\ rpc \in [Registrars -> {"idle", "lock", "addroute", "child", "label",
                              "key", "handler", "emplace"}]
  /\ rpath \in [Registrars -> Templates \cup {<< >>}]
  /\ rhandler \in [Registrars -> Handlers]
  /\ rnode \in [Registrars -> Seq(Text)]
  /\ todo \in [Registrars -> 0..MaxRegistrations]
  /\ caller \in [Registrars -> Workers \cup {Free}]
  /\ wpc \in [Workers -> {"idle", "match", "notfound", "invoke", "called",
                           "silent", "threw"}]
  /\ wreq \in [Workers -> Requests \cup {<< >>}]
  /\ wnode \in [Workers -> Seq(Text)]
  /\ DOMAIN wparams = Workers
  /\ \A w \in Workers : /\ DOMAIN wparams[w] \subseteq Text
                        /\ \A x \in DOMAIN wparams[w] : wparams[w][x] \in Text
  /\ wroute \in [Workers -> Route \cup {NoRoute}]
  /\ log \subseteq Templates \X Handlers

(* Registrars between the two ends of AddRoute, which the router's mutex   *)
(* keeps apart.                                                            *)
Adding(r) == rpc[r] \in {"child", "label", "key", "handler"}

(* The patterns that have been registered or are being added. *)
KnownTemplates == {e[1] : e \in log} \cup
                  {rpath[r] : r \in {s \in Registrars : Adding(s) \/ rpc[s] = "emplace"}}

(* The tree AddRoute leaves, at every one of its steps and whatever other  *)
(* registrations ran before: each node hangs below its parent, lies on the *)
(* way to a pattern that was accepted (a rejected one leaves nothing), and *)
(* has the type its key stands for, except the one node being labelled.    *)
TreeWellFormed ==
  /\ << >> \in DOMAIN tree
  /\ \A n \in DOMAIN tree \ {<< >>} :
       /\ SubSeq(n, 1, Len(n) - 1) \in DOMAIN tree
       /\ \E t \in KnownTemplates : /\ t \in ValidTemplates
                                    /\ LiesOn(n, t)
       /\ \/ (tree[n].type = "kParameter") <=> (n[Len(n)] = Wild)
          \/ \E r \in Registrars : rpc[r] = "label" /\ rnode[r] = n

(* The tree and routes_ are two structures updated one after the other.    *)
(* The key in a node always belongs to a pattern that ends at this node,   *)
(* routes_ holds that pattern's route unless its registration is still in  *)
(* progress, and a registration that returned has both in place.           *)
TreeAndRoutesAgree ==
  /\ \A n \in DOMAIN tree : tree[n].key # 0 =>
       \E t \in ValidTemplates :
         /\ HashOf[t] = tree[n].key
         /\ Shape(t) = n
         /\ \/ /\ tree[n].handler
               /\ HashOf[t] \in DOMAIN routes
               /\ routes[HashOf[t]].path = t
            \/ \E r \in Registrars : /\ rpc[r] \in {"handler", "emplace"}
                                     /\ rpath[r] = t
  /\ \A e \in log : /\ HashOf[e[1]] \in DOMAIN routes
                    /\ Shape(e[1]) \in DOMAIN tree
                    /\ tree[Shape(e[1])].key # 0
                    /\ tree[Shape(e[1])].handler

(* A request reaches a user's handler only if that handler was registered  *)
(* for a pattern of the request's form, and every params value is a part   *)
(* of the request that stands at a parameter of the pattern.               *)
DispatchSound ==
  \A w \in Workers : wpc[w] = "called" =>
    \E e \in log :
      /\ e[2] = wroute[w].handler
      /\ Fits(e[1], wreq[w], ParamTexts)
      /\ \A x \in DOMAIN wparams[w] :
           \E i \in 1..Len(e[1]) : e[1][i].var /\ wparams[w][x] = wreq[w][i]

(* What becomes of a request. *)
Outcomes == {"notfound", "silent", "called", "threw"}

(* The request ends in this step, in one of these ways. *)
Ends(w, how) == wpc[w] \notin Outcomes /\ wpc'[w] \in how

(* A request whose path is, part for part, a registered pattern without    *)
(* parameters gets that pattern's route, whatever parameter routes exist   *)
(* beside it: it is not answered 404, not sent elsewhere and nothing       *)
(* throws.                                                                 *)
ExactPathWins ==
  [][\A w \in Workers, e \in log :
       /\ ParamNames(e[1]) = {}
       /\ Shape(e[1]) = wreq[w]
       /\ Ends(w, Outcomes)
       => wpc'[w] \in {"silent", "called"} /\ wroute[w].path = e[1]]_vars

(* routes_.at may throw only at a node where no registered pattern ends:   *)
(* a match that ends where a registration returned always finds its route. *)
RegisteredNeverThrows ==
  [][\A w \in Workers, e \in log :
       Ends(w, {"threw"}) => Shape(e[1]) # wnode[w]]_vars

-------------------------------------------------------------------------------
(* Accesses to shared memory that a thread is about to make. *)

RegistrarWrites(r) ==
  CASE rpc[r] = "child" -> IF Append(rnode[r], NodeKey(RPart(r))) \in DOMAIN tree
                           THEN {} ELSE {<<"children", rnode[r]>>}
    [] rpc[r] = "label"   -> {<<"label", rnode[r]>>}
    [] rpc[r] = "key"     -> {<<"key", rnode[r]>>}
    [] rpc[r] = "handler" -> {<<"handler", rnode[r]>>}
    [] rpc[r] = "emplace" -> {<<"routes">>}
    [] OTHER -> {}

RegistrarReads(r) ==
  IF rpc[r] = "child" THEN {<<"children", rnode[r]>>} ELSE {}

WorkerReads(w) ==
  CASE Matching(w) -> {<<"children", wnode[w]>>} \cup
                      {<<"label", Append(wnode[w], k)>> : k \in {WText(w), Wild}}
    [] Matched(w) -> {<<"key", wnode[w]>>, <<"routes">>}
    [] wpc[w] = "invoke" -> {<<"handler", wnode[w]>>}
    [] OTHER -> {}

(* No thread is about to write what another one is about to read or write, *)
(* be it two registrations or a registration and a request.  It holds as   *)
(* long as registrations and MatchRoute do not overlap; router.h promises  *)
(* more: "This class is thread-safe and designed for concurrent lock-free  *)
(* MatchRoute executions".                                                 *)
NoDataRace ==
  \A r \in Registrars :
    /\ \A s \in Registrars \ {r} :
         RegistrarWrites(r) \cap (RegistrarWrites(s) \cup RegistrarReads(s)) = {}
    /\ \A w \in Workers : RegistrarWrites(r) \cap WorkerReads(w) = {}

-------------------------------------------------------------------------------
(* What the repository says and the code does not do.                      *)

(* "No need to check contains": every match that is not empty has its key  *)
(* in routes_ (global_dispatcher_handler.h, __HandleImpl).                 *)
MatchedRouteRegistered ==
  \A w \in Workers : Matched(w) => tree[wnode[w]].key \in DOMAIN routes

-------------------------------------------------------------------------------
(* A call of RegisterRouteHandler returns or throws, however the threads   *)
(* that want the two mutexes interleave.                                   *)
RegistrationEnds ==
  \A r \in Registrars : rpc[r] = "lock" ~> rpc[r] = "idle"

(* The callback returns to the event loop or leaves it by an exception.    *)
CallbackEnds ==
  \A w \in Workers : wpc[w] = "match" ~> wpc[w] \in {"idle", "threw"}
===============================================================================
