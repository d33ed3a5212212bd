--------------------------- MODULE DispatcherRefines ---------------------------
(***************************************************************************)
(* Dispatcher implements RouteTable when no request overlaps a             *)
(* registration.  A registration takes effect when its node gets its key;  *)
(* a request takes effect when its outcome is known.                       *)
(***************************************************************************)
EXTENDS Dispatcher

(* Registrations whose key is in the tree and whose route is not in        *)
(* routes_ yet.                                                            *)
Unfinished == {r \in Registrars : /\ rpc[r] \in {"handler", "emplace"}
                                  /\ HashOf[rpath[r]] \notin DOMAIN routes}

BoundTemplates == {routes[k].path : k \in DOMAIN routes} \cup
                  {rpath[r] : r \in Unfinished}

boundBar ==
  [t \in BoundTemplates |->
     IF HashOf[t] \in DOMAIN routes THEN routes[HashOf[t]].handler
     ELSE rhandler[CHOOSE r \in Unfinished : rpath[r] = t]]

currentBar ==
  [n \in {m \in DOMAIN tree : tree[m].key # 0} |->
     CHOOSE t \in ValidTemplates : HashOf[t] = tree[n].key]

(* Every parameter node that has been labelled. *)
namesBar ==
  [n \in {m \in DOMAIN tree : tree[m].type = "kParameter"} |->
     tree[n].param_name]

(* A worker inside MatchRoute, or between it and the call of the executor, *)
(* has a request pending.                                                  *)
answerBar ==
  [w \in Workers |->
     LET called == wpc[w] = "called"
     IN  [how |-> IF wpc[w] \in Outcomes \cup {"idle"} THEN wpc[w] ELSE "pending",
          handler |-> IF called THEN wroute[w].handler ELSE NullHandler,
          params |-> IF called THEN wparams[w] ELSE EmptyMap]]

Table == INSTANCE RouteTable
           WITH bound <- boundBar, current <- currentBar,
                names <- namesBar, request <- wreq, answer <- answerBar

(* The tree walk, the two mutexes, the keys and the lazily shared nodes    *)
(* come to nothing more than a table that is asked and changed in single   *)
(* steps: the answer to the request that __HandleImpl was given is what    *)
(* the table has for this request, under the names the table then has.     *)
ImplementsRouteTable == Table!TableSpec
===============================================================================
