------------------------------ MODULE RouteTable ------------------------------
(***************************************************************************)
(* What a dispatcher promises: a table of routes, changed and asked in     *)
(* single steps.  Which route a request belongs to is said by looking at   *)
(* the whole table, with no tree, no keys, no locks and no walk.           *)
(***************************************************************************)
EXTENDS RouterTree, FiniteSetsExt

CONSTANTS Workers, ValidTemplates, Requests, ParamTexts, Handlers, NullHandler

VARIABLES
  bound,    \* the handler of each registered pattern: the first one given
  current,  \* the pattern each shape stands for: the last one registered
  names,    \* the name in force at each parameter's place: the last one given
  request,  \* the request each worker was given
  answer    \* what each worker's request came to

tableVars == <<bound, current, names, request, answer>>

Without(how) == [how |-> how, handler |-> NullHandler, params |-> EmptyMap]

Outcomes == {"notfound", "silent", "called", "threw"}

TableInit ==
  /\ bound = EmptyMap
  /\ current = EmptyMap
  /\ names = EmptyMap
  /\ request = [w \in Workers |-> << >>]
  /\ answer = [w \in Workers |-> Without("idle")]

(* The place of part i of pattern t. *)
Place(t, i) == SubSeq(Shape(t), 1, i)

(* A pattern on its way in names a parameter's place, which patterns of    *)
(* other shapes may share: from here on the name is this one for them too. *)
Rename(t, i) ==
  /\ t[i].var
  /\ names' = Put(names, Place(t, i), t[i].text)
  /\ UNCHANGED <<bound, current, request, answer>>

(* Patterns of one shape share a place in the table, and the last one      *)
(* takes it; a pattern registered twice keeps its first handler.  At the   *)
(* moment a pattern enters the table, the names in force on the way to it  *)
(* are its own, whatever other registrations are under way.                *)
Register(t, h) ==
  /\ \A i \in 1..Len(t) : t[i].var => /\ Place(t, i) \in DOMAIN names
                                       /\ names[Place(t, i)] = t[i].text
  /\ bound' = IF t \in DOMAIN bound THEN bound ELSE Put(bound, t, h)
  /\ current' = Put(current, Shape(t), t)
  /\ UNCHANGED <<names, request, answer>>

(* Where a request may pass: everything that begins a registered shape. *)
Ways == UNION {{SubSeq(s, 1, i) : i \in 0..Len(s)} : s \in DOMAIN current}

(* n is the way request p takes: at every part the literal text when the   *)
(* table has it there, otherwise a parameter that admits the text.         *)
Takes(p, n) ==
  \A i \in 1..Len(p) :
    LET literal == Append(SubSeq(n, 1, i - 1), p[i])
    IN  IF literal \in Ways /\ p[i] # Wild THEN n[i] = p[i]
        ELSE n[i] = Wild /\ p[i] \in ParamTexts

Destinations(p) == {n \in Ways : Len(n) = Len(p) /\ Takes(p, n)}

(* The values a request that takes way n carries, under the names in force *)
(* there; of two parts with one name the later one counts.                 *)
Carried(p, n) ==
  LET places(x) == {i \in 1..Len(n) : n[i] = Wild /\ names[SubSeq(n, 1, i)] = x}
      used == {names[SubSeq(n, 1, i)] : i \in {j \in 1..Len(n) : n[j] = Wild}}
  IN  [x \in used |-> p[Max(places(x))]]

Resolve(p) ==
  IF Destinations(p) = {} THEN Without("notfound")
  ELSE LET n == CHOOSE d \in Destinations(p) : TRUE
       IN  IF n \notin DOMAIN current THEN Without("threw")
           ELSE LET h == bound[current[n]]
                IN  IF h = NullHandler THEN Without("silent")
                    ELSE [how |-> "called", handler |-> h,
                          params |-> Carried(p, n)]

(* A worker is given a request. *)
Receive(w, p) ==
  /\ answer[w].how = "idle"
  /\ request' = [request EXCEPT ![w] = p]
  /\ answer' = [answer EXCEPT ![w] = Without("pending")]
  /\ UNCHANGED <<bound, current, names>>

(* The table is asked for the very request that the worker was given. *)
Ask(w) ==
  /\ answer[w].how = "pending"
  /\ answer' = [answer EXCEPT ![w] = Resolve(request[w])]
  /\ UNCHANGED <<bound, current, names, request>>

Done(w) ==
  /\ answer[w].how \in Outcomes
  /\ answer' = [answer EXCEPT ![w] = Without("idle")]
  /\ UNCHANGED <<bound, current, names, request>>

TableNext ==
  \/ \E t \in ValidTemplates : \E i \in 1..Len(t) : Rename(t, i)
  \/ \E t \in ValidTemplates, h \in Handlers : Register(t, h)
  \/ \E w \in Workers, p \in Requests : Receive(w, p)
  \/ \E w \in Workers : Ask(w)
  \/ \E w \in Workers : Done(w)

TableSpec == TableInit /\ [][TableNext]_tableVars
===============================================================================
