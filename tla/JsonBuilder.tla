----------------------------- MODULE JsonBuilder -----------------------------
(***************************************************************************)
(* ValueBuilder (src/piconaut/formats/json/value_builder.cc): operator[]   *)
(* returns the builder itself and leaves a stack of pointers behind, which *)
(* tells the next operator[] or assignment where it is.                    *)
(*                                                                         *)
(* A pointer into the document is the name of the value it was taken from, *)
(* and whether that value is still there: AddMember moves the members of   *)
(* an object when their array is full, and replacing a value loses what    *)
(* was below it.  An operator[] on what is not an object fails RapidJSON's *)
(* assertion, which ends the process.                                      *)
(***************************************************************************)
EXTENDS JsonTree

CONSTANTS
  Others,   \* documents of other builders, which are copied from
  Uses,     \* what the program does besides json[k1]...[kn] = v
  MaxDepth  \* bound: depth of the document

(* "reference": assigns again through the reference operator[] returned.   *)
(* "unfinished": an expression json[k1]...[kn] with no assignment.         *)
(* "copy": the copy constructor and the assignment of a builder.           *)
ASSUME UsesAssumption == Uses \subseteq {"reference", "unfinished", "copy"}
ASSUME OthersAssumption ==
  \A other \in Others : /\ DOMAIN other \subseteq Seq(Keys)
                        /\ \A p \in DOMAIN other : other[p] \in Value
                        /\ IsTree(other)
ASSUME DepthAssumption == MaxDepth \in Nat

VARIABLES
  doc,      \* document_
  nodes,    \* value_nodes_
  current,  \* current_value_
  type,     \* current_type_
  empty,    \* is_empty_
  failed,   \* RapidJSON's assertion has failed
  expr,     \* history: the keys of the expression being evaluated
  said      \* history: the value the last statement assigned, before the next

vars == <<doc, nodes, current, type, empty, failed, expr, said>>

Pointer == [path : Seq(Keys), live : BOOLEAN]
To(p) == [path |-> p, live |-> TRUE]

Init ==
  /\ doc = EmptyDocument
  /\ nodes = << >>
  /\ current = To(Root)
  /\ type = "unknown"
  /\ empty = TRUE
  /\ failed = FALSE
  /\ expr = << >>
  /\ said = Null

(* A mistake to catch: every key is looked up in the root. *)
RootValue == To(Root)

(* GetNodeValue *)
NodeValue == IF nodes = << >> THEN To(Root) ELSE Last(nodes)

(* The document after "if (is_empty_) document_.SetObject()". *)
Opened == IF empty THEN EmptyDocument ELSE doc

(* AddMember moved the members of the object at p. *)
AfterMove(ptr, p) ==
  [ptr EXCEPT !.live = @ /\ ~(Len(ptr.path) = Len(p) + 1 /\ IsPrefix(p, ptr.path))]

(* The value at p was replaced. *)
AfterReplace(ptr, p) == [ptr EXCEPT !.live = @ /\ ~IsStrictPrefix(p, ptr.path)]

-------------------------------------------------------------------------------
(* operator[].                                                             *)

(* What every subscript does: look in the object the stack ends at. *)
Subscript(k, at) ==
  /\ ~failed
  /\ Len(at) < MaxDepth
  /\ expr' = Append(expr, k)
  /\ said' = Null
  /\ empty' = FALSE

FindMember(k) ==
  LET at == NodeValue.path
      member == Append(at, k)
  IN  /\ Subscript(k, at)
      /\ Opened[at].type = "object" /\ member \in DOMAIN Opened
      /\ doc' = Opened
      /\ current' = To(member)
      /\ type' = Opened[member].type
      /\ nodes' = Append(nodes, current')
      /\ UNCHANGED failed

(* A mistake to catch: members are added to whatever is there. *)
AddMemberUnchecked(k) ==
  LET at == NodeValue.path
      member == Append(at, k)
  IN  /\ Subscript(k, at)
      /\ member \notin DOMAIN Opened
      /\ doc' = Put(Opened, member, Null)
      /\ current' = To(member)
      /\ type' = "unknown"
      /\ nodes' = Append(nodes, current')
      /\ UNCHANGED failed

(* A mistake to catch: the type of the member found before is kept. *)
AddMemberKeepType(k) ==
  LET at == NodeValue.path
      member == Append(at, k)
  IN  /\ Subscript(k, at)
      /\ Opened[at].type = "object" /\ member \notin DOMAIN Opened
      /\ doc' = Put(Opened, member, Null)
      /\ current' = To(member)
      /\ nodes' = Append(nodes, current')
      /\ UNCHANGED <<type, failed>>

AddMember(k) ==
  LET at == NodeValue.path
      member == Append(at, k)
  IN  /\ Subscript(k, at)
      /\ Opened[at].type = "object" /\ member \notin DOMAIN Opened
      /\ doc' = Put(Opened, member, Null)
      /\ current' = To(member)
      /\ type' = "unknown"
      /\ \E moved \in BOOLEAN :
           nodes' = Append([i \in 1..Len(nodes) |->
                              IF moved THEN AfterMove(nodes[i], at) ELSE nodes[i]],
                           current')
      /\ UNCHANGED failed

(* HasMember on a value that is not an object. *)
FailAssertion(k) ==
  LET at == NodeValue.path
  IN  /\ Subscript(k, at)
      /\ Opened[at].type # "object"
      /\ doc' = Opened
      /\ failed' = TRUE
      /\ UNCHANGED <<nodes, current, type>>

-------------------------------------------------------------------------------
(* Assignments.                                                            *)

(* A mistake to catch: the stack is not cleared. *)
StatementKeepsNodes(v) ==
  /\ ~failed
  /\ expr # << >> \/ "reference" \in Uses
  /\ expr' = << >>
  /\ said' = v
  /\ nodes' = nodes
  /\ UNCHANGED failed

(* The end of every assignment except the one of a builder; the program    *)
(* has named a place, or assigns through a reference it kept.              *)
Statement(v) ==
  /\ ~failed
  /\ expr # << >> \/ "reference" \in Uses
  /\ expr' = << >>
  /\ said' = v
  /\ nodes' = << >>
  /\ UNCHANGED failed

(* *current_value_ = v *)
WriteCurrent(base, v) ==
  /\ doc' = Put(base, current.path, v)
  /\ current' = AfterReplace(current, current.path)

(* operator= for std::string and numbers. *)
AssignTyped(v) ==
  /\ v.type \in {"string", "number"}
  /\ type \in {"unknown", v.type}
  /\ Statement(v)
  /\ WriteCurrent(Opened, v)
  /\ type' = v.type
  /\ empty' = FALSE

(* A mistake to catch: what was assigned once is not assigned again. *)
AssignOnce(v) ==
  /\ v.type \in {"string", "bool"}
  /\ type \in {"unknown", v.type}
  /\ Statement(v)
  /\ IF type = "unknown" THEN WriteCurrent(Opened, v)
     ELSE doc' = Opened /\ UNCHANGED current
  /\ empty' = FALSE
  /\ UNCHANGED type

(* operator= for bool and const char*, which leave current_type_ alone. *)
AssignUntyped(v) ==
  /\ v.type \in {"string", "bool"}
  /\ type \in {"unknown", v.type}
  /\ Statement(v)
  /\ WriteCurrent(Opened, v)
  /\ empty' = FALSE
  /\ UNCHANGED type

(* A mistake to catch: a value of another type is written all the same. *)
OverwriteOtherType(v) ==
  /\ type \notin {"unknown", v.type}
  /\ Statement(v)
  /\ WriteCurrent(Opened, v)
  /\ empty' = FALSE
  /\ UNCHANGED type

(* "Can't change the type initialized previously!" *)
RefuseType(v) ==
  /\ type \notin {"unknown", v.type}
  /\ Statement(v)
  /\ doc' = Opened
  /\ empty' = FALSE
  /\ UNCHANGED <<current, type>>

CreateJsonObject ==
  /\ Statement(Object)
  /\ IF type = "unknown"
     THEN WriteCurrent(doc, Object) /\ type' = "object"
     ELSE UNCHANGED <<doc, current, type>>
  /\ UNCHANGED empty

(* operator=(const ValueBuilder&).  It does not clear value_nodes_. *)
AssignBuilder(other) ==
  /\ ~failed
  /\ "copy" \in Uses
  /\ doc' = Graft(Opened, NodeValue.path, other)
  /\ current' = NodeValue
  /\ type' = other[Root].type
  /\ nodes' = [i \in 1..Len(nodes) |-> AfterReplace(nodes[i], NodeValue.path)]
  /\ empty' = FALSE
  /\ expr' = << >>
  /\ said' = other[Root]
  /\ UNCHANGED failed

(* The copy constructor; the program goes on with the copy. *)
CopyBuilder ==
  /\ ~failed
  /\ "copy" \in Uses
  /\ nodes' = << >>
  /\ current' = To(Root)
  /\ type' = "unknown"
  /\ expr' = << >>
  /\ UNCHANGED <<doc, empty, failed, said>>

(* An expression ends with no assignment, or with that of the builder to   *)
(* itself, as in json["a"] = json["b"].                                    *)
LeaveExpression ==
  /\ ~failed
  /\ "unfinished" \in Uses
  /\ expr # << >>
  /\ expr' = << >>
  /\ UNCHANGED <<doc, nodes, current, type, empty, failed, said>>

Aborted == failed /\ UNCHANGED vars

Next ==
  \/ \E k \in Keys : FindMember(k) \/ AddMember(k) \/ FailAssertion(k)
  \/ \E v \in Scalar : AssignTyped(v) \/ AssignUntyped(v) \/ RefuseType(v)
  \/ CreateJsonObject
  \/ \E other \in Others : AssignBuilder(other)
  \/ CopyBuilder
  \/ LeaveExpression
  \/ Aborted

Spec == Init /\ [][Next]_vars

-------------------------------------------------------------------------------
(* The builder's fields have their types and the document is a document.   *)
TypeOK ==
  /\ DOMAIN doc \subseteq Seq(Keys)
  /\ \A p \in DOMAIN doc : doc[p] \in Value
  /\ IsTree(doc)
  /\ nodes \in Seq(Pointer)
  /\ current \in Pointer
  /\ type \in {"unknown", "null", "object"} \cup ScalarType
  /\ empty \in BOOLEAN
  /\ failed \in BOOLEAN
  /\ expr \in Seq(Keys)
  /\ said \in Value

(* No use of the builder makes it keep a pointer to a value that was moved *)
(* or replaced: the values on the stack are on the way to the one that     *)
(* grows, and current_value_ is taken after it has grown.                  *)
PointersLive ==
  /\ \A i \in 1..Len(nodes) : nodes[i].live /\ nodes[i].path \in DOMAIN doc
  /\ current.live /\ current.path \in DOMAIN doc

(* "to make sure when assignment it pointing to correct node": while an    *)
(* expression is evaluated, value_nodes_ are the values its keys name, and *)
(* otherwise it is empty.                                                  *)
CursorAtExpression ==
  ~failed => /\ Len(nodes) = Len(expr)
             /\ \A i \in 1..Len(nodes) : nodes[i].path = SubSeq(expr, 1, i)

(* A member without a value exists only while the expression that made it  *)
(* is evaluated: no statement leaves a half-made member.                   *)
NullOnlyAtCursor ==
  \A p \in DOMAIN doc :
    doc[p].type = "null" => nodes # << >> /\ Last(nodes).path = p

(* The cached current_type_ is the type of what the expression names, or   *)
(* unknown when that is the null of a new member.                          *)
CachedTypeTrue ==
  (nodes # << >> /\ ~failed) =>
    LET actual == doc[Last(nodes).path].type
    IN  type = actual \/ (type = "unknown" /\ actual = "null")

(* "Can't change the type initialized previously": a value keeps its type  *)
(* and its place.                                                          *)
TypesStay ==
  [][\A p \in DOMAIN doc :
       doc[p].type # "null" => p \in DOMAIN doc' /\ doc'[p].type = doc[p].type]_vars

(* Comment: "must clear the nodes when do assignment".                     *)
AssignmentClearsNodes == expr = << >> => nodes = << >>

-------------------------------------------------------------------------------
(* The document without the member that is being made. *)
contentBar == [p \in {q \in DOMAIN doc : doc[q].type # "null"} |-> doc[p]]

Document == INSTANCE JsonDocument WITH content <- contentBar

(* With one full expression per assignment, the stack, the cached type and *)
(* the members made on the way come to one decision about one place.       *)
ImplementsJsonDocument == Document!DocumentSpec
===============================================================================
