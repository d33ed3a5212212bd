------------------------------ MODULE JsonValue ------------------------------
(***************************************************************************)
(* Value (src/piconaut/formats/json/value.cc): a document of one level     *)
(* with a pointer to the root or to one of its members.  operator[] always *)
(* looks in the root and moves the pointer; the assignments write where it *)
(* points, and As<T> reads there.                                          *)
(*                                                                         *)
(* One Value is modelled; the Values it is assigned or built from are any  *)
(* of Others.  Strings, numbers and truth values are abstract contents.    *)
(***************************************************************************)
EXTENDS Naturals, SequencesExt

CONSTANTS
  Keys,       \* member names
  Types,      \* the C++ types of scalars: string, int, double, bool
  Contents,   \* the contents of scalars
  Nothing,    \* the content of null
  Root,       \* current_value_ = &document_
  Others,     \* other Values: what they hold and their is_empty_
  MaxItems    \* bound: length of the vectors assigned

Scalar == [type : Types, content : Contents]
Null   == [type |-> "null", content |-> Nothing]

ObjectOf(members) == [type |-> "object", content |-> members]
ArrayOf(items)    == [type |-> "array", content |-> items]

NoMembers == [k \in {} |-> Null]

(* A value with no array in it: what the elements of an array may hold,    *)
(* which is a bound on the depth.                                          *)
IsFlat(x) ==
  \/ x \in Scalar \cup {Null}
  \/ /\ x = ObjectOf(x.content)
     /\ DOMAIN x.content \subseteq Keys
     /\ x.content \in [DOMAIN x.content -> Scalar \cup {Null}]

IsMember(x) ==
  \/ x \in Scalar \cup {Null}
  \/ /\ x = ArrayOf(x.content)
     /\ x.content \in Seq({x.content[i] : i \in 1..Len(x.content)})
     /\ \A i \in 1..Len(x.content) : IsFlat(x.content[i])

IsDocument(x) ==
  \/ IsFlat(x)
  \/ IsMember(x)
  \/ /\ x = ObjectOf(x.content)
     /\ DOMAIN x.content \subseteq Keys
     /\ x.content = [k \in DOMAIN x.content |-> x.content[k]]
     /\ \A k \in DOMAIN x.content : IsMember(x.content[k])

ASSUME ScalarAssumption ==
  Types \cap {"null", "object", "array"} = {} /\ Root \notin Keys
(* Values that are no elements of a vector, whose is_empty_ is false as soon *)
(* as they hold something.                                                   *)
ASSUME OthersAssumption ==
  \A other \in Others :
    /\ IsFlat(other.root)
    /\ other.empty \in BOOLEAN
    /\ other.empty => other.root \in {ObjectOf(NoMembers), Null}
ASSUME BoundAssumption == MaxItems \in Nat

VARIABLES
  root,     \* document_
  at,       \* current_value_: Root or the member's key
  empty,    \* is_empty_
  failed,   \* RapidJSON's assertion has failed
  element,  \* history: the Value came out of As<std::vector<Value>>
  said      \* history: what was assigned last to the root or to a member

vars == <<root, at, empty, failed, element, said>>

(* The T of As<T>. *)
Shape == [form : {"plain", "optional", "vector"}, of : Types]
           \cup {[form |-> "vector", of |-> "Value"]}

Said(form, of, x) == [shape |-> [form |-> form, of |-> of], value |-> x]

(* Assigning the root forgets the members, and the other way round. *)
SaidAt(entry) ==
  [p \in (IF at = Root THEN {} ELSE DOMAIN said \ {Root}) \cup {at} |->
     IF p = at THEN entry ELSE said[p]]

NothingSaid == [p \in {} |-> Null]

Init ==
  /\ root = ObjectOf(NoMembers)
  /\ at = Root
  /\ empty = TRUE
  /\ failed = FALSE
  /\ element = FALSE
  /\ said = NothingSaid

(* if (is_empty_) { document_.SetObject(); is_empty_ = false; } *)
Opened == IF empty THEN ObjectOf(NoMembers) ELSE root

(* *current_value_ = x *)
Written(base, x) ==
  IF at = Root THEN x
  ELSE [base EXCEPT !.content[at] = x]

Current == IF at = Root THEN root ELSE root.content[at]
-------------------------------------------------------------------------------
(* The document when member k is there: a new one is null. *)
WithMember(k) ==
  ObjectOf([j \in DOMAIN Opened.content \cup {k} |->
              IF j \in DOMAIN Opened.content THEN Opened.content[j] ELSE Null])

(* A mistake to catch: is_empty_ is left as it was. *)
SubscriptStaysEmpty(k) ==
  /\ ~failed
  /\ Opened.type = "object"
  /\ root' = WithMember(k)
  /\ at' = k
  /\ said' = [p \in DOMAIN said \ {Root} |-> said[p]]
  /\ UNCHANGED <<empty, failed, element>>

(* operator[]. *)
Subscript(k) ==
  /\ ~failed
  /\ Opened.type = "object"
  /\ root' = WithMember(k)
  /\ at' = k
  /\ empty' = FALSE
  /\ element' = FALSE
  /\ said' = [p \in DOMAIN said \ {Root} |-> said[p]]
  /\ UNCHANGED failed

(* HasMember of what is not an object fails RapidJSON's assertion. *)
FailAssertion(k) ==
  /\ ~failed
  /\ Opened.type # "object"
  /\ failed' = TRUE
  /\ UNCHANGED <<root, at, empty, element, said>>

(* A mistake to catch: an assignment does not count as content. *)
WriteStaysEmpty(x, form, of) ==
  /\ ~failed
  /\ root' = Written(Opened, x)
  /\ said' = SaidAt(Said(form, of, x))
  /\ UNCHANGED <<at, empty, failed, element>>

(* What every assignment of something that is there does. *)
Write(x, form, of) ==
  /\ ~failed
  /\ root' = Written(Opened, x)
  /\ empty' = FALSE
  /\ element' = FALSE
  /\ said' = SaidAt(Said(form, of, x))
  /\ UNCHANGED <<at, failed>>

(* operator= for std::string, const char*, int, double and bool, and for   *)
(* a std::optional of them that has a value.                               *)
AssignScalar(x) == \E form \in {"plain", "optional"} : Write(x, form, x.type)

(* operator= for a std::optional without a value: no SetObject here. *)
AssignNullopt(t) ==
  /\ ~failed
  /\ root' = Written(root, Null)
  /\ said' = SaidAt(Said("optional", t, Null))
  /\ UNCHANGED <<at, empty, failed, element>>

(* operator= for vectors of scalars. *)
AssignVector(t) ==
  \E n \in 0..MaxItems : \E items \in [1..n -> {x \in Scalar : x.type = t}] :
    Write(ArrayOf(items), "vector", t)

(* A mistake to catch: every element is wrapped in an array of its own. *)
AssignNested ==
  \E n \in 0..MaxItems : \E values \in [1..n -> Others] :
    Write(ArrayOf([i \in 1..n |-> ArrayOf(<<values[i].root>>)]), "vector", "Value")

(* operator= for a vector of Values: every element is a copy. *)
AssignValues ==
  \E n \in 0..MaxItems : \E values \in [1..n -> Others] :
    Write(ArrayOf([i \in 1..n |-> values[i].root]), "vector", "Value")

(* A mistake to catch: the pointer stays where it was. *)
CopyKeepsPointer(other) ==
  /\ ~failed
  /\ root' = other.root
  /\ empty' = other.empty
  /\ element' = FALSE
  /\ said' = NothingSaid
  /\ UNCHANGED <<at, failed>>

(* The copy assignment and the copy constructor: v["a"] = w, too, replaces *)
(* the whole document of v.                                                *)
Copy(other) ==
  /\ ~failed
  /\ root' = other.root
  /\ at' = Root
  /\ empty' = other.empty
  /\ element' = FALSE
  /\ said' = NothingSaid
  /\ UNCHANGED failed

(* v = v.As<std::vector<Value>>()[i]: the document of an element is filled *)
(* past its is_empty_, which stays true.                                   *)
TakeElement ==
  /\ ~failed
  /\ Current.type = "array"
  /\ \E i \in 1..Len(Current.content) : root' = Current.content[i]
  /\ at' = Root
  /\ empty' = TRUE
  /\ element' = TRUE
  /\ said' = NothingSaid
  /\ UNCHANGED failed

Aborted == failed /\ UNCHANGED vars

Next ==
  \/ \E k \in Keys : Subscript(k) \/ FailAssertion(k)
  \/ \E x \in Scalar : AssignScalar(x)
  \/ \E t \in Types : AssignNullopt(t) \/ AssignVector(t)
  \/ AssignValues
  \/ \E other \in Others : Copy(other)
  \/ TakeElement
  \/ Aborted

Spec == Init /\ [][Next]_vars
-------------------------------------------------------------------------------
(* As<T>: whether a value is what T wants. *)
IsOf(x, t) == x.type = t

Converts(shape, x) ==
  \/ shape.form = "plain" /\ IsOf(x, shape.of)
  \/ shape.form = "optional" /\ (x.type = "null" \/ IsOf(x, shape.of))
  \/ /\ shape.form = "vector" /\ x.type = "array"
     /\ shape.of # "Value" => \A i \in 1..Len(x.content) : IsOf(x.content[i], shape.of)

(* Types. *)
TypeOK ==
  /\ IsDocument(root)
  /\ at \in Keys \cup {Root}
  /\ empty \in BOOLEAN /\ failed \in BOOLEAN /\ element \in BOOLEAN
  /\ DOMAIN said \subseteq Keys \cup {Root}
  /\ \A p \in DOMAIN said : said[p].shape \in Shape

(* current_value_ points into the document, whatever was assigned, copied  *)
(* or emptied since operator[] took it.                                    *)
PointerLive == at # Root => root.type = "object" /\ at \in DOMAIN root.content

(* is_empty_, which lets the next call throw the document away, is true    *)
(* only while there is nothing in it, except for the elements that         *)
(* As<std::vector<Value>> returns: those lose what they hold when they are *)
(* subscripted.                                                            *)
EmptyHoldsNothing ==
  (empty /\ ~element) => root \in {ObjectOf(NoMembers), Null}

(* However the statements go on, what was assigned last to a member is     *)
(* what As<T>, with the T that was assigned, finds when that member is     *)
(* subscripted again; and the same of the root.                            *)
ReadsBack ==
  \A p \in DOMAIN said :
    /\ Converts(said[p].shape, said[p].value)
    /\ \/ p = Root /\ root = said[p].value
       \/ /\ root.type = "object" /\ p \in DOMAIN root.content
          /\ root.content[p] = said[p].value
===============================================================================
