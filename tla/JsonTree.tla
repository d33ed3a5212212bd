------------------------------- MODULE JsonTree -------------------------------
(***************************************************************************)
(* JSON documents as the builder (src/piconaut/formats/json) and RapidJSON *)
(* see them.  A value is named by the keys on the way to it, the root by   *)
(* << >>, and a document is a function from the names of its values to     *)
(* what they are.  Arrays do not occur: ValueBuilder makes none.           *)
(***************************************************************************)
EXTENDS Naturals, SequencesExt

CONSTANTS
  Keys,      \* member names that occur
  Contents,  \* strings, numbers and truth values that occur
  Nothing    \* the content of null and of an object

(* The types of rapidjson::Type, with kFalseType and kTrueType as one. *)
ScalarType == {"string", "number", "bool"}
Scalar == [type : ScalarType, content : Contents]

Object == [type |-> "object", content |-> Nothing]
Null   == [type |-> "null", content |-> Nothing]

Value == Scalar \cup {Object, Null}

Root == << >>

(* document_.SetObject() *)
EmptyDocument == [p \in {Root} |-> Object]

Below(doc, p) == {q \in DOMAIN doc : IsStrictPrefix(p, q)}

(* *p = v, where p is in the document or a new member of an object. *)
Put(doc, p, v) ==
  [q \in (DOMAIN doc \ Below(doc, p)) \cup {p} |-> IF q = p THEN v ELSE doc[q]]

(* p->CopyFrom(other): all of other in the place of p. *)
Graft(doc, p, other) ==
  [q \in (DOMAIN doc \ Below(doc, p)) \cup {p \o s : s \in DOMAIN other} |->
     IF IsPrefix(p, q) THEN other[SubSeq(q, Len(p) + 1, Len(q))] ELSE doc[q]]

(* Every value except the root is a member of an object. *)
IsTree(doc) ==
  /\ Root \in DOMAIN doc
  /\ \A p \in DOMAIN doc \ {Root} :
       Front(p) \in DOMAIN doc /\ doc[Front(p)].type = "object"
===============================================================================
