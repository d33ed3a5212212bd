---------------------------- MODULE JsonValueProofs ----------------------------
(***************************************************************************)
(* Value's pointer, its is_empty_ and what As<T> reads back, for any       *)
(* members, types, contents and other Values.                              *)
(***************************************************************************)
EXTENDS JsonValue, SequenceTheorems, TLAPS

(* What is remembered of the assignments is of the root or of members,     *)
(* whichever the pointer is at; is_empty_ is never set at a member.        *)
PointerInv ==
  /\ at = Root => DOMAIN said \subseteq {Root}
  /\ at # Root => DOMAIN said \subseteq Keys /\ ~empty

IInv == TypeOK /\ PointerLive /\ EmptyHoldsNothing /\ ReadsBack /\ PointerInv

LEMMA ScalarShape ==
  ASSUME NEW x \in Scalar \cup {Null}
  PROVE  x.type \in Types \cup {"null"} /\ x.type \notin {"object", "array"}
BY ScalarAssumption DEF Scalar, Null

(* The three shapes of a document, told apart by their types. *)
LEMMA ObjectDocument ==
  ASSUME NEW x, IsDocument(x), x.type = "object"
  PROVE  /\ x = ObjectOf(x.content)
         /\ DOMAIN x.content \subseteq Keys
         /\ x.content = [k \in DOMAIN x.content |-> x.content[k]]
         /\ \A k \in DOMAIN x.content : IsMember(x.content[k])
<1>1. x \notin Scalar \cup {Null}
  BY ScalarShape
<1>2. x # ArrayOf(x.content)
  BY DEF ArrayOf
<1> QED
  BY <1>1, <1>2 DEF IsDocument, IsFlat, IsMember

LEMMA ArrayMember ==
  ASSUME NEW x, IsDocument(x) \/ IsMember(x), x.type = "array"
  PROVE  \A i \in 1..Len(x.content) : IsFlat(x.content[i])
<1>1. x \notin Scalar \cup {Null}
  BY ScalarShape
<1>2. x # ObjectOf(x.content)
  BY DEF ObjectOf
<1> QED
  BY <1>1, <1>2 DEF IsDocument, IsFlat, IsMember

LEMMA ObjectIs ==
  ASSUME NEW f, DOMAIN f \subseteq Keys, f = [k \in DOMAIN f |-> f[k]],
         \A k \in DOMAIN f : IsMember(f[k])
  PROVE  IsDocument(ObjectOf(f))
<1>1. ObjectOf(f).content = f
  BY DEF ObjectOf
<1> QED
  BY <1>1 DEF IsDocument

(* Vectors are arrays of what their elements are. *)
LEMMA ArrayIs ==
  ASSUME NEW n \in Nat, NEW S, NEW items \in [1..n -> S],
         \A i \in 1..n : IsFlat(items[i])
  PROVE  /\ IsMember(ArrayOf(items))
         /\ ArrayOf(items).type = "array"
         /\ ArrayOf(items).content = items
         /\ items \in Seq(S) /\ Len(items) = n
<1> DEFINE T == {items[i] : i \in 1..n}
<1>1. items \in Seq(S) /\ Len(items) = n
  <2>1. items \in Seq(S)
    BY SeqDef
  <2> QED
    BY <2>1, LenProperties
<1>2. items \in [1..n -> T]
  OBVIOUS
<1>3. items \in Seq(T)
  BY <1>2, SeqDef
<1>4. ArrayOf(items).type = "array" /\ ArrayOf(items).content = items
  BY DEF ArrayOf
<1> QED
  BY <1>1, <1>3, <1>4 DEF IsMember

LEMMA IInvInit == Init => IInv
<1> SUFFICES ASSUME Init PROVE IInv
  OBVIOUS
<1>1. DOMAIN NoMembers = {} /\ NoMembers = [k \in DOMAIN NoMembers |-> NoMembers[k]]
  BY DEF NoMembers
<1>2. IsDocument(root)
  BY <1>1, ObjectIs DEF Init
<1>3. DOMAIN said = {}
  BY DEF Init, NothingSaid
<1> QED
  BY <1>2, <1>3
  DEF Init, IInv, TypeOK, PointerLive, EmptyHoldsNothing, ReadsBack, PointerInv

-------------------------------------------------------------------------------
(* An assignment: x goes where the pointer is, and is what was said there. *)
LEMMA WriteKeeps ==
  ASSUME IInv, NEW base, at # Root => base = root,
         NEW x, IsMember(x), NEW form, NEW of,
         [form |-> form, of |-> of] \in Shape,
         Converts([form |-> form, of |-> of], x),
         root' = Written(base, x), said' = SaidAt(Said(form, of, x)), at' = at
  PROVE  /\ IsDocument(root)'
         /\ DOMAIN said' \subseteq Keys \cup {Root}
         /\ \A p \in DOMAIN said' : said'[p].shape \in Shape
         /\ PointerLive'
         /\ ReadsBack'
         /\ IF at = Root THEN DOMAIN said' \subseteq {Root} /\ root' = x
            ELSE DOMAIN said' \subseteq Keys
<1> DEFINE entry == Said(form, of, x)
<1>1. entry.shape = [form |-> form, of |-> of] /\ entry.value = x
  BY DEF Said
<1>2. CASE at = Root
  <2>1. root' = x
    BY <1>2 DEF Written
  <2>2. DOMAIN said' = {Root} /\ said'[Root] = entry
    BY <1>2 DEF SaidAt
  <2>3. IsDocument(root)'
    BY <2>1 DEF IsDocument
  <2> QED
    BY <1>1, <1>2, <2>1, <2>2, <2>3 DEF PointerLive, ReadsBack
<1>3. CASE at # Root
  <2> DEFINE c == root.content
             d == [c EXCEPT ![at] = x]
  <2>1. /\ at \in Keys /\ at \in DOMAIN c
        /\ root = ObjectOf(c)
        /\ DOMAIN c \subseteq Keys
        /\ c = [k \in DOMAIN c |-> c[k]]
        /\ \A k \in DOMAIN c : IsMember(c[k])
    BY <1>3, ObjectDocument DEF IInv, TypeOK, PointerLive
  <2>2. root' = [root EXCEPT !.content[at] = x]
    BY <1>3 DEF Written
  <2>3. root' = ObjectOf(d)
    BY <2>1, <2>2 DEF ObjectOf
  <2>4. /\ DOMAIN d = DOMAIN c
        /\ d[at] = x
        /\ \A k \in DOMAIN c : k # at => d[k] = c[k]
        /\ d = [k \in DOMAIN d |-> d[k]]
    BY <2>1
  <2>5. root'.type = "object" /\ root'.content = d
    BY <2>3 DEF ObjectOf
  <2> HIDE DEF c, d
  <2>6. \A k \in DOMAIN d : IsMember(d[k])
    BY <2>1, <2>4
  <2>7. IsDocument(root)'
    BY <2>1, <2>3, <2>4, <2>6, ObjectIs
  <2>8. /\ DOMAIN said \subseteq Keys
        /\ DOMAIN said' = DOMAIN said \cup {at}
        /\ said'[at] = entry
        /\ \A p \in DOMAIN said : p # at => said'[p] = said[p]
    BY <1>3, ScalarAssumption DEF SaidAt, IInv, PointerInv
  <2>9. \A p \in DOMAIN said : p # at =>
          p \in DOMAIN c /\ c[p] = said[p].value
    BY <2>8, ScalarAssumption DEF IInv, ReadsBack, c
  <2>10. ReadsBack'
    <3>1. ASSUME NEW p \in DOMAIN said', p = at
          PROVE  /\ Converts(said'[p].shape, said'[p].value)
                 /\ p \in DOMAIN d /\ d[p] = said'[p].value
      BY <1>1, <2>1, <2>4, <2>8, <3>1
    <3>2. ASSUME NEW p \in DOMAIN said', p # at
          PROVE  /\ Converts(said'[p].shape, said'[p].value)
                 /\ p \in DOMAIN d /\ d[p] = said'[p].value
      BY <2>4, <2>8, <2>9, <3>2 DEF IInv, ReadsBack
    <3> QED
      BY <2>5, <3>1, <3>2 DEF ReadsBack
  <2> QED
    BY <1>1, <1>3, <2>1, <2>4, <2>5, <2>7, <2>8, <2>10
    DEF IInv, TypeOK, PointerLive
<1> QED
  BY <1>2, <1>3

LEMMA WriteStep ==
  ASSUME IInv, NEW x, NEW form, NEW of, IsMember(x),
         [form |-> form, of |-> of] \in Shape,
         Converts([form |-> form, of |-> of], x), Write(x, form, of)
  PROVE  IInv'
<1>1. at # Root => Opened = root
  BY DEF IInv, PointerInv, Opened
<1>2. /\ root' = Written(Opened, x) /\ said' = SaidAt(Said(form, of, x))
      /\ at' = at /\ failed' = failed /\ empty' = FALSE /\ element' = FALSE
  BY DEF Write
<1> QED
  BY <1>1, <1>2, WriteKeeps DEF IInv, TypeOK, PointerInv, EmptyHoldsNothing

-------------------------------------------------------------------------------
LEMMA SubscriptStep == ASSUME IInv, NEW k \in Keys, Subscript(k) PROVE IInv'
<1> DEFINE o == Opened.content
           d == [j \in DOMAIN o \cup {k} |-> IF j \in DOMAIN o THEN o[j] ELSE Null]
<1>1. IsDocument(Opened)
  <2>1. DOMAIN NoMembers = {} /\ NoMembers = [j \in DOMAIN NoMembers |-> NoMembers[j]]
    BY DEF NoMembers
  <2> QED
    BY <2>1, ObjectIs DEF Opened, IInv, TypeOK
<1>2. /\ root' = ObjectOf(d)
      /\ Opened.type = "object"
      /\ at' = k /\ empty' = FALSE /\ element' = FALSE /\ failed' = failed
      /\ said' = [p \in DOMAIN said \ {Root} |-> said[p]]
  BY DEF Subscript, WithMember
<1>3. DOMAIN o \subseteq Keys /\ \A j \in DOMAIN o : IsMember(o[j])
  BY <1>1, <1>2, ObjectDocument
<1>4. /\ DOMAIN d = DOMAIN o \cup {k}
      /\ d = [j \in DOMAIN d |-> d[j]]
      /\ \A j \in DOMAIN o : d[j] = o[j]
      /\ k \notin DOMAIN o => d[k] = Null
  OBVIOUS
<1>5. root'.type = "object" /\ root'.content = d
  BY <1>2 DEF ObjectOf
<1>6. ASSUME NEW p \in DOMAIN said, p # Root
      PROVE  p \in DOMAIN o /\ o[p] = said[p].value /\ p \in Keys
  <2>1. p \in Keys /\ ~empty
    BY <1>6 DEF IInv, PointerInv
  <2>2. Opened = root
    BY <2>1 DEF Opened
  <2> QED
    BY <1>6, <2>1, <2>2 DEF IInv, ReadsBack
<1> HIDE DEF d, o
<1>7. IsMember(Null)
  BY DEF IsMember
<1>8. \A j \in DOMAIN d : IsMember(d[j])
  BY <1>3, <1>4, <1>7
<1>9. IsDocument(root)'
  BY <1>2, <1>3, <1>4, <1>8, ObjectIs
<1>10. PointerLive'
  BY <1>2, <1>4, <1>5 DEF PointerLive
<1>11. ReadsBack'
  BY <1>2, <1>4, <1>5, <1>6 DEF IInv, ReadsBack
<1>12. k # Root
  BY ScalarAssumption
<1>13. DOMAIN said' \subseteq Keys
  BY <1>2, <1>6
<1>14. \A p \in DOMAIN said' : said'[p].shape \in Shape
  BY <1>2 DEF IInv, TypeOK
<1> QED
  BY <1>2, <1>9, <1>10, <1>11, <1>12, <1>13, <1>14
  DEF IInv, TypeOK, PointerInv, EmptyHoldsNothing

LEMMA AssignScalarStep ==
  ASSUME IInv, NEW x \in Scalar, AssignScalar(x)
  PROVE  IInv'
<1>1. PICK form \in {"plain", "optional"} : Write(x, form, x.type)
  BY DEF AssignScalar
<1>2. x.type \in Types /\ IsMember(x)
  BY DEF Scalar, IsMember
<1>3. [form |-> form, of |-> x.type] \in Shape
  BY <1>2 DEF Shape
<1>4. Converts([form |-> form, of |-> x.type], x)
  BY DEF Converts, IsOf
<1> QED
  BY <1>1, <1>2, <1>3, <1>4, WriteStep

LEMMA AssignNulloptStep ==
  ASSUME IInv, NEW t \in Types, AssignNullopt(t)
  PROVE  IInv'
<1>1. IsMember(Null)
  BY DEF IsMember
<1>2. [form |-> "optional", of |-> t] \in Shape
  BY DEF Shape
<1>3. Converts([form |-> "optional", of |-> t], Null)
  BY DEF Converts, Null
<1>4. /\ root' = Written(root, Null) /\ said' = SaidAt(Said("optional", t, Null))
      /\ UNCHANGED <<at, empty, failed, element>>
  BY DEF AssignNullopt
<1> QED
  BY <1>1, <1>2, <1>3, <1>4, WriteKeeps
  DEF IInv, TypeOK, PointerInv, EmptyHoldsNothing

LEMMA AssignVectorStep ==
  ASSUME IInv, NEW t \in Types, AssignVector(t)
  PROVE  IInv'
<1>0. PICK n \in 0..MaxItems :
        \E items \in [1..n -> {x \in Scalar : x.type = t}] :
          Write(ArrayOf(items), "vector", t)
  BY DEF AssignVector
<1>1. PICK items \in [1..n -> {x \in Scalar : x.type = t}] :
        Write(ArrayOf(items), "vector", t)
  BY <1>0
<1>2. n \in Nat /\ \A i \in 1..n : IsFlat(items[i]) /\ items[i].type = t
  BY BoundAssumption DEF IsFlat
<1>3. /\ IsMember(ArrayOf(items))
      /\ ArrayOf(items).type = "array" /\ ArrayOf(items).content = items
      /\ Len(items) = n
  BY <1>2, ArrayIs
<1>4. [form |-> "vector", of |-> t] \in Shape
  BY DEF Shape
<1>5. Converts([form |-> "vector", of |-> t], ArrayOf(items))
  BY <1>2, <1>3 DEF Converts, IsOf
<1> QED
  BY <1>1, <1>3, <1>4, <1>5, WriteStep

LEMMA AssignValuesStep == ASSUME IInv, AssignValues PROVE IInv'
<1>0. PICK n \in 0..MaxItems :
        \E values \in [1..n -> Others] :
          Write(ArrayOf([i \in 1..n |-> values[i].root]), "vector", "Value")
  BY DEF AssignValues
<1>1. PICK values \in [1..n -> Others] :
        Write(ArrayOf([i \in 1..n |-> values[i].root]), "vector", "Value")
  BY <1>0
<1> DEFINE items == [i \in 1..n |-> values[i].root]
           S == {values[i].root : i \in 1..n}
<1>2. n \in Nat /\ \A i \in 1..n : IsFlat(items[i])
  BY BoundAssumption, OthersAssumption
<1>3. items \in [1..n -> S]
  OBVIOUS
<1> HIDE DEF items, S
<1>4. IsMember(ArrayOf(items)) /\ ArrayOf(items).type = "array"
  BY <1>2, <1>3, ArrayIs
<1>5. [form |-> "vector", of |-> "Value"] \in Shape
  BY DEF Shape
<1>6. Converts([form |-> "vector", of |-> "Value"], ArrayOf(items))
  BY <1>4 DEF Converts
<1> QED
  BY <1>1, <1>4, <1>5, <1>6, WriteStep DEF items

LEMMA CopyStep == ASSUME IInv, NEW other \in Others, Copy(other) PROVE IInv'
<1>1. IsFlat(other.root) /\ other.empty \in BOOLEAN
  BY OthersAssumption
<1>2. other.empty => other.root \in {ObjectOf(NoMembers), Null}
  BY OthersAssumption
<1>3. DOMAIN said' = {}
  BY DEF Copy, NothingSaid
<1> QED
  BY <1>1, <1>2, <1>3
  DEF Copy, IInv, TypeOK, IsDocument, PointerLive, EmptyHoldsNothing, ReadsBack,
      PointerInv

LEMMA TakeElementStep == ASSUME IInv, TakeElement PROVE IInv'
<1>1. IsDocument(Current) \/ IsMember(Current)
  BY ObjectDocument DEF Current, IInv, TypeOK, PointerLive
<1>2. IsFlat(root')
  BY <1>1, ArrayMember DEF TakeElement
<1>3. DOMAIN said' = {}
  BY DEF TakeElement, NothingSaid
<1> QED
  BY <1>2, <1>3
  DEF TakeElement, IInv, TypeOK, IsDocument, PointerLive, EmptyHoldsNothing,
      ReadsBack, PointerInv

LEMMA IInvStep == IInv /\ [Next]_vars => IInv'
<1> SUFFICES ASSUME IInv, [Next]_vars PROVE IInv'
  OBVIOUS
<1>1. ASSUME NEW k \in Keys, FailAssertion(k) PROVE IInv'
  BY <1>1
  DEF FailAssertion, IInv, TypeOK, PointerLive, EmptyHoldsNothing, ReadsBack,
      PointerInv
<1>2. CASE UNCHANGED vars
  BY <1>2
  DEF vars, IInv, TypeOK, PointerLive, EmptyHoldsNothing, ReadsBack, PointerInv
<1> QED
  BY <1>1, <1>2, SubscriptStep, AssignScalarStep, AssignNulloptStep,
     AssignVectorStep, AssignValuesStep, CopyStep, TakeElementStep
  DEF Next, Aborted

LEMMA Invariance == Spec => []IInv
BY IInvInit, IInvStep, PTL DEF Spec

-------------------------------------------------------------------------------
(* The document stays a document of one level of members, with vectors of  *)
(* flat values, whatever is assigned where.                                *)
THEOREM ValueTypeCorrect == Spec => []TypeOK
<1>1. IInv => TypeOK
  BY DEF IInv
<1> QED
  BY <1>1, Invariance, PTL

(* current_value_ always points at a value that is there. *)
THEOREM PointerStaysLive == Spec => []PointerLive
<1>1. IInv => PointerLive
  BY DEF IInv
<1> QED
  BY <1>1, Invariance, PTL

(* is_empty_ makes no statement throw away what another one assigned,      *)
(* except in the elements of As<std::vector<Value>>.                       *)
THEOREM NothingIsThrownAway == Spec => []EmptyHoldsNothing
<1>1. IInv => EmptyHoldsNothing
  BY DEF IInv
<1> QED
  BY <1>1, Invariance, PTL

(* What was assigned is what As<T> reads, for every T and every program.   *)
THEOREM AssignedIsReadBack == Spec => []ReadsBack
<1>1. IInv => ReadsBack
  BY DEF IInv
<1> QED
  BY <1>1, Invariance, PTL
===============================================================================
