--------------------------- MODULE JsonBuilderProofs ---------------------------
(***************************************************************************)
(* ValueBuilder's pointers and its cached type, for any use of the builder, *)
(* and its cursor, for programs of full expressions; for any keys, values, *)
(* other builders and any depth.  Then, for programs of full expressions,  *)
(* that ValueBuilder implements JsonDocument: each of its operations is    *)
(* one step of JsonDocument, and nothing of the stack, the cached type or  *)
(* the members made on the way is seen from outside.                       *)
(***************************************************************************)
EXTENDS JsonBuilder, SequenceTheorems, TLAPS

(* The stack holds one value per level, the last of them is the current    *)
(* one, and nothing has happened while is_empty_ is set.                   *)
StackInv ==
  /\ DOMAIN doc \subseteq Seq(Keys)
  /\ Root \in DOMAIN doc
  /\ nodes \in Seq(Pointer)
  /\ current \in Pointer
  /\ \A i \in 1..Len(nodes) : Len(nodes[i].path) = i
  /\ nodes # << >> => current = nodes[Len(nodes)]
  /\ empty => doc = EmptyDocument /\ nodes = << >> /\ current = To(Root)
  /\ PointersLive

LEMMA StackInit == Init => StackInv
  BY DEF Init, StackInv, PointersLive, EmptyDocument, To, Root, Pointer

(* The document a step starts from, and where it looks. *)
LEMMA StepStart ==
  ASSUME StackInv
  PROVE  /\ DOMAIN Opened \subseteq Seq(Keys)
         /\ Root \in DOMAIN Opened
         /\ current.path \in DOMAIN Opened
         /\ \A i \in 1..Len(nodes) : nodes[i].path \in DOMAIN Opened
         /\ NodeValue \in Pointer /\ NodeValue.live
         /\ NodeValue.path \in DOMAIN Opened
         /\ Len(NodeValue.path) = Len(nodes)
<1>1. Opened = doc
  BY DEF StackInv, Opened
<1>2. CASE nodes = << >>
  BY <1>1, <1>2 DEF StackInv, PointersLive, NodeValue, To, Root, Pointer
<1>3. CASE nodes # << >>
  <2>1. NodeValue = nodes[Len(nodes)] /\ Len(nodes) \in 1..Len(nodes)
    BY <1>3 DEF NodeValue, Last, StackInv
  <2> QED
    BY <1>1, <2>1 DEF StackInv, PointersLive
<1> QED
  BY <1>2, <1>3

LEMMA StackEntry ==
  ASSUME StackInv, NEW i \in 1..Len(nodes)
  PROVE  /\ nodes[i] \in Pointer /\ nodes[i].live
         /\ nodes[i].path \in Seq(Keys)
         /\ Len(nodes[i].path) = i
         /\ i \in Nat /\ Len(nodes) \in Nat /\ i <= Len(nodes)
<1>1. Len(nodes) \in Nat /\ nodes[i] \in Pointer
  BY DEF StackInv
<1>2. nodes[i].live /\ Len(nodes[i].path) = i
  BY DEF StackInv, PointersLive
<1> QED
  BY <1>1, <1>2 DEF Pointer

(* A member is pushed on a stack whose values have stayed. *)
LEMMA StackPush ==
  ASSUME StackInv, NEW k \in Keys, NEW member,
         member = Append(NodeValue.path, k),
         DOMAIN doc' \subseteq Seq(Keys),
         {Root, member} \subseteq DOMAIN doc',
         \A i \in 1..Len(nodes) : nodes[i].path \in DOMAIN doc',
         current' = To(member),
         nodes' = Append(nodes, current'),
         empty' = FALSE
  PROVE  StackInv'
<1>1. member \in Seq(Keys) /\ Len(member) = Len(nodes) + 1
  BY StepStart DEF Pointer
<1>2. current' \in Pointer /\ current'.live /\ current'.path = member
  BY <1>1 DEF To, Pointer
<1>3. /\ nodes' \in Seq(Pointer)
      /\ Len(nodes') = Len(nodes) + 1
      /\ nodes'[Len(nodes')] = current'
      /\ \A i \in 1..Len(nodes) : nodes'[i] = nodes[i]
  BY <1>2 DEF StackInv
<1>4. \A i \in 1..Len(nodes') :
        /\ Len(nodes'[i].path) = i
        /\ nodes'[i].live
        /\ nodes'[i].path \in DOMAIN doc'
  <2> TAKE i \in 1..Len(nodes')
  <2>1. CASE i = Len(nodes')
    BY <1>1, <1>2, <1>3, <2>1
  <2>2. CASE i # Len(nodes')
    <3>1. i \in 1..Len(nodes)
      BY <1>3, <2>2 DEF StackInv
    <3> QED
      BY <1>3, <3>1, StepStart DEF StackInv, PointersLive
  <2> QED
    BY <2>1, <2>2
<1> QED
  BY <1>1, <1>2, <1>3, <1>4, StepStart DEF StackInv, PointersLive

LEMMA PutDomain ==
  ASSUME NEW d, NEW p, NEW v
  PROVE  /\ DOMAIN Put(d, p, v) = (DOMAIN d \ Below(d, p)) \cup {p}
         /\ Put(d, p, v)[p] = v
  BY DEF Put

(* A value is below another one only when its name is longer. *)
LEMMA NotBelow ==
  ASSUME NEW d, NEW p \in Seq(Keys), NEW q \in Seq(Keys), Len(q) < Len(p) \/ q = p
  PROVE  q \notin Below(d, p)
  BY DEF Below, IsStrictPrefix, IsPrefix

LEMMA RootNotBelow ==
  ASSUME NEW d, NEW p \in Seq(Keys)
  PROVE  Root \notin Below(d, p)
<1>1. Root \in Seq(Keys) /\ Len(Root) = 0
  BY DEF Root
<1>2. Len(p) > 0 \/ p = Root
  BY EmptySeq DEF Root
<1> QED
  BY <1>1, <1>2, NotBelow

LEMMA StackFind ==
  ASSUME StackInv, NEW k \in Keys, FindMember(k)
  PROVE  StackInv'
<1> DEFINE member == Append(NodeValue.path, k)
<1>1. /\ doc' = Opened /\ member \in DOMAIN Opened
      /\ current' = To(member) /\ nodes' = Append(nodes, current')
      /\ empty' = FALSE
  BY DEF FindMember, Subscript
<1> HIDE DEF member
<1> QED
  BY <1>1, StepStart, StackPush DEF member

(* The members AddMember may move are none of those on the stack. *)
LEMMA AddPushes ==
  ASSUME StackInv, NEW k \in Keys, AddMember(k)
  PROVE  nodes' = Append(nodes, current')
<1> DEFINE at == NodeValue.path
<1>1. PICK moved \in BOOLEAN :
        nodes' = Append([i \in 1..Len(nodes) |->
                           IF moved THEN AfterMove(nodes[i], at) ELSE nodes[i]],
                        current')
  BY DEF AddMember
<1>2. ASSUME NEW i \in 1..Len(nodes)
      PROVE  AfterMove(nodes[i], at) = nodes[i]
  <2>1. ~(Len(nodes[i].path) = Len(at) + 1)
    BY StackEntry, StepStart
  <2> QED
    BY <2>1, StackEntry DEF AfterMove, Pointer
<1>3. [i \in 1..Len(nodes) |-> IF moved THEN AfterMove(nodes[i], at) ELSE nodes[i]]
        = [i \in 1..Len(nodes) |-> nodes[i]]
  BY <1>2
<1>4. [i \in 1..Len(nodes) |-> nodes[i]] = nodes
  BY DEF StackInv
<1> QED
  BY <1>1, <1>3, <1>4

LEMMA StackAdd ==
  ASSUME StackInv, NEW k \in Keys, AddMember(k)
  PROVE  StackInv'
<1> DEFINE at == NodeValue.path
           member == Append(at, k)
<1>1. /\ doc' = Put(Opened, member, Null)
      /\ current' = To(member)
      /\ empty' = FALSE
  BY DEF AddMember, Subscript
<1>2. at \in Seq(Keys) /\ member \in Seq(Keys) /\ Len(member) = Len(nodes) + 1
  BY StepStart DEF Pointer
<1>3. nodes' = Append(nodes, current')
  BY AddPushes
<1>4. DOMAIN doc' = (DOMAIN Opened \ Below(Opened, member)) \cup {member}
  BY <1>1, PutDomain
<1>5. Root \in DOMAIN doc'
  BY <1>2, <1>4, StepStart, RootNotBelow
<1>6. ASSUME NEW i \in 1..Len(nodes) PROVE nodes[i].path \in DOMAIN doc'
  <2>1. nodes[i].path \in Seq(Keys) /\ Len(nodes[i].path) < Len(member)
    BY <1>2, StackEntry
  <2> QED
    BY <1>2, <1>4, <2>1, StepStart, NotBelow
<1>7. DOMAIN doc' \subseteq Seq(Keys)
  BY <1>2, <1>4, StepStart
<1> HIDE DEF member, at
<1> QED
  BY <1>1, <1>3, <1>4, <1>5, <1>6, <1>7, StackPush DEF member, at

(* Every assignment that writes through current_value_, or refuses to. *)
LEMMA StackStatement ==
  ASSUME StackInv, NEW base, NEW v,
         base = Opened \/ base = doc,
         Statement(v),
         WriteCurrent(base, v) \/ (doc' = base /\ current' = current),
         empty' = FALSE \/ (empty' = empty /\ (empty => doc' = EmptyDocument))
  PROVE  StackInv'
<1>1. nodes' = << >>
  BY DEF Statement
<1>2. base = doc
  BY DEF StackInv, Opened
<1>3. /\ DOMAIN doc \subseteq Seq(Keys) /\ Root \in DOMAIN doc
      /\ current \in Pointer /\ current.path \in Seq(Keys)
      /\ current.path \in DOMAIN doc /\ current.live
      /\ empty => current = To(Root)
  BY DEF StackInv, PointersLive, Pointer
<1>4. /\ DOMAIN doc' \subseteq Seq(Keys)
      /\ Root \in DOMAIN doc' /\ current.path \in DOMAIN doc'
      /\ current' = current
  <2>1. CASE WriteCurrent(base, v)
    <3>1. DOMAIN doc' = (DOMAIN doc \ Below(doc, current.path)) \cup {current.path}
      BY <1>2, <2>1, PutDomain DEF WriteCurrent
    <3>2. current' = current
      BY <1>3, <2>1 DEF WriteCurrent, AfterReplace, IsStrictPrefix, Pointer
    <3> QED
      BY <1>3, <3>1, <3>2, RootNotBelow
  <2>2. CASE doc' = base /\ current' = current
    BY <1>2, <1>3, <2>2
  <2> QED
    BY <2>1, <2>2
<1> QED
  BY <1>1, <1>3, <1>4 DEF StackInv, PointersLive

LEMMA StackCreate ==
  ASSUME StackInv, CreateJsonObject
  PROVE  StackInv'
<1>1. Statement(Object) /\ empty' = empty
  BY DEF CreateJsonObject
<1>2. WriteCurrent(doc, Object) \/ (doc' = doc /\ current' = current)
  BY DEF CreateJsonObject
<1>3. empty => doc' = EmptyDocument
  <2> SUFFICES ASSUME empty PROVE doc' = EmptyDocument
    OBVIOUS
  <2>1. doc = EmptyDocument /\ current.path = Root
    BY DEF StackInv, To
  <2>2. Put(EmptyDocument, Root, Object) = EmptyDocument
    <3>1. Below(EmptyDocument, Root) = {}
      BY DEF Below, EmptyDocument, IsStrictPrefix
    <3> QED
      BY <3>1 DEF Put, EmptyDocument
  <2> QED
    BY <1>2, <2>1, <2>2 DEF WriteCurrent
<1> QED
  BY <1>1, <1>2, <1>3, StackStatement

LEMMA StackAssign ==
  ASSUME StackInv, NEW v \in Scalar,
         AssignTyped(v) \/ AssignUntyped(v) \/ RefuseType(v)
  PROVE  StackInv'
<1>1. /\ Statement(v) /\ empty' = FALSE
      /\ WriteCurrent(Opened, v) \/ (doc' = Opened /\ current' = current)
  BY DEF AssignTyped, AssignUntyped, RefuseType
<1> QED
  BY <1>1, StackStatement

(* The value a builder is assigned to is on the stack, and last. *)
LEMMA BuilderKeepsStack ==
  ASSUME StackInv, NEW other \in Others, AssignBuilder(other)
  PROVE  /\ \A i \in 1..Len(nodes) : ~IsStrictPrefix(NodeValue.path, nodes[i].path)
         /\ nodes' = nodes
<1> DEFINE at == NodeValue.path
<1>1. nodes' = [i \in 1..Len(nodes) |-> AfterReplace(nodes[i], at)]
  BY DEF AssignBuilder
<1>2. at \in Seq(Keys) /\ at \in DOMAIN Opened /\ Len(at) = Len(nodes)
  BY StepStart
<1>3. ASSUME NEW i \in 1..Len(nodes)
      PROVE  ~IsStrictPrefix(at, nodes[i].path)
  <2>1. CASE i = Len(nodes)
    BY <2>1 DEF IsStrictPrefix, NodeValue, Last
  <2>2. CASE i # Len(nodes)
    BY <1>2, <2>2, StackEntry DEF IsStrictPrefix, IsPrefix
  <2> QED
    BY <2>1, <2>2
<1>4. nodes' = nodes
  <2>1. ASSUME NEW i \in 1..Len(nodes)
        PROVE  AfterReplace(nodes[i], at) = nodes[i]
    BY <1>3, StackEntry DEF AfterReplace, Pointer
  <2>2. [i \in 1..Len(nodes) |-> AfterReplace(nodes[i], at)]
          = [i \in 1..Len(nodes) |-> nodes[i]]
    BY <2>1
  <2> QED
    BY <1>1, <2>2 DEF StackInv
<1> QED
  BY <1>3, <1>4

LEMMA StackAssignBuilder ==
  ASSUME StackInv, NEW other \in Others, AssignBuilder(other)
  PROVE  StackInv'
<1> DEFINE at == NodeValue.path
<1>1. /\ doc' = Graft(Opened, at, other)
      /\ current' = NodeValue
      /\ nodes' = [i \in 1..Len(nodes) |-> AfterReplace(nodes[i], at)]
      /\ empty' = FALSE
  BY DEF AssignBuilder
<1>2. at \in Seq(Keys) /\ at \in DOMAIN Opened /\ Len(at) = Len(nodes)
  BY StepStart
<1>3. \A i \in 1..Len(nodes) : ~IsStrictPrefix(at, nodes[i].path)
  BY BuilderKeepsStack
<1>4. nodes' = nodes
  BY BuilderKeepsStack
<1>5. DOMAIN doc' = (DOMAIN Opened \ Below(Opened, at)) \cup {at \o s : s \in DOMAIN other}
  BY <1>1 DEF Graft
<1>6. DOMAIN other \subseteq Seq(Keys) /\ Root \in DOMAIN other
  BY OthersAssumption DEF IsTree
<1>7. DOMAIN doc' \subseteq Seq(Keys)
  <2>1. \A s \in DOMAIN other : at \o s \in Seq(Keys)
    BY <1>2, <1>6, ConcatProperties
  <2> QED
    BY <1>5, <2>1, StepStart
<1>8. at \in DOMAIN doc'
  <2>1. at \o Root = at
    BY <1>2 DEF Root
  <2> QED
    BY <1>5, <1>6, <2>1
<1>9. Root \in DOMAIN doc'
  BY <1>2, <1>5, StepStart, RootNotBelow
<1>10. ASSUME NEW i \in 1..Len(nodes) PROVE nodes[i].path \in DOMAIN doc'
  BY <1>3, <1>5, StepStart DEF Below
<1>11. nodes # << >> => NodeValue = nodes[Len(nodes)]
  BY DEF NodeValue, Last
<1> HIDE DEF at
<1> QED
  BY <1>1, <1>4, <1>7, <1>8, <1>9, <1>10, <1>11, StepStart, StackEntry
  DEF StackInv, PointersLive, at

LEMMA StackStep == StackInv /\ [Next]_vars => StackInv'
<1> SUFFICES ASSUME StackInv, [Next]_vars PROVE StackInv'
  OBVIOUS
<1>1. ASSUME NEW k \in Keys, FailAssertion(k) PROVE StackInv'
  <2>1. /\ UNCHANGED <<nodes, current>>
        /\ doc' = Opened /\ doc = Opened
        /\ empty' = FALSE
    BY <1>1 DEF FailAssertion, Subscript, StackInv, Opened
  <2> QED
    BY <2>1 DEF StackInv, PointersLive
<1>2. CASE CopyBuilder
  BY <1>2 DEF CopyBuilder, StackInv, PointersLive, To, Root, Pointer
<1>3. CASE UNCHANGED <<doc, nodes, current, empty>>
  BY <1>3 DEF StackInv, PointersLive
<1> QED
  BY <1>1, <1>2, <1>3, StackFind, StackAdd, StackAssign, StackCreate,
     StackAssignBuilder DEF Next, LeaveExpression, Aborted, vars

-------------------------------------------------------------------------------
LEMMA StackInvariant == Spec => []StackInv
  BY StackInit, StackStep, PTL DEF Spec

(* Whatever the program does with the builder, and whenever RapidJSON      *)
(* moves members, value_nodes_ and current_value_ hold no pointer to what  *)
(* was moved or replaced.                                                  *)
THEOREM NoPointerDangles == Spec => []PointersLive
<1>1. StackInv => PointersLive
  BY DEF StackInv
<1> QED
  BY <1>1, StackInvariant, PTL
-------------------------------------------------------------------------------
LEMMA LastOfAppend ==
  ASSUME NEW S, NEW s \in Seq(S), NEW x \in S
  PROVE  Last(Append(s, x)) = x /\ Append(s, x) # << >>
  BY DEF Last

(* A subscript that finds or makes a member leaves it on top. *)
LEMMA MemberOnTop ==
  ASSUME StackInv, NEW k \in Keys, FindMember(k) \/ AddMember(k)
  PROVE  /\ nodes' = Append(nodes, To(Append(NodeValue.path, k)))
         /\ Last(nodes') = To(Append(NodeValue.path, k))
         /\ Last(nodes').path = Append(NodeValue.path, k)
<1> DEFINE member == Append(NodeValue.path, k)
<1>1. member \in Seq(Keys)
  BY StepStart DEF Pointer
<1> HIDE DEF member
<1>2. To(member) \in Pointer /\ To(member).path = member
  BY <1>1 DEF To, Pointer
<1>3. current' = To(member)
  BY DEF FindMember, AddMember, member
<1>4. nodes' = Append(nodes, To(member))
  <2>1. CASE FindMember(k)
    BY <1>3, <2>1 DEF FindMember
  <2>2. CASE AddMember(k)
    BY <1>3, <2>2, AddPushes
  <2> QED
    BY <2>1, <2>2
<1>5. nodes \in Seq(Pointer)
  BY DEF StackInv
<1>6. Last(nodes') = To(member)
  BY <1>2, <1>4, <1>5, LastOfAppend
<1> QED
  BY <1>2, <1>4, <1>6 DEF member

(* Every assignment but that of a builder clears the stack. *)
LEMMA StatementClears ==
  ASSUME NEW v,
         AssignTyped(v) \/ AssignUntyped(v) \/ RefuseType(v) \/ CreateJsonObject
  PROVE  nodes' = << >> /\ expr' = << >>
  BY DEF AssignTyped, AssignUntyped, RefuseType, CreateJsonObject, Statement

LEMMA CachedStep == StackInv /\ CachedTypeTrue /\ [Next]_vars => CachedTypeTrue'
<1> SUFFICES ASSUME StackInv, CachedTypeTrue, [Next]_vars PROVE CachedTypeTrue'
  OBVIOUS
<1>1. ASSUME NEW k \in Keys, FindMember(k) PROVE CachedTypeTrue'
  <2>1. Last(nodes').path = Append(NodeValue.path, k)
    BY <1>1, MemberOnTop
  <2>2. doc' = Opened /\ type' = Opened[Append(NodeValue.path, k)].type
    BY <1>1 DEF FindMember
  <2> QED
    BY <2>1, <2>2 DEF CachedTypeTrue
<1>2. ASSUME NEW k \in Keys, AddMember(k) PROVE CachedTypeTrue'
  <2>1. Last(nodes').path = Append(NodeValue.path, k)
    BY <1>2, MemberOnTop
  <2>2. doc' = Put(Opened, Append(NodeValue.path, k), Null) /\ type' = "unknown"
    BY <1>2 DEF AddMember
  <2>3. doc'[Append(NodeValue.path, k)].type = "null"
    <3> DEFINE member == Append(NodeValue.path, k)
    <3>1. doc' = Put(Opened, member, Null)
      BY <2>2
    <3> HIDE DEF member
    <3>2. doc'[member] = Null
      BY <3>1 DEF Put
    <3> QED
      BY <3>2 DEF Null, member
  <2> QED
    BY <2>1, <2>2, <2>3 DEF CachedTypeTrue
<1>3. ASSUME NEW k \in Keys, FailAssertion(k) PROVE CachedTypeTrue'
  BY <1>3 DEF FailAssertion, CachedTypeTrue
<1>4. ASSUME NEW v \in Scalar, AssignTyped(v) \/ AssignUntyped(v) \/ RefuseType(v)
      PROVE  CachedTypeTrue'
  BY <1>4, StatementClears DEF CachedTypeTrue
<1>5. CASE CreateJsonObject
  BY <1>5, StatementClears DEF CachedTypeTrue
<1>6. ASSUME NEW other \in Others, AssignBuilder(other) PROVE CachedTypeTrue'
  <2> DEFINE at == NodeValue.path
  <2>1. at \in Seq(Keys)
    BY StepStart
  <2>2. nodes' = nodes /\ (nodes # << >> => Last(nodes').path = at)
    BY <1>6, BuilderKeepsStack DEF NodeValue
  <2>3. Root \in DOMAIN other
    BY OthersAssumption DEF IsTree
  <2>4. at \in {at \o s : s \in DOMAIN other}
    BY <2>1, <2>3 DEF Root
  <2>5. IsPrefix(at, at) /\ SubSeq(at, Len(at) + 1, Len(at)) = Root
    BY <2>1 DEF IsPrefix, Root
  <2>6. doc'[at] = other[Root] /\ type' = other[Root].type
    BY <1>6, <2>4, <2>5 DEF AssignBuilder, Graft
  <2> QED
    BY <2>2, <2>6 DEF CachedTypeTrue
<1>7. CASE CopyBuilder
  BY <1>7 DEF CopyBuilder, CachedTypeTrue
<1>8. CASE UNCHANGED <<doc, nodes, type, failed>>
  BY <1>8 DEF CachedTypeTrue
<1> QED
  BY <1>1, <1>2, <1>3, <1>4, <1>5, <1>6, <1>7, <1>8
  DEF Next, LeaveExpression, Aborted, vars

(* The cached current_type_ is that of the value under the cursor, in any  *)
(* use of the builder, copies of builders included.                        *)
THEOREM CachedTypeIsTrue == Spec => []CachedTypeTrue
<1>1. Init => CachedTypeTrue
  BY DEF Init, CachedTypeTrue
<1> QED
  BY <1>1, CachedStep, StackInvariant, PTL DEF Spec
-------------------------------------------------------------------------------
(* Where the next operator[] looks is where the expression is. *)
CursorInv == expr \in Seq(Keys) /\ CursorAtExpression

LEMMA CursorStart ==
  ASSUME StackInv, CursorInv, ~failed
  PROVE  NodeValue.path = expr
<1>1. Len(nodes) = Len(expr) /\ Len(expr) \in Nat
  BY DEF CursorInv, CursorAtExpression
<1>2. CASE nodes = << >>
  <2>1. expr = << >>
    BY <1>1, <1>2 DEF CursorInv
  <2> QED
    BY <1>2, <2>1 DEF NodeValue, To, Root
<1>3. CASE nodes # << >>
  <2>1. NodeValue = nodes[Len(nodes)] /\ Len(nodes) \in 1..Len(nodes)
    BY <1>3 DEF NodeValue, Last, StackInv
  <2>2. NodeValue.path = SubSeq(expr, 1, Len(expr))
    BY <1>1, <2>1 DEF CursorInv, CursorAtExpression
  <2> QED
    BY <2>2 DEF CursorInv
<1> QED
  BY <1>2, <1>3

LEMMA CursorPush ==
  ASSUME StackInv, CursorInv, NEW k \in Keys, FindMember(k) \/ AddMember(k)
  PROVE  CursorInv'
<1>1. ~failed /\ expr' = Append(expr, k)
  BY DEF FindMember, AddMember, Subscript
<1>2. nodes' = Append(nodes, To(expr'))
  BY <1>1, MemberOnTop, CursorStart
<1>3. /\ nodes \in Seq(Pointer) /\ expr \in Seq(Keys) /\ Len(nodes) = Len(expr)
      /\ expr' \in Seq(Keys) /\ Len(expr') = Len(expr) + 1
      /\ To(expr') \in Pointer
  BY <1>1 DEF StackInv, CursorInv, CursorAtExpression, To, Pointer
<1>4. ASSUME NEW i \in 1..Len(nodes')
      PROVE  nodes'[i].path = SubSeq(expr', 1, i)
  <2>1. Len(nodes') = Len(nodes) + 1
    BY <1>2, <1>3
  <2>2. CASE i = Len(nodes')
    <3>1. nodes'[i].path = expr'
      BY <1>2, <1>3, <2>1, <2>2 DEF To
    <3> QED
      BY <1>3, <2>1, <2>2, <3>1
  <2>3. CASE i # Len(nodes')
    <3>1. i \in 1..Len(nodes) /\ nodes'[i] = nodes[i]
      BY <1>2, <1>3, <2>1, <2>3
    <3>2. SubSeq(expr', 1, i) = SubSeq(expr, 1, i)
      BY <1>1, <1>3, <3>1
    <3> QED
      BY <1>1, <3>1, <3>2 DEF CursorInv, CursorAtExpression
  <2> QED
    BY <2>2, <2>3
<1>5. Len(nodes') = Len(expr')
  BY <1>2, <1>3
<1> QED
  BY <1>3, <1>4, <1>5 DEF CursorInv, CursorAtExpression

LEMMA CursorStep ==
  ASSUME Uses = {}, StackInv, CursorInv, [Next]_vars
  PROVE  CursorInv'
<1>1. ASSUME NEW k \in Keys, FailAssertion(k) PROVE CursorInv'
  BY <1>1 DEF FailAssertion, Subscript, CursorInv, CursorAtExpression
<1>2. ASSUME nodes' = << >>, expr' = << >> PROVE CursorInv'
  BY <1>2 DEF CursorInv, CursorAtExpression
<1>3. ASSUME NEW v \in Scalar, AssignTyped(v) \/ AssignUntyped(v) \/ RefuseType(v)
      PROVE  CursorInv'
  BY <1>2, <1>3, StatementClears
<1>4. CASE CreateJsonObject
  BY <1>2, <1>4, StatementClears
<1>5. CASE UNCHANGED vars
  BY <1>5 DEF vars, CursorInv, CursorAtExpression
<1> QED
  BY <1>1, <1>3, <1>4, <1>5, CursorPush
  DEF Next, AssignBuilder, CopyBuilder, LeaveExpression, Aborted

(* In a program of full expressions, the stack is what the expression      *)
(* names, so each assignment writes the place its own keys name, however   *)
(* deep it is and whatever was assigned before.                            *)
THEOREM CursorFollowsExpression ==
  ASSUME Uses = {}
  PROVE  Spec => []CursorAtExpression
<1>1. Init => CursorInv
  BY DEF Init, CursorInv, CursorAtExpression
<1>2. StackInv /\ CursorInv /\ [Next]_vars => CursorInv'
  BY CursorStep
<1>3. CursorInv => CursorAtExpression
  BY DEF CursorInv
<1> QED
  BY <1>1, <1>2, <1>3, StackInvariant, PTL DEF Spec
-------------------------------------------------------------------------------
(* Towards JsonDocument. *)

(* The values on the way to any value are objects of the document. *)
TreeInv ==
  /\ \A p \in DOMAIN doc : doc[p] \in Value
  /\ \A p \in DOMAIN doc : \A i \in 0..(Len(p) - 1) :
       SubSeq(p, 1, i) \in DOMAIN doc /\ doc[SubSeq(p, 1, i)].type = "object"

FieldInv ==
  /\ type \in {"unknown", "null", "object"} \cup ScalarType
  /\ empty \in BOOLEAN
  /\ failed \in BOOLEAN
  /\ said \in Value

(* A null is what the expression names, and nothing that was found. *)
NullInv ==
  /\ NullOnlyAtCursor
  /\ nodes # << >> /\ ~failed => type # "null"

BuilderInv ==
  StackInv /\ CursorInv /\ CachedTypeTrue /\ TreeInv /\ FieldInv /\ NullInv

LEMMA ValueTypes ==
  /\ Scalar \subseteq Value /\ Object \in Value /\ Null \in Value
  /\ \A v \in Scalar : v.type \in ScalarType
  /\ Object.type = "object" /\ Null.type = "null"
  /\ \A v \in Value : v.type = "null" => v = Null
BY DEF Value, Scalar, ScalarType, Object, Null

LEMMA BuilderInit == Init => BuilderInv
<1> SUFFICES ASSUME Init PROVE BuilderInv
  OBVIOUS
<1>1. DOMAIN doc = {Root} /\ doc[Root] = Object /\ Len(Root) = 0
  BY DEF Init, EmptyDocument, Root
<1>2. TreeInv
  BY <1>1, ValueTypes DEF TreeInv
<1>3. NullInv
  BY <1>1, ValueTypes DEF NullInv, NullOnlyAtCursor, Init
<1>4. CursorInv /\ CachedTypeTrue
  BY DEF Init, CursorInv, CursorAtExpression, CachedTypeTrue
<1>5. FieldInv
  BY ValueTypes DEF Init, FieldInv
<1> QED
  BY <1>2, <1>3, <1>4, <1>5, StackInit DEF BuilderInv

-------------------------------------------------------------------------------
(* What has nothing below it, and what a value put there leaves alone. *)

LEMMA BelowObject ==
  ASSUME StackInv, TreeInv, NEW p \in Seq(Keys), NEW q \in Below(doc, p)
  PROVE  p \in DOMAIN doc /\ doc[p].type = "object"
<1>1. /\ q \in DOMAIN doc /\ q \in Seq(Keys) /\ p # q
      /\ Len(p) <= Len(q)
      /\ SubSeq(p, 1, Len(p)) = SubSeq(q, 1, Len(p))
  BY DEF StackInv, Below, IsStrictPrefix, IsPrefix
<1>2. p = SubSeq(q, 1, Len(p))
  BY <1>1, SubSeqFull
<1>3. Len(p) # Len(q)
  BY <1>1, <1>2, SubSeqFull
<1>4. Len(p) \in 0..(Len(q) - 1)
  BY <1>1, <1>3
<1> QED
  BY <1>1, <1>2, <1>4 DEF TreeInv

(* A leaf of the document, or a new member of an object of it. *)
IsPlace(p) ==
  /\ p \in Seq(Keys)
  /\ \/ p \in DOMAIN doc /\ doc[p].type # "object"
     \/ /\ p \notin DOMAIN doc
        /\ \E at \in DOMAIN doc, k \in Keys :
             p = Append(at, k) /\ doc[at].type = "object"

LEMMA PutPlace ==
  ASSUME StackInv, TreeInv, NEW p, IsPlace(p), NEW v
  PROVE  Put(doc, p, v) = [q \in DOMAIN doc \cup {p} |-> IF q = p THEN v ELSE doc[q]]
<1>1. Below(doc, p) = {}
  BY BelowObject DEF IsPlace
<1> QED
  BY <1>1 DEF Put

LEMMA PutKeepsTree ==
  ASSUME StackInv, TreeInv, NEW p, IsPlace(p), NEW v \in Value, doc' = Put(doc, p, v)
  PROVE  TreeInv'
<1> DEFINE new == Put(doc, p, v)
<1>2. /\ DOMAIN new = DOMAIN doc \cup {p}
      /\ new[p] = v
      /\ \A q \in DOMAIN doc : q # p => new[q] = doc[q]
  BY PutPlace
<1> HIDE DEF new
<1>3. ASSUME NEW q \in DOMAIN doc, doc[q].type = "object"
      PROVE  q \in DOMAIN new /\ new[q].type = "object"
  BY <1>2, <1>3 DEF IsPlace
<1>4. ASSUME NEW q \in DOMAIN new, NEW i \in 0..(Len(q) - 1)
      PROVE  SubSeq(q, 1, i) \in DOMAIN new /\ new[SubSeq(q, 1, i)].type = "object"
  <2>1. CASE q \in DOMAIN doc
    BY <1>3, <2>1 DEF TreeInv
  <2>2. CASE q \notin DOMAIN doc
    <3>1. PICK at \in DOMAIN doc, k \in Keys :
            q = Append(at, k) /\ doc[at].type = "object"
      BY <1>2, <2>2 DEF IsPlace
    <3>2. at \in Seq(Keys) /\ Len(q) = Len(at) + 1 /\ i \in 0..Len(at)
      BY <3>1 DEF StackInv
    <3>3. SubSeq(q, 1, i) = SubSeq(at, 1, i)
      BY <3>1, <3>2
    <3>4. CASE i = Len(at)
      BY <1>3, <3>1, <3>2, <3>3, <3>4, SubSeqFull
    <3>5. CASE i # Len(at)
      <4>1. i \in 0..(Len(at) - 1)
        BY <3>2, <3>5
      <4> QED
        BY <1>3, <3>3, <4>1 DEF TreeInv
    <3> QED
      BY <3>4, <3>5
  <2> QED
    BY <2>1, <2>2
<1>5. \A q \in DOMAIN new : new[q] \in Value
  BY <1>2 DEF TreeInv
<1>6. doc' = new
  BY DEF new
<1> QED
  BY <1>4, <1>5, <1>6 DEF TreeInv

-------------------------------------------------------------------------------
(* Each operation, by what it does to the place that the expression names. *)

Finds(k) ==
  /\ ~failed /\ failed' = failed
  /\ expr' = Append(expr, k) /\ said' = Null
  /\ expr \in DOMAIN doc /\ doc[expr].type = "object"
  /\ expr' \in DOMAIN doc
  /\ doc' = doc
  /\ nodes' # << >> /\ Last(nodes').path = expr' /\ type' = doc[expr'].type

Adds(k) ==
  /\ ~failed /\ failed' = failed
  /\ expr' = Append(expr, k) /\ said' = Null
  /\ expr \in DOMAIN doc /\ doc[expr].type = "object"
  /\ IsPlace(expr') /\ expr' \notin DOMAIN doc
  /\ doc' = Put(doc, expr', Null)
  /\ nodes' # << >> /\ Last(nodes').path = expr' /\ type' = "unknown"

Fails(k) ==
  /\ ~failed /\ failed' = TRUE
  /\ expr' = Append(expr, k) /\ said' = Null
  /\ expr \in DOMAIN doc /\ doc[expr].type # "object"
  /\ UNCHANGED <<doc, nodes, type>>

Ends(v) ==
  /\ ~failed /\ failed' = failed
  /\ expr # << >> /\ expr' = << >> /\ nodes' = << >>
  /\ said' = v /\ v \in Value
  /\ expr \in DOMAIN doc
  /\ nodes # << >> /\ Last(nodes).path = expr

(* The place is new, or keeps its type. *)
Puts(v) ==
  /\ Ends(v)
  /\ v.type # "null"
  /\ doc[expr].type # "object"
  /\ doc[expr].type \in {"null", v.type}
  /\ doc' = Put(doc, expr, v)
  /\ type' \in {type, v.type}

Refuses(v) ==
  /\ Ends(v)
  /\ doc[expr].type # "null"
  /\ v = Object \/ doc[expr].type # v.type
  /\ UNCHANGED <<doc, type>>

LEMMA SubscriptKinds ==
  ASSUME BuilderInv, NEW k \in Keys
  PROVE  /\ FindMember(k) => Finds(k)
         /\ AddMember(k) => Adds(k)
         /\ FailAssertion(k) => Fails(k)
<1> USE DEF BuilderInv
<1>1. Opened = doc
  BY DEF StackInv, Opened
<1>2. ~failed => NodeValue.path = expr /\ expr \in DOMAIN doc
  BY <1>1, CursorStart, StepStart
<1>3. ASSUME FindMember(k) \/ AddMember(k)
      PROVE  /\ nodes' # << >> /\ Last(nodes').path = Append(NodeValue.path, k)
             /\ Append(NodeValue.path, k) \in Seq(Keys)
  <2>1. nodes' = Append(nodes, To(Append(NodeValue.path, k)))
    BY <1>3, MemberOnTop
  <2>2. nodes \in Seq(Pointer) /\ NodeValue.path \in Seq(Keys)
    BY StepStart DEF StackInv
  <2>3. To(Append(NodeValue.path, k)) \in Pointer
    BY <2>2 DEF To, Pointer
  <2> QED
    BY <1>3, <2>1, <2>2, <2>3, MemberOnTop, LastOfAppend
<1>4. FindMember(k) => Finds(k)
  BY <1>1, <1>2, <1>3 DEF FindMember, Subscript, Finds
<1>5. AddMember(k) => Adds(k)
  BY <1>1, <1>2, <1>3 DEF AddMember, Subscript, Adds, IsPlace
<1>6. FailAssertion(k) => Fails(k)
  BY <1>1, <1>2 DEF FailAssertion, Subscript, Fails
<1> QED
  BY <1>4, <1>5, <1>6

(* The cached type against the place that is assigned to. *)
LEMMA AtCursor ==
  ASSUME BuilderInv, ~failed, expr # << >>
  PROVE  /\ nodes # << >> /\ Last(nodes).path = expr /\ current.path = expr
         /\ expr \in DOMAIN doc
         /\ type = "unknown" <=> doc[expr].type = "null"
         /\ type # "unknown" => type = doc[expr].type
<1> USE DEF BuilderInv
<1>1. Len(nodes) = Len(expr) /\ expr \in Seq(Keys) /\ Len(expr) # 0
  BY DEF CursorInv, CursorAtExpression
<1>2. nodes # << >>
  BY <1>1
<1>3. NodeValue = Last(nodes) /\ Last(nodes) = current
  BY <1>2 DEF NodeValue, Last, StackInv
<1>4. Last(nodes).path = expr
  BY <1>3, CursorStart
<1>5. expr \in DOMAIN doc
  BY <1>3, <1>4 DEF StackInv, PointersLive
<1>6. doc[expr] \in Value
  BY <1>5 DEF TreeInv
<1>7. doc[expr].type # "unknown"
  BY <1>6 DEF Value, Scalar, ScalarType, Object, Null
<1> QED
  BY <1>2, <1>3, <1>4, <1>5, <1>7 DEF CachedTypeTrue, NullInv

LEMMA AssignKinds ==
  ASSUME Uses = {}, BuilderInv
  PROVE  /\ \A v \in Scalar :
              /\ AssignTyped(v) \/ AssignUntyped(v) => Puts(v)
              /\ RefuseType(v) => Refuses(v)
         /\ CreateJsonObject => Puts(Object) \/ Refuses(Object)
<1>1. Opened = doc
  BY DEF BuilderInv, StackInv, Opened
<1>2. ASSUME NEW v \in Value, Statement(v) PROVE Ends(v) /\ ~failed /\ expr # << >>
  BY <1>2, AtCursor DEF Statement, Ends
<1>3. ASSUME NEW v \in Scalar, AssignTyped(v) \/ AssignUntyped(v) PROVE Puts(v)
  <2>1. /\ Statement(v) /\ type \in {"unknown", v.type}
        /\ doc' = Put(doc, current.path, v)
        /\ type' \in {type, v.type}
    BY <1>1, <1>3 DEF AssignTyped, AssignUntyped, WriteCurrent
  <2>2. v.type \notin {"object", "null", "unknown"} /\ v \in Value
    BY ValueTypes DEF ScalarType
  <2> QED
    BY <1>2, <2>1, <2>2, AtCursor DEF Puts
<1>4. ASSUME NEW v \in Scalar, RefuseType(v) PROVE Refuses(v)
  <2>1. Statement(v) /\ type \notin {"unknown", v.type} /\ doc' = doc /\ type' = type
    BY <1>1, <1>4 DEF RefuseType
  <2> QED
    BY <1>2, <2>1, AtCursor, ValueTypes DEF Refuses
<1>5. ASSUME CreateJsonObject PROVE Puts(Object) \/ Refuses(Object)
  <2>1. Statement(Object)
    BY <1>5 DEF CreateJsonObject
  <2>2. CASE type = "unknown"
    <3>1. doc' = Put(doc, current.path, Object) /\ type' = "object"
      BY <1>5, <2>2 DEF CreateJsonObject, WriteCurrent
    <3> QED
      BY <1>2, <2>1, <2>2, <3>1, AtCursor, ValueTypes DEF Puts
  <2>3. CASE type # "unknown"
    BY <1>2, <1>5, <2>1, <2>3, AtCursor, ValueTypes DEF CreateJsonObject, Refuses
  <2> QED
    BY <2>2, <2>3
<1> QED
  BY <1>3, <1>4, <1>5

(* There is nothing else that a program of full expressions does. *)
LEMMA StepKinds ==
  ASSUME Uses = {}, BuilderInv, [Next]_vars
  PROVE  \/ \E k \in Keys : Finds(k) \/ Adds(k) \/ Fails(k)
         \/ \E v \in Scalar \cup {Object} : Puts(v) \/ Refuses(v)
         \/ UNCHANGED vars
BY SubscriptKinds, AssignKinds
DEF Next, AssignBuilder, CopyBuilder, LeaveExpression, Aborted

-------------------------------------------------------------------------------
LEMMA PutsPlace ==
  ASSUME BuilderInv, NEW v, Puts(v)
  PROVE  IsPlace(expr) /\ v \in Value
BY DEF BuilderInv, StackInv, Puts, Ends, IsPlace

(* The document after a member was made, and after an assignment. *)
LEMMA AddsDocument ==
  ASSUME BuilderInv, NEW k \in Keys, Adds(k)
  PROVE  /\ DOMAIN doc' = DOMAIN doc \cup {expr'}
         /\ doc'[expr'].type = "null"
         /\ \A q \in DOMAIN doc : q # expr' => doc'[q] = doc[q]
         /\ expr' \notin DOMAIN doc
<1>1. IsPlace(expr') /\ expr' \notin DOMAIN doc /\ doc' = Put(doc, expr', Null)
  BY DEF Adds
<1>2. doc' = [q \in DOMAIN doc \cup {expr'} |-> IF q = expr' THEN Null ELSE doc[q]]
  BY <1>1, PutPlace DEF BuilderInv
<1> QED
  BY <1>1, <1>2, ValueTypes

LEMMA PutsDocument ==
  ASSUME BuilderInv, NEW v, Puts(v)
  PROVE  /\ DOMAIN doc' = DOMAIN doc \cup {expr}
         /\ doc'[expr] = v
         /\ \A q \in DOMAIN doc : q # expr => doc'[q] = doc[q]
         /\ v.type # "null"
<1>1. doc' = Put(doc, expr, v) /\ v.type # "null"
  BY DEF Puts
<1>2. doc' = [q \in DOMAIN doc \cup {expr} |-> IF q = expr THEN v ELSE doc[q]]
  BY <1>1, PutPlace, PutsPlace DEF BuilderInv
<1> QED
  BY <1>1, <1>2

LEMMA TreeStep ==
  ASSUME Uses = {}, BuilderInv, [Next]_vars
  PROVE  TreeInv'
<1>1. ASSUME NEW k \in Keys, Adds(k) PROVE TreeInv'
  BY <1>1, PutKeepsTree, ValueTypes DEF Adds, BuilderInv
<1>2. ASSUME NEW v, Puts(v) PROVE TreeInv'
  BY <1>2, PutKeepsTree, PutsPlace DEF Puts, BuilderInv
<1>3. CASE doc' = doc
  BY <1>3 DEF TreeInv, BuilderInv
<1> QED
  BY <1>1, <1>2, <1>3, StepKinds DEF Finds, Fails, Refuses, vars

LEMMA FieldStep ==
  ASSUME Uses = {}, BuilderInv, [Next]_vars
  PROVE  FieldInv'
<1> USE DEF BuilderInv, FieldInv
<1>1. empty' \in BOOLEAN
  BY DEF Next, FindMember, AddMember, FailAssertion, Subscript, AssignTyped,
         AssignUntyped, RefuseType, CreateJsonObject, AssignBuilder, CopyBuilder,
         LeaveExpression, Aborted, vars
<1>2. \A v \in Value : v.type \in {"null", "object"} \cup ScalarType
  BY DEF Value, Scalar, Object, Null
<1>3. ASSUME NEW k \in Keys, Finds(k) \/ Adds(k) \/ Fails(k) PROVE FieldInv'
  BY <1>1, <1>2, <1>3, ValueTypes DEF Finds, Adds, Fails, TreeInv
<1>4. ASSUME NEW v, Puts(v) \/ Refuses(v) PROVE FieldInv'
  BY <1>1, <1>2, <1>4 DEF Puts, Refuses, Ends
<1>5. CASE UNCHANGED vars
  BY <1>5 DEF vars
<1> QED
  BY <1>3, <1>4, <1>5, StepKinds

LEMMA NullStep ==
  ASSUME Uses = {}, BuilderInv, [Next]_vars
  PROVE  NullInv'
<1> USE DEF BuilderInv, NullInv, NullOnlyAtCursor
<1>1. ASSUME ~failed, doc[expr].type = "object", expr \in DOMAIN doc
      PROVE  \A p \in DOMAIN doc : doc[p].type # "null"
  <2>1. CASE expr = << >>
    <3>1. nodes = << >>
      BY <1>1, <2>1 DEF CursorInv, CursorAtExpression, StackInv
    <3> QED
      BY <3>1
  <2>2. CASE expr # << >>
    BY <1>1, <2>2, AtCursor
  <2> QED
    BY <2>1, <2>2
<1>2. ASSUME NEW k \in Keys, Finds(k) PROVE NullInv'
  BY <1>1, <1>2 DEF Finds
<1>3. ASSUME NEW k \in Keys, Adds(k) PROVE NullInv'
  BY <1>1, <1>3, AddsDocument DEF Adds
<1>4. ASSUME NEW k \in Keys, Fails(k) PROVE NullInv'
  BY <1>4 DEF Fails
<1>5. ASSUME NEW v, Puts(v) PROVE NullInv'
  BY <1>5, PutsDocument DEF Puts, Ends
<1>6. ASSUME NEW v, Refuses(v) PROVE NullInv'
  BY <1>6 DEF Refuses, Ends
<1>7. CASE UNCHANGED vars
  BY <1>7 DEF vars
<1> QED
  BY <1>2, <1>3, <1>4, <1>5, <1>6, <1>7, StepKinds

LEMMA BuilderStep == Uses = {} /\ BuilderInv /\ [Next]_vars => BuilderInv'
BY StackStep, CursorStep, CachedStep, TreeStep, FieldStep, NullStep DEF BuilderInv

LEMMA BuilderInvariant ==
  ASSUME Uses = {}
  PROVE  Spec => []BuilderInv
<1>1. BuilderInv /\ [Next]_vars => BuilderInv'
  BY BuilderStep
<1> QED
  BY <1>1, BuilderInit, PTL DEF Spec

-------------------------------------------------------------------------------
(* The fields have their types and the document is a tree of objects,      *)
(* however deep.                                                           *)
THEOREM BuilderTypeCorrect ==
  ASSUME Uses = {}
  PROVE  Spec => []TypeOK
<1>1. BuilderInv => TypeOK
  <2> SUFFICES ASSUME BuilderInv PROVE TypeOK
    OBVIOUS
  <2>1. ASSUME NEW p \in DOMAIN doc \ {Root}
        PROVE  Front(p) \in DOMAIN doc /\ doc[Front(p)].type = "object"
    <3>1. p \in Seq(Keys) /\ Len(p) - 1 \in 0..(Len(p) - 1)
      BY EmptySeq DEF BuilderInv, StackInv, Root
    <3> QED
      BY <3>1 DEF BuilderInv, TreeInv, Front
  <2> QED
    BY <2>1
    DEF BuilderInv, TypeOK, StackInv, CursorInv, TreeInv, FieldInv, IsTree
<1> QED
  BY <1>1, BuilderInvariant, PTL

(* No statement leaves a half-made member behind. *)
THEOREM NoHalfMadeMember ==
  ASSUME Uses = {}
  PROVE  Spec => []NullOnlyAtCursor
<1>1. BuilderInv => NullOnlyAtCursor
  BY DEF BuilderInv, NullInv
<1> QED
  BY <1>1, BuilderInvariant, PTL

(* A value keeps its type and its place, whatever is assigned later.       *)
THEOREM TypesAreKept ==
  ASSUME Uses = {}
  PROVE  Spec => TypesStay
<1> DEFINE Stay == \A p \in DOMAIN doc :
             doc[p].type # "null" => p \in DOMAIN doc' /\ doc'[p].type = doc[p].type
<1>1. BuilderInv /\ [Next]_vars => [Stay]_vars
  <2> SUFFICES ASSUME BuilderInv, [Next]_vars PROVE [Stay]_vars
    OBVIOUS
  <2>1. ASSUME NEW k \in Keys, Adds(k) PROVE Stay
    BY <2>1, AddsDocument
  <2>2. ASSUME NEW v, Puts(v) PROVE Stay
    BY <2>2, PutsDocument DEF Puts
  <2>3. CASE doc' = doc
    BY <2>3
  <2> QED
    BY <2>1, <2>2, <2>3, StepKinds DEF Finds, Fails, Refuses, vars
<1> QED
  BY <1>1, BuilderInvariant, PTL DEF Spec, TypesStay

-------------------------------------------------------------------------------
(* The refinement. *)

LEMMA BarDomain ==
  /\ DOMAIN contentBar = {p \in DOMAIN doc : doc[p].type # "null"}
  /\ \A p \in DOMAIN contentBar : contentBar[p] = doc[p]
BY DEF contentBar

LEMMA BarAdds ==
  ASSUME BuilderInv, NEW k \in Keys, Adds(k)
  PROVE  contentBar' = contentBar
BY AddsDocument DEF contentBar

(* An assignment puts the value among those that are there. *)
LEMMA BarPuts ==
  ASSUME BuilderInv, NEW v, Puts(v)
  PROVE  contentBar' = Document!Put(contentBar, expr, v)
<1>1. /\ DOMAIN doc' = DOMAIN doc \cup {expr}
      /\ doc'[expr] = v
      /\ \A q \in DOMAIN doc : q # expr => doc'[q] = doc[q]
      /\ v.type # "null"
  BY PutsDocument
<1>2. Document!Below(contentBar, expr) = {}
  <2>1. Below(doc, expr) = {}
    BY BelowObject, PutsPlace DEF BuilderInv, IsPlace, Puts
  <2> QED
    BY <2>1, BarDomain 
    DEF Document!Below, Document!IsStrictPrefix, Document!IsPrefix, Below,
        IsStrictPrefix, IsPrefix
<1>3. DOMAIN contentBar' = (DOMAIN contentBar \ {}) \cup {expr}
  BY <1>1, BarDomain DEF contentBar
<1>4. \A q \in DOMAIN contentBar' :
        contentBar'[q] = IF q = expr THEN v ELSE contentBar[q]
  BY <1>1, <1>3, BarDomain DEF contentBar
<1> QED
  BY <1>2, <1>3, <1>4 DEF Document!Put, contentBar

LEMMA DocumentStep ==
  ASSUME Uses = {}, BuilderInv, [Next]_vars
  PROVE  [Document!DocumentNext]_(Document!documentVars)
<1> USE DEF Document!DocumentNext, Document!documentVars
<1>1. Document!Null = Null /\ Document!Object = Object /\ Document!Scalar = Scalar
  BY DEF Document!Null, Null, Document!Object, Object, Document!Scalar, Scalar,
         Document!ScalarType, ScalarType
<1>2. expr \in DOMAIN contentBar <=> expr \in DOMAIN doc /\ doc[expr].type # "null"
  BY BarDomain
<1>3. Document!IsObject(expr) <=> expr \in DOMAIN doc /\ doc[expr].type = "object"
  BY BarDomain DEF Document!IsObject
<1>4. failed \in BOOLEAN
  BY DEF BuilderInv, FieldInv
<1>5. ASSUME NEW k \in Keys, Finds(k) PROVE Document!Name(k)
  <2>1. contentBar' = contentBar
    BY <1>5 DEF Finds, contentBar
  <2>2. failed' = FALSE /\ Document!IsObject(expr) = TRUE
    BY <1>3, <1>4, <1>5 DEF Finds, Document!IsObject
  <2> QED
    BY <1>1, <1>5, <2>1, <2>2 DEF Finds, Document!Name
<1>6. ASSUME NEW k \in Keys, Adds(k) PROVE Document!Name(k)
  <2>1. contentBar' = contentBar
    BY <1>6, BarAdds
  <2>2. failed' = FALSE /\ Document!IsObject(expr) = TRUE
    BY <1>3, <1>4, <1>6 DEF Adds, Document!IsObject
  <2> QED
    BY <1>1, <1>6, <2>1, <2>2 DEF Adds, Document!Name
<1>7. ASSUME NEW k \in Keys, Fails(k) PROVE Document!Name(k)
  <2>1. contentBar' = contentBar
    BY <1>7 DEF Fails, contentBar
  <2>2. failed' = TRUE /\ Document!IsObject(expr) = FALSE
    BY <1>3, <1>7 DEF Fails, Document!IsObject
  <2> QED
    BY <1>1, <1>7, <2>1, <2>2 DEF Fails, Document!Name
<1>8. ASSUME NEW v \in Scalar, Puts(v) PROVE Document!Write(v)
  <2>1. ~(expr \in DOMAIN contentBar /\ contentBar[expr].type # v.type)
    BY <1>2, <1>8, BarDomain DEF Puts
  <2> QED
    BY <1>8, <2>1, BarPuts DEF Puts, Ends, Document!Write
<1>9. ASSUME NEW v \in Scalar, Refuses(v) PROVE Document!Write(v)
  <2>1. expr \in DOMAIN contentBar /\ contentBar[expr].type # v.type
    BY <1>2, <1>9, BarDomain, ValueTypes DEF Refuses, Ends, Object, ScalarType
  <2>2. contentBar' = contentBar
    BY <1>9 DEF Refuses, contentBar
  <2> QED
    BY <1>9, <2>1, <2>2 DEF Refuses, Ends, Document!Write
<1>10. ASSUME Puts(Object) PROVE Document!MakeObject
  <2>1. expr \notin DOMAIN contentBar
    BY <1>2, <1>10, ValueTypes DEF Puts
  <2> QED
    BY <1>1, <1>10, <2>1, BarPuts DEF Puts, Ends, Document!MakeObject
<1>11. ASSUME Refuses(Object) PROVE Document!MakeObject
  <2>1. expr \in DOMAIN contentBar
    BY <1>2, <1>11 DEF Refuses, Ends
  <2>2. contentBar' = contentBar
    BY <1>11 DEF Refuses, contentBar
  <2> QED
    BY <1>1, <1>11, <2>1, <2>2 DEF Refuses, Ends, Document!MakeObject
<1>12. CASE UNCHANGED vars
  BY <1>12 DEF vars, contentBar
<1> QED
  BY <1>1, <1>5, <1>6, <1>7, <1>8, <1>9, <1>10, <1>11, <1>12, StepKinds

LEMMA DocumentStart == Init => Document!DocumentInit
<1> SUFFICES ASSUME Init PROVE Document!DocumentInit
  OBVIOUS
<1>1. contentBar = [p \in {Root} |-> Object]
  BY DEF Init, contentBar, EmptyDocument, Object
<1> QED
  BY <1>1
  DEF Init, Document!DocumentInit, Document!EmptyDocument, Document!Root, Root,
      Document!Object, Object, Document!Null, Null

(* ValueBuilder decides about each place as JsonDocument says: an          *)
(* expression and its assignment are a chain of names and one write, for   *)
(* every program of full expressions.                                      *)
THEOREM BuilderImplementsDocument ==
  ASSUME Uses = {}
  PROVE  Spec => ImplementsJsonDocument
<1>1. BuilderInv /\ [Next]_vars => [Document!DocumentNext]_(Document!documentVars)
  BY DocumentStep
<1> QED
  BY <1>1, DocumentStart, BuilderInvariant, PTL
  DEF Spec, ImplementsJsonDocument, Document!DocumentSpec
===============================================================================
