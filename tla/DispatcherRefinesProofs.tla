------------------------ MODULE DispatcherRefinesProofs ------------------------
(***************************************************************************)
(* Dispatcher implements RouteTable, for every set of patterns, requests   *)
(* and handlers: MatchRoute's walk ends at the one place the whole table   *)
(* has for the request, and a registration's many writes are one change of *)
(* the table.                                                              *)
(***************************************************************************)
EXTENDS DispatcherRefines, DispatcherProofs, SequenceTheorems,
        WellFoundedInduction

-------------------------------------------------------------------------------
(* Numbers and sequences. *)

(* The least number principle, for a set. *)
LEMMA LeastNatural ==
  ASSUME NEW T, T \subseteq Nat, T # {}
  PROVE  \E m \in T : \A k \in T : m <= k
<1> DEFINE R == OpToRel(<, Nat)
<1>1. \E m \in T : \A k \in T : <<k, m>> \notin R
  <2>1. IsWellFoundedOn(R, Nat)
    BY NatLessThanWellFounded
  <2> HIDE DEF R
  <2> QED
    BY <2>1, WFMin
<1>2. \A k, m \in Nat : k < m => <<k, m>> \in R
  BY DEF OpToRel
<1>3. PICK m \in T : \A k \in T : <<k, m>> \notin R
  BY <1>1
<1> HIDE DEF R
<1>4. ASSUME NEW k \in T PROVE m <= k
  <2>1. k \in Nat /\ m \in Nat /\ ~(k < m)
    BY <1>2, <1>3
  <2> QED
    BY <2>1
<1> QED
  BY <1>4

(* The first i keys on the way to node n. *)
LEMMA PrefixFacts ==
  ASSUME NEW n \in Seq(Text), NEW i \in 0..Len(n)
  PROVE  /\ SubSeq(n, 1, i) \in Seq(Text)
         /\ Len(SubSeq(n, 1, i)) = i
         /\ \A j \in 1..i : SubSeq(n, 1, i)[j] = n[j]
<1>1. \A j \in 1..i : n[j] \in Text
  BY ElementOfSeq
<1>2. i \in Int /\ 1 \in Int
  OBVIOUS
<1> QED
  BY <1>1, <1>2, SubSeqProperties

(* The longest prefix is the whole.                                         *)
LEMMA WholePrefix ==
  ASSUME NEW n \in Seq(Text)
  PROVE  SubSeq(n, 1, Len(n)) = n
BY SubSeqFull

(* A prefix of a prefix is a prefix.                                        *)
LEMMA PrefixOfPrefix ==
  ASSUME NEW n \in Seq(Text), NEW i \in 0..Len(n), NEW j \in 0..i
  PROVE  SubSeq(SubSeq(n, 1, i), 1, j) = SubSeq(n, 1, j)
<1>1. j \in 0..Len(n) /\ j \in 0..Len(SubSeq(n, 1, i)) /\ SubSeq(n, 1, i) \in Seq(Text)
  BY PrefixFacts
<1>2. \A k \in 1..j : SubSeq(SubSeq(n, 1, i), 1, j)[k] = SubSeq(n, 1, j)[k]
  BY <1>1, PrefixFacts
<1> QED
  BY <1>1, <1>2, PrefixFacts, SeqEqual

(* One key more. *)
LEMMA NextPrefix ==
  ASSUME NEW n \in Seq(Text), NEW i \in 1..Len(n)
  PROVE  Append(SubSeq(n, 1, i - 1), n[i]) = SubSeq(n, 1, i)
<1> DEFINE m == SubSeq(n, 1, i - 1)
<1>1. /\ i - 1 \in 0..Len(n) /\ i \in 0..Len(n) /\ n[i] \in Text
      /\ m \in Seq(Text) /\ Len(m) = i - 1 /\ \A j \in 1..(i - 1) : m[j] = n[j]
  BY PrefixFacts, ElementOfSeq
<1>2. /\ Append(m, n[i]) \in Seq(Text) /\ Len(Append(m, n[i])) = i
      /\ \A j \in 1..i : Append(m, n[i])[j] = n[j]
  BY <1>1, AppendProperties
<1> QED
  BY <1>1, <1>2, PrefixFacts, SeqEqual

(* A node lies above its child on the same way.                             *)
LEMMA PrefixOfChild ==
  ASSUME NEW n \in Seq(Text), NEW k \in Text, NEW i \in 0..Len(n)
  PROVE  SubSeq(Append(n, k), 1, i) = SubSeq(n, 1, i)
<1>1. /\ Append(n, k) \in Seq(Text) /\ Len(Append(n, k)) = Len(n) + 1
      /\ \A j \in 1..Len(n) : Append(n, k)[j] = n[j]
  BY AppendProperties
<1>2. i \in 0..Len(Append(n, k))
  BY <1>1
<1>3. \A j \in 1..i : SubSeq(Append(n, k), 1, i)[j] = SubSeq(n, 1, i)[j]
  BY <1>1, <1>2, PrefixFacts
<1> QED
  BY <1>2, <1>1, <1>3, PrefixFacts, SeqEqual

-------------------------------------------------------------------------------
(* How much of its way a registration has labelled. *)
LabelledTo(r) == IF rpc[r] = "label" THEN Len(rnode[r]) - 1 ELSE Len(rnode[r])

(* Every node hangs below all nodes on the way to it, only the nodes that  *)
(* parameters share are of that type, and what a registration has labelled *)
(* has the names of its pattern.                                           *)
ShapeInv ==
  /\ \A n \in DOMAIN tree : \A i \in 0..Len(n) : SubSeq(n, 1, i) \in DOMAIN tree
  /\ \A n \in DOMAIN tree :
       tree[n].type = "kParameter" => n # << >> /\ n[Len(n)] = Wild
  /\ \A r \in Registrars : Adding(r) =>
       \A i \in 1..LabelledTo(r) : rpath[r][i].var =>
         /\ tree[SubSeq(rnode[r], 1, i)].type = "kParameter"
         /\ tree[SubSeq(rnode[r], 1, i)].param_name = rpath[r][i].text

(* At each node on the way to n, MatchRoute's choice for p was the next    *)
(* one on this way.                                                        *)
Follows(p, n) ==
  \A i \in 1..Len(n) :
    IF HasStaticChild(tree, SubSeq(n, 1, i - 1), p[i]) THEN n[i] = p[i]
    ELSE n[i] = Wild /\ p[i] \in ParamTexts

NameAt(n, i) == tree[SubSeq(n, 1, i)].param_name

WildIn(n) == {i \in 1..Len(n) : n[i] = Wild}

(* params holds, for each name on the way to n, the part of p at the last  *)
(* parameter of this name.                                                 *)
Carries(p, n, params) ==
  /\ params = [x \in DOMAIN params |-> params[x]]
  /\ \A i \in WildIn(n) : NameAt(n, i) \in DOMAIN params
  /\ \A x \in DOMAIN params :
       \E i \in WildIn(n) : /\ NameAt(n, i) = x /\ params[x] = p[i]
                            /\ \A j \in WildIn(n) : NameAt(n, j) = x => j <= i

Walk(w) ==
  /\ Follows(wreq[w], wnode[w])
  /\ Carries(wreq[w], wnode[w], wparams[w])
  /\ wpc[w] = "invoke" =>
       /\ tree[wnode[w]].key \in DOMAIN routes
       /\ wroute[w] = routes[tree[wnode[w]].key]

WalkInv == \A w \in Workers : wpc[w] \in {"match", "invoke"} => Walk(w)

(* The invariant of DispatcherProofs with what is needed for the table. *)
TableWalkInv == Inv /\ ShapeInv /\ WalkInv

-------------------------------------------------------------------------------
(* What each step of AddRoute does to the tree. *)

(* The node a registration steps to. *)
ChildNode(r) == Append(rnode[r], NodeKey(RPart(r)))

(* What stepping to a child does to the tree, for the lemmas below.         *)
LEMMA ChildStep ==
  ASSUME TypeInv, NEW r \in Registrars, StepToChild(r)
  PROVE  /\ rnode[r] \in Seq(Text) /\ rnode[r] \in DOMAIN tree
         /\ NodeKey(RPart(r)) \in Text
         /\ rpc[r] = "child" /\ rpc'[r] = "label"
         /\ rnode'[r] = ChildNode(r)
         /\ \A s \in Registrars : s # r => rpc'[s] = rpc[s] /\ rnode'[s] = rnode[s]
         /\ UNCHANGED <<routes, rpath, rhandler, workerVars>>
         /\ DOMAIN tree' = DOMAIN tree \cup {ChildNode(r)}
         /\ \A m \in DOMAIN tree : tree'[m] = tree[m]
         /\ ChildNode(r) \notin DOMAIN tree => tree'[ChildNode(r)] = NewNode
<1> DEFINE n == rnode[r]
           k == NodeKey(RPart(r))
           c == ChildNode(r)
<1>1. /\ rpc[r] = "child" /\ rpath[r] \in Seq(Part) /\ Len(n) < Len(rpath[r])
      /\ n \in Seq(Text) /\ n \in DOMAIN tree
  BY TemplatesAssumption DEF StepToChild, TypeInv, TypeOK, RegistrarInv, Adding
<1>2. k \in Text
  BY <1>1, NodeKeyType DEF RPart
<1>3. /\ DOMAIN tree' = DOMAIN tree \cup {c}
      /\ \A m \in DOMAIN tree : tree'[m] = tree[m]
      /\ c \notin DOMAIN tree => tree'[c] = NewNode
  <2>1. CASE c \in DOMAIN tree
    BY <2>1 DEF GetOrCreateChild, StepToChild, ChildNode
  <2>2. CASE c \notin DOMAIN tree
    <3>1. tree' = Put(tree, c, NewNode)
      BY <2>2 DEF GetOrCreateChild, StepToChild, ChildNode
    <3> QED
      BY <2>2, <3>1 DEF Put
  <2> QED
    BY <2>1, <2>2
<1>4. /\ rpc'[r] = "label" /\ rnode'[r] = c
      /\ \A s \in Registrars : s # r => rpc'[s] = rpc[s] /\ rnode'[s] = rnode[s]
      /\ UNCHANGED <<routes, rpath, rhandler, workerVars>>
  BY DEF StepToChild, TypeInv, TypeOK, ChildNode
<1> QED
  BY <1>1, <1>2, <1>3, <1>4

(* What labelling a node does to the tree.                                  *)
LEMMA LabelStep ==
  ASSUME TypeInv, NEW r \in Registrars, LabelNode(r),
         NEW n, n = rnode[r], NEW part, part = rpath[r][Len(n)]
  PROVE  /\ n \in Seq(Text) /\ n \in DOMAIN tree /\ Len(n) > 0
         /\ rpath[r] \in ValidTemplates /\ Len(n) \in 1..Len(rpath[r])
         /\ part \in Part /\ NodeKey(part) = n[Len(n)]
         /\ LiesOn(n, rpath[r])
         /\ part.var <=> n[Len(n)] = Wild
         /\ rpc[r] = "label" /\ rpc'[r] \in {"child", "key"}
         /\ \A s \in Registrars : s # r => rpc'[s] = rpc[s]
         /\ UNCHANGED <<routes, rpath, rhandler, rnode, workerVars>>
         /\ DOMAIN tree' = DOMAIN tree
         /\ \A m \in DOMAIN tree : /\ m # n => tree'[m] = tree[m]
                                   /\ tree'[m].key = tree[m].key
         /\ (tree'[n].type = "kParameter") <=> part.var
         /\ part.var => tree'[n].param_name = part.text
<1>1. /\ rpc[r] = "label" /\ Adding(r)
      /\ rpath[r] \in Seq(Part) /\ rpath[r] \in Templates
      /\ rpath[r] \in ValidTemplates
      /\ n \in Seq(Text) /\ n \in DOMAIN tree /\ tree[n] \in Node
      /\ LiesOn(n, rpath[r]) /\ Len(n) > 0
  BY TemplatesAssumption DEF LabelNode, TypeInv, TypeOK, RegistrarInv, Adding
<1>2. /\ Len(n) \in 1..Len(rpath[r])
      /\ part \in Part /\ NodeKey(part) = n[Len(n)]
  BY <1>1 DEF LiesOn
<1>3. part.var <=> NodeKey(part) = Wild
  BY <1>1, <1>2, TemplatesAssumption DEF NodeKey
<1>4. /\ Label(tree[n], part).key = tree[n].key
      /\ (Label(tree[n], part).type = "kParameter") <=> (NodeKey(part) = Wild)
      /\ NodeKey(part) = Wild => Label(tree[n], part).param_name = part.text
  <2>1. NodeKey(part) = Wild => Label(tree[n], part).param_name = part.text
    BY <1>1 DEF Label, Node
  <2> QED
    BY <1>1, <1>2, <2>1, LabelFacts
<1>5. /\ DOMAIN tree' = DOMAIN tree
      /\ \A m \in DOMAIN tree : m # n => tree'[m] = tree[m]
      /\ tree'[n] = Label(tree[n], part)
  <2>1. tree' = Put(tree, n, Label(tree[n], part))
    BY DEF LabelNode
  <2> QED
    BY <1>1, <2>1 DEF Put
<1>6. /\ rpc'[r] \in {"child", "key"}
      /\ \A s \in Registrars : s # r => rpc'[s] = rpc[s]
      /\ UNCHANGED <<routes, rpath, rhandler, rnode, workerVars>>
  BY DEF LabelNode, TypeInv, TypeOK
<1> QED
  BY <1>1, <1>2, <1>3, <1>4, <1>5, <1>6

(* What writing the key and the handler does to the tree.                   *)
LEMMA EndStep ==
  ASSUME TypeInv, NEW r \in Registrars, SetKey(r) \/ SetHandler(r),
         NEW n, n = rnode[r]
  PROVE  /\ rpc[r] \in {"key", "handler"} /\ rpc'[r] \in {"handler", "emplace"}
         /\ n \in DOMAIN tree /\ n = Shape(rpath[r])
         /\ n \in Seq(Text) /\ rpath[r] \in ValidTemplates
         /\ \A s \in Registrars : s # r => rpc'[s] = rpc[s]
         /\ UNCHANGED <<routes, rpath, rhandler, rnode, workerVars>>
         /\ DOMAIN tree' = DOMAIN tree
         /\ \A m \in DOMAIN tree : /\ m # n => tree'[m] = tree[m]
                                   /\ tree'[m].type = tree[m].type
                                   /\ tree'[m].param_name = tree[m].param_name
         /\ tree'[n].key = IF rpc[r] = "key" THEN HashOf[rpath[r]] ELSE tree[n].key
<1>1. /\ rpc[r] \in {"key", "handler"} /\ n \in DOMAIN tree
      /\ LiesOn(n, rpath[r]) /\ Len(n) = Len(rpath[r])
      /\ n \in Seq(Text) /\ rpath[r] \in Seq(Part)
      /\ rpath[r] \in ValidTemplates /\ tree[n] \in Node
  BY TemplatesAssumption
     DEF SetKey, SetHandler, TypeInv, TypeOK, RegistrarInv, Adding
<1>2. n = Shape(rpath[r])
  BY <1>1, EndOfWay
<1>3. CASE SetKey(r)
  BY <1>1, <1>2, <1>3 DEF SetKey, TypeInv, TypeOK, Node
<1>4. CASE SetHandler(r)
  BY <1>1, <1>2, <1>4 DEF SetHandler, TypeInv, TypeOK, Node
<1> QED
  BY <1>3, <1>4

(* Steps outside AddRoute leave the tree's shape alone. *)
LEMMA ShapeKept ==
  ASSUME ShapeInv, UNCHANGED tree,
         \A s \in Registrars : Adding(s)' =>
           \/ /\ Adding(s)
              /\ rpc'[s] = rpc[s] /\ rpath'[s] = rpath[s] /\ rnode'[s] = rnode[s]
           \/ rnode'[s] = << >> /\ rpc'[s] = "child"
  PROVE  ShapeInv'
<1>1. ASSUME NEW s \in Registrars, Adding(s)', NEW i \in 1..LabelledTo(s)',
             rpath'[s][i].var
      PROVE  /\ tree[SubSeq(rnode'[s], 1, i)].type = "kParameter"
             /\ tree[SubSeq(rnode'[s], 1, i)].param_name = rpath'[s][i].text
  <2>1. CASE rnode'[s] = << >> /\ rpc'[s] = "child"
    BY <1>1, <2>1 DEF LabelledTo
  <2>2. CASE /\ Adding(s)
             /\ rpc'[s] = rpc[s] /\ rpath'[s] = rpath[s] /\ rnode'[s] = rnode[s]
    BY <1>1, <2>2 DEF LabelledTo, ShapeInv
  <2> QED
    BY <1>1, <2>1, <2>2
<1> QED
  BY <1>1 DEF ShapeInv

(* Nobody else is in AddRoute. *)
LEMMA OthersOutside ==
  ASSUME LockInv, NEW r \in Registrars, Adding(r), NEW s \in Registrars, s # r
  PROVE  rpc[s] \in {"idle", "lock"}
BY OneRegistration DEF Adding

LEMMA ChildKeepsShape ==
  ASSUME TypeInv, LockInv, ShapeInv, NEW r \in Registrars, StepToChild(r)
  PROVE  ShapeInv'
<1> DEFINE n == rnode[r]
           k == NodeKey(RPart(r))
           c == ChildNode(r)
<1>1. /\ n \in Seq(Text) /\ n \in DOMAIN tree /\ k \in Text
      /\ rpc[r] = "child" /\ rpc'[r] = "label" /\ rnode'[r] = c
      /\ \A s \in Registrars : s # r => rpc'[s] = rpc[s] /\ rnode'[s] = rnode[s]
      /\ rpath' = rpath
      /\ DOMAIN tree' = DOMAIN tree \cup {c}
      /\ \A m \in DOMAIN tree : tree'[m] = tree[m]
      /\ c \notin DOMAIN tree => tree'[c] = NewNode
  BY ChildStep
<1>2. /\ c \in Seq(Text) /\ Len(c) = Len(n) + 1
      /\ \A i \in 0..Len(n) : SubSeq(c, 1, i) = SubSeq(n, 1, i)
  BY <1>1, AppendProperties, PrefixOfChild DEF ChildNode
<1> HIDE DEF n, k, c
<1>3. ASSUME NEW m \in DOMAIN tree', NEW i \in 0..Len(m)
      PROVE  SubSeq(m, 1, i) \in DOMAIN tree'
  <2>1. CASE m \in DOMAIN tree
    BY <1>1, <1>3, <2>1 DEF ShapeInv
  <2>2. CASE m = c /\ i = Len(c)
    BY <1>1, <1>2, <2>2, WholePrefix
  <2>3. CASE m = c /\ i # Len(c)
    <3>1. i \in 0..Len(n)
      BY <1>1, <1>2, <1>3, <2>3
    <3> QED
      BY <1>1, <1>2, <2>3, <3>1 DEF ShapeInv
  <2> QED
    BY <1>1, <2>1, <2>2, <2>3
<1>4. ASSUME NEW m \in DOMAIN tree', tree'[m].type = "kParameter"
      PROVE  m # << >> /\ m[Len(m)] = Wild
  <2>1. NewNode.type # "kParameter"
    BY DEF NewNode
  <2>2. m \in DOMAIN tree
    BY <1>1, <1>4, <2>1
  <2> QED
    BY <1>1, <1>4, <2>2 DEF ShapeInv
<1>5. ASSUME NEW s \in Registrars, Adding(s)'
      PROVE  s = r
  BY <1>1, <1>5, OthersOutside DEF Adding
<1>6. ASSUME NEW i \in 1..LabelledTo(r)', rpath[r][i].var
      PROVE  /\ tree'[SubSeq(c, 1, i)].type = "kParameter"
             /\ tree'[SubSeq(c, 1, i)].param_name = rpath[r][i].text
  <2>1. i \in 1..Len(n) /\ i \in 0..Len(n)
    BY <1>1, <1>2, <1>6 DEF LabelledTo
  <2>2. i \in 1..LabelledTo(r) /\ Adding(r)
    BY <1>1, <2>1 DEF LabelledTo, Adding, n
  <2>3. SubSeq(n, 1, i) \in DOMAIN tree
    BY <1>1, <2>1 DEF ShapeInv
  <2>4. /\ tree[SubSeq(n, 1, i)].type = "kParameter"
        /\ tree[SubSeq(n, 1, i)].param_name = rpath[r][i].text
    BY <1>6, <2>2 DEF ShapeInv, n
  <2> QED
    BY <1>1, <1>2, <2>1, <2>3, <2>4
<1>7. \A s \in Registrars : Adding(s)' =>
        \A i \in 1..LabelledTo(s)' : rpath'[s][i].var =>
          /\ tree'[SubSeq(rnode'[s], 1, i)].type = "kParameter"
          /\ tree'[SubSeq(rnode'[s], 1, i)].param_name = rpath'[s][i].text
  BY <1>1, <1>5, <1>6
<1> QED
  BY <1>3, <1>4, <1>7 DEF ShapeInv

LEMMA LabelKeepsShape ==
  ASSUME TypeInv, LockInv, ShapeInv, NEW r \in Registrars, LabelNode(r)
  PROVE  ShapeInv'
<1> DEFINE n == rnode[r]
           part == rpath[r][Len(n)]
<1>1. /\ n \in Seq(Text) /\ n \in DOMAIN tree /\ Len(n) > 0
      /\ part.var <=> n[Len(n)] = Wild
      /\ rpc[r] = "label" /\ rpc'[r] \in {"child", "key"}
      /\ \A s \in Registrars : s # r => rpc'[s] = rpc[s]
      /\ UNCHANGED <<rpath, rnode>>
      /\ DOMAIN tree' = DOMAIN tree
      /\ \A m \in DOMAIN tree : m # n => tree'[m] = tree[m]
      /\ (tree'[n].type = "kParameter") <=> part.var
      /\ part.var => tree'[n].param_name = part.text
  BY LabelStep
<1>2. ASSUME NEW m \in DOMAIN tree, tree'[m].type = "kParameter"
      PROVE  m # << >> /\ m[Len(m)] = Wild
  <2>1. CASE m = n
    BY <1>1, <1>2, <2>1
  <2>2. CASE m # n
    BY <1>1, <1>2, <2>2 DEF ShapeInv
  <2> QED
    BY <2>1, <2>2
<1>3. ASSUME NEW s \in Registrars, Adding(s)'
      PROVE  s = r
  BY <1>1, <1>3, OthersOutside DEF Adding
<1>4. ASSUME NEW i \in 1..LabelledTo(r)', rpath[r][i].var
      PROVE  /\ tree'[SubSeq(n, 1, i)].type = "kParameter"
             /\ tree'[SubSeq(n, 1, i)].param_name = rpath[r][i].text
  <2>1. i \in 1..Len(n)
    BY <1>1, <1>4 DEF LabelledTo
  <2>2. CASE i = Len(n)
    BY <1>1, <1>4, <2>2, WholePrefix
  <2>3. CASE i # Len(n)
    <3>1. i \in 1..LabelledTo(r) /\ Adding(r) /\ i \in 0..Len(n)
      BY <1>1, <2>1, <2>3 DEF LabelledTo, Adding
    <3>2. SubSeq(n, 1, i) \in DOMAIN tree /\ SubSeq(n, 1, i) # n
      <4>1. Len(SubSeq(n, 1, i)) = i
        BY <1>1, <3>1, PrefixFacts
      <4> QED
        BY <1>1, <2>3, <3>1, <4>1 DEF ShapeInv
    <3>3. /\ tree[SubSeq(n, 1, i)].type = "kParameter"
          /\ tree[SubSeq(n, 1, i)].param_name = rpath[r][i].text
      BY <1>4, <3>1 DEF ShapeInv
    <3> QED
      BY <1>1, <3>2, <3>3
  <2> QED
    BY <2>2, <2>3
<1> QED
  BY <1>1, <1>2, <1>3, <1>4 DEF ShapeInv

LEMMA EndKeepsShape ==
  ASSUME TypeInv, LockInv, ShapeInv, NEW r \in Registrars,
         SetKey(r) \/ SetHandler(r)
  PROVE  ShapeInv'
<1>1. /\ rpc[r] \in {"key", "handler"} /\ rpc'[r] \in {"handler", "emplace"}
      /\ rnode[r] \in DOMAIN tree
      /\ \A s \in Registrars : s # r => rpc'[s] = rpc[s]
      /\ UNCHANGED <<rpath, rnode>>
      /\ DOMAIN tree' = DOMAIN tree
      /\ \A m \in DOMAIN tree : /\ tree'[m].type = tree[m].type
                                /\ tree'[m].param_name = tree[m].param_name
  BY EndStep
<1>2. ASSUME NEW s \in Registrars, Adding(s)', NEW i \in 1..LabelledTo(s)',
             rpath[s][i].var
      PROVE  /\ tree'[SubSeq(rnode[s], 1, i)].type = "kParameter"
             /\ tree'[SubSeq(rnode[s], 1, i)].param_name = rpath[s][i].text
  <2>1. s = r /\ Adding(r)
    BY <1>1, <1>2, OthersOutside DEF Adding
  <2>2. rnode[r] \in Seq(Text)
    BY DEF TypeInv, TypeOK
  <2>3. i \in 1..LabelledTo(r) /\ i \in 0..Len(rnode[r])
    BY <1>1, <1>2, <2>1, <2>2 DEF LabelledTo
  <2> QED
    BY <1>1, <1>2, <2>1, <2>3 DEF ShapeInv
<1> QED
  BY <1>1, <1>2 DEF ShapeInv

(* The shape of the tree survives every step.                               *)
LEMMA ShapeNext == TypeInv /\ LockInv /\ ShapeInv /\ [Next]_vars => ShapeInv'
<1> SUFFICES ASSUME TypeInv, LockInv, ShapeInv, [Next]_vars
             PROVE  ShapeInv'
  OBVIOUS
<1>1. CASE Start \/ UNCHANGED vars
  BY <1>1, ShapeKept DEF Start, vars, registrarVars, Adding
<1>2. ASSUME NEW r \in Registrars, NEW t \in Templates, NEW h \in Handlers,
             RegisterRouteHandler(r, t, h)
      PROVE  ShapeInv'
  BY <1>2, ShapeKept DEF RegisterRouteHandler, Adding, TypeInv, TypeOK
<1>3. ASSUME NEW r \in Registrars,
             LockDispatcher(r) \/ EnterAddRoute(r) \/ RejectRoute(r) \/ EmplaceRoute(r)
      PROVE  ShapeInv'
  BY <1>3, ShapeKept
     DEF LockDispatcher, EnterAddRoute, RejectRoute, EmplaceRoute, Adding, TypeInv, TypeOK
<1>4. ASSUME NEW r \in Registrars,
             StepToChild(r) \/ LabelNode(r) \/ SetKey(r) \/ SetHandler(r)
      PROVE  ShapeInv'
  BY <1>4, ChildKeepsShape, LabelKeepsShape, EndKeepsShape
<1>5. ASSUME NEW w \in Workers,
             WorkerStep(w) \/ \E p \in Requests : Receive(w, p)
      PROVE  ShapeInv'
  BY <1>5, RequestsOnlyRead, ShapeKept DEF registrarVars, Adding
<1> QED
  BY <1>1, <1>2, <1>3, <1>4, <1>5 DEF Next, RegistrarStep, Terminating

-------------------------------------------------------------------------------
(* MatchRoute's steps lengthen the walk. *)

(* MatchRoute's choice at a node is one more step of the way.               *)
LEMMA FollowsChild ==
  ASSUME NEW p \in Seq(Text), NEW n \in Seq(Text), NEW k \in Text,
         Follows(p, n),
         IF HasStaticChild(tree, n, p[Len(n) + 1]) THEN k = p[Len(n) + 1]
         ELSE k = Wild /\ p[Len(n) + 1] \in ParamTexts
  PROVE  Follows(p, Append(n, k))
<1> DEFINE c == Append(n, k)
<1>1. /\ c \in Seq(Text) /\ Len(c) = Len(n) + 1 /\ c[Len(n) + 1] = k
      /\ \A i \in 1..Len(n) : c[i] = n[i]
      /\ \A i \in 0..Len(n) : SubSeq(c, 1, i) = SubSeq(n, 1, i)
  BY AppendProperties, PrefixOfChild
<1> HIDE DEF c
<1>2. ASSUME NEW i \in 1..Len(c)
      PROVE  IF HasStaticChild(tree, SubSeq(c, 1, i - 1), p[i]) THEN c[i] = p[i]
             ELSE c[i] = Wild /\ p[i] \in ParamTexts
  <2>1. CASE i = Len(n) + 1
    <3>1. SubSeq(c, 1, i - 1) = n
      <4>1. i - 1 = Len(n) /\ Len(n) \in 0..Len(n)
        BY <2>1
      <4> QED
        BY <1>1, <4>1, WholePrefix
    <3> QED
      BY <1>1, <2>1, <3>1
  <2>2. CASE i # Len(n) + 1
    <3>1. i \in 1..Len(n) /\ i - 1 \in 0..Len(n)
      BY <1>1, <2>2
    <3> QED
      BY <1>1, <3>1 DEF Follows
  <2> QED
    BY <2>1, <2>2
<1> QED
  BY <1>2 DEF Follows, c

(* The names on the way to a child are those on the way to its parent. *)
LEMMA NamesAtChild ==
  ASSUME NEW n \in Seq(Text), NEW k \in Text
  PROVE  /\ \A i \in 1..Len(n) : NameAt(Append(n, k), i) = NameAt(n, i)
         /\ NameAt(Append(n, k), Len(n) + 1) = tree[Append(n, k)].param_name
         /\ WildIn(Append(n, k)) =
              IF k = Wild THEN WildIn(n) \cup {Len(n) + 1} ELSE WildIn(n)
<1> DEFINE c == Append(n, k)
<1>1. /\ c \in Seq(Text) /\ Len(c) = Len(n) + 1 /\ c[Len(n) + 1] = k
      /\ \A i \in 1..Len(n) : c[i] = n[i] /\ SubSeq(c, 1, i) = SubSeq(n, 1, i)
      /\ SubSeq(c, 1, Len(n) + 1) = c
  <2>1. c \in Seq(Text) /\ Len(c) = Len(n) + 1
    BY AppendProperties
  <2> QED
    BY <2>1, AppendProperties, PrefixOfChild, WholePrefix
<1> HIDE DEF c
<1>2. \A i \in 1..Len(n) : NameAt(c, i) = NameAt(n, i)
  BY <1>1 DEF NameAt
<1>3. NameAt(c, Len(n) + 1) = tree[c].param_name
  BY <1>1 DEF NameAt
<1>4. WildIn(c) = IF k = Wild THEN WildIn(n) \cup {Len(n) + 1} ELSE WildIn(n)
  <2>1. Len(n) \in Nat
    OBVIOUS
  <2>2. ASSUME NEW i
        PROVE  i \in WildIn(c) <=>
                 i \in WildIn(n) \/ (k = Wild /\ i = Len(n) + 1)
    BY <1>1, <2>1 DEF WildIn
  <2> QED
    BY <2>2
<1> QED
  BY <1>2, <1>3, <1>4 DEF c

(* A literal part changes nothing in the parameters.                        *)
LEMMA CarriesLiteral ==
  ASSUME NEW p, NEW n \in Seq(Text), NEW k \in Text, k # Wild,
         NEW params, Carries(p, n, params)
  PROVE  Carries(p, Append(n, k), params)
<1> DEFINE c == Append(n, k)
<1>1. /\ WildIn(c) = WildIn(n)
      /\ \A i \in WildIn(n) : NameAt(c, i) = NameAt(n, i)
  BY NamesAtChild DEF WildIn
<1> HIDE DEF c
<1> QED
  BY <1>1 DEF Carries, c

(* A parameter part overwrites the one of its name.                         *)
LEMMA CarriesParameter ==
  ASSUME NEW p, NEW n \in Seq(Text), NEW params, Carries(p, n, params),
         NEW name, name = tree[Append(n, Wild)].param_name
  PROVE  Carries(p, Append(n, Wild), Put(params, name, p[Len(n) + 1]))
<1> DEFINE c == Append(n, Wild)
           l == Len(n) + 1
           q == Put(params, name, p[l])
<1>1. /\ WildIn(c) = WildIn(n) \cup {l}
      /\ \A i \in WildIn(n) : NameAt(c, i) = NameAt(n, i)
      /\ NameAt(c, l) = name
  BY NamesAtChild, TextAssumption DEF WildIn
<1>2. l \in Nat /\ \A i \in WildIn(n) : i \in Nat /\ i < l
  BY DEF WildIn
<1>3. /\ DOMAIN q = DOMAIN params \cup {name} /\ q = [x \in DOMAIN q |-> q[x]]
      /\ q[name] = p[l] /\ \A x \in DOMAIN params : x # name => q[x] = params[x]
  BY DEF Put
<1> HIDE DEF c, l, q
<1>4. \A i \in WildIn(c) : NameAt(c, i) \in DOMAIN q
  BY <1>1, <1>3 DEF Carries
<1>5. ASSUME NEW x \in DOMAIN q
      PROVE  \E i \in WildIn(c) :
               /\ NameAt(c, i) = x /\ q[x] = p[i]
               /\ \A j \in WildIn(c) : NameAt(c, j) = x => j <= i
  <2>1. CASE x = name
    BY <1>1, <1>2, <1>3, <2>1
  <2>2. CASE x # name
    <3>1. x \in DOMAIN params
      BY <1>3, <2>2
    <3>2. PICK i \in WildIn(n) :
            /\ NameAt(n, i) = x /\ params[x] = p[i]
            /\ \A j \in WildIn(n) : NameAt(n, j) = x => j <= i
      BY <3>1 DEF Carries
    <3> QED
      BY <1>1, <1>3, <2>2, <3>1, <3>2
  <2> QED
    BY <2>1, <2>2
<1> QED
  BY <1>3, <1>4, <1>5 DEF Carries, c, q, l

(* A walk through a tree that does not change stays one. *)
LEMMA WalkedOn ==
  ASSUME UNCHANGED tree, NEW w \in Workers,
         NEW p, NEW n, NEW q, wreq'[w] = p, wnode'[w] = n, wparams'[w] = q,
         Follows(p, n), Carries(p, n, q)
  PROVE  Follows(wreq[w], wnode[w])' /\ Carries(wreq[w], wnode[w], wparams[w])'
<1>1. Follows(wreq[w], wnode[w])'
  BY DEF Follows
<1>2. \A i : i \in WildIn(wnode[w])' <=> i \in WildIn(n)
  BY DEF WildIn
<1>3. Carries(wreq[w], wnode[w], wparams[w])'
  <2>1. q = [x \in DOMAIN q |-> q[x]]
    BY DEF Carries
  <2>2. \A i \in WildIn(wnode[w])' : NameAt(wnode[w], i)' \in DOMAIN q
    BY <1>2 DEF Carries, NameAt
  <2>3. ASSUME NEW x \in DOMAIN q
        PROVE  \E i \in WildIn(wnode[w])' :
                 /\ NameAt(wnode[w], i)' = x /\ q[x] = p[i]
                 /\ \A j \in WildIn(wnode[w])' : NameAt(wnode[w], j)' = x => j <= i
    BY <1>2 DEF Carries, NameAt
  <2> QED
    BY <2>1, <2>2, <2>3 DEF Carries
<1> QED
  BY <1>1, <1>3

(* A step of one worker leaves the others' walks alone. *)
LEMMA OtherWalksKept ==
  ASSUME WalkInv, NEW w \in Workers, UNCHANGED <<tree, routes>>,
         \A v \in Workers : v # w =>
           /\ wpc'[v] = wpc[v]
           /\ wreq'[v] = wreq[v]
           /\ wnode'[v] = wnode[v]
           /\ wparams'[v] = wparams[v]
           /\ wroute'[v] = wroute[v],
         wpc'[w] \in {"match", "invoke"} => Walk(w)'
  PROVE  WalkInv'
<1> SUFFICES ASSUME NEW v \in Workers, v # w, wpc'[v] \in {"match", "invoke"}
             PROVE  Walk(v)'
  BY DEF WalkInv
<1>1. Walk(v)
  BY DEF WalkInv
<1>2. Follows(wreq[v], wnode[v])' /\ Carries(wreq[v], wnode[v], wparams[v])'
  BY <1>1, WalkedOn DEF Walk
<1> QED
  BY <1>1, <1>2 DEF Walk

(* A registration starts and runs while no request walks. *)
LEMMA WalksOutside ==
  ASSUME OneLoop, QuietInv, UNCHANGED workerVars, ~NoneRegisters
  PROVE  WalkInv'
BY LoopAlone DEF WalkInv, workerVars

LEMMA StaticKeepsWalks ==
  ASSUME TypeInv, TableInv, WorkerInv, WalkInv, NoneRegisters,
         NEW w \in Workers, MatchStatic(w)
  PROVE  WalkInv'
<1> DEFINE n == wnode[w]
           k == WText(w)
           c == Append(n, k)
<1>1. /\ wpc[w] = "match" /\ Walked(w) /\ Walk(w)
      /\ n \in Seq(Text) /\ wreq[w] \in Seq(Text)
      /\ k \in Text /\ k = wreq[w][Len(n) + 1]
      /\ HasStaticChild(tree, n, k)
  BY RequestType, WTextType
     DEF MatchStatic, Matching, WorkerInv, WalkInv, TypeInv, TypeOK, Walked, WText
<1>2. k # Wild
  BY <1>1, StaticIsLiteral
<1>3. /\ wnode'[w] = c
      /\ UNCHANGED <<tree, routes, wpc, wreq, wparams, wroute>>
      /\ \A v \in Workers : v # w => wnode'[v] = wnode[v]
  BY DEF MatchStatic, TypeInv, TypeOK
<1> HIDE DEF n, k
<1>4. Follows(wreq[w], c) /\ Carries(wreq[w], c, wparams[w])
  BY <1>1, <1>2, FollowsChild, CarriesLiteral DEF Walk, n
<1>5. Follows(wreq[w], wnode[w])' /\ Carries(wreq[w], wnode[w], wparams[w])'
  BY <1>3, <1>4, WalkedOn
<1>6. Walk(w)'
  BY <1>1, <1>3, <1>5 DEF Walk
<1> QED
  BY <1>3, <1>6, OtherWalksKept

LEMMA ParameterKeepsWalks ==
  ASSUME TypeInv, TableInv, WorkerInv, WalkInv, NEW w \in Workers, MatchParameter(w)
  PROVE  WalkInv'
<1> DEFINE n == wnode[w]
           k == WText(w)
           c == Append(n, Wild)
           q == Put(wparams[w], tree[c].param_name, k)
<1>1. /\ wpc[w] = "match" /\ Walked(w) /\ Walk(w)
      /\ n \in Seq(Text) /\ wreq[w] \in Seq(Text)
      /\ k = wreq[w][Len(n) + 1] /\ k \in ParamTexts
      /\ ~HasStaticChild(tree, n, k)
  BY RequestType
     DEF MatchParameter, Matching, WorkerInv, WalkInv, TypeInv, TypeOK, Walked, WText
<1>2. /\ wnode'[w] = c /\ wparams'[w] = q
      /\ UNCHANGED <<tree, routes, wpc, wreq, wroute>>
      /\ \A v \in Workers : v # w => wnode'[v] = wnode[v] /\ wparams'[v] = wparams[v]
  BY DEF MatchParameter, TypeInv, TypeOK
<1>3. Follows(wreq[w], c)
  <2>1. Wild \in Text
    BY TextAssumption
  <2> QED
    BY <1>1, <2>1, FollowsChild DEF Walk
<1>4. Carries(wreq[w], c, q)
  BY <1>1, CarriesParameter DEF Walk
<1> HIDE DEF n, k, c, q
<1>5. Follows(wreq[w], wnode[w])' /\ Carries(wreq[w], wnode[w], wparams[w])'
  BY <1>2, <1>3, <1>4, WalkedOn
<1>6. Walk(w)'
  BY <1>1, <1>2, <1>5 DEF Walk
<1> QED
  BY <1>2, <1>6, OtherWalksKept

(* A walk is right at each of its nodes.                                    *)
LEMMA WalkNext ==
  ASSUME OneLoop
  PROVE  Inv /\ WalkInv /\ [Next]_vars => WalkInv'
<1> SUFFICES ASSUME Inv, WalkInv, [Next]_vars
             PROVE  WalkInv'
  OBVIOUS
<1>0. TypeInv /\ TypeOK /\ TableInv /\ WorkerInv /\ QuietInv
  BY DEF Inv, TypeInv
<1>1. CASE Start
  <2>1. UNCHANGED <<tree, routes, workerVars>>
    BY <1>1 DEF Start
  <2> QED
    BY <2>1 DEF WalkInv, Walk, Follows, Carries, NameAt, WildIn, workerVars
<1>2. ASSUME NEW r \in Registrars, NEW t \in Templates, NEW h \in Handlers,
             RegisterRouteHandler(r, t, h)
      PROVE  WalkInv'
  <2>1. UNCHANGED <<tree, routes, workerVars>>
    BY <1>2 DEF RegisterRouteHandler
  <2> QED
    BY <2>1 DEF WalkInv, Walk, Follows, Carries, NameAt, WildIn, workerVars
<1>3. ASSUME NEW r \in Registrars, RegistrarStep(r)
      PROVE  WalkInv'
  BY <1>0, <1>3, RegistrarBusy, WalksOutside
<1>4. ASSUME NEW w \in Workers, NEW p \in Requests, Receive(w, p)
      PROVE  WalkInv'
  <2>1. /\ wreq'[w] = p /\ wnode'[w] = << >> /\ wparams'[w] = EmptyMap
        /\ wpc'[w] = "match"
        /\ UNCHANGED <<tree, routes>>
        /\ \A v \in Workers : v # w =>
             /\ wpc'[v] = wpc[v] /\ wreq'[v] = wreq[v] /\ wnode'[v] = wnode[v]
             /\ wparams'[v] = wparams[v] /\ wroute'[v] = wroute[v]
    BY <1>0, <1>4 DEF Receive, TypeInv, TypeOK
  <2>2. Follows(wreq[w], wnode[w])'
    BY <2>1 DEF Follows
  <2>3. Carries(wreq[w], wnode[w], wparams[w])'
    <3>1. EmptyMap = [x \in DOMAIN EmptyMap |-> EmptyMap[x]]
      BY DEF EmptyMap
    <3>2. WildIn(<< >>) = {}
      BY DEF WildIn
    <3> QED
      BY <2>1, <3>1, <3>2, EmptyMapFacts DEF Carries, WildIn
  <2>4. Walk(w)'
    BY <2>1, <2>2, <2>3 DEF Walk
  <2> QED
    BY <2>1, <2>4, OtherWalksKept
<1>5. ASSUME NEW w \in Workers, WorkerStep(w)
      PROVE  WalkInv'
  <2>1. NoneRegisters
    BY <1>0, <1>5, WorkerAlone
  <2>2. CASE MatchStatic(w) \/ MatchParameter(w)
    BY <1>0, <2>1, <2>2, StaticKeepsWalks, ParameterKeepsWalks
  <2>3. CASE LookUpRoute(w)
    <3>1. /\ wpc[w] = "match" /\ wpc'[w] = "invoke"
          /\ UNCHANGED <<tree, routes, wreq, wnode, wparams>>
          /\ wroute'[w] = routes[tree[wnode[w]].key]
          /\ tree[wnode[w]].key \in DOMAIN routes
          /\ \A v \in Workers : v # w => wpc'[v] = wpc[v] /\ wroute'[v] = wroute[v]
      BY <1>0, <2>3 DEF LookUpRoute, Matched, TypeInv, TypeOK
    <3>2. Follows(wreq[w], wnode[w])' /\ Carries(wreq[w], wnode[w], wparams[w])'
      BY <3>1, WalkedOn DEF WalkInv, Walk
    <3>3. Walk(w)'
      BY <3>1, <3>2 DEF Walk
    <3> QED
      BY <3>1, <3>3, OtherWalksKept
  <2>4. CASE MatchFails(w) \/ LookUpThrows(w) \/ Invoke(w) \/ ReturnToLoop(w)
    <3>1. /\ UNCHANGED <<tree, routes, wreq, wnode, wparams, wroute>>
          /\ wpc'[w] \notin {"match", "invoke"}
          /\ \A v \in Workers : v # w => wpc'[v] = wpc[v]
      BY <1>0, <2>4 DEF MatchFails, LookUpThrows, Invoke, ReturnToLoop, TypeInv, TypeOK
    <3> QED
      BY <3>1, OtherWalksKept
  <2> QED
    BY <1>5, <2>2, <2>3, <2>4 DEF WorkerStep
<1>6. CASE UNCHANGED vars
  BY <1>6 DEF vars, WalkInv, Walk, Follows, Carries, NameAt, WildIn, workerVars
<1> QED
  BY <1>1, <1>2, <1>3, <1>4, <1>5, <1>6 DEF Next, Terminating

(* The invariant of the refinement.                                         *)
LEMMA TableWalkInvHolds ==
  ASSUME OneLoop
  PROVE  Spec => []TableWalkInv
<1>1. Init => ShapeInv /\ WalkInv
  <2> SUFFICES ASSUME Init PROVE ShapeInv /\ WalkInv
    OBVIOUS
  <2>1. DOMAIN tree = {<< >>} /\ tree[<< >>] = NewNode
    BY EmptyMapFacts DEF Init, Put
  <2>2. \A n \in DOMAIN tree : \A i \in 0..Len(n) : SubSeq(n, 1, i) \in DOMAIN tree
    BY <2>1, WholePrefix
  <2>3. NewNode.type # "kParameter"
    BY DEF NewNode
  <2>4. ShapeInv
    BY <2>1, <2>2, <2>3 DEF Init, ShapeInv, Adding
  <2> QED
    BY <2>4 DEF Init, WalkInv
<1>2. Inv /\ ShapeInv /\ WalkInv /\ [Next]_vars => ShapeInv' /\ WalkInv'
  BY ShapeNext, WalkNext DEF Inv
<1>3. Spec => []Inv
  BY InvHolds
<1>4. Inv /\ ShapeInv /\ WalkInv <=> TableWalkInv
  BY DEF TableWalkInv
<1> QED
  BY <1>1, <1>2, <1>3, <1>4, PTL DEF Spec

-------------------------------------------------------------------------------
(* The tree as a table, when no registration is in progress. *)

(* MatchRoute has one way to go. *)
LEMMA OneWay ==
  ASSUME NEW p, NEW n \in Seq(Text), NEW m \in Seq(Text), Len(n) <= Len(m),
         Follows(p, n), Follows(p, m)
  PROVE  n = SubSeq(m, 1, Len(n))
<1>1. \A i \in 1..Len(n) : n[i] = m[i]
  <2> SUFFICES ASSUME NEW j \in 1..Len(n), n[j] # m[j] PROVE FALSE
    OBVIOUS
  <2> DEFINE T == {i \in 1..Len(n) : n[i] # m[i]}
  <2>1. T \subseteq Nat /\ T # {}
    OBVIOUS
  <2>2. PICK i \in T : \A k \in T : i <= k
    BY <2>1, LeastNatural
  <2>3. /\ i \in 1..Len(n) /\ i \in 1..Len(m) /\ n[i] # m[i]
        /\ i - 1 \in 0..Len(n) /\ i - 1 \in 0..Len(m)
        /\ \A k \in 1..(i - 1) : n[k] = m[k]
    BY <2>2
  <2>4. SubSeq(n, 1, i - 1) = SubSeq(m, 1, i - 1)
    BY <2>3, PrefixFacts, SeqEqual
  <2> QED
    BY <2>3, <2>4 DEF Follows
<1>2. Len(n) \in 0..Len(m)
  OBVIOUS
<1> QED
  BY <1>1, <1>2, PrefixFacts, SeqEqual

(* The pattern a node's key stands for. *)
LEMMA CurrentFacts ==
  ASSUME TypeInv, TableInv, NEW n \in DOMAIN tree, tree[n].key # 0
  PROVE  /\ n \in DOMAIN currentBar
         /\ currentBar[n] \in ValidTemplates
         /\ HashOf[currentBar[n]] = tree[n].key
         /\ Shape(currentBar[n]) = n
<1>1. PICK t \in ValidTemplates : HashOf[t] = tree[n].key /\ Shape(t) = n
  BY DEF TableInv, TreeAndRoutesAgree
<1>2. currentBar[n] = CHOOSE u \in ValidTemplates : HashOf[u] = tree[n].key
  BY DEF currentBar
<1>3. currentBar[n] \in ValidTemplates /\ HashOf[currentBar[n]] = tree[n].key
  BY <1>1, <1>2
<1>4. currentBar[n] = t
  BY <1>1, <1>3, HashAssumption, TemplatesAssumption
<1> QED
  BY <1>1, <1>3, <1>4 DEF currentBar

(* A way is a sequence of keys. *)
LEMMA WayIsSeq ==
  ASSUME TypeInv, NEW n \in Table!Ways
  PROVE  n \in Seq(Text)
<1>1. PICK s \in DOMAIN currentBar : n \in {SubSeq(s, 1, i) : i \in 0..Len(s)}
  BY DEF Table!Ways
<1>2. s \in Seq(Text)
  BY <1>1 DEF currentBar, TypeInv, TypeOK
<1>3. PICK i \in 0..Len(s) : n = SubSeq(s, 1, i)
  BY <1>1
<1> QED
  BY <1>2, <1>3, PrefixFacts

(* The nodes are the ways to the patterns in the table. *)
LEMMA WaysAreNodes ==
  ASSUME TypeInv, TableInv, ShapeInv, NoneRegisters, NEW n \in Seq(Text), n # << >>
  PROVE  n \in Table!Ways <=> n \in DOMAIN tree
<1>1. Table!Ways =
        UNION {{SubSeq(s, 1, i) : i \in 0..Len(s)} : s \in DOMAIN currentBar}
  BY DEF Table!Ways
<1>2. ASSUME n \in Table!Ways
      PROVE  n \in DOMAIN tree
  <2>1. PICK s \in DOMAIN currentBar : n \in {SubSeq(s, 1, i) : i \in 0..Len(s)}
    BY <1>1, <1>2
  <2>2. s \in DOMAIN tree
    BY <2>1 DEF currentBar
  <2> QED
    BY <2>1, <2>2 DEF ShapeInv
<1>3. ASSUME n \in DOMAIN tree
      PROVE  n \in Table!Ways
  <2>1. PICK t \in KnownTemplates : t \in ValidTemplates /\ LiesOn(n, t)
    BY <1>3 DEF TableInv, TreeWellFormed
  <2>2. PICK e \in log : e[1] = t
    BY <2>1 DEF KnownTemplates, NoneRegisters, Adding
  <2> DEFINE s == Shape(t)
  <2>3. s \in DOMAIN tree /\ tree[s].key # 0
    BY <2>2 DEF TableInv, TreeAndRoutesAgree
  <2>4. /\ s \in Seq(Text) /\ Len(s) = Len(t)
        /\ \A i \in 1..Len(t) : s[i] = NodeKey(t[i])
    <3>1. t \in Templates
      BY <2>1, TemplatesAssumption
    <3> QED
      BY <2>3, <3>1, ShapeFacts DEF TypeInv, TypeOK
  <2>5. s \in DOMAIN currentBar
    BY <2>3, CurrentFacts
  <2> HIDE DEF s
  <2>6. Len(n) \in 0..Len(s) /\ \A i \in 1..Len(n) : n[i] = s[i]
    BY <2>1, <2>4 DEF LiesOn
  <2>7. n = SubSeq(s, 1, Len(n))
    BY <2>4, <2>6, PrefixFacts, SeqEqual
  <2>8. n \in {SubSeq(s, 1, i) : i \in 0..Len(s)}
    BY <2>6, <2>7
  <2> QED
    BY <1>1, <2>5, <2>8
<1> QED
  BY <1>2, <1>3

(* The two kinds of children. *)
LEMMA ChildrenAreWays ==
  ASSUME TypeInv, TableInv, ShapeInv, NoneRegisters, NEW n \in Seq(Text), NEW k \in Text
  PROVE  /\ HasStaticChild(tree, n, k) <=> Append(n, k) \in Table!Ways /\ k # Wild
         /\ HasParameterChild(tree, n) <=> Append(n, Wild) \in DOMAIN tree
<1>1. ASSUME NEW x \in Text
      PROVE  /\ Append(n, x) \in Table!Ways <=> Append(n, x) \in DOMAIN tree
             /\ Append(n, x) \in DOMAIN tree =>
                  /\ tree[Append(n, x)].type \in NodeType
                  /\ (tree[Append(n, x)].type = "kParameter") <=> (x = Wild)
  <2> DEFINE c == Append(n, x)
  <2>1. c \in Seq(Text) /\ c # << >> /\ c[Len(c)] = x
    BY ParentOfChild
  <2>2. c \in DOMAIN tree => tree[c].type \in NodeType
    BY DEF TypeInv, TypeOK, Node
  <2>3. c \in DOMAIN tree => ((tree[c].type = "kParameter") <=> (c[Len(c)] = Wild))
    BY <2>1 DEF TableInv, TreeWellFormed, NoneRegisters
  <2> QED
    BY <2>1, <2>2, <2>3, WaysAreNodes
<1>2. HasStaticChild(tree, n, k) <=> Append(n, k) \in Table!Ways /\ k # Wild
  BY <1>1 DEF HasStaticChild, NodeType
<1>3. Wild \in Text
  BY TextAssumption
<1>4. HasParameterChild(tree, n) <=> Append(n, Wild) \in DOMAIN tree
  BY <1>1, <1>3 DEF HasParameterChild
<1> QED
  BY <1>2, <1>4

(* The way a request takes through the table is the walk of MatchRoute. *)
LEMMA TakesFollows ==
  ASSUME TypeInv, TableInv, ShapeInv, NoneRegisters,
         NEW p \in Seq(Text), NEW n \in Seq(Text), Len(n) = Len(p)
  PROVE  Table!Takes(p, n) <=> Follows(p, n)
<1>1. ASSUME NEW i \in 1..Len(p)
      PROVE  HasStaticChild(tree, SubSeq(n, 1, i - 1), p[i]) <=>
               Append(SubSeq(n, 1, i - 1), p[i]) \in Table!Ways /\ p[i] # Wild
  <2>1. i - 1 \in 0..Len(n) /\ p[i] \in Text
    BY ElementOfSeq
  <2> QED
    BY <2>1, PrefixFacts, ChildrenAreWays
<1> QED
  BY <1>1 DEF Table!Takes, Table!Wild, Wild, Follows

(* A walk that has used up the request is at its only destination.          *)
LEMMA OneDestination ==
  ASSUME TypeInv, TableInv, ShapeInv, NoneRegisters,
         NEW p \in Requests, NEW n \in DOMAIN tree, Len(n) = Len(p), Follows(p, n)
  PROVE  Table!Destinations(p) = {n}
<1>1. p \in Seq(Text) /\ n \in Seq(Text) /\ p # << >> /\ n # << >>
  BY RequestsAssumption, RequestType DEF TypeInv, TypeOK
<1>2. n \in Table!Ways /\ Table!Takes(p, n)
  BY <1>1, WaysAreNodes, TakesFollows
<1>3. ASSUME NEW m \in Table!Destinations(p)
      PROVE  m = n
  <2>1. m \in Table!Ways /\ Len(m) = Len(p) /\ Table!Takes(p, m)
    BY <1>3 DEF Table!Destinations
  <2>2. m \in Seq(Text)
    BY <2>1, WayIsSeq
  <2>3. Follows(p, m)
    BY <1>1, <2>1, <2>2, TakesFollows
  <2>4. m = SubSeq(n, 1, Len(m))
    BY <1>1, <2>1, <2>2, <2>3, OneWay
  <2> QED
    BY <1>1, <2>1, <2>4, WholePrefix
<1> QED
  BY <1>2, <1>3 DEF Table!Destinations

(* A walk that finds no child shows that there is no destination.           *)
LEMMA NoDestination ==
  ASSUME TypeInv, TableInv, ShapeInv, NoneRegisters,
         NEW p \in Requests, NEW n \in DOMAIN tree, Len(n) < Len(p), Follows(p, n),
         ~HasStaticChild(tree, n, p[Len(n) + 1]),
         HasParameterChild(tree, n) => p[Len(n) + 1] \notin ParamTexts
  PROVE  Table!Destinations(p) = {}
<1> SUFFICES ASSUME NEW m \in Table!Destinations(p) PROVE FALSE
  OBVIOUS
<1>1. p \in Seq(Text) /\ n \in Seq(Text) /\ p # << >>
  BY RequestsAssumption, RequestType DEF TypeInv, TypeOK
<1>2. m \in Table!Ways /\ Len(m) = Len(p) /\ Table!Takes(p, m)
  BY DEF Table!Destinations
<1>3. m \in Seq(Text)
  BY <1>2, WayIsSeq
<1>4. Follows(p, m) /\ m \in DOMAIN tree
  <2>1. m # << >>
    BY <1>1, <1>2, <1>3
  <2> QED
    BY <1>1, <1>2, <1>3, <2>1, TakesFollows, WaysAreNodes
<1> DEFINE i == Len(n) + 1
<1>5. i \in 1..Len(m) /\ i \in 0..Len(m) /\ i - 1 = Len(n)
  BY <1>1, <1>2, <1>3
<1>6. SubSeq(m, 1, i - 1) = n
  BY <1>1, <1>2, <1>3, <1>4, <1>5, OneWay
<1>7. m[i] = Wild /\ p[i] \in ParamTexts
  BY <1>4, <1>5, <1>6 DEF Follows
<1>8. Append(n, Wild) = SubSeq(m, 1, i)
  BY <1>3, <1>5, <1>6, <1>7, NextPrefix
<1>9. Append(n, Wild) \in DOMAIN tree
  BY <1>4, <1>5, <1>8 DEF ShapeInv
<1>10. HasParameterChild(tree, n)
  BY <1>1, <1>9, ChildrenAreWays, TextAssumption
<1> QED
  BY <1>7, <1>10

(* What the walk has put into params is what the table would have given. *)
LEMMA CarriedIsParams ==
  ASSUME TypeInv, TableInv, ShapeInv, NoneRegisters,
         NEW p, NEW n \in DOMAIN tree, NEW params, Carries(p, n, params)
  PROVE  Table!Carried(p, n) = params
<1> DEFINE places(x) == {i \in 1..Len(n) : n[i] = Wild /\ namesBar[SubSeq(n, 1, i)] = x}
           used == {namesBar[SubSeq(n, 1, i)] : i \in {j \in 1..Len(n) : n[j] = Wild}}
<1>1. n \in Seq(Text)
  BY DEF TypeInv, TypeOK
<1>2. ASSUME NEW i \in WildIn(n)
      PROVE  namesBar[SubSeq(n, 1, i)] = NameAt(n, i)
  <2> DEFINE m == SubSeq(n, 1, i)
  <2>1. i \in 1..Len(n) /\ i \in 0..Len(n) /\ n[i] = Wild
    BY <1>1, <1>2 DEF WildIn
  <2>2. m \in DOMAIN tree /\ m # << >> /\ m[Len(m)] = Wild
    <3>1. Len(m) = i /\ \A j \in 1..i : m[j] = n[j]
      BY <1>1, <2>1, PrefixFacts
    <3>2. m \in DOMAIN tree
      BY <2>1 DEF ShapeInv
    <3> QED
      BY <2>1, <3>1, <3>2
  <2>3. tree[m].type = "kParameter"
    BY <2>2 DEF TableInv, TreeWellFormed, NoneRegisters
  <2> QED
    BY <2>2, <2>3 DEF namesBar, NameAt
<1>3. Table!Carried(p, n) = [x \in used |-> p[Table!Max(places(x))]]
  BY DEF Table!Carried, Table!Wild, Wild
<1>4. \A x : places(x) = {i \in WildIn(n) : NameAt(n, i) = x}
  BY <1>2 DEF WildIn
<1>5. used = DOMAIN params
  <2>1. \A x : x \in used <=> \E i \in WildIn(n) : NameAt(n, i) = x
    BY <1>2 DEF WildIn
  <2> QED
    BY <2>1 DEF Carries
<1> HIDE DEF places, used
<1>6. ASSUME NEW x \in DOMAIN params
      PROVE  p[Table!Max(places(x))] = params[x]
  <2>1. PICK i \in WildIn(n) :
          /\ NameAt(n, i) = x /\ params[x] = p[i]
          /\ \A j \in WildIn(n) : NameAt(n, j) = x => j <= i
    BY DEF Carries
  <2> DEFINE m == CHOOSE y \in places(x) : \A j \in places(x) : y >= j
  <2>2. Table!Max(places(x)) = m
    BY DEF Table!Max
  <2>3. /\ i \in places(x) /\ \A j \in places(x) : j <= i
        /\ \A j \in places(x) : j \in Nat
    BY <1>4, <2>1 DEF WildIn
  <2>4. m \in places(x) /\ \A j \in places(x) : m >= j
    BY <2>3
  <2> HIDE DEF m
  <2>5. m = i
    BY <2>3, <2>4
  <2> QED
    BY <2>1, <2>2, <2>5
<1>7. params = [x \in DOMAIN params |-> params[x]]
  BY DEF Carries
<1> QED
  BY <1>3, <1>5, <1>6, <1>7

-------------------------------------------------------------------------------
(* The table's variables. *)

(* Pattern t has handler h in the table. *)
Bound(t, h) ==
  \/ \E k \in DOMAIN routes : routes[k].path = t /\ routes[k].handler = h
  \/ \E r \in Unfinished : rpath[r] = t /\ rhandler[r] = h

BoundIsMap ==
  /\ boundBar = [t \in DOMAIN boundBar |-> boundBar[t]]
  /\ \A t, h : Bound(t, h) <=> t \in DOMAIN boundBar /\ boundBar[t] = h

(* Only one registration can be unfinished, so the table has one handler   *)
(* for each pattern.                                                       *)
LEMMA BoundMap == TypeInv /\ LockInv /\ TableInv => BoundIsMap
<1> SUFFICES ASSUME TypeInv, LockInv, TableInv PROVE BoundIsMap
  OBVIOUS
<1>1. DOMAIN boundBar = BoundTemplates
  BY DEF boundBar
<1>2. ASSUME NEW k \in DOMAIN routes
      PROVE  /\ HashOf[routes[k].path] = k
             /\ boundBar[routes[k].path] = routes[k].handler
  <2>1. HashOf[routes[k].path] = k
    BY DEF TableInv
  <2>2. routes[k].path \in BoundTemplates
    BY DEF BoundTemplates
  <2> QED
    BY <2>1, <2>2 DEF boundBar
<1>3. ASSUME NEW r \in Unfinished
      PROVE  boundBar[rpath[r]] = rhandler[r]
  <2>1. \A s \in Unfinished : s = r
    BY OneRegistration DEF Unfinished
  <2>2. (CHOOSE s \in Unfinished : rpath[s] = rpath[r]) = r
    BY <2>1
  <2>3. HashOf[rpath[r]] \notin DOMAIN routes
    BY DEF Unfinished
  <2>4. rpath[r] \in BoundTemplates
    BY DEF BoundTemplates
  <2> QED
    BY <2>2, <2>3, <2>4 DEF boundBar
<1>4. ASSUME NEW t, NEW h
      PROVE  Bound(t, h) <=> t \in DOMAIN boundBar /\ boundBar[t] = h
  BY <1>1, <1>2, <1>3 DEF Bound, BoundTemplates
<1>5. boundBar = [t \in DOMAIN boundBar |-> boundBar[t]]
  BY DEF boundBar
<1> QED
  BY <1>4, <1>5 DEF BoundIsMap

(* The abstract table changes only with what it is read from.               *)
LEMMA BoundKept ==
  ASSUME BoundIsMap, BoundIsMap', \A t, h : Bound(t, h)' <=> Bound(t, h)
  PROVE  boundBar' = boundBar
<1>1. \A t : t \in DOMAIN boundBar' <=> t \in DOMAIN boundBar
  BY DEF BoundIsMap
<1>2. \A t \in DOMAIN boundBar : boundBar'[t] = boundBar[t]
  BY DEF BoundIsMap
<1> HIDE DEF boundBar
<1>3. /\ boundBar = [t \in DOMAIN boundBar |-> boundBar[t]]
      /\ boundBar' = [t \in DOMAIN boundBar' |-> boundBar'[t]]
  BY DEF BoundIsMap
<1> QED
  BY <1>1, <1>2, <1>3

(* Registrations that set no key change no binding. *)
LEMMA BindingsKept ==
  ASSUME BoundIsMap, BoundIsMap', UNCHANGED routes,
         \A r \in Registrars :
           \/ /\ rpc[r] \notin {"handler", "emplace"}
              /\ rpc'[r] \notin {"handler", "emplace"}
           \/ /\ rpc[r] \in {"handler", "emplace"}
              /\ rpc'[r] \in {"handler", "emplace"}
              /\ rpath'[r] = rpath[r] /\ rhandler'[r] = rhandler[r]
  PROVE  boundBar' = boundBar
<1>1. \A t, h : Bound(t, h)' <=> Bound(t, h)
  BY DEF Bound, Unfinished
<1> QED
  BY <1>1, BoundKept

LEMMA CurrentKept ==
  ASSUME DOMAIN tree \subseteq DOMAIN tree',
         \A m \in DOMAIN tree : tree'[m].key = tree[m].key,
         \A m \in DOMAIN tree' \ DOMAIN tree : tree'[m].key = 0
  PROVE  currentBar' = currentBar
<1> DEFINE D == {m \in DOMAIN tree : tree[m].key # 0}
           E == {m \in DOMAIN tree' : tree'[m].key # 0}
<1>1. D = E
  OBVIOUS
<1>2. \A m \in D : tree'[m].key = tree[m].key
  OBVIOUS
<1>3. currentBar = [n \in D |-> CHOOSE t \in ValidTemplates : HashOf[t] = tree[n].key]
  BY DEF currentBar
<1>4. currentBar' = [n \in E |-> CHOOSE t \in ValidTemplates : HashOf[t] = tree'[n].key]
  BY DEF currentBar
<1> HIDE DEF D, E
<1> QED
  BY <1>1, <1>2, <1>3, <1>4

LEMMA NamesKept ==
  ASSUME \A m : m \in DOMAIN tree' /\ tree'[m].type = "kParameter" <=>
                  m \in DOMAIN tree /\ tree[m].type = "kParameter",
         \A m \in DOMAIN tree : tree[m].type = "kParameter" =>
           tree'[m].param_name = tree[m].param_name
  PROVE  namesBar' = namesBar
BY DEF namesBar

(* What a worker's request has come to. *)
AnswerOf(w) ==
  [how |-> IF wpc[w] \in Outcomes \cup {"idle"} THEN wpc[w] ELSE "pending",
   handler |-> IF wpc[w] = "called" THEN wroute[w].handler ELSE NullHandler,
   params |-> IF wpc[w] = "called" THEN wparams[w] ELSE EmptyMap]

LEMMA Answers == answerBar = [w \in Workers |-> AnswerOf(w)]
BY DEF answerBar, AnswerOf

LEMMA AnswersKept ==
  ASSUME \A w \in Workers :
           \/ /\ wpc'[w] = wpc[w] /\ wroute'[w] = wroute[w] /\ wparams'[w] = wparams[w]
           \/ wpc[w] \in {"match", "invoke"} /\ wpc'[w] \in {"match", "invoke"}
  PROVE  answerBar' = answerBar
<1>1. \A w \in Workers : AnswerOf(w)' = AnswerOf(w)
  BY DEF AnswerOf, Outcomes
<1>2. answerBar' = [w \in Workers |-> AnswerOf(w)']
  BY DEF answerBar, AnswerOf
<1> QED
  BY <1>1, <1>2, Answers

-------------------------------------------------------------------------------
(* Every step of the dispatcher is one of the table or changes nothing     *)
(* there.                                                                  *)

(* The table's operators are the dispatcher's.                              *)
LEMMA TableOperators ==
  /\ Table!EmptyMap = EmptyMap
  /\ \A f, k, v : Table!Put(f, k, v) = Put(f, k, v)
  /\ \A t : Table!Shape(t) = Shape(t)
BY DEF Table!EmptyMap, EmptyMap, Table!Put, Put, Table!Shape, Shape,
       Table!NodeKey, NodeKey, Table!Wild, Wild

(* The node a registration is at is the place of the part it is at. *)
LEMMA PlaceIsNode ==
  ASSUME NEW t \in Templates, NEW n \in Seq(Text), LiesOn(n, t),
         Shape(t) \in Seq(Text), NEW i \in 1..Len(n)
  PROVE  Table!Place(t, i) = SubSeq(n, 1, i)
<1>1. Table!Place(t, i) = SubSeq(Shape(t), 1, i)
  BY TableOperators DEF Table!Place
<1>2. /\ Len(Shape(t)) = Len(t)
      /\ \A j \in 1..Len(n) : n[j] = Shape(t)[j] /\ Len(n) <= Len(t)
  BY ShapeFacts DEF LiesOn
<1>3. i \in 0..Len(n) /\ i \in 0..Len(Shape(t)) /\ \A j \in 1..i : n[j] = Shape(t)[j]
  BY <1>2
<1> QED
  BY <1>1, <1>3, PrefixFacts, SeqEqual

(* The shape of a pattern is a node.                                        *)
LEMMA ShapeType ==
  ASSUME NEW t \in Templates
  PROVE  Shape(t) \in Seq(Text)
<1>1. t \in Seq(Part)
  BY TemplatesAssumption
<1>2. \A i \in 1..Len(t) : NodeKey(t[i]) \in Text
  BY <1>1, NodeKeyType, ElementOfSeq
<1> QED
  BY <1>1, <1>2 DEF Shape

(* Labelling a parameter's node puts its name in force. *)
LEMMA LabelRenames ==
  ASSUME TableWalkInv, BoundIsMap, BoundIsMap', NEW r \in Registrars, LabelNode(r)
  PROVE  Table!TableNext \/ UNCHANGED Table!tableVars
<1> DEFINE n == rnode[r]
           t == rpath[r]
           i == Len(n)
           part == t[i]
<1>0. TypeInv /\ TableInv /\ ShapeInv
  BY DEF TableWalkInv, Inv
<1>1. /\ n \in Seq(Text) /\ n \in DOMAIN tree /\ i > 0
      /\ t \in ValidTemplates /\ i \in 1..Len(t) /\ LiesOn(n, t)
      /\ part.var <=> n[i] = Wild
      /\ rpc[r] = "label" /\ rpc'[r] \in {"child", "key"}
      /\ \A s \in Registrars : s # r => rpc'[s] = rpc[s]
      /\ UNCHANGED <<routes, rpath, rhandler, workerVars>>
      /\ DOMAIN tree' = DOMAIN tree
      /\ \A m \in DOMAIN tree : /\ m # n => tree'[m] = tree[m]
                                /\ tree'[m].key = tree[m].key
      /\ (tree'[n].type = "kParameter") <=> part.var
      /\ part.var => tree'[n].param_name = part.text
  BY <1>0, LabelStep
<1>2. boundBar' = boundBar
  BY <1>1, BindingsKept
<1>3. currentBar' = currentBar
  BY <1>1, CurrentKept
<1>4. answerBar' = answerBar /\ wreq' = wreq
  BY <1>1, AnswersKept DEF workerVars
<1>5. CASE part.var
  <2>1. Table!Place(t, i) = n
    <3>1. t \in Templates /\ i \in 1..Len(n)
      BY <1>1, TemplatesAssumption
    <3> QED
      BY <1>1, <3>1, PlaceIsNode, ShapeType, WholePrefix
  <2>2. namesBar' = Put(namesBar, n, part.text)
    <3>1. \A m : m \in DOMAIN tree' /\ tree'[m].type = "kParameter" <=>
                   (m \in DOMAIN tree /\ tree[m].type = "kParameter") \/ m = n
      BY <1>1, <1>5
    <3>2. \A m \in DOMAIN tree : m # n => tree'[m].param_name = tree[m].param_name
      BY <1>1
    <3>3. tree'[n].param_name = part.text
      BY <1>1, <1>5
    <3> HIDE DEF n, part
    <3> QED
      BY <3>1, <3>2, <3>3 DEF namesBar, Put
  <2>3. Table!Rename(t, i)
    BY <1>2, <1>3, <1>4, <1>5, <2>1, <2>2, TableOperators DEF Table!Rename
  <2> QED
    BY <1>1, <2>3 DEF Table!TableNext
<1>6. CASE ~part.var
  <2>1. tree[n].type # "kParameter"
    BY <1>0, <1>1, <1>6 DEF ShapeInv
  <2>2. namesBar' = namesBar
    BY <1>1, <1>6, <2>1, NamesKept
  <2> QED
    BY <1>2, <1>3, <1>4, <2>2 DEF Table!tableVars
<1> QED
  BY <1>5, <1>6

(* Setting the key of the last node registers the pattern. *)
LEMMA KeyRegisters ==
  ASSUME TableWalkInv, BoundIsMap, BoundIsMap', NEW r \in Registrars, SetKey(r)
  PROVE  Table!TableNext
<1> DEFINE n == rnode[r]
           t == rpath[r]
           h == rhandler[r]
<1>0. TypeInv /\ LockInv /\ TableInv /\ ShapeInv
  BY DEF TableWalkInv, Inv
<1>1. /\ rpc[r] = "key" /\ rpc'[r] = "handler" /\ Adding(r)
      /\ n \in DOMAIN tree /\ n = Shape(t) /\ n \in Seq(Text)
      /\ t \in ValidTemplates /\ t \in Templates
      /\ \A s \in Registrars : s # r => rpc'[s] = rpc[s]
      /\ UNCHANGED <<routes, rpath, rhandler, workerVars>>
      /\ DOMAIN tree' = DOMAIN tree
      /\ \A m \in DOMAIN tree : /\ m # n => tree'[m] = tree[m]
                                /\ tree'[m].type = tree[m].type
                                /\ tree'[m].param_name = tree[m].param_name
      /\ tree'[n].key = HashOf[t]
  <2>1. rpc[r] = "key" /\ rpc'[r] = "handler" /\ Adding(r)
    BY <1>0 DEF SetKey, Adding, TypeInv, TypeOK
  <2> QED
    BY <1>0, <2>1, EndStep, TemplatesAssumption
<1>2. /\ h \in Handlers /\ HashOf[t] # 0
      /\ \A u \in Templates : HashOf[u] = HashOf[t] => u = t
  BY <1>0, <1>1, HashAssumption DEF TypeInv, TypeOK
<1>3. namesBar' = namesBar
  BY <1>1, NamesKept
<1>4. answerBar' = answerBar /\ wreq' = wreq
  BY <1>1, AnswersKept DEF workerVars
<1>5. currentBar' = Put(currentBar, n, t)
  <2>1. \A m : m \in DOMAIN tree' /\ tree'[m].key # 0 <=>
                 (m \in DOMAIN tree /\ tree[m].key # 0) \/ m = n
    BY <1>1, <1>2
  <2>2. \A m \in DOMAIN tree : m # n => tree'[m].key = tree[m].key
    BY <1>1
  <2>3. (CHOOSE u \in ValidTemplates : HashOf[u] = tree'[n].key) = t
    BY <1>1, <1>2, TemplatesAssumption
  <2> HIDE DEF n, t
  <2> QED
    BY <2>1, <2>2, <2>3 DEF currentBar, Put
<1>6. \A i \in 1..Len(t) : t[i].var => /\ Table!Place(t, i) \in DOMAIN namesBar
                                       /\ namesBar[Table!Place(t, i)] = t[i].text
  <2> SUFFICES ASSUME NEW i \in 1..Len(t), t[i].var
               PROVE  /\ Table!Place(t, i) \in DOMAIN namesBar
                      /\ namesBar[Table!Place(t, i)] = t[i].text
    OBVIOUS
  <2>1. Len(n) = Len(t) /\ LiesOn(n, t)
    BY <1>1, ShapeFacts DEF LiesOn
  <2>2. Table!Place(t, i) = SubSeq(n, 1, i)
    BY <1>1, <2>1, PlaceIsNode
  <2>3. i \in 1..LabelledTo(r) /\ i \in 0..Len(n)
    BY <1>1, <2>1 DEF LabelledTo
  <2>4. /\ SubSeq(n, 1, i) \in DOMAIN tree
        /\ tree[SubSeq(n, 1, i)].type = "kParameter"
        /\ tree[SubSeq(n, 1, i)].param_name = t[i].text
    BY <1>0, <1>1, <2>3 DEF ShapeInv
  <2> QED
    BY <2>2, <2>4 DEF namesBar
<1>7. boundBar' = IF t \in DOMAIN boundBar THEN boundBar ELSE Put(boundBar, t, h)
  <2>1. Unfinished = {}
    BY <1>0, <1>1, OthersOutside DEF Unfinished, Adding
  <2>2. Unfinished' = IF HashOf[t] \in DOMAIN routes THEN {} ELSE {r}
    <3>1. \A s \in Registrars : rpc'[s] \in {"handler", "emplace"} <=> s = r
      BY <1>0, <1>1, OthersOutside DEF Adding
    <3> QED
      BY <1>1, <3>1 DEF Unfinished
  <2>3. t \in DOMAIN boundBar <=> HashOf[t] \in DOMAIN routes
    <3>1. t \in DOMAIN boundBar <=> \E k \in DOMAIN routes : routes[k].path = t
      BY <2>1 DEF BoundIsMap, Bound
    <3>2. \A k \in DOMAIN routes : HashOf[routes[k].path] = k /\ routes[k].path \in Templates
      BY <1>0 DEF TableInv, TypeInv, TypeOK, Route
    <3> QED
      BY <1>2, <3>1, <3>2
  <2>4. \A u, v : Bound(u, v)' <=> \/ Bound(u, v)
                                   \/ u = t /\ v = h /\ t \notin DOMAIN boundBar
    BY <1>1, <2>1, <2>2, <2>3 DEF Bound
  <2>5. CASE t \in DOMAIN boundBar
    BY <2>4, <2>5, BoundKept
  <2>6. CASE t \notin DOMAIN boundBar
    <3>1. \A u : u \in DOMAIN boundBar' <=> u \in DOMAIN boundBar \/ u = t
      BY <2>4, <2>6 DEF BoundIsMap
    <3>2. \A u \in DOMAIN boundBar : boundBar'[u] = boundBar[u]
      BY <2>4 DEF BoundIsMap
    <3>3. boundBar'[t] = h
      BY <2>4, <2>6 DEF BoundIsMap
    <3>4. boundBar' = [u \in DOMAIN boundBar' |-> boundBar'[u]]
      BY DEF BoundIsMap
    <3> QED
      BY <2>6, <3>1, <3>2, <3>3, <3>4 DEF Put
  <2> QED
    BY <2>5, <2>6
<1>8. Table!Register(t, h)
  BY <1>1, <1>3, <1>4, <1>5, <1>6, <1>7, TableOperators DEF Table!Register
<1> QED
  BY <1>1, <1>2, <1>8 DEF Table!TableNext

(* routes_.emplace completes what the key has already put into the table:  *)
(* nothing changes there.                                                  *)
LEMMA EmplaceKeepsBound ==
  ASSUME TypeInv, LockInv, TableInv, BoundIsMap, BoundIsMap',
         NEW r \in Registrars, EmplaceRoute(r)
  PROVE  boundBar' = boundBar
<1> DEFINE t == rpath[r]
           h == rhandler[r]
           k == HashOf[t]
           route == [path |-> t, handler |-> h]
<1>1. /\ rpc[r] = "emplace" /\ rpc'[r] = "idle"
      /\ \A s \in Registrars : s # r => rpc'[s] = rpc[s] /\ rpc[s] \in {"idle", "lock"}
      /\ UNCHANGED <<rpath, rhandler>>
      /\ routes' = Emplaced(k, route)
  <2>1. \A s \in Registrars : s # r => rpc[s] \in {"idle", "lock"}
    BY OneRegistration DEF EmplaceRoute
  <2> QED
    BY <2>1 DEF EmplaceRoute, TypeInv, TypeOK
<1>2. Unfinished' = {}
  BY <1>1 DEF Unfinished
<1>3. Unfinished = IF k \in DOMAIN routes THEN {} ELSE {r}
  BY <1>1 DEF Unfinished
<1>4. CASE k \in DOMAIN routes
  <2>1. routes' = routes
    BY <1>1, <1>4 DEF Emplaced
  <2>2. \A u, v : Bound(u, v)' <=> Bound(u, v)
    BY <1>2, <1>3, <1>4, <2>1 DEF Bound
  <2> QED
    BY <2>2, BoundKept
<1>5. CASE k \notin DOMAIN routes
  <2>1. /\ DOMAIN routes' = DOMAIN routes \cup {k}
        /\ \A j \in DOMAIN routes : routes'[j] = routes[j]
        /\ routes'[k].path = t /\ routes'[k].handler = h
    BY <1>1, <1>5 DEF Emplaced, Put
  <2>2. ASSUME NEW u, NEW v
        PROVE  Bound(u, v)' <=> Bound(u, v)
    <3>1. Bound(u, v)' <=> \E j \in DOMAIN routes' : routes'[j].path = u /\ routes'[j].handler = v
      BY <1>2 DEF Bound
    <3>2. Bound(u, v) <=>
            \/ \E j \in DOMAIN routes : routes[j].path = u /\ routes[j].handler = v
            \/ t = u /\ h = v
      BY <1>3, <1>5 DEF Bound
    <3> HIDE DEF k, t, h
    <3> QED
      BY <2>1, <3>1, <3>2
  <2> QED
    BY <2>2, BoundKept
<1> QED
  BY <1>4, <1>5

(* The steps of a registration that the table does not see. *)
LEMMA RegistrarStutters ==
  ASSUME TableWalkInv, BoundIsMap, BoundIsMap', NEW r \in Registrars,
         \/ LockDispatcher(r) \/ EnterAddRoute(r) \/ RejectRoute(r)
         \/ StepToChild(r) \/ SetHandler(r) \/ EmplaceRoute(r)
  PROVE  UNCHANGED Table!tableVars
<1>0. TypeInv /\ LockInv /\ TableInv
  BY DEF TableWalkInv, Inv
<1>1. answerBar' = answerBar /\ wreq' = wreq
  <2>1. UNCHANGED workerVars
    BY <1>0, RegistrarBusy DEF RegistrarStep, TypeInv
  <2> QED
    BY <2>1, AnswersKept DEF workerVars
<1>2. CASE LockDispatcher(r) \/ EnterAddRoute(r) \/ RejectRoute(r) \/ EmplaceRoute(r)
  <2>1. UNCHANGED tree
    BY <1>2 DEF LockDispatcher, EnterAddRoute, RejectRoute, EmplaceRoute
  <2>2. currentBar' = currentBar /\ namesBar' = namesBar
    BY <2>1, CurrentKept, NamesKept
  <2>3. boundBar' = boundBar
    <3>1. CASE EmplaceRoute(r)
      BY <1>0, <3>1, EmplaceKeepsBound
    <3>2. CASE LockDispatcher(r) \/ EnterAddRoute(r) \/ RejectRoute(r)
      BY <1>0, <3>2, BindingsKept
         DEF LockDispatcher, EnterAddRoute, RejectRoute, TypeInv, TypeOK
    <3> QED
      BY <1>2, <3>1, <3>2
  <2> QED
    BY <1>1, <2>2, <2>3 DEF Table!tableVars
<1>3. CASE StepToChild(r)
  <2> DEFINE c == ChildNode(r)
  <2>1. /\ rpc[r] = "child" /\ rpc'[r] = "label"
        /\ \A s \in Registrars : s # r => rpc'[s] = rpc[s]
        /\ UNCHANGED <<routes, rpath, rhandler>>
        /\ DOMAIN tree' = DOMAIN tree \cup {c}
        /\ \A m \in DOMAIN tree : tree'[m] = tree[m]
        /\ c \notin DOMAIN tree => tree'[c] = NewNode
    BY <1>0, <1>3, ChildStep
  <2>2. NewNode.key = 0 /\ NewNode.type # "kParameter"
    BY DEF NewNode
  <2> HIDE DEF c
  <2>3. currentBar' = currentBar
    BY <2>1, <2>2, CurrentKept
  <2>4. namesBar' = namesBar
    BY <2>1, <2>2, NamesKept
  <2>5. boundBar' = boundBar
    BY <2>1, BindingsKept
  <2> QED
    BY <1>1, <2>3, <2>4, <2>5 DEF Table!tableVars
<1>4. CASE SetHandler(r)
  <2>1. rpc[r] = "handler" /\ rpc'[r] = "emplace"
    BY <1>0, <1>4 DEF SetHandler, TypeInv, TypeOK
  <2>2. /\ \A s \in Registrars : s # r => rpc'[s] = rpc[s]
        /\ UNCHANGED <<routes, rpath, rhandler>>
        /\ DOMAIN tree' = DOMAIN tree
        /\ \A m \in DOMAIN tree : /\ m # rnode[r] => tree'[m] = tree[m]
                                  /\ tree'[m].type = tree[m].type
                                  /\ tree'[m].param_name = tree[m].param_name
        /\ tree'[rnode[r]].key = tree[rnode[r]].key
    BY <1>0, <1>4, <2>1, EndStep
  <2>3. currentBar' = currentBar
    BY <2>2, CurrentKept
  <2>4. namesBar' = namesBar
    BY <2>2, NamesKept
  <2>5. boundBar' = boundBar
    BY <2>1, <2>2, BindingsKept
  <2> QED
    BY <1>1, <2>3, <2>4, <2>5 DEF Table!tableVars
<1> QED
  BY <1>2, <1>3, <1>4

(* Calling RegisterRouteHandler and starting the server change no table. *)
LEMMA CallsStutter ==
  ASSUME TableWalkInv, BoundIsMap, BoundIsMap',
         \/ Start \/ UNCHANGED vars
         \/ \E r \in Registrars, t \in Templates, h \in Handlers :
              RegisterRouteHandler(r, t, h)
  PROVE  UNCHANGED Table!tableVars
<1>1. UNCHANGED <<tree, routes, workerVars>>
  BY DEF Start, vars, RegisterRouteHandler
<1>2. /\ currentBar' = currentBar /\ namesBar' = namesBar
      /\ answerBar' = answerBar /\ wreq' = wreq
  BY <1>1, CurrentKept, NamesKept, AnswersKept DEF workerVars
<1>3. boundBar' = boundBar
  <2>1. CASE Start \/ UNCHANGED vars
    BY <1>1, <2>1, BindingsKept DEF Start, vars, registrarVars
  <2>2. ASSUME NEW r \in Registrars, NEW t \in Templates, NEW h \in Handlers,
               RegisterRouteHandler(r, t, h)
        PROVE  boundBar' = boundBar
    BY <1>1, <2>2, BindingsKept
       DEF RegisterRouteHandler, TableWalkInv, Inv, TypeInv, TypeOK
  <2> QED
    BY <2>1, <2>2
<1> QED
  BY <1>2, <1>3 DEF Table!tableVars

-------------------------------------------------------------------------------
(* The end of a request is a question asked of the table. *)

(* The table's answers without a handler.                                  *)
LEMMA WithoutFacts ==
  \A how : Table!Without(how) =
    [how |-> how, handler |-> NullHandler, params |-> EmptyMap]
BY TableOperators DEF Table!Without

(* The worker's answer changes and nothing else. *)
LEMMA OneAnswer ==
  ASSUME NEW w \in Workers, UNCHANGED <<tree, routes, registrarVars, wparams, wroute>>,
         BoundIsMap, BoundIsMap',
         \A v \in Workers : v # w => wpc'[v] = wpc[v]
  PROVE  /\ answerBar' = [answerBar EXCEPT ![w] = AnswerOf(w)']
         /\ UNCHANGED <<boundBar, currentBar, namesBar>>
<1>1. boundBar' = boundBar
  BY BindingsKept DEF registrarVars
<1>2. currentBar' = currentBar /\ namesBar' = namesBar
  BY CurrentKept, NamesKept
<1>3. answerBar' = [v \in Workers |-> AnswerOf(v)']
  BY DEF answerBar, AnswerOf
<1>4. \A v \in Workers : v # w => AnswerOf(v)' = AnswerOf(v)
  BY DEF AnswerOf
<1> QED
  BY <1>1, <1>2, <1>3, <1>4, Answers

(* What a request is at when it ends. *)
LEMMA EndFacts ==
  ASSUME TableWalkInv, NoneRegisters, NEW w \in Workers, wpc[w] \in {"match", "invoke"}
  PROVE  /\ TypeInv /\ TableInv /\ ShapeInv
         /\ wreq[w] \in Requests /\ wnode[w] \in DOMAIN tree
         /\ Follows(wreq[w], wnode[w])
         /\ Len(wnode[w]) = Len(wreq[w]) =>
              Table!Destinations(wreq[w]) = {wnode[w]}
         /\ tree[wnode[w]].key # 0 =>
              /\ tree[wnode[w]].handler
              /\ tree[wnode[w]].key \in DOMAIN routes
              /\ currentBar[wnode[w]] = routes[tree[wnode[w]].key].path
<1> DEFINE n == wnode[w]
           k == tree[n].key
<1>1. TypeInv /\ TableInv /\ ShapeInv /\ WorkerInv /\ WalkInv
  BY DEF TableWalkInv, Inv
<1>2. Walked(w) /\ Walk(w)
  BY <1>1 DEF WorkerInv, WalkInv
<1>3. wreq[w] \in Requests /\ n \in DOMAIN tree /\ Follows(wreq[w], n)
  BY <1>2 DEF Walked, Walk
<1>4. Len(n) = Len(wreq[w]) => Table!Destinations(wreq[w]) = {n}
  BY <1>1, <1>3, OneDestination
<1>5. ASSUME k # 0
      PROVE  tree[n].handler /\ k \in DOMAIN routes /\ currentBar[n] = routes[k].path
  <2>1. PICK t \in ValidTemplates :
          /\ HashOf[t] = k /\ tree[n].handler
          /\ k \in DOMAIN routes /\ routes[k].path = t
    BY <1>1, <1>3, <1>5 DEF TableInv, TreeAndRoutesAgree, NoneRegisters
  <2>2. currentBar[n] \in ValidTemplates /\ HashOf[currentBar[n]] = k
    BY <1>1, <1>3, <1>5, CurrentFacts
  <2> QED
    BY <2>1, <2>2, HashAssumption, TemplatesAssumption
<1> QED
  BY <1>1, <1>3, <1>4, <1>5

(* No match, and a match whose key routes_ does not have.                   *)
LEMMA FailureAsks ==
  ASSUME TableWalkInv, BoundIsMap, BoundIsMap', NoneRegisters,
         NEW w \in Workers, MatchFails(w) \/ LookUpThrows(w)
  PROVE  Table!Ask(w)
<1> DEFINE n == wnode[w]
           p == wreq[w]
<1>1. /\ wpc[w] = "match"
      /\ UNCHANGED <<tree, routes, registrarVars, wreq, wparams, wroute>>
      /\ \A v \in Workers : v # w => wpc'[v] = wpc[v]
      /\ wpc'[w] = IF MatchFails(w) THEN "notfound" ELSE "threw"
  <2>1. TypeOK
    BY DEF TableWalkInv, Inv, TypeInv
  <2>2. CASE MatchFails(w)
    BY <2>1, <2>2 DEF MatchFails, Matching, TypeOK
  <2>3. CASE ~MatchFails(w) /\ LookUpThrows(w)
    BY <2>1, <2>3 DEF LookUpThrows, Matched, TypeOK
  <2> QED
    BY <2>2, <2>3
<1>2. /\ TypeInv /\ TableInv /\ ShapeInv
      /\ p \in Requests /\ n \in DOMAIN tree /\ Follows(p, n)
      /\ Len(n) = Len(p) => Table!Destinations(p) = {n}
      /\ tree[n].key # 0 => tree[n].key \in DOMAIN routes
  BY <1>1, EndFacts
<1>3. /\ answerBar' = [answerBar EXCEPT ![w] = AnswerOf(w)']
      /\ UNCHANGED <<boundBar, currentBar, namesBar>>
  BY <1>1, OneAnswer
<1>4. answerBar[w].how = "pending"
  BY <1>1, Answers DEF AnswerOf, Outcomes
<1>5. AnswerOf(w)' = Table!Without(wpc'[w])
  BY <1>1, WithoutFacts DEF AnswerOf, Outcomes
<1>6. Table!Resolve(p) = Table!Without(wpc'[w])
  <2>1. CASE MatchFails(w)
    <3>1. Table!Destinations(p) = {}
      <4>1. /\ Len(n) < Len(p) /\ ~HasStaticChild(tree, n, p[Len(n) + 1])
            /\ HasParameterChild(tree, n) => p[Len(n) + 1] \notin ParamTexts
        BY <2>1 DEF MatchFails, Matching, WText
      <4> QED
        BY <1>2, <4>1, NoDestination
    <3> QED
      BY <1>1, <2>1, <3>1 DEF Table!Resolve
  <2>2. CASE ~MatchFails(w)
    <3>1. Len(n) = Len(p) /\ tree[n].key \notin DOMAIN routes
      BY <2>2 DEF LookUpThrows, Matched
    <3>2. n \notin DOMAIN currentBar
      BY <1>2, <3>1 DEF currentBar
    <3>3. (CHOOSE d \in Table!Destinations(p) : TRUE) = n
      BY <1>2, <3>1
    <3>4. Table!Destinations(p) # {}
      BY <1>2, <3>1
    <3>5. Table!Resolve(p) = Table!Without("threw")
      BY <3>2, <3>3, <3>4 DEF Table!Resolve
    <3> QED
      BY <1>1, <2>2, <3>5
  <2> QED
    BY <2>1, <2>2
<1> QED
  BY <1>1, <1>3, <1>4, <1>5, <1>6 DEF Table!Ask

(* A match, with the handler and the parameters it was called with.         *)
LEMMA InvokeAsks ==
  ASSUME TableWalkInv, BoundIsMap, BoundIsMap', NoneRegisters,
         NEW w \in Workers, Invoke(w)
  PROVE  Table!Ask(w)
<1> DEFINE n == wnode[w]
           p == wreq[w]
           k == tree[n].key
           h == wroute[w].handler
<1>1. wpc[w] = "invoke"
  BY DEF Invoke
<1>2. /\ TypeInv /\ TableInv /\ ShapeInv
      /\ p \in Requests /\ n \in DOMAIN tree
      /\ Len(n) = Len(p) => Table!Destinations(p) = {n}
      /\ k # 0 => /\ tree[n].handler
                  /\ currentBar[n] = routes[k].path
  BY <1>1, EndFacts
<1>3. /\ Len(n) = Len(p) /\ Walk(w)
  BY <1>1 DEF TableWalkInv, Inv, WorkerInv, WalkInv, Routed
<1>4. k \in DOMAIN routes /\ wroute[w] = routes[k] /\ k # 0
  <2>1. k \in DOMAIN routes /\ wroute[w] = routes[k]
    BY <1>1, <1>3 DEF Walk
  <2>2. HashOf[routes[k].path] = k /\ routes[k].path \in Templates
    BY <1>2, <2>1 DEF TableInv, TypeInv, TypeOK, Route
  <2> QED
    BY <2>1, <2>2, HashAssumption
<1>5. /\ UNCHANGED <<tree, routes, registrarVars, wreq, wparams, wroute>>
      /\ \A v \in Workers : v # w => wpc'[v] = wpc[v]
      /\ wpc'[w] = IF h = NullHandler THEN "silent" ELSE "called"
  BY <1>2, <1>4 DEF Invoke, TypeInv, TypeOK
<1>6. /\ answerBar' = [answerBar EXCEPT ![w] = AnswerOf(w)']
      /\ UNCHANGED <<boundBar, currentBar, namesBar>>
  BY <1>5, OneAnswer
<1>7. answerBar[w].how = "pending"
  BY <1>1, Answers DEF AnswerOf, Outcomes
<1>8. AnswerOf(w)' = IF h = NullHandler THEN Table!Without("silent")
                     ELSE [how |-> "called", handler |-> h, params |-> wparams[w]]
  BY <1>5, WithoutFacts DEF AnswerOf, Outcomes
<1>9. boundBar[currentBar[n]] = h
  <2>1. Bound(routes[k].path, h)
    BY <1>4 DEF Bound
  <2> QED
    BY <1>2, <1>4, <2>1 DEF BoundIsMap
<1>10. Table!Carried(p, n) = wparams[w]
  BY <1>2, <1>3, CarriedIsParams DEF Walk
<1>11. Table!Resolve(p) =
         IF h = NullHandler THEN Table!Without("silent")
         ELSE [how |-> "called", handler |-> h, params |-> wparams[w]]
  <2>1. Table!Destinations(p) = {n}
    BY <1>2, <1>3
  <2>2. (CHOOSE d \in Table!Destinations(p) : TRUE) = n
    BY <2>1
  <2>3. n \in DOMAIN currentBar
    BY <1>2, <1>4 DEF currentBar
  <2> HIDE DEF n, p, h
  <2> QED
    BY <2>1, <2>2, <2>3, <1>9, <1>10 DEF Table!Resolve
<1> QED
  BY <1>5, <1>6, <1>7, <1>8, <1>11 DEF Table!Ask

(* The steps of a request: the ones that the table does not see, the       *)
(* beginning, the outcome, and the one that makes its worker free again.   *)
LEMMA RequestSteps ==
  ASSUME TableWalkInv, BoundIsMap, BoundIsMap', NoneRegisters, NEW w \in Workers,
         WorkerStep(w) \/ \E p \in Requests : Receive(w, p)
  PROVE  Table!TableNext \/ UNCHANGED Table!tableVars
<1>0. TypeOK
  BY DEF TableWalkInv, Inv, TypeInv
<1>1. CASE MatchFails(w) \/ LookUpThrows(w) \/ Invoke(w)
  BY <1>1, FailureAsks, InvokeAsks DEF Table!TableNext
<1>2. CASE ReturnToLoop(w)
  <2>1. /\ wpc[w] \in Outcomes /\ wpc'[w] = "idle"
        /\ UNCHANGED <<tree, routes, registrarVars, wreq, wparams, wroute>>
        /\ \A v \in Workers : v # w => wpc'[v] = wpc[v]
    BY <1>0, <1>2 DEF ReturnToLoop, Outcomes, TypeOK
  <2>2. /\ answerBar' = [answerBar EXCEPT ![w] = AnswerOf(w)']
        /\ UNCHANGED <<boundBar, currentBar, namesBar>>
    BY <2>1, OneAnswer
  <2>3. answerBar[w].how \in Outcomes /\ Table!Outcomes = Outcomes
    BY <2>1, Answers DEF AnswerOf, Outcomes, Table!Outcomes
  <2>4. AnswerOf(w)' = Table!Without("idle")
    BY <2>1, WithoutFacts DEF AnswerOf, Outcomes
  <2>6. Table!Done(w)
    BY <2>1, <2>2, <2>3, <2>4 DEF Table!Done
  <2> QED
    BY <2>6 DEF Table!TableNext
<1>3. CASE MatchStatic(w) \/ MatchParameter(w) \/ LookUpRoute(w)
  <2>1. UNCHANGED <<tree, routes, registrarVars, wreq>>
    BY <1>3 DEF MatchStatic, MatchParameter, LookUpRoute
  <2>2. /\ wpc[w] \in {"match", "invoke"} /\ wpc'[w] \in {"match", "invoke"}
        /\ \A v \in Workers : v # w =>
             wpc'[v] = wpc[v] /\ wroute'[v] = wroute[v] /\ wparams'[v] = wparams[v]
    BY <1>0, <1>3
       DEF MatchStatic, MatchParameter, LookUpRoute, Matching, Matched, TypeOK
  <2>3. answerBar' = answerBar
    BY <2>2, AnswersKept
  <2>4. currentBar' = currentBar /\ namesBar' = namesBar
    BY <2>1, CurrentKept, NamesKept
  <2>5. boundBar' = boundBar
    BY <2>1, BindingsKept DEF registrarVars
  <2> QED
    BY <2>1, <2>3, <2>4, <2>5 DEF Table!tableVars
<1>4. ASSUME NEW p \in Requests, Receive(w, p)
      PROVE  Table!TableNext
  <2>1. /\ UNCHANGED <<tree, routes, registrarVars>>
        /\ wpc[w] = "idle" /\ wpc' = [wpc EXCEPT ![w] = "match"]
        /\ wreq' = [wreq EXCEPT ![w] = p]
        /\ \A v \in Workers : v # w =>
             wpc'[v] = wpc[v] /\ wroute'[v] = wroute[v] /\ wparams'[v] = wparams[v]
    BY <1>0, <1>4 DEF Receive, TypeOK
  <2>2. answerBar[w].how = "idle"
    BY <2>1, Answers DEF AnswerOf
  <2>3. AnswerOf(w)' = Table!Without("pending")
    BY <1>0, <2>1, WithoutFacts DEF AnswerOf, Outcomes, TypeOK
  <2>4. answerBar' = [answerBar EXCEPT ![w] = AnswerOf(w)']
    <3>1. answerBar' = [v \in Workers |-> AnswerOf(v)']
      BY DEF answerBar, AnswerOf
    <3>2. \A v \in Workers : v # w => AnswerOf(v)' = AnswerOf(v)
      BY <2>1 DEF AnswerOf
    <3> QED
      BY <3>1, <3>2, Answers
  <2>5. currentBar' = currentBar /\ namesBar' = namesBar
    BY <2>1, CurrentKept, NamesKept
  <2>6. boundBar' = boundBar
    BY <2>1, BindingsKept DEF registrarVars
  <2>7. Table!Receive(w, p)
    BY <2>1, <2>2, <2>3, <2>4, <2>5, <2>6 DEF Table!Receive
  <2> QED
    BY <2>7 DEF Table!TableNext
<1> QED
  BY <1>1, <1>2, <1>3, <1>4 DEF WorkerStep

(* The dispatcher with its tree, keys, locks and walk is a table of routes *)
(* that registrations change and requests ask in single steps: the request *)
(* that a worker was given gets the route of the whole table it belongs    *)
(* to, and the parameters their values under the names the table then has. *)
THEOREM DispatcherImplementsTable ==
  ASSUME OneLoop
  PROVE  Spec => ImplementsRouteTable
<1>1. Init => Table!TableInit
  <2> SUFFICES ASSUME Init PROVE Table!TableInit
    OBVIOUS
  <2>1. DOMAIN tree = {<< >>} /\ tree[<< >>] = NewNode /\ DOMAIN routes = {}
    BY EmptyMapFacts DEF Init, Put
  <2>2. NewNode.key = 0 /\ NewNode.type # "kParameter"
    BY DEF NewNode
  <2>3. BoundTemplates = {}
    BY <2>1 DEF BoundTemplates, Unfinished, Init
  <2>4. boundBar = EmptyMap
    BY <2>3 DEF boundBar, EmptyMap
  <2>5. currentBar = EmptyMap
    BY <2>1, <2>2 DEF currentBar, EmptyMap
  <2>6. namesBar = EmptyMap
    BY <2>1, <2>2 DEF namesBar, EmptyMap
  <2>7. answerBar = [w \in Workers |-> Table!Without("idle")]
    BY Answers, WithoutFacts DEF Init, AnswerOf, Outcomes
  <2>8. wreq = [w \in Workers |-> << >>]
    BY DEF Init
  <2> QED
    BY <2>4, <2>5, <2>6, <2>7, <2>8, TableOperators DEF Table!TableInit
<1>2. TableWalkInv => BoundIsMap
  BY BoundMap DEF TableWalkInv, Inv
<1>3. TableWalkInv /\ BoundIsMap /\ BoundIsMap' /\ [Next]_vars
        => [Table!TableNext]_(Table!tableVars)
  <2> SUFFICES ASSUME TableWalkInv, BoundIsMap, BoundIsMap', [Next]_vars
               PROVE  Table!TableNext \/ UNCHANGED Table!tableVars
    OBVIOUS
  <2>1. CASE \/ Start \/ UNCHANGED vars
             \/ \E r \in Registrars, t \in Templates, h \in Handlers :
                  RegisterRouteHandler(r, t, h)
    BY <2>1, CallsStutter
  <2>2. ASSUME NEW r \in Registrars, RegistrarStep(r)
        PROVE  Table!TableNext \/ UNCHANGED Table!tableVars
    BY <2>2, RegistrarStutters, LabelRenames, KeyRegisters DEF RegistrarStep
  <2>3. ASSUME NEW w \in Workers, WorkerStep(w) \/ \E p \in Requests : Receive(w, p)
        PROVE  Table!TableNext \/ UNCHANGED Table!tableVars
    BY <2>3, WorkerAlone, RequestSteps DEF TableWalkInv, Inv
  <2> QED
    BY <2>1, <2>2, <2>3 DEF Next, Terminating
<1>4. Spec => []TableWalkInv
  BY TableWalkInvHolds
<1> QED
  BY <1>1, <1>2, <1>3, <1>4, PTL DEF Spec, ImplementsRouteTable, Table!TableSpec

-------------------------------------------------------------------------------
(* Patterns without parameters. *)

(* Only one pattern can have a given literal path. *)
LEMMA LiteralPattern ==
  ASSUME NEW t \in Templates, NEW u \in Templates, ParamNames(t) = {},
         Shape(t) = Shape(u)
  PROVE  t = u
<1>1. t \in Seq(Part) /\ u \in Seq(Part) /\ Len(t) = Len(u)
  BY ShapeFacts, TemplatesAssumption
<1>2. ASSUME NEW i \in 1..Len(t)
      PROVE  t[i] = u[i]
  <2>1. ~t[i].var
    BY DEF ParamNames
  <2>2. t[i] \in Part /\ u[i] \in Part
    BY <1>1, ElementOfSeq
  <2>3. ~u[i].var /\ t[i].text = u[i].text
    BY <1>1, <2>1, <2>2, ShapeFacts DEF Part
  <2> QED
    BY <2>1, <2>2, <2>3 DEF Part
<1> QED
  BY <1>1, <1>2, SeqEqual

(* MatchRoute's walk for the path of such a pattern is the way to it. *)
LEMMA LiteralWay ==
  ASSUME TypeInv, TableInv, ShapeInv, NoneRegisters,
         NEW p \in DOMAIN tree, \A i \in 1..Len(p) : p[i] # Wild
  PROVE  /\ Follows(p, p)
         /\ \A i \in 1..Len(p) : HasStaticChild(tree, SubSeq(p, 1, i - 1), p[i])
<1>1. p \in Seq(Text)
  BY DEF TypeInv, TypeOK
<1>2. ASSUME NEW i \in 1..Len(p)
      PROVE  HasStaticChild(tree, SubSeq(p, 1, i - 1), p[i])
  <2> DEFINE m == SubSeq(p, 1, i - 1)
  <2>1. i - 1 \in 0..Len(p) /\ i \in 0..Len(p) /\ p[i] \in Text
    BY <1>1, ElementOfSeq
  <2>2. m \in Seq(Text)
    BY <1>1, <2>1, PrefixFacts
  <2>3. Append(m, p[i]) \in DOMAIN tree
    BY <1>1, <2>1, NextPrefix DEF ShapeInv
  <2>4. Append(m, p[i]) \in Table!Ways
    <3>1. Append(m, p[i]) \in Seq(Text) /\ Append(m, p[i]) # << >>
      BY <2>1, <2>2, AppendProperties
    <3> QED
      BY <2>3, <3>1, WaysAreNodes
  <2> QED
    BY <2>1, <2>2, <2>4, ChildrenAreWays
<1>3. Follows(p, p)
  BY <1>2 DEF Follows
<1> QED
  BY <1>2, <1>3

(* However many parameter routes compete with it, a literal route gets     *)
(* every request for its path.                                             *)
THEOREM LiteralRoutesWin ==
  ASSUME OneLoop
  PROVE  Spec => ExactPathWins
<1>1. ASSUME TableWalkInv, [Next]_vars
      PROVE  [\A w \in Workers, e \in log :
                /\ ParamNames(e[1]) = {}
                /\ Shape(e[1]) = wreq[w]
                /\ Ends(w, Outcomes)
                => wpc'[w] \in {"silent", "called"} /\ wroute[w].path = e[1]]_vars
  <2> SUFFICES ASSUME NEW w \in Workers, NEW e \in log, ParamNames(e[1]) = {},
                      Shape(e[1]) = wreq[w], Ends(w, Outcomes)
               PROVE  wpc'[w] \in {"silent", "called"} /\ wroute[w].path = e[1]
    OBVIOUS
  <2> DEFINE n == wnode[w]
             p == wreq[w]
             t == e[1]
  <2>1. MatchFails(w) \/ LookUpThrows(w) \/ Invoke(w)
    <3>1. wpc[w] \notin Outcomes /\ wpc'[w] \in Outcomes /\ TypeOK
      BY <1>1 DEF Ends, TableWalkInv, Inv, TypeInv
    <3>2. ~UNCHANGED wpc
      BY <3>1
    <3>3. PICK v \in Workers : WorkerStep(v) \/ \E q \in Requests : Receive(v, q)
      BY <1>1, <3>2
         DEF Next, vars, workerVars, Start, RegisterRouteHandler, RegistrarStep,
             LockDispatcher, EnterAddRoute, RejectRoute, StepToChild, LabelNode,
             SetKey, SetHandler, EmplaceRoute, Terminating
    <3>4. v = w
      BY <3>1, <3>3
         DEF WorkerStep, Receive, MatchStatic, MatchParameter, MatchFails,
             LookUpRoute, LookUpThrows, Invoke, ReturnToLoop, TypeOK
    <3> QED
      BY <3>1, <3>3, <3>4
         DEF WorkerStep, Receive, MatchStatic, MatchParameter, LookUpRoute,
             ReturnToLoop, Outcomes, TypeOK
  <2>2. NoneRegisters
    BY <1>1, <2>1, WorkerAlone DEF WorkerStep, TableWalkInv, Inv
  <2>3. wpc[w] \in {"match", "invoke"}
    BY <2>1 DEF MatchFails, LookUpThrows, Invoke, Matching, Matched
  <2>4. /\ TypeInv /\ TableInv /\ ShapeInv
        /\ p \in Requests /\ n \in DOMAIN tree /\ Follows(p, n)
        /\ tree[n].key # 0 => tree[n].key \in DOMAIN routes /\ tree[n].handler
    BY <1>1, <2>2, <2>3, EndFacts
  <2>5. t \in Templates /\ p \in Seq(Text) /\ n \in Seq(Text)
    BY <2>4, RequestType DEF TypeInv, TypeOK
  <2>6. p \in DOMAIN tree /\ tree[p].key # 0
    BY <2>4 DEF TableInv, TreeAndRoutesAgree
  <2>7. \A i \in 1..Len(p) : p[i] # Wild
    <3>1. \A i \in 1..Len(t) : ~t[i].var
      BY DEF ParamNames
    <3> QED
      BY <2>5, <3>1, ShapeFacts
  <2>8. /\ Follows(p, p)
        /\ \A i \in 1..Len(p) : HasStaticChild(tree, SubSeq(p, 1, i - 1), p[i])
    BY <2>2, <2>4, <2>6, <2>7, LiteralWay
  <2>9. Walked(w) /\ Walk(w)
    BY <1>1, <2>3 DEF TableWalkInv, Inv, WorkerInv, WalkInv
  <2>10. n = SubSeq(p, 1, Len(n)) /\ Len(n) <= Len(p)
    BY <2>4, <2>5, <2>8, <2>9, OneWay DEF Walked
  <2>11. CASE MatchFails(w)
    <3>1. /\ Len(n) < Len(p) /\ ~HasStaticChild(tree, n, p[Len(n) + 1])
      BY <2>11 DEF MatchFails, Matching, WText
    <3>2. Len(n) + 1 \in 1..Len(p) /\ (Len(n) + 1) - 1 = Len(n)
      BY <2>5, <3>1
    <3> QED
      BY <2>8, <2>10, <3>1, <3>2
  <2>12. ASSUME Len(n) = Len(p)
         PROVE  n = p
    BY <2>5, <2>10, <2>12, WholePrefix
  <2>13. CASE LookUpThrows(w)
    BY <2>4, <2>6, <2>12, <2>13 DEF LookUpThrows, Matched
  <2>14. CASE Invoke(w)
    <3>1. Routed(w) /\ wpc[w] = "invoke"
      BY <1>1, <2>14 DEF Invoke, TableWalkInv, Inv, WorkerInv
    <3>2. n = p
      BY <2>12, <3>1 DEF Routed
    <3>3. wpc'[w] \in {"silent", "called"}
      BY <2>4, <2>6, <2>14, <3>2 DEF Invoke, TypeInv, TypeOK
    <3>4. PICK f \in log : f[1] = wroute[w].path /\ Shape(f[1]) = n
      BY <3>1 DEF Routed
    <3>5. f[1] \in Templates /\ Shape(t) = Shape(f[1])
      BY <2>4, <3>2, <3>4 DEF TypeInv, TypeOK
    <3>6. t = f[1]
      BY <2>5, <3>5, LiteralPattern
    <3> QED
      BY <3>3, <3>4, <3>6
  <2> QED
    BY <2>1, <2>11, <2>13, <2>14
<1> QED
  BY TableWalkInvHolds, <1>1, PTL DEF Spec, ExactPathWins
================================================================================
