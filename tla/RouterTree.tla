------------------------------ MODULE RouterTree ------------------------------
(***************************************************************************)
(* The data the router works on (src/piconaut/routers): route patterns     *)
(* after SplitString, the nodes of the tree, and the handful of operations *)
(* AddRoute and MatchRoute are made of.                                    *)
(*                                                                         *)
(* A node is named by the keys on the way to it from root_, so a           *)
(* RouterNode* is a sequence of keys, root_ is << >>, and node->children   *)
(* are the names one key longer.  A tree is a function from the names of   *)
(* the nodes that exist to their contents.                                 *)
(***************************************************************************)
EXTENDS Naturals, Sequences

CONSTANT Text  \* the std::string values that occur

(* The key under which AddRoute files every "{name}" part. *)
Wild == "{}"

ASSUME TextAssumption == {"", Wild} \subseteq Text

(* A part of a pattern: a literal text, or a parameter with its name.      *)
Part == [var : BOOLEAN, text : Text]

(* normalized_part *)
NodeKey(part) == IF part.var THEN Wild ELSE part.text

(* The node a pattern ends at. *)
Shape(t) == [i \in 1..Len(t) |-> NodeKey(t[i])]

(* Node n lies on the way from the root to the node of pattern t. *)
LiesOn(n, t) == Len(n) <= Len(t) /\ \A i \in 1..Len(n) : n[i] = NodeKey(t[i])

(* The names a pattern gives to its parameters. *)
ParamNames(t) == {t[i].text : i \in {j \in 1..Len(t) : t[j].var}}

NodeType == {"kStatic", "kParameter"}

Node == [type : NodeType, param_name : Text, key : Nat, handler : BOOLEAN]

(* A value-initialised RouterNode: key is zero, handler is empty. *)
NewNode == [type |-> "kStatic", param_name |-> "", key |-> 0,
            handler |-> FALSE]

(* map[k] = v *)
Put(f, k, v) == [x \in DOMAIN f \cup {k} |-> IF x = k THEN v ELSE f[x]]

EmptyMap == [x \in {} |-> x]

(* A mistake to catch: insert without the find, which loses what was there. *)
ReplaceChild(tree, n, k) == Put(tree, Append(n, k), NewNode)

(* node->children[k], created when it is absent. *)
GetOrCreateChild(tree, n, k) ==
  IF Append(n, k) \in DOMAIN tree THEN tree ELSE Put(tree, Append(n, k), NewNode)

(* A mistake to catch: a parameter node keeps the type it was created with. *)
LabelWithoutType(node, part) ==
  IF NodeKey(part) = Wild THEN [node EXCEPT !.param_name = part.text] ELSE node

(* What AddRoute writes into the node it has just stepped to. *)
Label(node, part) ==
  IF NodeKey(part) = Wild
  THEN [node EXCEPT !.type = "kParameter", !.param_name = part.text]
  ELSE [node EXCEPT !.type = "kStatic"]

(* A mistake to catch: a parameter is tried before the literal text. *)
HasOnlyStaticChild(tree, n, text) ==
  /\ Append(n, text) \in DOMAIN tree
  /\ tree[Append(n, text)].type = "kStatic"
  /\ Append(n, Wild) \notin DOMAIN tree

(* MatchRoute's first choice: a child of exactly this text. *)
HasStaticChild(tree, n, text) ==
  /\ Append(n, text) \in DOMAIN tree
  /\ tree[Append(n, text)].type = "kStatic"

(* MatchRoute's second choice: the parameter child. *)
HasParameterChild(tree, n) ==
  /\ Append(n, Wild) \in DOMAIN tree
  /\ tree[Append(n, Wild)].type = "kParameter"

(* A request path p has the form of pattern t, when the texts that match   *)
(* "^[a-zA-Z0-9_-]+$" are texts.                                           *)
Fits(t, p, texts) ==
  /\ Len(t) = Len(p)
  /\ \A i \in 1..Len(t) : IF t[i].var THEN p[i] \in texts ELSE t[i].text = p[i]
===============================================================================
