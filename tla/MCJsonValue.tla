----------------------------- MODULE MCJsonValue -----------------------------
(* Small instances of JsonValue. *)
EXTENDS JsonValue

(* {} of a new Value, {"a": "x"}, and the null of a Value that was         *)
(* assigned a std::nullopt.                                                *)
OtherValues ==
  {[root |-> ObjectOf(NoMembers), empty |-> TRUE],
   [root |-> ObjectOf([k \in {"a"} |-> [type |-> "string", content |-> "x"]]),
    empty |-> FALSE],
   [root |-> Null, empty |-> TRUE]}
===============================================================================
