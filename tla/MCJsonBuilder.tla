---------------------------- MODULE MCJsonBuilder ----------------------------
(* Small instances of JsonBuilder. *)
EXTENDS JsonBuilder

(* What other builders hold: {}, {"a": x}. *)
OneMember == [p \in {Root, <<"a">>} |->
                IF p = Root THEN Object ELSE [type |-> "number", content |-> "x"]]
OtherDocuments == {EmptyDocument, OneMember}
===============================================================================
