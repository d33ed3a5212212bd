----------------------------- MODULE JsonDocument -----------------------------
(***************************************************************************)
(* What a JSON builder promises to a program of statements                 *)
(*     json[k1]...[kn] = v;      json[k1]...[kn].CreateJsonObject();       *)
(* A statement names one place and decides about that place alone.  There  *)
(* is no cursor, no cached type and no pointer.                            *)
(***************************************************************************)
EXTENDS JsonTree

VARIABLES
  content,  \* the document
  expr,     \* the keys of the statement so far
  said,     \* what the last statement assigned
  failed    \* a subscript was applied to what is not an object

documentVars == <<content, expr, said, failed>>

DocumentInit ==
  /\ content = EmptyDocument
  /\ expr = << >>
  /\ said = Null
  /\ failed = FALSE

IsObject(p) == p \in DOMAIN content /\ content[p].type = "object"

Name(k) ==
  /\ ~failed
  /\ failed' = ~IsObject(expr)
  /\ expr' = Append(expr, k)
  /\ said' = Null
  /\ UNCHANGED content

(* A place takes any value when it is new, and later only values of the    *)
(* type it has.                                                            *)
Write(v) ==
  /\ ~failed
  /\ expr # << >>
  /\ content' = IF expr \in DOMAIN content /\ content[expr].type # v.type
                THEN content ELSE Put(content, expr, v)
  /\ expr' = << >>
  /\ said' = v
  /\ UNCHANGED failed

(* An object is made where there is nothing yet. *)
MakeObject ==
  /\ ~failed
  /\ expr # << >>
  /\ content' = IF expr \in DOMAIN content THEN content
                ELSE Put(content, expr, Object)
  /\ expr' = << >>
  /\ said' = Object
  /\ UNCHANGED failed

DocumentNext ==
  \/ \E k \in Keys : Name(k)
  \/ \E v \in Scalar : Write(v)
  \/ MakeObject

DocumentSpec == DocumentInit /\ [][DocumentNext]_documentVars
===============================================================================
