---------------------------- MODULE MCRoutePattern ----------------------------
(* RoutePattern on every pattern of up to MaxLength characters. *)
EXTENDS RoutePattern

CONSTANT MaxLength  \* bound: characters in a pattern

AllPaths == UNION {[1..n -> Chars] : n \in 0..MaxLength}
===============================================================================
