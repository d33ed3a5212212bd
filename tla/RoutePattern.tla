----------------------------- MODULE RoutePattern -----------------------------
(***************************************************************************)
(* What AddRoute does with the characters of a pattern before the tree     *)
(* sees it: IsValidRoute's regular expression and its scan for braces,     *)
(* then SplitString at '/'.  Positions count from 1, so pos here is pos+1  *)
(* in the code.                                                            *)
(*                                                                         *)
(* Characters are of five kinds: '/', '{', '}', any other character of the *)
(* regular expression's class, and any character outside it.               *)
(***************************************************************************)
EXTENDS Naturals, Sequences

CONSTANT Paths  \* the patterns that are tried

Chars == {"slash", "open", "close", "other", "foreign"}
Braces == {"open", "close"}

ASSUME PathsAssumption == Paths \subseteq Seq(Chars)

VARIABLES
  path,    \* argument of AddRoute
  phase,   \* where AddRoute is with it
  pos,     \* pos in the scan, start in SplitString
  inside,  \* inside_param
  parts    \* endpoint_parts

vars == <<path, phase, pos, inside, parts>>

(* ^(/[...]+)*$ *)
MatchesRegex(p) ==
  \A i \in 1..Len(p) :
    /\ p[i] # "foreign"
    /\ i = 1 => p[i] = "slash"
    /\ p[i] = "slash" => i < Len(p) /\ p[i + 1] # "slash"

Init ==
  /\ path \in Paths
  /\ phase = "regex"
  /\ pos = 1
  /\ inside = FALSE
  /\ parts = << >>

TryRegex ==
  /\ phase = "regex"
  /\ phase' = IF MatchesRegex(path) THEN "scan" ELSE "rejected"
  /\ UNCHANGED <<path, pos, inside, parts>>

Scanning(c) == phase = "scan" /\ pos <= Len(path) /\ path[pos] = c

(* A mistake to catch: "}{" is not looked for. *)
BadBraceAlone ==
  \/ Scanning("open") /\ inside
  \/ Scanning("close") /\ ~inside

(* A brace that the scan does not admit at pos. *)
BadBrace ==
  \/ Scanning("open") /\ inside
  \/ Scanning("close") /\ ~inside
  \/ Scanning("close") /\ pos < Len(path) /\ path[pos + 1] = "open"

ScanRejects ==
  /\ BadBrace
  /\ phase' = "rejected"
  /\ UNCHANGED <<path, pos, inside, parts>>

(* A mistake to catch: the character looked at behind a '}' is skipped. *)
ScanBraceAndNext ==
  /\ Scanning("open") \/ Scanning("close")
  /\ ~BadBrace
  /\ inside' = (path[pos] = "open")
  /\ pos' = IF inside' THEN pos + 1 ELSE pos + 2
  /\ UNCHANGED <<path, phase, parts>>

ScanBrace ==
  /\ Scanning("open") \/ Scanning("close")
  /\ ~BadBrace
  /\ inside' = (path[pos] = "open")
  /\ pos' = pos + 1
  /\ UNCHANGED <<path, phase, parts>>

ScanOther ==
  /\ \E c \in Chars \ Braces : Scanning(c)
  /\ pos' = pos + 1
  /\ UNCHANGED <<path, phase, inside, parts>>

(* return !inside_param, and when it is true the start of SplitString. *)
ScanEnds ==
  /\ phase = "scan"
  /\ pos > Len(path)
  /\ phase' = IF inside THEN "rejected" ELSE "split"
  /\ pos' = 1
  /\ UNCHANGED <<path, inside, parts>>

(* Where str.find('/', start) finds one. *)
Delimiters == {i \in pos..Len(path) : path[i] = "slash"}
IsNextDelimiter(d) == \A j \in Delimiters : d <= j

(* A mistake to catch: the token takes its delimiter along. *)
TakePartAndDelimiter ==
  /\ phase = "split"
  /\ \E d \in Delimiters :
       /\ IsNextDelimiter(d)
       /\ parts' = Append(parts, SubSeq(path, pos, d))
       /\ pos' = d + 1
  /\ UNCHANGED <<path, phase, inside>>

(* One token before a delimiter. *)
TakePart ==
  /\ phase = "split"
  /\ \E d \in Delimiters :
       /\ IsNextDelimiter(d)
       /\ parts' = Append(parts, SubSeq(path, pos, d - 1))
       /\ pos' = d + 1
  /\ UNCHANGED <<path, phase, inside>>

(* The token after the last delimiter. *)
TakeLastPart ==
  /\ phase = "split"
  /\ Delimiters = {}
  /\ parts' = Append(parts, SubSeq(path, pos, Len(path)))
  /\ phase' = "accepted"
  /\ UNCHANGED <<path, pos, inside>>

Returned == phase \in {"accepted", "rejected"} /\ UNCHANGED vars

Next ==
  \/ TryRegex
  \/ ScanRejects
  \/ ScanBrace
  \/ ScanOther
  \/ ScanEnds
  \/ TakePart
  \/ TakeLastPart
  \/ Returned

Spec == Init /\ [][Next]_vars
-------------------------------------------------------------------------------
(* Types: the scan never looks behind the end of the pattern. *)
TypeOK ==
  /\ path \in Seq(Chars)
  /\ phase \in {"regex", "scan", "split", "accepted", "rejected"}
  /\ pos \in 1..(Len(path) + 1)
  /\ inside \in BOOLEAN
  /\ parts \in Seq(Seq(Chars))

(* Between i and j there is no brace. *)
NoBraceBetween(p, i, j) == \A k \in (i + 1)..(j - 1) : p[k] \notin Braces

(* Braces come in pairs, which neither nest nor touch: said of the whole   *)
(* pattern, with no scan.                                                  *)
WellBraced(p) ==
  /\ \A i \in 1..Len(p) : p[i] = "open" =>
       \E j \in (i + 1)..Len(p) : p[j] = "close" /\ NoBraceBetween(p, i, j)
  /\ \A j \in 1..Len(p) : p[j] = "close" =>
       \E i \in 1..(j - 1) : p[i] = "open" /\ NoBraceBetween(p, i, j)
  /\ \A i \in 1..(Len(p) - 1) : ~(p[i] = "close" /\ p[i + 1] = "open")

(* IsValidRoute accepts the patterns of its regular expression whose       *)
(* braces are in order, and no others.                                     *)
VerdictRight ==
  /\ phase \in {"split", "accepted"} => MatchesRegex(path) /\ WellBraced(path)
  /\ phase = "rejected" => ~(MatchesRegex(path) /\ WellBraced(path))

(* The parts with the delimiter between them. *)
Joined ==
  LET upTo[n \in 1..Len(parts)] ==
        IF n = 1 THEN parts[1] ELSE upTo[n - 1] \o <<"slash">> \o parts[n]
  IN  upTo[Len(parts)]

(* SplitString loses nothing and cuts at every delimiter; of an accepted   *)
(* pattern only the first part is empty, so AddRoute calls front() on an   *)
(* empty string exactly once, and no route has a node "" below another.    *)
SplitRight ==
  phase = "accepted" =>
    /\ Joined = path
    /\ \A i \in 1..Len(parts) :
         /\ \A k \in 1..Len(parts[i]) : parts[i][k] # "slash"
         /\ parts[i] = << >> <=> i = 1
===============================================================================
