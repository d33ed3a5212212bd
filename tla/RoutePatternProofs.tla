-------------------------- MODULE RoutePatternProofs --------------------------
(***************************************************************************)
(* IsValidRoute decides, for patterns of every length, what WellBraced     *)
(* says of the whole pattern.  The loop invariant is what a scan knows     *)
(* about the part of the pattern it has behind it.                         *)
(* SplitString's parts are the pattern cut at its delimiters.              *)
(***************************************************************************)
EXTENDS RoutePattern, SequenceTheorems, WellFoundedInduction, TLAPS

(* A '{' at i with no brace between it and pos. *)
OpenAt(i) == path[i] = "open" /\ NoBraceBetween(path, i, pos)

(* Every '}' behind pos has its '{' and no '{' right after it; every '{'   *)
(* behind pos has its '}' or is the open one, and inside_param tells       *)
(* whether there is an open one.                                           *)
Scanned ==
  /\ MatchesRegex(path)
  /\ \A j \in 1..(pos - 1) : path[j] = "close" =>
       \E i \in 1..(j - 1) : path[i] = "open" /\ NoBraceBetween(path, i, j)
  /\ \A i \in 1..(pos - 1) : path[i] = "close" /\ i < Len(path) => path[i + 1] # "open"
  /\ \A i \in 1..(pos - 1) : path[i] = "open" =>
       \/ \E j \in (i + 1)..(pos - 1) :
            path[j] = "close" /\ NoBraceBetween(path, i, j)
       \/ inside /\ OpenAt(i)
  /\ inside => \E i \in 1..(pos - 1) : OpenAt(i)

ScanTypes ==
  /\ path \in Seq(Chars)
  /\ phase \in {"regex", "scan", "split", "accepted", "rejected"}
  /\ inside \in BOOLEAN
  /\ phase = "scan" => pos \in 1..(Len(path) + 1)
  /\ phase = "regex" => pos = 1 /\ ~inside

Inv ==
  /\ ScanTypes
  /\ phase = "scan" => Scanned
  /\ VerdictRight

LEMMA InitInv == Init => Inv
<1> SUFFICES ASSUME Init PROVE Inv
  OBVIOUS
<1>1. inside \in BOOLEAN /\ ~inside
  BY Zenon DEF Init
<1> QED
  BY <1>1, PathsAssumption DEF Init, Inv, ScanTypes, VerdictRight

(* The regular expression decides, or hands over to an empty scan. *)
LEMMA TryRegexInv ==
  ASSUME Inv, TryRegex
  PROVE  Inv'
<1>1. ScanTypes'
  BY DEF Inv, ScanTypes, TryRegex
<1>2. (phase = "scan" => Scanned)'
  BY DEF Inv, ScanTypes, TryRegex, Scanned, OpenAt
<1>3. VerdictRight'
  BY DEF Inv, TryRegex, VerdictRight
<1> QED
  BY <1>1, <1>2, <1>3 DEF Inv

(* Each of the three bad braces contradicts WellBraced. *)
LEMMA ScanRejectsInv ==
  ASSUME Inv, ScanRejects
  PROVE  Inv'
<1>1. /\ phase = "scan" /\ phase' = "rejected"
      /\ pos \in 1..Len(path)
      /\ UNCHANGED <<path, pos, inside, parts>>
      /\ path \in Seq(Chars) /\ Scanned
  BY DEF Inv, ScanTypes, ScanRejects, BadBrace, Scanning
<1>2. ~WellBraced(path)
  <2>1. CASE Scanning("open") /\ inside
    <3>1. PICK o \in 1..(pos - 1) : OpenAt(o)
      BY <1>1, <2>1 DEF Scanned
    <3>2. ASSUME NEW j \in (o + 1)..Len(path), path[j] = "close"
          PROVE  ~NoBraceBetween(path, o, j)
      <4>1. CASE j < pos
        BY <1>1, <3>1, <3>2, <4>1 DEF OpenAt, NoBraceBetween, Braces
      <4>2. CASE j = pos
        BY <2>1, <3>2, <4>2 DEF Scanning
      <4>3. CASE pos < j
        BY <1>1, <2>1, <4>3 DEF NoBraceBetween, Braces, Scanning
      <4> QED
        BY <1>1, <4>1, <4>2, <4>3
    <3> QED
      BY <1>1, <3>1, <3>2 DEF WellBraced, OpenAt
  <2>2. CASE Scanning("close") /\ ~inside
    <3>1. ASSUME NEW i \in 1..(pos - 1), path[i] = "open"
          PROVE  ~NoBraceBetween(path, i, pos)
      <4>1. PICK j \in (i + 1)..(pos - 1) : path[j] = "close"
        BY <1>1, <2>2, <3>1 DEF Scanned
      <4> QED
        BY <4>1, <1>1 DEF NoBraceBetween, Braces
    <3> QED
      BY <1>1, <2>2, <3>1 DEF WellBraced, Scanning
  <2>3. CASE Scanning("close") /\ pos < Len(path) /\ path[pos + 1] = "open"
    BY <1>1, <2>3 DEF WellBraced, Scanning
  <2> QED
    BY <2>1, <2>2, <2>3 DEF ScanRejects, BadBrace
<1> QED
  BY <1>1, <1>2 DEF Inv, ScanTypes, VerdictRight

(* A brace that is admitted opens, or closes the open one. *)
LEMMA ScanBraceInv ==
  ASSUME Inv, ScanBrace
  PROVE  Inv'
<1>1. /\ phase = "scan" /\ phase' = "scan"
      /\ pos \in 1..Len(path) /\ pos' = pos + 1
      /\ path' = path /\ path \in Seq(Chars)
      /\ Scanned
  BY DEF Inv, ScanTypes, ScanBrace, Scanning
<1>2. /\ inside' \in BOOLEAN
      /\ path[pos] = "open" => inside'
      /\ path[pos] = "close" => ~inside'
  BY Zenon DEF ScanBrace
<1>3. Scanned'
  <2>1. CASE path[pos] = "open"
    <3>1. ~inside
      BY <1>1, <2>1 DEF ScanBrace, BadBrace, Scanning
    <3> QED
      BY <1>1, <1>2, <2>1, <3>1 DEF Scanned, OpenAt, NoBraceBetween
  <2>2. CASE path[pos] = "close"
    <3>1. inside /\ (pos < Len(path) => path[pos + 1] # "open")
      BY <1>1, <2>2 DEF ScanBrace, BadBrace, Scanning
    <3>2. PICK o \in 1..(pos - 1) : OpenAt(o)
      BY <1>1, <3>1 DEF Scanned
    <3>3. ASSUME NEW i \in 1..pos, path[i] = "open"
          PROVE  \E j \in (i + 1)..pos :
                   path[j] = "close" /\ NoBraceBetween(path, i, j)
      <4>1. i \in 1..(pos - 1)
        BY <1>1, <2>2, <3>3
      <4> QED
        BY <1>1, <2>2, <3>3, <4>1 DEF Scanned, OpenAt
    <3>4. ASSUME NEW j \in 1..pos, path[j] = "close"
          PROVE  \E i \in 1..(j - 1) :
                   path[i] = "open" /\ NoBraceBetween(path, i, j)
      BY <1>1, <3>2, <3>4 DEF Scanned, OpenAt
    <3>5. \A i \in 1..pos : path[i] = "close" /\ i < Len(path) => path[i + 1] # "open"
      BY <1>1, <3>1 DEF Scanned
    <3> QED
      BY <1>1, <1>2, <2>2, <3>3, <3>4, <3>5 DEF Scanned
  <2> QED
    BY <1>1, <2>1, <2>2 DEF ScanBrace, Scanning
<1> QED
  BY <1>1, <1>2, <1>3 DEF Inv, ScanTypes, VerdictRight

(* Any other character leaves the braces as they are. *)
LEMMA ScanOtherInv ==
  ASSUME Inv, ScanOther
  PROVE  Inv'
<1>1. /\ phase = "scan" /\ phase' = "scan"
      /\ pos \in 1..Len(path) /\ pos' = pos + 1
      /\ path' = path /\ path \in Seq(Chars) /\ inside' = inside
      /\ path[pos] \notin Braces
      /\ Scanned
  BY DEF Inv, ScanTypes, ScanOther, Scanning, Braces
<1>2. \A i \in 1..(pos - 1) : OpenAt(i) => OpenAt(i)'
  BY <1>1 DEF OpenAt, NoBraceBetween
<1>3. Scanned'
  BY <1>1, <1>2 DEF Scanned, Braces
<1> QED
  BY <1>1, <1>3 DEF Inv, ScanTypes, VerdictRight

(* The end of the scan: what it knows is all there is to know. *)
LEMMA ScanEndsInv ==
  ASSUME Inv, ScanEnds
  PROVE  Inv'
<1>1. /\ phase = "scan" /\ pos = Len(path) + 1 /\ pos' = 1
      /\ UNCHANGED <<path, inside>>
      /\ phase' = IF inside THEN "rejected" ELSE "split"
      /\ path \in Seq(Chars) /\ inside \in BOOLEAN
      /\ Scanned
  BY DEF Inv, ScanTypes, ScanEnds
<1>2. ScanTypes'
  BY <1>1 DEF ScanTypes
<1>3. CASE inside
  <2>1. PICK o \in 1..Len(path) : OpenAt(o)
    BY <1>1, <1>3 DEF Scanned
  <2>2. \A j \in (o + 1)..Len(path) : path[j] # "close"
    BY <1>1, <2>1 DEF OpenAt, NoBraceBetween, Braces
  <2>3. ~WellBraced(path)
    BY <2>1, <2>2 DEF WellBraced, OpenAt
  <2> QED
    BY <1>1, <1>2, <1>3, <2>3 DEF Inv, VerdictRight
<1>4. CASE ~inside
  <2>1. WellBraced(path)
    BY <1>1, <1>4 DEF Scanned, WellBraced
  <2> QED
    BY <1>1, <1>2, <1>4, <2>1 DEF Inv, VerdictRight, Scanned
<1> QED
  BY <1>3, <1>4

(* SplitString runs after the verdict and does not change it. *)
LEMMA SplitInv ==
  ASSUME Inv, TakePart \/ TakeLastPart
  PROVE  Inv'
<1>1. CASE TakePart
  BY <1>1 DEF TakePart, Inv, ScanTypes, VerdictRight
<1>2. CASE TakeLastPart
  BY <1>2 DEF TakeLastPart, Inv, ScanTypes, VerdictRight
<1> QED
  BY <1>1, <1>2

(* Router::IsValidRoute returns true exactly for the patterns of its       *)
(* regular expression whose braces come in pairs that neither nest nor     *)
(* touch, whatever the pattern and its length.                             *)
THEOREM VerdictIsRight == Spec => []VerdictRight
<1>1. Init => Inv
  BY InitInv
<1>2. Inv /\ [Next]_vars => Inv'
  <2> SUFFICES ASSUME Inv, [Next]_vars PROVE Inv'
    OBVIOUS
  <2>1. CASE TryRegex
    BY <2>1, TryRegexInv
  <2>2. CASE ScanRejects
    BY <2>2, ScanRejectsInv
  <2>3. CASE ScanBrace
    BY <2>3, ScanBraceInv
  <2>4. CASE ScanOther
    BY <2>4, ScanOtherInv
  <2>5. CASE ScanEnds
    BY <2>5, ScanEndsInv
  <2>6. CASE TakePart \/ TakeLastPart
    BY <2>6, SplitInv
  <2>7. CASE UNCHANGED vars
    BY <2>7 DEF vars, Inv, ScanTypes, VerdictRight, Scanned, OpenAt
  <2> QED
    BY <2>1, <2>2, <2>3, <2>4, <2>5, <2>6, <2>7 DEF Next, Returned
<1>3. Inv => VerdictRight
  BY DEF Inv
<1> QED
  BY <1>1, <1>2, <1>3, PTL DEF Spec
-------------------------------------------------------------------------------
(* A token is part of the pattern. *)
LEMMA TokenType ==
  ASSUME path \in Seq(Chars), pos \in Nat \ {0}, NEW last \in Nat, last <= Len(path)
  PROVE  SubSeq(path, pos, last) \in Seq(Chars)
<1>1. \A i \in pos..last : path[i] \in Chars
  OBVIOUS
<1> QED
  BY <1>1, SubSeqProperties

LEMMA TypeStep == TypeOK /\ [Next]_vars => TypeOK'
<1> SUFFICES ASSUME TypeOK, [Next]_vars PROVE TypeOK'
  OBVIOUS
<1> USE DEF TypeOK
<1>1. CASE TryRegex \/ ScanRejects
  BY <1>1 DEF TryRegex, ScanRejects
<1>2. CASE ScanBrace
  <2>1. inside' \in BOOLEAN
    BY <1>2, Zenon DEF ScanBrace
  <2>2. pos <= Len(path) /\ pos' = pos + 1 /\ UNCHANGED <<path, phase, parts>>
    BY <1>2 DEF ScanBrace, Scanning
  <2> QED
    BY <2>1, <2>2
<1>3. CASE ScanOther \/ ScanEnds
  BY <1>3 DEF ScanOther, ScanEnds, Scanning
<1>4. CASE TakePart
  <2>1. PICK d \in Delimiters :
          /\ parts' = Append(parts, SubSeq(path, pos, d - 1))
          /\ pos' = d + 1
          /\ UNCHANGED <<path, phase, inside>>
    BY <1>4 DEF TakePart
  <2>2. d \in 1..Len(path) /\ d - 1 \in Nat
    BY DEF Delimiters
  <2>3. SubSeq(path, pos, d - 1) \in Seq(Chars)
    BY <2>2, TokenType
  <2> QED
    BY <2>1, <2>2, <2>3
<1>5. CASE TakeLastPart
  <2>1. SubSeq(path, pos, Len(path)) \in Seq(Chars)
    BY TokenType
  <2> QED
    BY <1>5, <2>1 DEF TakeLastPart
<1>6. CASE UNCHANGED vars
  BY <1>6 DEF vars
<1> QED
  BY <1>1, <1>2, <1>3, <1>4, <1>5, <1>6 DEF Next, Returned

(* The scan and SplitString stay inside the pattern, or one behind its     *)
(* end, and the parts are made of its characters.                          *)
THEOREM PatternTypeCorrect == Spec => []TypeOK
<1>1. Init => TypeOK
  <2> SUFFICES ASSUME Init PROVE TypeOK
    OBVIOUS
  <2>1. inside \in BOOLEAN
    BY Zenon DEF Init
  <2> QED
    BY <2>1, PathsAssumption DEF Init, TypeOK
<1> QED
  BY <1>1, TypeStep, PTL DEF Spec
-------------------------------------------------------------------------------
(* The least number principle, for a set. *)
LEMMA LeastNatural ==
  ASSUME NEW T, T \subseteq Nat, T # {}
  PROVE  \E m \in T : \A k \in T : m <= k
<1> DEFINE R == OpToRel(<, Nat)
<1>1. \E m \in T : \A k \in T : <<k, m>> \notin R
  <2>1. IsWellFoundedOn(R, Nat)
    BY NatLessThanWellFounded
  <2> HIDE DEF R
  <2> QED
    BY <2>1, WFMin
<1>2. \A k, m \in Nat : k < m => <<k, m>> \in R
  BY DEF OpToRel
<1>3. PICK m \in T : \A k \in T : <<k, m>> \notin R
  BY <1>1
<1> HIDE DEF R
<1>4. ASSUME NEW k \in T PROVE m <= k
  <2>1. k \in Nat /\ m \in Nat /\ ~(k < m)
    BY <1>2, <1>3
  <2> QED
    BY <2>1
<1> QED
  BY <1>4

(* The parts are what lies between the delimiters: b[n] is where part n    *)
(* begins, and the delimiter behind part n, or the end of the pattern,     *)
(* stands at b[n + 1] - 1.                                                 *)
Cut(b) ==
  /\ b \in [1..(Len(parts) + 1) -> Nat \ {0}]
  /\ b[1] = 1
  /\ \A n \in 1..Len(parts) :
       /\ b[n] < b[n + 1] /\ b[n + 1] <= Len(path) + 2
       /\ parts[n] = SubSeq(path, b[n], b[n + 1] - 2)
       /\ \A k \in b[n]..(b[n + 1] - 2) : path[k] # "slash"
  /\ \A n \in 2..Len(parts) : path[b[n] - 1] = "slash"

(* How far SplitString has got. *)
CutInv ==
  /\ phase \notin {"split", "accepted"} => parts = << >>
  /\ phase = "split" =>
       \E b : /\ Cut(b) /\ b[Len(parts) + 1] = pos
              /\ parts # << >> => path[pos - 1] = "slash"
  /\ phase = "accepted" =>
       /\ parts # << >>
       /\ \E b : Cut(b) /\ b[Len(parts) + 1] = Len(path) + 2

(* One part more. *)
LEMMA NextCut ==
  ASSUME TypeOK, path' = path, NEW b, Cut(b), b[Len(parts) + 1] = pos,
         parts # << >> => path[pos - 1] = "slash",
         NEW d \in Nat, pos <= d, d <= Len(path) + 1,
         \A k \in pos..(d - 1) : path[k] # "slash",
         parts' = Append(parts, SubSeq(path, pos, d - 1))
  PROVE  \E c : Cut(c)' /\ c[Len(parts') + 1] = d + 1
<1> PICK l : l = Len(parts)
  OBVIOUS
<1> PICK c : c = [n \in 1..(l + 2) |-> IF n = l + 2 THEN d + 1 ELSE b[n]]
  OBVIOUS
<1>1. /\ parts \in Seq(Seq(Chars)) /\ l \in Nat /\ path \in Seq(Chars)
      /\ Len(parts') = l + 1
      /\ parts'[l + 1] = SubSeq(path, pos, d - 1)
      /\ \A n \in 1..l : parts'[n] = parts[n]
  BY DEF TypeOK
<1>2. /\ c \in [1..(l + 2) -> Nat \ {0}] /\ c[1] = 1
      /\ c[l + 2] = d + 1 /\ c[l + 1] = pos
      /\ \A n \in 1..(l + 1) : c[n] = b[n]
  BY <1>1 DEF Cut
<1>3. ASSUME NEW n \in 1..(l + 1)
      PROVE  /\ c[n] < c[n + 1] /\ c[n + 1] <= Len(path) + 2
             /\ parts'[n] = SubSeq(path, c[n], c[n + 1] - 2)
             /\ \A k \in c[n]..(c[n + 1] - 2) : path[k] # "slash"
  <2>1. CASE n = l + 1
    <3>1. c[n] = pos /\ c[n + 1] = d + 1 /\ c[n + 1] - 2 = d - 1 /\ pos \in Nat
      BY <1>1, <1>2, <2>1 DEF TypeOK
    <3>2. c[n] < c[n + 1] /\ c[n + 1] <= Len(path) + 2
      BY <1>1, <3>1
    <3>3. parts'[n] = SubSeq(path, c[n], c[n + 1] - 2)
      BY <1>1, <2>1, <3>1
    <3>4. \A k \in c[n]..(c[n + 1] - 2) : path[k] # "slash"
      BY <3>1
    <3> QED
      BY <3>2, <3>3, <3>4
  <2>2. CASE n # l + 1
    <3>1. n \in 1..l /\ n + 1 \in 1..(l + 1)
      BY <1>1, <2>2
    <3> QED
      BY <1>1, <1>2, <3>1 DEF Cut
  <2> QED
    BY <2>1, <2>2
<1>4. ASSUME NEW n \in 2..(l + 1)
      PROVE  path[c[n] - 1] = "slash"
  <2>1. CASE n = l + 1
    <3>1. parts # << >>
      BY <1>1, <2>1
    <3> QED
      BY <1>2, <2>1, <3>1
  <2>2. CASE n # l + 1
    <3>1. n \in 2..l /\ n \in 1..(l + 1)
      BY <1>1, <2>2
    <3>2. path[b[n] - 1] = "slash"
      BY <3>1 DEF Cut
    <3> QED
      BY <1>2, <3>1, <3>2
  <2> QED
    BY <2>1, <2>2
<1>5. Cut(c)'
  <2>1. Len(parts') + 1 = l + 2
    BY <1>1
  <2> QED
    BY <1>1, <1>2, <1>3, <1>4, <2>1 DEF Cut
<1> QED
  BY <1>1, <1>2, <1>5

LEMMA CutStep == TypeOK /\ CutInv /\ [Next]_vars => CutInv'
<1> SUFFICES ASSUME TypeOK, CutInv, [Next]_vars PROVE CutInv'
  OBVIOUS
<1>1. CASE TryRegex \/ ScanRejects \/ ScanOther
  BY <1>1 DEF TryRegex, ScanRejects, ScanOther, BadBrace, Scanning, CutInv
<1>2. CASE ScanBrace
  <2>1. phase = "scan" /\ UNCHANGED <<path, phase, parts>>
    BY <1>2 DEF ScanBrace, Scanning
  <2> QED
    BY <2>1 DEF CutInv
<1>3. CASE ScanEnds
  <2>1. /\ parts' = << >> /\ pos' = 1 /\ path' = path
        /\ phase' \in {"rejected", "split"}
    BY <1>3 DEF ScanEnds, CutInv
  <2> DEFINE b == [n \in 1..1 |-> 1]
  <2>2. Cut(b)' /\ b[1] = 1
    BY <2>1 DEF Cut
  <2>3. \E c : /\ Cut(c)' /\ c[Len(parts') + 1] = pos'
               /\ parts' # << >> => path'[pos' - 1] = "slash"
    BY <2>1, <2>2
  <2> QED
    BY <2>1, <2>3 DEF CutInv
<1>4. CASE TakePart
  <2>1. PICK d \in Delimiters :
          /\ IsNextDelimiter(d)
          /\ parts' = Append(parts, SubSeq(path, pos, d - 1))
          /\ pos' = d + 1
          /\ UNCHANGED <<path, phase, inside>>
    BY <1>4 DEF TakePart
  <2>2. /\ phase = "split" /\ pos \in 1..(Len(path) + 1) /\ Len(path) \in Nat
        /\ d \in pos..Len(path) /\ path[d] = "slash"
        /\ \A k \in pos..(d - 1) : path[k] # "slash"
    <3>1. phase = "split" /\ pos \in 1..(Len(path) + 1) /\ Len(path) \in Nat
      BY <1>4 DEF TakePart, TypeOK
    <3> QED
      BY <2>1, <3>1 DEF Delimiters, IsNextDelimiter
  <2>3. PICK b : /\ Cut(b) /\ b[Len(parts) + 1] = pos
                 /\ parts # << >> => path[pos - 1] = "slash"
    BY <2>2 DEF CutInv
  <2>4. \E c : Cut(c)' /\ c[Len(parts') + 1] = d + 1
    BY <2>1, <2>2, <2>3, NextCut
  <2>5. path'[pos' - 1] = "slash" /\ phase' = "split"
    BY <2>1, <2>2
  <2> QED
    BY <2>1, <2>4, <2>5 DEF CutInv
<1>5. CASE TakeLastPart
  <2>1. /\ phase = "split" /\ pos \in 1..(Len(path) + 1) /\ Len(path) \in Nat
        /\ path' = path /\ phase' = "accepted"
        /\ parts' = Append(parts, SubSeq(path, pos, Len(path)))
        /\ Delimiters = {}
    BY <1>5 DEF TakeLastPart, TypeOK
  <2>2. PICK b : /\ Cut(b) /\ b[Len(parts) + 1] = pos
                 /\ parts # << >> => path[pos - 1] = "slash"
    BY <2>1 DEF CutInv
  <2> DEFINE d == Len(path) + 1
  <2>3. /\ d \in Nat /\ pos <= d /\ d - 1 = Len(path)
        /\ \A k \in pos..(d - 1) : path[k] # "slash"
    BY <2>1 DEF Delimiters
  <2>4. \E c : Cut(c)' /\ c[Len(parts') + 1] = d + 1
    BY <2>1, <2>2, <2>3, NextCut
  <2>5. d + 1 = Len(path') + 2 /\ parts' # << >>
    BY <2>1 DEF TypeOK
  <2> QED
    BY <2>1, <2>4, <2>5 DEF CutInv
<1>6. CASE UNCHANGED vars
  BY <1>6 DEF vars, CutInv, Cut
<1> QED
  BY <1>1, <1>2, <1>3, <1>4, <1>5, <1>6 DEF Next, Returned

(* Two neighbours with their delimiter are a stretch of the pattern. *)
LEMMA Rejoined ==
  ASSUME NEW p \in Seq(Chars), NEW d \in 1..Len(p), p[d] = "slash",
         NEW j \in d..Len(p)
  PROVE  SubSeq(p, 1, d - 1) \o <<"slash">> \o SubSeq(p, d + 1, j) = SubSeq(p, 1, j)
<1> DEFINE a == SubSeq(p, 1, d - 1)
           z == SubSeq(p, d + 1, j)
           s == SubSeq(p, 1, j)
           m == a \o <<"slash">>
<1>0. /\ \A i \in 1..Len(p) : p[i] \in Chars
      /\ d \in Nat /\ j \in Nat /\ Len(p) \in Nat /\ 1 <= d /\ d <= j /\ j <= Len(p)
      /\ "slash" \in Chars
  BY ElementOfSeq DEF Chars
<1>1. a \in Seq(Chars) /\ Len(a) = d - 1 /\ \A i \in 1..(d - 1) : a[i] = p[i]
  BY <1>0, SubSeqProperties
<1>2. z \in Seq(Chars) /\ Len(z) = j - d /\ \A i \in 1..(j - d) : z[i] = p[d + i]
  BY <1>0, SubSeqProperties
<1>3. s \in Seq(Chars) /\ Len(s) = j /\ \A i \in 1..j : s[i] = p[i]
  BY <1>0, SubSeqProperties
<1> HIDE DEF a, z, s
<1>4. m \in Seq(Chars) /\ Len(m) = d /\ \A i \in 1..d : m[i] = p[i]
  <2>1. <<"slash">> \in Seq(Chars) /\ Len(<<"slash">>) = 1 /\ <<"slash">>[1] = "slash"
    BY <1>0
  <2> QED
    BY <1>0, <1>1, <2>1, ConcatProperties
<1> HIDE DEF m
<1>5. m \o z \in Seq(Chars) /\ Len(m \o z) = j /\ \A i \in 1..j : (m \o z)[i] = p[i]
  <2>1. /\ m \o z \in Seq(Chars) /\ Len(m \o z) = j
        /\ \A i \in 1..j : (m \o z)[i] = IF i <= d THEN m[i] ELSE z[i - d]
    <3>1. /\ m \o z \in Seq(Chars) /\ Len(m \o z) = Len(m) + Len(z)
          /\ \A i \in 1..(Len(m) + Len(z)) :
               (m \o z)[i] = IF i <= Len(m) THEN m[i] ELSE z[i - Len(m)]
      BY <1>2, <1>4, ConcatProperties
    <3>2. Len(m) = d /\ Len(m) + Len(z) = j
      BY <1>0, <1>2, <1>4
    <3> QED
      BY <3>1, <3>2
  <2>2. ASSUME NEW i \in 1..j
        PROVE  (m \o z)[i] = p[i]
    <3>1. CASE i <= d
      BY <1>0, <1>4, <2>1, <3>1
    <3>2. CASE ~(i <= d)
      <4>1. i - d \in 1..(j - d) /\ d + (i - d) = i
        BY <1>0, <3>2
      <4> QED
        BY <1>2, <2>1, <3>2, <4>1
    <3> QED
      BY <3>1, <3>2
  <2> QED
    BY <2>1, <2>2
<1>6. m \o z = s
  BY <1>3, <1>5, SeqEqual
<1> QED
  BY <1>6 DEF m, a, z, s

LEMMA CutFacts ==
  ASSUME TypeOK, NEW b, Cut(b), NEW n \in 1..Len(parts)
  PROVE  /\ b[n] \in Nat \ {0} /\ b[n + 1] \in Nat \ {0}
         /\ b[n] < b[n + 1] /\ b[n + 1] <= Len(path) + 2
         /\ parts[n] = SubSeq(path, b[n], b[n + 1] - 2)
         /\ \A k \in b[n]..(b[n + 1] - 2) : path[k] # "slash"
<1>1. n \in 1..(Len(parts) + 1) /\ n + 1 \in 1..(Len(parts) + 1)
  BY DEF TypeOK
<1>2. b \in [1..(Len(parts) + 1) -> Nat \ {0}]
  BY DEF Cut
<1>3. b[n] \in Nat \ {0} /\ b[n + 1] \in Nat \ {0}
  BY <1>1, <1>2
<1> QED
  BY <1>3 DEF Cut

(* Arithmetic on where a part begins and where the next one does. *)
LEMMA Places ==
  ASSUME NEW x \in Nat \ {0}, NEW y \in Nat \ {0}, NEW m \in Nat, x < y, y <= m + 2
  PROVE  /\ y - 2 \in Int /\ x <= (y - 2) + 1 /\ y - 2 <= m /\ y = (y - 2) + 2
         /\ x - 1 \in Nat /\ x - 1 <= y - 2 /\ y - 2 \in (x - 1)..m
         /\ (x - 1) + 1 = x /\ (x - 1) - 1 = x - 2
  OBVIOUS

(* The delimiter before a part. *)
LEMMA DelimiterBefore ==
  ASSUME TypeOK, NEW b, Cut(b), NEW n \in 2..Len(parts)
  PROVE  /\ b[n] - 1 \in 1..Len(path) /\ path[b[n] - 1] = "slash"
         /\ n - 1 \in 1..Len(parts)
<1>1. /\ n \in 1..Len(parts) /\ n - 1 \in 1..Len(parts) /\ (n - 1) + 1 = n
      /\ Len(path) \in Nat
  BY DEF TypeOK
<1>2. b[n - 1] \in Nat \ {0} /\ b[n - 1] < b[(n - 1) + 1]
  BY <1>1, CutFacts
<1>3. b[n] \in Nat \ {0} /\ b[n] < b[n + 1] /\ b[n + 1] <= Len(path) + 2 /\ b[n + 1] \in Nat
  BY <1>1, CutFacts
<1>4. b[n] - 1 \in 1..Len(path)
  BY <1>1, <1>2, <1>3
<1>5. path[b[n] - 1] = "slash"
  BY DEF Cut
<1> QED
  BY <1>1, <1>4, <1>5

(* Joining the parts up to part n gives the pattern up to the delimiter    *)
(* behind part n, hence in the end the whole pattern.                      *)
LEMMA JoinedIsPath ==
  ASSUME TypeOK, parts # << >>, NEW b, Cut(b), b[Len(parts) + 1] = Len(path) + 2
  PROVE  Joined = path
<1> DEFINE l == Len(parts)
           Joins(g) == g = [n \in 1..l |-> IF n = 1 THEN parts[1]
                                           ELSE g[n - 1] \o <<"slash">> \o parts[n]]
           w == [n \in 1..l |-> SubSeq(path, 1, b[n + 1] - 2)]
<1>1. Joined = (CHOOSE g : Joins(g))[l]
  BY DEF Joined
<1>2. /\ path \in Seq(Chars) /\ parts \in Seq(Seq(Chars))
      /\ l \in Nat /\ l >= 1 /\ Len(path) \in Nat
  BY DEF TypeOK
<1>3. Joins(w)
  <2> SUFFICES ASSUME NEW n \in 1..l
               PROVE  w[n] = IF n = 1 THEN parts[1]
                             ELSE w[n - 1] \o <<"slash">> \o parts[n]
    OBVIOUS
  <2>1. CASE n = 1
    BY <1>2, <2>1 DEF Cut
  <2>2. CASE n # 1
    <3>a. PICK d : d = b[n] - 1
      OBVIOUS
    <3>b. PICK j : j = b[n + 1] - 2
      OBVIOUS
    <3>1. /\ n \in 2..l /\ n - 1 \in 1..l /\ (n - 1) + 1 = n
          /\ b[n] \in Nat /\ b[n + 1] \in Nat
          /\ b[n] < b[n + 1] /\ b[n + 1] <= Len(path) + 2
          /\ parts[n] = SubSeq(path, b[n], j)
      BY <1>2, <2>2, <3>b, CutFacts
    <3>2. d \in 1..Len(path) /\ path[d] = "slash"
      BY <3>1, <3>a, DelimiterBefore
    <3>4. j \in d..Len(path) /\ d + 1 = b[n] /\ d - 1 = b[n] - 2
      <4>1. b[n] \in Nat \ {0} /\ b[n + 1] \in Nat \ {0}
        BY <1>2, <3>1, CutFacts
      <4> QED
        BY <1>2, <3>1, <4>1, <3>a, <3>b, Places
    <3>3. SubSeq(path, 1, d - 1) \o <<"slash">> \o SubSeq(path, d + 1, j) = SubSeq(path, 1, j)
      BY <1>2, <3>2, <3>4, Rejoined
    <3>5. w[n] = SubSeq(path, 1, j) /\ w[n - 1] = SubSeq(path, 1, d - 1)
      BY <3>1, <3>4, <3>a, <3>b
    <3> QED
      BY <2>2, <3>1, <3>3, <3>4, <3>5
  <2> QED
    BY <2>1, <2>2
<1> HIDE DEF w, l
<1>4. PICK g : Joins(g) /\ Joined = g[l]
  BY <1>1, <1>3
<1>5. \A n \in 1..l : g[n] = w[n]
  <2> SUFFICES ASSUME NEW n \in 1..l, g[n] # w[n] PROVE FALSE
    OBVIOUS
  <2> DEFINE T == {i \in 1..l : g[i] # w[i]}
  <2>1. T \subseteq Nat /\ T # {}
    <3>1. n \in T
      OBVIOUS
    <3>2. \A k \in 1..l : k \in Nat
      BY <1>2
    <3> QED
      BY <3>1, <3>2
  <2>2. PICK i \in T : \A k \in T : i <= k
    BY <2>1, LeastNatural
  <2>3. i \in 1..l /\ g[i] # w[i] /\ (i # 1 => i - 1 \in 1..l /\ g[i - 1] = w[i - 1])
    BY <1>2, <2>2
  <2>4. g[i] = IF i = 1 THEN parts[1] ELSE g[i - 1] \o <<"slash">> \o parts[i]
    BY <1>4, <2>3
  <2>5. w[i] = IF i = 1 THEN parts[1] ELSE w[i - 1] \o <<"slash">> \o parts[i]
    BY <1>3, <2>3
  <2> QED
    BY <2>3, <2>4, <2>5
<1>6. w[l] = path
  <2>1. w[l] = SubSeq(path, 1, (Len(path) + 2) - 2)
    BY <1>2 DEF w, l
  <2>2. (Len(path) + 2) - 2 = Len(path)
    BY <1>2
  <2> QED
    BY <1>2, <2>1, <2>2, SubSeqFull
<1> QED
  <2>1. l \in 1..l
    BY <1>2
  <2> QED
    BY <1>4, <1>5, <1>6, <2>1

(* No part takes a delimiter along, and only the one before the first      *)
(* delimiter is empty.                                                     *)
LEMMA PartsOfRoute ==
  ASSUME TypeOK, MatchesRegex(path), parts # << >>, NEW b, Cut(b),
         b[Len(parts) + 1] = Len(path) + 2, NEW i \in 1..Len(parts)
  PROVE  /\ \A k \in 1..Len(parts[i]) : parts[i][k] # "slash"
         /\ parts[i] = << >> <=> i = 1
<1>0. /\ path \in Seq(Chars) /\ parts \in Seq(Seq(Chars)) /\ Len(path) \in Nat
      /\ Len(parts) \in Nat /\ Len(parts) >= 1
  BY DEF TypeOK
<1>a. PICK f : f = b[i]
  OBVIOUS
<1>b. PICK e : e = b[i + 1] - 2
  OBVIOUS
<1>1. /\ f \in Nat /\ f >= 1 /\ e \in Int /\ f <= e + 1 /\ e <= Len(path)
      /\ b[i + 1] = e + 2
      /\ parts[i] = SubSeq(path, f, e)
      /\ \A k \in f..e : path[k] # "slash"
  <2>1. /\ b[i] \in Nat \ {0} /\ b[i + 1] \in Nat \ {0}
        /\ b[i] < b[i + 1] /\ b[i + 1] <= Len(path) + 2
        /\ parts[i] = SubSeq(path, f, e)
        /\ \A k \in f..e : path[k] # "slash"
    BY <1>a, <1>b, CutFacts
  <2> QED
    <3>1. /\ b[i + 1] - 2 \in Int /\ b[i] <= (b[i + 1] - 2) + 1
          /\ b[i + 1] - 2 <= Len(path) /\ b[i + 1] = (b[i + 1] - 2) + 2
      BY <1>0, <2>1, Places
    <3>2. f \in Nat /\ f >= 1
      BY <1>a, <2>1
    <3> QED
      BY <1>a, <1>b, <2>1, <3>1, <3>2
<1>2. /\ Len(parts[i]) = (e + 1) - f
      /\ \A k \in 1..Len(parts[i]) : parts[i][k] = path[f + k - 1]
  <2>1. \A k \in f..e : path[k] \in Chars
    BY <1>0, <1>1, ElementOfSeq
  <2>2. /\ Len(SubSeq(path, f, e)) = (IF f <= e THEN e - f + 1 ELSE 0)
        /\ \A k \in 1..(e - f + 1) : SubSeq(path, f, e)[k] = path[f + k - 1]
    BY <1>1, <2>1, SubSeqProperties
  <2>3. (IF f <= e THEN e - f + 1 ELSE 0) = (e + 1) - f /\ (e + 1) - f = e - f + 1
    BY <1>1
  <2> QED
    BY <1>1, <2>2, <2>3
<1>3. \A k \in 1..Len(parts[i]) : parts[i][k] # "slash"
  <2> SUFFICES ASSUME NEW k \in 1..((e + 1) - f) PROVE path[f + k - 1] # "slash"
    BY <1>2
  <2>1. f + k - 1 \in f..e
    BY <1>1
  <2> QED
    BY <1>1, <2>1
<1>4. parts[i] = << >> <=> f = e + 1
  <2>1. parts[i] \in Seq(Chars)
    BY <1>0, ElementOfSeq
  <2>2. parts[i] = << >> <=> Len(parts[i]) = 0
    BY <2>1, EmptySeq
  <2> QED
    BY <1>1, <1>2, <2>2
<1>5. CASE i = 1
  <2>1. f = 1
    BY <1>5, <1>a DEF Cut
  <2>2. CASE Len(path) = 0
    BY <1>1, <1>3, <1>4, <1>5, <2>1, <2>2
  <2>3. CASE Len(path) # 0
    <3>1. path[1] = "slash"
      BY <1>0, <2>3 DEF MatchesRegex
    <3>2. ~(1 \in f..e)
      BY <1>1, <3>1
    <3>3. f = e + 1
      BY <1>1, <2>1, <3>2
    <3> QED
      BY <1>3, <1>4, <1>5, <3>3
  <2> QED
    BY <2>2, <2>3
<1>6. CASE i # 1
  <2>a. PICK d : d = f - 1
    OBVIOUS
  <2>1. d \in 1..Len(path) /\ path[d] = "slash" /\ d + 1 = f
    <3>1. i \in 2..Len(parts)
      BY <1>0, <1>6
    <3> QED
      BY <1>1, <1>a, <2>a, <3>1, DelimiterBefore
  <2>2. d < Len(path) /\ path[f] # "slash"
    BY <2>1 DEF MatchesRegex
  <2>3. ASSUME f = e + 1 PROVE FALSE
    <3>1. CASE i = Len(parts)
      <4>1. e = Len(path)
        BY <1>0, <1>1, <3>1
      <4> QED
        BY <1>0, <2>1, <2>2, <2>3, <4>1
    <3>2. CASE i # Len(parts)
      <4>1. i + 1 \in 2..Len(parts)
        BY <1>0, <3>2
      <4>2. path[b[i + 1] - 1] = "slash"
        BY <4>1, DelimiterBefore
      <4>3. b[i + 1] - 1 = f
        BY <1>1, <2>3
      <4> QED
        BY <2>2, <4>2, <4>3
    <3> QED
      BY <3>1, <3>2
  <2> QED
    BY <1>3, <1>4, <1>6, <2>3
<1> QED
  BY <1>5, <1>6

(* SplitString's parts, joined at '/', are the pattern again, none of them *)
(* holds a '/', and only the first is empty: whatever the pattern and its  *)
(* length, AddRoute calls front() on one empty part.                       *)
THEOREM SplitIsRight == Spec => []SplitRight
<1>1. Init => CutInv
  BY DEF Init, CutInv
<1>2. TypeOK /\ VerdictRight /\ CutInv => SplitRight
  <2> SUFFICES ASSUME TypeOK, VerdictRight, CutInv, phase = "accepted"
               PROVE  /\ Joined = path
                      /\ \A i \in 1..Len(parts) :
                           /\ \A k \in 1..Len(parts[i]) : parts[i][k] # "slash"
                           /\ parts[i] = << >> <=> i = 1
    BY DEF SplitRight
  <2>1. PICK b : Cut(b) /\ b[Len(parts) + 1] = Len(path) + 2 /\ parts # << >>
    BY DEF CutInv
  <2>2. MatchesRegex(path)
    BY DEF VerdictRight
  <2> QED
    BY <2>1, <2>2, JoinedIsPath, PartsOfRoute
<1> QED
  BY PatternTypeCorrect, VerdictIsRight, CutStep, <1>1, <1>2, PTL DEF Spec
================================================================================
