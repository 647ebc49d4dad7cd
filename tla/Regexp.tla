-------------------------------- MODULE Regexp --------------------------------
(***************************************************************************)
(* Parsed regular expressions, and what they match.  The constructors are  *)
(* the nodes of Go's regexp/syntax that the compiler of nfa/compile.go     *)
(* handles byte by byte.  Matches is the reference every engine is held    *)
(* to: leftmost-first ("Perl") preference, read off the syntax tree with   *)
(* no automaton in between.  Bytes are numbers; a position is the number   *)
(* of bytes before it.                                                     *)
(***************************************************************************)
EXTENDS Integers, Sequences, SequencesExt

Literal(bytes) == [op |-> "literal", bytes |-> bytes, fold |-> FALSE]
FoldLiteral(bytes) == [op |-> "literal", bytes |-> bytes, fold |-> TRUE]
CharClass(ranges) == [op |-> "charclass", ranges |-> ranges]
Concat(subs) == [op |-> "concat", subs |-> subs]
Alternate(subs) == [op |-> "alternate", subs |-> subs]
Star(sub) == [op |-> "star", sub |-> sub, lazy |-> FALSE]
Plus(sub) == [op |-> "plus", sub |-> sub, lazy |-> FALSE]
Quest(sub) == [op |-> "quest", sub |-> sub, lazy |-> FALSE]
NonGreedy(re) == [re EXCEPT !.lazy = TRUE]
Repeat(sub, min, max) == [op |-> "repeat", sub |-> sub, min |-> min, max |-> max, lazy |-> FALSE]
Group(k, sub) == [op |-> "capture", sub |-> sub, group |-> k]
Look(look) == [op |-> "look", look |-> look]
EmptyMatch == [op |-> "empty"]

(* The byte classes of ".", which the parser keeps apart from the classes  *)
(* that are spelled out.                                                   *)
AnyCharNotNL == CharClass(<<<<0, 9>>, <<11, 127>>>>)
IsAnyChar(re) == re = AnyCharNotNL
IsClass(re) == re.op = "charclass" /\ ~IsAnyChar(re)

Unbounded == -1      \* the max of x{n,}

-----------------------------------------------------------------------------
(* Zero-width assertions at position i of w.                               *)

Newline == 10
CarriageReturn == 13
IsLetter(b) == b \in 97..122 \/ b \in 65..90
IsWord(b) == IsLetter(b) \/ b \in 48..57 \/ b = 95
WordBefore(w, i) == i > 0 /\ IsWord(w[i])
WordAfter(w, i) == i < Len(w) /\ IsWord(w[i + 1])

Holds(look, w, i) ==
  CASE look = "StartText" -> i = 0
    [] look = "EndText" -> i = Len(w)
    [] look = "StartLine" -> i = 0 \/ w[i] = Newline
    [] look = "EndLine" -> i = Len(w) \/ w[i + 1] = Newline
    [] look = "WordBoundary" -> WordBefore(w, i) # WordAfter(w, i)
    [] look = "NoWordBoundary" -> WordBefore(w, i) = WordAfter(w, i)

-----------------------------------------------------------------------------
(* The matches of re that continue the match m, in order of preference.  A *)
(* match is its end and what the groups it went through captured.  A       *)
(* repetition goes on only after an iteration that consumed something, so  *)
(* it is finite.                                                           *)

NoGroups == <<>>
From(i) == [end |-> i, groups |-> NoGroups]

SameByte(b, c, fold) ==
  \/ b = c
  \/ fold /\ IsLetter(b) /\ IsLetter(c) /\ b % 32 = c % 32

RECURSIVE Matches(_, _, _)
RECURSIVE MatchesOfAll(_, _, _)
RECURSIVE MatchesOfLoop(_, _, _)

(* One more iteration of the loop re.sub after m, or the way out.          *)
MatchesOfLoop(re, w, m) ==
  LET on(n) == IF n.end = m.end THEN <<n>>
               ELSE IF re.lazy THEN <<n>> \o MatchesOfLoop(re, w, n)
                               ELSE MatchesOfLoop(re, w, n) \o <<n>>
      first == Matches(re.sub, w, m)
  IN  FlattenSeq([k \in 1..Len(first) |-> on(first[k])])

MatchesOfAll(subs, w, m) ==
  IF subs = <<>> THEN <<m>>
  ELSE LET first == Matches(Head(subs), w, m)
       IN  FlattenSeq([k \in 1..Len(first) |-> MatchesOfAll(Tail(subs), w, first[k])])

Matches(re, w, m) ==
  LET i == m.end
      after(k) == <<[m EXCEPT !.end = i + k]>>
  IN  CASE re.op = "literal" ->
             IF /\ i + Len(re.bytes) <= Len(w)
                /\ \A k \in 1..Len(re.bytes) : SameByte(w[i + k], re.bytes[k], re.fold)
             THEN after(Len(re.bytes)) ELSE <<>>
        [] re.op = "charclass" ->
             IF i < Len(w) /\ \E k \in 1..Len(re.ranges) :
                                w[i + 1] \in re.ranges[k][1]..re.ranges[k][2]
             THEN after(1) ELSE <<>>
        [] re.op = "concat" -> MatchesOfAll(re.subs, w, m)
        [] re.op = "alternate" ->
             FlattenSeq([k \in 1..Len(re.subs) |-> Matches(re.subs[k], w, m)])
        [] re.op = "plus" -> MatchesOfLoop(re, w, m)
        [] re.op = "star" ->
             IF re.lazy THEN <<m>> \o MatchesOfLoop(re, w, m) ELSE MatchesOfLoop(re, w, m) \o <<m>>
        [] re.op = "quest" ->
             IF re.lazy THEN <<m>> \o Matches(re.sub, w, m) ELSE Matches(re.sub, w, m) \o <<m>>
        [] re.op = "repeat" ->
             LET more == [op |-> IF re.max = Unbounded THEN "star" ELSE "quest",
                          sub |-> re.sub, lazy |-> re.lazy]
                 optional == IF re.max = Unbounded THEN 1 ELSE re.max - re.min
             IN  MatchesOfAll([k \in 1..re.min |-> re.sub] \o [k \in 1..optional |-> more], w, m)
        [] re.op = "capture" ->
             LET inner == Matches(re.sub, w, m)
             IN  [k \in 1..Len(inner) |->
                    [inner[k] EXCEPT !.groups = (re.group :> <<i, inner[k].end>>) @@ @]]
        [] re.op = "look" -> IF Holds(re.look, w, i) THEN <<m>> ELSE <<>>
        [] re.op = "empty" -> <<m>>

(* The end positions of the matches of re that start at i.                 *)
Ends(re, w, i) ==
  LET matches == Matches(re, w, From(i)) IN [k \in 1..Len(matches) |-> matches[k].end]

(* The match a search from position at reports: the leftmost start, and    *)
(* its most preferred end.                                                 *)
NoMatch == <<-1, -1>>
Match(re, w, at) ==
  LET starts == {i \in at..Len(w) : Ends(re, w, i) # <<>>}
      start == CHOOSE i \in starts : \A j \in starts : i <= j
  IN  IF starts = {} THEN NoMatch ELSE <<start, Ends(re, w, start)[1]>>

MatchEnd(re, w, at) == Match(re, w, at)[2]

(* What the groups 1..n of the preferred match that starts at position     *)
(* start captured, <<-1, -1>> for a group it did not go through.           *)
GroupsOf(re, w, start, n) ==
  LET groups == Matches(re, w, From(start))[1].groups
  IN  [k \in 1..n |-> IF k \in DOMAIN groups THEN groups[k] ELSE NoMatch]

(* The end of the preferred match that starts exactly at position at.      *)
MatchEndFrom(re, w, at) ==
  IF Ends(re, w, at) = <<>> THEN -1 ELSE Ends(re, w, at)[1]

(* The first position where any match ends that starts at or after at.     *)
EarliestMatchEnd(re, w, at) ==
  LET ends == UNION {ToSet(Ends(re, w, i)) : i \in at..Len(w)}
  IN  IF ends = {} THEN -1 ELSE CHOOSE e \in ends : \A f \in ends : e <= f
===============================================================================
