---------------------------- MODULE MCSearchLoops ----------------------------
(* Instances of SearchLoops: patterns compiled by Thompson, what they      *)
(* match read off the syntax tree by Regexp.                               *)
EXTENDS Thompson, SearchLoops

a == 97
b == 98
c == 99
sp == 32
dollar == 36
one == 49
two == 50

Byte(x) == Literal(<<x>>)
Regex ==
  [groups |-> Concat(<<Group(1, Alternate(<<Byte(a), Literal(<<a, b>>)>>)), Quest(Group(2, Byte(b)))>>),
   empties |-> Star(Group(1, Byte(a))),
   word |-> Alternate(<<Concat(<<Look("WordBoundary"), Group(1, Byte(a))>>), Look("EndText")>>),
   lazy |-> Concat(<<Byte(a), NonGreedy(Star(CharClass(<<<<a, c>>>>))), Byte(b)>>),
   anchored |-> Concat(<<Look("StartText"), Plus(Group(1, Byte(a)))>>),
   kept |-> Concat(<<Plus(Alternate(<<Group(1, Byte(c)), Byte(a)>>)), Byte(b)>>),
   literal |-> Literal(<<a, a, b>>),
   leak |-> Alternate(<<Concat(<<Group(1, EmptyMatch), Byte(a)>>), Byte(b)>>)]
Groups(p) == CASE p = "groups" -> 2 [] p \in {"lazy", "literal"} -> 0 [] OTHER -> 1

MCAnchored == {"anchored"}
MCAutomaton == [p \in DOMAIN Regex |-> CompileRegexp(Regex[p])]

-----------------------------------------------------------------------------
(* Loops.                                                                  *)

L(kinds, w, limits, repl, phases) ==
  [kind : kinds, hay : {w}, n : limits, repl : {repl}, twoPhase : phases]
Both == {"indices", "submatches"}
Template == <<dollar, two, dollar, dollar, dollar, one>>

MCLoops ==
  [groups |-> L(Both, <<a, b, c, a>>, {-1}, <<>>, BOOLEAN)
              \cup L({"replaceAll"}, <<a, b, a>>, {-1}, Template, BOOLEAN)
              \cup L({"split"}, <<a, b, c>>, {0, 2, -1}, <<>>, {FALSE}),
   empties |-> L({"indices", "count", "replaceFunc", "replaceStringFunc", "split"}, <<b, a, a, b>>, {-1}, <<sp>>, {FALSE})
               \cup L({"indices"}, <<b, a, a, b>>, {1, 2}, <<>>, {FALSE})
               \cup L({"submatches"}, <<b, a, b>>, {-1}, <<>>, {FALSE}),
   word |-> L({"count", "replaceLiteral", "replaceLiteralString"}, <<a, sp, a>>, {-1}, <<b>>, {FALSE})
            \cup L(Both, <<a, a, sp>>, {-1, 1}, <<>>, BOOLEAN),
   lazy |-> L({"iterator", "split"}, <<a, b, b, a, b>>, {-1}, <<>>, {FALSE})
            \cup L({"submatches"}, <<c, a, b>>, {-1}, <<>>, BOOLEAN),
   anchored |-> L(Both, <<a, a, b>>, {-1}, <<>>, {FALSE}),
   kept |-> L({"submatches"}, <<c, a, b, a, b>>, {-1}, <<>>, {FALSE}),
   literal |-> L({"split"}, <<a, a, b, a, a, a, b, c>>, {-1, 2}, <<>>, {FALSE}),
   leak |-> {}]

-----------------------------------------------------------------------------
(* Single searches.                                                        *)

S(ops, w, positions, longest) ==
  [op : ops, hay : {w}, at : positions, end : {Len(w) - 1}, longest : {longest},
   candidates : {0..Len(w)}]
MCSearches ==
  [groups |-> S({"SearchAt", "CapturesAt", "CapturesInSpan", "SlotTableCapturesAt"},
                <<c, a, b>>, {1, 3, 4}, TRUE)
              \cup S({"SearchBetween", "CapturesInSpan"}, <<a, b, c>>, {0}, FALSE),
   empties |-> S({"IsMatch", "SearchBetween"}, <<b>>, {0}, FALSE),
   word |-> [op : {"SearchAt", "SlotTableAt"}, hay : {<<sp, a, a, sp, a>>}, at : {0, 2, 3}, end : {0},
             longest : {FALSE}, candidates : {{1, 2, 4, 5}}] \cup S({"IsMatch"}, <<>>, {0}, FALSE),
   lazy |-> [op : {"SearchAt"}, hay : {<<c, a, c, b>>}, at : {0, 2}, end : {0},
             longest : {FALSE}, candidates : {{1}}]
            \cup S({"SearchBetween"}, <<a, b>>, {0}, FALSE) \cup S({"IsMatch"}, <<a, c>>, {0}, FALSE),
   anchored |-> S({"SearchAt", "SearchBetween", "CapturesAt"}, <<a, a>>, {0, 1}, FALSE)
                \cup S({"IsMatch"}, <<a, a>>, {0}, FALSE) \cup S({"IsMatch"}, <<b, a, a>>, {0}, FALSE),
   kept |-> S({"SearchAt", "SlotTableCapturesAt"}, <<b, c, a, b>>, {0}, FALSE),
   literal |-> S({"SearchAt", "IsMatch"}, <<a, a, a, b>>, {0}, FALSE),
   leak |-> S({"CapturesAt", "CapturesInSpan", "SlotTableCapturesAt"}, <<c, b, a>>, {0, 1}, FALSE)]

-----------------------------------------------------------------------------
(* What they should answer.                                                *)

NoGroup(p) == [k \in 1..Groups(p) |-> NoMatch]

(* The preferred match from exactly position i, or the longest one; with   *)
(* the groups, which are not looked up when the search began at the end.   *)
MatchesAt(p, w, i) == Matches(Regex[p], w, From(i))
Chosen(found, longest) ==
  IF longest THEN SelectSeq(found, LAMBDA m : \A n \in ToSet(found) : n.end <= m.end)[1] ELSE found[1]
MatchAt(p, w, i, at, longest, limit) ==
  LET found == SelectSeq(MatchesAt(p, w, i), LAMBDA m : m.end <= limit)
  IN  IF found = <<>> THEN VM!None
      ELSE LET m == Chosen(found, longest)
           IN  [start |-> i, end |-> m.end,
                groups |-> IF at = Len(w) THEN NoGroup(p)
                           ELSE [k \in 1..Groups(p) |->
                                   IF k \in DOMAIN m.groups THEN m.groups[k] ELSE NoMatch]]
First(p, w, at, longest, limit) ==
  LET starts == {i \in at..Len(w) : MatchAt(p, w, i, at, longest, limit) # VM!None}
  IN  IF starts = {} THEN VM!None
      ELSE MatchAt(p, w, CHOOSE i \in starts : \A j \in starts : i <= j, at, longest, limit)

MCFind ==
  [p \in DOMAIN Regex |-> [w \in {x.hay : x \in MCLoops[p]} |->
     [i \in 0..Len(w) |-> First(p, w, i, FALSE, Len(w))]]]

Answer(p, x) ==
  LET bare(m) == [m EXCEPT !.groups = <<>>]
      all == First(p, x.hay, x.at, x.longest, Len(x.hay))
  IN  CASE x.op = "IsMatch" -> IF First(p, x.hay, 0, FALSE, Len(x.hay)) = VM!None THEN VM!None ELSE VM!Yes
        [] x.op = "SearchBetween" ->
             IF x.at >= x.end THEN VM!None ELSE bare(First(p, x.hay, x.at, x.longest, x.end))
        [] x.op = "CapturesInSpan" ->
             IF x.at > x.end THEN VM!None ELSE MatchAt(p, x.hay, x.at, -1, x.longest, x.end)
        [] x.op \in {"CapturesAt", "SlotTableCapturesAt"} -> all
        [] OTHER -> bare(all)
MCExpected == [p \in DOMAIN Regex |-> [x \in MCSearches[p] |-> Answer(p, x)]]

(* The matches position by position: what begins at i, unless i lies in    *)
(* the match before, or is its end and the match is empty.                 *)
AllMatches(at) ==
  LET from[i \in 0..(Cardinality(DOMAIN at) + 1), last \in -1..(Cardinality(DOMAIN at) + 1)] ==
        IF i \notin DOMAIN at THEN <<>>
        ELSE CASE at[i] = VM!None \/ (at[i].end = i /\ last = i) -> from[i + 1, last]
               [] at[i].end = i /\ last # i -> <<at[i]>> \o from[i + 1, last]
               [] OTHER -> <<at[i]>> \o from[at[i].end, at[i].end]
  IN  from[0, -1]

(* A replacement writes what stands for a match where the match starts,    *)
(* and every byte that is in no match.                                     *)
TextOf(w, span) == IF span = NoMatch THEN <<>> ELSE SubSeq(w, span[1] + 1, span[2])
Inserted(x, m) ==
  CASE x.kind = "replaceAll" -> TextOf(x.hay, m.groups[2]) \o <<dollar>> \o TextOf(x.hay, m.groups[1])
    [] x.kind \in {"replaceFunc", "replaceStringFunc"} -> x.repl \o SubSeq(x.hay, m.start + 1, m.end)
    [] OTHER -> x.repl
Replaced(x, found) ==
  LET at(i) == SelectSeq(found, LAMBDA m : m.start = i)
      kept(i) == \A m \in ToSet(found) : ~(m.start < i /\ i <= m.end)
  IN  FlattenSeq([i \in 1..(Len(x.hay) + 1) |->
         (IF at(i - 1) = <<>> THEN <<>> ELSE Inserted(x, at(i - 1)[1]))
         \o (IF i <= Len(x.hay) /\ kept(i) THEN <<x.hay[i]>> ELSE <<>>)])

(* What is between the separators, of which there are at most n - 1.       *)
Between(x, found) ==
  LET all == SelectSeq(found, LAMBDA m : m.end > 0 /\ m.start < Len(x.hay))
      used == IF x.n > 0 /\ Len(all) >= x.n THEN SubSeq(all, 1, x.n - 1) ELSE all
      from(k) == IF k = 1 THEN 0 ELSE used[k - 1].end
      to(k) == IF k > Len(used) THEN Len(x.hay) ELSE used[k].start
  IN  [k \in 1..(Len(used) + 1) |-> SubSeq(x.hay, from(k) + 1, to(k))]

Bare(m) == [m EXCEPT !.groups = <<>>]
Used(x, all) ==
  LET counted == x.kind \in {"indices", "count", "submatches"} /\ 0 < x.n /\ x.n < Len(all)
  IN  IF counted THEN SubSeq(all, 1, x.n) ELSE all
LoopAnswer(x, all) ==
  IF x.n = 0 THEN [matches |-> <<>>, out |-> <<>>]
  ELSE [matches |-> IF x.kind \in {"submatches", "replaceAll"} THEN Used(x, all)
                    ELSE LET used == Used(x, all) IN [k \in DOMAIN used |-> Bare(used[k])],
        out |-> CASE x.kind \notin {"indices", "count", "submatches", "split", "iterator"} -> Replaced(x, all)
                  [] x.kind = "split" -> Between(x, all)
                  [] OTHER -> <<>>]
MCExpectedLoop ==
  [p \in DOMAIN Regex |-> [x \in MCLoops[p] |->
     LoopAnswer(x, AllMatches([i \in 0..Len(x.hay) |->
                                 MatchAt(p, x.hay, i, i, FALSE, Len(x.hay))]))]]
===============================================================================
