------------------------------- MODULE MCReverse -------------------------------
(* Instances of ReverseStrategies: patterns compiled by Thompson, turned    *)
(* round by Reverse, and answers read off the syntax tree by Regexp.        *)
EXTENDS ReverseStrategies, Reverse, Searchers

a == 97
b == 98
x == 120
nl == 10

c == 99
d == 100
e == 101
z == 122
zero == 48
nine == 57

AB == CharClass(<<<<a, b>>>>)
BX == CharClass(<<<<b, b>>, <<x, x>>>>)
ABX == CharClass(<<<<a, b>>, <<x, x>>>>)
XZ == CharClass(<<<<x, z>>>>)
Digit == CharClass(<<<<zero, nine>>>>)
Dots == Star(AnyCharNotNL)
OneOf(words) == Alternate([k \in DOMAIN words |-> Literal(words[k])])

(* Searched by a DFA, backwards: a literal behind a repetition, one of     *)
(* several, one in the middle; the end of the haystack; or forwards first. *)
Scanned ==
  [suffix |-> Concat(<<ABX, Plus(ABX), Literal(<<b, x>>)>>),
   dotSuffix |-> Concat(<<Dots, Literal(<<b, x>>)>>),
   set |-> Concat(<<ABX, Plus(ABX), OneOf(<<<<a, x, b>>, <<b, x, a>>>>)>>),
   dotSet |-> Concat(<<Dots, OneOf(<<<<a, x, b>>, <<b, x, a>>>>)>>),
   inner |-> Concat(<<Plus(ABX), Literal(<<x, x>>), Plus(AB)>>),
   universal |-> Concat(<<Dots, Literal(<<x>>), Dots>>),
   anchored |-> Concat(<<Plus(AB), Literal(<<x>>), Look("EndText")>>),
   plus |-> Concat(<<Plus(Literal(<<a>>)), Literal(<<b>>)>>),
   quest |-> Quest(AB),
   head |-> Concat(<<Look("StartText"), Plus(Literal(<<a>>))>>),
   star |-> Concat(<<Star(Literal(<<a>>)), Literal(<<b>>), Look("EndText")>>)]

(* Searched by something made for their form, or by the PikeVM.            *)
Special ==
  [run |-> Plus(AB),
   composite |-> Concat(<<Star(AB), BX>>),
   sequence |-> Concat(<<Plus(AB), Plus(BX)>>),
   dispatch |-> Concat(<<Look("StartText"), Group(1, Alternate(<<Literal(<<a, b>>), Plus(XZ), Literal(<<b>>)>>))>>),
   line |-> Concat(<<Look("StartText"), Dots, Plus(AB), Literal(<<x>>), Look("EndText")>>),
   words |-> OneOf(<<<<a, b, x>>, <<b, x, a>>, <<x, a, b, b>>>>),
   manyWords |-> OneOf(<<<<a, a>>, <<b, a>>, <<c, a>>, <<d, a>>, <<e, a>>>>),
   lines |-> Concat(<<Look("StartLine"), Group(1, OneOf(<<<<a, b, x>>, <<b, x, a>>>>))>>),
   digits |-> Concat(<<Plus(Digit), OneOf(<<<<a>>, <<b, x>>>>)>>),
   digit |-> Concat(<<Digit, Literal(<<a>>), AB>>),
   lineSuffix |-> Concat(<<Look("StartLine"), Dots, Literal(<<b, x>>)>>),
   lineBoth |-> Concat(<<Look("StartLine"), Literal(<<a>>), Dots, Literal(<<b, x>>)>>),
   boundary |-> Concat(<<Look("WordBoundary"), Plus(Literal(<<a>>))>>)]

(* Literals that are crossed, folded, cut, or that cannot be told.         *)
Extracted ==
  [cross |-> Concat(<<ABX, Literal(<<b>>), OneOf(<<<<a>>, <<x, b>>>>)>>),
   overflow |-> Concat(<<ABX, ABX, Literal(<<b>>)>>),
   many |-> OneOf(<<<<a>>, <<b>>, <<c>>, <<d>>, <<e>>, <<x>>, <<z>>, <<z + 1>>>>),
   fold |-> FoldLiteral(<<a, b>>),
   twice |-> Concat(<<Repeat(Literal(<<a>>), 2, Unbounded), Literal(<<b>>)>>),
   maybe |-> Alternate(<<Literal(<<a, b>>), Star(Literal(<<x>>))>>),
   wholeWords |-> Concat(<<Look("WordBoundary"), OneOf(<<<<a, b, x>>, <<b, x, a>>>>)>>)]
Regex == Scanned @@ Special @@ Extracted

(* The searcher of a pattern; the DFA engines first search forwards.       *)
KindOf(strategy) ==
  CASE strategy = "ReverseAnchored" -> "Anchored"
    [] strategy = "ReverseSuffix" -> "Suffix"
    [] strategy = "ReverseSuffixSet" -> "SuffixSet"
    [] strategy = "ReverseInner" -> "Inner"
    [] strategy \in {"DFA", "BoundedBacktracker"} -> "Bidirectional"
    [] OTHER -> "Direct"
MCSearcherOf(searcher) == [kind |-> KindOf(searcher.strategy)] @@ searcher
MCSearcher == [p \in DOMAIN Regex |-> MCSearcherOf(SearcherFor(Regex[p]))]

(* What the reverse DFA scans for; of an inner searcher, it is what comes  *)
(* in front of the literal.                                                *)
Inners == {"inner", "universal"}
Limited == Inners \cup {"suffix", "dotSuffix", "set", "dotSet"}
MiddleOf(p) == InnerIdx(Regex[p])
ScannedFor == [p \in DOMAIN Regex |-> IF p \in Inners THEN BuildPrefixAST(Regex[p], MiddleOf(p)) ELSE Regex[p]]
TurnedRound(p, nfa) == IF p \in Limited THEN ReverseNFA(nfa) ELSE ReverseAnchored(nfa)
MCAutomaton == [p \in DOMAIN Regex |-> TurnedRound(p, CompileRegexp(ScannedFor[p]))]
MCLiterals == [p \in DOMAIN Regex |-> {}]

Find(w) == [op : {"Find"}, hay : {w}, at : {0}]
IsMatch(w) == [op : {"IsMatch"}, hay : {w}, at : {0}]
FindAt(w, positions) == [op : {"FindIndicesAt"}, hay : {w}, at : positions]
All(w, positions) == Find(w) \cup IsMatch(w) \cup FindAt(w, positions)

MCRequests ==
  [suffix |-> All(<<a, b, x, b, x>>, {0, 1}) \cup All(<<x, a, b, x, a, a, b, b>>, {0, 5, 8}),
   dotSuffix |-> All(<<a, b, x, a, b, x>>, {0, 4}) \cup FindAt(<<b, x, nl, a, b, x>>, {1, 2}),
   set |-> All(<<a, a, x, b, x, a>>, {0, 1}) \cup All(<<a, b, a, a, x, b>>, {0, 2, 6}),
   dotSet |-> All(<<a, a, x, b, x, a>>, {0, 1}) \cup FindAt(<<a, x, b, nl, b, x, a>>, {0, 1}),
   inner |-> All(<<x, x, x, b>>, {0, 1}) \cup All(<<a, x, x, x>>, {0}) \cup All(<<b, a, x, x, b>>, {0, 1}),
   universal |-> All(<<a, x, a>>, {0, 1, 2}) \cup All(<<x, b>>, {0}),
   anchored |-> Find(<<x, a, b, x>>) \cup IsMatch(<<x, a, b, x>>) \cup Find(<<>>)
                \cup Find(<<a, a, b, a, b, b, x>>) \cup IsMatch(<<a, x, a>>) \cup Find(<<x, x>>),
   plus |-> FindAt(<<b, a, a, b, a>>, 0..5),
   quest |-> FindAt(<<x, a, b>>, 0..3),
   head |-> FindAt(<<a, a, b>>, {0, 1}),
   star |-> {},
   run |-> All(<<x, a, b, x, b>>, 0..5),
   composite |-> All(<<b, a, b, x, a>>, 0..5) \cup All(<<a, a>>, {0}),
   sequence |-> All(<<x, a, b, b, x, a>>, 0..6) \cup All(<<a, x, a, b>>, 0..4),
   dispatch |-> All(<<a, b, x>>, {0, 1}) \cup All(<<z, x, a>>, {0}) \cup All(<<a, x>>, {0}),
   line |-> All(<<x, a, b, x>>, {0, 1}) \cup All(<<x, x>>, {0}),
   words |-> All(<<x, a, b, x, a>>, 0..5) \cup All(<<x, a, b, b>>, 0..4),
   manyWords |-> All(<<x, e, a, a, a>>, 0..5),
   lines |-> All(<<b, a, b, x, nl, b, x, a>>, {0, 1, 5, 6}),
   digits |-> All(<<zero, nine, b, nine, nine, b, x>>, 0..7),
   digit |-> All(<<zero, zero, a, zero, a, b>>, 0..6),
   lineSuffix |-> All(<<a, nl, b, x, b>>, {0, 2}),
   lineBoth |-> All(<<b, x, nl, a, b, x>>, {0, 3}),
   boundary |-> All(<<a, a, x, nl, a>>, 0..5),
   cross |-> All(<<x, x, b, a>>, 0..2),
   overflow |-> All(<<a, x, b>>, {0, 1}),
   many |-> All(<<nl, z + 1>>, {0, 2}),
   fold |-> All(<<a, a - 32, b>>, {0, 2}),
   twice |-> All(<<a, b, a, a, a, b>>, {0, 3, 5}),
   maybe |-> All(<<b, a, b, x>>, 0..4),
   wholeWords |-> All(<<a, a, b, x, nl, b, x, a>>, {0, 6})]

(* A loop that the pattern begins with.                                    *)
StarRequests == [p \in DOMAIN Regex |-> IF p = "star" THEN Find(<<a, a, b>>) ELSE {}]

Haystack(p) == {r.hay : r \in MCRequests[p] \cup StarRequests[p]}
MCLeftmost ==
  [p \in DOMAIN Regex |-> [w \in Haystack(p) |-> [i \in 0..Len(w) |-> Match(Regex[p], w, i)]]]
AllSpans(re, w) == UNION {{i} \X ToSet(Ends(re, w, i)) : i \in 0..Len(w)}
MCSpans == [p \in DOMAIN Regex |-> [w \in Haystack(p) |-> AllSpans(ScannedFor[p], w)]]
RestEnd(re, w, i) == LET end == MatchEnd(re, SubSeq(w, i + 1, Len(w)), 0)
                     IN  IF end = -1 THEN -1 ELSE i + end
MCSuffixEnd ==
  [p \in Inners |-> [w \in Haystack(p) |->
     [i \in 0..Len(w) |-> RestEnd(BuildSuffixAST(Regex[p], MiddleOf(p)), w, i)]]]
MCDirect(p, searcher, op, w, i) == DirectAnswer(Regex[p], searcher, op, w, i)

Roomy == [capacity |-> 100000, maxCacheClears |-> 0, determinizationLimit |-> 1000,
          breakAtMatch |-> FALSE]
Tight == [Roomy EXCEPT !.capacity = 500, !.maxCacheClears = 1]
Starved == [Roomy EXCEPT !.capacity = 90, !.maxCacheClears = 2]
MCConfig == [p \in DOMAIN Regex |->
               CASE p \in {"suffix", "anchored"} -> {Roomy, Tight, Starved}
                 [] p = "star" -> {} [] OTHER -> {Roomy}]

-----------------------------------------------------------------------------
(* What the engines rely on.                                               *)
Matching == [p \in DOMAIN Regex |-> [w \in Haystack(p) |-> AllSpans(Regex[p], w)]]
PrefixesOf == [p \in DOMAIN Regex |-> ExtractPrefixes(Regex[p])]
SuffixesOf == [p \in DOMAIN Regex |-> ExtractSuffixes(Regex[p])]
InnersOf == [p \in DOMAIN Regex |-> IF InnerIdx(Regex[p]) = 0 THEN NoLiterals
                                     ELSE ExtractInner(Regex[p].subs[InnerIdx(Regex[p])])]

BeginsWith(l, w, m) == /\ StandsAt(l.bytes, w, m[1])
                       /\ IF l.complete THEN m[1] + Len(l.bytes) = m[2] ELSE m[1] + Len(l.bytes) <= m[2]
EndsIn(l, w, m) == /\ IF l.complete THEN m[2] - Len(l.bytes) = m[1] ELSE m[2] - Len(l.bytes) >= m[1]
                   /\ StandsAt(l.bytes, w, m[2] - Len(l.bytes))
Holding(l, w, m) == \E i \in m[1]..(m[2] - Len(l.bytes)) : StandsAt(l.bytes, w, i)
SomeLiteral(seq, w, m, Fits(_, _, _)) ==
  HasNone(seq) \/ seq.partialCoverage \/ \E l \in ToSet(seq.literals) : Fits(l, w, m)

(* A prefilter skips what has none of its literals: so every match begins  *)
(* with one of the prefixes that were extracted, ends with one of the      *)
(* suffixes and has one of the inner literals in it, and is no longer than *)
(* a complete one, unless the extractor knows that some are missing.       *)
LiteralsNecessary ==
  step = "idle" /\ req.hay # <<>> =>
    \A m \in Matching[dfa.pattern][H] :
      /\ SomeLiteral(PrefixesOf[dfa.pattern], H, m, BeginsWith)
      /\ SomeLiteral(SuffixesOf[dfa.pattern], H, m, EndsIn)
      /\ SomeLiteral(InnersOf[dfa.pattern], H, m, Holding)

(* What the syntax tree showed is true of the matches: a reverse anchored  *)
(* search may begin at the end of the haystack, an anchored one give up    *)
(* behind position 0, a digit search look at digits only; a literal        *)
(* searcher need not verify; and no DFA is asked for empty matches.        *)
Admits(re, w, i) == HasMultilineLineAnchor(re) => Holds("StartLine", w, i)
Occurrences(re) ==
  {m \in (0..Len(H)) \X (0..Len(H)) :
     /\ \E l \in ToSet(S.literals) : StandsAt(l, H, m[1]) /\ m[2] = m[1] + Len(l)
     /\ Admits(re, H, m[1])}
ChosenFits ==
  step = "idle" /\ req.hay # <<>> =>
    LET matches == Matching[dfa.pattern][H]
    IN  CASE S.strategy = "ReverseAnchored" -> \A m \in matches : m[2] = Len(H)
          [] S.alwaysAnchored -> \A m \in matches : m[1] = 0
          [] S.strategy = "DigitPrefilter" -> \A m \in matches : m[1] < m[2] /\ H[m[1] + 1] \in Digits
          [] S.strategy \in {"Teddy", "AhoCorasick"} -> matches = Occurrences(Regex[dfa.pattern])
          [] S.strategy = "DFA" -> \A m \in matches : m[1] < m[2]
          [] OTHER -> TRUE

-----------------------------------------------------------------------------
(* Where the code departs from its documentation: a loop the pattern       *)
(* begins with is turned round without its bytes.                          *)
StarConfig == [p \in DOMAIN Regex |-> IF p = "star" THEN {Roomy} ELSE {}]
===============================================================================
