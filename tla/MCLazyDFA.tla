------------------------------ MODULE MCLazyDFA ------------------------------
(* Instances of LazyDFA: patterns compiled by Thompson, searched in short  *)
(* haystacks, with the answers read off the syntax tree by Regexp.         *)
EXTENDS LazyDFA, Thompson

a == 97
b == 98
c == 99
sp == 32
nl == 10

Regex ==
  [ab |-> Alternate(<<Literal(<<a, b>>), Literal(<<b>>)>>),
   untilB |-> Concat(<<Star(CharClass(<<<<0, a>>, <<c, 255>>>>)), Literal(<<b>>)>>),
   anchored |-> Concat(<<Look("StartText"), Literal(<<a>>), NonGreedy(Star(Literal(<<b>>))),
                         Look("EndText")>>),
   star |-> Star(Literal(<<a>>)),
   prefixed |-> Concat(<<Literal(<<a>>), Plus(Literal(<<b>>)), Literal(<<c>>)>>),
   word |-> Concat(<<Literal(<<a>>), Look("WordBoundary")>>),
   letters |-> Plus(CharClass(<<<<a, c>>>>)),
   lineStart |-> Concat(<<Look("StartLine"), Literal(<<a>>)>>)]

MCAutomaton == [p \in DOMAIN Regex |-> CompileRegexp(Regex[p])]
MCLiterals ==
  [p \in DOMAIN Regex |->
     CASE p \in {"word", "anchored"} -> {<<a>>} [] p = "prefixed" -> {<<a, b>>} [] OTHER -> {}]

Ask(ops, w, positions) == [op : ops, hay : {w}, at : positions]

MCCalls ==
  [ab |-> Ask({"SearchAt", "SearchFirstAt"}, <<c, a, b, a, a, b>>, {0, 3})
          \cup Ask({"SearchAtAnchored"}, <<c, a, b, a, a, b>>, {0, 1}),
   untilB |-> Ask({"SearchAt", "SearchFirstAt"}, <<a, c, a, b, a, c>>, {0, 4})
              \cup Ask({"SearchAt", "SearchAtAnchored"}, <<a, c, a, b>>, {1}),
   anchored |-> Ask({"SearchAt", "IsMatchAt"}, <<a, b, b>>, {0, 1, 3})
                \cup Ask({"SearchAt", "FindAt"}, <<a, b, a, a>>, {0}),
   star |-> Ask({"SearchAt", "IsMatchAt"}, <<b, a, a, b>>, {0, 1, 4}),
   prefixed |-> Ask({"FindAt", "IsMatchAt"}, <<a, b, a, a, b, b, c>>, {0, 1, 5}),
   word |-> Ask({"SearchAt", "FindAt", "IsMatchAt"}, <<a, a, sp, a, c>>, {0, 3}),
   letters |-> Ask({"SearchAt", "SearchAtAnchored"}, <<a, b, sp>>, {0, 1}),
   lineStart |-> Ask({"SearchAt", "IsMatchAt"}, <<a, a, nl, a>>, {0, 1, 3})]

Table(F(_, _, _)) ==
  [p \in DOMAIN Regex |-> [w \in Haystack(p) \cup {<<>>} |->
     [at \in 0..Len(w) |-> F(Regex[p], w, at)]]]
MCNfaEnd == Table(MatchEnd)
MCAnchoredEnd == Table(MatchEndFrom)
MCEarliestEnd == Table(EarliestMatchEnd)

(* What LazyDFAProofs and AnswerProofs ask of a pattern holds of these.    *)
ASSUME MCSeparated == \A p \in Pattern : Separated(Automaton[p], BytesOf(p))
ASSUME MCApart == \A p \in Pattern : Apart(Automaton[p])

Roomy == [capacity |-> 100000, maxCacheClears |-> 0, determinizationLimit |-> 1000,
          breakAtMatch |-> TRUE]
Tight == [Roomy EXCEPT !.capacity = 400, !.maxCacheClears = 1]
Starved == [Roomy EXCEPT !.capacity = 90, !.maxCacheClears = 2]
Limited == [Roomy EXCEPT !.determinizationLimit = 3]
MCConfig == [p \in DOMAIN Regex |-> CASE p = "ab" -> {Roomy, Tight, Starved, Limited}
                                      [] p = "prefixed" -> {Roomy, Tight, Starved}
                                      [] OTHER -> {Roomy}]

-----------------------------------------------------------------------------
(* The runs that show where the code departs from its documentation.       *)

OnlyFor(pattern, values) == [p \in DOMAIN Regex |-> IF p = pattern THEN values ELSE {}]

ClearedCalls == [p \in DOMAIN Regex |-> Ask({"SearchAt"}, <<c, a, b, a, a, b>>, 0..6)]
ClearedConfig == OnlyFor("ab", {Tight})

AnchoredCalls == [p \in DOMAIN Regex |-> Ask({"SearchAtAnchored"}, <<c, a, b, a, a, b>>, 0..6)]
AnchoredConfig == OnlyFor("ab", {Starved})

tilde == 126
ExitCalls ==
  OnlyFor("letters", Ask({"SearchAtAnchored"}, <<a, b, sp>>, {0}) \cup
                     Ask({"SearchAtAnchored"}, <<a, b, tilde>>, {0}) \cup
                     Ask({"SearchAtAnchored", "SearchAt"}, <<a, b, b>>, {0}))
ExitConfig == OnlyFor("letters", {Roomy})
===============================================================================
