----------------------------- MODULE MCBacktracker -----------------------------
(* Instances of Backtracker: patterns compiled by Thompson, the answers    *)
(* read off the syntax tree by Regexp.                                     *)
EXTENDS Thompson, Backtracker

a == 97
b == 98
sp == 32

Regex ==
  [nested |-> Star(Star(Literal(<<a>>))),
   preferred |-> Alternate(<<Literal(<<a>>), Literal(<<a, b>>), Literal(<<b>>)>>),
   word |-> Concat(<<Look("WordBoundary"), NonGreedy(Plus(CharClass(<<<<a, b>>>>))),
                     Literal(<<b>>)>>),
   longer |-> Concat(<<Literal(<<a>>), Literal(<<b>>)>>)]

MCAutomaton == [p \in DOMAIN Regex |-> CompileRegexp(Regex[p])]

Ask(op, w, at, longest) == [op |-> op, hay |-> w, at |-> at, longest |-> longest]
Every(w) == {Ask("SearchAt", w, at, longest) : at \in {0, 1}, longest \in BOOLEAN}
            \cup {Ask("IsMatch", w, 0, FALSE), Ask("IsMatchAnchored", w, 0, FALSE)}

MCCalls ==
  [nested |-> Every(<<b, a>>) \cup Every(<<a>>),
   preferred |-> Every(<<sp, a, b>>) \cup {Ask("IsMatch", <<sp>>, 0, FALSE)},
   word |-> Every(<<a, b, b>>) \cup Every(<<sp, b>>),
   longer |-> Every(<<b, a, b, a, a>>) \cup {Ask("SearchAt", <<a, a>>, 0, FALSE)}]

EndsFrom(p, w, i) == ToSet(Ends(Regex[p], w, i))
LongestEnd(p, w, i) == CHOOSE e \in EndsFrom(p, w, i) : \A f \in EndsFrom(p, w, i) : f <= e
Answer(p, c) ==
  LET match == Match(Regex[p], c.hay, c.at)
  IN  CASE c.op = "IsMatch" -> [NoAnswer EXCEPT !.found = match # NoMatch]
        [] c.op = "IsMatchAnchored" -> [NoAnswer EXCEPT !.found = EndsFrom(p, c.hay, 0) # {}]
        [] match = NoMatch -> NoAnswer
        [] OTHER -> [found |-> TRUE, start |-> match[1],
                     end |-> IF c.longest THEN LongestEnd(p, c.hay, match[1]) ELSE match[2]]
MCExpected == [p \in DOMAIN Regex |-> [c \in Calls[p] |-> Answer(p, c)]]
===============================================================================
