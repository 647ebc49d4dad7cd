SPECIFICATION Spec
CONSTANTS
  Automaton <- MCAutomaton
  Literals <- MCLiterals
  Config <- MCConfig
  Searcher <- MCSearcher
  Leftmost <- MCLeftmost
  SuffixEnd <- MCSuffixEnd
  Spans <- MCSpans
  Direct <- MCDirect
  MaxLiterals = 9
  MaxLiteralLen = 5
  MaxClassSize = 3
  CrossProductLimit = 7
  MaxTeddyPatterns = 4
  MinTeddyLen = 3
  MaxSuffixes = 8
  TinyNFA = 20
  LargeNFA = 100
  HugeNFA = 200
  DigitNFA = 100
  MaxBranches = 127
  ScalarBelow = 5
  Buckets = 2
  Requests <- MCRequests
INVARIANTS TypeOK ScanAnswers RequestAnswers CacheAgrees LiteralsNecessary ChosenFits
PROPERTIES NoByteTwice RequestEnds
