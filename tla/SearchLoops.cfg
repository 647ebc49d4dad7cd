SPECIFICATION Spec
CONSTANTS
  Automaton <- MCAutomaton
  Anchored <- MCAnchored
  Find <- MCFind
  Loops <- MCLoops
  Searches <- MCSearches
  Expected <- MCExpected
  ExpectedLoop <- MCExpectedLoop
INVARIANTS TypeOK Answers LeftmostFirst PhasesAgree MatchesDisjoint Complete

PROPERTIES LoopSpec LoopEnds Forward
