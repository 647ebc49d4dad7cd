SPECIFICATION Spec
CONSTANTS
  Automaton <- MCAutomaton
  Anchored <- MCAnchored
  Find <- MCFind
  Loops <- MCLoops
  Searches <- MCSearches
  Expected <- MCExpected
  ExpectedLoop <- MCExpectedLoop
INVARIANTS SharedCaptures
