SPECIFICATION Spec
CONSTANTS
  Automaton <- MCAutomaton
  Calls <- MCCalls
  Expected <- MCExpected
  GenerationBits = 2
  MaxVisitedSize = 30
INVARIANT AnswersAfterWrap
