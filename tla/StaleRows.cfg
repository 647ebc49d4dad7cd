SPECIFICATION Spec
CONSTANTS
  Automaton <- MCAutomaton
  Literals <- MCLiterals
  Config <- ClearedConfig
  Calls <- ClearedCalls
  NfaEnd <- MCNfaEnd
  AnchoredEnd <- MCAnchoredEnd
  EarliestEnd <- MCEarliestEnd
INVARIANT AnswersAfterClear
