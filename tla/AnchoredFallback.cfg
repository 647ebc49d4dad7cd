SPECIFICATION Spec
CONSTANTS
  Automaton <- MCAutomaton
  Literals <- MCLiterals
  Config <- AnchoredConfig
  Calls <- AnchoredCalls
  NfaEnd <- MCNfaEnd
  AnchoredEnd <- MCAnchoredEnd
  EarliestEnd <- MCEarliestEnd
INVARIANT AnchoredFallback
