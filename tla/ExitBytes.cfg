SPECIFICATION Spec
CONSTANTS
  Automaton <- MCAutomaton
  Literals <- MCLiterals
  Config <- ExitConfig
  Calls <- ExitCalls
  NfaEnd <- MCNfaEnd
  AnchoredEnd <- MCAnchoredEnd
  EarliestEnd <- MCEarliestEnd
INVARIANT ExitBytesSuffice
