SPECIFICATION Spec
CONSTANTS
  Automaton <- MCAutomaton
  Literals <- MCLiterals
  Config <- MCConfig
  Calls <- MCCalls
  NfaEnd <- MCNfaEnd
  AnchoredEnd <- MCAnchoredEnd
  EarliestEnd <- MCEarliestEnd
INVARIANTS TypeOK DfaAnswers FallbackAnswers FindsMatches MissesNothing ExitBytesLoop AcceleratedEnd CacheAgrees RowsDeterminized MemoryBounded
PROPERTIES SearchEnds
