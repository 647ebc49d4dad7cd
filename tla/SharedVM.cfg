\* Two goroutines in FindNFA and FindNFAAt.
CONSTANTS
  Goroutine = {g1, g2}
  SearchState = {s1, s2}
  NoState = NoState
  MaxDepth = 1
  Path <- FindPaths
SPECIFICATION Spec
INVARIANT SharedObjectsPrivate
SYMMETRY Symmetry
