\* Two goroutines, calls that hold one state or two, and as many addresses as
\* they can hold together.
CONSTANTS
  Goroutine = {g1, g2}
  SearchState = {s1, s2, s3, s4}
  NoState = NoState
  MaxDepth = 2
  Path <- PoolPaths
SPECIFICATION Spec
INVARIANTS TypeOK Exclusive Configured WarmSlot
PROPERTIES ImplementsOwnership
SYMMETRY Symmetry
