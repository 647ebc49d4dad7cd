----------------------------- MODULE MCSearchPool -----------------------------
(* Instances of SearchPool for TLC.                                        *)
EXTENDS SearchPool, TLC

(* Calls that hold a state, hold a second one inside the first, search     *)
(* with the first again, or search with the Engine's own PikeVM.           *)
PoolPaths ==
  {path \in FindSubmatch("UseTeddy") \cup FindNFAAt : Len(path) \in {1, 3, 6}}

(* The calls of an engine that only runs its NFA.                          *)
FindPaths == FindNFA \cup FindNFAAt

Symmetry == Permutations(SearchState)
=============================================================================
