---------------------------- MODULE StateOwnership ----------------------------
(***************************************************************************)
(* What the engine promises about SearchStates: at any time each one is    *)
(* absent, idle or owned by exactly one goroutine, and only its owner      *)
(* gives it up.                                                            *)
(***************************************************************************)
CONSTANTS Goroutine, SearchState, Free, Gone

VARIABLE owner

Init == owner = [s \in SearchState |-> Gone]

Acquire(g, s) ==
  /\ owner[s] \in {Free, Gone}
  /\ owner' = [owner EXCEPT ![s] = g]

Release(g, s) ==
  /\ owner[s] = g
  /\ owner' = [owner EXCEPT ![s] = Free]

Collect(s) ==
  /\ owner[s] = Free
  /\ owner' = [owner EXCEPT ![s] = Gone]

Next ==
  \E s \in SearchState :
    \/ \E g \in Goroutine : Acquire(g, s) \/ Release(g, s)
    \/ Collect(s)

Spec == Init /\ [][Next]_owner
=============================================================================
