------------------------------ MODULE SearchPool ------------------------------
(***************************************************************************)
(* How goroutines that search with one Engine share its SearchStates: a    *)
(* single slot localState read by an atomic swap and filled by a           *)
(* compare-and-swap, over a sync.Pool whose idle entries the garbage       *)
(* collector may take at any time.  Every call runs a path of EngineCalls. *)
(***************************************************************************)
EXTENDS EngineCalls, FiniteSets

CONSTANTS
  Goroutine,     \* callers of the engine
  SearchState,   \* addresses a SearchState object may have
  NoState,       \* the nil pointer
  Path,          \* the paths of the calls the goroutines make
  MaxDepth       \* bound: states one goroutine holds at once

(* The steps of a call that starts with d acquisitions open: each of its   *)
(* gets has its put, never more than MaxDepth are open, and a search with  *)
(* a held state has one to search with.  level[i] is the number of open    *)
(* acquisitions before step i.                                             *)
NestsFrom(steps, d) ==
  \E level \in [1..Len(steps) + 1 -> 0..MaxDepth] :
    /\ level[1] = d
    /\ level[Len(steps) + 1] = 0
    /\ \A i \in 1..Len(steps) :
         /\ steps[i] = "get" => level[i + 1] = level[i] + 1
         /\ steps[i] = "put" => level[i + 1] = level[i] - 1
         /\ steps[i] \notin {"get", "put"} => level[i + 1] = level[i]
         /\ steps[i] = "search" => level[i] > 0

ASSUME PoolAssumption ==
  /\ NoState \notin SearchState
  /\ MaxDepth \in Nat \ {0}
  /\ Path \subseteq Seq(Step)
  /\ \A path \in Path : NestsFrom(path, 0)

VARIABLES
  localState,   \* Engine.localState
  pooled,       \* how often statePool holds each state
  live,         \* the states that have been allocated and not collected
  flag,         \* the longest flags of each state's backtracker and PikeVM
  longest,      \* Engine.longest
  todo,         \* the steps a goroutine's current call still has to take
  pc,           \* where a goroutine is inside getSearchState or putSearchState
  depth,        \* how many acquisitions a goroutine has open
  held,         \* held[g][d]: the state of goroutine g's d-th open acquisition
  inside        \* the shared object a goroutine is searching with

vars == <<localState, pooled, live, flag, longest, todo, pc, depth, held, inside>>

NoObject == "none"
Depth == 1..MaxDepth

(* The acquisitions of a call nest: a goroutine works with the innermost.  *)
Mine(g) == held[g][depth[g]]

Flags(value) == [backtracker |-> value, pikevm |-> value]

TypeOK ==
  /\ localState \in SearchState \cup {NoState}
  /\ pooled \in [SearchState -> Nat]
  /\ live \in SUBSET SearchState
  /\ flag \in [SearchState -> [backtracker : BOOLEAN, pikevm : BOOLEAN]]
  /\ longest \in BOOLEAN
  /\ todo \in [Goroutine -> Seq(Step)]
  /\ pc \in [Goroutine -> {"run", "pool", "install", "store", "overflow"}]
  /\ depth \in [Goroutine -> 0..MaxDepth]
  /\ held \in [Goroutine -> [Depth -> SearchState \cup {NoState}]]
  /\ inside \in [Goroutine -> SharedObject \cup {NoObject}]

Init ==
  /\ localState = NoState
  /\ pooled = [s \in SearchState |-> 0]
  /\ live = {}
  /\ flag = [s \in SearchState |-> Flags(FALSE)]
  /\ longest \in BOOLEAN
  /\ todo = [g \in Goroutine |-> <<>>]
  /\ pc = [g \in Goroutine |-> "run"]
  /\ depth = [g \in Goroutine |-> 0]
  /\ held = [g \in Goroutine |-> [d \in Depth |-> NoState]]
  /\ inside = [g \in Goroutine |-> NoObject]

Idle(g) == todo[g] = <<>> /\ pc[g] = "run" /\ inside[g] = NoObject

(* A goroutine takes the next step of its call.                            *)
Takes(g, step) ==
  /\ pc[g] = "run"
  /\ inside[g] = NoObject
  /\ todo[g] # <<>>
  /\ Head(todo[g]) = step
Advance(g) == todo' = [todo EXCEPT ![g] = Tail(@)]

Call(g) ==
  /\ Idle(g)
  /\ \E path \in Path : todo' = [todo EXCEPT ![g] = path]
  /\ UNCHANGED <<localState, pooled, live, flag, longest, pc, depth, held, inside>>

-----------------------------------------------------------------------------
(* getSearchState: swap the slot for nil; if it held nothing, get a state  *)
(* from the pool, which makes one when it has none to give; then install   *)
(* the engine's longest flag.                                              *)

Hold(g, s) ==
  /\ depth' = [depth EXCEPT ![g] = @ + 1]
  /\ held' = [held EXCEPT ![g][depth[g] + 1] = s]
  /\ pc' = [pc EXCEPT ![g] = "install"]

(* Mutant of Swap: the slot is loaded and left as it is.                   *)
SwapLoadsOnly(g) ==
  /\ Takes(g, "get")
  /\ IF localState # NoState
     THEN Hold(g, localState)
     ELSE pc' = [pc EXCEPT ![g] = "pool"] /\ UNCHANGED <<depth, held>>
  /\ UNCHANGED <<localState, pooled, live, flag, longest, todo, inside>>

Swap(g) ==
  /\ Takes(g, "get")
  /\ localState' = NoState
  /\ IF localState # NoState
     THEN Hold(g, localState)
     ELSE pc' = [pc EXCEPT ![g] = "pool"] /\ UNCHANGED <<depth, held>>
  /\ UNCHANGED <<pooled, live, flag, longest, todo, inside>>

(* Mutant of GetPooled: a state is taken that the pool does not hold.      *)
GetPooledTwice(g) ==
  /\ pc[g] = "pool"
  /\ \E s \in live :
       /\ pooled' = [pooled EXCEPT ![s] = @ - 1]
       /\ Hold(g, s)
  /\ UNCHANGED <<localState, live, flag, longest, todo, inside>>

GetPooled(g) ==
  /\ pc[g] = "pool"
  /\ \E s \in SearchState :
       /\ pooled[s] > 0
       /\ pooled' = [pooled EXCEPT ![s] = @ - 1]
       /\ Hold(g, s)
  /\ UNCHANGED <<localState, live, flag, longest, todo, inside>>

GetNew(g) ==
  /\ pc[g] = "pool"
  /\ \E s \in SearchState \ live :
       /\ live' = live \cup {s}
       /\ flag' = [flag EXCEPT ![s] = Flags(FALSE)]
       /\ Hold(g, s)
  /\ UNCHANGED <<localState, pooled, longest, todo, inside>>

(* Mutant of Install: the PikeVM's flag is forgotten.                      *)
InstallBacktrackerOnly(g) ==
  /\ pc[g] = "install"
  /\ flag' = [flag EXCEPT ![Mine(g)].backtracker = longest]
  /\ pc' = [pc EXCEPT ![g] = "run"]
  /\ Advance(g)
  /\ UNCHANGED <<localState, pooled, live, longest, depth, held, inside>>

Install(g) ==
  /\ pc[g] = "install"
  /\ flag' = [flag EXCEPT ![Mine(g)] = Flags(longest)]
  /\ pc' = [pc EXCEPT ![g] = "run"]
  /\ Advance(g)
  /\ UNCHANGED <<localState, pooled, live, longest, depth, held, inside>>

(* A search with the state a goroutine holds.                              *)
SearchHeld(g) ==
  /\ Takes(g, "search")
  /\ Advance(g)
  /\ UNCHANGED <<localState, pooled, live, flag, longest, pc, depth, held, inside>>

-----------------------------------------------------------------------------
(* putSearchState: reset the state, then publish it in the slot if that is *)
(* empty, and else reset it again and give it to the pool.  The reset      *)
(* clears the backtracker's longest flag.                                  *)

Drop(g) ==
  /\ depth' = [depth EXCEPT ![g] = @ - 1]
  /\ held' = [held EXCEPT ![g][depth[g]] = NoState]
  /\ pc' = [pc EXCEPT ![g] = "run"]
  /\ Advance(g)

Reset(g) ==
  /\ Takes(g, "put")
  /\ flag' = [flag EXCEPT ![Mine(g)].backtracker = FALSE]
  /\ pc' = [pc EXCEPT ![g] = "store"]
  /\ UNCHANGED <<localState, pooled, live, longest, todo, depth, held, inside>>

(* Mutant of StoreLocal: the early return is missing.                      *)
StoreLocalGoesOn(g) ==
  /\ pc[g] = "store"
  /\ localState = NoState
  /\ localState' = Mine(g)
  /\ pc' = [pc EXCEPT ![g] = "overflow"]
  /\ UNCHANGED <<pooled, live, flag, longest, todo, depth, held, inside>>

StoreLocal(g) ==
  /\ pc[g] = "store"
  /\ localState = NoState
  /\ localState' = Mine(g)
  /\ Drop(g)
  /\ UNCHANGED <<pooled, live, flag, longest, inside>>

(* Mutant of SlotTaken: the pool is preferred to an empty slot.            *)
SlotSkipped(g) ==
  /\ pc[g] = "store"
  /\ pc' = [pc EXCEPT ![g] = "overflow"]
  /\ UNCHANGED <<localState, pooled, live, flag, longest, todo, depth, held, inside>>

SlotTaken(g) ==
  /\ pc[g] = "store"
  /\ localState # NoState
  /\ pc' = [pc EXCEPT ![g] = "overflow"]
  /\ UNCHANGED <<localState, pooled, live, flag, longest, todo, depth, held, inside>>

PutPooled(g) ==
  /\ pc[g] = "overflow"
  /\ flag' = [flag EXCEPT ![Mine(g)].backtracker = FALSE]
  /\ pooled' = [pooled EXCEPT ![Mine(g)] = @ + 1]
  /\ Drop(g)
  /\ UNCHANGED <<localState, live, longest, inside>>

-----------------------------------------------------------------------------
(* A search with an object of the Engine itself, not of the held state.    *)

EnterShared(g) ==
  /\ \E object \in SharedObject :
       /\ Takes(g, object)
       /\ inside' = [inside EXCEPT ![g] = object]
  /\ UNCHANGED <<localState, pooled, live, flag, longest, todo, pc, depth, held>>

LeaveShared(g) ==
  /\ inside[g] # NoObject
  /\ inside' = [inside EXCEPT ![g] = NoObject]
  /\ Advance(g)
  /\ UNCHANGED <<localState, pooled, live, flag, longest, pc, depth, held>>

(* Longest may not be called while a search is running.                    *)
SetLongest(value) ==
  /\ \A g \in Goroutine : Idle(g)
  /\ longest # value
  /\ longest' = value
  /\ UNCHANGED <<localState, pooled, live, flag, todo, pc, depth, held, inside>>

(* The garbage collector takes an entry of the sync.Pool; never the slot.  *)
Collect(s) ==
  /\ pooled[s] > 0
  /\ pooled' = [pooled EXCEPT ![s] = 0]
  /\ live' = live \ {s}
  /\ UNCHANGED <<localState, flag, longest, todo, pc, depth, held, inside>>

-----------------------------------------------------------------------------

Work(g) ==
  \/ Swap(g) \/ GetPooled(g) \/ GetNew(g) \/ Install(g)
  \/ SearchHeld(g)
  \/ Reset(g) \/ StoreLocal(g) \/ SlotTaken(g) \/ PutPooled(g)
  \/ EnterShared(g) \/ LeaveShared(g)

Next ==
  \/ \E g \in Goroutine : Call(g) \/ Work(g)
  \/ \E value \in BOOLEAN : SetLongest(value)
  \/ \E s \in SearchState : Collect(s)

Spec == Init /\ [][Next]_vars
-----------------------------------------------------------------------------
(* Properties                                                              *)

(* No SearchState is ever within reach of two users: an acquisition holds  *)
(* it alone, and a state that is held is neither in the slot nor in the    *)
(* pool, nor is it in both or twice in the pool (the swap and the          *)
(* compare-and-swap of engine.go against every interleaving).              *)
HeldOnce ==
  \A g, h \in Goroutine : \A d, e \in Depth :
    held[g][d] # NoState /\ held[g][d] = held[h][e] => g = h /\ d = e
HeldIsPrivate ==
  \A g \in Goroutine : \A d \in Depth :
    held[g][d] # NoState => localState # held[g][d] /\ pooled[held[g][d]] = 0
PublishedOnce ==
  \A s \in SearchState : pooled[s] <= 1 /\ (pooled[s] = 1 => localState # s)
Exclusive == HeldOnce /\ HeldIsPrivate /\ PublishedOnce

(* A search runs with the longest flags the Engine has now: whatever the   *)
(* state's previous user left in it, and whoever resets it meanwhile.      *)
Configured ==
  \A g \in Goroutine :
    Takes(g, "search") => depth[g] > 0 /\ flag[Mine(g)] = Flags(longest)

(* When no call is running, a state that was ever returned and is still    *)
(* allocated is in the slot: the collector can empty the pool but cannot   *)
(* make the next call allocate (the slot is "GC-proof", engine.go:128).    *)
WarmSlot ==
  (\A g \in Goroutine : Idle(g)) /\ live # {} => localState # NoState

(* No two goroutines search with the same object of the Engine: "multiple  *)
(* goroutines can safely call search methods" (engine.go:24).              *)
SharedObjectsPrivate ==
  \A g, h \in Goroutine :
    inside[g] # NoObject /\ inside[g] = inside[h] => g = h

(* The slot and the pool implement the ownership of StateOwnership.        *)
Owner(s) ==
  IF \E g \in Goroutine : \E d \in Depth : held[g][d] = s
  THEN CHOOSE g \in Goroutine : \E d \in Depth : held[g][d] = s
  ELSE IF localState = s \/ pooled[s] > 0 THEN "free" ELSE "gone"
Ownership == INSTANCE StateOwnership
               WITH owner <- [s \in SearchState |-> Owner(s)],
                    Free <- "free", Gone <- "gone"
ImplementsOwnership == Ownership!Spec
=============================================================================
