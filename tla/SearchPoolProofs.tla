--------------------------- MODULE SearchPoolProofs ---------------------------
(***************************************************************************)
(* Proofs about SearchPool, for any goroutines, states, paths and depth.   *)
(***************************************************************************)
EXTENDS SearchPool, SequenceTheorems, TLAPS

(* A goroutine between two steps of getSearchState or putSearchState is    *)
(* still at the "get" or "put" of its call, and the rest of the call nests *)
(* in the acquisitions it has open.                                        *)
Level(g) == IF pc[g] = "install" THEN depth[g] - 1 ELSE depth[g]
StepsNest ==
  \A g \in Goroutine :
    /\ Level(g) \in Nat
    /\ NestsFrom(todo[g], Level(g))
    /\ pc[g] \in {"pool", "install"} => todo[g] # <<>> /\ Head(todo[g]) = "get"
    /\ pc[g] \in {"store", "overflow"} => todo[g] # <<>> /\ Head(todo[g]) = "put"
    /\ inside[g] # NoObject =>
         pc[g] = "run" /\ todo[g] # <<>> /\ Head(todo[g]) \in SharedObject

(* The open acquisitions, and no others, hold a state.                     *)
OpenHeld ==
  \A g \in Goroutine : \A d \in Depth : held[g][d] # NoState <=> d <= depth[g]

(* Every state within reach is allocated.                                  *)
KnownLive ==
  /\ localState # NoState => localState \in live
  /\ \A s \in SearchState : pooled[s] > 0 => s \in live
  /\ \A g \in Goroutine : \A d \in Depth :
       held[g][d] # NoState => held[g][d] \in live

(* Every held state is configured, but for the one being got or put.       *)
FlagsSet ==
  \A g \in Goroutine : \A d \in Depth :
    held[g][d] # NoState /\ (d = depth[g] => pc[g] \in {"run", "pool"})
      => flag[held[g][d]] = Flags(longest)

(* When the slot is empty, somebody still has a state for it: to find the  *)
(* slot taken, as who is about to put a state in the pool did, another had *)
(* to take what was there.                                                 *)
Returns(g) == depth[g] > 1 \/ (depth[g] = 1 /\ pc[g] # "overflow")
SlotOwed == live # {} /\ localState = NoState => \E g \in Goroutine : Returns(g)

IInv ==
  /\ TypeOK
  /\ Exclusive
  /\ StepsNest
  /\ OpenHeld
  /\ KnownLive
  /\ FlagsSet
  /\ SlotOwed
-----------------------------------------------------------------------------
(* Lemmas about calls                                                      *)

(* Taking a step of a call leaves a call that nests from the new depth.    *)
LEMMA NestsAdvance ==
  ASSUME NEW steps \in Seq(Step), NEW d, steps # <<>>, NestsFrom(steps, d)
  PROVE  /\ d \in 0..MaxDepth
         /\ Tail(steps) \in Seq(Step)
         /\ Head(steps) = "get" => d + 1 \in 0..MaxDepth /\ NestsFrom(Tail(steps), d + 1)
         /\ Head(steps) = "put" => d - 1 \in 0..MaxDepth /\ NestsFrom(Tail(steps), d - 1)
         /\ Head(steps) \notin {"get", "put"} => NestsFrom(Tail(steps), d)
         /\ Head(steps) = "search" => d > 0
<1>1. PICK level \in [1..Len(steps) + 1 -> 0..MaxDepth] :
        /\ level[1] = d
        /\ level[Len(steps) + 1] = 0
        /\ \A i \in 1..Len(steps) :
             /\ steps[i] = "get" => level[i + 1] = level[i] + 1
             /\ steps[i] = "put" => level[i + 1] = level[i] - 1
             /\ steps[i] \notin {"get", "put"} => level[i + 1] = level[i]
             /\ steps[i] = "search" => level[i] > 0
  BY DEF NestsFrom
<1>2. /\ Len(steps) \in Nat \ {0}
      /\ Head(steps) = steps[1]
      /\ Tail(steps) \in Seq(Step)
      /\ Len(Tail(steps)) = Len(steps) - 1
      /\ \A i \in 1..Len(Tail(steps)) : Tail(steps)[i] = steps[i + 1]
  OBVIOUS
<1> DEFINE rest == [i \in 1..Len(Tail(steps)) + 1 |-> level[i + 1]]
<1>3. /\ rest \in [1..Len(Tail(steps)) + 1 -> 0..MaxDepth]
      /\ rest[1] = level[2]
      /\ rest[Len(Tail(steps)) + 1] = 0
  BY <1>1, <1>2
<1>4. \A i \in 1..Len(Tail(steps)) :
        /\ Tail(steps)[i] = "get" => rest[i + 1] = rest[i] + 1
        /\ Tail(steps)[i] = "put" => rest[i + 1] = rest[i] - 1
        /\ Tail(steps)[i] \notin {"get", "put"} => rest[i + 1] = rest[i]
        /\ Tail(steps)[i] = "search" => rest[i] > 0
  <2> SUFFICES ASSUME NEW i \in 1..Len(Tail(steps))
               PROVE  /\ Tail(steps)[i] = "get" => rest[i + 1] = rest[i] + 1
                      /\ Tail(steps)[i] = "put" => rest[i + 1] = rest[i] - 1
                      /\ Tail(steps)[i] \notin {"get", "put"} => rest[i + 1] = rest[i]
                      /\ Tail(steps)[i] = "search" => rest[i] > 0
    OBVIOUS
  <2>1. i + 1 \in 1..Len(steps) /\ Tail(steps)[i] = steps[i + 1]
    BY <1>2
  <2>2. rest[i] = level[i + 1] /\ rest[i + 1] = level[(i + 1) + 1]
    BY <1>2, <2>1
  <2> QED BY <1>1, <2>1, <2>2
<1>5. NestsFrom(Tail(steps), level[2])
  BY <1>3, <1>4 DEF NestsFrom
<1>6. 1 \in 1..Len(steps) /\ 1 + 1 = 2 /\ level[2] \in 0..MaxDepth
  BY <1>1, <1>2
<1>7. /\ Head(steps) = "get" => level[2] = d + 1
      /\ Head(steps) = "put" => level[2] = d - 1
      /\ Head(steps) \notin {"get", "put"} => level[2] = d
      /\ Head(steps) = "search" => d > 0
  BY <1>1, <1>2, <1>6
<1>8. d \in 0..MaxDepth
  BY <1>1, <1>2
<1> QED BY <1>2, <1>5, <1>6, <1>7, <1>8

(* A call that has no step left has no acquisition open.                   *)
LEMMA NestsEmpty == ASSUME NEW d, NestsFrom(<<>>, d) PROVE d = 0
BY DEF NestsFrom

(* The objects of a step are no acquisitions, and none of them is the      *)
(* absent one.                                                             *)
LEMMA StepKinds ==
  /\ \A object \in SharedObject : object \in Step /\ object \notin {"get", "put", "search"}
  /\ NoObject \notin SharedObject
BY DEF SharedObject, Step, EngineVM, AsciiBT, ForwardDfaVM, ReverseDfaVM, NoObject
-----------------------------------------------------------------------------
(* The invariant                                                           *)

(* The initial states satisfy the invariant.                               *)
LEMMA Initially == Init => IInv
<1> SUFFICES ASSUME Init PROVE IInv
  OBVIOUS
<1>1. TypeOK
  BY PoolAssumption DEF Init, TypeOK, Flags, Depth
<1>2. NestsFrom(<<>>, 0)
  <2> DEFINE level == [i \in 1..Len(<<>>) + 1 |-> 0]
  <2>1. level \in [1..Len(<<>>) + 1 -> 0..MaxDepth]
    BY PoolAssumption
  <2>2. level[1] = 0 /\ level[Len(<<>>) + 1] = 0 /\ 1..Len(<<>>) = {}
    OBVIOUS
  <2> QED BY <2>1, <2>2 DEF NestsFrom
<1>3. StepsNest
  BY <1>2 DEF Init, StepsNest, Level
<1> QED
  BY <1>1, <1>3, PoolAssumption
  DEF Init, IInv, Exclusive, HeldOnce, HeldIsPrivate, PublishedOnce,
      OpenHeld, KnownLive, FlagsSet, SlotOwed, Depth

(* What a goroutine with an open acquisition holds.                        *)
LEMMA MineIsHeld ==
  ASSUME IInv, NEW g \in Goroutine, depth[g] > 0
  PROVE  depth[g] \in Depth /\ Mine(g) \in SearchState /\ Mine(g) = held[g][depth[g]]
<1>1. depth[g] \in Depth
  BY PoolAssumption DEF IInv, TypeOK, Depth
<1>2. held[g][depth[g]] \in SearchState \cup {NoState}
  BY <1>1 DEF IInv, TypeOK
<1> QED BY <1>1, <1>2 DEF IInv, TypeOK, OpenHeld, Mine

(* In the middle of getSearchState and putSearchState, the acquisitions    *)
(* that are open.                                                          *)
LEMMA OpenInside ==
  ASSUME IInv, NEW g \in Goroutine
  PROVE  /\ depth[g] \in 0..MaxDepth
         /\ pc[g] \in {"install", "store", "overflow"} => depth[g] > 0
         /\ pc[g] = "pool" => depth[g] + 1 \in Depth
         /\ pc[g] # "run" \/ inside[g] # NoObject => todo[g] # <<>>
         /\ Takes(g, "get") => depth[g] + 1 \in Depth
         /\ Takes(g, "put") => depth[g] > 0
         /\ Takes(g, "search") => depth[g] > 0
         /\ todo[g] = <<>> => depth[g] = 0
<1>1. /\ todo[g] \in Seq(Step) /\ depth[g] \in 0..MaxDepth
      /\ MaxDepth \in Nat
      /\ pc[g] \in {"run", "pool", "install", "store", "overflow"}
      /\ Level(g) \in Nat
      /\ NestsFrom(todo[g], Level(g))
      /\ pc[g] \in {"pool", "install"} => todo[g] # <<>> /\ Head(todo[g]) = "get"
      /\ pc[g] \in {"store", "overflow"} => todo[g] # <<>> /\ Head(todo[g]) = "put"
      /\ inside[g] # NoObject => todo[g] # <<>>
  BY PoolAssumption DEF IInv, TypeOK, StepsNest
<1>2. CASE todo[g] = <<>>
  <2>1. Level(g) = 0 /\ pc[g] = "run"
    BY <1>1, <1>2, NestsEmpty
  <2> QED BY <1>1, <1>2, <2>1 DEF Level, Takes
<1>3. CASE todo[g] # <<>>
  <2>1. /\ Head(todo[g]) = "get" => Level(g) + 1 \in 0..MaxDepth
        /\ Head(todo[g]) = "put" => Level(g) - 1 \in 0..MaxDepth
        /\ Head(todo[g]) = "search" => Level(g) > 0
    BY <1>1, <1>3, NestsAdvance
  <2> QED BY <1>1, <1>3, <2>1 DEF Level, Takes, Depth
<1> QED BY <1>2, <1>3

(* The variables that change when a state is taken and when it is given up.*)
LEMMA HoldTypes ==
  ASSUME TypeOK, NEW g \in Goroutine, NEW s \in SearchState,
         depth[g] + 1 \in Depth, Hold(g, s)
  PROVE  /\ depth' \in [Goroutine -> 0..MaxDepth]
         /\ held' \in [Goroutine -> [Depth -> SearchState \cup {NoState}]]
         /\ pc' \in [Goroutine -> {"run", "pool", "install", "store", "overflow"}]
BY PoolAssumption DEF TypeOK, Hold, Depth

(* Giving a state up keeps the types.                                      *)
LEMMA DropTypes ==
  ASSUME TypeOK, NEW g \in Goroutine, todo[g] # <<>>, depth[g] > 0, Drop(g)
  PROVE  /\ depth' \in [Goroutine -> 0..MaxDepth]
         /\ held' \in [Goroutine -> [Depth -> SearchState \cup {NoState}]]
         /\ pc' \in [Goroutine -> {"run", "pool", "install", "store", "overflow"}]
         /\ todo' \in [Goroutine -> Seq(Step)]
<1>1. depth[g] \in Depth /\ depth[g] - 1 \in 0..MaxDepth
  BY PoolAssumption DEF TypeOK, Depth
<1>2. Tail(todo[g]) \in Seq(Step)
  BY DEF TypeOK
<1> QED BY <1>1, <1>2 DEF TypeOK, Drop, Advance

(* Every action keeps the types.                                           *)
LEMMA TypeStep == ASSUME IInv, [Next]_vars PROVE TypeOK'
<1> USE DEF TypeOK
<1>0. TypeOK /\ SharedObject \subseteq Step
  BY StepKinds DEF IInv
<1>1. ASSUME NEW g \in Goroutine, Call(g) PROVE TypeOK'
  BY <1>0, <1>1, OpenInside, MineIsHeld, PoolAssumption
  DEF Call, Takes, Advance, Hold, Drop, Flags, Depth
<1>2. ASSUME NEW g \in Goroutine, Swap(g) PROVE TypeOK'
  <2>1. CASE localState = NoState
    BY <1>0, <1>2, <2>1 DEF Swap
  <2>2. CASE localState # NoState
    <3>1. Takes(g, "get") /\ Hold(g, localState) /\ localState' = NoState
          /\ UNCHANGED <<pooled, live, flag, longest, todo, inside>>
      BY <1>2, <2>2 DEF Swap
    <3>2. depth[g] + 1 \in Depth /\ localState \in SearchState
      BY <1>0, <2>2, <3>1, OpenInside
    <3> QED BY <1>0, <3>1, <3>2, HoldTypes
  <2> QED BY <2>1, <2>2
<1>3. ASSUME NEW g \in Goroutine, GetPooled(g) PROVE TypeOK'
  BY <1>0, <1>3, OpenInside, HoldTypes DEF GetPooled
<1>4. ASSUME NEW g \in Goroutine, GetNew(g) PROVE TypeOK'
  BY <1>0, <1>4, OpenInside, HoldTypes DEF GetNew, Flags
<1>5. ASSUME NEW g \in Goroutine, Install(g) PROVE TypeOK'
  BY <1>0, <1>5, OpenInside, MineIsHeld, PoolAssumption
  DEF Install, Takes, Advance, Hold, Drop, Flags, Depth
<1>6. ASSUME NEW g \in Goroutine, SearchHeld(g) PROVE TypeOK'
  BY <1>0, <1>6, OpenInside, MineIsHeld, PoolAssumption
  DEF SearchHeld, Takes, Advance, Hold, Drop, Flags, Depth
<1>7. ASSUME NEW g \in Goroutine, Reset(g) PROVE TypeOK'
  <2>1. /\ Takes(g, "put") /\ flag' = [flag EXCEPT ![Mine(g)].backtracker = FALSE]
        /\ pc' = [pc EXCEPT ![g] = "store"]
        /\ UNCHANGED <<localState, pooled, live, longest, todo, depth, held, inside>>
    BY <1>7 DEF Reset
  <2>2. Mine(g) \in SearchState
    BY <2>1, OpenInside, MineIsHeld
  <2>3. flag' \in [SearchState -> [backtracker : BOOLEAN, pikevm : BOOLEAN]]
    BY <1>0, <2>1, <2>2
  <2>4. pc' \in [Goroutine -> {"run", "pool", "install", "store", "overflow"}]
    BY <1>0, <2>1
  <2> QED BY <1>0, <2>1, <2>3, <2>4
<1>8. ASSUME NEW g \in Goroutine, StoreLocal(g) PROVE TypeOK'
  BY <1>0, <1>8, OpenInside, MineIsHeld, DropTypes DEF StoreLocal
<1>9. ASSUME NEW g \in Goroutine, SlotTaken(g) PROVE TypeOK'
  BY <1>0, <1>9, OpenInside, MineIsHeld, PoolAssumption
  DEF SlotTaken, Takes, Advance, Hold, Drop, Flags, Depth
<1>10. ASSUME NEW g \in Goroutine, PutPooled(g) PROVE TypeOK'
  <2>1. Mine(g) \in SearchState /\ todo[g] # <<>> /\ depth[g] > 0
    BY <1>10, OpenInside, MineIsHeld DEF PutPooled
  <2>2. pooled' \in [SearchState -> Nat]
    BY <1>0, <1>10, <2>1 DEF PutPooled
  <2>3. flag' \in [SearchState -> [backtracker : BOOLEAN, pikevm : BOOLEAN]]
    BY <1>0, <1>10, <2>1 DEF PutPooled
  <2> QED BY <1>0, <1>10, <2>1, <2>2, <2>3, DropTypes DEF PutPooled
<1>11. ASSUME NEW g \in Goroutine, EnterShared(g) PROVE TypeOK'
  BY <1>0, <1>11, OpenInside, MineIsHeld, PoolAssumption
  DEF EnterShared, Takes, Advance, Hold, Drop, Flags, Depth
<1>12. ASSUME NEW g \in Goroutine, LeaveShared(g) PROVE TypeOK'
  BY <1>0, <1>12, OpenInside, MineIsHeld, PoolAssumption
  DEF LeaveShared, Takes, Advance, Hold, Drop, Flags, Depth
<1>13. ASSUME NEW value \in BOOLEAN, SetLongest(value) PROVE TypeOK'
  BY <1>0, <1>13, OpenInside, MineIsHeld, PoolAssumption
  DEF SetLongest, Takes, Advance, Hold, Drop, Flags, Depth
<1>14. ASSUME NEW s \in SearchState, Collect(s) PROVE TypeOK'
  BY <1>0, <1>14, OpenInside, MineIsHeld, PoolAssumption
  DEF Collect, Takes, Advance, Hold, Drop, Flags, Depth
<1>15. CASE UNCHANGED vars
  BY <1>0, <1>15 DEF vars
<1> QED BY <1>1, <1>2, <1>3, <1>4, <1>5, <1>6, <1>7, <1>8, <1>9, <1>10, <1>11, <1>12, <1>13, <1>14, <1>15 DEF Next, Work

(* What everybody holds after a state is taken and after one is given up.  *)
LEMMA HeldAfterHold ==
  ASSUME TypeOK, NEW g \in Goroutine, NEW s \in SearchState,
         depth[g] + 1 \in Depth, Hold(g, s)
  PROVE  \A h \in Goroutine : \A d \in Depth :
           held'[h][d] = IF h = g /\ d = depth[g] + 1 THEN s ELSE held[h][d]
BY DEF TypeOK, Hold

(* What is held after a state was given up.                                *)
LEMMA HeldAfterDrop ==
  ASSUME TypeOK, NEW g \in Goroutine, depth[g] \in Depth, Drop(g)
  PROVE  \A h \in Goroutine : \A d \in Depth :
           held'[h][d] = IF h = g /\ d = depth[g] THEN NoState ELSE held[h][d]
BY DEF TypeOK, Drop

(* No goroutine holds the state that one takes from the slot, from the     *)
(* pool or from the allocator.                                             *)
LEMMA TakenIsFree ==
  ASSUME IInv, NEW g \in Goroutine, NEW s \in SearchState,
         \/ localState = s
         \/ pooled[s] > 0
         \/ s \notin live
  PROVE  \A h \in Goroutine : \A d \in Depth : held[h][d] # s
BY PoolAssumption DEF IInv, TypeOK, KnownLive, Exclusive, HeldIsPrivate

(* Taking a state opens one acquisition and giving it up closes it.        *)
LEMMA HoldOpens ==
  ASSUME TypeOK, OpenHeld, NEW g \in Goroutine, NEW s \in SearchState,
         depth[g] + 1 \in Depth, Hold(g, s)
  PROVE  OpenHeld'
<1>1. depth' = [depth EXCEPT ![g] = depth[g] + 1] /\ depth[g] \in Nat
  BY PoolAssumption DEF Hold, TypeOK
<1>2. \A d \in Depth : d \in Nat
  BY DEF Depth
<1> QED BY <1>1, <1>2, HeldAfterHold, PoolAssumption DEF OpenHeld, TypeOK

(* Giving a state up closes one acquisition.                               *)
LEMMA DropCloses ==
  ASSUME TypeOK, OpenHeld, NEW g \in Goroutine, depth[g] > 0, Drop(g)
  PROVE  OpenHeld'
<1>1. depth' = [depth EXCEPT ![g] = depth[g] - 1] /\ depth[g] \in Depth
  BY PoolAssumption DEF Drop, TypeOK, Depth
<1>2. \A d \in Depth : d \in Nat
  BY DEF Depth
<1> QED BY <1>1, <1>2, HeldAfterDrop, PoolAssumption DEF OpenHeld, TypeOK

(* The open acquisitions stay the ones that hold a state.                  *)
LEMMA OpenHeldStep == ASSUME IInv, [Next]_vars PROVE OpenHeld'
<1>0. TypeOK /\ OpenHeld
  BY DEF IInv
<1>1. ASSUME NEW g \in Goroutine, Call(g) PROVE OpenHeld'
  BY <1>0, <1>1 DEF Call, OpenHeld
<1>2. ASSUME NEW g \in Goroutine, Swap(g) PROVE OpenHeld'
  <2>1. CASE localState = NoState
    BY <1>0, <1>2, <2>1 DEF Swap, OpenHeld
  <2>2. CASE localState # NoState
    <3>1. Takes(g, "get") /\ Hold(g, localState)
      BY <1>2, <2>2 DEF Swap
    <3>2. depth[g] + 1 \in Depth /\ localState \in SearchState
      BY <1>0, <2>2, <3>1, OpenInside DEF TypeOK
    <3> QED BY <1>0, <3>1, <3>2, HoldOpens
  <2> QED BY <2>1, <2>2
<1>3. ASSUME NEW g \in Goroutine, GetPooled(g) PROVE OpenHeld'
  BY <1>0, <1>3, OpenInside, HoldOpens DEF GetPooled
<1>4. ASSUME NEW g \in Goroutine, GetNew(g) PROVE OpenHeld'
  BY <1>0, <1>4, OpenInside, HoldOpens DEF GetNew
<1>5. ASSUME NEW g \in Goroutine, Install(g) PROVE OpenHeld'
  BY <1>0, <1>5 DEF Install, OpenHeld
<1>6. ASSUME NEW g \in Goroutine, SearchHeld(g) PROVE OpenHeld'
  BY <1>0, <1>6 DEF SearchHeld, OpenHeld
<1>7. ASSUME NEW g \in Goroutine, Reset(g) PROVE OpenHeld'
  BY <1>0, <1>7 DEF Reset, OpenHeld
<1>8. ASSUME NEW g \in Goroutine, StoreLocal(g) PROVE OpenHeld'
  BY <1>0, <1>8, OpenInside, DropCloses DEF StoreLocal
<1>9. ASSUME NEW g \in Goroutine, SlotTaken(g) PROVE OpenHeld'
  BY <1>0, <1>9 DEF SlotTaken, OpenHeld
<1>10. ASSUME NEW g \in Goroutine, PutPooled(g) PROVE OpenHeld'
  BY <1>0, <1>10, OpenInside, DropCloses DEF PutPooled
<1>11. ASSUME NEW g \in Goroutine, EnterShared(g) PROVE OpenHeld'
  BY <1>0, <1>11 DEF EnterShared, OpenHeld
<1>12. ASSUME NEW g \in Goroutine, LeaveShared(g) PROVE OpenHeld'
  BY <1>0, <1>12 DEF LeaveShared, OpenHeld
<1>13. ASSUME NEW value \in BOOLEAN, SetLongest(value) PROVE OpenHeld'
  BY <1>0, <1>13 DEF SetLongest, OpenHeld
<1>14. ASSUME NEW s \in SearchState, Collect(s) PROVE OpenHeld'
  BY <1>0, <1>14 DEF Collect, OpenHeld
<1>15. CASE UNCHANGED vars
  BY <1>0, <1>15 DEF vars, OpenHeld
<1> QED BY <1>1, <1>2, <1>3, <1>4, <1>5, <1>6, <1>7, <1>8, <1>9, <1>10, <1>11, <1>12, <1>13, <1>14, <1>15 DEF Next, Work

(* A goroutine that moves from depth d to depth e by taking the step at    *)
(* the head of its call still nests, and the others are not concerned.     *)
LEMMA NestsAfter ==
  ASSUME IInv, NEW g \in Goroutine, todo[g] # <<>>, Advance(g)
  PROVE  /\ Level(g) \in 0..MaxDepth
         /\ todo'[g] = Tail(todo[g])
         /\ \A h \in Goroutine : h # g => todo'[h] = todo[h]
         /\ Head(todo[g]) = "get" => NestsFrom(todo'[g], Level(g) + 1)
         /\ Head(todo[g]) = "put" => NestsFrom(todo'[g], Level(g) - 1) /\ Level(g) > 0
         /\ Head(todo[g]) \notin {"get", "put"} => NestsFrom(todo'[g], Level(g))
<1>1. todo[g] \in Seq(Step) /\ NestsFrom(todo[g], Level(g))
  BY DEF IInv, TypeOK, StepsNest
<1>2. todo'[g] = Tail(todo[g]) /\ \A h \in Goroutine : h # g => todo'[h] = todo[h]
  BY DEF IInv, TypeOK, Advance
<1>3. /\ Level(g) \in 0..MaxDepth
      /\ Head(todo[g]) = "put" => Level(g) - 1 \in 0..MaxDepth
      /\ Head(todo[g]) = "get" => NestsFrom(todo'[g], Level(g) + 1)
      /\ Head(todo[g]) = "put" => NestsFrom(todo'[g], Level(g) - 1)
      /\ Head(todo[g]) \notin {"get", "put"} => NestsFrom(todo'[g], Level(g))
  BY <1>1, <1>2, NestsAdvance
<1> QED BY <1>2, <1>3, PoolAssumption

(* Every call goes on nesting.                                             *)
LEMMA NestStep == ASSUME IInv, [Next]_vars PROVE StepsNest'
<1>0. /\ TypeOK /\ StepsNest
      /\ MaxDepth \in Nat
      /\ \A g \in Goroutine : depth[g] \in Nat
  BY PoolAssumption DEF IInv, TypeOK
<1>1. ASSUME NEW g \in Goroutine, Call(g) PROVE StepsNest'
  BY <1>0, <1>1, OpenInside, PoolAssumption DEF Call, Idle, TypeOK, StepsNest, Level
<1>2. ASSUME NEW g \in Goroutine, Swap(g) PROVE StepsNest'
  BY <1>0, <1>2, OpenInside DEF Swap, Takes, Hold, TypeOK, StepsNest, Level
<1>3. ASSUME NEW g \in Goroutine, GetPooled(g) PROVE StepsNest'
  BY <1>0, <1>3, OpenInside DEF GetPooled, Hold, TypeOK, StepsNest, Level
<1>4. ASSUME NEW g \in Goroutine, GetNew(g) PROVE StepsNest'
  <2>1. PICK s \in SearchState : Hold(g, s)
    BY <1>4 DEF GetNew
  <2>2. pc[g] = "pool" /\ UNCHANGED <<todo, inside>>
    BY <1>4 DEF GetNew
  <2> QED BY <1>0, <2>1, <2>2 DEF Hold, TypeOK, StepsNest, Level
<1>5. ASSUME NEW g \in Goroutine, Install(g) PROVE StepsNest'
  BY <1>0, <1>5, OpenInside, NestsAfter DEF Install, TypeOK, StepsNest, Level
<1>6. ASSUME NEW g \in Goroutine, SearchHeld(g) PROVE StepsNest'
  BY <1>0, <1>6, OpenInside, NestsAfter DEF SearchHeld, Takes, TypeOK, StepsNest, Level
<1>7. ASSUME NEW g \in Goroutine, Reset(g) PROVE StepsNest'
  BY <1>0, <1>7, OpenInside DEF Reset, Takes, TypeOK, StepsNest, Level
<1>8. ASSUME NEW g \in Goroutine, StoreLocal(g) PROVE StepsNest'
  BY <1>0, <1>8, OpenInside, NestsAfter DEF StoreLocal, Drop, TypeOK, StepsNest, Level
<1>9. ASSUME NEW g \in Goroutine, SlotTaken(g) PROVE StepsNest'
  BY <1>0, <1>9, OpenInside DEF SlotTaken, Takes, TypeOK, StepsNest, Level
<1>10. ASSUME NEW g \in Goroutine, PutPooled(g) PROVE StepsNest'
  BY <1>0, <1>10, OpenInside, NestsAfter DEF PutPooled, Drop, TypeOK, StepsNest, Level
<1>11. ASSUME NEW g \in Goroutine, EnterShared(g) PROVE StepsNest'
  BY <1>0, <1>11, StepKinds DEF EnterShared, Takes, TypeOK, StepsNest, Level
<1>12. ASSUME NEW g \in Goroutine, LeaveShared(g) PROVE StepsNest'
  BY <1>0, <1>12, OpenInside, NestsAfter, StepKinds DEF LeaveShared, TypeOK, StepsNest, Level
<1>13. ASSUME NEW value \in BOOLEAN, SetLongest(value) PROVE StepsNest'
  BY <1>0, <1>13, OpenInside DEF SetLongest, Takes, TypeOK, StepsNest, Level
<1>14. ASSUME NEW s \in SearchState, Collect(s) PROVE StepsNest'
  BY <1>0, <1>14, OpenInside DEF Collect, Takes, TypeOK, StepsNest, Level
<1>15. CASE UNCHANGED vars
  BY <1>0, <1>15 DEF vars, StepsNest, Level
<1> QED BY <1>1, <1>2, <1>3, <1>4, <1>5, <1>6, <1>7, <1>8, <1>9, <1>10, <1>11, <1>12, <1>13, <1>14, <1>15 DEF Next, Work

(* Every state within reach stays allocated: what is taken was allocated,  *)
(* and the collector takes only what nobody can reach.                     *)
LEMMA KnownLiveStep == ASSUME IInv, [Next]_vars PROVE KnownLive'
<1>0. TypeOK /\ KnownLive
  BY DEF IInv
<1>1. ASSUME NEW g \in Goroutine, Call(g) PROVE KnownLive'
  BY <1>0, <1>1 DEF Call, KnownLive
<1>2. ASSUME NEW g \in Goroutine, Swap(g) PROVE KnownLive'
  <2>1. CASE localState = NoState
    BY <1>0, <1>2, <2>1 DEF Swap, KnownLive
  <2>2. CASE localState # NoState
    <3>1. Hold(g, localState) /\ localState' = NoState /\ UNCHANGED <<pooled, live>>
      BY <1>2, <2>2 DEF Swap
    <3>2. depth[g] + 1 \in Depth /\ localState \in SearchState
      BY <1>0, <1>2, <2>2, OpenInside DEF TypeOK, Swap
    <3> QED BY <1>0, <2>2, <3>1, <3>2, HeldAfterHold DEF KnownLive
  <2> QED BY <2>1, <2>2
<1>3. ASSUME NEW g \in Goroutine, GetPooled(g) PROVE KnownLive'
  <2>1. PICK s \in SearchState :
          pooled[s] > 0 /\ pooled' = [pooled EXCEPT ![s] = @ - 1] /\ Hold(g, s)
    BY <1>3 DEF GetPooled
  <2>2. depth[g] + 1 \in Depth /\ UNCHANGED <<localState, live>>
    BY <1>3, OpenInside DEF GetPooled
  <2>3. \A t \in SearchState : pooled'[t] > 0 => pooled[t] > 0
    BY <1>0, <2>1 DEF TypeOK
  <2> QED BY <1>0, <2>1, <2>2, <2>3, HeldAfterHold DEF KnownLive
<1>4. ASSUME NEW g \in Goroutine, GetNew(g) PROVE KnownLive'
  <2>1. PICK s \in SearchState : live' = live \cup {s} /\ Hold(g, s)
    BY <1>4 DEF GetNew
  <2>2. depth[g] + 1 \in Depth /\ UNCHANGED <<localState, pooled>>
    BY <1>4, OpenInside DEF GetNew
  <2> QED BY <1>0, <2>1, <2>2, HeldAfterHold DEF KnownLive
<1>5. ASSUME NEW g \in Goroutine, Install(g) PROVE KnownLive'
  BY <1>0, <1>5 DEF Install, KnownLive
<1>6. ASSUME NEW g \in Goroutine, SearchHeld(g) PROVE KnownLive'
  BY <1>0, <1>6 DEF SearchHeld, KnownLive
<1>7. ASSUME NEW g \in Goroutine, Reset(g) PROVE KnownLive'
  BY <1>0, <1>7 DEF Reset, KnownLive
<1>8. ASSUME NEW g \in Goroutine, StoreLocal(g) PROVE KnownLive'
  <2>1. depth[g] > 0 /\ Drop(g) /\ localState' = Mine(g) /\ UNCHANGED <<pooled, live>>
    BY <1>8, OpenInside DEF StoreLocal
  <2>2. depth[g] \in Depth /\ Mine(g) = held[g][depth[g]] /\ Mine(g) \in SearchState
    BY <2>1, MineIsHeld
  <2> QED BY <1>0, <2>1, <2>2, HeldAfterDrop DEF KnownLive
<1>9. ASSUME NEW g \in Goroutine, SlotTaken(g) PROVE KnownLive'
  BY <1>0, <1>9 DEF SlotTaken, KnownLive
<1>10. ASSUME NEW g \in Goroutine, PutPooled(g) PROVE KnownLive'
  <2>1. /\ depth[g] > 0 /\ Drop(g) /\ UNCHANGED <<localState, live>>
        /\ pooled' = [pooled EXCEPT ![Mine(g)] = @ + 1]
    BY <1>10, OpenInside DEF PutPooled
  <2>2. depth[g] \in Depth /\ Mine(g) = held[g][depth[g]] /\ Mine(g) \in SearchState
    BY <2>1, MineIsHeld
  <2>3. Mine(g) \in live
    BY <1>0, <2>2, PoolAssumption DEF KnownLive
  <2>4. \A t \in SearchState : pooled'[t] > 0 => t = Mine(g) \/ pooled[t] > 0
    BY <1>0, <2>1, <2>2 DEF TypeOK
  <2> QED BY <1>0, <2>1, <2>2, <2>3, <2>4, HeldAfterDrop DEF KnownLive
<1>11. ASSUME NEW g \in Goroutine, EnterShared(g) PROVE KnownLive'
  BY <1>0, <1>11 DEF EnterShared, KnownLive
<1>12. ASSUME NEW g \in Goroutine, LeaveShared(g) PROVE KnownLive'
  BY <1>0, <1>12 DEF LeaveShared, KnownLive
<1>13. ASSUME NEW value \in BOOLEAN, SetLongest(value) PROVE KnownLive'
  BY <1>0, <1>13 DEF SetLongest, KnownLive
<1>14. ASSUME NEW s \in SearchState, Collect(s) PROVE KnownLive'
  <2>1. /\ localState # s
        /\ \A h \in Goroutine : \A d \in Depth : held[h][d] # s
    BY <1>14, TakenIsFree DEF Collect, IInv, TypeOK, Exclusive, PublishedOnce
  <2>2. \A t \in SearchState : pooled'[t] > 0 => t # s /\ pooled[t] > 0
    BY <1>0, <1>14 DEF Collect, TypeOK
  <2> QED BY <1>0, <1>14, <2>1, <2>2 DEF Collect, KnownLive
<1>15. CASE UNCHANGED vars
  BY <1>0, <1>15 DEF vars, KnownLive
<1> QED BY <1>1, <1>2, <1>3, <1>4, <1>5, <1>6, <1>7, <1>8, <1>9, <1>10, <1>11, <1>12, <1>13, <1>14, <1>15 DEF Next, Work

(* A state that is taken where nobody else can reach it is held by one     *)
(* acquisition.                                                            *)
LEMMA HoldKeepsHeldOnce ==
  ASSUME TypeOK, HeldOnce, NEW g \in Goroutine, NEW s \in SearchState,
         depth[g] + 1 \in Depth, Hold(g, s),
         \A h \in Goroutine : \A d \in Depth : held[h][d] # s
  PROVE  HeldOnce'
BY HeldAfterHold DEF HeldOnce

(* Giving a state up leaves the others held once.                          *)
LEMMA DropKeepsHeldOnce ==
  ASSUME TypeOK, HeldOnce, NEW g \in Goroutine, depth[g] \in Depth, Drop(g)
  PROVE  HeldOnce'
BY HeldAfterDrop DEF HeldOnce

(* Every action keeps the states apart.                                    *)
LEMMA ExclusiveStep == ASSUME IInv, [Next]_vars PROVE Exclusive'
<1>0. TypeOK /\ HeldOnce /\ HeldIsPrivate /\ PublishedOnce /\ NoState \notin SearchState
  BY PoolAssumption DEF IInv, Exclusive
<1> USE DEF Exclusive
<1>1. ASSUME NEW g \in Goroutine, Call(g) PROVE Exclusive'
  BY <1>0, <1>1 DEF Call, HeldOnce, HeldIsPrivate, PublishedOnce
<1>2. ASSUME NEW g \in Goroutine, Swap(g) PROVE Exclusive'
  <2>1. CASE localState = NoState
    BY <1>0, <1>2, <2>1 DEF Swap, HeldOnce, HeldIsPrivate, PublishedOnce
  <2>2. CASE localState # NoState
    <3>1. Hold(g, localState) /\ localState' = NoState /\ UNCHANGED pooled
      BY <1>2, <2>2 DEF Swap
    <3>2. depth[g] + 1 \in Depth /\ localState \in SearchState
      BY <1>0, <1>2, <2>2, OpenInside DEF TypeOK, Swap
    <3>3. HeldOnce'
      BY <1>0, <3>1, <3>2, TakenIsFree, HoldKeepsHeldOnce
    <3>4. pooled[localState] = 0
      BY <1>0, <3>2 DEF PublishedOnce, TypeOK
    <3>5. HeldIsPrivate'
      BY <1>0, <3>1, <3>2, <3>4, HeldAfterHold DEF HeldIsPrivate
    <3> QED BY <1>0, <3>1, <3>3, <3>5 DEF PublishedOnce
  <2> QED BY <2>1, <2>2
<1>3. ASSUME NEW g \in Goroutine, GetPooled(g) PROVE Exclusive'
  <2>1. PICK s \in SearchState :
          pooled[s] > 0 /\ pooled' = [pooled EXCEPT ![s] = @ - 1] /\ Hold(g, s)
    BY <1>3 DEF GetPooled
  <2>2. depth[g] + 1 \in Depth /\ UNCHANGED localState
    BY <1>3, OpenInside DEF GetPooled
  <2>3. /\ pooled'[s] = 0
        /\ \A t \in SearchState : t # s => pooled'[t] = pooled[t]
        /\ localState # s
    BY <1>0, <2>1 DEF TypeOK, PublishedOnce
  <2>4. HeldOnce'
    BY <1>0, <2>1, <2>2, TakenIsFree, HoldKeepsHeldOnce
  <2>5. HeldIsPrivate'
    BY <1>0, <2>1, <2>2, <2>3, HeldAfterHold DEF HeldIsPrivate, TypeOK
  <2>6. PublishedOnce'
    BY <1>0, <2>2, <2>3 DEF PublishedOnce
  <2> QED BY <2>4, <2>5, <2>6
<1>4. ASSUME NEW g \in Goroutine, GetNew(g) PROVE Exclusive'
  <2>1. PICK s \in SearchState \ live : Hold(g, s)
    BY <1>4 DEF GetNew
  <2>2. depth[g] + 1 \in Depth /\ UNCHANGED <<localState, pooled>>
    BY <1>4, OpenInside DEF GetNew
  <2>3. pooled[s] = 0 /\ localState # s
    BY <1>0, <2>1 DEF IInv, KnownLive, TypeOK
  <2>4. HeldOnce'
    BY <1>0, <2>1, <2>2, TakenIsFree, HoldKeepsHeldOnce
  <2>5. HeldIsPrivate'
    BY <1>0, <2>1, <2>2, <2>3, HeldAfterHold DEF HeldIsPrivate
  <2> QED BY <1>0, <2>2, <2>4, <2>5 DEF PublishedOnce
<1>5. ASSUME NEW g \in Goroutine, Install(g) PROVE Exclusive'
  BY <1>0, <1>5 DEF Install, HeldOnce, HeldIsPrivate, PublishedOnce
<1>6. ASSUME NEW g \in Goroutine, SearchHeld(g) PROVE Exclusive'
  BY <1>0, <1>6 DEF SearchHeld, HeldOnce, HeldIsPrivate, PublishedOnce
<1>7. ASSUME NEW g \in Goroutine, Reset(g) PROVE Exclusive'
  BY <1>0, <1>7 DEF Reset, HeldOnce, HeldIsPrivate, PublishedOnce
<1>8. ASSUME NEW g \in Goroutine, StoreLocal(g) PROVE Exclusive'
  <2>1. depth[g] > 0 /\ Drop(g) /\ localState' = Mine(g) /\ UNCHANGED pooled
    BY <1>8, OpenInside DEF StoreLocal
  <2>2. depth[g] \in Depth /\ Mine(g) = held[g][depth[g]] /\ Mine(g) \in SearchState
    BY <2>1, MineIsHeld
  <2>3. HeldOnce'
    BY <1>0, <2>1, <2>2, DropKeepsHeldOnce
  <2>4. HeldIsPrivate'
    BY <1>0, <2>1, <2>2, HeldAfterDrop DEF HeldIsPrivate, HeldOnce
  <2>5. PublishedOnce'
    BY <1>0, <2>1, <2>2 DEF PublishedOnce, HeldIsPrivate
  <2> QED BY <2>3, <2>4, <2>5
<1>9. ASSUME NEW g \in Goroutine, SlotTaken(g) PROVE Exclusive'
  BY <1>0, <1>9 DEF SlotTaken, HeldOnce, HeldIsPrivate, PublishedOnce
<1>10. ASSUME NEW g \in Goroutine, PutPooled(g) PROVE Exclusive'
  <2>1. /\ depth[g] > 0 /\ Drop(g) /\ UNCHANGED localState
        /\ pooled' = [pooled EXCEPT ![Mine(g)] = @ + 1]
    BY <1>10, OpenInside DEF PutPooled
  <2>2. depth[g] \in Depth /\ Mine(g) = held[g][depth[g]] /\ Mine(g) \in SearchState
    BY <2>1, MineIsHeld
  <2>3. /\ pooled'[Mine(g)] = 1 /\ localState # Mine(g)
        /\ \A t \in SearchState : t # Mine(g) => pooled'[t] = pooled[t]
    BY <1>0, <2>1, <2>2 DEF TypeOK, HeldIsPrivate
  <2>4. HeldOnce'
    BY <1>0, <2>1, <2>2, DropKeepsHeldOnce
  <2>5. HeldIsPrivate'
    <3>1. ASSUME NEW h \in Goroutine, NEW d \in Depth, held'[h][d] # NoState
          PROVE  held'[h][d] = held[h][d] /\ held[h][d] # Mine(g) /\ held[h][d] \in SearchState
      BY <1>0, <2>1, <2>2, <3>1, HeldAfterDrop DEF HeldOnce, TypeOK
    <3> QED BY <1>0, <2>1, <2>3, <3>1 DEF HeldIsPrivate
  <2>6. PublishedOnce'
    BY <1>0, <2>1, <2>3 DEF PublishedOnce
  <2> QED BY <2>4, <2>5, <2>6
<1>11. ASSUME NEW g \in Goroutine, EnterShared(g) PROVE Exclusive'
  BY <1>0, <1>11 DEF EnterShared, HeldOnce, HeldIsPrivate, PublishedOnce
<1>12. ASSUME NEW g \in Goroutine, LeaveShared(g) PROVE Exclusive'
  BY <1>0, <1>12 DEF LeaveShared, HeldOnce, HeldIsPrivate, PublishedOnce
<1>13. ASSUME NEW value \in BOOLEAN, SetLongest(value) PROVE Exclusive'
  BY <1>0, <1>13 DEF SetLongest, HeldOnce, HeldIsPrivate, PublishedOnce
<1>14. ASSUME NEW s \in SearchState, Collect(s) PROVE Exclusive'
  <2>1. /\ UNCHANGED <<localState, held>>
        /\ \A t \in SearchState : pooled'[t] = pooled[t] \/ pooled'[t] = 0
    BY <1>0, <1>14 DEF Collect, TypeOK
  <2> QED BY <1>0, <2>1 DEF HeldOnce, HeldIsPrivate, PublishedOnce, TypeOK
<1>15. CASE UNCHANGED vars
  BY <1>0, <1>15 DEF vars, HeldOnce, HeldIsPrivate, PublishedOnce
<1> QED BY <1>1, <1>2, <1>3, <1>4, <1>5, <1>6, <1>7, <1>8, <1>9, <1>10, <1>11, <1>12, <1>13, <1>14, <1>15 DEF Next, Work

(* Taking a state covers none of those held with flags that are not set.   *)
LEMMA HoldKeepsFlags ==
  ASSUME TypeOK, OpenHeld, FlagsSet, NEW g \in Goroutine, NEW s \in SearchState,
         depth[g] + 1 \in Depth, pc[g] \in {"run", "pool"}, Hold(g, s),
         UNCHANGED longest,
         \A h \in Goroutine : \A d \in Depth :
           held[h][d] # NoState => flag'[held[h][d]] = flag[held[h][d]]
  PROVE  FlagsSet'
<1>1. /\ \A h \in Goroutine : h # g => depth'[h] = depth[h] /\ pc'[h] = pc[h]
      /\ depth'[g] = depth[g] + 1 /\ pc'[g] = "install"
  BY DEF Hold, TypeOK
<1>2. ASSUME NEW h \in Goroutine, NEW d \in Depth, held'[h][d] # NoState,
             d = depth'[h] => pc'[h] \in {"run", "pool"}
      PROVE  held'[h][d] = held[h][d] /\ (d = depth[h] => pc[h] \in {"run", "pool"})
  BY <1>1, <1>2, HeldAfterHold
<1> QED BY <1>2 DEF FlagsSet

(* Giving up a state leaves the acquisition around it, which is settled.   *)
LEMMA DropKeepsFlags ==
  ASSUME TypeOK, OpenHeld, FlagsSet, HeldOnce, NEW g \in Goroutine,
         depth[g] \in Depth, pc[g] \in {"store", "overflow"}, Drop(g),
         UNCHANGED longest,
         \A t \in SearchState : t # Mine(g) => flag'[t] = flag[t]
  PROVE  FlagsSet'
<1>1. /\ \A h \in Goroutine : h # g => depth'[h] = depth[h] /\ pc'[h] = pc[h]
      /\ depth'[g] = depth[g] - 1 /\ pc'[g] = "run"
  BY DEF Drop, TypeOK
<1>2. ASSUME NEW h \in Goroutine, NEW d \in Depth, held'[h][d] # NoState
      PROVE  /\ held'[h][d] = held[h][d]
             /\ ~(h = g /\ d = depth[g])
             /\ flag'[held[h][d]] = flag[held[h][d]]
  <2>1. held'[h][d] = held[h][d] /\ ~(h = g /\ d = depth[g])
    BY <1>2, HeldAfterDrop
  <2>2. held[h][d] # Mine(g)
    BY <1>2, <2>1 DEF HeldOnce, Mine
  <2> QED BY <1>2, <2>1, <2>2 DEF TypeOK
<1> QED BY <1>1, <1>2 DEF FlagsSet

(* A held state other than the one being got or put keeps its flags: only  *)
(* its holder writes them, and Longest waits for the calls to end.         *)
LEMMA FlagsStep == ASSUME IInv, [Next]_vars PROVE FlagsSet'
<1>0. /\ TypeOK /\ OpenHeld /\ FlagsSet /\ HeldOnce /\ NoState \notin SearchState
      /\ MaxDepth \in Nat
      /\ \A g \in Goroutine : depth[g] \in Nat
      /\ \A d \in Depth : d \in Nat
  BY PoolAssumption DEF IInv, Exclusive, TypeOK, Depth
<1>1. ASSUME NEW g \in Goroutine, Call(g) PROVE FlagsSet'
  BY <1>0, <1>1 DEF Call, FlagsSet
<1>2. ASSUME NEW g \in Goroutine, Swap(g) PROVE FlagsSet'
  <2>1. CASE localState = NoState
    BY <1>0, <1>2, <2>1 DEF Swap, Takes, FlagsSet, TypeOK
  <2>2. CASE localState # NoState
    <3>1. Takes(g, "get") /\ Hold(g, localState) /\ UNCHANGED <<flag, longest>>
      BY <1>2, <2>2 DEF Swap
    <3>2. depth[g] + 1 \in Depth /\ localState \in SearchState
      BY <1>0, <2>2, <3>1, OpenInside DEF TypeOK
    <3> QED BY <1>0, <3>1, <3>2, HoldKeepsFlags DEF Takes
  <2> QED BY <2>1, <2>2
<1>3. ASSUME NEW g \in Goroutine, GetPooled(g) PROVE FlagsSet'
  BY <1>0, <1>3, OpenInside, HoldKeepsFlags DEF GetPooled
<1>4. ASSUME NEW g \in Goroutine, GetNew(g) PROVE FlagsSet'
  <2>1. PICK s \in SearchState \ live :
          flag' = [flag EXCEPT ![s] = Flags(FALSE)] /\ Hold(g, s)
    BY <1>4 DEF GetNew
  <2>2. depth[g] + 1 \in Depth /\ pc[g] = "pool" /\ UNCHANGED longest
    BY <1>4, OpenInside DEF GetNew
  <2>3. \A h \in Goroutine : \A d \in Depth : held[h][d] # s
    BY <2>1, TakenIsFree
  <2>4. \A h \in Goroutine : \A d \in Depth :
          held[h][d] # NoState => flag'[held[h][d]] = flag[held[h][d]]
    <3>1. \A t \in SearchState : t # s => flag'[t] = flag[t]
      BY <1>0, <2>1 DEF TypeOK
    <3>2. \A h \in Goroutine : \A d \in Depth : held[h][d] \in SearchState \cup {NoState}
      BY <1>0 DEF TypeOK
    <3> QED BY <2>3, <3>1, <3>2
  <2> QED BY <1>0, <2>1, <2>2, <2>4, HoldKeepsFlags
<1>5. ASSUME NEW g \in Goroutine, Install(g) PROVE FlagsSet'
  <2>1. /\ pc[g] = "install" /\ UNCHANGED <<longest, depth, held>>
        /\ flag' = [flag EXCEPT ![Mine(g)] = Flags(longest)]
        /\ pc' = [pc EXCEPT ![g] = "run"]
    BY <1>5 DEF Install
  <2>2. depth[g] \in Depth /\ Mine(g) \in SearchState /\ Mine(g) = held[g][depth[g]]
    BY <2>1, OpenInside, MineIsHeld
  <2>3. flag'[Mine(g)] = Flags(longest) /\ \A t \in SearchState : t # Mine(g) => flag'[t] = flag[t]
    BY <1>0, <2>1, <2>2 DEF TypeOK
  <2> QED BY <1>0, <2>1, <2>2, <2>3 DEF FlagsSet, TypeOK, HeldOnce
<1>6. ASSUME NEW g \in Goroutine, SearchHeld(g) PROVE FlagsSet'
  BY <1>0, <1>6 DEF SearchHeld, FlagsSet
<1>7. ASSUME NEW g \in Goroutine, Reset(g) PROVE FlagsSet'
  <2>1. /\ Takes(g, "put") /\ UNCHANGED <<longest, depth, held>>
        /\ flag' = [flag EXCEPT ![Mine(g)].backtracker = FALSE]
        /\ pc' = [pc EXCEPT ![g] = "store"]
    BY <1>7 DEF Reset
  <2>2. depth[g] \in Depth /\ Mine(g) \in SearchState /\ Mine(g) = held[g][depth[g]]
    BY <2>1, OpenInside, MineIsHeld
  <2>3. \A t \in SearchState : t # Mine(g) => flag'[t] = flag[t]
    BY <1>0, <2>1, <2>2 DEF TypeOK
  <2> QED BY <1>0, <2>1, <2>2, <2>3 DEF FlagsSet, TypeOK, HeldOnce, Takes
<1>8. ASSUME NEW g \in Goroutine, StoreLocal(g) PROVE FlagsSet'
  <2>1. pc[g] = "store" /\ depth[g] \in Depth /\ Drop(g) /\ UNCHANGED <<flag, longest>>
    BY <1>8, OpenInside, MineIsHeld DEF StoreLocal
  <2> QED BY <1>0, <2>1, DropKeepsFlags
<1>9. ASSUME NEW g \in Goroutine, SlotTaken(g) PROVE FlagsSet'
  BY <1>0, <1>9 DEF SlotTaken, FlagsSet, TypeOK
<1>10. ASSUME NEW g \in Goroutine, PutPooled(g) PROVE FlagsSet'
  <2>1. /\ depth[g] \in Depth /\ Mine(g) \in SearchState /\ Mine(g) = held[g][depth[g]]
        /\ pc[g] = "overflow" /\ Drop(g) /\ UNCHANGED longest
        /\ flag' = [flag EXCEPT ![Mine(g)].backtracker = FALSE]
    BY <1>10, OpenInside, MineIsHeld DEF PutPooled
  <2>2. \A t \in SearchState : t # Mine(g) => flag'[t] = flag[t]
    BY <1>0, <2>1 DEF TypeOK
  <2> QED BY <1>0, <2>1, <2>2, DropKeepsFlags
<1>11. ASSUME NEW g \in Goroutine, EnterShared(g) PROVE FlagsSet'
  BY <1>0, <1>11 DEF EnterShared, FlagsSet
<1>12. ASSUME NEW g \in Goroutine, LeaveShared(g) PROVE FlagsSet'
  BY <1>0, <1>12 DEF LeaveShared, FlagsSet
<1>13. ASSUME NEW value \in BOOLEAN, SetLongest(value) PROVE FlagsSet'
  <2>1. \A g \in Goroutine : depth[g] = 0
    BY <1>13, OpenInside DEF SetLongest, Idle
  <2> QED BY <1>0, <1>13, <2>1 DEF SetLongest, FlagsSet, OpenHeld, Depth
<1>14. ASSUME NEW s \in SearchState, Collect(s) PROVE FlagsSet'
  BY <1>0, <1>14 DEF Collect, FlagsSet
<1>15. CASE UNCHANGED vars
  BY <1>0, <1>15 DEF vars, FlagsSet
<1> QED BY <1>1, <1>2, <1>3, <1>4, <1>5, <1>6, <1>7, <1>8, <1>9, <1>10, <1>11, <1>12, <1>13, <1>14, <1>15 DEF Next, Work

(* Whoever empties the slot owes it a state.                               *)
LEMMA OwedStep == ASSUME IInv, [Next]_vars PROVE SlotOwed'
<1>0. /\ TypeOK /\ SlotOwed /\ NoState \notin SearchState
      /\ \A g \in Goroutine : depth[g] \in Nat
  BY PoolAssumption DEF IInv, TypeOK
<1>1. ASSUME NEW g \in Goroutine, Call(g) PROVE SlotOwed'
  BY <1>0, <1>1 DEF Call, SlotOwed, Returns
<1>2. ASSUME NEW g \in Goroutine, Swap(g) PROVE SlotOwed'
  <2>1. CASE localState = NoState
    BY <1>0, <1>2, <2>1 DEF Swap, Takes, SlotOwed, Returns, TypeOK
  <2>2. CASE localState # NoState
    <3>1. Hold(g, localState)
      BY <1>2, <2>2 DEF Swap
    <3> QED BY <1>0, <3>1 DEF Hold, SlotOwed, Returns, TypeOK
  <2> QED BY <2>1, <2>2
<1>3. ASSUME NEW g \in Goroutine, GetPooled(g) PROVE SlotOwed'
  <2>1. PICK s \in SearchState : Hold(g, s)
    BY <1>3 DEF GetPooled
  <2> QED BY <1>0, <2>1 DEF Hold, SlotOwed, Returns, TypeOK
<1>4. ASSUME NEW g \in Goroutine, GetNew(g) PROVE SlotOwed'
  <2>1. PICK s \in SearchState : Hold(g, s)
    BY <1>4 DEF GetNew
  <2> QED BY <1>0, <2>1 DEF Hold, SlotOwed, Returns, TypeOK
<1>5. ASSUME NEW g \in Goroutine, Install(g) PROVE SlotOwed'
  BY <1>0, <1>5 DEF Install, SlotOwed, Returns, TypeOK
<1>6. ASSUME NEW g \in Goroutine, SearchHeld(g) PROVE SlotOwed'
  BY <1>0, <1>6 DEF SearchHeld, SlotOwed, Returns
<1>7. ASSUME NEW g \in Goroutine, Reset(g) PROVE SlotOwed'
  BY <1>0, <1>7 DEF Reset, SlotOwed, Returns, TypeOK
<1>8. ASSUME NEW g \in Goroutine, StoreLocal(g) PROVE SlotOwed'
  <2>1. localState' \in SearchState
    BY <1>8, OpenInside, MineIsHeld DEF StoreLocal
  <2> QED BY <1>0, <2>1 DEF SlotOwed
<1>9. ASSUME NEW g \in Goroutine, SlotTaken(g) PROVE SlotOwed'
  BY <1>0, <1>9 DEF SlotTaken, SlotOwed, Returns
<1>10. ASSUME NEW g \in Goroutine, PutPooled(g) PROVE SlotOwed'
  <2>1. pc[g] = "overflow" /\ Drop(g) /\ UNCHANGED <<localState, live>>
    BY <1>10 DEF PutPooled
  <2>2. ASSUME NEW h \in Goroutine, Returns(h) PROVE Returns(h)'
    BY <1>0, <2>1, <2>2 DEF Drop, Returns, TypeOK
  <2> QED BY <1>0, <2>1, <2>2 DEF SlotOwed
<1>11. ASSUME NEW g \in Goroutine, EnterShared(g) PROVE SlotOwed'
  BY <1>0, <1>11 DEF EnterShared, SlotOwed, Returns
<1>12. ASSUME NEW g \in Goroutine, LeaveShared(g) PROVE SlotOwed'
  BY <1>0, <1>12 DEF LeaveShared, SlotOwed, Returns
<1>13. ASSUME NEW value \in BOOLEAN, SetLongest(value) PROVE SlotOwed'
  BY <1>0, <1>13 DEF SetLongest, SlotOwed, Returns
<1>14. ASSUME NEW s \in SearchState, Collect(s) PROVE SlotOwed'
  BY <1>0, <1>14 DEF Collect, SlotOwed, Returns
<1>15. CASE UNCHANGED vars
  BY <1>0, <1>15 DEF vars, SlotOwed, Returns
<1> QED BY <1>1, <1>2, <1>3, <1>4, <1>5, <1>6, <1>7, <1>8, <1>9, <1>10, <1>11, <1>12, <1>13, <1>14, <1>15 DEF Next, Work

(* Every step keeps the invariant.                                         *)
LEMMA Inductive == IInv /\ [Next]_vars => IInv'
BY TypeStep, ExclusiveStep, NestStep, OpenHeldStep, KnownLiveStep, FlagsStep, OwedStep
DEF IInv

(* The invariant holds.                                                    *)
LEMMA InvHolds == Spec => []IInv
BY Initially, Inductive, PTL DEF Spec

-----------------------------------------------------------------------------
(* Theorems                                                                *)

(* The variables keep their types; in particular no pool entry is handed   *)
(* out twice and no goroutine opens more acquisitions than its call may.   *)
THEOREM TypeCorrect == Spec => []TypeOK
<1>1. IInv => TypeOK
  BY DEF IInv
<1> QED BY <1>1, InvHolds, PTL

(* Two searches never share a SearchState, however many goroutines there   *)
(* are and whatever calls they make.                                       *)
THEOREM Exclusion == Spec => []Exclusive
<1>1. IInv => Exclusive
  BY DEF IInv
<1> QED BY <1>1, InvHolds, PTL

(* Every search runs with the Engine's longest flag in both matchers.      *)
THEOREM Configuration == Spec => []Configured
<1>1. IInv => Configured
  <2> SUFFICES ASSUME IInv, NEW g \in Goroutine, Takes(g, "search")
               PROVE  depth[g] > 0 /\ flag[Mine(g)] = Flags(longest)
    BY DEF Configured
  <2>1. depth[g] > 0 /\ depth[g] \in Depth /\ Mine(g) \in SearchState /\ Mine(g) = held[g][depth[g]]
    BY OpenInside, MineIsHeld
  <2> QED BY <2>1, PoolAssumption DEF IInv, FlagsSet, Takes
<1> QED BY <1>1, InvHolds, PTL

(* Between calls the slot is full as soon as any state is allocated.       *)
THEOREM Warmth == Spec => []WarmSlot
<1>1. IInv => WarmSlot
  <2> SUFFICES ASSUME IInv, \A g \in Goroutine : Idle(g), live # {}
               PROVE  localState # NoState
    BY DEF WarmSlot
  <2>1. \A g \in Goroutine : depth[g] = 0
    BY OpenInside DEF Idle
  <2> QED BY <2>1 DEF IInv, SlotOwed, Returns
<1> QED BY <1>1, InvHolds, PTL

-----------------------------------------------------------------------------
(* The refinement                                                          *)

Owns(g, s) == \E d \in Depth : held[g][d] = s
Idles(s) == localState = s \/ pooled[s] > 0

(* The owner the refinement names is the one that holds the state.         *)
LEMMA OwnerOf ==
  ASSUME IInv, NEW s \in SearchState
  PROVE  /\ \A g \in Goroutine : Owns(g, s) => Owner(s) = g
         /\ ~(\E g \in Goroutine : Owns(g, s)) =>
              Owner(s) = IF Idles(s) THEN "free" ELSE "gone"
<1>1. HeldOnce /\ NoState \notin SearchState
  BY PoolAssumption DEF IInv, Exclusive
<1>2. ASSUME NEW g \in Goroutine, Owns(g, s) PROVE Owner(s) = g
  <2>1. \E h \in Goroutine : \E d \in Depth : held[h][d] = s
    BY <1>2 DEF Owns
  <2>2. Owner(s) \in Goroutine /\ \E d \in Depth : held[Owner(s)][d] = s
    BY <2>1 DEF Owner
  <2> QED BY <1>1, <1>2, <2>2 DEF Owns, HeldOnce
<1>3. ~(\E g \in Goroutine : Owns(g, s)) =>
        Owner(s) = IF Idles(s) THEN "free" ELSE "gone"
  BY DEF Owns, Owner, Idles
<1> QED BY <1>2, <1>3

(* The same after a step.                                                  *)
LEMMA OwnerOfNext ==
  ASSUME IInv', NEW s \in SearchState
  PROVE  /\ \A g \in Goroutine : Owns(g, s)' => Owner(s)' = g
         /\ ~(\E g \in Goroutine : Owns(g, s)') =>
              Owner(s)' = IF Idles(s)' THEN "free" ELSE "gone"
<1>1. HeldOnce' /\ NoState \notin SearchState
  BY PoolAssumption DEF IInv, Exclusive
<1>2. ASSUME NEW g \in Goroutine, Owns(g, s)' PROVE Owner(s)' = g
  <2>1. \E h \in Goroutine : \E d \in Depth : held'[h][d] = s
    BY <1>2 DEF Owns
  <2>2. Owner(s)' \in Goroutine /\ \E d \in Depth : held'[Owner(s)'][d] = s
    BY <2>1 DEF Owner
  <2> QED BY <1>1, <1>2, <2>2 DEF Owns, HeldOnce
<1>3. ~(\E g \in Goroutine : Owns(g, s)') =>
        Owner(s)' = IF Idles(s)' THEN "free" ELSE "gone"
  BY DEF Owns, Owner, Idles
<1> QED BY <1>2, <1>3

(* A step that leaves a state where it was leaves its owner.               *)
LEMMA SameOwner ==
  ASSUME IInv, IInv', NEW s \in SearchState,
         \A g \in Goroutine : Owns(g, s)' <=> Owns(g, s),
         Idles(s)' <=> Idles(s)
  PROVE  Owner(s)' = Owner(s)
BY OwnerOf, OwnerOfNext

(* A step changes the owner of no state but the one it is about.           *)
LEMMA StepOwnedElsewhere ==
  ASSUME IInv, IInv', NEW s \in SearchState,
         \A t \in SearchState \ {s} :
           /\ \A g \in Goroutine : Owns(g, t)' <=> Owns(g, t)
           /\ Idles(t)' <=> Idles(t)
  PROVE  [t \in SearchState |-> Owner(t)]' =
           [[t \in SearchState |-> Owner(t)] EXCEPT ![s] = Owner(s)']
BY SameOwner

(* Taking a state that nobody holds acquires it.                           *)
LEMMA TakeAcquires ==
  ASSUME IInv, IInv', NEW g \in Goroutine, NEW s \in SearchState,
         depth[g] + 1 \in Depth, Hold(g, s),
         \A h \in Goroutine : \A d \in Depth : held[h][d] # s,
         \A t \in SearchState \ {s} : Idles(t)' <=> Idles(t)
  PROVE  Ownership!Acquire(g, s)
<1>1. OpenHeld /\ TypeOK /\ depth[g] \in Nat /\ NoState \notin SearchState
  <2>1. OpenHeld /\ TypeOK
    BY DEF IInv
  <2>2. depth[g] \in Nat
    BY <2>1 DEF TypeOK, Depth
  <2>3. NoState \notin SearchState
    BY PoolAssumption
  <2> QED BY <2>1, <2>2, <2>3
<1>2. held[g][depth[g] + 1] = NoState
  BY <1>1 DEF OpenHeld
<1>3. \A h \in Goroutine : \A t \in SearchState \ {s} : Owns(h, t)' <=> Owns(h, t)
  BY <1>1, <1>2, HeldAfterHold DEF Owns
<1>4. Owns(g, s)' /\ ~(\E h \in Goroutine : Owns(h, s))
  BY <1>1, HeldAfterHold DEF Owns
<1>5. Owner(s)' = g /\ Owner(s) \in {"free", "gone"}
  BY <1>4, OwnerOf, OwnerOfNext
<1> QED BY <1>3, <1>5, StepOwnedElsewhere DEF Ownership!Acquire

(* Giving up a state releases it, once it is in the slot or in the pool.   *)
LEMMA DropReleases ==
  ASSUME IInv, IInv', NEW g \in Goroutine, NEW s \in SearchState,
         depth[g] \in Depth, Drop(g), s = Mine(g), Idles(s)',
         \A t \in SearchState \ {s} : Idles(t)' <=> Idles(t)
  PROVE  Ownership!Release(g, s)
<1>1. HeldOnce /\ TypeOK /\ NoState \notin SearchState /\ s = held[g][depth[g]]
  BY PoolAssumption DEF IInv, Exclusive, Mine
<1>2. \A h \in Goroutine : \A t \in SearchState \ {s} : Owns(h, t)' <=> Owns(h, t)
  BY <1>1, HeldAfterDrop DEF Owns
<1>3. Owns(g, s) /\ ~(\E h \in Goroutine : Owns(h, s)')
  BY <1>1, HeldAfterDrop DEF Owns, HeldOnce
<1>4. Owner(s) = g /\ Owner(s)' = "free"
  BY <1>3, OwnerOf, OwnerOfNext
<1> QED BY <1>2, <1>4, StepOwnedElsewhere DEF Ownership!Release

(* Every action of the pool is a step or a stutter of the ownership.       *)
LEMMA StepRefines ==
  ASSUME IInv, IInv', [Next]_vars
  PROVE  [Ownership!Next]_([s \in SearchState |-> Owner(s)])
<1> DEFINE own == [s \in SearchState |-> Owner(s)]
<1>0. TypeOK /\ NoState \notin SearchState
  BY PoolAssumption DEF IInv
<1>1. ASSUME UNCHANGED held, \A s \in SearchState : Idles(s)' <=> Idles(s)
      PROVE  UNCHANGED own
  BY <1>1, SameOwner DEF Owns
<1>2. ASSUME UNCHANGED <<localState, pooled, held>> PROVE UNCHANGED own
  BY <1>1, <1>2 DEF Idles
<1>3. ASSUME NEW g \in Goroutine, Swap(g) PROVE Ownership!Next \/ UNCHANGED own
  <2>1. CASE localState = NoState
    BY <1>2, <1>3, <2>1 DEF Swap
  <2>2. CASE localState # NoState
    <3>1. PICK s \in SearchState : s = localState
      BY <1>0, <2>2 DEF TypeOK
    <3>2. Takes(g, "get") /\ Hold(g, s) /\ localState' = NoState /\ UNCHANGED pooled
      BY <1>3, <2>2, <3>1 DEF Swap
    <3>3. depth[g] + 1 \in Depth /\ \A h \in Goroutine : \A d \in Depth : held[h][d] # s
      BY <3>1, <3>2, OpenInside, TakenIsFree
    <3>4. \A t \in SearchState \ {s} : Idles(t)' <=> Idles(t)
      BY <1>0, <3>1, <3>2 DEF Idles
    <3> QED BY <3>2, <3>3, <3>4, TakeAcquires DEF Ownership!Next
  <2> QED BY <2>1, <2>2
<1>4. ASSUME NEW g \in Goroutine, GetPooled(g) PROVE Ownership!Next
  <2>1. PICK s \in SearchState :
          pooled[s] > 0 /\ pooled' = [pooled EXCEPT ![s] = @ - 1] /\ Hold(g, s)
    BY <1>4 DEF GetPooled
  <2>2. /\ depth[g] + 1 \in Depth /\ UNCHANGED localState
        /\ \A h \in Goroutine : \A d \in Depth : held[h][d] # s
    BY <1>4, <2>1, OpenInside, TakenIsFree DEF GetPooled
  <2>3. \A t \in SearchState \ {s} : Idles(t)' <=> Idles(t)
    BY <1>0, <2>1, <2>2 DEF Idles, TypeOK
  <2> QED BY <2>1, <2>2, <2>3, TakeAcquires DEF Ownership!Next
<1>5. ASSUME NEW g \in Goroutine, GetNew(g) PROVE Ownership!Next
  <2>1. PICK s \in SearchState \ live : Hold(g, s)
    BY <1>5 DEF GetNew
  <2>2. /\ depth[g] + 1 \in Depth /\ UNCHANGED <<localState, pooled>>
        /\ \A h \in Goroutine : \A d \in Depth : held[h][d] # s
    BY <1>5, <2>1, OpenInside, TakenIsFree DEF GetNew
  <2>3. \A t \in SearchState \ {s} : Idles(t)' <=> Idles(t)
    BY <2>2 DEF Idles
  <2> QED BY <2>1, <2>2, <2>3, TakeAcquires DEF Ownership!Next
<1>6. ASSUME NEW g \in Goroutine, StoreLocal(g) PROVE Ownership!Next
  <2>1. /\ depth[g] \in Depth /\ Mine(g) \in SearchState
        /\ Drop(g) /\ localState = NoState /\ localState' = Mine(g) /\ UNCHANGED pooled
    BY <1>6, OpenInside, MineIsHeld DEF StoreLocal
  <2>2. PICK s \in SearchState : s = Mine(g)
    BY <2>1
  <2>3. Idles(s)' /\ \A t \in SearchState \ {s} : Idles(t)' <=> Idles(t)
    BY <1>0, <2>1, <2>2 DEF Idles
  <2> QED BY <2>1, <2>2, <2>3, DropReleases DEF Ownership!Next
<1>7. ASSUME NEW g \in Goroutine, PutPooled(g) PROVE Ownership!Next
  <2>1. /\ depth[g] \in Depth /\ Mine(g) \in SearchState
        /\ Drop(g) /\ UNCHANGED localState
        /\ pooled' = [pooled EXCEPT ![Mine(g)] = @ + 1]
    BY <1>7, OpenInside, MineIsHeld DEF PutPooled
  <2>2. PICK s \in SearchState : s = Mine(g)
    BY <2>1
  <2>3. Idles(s)' /\ \A t \in SearchState \ {s} : Idles(t)' <=> Idles(t)
    BY <1>0, <2>1, <2>2 DEF Idles, TypeOK
  <2> QED BY <2>1, <2>2, <2>3, DropReleases DEF Ownership!Next
<1>8. ASSUME NEW s \in SearchState, Collect(s) PROVE Ownership!Next
  <2>1. /\ localState # s /\ UNCHANGED <<localState, held>>
        /\ pooled[s] > 0 /\ pooled' = [pooled EXCEPT ![s] = 0]
        /\ \A h \in Goroutine : \A d \in Depth : held[h][d] # s
    BY <1>8, TakenIsFree DEF Collect, IInv, TypeOK, Exclusive, PublishedOnce
  <2>2. /\ ~Idles(s)' /\ Idles(s)
        /\ \A t \in SearchState \ {s} : Idles(t)' <=> Idles(t)
        /\ \A h \in Goroutine : ~Owns(h, s) /\ ~Owns(h, s)'
        /\ \A h \in Goroutine : \A t \in SearchState : Owns(h, t)' <=> Owns(h, t)
    BY <1>0, <2>1 DEF Idles, Owns, TypeOK
  <2>3. Owner(s) = "free" /\ Owner(s)' = "gone"
    BY <2>2, OwnerOf, OwnerOfNext
  <2>4. Ownership!Collect(s)
    BY <2>2, <2>3, StepOwnedElsewhere DEF Ownership!Collect
  <2> QED BY <2>4 DEF Ownership!Next
<1>9. ASSUME NEW g \in Goroutine,
             \/ Call(g) \/ Install(g) \/ SearchHeld(g) \/ Reset(g) \/ SlotTaken(g)
             \/ EnterShared(g) \/ LeaveShared(g)
      PROVE  UNCHANGED own
  BY <1>2, <1>9
  DEF Call, Install, SearchHeld, Reset, SlotTaken, EnterShared, LeaveShared
<1>10. ASSUME NEW value \in BOOLEAN, SetLongest(value) PROVE UNCHANGED own
  BY <1>2, <1>10 DEF SetLongest
<1>11. CASE UNCHANGED vars
  BY <1>2, <1>11 DEF vars
<1> QED BY <1>3, <1>4, <1>5, <1>6, <1>7, <1>8, <1>9, <1>10, <1>11 DEF Next, Work

(* The slot, the pool and the collector implement the ownership of         *)
(* StateOwnership: a SearchState passes from hand to hand only by being    *)
(* given up and taken again.                                               *)
THEOREM Refinement == Spec => ImplementsOwnership
<1>1. Init => Ownership!Init
  BY PoolAssumption DEF Init, Owner, Ownership!Init, Depth
<1>2. IInv /\ IInv' /\ [Next]_vars => [Ownership!Next]_([s \in SearchState |-> Owner(s)])
  BY StepRefines
<1> QED BY <1>1, <1>2, InvHolds, PTL DEF Spec, ImplementsOwnership, Ownership!Spec
=============================================================================
