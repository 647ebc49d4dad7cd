--------------------------- MODULE DeterminizeProofs ---------------------------
(***************************************************************************)
(* Facts about the operators of Determinize, and about the recursive       *)
(* functions they are written with.                                        *)
(***************************************************************************)
EXTENDS Paths, TLAPS, WellFoundedInduction, FiniteSetTheorems

(* A nonempty set of naturals has a least element, which Min returns.      *)
LEMMA LeastElement ==
  ASSUME NEW S \in SUBSET Nat, S # {}
  PROVE  Min(S) \in S /\ \A x \in S : Min(S) <= x
  <1>1. PICK x \in S : \A y \in S : ~(<<y, x>> \in OpToRel(<, Nat))
    BY NatLessThanWellFounded, WFMin
  <1>2. \A y \in S : ~(y < x)
    BY <1>1 DEF OpToRel
  <1>3. \A y \in S : x <= y
    BY <1>2
  <1> QED BY <1>3 DEF Min

(* Induction along an interval: a set that holds its first element, and    *)
(* with an element the next, holds the interval.                           *)
LEMMA IntervalInduction ==
  ASSUME NEW m \in Nat, NEW n \in Nat, NEW A,
         m \in A, \A k \in m..(n - 1) : k \in A => k + 1 \in A
  PROVE  m..n \subseteq A
  <1> DEFINE Rest == (m..n) \ A
  <1>1. SUFFICES ASSUME Rest # {} PROVE FALSE
    OBVIOUS
  <1>2. Min(Rest) \in Rest /\ \A x \in Rest : Min(Rest) <= x
    <2>1. Rest \in SUBSET Nat
      OBVIOUS
    <2> QED BY <1>1, <2>1, LeastElement
  <1>3. PICK least \in m..n : least \notin A /\ \A x \in m..n : x \notin A => least <= x
    BY <1>2
  <1>4. least - 1 \in m..(n - 1) /\ least - 1 \in m..n /\ ~(least <= least - 1)
    BY <1>3
  <1>5. least - 1 \in A
    BY <1>3, <1>4
  <1>6. (least - 1) + 1 \in A
    BY <1>4, <1>5
  <1> QED BY <1>3, <1>6

(* A function on an interval may be defined by recursion: by its first     *)
(* value and a step from one value to the next.                            *)
Defines(m, n, S, x, step) ==
  \E f \in [m..n -> S] : \A k \in m..n : f[k] = IF k = m THEN x ELSE step[k][f[k - 1]]

(* A function on an interval is defined by its first value and a step.     *)
LEMMA IntervalRecursion ==
  ASSUME NEW m \in Nat, NEW n \in Nat, m <= n, NEW S, NEW x \in S,
         NEW step \in [m..n -> [S -> S]]
  PROVE  Defines(m, n, S, x, step)
  <1> DEFINE Defined(j, f) == \A k \in m..j : f[k] = IF k = m THEN x ELSE step[k][f[k - 1]]
             A == {j \in m..n : \E f \in [m..j -> S] : Defined(j, f)}
  <1>1. m \in A
    <2>1. [k \in m..m |-> x] \in [m..m -> S] /\ m \in m..n
      OBVIOUS
    <2>2. Defined(m, [k \in m..m |-> x])
      OBVIOUS
    <2> QED BY <2>1, <2>2
  <1>2. ASSUME NEW j \in m..(n - 1), j \in A PROVE j + 1 \in A
    <2>1. PICK f \in [m..j -> S] : Defined(j, f)
      BY <1>2
    <2> DEFINE g == [k \in m..(j + 1) |-> IF k = j + 1 THEN step[k][f[j]] ELSE f[k]]
    <2>2. j \in m..j /\ j + 1 \in m..n /\ f[j] \in S
      OBVIOUS
    <2>3. step[j + 1][f[j]] \in S
      BY <2>2
    <2>4. g \in [m..(j + 1) -> S]
      <3> SUFFICES ASSUME NEW k \in m..(j + 1)
                   PROVE  (IF k = j + 1 THEN step[k][f[j]] ELSE f[k]) \in S
        OBVIOUS
      <3>1. k # j + 1 => k \in m..j
        OBVIOUS
      <3> QED BY <2>3, <3>1
    <2>5. \A k \in m..(j + 1) : g[k] = IF k = m THEN x ELSE step[k][g[k - 1]]
      <3> SUFFICES ASSUME NEW k \in m..(j + 1)
                   PROVE  g[k] = IF k = m THEN x ELSE step[k][g[k - 1]]
        OBVIOUS
      <3>1. CASE k = j + 1
        <4>1. k # m /\ k - 1 = j /\ j \in m..(j + 1) /\ j # j + 1
          BY <3>1
        <4> QED BY <3>1, <4>1
      <3>2. CASE k # j + 1
        <4>1. k \in m..j /\ g[k] = f[k]
          BY <3>2
        <4>2. f[k] = IF k = m THEN x ELSE step[k][f[k - 1]]
          BY <2>1, <4>1
        <4>3. k # m => k - 1 \in m..j /\ g[k - 1] = f[k - 1]
          <5>1. ASSUME k # m PROVE k - 1 \in m..j
            BY <4>1, <5>1
          <5>2. \A i \in m..j : i \in m..(j + 1) /\ i # j + 1
            OBVIOUS
          <5> QED BY <5>1, <5>2
        <4> QED BY <4>1, <4>2, <4>3
      <3> QED BY <3>1, <3>2
    <2>6. Defined(j + 1, g)
      BY <2>5
    <2> HIDE DEF g
    <2> QED BY <2>2, <2>4, <2>6
  <1>3. n \in A
    <2> HIDE DEF A
    <2>1. m..n \subseteq A
      BY <1>1, <1>2, IntervalInduction
    <2> QED BY <2>1
  <1> QED BY <1>3 DEF Defines

(* Sequences of a set put together are a sequence of the set.              *)
LEMMA FlattenType ==
  ASSUME NEW S, NEW seqs \in Seq(Seq(S))
  PROVE  FlattenSeq(seqs) \in Seq(S)
  <1> DEFINE n == Len(seqs)
  <1>1. CASE n = 0
    <2>1. seqs = <<>>
      BY <1>1
    <2> QED BY <2>1 DEF FlattenSeq
  <1>2. CASE n # 0
    <2> DEFINE flatten[i \in 1..n] == IF i = 1 THEN seqs[i] ELSE flatten[i - 1] \o seqs[i]
               step == [i \in 1..n |-> [s \in Seq(S) |-> s \o seqs[i]]]
               A == {i \in 1..n : flatten[i] \in Seq(S)}
    <2>1. n \in Nat /\ 1 <= n /\ \A i \in 1..n : seqs[i] \in Seq(S)
      BY <1>2
    <2>2. step \in [1..n -> [Seq(S) -> Seq(S)]]
      BY <2>1
    <2>3. PICK f \in [1..n -> Seq(S)] :
            \A i \in 1..n : f[i] = IF i = 1 THEN seqs[1] ELSE step[i][f[i - 1]]
      <3>1. seqs[1] \in Seq(S) /\ 1 \in Nat
        BY <2>1
      <3> HIDE DEF step, n
      <3>2. Defines(1, n, Seq(S), seqs[1], step)
        BY <2>1, <2>2, <3>1, IntervalRecursion
      <3> QED BY <3>2 DEF Defines
    <2>4. f = [i \in 1..n |-> IF i = 1 THEN seqs[i] ELSE f[i - 1] \o seqs[i]]
      <3> SUFFICES ASSUME NEW i \in 1..n
                   PROVE  f[i] = IF i = 1 THEN seqs[i] ELSE f[i - 1] \o seqs[i]
        BY <2>3
      <3>1. i # 1 => i - 1 \in 1..n
        BY <2>1
      <3> QED BY <2>1, <2>3, <3>1
    <2>5. flatten = [i \in 1..n |-> IF i = 1 THEN seqs[i] ELSE flatten[i - 1] \o seqs[i]]
      BY <2>4
    <2> HIDE DEF flatten
    <2>6. 1 \in A
      BY <2>1, <2>5
    <2>7. ASSUME NEW i \in 1..(n - 1), i \in A PROVE i + 1 \in A
      <3>1. i + 1 \in 1..n /\ i + 1 # 1 /\ (i + 1) - 1 = i
        BY <2>1
      <3>2. flatten[i + 1] = flatten[i] \o seqs[i + 1]
        BY <2>5, <3>1
      <3>3. flatten[i] \o seqs[i + 1] \in Seq(S)
        BY <2>1, <2>7, <3>1
      <3> QED BY <3>1, <3>2, <3>3
    <2>8. n \in A
      <3>1. n \in 1..n
        BY <2>1
      <3> HIDE DEF A, n
      <3>2. 1..n \subseteq A
        BY <2>1, <2>6, <2>7, IntervalInduction
      <3> QED BY <3>1, <3>2
    <2> QED BY <1>2, <2>8 DEF FlattenSeq, flatten
  <1> QED BY <1>1, <1>2

-----------------------------------------------------------------------------
(* Lists of states.                                                        *)

NfaIDs(n) == 0..(Len(n.states) - 1)
Distinct(ids) == \A j, k \in DOMAIN ids : ids[j] = ids[k] => j = k
Lists(n) == {ids \in Seq(NfaIDs(n)) : Distinct(ids)}

(* A state that a valid automaton names is one of its states.              *)
LEMMA StateIsOne ==
  ASSUME NEW n, Validate(n), NEW id \in NfaIDs(n)
  PROVE  StateAt(n, id) \in ToSet(n.states) /\ Len(n.states) \in Nat \ {0}
  <1>1. n.states \in Seq(ToSet(n.states)) /\ Len(n.states) \in Nat
    BY DEF Validate
  <1> QED BY <1>1 DEF StateAt, NfaIDs, ToSet

(* Where a state goes without a byte are states.                           *)
LEMMA EpsilonSuccessorsType ==
  ASSUME NEW n, Validate(n), NEW id \in NfaIDs(n), NEW have
  PROVE  EpsilonSuccessors(n, id, have) \in Seq(NfaIDs(n))
  <1> DEFINE s == StateAt(n, id)
             to(t) == IF t >= 0 THEN <<t>> ELSE <<>>
  <1>1. s \in ToSet(n.states) /\ Len(n.states) \in Nat \ {0}
    BY StateIsOne
  <1>2. ASSUME NEW t \in -1..(Len(n.states) - 1) PROVE to(t) \in Seq(NfaIDs(n))
    <2>1. ASSUME t >= 0 PROVE <<t>> \in Seq(NfaIDs(n))
      <3>1. t \in NfaIDs(n)
        BY <1>1, <2>1 DEF NfaIDs
      <3> QED BY <3>1
    <2> QED BY <2>1
  <1>3. CASE s.kind \in {"Epsilon", "Capture", "Look"}
    <2>1. s.next \in -1..(Len(n.states) - 1)
      BY <1>1, <1>3 DEF Validate
    <2>2. EpsilonSuccessors(n, id, have) \in {to(s.next), <<>>}
      BY <1>3 DEF EpsilonSuccessors
    <2>3. <<>> \in Seq(NfaIDs(n))
      OBVIOUS
    <2> HIDE DEF s, to
    <2> QED BY <1>2, <2>1, <2>2, <2>3
  <1>4. CASE s.kind = "Split"
    <2>1. s.left \in -1..(Len(n.states) - 1) /\ s.right \in -1..(Len(n.states) - 1)
      BY <1>1, <1>4 DEF Validate
    <2>2. EpsilonSuccessors(n, id, have) = to(s.left) \o to(s.right)
      BY <1>4 DEF EpsilonSuccessors
    <2> HIDE DEF s, to
    <2>3. to(s.left) \in Seq(NfaIDs(n)) /\ to(s.right) \in Seq(NfaIDs(n))
      BY <1>2, <2>1
    <2> QED BY <2>2, <2>3
  <1>5. CASE s.kind \notin {"Epsilon", "Capture", "Look", "Split"}
    <2>1. EpsilonSuccessors(n, id, have) = <<>>
      BY <1>5 DEF EpsilonSuccessors
    <2> QED BY <2>1
  <1> QED BY <1>3, <1>4, <1>5

Closure(n) == [stack : Seq(NfaIDs(n)), ids : Lists(n)]

(* A turn of the loop keeps the list free of repetitions and loses nothing.*)
LEMMA EpsilonClosureIntoType ==
  ASSUME NEW n, Validate(n), NEW have, NEW closure \in Closure(n)
  PROVE  /\ EpsilonClosureInto(n, have, closure) \in Closure(n)
         /\ closure.ids # <<>> \/ closure.stack # <<>> =>
              EpsilonClosureInto(n, have, closure).ids # <<>>
  <1> DEFINE stack == closure.stack
             ids == closure.ids
             id == Head(stack)
  <1>1. stack \in Seq(NfaIDs(n)) /\ ids \in Seq(NfaIDs(n)) /\ Distinct(ids)
        /\ closure = [stack |-> stack, ids |-> ids]
    BY DEF Closure, Lists
  <1> HIDE DEF stack, ids
  <1>2. CASE stack = <<>>
    <2>1. EpsilonClosureInto(n, have, closure) = closure
      BY <1>2 DEF EpsilonClosureInto, stack
    <2> QED BY <1>1, <1>2, <2>1 DEF Closure, stack, ids
  <1>3. CASE stack # <<>> /\ Contains(ids, id)
    <2>1. EpsilonClosureInto(n, have, closure) = [stack |-> Tail(stack), ids |-> ids]
      BY <1>1, <1>3 DEF EpsilonClosureInto, stack, ids
    <2>2. Tail(stack) \in Seq(NfaIDs(n)) /\ ids # <<>>
      BY <1>1, <1>3 DEF Contains
    <2>3. [stack |-> Tail(stack), ids |-> ids] \in Closure(n)
      BY <1>1, <2>2 DEF Closure, Lists
    <2> QED BY <2>1, <2>2, <2>3
  <1>4. CASE stack # <<>> /\ ~Contains(ids, id)
    <2> DEFINE pushed == EpsilonSuccessors(n, id, have) \o Tail(stack)
               longer == Append(ids, id)
    <2>1. EpsilonClosureInto(n, have, closure) = [stack |-> pushed, ids |-> longer]
      BY <1>4 DEF EpsilonClosureInto, stack, ids
    <2>2. id \in NfaIDs(n) /\ Tail(stack) \in Seq(NfaIDs(n))
      BY <1>1, <1>4
    <2>3. pushed \in Seq(NfaIDs(n))
      BY <2>2, EpsilonSuccessorsType
    <2>4. longer \in Seq(NfaIDs(n)) /\ longer # <<>>
      <3>1. longer \in Seq(NfaIDs(n)) /\ Len(longer) = Len(ids) + 1 /\ Len(ids) \in Nat
        BY <1>1, <2>2
      <3> HIDE DEF longer
      <3>2. Len(longer) # 0
        BY <3>1
      <3> QED BY <3>1, <3>2
    <2>5. DOMAIN longer = 1..(Len(ids) + 1) /\ Len(ids) \in Nat /\ longer[Len(ids) + 1] = id
          /\ \A j \in 1..Len(ids) : longer[j] = ids[j] /\ ids[j] # id
      BY <1>1, <1>4, <2>2 DEF Contains
    <2>6. Distinct(longer)
      <3> SUFFICES ASSUME NEW j \in 1..(Len(ids) + 1), NEW k \in 1..(Len(ids) + 1),
                          longer[j] = longer[k]
                   PROVE  j = k
        BY <2>5 DEF Distinct
      <3>1. \A i \in 1..(Len(ids) + 1) : i \in 1..Len(ids) \/ i = Len(ids) + 1
        BY <2>5
      <3>2. \A i, h \in 1..Len(ids) : ids[i] = ids[h] => i = h
        BY <1>1 DEF Distinct
      <3> HIDE DEF longer, id
      <3> QED BY <2>5, <3>1, <3>2
    <2> HIDE DEF pushed, longer
    <2> QED BY <2>1, <2>3, <2>4, <2>6 DEF Closure, Lists
  <1> QED BY <1>2, <1>3, <1>4

(* A closure unfolds: from the seeds on, one turn of the loop after the    *)
(* other.                                                                  *)
Turns(n, seeds) == Len(seeds) + 2 * Len(n.states)
Unfolds(n, seeds, have, after) ==
  /\ after \in [0..Turns(n, seeds) -> Closure(n)]
  /\ after[0] = [stack |-> seeds, ids |-> <<>>]
  /\ \A k \in 0..(Turns(n, seeds) - 1) :
       after[k + 1] = EpsilonClosureInto(n, have, after[k])
  /\ EpsilonClosure(n, seeds, have) = after[Turns(n, seeds)].ids

(* The closure is what a sequence of turns of its loop comes to, each made *)
(* from the one before.                                                    *)
LEMMA EpsilonClosureUnfolds ==
  ASSUME NEW n, Validate(n), NEW have, NEW seeds \in Seq(NfaIDs(n))
  PROVE  \E after : Unfolds(n, seeds, have, after)
  <1> DEFINE turns == Len(seeds) + 2 * Len(n.states)
             first == [stack |-> seeds, ids |-> <<>>]
             after[k \in 0..turns] ==
               IF k = 0 THEN [stack |-> seeds, ids |-> <<>>]
                        ELSE EpsilonClosureInto(n, have, after[k - 1])
             step == [k \in 0..turns |-> [c \in Closure(n) |-> EpsilonClosureInto(n, have, c)]]
             A == {k \in 0..turns : after[k] \in Closure(n)}
  <1>1. turns \in Nat /\ 0 <= turns /\ 0 \in Nat
    BY DEF Validate
  <1>2. first \in Closure(n)
    BY DEF Closure, Lists, Distinct
  <1>3. step \in [0..turns -> [Closure(n) -> Closure(n)]]
    BY EpsilonClosureIntoType
  <1>4. PICK f \in [0..turns -> Closure(n)] :
          \A k \in 0..turns : f[k] = IF k = 0 THEN first ELSE step[k][f[k - 1]]
    <2> HIDE DEF step, turns, first
    <2>1. Defines(0, turns, Closure(n), first, step)
      BY <1>1, <1>2, <1>3, IntervalRecursion
    <2> QED BY <2>1 DEF Defines
  <1> HIDE DEF turns
  <1>5. f = [k \in 0..turns |-> IF k = 0 THEN [stack |-> seeds, ids |-> <<>>]
                                 ELSE EpsilonClosureInto(n, have, f[k - 1])]
    <2> SUFFICES ASSUME NEW k \in 0..turns
                 PROVE  f[k] = IF k = 0 THEN first ELSE EpsilonClosureInto(n, have, f[k - 1])
      OBVIOUS
    <2>1. k # 0 => k - 1 \in 0..turns
      BY <1>1
    <2> HIDE DEF first
    <2> QED BY <1>4, <2>1
  <1>6. after = [k \in 0..turns |-> IF k = 0 THEN [stack |-> seeds, ids |-> <<>>]
                                     ELSE EpsilonClosureInto(n, have, after[k - 1])]
    BY <1>5
  <1> HIDE DEF after, step
  <1>7. 0 \in A /\ after[0] = first
    BY <1>1, <1>2, <1>6
  <1>8. ASSUME NEW k \in 0..(turns - 1)
        PROVE  k \in 0..turns /\ k + 1 \in 1..turns /\ k + 1 \in 0..turns
               /\ after[k + 1] = EpsilonClosureInto(n, have, after[k])
    <2>1. k + 1 \in 0..turns /\ k + 1 # 0 /\ (k + 1) - 1 = k /\ k \in 0..turns /\ k + 1 \in 1..turns
      BY <1>1
    <2> QED BY <1>6, <2>1
  <1>9. ASSUME NEW k \in 0..(turns - 1), k \in A PROVE k + 1 \in A
    BY <1>8, <1>9, EpsilonClosureIntoType
  <1>10. 0..turns \subseteq A
    <2> HIDE DEF A
    <2> QED BY <1>1, <1>7, <1>9, IntervalInduction
  <1>11. EpsilonClosure(n, seeds, have) = after[turns].ids
    BY DEF EpsilonClosure, turns, after
  <1>12. after \in [0..turns -> Closure(n)]
    <2>1. \A k \in 0..turns : after[k] \in Closure(n)
      BY <1>10
    <2> QED BY <1>6, <2>1
  <1>13. turns = Turns(n, seeds)
    BY DEF turns, Turns
  <1> QED BY <1>7, <1>8, <1>11, <1>12, <1>13 DEF Unfolds

(* The closure of a list of states is a list of states without repetitions *)
(* and not empty if there is a seed.                                       *)
LEMMA EpsilonClosureType ==
  ASSUME NEW n, Validate(n), NEW have, NEW seeds \in Seq(NfaIDs(n))
  PROVE  /\ EpsilonClosure(n, seeds, have) \in Lists(n)
         /\ seeds # <<>> => EpsilonClosure(n, seeds, have) # <<>>
  <1> DEFINE turns == Turns(n, seeds)
             first == [stack |-> seeds, ids |-> <<>>]
  <1>1. turns \in Nat /\ 1 \in Nat /\ (seeds # <<>> => 1 <= turns)
    BY DEF Validate, Turns
  <1>2. PICK after : Unfolds(n, seeds, have, after)
    BY EpsilonClosureUnfolds
  <1> DEFINE B == {k \in 1..turns : after[k].ids # <<>>}
  <1> HIDE DEF turns
  <1>3. /\ \A k \in 0..turns : after[k] \in Closure(n)
        /\ after[0] = first
        /\ \A k \in 0..(turns - 1) : after[k + 1] = EpsilonClosureInto(n, have, after[k])
        /\ EpsilonClosure(n, seeds, have) = after[turns].ids
    BY <1>2 DEF Unfolds, turns
  <1>4. after[turns] \in Closure(n)
    BY <1>1, <1>3
  <1>5. ASSUME seeds # <<>> PROVE after[turns].ids # <<>>
    <2>1. 1 \in B
      <3>1. 0 \in 0..(turns - 1) /\ 0 + 1 = 1 /\ 0 \in 0..turns
        BY <1>1, <1>5
      <3>2. after[1] = EpsilonClosureInto(n, have, after[0]) /\ after[0] \in Closure(n)
        BY <1>3, <3>1
      <3>3. after[0].stack # <<>>
        BY <1>3, <1>5
      <3> QED BY <1>1, <1>5, <3>2, <3>3, EpsilonClosureIntoType
    <2>2. ASSUME NEW k \in 1..(turns - 1), k \in B PROVE k + 1 \in B
      <3>1. k \in 0..(turns - 1) /\ k \in 0..turns /\ k + 1 \in 1..turns
        BY <1>1
      <3>2. after[k] \in Closure(n) /\ after[k + 1] = EpsilonClosureInto(n, have, after[k])
        BY <1>3, <3>1
      <3> QED BY <2>2, <3>1, <3>2, EpsilonClosureIntoType
    <2>3. turns \in 1..turns
      BY <1>1, <1>5
    <2>4. 1..turns \subseteq B
      <3> HIDE DEF B
      <3> QED BY <1>1, <2>1, <2>2, IntervalInduction
    <2> QED BY <2>3, <2>4
  <1> QED BY <1>3, <1>4, <1>5 DEF Closure

(* Assertions that the automaton does not have make no difference.         *)
Same(n, have, also) ==
  \A s \in ToSet(n.states) : s.kind = "Look" => (s.look \in have <=> s.look \in also)

(* The closure depends on no assertion but those the automaton has.        *)
LEMMA EpsilonClosureSame ==
  ASSUME NEW n, Validate(n), NEW have, NEW also, Same(n, have, also),
         NEW seeds \in Seq(NfaIDs(n))
  PROVE  EpsilonClosure(n, seeds, have) = EpsilonClosure(n, seeds, also)
  <1> DEFINE turns == Turns(n, seeds)
  <1>1. turns \in Nat /\ 0 \in Nat
    BY DEF Validate, Turns
  <1>2. PICK after : Unfolds(n, seeds, have, after)
    BY EpsilonClosureUnfolds
  <1>3. PICK other : Unfolds(n, seeds, also, other)
    BY EpsilonClosureUnfolds
  <1> DEFINE A == {k \in 0..turns : after[k] = other[k]}
  <1> HIDE DEF turns
  <1>4. 0 \in A
    BY <1>1, <1>2, <1>3 DEF Unfolds
  <1>5. ASSUME NEW k \in 0..(turns - 1), k \in A PROVE k + 1 \in A
    <2>1. k \in 0..turns /\ k + 1 \in 0..turns /\ after[k] = other[k]
      BY <1>1, <1>5
    <2>2. after[k] \in Closure(n) /\ after[k + 1] = EpsilonClosureInto(n, have, after[k])
      BY <1>2, <2>1 DEF Unfolds, turns
    <2>3. other[k + 1] = EpsilonClosureInto(n, also, other[k])
      BY <1>3 DEF Unfolds, turns
    <2> DEFINE c == after[k]
               id == Head(c.stack)
    <2>4. EpsilonClosureInto(n, have, c) = EpsilonClosureInto(n, also, c)
      <3>1. CASE c.stack = <<>>
        BY <3>1 DEF EpsilonClosureInto
      <3>2. CASE c.stack # <<>>
        <4>1. id \in NfaIDs(n)
          BY <2>2, <3>2 DEF Closure
        <4>2. StateAt(n, id) \in ToSet(n.states)
          BY <4>1, StateIsOne
        <4>3. EpsilonSuccessors(n, id, have) = EpsilonSuccessors(n, id, also)
          BY <4>2 DEF EpsilonSuccessors, Same
        <4> QED BY <4>3 DEF EpsilonClosureInto
      <3> QED BY <3>1, <3>2
    <2> QED BY <2>1, <2>2, <2>3, <2>4
  <1>6. turns \in A
    <2> HIDE DEF A
    <2>1. 0..turns \subseteq A
      BY <1>1, <1>4, <1>5, IntervalInduction
    <2> QED BY <1>1, <2>1
  <1> QED BY <1>2, <1>3, <1>6 DEF Unfolds, turns

-----------------------------------------------------------------------------
(* The subset construction.                                                *)

(* Sorting a set of NFA states makes a list of them.                       *)
LEMMA SortedType ==
  ASSUME NEW n, Validate(n), NEW S
  PROVE  Sorted(n, S) \in Seq(NfaIDs(n))
  <1> DEFINE parts == [k \in DOMAIN n.states |-> IF k - 1 \in S THEN <<k - 1>> ELSE <<>>]
  <1>1. Len(n.states) \in Nat /\ DOMAIN n.states = 1..Len(n.states)
    BY DEF Validate
  <1>2. ASSUME NEW k \in 1..Len(n.states)
        PROVE  (IF k - 1 \in S THEN <<k - 1>> ELSE <<>>) \in Seq(NfaIDs(n))
    <2>1. k - 1 \in NfaIDs(n)
      BY <1>1 DEF NfaIDs
    <2>2. <<k - 1>> \in Seq(NfaIDs(n)) /\ <<>> \in Seq(NfaIDs(n))
      BY <2>1
    <2> QED BY <2>2
  <1>3. parts \in Seq(Seq(NfaIDs(n)))
    BY <1>1, <1>2
  <1> HIDE DEF parts
  <1>4. FlattenSeq(parts) \in Seq(NfaIDs(n))
    BY <1>3, FlattenType
  <1> QED BY <1>4 DEF Sorted, parts

(* Where a state goes on a byte are states.                                *)
LEMMA ByteTargetsType ==
  ASSUME NEW n, Validate(n), Patched(n), NEW id \in NfaIDs(n), NEW b
  PROVE  ByteTargets(n, id, b) \in Seq(NfaIDs(n))
  <1> DEFINE s == StateAt(n, id)
             hits == [k \in DOMAIN s.ranges |-> IF b \in s.ranges[k][1]..s.ranges[k][2]
                                                THEN <<s.ranges[k][3]>> ELSE <<>>]
  <1>1. s \in ToSet(n.states) /\ Len(n.states) \in Nat \ {0} /\ <<>> \in Seq(NfaIDs(n))
    BY StateIsOne
  <1>2. CASE s.kind = "ByteRange"
    <2>1. s.next \in NfaIDs(n)
      BY <1>1, <1>2 DEF Validate, Patched, NfaIDs
    <2>2. ByteTargets(n, id, b) \in {<<s.next>>, <<>>}
      BY <1>2 DEF ByteTargets
    <2>3. <<s.next>> \in Seq(NfaIDs(n))
      BY <2>1
    <2> HIDE DEF s
    <2> QED BY <1>1, <2>2, <2>3
  <1>3. CASE s.kind = "Sparse"
    <2>1. s.ranges \in Seq(ToSet(s.ranges))
      BY <1>1, <1>3 DEF Patched
    <2>2. Len(s.ranges) \in Nat /\ DOMAIN s.ranges = 1..Len(s.ranges)
      BY <2>1
    <2>3. \A k \in 1..Len(s.ranges) : s.ranges[k][3] \in NfaIDs(n)
      BY <1>1, <1>3 DEF Validate, Patched, NfaIDs
    <2>4. ASSUME NEW k \in 1..Len(s.ranges)
          PROVE  (IF b \in s.ranges[k][1]..s.ranges[k][2]
                  THEN <<s.ranges[k][3]>> ELSE <<>>) \in Seq(NfaIDs(n))
      <3>1. <<s.ranges[k][3]>> \in Seq(NfaIDs(n))
        BY <2>3
      <3> QED BY <1>1, <3>1
    <2>5. hits \in Seq(Seq(NfaIDs(n)))
      <3> HIDE DEF s
      <3> QED BY <2>2, <2>4
    <2>6. ByteTargets(n, id, b) = FlattenSeq(hits)
      BY <1>3 DEF ByteTargets
    <2> HIDE DEF hits
    <2> QED BY <2>5, <2>6, FlattenType
  <1>4. CASE s.kind \notin {"ByteRange", "Sparse"}
    <2>1. ByteTargets(n, id, b) = <<>>
      BY <1>4 DEF ByteTargets
    <2> QED BY <1>1, <2>1
  <1> QED BY <1>2, <1>3, <1>4

(* Passing word boundaries leads to NFA states.                            *)
LEMMA ResolveWordBoundariesType ==
  ASSUME NEW n, Validate(n), NEW ids \in Seq(NfaIDs(n)), NEW satisfied
  PROVE  ResolveWordBoundaries(n, ids, satisfied) \in Seq(NfaIDs(n))
  <1>1. \A S : Sorted(n, S) \in Seq(NfaIDs(n))
    BY SortedType
  <1>2. \/ ResolveWordBoundaries(n, ids, satisfied) = ids
        \/ \E S : ResolveWordBoundaries(n, ids, satisfied) = Sorted(n, S)
    BY DEF ResolveWordBoundaries
  <1> QED BY <1>1, <1>2

(* A move leads to a list of NFA states without repetitions.               *)
LEMMA MoveType ==
  ASSUME NEW n, Validate(n), Patched(n), NEW ids \in Seq(NfaIDs(n)),
         NEW b, NEW fromWord, NEW breakAtMatch
  PROVE  Move(n, ids, b, fromWord, breakAtMatch) \in Lists(n)
  <1> DEFINE resolved == IF HasWordBoundary(n)
                         THEN ResolveWordBoundaries(n, ids, fromWord # IsWordByte(b))
                         ELSE ids
             cut == SelectInSeq(resolved, LAMBDA id : IsMatchID(n, id))
             threads == IF breakAtMatch /\ cut > 0 THEN SubSeq(resolved, 1, cut - 1) ELSE resolved
             after == IF b = NewlineByte THEN {"StartLine"} ELSE {}
             targets == [k \in DOMAIN threads |-> ByteTargets(n, threads[k], b)]
  <1>1. resolved \in Seq(NfaIDs(n))
    BY ResolveWordBoundariesType
  <1> HIDE DEF resolved
  <1>2. cut = 0 \/ cut \in 1..Len(resolved)
    <2> DEFINE hits == {i \in 1..Len(resolved) : IsMatchID(n, resolved[i])}
    <2>1. hits \in SUBSET Nat
      OBVIOUS
    <2>2. hits # {} => Min(hits) \in hits
      BY <2>1, LeastElement
    <2>3. cut = IF hits # {} THEN Min(hits) ELSE 0
      BY DEF SelectInSeq
    <2> QED BY <2>2, <2>3
  <1> HIDE DEF cut
  <1>3. threads \in Seq(NfaIDs(n))
    <2>1. ASSUME cut \in 1..Len(resolved) PROVE SubSeq(resolved, 1, cut - 1) \in Seq(NfaIDs(n))
      BY <1>1, <2>1
    <2> QED BY <1>1, <1>2, <2>1
  <1> HIDE DEF threads
  <1>4. targets \in Seq(Seq(NfaIDs(n)))
    <2>1. Len(threads) \in Nat /\ DOMAIN threads = 1..Len(threads)
          /\ \A k \in 1..Len(threads) : threads[k] \in NfaIDs(n)
      BY <1>3
    <2>2. \A k \in 1..Len(threads) : ByteTargets(n, threads[k], b) \in Seq(NfaIDs(n))
      BY <2>1, ByteTargetsType
    <2> QED BY <2>1, <2>2
  <1> HIDE DEF targets, after
  <1>5. FlattenSeq(targets) \in Seq(NfaIDs(n))
    BY <1>4, FlattenType
  <1>6. EpsilonClosure(n, FlattenSeq(targets), after) \in Lists(n)
    BY <1>5, EpsilonClosureType
  <1> QED BY <1>6 DEF Move, targets, after, threads, cut, resolved

(* What a step of the construction leads to: a list of states without      *)
(* repetitions, and two flags.                                             *)
LEMMA SuccessorType ==
  ASSUME NEW n, Validate(n), Patched(n), NEW ids \in Lists(n),
         NEW b, NEW fromWord, NEW breaks
  PROVE  Successor(n, ids, fromWord, b, breaks)
           \in [nfaStates : Lists(n), isFromWord : BOOLEAN, isMatch : BOOLEAN]
  <1> DEFINE now == IF HasEndLine(n) /\ b = NewlineByte
                    THEN EpsilonClosure(n, ids, {"EndLine"}) ELSE ids
             isMatch == ContainsMatchState(n, now)
  <1>1. now \in Lists(n) /\ now \in Seq(NfaIDs(n))
    BY EpsilonClosureType DEF Lists
  <1>2. isMatch \in BOOLEAN /\ IsWordByte(b) \in BOOLEAN
    BY DEF ContainsMatchState, IsWordByte
  <1> HIDE DEF now, isMatch
  <1>3. Move(n, now, b, fromWord, isMatch /\ breaks) \in Lists(n)
    BY <1>1, MoveType
  <1> QED BY <1>2, <1>3 DEF Successor, now, isMatch

(* Bytes between which the automaton makes no difference, neither in a     *)
(* transition nor in an assertion.                                         *)
SameRanges(n, b, c) ==
  \A s \in ToSet(n.states) :
    /\ s.kind = "ByteRange" => (b \in s.lo..s.hi <=> c \in s.lo..s.hi)
    /\ s.kind = "Sparse" =>
         \A k \in DOMAIN s.ranges :
           b \in s.ranges[k][1]..s.ranges[k][2] <=> c \in s.ranges[k][1]..s.ranges[k][2]

Alike(n, b, c) == SameRanges(n, b, c) /\ SameContext(n, b, c)

(* A class is inside or outside of a range as a whole.                     *)
LEMMA ClassesKeepRanges ==
  ASSUME NEW n, Classified(n), NEW b \in Byte, NEW c \in Byte,
         ByteToClass(n, b) = ByteToClass(n, c)
  PROVE  SameRanges(n, b, c)
  <1> DEFINE class(x) == n.byteClasses[x]
  <1>1. \A x \in Byte : class(x) \in Nat
    <2>1. \A x \in Byte : class(x) \in Byte
      BY DEF Classified
    <2>2. Byte \subseteq Nat
      BY DEF Byte
    <2> HIDE DEF class
    <2> QED BY <2>1, <2>2
  <1>2. \A x, y \in Byte : x <= y => class(x) <= class(y)
    BY DEF Classified
  <1>3. class(b) = class(c)
    BY DEF ByteToClass
  <1>4. ASSUME NEW lo \in Byte, NEW hi \in Byte,
               lo > 0 => class(lo - 1) # class(lo), hi < 255 => class(hi) # class(hi + 1),
               NEW x \in Byte, NEW y \in Byte, class(x) = class(y), x \in lo..hi
        PROVE  y \in lo..hi
    <2>1. CASE y < lo
      <3>1. lo > 0 /\ lo - 1 \in Byte /\ y <= lo - 1 /\ lo - 1 <= lo /\ lo <= x
        BY <1>4, <2>1 DEF Byte
      <3>2. class(y) <= class(lo - 1) /\ class(lo - 1) <= class(lo) /\ class(lo) <= class(x)
        BY <1>2, <3>1
      <3> HIDE DEF class
      <3> QED BY <1>1, <1>4, <3>1, <3>2
    <2>2. CASE y > hi
      <3>1. hi < 255 /\ hi + 1 \in Byte /\ x <= hi /\ hi <= hi + 1 /\ hi + 1 <= y
        BY <1>4, <2>2 DEF Byte
      <3>2. class(x) <= class(hi) /\ class(hi) <= class(hi + 1) /\ class(hi + 1) <= class(y)
        BY <1>2, <3>1
      <3> HIDE DEF class
      <3> QED BY <1>1, <1>4, <3>1, <3>2
    <2>3. y \in Int /\ lo \in Int /\ hi \in Int
      BY DEF Byte
    <2> QED BY <2>1, <2>2, <2>3
  <1>5. ASSUME NEW lo, NEW hi, <<lo, hi>> \in ByteRanges(n)
        PROVE  b \in lo..hi <=> c \in lo..hi
    <2> DEFINE r == <<lo, hi>>
    <2>1. /\ r[1] \in Byte /\ r[2] \in Byte
          /\ r[1] > 0 => class(r[1] - 1) # class(r[1])
          /\ r[2] < 255 => class(r[2]) # class(r[2] + 1)
      BY <1>5 DEF Classified
    <2>2. /\ lo \in Byte /\ hi \in Byte
          /\ lo > 0 => class(lo - 1) # class(lo)
          /\ hi < 255 => class(hi) # class(hi + 1)
      BY <2>1
    <2> HIDE DEF class
    <2>3. b \in lo..hi => c \in lo..hi
      BY <1>3, <1>4, <2>2
    <2>4. c \in lo..hi => b \in lo..hi
      BY <1>3, <1>4, <2>2
    <2> QED BY <2>3, <2>4
  <1> HIDE DEF class
  <1>6. ASSUME NEW s \in ToSet(n.states), s.kind = "ByteRange"
        PROVE  b \in s.lo..s.hi <=> c \in s.lo..s.hi
    <2>1. <<s.lo, s.hi>> \in ByteRanges(n)
      BY <1>6 DEF ByteRanges
    <2> QED BY <1>5, <2>1
  <1>7. ASSUME NEW s \in ToSet(n.states), s.kind = "Sparse", NEW k \in DOMAIN s.ranges
        PROVE  b \in s.ranges[k][1]..s.ranges[k][2] <=> c \in s.ranges[k][1]..s.ranges[k][2]
    <2>1. <<s.ranges[k][1], s.ranges[k][2]>> \in ByteRanges(n)
      BY <1>7 DEF ByteRanges
    <2> QED BY <1>5, <2>1
  <1> QED BY <1>6, <1>7 DEF SameRanges

(* Bytes that are alike lead to the same states.                           *)
LEMMA ByteTargetsAlike ==
  ASSUME NEW n, Validate(n), NEW id \in NfaIDs(n), NEW b, NEW c, Alike(n, b, c)
  PROVE  ByteTargets(n, id, b) = ByteTargets(n, id, c)
  <1> DEFINE s == StateAt(n, id)
             hits(x) == [k \in DOMAIN s.ranges |-> IF x \in s.ranges[k][1]..s.ranges[k][2]
                                                   THEN <<s.ranges[k][3]>> ELSE <<>>]
  <1>1. s \in ToSet(n.states)
    BY StateIsOne
  <1>2. CASE s.kind = "ByteRange"
    BY <1>1, <1>2 DEF Alike, SameRanges, ByteTargets
  <1>3. CASE s.kind = "Sparse"
    <2>1. \A k \in DOMAIN s.ranges :
            b \in s.ranges[k][1]..s.ranges[k][2] <=> c \in s.ranges[k][1]..s.ranges[k][2]
      BY <1>1, <1>3 DEF Alike, SameRanges
    <2>2. hits(b) = hits(c)
      BY <2>1, Zenon
    <2>3. ByteTargets(n, id, b) = FlattenSeq(hits(b)) /\ ByteTargets(n, id, c) = FlattenSeq(hits(c))
      BY <1>3 DEF ByteTargets
    <2> HIDE DEF hits
    <2> QED BY <2>2, <2>3
  <1>4. CASE s.kind \notin {"ByteRange", "Sparse"}
    BY <1>4 DEF ByteTargets
  <1> QED BY <1>2, <1>3, <1>4

(* A move does not tell bytes apart that are in the same ranges and the    *)
(* same context.                                                           *)
LEMMA MoveAlike ==
  ASSUME NEW n, Validate(n), Patched(n), NEW ids \in Seq(NfaIDs(n)),
         NEW b, NEW c, Alike(n, b, c), NEW fromWord \in BOOLEAN, NEW breakAtMatch
  PROVE  Move(n, ids, b, fromWord, breakAtMatch) = Move(n, ids, c, fromWord, breakAtMatch)
  <1> DEFINE resolved(x) == IF HasWordBoundary(n)
                            THEN ResolveWordBoundaries(n, ids, fromWord # IsWordByte(x))
                            ELSE ids
             cut(x) == SelectInSeq(resolved(x), LAMBDA id : IsMatchID(n, id))
             threads(x) == IF breakAtMatch /\ cut(x) > 0
                           THEN SubSeq(resolved(x), 1, cut(x) - 1) ELSE resolved(x)
             after(x) == IF x = NewlineByte THEN {"StartLine"} ELSE {}
             targets(x) == [k \in DOMAIN threads(x) |-> ByteTargets(n, threads(x)[k], x)]
  <1>1. resolved(b) = resolved(c)
    <2>1. HasWordBoundary(n) => (fromWord # IsWordByte(b)) = (fromWord # IsWordByte(c))
      <3>1. IsWordByte(b) \in BOOLEAN /\ IsWordByte(c) \in BOOLEAN
        BY DEF IsWordByte
      <3> QED BY <3>1, Zenon DEF Alike, SameContext
    <2> QED BY <2>1
  <1>2. resolved(b) \in Seq(NfaIDs(n))
    BY ResolveWordBoundariesType
  <1> HIDE DEF resolved
  <1>3. cut(b) = cut(c)
    BY <1>1
  <1>4. cut(b) = 0 \/ cut(b) \in 1..Len(resolved(b))
    <2> DEFINE hits == {i \in 1..Len(resolved(b)) : IsMatchID(n, resolved(b)[i])}
    <2>1. hits \in SUBSET Nat
      OBVIOUS
    <2>2. hits # {} => Min(hits) \in hits
      BY <2>1, LeastElement
    <2>3. cut(b) = IF hits # {} THEN Min(hits) ELSE 0
      BY DEF SelectInSeq
    <2> QED BY <2>2, <2>3
  <1> HIDE DEF cut
  <1>5. threads(b) = threads(c)
    BY <1>1, <1>3
  <1>6. threads(b) \in Seq(NfaIDs(n))
    <2>1. ASSUME cut(b) \in 1..Len(resolved(b))
          PROVE  SubSeq(resolved(b), 1, cut(b) - 1) \in Seq(NfaIDs(n))
      BY <1>2, <2>1
    <2> QED BY <1>2, <1>4, <2>1
  <1> HIDE DEF threads
  <1>7. targets(b) = targets(c)
    <2>1. \A k \in DOMAIN threads(b) : ByteTargets(n, threads(b)[k], b) = ByteTargets(n, threads(b)[k], c)
      BY <1>6, ByteTargetsAlike
    <2> QED BY <1>5, <2>1
  <1>8. Same(n, after(b), after(c))
    <2>1. CASE HasLook(n, {"StartLine", "EndLine"})
      <3>1. after(b) = after(c)
        BY <2>1 DEF Alike, SameContext
      <3> QED BY <3>1 DEF Same
    <2>2. CASE ~HasLook(n, {"StartLine", "EndLine"})
      <3>1. \A s \in ToSet(n.states) : s.kind = "Look" => s.look # "StartLine"
        BY <2>2 DEF HasLook, ToSet
      <3> QED BY <3>1 DEF Same
    <2> QED BY <2>1, <2>2
  <1>9. FlattenSeq(targets(b)) \in Seq(NfaIDs(n))
    <2>1. Len(threads(b)) \in Nat /\ DOMAIN threads(b) = 1..Len(threads(b))
          /\ \A k \in 1..Len(threads(b)) : threads(b)[k] \in NfaIDs(n)
      BY <1>6
    <2>2. \A k \in 1..Len(threads(b)) : ByteTargets(n, threads(b)[k], b) \in Seq(NfaIDs(n))
      BY <2>1, ByteTargetsType
    <2>3. targets(b) \in Seq(Seq(NfaIDs(n)))
      BY <2>1, <2>2
    <2> HIDE DEF targets
    <2> QED BY <2>3, FlattenType
  <1> HIDE DEF targets, after
  <1>11. EpsilonClosure(n, FlattenSeq(targets(b)), after(b)) = EpsilonClosure(n, FlattenSeq(targets(b)), after(c))
    BY <1>8, <1>9, EpsilonClosureSame
  <1> QED BY <1>7, <1>11 DEF Move, targets, after, threads, cut, resolved

(* Nor does the state that determinize computes, but for isFromWord.       *)
LEMMA SuccessorAlike ==
  ASSUME NEW n, Validate(n), Patched(n), NEW ids \in Lists(n),
         NEW b, NEW c, Alike(n, b, c), NEW fromWord \in BOOLEAN, NEW breaks
  PROVE  /\ Successor(n, ids, fromWord, b, breaks).nfaStates
              = Successor(n, ids, fromWord, c, breaks).nfaStates
         /\ Successor(n, ids, fromWord, b, breaks).isMatch
              = Successor(n, ids, fromWord, c, breaks).isMatch
  <1> DEFINE now(x) == IF HasEndLine(n) /\ x = NewlineByte
                       THEN EpsilonClosure(n, ids, {"EndLine"}) ELSE ids
             isMatch(x) == ContainsMatchState(n, now(x))
  <1>1. now(b) = now(c) /\ now(b) \in Seq(NfaIDs(n))
    BY EpsilonClosureType DEF Lists, Alike, SameContext, HasEndLine, HasLook
  <1> HIDE DEF now
  <1>2. isMatch(b) = isMatch(c)
    BY <1>1
  <1> HIDE DEF isMatch
  <1>3. Move(n, now(b), b, fromWord, isMatch(b) /\ breaks) = Move(n, now(b), c, fromWord, isMatch(b) /\ breaks)
    BY <1>1, MoveAlike
  <1> QED BY <1>1, <1>2, <1>3 DEF Successor, now, isMatch

(* A set of NFA states is no larger than the NFA.                          *)
LEMMA ListFits ==
  ASSUME NEW n, Len(n.states) \in Nat, NEW ids \in Lists(n)
  PROVE  Len(ids) \in Nat /\ Len(ids) <= Len(n.states)
  <1> DEFINE l == Len(ids)
             m == Len(n.states)
  <1>1. ids \in Seq(NfaIDs(n)) /\ l \in Nat /\ m \in Nat /\ Distinct(ids) /\ DOMAIN ids = 1..l
    BY DEF Lists
  <1>2. NfaIDs(n) = 0..(m - 1)
    BY DEF NfaIDs
  <1>3. ids \in [1..l -> NfaIDs(n)] /\ \A j, k \in 1..l : ids[j] = ids[k] => j = k
    BY <1>1 DEF Distinct
  <1> HIDE DEF l, m
  <1>4. ids \in Injection(1..l, NfaIDs(n))
    BY <1>3 DEF Injection, IsInjective
  <1>5. IsFiniteSet(NfaIDs(n)) /\ Cardinality(NfaIDs(n)) = m
    <2>1. 0 \in Int /\ m - 1 \in Int
      BY <1>1
    <2>2. IsFiniteSet(0..(m - 1)) /\ Cardinality(0..(m - 1)) = IF 0 > m - 1 THEN 0 ELSE (m - 1) - 0 + 1
      BY <2>1, FS_Interval
    <2> QED BY <1>1, <1>2, <2>2
  <1>6. Cardinality(1..l) = l
    <2>1. 1 \in Int /\ l \in Int
      BY <1>1
    <2>2. Cardinality(1..l) = IF 1 > l THEN 0 ELSE l - 1 + 1
      BY <2>1, FS_Interval
    <2> QED BY <1>1, <2>2
  <1>7. Cardinality(1..l) <= Cardinality(NfaIDs(n))
    BY <1>4, <1>5, FS_Injection
  <1> QED BY <1>1, <1>5, <1>6, <1>7 DEF l, m

-----------------------------------------------------------------------------
(* The paths of the automaton: pairs of a state and a position, and sets   *)
(* of them that every edge stays in.                                       *)
Pairs(n, w) == NfaIDs(n) \X (0..Len(w))
Closed(n, w, S) == \A pair \in S : Edges(n, w, pair) \subseteq S

(* The states of a sequence of states are states.                          *)
LEMMA SeqWithin ==
  ASSUME NEW S, NEW seq
  PROVE  /\ seq \in Seq(S) => ToSet(seq) \subseteq S
         /\ seq \in Seq(ToSet(seq)) /\ ToSet(seq) \subseteq S => seq \in Seq(S)
  BY DEF ToSet

(* Every edge leads from pairs to pairs.                                   *)
LEMMA EdgesType ==
  ASSUME NEW n, Validate(n), Patched(n), NEW w \in Seq(Byte), NEW pair \in Pairs(n, w)
  PROVE  Edges(n, w, pair) \subseteq Pairs(n, w)
  <1> DEFINE id == pair[1]
             i == pair[2]
  <1>1. id \in NfaIDs(n) /\ i \in 0..Len(w) /\ Len(w) \in Nat
    BY DEF Pairs
  <1> HIDE DEF id, i
  <1>2. ToSet(EpsilonSuccessors(n, id, LooksAt(w, i))) \subseteq NfaIDs(n)
    BY <1>1, EpsilonSuccessorsType, SeqWithin
  <1>3. i < Len(w) => i + 1 \in 0..Len(w) /\ ToSet(ByteTargets(n, id, w[i + 1])) \subseteq NfaIDs(n)
    BY <1>1, ByteTargetsType, SeqWithin
  <1> QED BY <1>1, <1>2, <1>3 DEF Edges, Pairs, id, i

(* The rounds of a search for what can be reached.                         *)
Reach(n, w) == [seen : SUBSET Pairs(n, w), latest : SUBSET Pairs(n, w)]
Rounds(n, w, from, after) ==
  LET steps == Len(n.states) * (Len(w) + 1)
  IN  /\ after \in [0..steps -> Reach(n, w)]
      /\ after[0] = [seen |-> {from}, latest |-> {from}]
      /\ \A k \in 0..(steps - 1) : after[k + 1] = Further(n, w, after[k])
      /\ Reached(n, w, from) = after[steps].seen

(* One step of the search for pairs, without its LET.                      *)
LEMMA FurtherIs ==
  ASSUME NEW n, NEW w, NEW r
  PROVE  LET led == UNION {Edges(n, w, pair) : pair \in r.latest}
         IN  Further(n, w, r) = [seen |-> r.seen \cup (led \ r.seen), latest |-> led \ r.seen]
  <1> DEFINE next == (UNION {Edges(n, w, pair) : pair \in r.latest}) \ r.seen
  <1>1. Further(n, w, r) = [seen |-> r.seen \cup next, latest |-> next]
    BY DEF Further
  <1> QED BY <1>1

(* What can be reached is what a sequence of rounds comes to.              *)
LEMMA ReachedUnfolds ==
  ASSUME NEW n, Validate(n), Patched(n), NEW w \in Seq(Byte), NEW from \in Pairs(n, w)
  PROVE  \E after : Rounds(n, w, from, after)
  <1> DEFINE steps == Len(n.states) * (Len(w) + 1)
             first == [seen |-> {from}, latest |-> {from}]
             after[k \in 0..steps] ==
               IF k = 0 THEN [seen |-> {from}, latest |-> {from}] ELSE Further(n, w, after[k - 1])
             step == [k \in 0..steps |-> [r \in Reach(n, w) |-> Further(n, w, r)]]
             A == {k \in 0..steps : after[k] \in Reach(n, w)}
  <1>1. steps \in Nat /\ 0 <= steps /\ 0 \in Nat
    <2>1. Len(n.states) \in Nat /\ Len(w) + 1 \in Nat
      BY DEF Validate
    <2>2. \A x, y \in Nat : x * y \in Nat
      OBVIOUS
    <2>3. steps \in Nat
      BY <2>1, <2>2
    <2> HIDE DEF steps
    <2> QED BY <2>3
  <1>2. first \in Reach(n, w)
    BY DEF Reach
  <1>3. ASSUME NEW r \in Reach(n, w) PROVE Further(n, w, r) \in Reach(n, w)
    <2>1. r.seen \subseteq Pairs(n, w) /\ r.latest \subseteq Pairs(n, w)
      BY DEF Reach
    <2>2. \A pair \in r.latest : Edges(n, w, pair) \subseteq Pairs(n, w)
      BY <2>1, EdgesType
    <2> QED BY <2>1, <2>2 DEF Further, Reach
  <1>4. step \in [0..steps -> [Reach(n, w) -> Reach(n, w)]]
    BY <1>3
  <1>5. PICK f \in [0..steps -> Reach(n, w)] :
          \A k \in 0..steps : f[k] = IF k = 0 THEN first ELSE step[k][f[k - 1]]
    <2> HIDE DEF step, steps, first
    <2>1. Defines(0, steps, Reach(n, w), first, step)
      BY <1>1, <1>2, <1>4, IntervalRecursion
    <2> QED BY <2>1 DEF Defines
  <1> HIDE DEF steps
  <1>6. f = [k \in 0..steps |-> IF k = 0 THEN [seen |-> {from}, latest |-> {from}]
                                ELSE Further(n, w, f[k - 1])]
    <2> SUFFICES ASSUME NEW k \in 0..steps
                 PROVE  f[k] = IF k = 0 THEN first ELSE Further(n, w, f[k - 1])
      OBVIOUS
    <2>1. k # 0 => k - 1 \in 0..steps
      BY <1>1
    <2> HIDE DEF first
    <2> QED BY <1>5, <2>1
  <1>7. after = [k \in 0..steps |-> IF k = 0 THEN [seen |-> {from}, latest |-> {from}]
                                    ELSE Further(n, w, after[k - 1])]
    BY <1>6
  <1> HIDE DEF after, step
  <1>8. 0 \in A /\ after[0] = first
    BY <1>1, <1>2, <1>7
  <1>9. ASSUME NEW k \in 0..(steps - 1)
        PROVE  k \in 0..steps /\ k + 1 \in 0..steps /\ after[k + 1] = Further(n, w, after[k])
    <2>1. k + 1 \in 0..steps /\ k + 1 # 0 /\ (k + 1) - 1 = k /\ k \in 0..steps
      BY <1>1
    <2> QED BY <1>7, <2>1
  <1>10. ASSUME NEW k \in 0..(steps - 1), k \in A PROVE k + 1 \in A
    BY <1>3, <1>9, <1>10
  <1>11. 0..steps \subseteq A
    <2> HIDE DEF A
    <2> QED BY <1>1, <1>8, <1>10, IntervalInduction
  <1>12. Reached(n, w, from) = after[steps].seen
    BY DEF Reached, steps, after
  <1>13. after \in [0..steps -> Reach(n, w)]
    <2>1. \A k \in 0..steps : after[k] \in Reach(n, w)
      BY <1>11
    <2> QED BY <1>7, <2>1
  <1> QED BY <1>8, <1>9, <1>12, <1>13 DEF Rounds, steps

(* What can be reached is in every closed set that holds the beginning.    *)
LEMMA ReachedWithin ==
  ASSUME NEW n, Validate(n), Patched(n), NEW w \in Seq(Byte), NEW from \in Pairs(n, w),
         NEW S, from \in S, \A pair \in S \cap Pairs(n, w) : Edges(n, w, pair) \subseteq S
  PROVE  Reached(n, w, from) \subseteq S \cap Pairs(n, w)
  <1> DEFINE steps == Len(n.states) * (Len(w) + 1)
  <1>1. PICK after : Rounds(n, w, from, after)
    BY ReachedUnfolds
  <1>2. steps \in Nat
    <2>1. Len(n.states) \in Nat /\ Len(w) + 1 \in Nat
      BY DEF Validate
    <2>2. \A x, y \in Nat : x * y \in Nat
      OBVIOUS
    <2> QED BY <2>1, <2>2
  <1>3. /\ after \in [0..steps -> Reach(n, w)]
        /\ after[0] = [seen |-> {from}, latest |-> {from}]
        /\ \A k \in 0..(steps - 1) : after[k + 1] = Further(n, w, after[k])
        /\ Reached(n, w, from) = after[steps].seen
    BY <1>1 DEF Rounds
  <1> HIDE DEF steps
  <1> DEFINE A == {k \in 0..steps : after[k].seen \subseteq S /\ after[k].latest \subseteq S}
  <1>4. 0 \in A
    BY <1>2, <1>3
  <1>5. ASSUME NEW k \in 0..(steps - 1), k \in A PROVE k + 1 \in A
    <2>1. k \in 0..steps /\ k + 1 \in 0..steps
      BY <1>2
    <2>2. after[k] \in Reach(n, w)
      BY <1>3, <2>1
    <2>3. \A pair \in after[k].latest : Edges(n, w, pair) \subseteq S
      BY <1>5, <2>2 DEF Reach
    <2>4. after[k + 1] = Further(n, w, after[k])
      BY <1>3
    <2> QED BY <1>5, <2>1, <2>3, <2>4 DEF Further
  <1>6. 0..steps \subseteq A
    <2> HIDE DEF A
    <2> QED BY <1>2, <1>4, <1>5, IntervalInduction
  <1>7. steps \in 0..steps
    BY <1>2
  <1>8. after[steps].seen \subseteq S /\ after[steps] \in Reach(n, w)
    BY <1>3, <1>6, <1>7
  <1> QED BY <1>3, <1>8 DEF Reach

(* There are as many pairs as the search has rounds.                       *)
LEMMA PairsCounted ==
  ASSUME NEW n, Validate(n), NEW w \in Seq(Byte)
  PROVE  /\ IsFiniteSet(Pairs(n, w))
         /\ Cardinality(Pairs(n, w)) = Len(n.states) * (Len(w) + 1)
  <1> DEFINE ids == 0..(Len(n.states) - 1)
             places == 0..Len(w)
  <1>1. Len(n.states) \in Nat /\ Len(w) \in Nat
    BY DEF Validate
  <1>2. IsFiniteSet(ids) /\ Cardinality(ids) = Len(n.states)
    <2>1. 0 \in Int /\ Len(n.states) - 1 \in Int
      BY <1>1
    <2>2. IsFiniteSet(ids) /\ Cardinality(ids) = IF 0 > Len(n.states) - 1 THEN 0 ELSE Len(n.states) - 1 - 0 + 1
      BY <2>1, FS_Interval
    <2> HIDE DEF ids
    <2> QED BY <1>1, <2>2
  <1>3. IsFiniteSet(places) /\ Cardinality(places) = Len(w) + 1
    <2>1. 0 \in Int /\ Len(w) \in Int
      BY <1>1
    <2>2. IsFiniteSet(places) /\ Cardinality(places) = IF 0 > Len(w) THEN 0 ELSE Len(w) - 0 + 1
      BY <2>1, FS_Interval
    <2> HIDE DEF places
    <2> QED BY <1>1, <2>2
  <1> HIDE DEF ids, places
  <1>4. IsFiniteSet(ids \X places) /\ Cardinality(ids \X places) = Cardinality(ids) * Cardinality(places)
    BY <1>2, <1>3, FS_Product
  <1>5. Pairs(n, w) = ids \X places
    BY DEF Pairs, NfaIDs, ids, places
  <1> QED BY <1>2, <1>3, <1>4, <1>5

(* The beginning can be reached, and with a pair where its edges lead: a   *)
(* round that finds nothing new is the last that does anything, and there  *)
(* are no more rounds that do than pairs.                                  *)
LEMMA ReachedClosed ==
  ASSUME NEW n, Validate(n), Patched(n), NEW w \in Seq(Byte), NEW from \in Pairs(n, w)
  PROVE  /\ from \in Reached(n, w, from) /\ Reached(n, w, from) \subseteq Pairs(n, w)
         /\ Closed(n, w, Reached(n, w, from))
  <1> DEFINE steps == Len(n.states) * (Len(w) + 1)
             all == Pairs(n, w)
  <1>1. PICK after : Rounds(n, w, from, after)
    BY ReachedUnfolds
  <1>2. /\ after \in [0..steps -> Reach(n, w)]
        /\ after[0] = [seen |-> {from}, latest |-> {from}]
        /\ \A k \in 0..(steps - 1) : after[k + 1] = Further(n, w, after[k])
        /\ Reached(n, w, from) = after[steps].seen
    BY <1>1 DEF Rounds
  <1>3. IsFiniteSet(all) /\ Cardinality(all) = steps /\ steps \in Nat
    BY PairsCounted, FS_CardinalityType
  <1> HIDE DEF steps
  <1> DEFINE Good(r, k) ==
               /\ from \in r.seen /\ r.latest \subseteq r.seen
               /\ \A pair \in r.seen \ r.latest : Edges(n, w, pair) \subseteq r.seen
               /\ r.latest = {} \/ Cardinality(r.seen) >= k + 1
             A == {k \in 0..steps : Good(after[k], k)}
  <1>4. 0 \in A
    <2>1. Cardinality({from}) = 1
      BY FS_Singleton
    <2>2. Good([seen |-> {from}, latest |-> {from}], 0)
      BY <2>1
    <2>3. 0 \in 0..steps /\ Good(after[0], 0)
      BY <1>2, <1>3, <2>2
    <2> HIDE DEF Good
    <2> QED BY <2>3
  <1>5. ASSUME NEW k \in 0..(steps - 1), k \in A PROVE k + 1 \in A
    <2> DEFINE old == after[k]
               new == after[k + 1]
               led == UNION {Edges(n, w, pair) : pair \in old.latest}
               next == led \ old.seen
    <2>1. k \in 0..steps /\ k + 1 \in 0..steps /\ k \in Nat
      BY <1>3
    <2>2. Good(old, k) /\ old \in Reach(n, w) /\ new \in Reach(n, w)
      BY <1>2, <1>5, <2>1
    <2>11. new = Further(n, w, old)
      BY <1>2
    <2> HIDE DEF old, new
    <2>3. new = [seen |-> old.seen \cup next, latest |-> next]
      <3>1. Further(n, w, old) = [seen |-> old.seen \cup next, latest |-> next]
        BY FurtherIs
      <3> HIDE DEF next
      <3> QED BY <2>11, <3>1
    <2>5. \A pair \in old.latest : Edges(n, w, pair) \subseteq old.seen \cup next
      <3>1. \A pair \in old.latest : Edges(n, w, pair) \subseteq led
        OBVIOUS
      <3> HIDE DEF led
      <3> QED BY <3>1
    <2> HIDE DEF led
    <2>9. next \cap old.seen = {}
      OBVIOUS
    <2>10. led = {} => next = {}
      OBVIOUS
    <2> HIDE DEF next
    <2>4. new.seen = old.seen \cup next /\ new.latest = next /\ next \cap old.seen = {}
      BY <2>3, <2>9
    <2>6. old.seen \subseteq all /\ new.seen \subseteq all
      BY <2>2 DEF Reach
    <2>7. next = {} \/ Cardinality(new.seen) >= (k + 1) + 1
      <3> SUFFICES ASSUME next # {} PROVE Cardinality(new.seen) >= (k + 1) + 1
        OBVIOUS
      <3>1. old.latest # {}
        BY <2>10 DEF led
      <3>2. Cardinality(old.seen) >= k + 1
        BY <2>2, <3>1
      <3>3. IsFiniteSet(new.seen) /\ old.seen \in SUBSET new.seen
        BY <1>3, <2>4, <2>6, FS_Subset
      <3>4. Cardinality(old.seen) <= Cardinality(new.seen) /\ Cardinality(old.seen) # Cardinality(new.seen)
        <4>1. old.seen # new.seen
          BY <2>4
        <4> QED BY <3>3, <4>1, FS_Subset
      <3>5. Cardinality(old.seen) \in Nat /\ Cardinality(new.seen) \in Nat
        BY <3>3, FS_Subset, FS_CardinalityType
      <3> QED BY <2>1, <3>2, <3>4, <3>5
    <2>8. Good(new, k + 1)
      BY <2>2, <2>4, <2>5, <2>7
    <2> HIDE DEF Good
    <2> QED BY <2>1, <2>8 DEF new
  <1>6. 0..steps \subseteq A
    <2> HIDE DEF A
    <2> QED BY <1>3, <1>4, <1>5, IntervalInduction
  <1> DEFINE last == after[steps]
  <1>7. Good(last, steps) /\ last \in Reach(n, w)
    <2>1. steps \in 0..steps
      BY <1>3
    <2> QED BY <1>2, <1>6, <2>1
  <1>8. last.seen \subseteq all
    BY <1>7 DEF Reach
  <1> HIDE DEF last
  <1>9. last.latest = {}
    <2>1. Cardinality(last.seen) <= steps
      BY <1>3, <1>8, FS_Subset
    <2>2. Cardinality(last.seen) \in Nat
      BY <1>3, <1>8, FS_Subset, FS_CardinalityType
    <2> QED BY <1>3, <1>7, <2>1, <2>2
  <1>10. Reached(n, w, from) = last.seen
    BY <1>2 DEF last
  <1> QED BY <1>7, <1>8, <1>9, <1>10 DEF Closed

-----------------------------------------------------------------------------
(* An epsilon closure stays within every set that holds its seeds and is   *)
(* closed ...                                                              *)
LEMMA ClosureWithin ==
  ASSUME NEW n, Validate(n), NEW have, NEW seeds \in Seq(NfaIDs(n)), NEW T \in SUBSET NfaIDs(n),
         ToSet(seeds) \subseteq T,
         \A id \in T : ToSet(EpsilonSuccessors(n, id, have)) \subseteq T
  PROVE  ToSet(EpsilonClosure(n, seeds, have)) \subseteq T
  <1> DEFINE turns == Turns(n, seeds)
  <1>1. PICK after : Unfolds(n, seeds, have, after)
    BY EpsilonClosureUnfolds
  <1>2. turns \in Nat
    BY DEF Turns, Validate
  <1>3. /\ after \in [0..turns -> Closure(n)]
        /\ after[0] = [stack |-> seeds, ids |-> <<>>]
        /\ \A k \in 0..(turns - 1) : after[k + 1] = EpsilonClosureInto(n, have, after[k])
        /\ EpsilonClosure(n, seeds, have) = after[turns].ids
    BY <1>1 DEF Unfolds
  <1> HIDE DEF turns
  <1> DEFINE A == {k \in 0..turns : after[k].stack \in Seq(T) /\ after[k].ids \in Seq(T)}
  <1>4. 0 \in A
    <2>1. seeds \in Seq(T) /\ <<>> \in Seq(T)
      BY DEF ToSet
    <2>2. after[0].stack = seeds /\ after[0].ids = <<>> /\ 0 \in 0..turns
      BY <1>2, <1>3
    <2> QED BY <2>1, <2>2
  <1>5. ASSUME NEW k \in 0..(turns - 1), k \in A PROVE k + 1 \in A
    <2> DEFINE old == after[k]
               stack == old.stack
               ids == old.ids
               id == Head(stack)
    <2>1. k \in 0..turns /\ k + 1 \in 0..turns
      BY <1>2
    <2>2. stack \in Seq(T) /\ ids \in Seq(T) /\ old \in Closure(n)
      BY <1>3, <1>5, <2>1
    <2>3. after[k + 1] = EpsilonClosureInto(n, have, old)
      BY <1>3
    <2> HIDE DEF old
    <2>4. old = [stack |-> stack, ids |-> ids]
      BY <2>2 DEF Closure
    <2>5. after[k + 1].stack \in Seq(T) /\ after[k + 1].ids \in Seq(T)
      <3>1. CASE stack = <<>>
        BY <2>2, <2>3, <3>1 DEF EpsilonClosureInto
      <3>2. CASE stack # <<>> /\ Contains(ids, id)
        <4>1. EpsilonClosureInto(n, have, old) = [stack |-> Tail(stack), ids |-> ids]
          BY <2>4, <3>2 DEF EpsilonClosureInto
        <4> QED BY <2>2, <2>3, <3>2, <4>1
      <3>3. CASE stack # <<>> /\ ~Contains(ids, id)
        <4> DEFINE pushed == EpsilonSuccessors(n, id, have)
        <4>1. EpsilonClosureInto(n, have, old) = [stack |-> pushed \o Tail(stack), ids |-> Append(ids, id)]
          BY <3>3 DEF EpsilonClosureInto
        <4>2. id \in T /\ Tail(stack) \in Seq(T)
          BY <2>2, <3>3
        <4>3. pushed \in Seq(NfaIDs(n)) /\ ToSet(pushed) \subseteq T
          BY <4>2, EpsilonSuccessorsType
        <4> HIDE DEF pushed, id, stack, ids
        <4>4. pushed \in Seq(T)
          BY <4>3 DEF ToSet
        <4> QED BY <2>2, <2>3, <4>1, <4>2, <4>4 DEF ids
      <3> QED BY <3>1, <3>2, <3>3
    <2> QED BY <2>1, <2>5
  <1>6. 0..turns \subseteq A
    <2> HIDE DEF A
    <2> QED BY <1>2, <1>4, <1>5, IntervalInduction
  <1>7. after[turns].ids \in Seq(T)
    <2>1. turns \in 0..turns
      BY <1>2
    <2> QED BY <1>6, <2>1
  <1> QED BY <1>3, <1>7 DEF ToSet

-----------------------------------------------------------------------------
(* A set of pairs that every edge stays in: the paths of a search, say.    *)
(* Here are the states that it has at a position.                          *)
Followed(n, w, P) == P \subseteq Pairs(n, w) /\ Closed(n, w, P)
Here(n, P, i) == {id \in NfaIDs(n) : <<id, i>> \in P}

(* Where a state of such a set leads without a byte is in the set.         *)
LEMMA HereLeads ==
  ASSUME NEW n, Validate(n), NEW w \in Seq(Byte), NEW P, Followed(n, w, P), NEW i \in 0..Len(w),
         NEW have \in SUBSET LooksAt(w, i), NEW id \in Here(n, P, i)
  PROVE  ToSet(EpsilonSuccessors(n, id, have)) \subseteq Here(n, P, i)
  <1>1. EpsilonSuccessors(n, id, have) = EpsilonSuccessors(n, id, LooksAt(w, i))
        \/ EpsilonSuccessors(n, id, have) = <<>>
    BY DEF EpsilonSuccessors
  <1>2. ToSet(<<>>) = {}
    BY DEF ToSet
  <1>3. <<id, i>> \in P /\ id \in NfaIDs(n)
    BY DEF Here
  <1>4. ASSUME NEW t \in ToSet(EpsilonSuccessors(n, id, LooksAt(w, i))) PROVE t \in Here(n, P, i)
    <2>1. <<t, i>> \in Edges(n, w, <<id, i>>)
      BY DEF Edges
    <2>2. <<t, i>> \in P
      BY <1>3, <2>1 DEF Followed, Closed
    <2>3. t \in NfaIDs(n)
      BY <2>2 DEF Followed, Pairs
    <2> QED BY <2>2, <2>3 DEF Here
  <1> QED BY <1>1, <1>2, <1>4

(* So is an epsilon closure, whatever assertions it takes to hold of those *)
(* that do.                                                                *)
LEMMA EpsilonHere ==
  ASSUME NEW n, Validate(n), NEW w \in Seq(Byte), NEW P, Followed(n, w, P), NEW i \in 0..Len(w),
         NEW have \in SUBSET LooksAt(w, i), NEW seeds \in Seq(NfaIDs(n)),
         ToSet(seeds) \subseteq Here(n, P, i)
  PROVE  ToSet(EpsilonClosure(n, seeds, have)) \subseteq Here(n, P, i)
  <1>1. Here(n, P, i) \in SUBSET NfaIDs(n)
    BY DEF Here
  <1>2. \A id \in Here(n, P, i) : ToSet(EpsilonSuccessors(n, id, have)) \subseteq Here(n, P, i)
    BY HereLeads
  <1> HIDE DEF Here
  <1> QED BY <1>1, <1>2, ClosureWithin

(* Sorting loses no state and adds none.                                   *)
LEMMA SortedWithin ==
  ASSUME NEW n, Validate(n), NEW S
  PROVE  ToSet(Sorted(n, S)) \subseteq S \cap NfaIDs(n)
  <1> DEFINE parts == [k \in DOMAIN n.states |-> IF k - 1 \in S THEN <<k - 1>> ELSE <<>>]
             T == S \cap NfaIDs(n)
  <1>1. Len(n.states) \in Nat /\ DOMAIN n.states = 1..Len(n.states)
    BY DEF Validate
  <1>2. ASSUME NEW k \in 1..Len(n.states)
        PROVE  (IF k - 1 \in S THEN <<k - 1>> ELSE <<>>) \in Seq(T)
    <2>1. k - 1 \in NfaIDs(n)
      BY <1>1 DEF NfaIDs
    <2>2. (k - 1 \in S => <<k - 1>> \in Seq(T)) /\ <<>> \in Seq(T)
      BY <2>1
    <2> QED BY <2>2
  <1>3. parts \in Seq(Seq(T))
    BY <1>1, <1>2
  <1> HIDE DEF parts, T
  <1>4. FlattenSeq(parts) \in Seq(T)
    BY <1>3, FlattenType
  <1>5. ToSet(FlattenSeq(parts)) \subseteq T
    BY <1>4, SeqWithin
  <1> QED BY <1>5 DEF Sorted, parts, T

(* Whether a word boundary is crossed is known where the byte before is.   *)
LEMMA ResolveHere ==
  ASSUME NEW n, Validate(n), NEW w \in Seq(Byte), NEW P, Followed(n, w, P), NEW i \in 0..Len(w),
         NEW ids \in Seq(NfaIDs(n)), ToSet(ids) \subseteq Here(n, P, i), NEW satisfied \in BOOLEAN,
         satisfied <=> WordAt(w, i) # WordAt(w, i + 1)
  PROVE  ToSet(ResolveWordBoundaries(n, ids, satisfied)) \subseteq Here(n, P, i)
  <1> DEFINE holds == {IF satisfied THEN "WordBoundary" ELSE "NoWordBoundary"}
             behind == {StateAt(n, id).next : id \in {x \in ToSet(ids) :
                          StateAt(n, x).kind = "Look" /\ StateAt(n, x).look \in holds}} \ {-1}
             crossed == ToSet(EpsilonClosure(n, Sorted(n, behind), holds))
  <1>1. holds \in SUBSET LooksAt(w, i)
    BY DEF LooksAt
  <1> HIDE DEF holds
  <1>2. behind \cap NfaIDs(n) \subseteq Here(n, P, i)
    <2> SUFFICES ASSUME NEW id \in ToSet(ids), StateAt(n, id).kind = "Look",
                        StateAt(n, id).look \in holds, StateAt(n, id).next \in NfaIDs(n)
                 PROVE  StateAt(n, id).next \in Here(n, P, i)
      OBVIOUS
    <2>1. StateAt(n, id).next >= 0
      BY DEF NfaIDs
    <2>2. EpsilonSuccessors(n, id, holds) = <<StateAt(n, id).next>>
      BY <2>1 DEF EpsilonSuccessors
    <2>3. ToSet(EpsilonSuccessors(n, id, holds)) \subseteq Here(n, P, i)
      BY <1>1, HereLeads
    <2>4. StateAt(n, id).next \in ToSet(<<StateAt(n, id).next>>)
      BY DEF ToSet
    <2> QED BY <2>2, <2>3, <2>4
  <1> HIDE DEF behind
  <1>3. ToSet(Sorted(n, behind)) \subseteq Here(n, P, i)
    BY <1>2, SortedWithin
  <1>4. crossed \subseteq Here(n, P, i)
    BY <1>1, <1>3, SortedType, EpsilonHere
  <1> HIDE DEF crossed
  <1>5. ToSet(Sorted(n, ToSet(ids) \cup crossed)) \subseteq Here(n, P, i)
    BY <1>4, SortedWithin
  <1>6. \/ ResolveWordBoundaries(n, ids, satisfied) = ids
        \/ ResolveWordBoundaries(n, ids, satisfied) = Sorted(n, ToSet(ids) \cup crossed)
    BY DEF ResolveWordBoundaries, crossed, behind, holds
  <1> QED BY <1>5, <1>6

(* The bytes of a haystack lead from a position to the next.               *)
LEMMA TargetsHere ==
  ASSUME NEW n, Validate(n), Patched(n), NEW w \in Seq(Byte), NEW P, Followed(n, w, P),
         NEW i \in 0..(Len(w) - 1), NEW id \in Here(n, P, i)
  PROVE  ToSet(ByteTargets(n, id, w[i + 1])) \subseteq Here(n, P, i + 1)
  <1>1. <<id, i>> \in P /\ id \in NfaIDs(n) /\ i < Len(w)
    BY DEF Here
  <1> SUFFICES ASSUME NEW t \in ToSet(ByteTargets(n, id, w[i + 1])) PROVE t \in Here(n, P, i + 1)
    OBVIOUS
  <1>2. <<t, i + 1>> \in Edges(n, w, <<id, i>>)
    BY <1>1 DEF Edges
  <1>3. <<t, i + 1>> \in P
    BY <1>1, <1>2 DEF Followed, Closed
  <1>4. t \in NfaIDs(n)
    BY <1>3 DEF Followed, Pairs
  <1> QED BY <1>3, <1>4 DEF Here

(* A move goes where the paths go: what it resolves on the way, and what   *)
(* it drops, adds no state that no path has.                               *)
LEMMA MoveHere ==
  ASSUME NEW n, Validate(n), Patched(n), NEW w \in Seq(Byte), NEW P, Followed(n, w, P),
         NEW i \in 0..(Len(w) - 1), NEW ids \in Seq(NfaIDs(n)), ToSet(ids) \subseteq Here(n, P, i),
         NEW fromWord \in BOOLEAN, HasWordBoundary(n) => (fromWord <=> WordAt(w, i)),
         NEW breakAtMatch
  PROVE  ToSet(Move(n, ids, w[i + 1], fromWord, breakAtMatch)) \subseteq Here(n, P, i + 1)
  <1> DEFINE b == w[i + 1]
             resolved == IF HasWordBoundary(n)
                         THEN ResolveWordBoundaries(n, ids, fromWord # IsWordByte(b))
                         ELSE ids
             cut == SelectInSeq(resolved, LAMBDA id : IsMatchID(n, id))
             threads == IF breakAtMatch /\ cut > 0 THEN SubSeq(resolved, 1, cut - 1) ELSE resolved
             after == IF b = NewlineByte THEN {"StartLine"} ELSE {}
             targets == [k \in DOMAIN threads |-> ByteTargets(n, threads[k], b)]
             T == Here(n, P, i)
             U == Here(n, P, i + 1)
  <1>0. i \in 0..Len(w) /\ i + 1 \in 0..Len(w) /\ i + 1 \in DOMAIN w /\ i < Len(w) /\ i + 1 # 0
        /\ T \in SUBSET NfaIDs(n) /\ U \in SUBSET NfaIDs(n)
    BY DEF Here
  <1>1. resolved \in Seq(T)
    <2>1. ids \in Seq(T)
      BY SeqWithin DEF ToSet
    <2>2. CASE HasWordBoundary(n)
      <3>1. (fromWord # IsWordByte(b)) \in BOOLEAN
        OBVIOUS
      <3>2. WordAt(w, i + 1) <=> IsWordByte(b)
        BY <1>0 DEF WordAt
      <3>3. WordAt(w, i) \in BOOLEAN /\ WordAt(w, i + 1) \in BOOLEAN /\ IsWordByte(b) \in BOOLEAN
        BY DEF WordAt, IsWordByte
      <3>4. (fromWord # IsWordByte(b)) <=> WordAt(w, i) # WordAt(w, i + 1)
        BY <2>2, <3>2, <3>3
      <3>5. ToSet(resolved) \subseteq T
        BY <1>0, <2>2, <3>1, <3>4, ResolveHere
      <3>6. resolved \in Seq(NfaIDs(n))
        BY ResolveWordBoundariesType
      <3> HIDE DEF resolved, T
      <3> QED BY <3>5, <3>6 DEF ToSet
    <2> QED BY <2>1, <2>2
  <1> HIDE DEF resolved, T, U
  <1>2. cut = 0 \/ cut \in 1..Len(resolved)
    <2> DEFINE hits == {j \in 1..Len(resolved) : IsMatchID(n, resolved[j])}
    <2>1. hits \in SUBSET Nat
      OBVIOUS
    <2>2. hits # {} => Min(hits) \in hits
      BY <2>1, LeastElement
    <2>3. cut = IF hits # {} THEN Min(hits) ELSE 0
      BY DEF SelectInSeq
    <2> QED BY <2>2, <2>3
  <1> HIDE DEF cut
  <1>3. threads \in Seq(T)
    <2>1. ASSUME cut \in 1..Len(resolved) PROVE SubSeq(resolved, 1, cut - 1) \in Seq(T)
      BY <1>1, <2>1
    <2> QED BY <1>1, <1>2, <2>1
  <1> HIDE DEF threads
  <1>4. targets \in Seq(Seq(U))
    <2>1. Len(threads) \in Nat /\ DOMAIN threads = 1..Len(threads)
          /\ \A k \in 1..Len(threads) : threads[k] \in T
      BY <1>3
    <2>2. ASSUME NEW id \in T PROVE ByteTargets(n, id, b) \in Seq(U)
      <3>1. ToSet(ByteTargets(n, id, b)) \subseteq U
        BY <2>2, TargetsHere DEF T, U
      <3>2. ByteTargets(n, id, b) \in Seq(NfaIDs(n))
        BY <1>0, ByteTargetsType
      <3> QED BY <3>1, <3>2 DEF ToSet
    <2> QED BY <2>1, <2>2
  <1> HIDE DEF targets
  <1>5. FlattenSeq(targets) \in Seq(U)
    BY <1>4, FlattenType
  <1>6. ToSet(FlattenSeq(targets)) \subseteq U /\ FlattenSeq(targets) \in Seq(NfaIDs(n))
    BY <1>0, <1>5, SeqWithin
  <1>7. after \in SUBSET LooksAt(w, i + 1)
    BY <1>0 DEF LooksAt
  <1> HIDE DEF after
  <1>8. ToSet(EpsilonClosure(n, FlattenSeq(targets), after)) \subseteq U
    BY <1>0, <1>6, <1>7, EpsilonHere DEF U
  <1> QED BY <1>8 DEF Move, targets, after, threads, cut, resolved, U

(* A match state that is here ends a match here.                           *)
LEMMA MatchHere ==
  ASSUME NEW n, NEW P, NEW i, NEW ids, ToSet(ids) \subseteq Here(n, P, i),
         ContainsMatchState(n, ids)
  PROVE  \E id \in Here(n, P, i) : IsMatchID(n, id)
  BY DEF ContainsMatchState, ToSet

(* So does a step of the construction: it is on the paths behind the byte, *)
(* and reports a match only where a path ends before it.                   *)
LEMMA SuccessorHere ==
  ASSUME NEW n, Validate(n), Patched(n), NEW w \in Seq(Byte), NEW P, Followed(n, w, P),
         NEW i \in 0..(Len(w) - 1), NEW ids \in Lists(n), ToSet(ids) \subseteq Here(n, P, i),
         NEW fromWord \in BOOLEAN, HasWordBoundary(n) => (fromWord <=> WordAt(w, i)), NEW breaks
  PROVE  LET next == Successor(n, ids, fromWord, w[i + 1], breaks)
         IN  /\ ToSet(next.nfaStates) \subseteq Here(n, P, i + 1)
             /\ next.isFromWord <=> WordAt(w, i + 1)
             /\ next.isMatch => \E id \in Here(n, P, i) : IsMatchID(n, id)
  <1> DEFINE b == w[i + 1]
             now == IF HasEndLine(n) /\ b = NewlineByte
                    THEN EpsilonClosure(n, ids, {"EndLine"}) ELSE ids
             isMatch == ContainsMatchState(n, now)
             next == Successor(n, ids, fromWord, b, breaks)
  <1>1. now \in Seq(NfaIDs(n)) /\ ids \in Seq(NfaIDs(n))
    BY EpsilonClosureType DEF Lists
  <1>2. ToSet(now) \subseteq Here(n, P, i)
    <2>1. i \in 0..Len(w) /\ (b = NewlineByte => {"EndLine"} \in SUBSET LooksAt(w, i))
      BY DEF LooksAt
    <2> QED BY <1>1, <2>1, EpsilonHere
  <1> HIDE DEF now, isMatch
  <1>3. next = [nfaStates |-> Move(n, now, b, fromWord, isMatch /\ breaks),
                isFromWord |-> IsWordByte(b), isMatch |-> isMatch]
    BY DEF Successor, now, isMatch
  <1>4. ToSet(Move(n, now, b, fromWord, isMatch /\ breaks)) \subseteq Here(n, P, i + 1)
    BY <1>1, <1>2, MoveHere
  <1>5. WordAt(w, i + 1) <=> IsWordByte(b)
    BY DEF WordAt
  <1>6. isMatch => \E id \in Here(n, P, i) : IsMatchID(n, id)
    BY <1>2, MatchHere DEF isMatch
  <1> HIDE DEF next
  <1> QED BY <1>3, <1>4, <1>5, <1>6 DEF next

(* Without word assertions there is nothing to resolve.                    *)
LEMMA ResolvesNothing ==
  ASSUME NEW n, Validate(n), NEW ids \in Seq(NfaIDs(n)), ~HasWordBoundary(n), NEW satisfied
  PROVE  ResolveWordBoundaries(n, ids, satisfied) = ids
  <1> DEFINE holds == {IF satisfied THEN "WordBoundary" ELSE "NoWordBoundary"}
             behind == {StateAt(n, id).next : id \in {x \in ToSet(ids) :
                          StateAt(n, x).kind = "Look" /\ StateAt(n, x).look \in holds}} \ {-1}
  <1>1. holds \subseteq WordLooks
    BY DEF WordLooks
  <1> HIDE DEF holds
  <1>2. behind = {}
    <2> SUFFICES ASSUME NEW id \in ToSet(ids), StateAt(n, id).kind = "Look",
                        StateAt(n, id).look \in holds
                 PROVE  FALSE
      OBVIOUS
    <2>1. id \in NfaIDs(n)
      BY SeqWithin
    <2>2. id + 1 \in DOMAIN n.states
      BY <2>1 DEF NfaIDs, Validate
    <2> QED BY <1>1, <2>2 DEF HasWordBoundary, HasLook, StateAt
  <1> HIDE DEF behind
  <1> QED BY <1>2 DEF ResolveWordBoundaries, behind, holds

(* At the end of the haystack a match is found only where a path ends.     *)
LEMMA EndOfInputHere ==
  ASSUME NEW n, Validate(n), NEW w \in Seq(Byte), NEW P, Followed(n, w, P),
         NEW ids \in Seq(NfaIDs(n)), ToSet(ids) \subseteq Here(n, P, Len(w)),
         NEW fromWord \in BOOLEAN, HasWordBoundary(n) => (fromWord <=> WordAt(w, Len(w))),
         CheckEOIMatch(n, ids, fromWord)
  PROVE  \E id \in Here(n, P, Len(w)) : IsMatchID(n, id)
  <1> DEFINE resolved == ResolveWordBoundaries(n, ids, fromWord)
  <1>1. Len(w) \in 0..Len(w) /\ LookSetForEOI \in SUBSET LooksAt(w, Len(w))
    BY DEF LookSetForEOI, LooksAt
  <1>2. ToSet(resolved) \subseteq Here(n, P, Len(w))
    <2>1. CASE HasWordBoundary(n)
      <3>1. ~WordAt(w, Len(w) + 1)
        BY DEF WordAt
      <3>2. WordAt(w, Len(w)) \in BOOLEAN /\ WordAt(w, Len(w) + 1) = FALSE
        BY <3>1 DEF WordAt
      <3>3. fromWord <=> WordAt(w, Len(w)) # WordAt(w, Len(w) + 1)
        BY <2>1, <3>2
      <3> QED BY <1>1, <3>3, ResolveHere
    <2>2. CASE ~HasWordBoundary(n)
      BY <2>2, ResolvesNothing
    <2> QED BY <2>1, <2>2
  <1>3. resolved \in Seq(NfaIDs(n))
    BY ResolveWordBoundariesType
  <1> HIDE DEF resolved
  <1>4. ToSet(EpsilonClosure(n, resolved, LookSetForEOI)) \subseteq Here(n, P, Len(w))
    BY <1>1, <1>2, <1>3, EpsilonHere
  <1> QED BY <1>4, MatchHere DEF CheckEOIMatch, resolved

-----------------------------------------------------------------------------
(* The epsilon closure is closed: its turns are enough, whatever the       *)
(* automaton.                                                              *)

(* A set of states no epsilon step leads out of, when those assertions     *)
(* hold.                                                                   *)
ClosedUnder(n, T, have) == \A id \in T : ToSet(EpsilonSuccessors(n, id, have)) \subseteq T

(* A state has two successors at most.                                     *)
ToOne(t) == IF t >= 0 THEN <<t>> ELSE <<>>

(* EpsilonSuccessors pushes the target of a state, or both of a split's.   *)
LEMMA SuccessorsAreFew ==
  ASSUME NEW n, Validate(n), NEW id \in NfaIDs(n), NEW have
  PROVE  Len(EpsilonSuccessors(n, id, have)) \in 0..2
  <1> DEFINE s == StateAt(n, id)
  <1>1. ASSUME NEW t PROVE ToOne(t) \in Seq({t}) /\ Len(ToOne(t)) \in 0..1
    <2>1. CASE t >= 0
      BY <2>1 DEF ToOne
    <2>2. CASE ~(t >= 0)
      BY <2>2 DEF ToOne
    <2> QED BY <2>1, <2>2
  <1>2. ASSUME NEW l, NEW r PROVE Len(ToOne(l) \o ToOne(r)) \in 0..2
    <2>1. ToOne(l) \in Seq({l}) /\ ToOne(r) \in Seq({r}) /\ Len(ToOne(l)) \in 0..1 /\ Len(ToOne(r)) \in 0..1
      BY <1>1
    <2>2. ToOne(l) \in Seq({l, r}) /\ ToOne(r) \in Seq({l, r})
      BY <2>1
    <2>3. Len(ToOne(l) \o ToOne(r)) = Len(ToOne(l)) + Len(ToOne(r))
      BY <2>2
    <2>4. ASSUME NEW a \in 0..1, NEW b \in 0..1 PROVE a + b \in 0..2
      OBVIOUS
    <2> QED BY <2>1, <2>3, <2>4
  <1>3. CASE s.kind \in {"Epsilon", "Capture"}
    <2>1. EpsilonSuccessors(n, id, have) = ToOne(s.next)
      BY <1>3 DEF EpsilonSuccessors, ToOne
    <2>2. Len(ToOne(s.next)) \in 0..1
      BY <1>1
    <2>3. ASSUME NEW a \in 0..1 PROVE a \in 0..2
      OBVIOUS
    <2> QED BY <2>1, <2>2, <2>3
  <1>4. CASE s.kind = "Split"
    <2>1. EpsilonSuccessors(n, id, have) = ToOne(s.left) \o ToOne(s.right)
      BY <1>4 DEF EpsilonSuccessors, ToOne
    <2> QED BY <1>2, <2>1
  <1>5. CASE s.kind = "Look" /\ s.look \in have
    <2>1. EpsilonSuccessors(n, id, have) = ToOne(s.next)
      BY <1>5 DEF EpsilonSuccessors, ToOne
    <2>2. Len(ToOne(s.next)) \in 0..1
      BY <1>1
    <2>3. ASSUME NEW a \in 0..1 PROVE a \in 0..2
      OBVIOUS
    <2> QED BY <2>1, <2>2, <2>3
  <1>6. CASE ~(s.kind \in {"Epsilon", "Capture", "Split"}) /\ ~(s.kind = "Look" /\ s.look \in have)
    <2>1. EpsilonSuccessors(n, id, have) = <<>>
      BY <1>6 DEF EpsilonSuccessors
    <2> QED BY <2>1
  <1> QED BY <1>3, <1>4, <1>5, <1>6

(* What sequences hold.                                                    *)
LEMMA Joined ==
  ASSUME NEW S, NEW s \in Seq(S), NEW t \in Seq(S)
  PROVE  /\ ToSet(s \o t) = ToSet(s) \cup ToSet(t)
         /\ Len(s \o t) = Len(s) + Len(t)
  <1>1. ASSUME NEW y \in ToSet(s \o t) PROVE y \in ToSet(s) \cup ToSet(t)
    <2>1. PICK k \in 1..(Len(s) + Len(t)) : y = (s \o t)[k]
      BY <1>1 DEF ToSet
    <2>2. CASE k <= Len(s)
      BY <2>1, <2>2 DEF ToSet
    <2>3. CASE k > Len(s)
      <3>1. k - Len(s) \in 1..Len(t) /\ y = t[k - Len(s)]
        BY <2>1, <2>3
      <3> QED BY <3>1 DEF ToSet
    <2> QED BY <2>2, <2>3
  <1>2. ASSUME NEW y \in ToSet(s) PROVE y \in ToSet(s \o t)
    <2>1. PICK k \in 1..Len(s) : y = s[k]
      BY <1>2 DEF ToSet
    <2>2. k \in 1..Len(s \o t) /\ (s \o t)[k] = y
      BY <2>1
    <2> QED BY <2>2 DEF ToSet
  <1>3. ASSUME NEW y \in ToSet(t) PROVE y \in ToSet(s \o t)
    <2>1. PICK k \in 1..Len(t) : y = t[k]
      BY <1>3 DEF ToSet
    <2>2. Len(s) + k \in 1..Len(s \o t) /\ (s \o t)[Len(s) + k] = y
      BY <2>1
    <2> QED BY <2>2 DEF ToSet
  <1> QED BY <1>1, <1>2, <1>3

(* A sequence holds its head and what its tail holds.                      *)
LEMMA Taken ==
  ASSUME NEW S, NEW s \in Seq(S), s # <<>>
  PROVE  /\ ToSet(s) = {Head(s)} \cup ToSet(Tail(s)) /\ Head(s) \in S
         /\ Tail(s) \in Seq(S) /\ Len(Tail(s)) = Len(s) - 1 /\ Len(s) \in Nat \ {0}
  <1>1. ASSUME NEW y \in ToSet(s) PROVE y \in {Head(s)} \cup ToSet(Tail(s))
    <2>1. PICK k \in 1..Len(s) : y = s[k]
      BY <1>1 DEF ToSet
    <2>2. CASE k = 1
      BY <2>1, <2>2
    <2>3. CASE k # 1
      <3>1. k - 1 \in 1..Len(Tail(s))
        BY <2>1, <2>3
      <3>2. Tail(s)[k - 1] = s[(k - 1) + 1] /\ (k - 1) + 1 = k
        BY <2>1, <2>3, <3>1
      <3>3. y = Tail(s)[k - 1]
        BY <2>1, <3>2
      <3>4. Tail(s)[k - 1] \in ToSet(Tail(s))
        BY <3>1 DEF ToSet
      <3> QED BY <3>3, <3>4
    <2> QED BY <2>2, <2>3
  <1>2. Head(s) \in ToSet(s)
    <2>1. Head(s) = s[1] /\ 1 \in 1..Len(s)
      OBVIOUS
    <2> QED BY <2>1 DEF ToSet
  <1>3. ASSUME NEW y \in ToSet(Tail(s)) PROVE y \in ToSet(s)
    <2>1. PICK k \in 1..Len(Tail(s)) : y = Tail(s)[k]
      BY <1>3 DEF ToSet
    <2>2. k + 1 \in 1..Len(s) /\ s[k + 1] = y
      BY <2>1
    <2> QED BY <2>2 DEF ToSet
  <1> QED BY <1>1, <1>2, <1>3

(* Appending adds one element.                                             *)
LEMMA Added ==
  ASSUME NEW S, NEW s \in Seq(S), NEW x \in S
  PROVE  /\ ToSet(Append(s, x)) = ToSet(s) \cup {x}
         /\ Len(Append(s, x)) = Len(s) + 1
  <1>1. Append(s, x) = s \o <<x>> /\ <<x>> \in Seq(S) /\ ToSet(<<x>>) = {x} /\ Len(<<x>>) = 1
    BY DEF ToSet
  <1>2. /\ ToSet(s \o <<x>>) = ToSet(s) \cup ToSet(<<x>>)
        /\ Len(s \o <<x>>) = Len(s) + Len(<<x>>)
    BY <1>1, Joined
  <1> QED BY <1>1, <1>2

(* Contains looks an element up.                                           *)
LEMMA Containing ==
  ASSUME NEW s, NEW x
  PROVE  Contains(s, x) <=> x \in ToSet(s)
  BY DEF Contains, ToSet

(* In an epsilon closure under way, what was pushed is in it or still on   *)
(* the stack, and the turns that are left are enough to empty the stack.   *)
Covering(n, have, seeds, closure, left) ==
  LET met == ToSet(closure.ids) \cup ToSet(closure.stack)
  IN  /\ \A id \in ToSet(closure.ids) : ToSet(EpsilonSuccessors(n, id, have)) \subseteq met
      /\ ToSet(seeds) \subseteq met
      /\ closure.stack # <<>> =>
           Len(closure.stack) + 2 * (Len(n.states) - Len(closure.ids)) <= left

(* One turn of the closure keeps to that.                                  *)
LEMMA CoveringStep ==
  ASSUME NEW n, Validate(n), NEW have, NEW seeds, NEW c \in Closure(n), NEW left \in Int,
         Covering(n, have, seeds, c, left)
  PROVE  Covering(n, have, seeds, EpsilonClosureInto(n, have, c), left - 1)
  <1> DEFINE id == Head(c.stack)
             next == EpsilonClosureInto(n, have, c)
             more == EpsilonSuccessors(n, id, have)
             size == Len(n.states)
             met == ToSet(c.ids) \cup ToSet(c.stack)
  <1>1. CASE c.stack = <<>>
    <2>1. next = c
      BY <1>1 DEF EpsilonClosureInto
    <2> HIDE DEF next
    <2>2. Covering(n, have, seeds, next, left - 1)
      BY <1>1, <2>1 DEF Covering
    <2> QED BY <2>2 DEF next
  <1>2. ASSUME c.stack # <<>>
        PROVE  /\ ToSet(c.stack) = {id} \cup ToSet(Tail(c.stack)) /\ id \in NfaIDs(n)
               /\ Tail(c.stack) \in Seq(NfaIDs(n)) /\ Len(Tail(c.stack)) = Len(c.stack) - 1
               /\ Len(c.stack) \in Nat \ {0}
    BY <1>2, Taken DEF Closure
  <1>3. c.ids \in Seq(NfaIDs(n)) /\ Len(c.ids) \in Nat /\ size \in Nat
    BY DEF Closure, Lists, Validate
  <1>4. /\ \A j \in ToSet(c.ids) : ToSet(EpsilonSuccessors(n, j, have)) \subseteq met
        /\ ToSet(seeds) \subseteq met
        /\ c.stack # <<>> => Len(c.stack) + 2 * (size - Len(c.ids)) <= left
    BY DEF Covering
  <1>5. ASSUME NEW x \in Nat, NEW y \in Nat, NEW s \in Nat, NEW m \in 0..2,
               x + 2 * (s - y) <= left
        PROVE  /\ (x - 1) + 2 * (s - y) <= left - 1
               /\ (m + (x - 1)) + 2 * (s - (y + 1)) <= left - 1
    BY <1>5
  <1> HIDE DEF size
  <1>6. CASE c.stack # <<>> /\ Contains(c.ids, id)
    <2>1. next = [c EXCEPT !.stack = Tail(@)]
      BY <1>6 DEF EpsilonClosureInto
    <2>2. next.ids = c.ids /\ next.stack = Tail(c.stack)
      BY <2>1 DEF Closure
    <2>3. id \in ToSet(c.ids)
      BY <1>6, Containing
    <2> HIDE DEF next, id
    <2>4. ToSet(next.ids) \cup ToSet(next.stack) = met
      BY <1>2, <1>6, <2>2, <2>3
    <2>5. Len(next.stack) + 2 * (size - Len(next.ids)) <= left - 1
      <3>1. Len(next.stack) = Len(c.stack) - 1 /\ Len(next.ids) = Len(c.ids) /\ Len(c.stack) \in Nat
        BY <1>2, <1>6, <2>2
      <3>2. (Len(c.stack) - 1) + 2 * (size - Len(c.ids)) <= left - 1
        <4>1. Len(c.stack) + 2 * (size - Len(c.ids)) <= left /\ 0 \in 0..2
          BY <1>4, <1>6
        <4> QED BY <1>3, <1>5, <3>1, <4>1
      <3> QED BY <3>1, <3>2
    <2> HIDE DEF met
    <2>6. Covering(n, have, seeds, next, left - 1)
      BY <1>4, <2>2, <2>4, <2>5 DEF Covering, size
    <2> QED BY <2>6 DEF next
  <1>7. CASE c.stack # <<>> /\ ~Contains(c.ids, id)
    <2>1. next = [stack |-> more \o Tail(c.stack), ids |-> Append(c.ids, id)]
      BY <1>7 DEF EpsilonClosureInto
    <2>2. next.ids = Append(c.ids, id) /\ next.stack = more \o Tail(c.stack)
      <3> HIDE DEF next, more
      <3> QED BY <2>1
    <2>3. more \in Seq(NfaIDs(n)) /\ Len(more) \in 0..2
      BY <1>2, <1>7, EpsilonSuccessorsType, SuccessorsAreFew
    <2>4. more = EpsilonSuccessors(n, id, have)
      OBVIOUS
    <2> HIDE DEF next, id, more
    <2>5. /\ ToSet(next.ids) = ToSet(c.ids) \cup {id} /\ Len(next.ids) = Len(c.ids) + 1
      BY <1>2, <1>3, <1>7, <2>2, Added
    <2>6. /\ ToSet(next.stack) = ToSet(more) \cup ToSet(Tail(c.stack))
          /\ Len(next.stack) = Len(more) + Len(Tail(c.stack))
      <3>1. Tail(c.stack) \in Seq(NfaIDs(n))
        BY <1>2, <1>7
      <3>2. /\ ToSet(more \o Tail(c.stack)) = ToSet(more) \cup ToSet(Tail(c.stack))
            /\ Len(more \o Tail(c.stack)) = Len(more) + Len(Tail(c.stack))
        BY <2>3, <3>1, Joined
      <3> QED BY <2>2, <3>2
    <2>7. Len(next.stack) + 2 * (size - Len(next.ids)) <= left - 1
      <3>1. (Len(more) + (Len(c.stack) - 1)) + 2 * (size - (Len(c.ids) + 1)) <= left - 1
        BY <1>2, <1>3, <1>4, <1>5, <1>7, <2>3
      <3> QED BY <1>2, <1>7, <2>5, <2>6, <3>1
    <2>8. met \subseteq ToSet(next.ids) \cup ToSet(next.stack)
      BY <1>2, <1>7, <2>5, <2>6
    <2> HIDE DEF met
    <2>9. ASSUME NEW j \in ToSet(next.ids)
          PROVE  ToSet(EpsilonSuccessors(n, j, have)) \subseteq ToSet(next.ids) \cup ToSet(next.stack)
      <3>1. CASE j = id
        BY <2>4, <2>6, <3>1
      <3>2. CASE j \in ToSet(c.ids)
        BY <1>4, <2>8, <3>2
      <3> QED BY <2>5, <2>9, <3>1, <3>2
    <2>10. Covering(n, have, seeds, next, left - 1)
      BY <1>4, <2>7, <2>8, <2>9 DEF Covering, size
    <2> QED BY <2>10 DEF next
  <1> QED BY <1>1, <1>6, <1>7

(* So an epsilon closure holds its seeds and whatever follows from them.   *)
LEMMA ClosureContains ==
  ASSUME NEW n, Validate(n), NEW have, NEW seeds \in Seq(NfaIDs(n))
  PROVE  /\ ToSet(seeds) \subseteq ToSet(EpsilonClosure(n, seeds, have))
         /\ ClosedUnder(n, ToSet(EpsilonClosure(n, seeds, have)), have)
  <1> DEFINE T == Turns(n, seeds)
  <1>1. PICK after : Unfolds(n, seeds, have, after)
    BY EpsilonClosureUnfolds
  <1>2. T \in Nat /\ Len(n.states) \in Nat /\ Len(seeds) \in Nat
    BY DEF Turns, Validate
  <1> DEFINE A == {k \in 0..T : Covering(n, have, seeds, after[k], T - k)}
  <1>3. 0 \in A
    <2>1. after[0].stack = seeds /\ after[0].ids = <<>>
      BY <1>1 DEF Unfolds
    <2>2. ToSet(after[0].ids) = {} /\ Len(after[0].ids) = 0
      BY <2>1 DEF ToSet
    <2>3. Len(seeds) + 2 * (Len(n.states) - 0) <= T - 0
      <3>1. T = Len(seeds) + 2 * Len(n.states)
        BY DEF Turns
      <3>2. ASSUME NEW x \in Nat, NEW y \in Nat PROVE x + 2 * (y - 0) <= (x + 2 * y) - 0
        OBVIOUS
      <3> HIDE DEF T
      <3> QED BY <1>2, <3>1, <3>2
    <2> HIDE DEF T
    <2>4. Covering(n, have, seeds, after[0], T - 0)
      BY <2>1, <2>2, <2>3 DEF Covering
    <2> QED BY <1>2, <2>4
  <1>4. ASSUME NEW k \in 0..(T - 1), k \in A PROVE k + 1 \in A
    <2>1. after[k] \in Closure(n) /\ after[k + 1] = EpsilonClosureInto(n, have, after[k])
      BY <1>1, <1>2 DEF Unfolds
    <2>2. Covering(n, have, seeds, after[k + 1], (T - k) - 1)
      <3>1. T - k \in Int /\ Covering(n, have, seeds, after[k], T - k)
        BY <1>2, <1>4
      <3> HIDE DEF T
      <3> QED BY <2>1, <3>1, CoveringStep
    <2>3. (T - k) - 1 = T - (k + 1) /\ k + 1 \in 0..T
      BY <1>2
    <2> QED BY <2>2, <2>3
  <1>5. Covering(n, have, seeds, after[T], 0)
    <2>1. 0..T \subseteq A
      <3> HIDE DEF A, T
      <3> QED BY <1>2, <1>3, <1>4, IntervalInduction
    <2>2. T \in A /\ T - T = 0
      BY <1>2, <2>1
    <2> QED BY <2>2
  <1>6. after[T] \in Closure(n) /\ EpsilonClosure(n, seeds, have) = after[T].ids
    BY <1>1, <1>2 DEF Unfolds
  <1>7. after[T].stack = <<>>
    <2>1. Len(after[T].ids) \in Nat /\ Len(after[T].ids) <= Len(n.states)
      BY <1>2, <1>6, ListFits DEF Closure
    <2>2. ASSUME after[T].stack # <<>> PROVE FALSE
      <3>1. Len(after[T].stack) \in Nat \ {0}
        BY <1>6, <2>2, Taken DEF Closure
      <3>2. Len(after[T].stack) + 2 * (Len(n.states) - Len(after[T].ids)) <= 0
        BY <1>5, <2>2 DEF Covering
      <3>3. ASSUME NEW x \in Nat \ {0}, NEW y \in Nat, NEW z \in Nat, z <= y PROVE ~(x + 2 * (y - z) <= 0)
        BY <3>3
      <3> QED BY <1>2, <2>1, <3>1, <3>2, <3>3
    <2> QED BY <2>2
  <1>8. ToSet(after[T].stack) = {}
    BY <1>7 DEF ToSet
  <1> HIDE DEF T
  <1> QED BY <1>5, <1>6, <1>8 DEF Covering, ClosedUnder

-----------------------------------------------------------------------------
(* What a set of states is closed to when more assertions are known.       *)

(* A flattened sequence holds what its parts hold.                         *)
LEMMA FlattenHolds ==
  ASSUME NEW S, NEW seqs \in Seq(Seq(S)), NEW k \in DOMAIN seqs
  PROVE  ToSet(seqs[k]) \subseteq ToSet(FlattenSeq(seqs))
  <1> DEFINE n == Len(seqs)
             flatten[i \in 1..n] == IF i = 1 THEN seqs[i] ELSE flatten[i - 1] \o seqs[i]
             step == [i \in 1..n |-> [s \in Seq(S) |-> s \o seqs[i]]]
             A == {i \in 1..n : flatten[i] \in Seq(S)
                                /\ (k <= i => ToSet(seqs[k]) \subseteq ToSet(flatten[i]))}
  <1>1. n \in Nat /\ 1 <= n /\ k \in 1..n /\ \A i \in 1..n : seqs[i] \in Seq(S)
    OBVIOUS
  <1>2. step \in [1..n -> [Seq(S) -> Seq(S)]]
    BY <1>1
  <1>3. PICK f \in [1..n -> Seq(S)] :
          \A i \in 1..n : f[i] = IF i = 1 THEN seqs[1] ELSE step[i][f[i - 1]]
    <2>1. seqs[1] \in Seq(S) /\ 1 \in Nat
      BY <1>1
    <2> HIDE DEF step, n
    <2>2. Defines(1, n, Seq(S), seqs[1], step)
      BY <1>1, <1>2, <2>1, IntervalRecursion
    <2> QED BY <2>2 DEF Defines
  <1>4. f = [i \in 1..n |-> IF i = 1 THEN seqs[i] ELSE f[i - 1] \o seqs[i]]
    <2> SUFFICES ASSUME NEW i \in 1..n
                 PROVE  f[i] = IF i = 1 THEN seqs[i] ELSE f[i - 1] \o seqs[i]
      BY <1>3
    <2>1. i # 1 => i - 1 \in 1..n
      BY <1>1
    <2> QED BY <1>1, <1>3, <2>1
  <1>5. flatten = [i \in 1..n |-> IF i = 1 THEN seqs[i] ELSE flatten[i - 1] \o seqs[i]]
    BY <1>4
  <1> HIDE DEF flatten
  <1>6. 1 \in A
    <2>1. flatten[1] = seqs[1] /\ (k <= 1 => k = 1) /\ 1 \in 1..n
      BY <1>1, <1>5
    <2> QED BY <1>1, <2>1
  <1>7. ASSUME NEW i \in 1..(n - 1), i \in A PROVE i + 1 \in A
    <2>1. i + 1 \in 1..n /\ i + 1 # 1 /\ (i + 1) - 1 = i
      BY <1>1
    <2>2. flatten[i + 1] = flatten[i] \o seqs[i + 1]
      BY <1>5, <2>1
    <2>3. flatten[i] \in Seq(S) /\ seqs[i + 1] \in Seq(S)
      BY <1>1, <1>7, <2>1
    <2>4. ToSet(flatten[i + 1]) = ToSet(flatten[i]) \cup ToSet(seqs[i + 1])
      BY <2>2, <2>3, Joined
    <2>5. k <= i + 1 => k <= i \/ k = i + 1
      BY <1>1, <2>1
    <2>6. k <= i + 1 => ToSet(seqs[k]) \subseteq ToSet(flatten[i + 1])
      BY <1>7, <2>4, <2>5
    <2>7. flatten[i + 1] \in Seq(S)
      BY <2>2, <2>3
    <2> QED BY <2>1, <2>6, <2>7
  <1>8. ToSet(seqs[k]) \subseteq ToSet(flatten[n])
    <2>1. n \in 1..n
      BY <1>1
    <2> HIDE DEF A, n
    <2>2. 1..n \subseteq A
      BY <1>1, <1>6, <1>7, IntervalInduction
    <2> QED BY <1>1, <2>1, <2>2 DEF A
  <1>9. n # 0
    BY <1>1
  <1>10. FlattenSeq(seqs) = flatten[n]
    BY <1>9 DEF FlattenSeq, flatten
  <1> QED BY <1>8, <1>10

(* Sorting keeps every state.                                              *)
LEMMA SortedHolds ==
  ASSUME NEW n, Validate(n), NEW S
  PROVE  S \cap NfaIDs(n) \subseteq ToSet(Sorted(n, S))
  <1> DEFINE parts == [k \in DOMAIN n.states |-> IF k - 1 \in S THEN <<k - 1>> ELSE <<>>]
  <1> SUFFICES ASSUME NEW id \in S, id \in NfaIDs(n) PROVE id \in ToSet(Sorted(n, S))
    OBVIOUS
  <1>1. Len(n.states) \in Nat /\ DOMAIN n.states = 1..Len(n.states)
    BY DEF Validate
  <1>2. id + 1 \in 1..Len(n.states) /\ (id + 1) - 1 = id
    BY <1>1 DEF NfaIDs
  <1>3. ASSUME NEW k \in 1..Len(n.states)
        PROVE  (IF k - 1 \in S THEN <<k - 1>> ELSE <<>>) \in Seq(NfaIDs(n))
    <2>1. k - 1 \in NfaIDs(n)
      BY <1>1 DEF NfaIDs
    <2>2. (k - 1 \in S => <<k - 1>> \in Seq(NfaIDs(n))) /\ <<>> \in Seq(NfaIDs(n))
      BY <2>1
    <2> QED BY <2>2
  <1>4. parts \in Seq(Seq(NfaIDs(n))) /\ DOMAIN parts = 1..Len(n.states)
    BY <1>1, <1>3
  <1>5. parts[id + 1] = <<id>>
    BY <1>1, <1>2
  <1>6. Sorted(n, S) = FlattenSeq(parts)
    BY DEF Sorted
  <1> HIDE DEF parts
  <1>7. ToSet(<<id>>) \subseteq ToSet(FlattenSeq(parts))
    BY <1>2, <1>4, <1>5, FlattenHolds
  <1>8. id \in ToSet(<<id>>)
    BY DEF ToSet
  <1> QED BY <1>6, <1>7, <1>8

-----------------------------------------------------------------------------
(* What an assertion leads to.                                             *)
Guarded(n, id, looks) == StateAt(n, id).kind = "Look" /\ StateAt(n, id).look \in looks

(* Fewer assertions lead nowhere else; two sets of them that a state does  *)
(* not tell apart lead to the same.                                        *)
LEMMA SuccessorsGrow ==
  ASSUME NEW n, NEW id, NEW have, NEW also
  PROVE  /\ have \subseteq also =>
              ToSet(EpsilonSuccessors(n, id, have)) \subseteq ToSet(EpsilonSuccessors(n, id, also))
         /\ (Guarded(n, id, have) <=> Guarded(n, id, also)) =>
              EpsilonSuccessors(n, id, have) = EpsilonSuccessors(n, id, also)
  <1>1. (Guarded(n, id, have) <=> Guarded(n, id, also)) =>
          EpsilonSuccessors(n, id, have) = EpsilonSuccessors(n, id, also)
    BY DEF Guarded, EpsilonSuccessors
  <1>2. CASE Guarded(n, id, have) <=> Guarded(n, id, also)
    BY <1>1, <1>2
  <1>3. CASE ~(Guarded(n, id, have) <=> Guarded(n, id, also)) /\ have \subseteq also
    <2>1. StateAt(n, id).kind = "Look" /\ StateAt(n, id).look \notin have
      BY <1>3 DEF Guarded
    <2>2. EpsilonSuccessors(n, id, have) = <<>>
      BY <2>1 DEF EpsilonSuccessors
    <2>3. ToSet(<<>>) = {}
      BY DEF ToSet
    <2> QED BY <1>3, <2>2, <2>3
  <1> QED BY <1>1, <1>2, <1>3

(* An assertion that holds leads to the state behind it.                   *)
LEMMA LookLeads ==
  ASSUME NEW n, NEW id, NEW have, Guarded(n, id, have),
         NEW t \in ToSet(EpsilonSuccessors(n, id, have))
  PROVE  t = StateAt(n, id).next
  <1>1. EpsilonSuccessors(n, id, have) = ToOne(StateAt(n, id).next)
    BY DEF Guarded, EpsilonSuccessors, ToOne
  <1>2. ASSUME NEW u PROVE ToSet(ToOne(u)) \subseteq {u}
    BY DEF ToSet, ToOne
  <1> QED BY <1>1, <1>2

StartLooks == {"StartText", "StartLine"}

(* A set of states that was closed when its position was reached, closed   *)
(* once more when what follows the position is known: the result is closed *)
(* under both, as no assertion about what is before is behind one about    *)
(* what comes after.                                                       *)
LEMMA ClosedTwice ==
  ASSUME NEW n, Validate(n), Apart(n), NEW opened \in SUBSET StartLooks,
         NEW have \in SUBSET LookSetForEOI, NEW ids \in Seq(NfaIDs(n)),
         ClosedUnder(n, ToSet(ids), opened)
  PROVE  LET C == ToSet(EpsilonClosure(n, ids, have))
         IN  ToSet(ids) \subseteq C /\ ClosedUnder(n, C, opened \cup have)
  <1> DEFINE C == ToSet(EpsilonClosure(n, ids, have))
             T == ToSet(ids)
             ends == {k \in DOMAIN n.states : n.states[k].kind = "Look" /\ n.states[k].look \in LookSetForEOI}
             nexts == {n.states[k].next : k \in ends}
             B == ToSet(EpsilonClosure(n, Sorted(n, nexts), LookSetForEOI))
  <1>1. T \subseteq C /\ ClosedUnder(n, C, have) /\ C \subseteq NfaIDs(n) /\ T \subseteq NfaIDs(n)
    BY ClosureContains, EpsilonClosureType, SeqWithin DEF Lists
  <1>2. /\ nexts \cap NfaIDs(n) \subseteq B /\ ClosedUnder(n, B, LookSetForEOI) /\ B \subseteq NfaIDs(n)
    <2>1. Sorted(n, nexts) \in Seq(NfaIDs(n)) /\ nexts \cap NfaIDs(n) \subseteq ToSet(Sorted(n, nexts))
      BY SortedType, SortedHolds
    <2> HIDE DEF nexts
    <2> QED BY <2>1, ClosureContains, EpsilonClosureType, SeqWithin DEF Lists
  <1>3. \A id \in B : ~Guarded(n, id, StartLooks)
    BY DEF Apart, Guarded, StartLooks
  <1>4. ASSUME NEW id \in NfaIDs(n), Guarded(n, id, LookSetForEOI)
        PROVE  StateAt(n, id).next \in nexts
    <2>1. id + 1 \in DOMAIN n.states
      BY DEF Validate, NfaIDs
    <2> QED BY <1>4, <2>1 DEF Guarded, StateAt
  <1> HIDE DEF C, T, B, nexts
  <1>5. ASSUME NEW id \in NfaIDs(n) PROVE ~(Guarded(n, id, have) /\ Guarded(n, id, StartLooks))
    BY DEF Guarded, StartLooks, LookSetForEOI
  <1>6. C \subseteq T \cup B
    <2>1. ASSUME NEW id \in T \cup B
          PROVE  ToSet(EpsilonSuccessors(n, id, have)) \subseteq T \cup B
      <3>1. CASE id \in B
        <4>1. ToSet(EpsilonSuccessors(n, id, have)) \subseteq ToSet(EpsilonSuccessors(n, id, LookSetForEOI))
          BY SuccessorsGrow
        <4> QED BY <1>2, <3>1, <4>1 DEF ClosedUnder
      <3>2. CASE id \in T /\ Guarded(n, id, have)
        <4>1. id \in NfaIDs(n) /\ Guarded(n, id, LookSetForEOI)
          BY <1>1, <3>2 DEF Guarded
        <4>2. ToSet(EpsilonSuccessors(n, id, have)) \subseteq NfaIDs(n)
          BY <4>1, EpsilonSuccessorsType, SeqWithin
        <4> QED BY <1>2, <1>4, <3>2, <4>1, <4>2, LookLeads
      <3>3. CASE id \in T /\ ~Guarded(n, id, have)
        <4>1. ToSet(EpsilonSuccessors(n, id, have)) \subseteq ToSet(EpsilonSuccessors(n, id, opened))
          <5>1. ~Guarded(n, id, {}) /\ {} \subseteq opened
            BY DEF Guarded
          <5>2. EpsilonSuccessors(n, id, have) = EpsilonSuccessors(n, id, {})
            BY <3>3, <5>1, SuccessorsGrow
          <5>3. ToSet(EpsilonSuccessors(n, id, {})) \subseteq ToSet(EpsilonSuccessors(n, id, opened))
            BY <5>1, SuccessorsGrow
          <5> QED BY <5>2, <5>3
        <4>2. ClosedUnder(n, T, opened)
          BY DEF T
        <4> QED BY <3>3, <4>1, <4>2 DEF ClosedUnder
      <3> QED BY <3>1, <3>2, <3>3
    <2>2. T \cup B \in SUBSET NfaIDs(n) /\ ToSet(ids) \subseteq T \cup B
      BY <1>1, <1>2 DEF T
    <2> QED BY <2>1, <2>2, ClosureWithin DEF C
  <1>7. ASSUME NEW id \in C
        PROVE  ToSet(EpsilonSuccessors(n, id, opened \cup have)) \subseteq C
    <2>1. CASE ~Guarded(n, id, opened)
      <3>1. Guarded(n, id, have) <=> Guarded(n, id, opened \cup have)
        BY <2>1 DEF Guarded
      <3>2. EpsilonSuccessors(n, id, opened \cup have) = EpsilonSuccessors(n, id, have)
        BY <3>1, SuccessorsGrow
      <3> QED BY <1>1, <3>2 DEF ClosedUnder
    <2>2. CASE Guarded(n, id, opened)
      <3>1. Guarded(n, id, StartLooks)
        BY <2>2 DEF Guarded
      <3>2. id \in T
        BY <1>3, <1>6, <3>1
      <3>3. Guarded(n, id, opened) <=> Guarded(n, id, opened \cup have)
        BY <2>2 DEF Guarded
      <3>4. EpsilonSuccessors(n, id, opened \cup have) = EpsilonSuccessors(n, id, opened)
        BY <3>3, SuccessorsGrow
      <3>5. ClosedUnder(n, T, opened)
        BY DEF T
      <3> QED BY <1>1, <3>2, <3>4, <3>5 DEF ClosedUnder
    <2> QED BY <2>1, <2>2
  <1> QED BY <1>1, <1>7 DEF ClosedUnder, C, T

-----------------------------------------------------------------------------
(* Closing a list of states for a position in the two steps Move takes.    *)

(* What holds before a position, and what its next byte says.              *)
Opened(w, i) == LooksAt(w, i) \cap StartLooks
Impending(w, i) == LooksAt(w, i) \cap LookSetForEOI

(* Of the kinds of start a byte can make, only a newline's lets ^ hold.    *)
LEMMA LineStarts ==
  ASSUME NEW b
  PROVE  LookSetFromStartKind(StartKindOf(b)) = IF b = NewlineByte THEN {"StartLine"} ELSE {}
  <1>1. CASE b = NewlineByte
    <2>1. StartKindOf(b) = "LineLF"
      BY <1>1 DEF StartKindOf, NewlineByte, IsWordByte
    <2>2. LookSetFromStartKind("LineLF") = {"StartLine"}
      BY DEF LookSetFromStartKind
    <2> QED BY <1>1, <2>1, <2>2
  <1>2. CASE b # NewlineByte
    <2>1. StartKindOf(b) \in {"LineCR", "Word", "NonWord"}
      BY <1>2 DEF StartKindOf
    <2>2. \A kind \in {"LineCR", "Word", "NonWord"} : LookSetFromStartKind(kind) = {}
      BY DEF LookSetFromStartKind
    <2> QED BY <1>2, <2>1, <2>2
  <1> QED BY <1>1, <1>2

(* Which assertions hold at a position: ^ and \A by the byte before it,    *)
(* $ and \z by the byte after it, and the word assertions.                 *)
LEMMA LooksHeld ==
  ASSUME NEW w \in Seq(Byte), NEW i \in 0..Len(w)
  PROVE  /\ LooksAt(w, i) \subseteq Opened(w, i) \cup Impending(w, i) \cup WordLooks
         /\ Opened(w, i) \cup Impending(w, i) \subseteq LooksAt(w, i)
         /\ Opened(w, i) = LookSetFromStartKind(IF i = 0 THEN "Text" ELSE StartKindOf(w[i]))
         /\ i < Len(w) => Impending(w, i) = IF w[i + 1] = NewlineByte THEN {"EndLine"} ELSE {}
         /\ i = Len(w) => Impending(w, i) = LookSetForEOI
  <1>1. LooksAt(w, i) \subseteq Opened(w, i) \cup Impending(w, i) \cup WordLooks
    BY DEF LooksAt, Opened, Impending, StartLooks, LookSetForEOI, WordLooks
  <1>2. Opened(w, i) = LookSetFromStartKind(IF i = 0 THEN "Text" ELSE StartKindOf(w[i]))
    <2>1. Opened(w, i) = (IF i = 0 THEN {"StartText"} ELSE {})
                         \cup (IF i = 0 \/ w[i] = NewlineByte THEN {"StartLine"} ELSE {})
      BY DEF Opened, LooksAt, StartLooks
    <2>2. CASE i = 0
      BY <2>1, <2>2 DEF LookSetFromStartKind
    <2>3. CASE i # 0
      BY <2>1, <2>3, LineStarts
    <2> QED BY <2>2, <2>3
  <1>3. /\ i < Len(w) => Impending(w, i) = IF w[i + 1] = NewlineByte THEN {"EndLine"} ELSE {}
        /\ i = Len(w) => Impending(w, i) = LookSetForEOI
    <2>1. Impending(w, i) = (IF i = Len(w) THEN {"EndText"} ELSE {})
                        \cup (IF i = Len(w) \/ w[i + 1] = NewlineByte THEN {"EndLine"} ELSE {})
      BY DEF Impending, LooksAt, LookSetForEOI
    <2>2. i < Len(w) => i # Len(w)
      OBVIOUS
    <2> QED BY <2>1, <2>2 DEF LookSetForEOI
  <1> QED BY <1>1, <1>2, <1>3 DEF Opened, Impending

(* Assertions that the automaton does not have are passed by nobody.       *)
LEMMA ClosedAlike ==
  ASSUME NEW n, NEW X, NEW have, NEW also, ClosedUnder(n, X, have),
         \A id \in X : Guarded(n, id, have) <=> Guarded(n, id, also)
  PROVE  ClosedUnder(n, X, also)
  BY SuccessorsGrow DEF ClosedUnder

(* Without word assertions the other two decide what a set is closed to.   *)
LEMMA ClosedHere ==
  ASSUME NEW n, Validate(n), ~HasWordBoundary(n), NEW w \in Seq(Byte), NEW i \in 0..Len(w),
         NEW X \in SUBSET NfaIDs(n), ClosedUnder(n, X, Opened(w, i) \cup Impending(w, i))
  PROVE  ClosedUnder(n, X, LooksAt(w, i))
  <1>1. ASSUME NEW id \in X PROVE ~Guarded(n, id, WordLooks)
    <2>1. id + 1 \in DOMAIN n.states
      BY DEF Validate, NfaIDs
    <2> QED BY <2>1 DEF Guarded, StateAt, HasWordBoundary, HasLook
  <1>2. ASSUME NEW id \in X
        PROVE  Guarded(n, id, Opened(w, i) \cup Impending(w, i)) <=> Guarded(n, id, LooksAt(w, i))
    BY <1>1, LooksHeld DEF Guarded
  <1> QED BY <1>2, ClosedAlike

(* Looking at the next byte closes a set under all that holds.             *)
LEMMA LookedAhead ==
  ASSUME NEW n, Validate(n), Apart(n), ~HasWordBoundary(n), NEW w \in Seq(Byte),
         NEW i \in 0..(Len(w) - 1), NEW ids \in Seq(NfaIDs(n)), ClosedUnder(n, ToSet(ids), Opened(w, i))
  PROVE  LET now == IF HasEndLine(n) /\ w[i + 1] = NewlineByte
                    THEN EpsilonClosure(n, ids, {"EndLine"}) ELSE ids
         IN  /\ now \in Seq(NfaIDs(n)) /\ ToSet(now) \in SUBSET NfaIDs(n)
             /\ ToSet(ids) \subseteq ToSet(now) /\ ClosedUnder(n, ToSet(now), LooksAt(w, i))
  <1> DEFINE now == IF HasEndLine(n) /\ w[i + 1] = NewlineByte
                    THEN EpsilonClosure(n, ids, {"EndLine"}) ELSE ids
  <1>1. i \in 0..Len(w) /\ i < Len(w) /\ Opened(w, i) \in SUBSET StartLooks
        /\ {"EndLine"} \in SUBSET LookSetForEOI
    BY DEF Opened, LookSetForEOI
  <1>2. now \in Seq(NfaIDs(n)) /\ ToSet(now) \in SUBSET NfaIDs(n)
    <2>1. now \in Seq(NfaIDs(n))
      BY EpsilonClosureType DEF Lists
    <2> HIDE DEF now
    <2> QED BY <2>1, SeqWithin
  <1>3. CASE HasEndLine(n) /\ w[i + 1] = NewlineByte
    <2>1. now = EpsilonClosure(n, ids, {"EndLine"}) /\ Impending(w, i) = {"EndLine"}
      BY <1>1, <1>3, LooksHeld
    <2>2. /\ ToSet(ids) \subseteq ToSet(EpsilonClosure(n, ids, {"EndLine"}))
          /\ ClosedUnder(n, ToSet(EpsilonClosure(n, ids, {"EndLine"})), Opened(w, i) \cup {"EndLine"})
      BY <1>1, ClosedTwice
    <2> HIDE DEF now
    <2>3. ToSet(ids) \subseteq ToSet(now) /\ ClosedUnder(n, ToSet(now), Opened(w, i) \cup Impending(w, i))
      BY <2>1, <2>2
    <2>4. ClosedUnder(n, ToSet(now), LooksAt(w, i))
      BY <1>1, <1>2, <2>3, ClosedHere
    <2> QED BY <1>2, <2>3, <2>4 DEF now
  <1>4. CASE ~(HasEndLine(n) /\ w[i + 1] = NewlineByte)
    <2>1. now = ids
      BY <1>4
    <2>2. ASSUME NEW id \in ToSet(ids) PROVE ~Guarded(n, id, Impending(w, i))
      <3>1. CASE w[i + 1] # NewlineByte
        <4>1. Impending(w, i) = {}
          BY <1>1, <3>1, LooksHeld
        <4> QED BY <4>1 DEF Guarded
      <3>2. CASE w[i + 1] = NewlineByte /\ ~HasEndLine(n)
        <4>1. Impending(w, i) = {"EndLine"}
          BY <1>1, <3>2, LooksHeld
        <4>2. id \in NfaIDs(n)
          BY SeqWithin
        <4>3. id + 1 \in DOMAIN n.states
          BY <4>2 DEF Validate, NfaIDs
        <4> QED BY <3>2, <4>1, <4>3 DEF Guarded, StateAt, HasEndLine, HasLook
      <3> QED BY <1>4, <3>1, <3>2
    <2>3. ASSUME NEW id \in ToSet(ids)
          PROVE  Guarded(n, id, Opened(w, i)) <=> Guarded(n, id, Opened(w, i) \cup Impending(w, i))
      BY <2>2 DEF Guarded
    <2>4. ClosedUnder(n, ToSet(ids), Opened(w, i) \cup Impending(w, i))
      BY <2>3, ClosedAlike
    <2>5. ToSet(ids) \in SUBSET NfaIDs(n)
      BY SeqWithin
    <2>6. ClosedUnder(n, ToSet(ids), LooksAt(w, i))
      BY <1>1, <2>4, <2>5, ClosedHere
    <2> HIDE DEF now
    <2> QED BY <1>2, <2>1, <2>6 DEF now
  <1> QED BY <1>3, <1>4

(* A move that drops no thread has every state the byte leads to.          *)
LEMMA MoveHolds ==
  ASSUME NEW n, Validate(n), Patched(n), ~HasWordBoundary(n), NEW w \in Seq(Byte),
         NEW i \in 0..(Len(w) - 1), NEW ids \in Seq(NfaIDs(n)), NEW fromWord
  PROVE  LET next == ToSet(Move(n, ids, w[i + 1], fromWord, FALSE))
         IN  /\ next \in SUBSET NfaIDs(n)
             /\ \A id \in ToSet(ids) : ToSet(ByteTargets(n, id, w[i + 1])) \subseteq next
             /\ ClosedUnder(n, next, Opened(w, i + 1))
  <1> DEFINE b == w[i + 1]
             targets == [k \in DOMAIN ids |-> ByteTargets(n, ids[k], b)]
             after == IF b = NewlineByte THEN {"StartLine"} ELSE {}
             next == ToSet(Move(n, ids, b, fromWord, FALSE))
  <1>1. Move(n, ids, b, fromWord, FALSE) = EpsilonClosure(n, FlattenSeq(targets), after)
    BY DEF Move
  <1>2. targets \in Seq(Seq(NfaIDs(n))) /\ DOMAIN targets = DOMAIN ids
    <2>1. Len(ids) \in Nat /\ DOMAIN ids = 1..Len(ids) /\ \A k \in 1..Len(ids) : ids[k] \in NfaIDs(n)
      OBVIOUS
    <2>2. \A k \in 1..Len(ids) : ByteTargets(n, ids[k], b) \in Seq(NfaIDs(n))
      BY <2>1, ByteTargetsType
    <2> QED BY <2>1, <2>2
  <1>3. \A k \in DOMAIN ids : targets[k] = ByteTargets(n, ids[k], b)
    OBVIOUS
  <1> HIDE DEF targets
  <1>4. FlattenSeq(targets) \in Seq(NfaIDs(n))
    BY <1>2, FlattenType
  <1>5. after = Opened(w, i + 1)
    <2>1. i + 1 \in 0..Len(w) /\ i + 1 # 0
      OBVIOUS
    <2>2. Opened(w, i + 1) = LookSetFromStartKind(StartKindOf(b))
      BY <2>1, LooksHeld
    <2> QED BY <2>2, LineStarts
  <1> HIDE DEF after
  <1>6. ASSUME NEW id \in ToSet(ids) PROVE ToSet(ByteTargets(n, id, b)) \subseteq next
    <2>1. PICK k \in DOMAIN ids : ids[k] = id
      BY DEF ToSet
    <2>2. ToSet(targets[k]) \subseteq ToSet(FlattenSeq(targets))
      BY <1>2, <2>1, FlattenHolds
    <2>3. ToSet(FlattenSeq(targets)) \subseteq ToSet(EpsilonClosure(n, FlattenSeq(targets), after))
      BY <1>4, ClosureContains
    <2> QED BY <1>1, <1>3, <2>1, <2>2, <2>3
  <1>7. ClosedUnder(n, next, after) /\ next \in SUBSET NfaIDs(n)
    <2>1. ClosedUnder(n, ToSet(EpsilonClosure(n, FlattenSeq(targets), after)), after)
      BY <1>4, ClosureContains
    <2>2. EpsilonClosure(n, FlattenSeq(targets), after) \in Seq(NfaIDs(n))
      BY <1>4, EpsilonClosureType DEF Lists
    <2> QED BY <1>1, <2>1, <2>2, SeqWithin
  <1> QED BY <1>5, <1>6, <1>7

-----------------------------------------------------------------------------
(* A list of states that leaves no path out.                               *)

(* A set of states that covers a position: whoever closes it once what     *)
(* follows is known has every state that a path is in there.               *)
Covers(n, w, from, T, i) ==
  /\ ClosedUnder(n, T, Opened(w, i))
  /\ \A X \in SUBSET NfaIDs(n) :
       T \subseteq X /\ ClosedUnder(n, X, LooksAt(w, i)) => Here(n, Reached(n, w, from), i) \subseteq X

(* Edges go to the same position or to the next.                           *)
LEMMA EdgesGo ==
  ASSUME NEW n, NEW w, NEW pair, NEW e \in Edges(n, w, pair)
  PROVE  \/ e[2] = pair[2] /\ e[1] \in ToSet(EpsilonSuccessors(n, pair[1], LooksAt(w, pair[2])))
         \/ /\ e[2] = pair[2] + 1 /\ pair[2] < Len(w)
            /\ e[1] \in ToSet(ByteTargets(n, pair[1], w[pair[2] + 1]))
  BY DEF Edges

(* No path of a search is behind where it began, and its first states      *)
(* cover that position.                                                    *)
LEMMA CoversStart ==
  ASSUME NEW n, Validate(n), Patched(n), NEW w \in Seq(Byte), NEW first \in NfaIDs(n),
         NEW at \in 0..Len(w), NEW T, first \in T, ClosedUnder(n, T, Opened(w, at))
  PROVE  /\ Covers(n, w, <<first, at>>, T, at)
         /\ \A pair \in Reached(n, w, <<first, at>>) : pair[2] >= at
  <1> DEFINE from == <<first, at>>
             R == Reached(n, w, from)
  <1>1. from \in Pairs(n, w)
    BY DEF Pairs
  <1>2. ASSUME NEW X \in SUBSET NfaIDs(n), first \in X, ClosedUnder(n, X, LooksAt(w, at))
        PROVE  Here(n, R, at) \subseteq X /\ \A pair \in R : pair[2] >= at
    <2> DEFINE S == {pair \in Pairs(n, w) : pair[2] > at \/ (pair[2] = at /\ pair[1] \in X)}
    <2>1. from \in S
      BY <1>1, <1>2
    <2>2. ASSUME NEW pair \in S, NEW e \in Edges(n, w, pair) PROVE e \in S
      <3>1. e \in Pairs(n, w) /\ pair \in Pairs(n, w)
        BY EdgesType
      <3>2. e[2] \in Nat /\ pair[2] \in Nat /\ at \in Nat
        BY <3>1 DEF Pairs
      <3>3. CASE e[2] = pair[2] /\ e[1] \in ToSet(EpsilonSuccessors(n, pair[1], LooksAt(w, pair[2])))
        BY <1>2, <2>2, <3>1, <3>3 DEF ClosedUnder
      <3>4. CASE e[2] = pair[2] + 1
        BY <2>2, <3>1, <3>2, <3>4
      <3> QED BY <3>3, <3>4, EdgesGo
    <2> HIDE DEF from
    <2>3. R \subseteq S
      <3> HIDE DEF S
      <3> QED BY <1>1, <2>1, <2>2, ReachedWithin
    <2>4. ASSUME NEW id \in Here(n, R, at) PROVE id \in X
      <3>1. <<id, at>> \in S
        BY <2>3 DEF Here
      <3> QED BY <3>1
    <2>5. ASSUME NEW pair \in R PROVE pair[2] >= at
      <3>1. pair \in S
        BY <2>3
      <3>2. pair[2] \in Nat
        BY <3>1 DEF Pairs
      <3> QED BY <3>1, <3>2
    <2> QED BY <2>4, <2>5
  <1>3. ClosedUnder(n, NfaIDs(n), LooksAt(w, at))
    BY EpsilonSuccessorsType, SeqWithin DEF ClosedUnder
  <1>4. \A pair \in R : pair[2] >= at
    BY <1>2, <1>3
  <1>5. Covers(n, w, from, T, at)
    <2>1. \A X \in SUBSET NfaIDs(n) :
            T \subseteq X /\ ClosedUnder(n, X, LooksAt(w, at)) => Here(n, R, at) \subseteq X
      BY <1>2
    <2> QED BY <2>1 DEF Covers
  <1> QED BY <1>4, <1>5

(* A byte further.                                                         *)
LEMMA CoversStep ==
  ASSUME NEW n, Validate(n), Patched(n), NEW w \in Seq(Byte), NEW from \in Pairs(n, w),
         NEW i \in 0..(Len(w) - 1), from[2] <= i, NEW T, Covers(n, w, from, T, i),
         NEW C \in SUBSET NfaIDs(n), T \subseteq C, ClosedUnder(n, C, LooksAt(w, i)),
         NEW U, \A id \in C : ToSet(ByteTargets(n, id, w[i + 1])) \subseteq U,
         ClosedUnder(n, U, Opened(w, i + 1))
  PROVE  Here(n, Reached(n, w, from), i) \subseteq C /\ Covers(n, w, from, U, i + 1)
  <1> DEFINE R == Reached(n, w, from)
  <1>1. Here(n, R, i) \subseteq C
    BY DEF Covers
  <1>2. from \in R /\ R \subseteq Pairs(n, w) /\ Closed(n, w, R)
    BY ReachedClosed
  <1>3. ASSUME NEW X \in SUBSET NfaIDs(n), U \subseteq X, ClosedUnder(n, X, LooksAt(w, i + 1))
        PROVE  Here(n, R, i + 1) \subseteq X
    <2> DEFINE S == {pair \in R : pair[2] <= i \/ pair[2] > i + 1 \/ (pair[2] = i + 1 /\ pair[1] \in X)}
    <2>1. from \in S
      BY <1>2
    <2>2. ASSUME NEW pair \in S, NEW e \in Edges(n, w, pair) PROVE e \in S
      <3>1. e \in R /\ pair \in R /\ e \in Pairs(n, w) /\ pair \in Pairs(n, w)
        BY <1>2 DEF Closed
      <3>2. e[2] \in Nat /\ pair[2] \in Nat /\ i \in Nat /\ pair[1] \in NfaIDs(n)
            /\ pair = <<pair[1], pair[2]>>
        BY <3>1 DEF Pairs
      <3>3. CASE e[2] = pair[2] /\ e[1] \in ToSet(EpsilonSuccessors(n, pair[1], LooksAt(w, pair[2])))
        <4>1. pair[2] = i + 1 => e[1] \in X
          <5>1. pair[2] = i + 1 => pair[1] \in X
            BY <2>2, <3>2
          <5> QED BY <1>3, <3>3, <5>1 DEF ClosedUnder
        <4> QED BY <2>2, <3>1, <3>2, <3>3, <4>1
      <3>4. CASE e[2] = pair[2] + 1 /\ e[1] \in ToSet(ByteTargets(n, pair[1], w[pair[2] + 1]))
        <4>1. CASE pair[2] = i
          <5>1. pair[1] \in Here(n, R, i)
            BY <3>1, <3>2, <4>1 DEF Here
          <5>2. e[1] \in X /\ e[2] = i + 1
            BY <1>1, <1>3, <3>4, <4>1, <5>1
          <5> QED BY <3>1, <5>2
        <4>2. CASE pair[2] # i
          <5>1. e[2] <= i \/ e[2] > i + 1
            BY <2>2, <3>2, <3>4, <4>2
          <5> QED BY <3>1, <5>1
        <4> QED BY <4>1, <4>2
      <3> QED BY <3>3, <3>4, EdgesGo
    <2>3. R \subseteq S
      <3> HIDE DEF S
      <3> QED BY <2>1, <2>2, ReachedWithin
    <2>4. ASSUME NEW id \in Here(n, R, i + 1) PROVE id \in X
      <3>1. <<id, i + 1>> \in S
        BY <2>3 DEF Here
      <3>2. ~(i + 1 <= i) /\ ~(i + 1 > i + 1)
        OBVIOUS
      <3> QED BY <3>1, <3>2
    <2> QED BY <2>4
  <1> QED BY <1>1, <1>3 DEF Covers

(* When no state covers a position, no path comes there or further.        *)
LEMMA CoversNothing ==
  ASSUME NEW n, Validate(n), Patched(n), NEW w \in Seq(Byte), NEW from \in Pairs(n, w),
         NEW i \in 1..Len(w), from[2] < i, Covers(n, w, from, {}, i)
  PROVE  \A pair \in Reached(n, w, from) : pair[2] < i
  <1> DEFINE R == Reached(n, w, from)
             S == {pair \in R : pair[2] < i}
  <1>1. from \in R /\ R \subseteq Pairs(n, w) /\ Closed(n, w, R)
    BY ReachedClosed
  <1>2. Here(n, R, i) = {}
    <2>1. ClosedUnder(n, {}, LooksAt(w, i)) /\ {} \in SUBSET NfaIDs(n)
      BY DEF ClosedUnder
    <2> QED BY <2>1 DEF Covers
  <1>3. from \in S
    BY <1>1
  <1>4. ASSUME NEW pair \in S, NEW e \in Edges(n, w, pair) PROVE e \in S
    <2>1. e \in R /\ pair \in R /\ e \in Pairs(n, w) /\ pair \in Pairs(n, w)
      BY <1>1 DEF Closed
    <2>2. e[2] \in Nat /\ pair[2] \in Nat /\ i \in Nat /\ e[1] \in NfaIDs(n) /\ e = <<e[1], e[2]>>
      BY <2>1 DEF Pairs
    <2>3. e[2] # i
      BY <1>2, <2>1, <2>2 DEF Here
    <2>4. e[2] = pair[2] \/ e[2] = pair[2] + 1
      BY EdgesGo
    <2>5. pair[2] < i
      BY <1>4
    <2> QED BY <2>1, <2>2, <2>3, <2>4, <2>5
  <1>5. R \subseteq S
    <2> HIDE DEF S
    <2> QED BY <1>3, <1>4, ReachedWithin
  <1> QED BY <1>5

-----------------------------------------------------------------------------
(* A step of the construction that has seen no match covers the next       *)
(* position, and no path ends at the one it leaves.                        *)
LEMMA SuccessorCovers ==
  ASSUME NEW n, Validate(n), Patched(n), Apart(n), ~HasWordBoundary(n), NEW w \in Seq(Byte),
         NEW from \in Pairs(n, w), NEW i \in 0..(Len(w) - 1), from[2] <= i,
         NEW ids \in Seq(NfaIDs(n)), Covers(n, w, from, ToSet(ids), i), NEW fromWord, NEW breaks,
         ~Successor(n, ids, fromWord, w[i + 1], breaks).isMatch
  PROVE  /\ Covers(n, w, from, ToSet(Successor(n, ids, fromWord, w[i + 1], breaks).nfaStates), i + 1)
         /\ \A id \in Here(n, Reached(n, w, from), i) : ~IsMatchID(n, id)
  <1> DEFINE b == w[i + 1]
             now == IF HasEndLine(n) /\ b = NewlineByte
                    THEN EpsilonClosure(n, ids, {"EndLine"}) ELSE ids
             isMatch == ContainsMatchState(n, now)
             next == Successor(n, ids, fromWord, b, breaks)
  <1>1. /\ now \in Seq(NfaIDs(n)) /\ ToSet(now) \in SUBSET NfaIDs(n)
        /\ ToSet(ids) \subseteq ToSet(now) /\ ClosedUnder(n, ToSet(now), LooksAt(w, i))
    BY LookedAhead DEF Covers
  <1> HIDE DEF now
  <1>2. next = [nfaStates |-> Move(n, now, b, fromWord, isMatch /\ breaks),
                isFromWord |-> IsWordByte(b), isMatch |-> isMatch]
    BY DEF Successor, now
  <1>3. ~isMatch /\ (isMatch /\ breaks) = FALSE
    BY <1>2
  <1>4. next.nfaStates = Move(n, now, b, fromWord, FALSE)
    <2> DEFINE dropping == isMatch /\ breaks
    <2>1. next = [nfaStates |-> Move(n, now, b, fromWord, dropping),
                  isFromWord |-> IsWordByte(b), isMatch |-> isMatch]
      BY <1>2
    <2>2. dropping = FALSE
      BY <1>3
    <2> HIDE DEF next, dropping
    <2>3. next.nfaStates = Move(n, now, b, fromWord, dropping)
      BY <2>1
    <2> QED BY <2>2, <2>3
  <1> DEFINE U == ToSet(Move(n, now, b, fromWord, FALSE))
  <1>5. /\ \A id \in ToSet(now) : ToSet(ByteTargets(n, id, w[i + 1])) \subseteq U
        /\ ClosedUnder(n, U, Opened(w, i + 1))
    BY <1>1, MoveHolds
  <1> HIDE DEF next, U
  <1>6. Here(n, Reached(n, w, from), i) \subseteq ToSet(now) /\ Covers(n, w, from, U, i + 1)
    BY <1>1, <1>5, CoversStep
  <1>7. ASSUME NEW id \in ToSet(now) PROVE ~IsMatchID(n, id)
    BY <1>3 DEF ContainsMatchState, ToSet
  <1>8. Covers(n, w, from, ToSet(next.nfaStates), i + 1)
    BY <1>4, <1>6 DEF U
  <1> QED BY <1>6, <1>7, <1>8 DEF next

(* The end of the input is looked at as a whole.                           *)
LEMMA EndOfInputCovers ==
  ASSUME NEW n, Validate(n), Apart(n), ~HasWordBoundary(n), NEW w \in Seq(Byte),
         NEW from, NEW ids \in Seq(NfaIDs(n)), Covers(n, w, from, ToSet(ids), Len(w)),
         NEW fromWord, ~CheckEOIMatch(n, ids, fromWord)
  PROVE  \A id \in Here(n, Reached(n, w, from), Len(w)) : ~IsMatchID(n, id)
  <1> DEFINE closed == EpsilonClosure(n, ids, LookSetForEOI)
             C == ToSet(closed)
  <1>1. Len(w) \in 0..Len(w) /\ Opened(w, Len(w)) \in SUBSET StartLooks
        /\ LookSetForEOI \in SUBSET LookSetForEOI
    BY DEF Opened
  <1>2. ToSet(ids) \subseteq C /\ ClosedUnder(n, C, Opened(w, Len(w)) \cup LookSetForEOI)
    BY <1>1, ClosedTwice DEF Covers
  <1>3. closed \in Seq(NfaIDs(n))
    BY EpsilonClosureType DEF Lists
  <1>4. ~ContainsMatchState(n, closed)
    BY ResolvesNothing DEF CheckEOIMatch
  <1> HIDE DEF closed
  <1>5. C \in SUBSET NfaIDs(n)
    BY <1>3, SeqWithin
  <1>6. ClosedUnder(n, C, LooksAt(w, Len(w)))
    <2>1. Impending(w, Len(w)) = LookSetForEOI
      BY <1>1, LooksHeld
    <2> HIDE DEF C
    <2> QED BY <1>1, <1>2, <1>5, <2>1, ClosedHere
  <1>7. Here(n, Reached(n, w, from), Len(w)) \subseteq C
    <2> HIDE DEF C
    <2> QED BY <1>2, <1>5, <1>6 DEF Covers
  <1>8. ASSUME NEW id \in C PROVE ~IsMatchID(n, id)
    BY <1>4 DEF ContainsMatchState, ToSet
  <1> QED BY <1>7, <1>8
===============================================================================
