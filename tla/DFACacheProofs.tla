---------------------------- MODULE DFACacheProofs ----------------------------
(***************************************************************************)
(* Every operation on a DFACache keeps its parts in agreement: the lemmas  *)
(* the theorems about the forward and the backward searches rest on.       *)
(***************************************************************************)
EXTENDS DFACache, DeterminizeProofs

-----------------------------------------------------------------------------
(* Sums.                                                                   *)

IsSum(w, n, total) ==
  \E sum \in [0..n -> Nat] : /\ sum[0] = 0 /\ sum[n] = total
                             /\ \A k \in 1..n : sum[k] = sum[k - 1] + w[k]

(* Every list of weights has a sum.                                        *)
LEMMA SumExists ==
  ASSUME NEW n \in Nat, NEW w, \A k \in 1..n : w[k] \in Nat
  PROVE  \E total \in Nat : IsSum(w, n, total)
  <1> DEFINE step == [k \in 0..n |-> [t \in Nat |-> t + (IF k = 0 THEN 0 ELSE w[k])]]
  <1>1. step \in [0..n -> [Nat -> Nat]]
    <2> SUFFICES ASSUME NEW k \in 0..n, NEW t \in Nat
                 PROVE  t + (IF k = 0 THEN 0 ELSE w[k]) \in Nat
      OBVIOUS
    <2>1. k # 0 => k \in 1..n
      OBVIOUS
    <2> QED BY <2>1
  <1>2. Defines(0, n, Nat, 0, step)
    <2>1. 0 \in Nat /\ 0 <= n
      OBVIOUS
    <2> HIDE DEF step
    <2> QED BY <1>1, <2>1, IntervalRecursion
  <1>3. PICK sum \in [0..n -> Nat] :
          \A k \in 0..n : sum[k] = IF k = 0 THEN 0 ELSE step[k][sum[k - 1]]
    BY <1>2 DEF Defines
  <1>4. ASSUME NEW k \in 1..n PROVE sum[k] = sum[k - 1] + w[k]
    <2>1. k \in 0..n /\ k # 0 /\ k - 1 \in 0..n
      OBVIOUS
    <2>2. sum[k - 1] \in Nat
      BY <2>1
    <2>3. step[k][sum[k - 1]] = sum[k - 1] + w[k]
      BY <2>1, <2>2
    <2> HIDE DEF step
    <2> QED BY <1>3, <2>1, <2>3
  <1>5. sum[0] = 0 /\ sum[n] \in Nat
    <2>1. 0 \in 0..n /\ n \in 0..n
      OBVIOUS
    <2> HIDE DEF step
    <2> QED BY <1>3, <2>1
  <1>6. IsSum(w, n, sum[n])
    BY <1>4, <1>5 DEF IsSum
  <1> QED BY <1>5, <1>6

(* Larger terms have a larger sum ...                                      *)
LEMMA SumMonotonic ==
  ASSUME NEW n \in Nat, NEW v, NEW w, NEW a, NEW b, IsSum(v, n, a), IsSum(w, n, b),
         \A k \in 1..n : v[k] \in Nat /\ w[k] \in Nat /\ v[k] <= w[k]
  PROVE  a <= b
  <1>1. PICK f \in [0..n -> Nat] : f[0] = 0 /\ f[n] = a /\ \A k \in 1..n : f[k] = f[k - 1] + v[k]
    BY DEF IsSum
  <1>2. PICK g \in [0..n -> Nat] : g[0] = 0 /\ g[n] = b /\ \A k \in 1..n : g[k] = g[k - 1] + w[k]
    BY DEF IsSum
  <1> DEFINE A == {k \in 0..n : f[k] <= g[k]}
  <1>3. 0 \in A
    BY <1>1, <1>2
  <1>4. ASSUME NEW k \in 0..(n - 1), k \in A PROVE k + 1 \in A
    <2>1. k + 1 \in 1..n /\ (k + 1) - 1 = k /\ k + 1 \in 0..n
      OBVIOUS
    <2>2. f[k + 1] = f[k] + v[k + 1] /\ g[k + 1] = g[k] + w[k + 1]
      BY <1>1, <1>2, <2>1
    <2>3. f[k] \in Nat /\ g[k] \in Nat /\ f[k] <= g[k]
      BY <1>4
    <2>4. v[k + 1] \in Nat /\ w[k + 1] \in Nat /\ v[k + 1] <= w[k + 1]
      BY <2>1
    <2>5. f[k + 1] <= g[k + 1]
      BY <2>2, <2>3, <2>4
    <2> QED BY <2>1, <2>5
  <1>5. 0..n \subseteq A
    <2> HIDE DEF A
    <2> QED BY <1>3, <1>4, IntervalInduction
  <1>6. n \in A
    BY <1>5
  <1> QED BY <1>1, <1>2, <1>6

(* ... by at most three for each term that is larger by at most three.     *)
LEMMA SumSlack ==
  ASSUME NEW n \in Nat, NEW v, NEW w, NEW a, NEW b, IsSum(v, n, a), IsSum(w, n, b),
         \A k \in 1..n : v[k] \in Nat /\ w[k] \in Nat /\ w[k] <= v[k] + 3
  PROVE  b <= a + 3 * n
  <1>1. PICK f \in [0..n -> Nat] : f[0] = 0 /\ f[n] = a /\ \A k \in 1..n : f[k] = f[k - 1] + v[k]
    BY DEF IsSum
  <1>2. PICK g \in [0..n -> Nat] : g[0] = 0 /\ g[n] = b /\ \A k \in 1..n : g[k] = g[k - 1] + w[k]
    BY DEF IsSum
  <1> DEFINE A == {k \in 0..n : g[k] <= f[k] + 3 * k}
  <1>3. 0 \in A
    BY <1>1, <1>2
  <1>4. ASSUME NEW k \in 0..(n - 1), k \in A PROVE k + 1 \in A
    <2>1. k + 1 \in 1..n /\ (k + 1) - 1 = k /\ k + 1 \in 0..n
      OBVIOUS
    <2>2. f[k + 1] = f[k] + v[k + 1] /\ g[k + 1] = g[k] + w[k + 1]
      BY <1>1, <1>2, <2>1
    <2>3. f[k] \in Nat /\ g[k] \in Nat /\ g[k] <= f[k] + 3 * k
      BY <1>4
    <2>4. v[k + 1] \in Nat /\ w[k + 1] \in Nat /\ w[k + 1] <= v[k + 1] + 3
      BY <2>1
    <2>5. g[k + 1] <= f[k + 1] + 3 * (k + 1)
      <3>1. \A x, y, p, q, t \in Nat : y <= x + t /\ q <= p + 3 => y + q <= x + p + (t + 3)
        OBVIOUS
      <3>2. 3 * k \in Nat /\ 3 * (k + 1) = 3 * k + 3
        OBVIOUS
      <3>3. g[k] + w[k + 1] <= f[k] + v[k + 1] + (3 * k + 3)
        BY <2>3, <2>4, <3>1, <3>2
      <3> QED BY <2>2, <3>2, <3>3
    <2> QED BY <2>1, <2>5
  <1>5. 0..n \subseteq A
    <2> HIDE DEF A
    <2> QED BY <1>3, <1>4, IntervalInduction
  <1>6. n \in A
    BY <1>5
  <1> QED BY <1>1, <1>2, <1>6

(* The sum of a list with one weight more.                                 *)
LEMMA SumOfOneMore ==
  ASSUME NEW n \in Nat, NEW v, NEW w, NEW a, IsSum(v, n, a),
         \A k \in 1..n : v[k] = w[k], w[n + 1] \in Nat
  PROVE  IsSum(w, n + 1, a + w[n + 1])
  <1>1. PICK f \in [0..n -> Nat] : f[0] = 0 /\ f[n] = a /\ \A k \in 1..n : f[k] = f[k - 1] + v[k]
    BY DEF IsSum
  <1> DEFINE g == [k \in 0..(n + 1) |-> IF k = n + 1 THEN a + w[n + 1] ELSE f[k]]
  <1>2. a \in Nat
    BY <1>1
  <1>3. \A k \in 0..n : k \in 0..(n + 1) /\ g[k] = f[k]
    OBVIOUS
  <1>4. n + 1 \in 0..(n + 1) /\ g[n + 1] = a + w[n + 1]
    OBVIOUS
  <1>5. g \in [0..(n + 1) -> Nat]
    <2> SUFFICES ASSUME NEW k \in 0..(n + 1)
                 PROVE  (IF k = n + 1 THEN a + w[n + 1] ELSE f[k]) \in Nat
      OBVIOUS
    <2>1. k # n + 1 => k \in 0..n
      OBVIOUS
    <2> QED BY <1>2, <2>1
  <1> HIDE DEF g
  <1>6. ASSUME NEW k \in 1..(n + 1) PROVE g[k] = g[k - 1] + w[k]
    <2>1. CASE k = n + 1
      <3>1. k - 1 = n /\ n \in 0..n
        BY <2>1
      <3> QED BY <1>1, <1>3, <1>4, <2>1, <3>1
    <2>2. CASE k # n + 1
      <3>1. k \in 1..n /\ k \in 0..n /\ k - 1 \in 0..n
        BY <2>2
      <3> QED BY <1>1, <1>3, <3>1
    <2> QED BY <2>1, <2>2
  <1>7. g[0] = 0
    BY <1>1, <1>3
  <1> QED BY <1>4, <1>5, <1>6, <1>7 DEF IsSum

(* The first of some positions.                                            *)
LEMMA FirstPosition ==
  ASSUME NEW S \in SUBSET Nat, S # {}
  PROVE  Minimum(S) \in S /\ \A j \in S : Minimum(S) <= j
  <1>1. \E i \in S : \A j \in S : i <= j
    BY LeastElement
  <1> QED BY <1>1 DEF Minimum

-----------------------------------------------------------------------------
(* States.                                                                 *)

IDs(rows) == [row : 0..rows, tag : SUBSET {"match", "start", "invalid", "dead"}]
AnyID == [row : Nat, tag : SUBSET {"match", "start", "invalid", "dead"}]
FewBytes == {bytes \in SUBSET Byte : Cardinality(bytes) <= 3}
StateRecord(n) ==
  [id : AnyID, nfaStates : Lists(n), isMatch : BOOLEAN, isFromWord : BOOLEAN,
   matchAtWordBoundary : BOOLEAN, matchAtNonWordBoundary : BOOLEAN,
   accelBytes : FewBytes, accelChecked : BOOLEAN]

(* The flags of a state speak the truth about its NFA states.              *)
FlagsHold(n, s) ==
  /\ s.matchAtWordBoundary =>
       HasWordBoundary(n) /\ ContainsMatchState(n, ResolveWordBoundaries(n, s.nfaStates, TRUE))
  /\ s.matchAtNonWordBoundary =>
       HasWordBoundary(n) /\ ContainsMatchState(n, ResolveWordBoundaries(n, s.nfaStates, FALSE))
State(n) == {s \in StateRecord(n) : FlagsHold(n, s)}

(* The special IDs are IDs, the state nobody has is a state.               *)
LEMMA SpecialTypes ==
  ASSUME NEW n
  PROVE  /\ \A rows \in Nat : InvalidState \in IDs(rows) /\ DeadState \in IDs(rows)
         /\ NoState \in State(n) /\ NoState.id = InvalidState
         /\ NoState.nfaStates = <<>> /\ NoState.isMatch = FALSE
         /\ {} \in FewBytes
  <1>1. \A rows \in Nat : InvalidState \in IDs(rows) /\ DeadState \in IDs(rows)
    BY DEF InvalidState, DeadState, ID, IDs
  <1>2. {} \in FewBytes
    BY FS_EmptySet DEF FewBytes
  <1>3. <<>> \in Lists(n)
    BY DEF Lists, Distinct
  <1>4. NoState = [id |-> InvalidState, nfaStates |-> <<>>, isMatch |-> FALSE,
                   isFromWord |-> FALSE, matchAtWordBoundary |-> FALSE,
                   matchAtNonWordBoundary |-> FALSE, accelBytes |-> {}, accelChecked |-> TRUE]
    <2> DEFINE nobody == [nfaStates |-> <<>>, isMatch |-> FALSE, isFromWord |-> FALSE]
               unchecked == NewState(InvalidState, nobody)
    <2>1. unchecked = [id |-> InvalidState, nfaStates |-> <<>>, isMatch |-> FALSE,
                       isFromWord |-> FALSE, matchAtWordBoundary |-> FALSE,
                       matchAtNonWordBoundary |-> FALSE, accelBytes |-> {}, accelChecked |-> FALSE]
      BY DEF NewState
    <2>2. NoState = [unchecked EXCEPT !.accelChecked = TRUE]
      BY DEF NoState
    <2> HIDE DEF unchecked
    <2> QED BY <2>1, <2>2
  <1>5. InvalidState \in AnyID
    BY DEF InvalidState, ID, AnyID
  <1>6. NoState \in State(n)
    BY <1>2, <1>3, <1>4, <1>5 DEF State, StateRecord, FlagsHold
  <1> QED BY <1>1, <1>2, <1>4, <1>6

(* A state is a record of its fields.                                      *)
LEMMA StateFields ==
  ASSUME NEW n, NEW s \in State(n)
  PROVE  /\ s \in StateRecord(n) /\ FlagsHold(n, s)
         /\ s.id \in AnyID /\ s.nfaStates \in Lists(n) /\ s.isMatch \in BOOLEAN
         /\ s.isFromWord \in BOOLEAN /\ s.accelBytes \in FewBytes
  BY DEF State, StateRecord

(* A state that gets another ID or other exit bytes is a state.            *)
LEMMA StateAlike ==
  ASSUME NEW n, NEW s \in State(n), NEW t \in StateRecord(n), t.nfaStates = s.nfaStates,
         t.matchAtWordBoundary = s.matchAtWordBoundary,
         t.matchAtNonWordBoundary = s.matchAtNonWordBoundary
  PROVE  t \in State(n)
  BY DEF State, FlagsHold

(* A state with another ID is still a state with the same sets and flags.  *)
LEMMA Renumbered ==
  ASSUME NEW n, NEW s \in State(n), NEW id \in AnyID, NEW t, t = [s EXCEPT !.id = id]
  PROVE  /\ t \in State(n) /\ t.id = id /\ t.nfaStates = s.nfaStates /\ t.isMatch = s.isMatch
         /\ t.isFromWord = s.isFromWord /\ t.accelBytes = s.accelBytes
  <1>1. s \in StateRecord(n)
    BY StateFields
  <1>2. /\ t \in StateRecord(n) /\ t.id = id /\ t.nfaStates = s.nfaStates /\ t.isMatch = s.isMatch
        /\ t.isFromWord = s.isFromWord /\ t.accelBytes = s.accelBytes
        /\ t.matchAtWordBoundary = s.matchAtWordBoundary
        /\ t.matchAtNonWordBoundary = s.matchAtNonWordBoundary
    BY <1>1 DEF StateRecord
  <1> QED BY <1>2, StateAlike

(* At most three bytes are a finite set.                                   *)
LEMMA FewBytesFinite ==
  ASSUME NEW bytes \in FewBytes
  PROVE  IsFiniteSet(bytes) /\ Cardinality(bytes) \in 0..3
  <1>1. IsFiniteSet(Byte)
    <2>1. 0 \in Int /\ 255 \in Int
      OBVIOUS
    <2> QED BY <2>1, FS_Interval DEF Byte
  <1>2. IsFiniteSet(bytes)
    BY <1>1, FS_Subset DEF FewBytes
  <1>3. Cardinality(bytes) \in Nat
    BY <1>2, FS_CardinalityType
  <1> QED BY <1>2, <1>3 DEF FewBytes

(* What a list of states holds is the sum of what each of them does.       *)
Held(list) == [k \in DOMAIN list |-> 4 * Len(list[k].nfaStates) + Cardinality(list[k].accelBytes)]

(* The fold by which the code adds up the lists is that sum.               *)
LEMMA HeldBytesIsSum ==
  ASSUME NEW n, NEW list \in Seq(State(n))
  PROVE  /\ HeldBytes(list) \in Nat /\ IsSum(Held(list), Len(list), HeldBytes(list))
         /\ \A k \in 1..Len(list) : Held(list)[k] \in Nat
  <1> DEFINE m == Len(list)
             held[k \in 0..m] ==
               IF k = 0 THEN 0
               ELSE held[k - 1] + 4 * Len(list[k].nfaStates) + Cardinality(list[k].accelBytes)
  <1>1. m \in Nat /\ DOMAIN list = 1..m
    OBVIOUS
  <1>2. ASSUME NEW k \in 1..m
        PROVE  /\ Len(list[k].nfaStates) \in Nat /\ Cardinality(list[k].accelBytes) \in Nat
               /\ Held(list)[k] = 4 * Len(list[k].nfaStates) + Cardinality(list[k].accelBytes)
               /\ Held(list)[k] \in Nat
    <2>1. list[k] \in State(n)
      BY <1>1
    <2>2. list[k].nfaStates \in Seq(NfaIDs(n)) /\ list[k].accelBytes \in FewBytes
      BY <2>1 DEF State, StateRecord, Lists
    <2>3. Len(list[k].nfaStates) \in Nat /\ Cardinality(list[k].accelBytes) \in Nat
      BY <2>2, FewBytesFinite
    <2>4. Held(list)[k] = 4 * Len(list[k].nfaStates) + Cardinality(list[k].accelBytes)
      BY <1>1 DEF Held
    <2> QED BY <2>3, <2>4
  <1>3. PICK total \in Nat : IsSum(Held(list), m, total)
    <2> HIDE DEF m
    <2> QED BY <1>1, <1>2, SumExists
  <1>4. PICK sum \in [0..m -> Nat] : /\ sum[0] = 0 /\ sum[m] = total
                                    /\ \A k \in 1..m : sum[k] = sum[k - 1] + Held(list)[k]
    BY <1>3 DEF IsSum
  <1>5. sum = [k \in 0..m |-> IF k = 0 THEN 0
                ELSE sum[k - 1] + 4 * Len(list[k].nfaStates) + Cardinality(list[k].accelBytes)]
    <2> SUFFICES ASSUME NEW k \in 0..m, k # 0
                 PROVE  sum[k] = sum[k - 1] + 4 * Len(list[k].nfaStates)
                                            + Cardinality(list[k].accelBytes)
      BY <1>4
    <2>1. k \in 1..m /\ k - 1 \in 0..m
      BY <1>1
    <2>2. sum[k - 1] \in Nat
      BY <2>1
    <2> HIDE DEF m
    <2> QED BY <1>2, <1>4, <2>1, <2>2
  <1>6. held = [k \in 0..m |-> IF k = 0 THEN 0
                ELSE held[k - 1] + 4 * Len(list[k].nfaStates) + Cardinality(list[k].accelBytes)]
    BY <1>5
  <1> HIDE DEF held, m
  <1> DEFINE A == {k \in 0..m : held[k] = sum[k]}
  <1>7. 0 \in A
    BY <1>1, <1>4, <1>6
  <1>8. ASSUME NEW k \in 0..(m - 1), k \in A PROVE k + 1 \in A
    <2>1. k + 1 \in 0..m /\ k + 1 # 0 /\ (k + 1) - 1 = k
      BY <1>1
    <2>2. held[k + 1] = held[k] + 4 * Len(list[k + 1].nfaStates) + Cardinality(list[k + 1].accelBytes)
      BY <1>6, <2>1
    <2>3. sum[k + 1] = sum[k] + 4 * Len(list[k + 1].nfaStates) + Cardinality(list[k + 1].accelBytes)
      BY <1>5, <2>1
    <2> QED BY <1>8, <2>1, <2>2, <2>3
  <1>9. 0..m \subseteq A
    <2> HIDE DEF A
    <2> QED BY <1>1, <1>7, <1>8, IntervalInduction
  <1>10. held[m] = total
    BY <1>1, <1>4, <1>9
  <1>11. HeldBytes(list) = held[m]
    BY DEF HeldBytes, held, m
  <1> QED BY <1>2, <1>3, <1>10, <1>11 DEF m

-----------------------------------------------------------------------------
(* The inductive invariant of a cache, of the DFA of automaton n with      *)
(* configuration cfg.                                                      *)

Typed(n, cfg, c) ==
  /\ c = [states |-> c.states, stateList |-> c.stateList, flatTrans |-> c.flatTrans,
          startTable |-> c.startTable, nextRow |-> c.nextRow, clearCount |-> c.clearCount]
  /\ c.stateList \in Seq(State(n))
  /\ c.flatTrans \in Seq([Classes(n) -> IDs(Len(c.flatTrans))])
  /\ c.startTable \in [BOOLEAN -> [StartKind -> IDs(Len(c.flatTrans))]]
  /\ Len(c.stateList) <= Len(c.flatTrans)
  /\ c.clearCount \in 0..cfg.maxCacheClears
  /\ IsFiniteSet(DOMAIN c.states)

(* A state has the row it stands in, a match tag if a match was seen, and  *)
(* is not dead.  Only row 0 may be without a state.                        *)
Proper(s, row) ==
  /\ s.id.row = row /\ s.id.tag \in SUBSET {"match", "start"}
  /\ "match" \in s.id.tag <=> s.isMatch
  /\ s.nfaStates # <<>> \/ s.isMatch

Numbered(c) ==
  /\ c.nextRow = IF c.stateList = <<>> THEN 1 ELSE Len(c.stateList)
  /\ \A k \in 1..Len(c.stateList) :
       (k = 1 /\ c.stateList[k] = NoState) \/ Proper(c.stateList[k], k - 1)

(* A key finds its state.  A state is filed under its key, unless the      *)
(* table alone fills the cache: then a clear leaves one state unfiled, and *)
(* nothing is filed any more.                                              *)
Finds(c, key) ==
  LET k == c.states[key] + 1
  IN  k \in 1..Len(c.stateList) /\ c.stateList[k] # NoState /\ StateKey(c.stateList[k]) = key

FiledUnderKey(c, k) ==
  c.stateList[k] # NoState =>
    /\ StateKey(c.stateList[k]) \in DOMAIN c.states
    /\ c.states[StateKey(c.stateList[k])] = k - 1

TableFills(n, cfg, c) == Len(c.flatTrans) * AlphabetLen(n) * 4 >= cfg.capacity

Registered(n, cfg, c) ==
  /\ \A key \in DOMAIN c.states : c.states[key] \in Nat /\ Finds(c, key)
  /\ \/ \A k \in 1..Len(c.stateList) : FiledUnderKey(c, k)
     \/ Len(c.stateList) = 1 /\ DOMAIN c.states = {} /\ TableFills(n, cfg, c)

StartOf(n, kind, anchored) ==
  EpsilonClosure(n, <<IF anchored THEN n.startAnchored ELSE n.startUnanchored>>,
                 LookSetFromStartKind(kind))

(* The start table leads to the start state of its kind.                   *)
StartsAt(n, c, id, kind, anchored) ==
  LET k == id.row + 1
  IN  /\ k \in 1..Len(c.stateList)
      /\ c.stateList[k] # NoState /\ c.stateList[k].id = id /\ "start" \in id.tag
      /\ ToSet(c.stateList[k].nfaStates) = ToSet(StartOf(n, kind, anchored))
      /\ c.stateList[k].isFromWord = (kind = "Word") /\ ~c.stateList[k].isMatch

Entered(n, c) ==
  \A anchored \in BOOLEAN, kind \in StartKind :
    c.startTable[anchored][kind] # InvalidState =>
      StartsAt(n, c, c.startTable[anchored][kind], kind, anchored)

(* The capacity was looked at when the last state was filed: the table had *)
(* room then and has got two rows at most since, and what all the tables   *)
(* and the states take, without their exit bytes, is more by one state and *)
(* two rows at most.  A clear empties all but the table, whose bound is    *)
(* therefore kept apart.                                                   *)
Lengths(list) == [k \in DOMAIN list |-> 4 * Len(list[k].nfaStates)]
TableBytes(n, c) == Len(c.flatTrans) * AlphabetLen(n) * 4
EntryBytes(c) == Len(c.stateList) * 8 + Cardinality(DOMAIN c.states) * 48
OneMore(n) == 8 * AlphabetLen(n) + 16 + 48 + 4 * Len(n.states)

Bounded(n, cfg, c) ==
  /\ TableBytes(n, c) < cfg.capacity + 8 * AlphabetLen(n)
  /\ \E total \in Nat :
       /\ IsSum(Lengths(c.stateList), Len(c.stateList), total)
       /\ TableBytes(n, c) + EntryBytes(c) + total < cfg.capacity + OneMore(n)

Sound(n, cfg, c) ==
  /\ Typed(n, cfg, c) /\ Numbered(c) /\ Registered(n, cfg, c) /\ Entered(n, c)
  /\ Bounded(n, cfg, c)

-----------------------------------------------------------------------------
(* Writing to the tables.                                                  *)

Longer(m, n) == IF m < n THEN n ELSE m

(* The length of a list that is padded.                                    *)
LEMMA PaddedLength ==
  ASSUME NEW T, NEW s \in Seq(T), NEW n \in Nat, NEW filler \in T
  PROVE  Len(Padded(s, n, filler)) = Longer(Len(s), n)
  <1> DEFINE pad == [k \in 1..(n - Len(s)) |-> filler]
  <1>1. Len(s) \in Nat
    OBVIOUS
  <1>2. pad \in Seq(T) /\ Len(pad) = IF Len(s) < n THEN n - Len(s) ELSE 0
    <2> DEFINE m == IF Len(s) < n THEN n - Len(s) ELSE 0
    <2>1. m \in Nat /\ 1..(n - Len(s)) = 1..m
      BY <1>1
    <2> HIDE DEF m
    <2>2. pad = [k \in 1..m |-> filler]
      BY <2>1
    <2>3. [k \in 1..m |-> filler] \in Seq(T) /\ Len([k \in 1..m |-> filler]) = m
      BY <2>1
    <2> QED BY <2>2, <2>3 DEF m
  <1>3. Padded(s, n, filler) = s \o pad
    BY DEF Padded
  <1> HIDE DEF pad
  <1>4. Len(s \o pad) = Len(s) + Len(pad)
    BY <1>2
  <1>5. CASE Len(s) < n
    BY <1>1, <1>2, <1>3, <1>4, <1>5 DEF Longer
  <1>6. CASE ~(Len(s) < n)
    BY <1>1, <1>2, <1>3, <1>4, <1>6 DEF Longer
  <1> QED BY <1>5, <1>6

(* A sequence that keeps s and fills the rest up to n.                     *)
Fills(T, s, n, filler, padded) ==
  /\ padded \in Seq(T)
  /\ \A k \in 1..Len(s) : padded[k] = s[k]
  /\ \A k \in 1..n : k \notin 1..Len(s) => padded[k] = filler

(* Padding keeps what is there and fills the rest.                         *)
LEMMA PaddedFacts ==
  ASSUME NEW T, NEW s \in Seq(T), NEW n \in Nat, NEW filler \in T
  PROVE  Fills(T, s, n, filler, Padded(s, n, filler))
  <1> DEFINE pad == [k \in 1..(n - Len(s)) |-> filler]
  <1>1. Len(s) \in Nat
    OBVIOUS
  <1>2. pad \in Seq(T) /\ Len(pad) = IF Len(s) < n THEN n - Len(s) ELSE 0
    <2> DEFINE m == IF Len(s) < n THEN n - Len(s) ELSE 0
    <2>1. m \in Nat /\ 1..(n - Len(s)) = 1..m
      BY <1>1
    <2> HIDE DEF m
    <2>2. pad = [k \in 1..m |-> filler]
      BY <2>1
    <2>3. [k \in 1..m |-> filler] \in Seq(T) /\ Len([k \in 1..m |-> filler]) = m
      BY <2>1
    <2> QED BY <2>2, <2>3 DEF m
  <1>3. \A k \in 1..(n - Len(s)) : pad[k] = filler
    OBVIOUS
  <1>4. Padded(s, n, filler) = s \o pad
    BY DEF Padded
  <1> HIDE DEF pad
  <1>5. Padded(s, n, filler) \in Seq(T)
    BY <1>1, <1>2, <1>4
  <1>6. \A k \in 1..Len(s) : Padded(s, n, filler)[k] = s[k]
    BY <1>1, <1>2, <1>4
  <1>7. ASSUME NEW k \in 1..n, k \notin 1..Len(s) PROVE Padded(s, n, filler)[k] = filler
    <2>1. Len(s) < k /\ k <= n
      BY <1>1, <1>7
    <2>2. k - Len(s) \in 1..(n - Len(s)) /\ k \in (Len(s) + 1)..(Len(s) + Len(pad))
      BY <1>1, <1>2, <2>1
    <2>3. (s \o pad)[k] = pad[k - Len(s)]
      BY <1>1, <1>2, <2>2
    <2> QED BY <1>3, <1>4, <2>2, <2>3
  <1> QED BY <1>5, <1>6, <1>7 DEF Fills

(* Register puts a state into its row and keeps the others.                *)
RegisterWrites(n, c, s, d) ==
  LET k == s.id.row + 1
  IN  /\ d = [c EXCEPT !.stateList = d.stateList]
      /\ d.stateList \in Seq(State(n)) /\ Len(d.stateList) = Longer(Len(c.stateList), k)
      /\ k \in 1..Len(d.stateList) /\ d.stateList[k] = s
      /\ \A j \in 1..Len(c.stateList) : j # k => d.stateList[j] = c.stateList[j]
      /\ \A j \in 1..Len(d.stateList) :
           j \notin 1..Len(c.stateList) /\ j # k => d.stateList[j] = NoState

(* Registering a state writes its place in the list, and no other but the  *)
(* padding in front of it.                                                 *)
LEMMA RegisterFacts ==
  ASSUME NEW n, NEW c, c.stateList \in Seq(State(n)), NEW s \in State(n),
         "stateList" \in DOMAIN c
  PROVE  RegisterWrites(n, c, s, Register(c, s))
  <1> DEFINE k == s.id.row + 1
             padded == Padded(c.stateList, k, NoState)
             list == [padded EXCEPT ![k] = s]
  <1>1. k \in Nat /\ k >= 1
    BY DEF State, StateRecord, AnyID
  <1>2. Register(c, s) = [c EXCEPT !.stateList = list] /\ Register(c, s).stateList = list
    BY DEF Register
  <1> HIDE DEF k
  <1>3. NoState \in State(n)
    BY SpecialTypes
  <1>4. /\ padded \in Seq(State(n)) /\ Len(padded) = Longer(Len(c.stateList), k)
        /\ \A j \in 1..Len(c.stateList) : padded[j] = c.stateList[j]
        /\ \A j \in 1..k : j \notin 1..Len(c.stateList) => padded[j] = NoState
    <2> DEFINE T == State(n)
               old == c.stateList
               nobody == NoState
    <2>1. old \in Seq(T) /\ nobody \in T /\ k \in Nat
      BY <1>1, <1>3
    <2> HIDE DEF T, old, nobody
    <2>2. Len(Padded(old, k, nobody)) = Longer(Len(old), k)
      BY <2>1, PaddedLength
    <2>3. Fills(T, old, k, nobody, Padded(old, k, nobody))
      BY <2>1, PaddedFacts
    <2> QED BY <2>2, <2>3 DEF Fills, T, old, nobody
  <1> HIDE DEF padded
  <1>5. Len(c.stateList) \in Nat /\ k \in 1..Len(padded)
    BY <1>1, <1>4 DEF Longer
  <1>6. list \in Seq(State(n)) /\ Len(list) = Len(padded) /\ list[k] = s
        /\ \A j \in 1..Len(padded) : j # k => list[j] = padded[j]
    BY <1>4, <1>5
  <1>7. \A j \in 1..Len(padded) : j \notin 1..Len(c.stateList) => j \in 1..k
    BY <1>1, <1>4, <1>5 DEF Longer
  <1>8. \A j \in 1..Len(c.stateList) : j \in 1..Len(padded)
    BY <1>1, <1>4, <1>5 DEF Longer
  <1> HIDE DEF list
  <1> QED BY <1>1, <1>2, <1>4, <1>5, <1>6, <1>7, <1>8 DEF k, RegisterWrites
-----------------------------------------------------------------------------
(* The DFA of a pattern, with a configuration of it.                       *)
Built == /\ dfa.pattern \in Pattern
         /\ N = Automaton[dfa.pattern] /\ config \in Config[dfa.pattern]

(* What the assumptions say of the automaton and the configuration in use. *)
LEMMA BuiltFacts ==
  ASSUME Built
  PROVE  /\ Validate(N) /\ Patched(N) /\ Classified(N)
         /\ config.capacity \in Nat /\ config.maxCacheClears \in Nat
         /\ Stride \in 1..256 /\ Stride \in Nat /\ AlphabetLen(N) = Stride
         /\ \A b \in Byte : ByteToClass(N, b) \in Classes(N)
  <1>1. Validate(N) /\ Patched(N) /\ Classified(N) /\ config \in ValidConfig
    BY CacheAssumption DEF Built
  <1>2. config.capacity \in Nat /\ config.maxCacheClears \in Nat
    BY <1>1 DEF ValidConfig
  <1>3. Stride \in 1..256 /\ Stride \in Nat /\ AlphabetLen(N) = Stride
    <2>1. 255 \in Byte
      BY DEF Byte
    <2>2. N.byteClasses[255] \in Byte
      BY <1>1, <2>1 DEF Classified
    <2> QED BY <2>2 DEF Byte, Stride, AlphabetLen
  <1>4. \A b \in Byte : ByteToClass(N, b) \in Classes(N)
    BY <1>1 DEF Classified, ByteToClass
  <1> QED BY <1>1, <1>2, <1>3, <1>4

(* An ID of a table is one of a larger table.                              *)
LEMMA WiderIDs ==
  ASSUME NEW l \in Nat, NEW m \in Nat, l <= m
  PROVE  IDs(l) \subseteq IDs(m) /\ IDs(l) \subseteq AnyID
  BY DEF IDs, AnyID

(* A cache that its table fills is full.                                   *)
LEMMA FilledIsFull ==
  ASSUME Built, NEW c, Typed(N, config, c)
  PROVE  /\ TableFills(N, config, c) => IsFull(c)
         /\ MemoryUsage(c) \in Nat
  <1> DEFINE table == Len(c.flatTrans) * Stride * 4
  <1>1. c.stateList \in Seq(State(N)) /\ Len(c.stateList) \in Nat
    BY DEF Typed
  <1>2. HeldBytes(c.stateList) \in Nat
    <2> DEFINE T == State(N)
    <2>1. c.stateList \in Seq(T)
      BY <1>1
    <2> QED BY <2>1, HeldBytesIsSum
  <1>3. Cardinality(DOMAIN c.states) \in Nat
    BY FS_CardinalityType DEF Typed
  <1>4. table \in Nat /\ config.capacity \in Nat
    <2>1. Len(c.flatTrans) \in Nat
      BY DEF Typed
    <2>2. Stride \in Nat /\ config.capacity \in Nat
      BY BuiltFacts
    <2>3. \A x, y \in Nat : x * y * 4 \in Nat
      OBVIOUS
    <2> QED BY <2>1, <2>2, <2>3
  <1>5. MemoryUsage(c) = table + Len(c.stateList) * 8
                         + Cardinality(DOMAIN c.states) * 48 + HeldBytes(c.stateList)
    BY DEF MemoryUsage
  <1>6. TableFills(N, config, c) <=> table >= config.capacity
    BY BuiltFacts DEF TableFills
  <1> HIDE DEF table
  <1> QED BY <1>1, <1>2, <1>3, <1>4, <1>5, <1>6 DEF IsFull

-----------------------------------------------------------------------------
(* What the tables take.                                                   *)

(* The lengths of the states' lists, as terms of a sum.                    *)
LEMMA LengthsFacts ==
  ASSUME NEW n, NEW list \in Seq(State(n))
  PROVE  /\ Len(list) \in Nat /\ DOMAIN Lengths(list) = 1..Len(list)
         /\ \A k \in 1..Len(list) : /\ Lengths(list)[k] = 4 * Len(list[k].nfaStates)
                                    /\ Lengths(list)[k] \in Nat
  <1>1. Len(list) \in Nat /\ DOMAIN list = 1..Len(list)
    OBVIOUS
  <1>2. ASSUME NEW k \in 1..Len(list)
        PROVE  Lengths(list)[k] = 4 * Len(list[k].nfaStates) /\ Lengths(list)[k] \in Nat
    <2>1. list[k] \in State(n)
      OBVIOUS
    <2>2. list[k].nfaStates \in Seq(NfaIDs(n))
      BY <2>1 DEF State, StateRecord, Lists
    <2>3. Len(list[k].nfaStates) \in Nat
      BY <2>2
    <2>4. Lengths(list)[k] = 4 * Len(list[k].nfaStates)
      BY <1>1 DEF Lengths
    <2> QED BY <2>3, <2>4
  <1> QED BY <1>1, <1>2 DEF Lengths

(* Changing IDs, tags, exit bytes, transitions or start entries costs      *)
(* nothing.                                                                *)
LEMMA BoundedAlike ==
  ASSUME NEW n, NEW cfg, NEW c, NEW d, Bounded(n, cfg, c),
         c.stateList \in Seq(State(n)), d.stateList \in Seq(State(n)),
         Len(d.flatTrans) = Len(c.flatTrans), d.states = c.states,
         Len(d.stateList) = Len(c.stateList),
         \A k \in 1..Len(c.stateList) : d.stateList[k].nfaStates = c.stateList[k].nfaStates
  PROVE  Bounded(n, cfg, d)
  <1>1. Lengths(d.stateList) = Lengths(c.stateList)
    <2>1. DOMAIN d.stateList = 1..Len(c.stateList) /\ DOMAIN c.stateList = 1..Len(c.stateList)
      OBVIOUS
    <2> QED BY <2>1 DEF Lengths
  <1>2. TableBytes(n, d) = TableBytes(n, c) /\ EntryBytes(d) = EntryBytes(c)
    BY DEF TableBytes, EntryBytes
  <1> QED BY <1>1, <1>2 DEF Bounded

(* What two more rows of the table take.                                   *)
LEMMA WiderTable ==
  ASSUME NEW x \in Nat, NEW y \in Nat, NEW s \in Nat, y <= x + 2
  PROVE  /\ y * s * 4 <= x * s * 4 + 8 * s
         /\ x * s * 4 \in Nat /\ y * s * 4 \in Nat
  <1>1. y * s <= (x + 2) * s
    OBVIOUS
  <1>2. (x + 2) * s = x * s + 2 * s
    OBVIOUS
  <1>3. \A p, q, t \in Nat : p <= q + 2 * t => p * 4 <= q * 4 + 8 * t
    OBVIOUS
  <1>4. x * s \in Nat /\ y * s \in Nat
    OBVIOUS
  <1> QED BY <1>1, <1>2, <1>3, <1>4

(* What a cache takes without exit bytes is no more than what is weighed.  *)
LEMMA WeighedAtLeast ==
  ASSUME Built, NEW c, Typed(N, config, c)
  PROVE  \E total \in Nat :
           /\ IsSum(Lengths(c.stateList), Len(c.stateList), total)
           /\ TableBytes(N, c) + EntryBytes(c) + total <= MemoryUsage(c)
           /\ TableBytes(N, c) \in Nat /\ EntryBytes(c) \in Nat /\ MemoryUsage(c) \in Nat
           /\ MemoryUsage(c) <= TableBytes(N, c) + EntryBytes(c) + total + 3 * Len(c.stateList)
  <1> DEFINE list == c.stateList
             m == Len(list)
             held == HeldBytes(list)
             light == Lengths(list)
             heavy == Held(list)
  <1>1. list \in Seq(State(N)) /\ m \in Nat /\ DOMAIN list = 1..m
    BY DEF Typed
  <1>2. /\ held \in Nat /\ IsSum(heavy, m, held) /\ \A k \in 1..m : heavy[k] \in Nat
    <2> DEFINE T == State(N)
    <2>1. list \in Seq(T)
      BY <1>1
    <2> HIDE DEF list
    <2> QED BY <2>1, HeldBytesIsSum
  <1>3. \A k \in 1..m : light[k] = 4 * Len(list[k].nfaStates) /\ light[k] \in Nat
    BY <1>1, LengthsFacts
  <1>4. ASSUME NEW k \in 1..m PROVE light[k] <= heavy[k] /\ heavy[k] <= light[k] + 3
    <2>1. list[k] \in State(N)
      BY <1>1
    <2>2. list[k].accelBytes \in FewBytes
      BY <2>1 DEF State, StateRecord
    <2>3. Cardinality(list[k].accelBytes) \in 0..3
      BY <2>2, FewBytesFinite
    <2>4. heavy[k] = 4 * Len(list[k].nfaStates) + Cardinality(list[k].accelBytes)
      BY <1>1 DEF Held
    <2> HIDE DEF heavy, light
    <2>5. heavy[k] = light[k] + Cardinality(list[k].accelBytes) /\ light[k] \in Nat
      BY <1>3, <2>4
    <2> QED BY <2>3, <2>5
  <1> HIDE DEF held, light, heavy, m
  <1>5. PICK total \in Nat : IsSum(light, m, total)
    BY <1>1, <1>3, SumExists
  <1>6. total <= held
    BY <1>1, <1>2, <1>3, <1>4, <1>5, SumMonotonic
  <1>7. held <= total + 3 * m
    BY <1>1, <1>2, <1>3, <1>4, <1>5, SumSlack
  <1>8. TableBytes(N, c) \in Nat /\ TableBytes(N, c) = Len(c.flatTrans) * Stride * 4
    <2>1. Stride \in Nat /\ Len(c.flatTrans) \in Nat
      BY BuiltFacts DEF Typed
    <2> QED BY <2>1, WiderTable DEF TableBytes, Stride
  <1>9. EntryBytes(c) \in Nat /\ EntryBytes(c) = m * 8 + Cardinality(DOMAIN c.states) * 48
    <2>1. Cardinality(DOMAIN c.states) \in Nat
      BY FS_CardinalityType DEF Typed
    <2> QED BY <1>1, <2>1 DEF EntryBytes, m
  <1>10. MemoryUsage(c) = TableBytes(N, c) + EntryBytes(c) + held
    <2>1. MemoryUsage(c) = Len(c.flatTrans) * Stride * 4 + m * 8
                           + Cardinality(DOMAIN c.states) * 48 + held
      BY DEF MemoryUsage, m, held
    <2>2. Cardinality(DOMAIN c.states) \in Nat
      BY FS_CardinalityType DEF Typed
    <2> DEFINE entries == Cardinality(DOMAIN c.states)
               table == TableBytes(N, c)
    <2> HIDE DEF entries, table
    <2>3. MemoryUsage(c) = table + m * 8 + entries * 48 + held /\ table \in Nat /\ entries \in Nat
      BY <1>8, <2>1, <2>2 DEF entries, table
    <2>4. EntryBytes(c) = m * 8 + entries * 48
      BY <1>9 DEF entries
    <2>5. m * 8 \in Nat /\ entries * 48 \in Nat
      BY <1>1, <2>3
    <2>6. \A x, y, z, t \in Nat : x + y + z + t = x + (y + z) + t
      OBVIOUS
    <2> QED BY <1>2, <2>3, <2>4, <2>5, <2>6 DEF table
  <1>11. \A x, y, z, h, t \in Nat : z <= h /\ h <= z + t =>
           x + y + z <= x + y + h /\ x + y + h <= x + y + z + t /\ x + y + h \in Nat
    OBVIOUS
  <1>12. 3 * m \in Nat
    BY <1>1
  <1>13. /\ TableBytes(N, c) + EntryBytes(c) + total <= MemoryUsage(c) /\ MemoryUsage(c) \in Nat
         /\ MemoryUsage(c) <= TableBytes(N, c) + EntryBytes(c) + total + 3 * m
    <2> DEFINE x == TableBytes(N, c)
               y == EntryBytes(c)
               t == 3 * m
    <2>1. x \in Nat /\ y \in Nat /\ t \in Nat /\ total <= held /\ held <= total + t /\ held \in Nat
      BY <1>2, <1>6, <1>7, <1>8, <1>9, <1>12
    <2>2. MemoryUsage(c) = x + y + held
      BY <1>10
    <2> HIDE DEF x, y, t
    <2>3. x + y + total <= x + y + held /\ x + y + held <= x + y + total + t /\ x + y + held \in Nat
      BY <1>11, <2>1
    <2> QED BY <2>2, <2>3 DEF x, y, t
  <1> QED BY <1>5, <1>8, <1>9, <1>13 DEF light, m

(* The cache weighs no more than its capacity, one more state and exit     *)
(* bytes.                                                                  *)
LEMMA BoundedUsage ==
  ASSUME Built, NEW c, Typed(N, config, c), Bounded(N, config, c)
  PROVE  MemoryUsage(c) < config.capacity + OneMore(N) + 3 * Len(c.stateList)
  <1>1. PICK a \in Nat : /\ IsSum(Lengths(c.stateList), Len(c.stateList), a)
                         /\ TableBytes(N, c) + EntryBytes(c) + a < config.capacity + OneMore(N)
    BY DEF Bounded
  <1>2. PICK b \in Nat :
          /\ IsSum(Lengths(c.stateList), Len(c.stateList), b)
          /\ TableBytes(N, c) \in Nat /\ EntryBytes(c) \in Nat /\ MemoryUsage(c) \in Nat
          /\ MemoryUsage(c) <= TableBytes(N, c) + EntryBytes(c) + b + 3 * Len(c.stateList)
    BY WeighedAtLeast
  <1>3. c.stateList \in Seq(State(N)) /\ Len(c.stateList) \in Nat
    BY DEF Typed
  <1>4. b <= a
    <2> DEFINE w == Lengths(c.stateList)
               m == Len(c.stateList)
    <2>1. m \in Nat /\ \A k \in 1..m : w[k] \in Nat /\ w[k] <= w[k]
      BY <1>3, LengthsFacts
    <2> HIDE DEF w, m
    <2> QED BY <1>1, <1>2, <2>1, SumMonotonic DEF w, m
  <1>5. OneMore(N) \in Nat /\ config.capacity \in Nat
    <2>1. Len(N.states) \in Nat /\ AlphabetLen(N) \in Nat /\ config.capacity \in Nat
      BY BuiltFacts DEF Validate
    <2> QED BY <2>1 DEF OneMore
  <1>6. \A x, y, z, t, u, v \in Nat : x + y + z < u /\ t <= z => x + y + t + v < u + v
    OBVIOUS
  <1>7. config.capacity + OneMore(N) \in Nat /\ 3 * Len(c.stateList) \in Nat
    BY <1>3, <1>5
  <1>8. TableBytes(N, c) + EntryBytes(c) + b + 3 * Len(c.stateList)
          < config.capacity + OneMore(N) + 3 * Len(c.stateList)
    BY <1>1, <1>2, <1>4, <1>6, <1>7
  <1>9. TableBytes(N, c) + EntryBytes(c) + b + 3 * Len(c.stateList) \in Nat
    BY <1>2, <1>7
  <1> QED BY <1>2, <1>7, <1>8, <1>9

(* A cache without states, and one with the state a clear leaves.          *)
LEMMA EmptyBounded ==
  ASSUME Built, NEW c, c.states = <<>>, c.stateList = <<>>,
         TableBytes(N, c) < config.capacity + 8 * AlphabetLen(N), TableBytes(N, c) \in Nat
  PROVE  Bounded(N, config, c)
  <1>1. IsSum(Lengths(c.stateList), Len(c.stateList), 0)
    <2> DEFINE none == [k \in 0..0 |-> 0]
    <2>1. none \in [0..0 -> Nat] /\ none[0] = 0 /\ 1..0 = {}
      OBVIOUS
    <2> QED BY <2>1 DEF IsSum
  <1>2. EntryBytes(c) = 0
    <2>1. Cardinality(DOMAIN c.states) = 0
      BY FS_EmptySet
    <2> QED BY <2>1 DEF EntryBytes
  <1>3. Len(N.states) \in Nat /\ AlphabetLen(N) \in Nat /\ config.capacity \in Nat
    BY BuiltFacts DEF Validate
  <1>4. TableBytes(N, c) + EntryBytes(c) + 0 < config.capacity + OneMore(N)
    <2> DEFINE table == TableBytes(N, c)
               s == 8 * AlphabetLen(N)
               l == 4 * Len(N.states)
    <2>1. s \in Nat /\ l \in Nat /\ table \in Nat /\ table < config.capacity + s
      BY <1>3
    <2>2. OneMore(N) = s + 16 + 48 + l
      BY DEF OneMore
    <2> HIDE DEF table, s, l
    <2>3. table + 0 + 0 < config.capacity + (s + 16 + 48 + l)
      BY <1>3, <2>1
    <2> QED BY <1>2, <2>2, <2>3 DEF table
  <1> QED BY <1>1, <1>4 DEF Bounded

(* The one state a clear may leave unfiled fits.                           *)
LEMMA OneStateBounded ==
  ASSUME Built, NEW c, c.states = <<>>, c.stateList \in Seq(State(N)), Len(c.stateList) = 1,
         TableBytes(N, c) < config.capacity + 8 * AlphabetLen(N), TableBytes(N, c) \in Nat
  PROVE  Bounded(N, config, c)
  <1> DEFINE w == Lengths(c.stateList)
             l == Len(c.stateList[1].nfaStates)
  <1>1. Len(N.states) \in Nat /\ AlphabetLen(N) \in Nat /\ config.capacity \in Nat
    BY BuiltFacts DEF Validate
  <1>2. l \in Nat /\ l <= Len(N.states)
    <2>1. c.stateList[1] \in State(N)
      OBVIOUS
    <2>2. c.stateList[1].nfaStates \in Lists(N)
      BY <2>1 DEF State, StateRecord
    <2> QED BY <1>1, <2>2, ListFits
  <1>3. w[1] = 4 * l
    <2>1. 1 \in 1..Len(c.stateList)
      OBVIOUS
    <2> QED BY <2>1, LengthsFacts
  <1> HIDE DEF w, l
  <1>4. IsSum(w, 1, 4 * l)
    <2> DEFINE sum == [k \in 0..1 |-> IF k = 0 THEN 0 ELSE 4 * l]
    <2>1. sum \in [0..1 -> Nat] /\ sum[0] = 0 /\ sum[1] = 4 * l
      BY <1>2
    <2>2. \A k \in 1..1 : k = 1 /\ k - 1 = 0
      OBVIOUS
    <2>3. \A k \in 1..1 : sum[k] = sum[k - 1] + w[k]
      BY <1>2, <1>3, <2>1, <2>2
    <2> HIDE DEF sum
    <2> QED BY <2>1, <2>3 DEF IsSum
  <1>5. EntryBytes(c) = 8
    <2>1. Cardinality(DOMAIN c.states) = 0
      BY FS_EmptySet
    <2> QED BY <2>1 DEF EntryBytes
  <1>6. TableBytes(N, c) + EntryBytes(c) + 4 * l < config.capacity + OneMore(N)
    <2> DEFINE x == 8 * AlphabetLen(N)
               y == 4 * Len(N.states)
               z == 4 * l
    <2>1. x \in Nat /\ y \in Nat /\ z \in Nat /\ z <= y /\ OneMore(N) = x + 16 + 48 + y
      BY <1>1, <1>2 DEF OneMore
    <2>2. TableBytes(N, c) < config.capacity + x
      OBVIOUS
    <2> HIDE DEF x, y, z
    <2>3. TableBytes(N, c) + 8 + z < config.capacity + (x + 16 + 48 + y)
      BY <1>1, <2>1, <2>2
    <2> QED BY <1>5, <2>1, <2>3 DEF z
  <1>7. 4 * l \in Nat
    BY <1>2
  <1> QED BY <1>4, <1>6, <1>7 DEF Bounded, w

(* A state has been filed in a cache that was not full.                    *)
LEMMA LongerSum ==
  ASSUME Built, NEW c, Typed(N, config, c), NEW r \in Nat,
         r = Len(c.stateList) \/ (r = 1 /\ c.stateList = <<>>),
         NEW list \in Seq(State(N)), Len(list) = r + 1,
         \A j \in 1..Len(c.stateList) : list[j] = c.stateList[j],
         \A j \in 1..(r + 1) : j \notin 1..Len(c.stateList) /\ j # r + 1 => list[j] = NoState
  PROVE  \E a \in Nat, b \in Nat :
           /\ IsSum(Lengths(c.stateList), Len(c.stateList), a)
           /\ TableBytes(N, c) + EntryBytes(c) + a <= MemoryUsage(c)
           /\ IsSum(Lengths(list), Len(list), b)
           /\ b <= a + 4 * Len(N.states)
  <1> DEFINE m == Len(c.stateList)
             v == Lengths(c.stateList)
             w == Lengths(list)
  <1>1. PICK a \in Nat : /\ IsSum(v, m, a)
                         /\ TableBytes(N, c) + EntryBytes(c) + a <= MemoryUsage(c)
    BY WeighedAtLeast
  <1>2. c.stateList \in Seq(State(N)) /\ m \in Nat
    BY DEF Typed
  <1>3. /\ \A k \in 1..m : v[k] = 4 * Len(c.stateList[k].nfaStates)
        /\ \A k \in 1..(r + 1) : w[k] = 4 * Len(list[k].nfaStates) /\ w[k] \in Nat
    BY <1>2, LengthsFacts
  <1>4. w[r + 1] <= 4 * Len(N.states) /\ w[r + 1] \in Nat /\ Len(N.states) \in Nat
    <2>1. Len(N.states) \in Nat
      BY BuiltFacts DEF Validate
    <2> DEFINE k == r + 1
    <2>2. k \in 1..(r + 1) /\ k \in 1..Len(list)
      OBVIOUS
    <2> HIDE DEF k
    <2>3. list[k] \in State(N)
      BY <2>2
    <2>4. Len(list[k].nfaStates) \in Nat /\ Len(list[k].nfaStates) <= Len(N.states)
      BY <2>1, <2>3, ListFits DEF State, StateRecord
    <2>5. w[k] = 4 * Len(list[k].nfaStates)
      BY <1>3, <2>2
    <2> HIDE DEF w
    <2>6. w[k] <= 4 * Len(N.states) /\ w[k] \in Nat
      BY <2>1, <2>4, <2>5
    <2> QED BY <2>1, <2>6 DEF k
  <1>5. IsSum(w, r + 1, a + w[r + 1])
    <2>1. CASE r = m
      <3>1. \A k \in 1..r : v[k] = w[k]
        <4>1. \A k \in 1..r : k \in 1..m /\ k \in 1..(r + 1)
          BY <2>1
        <4> QED BY <1>3, <4>1
      <3> HIDE DEF v, w, m
      <3> QED BY <1>1, <1>4, <2>1, <3>1, SumOfOneMore
    <2>2. CASE r = 1 /\ c.stateList = <<>>
      <3>1. m = 0
        BY <2>2
      <3>2. w[1] = 0
        <4>1. list[1] = NoState
          BY <2>2
        <4>2. 1 \in 1..(r + 1)
          OBVIOUS
        <4>3. Len(NoState.nfaStates) = 0
          <5>1. NoState.nfaStates = <<>>
            BY SpecialTypes
          <5> QED BY <5>1
        <4>4. w[1] = 4 * Len(NoState.nfaStates)
          BY <1>3, <4>1, <4>2
        <4> QED BY <4>3, <4>4
      <3> HIDE DEF v, w, m
      <3>3. IsSum(w, 0 + 1, a + w[0 + 1])
        <4>1. w[0 + 1] \in Nat /\ IsSum(v, 0, a) /\ \A k \in 1..0 : v[k] = w[k]
          BY <1>1, <3>1, <3>2
        <4> QED BY <4>1, SumOfOneMore
      <3>4. IsSum(w, 1, a)
        BY <3>2, <3>3
      <3>5. w[1 + 1] \in Nat /\ r = 1
        BY <1>4, <2>2
      <3>6. IsSum(w, 1 + 1, a + w[1 + 1])
        <4>1. \A k \in 1..1 : w[k] = w[k]
          OBVIOUS
        <4> QED BY <3>4, <3>5, <4>1, SumOfOneMore
      <3> QED BY <3>5, <3>6
    <2> QED BY <2>1, <2>2 DEF m
  <1> DEFINE b == a + w[r + 1]
  <1> HIDE DEF v, m, w
  <1>6. b \in Nat /\ b <= a + 4 * Len(N.states)
    BY <1>4
  <1> HIDE DEF b
  <1> QED BY <1>1, <1>5, <1>6 DEF v, m, w, b

(* A state stored while there was room leaves the cache within its bound.  *)
LEMMA OneMoreBounded ==
  ASSUME Built, NEW c, NEW d, Typed(N, config, c), Typed(N, config, d),
         MemoryUsage(c) < config.capacity,
         Len(d.flatTrans) <= Len(c.flatTrans) + 2,
         Len(d.stateList) <= Len(c.stateList) + 2,
         Cardinality(DOMAIN d.states) = Cardinality(DOMAIN c.states) + 1,
         NEW a \in Nat, NEW b \in Nat,
         TableBytes(N, c) + EntryBytes(c) + a <= MemoryUsage(c),
         IsSum(Lengths(d.stateList), Len(d.stateList), b), b <= a + 4 * Len(N.states)
  PROVE  Bounded(N, config, d)
  <1>1. /\ Len(N.states) \in Nat /\ AlphabetLen(N) \in Nat /\ config.capacity \in Nat
        /\ MemoryUsage(c) \in Nat
    BY BuiltFacts, FilledIsFull DEF Validate
  <1>2. /\ TableBytes(N, d) <= TableBytes(N, c) + 8 * AlphabetLen(N)
        /\ TableBytes(N, c) \in Nat /\ TableBytes(N, d) \in Nat
    <2>1. Len(c.flatTrans) \in Nat /\ Len(d.flatTrans) \in Nat
      BY DEF Typed
    <2> QED BY <1>1, <2>1, WiderTable DEF TableBytes
  <1>3. EntryBytes(d) <= EntryBytes(c) + 16 + 48 /\ EntryBytes(c) \in Nat /\ EntryBytes(d) \in Nat
    <2> DEFINE x == Len(c.stateList)
               y == Len(d.stateList)
               p == Cardinality(DOMAIN c.states)
               q == Cardinality(DOMAIN d.states)
    <2>1. x \in Nat /\ y \in Nat /\ y <= x + 2 /\ p \in Nat /\ q = p + 1
      <3>1. IsFiniteSet(DOMAIN c.states) /\ c.stateList \in Seq(State(N))
            /\ d.stateList \in Seq(State(N))
        BY DEF Typed
      <3>2. x \in Nat /\ y \in Nat
        BY <3>1
      <3>3. p \in Nat
        BY <3>1, FS_CardinalityType
      <3> QED BY <3>2, <3>3
    <2>2. EntryBytes(c) = x * 8 + p * 48 /\ EntryBytes(d) = y * 8 + q * 48
      BY DEF EntryBytes
    <2> HIDE DEF x, y, p, q
    <2> QED BY <2>1, <2>2
  <1>4. TableBytes(N, d) < config.capacity + 8 * AlphabetLen(N)
    <2> DEFINE x == TableBytes(N, c)
               y == TableBytes(N, d)
               z == EntryBytes(c)
               s == 8 * AlphabetLen(N)
    <2>1. x \in Nat /\ y \in Nat /\ y <= x + s
      BY <1>2
    <2>4. z \in Nat /\ s \in Nat
      <3>1. AlphabetLen(N) \in Nat /\ z \in Nat
        BY <1>1, <1>3
      <3> QED BY <3>1
    <2>5. x + z + a <= MemoryUsage(c)
      OBVIOUS
    <2> HIDE DEF x, y, z, s
    <2>2. x < config.capacity
      <3> DEFINE usage == MemoryUsage(c)
                 capacity == config.capacity
      <3>1. usage \in Nat /\ capacity \in Nat /\ usage < capacity /\ x + z + a <= usage
        BY <1>1, <2>5
      <3> HIDE DEF usage, capacity
      <3>2. x < capacity
        BY <2>1, <2>4, <3>1
      <3> QED BY <3>2 DEF capacity
    <2>3. y < config.capacity + s
      BY <1>1, <2>1, <2>2, <2>4
    <2> QED BY <2>3 DEF y, s
  <1>5. TableBytes(N, d) + EntryBytes(d) + b < config.capacity + OneMore(N)
    <2> DEFINE s == 8 * AlphabetLen(N)
               l == 4 * Len(N.states)
    <2>1. s \in Nat /\ l \in Nat /\ OneMore(N) = s + 16 + 48 + l
      BY <1>1 DEF OneMore
    <2>2. TableBytes(N, d) <= TableBytes(N, c) + s /\ b <= a + l
      BY <1>2
    <2> HIDE DEF s, l
    <2> DEFINE x == TableBytes(N, c)
               y == TableBytes(N, d)
               p == EntryBytes(c)
               q == EntryBytes(d)
    <2>3. /\ x \in Nat /\ y \in Nat /\ p \in Nat /\ q \in Nat
          /\ y <= x + s /\ q <= p + 16 + 48 /\ x + p + a <= MemoryUsage(c)
      BY <1>2, <1>3, <2>2
    <2> HIDE DEF x, y, p, q
    <2>4. y + q + b <= (x + s) + (p + 16 + 48) + (a + l)
      BY <2>1, <2>2, <2>3
    <2>5. (x + s) + (p + 16 + 48) + (a + l) = (x + p + a) + (s + 16 + 48 + l)
      BY <2>1, <2>3
    <2> DEFINE before == x + p + a
               after == y + q + b
               more == s + 16 + 48 + l
    <2>6. before \in Nat /\ after \in Nat /\ more \in Nat
      BY <2>1, <2>3
    <2>7. after <= before + more /\ before <= MemoryUsage(c)
      BY <2>3, <2>4, <2>5
    <2> HIDE DEF before, after, more
    <2>8. after < config.capacity + more
      BY <1>1, <2>6, <2>7
    <2> QED BY <2>1, <2>8 DEF after, more, y, q
  <1> QED BY <1>4, <1>5 DEF Bounded

-----------------------------------------------------------------------------
(* What an ID of the cache leads to is a state of it, or nobody's.         *)
LEMMA GetStateFacts ==
  ASSUME NEW n, NEW cfg, NEW c, Sound(n, cfg, c), NEW id \in AnyID
  PROVE  /\ GetState(c, id) \in State(n)
         /\ GetState(c, id) # NoState =>
              /\ id.row + 1 \in 1..Len(c.stateList)
              /\ c.stateList[id.row + 1] = GetState(c, id)
              /\ Proper(GetState(c, id), id.row)
  <1>1. id.row \in Nat /\ c.stateList \in Seq(State(n)) /\ NoState \in State(n)
    BY SpecialTypes DEF AnyID, Sound, Typed
  <1>2. CASE GetState(c, id) = NoState
    BY <1>1, <1>2
  <1>3. CASE GetState(c, id) # NoState
    <2>1. id.row < Len(c.stateList) /\ GetState(c, id) = c.stateList[id.row + 1]
      BY <1>1, <1>3 DEF GetState
    <2>2. id.row + 1 \in 1..Len(c.stateList) /\ (id.row + 1) - 1 = id.row
      BY <1>1, <2>1
    <2>3. Proper(c.stateList[id.row + 1], id.row)
      BY <1>3, <2>1, <2>2 DEF Sound, Numbered
    <2> QED BY <1>1, <2>1, <2>2, <2>3
  <1> QED BY <1>2, <1>3

(* What a state recorded for a byte is an ID of the cache.                 *)
LEMMA TransitionType ==
  ASSUME Built, NEW c, Sound(N, config, c), NEW id \in AnyID, NEW b \in Byte
  PROVE  Transition(c, id, b) \in IDs(Len(c.flatTrans))
  <1> DEFINE L == Len(c.flatTrans)
  <1>1. L \in Nat /\ c.flatTrans \in Seq([Classes(N) -> IDs(L)])
    BY DEF Sound, Typed
  <1>2. CASE id.row < L
    <2>1. id.row + 1 \in 1..L /\ ByteToClass(N, b) \in Classes(N)
      BY <1>1, <1>2, BuiltFacts DEF AnyID
    <2>2. c.flatTrans[id.row + 1] \in [Classes(N) -> IDs(L)]
      BY <1>1, <2>1
    <2>3. c.flatTrans[id.row + 1][ByteToClass(N, b)] \in IDs(L)
      BY <2>1, <2>2
    <2> QED BY <1>2, <2>3 DEF Transition
  <1>3. CASE ~(id.row < L)
    BY <1>1, <1>3, SpecialTypes DEF Transition
  <1> QED BY <1>2, <1>3

(* A proper state is somebody's.                                           *)
LEMMA ProperIsSomebody ==
  ASSUME NEW n, NEW s \in State(n), NEW row, Proper(s, row)
  PROVE  s # NoState
  BY SpecialTypes DEF Proper

-----------------------------------------------------------------------------
(* A state is changed in its row: it is tagged as a start state, or gets   *)
(* its exit bytes.                                                         *)
Replaces(c, k, s, d) ==
  /\ d.states = c.states /\ d.flatTrans = c.flatTrans /\ d.startTable = c.startTable
  /\ d.nextRow = c.nextRow /\ d.clearCount = c.clearCount
  /\ Len(d.stateList) = Len(c.stateList) /\ d.stateList[k] = s /\ s # NoState
  /\ \A j \in 1..Len(c.stateList) : j # k => d.stateList[j] = c.stateList[j]

(* Replacing a state by one that differs in its tag or its exit bytes      *)
(* keeps the cache sound.                                                  *)
LEMMA ReplaceSound ==
  ASSUME NEW n, NEW cfg, NEW c, Sound(n, cfg, c),
         NEW k \in 1..Len(c.stateList), c.stateList[k] # NoState,
         NEW s \in State(n),
         s.nfaStates = c.stateList[k].nfaStates, s.isMatch = c.stateList[k].isMatch,
         s.isFromWord = c.stateList[k].isFromWord,
         s.id = c.stateList[k].id \/ s.id = WithStartTag(c.stateList[k].id)
  PROVE  Sound(n, cfg, Register(c, s)) /\ Replaces(c, k, s, Register(c, s))
  <1> DEFINE old == c.stateList[k]
             d == Register(c, s)
  <1>1. /\ Typed(n, cfg, c) /\ Numbered(c) /\ Registered(n, cfg, c) /\ Entered(n, c)
        /\ c.stateList \in Seq(State(n)) /\ Len(c.stateList) \in Nat /\ "stateList" \in DOMAIN c
    BY DEF Sound, Typed
  <1>2. Proper(old, k - 1) /\ old \in State(n)
    BY <1>1 DEF Numbered
  <1>3. Proper(s, k - 1) /\ s # NoState /\ StateKey(s) = StateKey(old)
        /\ ("start" \in old.id.tag => s.id = old.id)
    <2>1. old.id \in AnyID
      BY <1>2 DEF State, StateRecord
    <2>2. old.id.row = k - 1 /\ old.id.tag \in SUBSET {"match", "start"}
      BY <1>2 DEF Proper
    <2>3. /\ s.id.row = k - 1 /\ s.id.tag \in SUBSET {"match", "start"}
          /\ "match" \in s.id.tag <=> "match" \in old.id.tag
          /\ "start" \in old.id.tag => s.id = old.id
      <3>1. CASE s.id = old.id
        BY <2>2, <3>1
      <3>2. CASE s.id = WithStartTag(old.id)
        <4>1. s.id = [row |-> old.id.row, tag |-> old.id.tag \cup {"start"}]
          BY <2>1, <3>2 DEF WithStartTag, AnyID
        <4>2. "start" \in old.id.tag => old.id.tag \cup {"start"} = old.id.tag
          OBVIOUS
        <4>3. old.id = [row |-> old.id.row, tag |-> old.id.tag]
          BY <2>1 DEF AnyID
        <4>4. "match" \in s.id.tag <=> "match" \in old.id.tag
          BY <4>1
        <4>5. s.id.row = k - 1 /\ s.id.tag \in SUBSET {"match", "start"}
          BY <2>2, <4>1
        <4>6. "start" \in old.id.tag => s.id = old.id
          BY <4>1, <4>2, <4>3
        <4> HIDE DEF old
        <4> QED BY <4>4, <4>5, <4>6
      <3> QED BY <3>1, <3>2
    <2>4. Proper(s, k - 1)
      BY <1>2, <2>3 DEF Proper
    <2>5. StateKey(s) = StateKey(old)
      BY DEF StateKey
    <2> QED BY <2>3, <2>4, <2>5, ProperIsSomebody
  <1>4. s.id.row + 1 = k
    BY <1>3 DEF Proper
  <1>5. /\ d = [c EXCEPT !.stateList = d.stateList]
        /\ d.stateList \in Seq(State(n)) /\ Len(d.stateList) = Len(c.stateList)
        /\ d.stateList[k] = s
        /\ \A j \in 1..Len(c.stateList) : j # k => d.stateList[j] = c.stateList[j]
    <2>1. Longer(Len(c.stateList), k) = Len(c.stateList)
      BY <1>1 DEF Longer
    <2>2. RegisterWrites(n, c, s, d)
      BY <1>1, RegisterFacts
    <2> HIDE DEF d
    <2> QED BY <1>4, <2>1, <2>2 DEF RegisterWrites
  <1> HIDE DEF d, old
  <1>6. /\ d.states = c.states /\ d.flatTrans = c.flatTrans /\ d.startTable = c.startTable
        /\ d.nextRow = c.nextRow /\ d.clearCount = c.clearCount
        /\ d = [states |-> d.states, stateList |-> d.stateList, flatTrans |-> d.flatTrans,
                startTable |-> d.startTable, nextRow |-> d.nextRow, clearCount |-> d.clearCount]
    <2>1. c = [states |-> c.states, stateList |-> c.stateList, flatTrans |-> c.flatTrans,
               startTable |-> c.startTable, nextRow |-> c.nextRow, clearCount |-> c.clearCount]
      BY <1>1 DEF Typed
    <2>2. d = [states |-> c.states, stateList |-> d.stateList, flatTrans |-> c.flatTrans,
               startTable |-> c.startTable, nextRow |-> c.nextRow, clearCount |-> c.clearCount]
      BY <1>5, <2>1
    <2> QED BY <2>2
  <1>7. Typed(n, cfg, d)
    BY <1>1, <1>5, <1>6 DEF Typed
  <1>8. Numbered(d)
    <2>1. d.stateList = <<>> <=> c.stateList = <<>>
      BY <1>1, <1>5
    <2> QED BY <1>1, <1>3, <1>5, <1>6, <2>1 DEF Numbered
  <1>9. \A j \in 1..Len(c.stateList) :
          /\ StateKey(d.stateList[j]) = StateKey(c.stateList[j])
          /\ d.stateList[j] # NoState <=> c.stateList[j] # NoState
    BY <1>3, <1>5 DEF old
  <1>10. Registered(n, cfg, d)
    <2>1. \A key \in DOMAIN c.states : c.states[key] \in Nat /\ Finds(c, key)
      BY <1>1 DEF Registered
    <2>2. \A key \in DOMAIN d.states : d.states[key] \in Nat /\ Finds(d, key)
      BY <1>5, <1>6, <1>9, <2>1 DEF Finds
    <2>3. \A j \in 1..Len(c.stateList) : FiledUnderKey(c, j) => FiledUnderKey(d, j)
      BY <1>6, <1>9 DEF FiledUnderKey
    <2>4. TableFills(n, cfg, c) => TableFills(n, cfg, d)
      BY <1>6 DEF TableFills
    <2> QED BY <1>1, <1>5, <1>6, <2>2, <2>3, <2>4 DEF Registered
  <1>11. Entered(n, d)
    <2> SUFFICES ASSUME NEW anchored \in BOOLEAN, NEW kind \in StartKind, NEW id,
                        id = c.startTable[anchored][kind], id # InvalidState
                 PROVE  StartsAt(n, d, id, kind, anchored)
      BY <1>6 DEF Entered
    <2>1. StartsAt(n, c, id, kind, anchored)
      BY <1>1 DEF Entered
    <2>2. id.row + 1 = k => d.stateList[k].id = id /\ d.stateList[k].nfaStates = old.nfaStates
      BY <1>3, <1>5, <2>1 DEF StartsAt, old
    <2> QED BY <1>5, <1>9, <2>1, <2>2 DEF StartsAt, old
  <1>12. Replaces(c, k, s, d)
    BY <1>3, <1>5, <1>6 DEF Replaces
  <1>13. Bounded(n, cfg, d)
    <2>1. \A j \in 1..Len(c.stateList) : d.stateList[j].nfaStates = c.stateList[j].nfaStates
      BY <1>5 DEF old
    <2>2. Bounded(n, cfg, c)
      BY DEF Sound
    <2> QED BY <1>1, <1>5, <1>6, <2>1, <2>2, BoundedAlike
  <1> QED BY <1>7, <1>8, <1>10, <1>11, <1>12, <1>13 DEF Sound, d

(* A start state is entered in the start table.                            *)
Enters(c, d) ==
  /\ d.stateList = c.stateList /\ d.flatTrans = c.flatTrans /\ d.states = c.states
  /\ d.clearCount = c.clearCount

(* Naming in the start table a state that begins such searches keeps the   *)
(* cache sound.                                                            *)
LEMMA EnterSound ==
  ASSUME NEW n, NEW cfg, NEW c, Sound(n, cfg, c),
         NEW anchored \in BOOLEAN, NEW kind \in StartKind,
         NEW id \in IDs(Len(c.flatTrans)), StartsAt(n, c, id, kind, anchored)
  PROVE  /\ Sound(n, cfg, [c EXCEPT !.startTable[anchored][kind] = id])
         /\ Enters(c, [c EXCEPT !.startTable[anchored][kind] = id])
  <1> DEFINE table == [c.startTable EXCEPT ![anchored][kind] = id]
             d == [c EXCEPT !.startTable[anchored][kind] = id]
  <1>1. Typed(n, cfg, c) /\ Numbered(c) /\ Registered(n, cfg, c) /\ Entered(n, c)
    BY DEF Sound
  <1>2. c = [states |-> c.states, stateList |-> c.stateList, flatTrans |-> c.flatTrans,
             startTable |-> c.startTable, nextRow |-> c.nextRow, clearCount |-> c.clearCount]
    BY <1>1 DEF Typed
  <1>3. d = [states |-> c.states, stateList |-> c.stateList, flatTrans |-> c.flatTrans,
             startTable |-> table, nextRow |-> c.nextRow, clearCount |-> c.clearCount]
    BY <1>2
  <1>4. c.startTable \in [BOOLEAN -> [StartKind -> IDs(Len(c.flatTrans))]]
    BY <1>1 DEF Typed
  <1>5. table \in [BOOLEAN -> [StartKind -> IDs(Len(c.flatTrans))]]
    BY <1>4
  <1>6. \A a \in BOOLEAN, k \in StartKind :
          table[a][k] = IF a = anchored /\ k = kind THEN id ELSE c.startTable[a][k]
    BY <1>4
  <1> HIDE DEF table, d
  <1>7. Typed(n, cfg, d)
    BY <1>1, <1>3, <1>5 DEF Typed
  <1>8. Numbered(d)
    BY <1>1, <1>3 DEF Numbered
  <1>9. Registered(n, cfg, d)
    BY <1>1, <1>3 DEF Registered, Finds, FiledUnderKey, TableFills
  <1>10. Entered(n, d)
    <2> SUFFICES ASSUME NEW a \in BOOLEAN, NEW k \in StartKind, table[a][k] # InvalidState
                 PROVE  StartsAt(n, d, table[a][k], k, a)
      BY <1>3 DEF Entered
    <2>1. StartsAt(n, c, table[a][k], k, a)
      BY <1>1, <1>6 DEF Entered
    <2> QED BY <1>3, <2>1 DEF StartsAt
  <1>11. Enters(c, d)
    BY <1>3 DEF Enters
  <1>12. Bounded(n, cfg, d)
    <2>1. c.stateList \in Seq(State(n)) /\ Bounded(n, cfg, c)
      BY DEF Sound, Typed
    <2>2. d.stateList = c.stateList /\ d.states = c.states /\ d.flatTrans = c.flatTrans
      BY <1>3
    <2> QED BY <2>1, <2>2, BoundedAlike
  <1> QED BY <1>7, <1>8, <1>9, <1>10, <1>11, <1>12 DEF Sound, d
(* The tables after a new state s was filed in row r.                      *)
FiledIn(n, c, r, s, d) ==
  /\ d = [states |-> FiledAs(c.states, StateKey(s), r), stateList |-> d.stateList,
          flatTrans |-> Padded(c.flatTrans, r + 1, UnknownRow),
          startTable |-> c.startTable, nextRow |-> r + 1, clearCount |-> c.clearCount]
  /\ d.stateList \in Seq(State(n)) /\ Len(d.stateList) = r + 1
  /\ d.stateList[r + 1] = s
  /\ \A j \in 1..Len(c.stateList) : d.stateList[j] = c.stateList[j]
  /\ \A j \in 1..Len(d.stateList) :
       j \notin 1..Len(c.stateList) /\ j # r + 1 => d.stateList[j] = NoState

(* A state whose key has not been seen is filed in the next row.           *)
LEMMA FileSound ==
  ASSUME Built, NEW c, Sound(N, config, c), ~IsFull(c),
         NEW r \in Nat, r = Len(c.stateList) \/ (r = 1 /\ c.stateList = <<>>),
         NEW s \in State(N), Proper(s, r), StateKey(s) \notin DOMAIN c.states,
         NEW d, FiledIn(N, c, r, s, d)
  PROVE  Sound(N, config, d) /\ Len(c.flatTrans) <= Len(d.flatTrans)
  <1> DEFINE key == StateKey(s)
             L == Len(d.flatTrans)
  <1>1. /\ Typed(N, config, c) /\ Numbered(c) /\ Registered(N, config, c) /\ Entered(N, c)
        /\ Len(c.stateList) \in Nat /\ Len(c.flatTrans) \in Nat /\ ~TableFills(N, config, c)
    <2>1. Typed(N, config, c) /\ Numbered(c) /\ Registered(N, config, c) /\ Entered(N, c)
      BY DEF Sound
    <2>2. ~TableFills(N, config, c)
      BY <2>1, FilledIsFull
    <2>3. Len(c.stateList) \in Nat /\ Len(c.flatTrans) \in Nat
      BY <2>1 DEF Typed
    <2> QED BY <2>1, <2>2, <2>3
  <1>2. /\ d = [states |-> d.states, stateList |-> d.stateList, flatTrans |-> d.flatTrans,
                startTable |-> d.startTable, nextRow |-> d.nextRow, clearCount |-> d.clearCount]
        /\ d.states = FiledAs(c.states, key, r)
        /\ d.flatTrans = Padded(c.flatTrans, r + 1, UnknownRow)
        /\ d.startTable = c.startTable /\ d.nextRow = r + 1 /\ d.clearCount = c.clearCount
    BY DEF FiledIn
  <1>3. /\ d.stateList \in Seq(State(N)) /\ Len(d.stateList) = r + 1 /\ d.stateList[r + 1] = s
        /\ \A j \in 1..Len(c.stateList) : d.stateList[j] = c.stateList[j]
        /\ \A j \in 1..(r + 1) : j \notin 1..Len(c.stateList) /\ j # r + 1 => d.stateList[j] = NoState
    BY DEF FiledIn
  <1>4. /\ \A j \in 1..Len(c.stateList) : j \in 1..(r + 1) /\ j # r + 1
        /\ r + 1 \in 1..(r + 1)
        /\ \A j \in 1..(r + 1) : j \in 1..Len(c.stateList) \/ j = r + 1
                                 \/ (r = 1 /\ c.stateList = <<>> /\ j = 1)
    BY <1>1
  <1>5. /\ DOMAIN d.states = DOMAIN c.states \cup {key} /\ d.states[key] = r
        /\ \A x \in DOMAIN c.states : d.states[x] = c.states[x] /\ x # key
    <2> HIDE DEF key
    <2> QED BY <1>2 DEF FiledAs, key
  <1>6. L = Longer(Len(c.flatTrans), r + 1) /\ Len(c.flatTrans) <= L /\ r + 1 <= L /\ L \in Nat
        /\ d.flatTrans \in Seq([Classes(N) -> IDs(L)])
    <2> DEFINE m == Longer(Len(c.flatTrans), r + 1)
               T == [Classes(N) -> IDs(m)]
               new == r + 1
    <2>1. m \in Nat /\ Len(c.flatTrans) <= m /\ new <= m /\ new \in Nat
      BY <1>1 DEF Longer
    <2>2. IDs(Len(c.flatTrans)) \subseteq IDs(m)
      <3> HIDE DEF m
      <3> QED BY <1>1, <2>1, WiderIDs
    <2>3. c.flatTrans \in Seq(T)
      <3>1. \A k \in 1..Len(c.flatTrans) : c.flatTrans[k] \in [Classes(N) -> IDs(Len(c.flatTrans))]
        BY <1>1 DEF Typed
      <3>2. \A k \in 1..Len(c.flatTrans) : c.flatTrans[k] \in T
        <4> HIDE DEF m
        <4> QED BY <2>2, <3>1
      <3>3. c.flatTrans \in Seq([Classes(N) -> IDs(Len(c.flatTrans))])
        BY <1>1 DEF Typed
      <3> HIDE DEF T
      <3> QED BY <3>2, <3>3
    <2>4. UnknownRow \in T
      <3> HIDE DEF m
      <3> QED BY <2>1, SpecialTypes DEF UnknownRow
    <2> HIDE DEF m, T, new
    <2>5. Padded(c.flatTrans, new, UnknownRow) \in Seq(T)
      BY <2>1, <2>3, <2>4, PaddedFacts DEF Fills
    <2>6. Len(Padded(c.flatTrans, new, UnknownRow)) = Longer(Len(c.flatTrans), new)
      BY <2>1, <2>3, <2>4, PaddedLength
    <2> QED BY <1>2, <2>1, <2>5, <2>6 DEF m, T, new
  <1> HIDE DEF L
  <1>7. Typed(N, config, d)
    <2>1. d.startTable \in [BOOLEAN -> [StartKind -> IDs(L)]]
      <3>1. c.startTable \in [BOOLEAN -> [StartKind -> IDs(Len(c.flatTrans))]]
        BY <1>1 DEF Typed
      <3>2. IDs(Len(c.flatTrans)) \subseteq IDs(L)
        BY <1>1, <1>6, WiderIDs
      <3> QED BY <1>2, <3>1, <3>2
    <2>2. IsFiniteSet(DOMAIN d.states)
      <3>1. IsFiniteSet(DOMAIN c.states)
        BY <1>1 DEF Typed
      <3> QED BY <1>5, <3>1, FS_AddElement
    <2>3. d.clearCount \in 0..config.maxCacheClears
      BY <1>1, <1>2 DEF Typed
    <2>4. Len(d.stateList) <= L
      BY <1>3, <1>6
    <2> QED BY <1>2, <1>3, <1>6, <2>1, <2>2, <2>3, <2>4 DEF Typed, L
  <1>8. Numbered(d)
    <2>1. d.stateList # <<>>
      BY <1>3
    <2>2. ASSUME NEW j \in 1..(r + 1)
          PROVE  (j = 1 /\ d.stateList[j] = NoState) \/ Proper(d.stateList[j], j - 1)
      <3>1. CASE j \in 1..Len(c.stateList)
        BY <1>1, <1>3, <3>1 DEF Numbered
      <3>2. CASE j = r + 1
        <4>1. j - 1 = r
          BY <3>2
        <4> QED BY <1>3, <3>2, <4>1
      <3>3. CASE j = 1 /\ j \notin 1..Len(c.stateList) /\ j # r + 1
        BY <1>3, <3>3
      <3> QED BY <1>4, <3>1, <3>2, <3>3
    <2> QED BY <1>2, <1>3, <2>1, <2>2 DEF Numbered
  <1>9. s # NoState
    BY ProperIsSomebody
  <1>10. Registered(N, config, d)
    <2>1. \A x \in DOMAIN c.states : c.states[x] \in Nat /\ Finds(c, x)
      BY <1>1 DEF Registered
    <2>2. ASSUME NEW x \in DOMAIN d.states PROVE d.states[x] \in Nat /\ Finds(d, x)
      <3>1. CASE x = key
        BY <1>3, <1>4, <1>5, <1>9, <3>1 DEF Finds
      <3>2. CASE x \in DOMAIN c.states
        <4>1. d.states[x] = c.states[x] /\ c.states[x] \in Nat /\ Finds(c, x)
          BY <1>5, <2>1, <3>2
        <4>2. c.states[x] + 1 \in 1..Len(c.stateList)
          BY <4>1 DEF Finds
        <4> QED BY <1>3, <1>4, <4>1, <4>2 DEF Finds
      <3> QED BY <1>5, <3>1, <3>2
    <2>3. \A j \in 1..Len(c.stateList) : FiledUnderKey(c, j)
      BY <1>1 DEF Registered
    <2>4. ASSUME NEW j \in 1..(r + 1) PROVE FiledUnderKey(d, j)
      <3>1. CASE j \in 1..Len(c.stateList)
        BY <1>3, <1>5, <2>3, <3>1 DEF FiledUnderKey
      <3>2. CASE j = r + 1
        <4>1. j - 1 = r
          BY <3>2
        <4> QED BY <1>3, <1>5, <3>2, <4>1 DEF FiledUnderKey
      <3>3. CASE j \notin 1..Len(c.stateList) /\ j # r + 1
        BY <1>3, <3>3 DEF FiledUnderKey
      <3> QED BY <3>1, <3>2, <3>3
    <2> QED BY <1>3, <2>2, <2>4 DEF Registered
  <1>11. Entered(N, d)
    <2> SUFFICES ASSUME NEW anchored \in BOOLEAN, NEW kind \in StartKind, NEW id,
                        id = c.startTable[anchored][kind], id # InvalidState
                 PROVE  StartsAt(N, d, id, kind, anchored)
      BY <1>2 DEF Entered
    <2>1. StartsAt(N, c, id, kind, anchored)
      BY <1>1 DEF Entered
    <2> QED BY <1>3, <1>4, <2>1 DEF StartsAt
  <1>12. Bounded(N, config, d)
    <2>1. Len(c.stateList) <= Len(c.flatTrans) /\ MemoryUsage(c) < config.capacity
      <3>1. MemoryUsage(c) \in Nat /\ config.capacity \in Nat
        BY <1>1, FilledIsFull, BuiltFacts
      <3>2. Len(c.stateList) <= Len(c.flatTrans)
        BY <1>1 DEF Typed
      <3> QED BY <3>1, <3>2 DEF IsFull
    <2>2. Len(d.flatTrans) <= Len(c.flatTrans) + 2 /\ Len(d.flatTrans) \in Nat
          /\ r + 1 <= Len(c.stateList) + 2
      <3>1. CASE r = Len(c.stateList)
        BY <1>1, <1>6, <2>1, <3>1 DEF L, Longer
      <3>2. CASE r = 1 /\ c.stateList = <<>>
        BY <1>1, <1>6, <2>1, <3>2 DEF L, Longer
      <3> QED BY <3>1, <3>2
    <2>3. Cardinality(DOMAIN d.states) = Cardinality(DOMAIN c.states) + 1
      <3>1. IsFiniteSet(DOMAIN c.states)
        BY <1>1 DEF Typed
      <3> HIDE DEF key
      <3> QED BY <1>5, <3>1, FS_AddElement DEF key
    <2>4. \E a \in Nat, b \in Nat :
            /\ IsSum(Lengths(c.stateList), Len(c.stateList), a)
            /\ TableBytes(N, c) + EntryBytes(c) + a <= MemoryUsage(c)
            /\ IsSum(Lengths(d.stateList), Len(d.stateList), b)
            /\ b <= a + 4 * Len(N.states)
      BY <1>1, <1>3, <1>4, LongerSum
    <2> QED BY <1>1, <1>3, <1>7, <2>1, <2>2, <2>3, <2>4, OneMoreBounded
  <1> QED BY <1>6, <1>7, <1>8, <1>10, <1>11, <1>12 DEF Sound, L

(* A transition is recorded in the table.                                  *)
LEMMA TransitionSound ==
  ASSUME Built, NEW c, Sound(N, config, c), NEW from \in AnyID, NEW b \in Byte,
         NEW to \in IDs(Len(c.flatTrans))
  PROVE  LET d == SetFlatTransition(c, from, b, to)
         IN  /\ Sound(N, config, d) /\ Len(d.flatTrans) = Len(c.flatTrans)
             /\ d.stateList = c.stateList /\ d.states = c.states /\ d.clearCount = c.clearCount
  <1> DEFINE d == SetFlatTransition(c, from, b, to)
             k == from.row + 1
             class == ByteToClass(N, b)
             flat == [c.flatTrans EXCEPT ![k][class] = to]
             L == Len(c.flatTrans)
  <1>1. /\ Typed(N, config, c) /\ Numbered(c) /\ Registered(N, config, c) /\ Entered(N, c)
        /\ L \in Nat /\ class \in Classes(N) /\ from.row \in Nat
        /\ c.flatTrans \in Seq([Classes(N) -> IDs(L)])
    BY BuiltFacts DEF Sound, Typed, AnyID
  <1>2. CASE ~(from.row < L)
    BY <1>1, <1>2 DEF SetFlatTransition
  <1>3. CASE from.row < L
    <2>1. d = [c EXCEPT !.flatTrans[k][class] = to]
      BY <1>3 DEF SetFlatTransition
    <2>2. k \in 1..L
      BY <1>1, <1>3
    <2>3. flat \in Seq([Classes(N) -> IDs(L)]) /\ Len(flat) = L
      <3> DEFINE row == [c.flatTrans[k] EXCEPT ![class] = to]
                 T == [Classes(N) -> IDs(L)]
      <3>1. c.flatTrans[k] \in T
        BY <1>1, <2>2
      <3>2. row \in T
        BY <1>1, <3>1
      <3>3. flat = [c.flatTrans EXCEPT ![k] = row]
        OBVIOUS
      <3> HIDE DEF row, T, k
      <3>4. [c.flatTrans EXCEPT ![k] = row] \in Seq(T) /\ Len([c.flatTrans EXCEPT ![k] = row]) = L
        <4>1. c.flatTrans \in Seq(T)
          BY <1>1 DEF T
        <4> QED BY <2>2, <3>2, <4>1
      <3> QED BY <3>3, <3>4 DEF T
    <2>4. c = [states |-> c.states, stateList |-> c.stateList, flatTrans |-> c.flatTrans,
               startTable |-> c.startTable, nextRow |-> c.nextRow, clearCount |-> c.clearCount]
      BY <1>1 DEF Typed
    <2>5. d = [states |-> c.states, stateList |-> c.stateList, flatTrans |-> flat,
               startTable |-> c.startTable, nextRow |-> c.nextRow, clearCount |-> c.clearCount]
      BY <2>1, <2>4
    <2> HIDE DEF flat, d
    <2>6. Typed(N, config, d)
      BY <1>1, <2>3, <2>5 DEF Typed
    <2>7. Numbered(d) /\ Entered(N, d)
      <3>1. /\ d.stateList = c.stateList /\ d.startTable = c.startTable /\ d.nextRow = c.nextRow
            /\ d.states = c.states
        BY <2>5
      <3>2. Numbered(d)
        BY <1>1, <3>1 DEF Numbered
      <3>3. Entered(N, d)
        <4> SUFFICES ASSUME NEW anchored \in BOOLEAN, NEW kind \in StartKind,
                            d.startTable[anchored][kind] # InvalidState
                     PROVE  StartsAt(N, d, d.startTable[anchored][kind], kind, anchored)
          BY DEF Entered
        <4>1. StartsAt(N, c, c.startTable[anchored][kind], kind, anchored)
          BY <1>1, <3>1 DEF Entered
        <4> QED BY <3>1, <4>1 DEF StartsAt
      <3> QED BY <3>2, <3>3
    <2>8. Registered(N, config, d)
      BY <1>1, <2>3, <2>5 DEF Registered, Finds, FiledUnderKey, TableFills
    <2>9. Bounded(N, config, d)
      <3>1. c.stateList \in Seq(State(N)) /\ Bounded(N, config, c)
        BY DEF Sound, Typed
      <3>2. d.stateList = c.stateList /\ d.states = c.states /\ Len(d.flatTrans) = Len(c.flatTrans)
        BY <2>3, <2>5
      <3> QED BY <3>1, <3>2, BoundedAlike
    <2> QED BY <2>3, <2>5, <2>6, <2>7, <2>8, <2>9 DEF Sound, d
  <1> QED BY <1>2, <1>3
(* Insert and Register together file a state.                              *)
LEMMA InsertFiles ==
  ASSUME Built, NEW c, Typed(N, config, c),
         NEW s \in State(N), NEW t \in State(N), StateKey(t) = StateKey(s),
         NEW r \in Nat, InsertedID(c, s).row = r, t.id.row = r,
         Len(c.stateList) <= r,
         (IF s.id = InvalidState THEN c.nextRow + 1 ELSE c.nextRow) = r + 1
  PROVE  FiledIn(N, c, r, t, Register(Insert(c, s), t))
  <1> DEFINE e == Insert(c, s)
             d == Register(e, t)
  <1>1. c = [states |-> c.states, stateList |-> c.stateList, flatTrans |-> c.flatTrans,
             startTable |-> c.startTable, nextRow |-> c.nextRow, clearCount |-> c.clearCount]
        /\ c.stateList \in Seq(State(N)) /\ Len(c.stateList) \in Nat
    BY DEF Typed
  <1>2. e = [states |-> FiledAs(c.states, StateKey(s), r), stateList |-> c.stateList,
             flatTrans |-> Padded(c.flatTrans, r + 1, UnknownRow),
             startTable |-> c.startTable, nextRow |-> r + 1, clearCount |-> c.clearCount]
    <2>1. e = [c EXCEPT !.states = FiledAs(c.states, StateKey(s), r),
                        !.flatTrans = Padded(c.flatTrans, r + 1, UnknownRow),
                        !.nextRow = r + 1]
      BY DEF Insert
    <2> HIDE DEF e
    <2> QED BY <1>1, <2>1
  <1> HIDE DEF e
  <1>3. RegisterWrites(N, e, t, d)
    BY <1>1, <1>2, RegisterFacts
  <1> HIDE DEF d
  <1>4. d = [e EXCEPT !.stateList = d.stateList]
    BY <1>3 DEF RegisterWrites
  <1>5. d = [states |-> FiledAs(c.states, StateKey(t), r), stateList |-> d.stateList,
             flatTrans |-> Padded(c.flatTrans, r + 1, UnknownRow),
             startTable |-> c.startTable, nextRow |-> r + 1, clearCount |-> c.clearCount]
    BY <1>2, <1>4
  <1>6. e.stateList = c.stateList
    BY <1>2
  <1>7. /\ d.stateList \in Seq(State(N)) /\ Len(d.stateList) = Longer(Len(c.stateList), r + 1)
        /\ d.stateList[r + 1] = t
        /\ \A j \in 1..Len(c.stateList) : j # r + 1 => d.stateList[j] = c.stateList[j]
        /\ \A j \in 1..Len(d.stateList) :
             j \notin 1..Len(c.stateList) /\ j # r + 1 => d.stateList[j] = NoState
    BY <1>3, <1>6 DEF RegisterWrites
  <1>8. Len(d.stateList) = r + 1
    BY <1>1, <1>7 DEF Longer
  <1>9. \A j \in 1..Len(c.stateList) : j # r + 1
    BY <1>1
  <1> QED BY <1>5, <1>7, <1>8, <1>9 DEF FiledIn, d, e
-----------------------------------------------------------------------------
(* A cache that has grown: every state is still in its row, whatever else  *)
(* it got, and the rows that were added lead nowhere yet.                  *)
SameState(s, t) ==
  /\ s # NoState <=> t # NoState
  /\ s.nfaStates = t.nfaStates /\ s.isMatch = t.isMatch /\ s.isFromWord = t.isFromWord

Grown(c, d) ==
  /\ d.clearCount = c.clearCount
  /\ Len(c.stateList) <= Len(d.stateList)
  /\ \A k \in 1..Len(c.stateList) : SameState(c.stateList[k], d.stateList[k])
  /\ c.stateList = <<>> /\ d.stateList # <<>> => d.stateList[1] = NoState
  /\ Len(d.flatTrans) = Longer(Len(c.flatTrans), Len(d.stateList))
  /\ \A k \in 1..Len(c.flatTrans) : d.flatTrans[k] = c.flatTrans[k]
  /\ \A k \in 1..Len(d.flatTrans) : k \notin 1..Len(c.flatTrans) => d.flatTrans[k] = UnknownRow

(* A cache has grown by nothing.                                           *)
LEMMA GrownByNothing ==
  ASSUME NEW n, NEW cfg, NEW c, Typed(n, cfg, c)
  PROVE  Grown(c, c)
  <1>1. /\ Len(c.stateList) \in Nat /\ Len(c.flatTrans) \in Nat
        /\ Len(c.stateList) <= Len(c.flatTrans)
    BY DEF Typed
  <1>2. Len(c.flatTrans) = Longer(Len(c.flatTrans), Len(c.stateList))
    BY <1>1 DEF Longer
  <1> QED BY <1>1, <1>2 DEF Grown, SameState

(* It has grown when a state was replaced by one with the same NFA states. *)
LEMMA GrownByReplacing ==
  ASSUME NEW n, NEW cfg, NEW c, Typed(n, cfg, c), NEW k \in 1..Len(c.stateList), NEW s, NEW d,
         c.stateList[k] # NoState, Replaces(c, k, s, d), s.nfaStates = c.stateList[k].nfaStates,
         s.isMatch = c.stateList[k].isMatch, s.isFromWord = c.stateList[k].isFromWord
  PROVE  Grown(c, d)
  <1>1. /\ Len(c.stateList) \in Nat /\ Len(c.flatTrans) \in Nat
        /\ Len(c.stateList) <= Len(c.flatTrans)
    BY DEF Typed
  <1>2. /\ d.flatTrans = c.flatTrans /\ d.clearCount = c.clearCount
        /\ Len(d.stateList) = Len(c.stateList)
    BY DEF Replaces
  <1>3. Len(d.flatTrans) = Longer(Len(c.flatTrans), Len(d.stateList))
    BY <1>1, <1>2 DEF Longer
  <1>4. \A j \in 1..Len(c.stateList) : SameState(c.stateList[j], d.stateList[j])
    BY DEF Replaces, SameState
  <1>5. c.stateList # <<>>
    BY <1>1
  <1> QED BY <1>1, <1>2, <1>3, <1>4, <1>5 DEF Grown

(* Naming a start state after it has grown is of no account.               *)
LEMMA GrownAndEntered ==
  ASSUME NEW c, NEW d, NEW e, Grown(c, d), Enters(d, e)
  PROVE  Grown(c, e)
  BY DEF Grown, Enters

(* It has grown by a state that was filed.                                 *)
LEMMA GrownByFiling ==
  ASSUME Built, NEW c, Typed(N, config, c), NEW r \in Nat, r # 0,
         r = Len(c.stateList) \/ (r = 1 /\ c.stateList = <<>>),
         NEW s, NEW d, FiledIn(N, c, r, s, d)
  PROVE  Grown(c, d)
  <1> DEFINE L == Len(c.flatTrans)
             new == r + 1
             T == [Classes(N) -> IDs(L)]
             flat == c.flatTrans
             unknown == UnknownRow
  <1>1. /\ Len(c.stateList) \in Nat /\ L \in Nat /\ flat \in Seq(T) /\ new \in Nat
    BY DEF Typed
  <1>2. unknown \in T
    <2> HIDE DEF L
    <2> QED BY <1>1, SpecialTypes DEF UnknownRow
  <1>3. /\ d.clearCount = c.clearCount /\ d.flatTrans = Padded(flat, new, unknown)
        /\ Len(d.stateList) = new
        /\ \A j \in 1..Len(c.stateList) : d.stateList[j] = c.stateList[j]
    <2>1. d = [states |-> d.states, stateList |-> d.stateList,
               flatTrans |-> Padded(flat, new, unknown), startTable |-> d.startTable,
               nextRow |-> d.nextRow, clearCount |-> c.clearCount]
      BY DEF FiledIn
    <2>2. d.clearCount = c.clearCount /\ d.flatTrans = Padded(flat, new, unknown)
      BY <2>1
    <2> QED BY <2>2 DEF FiledIn
  <1>4. Len(c.stateList) <= new
    BY <1>1
  <1> HIDE DEF T, unknown, new, flat
  <1>5. Len(d.flatTrans) = Longer(Len(flat), new)
    BY <1>1, <1>2, <1>3, PaddedLength
  <1>6. Fills(T, flat, new, unknown, d.flatTrans)
    BY <1>1, <1>2, <1>3, PaddedFacts
  <1>7. /\ \A k \in 1..Len(flat) : d.flatTrans[k] = flat[k]
        /\ \A k \in 1..new : k \notin 1..Len(flat) => d.flatTrans[k] = unknown
    BY <1>6 DEF Fills
  <1>8. \A k \in 1..Len(d.flatTrans) : k \notin 1..Len(flat) => k \in 1..new
    BY <1>1, <1>5 DEF Longer, flat
  <1>9. c.stateList = <<>> /\ d.stateList # <<>> => d.stateList[1] = NoState
    <2> SUFFICES ASSUME c.stateList = <<>>
                 PROVE  d.stateList[1] = NoState
      OBVIOUS
    <2>3. r = 1
      OBVIOUS
    <2>1. Len(d.stateList) = 2 /\ Len(c.stateList) = 0
      BY <1>3, <2>3 DEF new
    <2>2. 1 \in 1..Len(d.stateList) /\ 1 \notin 1..Len(c.stateList) /\ 1 # r + 1
      BY <2>1, <2>3
    <2> QED BY <2>2 DEF FiledIn
  <1> QED BY <1>3, <1>4, <1>5, <1>7, <1>8, <1>9 DEF Grown, SameState, flat, unknown, new

-----------------------------------------------------------------------------
(* Start states.                                                           *)

(* A start state holds the state it starts at, and no match yet.           *)
LEMMA StartStateFacts ==
  ASSUME Built, NEW id \in AnyID, NEW kind \in StartKind, NEW anchored \in BOOLEAN
  PROVE  LET s == ComputeStartState(id, kind, anchored)
         IN  /\ s \in State(N) /\ s.id = id /\ ~s.isMatch
             /\ s.nfaStates = StartOf(N, kind, anchored) /\ s.nfaStates # <<>>
             /\ StartOf(N, kind, anchored) = StartStates(kind, anchored)
             /\ s.isFromWord = (kind = "Word")
  <1> DEFINE s == ComputeStartState(id, kind, anchored)
             first == IF anchored THEN N.startAnchored ELSE N.startUnanchored
             word == kind = "Word"
  <1>1. Validate(N)
    BY BuiltFacts
  <1>2. <<first>> \in Seq(NfaIDs(N)) /\ <<first>> # <<>>
    <2>1. first \in NfaIDs(N)
      BY <1>1 DEF Validate, NfaIDs
    <2> HIDE DEF first
    <2> QED BY <2>1
  <1>3. StartOf(N, kind, anchored) = EpsilonClosure(N, <<first>>, LookSetFromStartKind(kind))
        /\ StartStates(kind, anchored) = StartOf(N, kind, anchored)
    BY DEF StartOf, StartStates
  <1> HIDE DEF first
  <1>4. StartOf(N, kind, anchored) \in Lists(N) /\ StartOf(N, kind, anchored) # <<>>
    BY <1>1, <1>2, <1>3, EpsilonClosureType
  <1>5. s = [id |-> id, nfaStates |-> StartOf(N, kind, anchored), isMatch |-> FALSE,
             isFromWord |-> word, matchAtWordBoundary |-> FALSE,
             matchAtNonWordBoundary |-> FALSE, accelBytes |-> {}, accelChecked |-> FALSE]
    BY <1>3 DEF ComputeStartState, NewState
  <1>7. word \in BOOLEAN /\ {} \in FewBytes
    BY SpecialTypes
  <1> HIDE DEF s, word
  <1>6. s \in State(N)
    BY <1>4, <1>5, <1>7 DEF State, StateRecord, FlagsHold
  <1> QED BY <1>3, <1>4, <1>5, <1>6 DEF s, word

(* A state that got the start tag.                                         *)
LEMMA TaggedFacts ==
  ASSUME NEW n, NEW s \in State(n)
  PROVE  LET t == [s EXCEPT !.id = WithStartTag(@)]
         IN  /\ t \in State(n) /\ t.id = WithStartTag(s.id)
             /\ t.id = [row |-> s.id.row, tag |-> s.id.tag \cup {"start"}]
             /\ t.nfaStates = s.nfaStates /\ t.isMatch = s.isMatch /\ t.isFromWord = s.isFromWord
             /\ t.accelBytes = s.accelBytes /\ StateKey(t) = StateKey(s)
  <1> DEFINE t == [s EXCEPT !.id = WithStartTag(@)]
             id == [row |-> s.id.row, tag |-> s.id.tag \cup {"start"}]
  <1>1. s.id \in AnyID
    BY StateFields
  <1>2. WithStartTag(s.id) = id /\ id \in AnyID
    BY <1>1 DEF WithStartTag, AnyID
  <1>3. t = [s EXCEPT !.id = id]
    BY <1>2
  <1> HIDE DEF t, id
  <1>4. t \in State(n) /\ t.id = id /\ t.nfaStates = s.nfaStates /\ t.isMatch = s.isMatch
        /\ t.isFromWord = s.isFromWord /\ t.accelBytes = s.accelBytes
    BY <1>2, <1>3, Renumbered
  <1>5. StateKey(t) = StateKey(s)
    BY <1>4 DEF StateKey
  <1> QED BY <1>2, <1>4, <1>5 DEF t, id

(* What an operation on cache c leaves: a sound cache, with rows that      *)
(* were there, and an ID of it.                                            *)
Leaves(c, d, id) ==
  /\ Sound(N, config, d) /\ Len(c.flatTrans) <= Len(d.flatTrans)
  /\ id \in IDs(Len(d.flatTrans))

(* A start state that is in the cache is entered in the start table.      *)
LEMMA StoredStartSound ==
  ASSUME NEW n, NEW cfg, NEW d, Sound(n, cfg, d), NEW kind \in StartKind, NEW anchored \in BOOLEAN,
         NEW k \in 1..Len(d.stateList), NEW t \in State(n), d.stateList[k] = t, Proper(t, k - 1),
         "start" \in t.id.tag, ToSet(t.nfaStates) = ToSet(StartOf(n, kind, anchored)),
         t.isFromWord = (kind = "Word"), ~t.isMatch
  PROVE  /\ Sound(n, cfg, [d EXCEPT !.startTable[anchored][kind] = t.id])
         /\ Enters(d, [d EXCEPT !.startTable[anchored][kind] = t.id])
         /\ t.id \in IDs(Len(d.flatTrans)) /\ StartsAt(n, d, t.id, kind, anchored)
  <1>1. Len(d.stateList) \in Nat /\ Len(d.flatTrans) \in Nat /\ Len(d.stateList) <= Len(d.flatTrans)
    BY DEF Sound, Typed
  <1>2. t.id \in AnyID /\ t.id.row = k - 1 /\ t.id.row + 1 = k
    BY StateFields DEF Proper
  <1>3. t.id \in IDs(Len(d.flatTrans))
    BY <1>1, <1>2 DEF AnyID, IDs
  <1>4. StartsAt(n, d, t.id, kind, anchored)
    BY <1>2, ProperIsSomebody DEF StartsAt
  <1>5. /\ Sound(n, cfg, [d EXCEPT !.startTable[anchored][kind] = t.id])
        /\ Enters(d, [d EXCEPT !.startTable[anchored][kind] = t.id])
    <2> DEFINE id == t.id
    <2>1. id \in IDs(Len(d.flatTrans)) /\ StartsAt(n, d, id, kind, anchored)
      BY <1>3, <1>4
    <2> HIDE DEF id
    <2>2. /\ Sound(n, cfg, [d EXCEPT !.startTable[anchored][kind] = id])
          /\ Enters(d, [d EXCEPT !.startTable[anchored][kind] = id])
      BY <2>1, EnterSound
    <2> QED BY <2>2 DEF id
  <1> QED BY <1>3, <1>4, <1>5

(* getStartState keeps the cache sound, whether the state was there, is    *)
(* stored, is stored after a clear or cannot be stored, and leaves an ID   *)
(* the table has.                                                          *)
LEMMA GetStartStateSound ==
  ASSUME Built, NEW c, Sound(N, config, c), NEW kind \in StartKind, NEW anchored \in BOOLEAN
  PROVE  LET r == GetStartState(c, kind, anchored)
         IN  /\ Leaves(c, r.cache, r.id) /\ Grown(c, r.cache)
             /\ r.id = InvalidState \/ StartsAt(N, r.cache, r.id, kind, anchored)
  <1> DEFINE r == GetStartState(c, kind, anchored)
             known == c.startTable[anchored][kind]
             state == ComputeStartState(InvalidState, kind, anchored)
             key == StateKey(state)
             tag(s) == [s EXCEPT !.id = WithStartTag(@)]
             stored(s, c1) ==
               [cache |-> [Register(c1, tag(s)) EXCEPT !.startTable[anchored][kind] = tag(s).id],
                id |-> tag(s).id]
             L == Len(c.flatTrans)
             found == r.id = InvalidState \/ StartsAt(N, r.cache, r.id, kind, anchored)
  <1> SUFFICES Leaves(c, r.cache, r.id) /\ Grown(c, r.cache) /\ found
    OBVIOUS
  <1>0. InvalidState \in AnyID /\ state \in State(N) /\ state.id = InvalidState /\ ~state.isMatch
        /\ state.nfaStates = StartOf(N, kind, anchored) /\ state.nfaStates # <<>>
        /\ state.isFromWord = (kind = "Word")
    <2>1. InvalidState \in AnyID
      BY DEF InvalidState, ID, AnyID
    <2> QED BY <2>1, StartStateFacts
  <1> HIDE DEF state
  <1>1. /\ Typed(N, config, c) /\ Numbered(c) /\ Registered(N, config, c) /\ Entered(N, c)
        /\ Len(c.stateList) \in Nat /\ L \in Nat /\ Len(c.stateList) <= L
        /\ c.stateList \in Seq(State(N))
    BY DEF Sound, Typed
  <1>2. known \in IDs(L) /\ known \in AnyID
    BY <1>1, WiderIDs DEF Typed
  <1>3. CASE known # InvalidState
    <2>1. r = [cache |-> c, id |-> GetState(c, known).id]
      BY <1>3 DEF GetStartState, state
    <2>2. StartsAt(N, c, known, kind, anchored)
      BY <1>1, <1>3 DEF Entered
    <2>3. known.row + 1 \in 1..Len(c.stateList) /\ c.stateList[known.row + 1].id = known
          /\ c.stateList[known.row + 1] # NoState
      BY <2>2 DEF StartsAt
    <2>4. known.tag \cap {"invalid", "dead"} = {} /\ known.row < Len(c.stateList)
      <3>1. Proper(c.stateList[known.row + 1], (known.row + 1) - 1)
        BY <1>1, <2>3 DEF Numbered
      <3>2. known.tag \in SUBSET {"match", "start"}
        BY <2>3, <3>1 DEF Proper
      <3>3. known.row < Len(c.stateList)
        BY <1>1, <1>2, <2>3 DEF AnyID
      <3> QED BY <3>2, <3>3
    <2>5. GetState(c, known) = c.stateList[known.row + 1]
      BY <1>1, <1>2, <2>4 DEF GetState, AnyID
    <2>6. r.cache = c /\ r.id = known
      <3>1. GetState(c, known).id = known
        BY <2>3, <2>5
      <3> QED BY <2>1, <3>1
    <2> HIDE DEF r, known
    <2>7. found
      BY <2>2, <2>6
    <2> HIDE DEF found
    <2> QED BY <1>1, <1>2, <2>1, <2>3, <2>5, <2>7, GrownByNothing DEF Leaves
  <1>4. CASE known = InvalidState /\ key \in DOMAIN c.states
    <2> DEFINE k == c.states[key] + 1
               s == c.stateList[k]
               t == tag(s)
               d == Register(c, t)
    <2>1. r = stored(s, c)
      BY <1>4 DEF GetStartState, state
    <2>2. k \in 1..Len(c.stateList) /\ s # NoState /\ StateKey(s) = key /\ s \in State(N)
      BY <1>1, <1>4 DEF Registered, Finds
    <2>3. /\ t \in State(N) /\ t.id = WithStartTag(s.id) /\ t.nfaStates = s.nfaStates
          /\ t.isMatch = s.isMatch /\ t.isFromWord = s.isFromWord
          /\ t.id = [row |-> s.id.row, tag |-> s.id.tag \cup {"start"}]
      <3> HIDE DEF s
      <3> QED BY <2>2, TaggedFacts
    <2>4. r = [cache |-> [d EXCEPT !.startTable[anchored][kind] = t.id], id |-> t.id]
      BY <2>1
    <2>5. /\ ToSet(s.nfaStates) = ToSet(StartOf(N, kind, anchored))
          /\ s.isFromWord = (kind = "Word") /\ ~s.isMatch
      <3>1. /\ ToSet(state.nfaStates) = ToSet(s.nfaStates) /\ state.isFromWord = s.isFromWord
            /\ state.isMatch = s.isMatch
        BY <2>2 DEF StateKey
      <3> QED BY <1>0, <3>1
    <2>6. Proper(s, k - 1)
      BY <1>1, <2>2 DEF Numbered
    <2> HIDE DEF t, s, k, d, r
    <2>7. Sound(N, config, d) /\ Replaces(c, k, t, d)
      BY <2>2, <2>3, ReplaceSound DEF s, d
    <2>8. d.flatTrans = c.flatTrans /\ k \in 1..Len(d.stateList) /\ d.stateList[k] = t
      BY <2>2, <2>7 DEF Replaces
    <2>9. Proper(t, k - 1) /\ "start" \in t.id.tag
      BY <2>3, <2>6 DEF Proper
    <2>10. /\ Sound(N, config, [d EXCEPT !.startTable[anchored][kind] = t.id])
           /\ Enters(d, [d EXCEPT !.startTable[anchored][kind] = t.id])
           /\ t.id \in IDs(Len(d.flatTrans)) /\ StartsAt(N, d, t.id, kind, anchored)
      <3>1. /\ ToSet(t.nfaStates) = ToSet(StartOf(N, kind, anchored))
            /\ t.isFromWord = (kind = "Word") /\ ~t.isMatch
        BY <2>3, <2>5
      <3>2. t \in State(N)
        BY <2>3
      <3>3. /\ Sound(N, config, d) /\ k \in 1..Len(d.stateList) /\ d.stateList[k] = t
            /\ Proper(t, k - 1) /\ "start" \in t.id.tag
        BY <2>7, <2>8, <2>9
      <3> QED BY <3>1, <3>2, <3>3, StoredStartSound
    <2>11. r.cache = [d EXCEPT !.startTable[anchored][kind] = t.id] /\ r.id = t.id
      BY <2>4
    <2>12. Grown(c, d)
      BY <1>1, <2>2, <2>3, <2>7, GrownByReplacing DEF s
    <2> HIDE DEF L
    <2>13. Leaves(c, r.cache, r.id)
      BY <1>1, <2>8, <2>10, <2>11 DEF Leaves, Enters, L
    <2>14. Grown(c, r.cache)
      BY <2>10, <2>11, <2>12, GrownAndEntered
    <2>15. found
      BY <2>10, <2>11 DEF Enters, StartsAt
    <2> QED BY <2>13, <2>14, <2>15
  <1>5. CASE known = InvalidState /\ key \notin DOMAIN c.states /\ IsFull(c)
    <2>1. r = [cache |-> c, id |-> InvalidState]
      BY <1>5 DEF GetStartState, state
    <2>2. InvalidState \in IDs(L)
      BY <1>1, SpecialTypes
    <2>3. r.cache = c /\ r.id = InvalidState
      BY <2>1
    <2> HIDE DEF r
    <2> QED BY <1>1, <2>2, <2>3, GrownByNothing DEF Leaves
  <1>6. CASE known = InvalidState /\ key \notin DOMAIN c.states /\ ~IsFull(c)
    <2> DEFINE s == [state EXCEPT !.id = InsertedID(c, state)]
               t == tag(s)
               row == c.nextRow
               d == Register(Insert(c, state), t)
    <2>1. r = stored(s, Insert(c, state))
      BY <1>6 DEF GetStartState, state
    <2>2. r = [cache |-> [d EXCEPT !.startTable[anchored][kind] = t.id], id |-> t.id]
      BY <2>1
    <2>5. row \in Nat /\ row # 0 /\ (row = Len(c.stateList) \/ (row = 1 /\ c.stateList = <<>>))
          /\ Len(c.stateList) <= row
      BY <1>1 DEF Numbered
    <2>6. InsertedID(c, state) = [row |-> row, tag |-> {}]
      BY <1>0 DEF InsertedID, ID
    <2>7. s \in State(N) /\ s.id = [row |-> row, tag |-> {}] /\ s.nfaStates = state.nfaStates
          /\ s.isMatch = state.isMatch /\ s.isFromWord = state.isFromWord /\ StateKey(s) = key
      <3>1. [row |-> row, tag |-> {}] \in AnyID
        BY <2>5 DEF AnyID
      <3> HIDE DEF row
      <3>2. s \in State(N) /\ s.id = [row |-> row, tag |-> {}] /\ s.nfaStates = state.nfaStates
            /\ s.isMatch = state.isMatch /\ s.isFromWord = state.isFromWord
        <4> DEFINE id == InsertedID(c, state)
        <4>1. id \in AnyID /\ id = [row |-> row, tag |-> {}]
          BY <2>6, <3>1
        <4>2. state \in State(N)
          BY <1>0
        <4>4. s = [state EXCEPT !.id = id]
          OBVIOUS
        <4> HIDE DEF id, s
        <4>3. s \in State(N) /\ s.id = id /\ s.nfaStates = state.nfaStates
              /\ s.isMatch = state.isMatch /\ s.isFromWord = state.isFromWord
          BY <4>1, <4>2, <4>4, Renumbered
        <4> QED BY <4>1, <4>3
      <3> QED BY <3>2 DEF StateKey
    <2> HIDE DEF s
    <2>8. t \in State(N) /\ t.id = [row |-> s.id.row, tag |-> s.id.tag \cup {"start"}]
          /\ t.nfaStates = s.nfaStates /\ t.isMatch = s.isMatch /\ t.isFromWord = s.isFromWord
          /\ StateKey(t) = StateKey(s)
      BY <2>7, TaggedFacts
    <2> HIDE DEF t, d, r, row
    <2>9. Proper(t, row) /\ "start" \in t.id.tag /\ t.id.row = row
      BY <1>0, <2>5, <2>7, <2>8 DEF Proper
    <2>10. FiledIn(N, c, row, t, d)
      BY <1>0, <1>1, <2>5, <2>6, <2>7, <2>8, <2>9, InsertFiles DEF d, row
    <2>12. StateKey(t) \notin DOMAIN c.states
      BY <1>6, <2>7, <2>8
    <2>13. Sound(N, config, d) /\ L <= Len(d.flatTrans)
      BY <1>6, <2>5, <2>8, <2>9, <2>10, <2>12, FileSound
    <2>14. row + 1 \in 1..Len(d.stateList) /\ d.stateList[row + 1] = t /\ (row + 1) - 1 = row
      BY <2>5, <2>10 DEF FiledIn
    <2>15. /\ Sound(N, config, [d EXCEPT !.startTable[anchored][kind] = t.id])
           /\ Enters(d, [d EXCEPT !.startTable[anchored][kind] = t.id])
           /\ t.id \in IDs(Len(d.flatTrans)) /\ StartsAt(N, d, t.id, kind, anchored)
      <3>1. /\ ToSet(t.nfaStates) = ToSet(StartOf(N, kind, anchored))
            /\ t.isFromWord = (kind = "Word") /\ ~t.isMatch
        BY <1>0, <2>7, <2>8
      <3> DEFINE k == row + 1
      <3>2. k \in 1..Len(d.stateList) /\ d.stateList[k] = t /\ Proper(t, k - 1)
        BY <2>9, <2>14
      <3>3. t \in State(N) /\ "start" \in t.id.tag /\ Sound(N, config, d)
        BY <2>8, <2>9, <2>13
      <3> HIDE DEF k
      <3> QED BY <3>1, <3>2, <3>3, StoredStartSound
    <2>16. Grown(c, d)
      BY <1>1, <2>5, <2>10, GrownByFiling
    <2>17. r.cache = [d EXCEPT !.startTable[anchored][kind] = t.id] /\ r.id = t.id
      BY <2>2
    <2>18. found
      BY <2>15, <2>17 DEF Enters, StartsAt
    <2> QED BY <2>13, <2>15, <2>16, <2>17, <2>18, GrownAndEntered DEF Leaves, Enters
  <1> QED BY <1>3, <1>4, <1>5, <1>6
(* A clear empties all the tables but the rows, and is counted.            *)
LEMMA ClearedFields ==
  ASSUME NEW n, NEW cfg, NEW c, Typed(n, cfg, c)
  PROVE  ClearKeepMemory(c) =
           [states |-> <<>>, stateList |-> <<>>, flatTrans |-> c.flatTrans,
            startTable |-> NewStartTable, nextRow |-> 1, clearCount |-> c.clearCount + 1]
  <1> DEFINE e == ClearKeepMemory(c)
  <1>1. c = [states |-> c.states, stateList |-> c.stateList, flatTrans |-> c.flatTrans,
             startTable |-> c.startTable, nextRow |-> c.nextRow, clearCount |-> c.clearCount]
    BY DEF Typed
  <1>2. e = [c EXCEPT !.states = <<>>, !.stateList = <<>>, !.startTable = NewStartTable,
                      !.nextRow = 1, !.clearCount = c.clearCount + 1]
    BY DEF ClearKeepMemory
  <1> HIDE DEF e
  <1>3. e = [states |-> <<>>, stateList |-> <<>>, flatTrans |-> c.flatTrans,
             startTable |-> NewStartTable, nextRow |-> 1, clearCount |-> c.clearCount + 1]
    BY <1>1, <1>2
  <1> QED BY <1>3 DEF e

(* Clearing the cache leaves the start state in row 0.                     *)
LEMMA TryClearSound ==
  ASSUME Built, NEW c, Sound(N, config, c), c.flatTrans # <<>>, MayClear(c)
  PROVE  Leaves(c, TryClearCache(c), InvalidState)
  <1> DEFINE e == ClearKeepMemory(c)
             s == ComputeStartState(ID(0, {}), "Text", FALSE)
             t == [s EXCEPT !.id = WithStartTag(@)]
             inserted == IF IsFull(e) THEN e ELSE Insert(e, s)
             d == Register(inserted, t)
             L == Len(c.flatTrans)
  <1>1. TryClearCache(c) = [d EXCEPT !.startTable[FALSE]["Text"] = t.id]
    BY DEF TryClearCache
  <1>2. /\ Typed(N, config, c) /\ L \in Nat /\ L >= 1
        /\ c.flatTrans \in Seq([Classes(N) -> IDs(L)])
    BY DEF Sound, Typed
  <1>3. ID(0, {}) \in AnyID /\ ID(0, {}) # InvalidState /\ ID(0, {}) = [row |-> 0, tag |-> {}]
        /\ "Text" \in StartKind
    BY DEF ID, AnyID, InvalidState, StartKind
  <1>4. /\ s \in State(N) /\ s.id = [row |-> 0, tag |-> {}] /\ s.id # InvalidState /\ ~s.isMatch
        /\ s.nfaStates = StartOf(N, "Text", FALSE) /\ s.nfaStates # <<>>
        /\ s.isFromWord = ("Text" = "Word")
    BY <1>3, StartStateFacts
  <1> HIDE DEF s
  <1>5. /\ t \in State(N) /\ t.id = [row |-> 0, tag |-> {"start"}]
        /\ t.nfaStates = s.nfaStates /\ t.isMatch = s.isMatch /\ t.isFromWord = s.isFromWord
        /\ StateKey(t) = StateKey(s)
    <2>1. t.id = [row |-> s.id.row, tag |-> s.id.tag \cup {"start"}]
      BY <1>4, TaggedFacts
    <2>2. s.id.tag \cup {"start"} = {"start"} /\ s.id.row = 0
      BY <1>4
    <2> HIDE DEF t
    <2> QED BY <1>4, <2>1, <2>2, TaggedFacts DEF t
  <1>6. Proper(t, 0) /\ t.id.row = 0 /\ "start" \in t.id.tag
    <2> HIDE DEF t
    <2>1. t.id.row = 0 /\ t.id.tag = {"start"}
      BY <1>5
    <2>2. ~t.isMatch /\ t.nfaStates # <<>>
      BY <1>4, <1>5
    <2> QED BY <2>1, <2>2 DEF Proper
  <1> HIDE DEF t
  <1>7. e = [states |-> <<>>, stateList |-> <<>>, flatTrans |-> c.flatTrans,
             startTable |-> NewStartTable, nextRow |-> 1, clearCount |-> c.clearCount + 1]
    BY <1>2, ClearedFields
  <1> HIDE DEF e
  <1>8. Sound(N, config, e)
    <2>1. Typed(N, config, e)
      <3>1. NewStartTable \in [BOOLEAN -> [StartKind -> IDs(L)]]
        BY <1>2, SpecialTypes DEF NewStartTable
      <3>2. c.clearCount + 1 \in 0..config.maxCacheClears
        BY <1>2, BuiltFacts DEF Typed, MayClear
      <3>3. IsFiniteSet(DOMAIN <<>>) /\ <<>> \in Seq(State(N)) /\ Len(<<>>) <= L
        BY <1>2, FS_EmptySet
      <3> HIDE DEF L
      <3> QED BY <1>2, <1>7, <3>1, <3>2, <3>3 DEF Typed, L
    <2>2. Numbered(e)
      BY <1>7 DEF Numbered
    <2>3. Registered(N, config, e)
      BY <1>7 DEF Registered
    <2>4. Entered(N, e)
      BY <1>7 DEF Entered, NewStartTable
    <2>5. Bounded(N, config, e)
      <3>1. TableBytes(N, c) < config.capacity + 8 * AlphabetLen(N)
        BY DEF Sound, Bounded
      <3>2. e.states = <<>> /\ e.stateList = <<>> /\ e.flatTrans = c.flatTrans
        BY <1>7
      <3>3. TableBytes(N, c) \in Nat /\ TableBytes(N, e) = TableBytes(N, c)
        BY <1>2, <3>2, WeighedAtLeast DEF TableBytes
      <3> QED BY <3>1, <3>2, <3>3, EmptyBounded
    <2> QED BY <2>1, <2>2, <2>3, <2>4, <2>5 DEF Sound
  <1>9. Sound(N, config, d) /\ L <= Len(d.flatTrans) /\ 1 \in 1..Len(d.stateList) /\ d.stateList[1] = t
    <2>1. CASE IsFull(e)
      <3>1. TableFills(N, config, e)
        <4>1. MemoryUsage(e) = L * Stride * 4 + 0 * 8 + Cardinality({}) * 48 + HeldBytes(<<>>)
          BY <1>7 DEF MemoryUsage
        <4>2. HeldBytes(<<>>) = 0 /\ Cardinality({}) = 0
          <5>1. <<>> \in Seq(State(N)) /\ Len(<<>>) = 0
            OBVIOUS
          <5>2. IsSum(Held(<<>>), 0, HeldBytes(<<>>))
            BY <5>1, HeldBytesIsSum
          <5> QED BY <5>2, FS_EmptySet DEF IsSum
        <4>3. L * Stride * 4 \in Nat
          <5>1. Stride \in Nat
            BY BuiltFacts
          <5>2. \A x, y \in Nat : x * y * 4 \in Nat
            OBVIOUS
          <5> QED BY <1>2, <5>1, <5>2
        <4>4. MemoryUsage(e) = L * Stride * 4
          BY <4>1, <4>2, <4>3
        <4> QED BY <1>7, <2>1, <4>4, BuiltFacts DEF IsFull, TableFills
      <3>2. d = Register(e, t)
        BY <2>1
      <3>3. RegisterWrites(N, e, t, d)
        <4>1. e.stateList \in Seq(State(N)) /\ "stateList" \in DOMAIN e
          BY <1>7
        <4> QED BY <1>5, <3>2, <4>1, RegisterFacts
      <3> HIDE DEF d
      <3>4. d = [states |-> <<>>, stateList |-> d.stateList, flatTrans |-> c.flatTrans,
                 startTable |-> NewStartTable, nextRow |-> 1, clearCount |-> c.clearCount + 1]
        BY <1>7, <3>3 DEF RegisterWrites
      <3>5. d.stateList \in Seq(State(N)) /\ Len(d.stateList) = 1 /\ d.stateList[1] = t
        <4>1. Len(e.stateList) = 0 /\ t.id.row + 1 = 1
          BY <1>6, <1>7
        <4>2. Longer(0, 1) = 1
          BY DEF Longer
        <4> QED BY <3>3, <4>1, <4>2 DEF RegisterWrites
      <3>6. Typed(N, config, d)
        <4>1. Typed(N, config, e)
          BY <1>8 DEF Sound
        <4>2. Len(d.stateList) <= Len(d.flatTrans)
          BY <1>2, <3>4, <3>5
        <4> QED BY <1>7, <3>4, <3>5, <4>1, <4>2 DEF Typed
      <3>7. Numbered(d)
        <4>1. d.stateList # <<>>
          BY <3>5
        <4> QED BY <1>6, <3>4, <3>5, <4>1 DEF Numbered
      <3>8. Registered(N, config, d)
        BY <1>7, <3>1, <3>4, <3>5 DEF Registered, TableFills
      <3>9. Entered(N, d)
        BY <3>4 DEF Entered, NewStartTable
      <3>10. Bounded(N, config, d)
        <4>1. TableBytes(N, e) < config.capacity + 8 * AlphabetLen(N)
          BY <1>8 DEF Sound, Bounded
        <4>2. TableBytes(N, d) = TableBytes(N, e) /\ d.states = <<>>
          BY <1>7, <3>4 DEF TableBytes
        <4>3. TableBytes(N, e) \in Nat
          BY <1>8, WeighedAtLeast DEF Sound
        <4> QED BY <3>5, <4>1, <4>2, <4>3, OneStateBounded
      <3> QED BY <1>2, <3>4, <3>5, <3>6, <3>7, <3>8, <3>9, <3>10 DEF Sound
    <2>2. CASE ~IsFull(e)
      <3>1. d = Register(Insert(e, s), t)
        BY <2>2
      <3> HIDE DEF d
      <3>2. InsertedID(e, s).row = 0
        BY <1>4 DEF InsertedID
      <3>3. FiledIn(N, e, 0, t, d)
        <4>1. Typed(N, config, e) /\ Len(e.stateList) = 0 /\ e.nextRow = 1
          BY <1>7, <1>8 DEF Sound
        <4> QED BY <1>4, <1>5, <1>6, <3>1, <3>2, <4>1, InsertFiles
      <3>5. Len(e.stateList) = 0 /\ StateKey(t) \notin DOMAIN e.states /\ Len(e.flatTrans) = L
        BY <1>7
      <3>6. Sound(N, config, d) /\ L <= Len(d.flatTrans)
        BY <1>5, <1>6, <1>8, <2>2, <3>3, <3>5, FileSound
      <3>7. Len(d.stateList) = 1 /\ d.stateList[1] = t
        BY <3>3 DEF FiledIn
      <3> QED BY <3>6, <3>7
    <2> QED BY <2>1, <2>2
  <1> HIDE DEF d
  <1>10. /\ Sound(N, config, [d EXCEPT !.startTable[FALSE]["Text"] = t.id])
         /\ Enters(d, [d EXCEPT !.startTable[FALSE]["Text"] = t.id])
    <2> DEFINE k == 1
    <2>1. k \in 1..Len(d.stateList) /\ d.stateList[k] = t /\ Proper(t, k - 1)
      BY <1>6, <1>9
    <2>2. /\ ToSet(t.nfaStates) = ToSet(StartOf(N, "Text", FALSE))
          /\ t.isFromWord = ("Text" = "Word") /\ ~t.isMatch
      BY <1>4, <1>5
    <2> HIDE DEF k
    <2> QED BY <1>3, <1>5, <1>6, <1>9, <2>1, <2>2, StoredStartSound
  <1>11. InvalidState \in IDs(Len(d.flatTrans))
    <2>1. Len(d.flatTrans) \in Nat
      BY <1>9 DEF Sound, Typed
    <2> QED BY <2>1, SpecialTypes
  <1> QED BY <1>1, <1>9, <1>10, <1>11 DEF Leaves, Enters
-----------------------------------------------------------------------------
(* determinize                                                             *)

(* The state a step leads to is new: it has no ID, and the key of what the *)
(* construction returned.                                                  *)
LEMMA NewStateFacts ==
  ASSUME Built, NEW s \in State(N), NEW b
  PROVE  LET next == NextState(s, b)
             new == WithBoundaryFlags(NewState(InvalidState, next))
         IN  /\ next \in [nfaStates : Lists(N), isFromWord : BOOLEAN, isMatch : BOOLEAN]
             /\ new \in State(N) /\ new.id = InvalidState /\ StateKey(new) = StateKey(next)
             /\ new.nfaStates = next.nfaStates /\ new.isMatch = next.isMatch
             /\ new.isFromWord = next.isFromWord /\ new.accelBytes = {}
  <1> DEFINE next == NextState(s, b)
             plain == NewState(InvalidState, next)
             new == WithBoundaryFlags(plain)
  <1>1. next \in [nfaStates : Lists(N), isFromWord : BOOLEAN, isMatch : BOOLEAN]
    <2>1. s.nfaStates \in Lists(N)
      BY StateFields
    <2> QED BY <2>1, BuiltFacts, SuccessorType DEF NextState
  <1> HIDE DEF next
  <1>2. plain = [id |-> InvalidState, nfaStates |-> next.nfaStates, isMatch |-> next.isMatch,
                 isFromWord |-> next.isFromWord, matchAtWordBoundary |-> FALSE,
                 matchAtNonWordBoundary |-> FALSE, accelBytes |-> {}, accelChecked |-> FALSE]
    BY DEF NewState
  <1> HIDE DEF plain
  <1> DEFINE flagged(yes, no) ==
               [id |-> InvalidState, nfaStates |-> next.nfaStates, isMatch |-> next.isMatch,
                isFromWord |-> next.isFromWord, matchAtWordBoundary |-> yes,
                matchAtNonWordBoundary |-> no, accelBytes |-> {}, accelChecked |-> FALSE]
  <1> DEFINE holds(flag, satisfied) ==
               flag => /\ HasWordBoundary(N)
                       /\ ContainsMatchState(N, ResolveWordBoundaries(N, next.nfaStates, satisfied))
  <1>3. \E yes, no \in BOOLEAN :
          new = flagged(yes, no) /\ holds(yes, TRUE) /\ holds(no, FALSE)
    <2> DEFINE yes == ContainsMatchState(N, ResolveWordBoundaries(N, plain.nfaStates, TRUE))
               no == ContainsMatchState(N, ResolveWordBoundaries(N, plain.nfaStates, FALSE))
    <2>1. yes \in BOOLEAN /\ no \in BOOLEAN
      BY DEF ContainsMatchState
    <2>2. \/ /\ new = [plain EXCEPT !.matchAtWordBoundary = yes, !.matchAtNonWordBoundary = no]
             /\ HasWordBoundary(N)
          \/ new = plain
      BY DEF WithBoundaryFlags
    <2>3. HasWordBoundary(N) => holds(yes, TRUE) /\ holds(no, FALSE)
      BY <1>2
    <2>4. holds(FALSE, TRUE) /\ holds(FALSE, FALSE)
      OBVIOUS
    <2> HIDE DEF new, yes, no, holds
    <2>5. (new = flagged(yes, no) /\ HasWordBoundary(N)) \/ new = flagged(FALSE, FALSE)
      BY <1>2, <2>2
    <2> QED BY <2>1, <2>3, <2>4, <2>5
  <1> HIDE DEF new
  <1>4. PICK yes \in BOOLEAN, no \in BOOLEAN :
          new = flagged(yes, no) /\ holds(yes, TRUE) /\ holds(no, FALSE)
    BY <1>3
  <1>5. new = [id |-> InvalidState, nfaStates |-> next.nfaStates, isMatch |-> next.isMatch,
               isFromWord |-> next.isFromWord, matchAtWordBoundary |-> yes,
               matchAtNonWordBoundary |-> no, accelBytes |-> {}, accelChecked |-> FALSE]
    BY <1>4
  <1>6. InvalidState \in AnyID /\ {} \in FewBytes
    BY SpecialTypes DEF InvalidState, ID, AnyID
  <1>7. new \in State(N)
    <2>1. new \in StateRecord(N)
      BY <1>1, <1>5, <1>6 DEF StateRecord
    <2>2. new.nfaStates = next.nfaStates /\ new.matchAtWordBoundary = yes
          /\ new.matchAtNonWordBoundary = no
      BY <1>5
    <2>3. FlagsHold(N, new)
      BY <1>4, <2>2 DEF FlagsHold
    <2> QED BY <2>1, <2>3 DEF State
  <1>8. new.id = InvalidState /\ new.nfaStates = next.nfaStates /\ new.isMatch = next.isMatch
        /\ new.isFromWord = next.isFromWord /\ new.accelBytes = {}
    BY <1>5
  <1>9. StateKey(new) = StateKey(next)
    BY <1>8 DEF StateKey
  <1> QED BY <1>1, <1>7, <1>8, <1>9 DEF new, plain, next

(* A new state is filed in the next row.                                   *)
LEMMA StoredFiles ==
  ASSUME Built, NEW c, Sound(N, config, c), NEW new \in State(N), new.id = InvalidState,
         new.nfaStates # <<>> \/ new.isMatch
  PROVE  LET id == InsertedID(c, new)
             t == [new EXCEPT !.id = id]
             row == c.nextRow
         IN  /\ row \in Nat /\ row # 0 /\ (row = Len(c.stateList) \/ (row = 1 /\ c.stateList = <<>>))
             /\ id \in AnyID /\ id.row = row /\ id.tag = (IF new.isMatch THEN {"match"} ELSE {})
             /\ t \in State(N) /\ Proper(t, row) /\ StateKey(t) = StateKey(new)
             /\ t.nfaStates = new.nfaStates /\ t.isMatch = new.isMatch
             /\ t.isFromWord = new.isFromWord
             /\ FiledIn(N, c, row, t, Register(Insert(c, new), t))
  <1> DEFINE id == InsertedID(c, new)
             t == [new EXCEPT !.id = id]
             row == c.nextRow
             d == Register(Insert(c, new), t)
  <1>1. Typed(N, config, c) /\ Numbered(c) /\ Len(c.stateList) \in Nat
    BY DEF Sound, Typed
  <1>2. row \in Nat /\ row # 0 /\ (row = Len(c.stateList) \/ (row = 1 /\ c.stateList = <<>>))
        /\ Len(c.stateList) <= row
    BY <1>1 DEF Numbered
  <1>3. id = [row |-> row, tag |-> IF new.isMatch THEN {"match"} ELSE {}]
    BY DEF InsertedID, ID
  <1> HIDE DEF id, row
  <1>4. id \in AnyID /\ id.row = row /\ id.tag = IF new.isMatch THEN {"match"} ELSE {}
    BY <1>2, <1>3 DEF AnyID
  <1>5. t \in State(N) /\ t.id = id /\ t.nfaStates = new.nfaStates /\ t.isMatch = new.isMatch
        /\ t.isFromWord = new.isFromWord
    <2> DEFINE u == [new EXCEPT !.id = id]
    <2>1. u = [new EXCEPT !.id = id]
      OBVIOUS
    <2> HIDE DEF u
    <2>2. u \in State(N) /\ u.id = id /\ u.nfaStates = new.nfaStates /\ u.isMatch = new.isMatch
          /\ u.isFromWord = new.isFromWord
      BY <1>4, <2>1, Renumbered
    <2> QED BY <2>2 DEF u
  <1> HIDE DEF t
  <1>6. StateKey(t) = StateKey(new)
    BY <1>5 DEF StateKey
  <1>7. Proper(t, row) /\ t.id.row = row
    <2>1. new.isMatch \in BOOLEAN
      BY DEF State, StateRecord
    <2>2. t.id.row = row /\ t.id.tag = IF t.isMatch THEN {"match"} ELSE {}
      BY <1>4, <1>5
    <2> QED BY <1>5, <2>1, <2>2 DEF Proper
  <1>8. FiledIn(N, c, row, t, d)
    BY <1>1, <1>2, <1>4, <1>5, <1>6, <1>7, InsertFiles DEF id, row
  <1> HIDE DEF d
  <1> QED BY <1>2, <1>4, <1>5, <1>6, <1>7, <1>8 DEF id, row, t, d

(* A new state is filed and the transition to it recorded.                 *)
LEMMA StoredSound ==
  ASSUME Built, NEW c, Sound(N, config, c), c.flatTrans # <<>>, NEW from \in AnyID, NEW b \in Byte,
         NEW new \in State(N), new.id = InvalidState, StateKey(new) \notin DOMAIN c.states,
         new.nfaStates # <<>> \/ new.isMatch, NEW s, s.id = from
  PROVE  LET o == Stored(c, s, b, new, InsertedID(c, new))
         IN  Leaves(c, o.cache, o.id)
  <1> DEFINE id == InsertedID(c, new)
             o == Stored(c, s, b, new, id)
             t == [new EXCEPT !.id = id]
             row == c.nextRow
             d == Register(Insert(c, new), t)
  <1> SUFFICES Leaves(c, o.cache, o.id)
    OBVIOUS
  <1>1. Typed(N, config, c) /\ Len(c.flatTrans) \in Nat
    BY DEF Sound, Typed
  <1>2. CASE ~IsFull(c)
    <2>1. /\ row \in Nat /\ (row = Len(c.stateList) \/ (row = 1 /\ c.stateList = <<>>))
          /\ id \in AnyID /\ id.row = row
          /\ t \in State(N) /\ Proper(t, row) /\ StateKey(t) = StateKey(new)
          /\ FiledIn(N, c, row, t, d)
      BY StoredFiles
    <2>2. o.cache = SetFlatTransition(d, from, b, id) /\ o.id = id
      BY <1>2 DEF Stored, Outcome
    <2> HIDE DEF t, d, id, row, o
    <2>3. Sound(N, config, d) /\ Len(c.flatTrans) <= Len(d.flatTrans)
      BY <1>2, <2>1, FileSound
    <2>4. id \in IDs(Len(d.flatTrans))
      <3>1. Len(d.stateList) = row + 1
        BY <2>1 DEF FiledIn
      <3>2. Len(d.stateList) <= Len(d.flatTrans) /\ Len(d.flatTrans) \in Nat
        BY <2>3 DEF Sound, Typed
      <3>3. row <= Len(d.flatTrans)
        BY <2>1, <3>1, <3>2
      <3> QED BY <2>1, <3>2, <3>3 DEF IDs, AnyID
    <2>5. /\ Sound(N, config, SetFlatTransition(d, from, b, id))
          /\ Len(SetFlatTransition(d, from, b, id).flatTrans) = Len(d.flatTrans)
      BY <2>3, <2>4, TransitionSound
    <2> QED BY <2>2, <2>3, <2>4, <2>5 DEF Leaves
  <1>3. CASE IsFull(c) /\ MayClear(c)
    <2>1. o.cache = TryClearCache(c) /\ o.id = InvalidState
      BY <1>3 DEF Stored, Outcome
    <2> HIDE DEF o
    <2> QED BY <1>3, <2>1, TryClearSound
  <1>4. CASE IsFull(c) /\ ~MayClear(c)
    <2>1. o.cache = c /\ o.id = InvalidState
      BY <1>4 DEF Stored, Outcome
    <2>2. InvalidState \in IDs(Len(c.flatTrans))
      BY <1>1, SpecialTypes
    <2> HIDE DEF o
    <2> QED BY <1>1, <2>1, <2>2 DEF Leaves
  <1> QED BY <1>2, <1>3, <1>4

(* determinize keeps the cache sound, and so do the clears it may make.    *)
LEMMA DeterminizeSound ==
  ASSUME Built, NEW c, Sound(N, config, c), NEW k \in 1..Len(c.stateList),
         c.stateList[k] # NoState, NEW b \in Byte
  PROVE  LET o == DeterminizeInto(c, c.stateList[k], b)
         IN  Leaves(c, o.cache, o.id)
  <1> DEFINE s == c.stateList[k]
             o == DeterminizeInto(c, s, b)
             next == NextState(s, b)
             new == WithBoundaryFlags(NewState(InvalidState, next))
             key == StateKey(next)
             L == Len(c.flatTrans)
  <1> SUFFICES Leaves(c, o.cache, o.id)
    OBVIOUS
  <1>1. /\ Typed(N, config, c) /\ Numbered(c) /\ Registered(N, config, c)
        /\ Len(c.stateList) \in Nat /\ L \in Nat /\ Len(c.stateList) <= L
        /\ c.stateList \in Seq(State(N)) /\ c.flatTrans # <<>>
    BY DEF Sound, Typed
  <1>2. s \in State(N) /\ s.id \in AnyID
    <2>1. s \in State(N)
      BY <1>1
    <2> HIDE DEF s
    <2> QED BY <2>1 DEF State, StateRecord
  <1> HIDE DEF s
  <1>3. /\ next \in [nfaStates : Lists(N), isFromWord : BOOLEAN, isMatch : BOOLEAN]
        /\ new \in State(N) /\ new.id = InvalidState /\ StateKey(new) = key
        /\ new.nfaStates = next.nfaStates /\ new.isMatch = next.isMatch
    BY <1>2, NewStateFacts
  <1>4. o = Determined(c, s, b, next)
    BY DEF DeterminizeInto
  <1>5. InvalidState \in IDs(L) /\ DeadState \in IDs(L)
    BY <1>1, SpecialTypes
  <1> HIDE DEF o, L, next
  <1>6. CASE IsDeadEnd(next)
    <2>1. o.cache = SetFlatTransition(c, s.id, b, DeadState) /\ o.id = DeadState
      BY <1>4, <1>6 DEF Determined, Outcome
    <2>2. /\ Sound(N, config, SetFlatTransition(c, s.id, b, DeadState))
          /\ Len(SetFlatTransition(c, s.id, b, DeadState).flatTrans) = L
      BY <1>2, <1>5, TransitionSound DEF L
    <2> QED BY <1>1, <1>5, <2>1, <2>2 DEF Leaves, L
  <1>7. CASE ~IsDeadEnd(next) /\ Len(next.nfaStates) > config.determinizationLimit
    <2>1. o.cache = c /\ o.id = InvalidState
      BY <1>4, <1>7 DEF Determined, Outcome
    <2> QED BY <1>1, <1>5, <2>1 DEF Leaves, L
  <1>8. CASE ~IsDeadEnd(next) /\ ~(Len(next.nfaStates) > config.determinizationLimit)
    <2>1. o = Found(c, s, b, new, key)
      BY <1>4, <1>8 DEF Determined
    <2> HIDE DEF new, key
    <2>2. CASE key \in DOMAIN c.states
      <3> DEFINE to == c.stateList[c.states[key] + 1].id
      <3>1. o.cache = SetFlatTransition(c, s.id, b, to) /\ o.id = to
        BY <2>1, <2>2 DEF Found, Recorded, Outcome
      <3>2. to \in IDs(L)
        <4> DEFINE j == c.states[key] + 1
        <4>1. j \in 1..Len(c.stateList) /\ c.stateList[j] # NoState
          BY <1>1, <2>2 DEF Registered, Finds
        <4>2. c.stateList[j] \in State(N) /\ Proper(c.stateList[j], j - 1)
          BY <1>1, <4>1 DEF Numbered
        <4>3. to \in AnyID /\ to.row = j - 1
          BY <4>2 DEF State, StateRecord, Proper
        <4> HIDE DEF j, to
        <4>4. to.row \in 0..L
          BY <1>1, <4>1, <4>3
        <4> QED BY <4>3, <4>4 DEF AnyID, IDs
      <3> HIDE DEF to
      <3>3. /\ Sound(N, config, SetFlatTransition(c, s.id, b, to))
            /\ Len(SetFlatTransition(c, s.id, b, to).flatTrans) = L
        BY <1>2, <3>2, TransitionSound DEF L
      <3> QED BY <1>1, <3>1, <3>2, <3>3 DEF Leaves, L
    <2>3. CASE key \notin DOMAIN c.states
      <3>1. o = Stored(c, s, b, new, InsertedID(c, new))
        BY <2>1, <2>3 DEF Found
      <3>2. new.nfaStates # <<>> \/ new.isMatch
        BY <1>3, <1>8 DEF IsDeadEnd
      <3> QED BY <1>1, <1>2, <1>3, <2>3, <3>1, <3>2, StoredSound
    <2> QED BY <2>2, <2>3
  <1> QED BY <1>6, <1>7, <1>8
-----------------------------------------------------------------------------
(* What the invariant says of the cache.                                   *)

(* A sound cache has the types TypeOK asks for.                            *)
LEMMA SoundTypes ==
  ASSUME Built, Sound(N, config, cache)
  PROVE  CacheTypeOK
  <1>1. /\ Typed(N, config, cache) /\ Numbered(cache) /\ Len(cache.stateList) \in Nat
        /\ cache.stateList \in Seq(State(N)) /\ Len(cache.stateList) <= Len(cache.flatTrans)
        /\ cache.flatTrans \in Seq([Classes(N) -> IDs(Len(cache.flatTrans))])
        /\ Len(cache.flatTrans) \in Nat
    BY DEF Sound, Typed
  <1>2. StateIDs = IDs(Len(cache.flatTrans))
    BY DEF StateIDs, IDs
  <1>3. \A k \in DOMAIN cache.flatTrans : cache.flatTrans[k] \in [Classes(N) -> StateIDs]
    BY <1>1, <1>2
  <1>4. ASSUME NEW k \in DOMAIN cache.stateList PROVE cache.stateList[k].id \in StateIDs
    <2>1. k \in 1..Len(cache.stateList) /\ cache.stateList[k] \in State(N)
      BY <1>1
    <2>2. CASE cache.stateList[k] = NoState
      <3>1. cache.stateList[k].id = InvalidState
        BY <2>2, SpecialTypes
      <3> QED BY <1>1, <1>2, <3>1, SpecialTypes
    <2>3. CASE cache.stateList[k] # NoState
      <3> DEFINE id == cache.stateList[k].id
      <3>1. Proper(cache.stateList[k], k - 1)
        BY <1>1, <2>1, <2>3 DEF Numbered
      <3>2. id \in AnyID /\ id.row = k - 1
        BY <2>1, <3>1 DEF State, StateRecord, Proper
      <3> HIDE DEF id
      <3>3. id.row \in 0..Len(cache.flatTrans)
        BY <1>1, <2>1, <3>2
      <3>4. id \in StateIDs
        BY <1>2, <3>2, <3>3 DEF AnyID, IDs
      <3> QED BY <3>4 DEF id
    <2> QED BY <2>2, <2>3
  <1>5. cache.startTable \in [BOOLEAN -> [StartKind -> StateIDs]]
    BY <1>1, <1>2 DEF Typed
  <1>6. cache.nextRow \in Nat /\ cache.clearCount \in 0..config.maxCacheClears
    BY <1>1 DEF Typed, Numbered
  <1> QED BY <1>1, <1>3, <1>4, <1>5, <1>6 DEF CacheTypeOK

(* A sound cache agrees with itself.                                       *)
LEMMA SoundAgrees ==
  ASSUME Built, Sound(N, config, cache)
  PROVE  CacheAgrees
  <1> DEFINE list == cache.stateList
             at(id) == list[id.row + 1]
  <1>1. /\ Typed(N, config, cache) /\ Numbered(cache) /\ Registered(N, config, cache)
        /\ Entered(N, cache) /\ Len(list) \in Nat
        /\ list \in Seq(State(N)) /\ DOMAIN list = 1..Len(list)
    BY DEF Sound, Typed
  <1>2. ASSUME NEW id \in AnyID, id.row + 1 \in 1..Len(list), id.tag \cap {"invalid", "dead"} = {}
        PROVE  GetState(cache, id) = at(id)
    <2>1. ~(id.row >= Len(list))
      BY <1>1, <1>2 DEF AnyID
    <2> QED BY <1>2, <2>1 DEF GetState
  <1>3. ASSUME NEW key \in DOMAIN cache.states, NEW s,
               s = GetState(cache, ID(cache.states[key], {}))
        PROVE  StateKey(s) = key /\ s.id.row = cache.states[key]
    <2> DEFINE row == cache.states[key]
               k == row + 1
               id == ID(row, {})
    <2>1. row \in Nat /\ k \in 1..Len(list) /\ list[k] # NoState /\ StateKey(list[k]) = key
      BY <1>1 DEF Registered, Finds
    <2> HIDE DEF row
    <2>2. id \in AnyID /\ id.row = row /\ id.tag = {}
      BY <2>1 DEF ID, AnyID
    <2>3. s = list[k]
      <3> HIDE DEF id
      <3> QED BY <1>2, <1>3, <2>1, <2>2 DEF row, id
    <2>4. Proper(list[k], k - 1) /\ k - 1 = row
      BY <1>1, <2>1 DEF Numbered
    <2> QED BY <2>1, <2>3, <2>4 DEF Proper, row
  <1>4. ASSUME NEW j \in DOMAIN list, NEW k \in DOMAIN list, Filed(j),
               StateKey(list[j]) = StateKey(list[k])
        PROVE  j = k
    <2>1. j \in 1..Len(list) /\ k \in 1..Len(list) /\ list[j] # NoState
          /\ list[j] \in State(N) /\ list[k] \in State(N)
      BY <1>1, <1>4 DEF Filed
    <2>2. list[k] # NoState
      <3> SUFFICES ASSUME list[k] = NoState PROVE FALSE
        OBVIOUS
      <3> DEFINE s == list[j]
      <3>1. s \in State(N) /\ Proper(s, j - 1)
        BY <1>1, <2>1 DEF Numbered
      <3>2. StateKey(s) = StateKey(NoState)
        BY <1>4
      <3> HIDE DEF s
      <3>3. ToSet(s.nfaStates) = ToSet(NoState.nfaStates) /\ s.isMatch = NoState.isMatch
        BY <3>2 DEF StateKey
      <3>4. ToSet(s.nfaStates) = {} /\ ~s.isMatch
        <4>1. NoState.nfaStates = <<>> /\ ~NoState.isMatch
          BY SpecialTypes
        <4>2. ToSet(<<>>) = {}
          BY DEF ToSet
        <4> QED BY <3>3, <4>1, <4>2
      <3>5. s.nfaStates \in Seq(NfaIDs(N)) /\ s.nfaStates # <<>>
        BY <3>1, <3>4 DEF Proper, State, StateRecord, Lists
      <3>6. s.nfaStates[1] \in ToSet(s.nfaStates)
        BY <3>5 DEF ToSet
      <3> QED BY <3>4, <3>6
    <2>3. CASE \A i \in 1..Len(list) : FiledUnderKey(cache, i)
      <3>1. cache.states[StateKey(list[j])] = j - 1 /\ cache.states[StateKey(list[k])] = k - 1
        BY <2>1, <2>2, <2>3 DEF FiledUnderKey
      <3>2. j - 1 = k - 1
        BY <1>4, <3>1
      <3> QED BY <2>1, <3>2
    <2>4. CASE Len(list) = 1
      BY <2>1, <2>4
    <2> QED BY <1>1, <2>3, <2>4 DEF Registered
  <1>5. ASSUME NEW anchored \in BOOLEAN, NEW kind \in StartKind, NEW id,
               id = cache.startTable[anchored][kind], id # InvalidState
        PROVE  /\ GetState(cache, id).id = id /\ "start" \in id.tag
               /\ ToSet(GetState(cache, id).nfaStates) = ToSet(StartStates(kind, anchored))
    <2>1. StartsAt(N, cache, id, kind, anchored)
      BY <1>1, <1>5 DEF Entered
    <2>2. id.row + 1 \in 1..Len(list) /\ at(id) # NoState /\ at(id).id = id /\ "start" \in id.tag
          /\ ToSet(at(id).nfaStates) = ToSet(StartOf(N, kind, anchored))
      BY <2>1 DEF StartsAt
    <2>3. at(id) \in State(N) /\ Proper(at(id), (id.row + 1) - 1)
      BY <1>1, <2>2 DEF Numbered
    <2>4. id \in AnyID
      <3>1. Len(cache.flatTrans) \in Nat
        BY <1>1 DEF Typed
      <3>2. id \in IDs(Len(cache.flatTrans))
        BY <1>1, <1>5 DEF Typed
      <3> QED BY <3>1, <3>2, WiderIDs
    <2>5. id.tag \cap {"invalid", "dead"} = {}
      <3>1. id.tag \in SUBSET {"match", "start"}
        BY <2>2, <2>3 DEF Proper
      <3> QED BY <3>1
    <2>6. GetState(cache, id) = at(id)
      BY <1>2, <2>2, <2>4, <2>5
    <2>7. StartStates(kind, anchored) = StartOf(N, kind, anchored)
      BY DEF StartStates, StartOf
    <2> HIDE DEF at
    <2> QED BY <2>2, <2>6, <2>7
  <1> HIDE DEF at
  <1>6. \A key \in DOMAIN cache.states :
          LET s == GetState(cache, ID(cache.states[key], {}))
          IN  StateKey(s) = key /\ s.id.row = cache.states[key]
    BY <1>3
  <1> QED BY <1>4, <1>5, <1>6 DEF CacheAgrees

(* A cache that keeps within its bound is no heavier than it may be.       *)
LEMMA BoundedMemory ==
  ASSUME Built, Sound(N, config, cache)
  PROVE  MemoryBounded
  <1>1. Typed(N, config, cache) /\ Bounded(N, config, cache)
    BY DEF Sound
  <1>2. MemoryUsage(cache) < config.capacity + OneMore(N) + 3 * Len(cache.stateList)
    BY <1>1, BoundedUsage
  <1>3. OneMore(N) = 2 * (4 * Stride + 8) + 48 + 4 * Len(N.states)
    BY <1>1, BuiltFacts DEF OneMore, Stride, Validate
  <1>4. /\ config.capacity \in Nat /\ Stride \in Nat /\ Len(N.states) \in Nat
        /\ Len(cache.stateList) \in Nat
    BY <1>1, BuiltFacts DEF Validate, Typed
  <1> DEFINE usage == MemoryUsage(cache)
             one == 2 * (4 * Stride + 8)
             more == 4 * Len(N.states)
             exits == 3 * Len(cache.stateList)
  <1>5. one \in Nat /\ more \in Nat /\ exits \in Nat
    BY <1>4
  <1>6. usage < config.capacity + (one + 48 + more) + exits
    BY <1>2, <1>3
  <1>7. MemoryBounded <=> usage < config.capacity + one + 48 + more + exits
    BY DEF MemoryBounded
  <1> HIDE DEF usage, one, more, exits
  <1>8. config.capacity + (one + 48 + more) + exits = config.capacity + one + 48 + more + exits
    BY <1>4, <1>5
  <1> QED BY <1>6, <1>7, <1>8

(* The cache of a new DFA.                                                 *)
LEMMA NewCacheSound ==
  ASSUME Built
  PROVE  Sound(N, config, NewCache)
  <1>1. NewCache = [states |-> <<>>, stateList |-> <<>>, flatTrans |-> <<>>,
                    startTable |-> NewStartTable, nextRow |-> 1, clearCount |-> 0]
    BY DEF NewCache
  <1>2. NewStartTable \in [BOOLEAN -> [StartKind -> IDs(0)]]
    BY SpecialTypes DEF NewStartTable
  <1>3. 0 \in 0..config.maxCacheClears
    BY BuiltFacts
  <1>4. IsFiniteSet(DOMAIN <<>>) /\ <<>> \in Seq(State(N)) /\ <<>> \in Seq([Classes(N) -> IDs(0)])
    BY FS_EmptySet
  <1>5. Typed(N, config, NewCache)
    BY <1>1, <1>2, <1>3, <1>4 DEF Typed
  <1>6. Numbered(NewCache) /\ Registered(N, config, NewCache)
    BY <1>1 DEF Numbered, Registered
  <1>7. Entered(N, NewCache)
    BY <1>1 DEF Entered, NewStartTable
  <1>8. Bounded(N, config, NewCache)
    <2>1. TableBytes(N, NewCache) = 0
      BY <1>1, BuiltFacts DEF TableBytes
    <2>2. 0 < config.capacity + 8 * AlphabetLen(N)
      BY BuiltFacts
    <2>3. NewCache.states = <<>> /\ NewCache.stateList = <<>>
      BY <1>1
    <2> QED BY <2>1, <2>2, <2>3, EmptyBounded
  <1> QED BY <1>5, <1>6, <1>7, <1>8 DEF Sound
===============================================================================
