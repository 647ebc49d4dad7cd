------------------------------- MODULE DFACache -------------------------------
(***************************************************************************)
(* dfa/lazy: the DFA and the DFACache in which it is built while it is     *)
(* searched.  What is built stays for the next search of the same          *)
(* goroutine, until the cache is full and is cleared in the middle of one. *)
(* The searches themselves are in LazyDFA (forward) and ReverseScan.       *)
(***************************************************************************)
EXTENDS Determinize

CONSTANTS
  Automaton,   \* the compiled NFA of each pattern
  Literals,    \* the literals of its prefilter
  Config       \* Config[p]: the configurations a DFA of pattern p is built with

Pattern == DOMAIN Automaton

(* Config.Validate.                                                        *)
ValidConfig == [capacity : Nat, maxCacheClears : Nat,
                determinizationLimit : Nat \ {0}, breakAtMatch : BOOLEAN]

(* The automata are what the compiler builds, the configurations valid.    *)
ASSUME CacheAssumption ==
  \A p \in Pattern :
    /\ Validate(Automaton[p]) /\ Patched(Automaton[p]) /\ Classified(Automaton[p])
    /\ Config[p] \subseteq ValidConfig

VARIABLES
  dfa,        \* the DFA: immutable, made when the pattern is compiled
  cache       \* the DFACache

(* The DFA of pattern p: prefilter is the set of its literals (none: no    *)
(* prefilter), pikevm what its NFA fallback answers.                       *)
NewDFA(p, cfg, pikevm) ==
  [pattern |-> p, nfa |-> Automaton[p], config |-> cfg,
   prefilter |-> Literals[p], pikevm |-> pikevm]

N == dfa.nfa
config == dfa.config
Stride == AlphabetLen(N)

Minimum(S) == CHOOSE i \in S : \A j \in S : i <= j

(* The prefilter's next candidate at or after i: an occurrence of one of   *)
(* the literals a match begins with.                                       *)
HasPrefilter == dfa.prefilter # {}
OccursAt(literal, w, i) ==
  i + Len(literal) <= Len(w) /\ \A k \in DOMAIN literal : w[i + k] = literal[k]
Candidate(w, i) ==
  LET hits == {j \in i..Len(w) : \E l \in dfa.prefilter : OccursAt(l, w, j)}
  IN  IF hits = {} THEN -1 ELSE Minimum(hits)

-----------------------------------------------------------------------------
(* State IDs: a row of the transition table and tag bits.  The two special *)
(* values have offset 0, as in the code.                                   *)
ID(row, tag) == [row |-> row, tag |-> tag]
InvalidState == ID(0, {"invalid"})
DeadState == ID(0, {"dead"})
Tagged(id) == id.tag # {}
WithStartTag(id) == [id EXCEPT !.tag = @ \cup {"start"}]

NewState(id, s) ==
  [id |-> id, nfaStates |-> s.nfaStates, isMatch |-> s.isMatch,
   isFromWord |-> s.isFromWord, matchAtWordBoundary |-> FALSE,
   matchAtNonWordBoundary |-> FALSE, accelBytes |-> {}, accelChecked |-> FALSE]

NoState == [NewState(InvalidState, [nfaStates |-> <<>>, isMatch |-> FALSE,
                                    isFromWord |-> FALSE]) EXCEPT !.accelChecked = TRUE]

-----------------------------------------------------------------------------
(* The cache.  flatTrans is kept as a sequence of rows, states maps a key  *)
(* to the row of its state.                                                *)
NewStartTable == [anchored \in BOOLEAN |-> [kind \in StartKind |-> InvalidState]]

NewCache == [states |-> <<>>, stateList |-> <<>>, flatTrans |-> <<>>,
             startTable |-> NewStartTable, nextRow |-> 1, clearCount |-> 0]

GetState(c, id) ==
  IF id.tag \cap {"invalid", "dead"} # {} \/ id.row >= Len(c.stateList)
  THEN NoState ELSE c.stateList[id.row + 1]

(* The bytes that the states of a list hold.                               *)
HeldBytes(list) ==
  LET held[k \in 0..Len(list)] ==      \* by the first k states
        IF k = 0 THEN 0
        ELSE held[k - 1] + 4 * Len(list[k].nfaStates) + Cardinality(list[k].accelBytes)
  IN  held[Len(list)]

MemoryUsage(c) ==
  Len(c.flatTrans) * Stride * 4 + Len(c.stateList) * 8
  + Cardinality(DOMAIN c.states) * 48 + HeldBytes(c.stateList)

(* Mutant: the table alone is weighed.                                     *)
TableIsFull(c) == Len(c.flatTrans) * Stride * 4 >= config.capacity
IsFull(c) == MemoryUsage(c) >= config.capacity

UnknownRow == [class \in Classes(N) |-> InvalidState]

(* A sequence made at least n long.                                        *)
Padded(s, n, filler) == s \o [k \in 1..(n - Len(s)) |-> filler]

(* Insert and registerState for a state whose key is not in a cache that   *)
(* is not full: the state gets the next row, or keeps the ID it has.       *)
InsertedID(c, s) ==
  IF s.id # InvalidState THEN s.id
  ELSE ID(c.nextRow, IF s.isMatch THEN {"match"} ELSE {})

FiledAs(states, key, row) ==
  [k \in DOMAIN states \cup {key} |-> IF k = key THEN row ELSE states[k]]

Insert(c, s) ==
  LET id == InsertedID(c, s)
  IN  [c EXCEPT !.states = FiledAs(@, StateKey(s), id.row),
                !.flatTrans = Padded(@, id.row + 1, UnknownRow),
                !.nextRow = IF s.id = InvalidState THEN @ + 1 ELSE @]

Register(c, s) ==
  [c EXCEPT !.stateList = [Padded(@, s.id.row + 1, NoState) EXCEPT ![s.id.row + 1] = s]]

Transition(c, id, b) ==
  IF id.row < Len(c.flatTrans) THEN c.flatTrans[id.row + 1][ByteToClass(N, b)]
                               ELSE InvalidState

SetFlatTransition(c, from, b, to) ==
  IF from.row < Len(c.flatTrans)
  THEN [c EXCEPT !.flatTrans[from.row + 1][ByteToClass(N, b)] = to]
  ELSE c

(* Mutants: the start table is kept; the clear is not counted.             *)
ClearKeepStarts(c) ==
  [c EXCEPT !.states = <<>>, !.stateList = <<>>, !.nextRow = 1, !.clearCount = @ + 1]
ClearUncounted(c) ==
  [c EXCEPT !.states = <<>>, !.stateList = <<>>, !.startTable = NewStartTable,
            !.nextRow = 1]

(* The states, the state list and the start table are emptied; the rows of *)
(* flatTrans stay as they are.                                             *)
ClearKeepMemory(c) ==
  [c EXCEPT !.states = <<>>, !.stateList = <<>>, !.startTable = NewStartTable,
            !.nextRow = 1, !.clearCount = @ + 1]

-----------------------------------------------------------------------------
(* Start states.                                                           *)
StartStates(kind, anchored) ==
  EpsilonClosure(N, <<IF anchored THEN N.startAnchored ELSE N.startUnanchored>>,
                 LookSetFromStartKind(kind))

ComputeStartState(id, kind, anchored) ==
  NewState(id, [nfaStates |-> StartStates(kind, anchored), isMatch |-> FALSE,
                isFromWord |-> kind = "Word"])

(* getStartState: from the start table; else the state filed under the     *)
(* same key, or a new one, is tagged and entered in the table; when the    *)
(* cache is full the state is used without being stored.                   *)
GetStartState(c, kind, anchored) ==
  LET known == c.startTable[anchored][kind]
      state == ComputeStartState(InvalidState, kind, anchored)
      key == StateKey(state)
      stored(s, c1) ==
        LET tagged == [s EXCEPT !.id = WithStartTag(@)]
        IN  [cache |-> [Register(c1, tagged) EXCEPT !.startTable[anchored][kind] = tagged.id],
             id |-> tagged.id]
  IN  CASE known # InvalidState -> [cache |-> c, id |-> GetState(c, known).id]
        [] known = InvalidState /\ key \in DOMAIN c.states ->
             stored(c.stateList[c.states[key] + 1], c)
        [] known = InvalidState /\ key \notin DOMAIN c.states /\ IsFull(c) ->
             [cache |-> c, id |-> InvalidState]
        [] OTHER -> stored([state EXCEPT !.id = InsertedID(c, state)], Insert(c, state))

StartAt(c, w, i, anchored) ==
  GetStartState(c, IF i = 0 THEN "Text" ELSE StartKindOf(w[i]), anchored)

(* Mutant: one clear too many.                                             *)
MayClearAgain(c) == c.clearCount <= config.maxCacheClears
MayClear(c) == c.clearCount < config.maxCacheClears

(* tryClearCache: the cleared cache gets the unanchored start state of the *)
(* beginning of the text back, in row 0.                                   *)
TryClearCache(c) ==
  LET cleared == ClearKeepMemory(c)
      start == ComputeStartState(ID(0, {}), "Text", FALSE)
      tagged == [start EXCEPT !.id = WithStartTag(@)]
      inserted == IF IsFull(cleared) THEN cleared ELSE Insert(cleared, start)
  IN  [Register(inserted, tagged) EXCEPT !.startTable[FALSE]["Text"] = tagged.id]

-----------------------------------------------------------------------------
(* determinize                                                             *)
(* Mutant: what comes after a match state is searched on.                  *)
NextStateUnbroken(s, b) == Successor(N, s.nfaStates, s.isFromWord, b, FALSE)
NextState(s, b) == Successor(N, s.nfaStates, s.isFromWord, b, config.breakAtMatch)

WithBoundaryFlags(s) ==
  LET behind(satisfied) ==
        ContainsMatchState(N, ResolveWordBoundaries(N, s.nfaStates, satisfied))
  IN  IF HasWordBoundary(N) /\ ~s.isMatch
      THEN [s EXCEPT !.matchAtWordBoundary = behind(TRUE),
                     !.matchAtNonWordBoundary = behind(FALSE)]
      ELSE s

Outcome(kind, c, id) == [kind |-> kind, cache |-> c, id |-> id]

(* The new state is filed, if there is room.                               *)
Stored(c, s, b, new, id) ==
  IF ~IsFull(c)
  THEN Outcome("next", SetFlatTransition(Register(Insert(c, new), [new EXCEPT !.id = id]),
                                         s.id, b, id), id)
  ELSE IF MayClear(c) THEN Outcome("cleared", TryClearCache(c), InvalidState)
                      ELSE Outcome("failed", c, InvalidState)

Recorded(c, s, b, id) == Outcome("next", SetFlatTransition(c, s.id, b, id), id)

Found(c, s, b, new, key) ==
  IF key \in DOMAIN c.states THEN Recorded(c, s, b, c.stateList[c.states[key] + 1].id)
                             ELSE Stored(c, s, b, new, InsertedID(c, new))

Determined(c, s, b, next) ==
  CASE IsDeadEnd(next) ->
         Outcome("dead", SetFlatTransition(c, s.id, b, DeadState), DeadState)
    [] ~IsDeadEnd(next) /\ Len(next.nfaStates) > config.determinizationLimit ->
         Outcome("failed", c, InvalidState)
    [] OTHER ->
         Found(c, s, b, WithBoundaryFlags(NewState(InvalidState, next)), StateKey(next))

DeterminizeInto(c, s, b) == Determined(c, s, b, NextState(s, b))

-----------------------------------------------------------------------------
(* The tables of the cache and the IDs they hold are of their types.       *)
StateIDs == [row : 0..Len(cache.flatTrans), tag : SUBSET {"match", "start", "invalid", "dead"}]
CacheTypeOK ==
  /\ Len(cache.stateList) <= Len(cache.flatTrans)
  /\ \A k \in DOMAIN cache.flatTrans : cache.flatTrans[k] \in [Classes(N) -> StateIDs]
  /\ \A k \in DOMAIN cache.stateList : cache.stateList[k].id \in StateIDs
  /\ cache.startTable \in [BOOLEAN -> [StartKind -> StateIDs]]
  /\ cache.nextRow \in Nat /\ cache.clearCount \in 0..config.maxCacheClears

(* The parts of the cache agree, also after it was cleared in the middle   *)
(* of a search: a key finds the state it was computed from, no two rows    *)
(* hold the same state, and the start table finds the start state of its   *)
(* kind, tagged as one.                                                    *)
Filed(k) == cache.stateList[k] # NoState
CacheAgrees ==
  /\ \A key \in DOMAIN cache.states :
       LET s == GetState(cache, ID(cache.states[key], {}))
       IN  StateKey(s) = key /\ s.id.row = cache.states[key]
  /\ \A j, k \in DOMAIN cache.stateList :
       Filed(j) /\ StateKey(cache.stateList[j]) = StateKey(cache.stateList[k]) => j = k
  /\ \A anchored \in BOOLEAN, kind \in StartKind :
       LET id == cache.startTable[anchored][kind]
       IN  id # InvalidState =>
             /\ GetState(cache, id).id = id /\ "start" \in id.tag
             /\ ToSet(GetState(cache, id).nfaStates) = ToSet(StartStates(kind, anchored))

(* The capacity is looked at before a state is stored, so the cache        *)
(* outgrows it by one state at most (with the row nobody has, the first    *)
(* time) and the exit bytes found later.                                   *)
MemoryBounded ==
  MemoryUsage(cache) < config.capacity
    + 2 * (4 * Stride + 8) + 48 + 4 * Len(N.states) + 3 * Len(cache.stateList)
===============================================================================
