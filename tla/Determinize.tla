----------------------------- MODULE Determinize -----------------------------
(***************************************************************************)
(* The subset construction of dfa/lazy/builder.go over one compiled NFA.   *)
(* A set of NFA states is a sequence without repetitions: the order says   *)
(* which thread is preferred, and break-at-match cuts the sequence.  No    *)
(* RECURSIVE operator is used, so that theorems may be stated about the    *)
(* modules that build on this one.                                         *)
(***************************************************************************)
EXTENDS Integers, Sequences, SequencesExt, FiniteSets

StateAt(n, id) == n.states[id + 1]
IsMatchID(n, id) == StateAt(n, id).kind = "Match"

(* Builder.Validate: every target is a state of the NFA, or InvalidState.  *)
Validate(n) ==
  LET targets == -1..(Len(n.states) - 1)
  IN  /\ n.states \in Seq(ToSet(n.states))
      /\ {n.startAnchored, n.startUnanchored} \subseteq 0..(Len(n.states) - 1)
      /\ \A s \in ToSet(n.states) :
           /\ s.kind \in {"ByteRange", "Epsilon", "Capture", "Look"} => s.next \in targets
           /\ s.kind = "Split" => {s.left, s.right} \subseteq targets
           /\ s.kind = "Sparse" => \A k \in 1..Len(s.ranges) : s.ranges[k][3] \in targets

(* What compilation leaves: every transition on a byte was patched.        *)
Patched(n) ==
  \A s \in ToSet(n.states) :
    /\ s.kind = "ByteRange" => s.next >= 0
    /\ s.kind = "Sparse" => /\ s.ranges \in Seq(ToSet(s.ranges))
                           /\ \A k \in 1..Len(s.ranges) : s.ranges[k][3] >= 0

(* containsMatchState, containsNFAMatch                                    *)
ContainsMatchState(n, ids) == \E k \in DOMAIN ids : IsMatchID(n, ids[k])

-----------------------------------------------------------------------------
(* Bytes and their equivalence classes.                                    *)

Byte == 0..255
NewlineByte == 10
IsWordByte(b) == b \in 97..122 \/ b \in 65..90 \/ b \in 48..57 \/ b = 95

ByteToClass(n, b) == n.byteClasses[b]
AlphabetLen(n) == n.byteClasses[255] + 1
Classes(n) == 0..(AlphabetLen(n) - 1)

(* The ranges of bytes on which the automaton has transitions.             *)
ByteRanges(n) ==
  {<<s.lo, s.hi>> : s \in {t \in ToSet(n.states) : t.kind = "ByteRange"}}
  \cup UNION {{<<s.ranges[k][1], s.ranges[k][2]>> : k \in DOMAIN s.ranges} :
              s \in {t \in ToSet(n.states) : t.kind = "Sparse"}}

(* SetRange, ByteClassSet.ByteClasses: a class ends before and at the end  *)
(* of each range of a transition.  The classes are numbered in the order   *)
(* of their bytes, and none is empty.                                      *)
Classified(n) ==
  /\ n.byteClasses \in [Byte -> Byte]
  /\ {n.byteClasses[b] : b \in Byte} = Classes(n)
  /\ \A b, c \in Byte : b <= c => n.byteClasses[b] <= n.byteClasses[c]
  /\ \A r \in ByteRanges(n) :
       /\ r[1] \in Byte /\ r[2] \in Byte
       /\ r[1] > 0 => n.byteClasses[r[1] - 1] # n.byteClasses[r[1]]
       /\ r[2] < 255 => n.byteClasses[r[2]] # n.byteClasses[r[2] + 1]

(* The first byte of a class.                                              *)
Representative(n, class) ==
  CHOOSE b \in Byte : n.byteClasses[b] = class /\ (b = 0 \/ n.byteClasses[b - 1] # class)

-----------------------------------------------------------------------------
(* Assertions that hold at the start of a search, by what stands before    *)
(* it, and at the end of the input.                                        *)

StartKind == {"NonWord", "Word", "Text", "LineLF", "LineCR"}

StartKindOf(b) ==
  CASE b = NewlineByte -> "LineLF"
    [] b = 13 -> "LineCR"
    [] IsWordByte(b) -> "Word"
    [] OTHER -> "NonWord"

LookSetFromStartKind(kind) ==
  CASE kind = "Text" -> {"StartText", "StartLine"}
    [] kind = "LineLF" -> {"StartLine"}
    [] OTHER -> {}

LookSetForEOI == {"EndText", "EndLine"}
WordLooks == {"WordBoundary", "NoWordBoundary"}

HasLook(n, looks) ==
  \E k \in DOMAIN n.states : n.states[k].kind = "Look" /\ n.states[k].look \in looks
HasWordBoundary(n) == HasLook(n, WordLooks)
HasEndLine(n) == HasLook(n, {"EndLine"})

(* Bytes that no assertion of the automaton tells apart.                   *)
SameContext(n, b, c) ==
  /\ HasLook(n, {"StartLine", "EndLine"}) => (b = NewlineByte <=> c = NewlineByte)
  /\ HasWordBoundary(n) => (IsWordByte(b) <=> IsWordByte(c))

(* alphabet.go:10: bytes of one class "will never cause different          *)
(* transitions in any DFA state".  Only the transitions of the automaton   *)
(* make classes, so it takes that its assertions tell no bytes of a class  *)
(* apart.                                                                  *)
Separated(n, bytes) ==
  \A b, c \in bytes : ByteToClass(n, b) = ByteToClass(n, c) => SameContext(n, b, c)

-----------------------------------------------------------------------------
(* Where an epsilon closure goes on from a state: the preferred branch     *)
(* first; an assertion is passed when it is among those that hold.         *)
EpsilonSuccessors(n, id, have) ==
  LET s == StateAt(n, id)
      to(t) == IF t >= 0 THEN <<t>> ELSE <<>>
  IN  CASE s.kind \in {"Epsilon", "Capture"} -> to(s.next)
        [] s.kind = "Split" -> to(s.left) \o to(s.right)
        [] s.kind = "Look" /\ s.look \in have -> to(s.next)
        [] OTHER -> <<>>

(* epsilonClosureInto, one turn of its loop: the state on top of the stack *)
(* is added, unless it has been, and its successors are pushed.            *)
EpsilonClosureInto(n, have, closure) ==
  LET id == Head(closure.stack)
  IN  CASE closure.stack = <<>> -> closure
        [] closure.stack # <<>> /\ Contains(closure.ids, id) ->
             [closure EXCEPT !.stack = Tail(@)]
        [] OTHER -> [stack |-> EpsilonSuccessors(n, id, have) \o Tail(closure.stack),
                     ids |-> Append(closure.ids, id)]

(* The states reached from the seeds, depth first.  A seed is not looked   *)
(* at before the one in front of it is exhausted, so they may be on the    *)
(* stack together.  A state is expanded once and pushes two at most.       *)
EpsilonClosure(n, seeds, have) ==
  LET turns == Len(seeds) + 2 * Len(n.states)
      after[k \in 0..turns] ==
        IF k = 0 THEN [stack |-> seeds, ids |-> <<>>]
                 ELSE EpsilonClosureInto(n, have, after[k - 1])
  IN  after[turns].ids

(* The states of a set, sorted by ID.                                      *)
Sorted(n, S) == FlattenSeq([k \in DOMAIN n.states |-> IF k - 1 \in S THEN <<k - 1>> ELSE <<>>])

(* resolveWordBoundaries: what lies behind the word assertions that hold   *)
(* now is added, and then the whole set is sorted by ID; when none holds   *)
(* the set and its order stay as they are.                                 *)
ResolveWordBoundaries(n, ids, satisfied) ==
  LET holds == {IF satisfied THEN "WordBoundary" ELSE "NoWordBoundary"}
      behind == {StateAt(n, id).next : id \in {i \in ToSet(ids) :
                   StateAt(n, i).kind = "Look" /\ StateAt(n, i).look \in holds}} \ {-1}
      crossed == ToSet(EpsilonClosure(n, Sorted(n, behind), holds))
  IN  IF behind = {} THEN ids ELSE Sorted(n, ToSet(ids) \cup crossed)

-----------------------------------------------------------------------------
(* Where a state goes on byte b, in order.                                 *)
ByteTargets(n, id, b) ==
  LET s == StateAt(n, id)
  IN  CASE s.kind = "ByteRange" /\ b \in s.lo..s.hi -> <<s.next>>
        [] s.kind = "Sparse" ->
             FlattenSeq([k \in DOMAIN s.ranges |-> IF b \in s.ranges[k][1]..s.ranges[k][2]
                                                   THEN <<s.ranges[k][3]>> ELSE <<>>])
        [] OTHER -> <<>>

(* moveWithWordContextBreak: each target is closed into the result as soon *)
(* as it is found; breakAtMatch drops what comes after the match state.    *)
Move(n, ids, b, fromWord, breakAtMatch) ==
  LET resolved == IF HasWordBoundary(n)
                  THEN ResolveWordBoundaries(n, ids, fromWord # IsWordByte(b))
                  ELSE ids
      cut == SelectInSeq(resolved, LAMBDA id : IsMatchID(n, id))
      threads == IF breakAtMatch /\ cut > 0 THEN SubSeq(resolved, 1, cut - 1) ELSE resolved
      after == IF b = NewlineByte THEN {"StartLine"} ELSE {}
  IN  EpsilonClosure(n, FlattenSeq([k \in DOMAIN threads |-> ByteTargets(n, threads[k], b)]),
                     after)

(* CheckEOIMatch                                                           *)
CheckEOIMatch(n, ids, fromWord) ==
  ContainsMatchState(n,
    EpsilonClosure(n, ResolveWordBoundaries(n, ids, fromWord), LookSetForEOI))

(* One step of the construction (the first half of DFA.determinize): the   *)
(* states before byte b, after a line end has been looked at, and the      *)
(* states, word context and delayed match flag of the state b leads to.    *)
Successor(n, ids, fromWord, b, breaks) ==
  LET now == IF HasEndLine(n) /\ b = NewlineByte
             THEN EpsilonClosure(n, ids, {"EndLine"}) ELSE ids
      isMatch == ContainsMatchState(n, now)
  IN  [nfaStates |-> Move(n, now, b, fromWord, isMatch /\ breaks),
       isFromWord |-> IsWordByte(b),
       isMatch |-> isMatch]

IsDeadEnd(next) == next.nfaStates = <<>> /\ ~next.isMatch

(* Mutant: the match flag is not part of the key.                          *)
StateKeyWithoutMatch(s) == <<ToSet(s.nfaStates), s.isFromWord>>

(* What a state is filed under: its NFA states sorted, and the two flags.  *)
StateKey(s) == <<ToSet(s.nfaStates), s.isFromWord, s.isMatch>>
===============================================================================
