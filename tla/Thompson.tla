------------------------------- MODULE Thompson -------------------------------
(***************************************************************************)
(* nfa/compile.go and nfa/builder.go: a parsed expression is compiled into *)
(* a Thompson NFA, state by state.  A builder is the sequence of the       *)
(* states added so far; the ID of a state is its index counted from 0, and *)
(* the order in which states are added is part of the result, because the  *)
(* lazy DFA sorts by ID.  A fragment is a builder together with the first  *)
(* and the last state of what was compiled last; the last one still has to *)
(* be patched to whatever follows.                                         *)
(***************************************************************************)
EXTENDS Regexp, FiniteSets

InvalidID == -1
Fragment(builder, start, end) == [builder |-> builder, start |-> start, end |-> end]

Accept == [kind |-> "Match"]
ByteRange(lo, hi) == [kind |-> "ByteRange", lo |-> lo, hi |-> hi, next |-> InvalidID]
(* Each range has a target of its own; the compiler gives all the same.    *)
Sparse(ranges, next) ==
  [kind |-> "Sparse", ranges |-> [k \in DOMAIN ranges |-> ranges[k] \o <<next>>], next |-> next]
Split(left, right) == [kind |-> "Split", left |-> left, right |-> right]
Epsilon(next) == [kind |-> "Epsilon", next |-> next]
Boundary(group, isStart, next) ==
  [kind |-> "Capture", group |-> group, isStart |-> isStart, next |-> next]
Assertion(look) == [kind |-> "Look", look |-> look, next |-> InvalidID]

(* A quantifier's split prefers another iteration, a lazy one the way out. *)
QuantifierSplit(lazy, stay, leave) ==
  IF lazy THEN Split(leave, stay) ELSE Split(stay, leave)

(* Only a state with one target can be patched; the callers that check the *)
(* error insert an epsilon and fail again, the others leave the state be.  *)
Patch(builder, id, target) ==
  IF builder[id + 1].kind \in {"ByteRange", "Epsilon", "Capture", "Look"}
  THEN [builder EXCEPT ![id + 1].next = target]
  ELSE builder

-----------------------------------------------------------------------------

(* A fragment of one state.                                                *)
Single(builder, state) ==
  Fragment(Append(builder, state), Len(builder), Len(builder))

(* Two fragments one after the other.                                      *)
Chain(first, second) ==
  Fragment(Patch(second.builder, first.end, second.start), first.start, second.end)

(* A letter of a case-insensitive literal: upper, lower, join, split.      *)
CompileFoldCaseRune(builder, b) ==
  LET n == Len(builder)
      upper == IF b \in 97..122 THEN b - 32 ELSE b
      lower == IF b \in 65..90 THEN b + 32 ELSE b
      both == builder \o <<[ByteRange(upper, upper) EXCEPT !.next = n + 2],
                           [ByteRange(lower, lower) EXCEPT !.next = n + 2],
                           Epsilon(InvalidID), Split(n, n + 1)>>
  IN  Fragment(both, n + 3, n + 2)

CompileByte(builder, b, fold) ==
  IF fold /\ IsLetter(b) THEN CompileFoldCaseRune(builder, b)
                         ELSE Single(builder, ByteRange(b, b))

CompileLiteral(builder, re) ==
  IF re.bytes = <<>> THEN Single(builder, Epsilon(InvalidID))
  ELSE FoldLeft(LAMBDA sofar, b : Chain(sofar, CompileByte(sofar.builder, b, re.fold)),
                CompileByte(builder, Head(re.bytes), re.fold), Tail(re.bytes))

CompileCharClass(builder, ranges) ==
  LET n == Len(builder)
  IN  CASE ranges = <<>> ->       \* compileNoMatch: two states, not connected
             Fragment(builder \o <<Epsilon(InvalidID), Epsilon(InvalidID)>>, n, n + 1)
        [] Len(ranges) = 1 -> Single(builder, ByteRange(ranges[1][1], ranges[1][2]))
        [] OTHER -> Fragment(builder \o <<Epsilon(InvalidID), Sparse(ranges, n)>>, n + 1, n)

(* sub's fragment under a quantifier: an end, and a split between the two. *)
CompileLoop(sub, lazy) ==
  LET end == Len(sub.builder)
      split == end + 1
      built == sub.builder \o <<Epsilon(InvalidID), QuantifierSplit(lazy, sub.start, end)>>
  IN  [builder |-> Patch(built, sub.end, split), end |-> end, split |-> split]

CompilePlus(sub, lazy) ==
  LET loop == CompileLoop(sub, lazy)
  IN  Fragment(loop.builder, sub.start, loop.end)

(* x* is the loop entered at its split; over an x that matches the empty   *)
(* string it is (x+)?, entered at a second split.                          *)
CompileStar(sub, lazy, nullable) ==
  LET loop == CompileLoop(sub, lazy)
      question == QuantifierSplit(lazy, sub.start, loop.end)
  IN  IF nullable
      THEN Fragment(Append(loop.builder, question), Len(loop.builder), loop.end)
      ELSE Fragment(loop.builder, loop.split, loop.end)

CompileQuest(sub, lazy) ==
  LET end == Len(sub.builder)
      built == sub.builder \o <<Epsilon(InvalidID), QuantifierSplit(lazy, sub.start, end)>>
  IN  Fragment(Patch(built, sub.end, end), end + 1, end)

CompileCapture(sub, group) ==
  LET close == Len(sub.builder)
      built == Patch(Append(sub.builder, Boundary(group, FALSE, InvalidID)), sub.end, close)
  IN  Fragment(Append(built, Boundary(group, TRUE, sub.start)), close + 1, close)

(* Split(alt1, Split(alt2, ...)): the chain is built from its last split.  *)
BuildSplitChain(builder, starts) ==
  LET k == Len(starts)
  IN  FoldRight(LAMBDA start, sofar : Fragment(Append(sofar.builder, Split(start, sofar.start)),
                                               Len(sofar.builder), InvalidID),
                SubSeq(starts, 1, k - 1), Fragment(builder, starts[k], InvalidID))

CompileAlternate(subs) ==
  LET split == BuildSplitChain(Last(subs).builder, [k \in 1..Len(subs) |-> subs[k].start])
      join == Len(split.builder)
      joined == FoldLeft(LAMBDA builder, sub : Patch(builder, sub.end, join),
                         Append(split.builder, Epsilon(InvalidID)), subs)
  IN  Fragment(joined, split.start, join)

-----------------------------------------------------------------------------
RECURSIVE CanMatchEmpty(_)
CanMatchEmpty(re) ==
  CASE re.op = "literal" -> re.bytes = <<>>
    [] re.op = "charclass" -> FALSE
    [] re.op \in {"capture", "plus"} -> CanMatchEmpty(re.sub)
    [] re.op \in {"star", "quest", "look", "empty"} -> TRUE
    [] re.op = "repeat" -> re.min = 0 \/ CanMatchEmpty(re.sub)
    [] re.op = "concat" -> \A k \in 1..Len(re.subs) : CanMatchEmpty(re.subs[k])
    [] re.op = "alternate" -> \E k \in 1..Len(re.subs) : CanMatchEmpty(re.subs[k])

(* x{n,m} is n copies of x and then a star, or m - n quests.               *)
Unrolled(re) ==
  LET copies == [k \in 1..re.min |-> re.sub]
      more == IF re.max = Unbounded THEN [Star(re.sub) EXCEPT !.lazy = re.lazy]
                                    ELSE [Quest(re.sub) EXCEPT !.lazy = re.lazy]
      count == IF re.max = Unbounded THEN 1 ELSE re.max - re.min
      all == copies \o [k \in 1..count |-> more]
  IN  CASE all = <<>> -> EmptyMatch
        [] Len(all) = 1 -> all[1]
        [] OTHER -> Concat(all)

RECURSIVE Compile(_, _)

(* The fragments of several expressions, one after the other in a builder. *)
CompileAll(builder, subs) ==
  FoldLeft(LAMBDA done, re :
             Append(done, Compile(IF done = <<>> THEN builder ELSE Last(done).builder, re)),
           <<>>, subs)

Compile(builder, re) ==
  CASE re.op = "literal" -> CompileLiteral(builder, re)
    [] re.op = "charclass" -> CompileCharClass(builder, re.ranges)
    [] re.op = "concat" ->
         FoldLeft(LAMBDA sofar, sub : Chain(sofar, Compile(sofar.builder, sub)),
                  Compile(builder, Head(re.subs)), Tail(re.subs))
    [] re.op = "alternate" -> CompileAlternate(CompileAll(builder, re.subs))
    [] re.op = "star" ->
         CompileStar(Compile(builder, re.sub), re.lazy, CanMatchEmpty(re.sub))
    [] re.op = "plus" -> CompilePlus(Compile(builder, re.sub), re.lazy)
    [] re.op = "quest" -> CompileQuest(Compile(builder, re.sub), re.lazy)
    [] re.op = "repeat" -> Compile(builder, Unrolled(re))
    [] re.op = "capture" -> CompileCapture(Compile(builder, re.sub), re.group)
    [] re.op = "look" -> Single(builder, Assertion(re.look))
    [] re.op = "empty" -> Single(builder, Epsilon(InvalidID))

RECURSIVE IsPatternAnchored(_)
IsPatternAnchored(re) ==
  CASE re.op = "look" -> re.look = "StartText"
    [] re.op = "concat" -> IsPatternAnchored(Head(re.subs))
    [] re.op = "capture" -> IsPatternAnchored(re.sub)
    [] OTHER -> FALSE

(* The bytes after which a new equivalence class begins.                   *)
RangesOf(state) ==
  CASE state.kind = "ByteRange" -> {<<state.lo, state.hi, state.next>>}
    [] state.kind = "Sparse" -> ToSet(state.ranges)
    [] OTHER -> {}
BoundaryBytes(builder) ==
  UNION {{r[1] - 1, r[2]} : r \in UNION {RangesOf(builder[k]) : k \in DOMAIN builder}} \cap 0..255
ByteClasses(boundaries) == [b \in 0..255 |-> Cardinality({x \in boundaries : x < b})]

(* collectCaptureInfo: the group with the highest number; group 0, the     *)
(* match itself, is counted too.                                           *)
CaptureCount(builder) ==
  LET groups == {builder[k].group : k \in {j \in DOMAIN builder : builder[j].kind = "Capture"}}
  IN  1 + (CHOOSE g \in groups \cup {0} : \A h \in groups : h <= g)

(* CompileRegexp: the pattern, the match state, and in front of a pattern  *)
(* that is not anchored the lazy loop over any byte.                       *)
CompileRegexp(re) ==
  LET pattern == Compile(<<>>, re)
      match == Len(pattern.builder)
      accepting == Patch(Append(pattern.builder, Accept), pattern.end, match)
      anyByte == [ByteRange(0, 255) EXCEPT !.next = match + 2]
      prefixed == accepting \o <<anyByte, Split(pattern.start, match + 1)>>
      anchored == IsPatternAnchored(re)
      states == IF anchored THEN accepting ELSE prefixed
  IN  [states |-> states,
       startAnchored |-> pattern.start,
       startUnanchored |-> IF anchored THEN pattern.start ELSE match + 2,
       isAlwaysAnchored |-> anchored,
       captureCount |-> CaptureCount(states),
       byteClasses |-> ByteClasses(BoundaryBytes(states))]
===============================================================================
