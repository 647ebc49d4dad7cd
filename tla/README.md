# A verification development for coregex

coregex is a regular expression engine in Go: a meta engine picks, per pattern,
among a PikeVM, a bounded backtracker, a one-pass DFA, a lazily built DFA in
both directions and several literal searchers, and shares the mutable state of
searches between goroutines. This directory holds TLA+ modules that model the
parts whose correctness is hardest to test, configurations that TLC checks, and
proofs that TLAPS checks. Paths below are relative to the repository.

## 1. Inventory

| Component | State it keeps | Operations | Hard behaviour | What makes it correct |
|---|---|---|---|---|
| Search state pool (`meta/engine.go`, `meta/search_state.go`) | the slot `localState`, a `sync.Pool`, `longest` | `getSearchState`, `putSearchState`, `reset`, `SetLongest` | goroutines interleave between swap, reset and compare-and-swap; the collector empties the pool | one owner per state; a search runs with the current flags; the slot stays warm |
| Engine calls (`meta/find*.go`, `ismatch.go`) | statistics only; reach shared objects | `Find`, `FindAt`, `FindIndices(At)`, `IsMatch`, `FindAll`, `Count`, `FindSubmatch`, `FindAllSubmatch` | nested acquisition; objects of the Engine used by all goroutines; windows, slices, estimated starts; empty matches | answers equal the reference whatever engine ran; the loop makes progress |
| Lazy DFA (`dfa/lazy`) | `DFACache`: states by key, state list, flat transition rows, start table, clear count | `FindAt`, `SearchAt`, `SearchFirstAt`, `IsMatchAt`, `SearchAtAnchored`, reverse searches | one cache serves all kinds of search; full in mid-search; clearing; match delay; start context; acceleration | rows are the subset construction; answers are leftmost-first; size bounded; every search ends |
| NFA compiler (`nfa/compile.go`, `builder.go`, `alphabet.go`) | the builder | `compile*`, `Patch`, `ByteClasses` | order of states is preference; empty loops; byte classes | the NFA has the expression's matches and preference |
| Bounded backtracker (`nfa/backtrack.go`) | visited table with generations | `reset`, `shouldVisit`, searches | generation wrap, reuse across input lengths | no (state, position) visited twice or skipped |
| PikeVM (`nfa/pikevm.go`, `slot_table.go`) | thread queues, captures shared with reference counts, two slot tables | `IsMatch`, `SearchAt`, `SearchBetween`, `SearchWithCaptures*`, `SearchWithSlotTable*` | a group's slots survive in a queue, in a shared capture or in a row; the tables outlive the search; prefilter skipping inside the loop | leftmost-first with the groups of the preferred path |
| Loops over matches (`meta/findall.go`, `regex.go`) | position, end of the last non-empty match, results, what was copied | `FindAll*`, `Count`, `FindAllSubmatch`, `ReplaceAll*`, `Split`, `AllIndex` | an empty match next to a match, limits, an early return, two searches for one match | each match once, in order, disjoint; the position always moves |
| One-pass DFA (`dfa/onepass`) | immutable table, slots | build, search | conflicts at build time, look at the end | accepts only one-pass NFAs; same captures |
| Reverse strategies (`meta/reverse_*.go`, `nfa/reverse.go`, `SearchReverse*` of `dfa/lazy`) | searchers with DFA pairs, a DFA cache, the bounds of the candidate loop | `Find`, `FindAt`, `IsMatch`, `FindIndicesAt` | guards against reading bytes twice (`minStart`, `minPreStart`), an answer that was cut short, last literal against first | the leftmost match; linear work |
| Literal extraction (`literal/extractor.go`, `seq.go`) | none | prefixes, suffixes, inner literals | limits that cut sequences and lengths, cross products, case folding, complete or not | every match has one of the literals at its place |
| Strategy selection (`meta/strategy.go`, `meta/compile.go`) | none | `SelectStrategy`, building the engine | rules tried in order, fallbacks when an engine is not built; a wrong choice is a wrong answer | the chosen strategy's precondition holds |
| Special searchers (`nfa/composite*.go`, `branch_dispatch.go`, `charclass_searcher.go`, `meta/anchored_literal.go`) | tables built once | detection, search | a search that is exact for its form only | the form implies the answer |
| Prefilters (`prefilter`, `simd`) | tracker counters | candidate search | incomplete sets, the order of overlapping literals, turning off while running | no match begins between candidates |
| Public API (`regex.go`) | `longest` | stdlib-compatible wrappers | empty matches, limits | same results as `regexp` |

A call of the API runs one strategy's functions. They take a `SearchState` from
the pool, hand its caches to the lazy DFA, its visited table to the backtracker
and its slots to PikeVM, and give it back. The DFA calls back into a PikeVM when
its cache is full; prefilters are called by the engine and by the DFA's loops.
A loop over matches calls the engine once a turn, or twice when it wants groups:
one search for the span, one for the groups in it.
Hazards, each at its line, are listed in `PROJECT.json`.

## 2. Modules

| Module | Models | Correspondence |
|---|---|---|
| `EngineCalls` | which mutable objects each engine function touches, in order | one operator per function; a path is a sequence of `get`, `search`, `put` and the names of shared objects, a function the set of the paths of its branches. Branch conditions are abstracted: a path may be listed for an input that takes another one. A loop is followed for at most two iterations. The reverse strategies are not listed. |
| `SearchPool` | `getSearchState`, `putSearchState`, `Longest` and the collector | one action per atomic step: `Swap` (the slot), `GetPooled` or `GetNew` (pool), `Install` (flags), `SearchHeld`, `Reset`, `StoreLocal`/`SlotTaken` (the compare-and-swap), `PutPooled` (with its second reset); `Collect` is the collector, `SetLongest` happens only when no search runs, as `regex.go:462` asks |
| `StateOwnership` | the abstract specification of the pool | a state is absent, free or owned by one goroutine |
| `Regexp` | the reference: expressions of `regexp/syntax` and what they match | `Ends` lists the ends of the matches from a position in order of preference, read off the tree |
| `Thompson` | `nfa/compile.go`, `builder.go`, `alphabet.go` | a builder is the sequence of states added so far, in the order the code adds them; bytes only (no multi-byte UTF-8 classes) |
| `Determinize` | `dfa/lazy/builder.go` | epsilon closure, move with break-at-match, word boundaries, the end of input, state keys; ordered sets are sequences |
| `Paths` | what a compiled NFA matches, without an engine | the pairs of a state and a position that can be reached from where a search starts; its edges are those of `addThread` and `step` in `nfa/pikevm.go`, without preference |
| `DFACache` | the cache of a lazy DFA: `getOrInsert`, start states, rows, memory, clearing, one determinization step | operators on the cache as a record; `LazyDFA` and `ReverseScan` extend it, as forward and backward DFAs share this code |
| `LazyDFA` | the four forward search loops, `FindAt` with a prefilter, the fallback | an action is a turn of a loop or one of its branches; see below |
| `Backtracker` | `nfa/backtrack.go`: `IsMatch`, `IsMatchAnchored`, `SearchAt`, the visited table | the recursion is a stack of the pairs still to be tried; see below |
| `PikeVM` | `nfa/pikevm.go`, `slot_table.go`: the twelve search loops | a step is a turn of a loop: one position; the epsilon closure of a thread is an operator; see below |
| `FindAll` | the loops of `meta/findall.go` and `regex.go` | the abstract specification of all loops: the engine is a table of answers |
| `SearchLoops` | the same loops with a PikeVM searching for them | composes `FindAll` and `PikeVM`; its property `LoopSpec` is the specification of `FindAll` |
| `Reverse` | `nfa/reverse.go`: the reversed NFA and its epsilon elimination | operators on NFAs, from those of `Thompson` |
| `ReverseScan` | `SearchReverse`, `SearchReverseLimited`, `IsMatchReverse` | an action is the start, a turn or the end of a backward loop; extends `DFACache` |
| `ReverseStrategies` | the searchers of `meta/reverse_*.go` and the bidirectional search of `meta/find_indices.go` | an action is one decision of a searcher's loop over candidates; extends `ReverseScan`; see below |
| `LiteralExtraction` | `literal/extractor.go`, `literal/seq.go` | one operator per method, recursive on the syntax tree |
| `Selection` | `meta/strategy.go`, `meta/compile.go`, the detection functions of the searchers | the rules are a sequence of pairs (condition, strategy), of which the first that applies counts; `SearcherFor` is the searcher an engine ends up with |
| `Searchers` | what the searchers without a DFA answer | operators from a haystack and a position to a span |
| `MCSearchPool`, `MCLazyDFA`, `MCBacktracker`, `MCSearchLoops`, `MCReverse` | instances for TLC; `MCSearchLoops` and `MCReverse` also hold the reference answers | |
| `SearchPoolProofs`, `FindAllProofs`, `BacktrackerProofs` | theorems about `SearchPool`, `FindAll` and `Backtracker` | |
| `DeterminizeProofs` | lemmas about the subset construction: what its operators return, which bytes they do not tell apart, that they stay on the paths of the automaton, and that they leave none out | |
| `DFACacheProofs` | the invariant of the DFA cache and that every operation on it keeps it, for whoever calls it | |
| `LazyDFAProofs`, `AnswerProofs` | theorems about `LazyDFA`: the cache and its transitions, what a search finds and what it does not | |
| `ReverseProofs` | theorems about `ReverseStrategies` and the scans of `ReverseScan` | |

### LazyDFA

State: `dfa` (the immutable DFA of one pattern and configuration), `cache`
(`states`, `stateList`, `flatTrans`, `startTable`, `nextID`, `clearCount`), and
of the running search its `call`, position `pos`, state ID `sid`, `lastMatch`
and place `pc`. When a search has returned, its answer and the engine that found
it are kept in `answer`, and any other search may follow on the same cache.

The cache and its operations are in `DFACache`; the rest in `LazyDFA`.

The four loops of `lazy.go` (`searchAt`, `searchFirstAt`, `searchEarliestMatch`,
`SearchAtAnchored`, and `findWithPrefilterAt` for `FindAt`) have the same
branches with small differences; each difference is a conjunct naming the
operations it applies to (`Accelerates`, `CanUnroll`, `StopsAtFirstMatch`,
`GoesOnAfterClear`). `FastPath` is one turn of the unrolled loop, which goes on
to the slow path after as many bytes as it could take; `SkipAhead` and
`LeaveStart` are the two shortcuts of start states; `Accelerate` the exit-byte
scan; `MatchAtBoundary`, `Follow`, `DieKnown` and `DeterminizeStep` the end of a
turn; `RestartAfterClear` the new start state of a search
whose cache was cleared under it; `Lost` the fallback for a state without an entry; `EndOfInput` what
follows the loop. A `StateID` is a row and its tags instead of an integer
premultiplied by the stride; `InvalidState` and `DeadState` keep row 0, because
the code masks them to offset 0 and reads there. `MemoryUsage` weighs the same
parts with the same weights as the code.

Not in the model: complete prefilters (`FindAt` then returns without searching),
a call with `at` beyond the end, `Cache.Reset` and `Clear` (no search calls
them), statistics, and `searchEarliestMatchAnchored` (no caller). A prefilter is
the set of literals every match begins with and finds their occurrences. The
NFA fallback answers what `Regexp` says, which `search_loops` shows to be what a
PikeVM answers.

### Backtracker

State: `visited` is the table with its whole capacity, `length` the part the
latest input uses (`len(Visited)`), `generation` the counter; `call`, `start`,
`stack` and `best` belong to the running search. `Search` is `reset` and the
choice of the first position, `Refuse` the answer to an input the table cannot
hold. `Attempt` calls the recursive function; `Skip`, `Explore` and `ReachMatch` are
one call of it each, on a pair that was visited, that was not, or that is the
match state; `Longest` and `Fail` end an attempt. Pushing the successors of a pair in front
of the stack gives the depth-first order of the recursion; in the longest mode
both branches of a split are tried whatever the first returns, and the greatest
end is kept. `partial` is not in the code: it records that a wrap of the
generation cleared less than the whole table, until a new table replaces it.
States that match whole runes are left out, as the compiler emits none.

### PikeVM and the loops over matches

State of `PikeVM`: `nfa`, `vm` (queue, visited set, capture cells with reference
counts, the two slot tables and the number of active slots), the running
`search`, its `stage`, `position` and `best`, and the `answer` of the last one.
`Call` starts a search; `Decline`, `FindEmptyAtEnd` and `Begin` are what comes
before its loop, `GiveUp` and `SkipTo` the prefilter inside it, and each of the
code's twelve loops is an action named after its function, one turn of the loop
for one position. Threads hold either an own
copy of their groups, a cell that is copied when a holder of a shared one writes
to it, or nothing, when the groups are in the row of their state; each is
modelled as it is, since what can go wrong differs. The tables are not cleared
between searches, and the model keeps them too. `leaked` records that a
cell was written in which another branch still had its groups.

State of `FindAll`: `pos`, `lastMatchEnd`, `matches`, `lastEnd` (how much a
replacement has copied) and `out`. `Begin` starts a loop, and a turn takes the
engine's answer: `Stop`, `SkipEmpty` or `UseMatch`, with what the kind of loop
does besides. In `SearchLoops` a turn is an action that asks (`AskIndices`;
`AskSubmatch` when one search finds groups, too; `AskInSpan` when another engine
has found the span; `SkipPhaseTwo` when there is no match or no group), the steps
of the PikeVM, and `Use`. Between loops, single searches of every kind run on
the same PikeVM and leave their tables behind. `LoopSpec` says that the loops of
the composition are those of `FindAll`, fairness included. When the second
search for a match finds nothing, the code searches again; `PhasesAgree` shows
that this does not happen, and the retry is not an action.

### Reverse searches

`ReverseScan` keeps a DFA, its cache and one backward scan (`call`, `pc`, `pos`,
`sid`, `lastMatch`, `answer`). `ReverseStrategies` adds the request `req`, the
`step` of the searcher, its `loop` over candidates (`candidate`, `searchStart`,
`minStart`, `minPreStart`, `best`) and the `reply`. `Ask` is any call of the
searcher's interface. `ScanFromEnd` (anchored at the end), `ScanFromMatch` and
`ForwardOnly` (bidirectional), `ScanFromCandidate` and `StartsAtZero` (literals)
start a scan or decide that none is needed; `LineMatch` and `UniversalMatch` are
the shortcuts for `.*` before and around a literal; `OutOfRange`, `NoCandidate`
and `AvoidReread` end a request early. When a scan has ended, `Reject`,
`CutShort` and the `Accept*` actions are the branches on its answer. Differences
between searchers and between their methods are conjuncts on `S.kind` and
`req.op`. A pattern whose searcher scans nothing back is answered by
`AnswerDirectly`, from the operators of `Searchers`.

`Leftmost` and `SuffixEnd` stand for the forward DFA and the PikeVM that a
searcher calls: their answers are read off the syntax tree, as `lazy_dfa` and
`search_loops` check them. The reverse DFA itself is run.

### Extraction, selection and special searchers

These are pure functions of the syntax tree and translated as such. They are
evaluated for each pattern of `MCReverse`: extraction gives the literals, the
rules of `Selection` choose the strategy from the tree, the size of the NFA that
`Thompson` builds and the literals, and the searcher of that strategy answers
the requests. So one run goes from the syntax tree to the answer. The configuration is the
default one. Expressions are ASCII: `.` is the class of ASCII bytes but newline.

The limits are constants, since with the real ones no small pattern would reach
them. Those compared with each other keep their order:

| Constant | In the runs | In the code |
|---|---|---|
| `MaxLiterals` > `CrossProductLimit` > `MaxTeddyPatterns` | 9 > 7 > 4 | 256 > 250 > 64 |
| `MaxLiteralLen`, `MaxClassSize` | 5, 3 | 64, 10 |
| `MaxSuffixes`, `ScalarBelow`, `Buckets` | 8, 5, 2 | 32, 16, 8 |
| `MinTeddyLen`, `TinyNFA`, `LargeNFA`, `HugeNFA`, `DigitNFA`, `MaxBranches` | 3, 20, 100, 200, 100, 127 | the same |

## 3. Runs

| Run | Checks | Bounds |
|---|---|---|
| `search_pool` | `TypeOK`, `Exclusive`, `Configured`, `WarmSlot`, refinement of `StateOwnership` | two goroutines, nesting depth 2, four addresses (as many as two goroutines can hold): every way two calls can interleave between acquisition and publication, including a nested acquisition of Teddy's submatch search |
| `shared_vm` | violated: `SharedObjectsPrivate` | two goroutines in `findNFA` and `findNFAAt` |
| `lazy_dfa` | `TypeOK`, `DfaAnswers`, `FallbackAnswers`, `FindsMatches`, `MissesNothing`, `ExitBytesLoop`, `AcceleratedEnd`, `CacheAgrees`, `RowsDeterminized`, `MemoryBounded`, `SearchEnds` | eight patterns: alternation with a preferred longer branch, a negated class with an exit byte, both anchors with a lazy loop, an empty match, a literal prefix with a prefilter, a word boundary, an accelerable class, a line start; haystacks of 3 to 7 bytes at several positions, so that the unrolled loop is entered, left in the middle and not entered; for `ab` and the literal prefix capacities that hold everything, a few states or one, and for `ab` a determinization limit of 3 |
| `backtracker` | `TypeOK`, `FreshTable`, `Explored`, `Answers`, `SearchEnds` | four patterns: nested stars (a loop over the empty string), an alternation whose preferred branch is the shorter, a word boundary with a lazy loop, a literal; haystacks of 1 to 5 bytes from positions 0 and 1, so that the table is cut, kept, replaced and refused; a table of 30 entries; a counter of 2 bits instead of 16, so that it wraps at the third failed attempt |
| `generation_wrap` | violated: `AnswersAfterWrap` | the same instance |
| `stale_rows` | violated: `AnswersAfterClear` | one pattern, room for a few states, one clear |
| `anchored_fallback` | violated: `AnchoredFallback` | one pattern, no room |
| `exit_bytes` | violated: `ExitBytesSuffice` | `[a-c]+` |
| `search_loops` | `TypeOK`, `Answers`, `LeftmostFirst`, `PhasesAgree`, `MatchesDisjoint`, `Complete`, refinement `LoopSpec`, `LoopEnds`, `Forward` | eight patterns: groups on an alternation and an option, a starred group that matches empty, a word boundary or the end, a lazy loop, an anchored pattern, a group kept from an earlier iteration, a literal, and a group on a branch that fails; haystacks of up to 8 bytes, all ten kinds of loops with limits 0, 1, 2 and none; single searches of all twelve kinds between the loops, some of them `longest` and with a prefilter |
| `shared_captures` | violated: `SharedCaptures` | `()a\|b`: one group on the branch that is not taken |
| `reverse_search` | `TypeOK`, `ScanAnswers`, `RequestAnswers`, `CacheAgrees`, `LiteralsNecessary`, `ChosenFits`, `NoByteTwice`, `RequestEnds` | 30 patterns that between them get every strategy but `UseBoth` and `UseOnePass`, with requests at every kind of position: in range, at a candidate, behind the last one, at and past the end; for a suffix and an anchored pattern capacities that hold everything, a few states, or less than one, with none, one or two clears |
| `reverse_star` | violated: `RequestAnswers` | `a*b\z` on "aab" |

The searches of a run come in any order and any number: the cache they leave is
finite, so TLC explores every sequence. What the passing run of the DFA shows is
deliberately limited where the code departs from its documentation:
`DfaAnswers` and `RowsDeterminized` speak of a cache that has not been cleared
(`stale_rows` shows why), `FallbackAnswers` of `SearchAt` and `IsMatchAt`
(`anchored_fallback`; `FindAt` falls back to the start of the haystack,
`lazy.go:1001`, which no caller in `meta` notices), and haystacks contain
no byte that leaves an accelerable state through a class whose first byte is another
one, and no two bytes of one class that an assertion tells apart (`MCSeparated`, which
TLC evaluates; section 4 says why). `CacheAgrees`, `MemoryBounded` and `SearchEnds`
hold with clears.

`FindsMatches` compares the DFA with the compiled automaton instead of the syntax
tree: what it reports is the end of a path of the automaton (`Paths`). It is weaker
than `DfaAnswers` (it does not say which match is preferred), and can be proved.
`MissesNothing` is its converse: "no match" is answered only where the automaton has
none, and the end an earliest-match search answers is behind no other.
`ExitBytesLoop` is what the exit-byte scan needs to be right; these haystacks respect
it, those of `exit_bytes` do not. `AcceleratedEnd` is what its answer needs when no exit
byte is ahead: that scan does not look at the end of the input.

`FreshTable` and `Answers` likewise speak of a table without leftovers of an
incomplete wrap, which `generation_wrap` is about: `reset` and `SearchAt` clear the
table only as far as the current input reaches.

What the properties of the two runs added last are about: `Answers` compares
span and groups with the syntax tree whatever the tables hold from before
(unless a cell leaked, which `shared_captures` is about);
`LeftmostFirst` is about the queue inside a search: its threads are in the order
in which they started; `PhasesAgree` about the two searches for one match;
`Complete` compares what a loop collected and returned with a definition that
knows no loop: the list of all matches, position by position. In
`reverse_search`, `ScanAnswers` compares each backward scan with the spans of
the tree, `RequestAnswers` each request with the leftmost match,
`LiteralsNecessary` and `ChosenFits` state what a prefilter and a chosen strategy
rely on: every match has an extracted literal at its place; a complete literal
is the whole match; a pattern that is taken for anchored is anchored.
`NoByteTwice` is the linear bound that `minStart` exists for.

`RequestAnswers` and `ScanAnswers` speak of a cache that was never full: a
backward scan whose cache is cleared under it starts over without what it had
found (section 6). `CacheAgrees`, `TypeOK`, `NoByteTwice` and `RequestEnds` hold
with clears.

The seven violations are disagreements with a comment or a test, quoted in `PROJECT.json`:
the shared PikeVM of `findNFAAt`, rows that survive a clear, the unanchored
fallback of an anchored search, exit bytes that stand for whole classes,
a table that is cleared in part when its generation wraps, a group reported from
a branch the match did not take, and a reversed leading loop without its byte. `shared_vm`
shows two goroutines between the beginning and the end of a search with one
object; the others show a concrete expression and haystack.

Fairness: `SearchEnds`, `LoopEnds`, `RequestEnds` and `LoopSpec` need it. `Fairness` in `LazyDFA`, `Backtracker` and `ReverseStrategies` says that a search
which has begun does not stop being executed; it is a sequential loop in one
goroutine, so this is what the Go scheduler gives. As TLC finds no deadlock, a
running search always has a step, and as every step changes `pos`, `pc` or the stack, none
is a stutter: the formula is the weak fairness of `SearchStep` without its
`ENABLED`. (A restart after a clear is an action of its own for this reason: a
search that clears and restarts for ever is a cycle TLC sees.) In `FindAll` it is
`WF_vars(Turn)`, in `SearchLoops` `WF_vars(LoopStep)` for the loop and the same
formula as above for the search inside a turn: loop and search are one goroutine.
Nothing is assumed about callers: no action that begins a loop or a search is fair,
and the consumer of an iterator may leave it at any match.

## 4. Proofs

`SearchPoolProofs` proves, for any number of goroutines and states, any nesting
depth and any set of well-nested calls (`PoolAssumption`): `TypeCorrect`,
`Exclusion`, `Configuration`, `Warmth` and `Refinement`. They rest on one inductive
invariant `IInv`. `Exclusive` alone is not inductive: to keep it, a step has to
know that what a goroutine holds is exactly its open acquisitions (`OpenHeld`),
that free states are live, that every remaining call is well-nested from the
goroutine's depth, and for `Configured` that the flags of a held state are those
of the Engine except between the reset and the publication. `Warmth` needs that a
state only gets past the slot when the slot is taken, and that the slot is
emptied only by a call that still has its state to return. `Refinement` is shown
step by step: taking a state from the slot or the pool is `Acquire`, publishing it
is `Release`, the collector is `Collect`, everything else stutters.

`FindAllProofs` proves, for any patterns, haystacks and limits and for any engine
whose answers lie at or behind the position asked for (`EngineAnswers`, which TLC
evaluates for the instance): `MatchesDisjoint`, `NeverBack` and `Progress`. `Disjoint` alone is not
inductive. A step has to know that the position is not in front of the end of any
match used (`BehindPosition`) and what the loop remembers of the last one
(`LastKnown`): an empty match is already behind the position, and the end of any
other is `lastMatchEnd`, so that an empty match there is skipped. The
iterators do not keep the first half of this: they go on from the end of an empty match
found behind the position, and find it again; `MatchesDisjoint` excludes them,
`NeverBack` and `Progress` do not. `TurnUses` brings the ten loops to one form,
so that the invariant is shown once. `ReplacementIsWhole` says what the five
replacements return: the haystack with every match replaced and everything before,
between and after the matches copied, and by `Disjoint` nothing copied twice. Its
strengthening `RewrittenSoFar` says that `lastEnd` is the end of the last match used
and that the output is the haystack up to there, rewritten. The rewritten haystack is
described by its parts, one for each match, so that a turn only adds a part and the
proof needs no induction over the matches. As the loops over PikeVM implement `FindAll`
(`LoopSpec`, model-checked), what is proved of its steps holds of theirs.

`BacktrackerProofs` proves, for any valid automaton, any width of the generation and
any size of the table (`BacktrackerAssumption`), whatever inputs come one after the
other: `TypeCorrect`, `AttemptBeginsFresh` (`FreshTable`), `VisitedExplored`
(`Explored`), `AnswersAreMatches` and `NoMatchIsMissed`. The invariant has two layers.
`Shape` is about the table: the part in use has one entry for each pair of a state and
a position of the span, no entry is newer than the generation, and the positions on
the stack lie in the span; that two pairs have two entries is arithmetic
(`IndexInjective`). `Reached` is about the search: what is on the stack can be reached
from the first pair of the attempt, and what follows a visited pair was visited or is
still on the stack. When the stack is empty the visited pairs are therefore closed, and
a match state that is not among them cannot be reached. That reachability is defined
without an induction: a pair is reached if it is in every closed set that holds the
first one. Until a wrap leaves part of the table behind (`partial`,
`generation_wrap`), this is what the answer means; the
preference among the matches of one start is not in it, and stays with `Answers`.

`LazyDFAProofs` and `AnswerProofs` are about the forward DFA, for any automata that
`Builder.Validate` accepts, that have no unpatched state and whose byte classes are
those of their ranges, any valid configuration (`CacheAssumption`), and any searches
within their haystacks (`SearchAssumption`). They rest on `Sound`, an invariant of the
cache that `DFACacheProofs` shows each operation to keep, for the forward searches and
for the backward scans (`ReverseProofs`) alike:

- `Typed`: the record's fields; every ID in the tables names a row there is.
- `Numbered`: the state in a row has that row in its ID, and the next row is the
  first free one. Row 0 stays empty, as its ID would be that of a state unknown.
- `Registered`: a key leads to a state that has this key, and a state is filed under
  its key. This is not quite so: when the table alone fills the cache, a clear, which
  keeps the table, leaves no room for the start state that is stored next, and that one state remains without
  a key until the next clear. The invariant has this case as its second disjunct.
- `Entered`: the start table leads to the closure of the start state of its kind.
- `Bounded`: see below.

`IInv` adds what a step of a search knows: its position lies in the haystack, and its
state ID in the table. `TypeCorrect` (`TypeOK`) and `CacheStaysInAgreement`
(`CacheAgrees`) follow. `CacheAgrees` alone is not inductive: nothing in it keeps a new
row from being one that is taken, or a start table from naming a row that is gone.

`CacheStaysBounded` (`MemoryBounded`): capacity is looked at before a state is stored,
so that what the cache takes may be above it by what one more state adds, two rows at
most (row 0 comes with the first one). The sum over the states is a fold, and is
compared by lemmas about sums (`SumMonotonic`, `SumSlack`). The bound of the table
alone is a conjunct of its own, since a clear drops the states and keeps the table.
Exit bytes are written when the state is already there, and are three at most.

`FallbackIsFaithful` (`FallbackAnswers`): whenever `SearchAt` or `IsMatchAt` hands over,
at whatever byte, before or after a clear, it asks the NFA for the whole question. That
the NFA answers it rightly is not part of the theorem (`NfaEnd` is a parameter);
`search_loops` checks that.

`RowsAreDeterminized` (`RowsDeterminized`): until the cache is cleared, an entry of a
row leads to the state that the subset construction gives for that state and any
searched byte of that class. `RowsOK` says this of the cache; its step is `Grown`:
whatever is stored or written back, the states already there keep their rows and their
sets, and new rows begin without entries. The theorem has a hypothesis, `Separated`: no
assertion of the pattern tells two searched bytes of one class apart. It is not a
convenience. `alphabet.go:10` says that two bytes of one class "will never cause
different transitions", but only the ranges of transitions mark boundaries
(`builder.go:47`, `:65`), and an assertion (`builder.go:149`) marks none. For `(?m)^a`
the bytes `A` and newline share a class, for `a\b` the bytes `b` and `~`, and whichever
of them a state reads first decides what the other one does; with both in the
haystacks, TLC finds `RowsDeterminized` and `DfaAnswers` violated. `strategy.go:1503`
keeps small automata with line assertions from this DFA. For patterns without line and
word assertions the hypothesis holds of all bytes. The lemmas behind it are in
`DeterminizeProofs`: the construction looks at a byte through the ranges of the
transitions and through the assertions, and at nothing else (`MoveAlike`,
`SuccessorAlike`).

`FoundIsAMatch` (`FindsMatches`): until the cache is cleared, whatever a forward
search of any kind reports, in whatever cache other searches left behind, is a match of
the automaton: there is a path to a match state from where the search may start (from
the position asked for, when it is anchored) to where the answer says. The argument has
three layers.

- `Paths` defines what can be reached in as many rounds as there are pairs of a state and
  a position. `ReachedClosed` shows that this is enough: while a round adds something,
  the set has more members than there were rounds, and the pairs are no more than the
  rounds; so some round added nothing, and nothing is added after it.
- `DeterminizeProofs` shows of each operator of the construction that it stays inside any
  set of pairs that every edge stays in: an epsilon closure under assertions that hold
  there (`EpsilonHere`), the crossing of a word boundary (`ResolveHere`), a move
  (`MoveHere`), a state and its match flag (`SuccessorHere`), the end of the input
  (`EndOfInputHere`).
- `AnswerProofs` carries this through the search. Its invariant `Truthful` says that the
  state a search is in holds only NFA states with a path to the position (`Arrived`), and
  that a match recorded was on a path where it is said to end. A state taken from the
  table was stored by another search, at another position of another haystack; that it
  is right here, too, is `RowsOK`, the invariant of `RowsAreDeterminized`: the entry is
  what the construction gives for this state and this byte. A state found under its key
  has the same members and the same word flag (`LeadsTo`), and start states are those
  of the byte before (`StoredStartSound`).

The theorem has two hypotheses. `Separated` is that of `RowsAreDeterminized`.
`[]ExitBytesLoop` is what the exit-byte scan takes for granted and the code does not
guarantee (`exit_bytes`; section 6): it looks for one byte of each class that leaves a
state and skips the others, among them those on which the state dies. `lazy_dfa` checks
that its searches meet this hypothesis, with states that are accelerated.

`NothingIsMissed` (`MissesNothing`) goes the other way: when the DFA answers "no match",
no path from the position asked for ends at a match state, and when it is asked for the
earliest end, none ends before the one it answers. A DFA state need not hold every NFA
state a path is in, because assertions about the next byte are only resolved when that
byte is known. The relation that is kept is `Covers`: the list is closed under the
assertions that hold for what is behind the position, and whoever closes it under what
holds here, once the next byte is known, has every state a path is in.

- `DeterminizeProofs` first shows that an epsilon closure is closed (`ClosureContains`):
  the recursive function takes as many turns as a stack of automaton states can need,
  because a turn either adds a state and at most two entries or takes one off
  (`CoveringStep`). Closing once for what is behind and once for what comes next is then
  as good as closing for both (`ClosedTwice`, `MoveHolds`), a step of the construction that
  sees no match covers the next position (`SuccessorCovers`), and at the end of the input
  `CheckEOIMatch` finds a match if a path ends at one (`EndOfInputCovers`).
- `AnswerProofs` has the invariant `Thorough`: until a match was seen, the current state
  covers its position and no path has ended behind it (`Carried`), and an answer given
  leaves no path unaccounted for (`Concluded`). As before, a state from the table was
  stored by another search; two states of one key have the same members, which is all
  that `Covers` looks at. When break-at-match drops threads, a match was seen, and
  the invariant no longer claims anything.

The theorem is about the searches in `Plain`. A prefilter is left out (it skips what has
none of its literals, and that this loses nothing is `LiteralsNecessary`), and so are word
assertions and automata in which an assertion about what is behind follows one about what
comes next (`Apart`): for these the construction, as read, does leave states out
(`a\b$`, `$^`; section 6). So are positions other than 0 of a pattern that begins with
`\A`, which are refused. Of the exit-byte scan it assumes, with
`[]ExitBytesLoop`, `[]AcceleratedEnd`: that an accelerated state that has seen no match
completes none at the end of the input. The code does not check that; `lazy_dfa` checks
that its searches, most of which are plain, meet it, and
`MCSeparated` and `MCApart` that its patterns meet the rest.

`ReverseProofs` is about the searchers that scan back, for any automata and
configurations as above, any requests for a position in their haystack
(`RequestAssumption`, which also gives the engines they leave a request to a place in
it for an answer), and searchers whose literals are no shorter than the suffix or prefix
they are taken to share (`SearcherAssumption`). Its invariant joins three parts. The
cache is `Sound`, by the same lemmas. A scan stays in its region, and its region is that
of the candidate the loop has got to (`CandidateOK`): only so does the loop know, when a
scan ends, where the candidate was, and that what it answers ends in the haystack. And
the guard of a suffix searcher is at or behind the end of everything scanned
(`PassedOK`); the end of a scan is that of its candidate, so trying the next one keeps
it. `TypeCorrect` (`TypeOK`), `CacheStaysInAgreement` (`CacheAgrees`) and
`CacheStaysBounded` follow, and `EachByteOnce` (`NoByteTwice`): no limited scan of one
request may read a byte that an earlier one was allowed to read, which is what keeps the
search linear. That property says nothing of inner searchers, whose `Find` does not move
the guard (section 6), nor does the theorem.

Only model-checked, and why:

- All liveness: `SearchEnds`, `RequestEnds`, `LoopEnds`, and the fairness in `LoopSpec`.
- Which match is preferred: of `DfaAnswers`, `FoundIsAMatch` proves that what is reported is
  a match, and `NothingIsMissed` that one is reported where there is one; that it is the
  leftmost one with its preferred end stays with TLC, as do searches with a prefilter or
  with word assertions that report none.
- What an engine answers, compared with the syntax tree: `DfaAnswers`, `Answers` of the
  backtracker and of PikeVM, `ScanAnswers`, `RequestAnswers`, `Complete`. `Regexp`,
  `Thompson`, `Reverse`, `LiteralExtraction`, `Selection`, `Searchers` and the closures of
  `PikeVM` are recursive operators on trees and automata, and a module that declares or
  reaches one cannot hold theorems; so `LiteralsNecessary`, `ChosenFits`,
  `LeftmostFirst`, `PhasesAgree` and the types of `SearchLoops` stay with TLC, too.
- The preference of the subset construction (the order of a closure): what would be proved
  is an order on paths, which `Paths` does not have.

## 5. Plan

Done: the pool, the loops over matches, the forward and the reverse DFA, the searchers
that scan back and the backtracker with their proofs; the compiler; PikeVM and the loops
over it; the reversed NFA; literal extraction, strategy selection and the searchers of special forms.

Left, in this order:

1. Engine answers of `meta/find_indices.go`: windows of the backtracker on large
   inputs, slices that hide the byte before, estimated starts, and the second search
   when groups are not found in a span.
2. The one-pass DFA, compared as PikeVM is; the prefilter tracker; the sparse set.

## 6. Not modelled, and known departures

Left out of modelled components, because nothing reaches it: states for whole runes
(the compiler emits none), `SearchAll` of PikeVM, `Minimize` of literal sequences,
`searchEarliestMatchAnchored`. Left out though reachable: multi-byte UTF-8 in classes
and in `.`; `hasCaseInsensitiveUnicode`; the streaming loop `FindAllIndices` of the
character class searcher; the one-pass DFA; the tracker; Teddy's masks (a
prefilter is its set of literals and its order of reporting); complete prefilters
in the lazy DFA. Left out for good: assembly and word-at-a-time scanning in `simd` (a
search for a byte), CPU feature selection, benchmarks, debug output and statistics.

The passing runs stay clear of some inputs, because the code, as read, departs there from its
documentation or from `regexp`. The violation runs show seven such departures.
The others were met while translating; no run shows them:

- Reverse searches. `SearchReverseLimited` answers the start it has when it is cut
  short instead of -2. After a clear a backward scan starts over. `Find` with
  `.*suffix` looks at the last line with the suffix. `FindAt` and `IsMatch` with
  several suffixes take the length of their common suffix. The inner searcher's
  `Find` does not move `minMatchStart`, and its forward search is not anchored at
  the literal. `Find` of a suffix set keeps the last candidate, not the first. The
  shortcut for `.*x.*` also takes `.+x.+`. `nfaFallbackReverse` runs forward. The
  reversed NFA drops assertions.
- Multiline line searcher: what lies between prefix and suffix is not verified, and they may overlap.
- Extraction. Suffixes of a case-insensitive literal are not folded when they are
  prepended. An inner literal inside a group need not be at its start. `.*a(.b)` gets
  the suffix "ab". Some truncations (`expandAlternateContribution`, the overflow of
  a cross product, unions at the limit) do not set `partialCoverage`, and `Clone`
  drops it. A single literal that is cut at the maximal length stays complete. Nine
  folded letters give no variants.
- Selection and special searchers. `(?m)(?:^abc|def)` asks for a line start before either
  word. Aho-Corasick is chosen without a look at anchors. A composite sequence ignores a
  minimum of two and skips starts; lazy quantifiers and case folding are not looked
  at; a dispatcher ignores what follows its branches. An anchored literal's `.` takes
  newlines. Teddy reports overlapping literals by bucket when there are more than eight.
- Forward DFA. The exit-byte scan skips a byte on which the state dies as though the
  state looped on it (`builder.go:664`), so `^a+b`, once accelerated, goes on behind an `x`.
  When no exit byte is ahead it answers without looking at the assertions at the end of the
  input (`lazy.go:731`). Before a newline the line ends are passed first and the word
  boundaries after them, so that what lies behind both is not reached (`a\b$`, nor `$^`).
  The flags for a match at a word boundary are set when a state is determinized
  (`lazy.go:1418`): a start state has none.
- Elsewhere. `AllIndex` finds an empty match behind the position twice;
  `Split` with limit 1; `$name` in templates; an empty match at the end has no groups;
  the loops advance by a byte where `regexp` advances by a rune; `FindAt` with a
  complete prefilter answers the start; `clearCount` is never reset; the default
  `MinLiteralLen` is 1 where `config.go` documents 2.
