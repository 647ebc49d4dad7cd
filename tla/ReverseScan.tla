----------------------------- MODULE ReverseScan -----------------------------
(***************************************************************************)
(* dfa/lazy/lazy.go: the backward searches.  A lazy DFA over a reversed    *)
(* NFA reads the bytes before position end, the last one first, and        *)
(* answers where a match that ends at end begins.  It fills the same kind  *)
(* of cache as a forward search, and may run into its capacity just so.    *)
(* SearchReverseLimited does not read below minStart, the part its caller  *)
(* has already searched, and says so if that kept it from an answer.       *)
(***************************************************************************)
EXTENDS DFACache

VARIABLES
  call,       \* the latest scan: op, hay, start, end and minStart
  pc,         \* "idle", in the "fast" loop or in the "tail" loop
  pos,        \* the bytes from here on have been read (at + 1 in the code)
  sid,        \* the ID of the current DFA state
  lastMatch,  \* where the longest match seen so far begins
  answer      \* where the match begins, -1 or -2, and which engine says so

scan == <<call, pc, pos, sid, lastMatch, answer>>

Quadratic == -2      \* SearchReverseLimitedQuadratic

NoCall == [op |-> "SearchReverse", hay |-> <<>>, start |-> 0, end |-> 0, minStart |-> 0]
NoAnswer == [start |-> -1, by |-> "none"]

W == call.hay
Current == GetState(cache, sid)
Scans(op) == call.op = op
Scanning == pc # "idle"

(* The position the scan does not read below.                              *)
LowerBoundOf(c) == IF c.op = "SearchReverseLimited" /\ c.minStart > c.start
                   THEN c.minStart ELSE c.start
LowerBound == LowerBoundOf(call)

(* getStartStateForReverse: the context is the byte after the region, and  *)
(* the end of the haystack counts as the start of text.                    *)
ReverseStart(c, w, end) ==
  GetStartState(c, IF end >= Len(w) THEN "Text" ELSE StartKindOf(w[end + 1]), FALSE)

(* IsMatchReverse only says whether: 0 stands for true.                    *)
Give(start, by) ==
  /\ answer' = [start |-> IF Scans("IsMatchReverse") /\ start >= 0 THEN 0 ELSE start, by |-> by]
  /\ pc' = "idle"
  /\ pos' = 0 /\ sid' = InvalidState /\ lastMatch' = -1
  /\ UNCHANGED call

ScanFrom(id, from, loop) ==
  /\ pos' = from
  /\ sid' = id
  /\ pc' = loop

(* A scan begins; over an empty region there is nothing to find.           *)
EmptyRegion(c) ==
  /\ c.end <= c.start
  /\ answer' = [start |-> -1, by |-> "dfa"]
  /\ UNCHANGED <<cache, pc, pos, sid, lastMatch>>

EnterRegion(c, start) ==
  /\ c.end > c.start
  /\ ScanFrom(start.id, c.end, IF c.op = "SearchReverse" THEN "fast" ELSE "tail")
  /\ cache' = start.cache
  /\ lastMatch' = -1
  /\ answer' = NoAnswer

BeginScan(c) ==
  /\ call' = c
  /\ EmptyRegion(c) \/ EnterRegion(c, ReverseStart(cache, c.hay, c.end))
  /\ UNCHANGED dfa

-----------------------------------------------------------------------------
(* SearchReverse takes four known, untagged transitions a turn while four  *)
(* bytes remain; once it stops it does not come back.  run[k] is the ID    *)
(* after k of them.                                                        *)
OnFastLoop == pc = "fast" /\ pos >= call.start + 4
OnTail == Scanning /\ ~OnFastLoop

FastRun ==
  LET run[k \in 0..4] == IF k = 0 THEN sid ELSE Transition(cache, run[k - 1], W[pos - k + 1])
      length == CHOOSE k \in 0..4 : /\ \A j \in 1..k : ~Tagged(run[j])
                                    /\ k = 4 \/ Tagged(run[k + 1])
  IN  [length |-> length, id |-> run[length]]

RunBack(run) == ScanFrom(run.id, pos - run.length, IF run.length = 4 THEN "fast" ELSE "tail")

FastLoop ==
  /\ OnFastLoop
  /\ RunBack(FastRun)
  /\ UNCHANGED <<dfa, cache, call, lastMatch, answer>>

-----------------------------------------------------------------------------
(* The tail loop, one byte a turn.                                         *)
AtByte == OnTail /\ pos > LowerBound
NextBack == Transition(cache, sid, W[pos])

(* A match tag on the new state says that a match begins after this byte.  *)
StepBack(id) ==
  IF "match" \in id.tag /\ Scans("IsMatchReverse")
  THEN Give(pos, "dfa")
  ELSE /\ ScanFrom(id, pos - 1, "tail")
       /\ lastMatch' = IF "match" \in id.tag THEN pos ELSE lastMatch
       /\ UNCHANGED <<call, answer>>

FollowBack ==
  /\ AtByte
  /\ NextBack \notin {InvalidState, DeadState}
  /\ StepBack(NextBack)
  /\ UNCHANGED <<dfa, cache>>

DieBack ==
  /\ AtByte
  /\ NextBack = DeadState
  /\ Give(lastMatch, "dfa")
  /\ UNCHANGED <<dfa, cache>>

(* nfaFallbackReverse: a PikeVM over the reversed NFA, which it runs over  *)
(* the region forwards.                                                    *)
RunsFrom(n, i, end) ==
  LET step(sofar, b) ==
        [ids |-> Move(n, sofar.ids, b, FALSE, FALSE),
         match |-> sofar.match \/ ContainsMatchState(n, sofar.ids)]
      begin == [ids |-> EpsilonClosure(n, <<n.startAnchored>>, {}), match |-> FALSE]
      last == FoldLeft(step, begin, SubSeq(W, i + 1, end))
  IN  last.match \/ ContainsMatchState(n, last.ids)

FallbackReverse ==
  LET from == IF N.isAnchored THEN {call.start} ELSE call.start..call.end
      starts == {i \in from : RunsFrom(N, i, call.end)}
  IN  Give(IF starts = {} THEN -1 ELSE Minimum(starts), "nfa")

(* An unknown transition is determinized.  After the cache was cleared the *)
(* scan goes on from a start state, as if it began here.                   *)
Restarted(start) ==
  /\ cache' = start.cache
  /\ ScanFrom(start.id, pos, "tail")
  /\ UNCHANGED <<call, lastMatch, answer>>

Proceed(outcome) ==
  \/ outcome.kind = "next" /\ StepBack(outcome.id) /\ cache' = outcome.cache
  \/ outcome.kind = "dead" /\ Give(lastMatch, "dfa") /\ cache' = outcome.cache
  \/ outcome.kind = "cleared" /\ Restarted(ReverseStart(outcome.cache, W, pos))
  \/ outcome.kind = "failed" /\ FallbackReverse /\ cache' = outcome.cache

DeterminizeBack ==
  /\ AtByte
  /\ NextBack = InvalidState
  /\ Current # NoState
  /\ Proceed(DeterminizeInto(cache, Current, W[pos]))
  /\ UNCHANGED dfa

(* A start state that could not be stored has no entry to be fetched.      *)
LostBack ==
  /\ AtByte
  /\ NextBack = InvalidState
  /\ Current = NoState
  /\ FallbackReverse
  /\ UNCHANGED <<dfa, cache>>

(* Mutant: a scan that was cut short takes it that there is no match.      *)
VerdictUncut(start) == start

(* A limited scan that stopped above start and saw no match cannot tell.   *)
Verdict(start) ==
  IF Scans("SearchReverseLimited") /\ LowerBound > call.start /\ start < 0
  THEN Quadratic ELSE start

(* At the lower bound the match of the last state, which the next byte     *)
(* would have reported, is still due.  Mutant: it is forgotten.            *)
LastReported == lastMatch
LastStart == IF Current # NoState /\ ContainsMatchState(N, Current.nfaStates)
             THEN LowerBound ELSE lastMatch

EndOfRegion ==
  /\ OnTail
  /\ pos <= LowerBound
  /\ Give(Verdict(LastStart), "dfa")
  /\ UNCHANGED <<dfa, cache>>

ScanStep ==
  \/ FastLoop \/ FollowBack \/ DieBack \/ DeterminizeBack \/ LostBack \/ EndOfRegion
===============================================================================
