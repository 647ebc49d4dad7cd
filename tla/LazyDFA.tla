------------------------------- MODULE LazyDFA -------------------------------
(***************************************************************************)
(* dfa/lazy: a DFA built state by state while it searches.  What is built  *)
(* is kept in a DFACache that successive searches of one goroutine share,  *)
(* so a search may find rows other kinds of search filled, run into the    *)
(* capacity in the middle of the haystack, clear the cache and go on, or   *)
(* hand the call over to the NFA.  One action is one turn of a search      *)
(* loop; the searches are those of the forward DFA.                        *)
(***************************************************************************)
EXTENDS DFACache, Paths

CONSTANTS
  Calls,       \* Calls[p]: the searches [op, hay, at] the caller may ask for
  NfaEnd,      \* NfaEnd[p][w][at]: where PikeVM's match from at on ends, or -1
  AnchoredEnd, \* the same for a match that starts at at
  EarliestEnd  \* the first position where any match from at on ends

Haystack(p) == {c.hay : c \in Calls[p]}
Op == {"SearchAt", "SearchFirstAt", "IsMatchAt", "SearchAtAnchored", "FindAt"}

(* A search begins inside its haystack, and so do PikeVM's answers end.    *)
ASSUME SearchAssumption ==
  \A p \in Pattern : \A c \in Calls[p] :
    /\ c = [op |-> c.op, hay |-> c.hay, at |-> c.at]
    /\ c.op \in Op /\ c.hay \in Seq(Byte) /\ c.at \in 0..Len(c.hay)
    /\ \A i \in 0..Len(c.hay) : NfaEnd[p][c.hay][i] \in -1..Len(c.hay)

VARIABLES
  call,       \* the operation, haystack and position of the latest search
  pc,         \* "idle", at the "loop" head, on the "slow" path, about to "step",
              \* or where the cache was "cleared" under it
  pos,        \* the position the search has reached
  sid,        \* the ID of its current DFA state
  lastMatch,  \* the end of the last match it has seen
  answer      \* what the latest search returned, and which engine found it

vars == <<dfa, cache, call, pc, pos, sid, lastMatch, answer>>
search == <<call, pc, pos, sid, lastMatch, answer>>

(* matchesEmpty: the state of row 0, which there is none of before a       *)
(* clear, and else a search of the empty input.                            *)
MatchesEmpty(c) ==
  \/ ContainsMatchState(N, GetState(c, ID(0, {})).nfaStates)
  \/ dfa.pikevm[<<>>][0] = 0

-----------------------------------------------------------------------------
(* Mutant: what is not known yet is taken for a loop.                      *)
ExitBytesKnown(c, s) ==
  LET row == [class \in Classes(N) |-> Transition(c, s.id, Representative(N, class))]
      exits == {class \in Classes(N) : row[class] \notin {InvalidState, s.id, DeadState}}
  IN  IF Cardinality(exits) \in 1..3 THEN {Representative(N, class) : class \in exits} ELSE {}

(* Acceleration: a state of which at most three classes lead elsewhere     *)
(* gets the first byte of each of them as an exit byte.                    *)
ExitBytes(c, s) ==
  LET row == [class \in Classes(N) |-> Transition(c, s.id, Representative(N, class))]
      uncached == {class \in Classes(N) : row[class] = InvalidState}
      exits == {class \in Classes(N) : row[class] \notin {InvalidState, s.id, DeadState}}
  IN  IF Cardinality(uncached) <= Stride \div 16 /\ Cardinality(exits) \in 1..3
      THEN {Representative(N, class) : class \in exits} ELSE {}

TryDetectAcceleration(c, s) ==
  IF s.accelChecked THEN s
  ELSE [s EXCEPT !.accelChecked = TRUE, !.accelBytes = ExitBytes(c, s)]

-----------------------------------------------------------------------------
(* The searches.                                                           *)

W == call.hay
End == Len(W)
At(op) == call.op = op
Current == GetState(cache, sid)
NextByte == W[pos + 1]
Known(id) == id \notin {InvalidState, DeadState}

UsesPrefilter == HasPrefilter /\ ~At("SearchAtAnchored")
ForwardLoop(op) == op \in {"SearchAt", "SearchFirstAt", "IsMatchAt"}
CanUnroll == ForwardLoop(call.op) /\ ~HasWordBoundary(N)
Accelerates == call.op \in {"SearchAt", "IsMatchAt"}
StopsAtFirstMatch == call.op \in {"SearchFirstAt", "IsMatchAt"}

(* IsMatchAt only says whether: 0 stands for true.                         *)
Return(end, by) ==
  /\ answer' = [end |-> IF At("IsMatchAt") /\ end >= 0 THEN 0 ELSE end, by |-> by]
  /\ pc' = "idle"
  /\ pos' = 0 /\ sid' = InvalidState /\ lastMatch' = -1
  /\ UNCHANGED call

(* Mutant: the NFA always starts at the beginning.                         *)
FallbackFromZero == Return(dfa.pikevm[W][0], "nfa")

(* nfaFallback: PikeVM searches from the start of the call, in FindAt from *)
(* the start of the haystack.                                              *)
Fallback == Return(dfa.pikevm[W][IF At("FindAt") THEN 0 ELSE call.at], "nfa")

(* The search goes on from the start state at position i.                  *)
Resume(start, i) ==
  /\ cache' = start.cache
  /\ sid' = start.id
  /\ pos' = i
  /\ pc' = "loop"
  /\ UNCHANGED <<call, lastMatch, answer>>
RestartAt(c, i) == Resume(StartAt(c, W, i, At("SearchAtAnchored")), i)

(* What a search may be asked for; without a prefilter FindAt is SearchAt. *)
Request(c) ==
  /\ pc = "idle"
  /\ c \in Calls[dfa.pattern]
  /\ c.op = "FindAt" => HasPrefilter
  /\ call' = c
  /\ UNCHANGED dfa

(* A pattern that starts with \A is searched for at position 0 only.       *)
Refused(c) == N.isAlwaysAnchored /\ c.at > 0 /\ ForwardLoop(c.op)

(* At the end of the haystack nothing is searched: matchesEmpty decides.   *)
SearchAtEnd(c) ==
  /\ Request(c)
  /\ c.at = Len(c.hay)
  /\ answer' = [end |-> IF ~MatchesEmpty(cache) THEN -1
                        ELSE IF c.op = "IsMatchAt" THEN 0 ELSE c.at, by |-> "empty"]
  /\ UNCHANGED <<cache, pc, pos, sid, lastMatch>>

RefuseAnchored(c) ==
  /\ Request(c)
  /\ c.at < Len(c.hay)
  /\ Refused(c)
  /\ answer' = [end |-> -1, by |-> "dfa"]
  /\ UNCHANGED <<cache, pc, pos, sid, lastMatch>>

(* FindAt has nothing to do when the prefilter finds no candidate ...      *)
NoCandidate(c) ==
  /\ Request(c)
  /\ c.op = "FindAt" /\ c.at < Len(c.hay)
  /\ Candidate(c.hay, c.at) < 0
  /\ answer' = [end |-> -1, by |-> "dfa"]
  /\ UNCHANGED <<cache, pc, pos, sid, lastMatch>>

(* ... and else starts at the first one.                                   *)
Begin(from, start) ==
  /\ cache' = start.cache
  /\ sid' = start.id
  /\ pos' = from
  /\ pc' = "loop"
  /\ lastMatch' = -1
  /\ answer' = [end |-> -1, by |-> "none"]

Search(c) ==
  LET from == IF c.op = "FindAt" THEN Candidate(c.hay, c.at) ELSE c.at
  IN  /\ Request(c)
      /\ c.at < Len(c.hay)
      /\ ~Refused(c)
      /\ from >= 0
      /\ Begin(from, StartAt(cache, c.hay, from, c.op = "SearchAtAnchored"))

-----------------------------------------------------------------------------
(* The unrolled fast path: up to four known, untagged transitions while at *)
(* least four bytes remain; it never looks at a state.  run[k] is the ID   *)
(* after k of them.                                                        *)
OnFastPath ==
  /\ pc = "loop"
  /\ CanUnroll
  /\ pos + 3 < End
  /\ Accelerates => Current.accelBytes = {}
  /\ sid.row < Len(cache.flatTrans)

FastRun ==
  LET run[k \in 0..4] == IF k = 0 THEN sid ELSE Transition(cache, run[k - 1], W[pos + k])
      length == CHOOSE k \in 0..4 : /\ \A j \in 1..k : ~Tagged(run[j])
                                    /\ k = 4 \/ Tagged(run[k + 1])
  IN  [length |-> length, id |-> run[length],
       next |-> IF length = 4 THEN InvalidState ELSE run[length + 1]]

Ran(run) ==
  IF At("IsMatchAt") /\ "match" \in run.next.tag
  THEN Return(0, "dfa")
  ELSE /\ pos' = pos + run.length
       /\ sid' = run.id
       /\ pc' = IF run.length = 4 THEN "loop" ELSE "slow"
       /\ UNCHANGED <<call, lastMatch, answer>>

FastPath ==
  /\ OnFastPath
  /\ Ran(FastRun)
  /\ UNCHANGED <<dfa, cache>>

-----------------------------------------------------------------------------
(* The slow path.                                                          *)
OnSlowPath == pc = "slow" \/ (pc = "loop" /\ pos < End /\ ~OnFastPath)

AtStartState == "start" \in sid.tag

(* Back in a start state with no match seen: skip to the next candidate.   *)
MaySkip ==
  /\ AtStartState
  /\ UsesPrefilter
  /\ lastMatch < 0
  /\ pos > call.at
  /\ Candidate(W, pos) # pos

SkipAhead ==
  /\ OnSlowPath
  /\ MaySkip
  /\ IF Candidate(W, pos) < 0
     THEN Return(-1, "dfa") /\ UNCHANGED cache
     ELSE RestartAt(cache, Candidate(W, pos))
  /\ UNCHANGED dfa

(* Mutant: the match is taken to end behind the byte.                      *)
EnterUndelayed(id) ==
  IF "match" \in id.tag /\ StopsAtFirstMatch
  THEN Return(pos + 1, "dfa")
  ELSE /\ sid' = id
       /\ lastMatch' = IF "match" \in id.tag THEN pos + 1 ELSE lastMatch
       /\ pos' = pos + 1
       /\ pc' = "loop"
       /\ UNCHANGED <<call, answer>>

(* Consume the next byte, entering the state id; a match tag says that a   *)
(* match ended before that byte.                                           *)
Enter(id) ==
  IF "match" \in id.tag /\ StopsAtFirstMatch
  THEN Return(pos, "dfa")
  ELSE /\ sid' = id
       /\ lastMatch' = IF "match" \in id.tag THEN pos ELSE lastMatch
       /\ pos' = pos + 1
       /\ pc' = "loop"
       /\ UNCHANGED <<call, answer>>

(* SearchAt and IsMatchAt take a known transition out of a start state     *)
(* without looking at the state.                                           *)
MayLeaveStart == Accelerates /\ AtStartState /\ Known(Transition(cache, sid, NextByte))

LeaveStart ==
  /\ OnSlowPath
  /\ ~MaySkip
  /\ MayLeaveStart
  /\ Enter(Transition(cache, sid, NextByte))
  /\ UNCHANGED <<dfa, cache>>

(* Otherwise they fetch the state, see once whether it is accelerable, and *)
(* skip to its next exit byte.                                             *)
ExitAhead(exitBytes) == {i \in pos..(End - 1) : W[i + 1] \in exitBytes}

SkipToExit(state) ==
  /\ cache' = Register(cache, state)
  /\ \/ /\ state.accelBytes = {}
        /\ pc' = "step"
        /\ UNCHANGED <<call, pos, sid, lastMatch, answer>>
     \/ /\ state.accelBytes # {}
        /\ ExitAhead(state.accelBytes) = {}
        /\ Return(lastMatch, "dfa")
     \/ /\ ExitAhead(state.accelBytes) # {}
        /\ pos' = Minimum(ExitAhead(state.accelBytes))
        /\ pc' = "step"
        /\ UNCHANGED <<call, sid, lastMatch, answer>>

Accelerate ==
  /\ OnSlowPath
  /\ ~MaySkip
  /\ Accelerates /\ ~MayLeaveStart
  /\ Current # NoState
  /\ SkipToExit(TryDetectAcceleration(cache, Current))
  /\ UNCHANGED dfa

ReadyToStep == pc = "step" \/ (OnSlowPath /\ ~MaySkip /\ ~Accelerates)

(* A pending \b or \B that the next byte decides completes a match here.   *)
(* SearchAt and FindAt work it out, the others use the flags computed when *)
(* the state was determinized.                                             *)
BoundaryCompletes ==
  LET satisfied == Current.isFromWord # IsWordByte(NextByte)
  IN  /\ HasWordBoundary(N)
      /\ Current # NoState
      /\ ~Current.isMatch
      /\ IF call.op \in {"SearchAt", "FindAt"}
         THEN ContainsMatchState(N, ResolveWordBoundaries(N, Current.nfaStates, satisfied))
         ELSE IF satisfied THEN Current.matchAtWordBoundary
                           ELSE Current.matchAtNonWordBoundary

MatchAtBoundary ==
  /\ ReadyToStep
  /\ BoundaryCompletes
  /\ Return(pos, "dfa")
  /\ UNCHANGED <<dfa, cache>>

Follow ==
  LET next == Transition(cache, sid, NextByte)
  IN  /\ ReadyToStep
      /\ ~BoundaryCompletes
      /\ Known(next)
      /\ Enter(next)
      /\ UNCHANGED <<dfa, cache>>

(* Dead: the search is over, unless a prefilter has another candidate.     *)
Die(c) ==
  IF UsesPrefilter /\ call.op \in {"FindAt", "IsMatchAt"} /\ lastMatch < 0
     /\ Candidate(W, pos + 1) >= 0
  THEN RestartAt(c, Candidate(W, pos + 1))
  ELSE Return(lastMatch, "dfa") /\ cache' = c

DieKnown ==
  /\ ReadyToStep
  /\ ~BoundaryCompletes
  /\ Transition(cache, sid, NextByte) = DeadState
  /\ Die(cache)
  /\ UNCHANGED dfa

(* An unknown transition is determinized.  Only SearchAtAnchored and       *)
(* FindAt go on after the cache was cleared.                               *)
GoesOnAfterClear == call.op \in {"SearchAtAnchored", "FindAt"}

Cleared(c) ==
  /\ cache' = c
  /\ pc' = "cleared"
  /\ UNCHANGED <<call, pos, sid, lastMatch, answer>>

Proceed(outcome) ==
  \/ outcome.kind = "next" /\ Enter(outcome.id) /\ cache' = outcome.cache
  \/ outcome.kind = "dead" /\ Die(outcome.cache)
  \/ outcome.kind = "cleared" /\ GoesOnAfterClear /\ Cleared(outcome.cache)
  \/ outcome.kind = "cleared" /\ ~GoesOnAfterClear /\ Fallback /\ cache' = outcome.cache
  \/ outcome.kind = "failed" /\ Fallback /\ cache' = outcome.cache

DeterminizeStep ==
  /\ ReadyToStep
  /\ ~BoundaryCompletes
  /\ Transition(cache, sid, NextByte) = InvalidState
  /\ Current # NoState
  /\ Proceed(DeterminizeInto(cache, Current, NextByte))
  /\ UNCHANGED dfa

(* A search that goes on gets the start state at its position: its states  *)
(* are gone.                                                               *)
RestartAfterClear ==
  /\ pc = "cleared"
  /\ RestartAt(cache, pos)
  /\ UNCHANGED dfa

(* A start state that could not be stored has no entry to be fetched.      *)
Lost ==
  /\ OnSlowPath /\ ~MaySkip
  /\ IF Accelerates THEN ~MayLeaveStart
     ELSE ~BoundaryCompletes /\ Transition(cache, sid, NextByte) = InvalidState
  /\ Current = NoState
  /\ Fallback
  /\ UNCHANGED <<dfa, cache>>

(* Mutant: no byte more, no match more.                                    *)
EndOfInputUnchecked ==
  /\ pc = "loop"
  /\ pos = End
  /\ Return(lastMatch, "dfa")
  /\ UNCHANGED <<dfa, cache>>

EndOfInput ==
  /\ pc = "loop"
  /\ pos = End
  /\ Return(IF Current # NoState /\ CheckEOIMatch(N, Current.nfaStates, Current.isFromWord)
            THEN End ELSE lastMatch, "dfa")
  /\ UNCHANGED <<dfa, cache>>

-----------------------------------------------------------------------------
Init ==
  /\ \E p \in Pattern : \E cfg \in Config[p] : dfa = NewDFA(p, cfg, NfaEnd[p])
  /\ cache = NewCache
  /\ call = [op |-> "SearchAt", hay |-> <<>>, at |-> 0]
  /\ pc = "idle"
  /\ pos = 0
  /\ sid = InvalidState
  /\ lastMatch = -1
  /\ answer = [end |-> -1, by |-> "none"]

NewSearch ==
  \E c \in Calls[dfa.pattern] : SearchAtEnd(c) \/ RefuseAnchored(c) \/ NoCandidate(c) \/ Search(c)

SearchStep ==
  \/ FastPath \/ SkipAhead \/ LeaveStart \/ Accelerate \/ Lost
  \/ MatchAtBoundary \/ Follow \/ DieKnown \/ DeterminizeStep \/ RestartAfterClear
  \/ EndOfInput

Next == NewSearch \/ SearchStep

(* A search that has begun keeps being executed: the goroutine that runs   *)
(* it is not stopped for ever.  A running search always has a step to take *)
(* (TLC finds no deadlock), and each step changes pos or pc, so this is    *)
(* the weak fairness of SearchStep.                                        *)
Fairness == <>[](pc # "idle") => []<><<pc # "idle">>_vars

Spec == Init /\ [][Next]_vars /\ Fairness

-----------------------------------------------------------------------------
(* The cache and the search in it are of their types.                      *)
TypeOK ==
  /\ \E cfg \in Config[dfa.pattern] : dfa = NewDFA(dfa.pattern, cfg, NfaEnd[dfa.pattern])
  /\ CacheTypeOK
  /\ call \in [op : Op, hay : Haystack(dfa.pattern) \cup {<<>>}, at : 0..End]
  /\ pc \in {"idle", "loop", "slow", "step", "cleared"}
  /\ pos \in 0..End /\ sid \in StateIDs /\ lastMatch \in -1..End
  /\ answer.end \in -1..End

(* The answer the call was promised.                                       *)
Expected ==
  CASE call.op \in {"SearchAt", "FindAt"} -> NfaEnd[dfa.pattern][W][call.at]
    [] At("SearchFirstAt") -> EarliestEnd[dfa.pattern][W][call.at]
    [] At("SearchAtAnchored") -> AnchoredEnd[dfa.pattern][W][call.at]
    [] At("IsMatchAt") -> IF NfaEnd[dfa.pattern][W][call.at] >= 0 THEN 0 ELSE -1

Answered(by) == pc = "idle" /\ answer.by \in by

(* Whatever earlier searches of any kind left in the cache, an answer the  *)
(* DFA gives is the one the expression calls for: the end of the leftmost  *)
(* match with its preferred end, of the match at the position, or the      *)
(* earliest end.  Until the cache is cleared for the first time.           *)
DfaAnswers == Answered({"dfa", "empty"}) /\ cache.clearCount = 0 => answer.end = Expected

(* A search that gives up in the middle, because the cache is full or a    *)
(* set of states is too large, loses nothing: the NFA's answer is to the   *)
(* question that was asked.  (SearchAt and IsMatchAt.)                     *)
FallbackAnswers ==
  Answered({"nfa"}) /\ call.op \in {"SearchAt", "IsMatchAt"} => answer.end = Expected

(* The transition table is the subset construction: what is recorded for a *)
(* state and a class of bytes is where the construction takes the state on *)
(* every searched byte of the class.  Until the cache is cleared.          *)
BytesOf(p) == UNION {ToSet(w) : w \in Haystack(p)}
SearchedBytes == BytesOf(dfa.pattern)
Leads(s, b, id) ==
  LET next == NextState(s, b)
      target == GetState(cache, id)
  IN  IF id = DeadState THEN IsDeadEnd(next)
      ELSE /\ ToSet(target.nfaStates) = ToSet(next.nfaStates)
           /\ target.isMatch = next.isMatch /\ ("match" \in id.tag) = next.isMatch
RowsDeterminized ==
  cache.clearCount = 0 =>
    \A k \in DOMAIN cache.stateList, b \in SearchedBytes :
      LET s == cache.stateList[k]
          id == Transition(cache, s.id, b)
      IN  Filed(k) /\ id # InvalidState => Leads(s, b, id)

(* Where the paths of an automaton end that begin at a position.           *)
EndsOf(n, w, anchored, i) ==
  MatchEnds(n, w, <<IF anchored THEN n.startAnchored ELSE n.startUnanchored, i>>)

PathEnds ==
  [p \in Pattern |-> [w \in Haystack(p) \cup {<<>>} |->
     [anchored \in BOOLEAN |-> [i \in 0..Len(w) |-> EndsOf(Automaton[p], w, anchored, i)]]]]
EndsFrom(i) == PathEnds[dfa.pattern][W][At("SearchAtAnchored")][i]

(* Until the cache is cleared for the first time, what the DFA answers is  *)
(* a match that the compiled automaton has, by some path from where the    *)
(* search may start to where it says the match ends: neither the delay of  *)
(* a byte, nor a shortcut, nor a state found in the cache that another     *)
(* kind of search left there makes it report an end that is none.          *)
FindsMatches ==
  Answered({"dfa"}) /\ cache.clearCount = 0 /\ answer.end >= 0 =>
    \E i \in call.at..(IF At("SearchAtAnchored") THEN call.at ELSE End) :
      \E e \in EndsFrom(i) : answer.end = e \/ At("IsMatchAt")

(* Nor does it overlook one: an answer of "no match" is given only when    *)
(* no path of the automaton that begins at the position asked for ends at  *)
(* a match, and the earliest end it reports is not behind the end of any   *)
(* path: nothing is lost in the rows an earlier search left unfinished, in *)
(* the delay of a byte, or at the end of the input.                        *)
MissesNothing ==
  Answered({"dfa"}) /\ cache.clearCount = 0 =>
    \A e \in EndsFrom(call.at) :
      answer.end # -1 /\ (At("SearchFirstAt") => answer.end <= e)

(* What the exit-byte scan relies on: on every searched byte that is none  *)
(* of its exit bytes an accelerable state stays what it is.                *)
ExitBytesLoop ==
  \A k \in DOMAIN cache.stateList, b \in SearchedBytes :
    LET s == cache.stateList[k]
        next == NextState(s, b)
    IN  Filed(k) /\ s.accelBytes # {} /\ b \notin s.accelBytes =>
          /\ ToSet(next.nfaStates) = ToSet(s.nfaStates) /\ next.isMatch = s.isMatch
          /\ HasWordBoundary(N) => next.isFromWord = s.isFromWord

(* And when no exit byte is ahead it answers without looking at the end of *)
(* the input: an accelerable state that has not reported a match completes *)
(* none there.                                                             *)
AcceleratedEnd ==
  \A k \in DOMAIN cache.stateList :
    LET s == cache.stateList[k]
    IN  Filed(k) /\ s.accelBytes # {} =>
          s.isMatch \/ ~CheckEOIMatch(N, s.nfaStates, s.isFromWord)

(* Every search comes to an end, however often it clears the cache, skips  *)
(* ahead or starts again.                                                  *)
SearchEnds == pc # "idle" ~> pc = "idle"

(* What the documentation says and the code does not do.                   *)

(* cache.go:112: a new state's row is "all InvalidState initially", so an  *)
(* answer does not depend on how often the cache was cleared.              *)
AnswersAfterClear == Answered({"dfa"}) => answer.end = Expected

(* lazy.go:217: SearchAtAnchored finds matches that begin at the position  *)
(* asked for and no others, whichever engine answers.                      *)
AnchoredFallback == Answered({"nfa"}) /\ At("SearchAtAnchored") => answer.end = Expected

(* lazy.go:1668: the exit bytes of an accelerable state are "the only      *)
(* bytes that can transition to a different state"; all others loop or die.*)
ExitBytesSuffice ==
  \A k \in DOMAIN cache.stateList, b \in SearchedBytes :
    LET s == cache.stateList[k]
        next == NextState(s, b)
    IN  Filed(k) /\ s.accelBytes # {} /\ b \notin s.accelBytes =>
          \/ IsDeadEnd(next)
          \/ ToSet(next.nfaStates) = ToSet(s.nfaStates) /\ next.isMatch = s.isMatch
===============================================================================
