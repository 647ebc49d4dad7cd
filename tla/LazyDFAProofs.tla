----------------------------- MODULE LazyDFAProofs -----------------------------
(***************************************************************************)
(* The forward searches: whatever they do to it, in whatever order, the    *)
(* cache stays in agreement with itself, what a search is replaced with    *)
(* answers the question that was asked, and until the cache is cleared the *)
(* table they fill is the table of the subset construction, although an    *)
(* entry is made for a whole class of bytes when one of them is met.       *)
(***************************************************************************)
EXTENDS LazyDFA, DFACacheProofs

-----------------------------------------------------------------------------
(* The inductive invariant: the DFA is that of a pattern, the call one     *)
(* that may be made, the search inside its haystack, the cache sound.      *)
DfaOK == /\ dfa.pattern \in Pattern
         /\ \E cfg \in Config[dfa.pattern] : dfa = NewDFA(dfa.pattern, cfg, NfaEnd[dfa.pattern])

CallOK == /\ call = [op |-> call.op, hay |-> call.hay, at |-> call.at]
          /\ call.op \in Op /\ W \in Seq(Byte) /\ call.at \in 0..End
          /\ call \in Calls[dfa.pattern] \/ (W = <<>> /\ pc = "idle")

PlaceOK == /\ pc \in {"idle", "loop", "slow", "step", "cleared"}
           /\ pos \in 0..End /\ lastMatch \in -1..End /\ answer.end \in -1..End
           /\ pc \in {"slow", "step", "cleared"} => pos < End
           /\ pc = "idle" => pos = 0 /\ lastMatch = -1

CacheOK == Sound(N, config, cache) /\ sid \in IDs(Len(cache.flatTrans))

IInv == DfaOK /\ CallOK /\ PlaceOK /\ CacheOK

(* The DFA in use is built from the automaton of its pattern.              *)
LEMMA DfaIsBuilt ==
  ASSUME DfaOK
  PROVE  Built /\ dfa.pikevm = NfaEnd[dfa.pattern]
  <1>1. PICK cfg \in Config[dfa.pattern] : dfa = NewDFA(dfa.pattern, cfg, NfaEnd[dfa.pattern])
    BY DEF DfaOK
  <1>2. dfa = [pattern |-> dfa.pattern, nfa |-> Automaton[dfa.pattern], config |-> cfg,
               prefilter |-> Literals[dfa.pattern], pikevm |-> NfaEnd[dfa.pattern]]
    BY <1>1 DEF NewDFA
  <1>3. dfa.nfa = Automaton[dfa.pattern] /\ dfa.config = cfg /\ dfa.pikevm = NfaEnd[dfa.pattern]
    BY <1>2
  <1> QED BY <1>1, <1>3 DEF DfaOK, Built, N, config

(* What a call that may be made is.                                        *)
LEMMA CallFacts ==
  ASSUME DfaOK, NEW c \in Calls[dfa.pattern]
  PROVE  /\ c = [op |-> c.op, hay |-> c.hay, at |-> c.at]
         /\ c.op \in Op /\ c.hay \in Seq(Byte) /\ Len(c.hay) \in Nat /\ c.at \in 0..Len(c.hay)
         /\ \A i \in 0..Len(c.hay) : dfa.pikevm[c.hay][i] \in -1..Len(c.hay)
  BY DfaIsBuilt, SearchAssumption DEF DfaOK

(* A candidate lies between the position asked for and the end.            *)
LEMMA CandidateFacts ==
  ASSUME NEW w, Len(w) \in Nat, NEW i \in Nat
  PROVE  Candidate(w, i) = -1 \/ Candidate(w, i) \in i..Len(w)
  <1> DEFINE hits == {j \in i..Len(w) : \E l \in dfa.prefilter : OccursAt(l, w, j)}
  <1>1. hits \in SUBSET Nat /\ hits \subseteq i..Len(w)
    OBVIOUS
  <1>2. Candidate(w, i) = IF hits = {} THEN -1 ELSE Minimum(hits)
    BY DEF Candidate
  <1> HIDE DEF hits
  <1> QED BY <1>1, <1>2, FirstPosition

-----------------------------------------------------------------------------
(* How a step of a search ends.                                            *)

(* A search that returns.                                                  *)
LEMMA ReturnKeeps ==
  ASSUME CallOK, dfa' = dfa, NEW end \in -1..End, NEW by, Return(end, by)
  PROVE  CallOK' /\ PlaceOK' /\ sid' = InvalidState
  <1>1. /\ call' = call /\ pc' = "idle" /\ pos' = 0 /\ lastMatch' = -1 /\ sid' = InvalidState
        /\ answer'.end = IF At("IsMatchAt") /\ end >= 0 THEN 0 ELSE end
    BY DEF Return
  <1>2. W' = W /\ End' = End /\ W \in Seq(Byte)
    BY <1>1 DEF W, End, CallOK
  <1>3. End \in Nat
    BY <1>2 DEF End
  <1>4. CallOK'
    BY <1>1, <1>2 DEF CallOK
  <1>5. answer'.end \in -1..End
    BY <1>1, <1>3
  <1>6. PlaceOK'
    BY <1>1, <1>2, <1>3, <1>5 DEF PlaceOK
  <1> QED BY <1>1, <1>4, <1>6

(* A search that goes on, at a place within its haystack.                  *)
LEMMA StayKeeps ==
  ASSUME CallOK, PlaceOK, pc # "idle", dfa' = dfa, UNCHANGED <<call, answer>>,
         pos' \in 0..End, lastMatch' \in -1..End, pc' \in {"loop", "slow", "step", "cleared"},
         pc' # "loop" => pos' < End
  PROVE  CallOK' /\ PlaceOK'
  <1>1. call' = call /\ answer' = answer
    OBVIOUS
  <1>2. W' = W /\ End' = End
    BY <1>1 DEF W, End
  <1>3. CallOK'
    BY <1>1, <1>2 DEF CallOK, PlaceOK
  <1>4. PlaceOK'
    BY <1>1, <1>2 DEF PlaceOK
  <1> QED BY <1>3, <1>4

(* A start state of the position a search goes on at.                      *)
LEMMA StartAtSound ==
  ASSUME Built, NEW c, Sound(N, config, c), NEW w \in Seq(Byte), NEW i \in 0..Len(w),
         NEW anchored \in BOOLEAN
  PROVE  Leaves(c, StartAt(c, w, i, anchored).cache, StartAt(c, w, i, anchored).id)
  <1> DEFINE kind == IF i = 0 THEN "Text" ELSE StartKindOf(w[i])
  <1>1. kind \in StartKind
    BY DEF StartKind, StartKindOf
  <1>2. StartAt(c, w, i, anchored) = GetStartState(c, kind, anchored)
    BY DEF StartAt
  <1> HIDE DEF kind
  <1> QED BY <1>1, <1>2, GetStartStateSound

(* A search that starts again at a position, after a clear.                *)
LEMMA RestartKeeps ==
  ASSUME DfaOK, CallOK, PlaceOK, pc # "idle", dfa' = dfa,
         NEW c, Sound(N, config, c), NEW i \in 0..End, RestartAt(c, i)
  PROVE  CallOK' /\ PlaceOK' /\ CacheOK'
  <1> DEFINE start == StartAt(c, W, i, At("SearchAtAnchored"))
  <1>1. /\ cache' = start.cache /\ sid' = start.id /\ pos' = i /\ pc' = "loop"
        /\ call' = call /\ lastMatch' = lastMatch /\ answer' = answer
    BY DEF RestartAt, Resume
  <1>2. Leaves(c, start.cache, start.id)
    <2>1. At("SearchAtAnchored") \in BOOLEAN
      BY DEF At
    <2> QED BY <2>1, DfaIsBuilt, StartAtSound DEF CallOK, End
  <1> HIDE DEF start
  <1>3. N' = N /\ config' = config
    BY DEF N, config
  <1>4. CacheOK'
    BY <1>1, <1>2, <1>3 DEF CacheOK, Leaves
  <1>5. CallOK' /\ PlaceOK'
    <2>1. lastMatch' \in -1..End /\ pos' \in 0..End
      BY <1>1 DEF PlaceOK
    <2> QED BY <1>1, <2>1, StayKeeps
  <1> QED BY <1>4, <1>5

(* A search that takes a transition.                                       *)
LEMMA EnterKeeps ==
  ASSUME CallOK, PlaceOK, pc # "idle", pos < End, dfa' = dfa, NEW id, Enter(id)
  PROVE  CallOK' /\ PlaceOK' /\ (sid' = id \/ sid' = InvalidState)
  <1>1. End \in Nat /\ pos \in 0..End /\ lastMatch \in -1..End
    BY DEF CallOK, PlaceOK, End
  <1>2. CASE "match" \in id.tag /\ StopsAtFirstMatch
    <2>1. Return(pos, "dfa")
      BY <1>2 DEF Enter
    <2>2. pos \in -1..End
      BY <1>1
    <2> QED BY <2>1, <2>2, ReturnKeeps
  <1>3. CASE ~("match" \in id.tag /\ StopsAtFirstMatch)
    <2>1. /\ sid' = id /\ lastMatch' = IF "match" \in id.tag THEN pos ELSE lastMatch
          /\ pos' = pos + 1 /\ pc' = "loop" /\ call' = call /\ answer' = answer
      BY <1>3 DEF Enter
    <2>2. pos' \in 0..End /\ lastMatch' \in -1..End
      BY <1>1, <2>1
    <2> QED BY <2>1, <2>2, StayKeeps
  <1> QED BY <1>2, <1>3

(* A search that hands over to the NFA.                                    *)
LEMMA FallbackKeeps ==
  ASSUME DfaOK, CallOK, pc # "idle", dfa' = dfa, Fallback
  PROVE  CallOK' /\ PlaceOK' /\ sid' = InvalidState
  <1> DEFINE from == IF At("FindAt") THEN 0 ELSE call.at
             end == dfa.pikevm[W][from]
  <1>1. call \in Calls[dfa.pattern] /\ call.at \in 0..End /\ End \in Nat
    BY DEF CallOK, End
  <1>2. from \in 0..End
    BY <1>1
  <1> HIDE DEF from
  <1>3. end \in -1..End
    BY <1>1, <1>2, CallFacts DEF W, End
  <1>4. Return(end, "nfa")
    BY DEF Fallback, from
  <1> HIDE DEF end
  <1> QED BY <1>3, <1>4, ReturnKeeps

(* A search whose state is dead.                                           *)
LEMMA DieKeeps ==
  ASSUME DfaOK, CallOK, PlaceOK, pc # "idle", pos < End, dfa' = dfa,
         NEW c, Sound(N, config, c), Die(c)
  PROVE  CallOK' /\ PlaceOK' /\ CacheOK'
  <1>1. End \in Nat /\ pos \in 0..End /\ lastMatch \in -1..End
    BY DEF CallOK, PlaceOK, End
  <1>2. N' = N /\ config' = config
    BY DEF N, config
  <1>3. CASE RestartAt(c, Candidate(W, pos + 1)) /\ Candidate(W, pos + 1) >= 0
    <2>1. Candidate(W, pos + 1) \in 0..End
      <3>1. pos + 1 \in Nat
        BY <1>1
      <3> QED BY <1>1, <1>3, <3>1, CandidateFacts DEF End
    <2> QED BY <1>3, <2>1, RestartKeeps
  <1>4. CASE Return(lastMatch, "dfa") /\ cache' = c
    <2>1. CallOK' /\ PlaceOK' /\ sid' = InvalidState
      BY <1>1, <1>4, ReturnKeeps
    <2>2. InvalidState \in IDs(Len(c.flatTrans))
      <3>1. Len(c.flatTrans) \in Nat
        BY DEF Sound, Typed
      <3> QED BY <3>1, SpecialTypes
    <2> QED BY <1>2, <1>4, <2>1, <2>2 DEF CacheOK
  <1> QED BY <1>3, <1>4 DEF Die
-----------------------------------------------------------------------------
(* A new search.                                                           *)

(* What is asked for is a call that may be made; nothing runs before it.   *)
LEMMA AnsweredKeeps ==
  ASSUME IInv, NEW c \in Calls[dfa.pattern], Request(c),
         answer'.end \in -1..Len(c.hay), UNCHANGED <<cache, pc, pos, sid, lastMatch>>
  PROVE  IInv'
  <1>1. /\ call' = c /\ dfa' = dfa /\ pc = "idle" /\ cache' = cache /\ pc' = pc /\ pos' = pos
        /\ sid' = sid /\ lastMatch' = lastMatch
    BY DEF Request
  <1>2. W' = c.hay /\ End' = Len(c.hay)
    BY <1>1 DEF W, End
  <1>3. DfaOK' /\ DfaOK
    BY <1>1 DEF IInv, DfaOK
  <1>4. CallOK'
    BY <1>1, <1>2, <1>3, CallFacts DEF CallOK
  <1>5. PlaceOK'
    <2>1. pos = 0 /\ lastMatch = -1 /\ Len(c.hay) \in Nat
      BY <1>1, <1>3, CallFacts DEF IInv, PlaceOK
    <2> QED BY <1>1, <1>2, <2>1 DEF PlaceOK
  <1>6. CacheOK'
    BY <1>1 DEF IInv, CacheOK, N, config
  <1> QED BY <1>3, <1>4, <1>5, <1>6 DEF IInv

(* A search that begins with a start state.                                *)
LEMMA SearchKeeps ==
  ASSUME IInv, NEW c \in Calls[dfa.pattern], Search(c)
  PROVE  IInv'
  <1> DEFINE from == IF c.op = "FindAt" THEN Candidate(c.hay, c.at) ELSE c.at
             anchored == c.op = "SearchAtAnchored"
             start == StartAt(cache, c.hay, from, anchored)
  <1>1. /\ call' = c /\ dfa' = dfa /\ cache' = start.cache /\ sid' = start.id /\ pos' = from
        /\ pc' = "loop" /\ lastMatch' = -1 /\ answer' = [end |-> -1, by |-> "none"] /\ from >= 0
    BY DEF Search, Request, Begin
  <1>2. W' = c.hay /\ End' = Len(c.hay)
    BY <1>1 DEF W, End
  <1>3. DfaOK' /\ DfaOK
    BY <1>1 DEF IInv, DfaOK
  <1>4. /\ c = [op |-> c.op, hay |-> c.hay, at |-> c.at]
        /\ c.op \in Op /\ c.hay \in Seq(Byte) /\ Len(c.hay) \in Nat /\ c.at \in 0..Len(c.hay)
    BY <1>3, CallFacts
  <1>5. CallOK'
    BY <1>1, <1>2, <1>4 DEF CallOK
  <1>6. from \in 0..Len(c.hay)
    <2>1. Candidate(c.hay, c.at) = -1 \/ Candidate(c.hay, c.at) \in c.at..Len(c.hay)
      BY <1>4, CandidateFacts
    <2> QED BY <1>1, <1>4, <2>1
  <1>7. PlaceOK'
    BY <1>1, <1>2, <1>4, <1>6 DEF PlaceOK
  <1>8. Leaves(cache, start.cache, start.id)
    <2>1. anchored \in BOOLEAN
      OBVIOUS
    <2> HIDE DEF from, anchored
    <2> QED BY <1>3, <1>4, <1>6, <2>1, DfaIsBuilt, StartAtSound DEF IInv, CacheOK
  <1>9. CacheOK'
    <2>1. N' = N /\ config' = config
      BY <1>1 DEF N, config
    <2> HIDE DEF start
    <2> QED BY <1>1, <1>8, <2>1 DEF CacheOK, Leaves
  <1> QED BY <1>3, <1>5, <1>7, <1>9 DEF IInv

(* A new search, those that end at once included.                          *)
LEMMA NewSearchKeeps ==
  ASSUME IInv, NewSearch
  PROVE  IInv'
  <1>1. PICK c \in Calls[dfa.pattern] :
          SearchAtEnd(c) \/ RefuseAnchored(c) \/ NoCandidate(c) \/ Search(c)
    BY DEF NewSearch
  <1>2. c.at \in 0..Len(c.hay) /\ Len(c.hay) \in Nat
    BY CallFacts DEF IInv
  <1>3. CASE SearchAtEnd(c)
    <2>1. answer'.end \in {-1, 0, c.at}
      BY <1>3 DEF SearchAtEnd
    <2>2. answer'.end \in -1..Len(c.hay)
      BY <1>2, <2>1
    <2> QED BY <1>3, <2>2, AnsweredKeeps DEF SearchAtEnd
  <1>4. CASE RefuseAnchored(c)
    <2>1. answer'.end \in -1..Len(c.hay)
      BY <1>2, <1>4 DEF RefuseAnchored
    <2> QED BY <1>4, <2>1, AnsweredKeeps DEF RefuseAnchored
  <1>5. CASE NoCandidate(c)
    <2>1. answer'.end \in -1..Len(c.hay)
      BY <1>2, <1>5 DEF NoCandidate
    <2> QED BY <1>5, <2>1, AnsweredKeeps DEF NoCandidate
  <1>6. CASE Search(c)
    BY <1>6, SearchKeeps
  <1> QED BY <1>1, <1>3, <1>4, <1>5, <1>6

-----------------------------------------------------------------------------
(* A step of a search.                                                     *)

(* What a step finds when it begins.                                       *)
LEMMA Before ==
  ASSUME IInv, pc # "idle"
  PROVE  /\ Built /\ Sound(N, config, cache) /\ sid \in AnyID /\ Len(cache.flatTrans) \in Nat
         /\ End \in Nat /\ pos \in 0..End /\ lastMatch \in -1..End
         /\ pos < End => NextByte \in Byte /\ Transition(cache, sid, NextByte) \in IDs(Len(cache.flatTrans))
         /\ Current \in State(N)
         /\ Current # NoState => /\ sid.row + 1 \in 1..Len(cache.stateList)
                                 /\ cache.stateList[sid.row + 1] = Current
                                 /\ Proper(Current, sid.row)
         /\ InvalidState \in IDs(Len(cache.flatTrans))
  <1>1. Built /\ Sound(N, config, cache) /\ sid \in IDs(Len(cache.flatTrans))
    BY DfaIsBuilt DEF IInv, CacheOK
  <1>2. Len(cache.flatTrans) \in Nat
    BY <1>1 DEF Sound, Typed
  <1>3. sid \in AnyID /\ InvalidState \in IDs(Len(cache.flatTrans))
    <2>1. sid \in AnyID
      BY <1>1, <1>2, WiderIDs
    <2> QED BY <1>2, <2>1, SpecialTypes
  <1>4. End \in Nat /\ pos \in 0..End /\ lastMatch \in -1..End /\ W \in Seq(Byte)
    BY DEF IInv, CallOK, PlaceOK, End
  <1>5. ASSUME pos < End PROVE NextByte \in Byte
    <2>1. pos + 1 \in 1..Len(W)
      BY <1>4, <1>5 DEF End
    <2> QED BY <1>4, <2>1 DEF NextByte
  <1>6. pos < End => Transition(cache, sid, NextByte) \in IDs(Len(cache.flatTrans))
    BY <1>1, <1>3, <1>5, TransitionType
  <1>7. /\ Current \in State(N)
        /\ Current # NoState => /\ sid.row + 1 \in 1..Len(cache.stateList)
                                /\ cache.stateList[sid.row + 1] = Current
                                /\ Proper(Current, sid.row)
    BY <1>1, <1>3, GetStateFacts DEF Current
  <1> QED BY <1>1, <1>2, <1>3, <1>4, <1>5, <1>6, <1>7

(* The cache stays as it is.                                               *)
LEMMA SameCacheKeeps ==
  ASSUME IInv, pc # "idle", UNCHANGED <<dfa, cache>>, CallOK', PlaceOK',
         sid' \in IDs(Len(cache.flatTrans))
  PROVE  IInv'
  <1>1. DfaOK'
    BY DEF IInv, DfaOK
  <1>2. CacheOK'
    BY DEF IInv, CacheOK, N, config
  <1> QED BY <1>1, <1>2 DEF IInv

(* The run of the unrolled loop: the IDs after each of its transitions,    *)
(* the untagged ones of which it takes.                                    *)
RunsFast(run) ==
  LET length == FastRun.length
  IN  /\ run \in [0..4 -> IDs(Len(cache.flatTrans))] /\ run[0] = sid
      /\ \A k \in 1..4 : run[k] = Transition(cache, run[k - 1], W[pos + k])
      /\ length \in 0..4 /\ \A k \in 1..length : ~Tagged(run[k])
      /\ FastRun.id = run[length]
      /\ FastRun.next = IF length = 4 THEN InvalidState ELSE run[length + 1]

(* The unrolled loop ends at a row there is, up to four entries on.        *)
LEMMA FastRunFacts ==
  ASSUME IInv, pc = "loop", pos + 3 < End
  PROVE  /\ FastRun.length \in 0..4 /\ FastRun.id \in IDs(Len(cache.flatTrans))
         /\ \E run : RunsFast(run)
  <1> DEFINE L == Len(cache.flatTrans)
             run[k \in 0..4] == IF k = 0 THEN sid ELSE Transition(cache, run[k - 1], W[pos + k])
             step == [k \in 0..4 |-> [id \in IDs(L) |-> IF k = 0 THEN id
                                                        ELSE Transition(cache, id, W[pos + k])]]
             Runs(k) == (\A j \in 1..k : ~Tagged(run[j])) /\ (k = 4 \/ Tagged(run[k + 1]))
             length == CHOOSE k \in 0..4 : Runs(k)
  <1>1. /\ Built /\ Sound(N, config, cache) /\ L \in Nat /\ sid \in IDs(L)
        /\ End \in Nat /\ pos \in 0..End /\ W \in Seq(Byte) /\ End = Len(W)
    BY Before DEF IInv, CacheOK, CallOK, End
  <1>2. ASSUME NEW k \in 1..4 PROVE W[pos + k] \in Byte
    <2>1. pos + k \in 1..Len(W)
      BY <1>1
    <2> QED BY <1>1, <2>1
  <1>3. ASSUME NEW k \in 1..4, NEW id \in IDs(L)
        PROVE  Transition(cache, id, W[pos + k]) \in IDs(L)
    BY <1>1, <1>2, TransitionType, WiderIDs
  <1>4. step \in [0..4 -> [IDs(L) -> IDs(L)]]
    <2>1. ASSUME NEW k \in 0..4, NEW id \in IDs(L)
          PROVE  (IF k = 0 THEN id ELSE Transition(cache, id, W[pos + k])) \in IDs(L)
      <3>1. k # 0 => k \in 1..4
        OBVIOUS
      <3> QED BY <1>3, <3>1
    <2> HIDE DEF L
    <2> QED BY <2>1
  <1> HIDE DEF L
  <1>5. Defines(0, 4, IDs(L), sid, step)
    <2> HIDE DEF step
    <2>1. 0 \in Nat /\ 4 \in Nat /\ 0 <= 4
      OBVIOUS
    <2> QED BY <1>1, <1>4, <2>1, IntervalRecursion
  <1>6. PICK f \in [0..4 -> IDs(L)] :
          \A k \in 0..4 : f[k] = IF k = 0 THEN sid ELSE step[k][f[k - 1]]
    BY <1>5 DEF Defines
  <1>7. f = [k \in 0..4 |-> IF k = 0 THEN sid ELSE Transition(cache, f[k - 1], W[pos + k])]
    <2> SUFFICES ASSUME NEW k \in 0..4
                 PROVE  f[k] = IF k = 0 THEN sid ELSE Transition(cache, f[k - 1], W[pos + k])
      OBVIOUS
    <2>1. k # 0 => k - 1 \in 0..4
      OBVIOUS
    <2>2. k # 0 => f[k - 1] \in IDs(L) /\ step[k][f[k - 1]] = Transition(cache, f[k - 1], W[pos + k])
      BY <2>1
    <2> HIDE DEF step
    <2> QED BY <1>6, <2>2
  <1>8. run = [k \in 0..4 |-> IF k = 0 THEN sid ELSE Transition(cache, run[k - 1], W[pos + k])]
    BY <1>7
  <1> HIDE DEF run, step
  <1>9. \A k \in 0..4 : run[k] \in IDs(L)
    <2> DEFINE A == {k \in 0..4 : run[k] \in IDs(L)}
    <2>1. 0 \in A
      BY <1>1, <1>8
    <2>2. ASSUME NEW k \in 0..(4 - 1), k \in A PROVE k + 1 \in A
      <3>1. k + 1 \in 0..4 /\ k + 1 \in 1..4 /\ k + 1 # 0 /\ (k + 1) - 1 = k
        OBVIOUS
      <3>2. run[k + 1] = Transition(cache, run[k], W[pos + (k + 1)])
        BY <1>8, <3>1
      <3> QED BY <1>3, <2>2, <3>1, <3>2
    <2>3. 0..4 \subseteq A
      <3> HIDE DEF A
      <3>1. 0 \in Nat /\ 4 \in Nat
        OBVIOUS
      <3> QED BY <2>1, <2>2, <3>1, IntervalInduction
    <2> QED BY <2>3
  <1>10. \E k \in 0..4 : Runs(k)
    <2> DEFINE stops == {j \in 1..4 : Tagged(run[j])}
    <2>1. CASE stops = {}
      <3>1. Runs(4)
        BY <2>1
      <3> QED BY <3>1
    <2>2. CASE stops # {}
      <3>1. Min(stops) \in stops /\ \A x \in stops : Min(stops) <= x
        <4>1. stops \in SUBSET Nat
          OBVIOUS
        <4> HIDE DEF stops
        <4> QED BY <2>2, <4>1, LeastElement
      <3>2. PICK j \in 1..4 : Tagged(run[j]) /\ \A i \in 1..4 : Tagged(run[i]) => j <= i
        BY <3>1
      <3>3. Runs(j - 1)
        <4>1. (j - 1) + 1 = j
          OBVIOUS
        <4>2. \A i \in 1..(j - 1) : i \in 1..4 /\ ~(j <= i)
          OBVIOUS
        <4> QED BY <3>2, <4>1, <4>2
      <3>4. j - 1 \in 0..4
        OBVIOUS
      <3> QED BY <3>3, <3>4
    <2> QED BY <2>1, <2>2
  <1>11. length \in 0..4 /\ \A j \in 1..length : ~Tagged(run[j])
    <2>1. length \in 0..4 /\ Runs(length)
      <3> HIDE DEF Runs
      <3> QED BY <1>10
    <2> QED BY <2>1
  <1>12. /\ FastRun.length = length /\ FastRun.id = run[length]
         /\ FastRun.next = IF length = 4 THEN InvalidState ELSE run[length + 1]
    BY DEF FastRun, run
  <1> HIDE DEF length
  <1>13. run \in [0..4 -> IDs(L)] /\ run[0] = sid
    <2>1. run[0] = sid
      BY <1>8
    <2> QED BY <1>8, <1>9, <2>1
  <1>14. ASSUME NEW k \in 1..4 PROVE run[k] = Transition(cache, run[k - 1], W[pos + k])
    <2>1. k \in 0..4 /\ k # 0
      OBVIOUS
    <2> QED BY <1>8, <2>1
  <1>15. RunsFast(run)
    BY <1>11, <1>12, <1>13, <1>14 DEF RunsFast, L
  <1> QED BY <1>9, <1>11, <1>12, <1>15 DEF L

(* A slow path starts inside the haystack.                                 *)
LEMMA SlowPathPlace ==
  ASSUME IInv, OnSlowPath \/ pc = "step"
  PROVE  pc # "idle" /\ pos < End
  BY DEF IInv, PlaceOK, OnSlowPath

(* The unrolled loop.                                                      *)
LEMMA FastPathKeeps ==
  ASSUME IInv, FastPath
  PROVE  IInv'
  <1>1. /\ pc = "loop" /\ pc # "idle" /\ pos + 3 < End /\ UNCHANGED <<dfa, cache>> /\ dfa' = dfa
        /\ CallOK /\ PlaceOK
    BY DEF FastPath, OnFastPath, IInv
  <1>2. FastRun.length \in 0..4 /\ FastRun.id \in IDs(Len(cache.flatTrans))
    BY <1>1, FastRunFacts
  <1>3. End \in Nat /\ pos \in 0..End /\ lastMatch \in -1..End
        /\ InvalidState \in IDs(Len(cache.flatTrans))
    BY <1>1, Before
  <1>4. CASE Return(0, "dfa")
    <2>1. CallOK' /\ PlaceOK' /\ sid' = InvalidState
      BY <1>1, <1>3, <1>4, ReturnKeeps
    <2> QED BY <1>1, <1>3, <2>1, SameCacheKeeps
  <1>5. CASE /\ pos' = pos + FastRun.length /\ sid' = FastRun.id
             /\ pc' = IF FastRun.length = 4 THEN "loop" ELSE "slow"
             /\ UNCHANGED <<call, lastMatch, answer>>
    <2> DEFINE length == FastRun.length
    <2>1. length \in 0..4 /\ pos' = pos + length /\ pc' = IF length = 4 THEN "loop" ELSE "slow"
      BY <1>2, <1>5
    <2> HIDE DEF length
    <2>2. pos' \in 0..End /\ (pc' # "loop" => pos' < End) /\ pc' \in {"loop", "slow"}
      BY <1>1, <1>3, <2>1
    <2>3. CallOK' /\ PlaceOK'
      BY <1>1, <1>3, <1>5, <2>2, StayKeeps
    <2> QED BY <1>1, <1>2, <1>5, <2>3, SameCacheKeeps
  <1> QED BY <1>4, <1>5 DEF FastPath, Ran

(* Skipping to the next candidate.                                         *)
LEMMA SkipAheadKeeps ==
  ASSUME IInv, SkipAhead
  PROVE  IInv'
  <1>1. /\ pc # "idle" /\ pos < End /\ dfa' = dfa /\ CallOK /\ PlaceOK /\ DfaOK
    BY SlowPathPlace DEF SkipAhead, IInv
  <1>2. /\ Sound(N, config, cache) /\ End \in Nat /\ pos \in 0..End
        /\ InvalidState \in IDs(Len(cache.flatTrans))
    BY <1>1, Before
  <1>3. CASE Return(-1, "dfa") /\ UNCHANGED cache
    <2>1. -1 \in -1..End
      BY <1>2
    <2>2. CallOK' /\ PlaceOK' /\ sid' = InvalidState
      BY <1>1, <1>3, <2>1, ReturnKeeps
    <2> QED BY <1>1, <1>2, <1>3, <2>2, SameCacheKeeps
  <1>4. CASE ~(Candidate(W, pos) < 0) /\ RestartAt(cache, Candidate(W, pos))
    <2>1. Candidate(W, pos) = -1 \/ Candidate(W, pos) \in pos..End
      BY <1>2, CandidateFacts DEF End
    <2>2. Candidate(W, pos) \in 0..End
      BY <1>2, <1>4, <2>1
    <2>3. CallOK' /\ PlaceOK' /\ CacheOK'
      BY <1>1, <1>2, <1>4, <2>2, RestartKeeps
    <2> QED BY <1>1, <2>3 DEF IInv, DfaOK
  <1> QED BY <1>3, <1>4 DEF SkipAhead

(* A known transition is taken.                                            *)
LEMMA TakenKeeps ==
  ASSUME IInv, pc # "idle", pos < End, UNCHANGED <<dfa, cache>>,
         Enter(Transition(cache, sid, NextByte))
  PROVE  IInv'
  <1> DEFINE id == Transition(cache, sid, NextByte)
  <1>1. id \in IDs(Len(cache.flatTrans)) /\ InvalidState \in IDs(Len(cache.flatTrans))
    BY Before
  <1> HIDE DEF id
  <1>2. CallOK' /\ PlaceOK' /\ (sid' = id \/ sid' = InvalidState)
    BY EnterKeeps DEF id, IInv
  <1> QED BY <1>1, <1>2, SameCacheKeeps

(* A search that returns and leaves the cache alone.                       *)
LEMMA ReturnedKeeps ==
  ASSUME IInv, pc # "idle", UNCHANGED <<dfa, cache>>, NEW end \in -1..End, NEW by, Return(end, by)
  PROVE  IInv'
  <1>1. CallOK' /\ PlaceOK' /\ sid' = InvalidState
    BY ReturnKeeps DEF IInv
  <1>2. InvalidState \in IDs(Len(cache.flatTrans))
    BY Before
  <1> QED BY <1>1, <1>2, SameCacheKeeps

(* The first byte of a class of bytes.                                     *)
LEMMA RepresentativeFacts ==
  ASSUME NEW n, Classified(n), NEW class \in Classes(n)
  PROVE  Representative(n, class) \in Byte /\ ByteToClass(n, Representative(n, class)) = class
  <1> DEFINE S == {b \in Byte : n.byteClasses[b] = class}
             First(b) == n.byteClasses[b] = class /\ (b = 0 \/ n.byteClasses[b - 1] # class)
  <1>1. S \in SUBSET Nat /\ S # {}
    <2>1. class \in {n.byteClasses[b] : b \in Byte}
      BY DEF Classified
    <2>2. S # {}
      BY <2>1
    <2>3. S \in SUBSET Nat
      BY DEF Byte
    <2> QED BY <2>2, <2>3
  <1>2. Min(S) \in S /\ \A x \in S : Min(S) <= x
    BY <1>1, LeastElement
  <1>3. PICK b \in Byte : n.byteClasses[b] = class /\ \A x \in Byte : n.byteClasses[x] = class => b <= x
    BY <1>2
  <1>4. First(b)
    <2>1. b \in Nat /\ (b # 0 => b - 1 \in Byte /\ ~(b <= b - 1))
      BY DEF Byte
    <2> QED BY <1>3, <2>1
  <1>5. Representative(n, class) = CHOOSE x \in Byte : First(x)
    BY DEF Representative
  <1> HIDE DEF First
  <1>6. Representative(n, class) \in Byte /\ First(Representative(n, class))
    BY <1>4, <1>5
  <1> QED BY <1>6 DEF First, ByteToClass

(* A state has three exit bytes at most.                                   *)
LEMMA ExitBytesFew ==
  ASSUME Built, NEW c, NEW s
  PROVE  ExitBytes(c, s) \in FewBytes
  <1> DEFINE row == [class \in Classes(N) |-> Transition(c, s.id, Representative(N, class))]
             exits == {class \in Classes(N) : row[class] \notin {InvalidState, s.id, DeadState}}
             bytes == {Representative(N, class) : class \in exits}
  <1>1. ExitBytes(c, s) = {} \/ (Cardinality(exits) \in 1..3 /\ ExitBytes(c, s) = bytes)
    BY DEF ExitBytes
  <1>2. exits \subseteq Classes(N)
    OBVIOUS
  <1> HIDE DEF exits
  <1>3. CASE ExitBytes(c, s) = {}
    BY <1>3, SpecialTypes
  <1>4. CASE Cardinality(exits) \in 1..3 /\ ExitBytes(c, s) = bytes
    <2>1. IsFiniteSet(exits)
      <3>1. Classes(N) = 0..(Stride - 1) /\ Stride - 1 \in Int /\ 0 \in Int
        BY BuiltFacts DEF Classes
      <3>2. IsFiniteSet(Classes(N))
        BY <3>1, FS_Interval
      <3> QED BY <1>2, <3>2, FS_Subset
    <2>2. bytes \in SUBSET Byte
      BY <1>2, BuiltFacts, RepresentativeFacts
    <2>3. Cardinality(bytes) <= Cardinality(exits) /\ IsFiniteSet(bytes)
      <3> DEFINE f == [class \in exits |-> Representative(N, class)]
      <3>1. f \in Surjection(exits, bytes)
        BY DEF Surjection
      <3> HIDE DEF f, bytes
      <3> QED BY <2>1, <3>1, FS_Surjection
    <2>4. Cardinality(bytes) \in Nat
      BY <2>3, FS_CardinalityType
    <2> HIDE DEF bytes
    <2>5. Cardinality(bytes) <= 3
      BY <1>4, <2>3, <2>4
    <2> QED BY <1>4, <2>2, <2>5 DEF FewBytes
  <1> QED BY <1>1, <1>3, <1>4

(* What acceleration makes of a state.                                     *)
LEMMA AccelerationFacts ==
  ASSUME Built, NEW c, NEW s \in State(N)
  PROVE  LET t == TryDetectAcceleration(c, s)
         IN  /\ t \in State(N) /\ t.id = s.id /\ t.nfaStates = s.nfaStates
             /\ t.isMatch = s.isMatch /\ t.isFromWord = s.isFromWord
  <1> DEFINE bytes == ExitBytes(c, s)
             t == [s EXCEPT !.accelChecked = TRUE, !.accelBytes = bytes]
  <1>1. bytes \in FewBytes
    BY ExitBytesFew
  <1>2. TryDetectAcceleration(c, s) \in {s, t}
    BY DEF TryDetectAcceleration
  <1> HIDE DEF bytes
  <1>3. s \in StateRecord(N)
    BY StateFields
  <1>4. t \in StateRecord(N) /\ t.id = s.id /\ t.nfaStates = s.nfaStates
        /\ t.isMatch = s.isMatch /\ t.isFromWord = s.isFromWord
        /\ t.matchAtWordBoundary = s.matchAtWordBoundary
        /\ t.matchAtNonWordBoundary = s.matchAtNonWordBoundary
    BY <1>1, <1>3 DEF StateRecord
  <1> HIDE DEF t
  <1>5. t \in State(N)
    BY <1>4, StateAlike
  <1> QED BY <1>2, <1>4, <1>5

(* Looking for exit bytes and skipping to one.                             *)
LEMMA AccelerateKeeps ==
  ASSUME IInv, Accelerate
  PROVE  IInv'
  <1> DEFINE state == TryDetectAcceleration(cache, Current)
             k == sid.row + 1
             c == Register(cache, state)
  <1>1. /\ pc # "idle" /\ pos < End /\ dfa' = dfa /\ CallOK /\ PlaceOK /\ DfaOK
        /\ Current # NoState /\ SkipToExit(state)
    BY SlowPathPlace DEF Accelerate, IInv
  <1>2. /\ Built /\ Sound(N, config, cache) /\ End \in Nat /\ pos \in 0..End
        /\ lastMatch \in -1..End /\ Len(cache.flatTrans) \in Nat
        /\ InvalidState \in IDs(Len(cache.flatTrans))
        /\ k \in 1..Len(cache.stateList) /\ cache.stateList[k] = Current /\ Current \in State(N)
    BY <1>1, Before
  <1>3. /\ state \in State(N) /\ state.id = Current.id /\ state.nfaStates = Current.nfaStates
        /\ state.isMatch = Current.isMatch /\ state.isFromWord = Current.isFromWord
    BY <1>2, AccelerationFacts
  <1> HIDE DEF state, k, c
  <1>4. Sound(N, config, c) /\ Replaces(cache, k, state, c)
    BY <1>1, <1>2, <1>3, ReplaceSound DEF c
  <1>5. c.flatTrans = cache.flatTrans /\ cache' = c
    BY <1>1, <1>4 DEF Replaces, SkipToExit, c
  <1>6. sid \in IDs(Len(cache.flatTrans))
    BY DEF IInv, CacheOK
  <1>7. CallOK' /\ PlaceOK' /\ sid' \in {sid, InvalidState}
    <2>1. CASE pc' = "step" /\ UNCHANGED <<call, pos, sid, lastMatch, answer>>
      <3>1. CallOK' /\ PlaceOK'
        BY <1>1, <1>2, <2>1, StayKeeps
      <3> QED BY <2>1, <3>1
    <2>2. CASE Return(lastMatch, "dfa")
      BY <1>1, <1>2, <2>2, ReturnKeeps
    <2>3. CASE /\ ExitAhead(state.accelBytes) # {} /\ pos' = Minimum(ExitAhead(state.accelBytes))
               /\ pc' = "step" /\ UNCHANGED <<call, sid, lastMatch, answer>>
      <3> DEFINE ahead == ExitAhead(state.accelBytes)
      <3>1. ahead \in SUBSET Nat /\ ahead \subseteq pos..(End - 1)
        BY <1>2 DEF ExitAhead
      <3> HIDE DEF ahead
      <3>2. pos' \in pos..(End - 1)
        BY <2>3, <3>1, FirstPosition DEF ahead
      <3>3. pos' \in 0..End /\ pos' < End
        BY <1>2, <3>2
      <3>4. CallOK' /\ PlaceOK'
        BY <1>1, <1>2, <2>3, <3>3, StayKeeps
      <3> QED BY <2>3, <3>4
    <2> QED BY <1>1, <2>1, <2>2, <2>3 DEF SkipToExit
  <1>8. CacheOK'
    <2>1. N' = N /\ config' = config
      BY <1>1 DEF N, config
    <2> QED BY <1>2, <1>4, <1>5, <1>6, <1>7, <2>1 DEF CacheOK
  <1> QED BY <1>1, <1>7, <1>8 DEF IInv, DfaOK
(* The search gives up: the cache may have been cleared before.            *)
LEMMA FallenBackKeeps ==
  ASSUME IInv, pc # "idle", dfa' = dfa, Fallback,
         Sound(N, config, cache'), Len(cache.flatTrans) <= Len(cache'.flatTrans)
  PROVE  IInv'
  <1>1. CallOK' /\ PlaceOK' /\ sid' = InvalidState
    BY FallbackKeeps DEF IInv
  <1>2. InvalidState \in IDs(Len(cache'.flatTrans))
    <2>1. Len(cache'.flatTrans) \in Nat
      BY DEF Sound, Typed
    <2> QED BY <2>1, SpecialTypes
  <1> QED BY <1>1, <1>2 DEF IInv, DfaOK, CacheOK, N, config

(* A transition that has to be determinized.                               *)
LEMMA DeterminizeStepKeeps ==
  ASSUME IInv, DeterminizeStep
  PROVE  IInv'
  <1> DEFINE outcome == DeterminizeInto(cache, Current, NextByte)
             L == Len(cache.flatTrans)
  <1>1. /\ pc # "idle" /\ pos < End
        /\ dfa' = dfa /\ CallOK /\ PlaceOK /\ DfaOK /\ Current # NoState /\ Proceed(outcome)
    BY SlowPathPlace DEF DeterminizeStep, ReadyToStep, IInv
  <1>2. /\ Built /\ Sound(N, config, cache) /\ L \in Nat /\ NextByte \in Byte
        /\ sid.row + 1 \in 1..Len(cache.stateList) /\ cache.stateList[sid.row + 1] = Current
        /\ End \in Nat /\ pos \in 0..End /\ lastMatch \in -1..End
    BY <1>1, Before
  <1>3. Leaves(cache, outcome.cache, outcome.id)
    <2> DEFINE k == sid.row + 1
    <2>1. k \in 1..Len(cache.stateList) /\ cache.stateList[k] = Current
      BY <1>2
    <2> HIDE DEF k
    <2>2. Leaves(cache, DeterminizeInto(cache, cache.stateList[k], NextByte).cache,
                 DeterminizeInto(cache, cache.stateList[k], NextByte).id)
      BY <1>1, <1>2, <2>1, DeterminizeSound
    <2> QED BY <2>1, <2>2
  <1> HIDE DEF outcome
  <1>4. Sound(N, config, outcome.cache) /\ L <= Len(outcome.cache.flatTrans)
        /\ outcome.id \in IDs(Len(outcome.cache.flatTrans)) /\ Len(outcome.cache.flatTrans) \in Nat
    BY <1>3 DEF Leaves, Sound, Typed
  <1>5. N' = N /\ config' = config /\ DfaOK'
    BY <1>1 DEF N, config, DfaOK
  <1>6. CASE Enter(outcome.id) /\ cache' = outcome.cache
    <2>1. CallOK' /\ PlaceOK' /\ (sid' = outcome.id \/ sid' = InvalidState)
      BY <1>1, <1>6, EnterKeeps
    <2>2. InvalidState \in IDs(Len(outcome.cache.flatTrans))
      BY <1>4, SpecialTypes
    <2> QED BY <1>4, <1>5, <1>6, <2>1, <2>2 DEF IInv, CacheOK
  <1>7. CASE Die(outcome.cache)
    <2>1. CallOK' /\ PlaceOK' /\ CacheOK'
      BY <1>1, <1>4, <1>7, DieKeeps
    <2> QED BY <1>5, <2>1 DEF IInv
  <1>8. CASE Cleared(outcome.cache)
    <2>1. /\ cache' = outcome.cache /\ pc' = "cleared"
          /\ UNCHANGED <<call, pos, sid, lastMatch, answer>>
      BY <1>8 DEF Cleared
    <2>2. CallOK' /\ PlaceOK'
      BY <1>1, <1>2, <2>1, StayKeeps
    <2>3. sid \in IDs(Len(outcome.cache.flatTrans))
      <3>1. sid \in IDs(L)
        BY DEF IInv, CacheOK
      <3> HIDE DEF L
      <3> QED BY <1>2, <1>4, <3>1, WiderIDs DEF L
    <2> QED BY <1>4, <1>5, <2>1, <2>2, <2>3 DEF IInv, CacheOK
  <1>9. CASE Fallback /\ cache' = outcome.cache
    BY <1>1, <1>4, <1>9, FallenBackKeeps
  <1> QED BY <1>1, <1>6, <1>7, <1>8, <1>9 DEF Proceed

(* A step of a search, whichever it is.                                    *)
LEMMA SearchStepKeeps ==
  ASSUME IInv, SearchStep
  PROVE  IInv'
  <1>1. CASE FastPath
    BY <1>1, FastPathKeeps
  <1>2. CASE SkipAhead
    BY <1>2, SkipAheadKeeps
  <1>3. CASE LeaveStart
    BY <1>3, SlowPathPlace, TakenKeeps DEF LeaveStart
  <1>4. CASE Accelerate
    BY <1>4, AccelerateKeeps
  <1>5. CASE Lost
    <2>1. pc # "idle" /\ dfa' = dfa /\ cache' = cache /\ Fallback
      BY <1>5, SlowPathPlace DEF Lost
    <2>2. Sound(N, config, cache) /\ Len(cache.flatTrans) \in Nat
      BY <2>1, Before
    <2> QED BY <2>1, <2>2, FallenBackKeeps
  <1>6. CASE MatchAtBoundary
    <2>1. pc # "idle" /\ pos < End
      BY <1>6, SlowPathPlace DEF MatchAtBoundary, ReadyToStep
    <2>2. pos \in -1..End
      BY <2>1, Before
    <2> QED BY <1>6, <2>1, <2>2, ReturnedKeeps DEF MatchAtBoundary
  <1>7. CASE Follow
    <2>1. pc # "idle" /\ pos < End
      BY <1>7, SlowPathPlace DEF Follow, ReadyToStep
    <2> QED BY <1>7, <2>1, TakenKeeps DEF Follow
  <1>8. CASE DieKnown
    <2>1. pc # "idle" /\ pos < End
      BY <1>8, SlowPathPlace DEF DieKnown, ReadyToStep
    <2>2. CallOK' /\ PlaceOK' /\ CacheOK'
      BY <1>8, <2>1, Before, DieKeeps DEF DieKnown, IInv
    <2> QED BY <1>8, <2>2 DEF IInv, DieKnown, DfaOK
  <1>9. CASE DeterminizeStep
    BY <1>9, DeterminizeStepKeeps
  <1>10. CASE RestartAfterClear
    <2>1. pc # "idle" /\ RestartAt(cache, pos) /\ dfa' = dfa
      BY <1>10 DEF RestartAfterClear
    <2>2. Sound(N, config, cache) /\ pos \in 0..End
      BY <2>1, Before
    <2>3. CallOK' /\ PlaceOK' /\ CacheOK'
      BY <2>1, <2>2, RestartKeeps DEF IInv
    <2> QED BY <2>1, <2>3 DEF IInv, DfaOK
  <1>11. CASE EndOfInput
    <2> DEFINE end == IF Current # NoState /\ CheckEOIMatch(N, Current.nfaStates, Current.isFromWord)
                      THEN End ELSE lastMatch
    <2>1. pc # "idle" /\ Return(end, "dfa") /\ UNCHANGED <<dfa, cache>>
      BY <1>11 DEF EndOfInput
    <2>2. end \in -1..End
      <3>1. End \in Nat /\ lastMatch \in -1..End
        BY <2>1, Before
      <3> QED BY <3>1
    <2> HIDE DEF end
    <2> QED BY <2>1, <2>2, ReturnedKeeps
  <1> QED BY <1>1, <1>2, <1>3, <1>4, <1>5, <1>6, <1>7, <1>8, <1>9, <1>10, <1>11 DEF SearchStep

(* The initial states.                                                     *)
LEMMA Initially ==
  ASSUME Init
  PROVE  IInv
  <1>1. PICK p \in Pattern : \E cfg \in Config[p] : dfa = NewDFA(p, cfg, NfaEnd[p])
    BY DEF Init
  <1>2. PICK cfg \in Config[p] : dfa = NewDFA(p, cfg, NfaEnd[p])
    BY <1>1
  <1>3. dfa.pattern = p
    BY <1>2 DEF NewDFA
  <1>4. DfaOK
    BY <1>2, <1>3 DEF DfaOK
  <1>5. CallOK
    <2>1. call = [op |-> "SearchAt", hay |-> <<>>, at |-> 0] /\ pc = "idle"
      BY DEF Init
    <2>2. call.op = "SearchAt" /\ W = <<>> /\ call.at = 0 /\ End = 0
      BY <2>1 DEF W, End
    <2>3. <<>> \in Seq(Byte) /\ "SearchAt" \in Op
      BY DEF Op
    <2> QED BY <2>1, <2>2, <2>3 DEF CallOK
  <1>6. PlaceOK
    <2>1. End = 0
      BY DEF Init, W, End
    <2> QED BY <2>1 DEF Init, PlaceOK
  <1>7. CacheOK
    <2>1. Sound(N, config, NewCache)
      BY <1>4, DfaIsBuilt, NewCacheSound
    <2>2. Len(NewCache.flatTrans) \in Nat
      BY DEF NewCache
    <2> QED BY <2>1, <2>2, SpecialTypes DEF Init, CacheOK
  <1> QED BY <1>4, <1>5, <1>6, <1>7 DEF IInv

(* The inductive invariant holds.                                          *)
LEMMA Invariant == Spec => []IInv
  <1>1. IInv /\ [Next]_vars => IInv'
    <2> SUFFICES ASSUME IInv, [Next]_vars PROVE IInv'
      OBVIOUS
    <2>1. CASE NewSearch
      BY <2>1, NewSearchKeeps
    <2>2. CASE SearchStep
      BY <2>2, SearchStepKeeps
    <2>3. CASE UNCHANGED vars
      BY <2>3 DEF vars, IInv, DfaOK, CallOK, PlaceOK, CacheOK, N, config, W, End
    <2> QED BY <2>1, <2>2, <2>3 DEF Next
  <1> QED BY <1>1, Initially, PTL DEF Spec

-----------------------------------------------------------------------------
(* The variables are of their types in every state: a search stays inside  *)
(* its haystack, every ID is of a row the table has or one of the special  *)
(* two, and the cache is not cleared more often than it may be.            *)
THEOREM TypeCorrect == Spec => []TypeOK
  <1>1. ASSUME IInv PROVE TypeOK
    <2>1. /\ DfaOK /\ CallOK /\ PlaceOK /\ CacheOK /\ Built
      BY <1>1, DfaIsBuilt DEF IInv
    <2>2. CacheTypeOK
      BY <2>1, SoundTypes DEF CacheOK
    <2>3. call \in [op : Op, hay : Haystack(dfa.pattern) \cup {<<>>}, at : 0..End]
      <3>1. W \in Haystack(dfa.pattern) \cup {<<>>}
        BY <2>1 DEF CallOK, Haystack, W
      <3> QED BY <2>1, <3>1 DEF CallOK, W
    <2>4. sid \in StateIDs
      BY <2>1 DEF CacheOK, StateIDs, IDs
    <2> QED BY <2>1, <2>2, <2>3, <2>4 DEF TypeOK, DfaOK, PlaceOK
  <1> QED BY <1>1, Invariant, PTL

(* The parts of the cache agree in every state, whichever searches have    *)
(* shared it and however often it was cleared.                             *)
THEOREM CacheStaysInAgreement == Spec => []CacheAgrees
  <1>1. ASSUME IInv PROVE CacheAgrees
    BY <1>1, DfaIsBuilt, SoundAgrees DEF IInv, CacheOK
  <1> QED BY <1>1, Invariant, PTL
-----------------------------------------------------------------------------
(* A step that ends a search without the NFA says so.                      *)
LEMMA ReturnNames ==
  ASSUME NEW end, NEW by, Return(end, by)
  PROVE  answer'.by = by
  BY DEF Return

(* An answer that a transition gives is the DFA's own.                     *)
LEMMA EnterEnds ==
  ASSUME NEW id, Enter(id)
  PROVE  pc' # "idle" \/ answer'.by = "dfa"
  BY ReturnNames DEF Enter

(* So is the answer of a search whose state is dead.                       *)
LEMMA DieEnds ==
  ASSUME NEW c, Die(c)
  PROVE  pc' # "idle" \/ answer'.by = "dfa"
  BY ReturnNames DEF Die, RestartAt, Resume

(* A step falls back, goes on, or gives the DFA's own answer.              *)
LEMMA StepEnds ==
  ASSUME SearchStep
  PROVE  dfa' = dfa /\ (Fallback \/ pc' # "idle" \/ answer'.by = "dfa")
  <1>1. CASE FastPath
    BY <1>1, ReturnNames DEF FastPath, Ran
  <1>2. CASE SkipAhead
    BY <1>2, ReturnNames DEF SkipAhead, RestartAt, Resume
  <1>3. CASE LeaveStart
    BY <1>3, EnterEnds DEF LeaveStart
  <1>4. CASE Accelerate
    BY <1>4, ReturnNames DEF Accelerate, SkipToExit
  <1>5. CASE Lost
    BY <1>5 DEF Lost
  <1>6. CASE MatchAtBoundary
    BY <1>6, ReturnNames DEF MatchAtBoundary
  <1>7. CASE Follow
    BY <1>7, EnterEnds DEF Follow
  <1>8. CASE DieKnown
    BY <1>8, DieEnds DEF DieKnown
  <1>9. CASE DeterminizeStep
    BY <1>9, EnterEnds, DieEnds DEF DeterminizeStep, Proceed, Cleared
  <1>10. CASE RestartAfterClear
    BY <1>10 DEF RestartAfterClear, RestartAt, Resume
  <1>11. CASE EndOfInput
    BY <1>11, ReturnNames DEF EndOfInput
  <1> QED BY <1>1, <1>2, <1>3, <1>4, <1>5, <1>6, <1>7, <1>8, <1>9, <1>10, <1>11 DEF SearchStep

(* Only a search that runs takes a step.                                   *)
LEMMA SearchStepRuns ==
  ASSUME SearchStep
  PROVE  pc # "idle"
  BY DEF SearchStep, FastPath, SkipAhead, LeaveStart, Accelerate, Lost, MatchAtBoundary, Follow,
         DieKnown, DeterminizeStep, RestartAfterClear, EndOfInput, OnFastPath, OnSlowPath,
         ReadyToStep

(* What the NFA is asked instead is what the search was asked.             *)
LEMMA FallbackExpected ==
  ASSUME IInv, pc # "idle", dfa' = dfa, Fallback, call.op \in {"SearchAt", "IsMatchAt"}
  PROVE  answer'.end = Expected'
  <1> DEFINE end == dfa.pikevm[W][call.at]
  <1>1. /\ DfaOK /\ call \in Calls[dfa.pattern] /\ call.at \in 0..Len(W)
        /\ dfa.pikevm = NfaEnd[dfa.pattern]
    BY DfaIsBuilt DEF IInv, CallOK, End
  <1>2. end \in -1..Len(W) /\ Len(W) \in Nat
    BY <1>1, CallFacts DEF W
  <1>3. Return(end, "nfa")
    BY DEF Fallback, At
  <1>4. end = NfaEnd[dfa.pattern][W][call.at]
    BY <1>1
  <1> HIDE DEF end
  <1>5. call' = call /\ answer'.end = IF call.op = "IsMatchAt" /\ end >= 0 THEN 0 ELSE end
    BY <1>3 DEF Return, At
  <1>6. W' = W
    BY <1>5 DEF W
  <1>7. Expected' = IF call.op = "SearchAt" THEN end ELSE IF end >= 0 THEN 0 ELSE -1
    <2>1. CASE call.op = "SearchAt"
      BY <1>4, <1>5, <1>6, <2>1 DEF Expected, At
    <2>2. CASE call.op = "IsMatchAt"
      BY <1>4, <1>5, <1>6, <2>2 DEF Expected, At
    <2> QED BY <2>1, <2>2
  <1> QED BY <1>2, <1>5, <1>7

(* A search that gives up, because the cache is full or a set of states is *)
(* too large, answers with what the NFA finds from the position asked for: *)
(* nothing of what it had read before giving up is lost or searched twice. *)
THEOREM FallbackIsFaithful == Spec => []FallbackAnswers
  <1>1. Init => FallbackAnswers
    BY DEF Init, FallbackAnswers, Answered
  <1>2. IInv /\ FallbackAnswers /\ [Next]_vars => FallbackAnswers'
    <2> SUFFICES ASSUME IInv, FallbackAnswers, [Next]_vars PROVE FallbackAnswers'
      OBVIOUS
    <2>1. CASE NewSearch
      <3>1. pc' # "idle" \/ answer'.by \in {"dfa", "empty"}
        BY <2>1 DEF NewSearch, SearchAtEnd, RefuseAnchored, NoCandidate, Search, Begin
      <3> QED BY <3>1 DEF FallbackAnswers, Answered
    <2>2. CASE SearchStep
      <3>1. dfa' = dfa /\ (Fallback \/ pc' # "idle" \/ answer'.by = "dfa")
        BY <2>2, StepEnds
      <3>2. CASE pc' # "idle" \/ answer'.by = "dfa"
        BY <3>2 DEF FallbackAnswers, Answered
      <3>3. CASE Fallback
        <4>1. call' = call
          BY <3>3 DEF Fallback, Return
        <4>2. pc # "idle"
          BY <2>2, SearchStepRuns
        <4>3. call.op \in {"SearchAt", "IsMatchAt"} => answer'.end = Expected'
          BY <3>1, <3>3, <4>2, FallbackExpected
        <4> QED BY <4>1, <4>3 DEF FallbackAnswers
      <3> QED BY <3>1, <3>2, <3>3
    <2>3. CASE UNCHANGED vars
      BY <2>3 DEF vars, FallbackAnswers, Answered, Expected, W, At
    <2> QED BY <2>1, <2>2, <2>3 DEF Next
  <1> QED BY <1>1, <1>2, Invariant, PTL DEF Spec

(* The cache never weighs more than its capacity, one state with the row   *)
(* before it and the exit bytes found since the states were filed.         *)
THEOREM CacheStaysBounded == Spec => []MemoryBounded
  <1>1. ASSUME IInv PROVE MemoryBounded
    BY <1>1, DfaIsBuilt, BoundedMemory DEF IInv, CacheOK
  <1> QED BY <1>1, Invariant, PTL

-----------------------------------------------------------------------------
(* The inductive invariant of the table of a cache that was not cleared:   *)
(* it has a row for every state and no more, the first row is nobody's and *)
(* leads nowhere, and an entry for a searched byte leads where the         *)
(* construction does.                                                      *)

Target(n, cfg, s, b) == Successor(n, s.nfaStates, s.isFromWord, b, cfg.breakAtMatch)

LeadsTo(n, c, next, id) ==
  LET k == id.row + 1
  IN  \/ id = DeadState /\ IsDeadEnd(next)
      \/ /\ id.tag \in SUBSET {"match", "start"}
         /\ k \in 1..Len(c.stateList) /\ c.stateList[k] # NoState
         /\ ToSet(c.stateList[k].nfaStates) = ToSet(next.nfaStates)
         /\ c.stateList[k].isMatch = next.isMatch
         /\ HasWordBoundary(n) => c.stateList[k].isFromWord = next.isFromWord
         /\ "match" \in id.tag <=> next.isMatch

Entry(n, c, k, b) == c.flatTrans[k][ByteToClass(n, b)]

RowsOK(n, cfg, bytes, c) ==
  c.clearCount = 0 =>
    /\ Len(c.flatTrans) = Len(c.stateList)
    /\ c.stateList # <<>> =>
         c.stateList[1] = NoState /\ \A class \in Classes(n) : c.flatTrans[1][class] = InvalidState
    /\ \A k \in 1..Len(c.stateList), b \in bytes :
         c.stateList[k] # NoState /\ Entry(n, c, k, b) # InvalidState =>
           LeadsTo(n, c, Target(n, cfg, c.stateList[k], b), Entry(n, c, k, b))

(* A state that is still in its row is led to and leads as before.         *)
LEMMA SameLeads ==
  ASSUME NEW c, NEW d, Len(c.stateList) \in Nat, Len(d.stateList) \in Nat,
         Len(c.stateList) <= Len(d.stateList),
         \A k \in 1..Len(c.stateList) : SameState(c.stateList[k], d.stateList[k]),
         NEW n, NEW next, NEW id, LeadsTo(n, c, next, id)
  PROVE  LeadsTo(n, d, next, id)
  <1> DEFINE k == id.row + 1
  <1>1. CASE id = DeadState /\ IsDeadEnd(next)
    BY <1>1 DEF LeadsTo
  <1>2. CASE ~(id = DeadState /\ IsDeadEnd(next))
    <2>1. /\ id.tag \in SUBSET {"match", "start"}
          /\ k \in 1..Len(c.stateList) /\ c.stateList[k] # NoState
          /\ ToSet(c.stateList[k].nfaStates) = ToSet(next.nfaStates)
          /\ c.stateList[k].isMatch = next.isMatch
          /\ HasWordBoundary(n) => c.stateList[k].isFromWord = next.isFromWord
          /\ "match" \in id.tag <=> next.isMatch
      BY <1>2 DEF LeadsTo
    <2> HIDE DEF k
    <2>2. SameState(c.stateList[k], d.stateList[k])
      BY <2>1
    <2>3. k \in 1..Len(d.stateList) /\ d.stateList[k] # NoState
          /\ d.stateList[k].nfaStates = c.stateList[k].nfaStates
          /\ d.stateList[k].isMatch = c.stateList[k].isMatch
          /\ d.stateList[k].isFromWord = c.stateList[k].isFromWord
      BY <2>1, <2>2 DEF SameState
    <2> QED BY <2>1, <2>3 DEF LeadsTo, k
  <1> QED BY <1>1, <1>2

(* The first index of a list.                                              *)
LEMMA NonEmptyList ==
  ASSUME NEW S, NEW list \in Seq(S)
  PROVE  /\ list # <<>> => Len(list) \in Nat /\ 1 \in 1..Len(list)
         /\ list = <<>> => 1 \notin 1..Len(list)
  OBVIOUS

(* A state that is in the same list is led to as before.                   *)
LEMMA StillLeads ==
  ASSUME NEW n, NEW c, NEW d, d.stateList = c.stateList, NEW next, NEW id, LeadsTo(n, c, next, id)
  PROVE  LeadsTo(n, d, next, id)
  BY DEF LeadsTo

(* A cache that grows keeps its table.                                     *)
LEMMA GrownRows ==
  ASSUME Built, NEW bytes \in SUBSET Byte, NEW c, NEW d, Sound(N, config, c), Sound(N, config, d),
         RowsOK(N, config, bytes, c), Grown(c, d)
  PROVE  RowsOK(N, config, bytes, d)
  <1>1. /\ Len(c.stateList) \in Nat /\ Len(d.stateList) \in Nat
        /\ Len(c.flatTrans) \in Nat /\ Len(d.flatTrans) \in Nat
    BY DEF Sound, Typed
  <1> SUFFICES ASSUME d.clearCount = 0
               PROVE  /\ Len(d.flatTrans) = Len(d.stateList)
                      /\ d.stateList # <<>> =>
                           /\ d.stateList[1] = NoState
                           /\ \A class \in Classes(N) : d.flatTrans[1][class] = InvalidState
                      /\ \A k \in 1..Len(d.stateList), b \in bytes :
                           d.stateList[k] # NoState /\ Entry(N, d, k, b) # InvalidState =>
                             LeadsTo(N, d, Target(N, config, d.stateList[k], b), Entry(N, d, k, b))
    BY DEF RowsOK
  <1>2. c.clearCount = 0 /\ Len(c.stateList) <= Len(d.stateList)
        /\ Len(d.flatTrans) = Longer(Len(c.flatTrans), Len(d.stateList))
        /\ \A k \in 1..Len(c.stateList) : SameState(c.stateList[k], d.stateList[k])
    BY DEF Grown
  <1>3. Len(c.flatTrans) = Len(c.stateList)
    BY <1>2 DEF RowsOK
  <1>4. Len(d.flatTrans) = Len(d.stateList)
    BY <1>1, <1>2, <1>3 DEF Longer
  <1>5. ASSUME NEW k \in 1..Len(d.stateList), NEW b \in bytes,
               d.stateList[k] # NoState, Entry(N, d, k, b) # InvalidState
        PROVE  LeadsTo(N, d, Target(N, config, d.stateList[k], b), Entry(N, d, k, b))
    <2>1. CASE k \in 1..Len(c.stateList)
      <3>1. SameState(c.stateList[k], d.stateList[k]) /\ d.flatTrans[k] = c.flatTrans[k]
        BY <1>2, <1>3, <2>1 DEF Grown
      <3>2. Entry(N, d, k, b) = Entry(N, c, k, b) /\ c.stateList[k] # NoState
            /\ Target(N, config, d.stateList[k], b) = Target(N, config, c.stateList[k], b)
        BY <1>5, <3>1 DEF Entry, SameState, Target
      <3>3. LeadsTo(N, c, Target(N, config, c.stateList[k], b), Entry(N, c, k, b))
        BY <1>2, <1>5, <2>1, <3>2 DEF RowsOK
      <3> QED BY <1>1, <1>2, <3>2, <3>3, SameLeads
    <2>2. CASE k \notin 1..Len(c.stateList)
      <3>1. d.flatTrans[k] = UnknownRow
        BY <1>3, <1>4, <2>2 DEF Grown
      <3>2. ByteToClass(N, b) \in Classes(N)
        BY BuiltFacts
      <3> QED BY <1>5, <3>1, <3>2 DEF Entry, UnknownRow
    <2> QED BY <2>1, <2>2
  <1>6. ASSUME d.stateList # <<>>
        PROVE  /\ d.stateList[1] = NoState
               /\ \A class \in Classes(N) : d.flatTrans[1][class] = InvalidState
    <2>1. CASE c.stateList = <<>>
      <3>1. d.stateList[1] = NoState
        BY <1>6, <2>1 DEF Grown
      <3>2. 1 \in 1..Len(d.flatTrans) /\ 1 \notin 1..Len(c.flatTrans)
        BY <1>1, <1>3, <1>4, <1>6, <2>1, NonEmptyList DEF Sound, Typed
      <3>3. d.flatTrans[1] = UnknownRow
        BY <3>2 DEF Grown
      <3> QED BY <3>1, <3>3 DEF UnknownRow
    <2>2. CASE c.stateList # <<>>
      <3>1. 1 \in 1..Len(c.stateList)
        BY <1>1, <2>2, NonEmptyList DEF Sound, Typed
      <3>2. SameState(c.stateList[1], d.stateList[1]) /\ d.flatTrans[1] = c.flatTrans[1]
        BY <1>2, <1>3, <3>1 DEF Grown
      <3>3. c.stateList[1] = NoState /\ \A class \in Classes(N) : c.flatTrans[1][class] = InvalidState
        BY <1>2, <2>2 DEF RowsOK
      <3> QED BY <3>2, <3>3 DEF SameState
    <2> QED BY <2>1, <2>2
  <1> QED BY <1>4, <1>5, <1>6

(* Bytes of a class lead to the same states.                               *)
LEMMA TargetAlike ==
  ASSUME Built, NEW bytes \in SUBSET Byte, Separated(N, bytes), NEW s \in State(N),
         NEW b \in bytes, NEW x \in bytes, ByteToClass(N, b) = ByteToClass(N, x)
  PROVE  /\ Target(N, config, s, x).nfaStates = Target(N, config, s, b).nfaStates
         /\ Target(N, config, s, x).isMatch = Target(N, config, s, b).isMatch
         /\ HasWordBoundary(N) => Target(N, config, s, x).isFromWord = Target(N, config, s, b).isFromWord
  <1>1. Validate(N) /\ Patched(N) /\ Classified(N)
    BY BuiltFacts
  <1>2. Alike(N, x, b)
    BY <1>1, ClassesKeepRanges DEF Separated, Alike
  <1>3. s.nfaStates \in Lists(N) /\ s.isFromWord \in BOOLEAN
    BY StateFields
  <1>4. /\ Target(N, config, s, x).nfaStates = Target(N, config, s, b).nfaStates
        /\ Target(N, config, s, x).isMatch = Target(N, config, s, b).isMatch
    BY <1>1, <1>2, <1>3, SuccessorAlike DEF Target
  <1>5. HasWordBoundary(N) => IsWordByte(x) = IsWordByte(b)
    <2>1. HasWordBoundary(N) => (IsWordByte(x) <=> IsWordByte(b))
      BY DEF Separated, SameContext
    <2>2. IsWordByte(x) \in BOOLEAN /\ IsWordByte(b) \in BOOLEAN
      BY DEF IsWordByte
    <2> QED BY <2>1, <2>2
  <1>6. Target(N, config, s, x).isFromWord = IsWordByte(x) /\ Target(N, config, s, b).isFromWord = IsWordByte(b)
    BY DEF Target, Successor
  <1> QED BY <1>4, <1>5, <1>6

(* A transition is recorded for a byte and all the bytes of its class.     *)
LEMMA RecordedRows ==
  ASSUME Built, NEW bytes \in SUBSET Byte, Separated(N, bytes), NEW c, Sound(N, config, c),
         RowsOK(N, config, bytes, c), NEW from \in AnyID, from.row + 1 \in 1..Len(c.stateList),
         c.stateList[from.row + 1] # NoState, NEW b \in bytes, NEW to \in IDs(Len(c.flatTrans)),
         LeadsTo(N, c, Target(N, config, c.stateList[from.row + 1], b), to)
  PROVE  RowsOK(N, config, bytes, SetFlatTransition(c, from, b, to))
  <1> DEFINE d == SetFlatTransition(c, from, b, to)
             j == from.row + 1
             L == Len(c.flatTrans)
             class == ByteToClass(N, b)
             flat == [c.flatTrans EXCEPT ![j][class] = to]
  <1>1. /\ Sound(N, config, d) /\ Len(d.flatTrans) = L
        /\ d.stateList = c.stateList /\ d.clearCount = c.clearCount
    BY TransitionSound
  <1>2. /\ Len(c.stateList) \in Nat /\ L \in Nat /\ Len(c.stateList) <= L
        /\ c.flatTrans \in Seq([Classes(N) -> IDs(L)]) /\ c.stateList \in Seq(State(N))
        /\ from.row \in Nat /\ j \in 1..Len(c.stateList) /\ j \in 1..L /\ from.row < L
        /\ class \in Classes(N)
    BY BuiltFacts DEF Sound, Typed, AnyID
  <1>3. d.flatTrans = flat
    <2>1. c = [states |-> c.states, stateList |-> c.stateList, flatTrans |-> c.flatTrans,
               startTable |-> c.startTable, nextRow |-> c.nextRow, clearCount |-> c.clearCount]
      BY DEF Sound, Typed
    <2>2. d = [c EXCEPT !.flatTrans[j][class] = to]
      BY <1>2 DEF SetFlatTransition
    <2> HIDE DEF d, L, j, class
    <2> QED BY <2>1, <2>2
  <1> HIDE DEF d, L, j, class
  <1>4. \A k \in 1..L, x \in Classes(N) :
          flat[k][x] = IF k = j /\ x = class THEN to ELSE c.flatTrans[k][x]
    <2> DEFINE old == c.flatTrans
               T == IDs(L)
    <2>1. DOMAIN old = 1..L /\ \A k \in 1..L : old[k] \in [Classes(N) -> T]
      BY <1>2 DEF L
    <2>2. flat = [old EXCEPT ![j] = [old[j] EXCEPT ![class] = to]]
      BY DEF flat
    <2> HIDE DEF flat, old, T
    <2>3. \A k \in 1..L : flat[k] = IF k = j THEN [old[j] EXCEPT ![class] = to] ELSE old[k]
      BY <2>1, <2>2
    <2>4. \A x \in Classes(N) : [old[j] EXCEPT ![class] = to][x] = IF x = class THEN to ELSE old[j][x]
      BY <1>2, <2>1
    <2> QED BY <2>3, <2>4 DEF old
  <1> HIDE DEF flat
  <1> SUFFICES ASSUME c.clearCount = 0
               PROVE  /\ Len(d.flatTrans) = Len(d.stateList)
                      /\ d.stateList # <<>> =>
                           /\ d.stateList[1] = NoState
                           /\ \A x \in Classes(N) : d.flatTrans[1][x] = InvalidState
                      /\ \A k \in 1..Len(d.stateList), x \in bytes :
                           d.stateList[k] # NoState /\ Entry(N, d, k, x) # InvalidState =>
                             LeadsTo(N, d, Target(N, config, d.stateList[k], x), Entry(N, d, k, x))
    BY <1>1 DEF RowsOK, d
  <1>5. Len(c.flatTrans) = Len(c.stateList)
    BY DEF RowsOK
  <1>6. ASSUME NEW k \in 1..Len(d.stateList), NEW x \in bytes,
               d.stateList[k] # NoState, Entry(N, d, k, x) # InvalidState
        PROVE  LeadsTo(N, d, Target(N, config, d.stateList[k], x), Entry(N, d, k, x))
    <2>1. k \in 1..L /\ ByteToClass(N, x) \in Classes(N) /\ k \in 1..Len(c.stateList)
      BY <1>1, <1>5, BuiltFacts DEF L
    <2>2. CASE k = j /\ ByteToClass(N, x) = class
      <3>1. Entry(N, d, k, x) = to
        BY <1>3, <1>4, <2>1, <2>2 DEF Entry
      <3>2. c.stateList[k] \in State(N)
        BY <1>2, <2>1
      <3> DEFINE old == Target(N, config, c.stateList[k], b)
                 new == Target(N, config, c.stateList[k], x)
      <3>3. /\ new.nfaStates = old.nfaStates /\ new.isMatch = old.isMatch
            /\ HasWordBoundary(N) => new.isFromWord = old.isFromWord
        BY <2>2, <3>2, TargetAlike DEF class
      <3>4. LeadsTo(N, c, old, to)
        BY <2>2 DEF j
      <3> HIDE DEF old, new
      <3>5. LeadsTo(N, c, new, to)
        BY <3>3, <3>4 DEF LeadsTo, IsDeadEnd
      <3> QED BY <1>1, <3>1, <3>5 DEF new, LeadsTo
    <2>3. CASE ~(k = j /\ ByteToClass(N, x) = class)
      <3>1. Entry(N, d, k, x) = Entry(N, c, k, x)
        BY <1>3, <1>4, <2>1, <2>3 DEF Entry
      <3>2. LeadsTo(N, c, Target(N, config, c.stateList[k], x), Entry(N, c, k, x))
        BY <1>1, <1>6, <2>1, <3>1 DEF RowsOK
      <3> QED BY <1>1, <3>1, <3>2 DEF LeadsTo
    <2> QED BY <2>2, <2>3
  <1>7. ASSUME d.stateList # <<>>
        PROVE  /\ d.stateList[1] = NoState
               /\ \A x \in Classes(N) : d.flatTrans[1][x] = InvalidState
    <2>1. c.stateList[1] = NoState /\ \A x \in Classes(N) : c.flatTrans[1][x] = InvalidState
      BY <1>1, <1>7 DEF RowsOK
    <2>2. 1 \in 1..L /\ 1 # j
      BY <1>1, <1>2, <1>5, <1>7, <2>1, NonEmptyList DEF j, L
    <2> QED BY <1>1, <1>3, <1>4, <2>1, <2>2
  <1> QED BY <1>1, <1>5, <1>6, <1>7 DEF L

-----------------------------------------------------------------------------
(* What determinizing an entry leaves of the table.                        *)

(* A state that is in the list, and has a match tag iff it is a match      *)
(* state, is led to.                                                       *)
LEMMA LeadsToState ==
  ASSUME NEW n, NEW c, NEW k \in 1..Len(c.stateList), Len(c.stateList) \in Nat, NEW next, NEW id,
         c.stateList[k] # NoState, c.stateList[k].isMatch = next.isMatch,
         ToSet(c.stateList[k].nfaStates) = ToSet(next.nfaStates),
         HasWordBoundary(n) => c.stateList[k].isFromWord = next.isFromWord,
         id.row = k - 1, id.tag \in SUBSET {"match", "start"}, "match" \in id.tag <=> next.isMatch
  PROVE  LeadsTo(n, c, next, id)
  <1> DEFINE j == id.row + 1
  <1>1. j = k
    OBVIOUS
  <1> HIDE DEF j
  <1> QED BY <1>1 DEF LeadsTo, j

(* A clear is counted.                                                     *)
LEMMA ClearCounts ==
  ASSUME Built, NEW c, Typed(N, config, c)
  PROVE  TryClearCache(c).clearCount # 0
  <1> DEFINE e == ClearKeepMemory(c)
             s == ComputeStartState(ID(0, {}), "Text", FALSE)
             t == [s EXCEPT !.id = WithStartTag(@)]
             inserted == IF IsFull(e) THEN e ELSE Insert(e, s)
             d == Register(inserted, t)
  <1>1. e = [states |-> <<>>, stateList |-> <<>>, flatTrans |-> c.flatTrans,
             startTable |-> NewStartTable, nextRow |-> 1, clearCount |-> c.clearCount + 1]
    BY ClearedFields
  <1>2. TryClearCache(c) = [d EXCEPT !.startTable[FALSE]["Text"] = t.id]
    BY DEF TryClearCache
  <1> HIDE DEF e, s, t
  <1>3. inserted.clearCount = e.clearCount /\ {"clearCount"} \subseteq DOMAIN inserted
    BY <1>1 DEF Insert
  <1> HIDE DEF inserted
  <1>4. d.clearCount = e.clearCount /\ {"clearCount"} \subseteq DOMAIN d
    BY <1>3 DEF Register
  <1> HIDE DEF d
  <1>5. TryClearCache(c).clearCount = e.clearCount
    BY <1>2, <1>4
  <1>6. c.clearCount \in Nat
    BY BuiltFacts DEF Typed
  <1> QED BY <1>1, <1>5, <1>6

(* What determinizing says of where the construction leads.                *)
Determines(c, next, o) ==
  /\ o.kind \in {"next", "dead"} => o.cache.clearCount = c.clearCount
  /\ o.kind = "next" => o.id # DeadState /\ LeadsTo(N, o.cache, next, o.id)
  /\ o.kind = "dead" => IsDeadEnd(next)
  /\ o.kind = "cleared" => o.cache.clearCount # 0

(* What determinize stores and records leads on as the construction says.  *)
LEMMA DeterminizeRows ==
  ASSUME Built, NEW bytes \in SUBSET Byte, Separated(N, bytes), NEW c, Sound(N, config, c),
         RowsOK(N, config, bytes, c), NEW k \in 1..Len(c.stateList), c.stateList[k] # NoState,
         NEW b \in bytes
  PROVE  LET o == DeterminizeInto(c, c.stateList[k], b)
         IN  RowsOK(N, config, bytes, o.cache) /\ Determines(c, NextState(c.stateList[k], b), o)
  <1> DEFINE s == c.stateList[k]
             o == DeterminizeInto(c, s, b)
             next == NextState(s, b)
             new == WithBoundaryFlags(NewState(InvalidState, next))
             key == StateKey(next)
             L == Len(c.flatTrans)
  <1>1. /\ Typed(N, config, c) /\ Numbered(c) /\ Registered(N, config, c)
        /\ Len(c.stateList) \in Nat /\ L \in Nat /\ Len(c.stateList) <= L
        /\ c.stateList \in Seq(State(N)) /\ b \in Byte
    BY DEF Sound, Typed
  <1>2. s \in State(N) /\ s.id \in AnyID /\ s.id.row = k - 1
    <2>1. s \in State(N) /\ Proper(s, k - 1)
      BY <1>1 DEF Numbered
    <2> HIDE DEF s
    <2> QED BY <2>1 DEF State, StateRecord, Proper
  <1>3. next = Target(N, config, s, b)
    BY DEF NextState, Target
  <1> DEFINE j == s.id.row + 1
  <1>4. j = k /\ j \in 1..Len(c.stateList)
    <2> HIDE DEF s
    <2> QED BY <1>2
  <1>5. c.stateList[j] = s
    BY <1>4
  <1> HIDE DEF s, j
  <1>6. /\ next \in [nfaStates : Lists(N), isFromWord : BOOLEAN, isMatch : BOOLEAN]
        /\ new \in State(N) /\ new.id = InvalidState /\ StateKey(new) = key
        /\ new.nfaStates = next.nfaStates /\ new.isMatch = next.isMatch
        /\ new.isFromWord = next.isFromWord
    BY <1>2, NewStateFacts
  <1>7. o = Determined(c, s, b, next)
    BY DEF DeterminizeInto
  <1> HIDE DEF next, o, new
  <1> SUFFICES RowsOK(N, config, bytes, o.cache) /\ Determines(c, next, o)
    BY DEF o, s, next
  <1>8. ASSUME NEW to \in IDs(L), LeadsTo(N, c, next, to)
        PROVE  /\ RowsOK(N, config, bytes, SetFlatTransition(c, s.id, b, to))
               /\ SetFlatTransition(c, s.id, b, to).clearCount = c.clearCount
               /\ LeadsTo(N, SetFlatTransition(c, s.id, b, to), next, to)
    <2>1. LeadsTo(N, c, Target(N, config, c.stateList[s.id.row + 1], b), to)
      BY <1>3, <1>5, <1>8 DEF j
    <2>2. s.id.row + 1 \in 1..Len(c.stateList) /\ c.stateList[s.id.row + 1] # NoState
      BY <1>4 DEF j
    <2>3. RowsOK(N, config, bytes, SetFlatTransition(c, s.id, b, to))
      BY <1>2, <2>1, <2>2, RecordedRows DEF L
    <2>4. /\ SetFlatTransition(c, s.id, b, to).stateList = c.stateList
          /\ SetFlatTransition(c, s.id, b, to).clearCount = c.clearCount
      BY <1>1, <1>2, TransitionSound DEF L
    <2> QED BY <1>8, <2>3, <2>4, StillLeads
  <1>9. CASE IsDeadEnd(next)
    <2>1. o.cache = SetFlatTransition(c, s.id, b, DeadState) /\ o.kind = "dead"
      BY <1>7, <1>9 DEF Determined, Outcome
    <2>2. DeadState \in IDs(L) /\ LeadsTo(N, c, next, DeadState)
      BY <1>1, <1>9, SpecialTypes DEF LeadsTo
    <2> QED BY <1>8, <1>9, <2>1, <2>2 DEF Determines
  <1>10. CASE ~IsDeadEnd(next) /\ Len(next.nfaStates) > config.determinizationLimit
    <2>1. o.cache = c /\ o.kind = "failed"
      BY <1>7, <1>10 DEF Determined, Outcome
    <2> QED BY <2>1 DEF Determines
  <1>11. CASE ~IsDeadEnd(next) /\ ~(Len(next.nfaStates) > config.determinizationLimit)
    <2>1. o = Found(c, s, b, new, key)
      BY <1>7, <1>11 DEF Determined, new
    <2> HIDE DEF key
    <2>2. CASE key \in DOMAIN c.states
      <3> DEFINE i == c.states[key] + 1
                 to == c.stateList[i].id
      <3>1. o.cache = SetFlatTransition(c, s.id, b, to) /\ o.kind = "next" /\ o.id = to
        BY <2>1, <2>2 DEF Found, Recorded, Outcome
      <3>2. i \in 1..Len(c.stateList) /\ c.stateList[i] # NoState /\ StateKey(c.stateList[i]) = key
        BY <1>1, <2>2 DEF Registered, Finds
      <3> HIDE DEF i
      <3>3. c.stateList[i] \in State(N) /\ Proper(c.stateList[i], i - 1)
        BY <1>1, <3>2 DEF Numbered
      <3>4. /\ to \in AnyID /\ to.row = i - 1 /\ to.tag \in SUBSET {"match", "start"}
            /\ "match" \in to.tag <=> c.stateList[i].isMatch
        BY <3>3 DEF State, StateRecord, Proper
      <3>5. /\ c.stateList[i].isMatch = next.isMatch
            /\ ToSet(c.stateList[i].nfaStates) = ToSet(next.nfaStates)
            /\ c.stateList[i].isFromWord = next.isFromWord
        BY <3>2 DEF StateKey, key
      <3> HIDE DEF to
      <3>6. LeadsTo(N, c, next, to)
        BY <1>1, <3>2, <3>4, <3>5, LeadsToState
      <3>7. to \in IDs(L)
        <4>1. to.row \in 0..L
          BY <1>1, <3>2, <3>4
        <4> QED BY <3>4, <4>1 DEF AnyID, IDs
      <3>8. to # DeadState
        <4>1. "dead" \notin to.tag
          BY <3>4
        <4>2. "dead" \in DeadState.tag
          BY DEF DeadState, ID
        <4> QED BY <4>1, <4>2
      <3> QED BY <1>8, <3>1, <3>6, <3>7, <3>8 DEF Determines
    <2>3. CASE key \notin DOMAIN c.states
      <3> DEFINE id == InsertedID(c, new)
                 t == [new EXCEPT !.id = id]
                 row == c.nextRow
                 d == Register(Insert(c, new), t)
      <3>1. o = Stored(c, s, b, new, id)
        BY <2>1, <2>3 DEF Found
      <3>2. new.nfaStates # <<>> \/ new.isMatch
        BY <1>6, <1>11 DEF IsDeadEnd
      <3>3. CASE ~IsFull(c)
        <4>1. /\ row \in Nat /\ row # 0 /\ (row = Len(c.stateList) \/ (row = 1 /\ c.stateList = <<>>))
              /\ id \in AnyID /\ id.row = row /\ id.tag = (IF new.isMatch THEN {"match"} ELSE {})
              /\ t \in State(N) /\ Proper(t, row) /\ StateKey(t) = StateKey(new)
              /\ t.nfaStates = new.nfaStates /\ t.isMatch = new.isMatch
              /\ t.isFromWord = new.isFromWord
              /\ FiledIn(N, c, row, t, d)
          BY <1>6, <3>2, StoredFiles
        <4>2. o.cache = SetFlatTransition(d, s.id, b, id) /\ o.kind = "next" /\ o.id = id
          BY <3>1, <3>3 DEF Stored, Outcome
        <4> HIDE DEF t, d, id, row
        <4>3. StateKey(t) \notin DOMAIN c.states
          BY <1>6, <2>3, <4>1
        <4>4. Sound(N, config, d)
          BY <3>3, <4>1, <4>3, FileSound
        <4>5. Grown(c, d)
          BY <1>1, <4>1, GrownByFiling
        <4>6. RowsOK(N, config, bytes, d)
          BY <4>4, <4>5, GrownRows
        <4>7. /\ Len(d.stateList) = row + 1 /\ d.stateList[row + 1] = t
              /\ d.stateList[k] = s /\ t # NoState
          BY <4>1, ProperIsSomebody DEF FiledIn, s
        <4>8. Len(d.stateList) \in Nat /\ Len(d.flatTrans) \in Nat /\ Len(d.stateList) <= Len(d.flatTrans)
          BY <4>4 DEF Sound, Typed
        <4>9. LeadsTo(N, d, next, id)
          <5> DEFINE i == row + 1
          <5>1. i \in 1..Len(d.stateList) /\ id.row = i - 1 /\ d.stateList[i] = t
            BY <4>1, <4>7
          <5>2. next.isMatch \in BOOLEAN
            BY <1>6
          <5>3. id.tag \in SUBSET {"match", "start"} /\ ("match" \in id.tag <=> next.isMatch)
            BY <1>6, <4>1, <5>2
          <5> HIDE DEF i
          <5> QED BY <1>6, <4>1, <4>7, <4>8, <5>1, <5>3, LeadsToState
        <4>10. id \in IDs(Len(d.flatTrans))
          <5>1. id.row \in 0..Len(d.flatTrans)
            BY <4>1, <4>7, <4>8
          <5> QED BY <4>1, <5>1 DEF AnyID, IDs
        <4>11. s.id.row + 1 \in 1..Len(d.stateList) /\ d.stateList[s.id.row + 1] = s
          <5>1. Len(c.stateList) <= Len(d.stateList)
            BY <4>5 DEF Grown
          <5>2. j = k /\ j \in 1..Len(d.stateList)
            BY <1>1, <1>4, <4>8, <5>1
          <5> QED BY <4>7, <5>2 DEF j
        <4>12. LeadsTo(N, d, Target(N, config, d.stateList[s.id.row + 1], b), id)
          BY <1>3, <4>9, <4>11
        <4>13. RowsOK(N, config, bytes, o.cache)
          BY <1>2, <1>4, <4>2, <4>4, <4>6, <4>10, <4>11, <4>12, RecordedRows DEF s
        <4>14. o.cache.stateList = d.stateList /\ o.cache.clearCount = d.clearCount
          BY <1>1, <1>2, <4>2, <4>4, <4>10, TransitionSound
        <4>15. LeadsTo(N, o.cache, next, id)
          BY <4>9, <4>14, StillLeads
        <4>16. id # DeadState /\ d.clearCount = c.clearCount
          BY <4>1, <4>5 DEF DeadState, ID, Grown
        <4> QED BY <4>2, <4>13, <4>14, <4>15, <4>16 DEF Determines
      <3>4. CASE IsFull(c) /\ MayClear(c)
        <4>1. o.cache = TryClearCache(c) /\ o.kind = "cleared"
          BY <3>1, <3>4 DEF Stored, Outcome
        <4> QED BY <1>1, <4>1, ClearCounts DEF RowsOK, Determines
      <3>5. CASE IsFull(c) /\ ~MayClear(c)
        <4>1. o.cache = c /\ o.kind = "failed"
          BY <3>1, <3>5 DEF Stored, Outcome
        <4> QED BY <4>1 DEF Determines
      <3> QED BY <3>3, <3>4, <3>5
    <2> QED BY <2>2, <2>3
  <1> QED BY <1>9, <1>10, <1>11

-----------------------------------------------------------------------------
(* The steps of the searches.                                              *)

Rows(c) == RowsOK(N, config, SearchedBytes, c)

(* The bytes of the haystacks are bytes.                                   *)
LEMMA SearchedFacts ==
  ASSUME DfaOK
  PROVE  SearchedBytes \in SUBSET Byte
  <1>1. \A c \in Calls[dfa.pattern] : ToSet(c.hay) \subseteq Byte
    <2> SUFFICES ASSUME NEW c \in Calls[dfa.pattern]
                 PROVE  ToSet(c.hay) \subseteq Byte
      OBVIOUS
    <2>1. c.hay \in Seq(Byte)
      BY CallFacts
    <2> QED BY <2>1 DEF ToSet
  <1> QED BY <1>1 DEF SearchedBytes, BytesOf, Haystack

(* A running search reads bytes that are searched.                         *)
LEMMA NextByteSearched ==
  ASSUME IInv, pc # "idle", pos < End
  PROVE  NextByte \in SearchedBytes
  <1>1. pos \in 0..End /\ End \in Nat
    BY Before
  <1>2. W \in Haystack(dfa.pattern) /\ W \in Seq(Byte)
    BY DEF IInv, CallOK, Haystack, W
  <1>3. pos + 1 \in 1..Len(W)
    BY <1>1 DEF End
  <1>4. NextByte \in ToSet(W)
    BY <1>2, <1>3 DEF NextByte, ToSet
  <1> QED BY <1>2, <1>4 DEF SearchedBytes, BytesOf

(* Taking a start state, which may store one or clear the cache.           *)
LEMMA RestartRows ==
  ASSUME IInv, NEW c, Sound(N, config, c), Rows(c),
         NEW w \in Seq(Byte), NEW i \in 0..Len(w), NEW anchored \in BOOLEAN
  PROVE  Rows(StartAt(c, w, i, anchored).cache)
  <1> DEFINE kind == IF i = 0 THEN "Text" ELSE StartKindOf(w[i])
             d == GetStartState(c, kind, anchored)
  <1>1. kind \in StartKind
    BY DEF StartKind, StartKindOf
  <1>2. StartAt(c, w, i, anchored) = d
    BY DEF StartAt
  <1>3. Built /\ SearchedBytes \in SUBSET Byte
    BY DfaIsBuilt, SearchedFacts DEF IInv
  <1> HIDE DEF kind
  <1>4. Leaves(c, d.cache, d.id) /\ Grown(c, d.cache)
    BY <1>1, <1>3, GetStartStateSound
  <1> HIDE DEF d
  <1>5. Sound(N, config, d.cache)
    BY <1>4 DEF Leaves
  <1> QED BY <1>2, <1>3, <1>4, <1>5, GrownRows DEF Rows

(* Starting again at a position.                                           *)
LEMMA RestartAtRows ==
  ASSUME IInv, pc # "idle", NEW c, Sound(N, config, c), Rows(c), NEW i \in 0..End, RestartAt(c, i)
  PROVE  Rows(cache')
  <1>1. cache' = StartAt(c, W, i, At("SearchAtAnchored")).cache
    BY DEF RestartAt, Resume
  <1>2. W \in Seq(Byte) /\ At("SearchAtAnchored") \in BOOLEAN
    BY DEF IInv, CallOK, At
  <1> QED BY <1>1, <1>2, RestartRows DEF End

(* A search whose state is dead.                                           *)
LEMMA DieRows ==
  ASSUME IInv, pc # "idle", pos < End, NEW c, Sound(N, config, c), Rows(c), Die(c)
  PROVE  Rows(cache')
  <1>1. End \in Nat /\ pos \in 0..End
    BY Before
  <1>2. CASE RestartAt(c, Candidate(W, pos + 1)) /\ Candidate(W, pos + 1) >= 0
    <2>1. Candidate(W, pos + 1) \in 0..End
      <3>1. pos + 1 \in Nat
        BY <1>1
      <3> QED BY <1>1, <1>2, <3>1, CandidateFacts DEF End
    <2> QED BY <1>2, <2>1, RestartAtRows
  <1>3. CASE cache' = c
    BY <1>3
  <1> QED BY <1>2, <1>3 DEF Die

(* A new search.                                                           *)
LEMMA NewSearchRows ==
  ASSUME IInv, Rows(cache), NewSearch
  PROVE  Rows(cache')
  <1>1. PICK c \in Calls[dfa.pattern] :
          SearchAtEnd(c) \/ RefuseAnchored(c) \/ NoCandidate(c) \/ Search(c)
    BY DEF NewSearch
  <1>2. CASE cache' = cache
    BY <1>2
  <1>3. CASE Search(c)
    <2> DEFINE from == IF c.op = "FindAt" THEN Candidate(c.hay, c.at) ELSE c.at
    <2>1. cache' = StartAt(cache, c.hay, from, c.op = "SearchAtAnchored").cache /\ from >= 0
      BY <1>3 DEF Search, Begin
    <2>2. c.hay \in Seq(Byte) /\ Len(c.hay) \in Nat /\ c.at \in 0..Len(c.hay)
      BY CallFacts DEF IInv
    <2>3. from \in 0..Len(c.hay)
      <3>1. Candidate(c.hay, c.at) = -1 \/ Candidate(c.hay, c.at) \in c.at..Len(c.hay)
        BY <2>2, CandidateFacts
      <3> QED BY <2>1, <2>2, <3>1
    <2> HIDE DEF from
    <2>4. Sound(N, config, cache) /\ (c.op = "SearchAtAnchored") \in BOOLEAN
      BY DEF IInv, CacheOK
    <2> QED BY <2>1, <2>2, <2>3, <2>4, RestartRows
  <1> QED BY <1>1, <1>2, <1>3 DEF SearchAtEnd, RefuseAnchored, NoCandidate

(* Looking for exit bytes, which writes a state back.                      *)
LEMMA AccelerateRows ==
  ASSUME IInv, Rows(cache), Accelerate
  PROVE  Rows(cache')
  <1> DEFINE state == TryDetectAcceleration(cache, Current)
             k == sid.row + 1
             c == Register(cache, state)
  <1>1. pc # "idle" /\ Current # NoState /\ cache' = c
    BY SlowPathPlace DEF Accelerate, SkipToExit
  <1>2. /\ Built /\ Sound(N, config, cache)
        /\ k \in 1..Len(cache.stateList) /\ cache.stateList[k] = Current /\ Current \in State(N)
    BY <1>1, Before
  <1>3. /\ state \in State(N) /\ state.id = Current.id /\ state.nfaStates = Current.nfaStates
        /\ state.isMatch = Current.isMatch /\ state.isFromWord = Current.isFromWord
    BY <1>2, AccelerationFacts
  <1> HIDE DEF state, k, c
  <1>4. Sound(N, config, c) /\ Replaces(cache, k, state, c)
    BY <1>1, <1>2, <1>3, ReplaceSound DEF c
  <1>5. Grown(cache, c)
    <2>1. Typed(N, config, cache)
      BY <1>2 DEF Sound
    <2> QED BY <1>1, <1>2, <1>3, <1>4, <2>1, GrownByReplacing
  <1>6. SearchedBytes \in SUBSET Byte
    BY SearchedFacts DEF IInv
  <1> QED BY <1>1, <1>2, <1>4, <1>5, <1>6, GrownRows DEF Rows

(* A transition that has to be determinized.                               *)
LEMMA DeterminizeStepRows ==
  ASSUME IInv, Separated(N, SearchedBytes), Rows(cache), DeterminizeStep
  PROVE  Rows(cache')
  <1> DEFINE outcome == DeterminizeInto(cache, Current, NextByte)
             k == sid.row + 1
  <1>1. pc # "idle" /\ pos < End /\ Current # NoState /\ Proceed(outcome)
    BY SlowPathPlace DEF DeterminizeStep, ReadyToStep
  <1>2. /\ Built /\ Sound(N, config, cache) /\ NextByte \in Byte
        /\ k \in 1..Len(cache.stateList) /\ cache.stateList[k] = Current
    BY <1>1, Before
  <1>3. SearchedBytes \in SUBSET Byte /\ NextByte \in SearchedBytes
    BY <1>1, SearchedFacts, NextByteSearched DEF IInv
  <1> HIDE DEF k
  <1>4. Rows(outcome.cache) /\ Sound(N, config, outcome.cache)
    <2>1. outcome = DeterminizeInto(cache, cache.stateList[k], NextByte)
      BY <1>2
    <2> HIDE DEF outcome
    <2>2. Leaves(cache, outcome.cache, outcome.id)
      BY <1>1, <1>2, <2>1, DeterminizeSound
    <2>3. RowsOK(N, config, SearchedBytes, outcome.cache)
      BY <1>1, <1>2, <1>3, <2>1, DeterminizeRows DEF Rows
    <2> QED BY <2>2, <2>3 DEF Leaves, Rows
  <1> HIDE DEF outcome
  <1>5. CASE cache' = outcome.cache
    BY <1>4, <1>5
  <1>6. CASE Die(outcome.cache)
    BY <1>1, <1>4, <1>6, DieRows
  <1> QED BY <1>1, <1>5, <1>6 DEF Proceed, Cleared

(* A step of a search, whichever it is.                                    *)
LEMMA SearchStepRows ==
  ASSUME IInv, Separated(N, SearchedBytes), Rows(cache), SearchStep
  PROVE  Rows(cache')
  <1>1. CASE cache' = cache
    BY <1>1
  <1>2. CASE SkipAhead
    <2>1. /\ pc # "idle" /\ pos < End
      BY <1>2, SlowPathPlace DEF SkipAhead
    <2>2. /\ Sound(N, config, cache) /\ End \in Nat /\ pos \in 0..End
      BY <2>1, Before
    <2>3. CASE ~(Candidate(W, pos) < 0) /\ RestartAt(cache, Candidate(W, pos))
      <3>1. Candidate(W, pos) = -1 \/ Candidate(W, pos) \in pos..End
        BY <2>2, CandidateFacts DEF End
      <3>2. Candidate(W, pos) \in 0..End
        BY <2>2, <2>3, <3>1
      <3> QED BY <2>1, <2>2, <2>3, <3>2, RestartAtRows
    <2> QED BY <1>1, <1>2, <2>3 DEF SkipAhead
  <1>3. CASE Accelerate
    BY <1>3, AccelerateRows
  <1>4. CASE DieKnown
    <2>1. pc # "idle" /\ pos < End
      BY <1>4, SlowPathPlace DEF DieKnown, ReadyToStep
    <2>2. Sound(N, config, cache)
      BY <2>1, Before
    <2> QED BY <1>4, <2>1, <2>2, DieRows DEF DieKnown
  <1>5. CASE DeterminizeStep
    BY <1>5, DeterminizeStepRows
  <1>6. CASE RestartAfterClear
    <2>1. pc # "idle" /\ RestartAt(cache, pos)
      BY <1>6 DEF RestartAfterClear
    <2>2. Sound(N, config, cache) /\ pos \in 0..End
      BY <2>1, Before
    <2> QED BY <2>1, <2>2, RestartAtRows
  <1> QED BY <1>1, <1>2, <1>3, <1>4, <1>5, <1>6
          DEF SearchStep, FastPath, LeaveStart, Lost, MatchAtBoundary, Follow, EndOfInput

-----------------------------------------------------------------------------
(* What the invariant says of the table.                                   *)
LEMMA RowsLead ==
  ASSUME IInv, Rows(cache)
  PROVE  RowsDeterminized
  <1> SUFFICES ASSUME cache.clearCount = 0,
                      NEW k \in DOMAIN cache.stateList, NEW b \in SearchedBytes, Filed(k),
                      Transition(cache, cache.stateList[k].id, b) # InvalidState
               PROVE  Leads(cache.stateList[k], b, Transition(cache, cache.stateList[k].id, b))
    BY DEF RowsDeterminized
  <1> DEFINE s == cache.stateList[k]
             id == Transition(cache, s.id, b)
             next == NextState(s, b)
             j == id.row + 1
             i == s.id.row + 1
  <1>1. /\ Sound(N, config, cache) /\ Typed(N, config, cache) /\ Numbered(cache)
        /\ cache.stateList \in Seq(State(N)) /\ Len(cache.stateList) \in Nat
        /\ Len(cache.flatTrans) \in Nat /\ Len(cache.stateList) <= Len(cache.flatTrans)
    BY DEF IInv, CacheOK, Sound, Typed
  <1>2. k \in 1..Len(cache.stateList) /\ s # NoState /\ s \in State(N)
    BY <1>1 DEF Filed
  <1>3. Proper(s, k - 1)
    BY <1>1, <1>2 DEF Numbered
  <1>4. s.id \in AnyID /\ s.id.row = k - 1
    BY <1>2, <1>3 DEF State, StateRecord, Proper
  <1> HIDE DEF s
  <1>5. i = k /\ s.id.row < Len(cache.flatTrans)
    BY <1>1, <1>2, <1>4
  <1>6. id = Entry(N, cache, k, b)
    BY <1>5 DEF Transition, Entry, i
  <1>7. next = Target(N, config, s, b)
    BY DEF NextState, Target
  <1> HIDE DEF id, next
  <1>8. LeadsTo(N, cache, next, id)
    <2>1. id # InvalidState
      BY DEF id, s
    <2> QED BY <1>2, <1>6, <1>7, <2>1 DEF Rows, RowsOK, s
  <1>9. id \in AnyID
    <2>1. SearchedBytes \in SUBSET Byte /\ Built
      BY SearchedFacts, DfaIsBuilt DEF IInv
    <2>2. id \in IDs(Len(cache.flatTrans))
      BY <1>1, <1>4, <2>1, TransitionType DEF id
    <2> QED BY <1>1, <2>2, WiderIDs
  <1>10. CASE id = DeadState
    <2>1. IsDeadEnd(next)
      BY <1>8, <1>10 DEF LeadsTo, DeadState, ID
    <2> QED BY <1>10, <2>1 DEF Leads, id, s, next
  <1>11. CASE id # DeadState
    <2>1. /\ id.tag \in SUBSET {"match", "start"}
          /\ j \in 1..Len(cache.stateList) /\ cache.stateList[j] # NoState
          /\ ToSet(cache.stateList[j].nfaStates) = ToSet(next.nfaStates)
          /\ cache.stateList[j].isMatch = next.isMatch
          /\ "match" \in id.tag <=> next.isMatch
      BY <1>8, <1>11 DEF LeadsTo
    <2>2. id.row < Len(cache.stateList) /\ ~(id.row >= Len(cache.stateList))
          /\ id.tag \cap {"invalid", "dead"} = {}
      BY <1>1, <1>9, <2>1 DEF AnyID
    <2>3. GetState(cache, id) = cache.stateList[j]
      BY <2>2 DEF GetState
    <2>4. next.isMatch \in BOOLEAN
      <3>1. Built
        BY DfaIsBuilt DEF IInv
      <3> QED BY <1>2, <3>1, NewStateFacts DEF next
    <2>5. ("match" \in id.tag) = next.isMatch
      BY <2>1, <2>4
    <2> HIDE DEF j
    <2> QED BY <1>11, <2>1, <2>3, <2>5 DEF Leads, id, s, next
  <1> QED BY <1>10, <1>11

(* The table is the subset construction in every state until the cache is  *)
(* cleared, whichever searches made its entries, in whatever order, for    *)
(* whichever byte of a class: if the assertions of the pattern tell no     *)
(* bytes of a class apart that are searched.                               *)
THEOREM RowsAreDeterminized ==
  ASSUME \A p \in Pattern : Separated(Automaton[p], BytesOf(p))
  PROVE  Spec => []RowsDeterminized
  <1>1. Init => Rows(cache)
    BY DEF Init, NewCache, Rows, RowsOK
  <1>2. IInv /\ Rows(cache) /\ [Next]_vars => Rows(cache)'
    <2> SUFFICES ASSUME IInv, Rows(cache), [Next]_vars PROVE Rows(cache)'
      OBVIOUS
    <2>1. Separated(N, SearchedBytes)
      BY DfaIsBuilt DEF IInv, Built, SearchedBytes
    <2>2. Rows(cache') /\ dfa' = dfa
      <3>1. CASE NewSearch
        BY <3>1, NewSearchRows
           DEF NewSearch, SearchAtEnd, RefuseAnchored, NoCandidate, Search, Request
      <3>2. CASE SearchStep
        BY <2>1, <3>2, SearchStepRows, StepEnds
      <3>3. CASE UNCHANGED vars
        BY <3>3 DEF vars
      <3> QED BY <3>1, <3>2, <3>3 DEF Next
    <2> QED BY <2>2 DEF Rows, N, config, SearchedBytes
  <1>3. IInv /\ Rows(cache) => RowsDeterminized
    BY RowsLead
  <1> QED BY <1>1, <1>2, <1>3, Invariant, PTL DEF Spec
===============================================================================
