------------------------------ MODULE AnswerProofs ------------------------------
(***************************************************************************)
(* What a forward search finds is on a path of the automaton, and what it  *)
(* does not find is not.                                                   *)
(***************************************************************************)
EXTENDS LazyDFAProofs

-----------------------------------------------------------------------------
(* The paths of a search: from its first state, at the position it was     *)
(* asked for or, unless it is anchored, at a later one.                    *)
First(n, c) == IF c.op = "SearchAtAnchored" THEN n.startAnchored ELSE n.startUnanchored
Starts(c) == IF c.op = "SearchAtAnchored" THEN {c.at} ELSE c.at..Len(c.hay)
Walked(n, c) == UNION {Reached(n, c.hay, <<First(n, c), j>>) : j \in Starts(c)}
Sighted(n, c, i) == \E id \in Here(n, Walked(n, c), i) : IsMatchID(n, id)

(* The state an ID stands for has come to a position along paths, and      *)
(* knows what byte is behind it.  The ID of a state that could not be      *)
(* stored stands for none.                                                 *)
ComesTo(n, c, s, i) ==
  /\ ToSet(s.nfaStates) \subseteq Here(n, Walked(n, c), i)
  /\ HasWordBoundary(n) => (s.isFromWord <=> WordAt(c.hay, i))
Arrived(n, c, table, id, i) ==
  \/ id = InvalidState
  \/ /\ id.tag \in SUBSET {"match", "start"}
     /\ id.row + 1 \in 1..Len(table.stateList) /\ table.stateList[id.row + 1] # NoState
     /\ ComesTo(n, c, table.stateList[id.row + 1], i)

(* A call that can be made.                                                *)
Asked(c) == /\ c.op \in Op /\ c.hay \in Seq(Byte) /\ Len(c.hay) \in Nat /\ c.at \in 0..Len(c.hay)

(* What follows a pair of a path is on a path, and paths begin where the   *)
(* search may.                                                             *)
LEMMA WalkedFollowed ==
  ASSUME NEW n, Validate(n), Patched(n), NEW c, Asked(c)
  PROVE  /\ Followed(n, c.hay, Walked(n, c))
         /\ \A j \in Starts(c) : <<First(n, c), j>> \in Walked(n, c) /\ j \in 0..Len(c.hay)
  <1>1. First(n, c) \in NfaIDs(n)
    BY DEF First, Validate, NfaIDs
  <1>2. ASSUME NEW j \in Starts(c)
        PROVE  j \in 0..Len(c.hay) /\ <<First(n, c), j>> \in Pairs(n, c.hay)
    BY <1>1 DEF Starts, Asked, Pairs
  <1>3. ASSUME NEW j \in Starts(c)
        PROVE  LET R == Reached(n, c.hay, <<First(n, c), j>>)
               IN  <<First(n, c), j>> \in R /\ R \subseteq Pairs(n, c.hay) /\ Closed(n, c.hay, R)
    BY <1>2, ReachedClosed DEF Asked
  <1>4. Walked(n, c) \subseteq Pairs(n, c.hay)
    BY <1>3 DEF Walked
  <1>5. Closed(n, c.hay, Walked(n, c))
    BY <1>3 DEF Walked, Closed
  <1>6. \A j \in Starts(c) : <<First(n, c), j>> \in Walked(n, c)
    BY <1>3 DEF Walked
  <1> QED BY <1>2, <1>4, <1>5, <1>6 DEF Followed

(* A path that comes to a match state is one the expression has.           *)
LEMMA SightedEnds ==
  ASSUME NEW n, Validate(n), Patched(n), NEW c, Asked(c), NEW i, Sighted(n, c, i)
  PROVE  \E j \in Starts(c) : i \in MatchEnds(n, c.hay, <<First(n, c), j>>)
  <1>1. PICK id \in Here(n, Walked(n, c), i) : IsMatchID(n, id)
    BY DEF Sighted
  <1>2. <<id, i>> \in Walked(n, c)
    BY DEF Here
  <1>3. PICK j \in Starts(c) : <<id, i>> \in Reached(n, c.hay, <<First(n, c), j>>)
    BY <1>2 DEF Walked
  <1>4. i \in 0..Len(c.hay)
    BY <1>2, WalkedFollowed DEF Followed, Pairs
  <1>5. <<id, i>>[1] = id /\ <<id, i>>[2] = i
    OBVIOUS
  <1>6. i \in MatchEnds(n, c.hay, <<First(n, c), j>>)
    BY <1>1, <1>3, <1>4, <1>5 DEF MatchEnds
  <1> QED BY <1>6

-----------------------------------------------------------------------------
(* Steps of a DFA state.                                                   *)

(* A step of the construction comes to the next position, and has seen a   *)
(* match only where there is one.                                          *)
LEMMA TargetComes ==
  ASSUME NEW n, Validate(n), Patched(n), NEW c, Asked(c), NEW i \in 0..(Len(c.hay) - 1),
         NEW s \in State(n), ComesTo(n, c, s, i), NEW cfg
  PROVE  LET next == Target(n, cfg, s, c.hay[i + 1])
         IN  ComesTo(n, c, next, i + 1) /\ (next.isMatch => Sighted(n, c, i))
  <1> DEFINE P == Walked(n, c)
             next == Target(n, cfg, s, c.hay[i + 1])
  <1>1. Followed(n, c.hay, P) /\ c.hay \in Seq(Byte)
    BY WalkedFollowed DEF Asked
  <1>2. /\ s.nfaStates \in Lists(n) /\ s.isFromWord \in BOOLEAN
        /\ ToSet(s.nfaStates) \subseteq Here(n, P, i)
        /\ HasWordBoundary(n) => (s.isFromWord <=> WordAt(c.hay, i))
    BY StateFields DEF ComesTo
  <1> HIDE DEF P
  <1>3. /\ ToSet(next.nfaStates) \subseteq Here(n, P, i + 1)
        /\ next.isFromWord <=> WordAt(c.hay, i + 1)
        /\ next.isMatch => \E id \in Here(n, P, i) : IsMatchID(n, id)
    <2> DEFINE u == Successor(n, s.nfaStates, s.isFromWord, c.hay[i + 1], cfg.breakAtMatch)
    <2>1. next = u
      BY DEF Target
    <2> HIDE DEF next
    <2>2. /\ ToSet(u.nfaStates) \subseteq Here(n, P, i + 1)
          /\ u.isFromWord <=> WordAt(c.hay, i + 1)
          /\ u.isMatch => \E id \in Here(n, P, i) : IsMatchID(n, id)
      <3> DEFINE w == c.hay
                 ids == s.nfaStates
                 from == s.isFromWord
                 breaks == cfg.breakAtMatch
      <3>1. /\ w \in Seq(Byte) /\ Followed(n, w, P) /\ i \in 0..(Len(w) - 1)
            /\ ids \in Lists(n) /\ ToSet(ids) \subseteq Here(n, P, i) /\ from \in BOOLEAN
            /\ HasWordBoundary(n) => (from <=> WordAt(w, i))
        BY <1>1, <1>2
      <3> HIDE DEF w, ids, from, breaks
      <3>2. /\ ToSet(Successor(n, ids, from, w[i + 1], breaks).nfaStates) \subseteq Here(n, P, i + 1)
            /\ Successor(n, ids, from, w[i + 1], breaks).isFromWord <=> WordAt(w, i + 1)
            /\ Successor(n, ids, from, w[i + 1], breaks).isMatch => \E id \in Here(n, P, i) : IsMatchID(n, id)
        BY <3>1, SuccessorHere
      <3> QED BY <3>2 DEF w, ids, from, breaks
    <2> HIDE DEF u
    <2> QED BY <2>1, <2>2
  <1> QED BY <1>3 DEF ComesTo, Sighted, P

(* So does a transition the table knows.                                   *)
LEMMA LeadsArrives ==
  ASSUME NEW n, Validate(n), Patched(n), NEW c, Asked(c), NEW i \in 0..(Len(c.hay) - 1),
         NEW s \in State(n), ComesTo(n, c, s, i), NEW cfg, NEW table, NEW id,
         LeadsTo(n, table, Target(n, cfg, s, c.hay[i + 1]), id), id # DeadState
  PROVE  /\ Arrived(n, c, table, id, i + 1) /\ id.tag \in SUBSET {"match", "start"}
         /\ "match" \in id.tag => Sighted(n, c, i)
  <1> DEFINE next == Target(n, cfg, s, c.hay[i + 1])
             t == table.stateList[id.row + 1]
  <1>1. ComesTo(n, c, next, i + 1) /\ (next.isMatch => Sighted(n, c, i))
    BY TargetComes
  <1> HIDE DEF next
  <1>2. /\ id.tag \in SUBSET {"match", "start"}
        /\ id.row + 1 \in 1..Len(table.stateList) /\ t # NoState
        /\ ToSet(t.nfaStates) = ToSet(next.nfaStates)
        /\ HasWordBoundary(n) => t.isFromWord = next.isFromWord
        /\ "match" \in id.tag <=> next.isMatch
    BY DEF LeadsTo, next
  <1>3. ComesTo(n, c, t, i + 1)
    BY <1>1, <1>2 DEF ComesTo
  <1> QED BY <1>1, <1>2, <1>3 DEF Arrived

(* An entry of the table takes a search one position further, to a state   *)
(* that has come there along paths.                                        *)
LEMMA TransitionArrives ==
  ASSUME Built, NEW bytes \in SUBSET Byte, NEW table, Sound(N, config, table),
         RowsOK(N, config, bytes, table), table.clearCount = 0,
         NEW c, Asked(c), NEW i \in 0..(Len(c.hay) - 1), c.hay[i + 1] \in bytes,
         NEW id \in AnyID, Arrived(N, c, table, id, i),
         Transition(table, id, c.hay[i + 1]) \notin {InvalidState, DeadState}
  PROVE  LET t == Transition(table, id, c.hay[i + 1])
         IN  /\ Arrived(N, c, table, t, i + 1) /\ t.tag \in SUBSET {"match", "start"}
             /\ "match" \in t.tag => Sighted(N, c, i)
  <1> DEFINE b == c.hay[i + 1]
             t == Transition(table, id, b)
             k == id.row + 1
             s == table.stateList[k]
  <1>1. /\ Len(table.flatTrans) = Len(table.stateList) /\ Len(table.stateList) \in Nat
        /\ table.stateList # <<>> => \A class \in Classes(N) : table.flatTrans[1][class] = InvalidState
        /\ \A j \in 1..Len(table.stateList) : table.stateList[j] \in State(N)
    BY DEF RowsOK, Sound, Typed
  <1>2. b \in Byte /\ ByteToClass(N, b) \in Classes(N) /\ Validate(N) /\ Patched(N)
    BY BuiltFacts
  <1>3. CASE id = InvalidState
    <2>1. id.row = 0
      BY <1>3 DEF InvalidState, ID
    <2>2. t = InvalidState
      BY <1>1, <1>2, <2>1 DEF Transition
    <2> QED BY <2>2
  <1>4. CASE id # InvalidState
    <2>1. k \in 1..Len(table.stateList) /\ s # NoState /\ ComesTo(N, c, s, i)
      BY <1>4 DEF Arrived
    <2>2. id.row < Len(table.flatTrans)
      BY <1>1, <2>1 DEF AnyID
    <2>3. t = Entry(N, table, k, b)
      BY <2>2 DEF Transition, Entry
    <2>4. LeadsTo(N, table, Target(N, config, s, b), t)
      BY <2>1, <2>3 DEF RowsOK
    <2>5. s \in State(N)
      BY <1>1, <2>1
    <2> HIDE DEF s, t, k
    <2> QED BY <1>2, <2>1, <2>4, <2>5, LeadsArrives DEF t
  <1> QED BY <1>3, <1>4

(* A start state is where the paths of the search are that begin at its    *)
(* position: the kind of start says no more than what holds there.         *)
LEMMA StartComes ==
  ASSUME Built, NEW c, Asked(c), NEW i \in Starts(c), NEW kind \in StartKind,
         kind = IF i = 0 THEN "Text" ELSE StartKindOf(c.hay[i])
  PROVE  /\ ToSet(StartOf(N, kind, c.op = "SearchAtAnchored")) \subseteq Here(N, Walked(N, c), i)
         /\ (kind = "Word") <=> WordAt(c.hay, i)
  <1> DEFINE P == Walked(N, c)
             first == First(N, c)
             have == LookSetFromStartKind(kind)
  <1>1. Validate(N) /\ Patched(N)
    BY BuiltFacts
  <1>2. Followed(N, c.hay, P) /\ <<first, i>> \in P /\ i \in 0..Len(c.hay)
        /\ c.hay \in Seq(Byte) /\ Len(c.hay) \in Nat
    BY <1>1, WalkedFollowed DEF Asked
  <1>3. first \in Here(N, P, i) /\ first \in NfaIDs(N)
    BY <1>2 DEF Followed, Pairs, Here
  <1>4. StartOf(N, kind, c.op = "SearchAtAnchored") = EpsilonClosure(N, <<first>>, have)
    BY DEF StartOf, First
  <1>5. have \in SUBSET LooksAt(c.hay, i)
    BY DEF LookSetFromStartKind, LooksAt, StartKindOf
  <1>6. (kind = "Word") <=> WordAt(c.hay, i)
    <2>1. CASE i = 0
      BY <1>2, <2>1 DEF WordAt
    <2>2. CASE i # 0
      <3>1. i \in DOMAIN c.hay
        BY <1>2, <2>2
      <3>2. kind = StartKindOf(c.hay[i])
        BY <2>2
      <3>3. kind = "Word" <=> IsWordByte(c.hay[i])
        <4>1. IsWordByte(c.hay[i]) => c.hay[i] # NewlineByte
          BY DEF NewlineByte, IsWordByte
        <4> QED BY <3>2, <4>1 DEF StartKindOf
      <3> QED BY <3>1, <3>3 DEF WordAt
    <2> QED BY <2>1, <2>2
  <1> HIDE DEF P, first, have
  <1>7. <<first>> \in Seq(NfaIDs(N)) /\ ToSet(<<first>>) \subseteq Here(N, P, i)
    BY <1>3 DEF ToSet
  <1>8. ToSet(EpsilonClosure(N, <<first>>, have)) \subseteq Here(N, P, i)
    BY <1>1, <1>2, <1>5, <1>7, EpsilonHere
  <1> QED BY <1>4, <1>6, <1>8 DEF P

(* The start state a search gets at a position has come there along paths. *)
LEMMA StartArrives ==
  ASSUME Built, NEW table, Sound(N, config, table), NEW c, Asked(c), NEW i \in Starts(c)
  PROVE  LET r == StartAt(table, c.hay, i, c.op = "SearchAtAnchored")
         IN  Arrived(N, c, r.cache, r.id, i) /\ r.cache.clearCount = table.clearCount
  <1> DEFINE kind == IF i = 0 THEN "Text" ELSE StartKindOf(c.hay[i])
             anchored == c.op = "SearchAtAnchored"
             r == GetStartState(table, kind, anchored)
             s == r.cache.stateList[r.id.row + 1]
  <1>1. kind \in StartKind /\ anchored \in BOOLEAN
    BY DEF StartKind, StartKindOf
  <1>2. StartAt(table, c.hay, i, anchored) = r
    BY DEF StartAt
  <1>3. /\ ToSet(StartOf(N, kind, anchored)) \subseteq Here(N, Walked(N, c), i)
        /\ (kind = "Word") <=> WordAt(c.hay, i)
    BY <1>1, StartComes
  <1> HIDE DEF kind, anchored
  <1>4. /\ Leaves(table, r.cache, r.id) /\ Grown(table, r.cache)
        /\ r.id = InvalidState \/ StartsAt(N, r.cache, r.id, kind, anchored)
    BY <1>1, GetStartStateSound
  <1> HIDE DEF r
  <1>5. ASSUME r.id # InvalidState PROVE Arrived(N, c, r.cache, r.id, i)
    <2>1. /\ r.id.row + 1 \in 1..Len(r.cache.stateList)
          /\ s # NoState /\ s.id = r.id
          /\ ToSet(s.nfaStates) = ToSet(StartOf(N, kind, anchored)) /\ s.isFromWord = (kind = "Word")
      BY <1>4, <1>5 DEF StartsAt
    <2>2. Proper(s, (r.id.row + 1) - 1)
      BY <1>4, <2>1 DEF Leaves, Sound, Numbered
    <2>3. r.id.tag \in SUBSET {"match", "start"}
      BY <2>1, <2>2 DEF Proper
    <2>4. ComesTo(N, c, s, i)
      BY <1>3, <2>1 DEF ComesTo
    <2> QED BY <2>1, <2>3, <2>4 DEF Arrived
  <1>6. r.cache.clearCount = table.clearCount
    BY <1>4 DEF Grown
  <1>7. Arrived(N, c, r.cache, r.id, i)
    BY <1>5 DEF Arrived
  <1> QED BY <1>2, <1>6, <1>7 DEF anchored

(* The state a running search is in.                                       *)
LEMMA RunningAsked ==
  ASSUME IInv, pc # "idle"
  PROVE  /\ Asked(call) /\ call.hay = W /\ End = Len(W) /\ Validate(N) /\ Patched(N) /\ Built
         /\ pos \in 0..Len(call.hay)
         /\ pos < End => pos \in 0..(Len(call.hay) - 1) /\ NextByte = call.hay[pos + 1]
                          /\ NextByte \in SearchedBytes /\ SearchedBytes \in SUBSET Byte
  <1>1. Built /\ pos \in 0..End /\ End \in Nat
    BY Before
  <1>2. pos < End => NextByte \in SearchedBytes /\ SearchedBytes \in SUBSET Byte
    BY NextByteSearched, SearchedFacts DEF IInv
  <1>3. Asked(call) /\ call.hay = W /\ End = Len(W)
    BY <1>1 DEF IInv, CallOK, Asked, W, End
  <1> QED BY <1>1, <1>2, <1>3, BuiltFacts DEF NextByte

(* The same of the state a running search is in.                           *)
LEMMA CurrentComes ==
  ASSUME IInv, pc # "idle", Current # NoState, Arrived(N, call, cache, sid, pos)
  PROVE  ComesTo(N, call, Current, pos)
  <1>1. sid # InvalidState
    BY DEF Current, GetState, InvalidState, ID
  <1> QED BY <1>1, Before DEF Arrived

(* A pending word assertion completes a match where a path has one.        *)
LEMMA BoundarySighted ==
  ASSUME IInv, pc # "idle", pos < End, Arrived(N, call, cache, sid, pos), BoundaryCompletes
  PROVE  Sighted(N, call, pos)
  <1> DEFINE satisfied == Current.isFromWord # IsWordByte(NextByte)
             P == Walked(N, call)
             resolved == ResolveWordBoundaries(N, Current.nfaStates, satisfied)
  <1>1. /\ Asked(call) /\ Validate(N) /\ Patched(N) /\ NextByte = call.hay[pos + 1]
        /\ pos \in 0..Len(call.hay) /\ pos + 1 \in DOMAIN call.hay /\ call.hay \in Seq(Byte)
    BY RunningAsked DEF Asked
  <1>2. Current # NoState /\ HasWordBoundary(N) /\ Current \in State(N)
    BY Before DEF BoundaryCompletes
  <1>3. ComesTo(N, call, Current, pos)
    BY <1>2, CurrentComes
  <1>4. Followed(N, call.hay, P)
    BY <1>1, WalkedFollowed
  <1>5. /\ satisfied \in BOOLEAN
        /\ satisfied <=> WordAt(call.hay, pos) # WordAt(call.hay, pos + 1)
    <2>1. WordAt(call.hay, pos + 1) <=> IsWordByte(NextByte)
      BY <1>1 DEF WordAt
    <2>2. WordAt(call.hay, pos) \in BOOLEAN /\ WordAt(call.hay, pos + 1) \in BOOLEAN
          /\ IsWordByte(NextByte) \in BOOLEAN /\ Current.isFromWord \in BOOLEAN
      BY <1>2, StateFields DEF WordAt, IsWordByte
    <2>3. Current.isFromWord <=> WordAt(call.hay, pos)
      BY <1>2, <1>3 DEF ComesTo
    <2> QED BY <2>1, <2>2, <2>3
  <1>6. Current.nfaStates \in Seq(NfaIDs(N)) /\ ToSet(Current.nfaStates) \subseteq Here(N, P, pos)
    BY <1>2, <1>3, StateFields DEF ComesTo, Lists
  <1>7. ContainsMatchState(N, resolved)
    <2>1. CASE satisfied
      BY <1>2, <1>5, <2>1, StateFields DEF BoundaryCompletes, FlagsHold
    <2>2. CASE ~satisfied
      BY <1>2, <1>5, <2>2, StateFields DEF BoundaryCompletes, FlagsHold
    <2> QED BY <2>1, <2>2
  <1> HIDE DEF P, satisfied
  <1>8. ToSet(resolved) \subseteq Here(N, P, pos)
    BY <1>1, <1>4, <1>5, <1>6, ResolveHere
  <1> HIDE DEF resolved
  <1> QED BY <1>7, <1>8, MatchHere DEF Sighted, P

(* So does the end of the input.                                           *)
LEMMA EndSighted ==
  ASSUME IInv, pc # "idle", pos = End, Arrived(N, call, cache, sid, pos), Current # NoState,
         CheckEOIMatch(N, Current.nfaStates, Current.isFromWord)
  PROVE  Sighted(N, call, End)
  <1> DEFINE P == Walked(N, call)
  <1>1. /\ Asked(call) /\ Validate(N) /\ Patched(N) /\ pos = Len(call.hay) /\ call.hay \in Seq(Byte)
    BY RunningAsked DEF Asked
  <1>2. ComesTo(N, call, Current, pos) /\ Current \in State(N)
    BY CurrentComes, Before
  <1>3. Followed(N, call.hay, P)
    BY <1>1, WalkedFollowed
  <1>4. /\ Current.nfaStates \in Seq(NfaIDs(N)) /\ ToSet(Current.nfaStates) \subseteq Here(N, P, pos)
        /\ Current.isFromWord \in BOOLEAN
        /\ HasWordBoundary(N) => (Current.isFromWord <=> WordAt(call.hay, Len(call.hay)))
    BY <1>1, <1>2, StateFields DEF ComesTo, Lists
  <1> HIDE DEF P
  <1>5. \E id \in Here(N, P, Len(call.hay)) : IsMatchID(N, id)
    BY <1>1, <1>3, <1>4, EndOfInputHere
  <1> QED BY <1>1, <1>5 DEF Sighted, P

-----------------------------------------------------------------------------
(* What every state of a search keeps to until the cache is cleared: it    *)
(* stands where its paths are, and has seen, and answers, no match that    *)
(* none of them ends.  IsMatchAt only says that there is one.              *)
Seen(end) == IF At("IsMatchAt") THEN \E i \in Nat : Sighted(N, call, i) ELSE Sighted(N, call, end)
OnPath == /\ Arrived(N, call, cache, sid, pos) /\ call.at <= pos
          /\ lastMatch >= 0 => Sighted(N, call, lastMatch)
Truthful ==
  cache.clearCount = 0 =>
    /\ pc # "cleared"
    /\ pc # "idle" => OnPath
    /\ Answered({"dfa"}) /\ answer.end >= 0 => Seen(answer.end)

(* A match on a path to any position is enough for IsMatch, and for the    *)
(* others where it ends.                                                   *)
LEMMA SightedIsSeen ==
  ASSUME NEW i \in Nat, Sighted(N, call, i)
  PROVE  Seen(i)
  BY DEF Seen

(* To return, to hand over and to go on keep the invariant when what is    *)
(* returned was seen, in any case, and when the state gone on from has     *)
(* come along paths.                                                       *)
LEMMA ReturnTruthful ==
  ASSUME dfa' = dfa, NEW end \in Int, end >= 0 => Seen(end), Return(end, "dfa")
  PROVE  Truthful'
  <1>1. /\ answer' = [end |-> IF At("IsMatchAt") /\ end >= 0 THEN 0 ELSE end, by |-> "dfa"]
        /\ pc' = "idle" /\ call' = call /\ N' = N /\ (At("IsMatchAt"))' = At("IsMatchAt")
    BY DEF Return, N, At
  <1>2. answer'.end >= 0 => end >= 0 /\ (~At("IsMatchAt") => answer'.end = end)
    BY <1>1
  <1>3. answer'.end >= 0 => Seen(answer.end)'
    BY <1>1, <1>2 DEF Seen
  <1> QED BY <1>1, <1>3 DEF Truthful

LEMMA FallbackTruthful ==
  ASSUME Fallback
  PROVE  Truthful'
  BY DEF Fallback, Return, Truthful, Answered

LEMMA StayTruthful ==
  ASSUME dfa' = dfa, call' = call, pc' \in {"loop", "slow", "step"},
         cache'.clearCount = 0 =>
           /\ Arrived(N, call, cache', sid', pos') /\ call.at <= pos'
           /\ lastMatch' >= 0 => Sighted(N, call, lastMatch')
  PROVE  Truthful'
  BY DEF Truthful, OnPath, Answered, N

(* To enter a state that has come along paths records the match it stands  *)
(* for.                                                                    *)
LEMMA EnterTruthful ==
  ASSUME IInv, pc # "idle", dfa' = dfa, NEW id, Enter(id), call.at <= pos,
         lastMatch >= 0 => Sighted(N, call, lastMatch),
         Arrived(N, call, cache', id, pos + 1), "match" \in id.tag => Sighted(N, call, pos)
  PROVE  Truthful'
  <1>1. pos \in Nat /\ call.at \in Int
    BY Before, RunningAsked DEF Asked
  <1>2. CASE "match" \in id.tag /\ Return(pos, "dfa")
    BY <1>1, <1>2, ReturnTruthful, SightedIsSeen
  <1>3. CASE /\ sid' = id /\ lastMatch' = IF "match" \in id.tag THEN pos ELSE lastMatch
             /\ pos' = pos + 1 /\ pc' = "loop" /\ call' = call
    <2>1. call.at <= pos + 1 /\ (lastMatch' >= 0 => Sighted(N, call, lastMatch'))
      BY <1>1, <1>3
    <2> QED BY <1>3, <2>1, StayTruthful
  <1> QED BY <1>2, <1>3 DEF Enter

(* A search that starts again, further on, starts on paths.                *)
LEMMA RestartTruthful ==
  ASSUME IInv, pc # "idle", dfa' = dfa, NEW c, Sound(N, config, c), NEW i \in Starts(call),
         call.at <= i, lastMatch >= 0 => Sighted(N, call, lastMatch), RestartAt(c, i)
  PROVE  Truthful'
  <1> DEFINE r == StartAt(c, call.hay, i, call.op = "SearchAtAnchored")
  <1>1. Asked(call) /\ Built
    BY RunningAsked
  <1>2. Arrived(N, call, r.cache, r.id, i)
    BY <1>1, StartArrives
  <1>3. /\ cache' = r.cache /\ sid' = r.id /\ pos' = i /\ pc' = "loop"
        /\ call' = call /\ lastMatch' = lastMatch
    BY DEF RestartAt, Resume, At, W
  <1> HIDE DEF r
  <1> QED BY <1>2, <1>3, StayTruthful

(* A prefilter's candidate is where a search that is not anchored may      *)
(* start.                                                                  *)
LEMMA CandidateStarts ==
  ASSUME IInv, pc # "idle", UsesPrefilter, NEW i \in Nat, call.at <= i, Candidate(W, i) >= 0
  PROVE  Candidate(W, i) \in Starts(call) /\ call.at <= Candidate(W, i)
  <1>1. Asked(call) /\ End = Len(W) /\ call.hay = W
    BY RunningAsked
  <1>2. Candidate(W, i) = -1 \/ Candidate(W, i) \in i..Len(W)
    BY <1>1, CandidateFacts DEF Asked
  <1>3. ~(-1 >= 0)
    OBVIOUS
  <1>4. Candidate(W, i) \in i..Len(W)
    BY <1>2, <1>3
  <1>5. call.op # "SearchAtAnchored"
    BY DEF UsesPrefilter, At
  <1> QED BY <1>1, <1>4, <1>5 DEF Starts, Asked

(* So does one that looks for the next candidate when no thread is left.   *)
LEMMA DieTruthful ==
  ASSUME IInv, pc # "idle", pos < End, dfa' = dfa, NEW c, Sound(N, config, c), call.at <= pos,
         lastMatch >= 0 => Sighted(N, call, lastMatch), Die(c)
  PROVE  Truthful'
  <1>1. pos \in Nat /\ call.at \in Int /\ lastMatch \in Int
    BY Before, RunningAsked DEF Asked
  <1>2. CASE UsesPrefilter /\ Candidate(W, pos + 1) >= 0 /\ RestartAt(c, Candidate(W, pos + 1))
    <2>1. pos + 1 \in Nat /\ call.at <= pos + 1
      BY <1>1
    <2>2. Candidate(W, pos + 1) \in Starts(call) /\ call.at <= Candidate(W, pos + 1)
      BY <1>2, <2>1, CandidateStarts
    <2> QED BY <1>2, <2>2, RestartTruthful
  <1>3. CASE Return(lastMatch, "dfa")
    <2>1. lastMatch >= 0 => Seen(lastMatch)
      BY <1>1, SightedIsSeen
    <2> QED BY <1>1, <1>3, <2>1, ReturnTruthful
  <1> QED BY <1>2, <1>3 DEF Die

-----------------------------------------------------------------------------
(* The steps of a search, while the cache has not been cleared.            *)
Going == IInv /\ Rows(cache) /\ cache.clearCount = 0 /\ pc \notin {"idle", "cleared"} /\ OnPath

(* The bytes ahead are among those searched for.                           *)
LEMMA SearchedAt ==
  ASSUME IInv, pc # "idle", NEW i \in 0..(End - 1)
  PROVE  call.hay[i + 1] \in SearchedBytes /\ i \in 0..(Len(call.hay) - 1)
  <1>1. W \in Haystack(dfa.pattern) /\ W \in Seq(Byte) /\ call.hay = W /\ Len(W) \in Nat
    BY RunningAsked DEF IInv, CallOK, Haystack, W
  <1>2. i + 1 \in 1..Len(W) /\ End = Len(W)
    BY <1>1 DEF End
  <1>3. W[i + 1] \in ToSet(W)
    BY <1>1, <1>2 DEF ToSet
  <1> QED BY <1>1, <1>2, <1>3 DEF SearchedBytes, BytesOf

(* An entry of the table at any position ahead of the search.              *)
LEMMA StepArrives ==
  ASSUME Going, NEW id \in AnyID, NEW i \in 0..(End - 1), Arrived(N, call, cache, id, i),
         Transition(cache, id, W[i + 1]) \notin {InvalidState, DeadState}
  PROVE  LET t == Transition(cache, id, W[i + 1])
         IN  /\ Arrived(N, call, cache, t, i + 1) /\ t.tag \in SUBSET {"match", "start"}
             /\ "match" \in t.tag => Sighted(N, call, i)
  <1>1. /\ Asked(call) /\ call.hay = W /\ call.hay[i + 1] \in SearchedBytes
        /\ i \in 0..(Len(call.hay) - 1) /\ Built
    BY RunningAsked, SearchedAt DEF Going
  <1>2. SearchedBytes \in SUBSET Byte /\ Sound(N, config, cache)
    BY SearchedFacts DEF Going, IInv, CacheOK
  <1>3. RowsOK(N, config, SearchedBytes, cache) /\ cache.clearCount = 0
    BY DEF Going, Rows
  <1> QED BY <1>1, <1>2, <1>3, TransitionArrives

(* The unrolled loop follows up to four entries and stays on paths.        *)
LEMMA FastPathTruthful ==
  ASSUME Going, FastPath
  PROVE  Truthful'
  <1> DEFINE length == FastRun.length
             L == Len(cache.flatTrans)
  <1>1. pos + 3 < End /\ Ran(FastRun) /\ UNCHANGED <<dfa, cache>> /\ IInv /\ pc = "loop"
    BY DEF FastPath, OnFastPath, Going
  <1>2. PICK run : RunsFast(run)
    BY <1>1, FastRunFacts
  <1>3. /\ run \in [0..4 -> IDs(L)] /\ run[0] = sid
        /\ \A k \in 1..4 : run[k] = Transition(cache, run[k - 1], W[pos + k])
        /\ length \in 0..4 /\ \A k \in 1..length : ~Tagged(run[k])
        /\ FastRun.id = run[length]
        /\ FastRun.next = IF length = 4 THEN InvalidState ELSE run[length + 1]
    BY <1>2 DEF RunsFast
  <1>4. L \in Nat /\ pos \in Nat /\ End \in Nat /\ call.at \in Nat
    BY <1>1, Before, RunningAsked DEF Going, Asked
  <1> HIDE DEF length, L
  <1>5. \A k \in 0..4 : run[k] \in AnyID
    BY <1>3, <1>4, WiderIDs
  <1>6. ASSUME NEW k \in 0..3
        PROVE  run[k + 1] = Transition(cache, run[k], W[(pos + k) + 1]) /\ pos + k \in 0..(End - 1)
    <2>1. k + 1 \in 1..4 /\ (k + 1) - 1 = k /\ pos + (k + 1) = (pos + k) + 1
      BY <1>4
    <2>2. run[k + 1] = Transition(cache, run[(k + 1) - 1], W[pos + (k + 1)])
      BY <1>3, <2>1
    <2> QED BY <1>1, <1>4, <2>1, <2>2
  <1>7. ASSUME NEW k \in 0..3, Arrived(N, call, cache, run[k], pos + k),
               run[k + 1] \notin {InvalidState, DeadState}
        PROVE  /\ Arrived(N, call, cache, run[k + 1], pos + (k + 1))
               /\ "match" \in run[k + 1].tag => Sighted(N, call, pos + k)
    <2>1. k \in 0..4 /\ pos + (k + 1) = (pos + k) + 1
      BY <1>4
    <2> QED BY <1>5, <1>6, <1>7, <2>1, StepArrives
  <1>8. 0..length \subseteq {k \in 0..length : Arrived(N, call, cache, run[k], pos + k)}
    <2> DEFINE A == {k \in 0..length : Arrived(N, call, cache, run[k], pos + k)}
    <2>1. 0 \in A
      BY <1>3, <1>4 DEF Going, OnPath
    <2>2. ASSUME NEW k \in 0..(length - 1), k \in A PROVE k + 1 \in A
      <3>1. k \in 0..3 /\ k + 1 \in 1..length /\ k + 1 \in 0..length
        BY <1>3
      <3>2. run[k + 1] \notin {InvalidState, DeadState}
        BY <1>3, <3>1 DEF Tagged, InvalidState, DeadState, ID
      <3> QED BY <1>7, <2>2, <3>1, <3>2
    <2> HIDE DEF A
    <2>3. 0..length \subseteq A
      BY <1>3, <2>1, <2>2, IntervalInduction
    <2> QED BY <2>3 DEF A
  <1>9. Arrived(N, call, cache, run[length], pos + length)
    BY <1>3, <1>8
  <1>10. CASE At("IsMatchAt") /\ "match" \in FastRun.next.tag /\ Return(0, "dfa")
    <2>1. length # 4
      BY <1>3, <1>10 DEF InvalidState, ID
    <2>2. length \in 0..3 /\ FastRun.next = run[length + 1]
      BY <1>3, <2>1
    <2>3. run[length + 1] \notin {InvalidState, DeadState}
      BY <1>10, <2>2 DEF InvalidState, DeadState, ID
    <2>4. Sighted(N, call, pos + length) /\ pos + length \in Nat
      BY <1>4, <1>7, <1>9, <1>10, <2>2, <2>3
    <2>5. Seen(0)
      BY <1>10, <2>4 DEF Seen
    <2> QED BY <1>1, <1>10, <2>5, ReturnTruthful
  <1>11. CASE /\ pos' = pos + length /\ sid' = run[length] /\ pc' \in {"loop", "slow"}
              /\ UNCHANGED <<call, lastMatch>>
    <2>1. call.at <= pos + length
      BY <1>3, <1>4 DEF Going, OnPath
    <2>2. Arrived(N, call, cache', sid', pos') /\ call.at <= pos'
      BY <1>1, <1>9, <1>11, <2>1
    <2>3. lastMatch' >= 0 => Sighted(N, call, lastMatch')
      BY <1>11 DEF Going, OnPath
    <2> QED BY <1>1, <1>11, <2>2, <2>3, StayTruthful
  <1> QED BY <1>1, <1>3, <1>10, <1>11 DEF Ran, length

(* So do the shortcuts of start states: they go to a candidate or follow   *)
(* an entry.                                                               *)
LEMMA SkipAheadTruthful ==
  ASSUME Going, SkipAhead
  PROVE  Truthful'
  <1>1. IInv /\ dfa' = dfa /\ UsesPrefilter /\ pos > call.at
    BY DEF SkipAhead, Going, MaySkip
  <1>2. Sound(N, config, cache) /\ pos \in Nat /\ call.at \in Nat
    BY Before, RunningAsked DEF Going, Asked
  <1>3. CASE Return(-1, "dfa")
    BY <1>1, <1>3, ReturnTruthful
  <1>4. CASE ~(Candidate(W, pos) < 0) /\ RestartAt(cache, Candidate(W, pos))
    <2>1. Candidate(W, pos) >= 0
      <3>1. Candidate(W, pos) = -1 \/ Candidate(W, pos) \in pos..Len(W)
        BY <1>2, RunningAsked, CandidateFacts DEF Going, Asked
      <3> QED BY <1>2, <1>4, <3>1
    <2>2. Candidate(W, pos) \in Starts(call) /\ call.at <= Candidate(W, pos)
      BY <1>1, <1>2, <2>1, CandidateStarts DEF Going
    <2> QED BY <1>1, <1>2, <1>4, <2>2, RestartTruthful DEF Going, OnPath
  <1> QED BY <1>3, <1>4 DEF SkipAhead

(* A transition that is taken.                                             *)
LEMMA TakenTruthful ==
  ASSUME Going, pos < End, UNCHANGED <<dfa, cache>>, Known(Transition(cache, sid, NextByte)),
         Enter(Transition(cache, sid, NextByte))
  PROVE  Truthful'
  <1> DEFINE t == Transition(cache, sid, NextByte)
  <1>1. /\ pos \in 0..(End - 1) /\ sid \in AnyID /\ NextByte = W[pos + 1]
    BY Before DEF Going, NextByte
  <1>2. t = Transition(cache, sid, W[pos + 1]) /\ t \notin {InvalidState, DeadState}
    BY <1>1 DEF Known
  <1>3. Arrived(N, call, cache, t, pos + 1) /\ ("match" \in t.tag => Sighted(N, call, pos))
    BY <1>1, <1>2, StepArrives DEF Going, OnPath
  <1> HIDE DEF t
  <1> QED BY <1>3, EnterTruthful DEF Going, OnPath, t

(* Skipping to an exit byte: every byte that is skipped leads from the     *)
(* state to itself, so the paths have come along.                          *)
LEMMA SkippedComes ==
  ASSUME Going, Built, NEW s \in State(N), NEW m \in pos..End, ComesTo(N, call, s, pos),
         \A i \in pos..(m - 1) :
           LET next == NextState(s, W[i + 1])
           IN  /\ ToSet(next.nfaStates) = ToSet(s.nfaStates)
               /\ HasWordBoundary(N) => next.isFromWord = s.isFromWord
  PROVE  ComesTo(N, call, s, m)
  <1> DEFINE A == {i \in pos..m : ComesTo(N, call, s, i)}
  <1>1. pos \in Nat /\ m \in Nat /\ End \in Nat /\ pos <= m /\ m <= End
    BY Before DEF Going
  <1>2. pos \in A
    BY <1>1
  <1>3. ASSUME NEW i \in pos..(m - 1), i \in A PROVE i + 1 \in A
    <2> DEFINE next == Target(N, config, s, call.hay[i + 1])
    <2>1. i \in 0..(End - 1) /\ i + 1 \in pos..m
      BY <1>1
    <2>2. Asked(call) /\ i \in 0..(Len(call.hay) - 1) /\ Validate(N) /\ Patched(N) /\ call.hay = W
      BY <2>1, SearchedAt, RunningAsked DEF Going
    <2>3. ComesTo(N, call, next, i + 1)
      BY <1>3, <2>2, TargetComes
    <2>4. /\ ToSet(next.nfaStates) = ToSet(s.nfaStates)
          /\ HasWordBoundary(N) => next.isFromWord = s.isFromWord
      BY <2>2 DEF NextState, Target
    <2> HIDE DEF next
    <2>5. ComesTo(N, call, s, i + 1)
      BY <2>3, <2>4 DEF ComesTo
    <2> QED BY <2>1, <2>5
  <1> HIDE DEF A
  <1>4. pos..m \subseteq A
    BY <1>1, <1>2, <1>3, IntervalInduction
  <1>5. m \in A
    BY <1>1, <1>4
  <1> QED BY <1>5 DEF A

(* The exit-byte scan: its bytes lead the state to itself, so it is on     *)
(* paths at every position skipped.                                        *)
LEMMA AccelerateTruthful ==
  ASSUME Going, Accelerate, ExitBytesLoop'
  PROVE  Truthful'
  <1> DEFINE state == TryDetectAcceleration(cache, Current)
             k == sid.row + 1
             c == Register(cache, state)
  <1>1. Current # NoState /\ cache' = c /\ dfa' = dfa /\ call' = call /\ SkipToExit(state)
        /\ pos < End /\ pc # "idle"
    BY SlowPathPlace DEF Accelerate, SkipToExit, Return, Going
  <1>2. /\ Built /\ Sound(N, config, cache) /\ Proper(Current, sid.row)
        /\ k \in 1..Len(cache.stateList) /\ cache.stateList[k] = Current /\ Current \in State(N)
    BY <1>1, Before DEF Going
  <1>3. /\ state \in State(N) /\ state.id = Current.id /\ state.nfaStates = Current.nfaStates
        /\ state.isMatch = Current.isMatch /\ state.isFromWord = Current.isFromWord
    BY <1>2, AccelerationFacts
  <1>4. ComesTo(N, call, Current, pos) /\ Arrived(N, call, cache, sid, pos)
    BY <1>1, CurrentComes DEF Going, OnPath
  <1> HIDE DEF state, c
  <1>5. Replaces(cache, k, state, c)
    BY <1>1, <1>2, <1>3, ReplaceSound DEF c, k
  <1>6. sid.tag \in SUBSET {"match", "start"}
    <2>1. sid # InvalidState
      BY <1>1 DEF Current, GetState, InvalidState, ID
    <2> QED BY <1>4, <2>1 DEF Arrived
  <1>7. ASSUME NEW i, ComesTo(N, call, state, i) PROVE Arrived(N, call, c, sid, i)
    <2>1. k \in 1..Len(c.stateList) /\ c.stateList[k] = state /\ state # NoState
      BY <1>2, <1>5 DEF Replaces
    <2> QED BY <1>6, <1>7, <2>1 DEF Arrived
  <1>8. ComesTo(N, call, state, pos)
    BY <1>3, <1>4 DEF ComesTo
  <1>9. call.at <= pos /\ call.at \in Nat /\ pos \in Nat /\ End \in Nat /\ lastMatch \in Int
        /\ (lastMatch >= 0 => Sighted(N, call, lastMatch))
    BY Before, RunningAsked DEF Going, OnPath, Asked
  <1>10. CASE pc' = "step" /\ UNCHANGED <<call, pos, sid, lastMatch, answer>>
    BY <1>1, <1>7, <1>8, <1>9, <1>10, StayTruthful
  <1>11. CASE Return(lastMatch, "dfa")
    <2>1. lastMatch >= 0 => Seen(lastMatch)
      BY <1>9, SightedIsSeen
    <2> QED BY <1>1, <1>9, <1>11, <2>1, ReturnTruthful
  <1>12. CASE /\ ExitAhead(state.accelBytes) # {}
              /\ pos' = Minimum(ExitAhead(state.accelBytes)) /\ pc' = "step"
              /\ UNCHANGED <<call, sid, lastMatch, answer>>
    <2> DEFINE ahead == ExitAhead(state.accelBytes)
               m == Minimum(ahead)
    <2>1. ahead \in SUBSET Nat /\ ahead \subseteq pos..(End - 1)
      BY <1>9 DEF ExitAhead
    <2>2. m \in ahead /\ \A j \in ahead : m <= j
      BY <1>12, <2>1, FirstPosition
    <2>3. m \in pos..End /\ m \in Nat
      BY <1>9, <2>1, <2>2
    <2>4. ASSUME NEW i \in pos..(m - 1)
          PROVE  /\ ToSet(NextState(state, W[i + 1]).nfaStates) = ToSet(state.nfaStates)
                 /\ HasWordBoundary(N) => NextState(state, W[i + 1]).isFromWord = state.isFromWord
      <3>1. i \in pos..(End - 1) /\ i \in 0..(End - 1) /\ ~(m <= i)
        BY <1>9, <2>3
      <3>2. W[i + 1] \notin state.accelBytes /\ state.accelBytes # {}
        BY <2>2, <3>1 DEF ExitAhead
      <3>3. W[i + 1] \in SearchedBytes
        BY <3>1, SearchedAt, RunningAsked DEF Going
      <3>4. k \in DOMAIN c.stateList /\ c.stateList[k] = state /\ state # NoState
        <4>1. c.stateList \in Seq(State(N)) /\ Len(c.stateList) = Len(cache.stateList)
          <5>1. Sound(N, config, c)
            BY <1>1, <1>2, <1>3, ReplaceSound DEF c, k
          <5> QED BY <1>5, <5>1 DEF Replaces, Sound, Typed
        <4> QED BY <1>2, <1>5, <4>1 DEF Replaces
      <3> HIDE DEF k
      <3>5. SearchedBytes' = SearchedBytes /\ N' = N /\ config' = config
        BY <1>1 DEF SearchedBytes, N, config
      <3> QED BY <1>1, <1>12, <3>2, <3>3, <3>4, <3>5 DEF ExitBytesLoop, Filed, NextState
    <2> HIDE DEF m
    <2>5. ComesTo(N, call, state, m)
      BY <1>2, <1>3, <1>8, <2>3, <2>4, SkippedComes
    <2>6. Arrived(N, call, c, sid, m) /\ call.at <= m
      BY <1>7, <1>9, <2>3, <2>5
    <2>7. pos' = m /\ sid' = sid /\ lastMatch' = lastMatch
      BY <1>12 DEF m
    <2> QED BY <1>1, <1>9, <1>12, <2>6, <2>7, StayTruthful
  <1> QED BY <1>1, <1>10, <1>11, <1>12 DEF SkipToExit

(* A state that is computed has come along paths, as the subset            *)
(* construction follows them.                                              *)
LEMMA DeterminizeStepTruthful ==
  ASSUME Going, Separated(N, SearchedBytes), DeterminizeStep
  PROVE  Truthful'
  <1> DEFINE o == DeterminizeInto(cache, Current, NextByte)
             next == NextState(Current, NextByte)
             k == sid.row + 1
  <1>1. pc # "idle" /\ pos < End /\ Current # NoState /\ Proceed(o) /\ dfa' = dfa /\ IInv
    BY SlowPathPlace DEF DeterminizeStep, ReadyToStep, Going
  <1>2. /\ Built /\ Sound(N, config, cache) /\ NextByte \in Byte /\ Current \in State(N)
        /\ k \in 1..Len(cache.stateList) /\ cache.stateList[k] = Current
    BY <1>1, Before
  <1>3. /\ Asked(call) /\ Validate(N) /\ Patched(N) /\ pos \in 0..(Len(call.hay) - 1)
        /\ NextByte = call.hay[pos + 1] /\ NextByte \in SearchedBytes /\ SearchedBytes \in SUBSET Byte
    BY <1>1, RunningAsked
  <1> HIDE DEF k
  <1>4. Sound(N, config, o.cache) /\ Determines(cache, next, o)
    <2>1. o = DeterminizeInto(cache, cache.stateList[k], NextByte)
          /\ next = NextState(cache.stateList[k], NextByte)
      BY <1>2
    <2> HIDE DEF o, next
    <2>2. Leaves(cache, o.cache, o.id)
      BY <1>1, <1>2, <2>1, DeterminizeSound
    <2>3. Determines(cache, next, o)
      BY <1>1, <1>2, <1>3, <2>1, DeterminizeRows DEF Rows, Going
    <2> QED BY <2>2, <2>3 DEF Leaves
  <1>5. ComesTo(N, call, Current, pos) /\ call.at <= pos
        /\ (lastMatch >= 0 => Sighted(N, call, lastMatch))
    BY <1>1, CurrentComes DEF Going, OnPath
  <1>6. next = Target(N, config, Current, call.hay[pos + 1])
    BY <1>3 DEF NextState, Target
  <1> HIDE DEF o, next
  <1>7. CASE o.kind = "next" /\ Enter(o.id) /\ cache' = o.cache
    <2>1. LeadsTo(N, o.cache, Target(N, config, Current, call.hay[pos + 1]), o.id) /\ o.id # DeadState
      BY <1>4, <1>6, <1>7 DEF Determines
    <2>2. Arrived(N, call, o.cache, o.id, pos + 1) /\ ("match" \in o.id.tag => Sighted(N, call, pos))
      BY <1>2, <1>3, <1>5, <2>1, LeadsArrives
    <2> QED BY <1>1, <1>5, <1>7, <2>2, EnterTruthful
  <1>8. CASE Die(o.cache)
    BY <1>1, <1>4, <1>5, <1>8, DieTruthful
  <1>9. CASE o.kind = "cleared" /\ cache' = o.cache
    BY <1>4, <1>9 DEF Determines, Truthful
  <1>10. CASE Fallback
    BY <1>10, FallbackTruthful
  <1> QED BY <1>1, <1>7, <1>8, <1>9, <1>10 DEF Proceed, Cleared

(* Every step of a search.                                                 *)
LEMMA SearchStepTruthful ==
  ASSUME Going, Separated(N, SearchedBytes), ExitBytesLoop', SearchStep
  PROVE  Truthful'
  <1>1. IInv /\ pc # "idle" /\ pc # "cleared" /\ OnPath
    BY DEF Going
  <1>2. pos \in Nat /\ End \in Nat /\ lastMatch \in Int
    BY <1>1, Before
  <1>3. lastMatch >= 0 => Seen(lastMatch)
    BY <1>1, <1>2, SightedIsSeen DEF OnPath
  <1>4. CASE FastPath
    BY <1>4, FastPathTruthful
  <1>5. CASE SkipAhead
    BY <1>5, SkipAheadTruthful
  <1>6. CASE LeaveStart
    BY <1>6, TakenTruthful, SlowPathPlace DEF LeaveStart, MayLeaveStart, Going
  <1>7. CASE Accelerate
    BY <1>7, AccelerateTruthful
  <1>8. CASE Lost
    BY <1>8, FallbackTruthful DEF Lost
  <1>9. CASE MatchAtBoundary
    <2>1. pos < End /\ BoundaryCompletes /\ Return(pos, "dfa") /\ dfa' = dfa
      BY <1>1, <1>9, SlowPathPlace DEF MatchAtBoundary, ReadyToStep
    <2>2. Seen(pos)
      BY <1>1, <1>2, <2>1, BoundarySighted, SightedIsSeen DEF OnPath
    <2> QED BY <1>2, <2>1, <2>2, ReturnTruthful
  <1>10. CASE Follow
    BY <1>10, TakenTruthful, SlowPathPlace DEF Follow, ReadyToStep, Going
  <1>11. CASE DieKnown
    <2>1. pos < End /\ Die(cache) /\ dfa' = dfa
      BY <1>1, <1>11, SlowPathPlace DEF DieKnown, ReadyToStep
    <2> QED BY <1>1, <2>1, Before, DieTruthful DEF OnPath
  <1>12. CASE DeterminizeStep
    BY <1>12, DeterminizeStepTruthful
  <1>13. CASE RestartAfterClear
    BY <1>1, <1>13 DEF RestartAfterClear
  <1>14. CASE EndOfInput
    <2> DEFINE found == Current # NoState /\ CheckEOIMatch(N, Current.nfaStates, Current.isFromWord)
    <2>1. pos = End /\ dfa' = dfa /\ Return(IF found THEN End ELSE lastMatch, "dfa")
      BY <1>14 DEF EndOfInput
    <2>2. found => Seen(End)
      BY <1>1, <1>2, <2>1, EndSighted, SightedIsSeen DEF OnPath
    <2> HIDE DEF found
    <2>3. CASE found
      BY <1>2, <2>1, <2>2, <2>3, ReturnTruthful
    <2>4. CASE ~found
      BY <1>2, <1>3, <2>1, <2>4, ReturnTruthful
    <2> QED BY <2>3, <2>4
  <1> QED BY <1>4, <1>5, <1>6, <1>7, <1>8, <1>9, <1>10, <1>11, <1>12, <1>13, <1>14 DEF SearchStep

-----------------------------------------------------------------------------
(* A clear is never undone, so nothing is asked of what comes after it.    *)
LEMMA RestartCounts ==
  ASSUME IInv, pc # "idle", NEW c, Sound(N, config, c), NEW i \in 0..End, RestartAt(c, i)
  PROVE  cache'.clearCount = c.clearCount
  <1> DEFINE kind == IF i = 0 THEN "Text" ELSE StartKindOf(W[i])
  <1>1. kind \in StartKind /\ At("SearchAtAnchored") \in BOOLEAN
    BY DEF StartKind, StartKindOf, At
  <1>2. cache' = GetStartState(c, kind, At("SearchAtAnchored")).cache
    BY DEF RestartAt, Resume, StartAt
  <1> HIDE DEF kind
  <1>3. Built
    BY RunningAsked
  <1> QED BY <1>1, <1>2, <1>3, GetStartStateSound DEF Grown

(* A start state is stored without counting a clear.                       *)
LEMMA DieCounts ==
  ASSUME IInv, pc # "idle", pos < End, NEW c, Sound(N, config, c), Die(c)
  PROVE  cache'.clearCount = c.clearCount
  <1>1. End \in Nat /\ pos \in 0..End
    BY Before
  <1>2. CASE RestartAt(c, Candidate(W, pos + 1)) /\ Candidate(W, pos + 1) >= 0
    <2>1. Candidate(W, pos + 1) \in 0..End
      <3>1. pos + 1 \in Nat
        BY <1>1
      <3> QED BY <1>1, <1>2, <3>1, CandidateFacts DEF End
    <2> QED BY <1>2, <2>1, RestartCounts
  <1>3. CASE cache' = c
    BY <1>3
  <1> QED BY <1>2, <1>3 DEF Die

(* Once the cache is cleared its count stays above zero or the search is   *)
(* handed over.                                                            *)
LEMMA AfterClear ==
  ASSUME IInv, Separated(N, SearchedBytes), Rows(cache), SearchStep, cache.clearCount # 0
  PROVE  cache'.clearCount # 0 \/ Fallback
  <1>1. pc # "idle"
    BY SearchStepRuns
  <1>2. Sound(N, config, cache) /\ End \in Nat /\ pos \in 0..End /\ Built
    BY <1>1, Before
  <1>3. CASE cache' = cache
    BY <1>3
  <1>4. CASE SkipAhead
    <2>1. CASE ~(Candidate(W, pos) < 0) /\ RestartAt(cache, Candidate(W, pos))
      <3>1. Candidate(W, pos) = -1 \/ Candidate(W, pos) \in pos..End
        BY <1>2, CandidateFacts DEF End
      <3>2. Candidate(W, pos) \in 0..End
        BY <1>2, <2>1, <3>1
      <3> QED BY <1>1, <1>2, <2>1, <3>2, RestartCounts
    <2> QED BY <1>4, <2>1 DEF SkipAhead
  <1>5. CASE Accelerate
    <2> DEFINE state == TryDetectAcceleration(cache, Current)
               k == sid.row + 1
    <2>1. Current # NoState /\ cache' = Register(cache, state)
      BY <1>5 DEF Accelerate, SkipToExit
    <2>2. Current \in State(N) /\ k \in 1..Len(cache.stateList) /\ cache.stateList[k] = Current
      BY <1>1, <2>1, Before
    <2>3. /\ state \in State(N) /\ state.id = Current.id /\ state.nfaStates = Current.nfaStates
          /\ state.isMatch = Current.isMatch /\ state.isFromWord = Current.isFromWord
      BY <1>2, <2>2, AccelerationFacts
    <2> HIDE DEF state, k
    <2>4. Replaces(cache, k, state, cache')
      BY <1>2, <2>1, <2>2, <2>3, ReplaceSound
    <2> QED BY <2>4 DEF Replaces
  <1>6. CASE DieKnown
    BY <1>1, <1>2, <1>6, SlowPathPlace, DieCounts DEF DieKnown, ReadyToStep
  <1>7. CASE DeterminizeStep
    <2> DEFINE o == DeterminizeInto(cache, Current, NextByte)
               k == sid.row + 1
    <2>1. pos < End /\ Current # NoState /\ Proceed(o)
      BY <1>1, <1>7, SlowPathPlace DEF DeterminizeStep, ReadyToStep
    <2>2. k \in 1..Len(cache.stateList) /\ cache.stateList[k] = Current
      BY <1>1, <2>1, Before
    <2>3. NextByte \in SearchedBytes /\ SearchedBytes \in SUBSET Byte
      BY <1>1, <2>1, RunningAsked
    <2> HIDE DEF k
    <2>4. Sound(N, config, o.cache) /\ Determines(cache, NextState(Current, NextByte), o)
      <3>1. o = DeterminizeInto(cache, cache.stateList[k], NextByte)
            /\ NextState(Current, NextByte) = NextState(cache.stateList[k], NextByte)
        BY <2>2
      <3> HIDE DEF o
      <3>2. Leaves(cache, o.cache, o.id)
        BY <1>2, <2>1, <2>2, <2>3, <3>1, DeterminizeSound
      <3>3. Determines(cache, NextState(Current, NextByte), o)
        BY <1>2, <2>1, <2>2, <2>3, <3>1, DeterminizeRows DEF Rows
      <3> QED BY <3>2, <3>3 DEF Leaves
    <2> HIDE DEF o
    <2>5. CASE o.kind = "next" /\ cache' = o.cache
      BY <2>4, <2>5 DEF Determines
    <2>6. CASE o.kind = "dead" /\ Die(o.cache)
      BY <1>1, <2>1, <2>4, <2>6, DieCounts DEF Determines
    <2>7. CASE o.kind = "cleared" /\ cache' = o.cache
      BY <2>4, <2>7 DEF Determines
    <2> QED BY <2>1, <2>5, <2>6, <2>7 DEF Proceed, Cleared
  <1>8. CASE RestartAfterClear
    BY <1>1, <1>2, <1>8, RestartCounts DEF RestartAfterClear
  <1> QED BY <1>3, <1>4, <1>5, <1>6, <1>7, <1>8
          DEF SearchStep, FastPath, LeaveStart, Lost, MatchAtBoundary, Follow, EndOfInput

(* A new search begins on paths.                                           *)
LEMMA NewSearchTruthful ==
  ASSUME IInv, Truthful, NewSearch
  PROVE  Truthful'
  <1>1. PICK c \in Calls[dfa.pattern] :
          SearchAtEnd(c) \/ RefuseAnchored(c) \/ NoCandidate(c) \/ Search(c)
    BY DEF NewSearch
  <1>2. CASE Search(c)
    <2> DEFINE from == IF c.op = "FindAt" THEN Candidate(c.hay, c.at) ELSE c.at
               r == StartAt(cache, c.hay, from, c.op = "SearchAtAnchored")
    <2>1. /\ cache' = r.cache /\ sid' = r.id /\ pos' = from /\ pc' = "loop" /\ lastMatch' = -1
          /\ call' = c /\ dfa' = dfa /\ from >= 0
      BY <1>2 DEF Search, Begin, Request
    <2>2. Asked(c) /\ Built /\ Sound(N, config, cache)
      BY CallFacts, DfaIsBuilt DEF IInv, Asked, CacheOK
    <2>3. from \in Starts(c) /\ c.at <= from
      <3>1. Candidate(c.hay, c.at) = -1 \/ Candidate(c.hay, c.at) \in c.at..Len(c.hay)
        BY <2>2, CandidateFacts DEF Asked
      <3>2. CASE c.op = "FindAt"
        BY <2>1, <2>2, <3>1, <3>2 DEF Starts, Asked
      <3>3. CASE c.op # "FindAt"
        BY <2>2, <3>3 DEF Starts, Asked
      <3> QED BY <3>2, <3>3
    <2> HIDE DEF from
    <2>4. Arrived(N, c, r.cache, r.id, from)
      BY <2>2, <2>3, StartArrives
    <2> HIDE DEF r
    <2> QED BY <2>1, <2>3, <2>4 DEF Truthful, OnPath, Answered, N
  <1>3. CASE SearchAtEnd(c)
    BY <1>3 DEF SearchAtEnd, Request, Truthful, Answered
  <1>4. CASE RefuseAnchored(c) \/ NoCandidate(c)
    BY <1>4 DEF RefuseAnchored, NoCandidate, Request, Truthful, Answered
  <1> QED BY <1>1, <1>2, <1>3, <1>4

(* The invariant implies the property.                                     *)
LEMMA TruthfulFinds ==
  ASSUME IInv, Truthful
  PROVE  FindsMatches
  <1> SUFFICES ASSUME Answered({"dfa"}), cache.clearCount = 0, answer.end >= 0
               PROVE  \E i \in call.at..(IF At("SearchAtAnchored") THEN call.at ELSE End) :
                        \E e \in EndsFrom(i) : answer.end = e \/ At("IsMatchAt")
    BY DEF FindsMatches
  <1>1. /\ dfa.pattern \in Pattern /\ N = Automaton[dfa.pattern]
        /\ Validate(N) /\ Patched(N)
    BY DfaIsBuilt, BuiltFacts DEF IInv, Built
  <1>2. /\ Asked(call) /\ call.hay = W /\ End = Len(W)
        /\ W \in Haystack(dfa.pattern) \cup {<<>>}
    BY DEF IInv, CallOK, Asked, W, End, Haystack
  <1>3. Seen(answer.end)
    BY DEF Truthful
  <1>4. Starts(call) = call.at..(IF At("SearchAtAnchored") THEN call.at ELSE End)
    <2>1. call.at \in Nat /\ {call.at} = call.at..call.at
      BY <1>2 DEF Asked
    <2> QED BY <1>2, <2>1 DEF Starts, At
  <1>5. ASSUME NEW j \in Starts(call) PROVE EndsFrom(j) = MatchEnds(N, W, <<First(N, call), j>>)
    <2>1. j \in 0..Len(W) /\ At("SearchAtAnchored") \in BOOLEAN
      BY <1>1, <1>2, WalkedFollowed DEF At
    <2>2. First(N, call) = IF At("SearchAtAnchored") THEN N.startAnchored ELSE N.startUnanchored
      BY DEF First, At
    <2> QED BY <1>1, <1>2, <2>1, <2>2 DEF EndsFrom, PathEnds, EndsOf
  <1>6. CASE At("IsMatchAt")
    <2>1. PICK i \in Nat : Sighted(N, call, i)
      BY <1>3, <1>6 DEF Seen
    <2>2. PICK j \in Starts(call) : i \in MatchEnds(N, W, <<First(N, call), j>>)
      BY <1>1, <1>2, <2>1, SightedEnds
    <2>3. i \in EndsFrom(j)
      BY <1>5, <2>2
    <2> QED BY <1>4, <1>6, <2>2, <2>3
  <1>7. CASE ~At("IsMatchAt")
    <2>1. Sighted(N, call, answer.end)
      BY <1>3, <1>7 DEF Seen
    <2>2. PICK j \in Starts(call) : answer.end \in MatchEnds(N, W, <<First(N, call), j>>)
      BY <1>1, <1>2, <2>1, SightedEnds
    <2>3. answer.end \in EndsFrom(j)
      BY <1>5, <2>2
    <2> QED BY <1>4, <1>7, <2>2, <2>3
  <1> QED BY <1>6, <1>7

(* Every step keeps the table and the path of the search truthful, if the  *)
(* exit bytes it registers lead their states nowhere else.                 *)
LEMMA NextKeepsPath ==
  ASSUME \A p \in Pattern : Separated(Automaton[p], BytesOf(p)),
         IInv, Rows(cache), Truthful, ExitBytesLoop', [Next]_vars
  PROVE  Rows(cache)' /\ Truthful'
  <1>1. Separated(N, SearchedBytes)
    BY DfaIsBuilt DEF IInv, Built, SearchedBytes
  <1>2. CASE NewSearch
    <2>1. Rows(cache') /\ dfa' = dfa
      BY <1>2, NewSearchRows
         DEF NewSearch, SearchAtEnd, RefuseAnchored, NoCandidate, Search, Request
    <2> QED BY <1>2, <2>1, NewSearchTruthful DEF Rows, N, config, SearchedBytes
  <1>3. CASE SearchStep
    <2>1. pc # "idle" /\ dfa' = dfa
      BY <1>3, SearchStepRuns, StepEnds
    <2>2. Rows(cache)'
      BY <1>1, <1>3, <2>1, SearchStepRows DEF Rows, N, config, SearchedBytes
    <2>3. ASSUME cache.clearCount = 0 PROVE Truthful'
      BY <1>1, <1>3, <2>1, <2>3, SearchStepTruthful DEF Going, Truthful
    <2>4. ASSUME cache.clearCount # 0 PROVE Truthful'
      BY <1>1, <1>3, <2>4, AfterClear, FallbackTruthful DEF Truthful
    <2> QED BY <2>2, <2>3, <2>4
  <1>4. CASE UNCHANGED vars
    BY <1>4 DEF vars, Rows, N, config, SearchedBytes, Truthful, Answered, Seen, OnPath, At
  <1> QED BY <1>2, <1>3, <1>4 DEF Next

(* A search that answers with a position before the first clearing has    *)
(* found a match that ends there: the DFA invents no match.                *)
THEOREM FoundIsAMatch ==
  ASSUME \A p \in Pattern : Separated(Automaton[p], BytesOf(p))
  PROVE  Spec /\ []ExitBytesLoop => []FindsMatches
  <1>1. Init => Rows(cache) /\ Truthful
    <2>1. Init => Rows(cache)
      BY DEF Init, NewCache, Rows, RowsOK
    <2>2. Init => Truthful
      BY DEF Init, Truthful, Answered
    <2> QED BY <2>1, <2>2
  <1>2. IInv /\ Rows(cache) /\ Truthful /\ ExitBytesLoop' /\ [Next]_vars => Rows(cache)' /\ Truthful'
    BY NextKeepsPath
  <1>3. IInv /\ Truthful => FindsMatches
    BY TruthfulFinds
  <1> QED BY <1>1, <1>2, <1>3, Invariant, PTL DEF Spec

-----------------------------------------------------------------------------
(* What a search misses.                                                   *)

(* The paths from the position the search was asked for; none of those     *)
(* that have been left behind has ended at a match.                        *)
Opening(n, c) == <<First(n, c), c.at>>
Passed(n, c, i) == \A pair \in Reached(n, c.hay, Opening(n, c)) : pair[2] < i => ~IsMatchID(n, pair[1])

(* The state an ID stands for covers a position that is reached without a  *)
(* match.  The ID of a state that could not be stored is left at once.     *)
Carries(n, c, s, i) == ~s.isMatch /\ Covers(n, c.hay, Opening(n, c), ToSet(s.nfaStates), i)
Carried(n, c, table, id, i) ==
  /\ Passed(n, c, i)
  /\ \/ id = InvalidState /\ i < Len(c.hay)
     \/ /\ id.tag \in SUBSET {"match", "start"}
        /\ id.row + 1 \in 1..Len(table.stateList) /\ table.stateList[id.row + 1] # NoState
        /\ Carries(n, c, table.stateList[id.row + 1], i)

(* A search begins at a state of the automaton and a position it has.      *)
LEMMA OpeningIs ==
  ASSUME NEW n, Validate(n), NEW c, Asked(c)
  PROVE  Opening(n, c) \in Pairs(n, c.hay) /\ Opening(n, c)[2] = c.at /\ c.at \in Nat /\ Len(c.hay) \in Nat
  <1>1. First(n, c) \in NfaIDs(n)
    BY DEF First, Validate, NfaIDs
  <1>2. c.at \in 0..Len(c.hay) /\ Len(c.hay) \in Nat
    BY DEF Asked
  <1> QED BY <1>1, <1>2 DEF Opening, Pairs

(* A step of the construction that reports no match carries the search one *)
(* position further; one that comes to nothing, to the end.                *)
LEMMA TargetCarries ==
  ASSUME NEW n, Validate(n), Patched(n), Apart(n), ~HasWordBoundary(n), NEW c, Asked(c),
         NEW i \in 0..(Len(c.hay) - 1), c.at <= i, NEW s \in State(n), Carries(n, c, s, i),
         Passed(n, c, i), NEW cfg, ~Target(n, cfg, s, c.hay[i + 1]).isMatch
  PROVE  /\ Carries(n, c, Target(n, cfg, s, c.hay[i + 1]), i + 1) /\ Passed(n, c, i + 1)
         /\ Target(n, cfg, s, c.hay[i + 1]).nfaStates = <<>> => Passed(n, c, Len(c.hay) + 1)
  <1> DEFINE w == c.hay
             from == Opening(n, c)
             R == Reached(n, w, from)
             next == Target(n, cfg, s, w[i + 1])
             ids == s.nfaStates
  <1>1. /\ w \in Seq(Byte) /\ from \in Pairs(n, w) /\ from[2] <= i
        /\ ids \in Seq(NfaIDs(n)) /\ Covers(n, w, from, ToSet(ids), i)
    BY OpeningIs, StateFields DEF Asked, Lists, Carries
  <1>2. next = Successor(n, ids, s.isFromWord, w[i + 1], cfg.breakAtMatch) /\ ~next.isMatch
    BY DEF Target
  <1> HIDE DEF w, from, ids, next
  <1>3. /\ Covers(n, w, from, ToSet(next.nfaStates), i + 1)
        /\ \A id \in Here(n, R, i) : ~IsMatchID(n, id)
    BY <1>1, <1>2, SuccessorCovers DEF w
  <1>4. R \subseteq Pairs(n, w)
    BY <1>1, ReachedClosed
  <1>5. ASSUME NEW pair \in R, pair[2] < i + 1 PROVE ~IsMatchID(n, pair[1])
    <2>1. pair[1] \in NfaIDs(n) /\ pair[2] \in Nat /\ pair = <<pair[1], pair[2]>>
      BY <1>4 DEF Pairs
    <2>2. CASE pair[2] < i
      BY <2>2 DEF Passed, w, from
    <2>3. CASE pair[2] = i
      BY <1>3, <2>1, <2>3 DEF Here
    <2> QED BY <1>5, <2>1, <2>2, <2>3
  <1>6. ASSUME next.nfaStates = <<>> PROVE \A pair \in R : pair[2] < i + 1
    <2>1. ToSet(next.nfaStates) = {} /\ i + 1 \in 1..Len(w) /\ from[2] < i + 1
      <3>1. ToSet(<<>>) = {}
        BY DEF ToSet
      <3>2. from[2] \in Nat
        BY <1>1 DEF Pairs
      <3> QED BY <1>1, <1>6, <3>1, <3>2 DEF w
    <2> QED BY <1>1, <1>3, <2>1, CoversNothing
  <1>7. Carries(n, c, next, i + 1)
    BY <1>2, <1>3 DEF Carries, w, from
  <1>8. Passed(n, c, i + 1)
    BY <1>5 DEF Passed, w, from
  <1>9. next.nfaStates = <<>> => Passed(n, c, Len(c.hay) + 1)
    BY <1>5, <1>6 DEF Passed, w, from
  <1> QED BY <1>7, <1>8, <1>9 DEF next, w

(* So does a transition the table knows.                                   *)
LEMMA LeadsCarries ==
  ASSUME NEW n, Validate(n), Patched(n), Apart(n), ~HasWordBoundary(n), NEW c, Asked(c),
         NEW i \in 0..(Len(c.hay) - 1), c.at <= i, NEW s \in State(n), Carries(n, c, s, i),
         Passed(n, c, i), NEW cfg, NEW table, NEW id,
         LeadsTo(n, table, Target(n, cfg, s, c.hay[i + 1]), id)
  PROVE  /\ id = DeadState => Passed(n, c, Len(c.hay) + 1)
         /\ id # DeadState /\ "match" \notin id.tag => Carried(n, c, table, id, i + 1)
  <1> DEFINE next == Target(n, cfg, s, c.hay[i + 1])
             t == table.stateList[id.row + 1]
  <1>1. ~next.isMatch => /\ Carries(n, c, next, i + 1) /\ Passed(n, c, i + 1)
                         /\ next.nfaStates = <<>> => Passed(n, c, Len(c.hay) + 1)
    BY TargetCarries
  <1> HIDE DEF next
  <1>2. CASE id = DeadState
    <2>1. id.tag \notin SUBSET {"match", "start"}
      BY <1>2 DEF DeadState, ID
    <2>2. IsDeadEnd(next)
      BY <2>1 DEF LeadsTo, next
    <2> QED BY <1>1, <1>2, <2>2 DEF IsDeadEnd
  <1>3. CASE id # DeadState /\ "match" \notin id.tag
    <2>1. /\ id.tag \in SUBSET {"match", "start"}
          /\ id.row + 1 \in 1..Len(table.stateList) /\ t # NoState
          /\ ToSet(t.nfaStates) = ToSet(next.nfaStates) /\ t.isMatch = next.isMatch
          /\ "match" \in id.tag <=> next.isMatch
      BY <1>3 DEF LeadsTo, next
    <2>2. Carries(n, c, next, i + 1) /\ Passed(n, c, i + 1) /\ ~next.isMatch
      BY <1>1, <1>3, <2>1
    <2>3. Carries(n, c, t, i + 1)
      BY <2>1, <2>2 DEF Carries
    <2> QED BY <1>3, <2>1, <2>2, <2>3 DEF Carried
  <1> QED BY <1>2, <1>3

(* The start state a search gets covers the position asked for.            *)
LEMMA StartCarries ==
  ASSUME Built, NEW table, Sound(N, config, table), NEW c, Asked(c), c.at < Len(c.hay)
  PROVE  LET r == StartAt(table, c.hay, c.at, c.op = "SearchAtAnchored")
         IN  Carried(N, c, r.cache, r.id, c.at)
  <1> DEFINE kind == IF c.at = 0 THEN "Text" ELSE StartKindOf(c.hay[c.at])
             anchored == c.op = "SearchAtAnchored"
             r == GetStartState(table, kind, anchored)
             s == r.cache.stateList[r.id.row + 1]
             first == First(N, c)
             start == StartOf(N, kind, anchored)
  <1>1. kind \in StartKind /\ anchored \in BOOLEAN
    BY DEF StartKind, StartKindOf
  <1>2. StartAt(table, c.hay, c.at, anchored) = r
    BY DEF StartAt
  <1>3. /\ c.at \in 0..Len(c.hay) /\ c.hay \in Seq(Byte) /\ Validate(N) /\ Patched(N)
        /\ first \in NfaIDs(N)
    BY BuiltFacts DEF Asked, First, Validate, NfaIDs
  <1>4. start = EpsilonClosure(N, <<first>>, Opened(c.hay, c.at))
    <2>1. Opened(c.hay, c.at) = LookSetFromStartKind(kind)
      BY <1>3, LooksHeld
    <2>2. first = IF anchored THEN N.startAnchored ELSE N.startUnanchored
      BY DEF First
    <2> HIDE DEF kind, anchored
    <2> QED BY <2>1, <2>2 DEF StartOf
  <1> HIDE DEF kind, anchored, first
  <1>5. first \in ToSet(start) /\ ClosedUnder(N, ToSet(start), Opened(c.hay, c.at))
    <2>1. <<first>> \in Seq(NfaIDs(N)) /\ first \in ToSet(<<first>>)
      BY <1>3 DEF ToSet
    <2> HIDE DEF start
    <2> QED BY <1>3, <1>4, <2>1, ClosureContains
  <1> HIDE DEF start
  <1>6. /\ Covers(N, c.hay, Opening(N, c), ToSet(start), c.at)
        /\ \A pair \in Reached(N, c.hay, Opening(N, c)) : pair[2] >= c.at
    BY <1>3, <1>5, CoversStart DEF Opening, first
  <1>7. Passed(N, c, c.at)
    <2>1. ASSUME NEW pair \in Reached(N, c.hay, Opening(N, c)), pair[2] < c.at PROVE FALSE
      <3>1. pair \in Pairs(N, c.hay)
        BY <1>3, OpeningIs, ReachedClosed
      <3>2. pair[2] \in Nat /\ c.at \in Nat
        BY <1>3, <3>1 DEF Pairs
      <3> QED BY <1>6, <2>1, <3>2
    <2> QED BY <2>1 DEF Passed
  <1>8. /\ Leaves(table, r.cache, r.id)
        /\ r.id = InvalidState \/ StartsAt(N, r.cache, r.id, kind, anchored)
    BY <1>1, GetStartStateSound
  <1> HIDE DEF r
  <1>9. ASSUME r.id # InvalidState PROVE Carried(N, c, r.cache, r.id, c.at)
    <2>1. /\ r.id.row + 1 \in 1..Len(r.cache.stateList)
          /\ s # NoState /\ s.id = r.id
          /\ ToSet(s.nfaStates) = ToSet(start) /\ ~s.isMatch
      BY <1>8, <1>9 DEF StartsAt, start
    <2>2. Proper(s, (r.id.row + 1) - 1)
      BY <1>8, <2>1 DEF Leaves, Sound, Numbered
    <2>3. r.id.tag \in SUBSET {"match", "start"}
      BY <2>1, <2>2 DEF Proper
    <2>4. Carries(N, c, s, c.at)
      BY <1>6, <2>1 DEF Carries
    <2> QED BY <1>7, <2>1, <2>3, <2>4 DEF Carried
  <1>10. Carried(N, c, r.cache, r.id, c.at)
    BY <1>7, <1>9 DEF Carried
  <1> QED BY <1>2, <1>10 DEF anchored

-----------------------------------------------------------------------------
(* The searches the theorem is about: without a prefilter, which skips     *)
(* what has none of its literals; for patterns without word assertions,    *)
(* whose order against the others decides what is passed; and with no      *)
(* assertion about what is before a position behind one about what comes   *)
(* after, which is closed under only once.  A call that is refused is not  *)
(* searched.                                                               *)
Plain == ~UsesPrefilter /\ ~HasWordBoundary(N) /\ Apart(N) /\ ~Refused(call)

(* What every state of such a search keeps to until the cache is cleared:  *)
(* until it has seen a match the state it is in covers its position, and   *)
(* no path has ended behind it.  SearchFirstAt stops at once.              *)
Abreast == /\ lastMatch < 0 => Carried(N, call, cache, sid, pos)
           /\ At("SearchFirstAt") => lastMatch < 0
Concluded(end) == /\ end < 0 => Passed(N, call, End + 1)
                  /\ At("SearchFirstAt") /\ end >= 0 => Passed(N, call, end)
Thorough ==
  cache.clearCount = 0 /\ Plain =>
    /\ pc # "idle" => Abreast
    /\ Answered({"dfa"}) => Concluded(answer.end)

(* An answer that rests on what has been passed is thorough,              *)
LEMMA ReturnThorough ==
  ASSUME dfa' = dfa, NEW end \in Int, Concluded(end), Return(end, "dfa")
  PROVE  Thorough'
  <1>1. /\ answer' = [end |-> IF At("IsMatchAt") /\ end >= 0 THEN 0 ELSE end, by |-> "dfa"]
        /\ pc' = "idle" /\ call' = call /\ N' = N /\ End' = End
        /\ (At("IsMatchAt"))' = At("IsMatchAt") /\ (At("SearchFirstAt"))' = At("SearchFirstAt")
    BY DEF Return, N, At, End, W
  <1>2. Concluded(answer.end)'
    <2>1. CASE At("IsMatchAt") /\ end >= 0
      <3>1. answer'.end = 0 /\ ~At("SearchFirstAt")
        BY <1>1, <2>1 DEF At
      <3> QED BY <1>1, <3>1 DEF Concluded
    <2>2. CASE ~(At("IsMatchAt") /\ end >= 0)
      <3>1. answer'.end = end
        BY <1>1, <2>2
      <3> QED BY <1>1, <3>1 DEF Concluded
    <2> QED BY <2>1, <2>2
  <1> QED BY <1>1, <1>2 DEF Thorough

(* the PikeVM's answer is none of the DFA's,                               *)
LEMMA FallbackThorough ==
  ASSUME Fallback
  PROVE  Thorough'
  BY DEF Fallback, Return, Thorough, Answered

(* and a search that goes on must keep abreast of the paths.               *)
LEMMA StayThorough ==
  ASSUME dfa' = dfa, call' = call, pc' \in {"loop", "slow", "step"},
         At("SearchFirstAt") => lastMatch' < 0,
         cache'.clearCount = 0 /\ lastMatch' < 0 => Carried(N, call, cache', sid', pos')
  PROVE  Thorough'
  BY DEF Thorough, Abreast, Answered, N, At

-----------------------------------------------------------------------------
(* The steps of such a search.                                             *)
Underway == Going /\ Plain /\ Abreast

(* The facts about the search that its steps need.                         *)
LEMMA UnderwayAsked ==
  ASSUME Underway
  PROVE  /\ IInv /\ pc # "idle" /\ Asked(call) /\ call.hay = W /\ End = Len(W) /\ End \in Nat /\ pos \in Nat
         /\ pos <= End /\ call.at \in Nat /\ call.at <= pos /\ lastMatch \in Int
         /\ Built /\ Validate(N) /\ Patched(N) /\ Apart(N) /\ ~HasWordBoundary(N)
  <1>1. IInv /\ pc # "idle"
    BY DEF Underway, Going
  <1>2. call.at <= pos /\ Apart(N) /\ ~HasWordBoundary(N)
    BY DEF Underway, Going, OnPath, Plain
  <1> QED BY <1>1, <1>2, Before, RunningAsked DEF Asked

(* A state that covers the end of the input, and completes no match there, *)
(* has missed none.                                                        *)
LEMMA EndPassed ==
  ASSUME Underway, NEW s \in State(N), Carries(N, call, s, End), Passed(N, call, End),
         ~CheckEOIMatch(N, s.nfaStates, s.isFromWord)
  PROVE  Passed(N, call, End + 1)
  <1> DEFINE w == call.hay
             from == Opening(N, call)
             R == Reached(N, w, from)
  <1>1. /\ w \in Seq(Byte) /\ from \in Pairs(N, w) /\ End = Len(w) /\ End \in Nat
        /\ s.nfaStates \in Seq(NfaIDs(N)) /\ Covers(N, w, from, ToSet(s.nfaStates), Len(w))
    BY UnderwayAsked, OpeningIs, StateFields DEF Asked, Lists, Carries
  <1>2. R \subseteq Pairs(N, w)
    BY <1>1, UnderwayAsked, ReachedClosed
  <1> HIDE DEF w, from
  <1>3. \A id \in Here(N, R, Len(w)) : ~IsMatchID(N, id)
    BY <1>1, UnderwayAsked, EndOfInputCovers
  <1>4. ASSUME NEW pair \in R PROVE ~IsMatchID(N, pair[1])
    <2>1. pair[1] \in NfaIDs(N) /\ pair[2] \in 0..Len(w) /\ pair = <<pair[1], pair[2]>>
      BY <1>2 DEF Pairs
    <2>2. CASE pair[2] < End
      BY <2>2 DEF Passed, w, from
    <2>3. CASE pair[2] = Len(w)
      BY <1>3, <2>1, <2>3 DEF Here
    <2> QED BY <1>1, <2>1, <2>2, <2>3
  <1> QED BY <1>4 DEF Passed, w, from

(* A transition that is followed, with or without its match tag.           *)
LEMMA EnterThorough ==
  ASSUME Underway, dfa' = dfa, NEW id, Enter(id),
         lastMatch < 0 /\ "match" \notin id.tag => Carried(N, call, cache', id, pos + 1)
  PROVE  Thorough'
  <1>1. pos \in Nat /\ lastMatch \in Int /\ Abreast
    BY UnderwayAsked DEF Underway
  <1>2. CASE "match" \in id.tag /\ StopsAtFirstMatch /\ Return(pos, "dfa")
    <2>1. Concluded(pos)
      BY <1>1 DEF Concluded, Abreast, Carried
    <2> QED BY <1>1, <1>2, <2>1, ReturnThorough
  <1>3. CASE /\ ~("match" \in id.tag /\ StopsAtFirstMatch)
             /\ sid' = id /\ lastMatch' = IF "match" \in id.tag THEN pos ELSE lastMatch
             /\ pos' = pos + 1 /\ pc' = "loop" /\ call' = call
    <2>1. CASE "match" \in id.tag
      <3>1. ~At("SearchFirstAt") /\ ~(lastMatch' < 0)
        BY <1>1, <1>3, <2>1 DEF StopsAtFirstMatch, At
      <3> QED BY <1>3, <3>1, StayThorough
    <2>2. CASE "match" \notin id.tag
      <3>1. lastMatch' = lastMatch /\ (At("SearchFirstAt") => lastMatch' < 0)
        BY <1>1, <1>3, <2>2 DEF Abreast
      <3> QED BY <1>3, <2>2, <3>1, StayThorough
    <2> QED BY <2>1, <2>2
  <1> QED BY <1>2, <1>3 DEF Enter

(* An entry of the table at any position ahead of the search.              *)
LEMMA StepCarries ==
  ASSUME Underway, NEW id \in AnyID, NEW i \in 0..(End - 1), call.at <= i,
         Carried(N, call, cache, id, i)
  PROVE  LET t == Transition(cache, id, W[i + 1])
         IN  /\ t = DeadState => Passed(N, call, End + 1)
             /\ t \notin {InvalidState, DeadState} /\ "match" \notin t.tag =>
                  Carried(N, call, cache, t, i + 1)
  <1> DEFINE b == call.hay[i + 1]
             t == Transition(cache, id, b)
             k == id.row + 1
             s == cache.stateList[k]
  <1>1. /\ Asked(call) /\ call.hay = W /\ b \in SearchedBytes /\ SearchedBytes \in SUBSET Byte
        /\ i \in 0..(Len(call.hay) - 1) /\ Built /\ End = Len(W)
    BY UnderwayAsked, SearchedAt, SearchedFacts DEF IInv
  <1>2. RowsOK(N, config, SearchedBytes, cache) /\ cache.clearCount = 0 /\ Sound(N, config, cache)
    BY DEF Underway, Going, Rows, IInv, CacheOK
  <1>3. /\ Len(cache.flatTrans) = Len(cache.stateList) /\ Len(cache.stateList) \in Nat
        /\ cache.stateList # <<>> => \A class \in Classes(N) : cache.flatTrans[1][class] = InvalidState
        /\ \A j \in 1..Len(cache.stateList) : cache.stateList[j] \in State(N)
    BY <1>2 DEF RowsOK, Sound, Typed
  <1>4. b \in Byte /\ ByteToClass(N, b) \in Classes(N)
    BY <1>1, BuiltFacts
  <1>5. t = Transition(cache, id, W[i + 1])
    BY <1>1
  <1>6. CASE id = InvalidState
    <2>1. id.row = 0
      BY <1>6 DEF InvalidState, ID
    <2>2. t = InvalidState
      BY <1>3, <1>4, <2>1 DEF Transition
    <2>3. t # DeadState
      BY <2>2 DEF InvalidState, DeadState, ID
    <2> QED BY <1>5, <2>2, <2>3
  <1>7. CASE id # InvalidState /\ t # InvalidState
    <2>1. k \in 1..Len(cache.stateList) /\ s # NoState /\ Carries(N, call, s, i) /\ Passed(N, call, i)
      BY <1>7 DEF Carried
    <2>2. id.row < Len(cache.flatTrans)
      BY <1>3, <2>1 DEF AnyID
    <2>3. t = Entry(N, cache, k, b)
      BY <2>2 DEF Transition, Entry
    <2>4. LeadsTo(N, cache, Target(N, config, s, b), t)
      BY <1>1, <1>2, <1>7, <2>1, <2>3 DEF RowsOK
    <2>5. s \in State(N) /\ Validate(N) /\ Patched(N) /\ Apart(N) /\ ~HasWordBoundary(N)
      BY <1>3, <2>1, UnderwayAsked
    <2> HIDE DEF s, t, k
    <2>6. /\ t = DeadState => Passed(N, call, Len(call.hay) + 1)
          /\ t # DeadState /\ "match" \notin t.tag => Carried(N, call, cache, t, i + 1)
      BY <1>1, <2>1, <2>4, <2>5, LeadsCarries
    <2> QED BY <1>1, <1>5, <2>6
  <1>8. CASE id # InvalidState /\ t = InvalidState
    <2>1. t # DeadState
      BY <1>8 DEF InvalidState, DeadState, ID
    <2> QED BY <1>5, <1>8, <2>1
  <1> QED BY <1>6, <1>7, <1>8

(* The unrolled loop.                                                      *)
LEMMA FastPathThorough ==
  ASSUME Underway, FastPath
  PROVE  Thorough'
  <1> DEFINE length == FastRun.length
             L == Len(cache.flatTrans)
  <1>1. pos + 3 < End /\ Ran(FastRun) /\ UNCHANGED <<dfa, cache>> /\ IInv /\ pc = "loop"
    BY UnderwayAsked DEF FastPath, OnFastPath
  <1>2. PICK run : RunsFast(run)
    BY <1>1, FastRunFacts
  <1>3. /\ run \in [0..4 -> IDs(L)] /\ run[0] = sid
        /\ \A k \in 1..4 : run[k] = Transition(cache, run[k - 1], W[pos + k])
        /\ length \in 0..4 /\ \A k \in 1..length : ~Tagged(run[k])
        /\ FastRun.id = run[length]
    BY <1>2 DEF RunsFast
  <1>4. L \in Nat /\ pos \in Nat /\ End \in Nat /\ call.at \in Nat /\ call.at <= pos
    BY <1>1, Before, UnderwayAsked
  <1> HIDE DEF length, L
  <1>5. \A k \in 0..4 : run[k] \in AnyID
    BY <1>3, <1>4, WiderIDs
  <1>6. ASSUME NEW k \in 0..3
        PROVE  /\ run[k + 1] = Transition(cache, run[k], W[(pos + k) + 1])
               /\ pos + k \in 0..(End - 1) /\ call.at <= pos + k
    <2>1. k + 1 \in 1..4 /\ (k + 1) - 1 = k /\ pos + (k + 1) = (pos + k) + 1
      BY <1>4
    <2>2. run[k + 1] = Transition(cache, run[(k + 1) - 1], W[pos + (k + 1)])
      BY <1>3, <2>1
    <2> QED BY <1>1, <1>4, <2>1, <2>2
  <1>7. ASSUME lastMatch < 0 PROVE Carried(N, call, cache, run[length], pos + length)
    <2> DEFINE A == {k \in 0..length : Carried(N, call, cache, run[k], pos + k)}
    <2>1. 0 \in A
      BY <1>3, <1>4, <1>7 DEF Underway, Abreast
    <2>2. ASSUME NEW k \in 0..(length - 1), k \in A PROVE k + 1 \in A
      <3>1. k \in 0..3 /\ k \in 0..4 /\ k + 1 \in 1..length /\ k + 1 \in 0..length
            /\ pos + (k + 1) = (pos + k) + 1
        BY <1>3, <1>4
      <3>2. run[k + 1] \notin {InvalidState, DeadState} /\ "match" \notin run[k + 1].tag
        BY <1>3, <3>1 DEF Tagged, InvalidState, DeadState, ID
      <3>3. Carried(N, call, cache, run[k], pos + k)
        BY <2>2
      <3>4. Carried(N, call, cache, run[k + 1], (pos + k) + 1)
        BY <1>5, <1>6, <3>1, <3>2, <3>3, StepCarries
      <3> QED BY <3>1, <3>4
    <2> HIDE DEF A
    <2>3. 0..length \subseteq A
      BY <1>3, <2>1, <2>2, IntervalInduction
    <2>4. length \in A
      BY <1>3, <2>3
    <2> QED BY <2>4 DEF A
  <1>8. CASE At("IsMatchAt") /\ Return(0, "dfa")
    <2>1. Concluded(0)
      BY <1>8 DEF Concluded, At
    <2> QED BY <1>1, <1>8, <2>1, ReturnThorough
  <1>9. CASE /\ pos' = pos + length /\ sid' = run[length] /\ pc' \in {"loop", "slow"}
             /\ UNCHANGED <<call, lastMatch>>
    <2>1. At("SearchFirstAt") => lastMatch' < 0
      BY <1>9 DEF Underway, Abreast
    <2> QED BY <1>1, <1>7, <1>9, <2>1, StayThorough
  <1> QED BY <1>1, <1>3, <1>8, <1>9 DEF Ran, length

(* A transition that is taken.                                             *)
LEMMA TakenThorough ==
  ASSUME Underway, pos < End, UNCHANGED <<dfa, cache>>, Known(Transition(cache, sid, NextByte)),
         Enter(Transition(cache, sid, NextByte))
  PROVE  Thorough'
  <1> DEFINE t == Transition(cache, sid, NextByte)
  <1>1. /\ pos \in 0..(End - 1) /\ sid \in AnyID /\ NextByte = W[pos + 1] /\ call.at <= pos
    BY Before, UnderwayAsked DEF NextByte
  <1>2. t = Transition(cache, sid, W[pos + 1]) /\ t \notin {InvalidState, DeadState}
    BY <1>1 DEF Known
  <1>3. lastMatch < 0 /\ "match" \notin t.tag => Carried(N, call, cache, t, pos + 1)
    BY <1>1, <1>2, StepCarries DEF Underway, Abreast
  <1> HIDE DEF t
  <1> QED BY <1>3, EnterThorough DEF t

(* Without a prefilter, no thread left is the end.                         *)
LEMMA DieThorough ==
  ASSUME Underway, dfa' = dfa, NEW c, Die(c), lastMatch < 0 => Passed(N, call, End + 1)
  PROVE  Thorough'
  <1>1. Return(lastMatch, "dfa") /\ lastMatch \in Int
    BY UnderwayAsked DEF Die, Underway, Plain
  <1>2. Concluded(lastMatch)
    <2>1. At("SearchFirstAt") => lastMatch < 0
      BY DEF Underway, Abreast
    <2>2. ~(lastMatch < 0 /\ lastMatch >= 0)
      BY <1>1
    <2> QED BY <2>1, <2>2 DEF Concluded
  <1> QED BY <1>1, <1>2, ReturnThorough

-----------------------------------------------------------------------------
(* A step of a search asks for nothing else.                               *)
LEMMA StepAsks ==
  ASSUME SearchStep
  PROVE  call' = call
  <1>1. ASSUME NEW end, NEW by, Return(end, by) PROVE call' = call
    BY <1>1 DEF Return
  <1>2. ASSUME NEW id, Enter(id) PROVE call' = call
    BY <1>1, <1>2 DEF Enter
  <1>3. ASSUME NEW c, Die(c) PROVE call' = call
    BY <1>1, <1>3 DEF Die, RestartAt, Resume
  <1>4. CASE FastPath
    BY <1>1, <1>4 DEF FastPath, Ran
  <1>5. CASE SkipAhead
    BY <1>1, <1>5 DEF SkipAhead, RestartAt, Resume
  <1>6. CASE LeaveStart
    BY <1>2, <1>6 DEF LeaveStart
  <1>7. CASE Accelerate
    BY <1>1, <1>7 DEF Accelerate, SkipToExit
  <1>8. CASE Lost
    BY <1>1, <1>8 DEF Lost, Fallback
  <1>9. CASE MatchAtBoundary
    BY <1>1, <1>9 DEF MatchAtBoundary
  <1>10. CASE Follow
    BY <1>2, <1>10 DEF Follow
  <1>11. CASE DieKnown
    BY <1>3, <1>11 DEF DieKnown
  <1>12. CASE DeterminizeStep
    BY <1>1, <1>2, <1>3, <1>12 DEF DeterminizeStep, Proceed, Cleared, Fallback
  <1>13. CASE RestartAfterClear
    BY <1>13 DEF RestartAfterClear, RestartAt, Resume
  <1>14. CASE EndOfInput
    BY <1>1, <1>14 DEF EndOfInput
  <1> QED BY <1>4, <1>5, <1>6, <1>7, <1>8, <1>9, <1>10, <1>11, <1>12, <1>13, <1>14 DEF SearchStep

(* Skipping to an exit byte: a state that every byte leads to itself       *)
(* covers each position that is skipped.                                   *)
LEMMA SkippedCarries ==
  ASSUME Underway, NEW s \in State(N), NEW m \in pos..End,
         Carries(N, call, s, pos), Passed(N, call, pos),
         \A i \in pos..(m - 1) :
           LET next == NextState(s, W[i + 1])
           IN  ToSet(next.nfaStates) = ToSet(s.nfaStates) /\ next.isMatch = s.isMatch
  PROVE  Carries(N, call, s, m) /\ Passed(N, call, m)
  <1> DEFINE A == {i \in pos..m : Carries(N, call, s, i) /\ Passed(N, call, i)}
  <1>1. pos \in Nat /\ m \in Nat /\ End \in Nat /\ pos <= m /\ m <= End /\ call.at <= pos /\ call.at \in Nat
    BY UnderwayAsked
  <1>2. pos \in A
    BY <1>1
  <1>3. ASSUME NEW i \in pos..(m - 1), i \in A PROVE i + 1 \in A
    <2> DEFINE next == Target(N, config, s, call.hay[i + 1])
    <2>1. i \in 0..(End - 1) /\ i + 1 \in pos..m /\ call.at <= i
      BY <1>1
    <2>2. /\ Asked(call) /\ i \in 0..(Len(call.hay) - 1) /\ call.hay = W
          /\ Validate(N) /\ Patched(N) /\ Apart(N) /\ ~HasWordBoundary(N)
      BY <2>1, SearchedAt, UnderwayAsked
    <2>3. ToSet(next.nfaStates) = ToSet(s.nfaStates) /\ next.isMatch = s.isMatch
      BY <2>2 DEF NextState, Target
    <2>4. Carries(N, call, s, i) /\ Passed(N, call, i)
      BY <1>3
    <2>5. ~next.isMatch
      BY <2>3, <2>4 DEF Carries
    <2>6. Carries(N, call, next, i + 1) /\ Passed(N, call, i + 1)
      BY <2>1, <2>2, <2>4, <2>5, TargetCarries
    <2> HIDE DEF next
    <2>7. Carries(N, call, s, i + 1)
      BY <2>3, <2>6 DEF Carries
    <2> QED BY <2>1, <2>6, <2>7
  <1> HIDE DEF A
  <1>4. pos..m \subseteq A
    BY <1>1, <1>2, <1>3, IntervalInduction
  <1>5. m \in A
    BY <1>1, <1>4
  <1> QED BY <1>5 DEF A

(* The exit-byte scan.                                                     *)
LEMMA AccelerateThorough ==
  ASSUME Underway, Accelerate, ExitBytesLoop', AcceleratedEnd'
  PROVE  Thorough'
  <1> DEFINE state == TryDetectAcceleration(cache, Current)
             k == sid.row + 1
             c == Register(cache, state)
             bytes == state.accelBytes
  <1>1. Current # NoState /\ cache' = c /\ dfa' = dfa /\ call' = call /\ SkipToExit(state)
        /\ pos < End /\ pc # "idle" /\ IInv
    BY SlowPathPlace DEF Accelerate, SkipToExit, Return, Underway, Going
  <1>2. /\ Built /\ Sound(N, config, cache) /\ Proper(Current, sid.row)
        /\ k \in 1..Len(cache.stateList) /\ cache.stateList[k] = Current /\ Current \in State(N)
    BY <1>1, Before
  <1>3. /\ state \in State(N) /\ state.id = Current.id /\ state.nfaStates = Current.nfaStates
        /\ state.isMatch = Current.isMatch /\ state.isFromWord = Current.isFromWord
    BY <1>2, AccelerationFacts
  <1> HIDE DEF state, c
  <1>4. Replaces(cache, k, state, c) /\ Sound(N, config, c)
    BY <1>1, <1>2, <1>3, ReplaceSound DEF c, k
  <1>5. k \in DOMAIN c.stateList /\ k \in 1..Len(c.stateList) /\ c.stateList[k] = state /\ state # NoState
    <2>1. c.stateList \in Seq(State(N)) /\ Len(c.stateList) = Len(cache.stateList)
      BY <1>4 DEF Replaces, Sound, Typed
    <2> QED BY <1>2, <1>4, <2>1 DEF Replaces
  <1>6. /\ pos \in Nat /\ End \in Nat /\ call.at <= pos /\ lastMatch \in Int
        /\ At("SearchFirstAt") => lastMatch < 0
    BY UnderwayAsked DEF Underway, Abreast
  <1>7. sid # InvalidState
    BY <1>1 DEF Current, GetState, InvalidState, ID
  <1>8. ASSUME lastMatch < 0
        PROVE  /\ sid.tag \in SUBSET {"match", "start"}
               /\ Carries(N, call, state, pos) /\ Passed(N, call, pos)
    <2>1. Carried(N, call, cache, sid, pos)
      BY <1>8 DEF Underway, Abreast
    <2>2. sid.tag \in SUBSET {"match", "start"} /\ Carries(N, call, Current, pos) /\ Passed(N, call, pos)
      BY <1>2, <1>7, <2>1 DEF Carried
    <2> QED BY <1>3, <2>2 DEF Carries
  <1>9. ASSUME NEW i, lastMatch < 0, Carries(N, call, state, i), Passed(N, call, i)
        PROVE  Carried(N, call, c, sid, i)
    BY <1>5, <1>8, <1>9 DEF Carried
  <1>10. ASSUME bytes # {}, NEW i \in pos..(End - 1), i \notin ExitAhead(bytes)
         PROVE  /\ ToSet(NextState(state, W[i + 1]).nfaStates) = ToSet(state.nfaStates)
                /\ NextState(state, W[i + 1]).isMatch = state.isMatch
    <2>1. W[i + 1] \notin bytes /\ i \in 0..(End - 1)
      BY <1>6, <1>10 DEF ExitAhead
    <2>2. W[i + 1] \in SearchedBytes
      BY <1>1, <2>1, SearchedAt, UnderwayAsked
    <2>3. SearchedBytes' = SearchedBytes /\ N' = N /\ config' = config
      BY <1>1 DEF SearchedBytes, N, config
    <2> HIDE DEF k
    <2> QED BY <1>1, <1>5, <1>10, <2>1, <2>2, <2>3 DEF ExitBytesLoop, Filed, NextState
  <1>11. CASE pc' = "step" /\ UNCHANGED <<call, pos, sid, lastMatch, answer>>
    BY <1>1, <1>6, <1>8, <1>9, <1>11, StayThorough
  <1>12. CASE bytes # {} /\ ExitAhead(bytes) = {} /\ Return(lastMatch, "dfa")
    <2>1. ASSUME lastMatch < 0 PROVE Passed(N, call, End + 1)
      <3>1. \A i \in pos..(End - 1) :
              LET next == NextState(state, W[i + 1])
              IN  ToSet(next.nfaStates) = ToSet(state.nfaStates) /\ next.isMatch = state.isMatch
        BY <1>10, <1>12
      <3>2. End \in pos..End
        BY <1>1, <1>6
      <3>3. Carries(N, call, state, End) /\ Passed(N, call, End)
        BY <1>3, <1>8, <2>1, <3>1, <3>2, SkippedCarries
      <3>4. ~CheckEOIMatch(N, state.nfaStates, state.isFromWord)
        <4>1. N' = N /\ ~state.isMatch
          BY <1>1, <3>3 DEF N, Carries
        <4> HIDE DEF k
        <4> QED BY <1>1, <1>5, <1>12, <4>1 DEF AcceleratedEnd, Filed
      <3> QED BY <1>3, <3>3, <3>4, EndPassed
    <2>2. Concluded(lastMatch)
      BY <1>6, <2>1 DEF Concluded
    <2> QED BY <1>1, <1>6, <1>12, <2>2, ReturnThorough
  <1>13. CASE /\ bytes # {} /\ ExitAhead(bytes) # {}
              /\ pos' = Minimum(ExitAhead(bytes)) /\ pc' = "step"
              /\ UNCHANGED <<call, sid, lastMatch, answer>>
    <2> DEFINE ahead == ExitAhead(bytes)
               m == Minimum(ahead)
    <2>1. ahead \in SUBSET Nat /\ ahead \subseteq pos..(End - 1)
      BY <1>6 DEF ExitAhead
    <2>2. m \in ahead /\ \A j \in ahead : m <= j
      BY <1>13, <2>1, FirstPosition
    <2>3. m \in pos..End /\ m \in Nat
      BY <1>6, <2>1, <2>2
    <2>4. \A i \in pos..(m - 1) :
            LET next == NextState(state, W[i + 1])
            IN  ToSet(next.nfaStates) = ToSet(state.nfaStates) /\ next.isMatch = state.isMatch
      <3> SUFFICES ASSUME NEW i \in pos..(m - 1)
                   PROVE  /\ ToSet(NextState(state, W[i + 1]).nfaStates) = ToSet(state.nfaStates)
                          /\ NextState(state, W[i + 1]).isMatch = state.isMatch
        OBVIOUS
      <3>1. i \in pos..(End - 1) /\ ~(m <= i)
        BY <1>6, <2>3
      <3>2. i \notin ExitAhead(bytes)
        BY <2>2, <3>1
      <3> QED BY <1>10, <1>13, <3>1, <3>2
    <2> HIDE DEF m
    <2>5. ASSUME lastMatch < 0 PROVE Carried(N, call, c, sid, m)
      <3>1. Carries(N, call, state, m) /\ Passed(N, call, m)
        BY <1>3, <1>8, <2>3, <2>4, <2>5, SkippedCarries
      <3> QED BY <1>9, <2>5, <3>1
    <2>6. pos' = m /\ sid' = sid /\ lastMatch' = lastMatch
      BY <1>13 DEF m
    <2> QED BY <1>1, <1>6, <1>13, <2>5, <2>6, StayThorough
  <1>14. SkipToExit(state) => \/ pc' = "step" /\ UNCHANGED <<call, pos, sid, lastMatch, answer>>
                              \/ bytes # {} /\ ExitAhead(bytes) = {} /\ Return(lastMatch, "dfa")
                              \/ /\ ExitAhead(bytes) # {}
                                 /\ pos' = Minimum(ExitAhead(bytes)) /\ pc' = "step"
                                 /\ UNCHANGED <<call, sid, lastMatch, answer>>
    BY DEF SkipToExit
  <1>15. ExitAhead(bytes) # {} => bytes # {}
    BY DEF ExitAhead
  <1> QED BY <1>1, <1>11, <1>12, <1>13, <1>14, <1>15

(* A state that is computed.                                               *)
LEMMA DeterminizeStepThorough ==
  ASSUME Underway, Separated(N, SearchedBytes), DeterminizeStep
  PROVE  Thorough'
  <1> DEFINE o == DeterminizeInto(cache, Current, NextByte)
             next == NextState(Current, NextByte)
             k == sid.row + 1
  <1>1. pc # "idle" /\ pos < End /\ Current # NoState /\ Proceed(o) /\ dfa' = dfa /\ IInv
    BY SlowPathPlace DEF DeterminizeStep, ReadyToStep, Underway, Going
  <1>2. /\ Built /\ Sound(N, config, cache) /\ NextByte \in Byte /\ Current \in State(N)
        /\ k \in 1..Len(cache.stateList) /\ cache.stateList[k] = Current
    BY <1>1, Before
  <1>3. /\ Asked(call) /\ Validate(N) /\ Patched(N) /\ pos \in 0..(Len(call.hay) - 1)
        /\ NextByte = call.hay[pos + 1] /\ NextByte \in SearchedBytes /\ SearchedBytes \in SUBSET Byte
        /\ Apart(N) /\ ~HasWordBoundary(N) /\ call.at <= pos /\ End = Len(call.hay)
    BY <1>1, RunningAsked, UnderwayAsked
  <1>4. sid # InvalidState
    BY <1>1 DEF Current, GetState, InvalidState, ID
  <1>5. lastMatch < 0 => Carries(N, call, Current, pos) /\ Passed(N, call, pos)
    BY <1>2, <1>4 DEF Underway, Abreast, Carried
  <1> HIDE DEF k
  <1>6. Sound(N, config, o.cache) /\ Determines(cache, next, o)
    <2>1. o = DeterminizeInto(cache, cache.stateList[k], NextByte)
          /\ next = NextState(cache.stateList[k], NextByte)
      BY <1>2
    <2> HIDE DEF o, next
    <2>2. Leaves(cache, o.cache, o.id)
      BY <1>1, <1>2, <2>1, DeterminizeSound
    <2>3. Determines(cache, next, o)
      BY <1>1, <1>2, <1>3, <2>1, DeterminizeRows DEF Rows, Underway, Going
    <2> QED BY <2>2, <2>3 DEF Leaves
  <1>7. next = Target(N, config, Current, call.hay[pos + 1])
    BY <1>3 DEF NextState, Target
  <1> HIDE DEF o, next
  <1>8. CASE o.kind = "next" /\ Enter(o.id) /\ cache' = o.cache
    <2>1. LeadsTo(N, o.cache, Target(N, config, Current, call.hay[pos + 1]), o.id) /\ o.id # DeadState
      BY <1>6, <1>7, <1>8 DEF Determines
    <2>2. lastMatch < 0 /\ "match" \notin o.id.tag => Carried(N, call, o.cache, o.id, pos + 1)
      BY <1>2, <1>3, <1>5, <2>1, LeadsCarries
    <2> QED BY <1>1, <1>8, <2>2, EnterThorough
  <1>9. CASE o.kind = "dead" /\ Die(o.cache)
    <2>1. IsDeadEnd(next)
      BY <1>6, <1>9 DEF Determines
    <2>2. lastMatch < 0 => Passed(N, call, Len(call.hay) + 1)
      <3>1. ~next.isMatch /\ next.nfaStates = <<>>
        BY <2>1 DEF IsDeadEnd
      <3> QED BY <1>2, <1>3, <1>5, <1>7, <3>1, TargetCarries
    <2> QED BY <1>1, <1>3, <1>9, <2>2, DieThorough
  <1>10. CASE o.kind = "cleared" /\ cache' = o.cache
    BY <1>6, <1>10 DEF Determines, Thorough
  <1>11. CASE Fallback
    BY <1>11, FallbackThorough
  <1> QED BY <1>1, <1>8, <1>9, <1>10, <1>11 DEF Proceed, Cleared

(* Every step of such a search.                                            *)
LEMMA SearchStepThorough ==
  ASSUME Underway, Separated(N, SearchedBytes), ExitBytesLoop', AcceleratedEnd', SearchStep
  PROVE  Thorough'
  <1>1. IInv /\ pc # "idle" /\ pc # "cleared" /\ ~UsesPrefilter
    BY DEF Underway, Going, Plain
  <1>2. /\ pos \in Nat /\ pos <= End /\ End \in Nat /\ lastMatch \in Int /\ End = Len(call.hay)
        /\ ~HasWordBoundary(N)
    BY UnderwayAsked
  <1>3. CASE FastPath
    BY <1>3, FastPathThorough
  <1>4. CASE SkipAhead
    BY <1>1, <1>4 DEF SkipAhead, MaySkip
  <1>5. CASE LeaveStart
    BY <1>1, <1>5, TakenThorough, SlowPathPlace DEF LeaveStart, MayLeaveStart
  <1>6. CASE Accelerate
    BY <1>6, AccelerateThorough
  <1>7. CASE Lost
    BY <1>7, FallbackThorough DEF Lost
  <1>8. CASE MatchAtBoundary
    BY <1>2, <1>8 DEF MatchAtBoundary, BoundaryCompletes
  <1>9. CASE Follow
    BY <1>1, <1>9, TakenThorough, SlowPathPlace DEF Follow, ReadyToStep
  <1>10. CASE DieKnown
    <2>1. pos < End /\ Die(cache) /\ dfa' = dfa /\ Transition(cache, sid, W[pos + 1]) = DeadState
      BY <1>1, <1>10, SlowPathPlace DEF DieKnown, ReadyToStep, NextByte
    <2>2. pos \in 0..(End - 1) /\ sid \in AnyID /\ call.at <= pos
      BY <1>1, <1>2, <2>1, Before, UnderwayAsked
    <2>3. lastMatch < 0 => Passed(N, call, End + 1)
      BY <2>1, <2>2, StepCarries DEF Underway, Abreast
    <2> QED BY <2>1, <2>3, DieThorough
  <1>11. CASE DeterminizeStep
    BY <1>11, DeterminizeStepThorough
  <1>12. CASE RestartAfterClear
    BY <1>1, <1>12 DEF RestartAfterClear
  <1>13. CASE EndOfInput
    <2> DEFINE found == Current # NoState /\ CheckEOIMatch(N, Current.nfaStates, Current.isFromWord)
    <2>1. pos = End /\ dfa' = dfa /\ Return(IF found THEN End ELSE lastMatch, "dfa")
      BY <1>13 DEF EndOfInput
    <2>2. ASSUME lastMatch < 0
          PROVE  Passed(N, call, End) /\ (~found => Passed(N, call, End + 1))
      <3>1. Carried(N, call, cache, sid, End)
        BY <2>1, <2>2 DEF Underway, Abreast
      <3>2. /\ Passed(N, call, End) /\ Carries(N, call, cache.stateList[sid.row + 1], End)
            /\ sid.tag \in SUBSET {"match", "start"}
            /\ sid.row + 1 \in 1..Len(cache.stateList) /\ cache.stateList[sid.row + 1] # NoState
        BY <1>2, <3>1 DEF Carried
      <3>3. Current = cache.stateList[sid.row + 1]
        <4>1. sid.row \in Nat /\ Len(cache.stateList) \in Nat /\ sid.tag \cap {"invalid", "dead"} = {}
          <5>1. sid \in AnyID /\ cache.stateList \in Seq(State(N))
            BY <1>1, Before DEF Sound, Typed
          <5> QED BY <3>2, <5>1 DEF AnyID
        <4> QED BY <3>2, <4>1 DEF Current, GetState
      <3>4. Current \in State(N) /\ Current # NoState /\ Carries(N, call, Current, End)
        BY <1>1, <3>2, <3>3, Before
      <3>5. ~found => ~CheckEOIMatch(N, Current.nfaStates, Current.isFromWord)
        BY <3>4
      <3> HIDE DEF found
      <3> QED BY <3>2, <3>4, <3>5, EndPassed
    <2> HIDE DEF found
    <2>3. At("SearchFirstAt") => lastMatch < 0
      BY DEF Underway, Abreast
    <2>4. CASE found
      <3>1. Concluded(End)
        BY <1>2, <2>2, <2>3 DEF Concluded
      <3> QED BY <1>2, <2>1, <2>4, <3>1, ReturnThorough
    <2>5. CASE ~found
      <3>1. Concluded(lastMatch)
        BY <1>2, <2>2, <2>3, <2>5 DEF Concluded
      <3> QED BY <1>2, <2>1, <2>5, <3>1, ReturnThorough
    <2> QED BY <2>4, <2>5
  <1> QED BY <1>3, <1>4, <1>5, <1>6, <1>7, <1>8, <1>9, <1>10, <1>11, <1>12, <1>13 DEF SearchStep

-----------------------------------------------------------------------------
(* A new search begins where its paths do.                                 *)
LEMMA NewSearchThorough ==
  ASSUME IInv, NewSearch
  PROVE  Thorough'
  <1>1. PICK c \in Calls[dfa.pattern] :
          SearchAtEnd(c) \/ RefuseAnchored(c) \/ NoCandidate(c) \/ Search(c)
    BY DEF NewSearch
  <1>2. Request(c) => call' = c /\ dfa' = dfa /\ N' = N /\ (c.op = "FindAt" => HasPrefilter)
    BY DEF Request, N
  <1>3. CASE Search(c) /\ c.op # "FindAt"
    <2> DEFINE r == StartAt(cache, c.hay, c.at, c.op = "SearchAtAnchored")
    <2>1. /\ cache' = r.cache /\ sid' = r.id /\ pos' = c.at /\ pc' = "loop" /\ lastMatch' = -1
          /\ call' = c /\ dfa' = dfa /\ c.at < Len(c.hay)
      BY <1>3 DEF Search, Begin, Request
    <2>2. Asked(c) /\ Built /\ Sound(N, config, cache)
      BY CallFacts, DfaIsBuilt DEF IInv, Asked, CacheOK
    <2>3. Carried(N, c, r.cache, r.id, c.at)
      BY <2>1, <2>2, StartCarries
    <2> HIDE DEF r
    <2> QED BY <2>1, <2>3 DEF Thorough, Abreast, Answered, N
  <1>4. CASE c.op = "FindAt" /\ Request(c)
    <2>1. HasPrefilter /\ call'.op = "FindAt" /\ dfa' = dfa
      BY <1>2, <1>4
    <2>2. UsesPrefilter'
      BY <2>1 DEF UsesPrefilter, HasPrefilter, At
    <2> QED BY <2>2 DEF Thorough, Plain
  <1>5. CASE SearchAtEnd(c)
    BY <1>5 DEF SearchAtEnd, Request, Thorough, Answered
  <1>6. CASE RefuseAnchored(c)
    <2>1. Refused(c) /\ call' = c /\ N' = N
      BY <1>2, <1>6 DEF RefuseAnchored
    <2>2. Refused(call)'
      BY <2>1 DEF Refused
    <2> QED BY <2>2 DEF Thorough, Plain
  <1> QED BY <1>1, <1>3, <1>4, <1>5, <1>6 DEF NoCandidate, Search

(* The invariant implies the property.                                     *)
LEMMA ThoroughMisses ==
  ASSUME IInv, Thorough, Plain
  PROVE  MissesNothing
  <1> SUFFICES ASSUME Answered({"dfa"}), cache.clearCount = 0
               PROVE  \A e \in EndsFrom(call.at) :
                        answer.end # -1 /\ (At("SearchFirstAt") => answer.end <= e)
    BY DEF MissesNothing
  <1>1. /\ dfa.pattern \in Pattern /\ N = Automaton[dfa.pattern] /\ Validate(N) /\ Patched(N)
    BY DfaIsBuilt, BuiltFacts DEF IInv, Built
  <1>2. /\ Asked(call) /\ call.hay = W /\ End = Len(W) /\ End \in Nat
        /\ W \in Haystack(dfa.pattern) \cup {<<>>} /\ answer.end \in -1..End
    BY DEF IInv, CallOK, PlaceOK, Asked, W, End, Haystack
  <1>3. Concluded(answer.end)
    BY DEF Thorough
  <1>4. EndsFrom(call.at) = MatchEnds(N, W, Opening(N, call))
    <2>1. call.at \in 0..Len(W) /\ At("SearchAtAnchored") \in BOOLEAN
      BY <1>2 DEF At, Asked
    <2>2. First(N, call) = IF At("SearchAtAnchored") THEN N.startAnchored ELSE N.startUnanchored
      BY DEF First, At
    <2> QED BY <1>1, <1>2, <2>1, <2>2 DEF EndsFrom, PathEnds, EndsOf, Opening
  <1>5. ASSUME NEW e \in EndsFrom(call.at), NEW i \in Int, Passed(N, call, i) PROVE i <= e
    <2>1. PICK pair \in Reached(N, W, Opening(N, call)) : IsMatchID(N, pair[1]) /\ pair[2] = e
      BY <1>4 DEF MatchEnds
    <2>2. e \in 0..Len(W)
      BY <1>4 DEF MatchEnds
    <2>3. ~(e < i)
      BY <1>2, <1>5, <2>1 DEF Passed
    <2> QED BY <1>2, <2>2, <2>3
  <1>6. ASSUME NEW e \in EndsFrom(call.at) PROVE e \in 0..End
    BY <1>2, <1>4 DEF MatchEnds
  <1>7. ASSUME answer.end = -1, NEW e \in EndsFrom(call.at) PROVE FALSE
    <2>1. Passed(N, call, End + 1)
      BY <1>3, <1>7 DEF Concluded
    <2>2. End + 1 <= e
      BY <1>2, <1>5, <2>1
    <2> QED BY <1>2, <1>6, <2>2
  <1>8. ASSUME At("SearchFirstAt"), NEW e \in EndsFrom(call.at) PROVE answer.end <= e
    <2>1. CASE answer.end >= 0
      <3>1. Passed(N, call, answer.end)
        BY <1>3, <1>8, <2>1 DEF Concluded
      <3> QED BY <1>2, <1>5, <3>1
    <2>2. CASE ~(answer.end >= 0)
      BY <1>2, <1>6, <2>2
    <2> QED BY <2>1, <2>2
  <1> QED BY <1>7, <1>8

(* Until the cache is cleared for the first time, a plain search whose     *)
(* answer is the DFA's overlooks no match.                                 *)
THEOREM NothingIsMissed ==
  ASSUME \A p \in Pattern : Separated(Automaton[p], BytesOf(p))
  PROVE  Spec /\ []ExitBytesLoop /\ []AcceleratedEnd => [](Plain => MissesNothing)
  <1>1. Init => Rows(cache) /\ Truthful /\ Thorough
    <2>1. Init => Rows(cache)
      BY DEF Init, NewCache, Rows, RowsOK
    <2>2. Init => Truthful
      BY DEF Init, Truthful, Answered
    <2>3. Init => Thorough
      BY DEF Init, Thorough, Answered
    <2> QED BY <2>1, <2>2, <2>3
  <1>2. /\ IInv /\ Rows(cache) /\ Truthful /\ Thorough /\ ExitBytesLoop' /\ AcceleratedEnd' /\ [Next]_vars
        => Rows(cache)' /\ Truthful' /\ Thorough'
    <2> SUFFICES ASSUME IInv, Rows(cache), Truthful, Thorough, ExitBytesLoop', AcceleratedEnd', [Next]_vars
                 PROVE  Rows(cache)' /\ Truthful' /\ Thorough'
      OBVIOUS
    <2>1. Separated(N, SearchedBytes)
      BY DfaIsBuilt DEF IInv, Built, SearchedBytes
    <2>2. Rows(cache)' /\ Truthful'
      BY <2>1, NextKeepsPath
    <2>3. ASSUME NewSearch PROVE Thorough'
      BY <2>3, NewSearchThorough
    <2>4. ASSUME SearchStep PROVE Thorough'
      <3>1. pc # "idle" /\ dfa' = dfa
        BY <2>4, SearchStepRuns, StepEnds
      <3>2. ASSUME cache.clearCount = 0, Plain PROVE Thorough'
        <4>1. Underway
          BY <3>1, <3>2 DEF Underway, Going, Truthful, Thorough
        <4> QED BY <2>1, <2>4, <4>1, SearchStepThorough
      <3>3. ASSUME cache.clearCount # 0 PROVE Thorough'
        BY <2>1, <2>4, <3>3, AfterClear, FallbackThorough DEF Thorough
      <3>4. ASSUME ~Plain PROVE Thorough'
        <4>1. call' = call
          BY <2>4, StepAsks
        <4> QED BY <3>1, <3>4, <4>1 DEF Thorough, Plain, UsesPrefilter, HasPrefilter, At, N, Refused, ForwardLoop
      <3> QED BY <3>2, <3>3, <3>4
    <2>5. ASSUME UNCHANGED vars PROVE Thorough'
      BY <2>5 DEF vars, Thorough, Plain, UsesPrefilter, HasPrefilter, At, N, Refused, Answered,
                  Concluded, Abreast, End, W
    <2> QED BY <2>2, <2>3, <2>4, <2>5 DEF Next
  <1>3. IInv /\ Thorough => (Plain => MissesNothing)
    BY ThoroughMisses
  <1> QED BY <1>1, <1>2, <1>3, Invariant, PTL DEF Spec
===============================================================================
