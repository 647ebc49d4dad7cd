----------------------------- MODULE FindAllProofs -----------------------------
(***************************************************************************)
(* Proofs about the loops over matches, for any patterns, haystacks and    *)
(* limits, and any engine whose answers are where they were asked for.     *)
(***************************************************************************)
EXTENDS FindAll, TLAPS

(* While a loop runs, its next search begins in the haystack.              *)
LoopRuns ==
  /\ pattern \in DOMAIN Loops /\ engine = Find[pattern]
  /\ pc \in {"idle", "loop"}
  /\ matches \in Seq(Match)
  /\ lastMatchEnd \in Int
  /\ pc = "loop" => loop \in Loops[pattern] /\ pos \in 0..Len(Source)

(* What the loop knows of the last match: it is behind the position if it  *)
(* was empty, else its end is remembered.  Not so the iterator: it goes on *)
(* from the end of an empty match.                                         *)
Iterates == loop.kind = "iterator"
Last == matches[Len(matches)]
LastKnown ==
  pc = "loop" /\ matches # <<>> /\ ~Iterates =>
    IF IsEmpty(Last) THEN Last.end < pos ELSE Last.end = lastMatchEnd

DisjointUnlessIterated == ~Iterates => Disjoint

IInv == LoopRuns /\ BehindPosition /\ LastKnown /\ DisjointUnlessIterated

-----------------------------------------------------------------------------
(* The answer of the engine, with or without its groups.                   *)
LEMMA NextMatchFits ==
  ASSUME EngineAnswers, LoopRuns, pc = "loop"
  PROVE  IsAnswer(NextMatch, pos, Len(Source))
<1> DEFINE m == engine[Source][pos]
<1>1. IsAnswer(m, pos, Len(Source))
  BY DEF EngineAnswers, LoopRuns, Source
<1>2. CASE WantsGroups
  BY <1>1, <1>2 DEF NextMatch
<1>3. CASE ~WantsGroups
  <2>1. NextMatch = [m EXCEPT !.groups = <<>>]
    BY <1>3 DEF NextMatch
  <2>2. CASE m = NotFound
    <3>1. NextMatch = NotFound
      BY <2>1, <2>2 DEF NotFound
    <3> QED BY <3>1 DEF IsAnswer
  <2>3. CASE m # NotFound
    <3>1. m \in Match /\ pos <= m.start /\ m.start <= m.end /\ m.end <= Len(Source)
      BY <1>1, <2>3 DEF IsAnswer
    <3>2. <<>> \in Seq(Int \X Int)
      OBVIOUS
    <3>3. NextMatch \in Match /\ NextMatch.start = m.start /\ NextMatch.end = m.end
      BY <2>1, <3>1, <3>2 DEF Match
    <3> QED BY <3>1, <3>3 DEF IsAnswer
  <2> QED BY <2>2, <2>3
<1> QED BY <1>2, <1>3

(* A turn uses the match and goes on behind it, or stops, or skips it.     *)
Uses(m) ==
  \E next \in Int : \E limit \in Int :
    /\ UseMatch(m, next, limit)
    /\ next > pos /\ next >= m.end
    /\ ~Iterates => next = Advance(m)
Quits(m) ==
  \/ Stop(m)
  \/ Iterates /\ Abandon(m)

(* Advancing moves beyond the position and to the end of the match at      *)
(* least.                                                                  *)
LEMMA AdvanceMoves ==
  ASSUME NEW m \in Match, pos \in Nat, pos <= m.start, m.start <= m.end
  PROVE  Advance(m) \in Int /\ Advance(m) > pos /\ Advance(m) >= m.end
BY DEF Advance, IsEmpty, Match

(* A turn of a collecting loop stops, skips or uses its match.             *)
LEMMA CollectUses ==
  ASSUME NEW m, NEW limit \in Int, IsAnswer(m, pos, Len(Source)), pos \in Nat, Collect(m, limit)
  PROVE  Stop(m) \/ SkipEmpty(m) \/ Uses(m)
<1>1. ASSUME UseMatch(m, Advance(m), limit)
      PROVE  Uses(m)
  <2>1. m \in Match /\ pos <= m.start /\ m.start <= m.end
    BY <1>1 DEF UseMatch, IsAnswer
  <2>2. Advance(m) \in Int /\ Advance(m) > pos /\ Advance(m) >= m.end
    BY <2>1, AdvanceMoves
  <2> QED BY <1>1, <2>2 DEF Uses
<1> QED BY <1>1 DEF Collect

(* So does a turn of a rewriting loop.                                     *)
LEMMA RewriteUses ==
  ASSUME NEW m, NEW repl, IsAnswer(m, pos, Len(Source)), pos \in Nat, Rewrite(m, repl)
  PROVE  Stop(m) \/ SkipEmpty(m) \/ Uses(m)
<1>1. ASSUME UseMatch(m, Advance(m), -1)
      PROVE  Uses(m)
  <2>1. m \in Match /\ pos <= m.start /\ m.start <= m.end
    BY <1>1 DEF UseMatch, IsAnswer
  <2>2. Advance(m) \in Int /\ Advance(m) > pos /\ Advance(m) >= m.end
    BY <2>1, AdvanceMoves
  <2> QED BY <1>1, <2>2 DEF Uses
<1> QED BY <1>1 DEF Rewrite

(* So does a turn of an iterator.                                          *)
LEMMA IteratorUses ==
  ASSUME NEW m, IsAnswer(m, pos, Len(Source)), pos \in Nat, AllIndex(m)
  PROVE  Quits(m) \/ SkipEmpty(m) \/ Uses(m)
<1> DEFINE next == IF m.end = pos THEN pos + 1 ELSE m.end
<1>0. Iterates
  BY DEF AllIndex, Iterates
<1>1. ASSUME UseMatch(m, next, -1)
      PROVE  Uses(m)
  <2>1. m \in Match /\ pos <= m.start /\ m.start <= m.end
    BY <1>1 DEF UseMatch, IsAnswer
  <2>2. next \in Int /\ next > pos /\ next >= m.end
    BY <2>1 DEF Match
  <2> HIDE DEF next
  <2> QED BY <1>0, <1>1, <2>2 DEF Uses
<1> QED BY <1>0, <1>1 DEF AllIndex, Quits

(* All loops, with the answer they get.                                    *)
LEMMA TurnUses ==
  ASSUME EngineAnswers, LoopRuns, Turn
  PROVE  /\ Quits(NextMatch) \/ SkipEmpty(NextMatch) \/ Uses(NextMatch)
         /\ UNCHANGED <<pattern, engine, loop>>
<1> DEFINE m == NextMatch
<1>1. pc = "loop" /\ Take(m)
  BY DEF Turn
<1>2. IsAnswer(m, pos, Len(Source)) /\ pos \in Nat
  BY <1>1, NextMatchFits DEF LoopRuns
<1>3. loop.n \in Int
  BY <1>1 DEF LoopRuns, EngineAnswers
<1>4. IndicesLimit \in Int
  BY <1>3 DEF IndicesLimit
<1> HIDE DEF m
<1> SUFFICES Quits(m) \/ SkipEmpty(m) \/ Uses(m)
  BY <1>1 DEF Take, m
<1>5. CASE FindAllIndices(m)
  BY <1>2, <1>4, <1>5, CollectUses DEF FindAllIndices, Quits
<1>6. CASE Count(m)
  BY <1>2, <1>3, <1>6, CollectUses DEF Count, Quits
<1>7. CASE FindAllSubmatch(m)
  BY <1>2, <1>3, <1>7, CollectUses DEF FindAllSubmatch, Quits
<1>8. CASE Split(m)
  <2>1. PICK limit \in {-1, 1} : Collect(m, limit)
    BY <1>8 DEF Split
  <2> QED BY <1>2, <2>1, CollectUses DEF Quits
<1>9. CASE ReplaceAllLiteral(m)
  BY <1>2, <1>9, RewriteUses DEF ReplaceAllLiteral, Quits
<1>10. CASE ReplaceAllLiteralString(m)
  BY <1>2, <1>10, RewriteUses DEF ReplaceAllLiteralString, Quits
<1>11. CASE ReplaceAllFunc(m)
  BY <1>2, <1>11, RewriteUses DEF ReplaceAllFunc, Quits
<1>12. CASE ReplaceAllStringFunc(m)
  BY <1>2, <1>12, RewriteUses DEF ReplaceAllStringFunc, Quits
<1>13. CASE ReplaceAll(m)
  BY <1>2, <1>13, RewriteUses DEF ReplaceAll, Quits
<1>14. CASE AllIndex(m)
  BY <1>2, <1>14, IteratorUses
<1> QED BY <1>1, <1>5, <1>6, <1>7, <1>8, <1>9, <1>10, <1>11, <1>12, <1>13, <1>14 DEF Take
-----------------------------------------------------------------------------
(* The invariant.                                                          *)
LEMMA InitHolds == Init => IInv
<1> SUFFICES ASSUME Init PROVE IInv
  OBVIOUS
<1>1. matches = <<>> /\ Len(matches) = 0 /\ DOMAIN matches = {} /\ pc = "idle"
  BY DEF Init
<1>2. LoopRuns
  BY <1>1 DEF Init, LoopRuns
<1> QED BY <1>1, <1>2 DEF IInv, BehindPosition, LastKnown, DisjointUnlessIterated, Disjoint

(* A loop begins.                                                          *)
LEMMA BeginKeeps ==
  ASSUME EngineAnswers, IInv, NewLoop
  PROVE  IInv'
<1>1. PICK c \in Loops[pattern] : Begin(c)
  BY DEF NewLoop
<1>2. matches' = <<>> /\ Len(matches') = 0 /\ DOMAIN matches' = {}
  BY <1>1 DEF Begin
<1>3. loop' = c /\ pos' = 0 /\ c.hay \in Seq(Nat)
  BY <1>1 DEF Begin, IInv, LoopRuns, EngineAnswers
<1>4. 0 \in 0..Len(c.hay)
  BY <1>3
<1>5. LoopRuns'
  BY <1>1, <1>2, <1>3, <1>4 DEF Begin, IInv, LoopRuns, Source
<1> QED BY <1>2, <1>5 DEF IInv, BehindPosition, LastKnown, DisjointUnlessIterated, Disjoint

(* A loop ends.                                                            *)
LEMMA QuitKeeps ==
  ASSUME IInv, pc = "loop", NEW m, IsAnswer(m, pos, Len(Source)), Quits(m),
         UNCHANGED <<pattern, engine, loop>>
  PROVE  IInv'
<1>1. pc' = "idle" /\ UNCHANGED <<pos, lastMatchEnd>>
  BY DEF Quits, Stop, Abandon
<1>2. CASE Stop(m)
  <2>1. matches' = matches
    BY <1>2 DEF Stop
  <2> QED BY <1>1, <2>1
          DEF IInv, LoopRuns, BehindPosition, LastKnown, DisjointUnlessIterated, Disjoint, Iterates
<1>3. CASE Iterates /\ Abandon(m)
  <2>1. m \in Match /\ matches' = Append(matches, m)
    BY <1>3 DEF Abandon, IsAnswer
  <2>2. matches' \in Seq(Match)
    BY <2>1 DEF IInv, LoopRuns
  <2> QED BY <1>1, <1>3, <2>2
          DEF IInv, LoopRuns, BehindPosition, LastKnown, DisjointUnlessIterated, Iterates
<1> QED BY <1>2, <1>3 DEF Quits

(* A loop skips an empty match.                                            *)
LEMMA SkipKeeps ==
  ASSUME IInv, pc = "loop", NEW m, SkipEmpty(m), UNCHANGED <<pattern, engine, loop>>
  PROVE  IInv'
<1>1. pos' = pos + 1 /\ UNCHANGED <<lastMatchEnd, matches>>
  BY DEF SkipEmpty, Past
<1>2. pos \in 0..Len(Source) /\ Len(Source) \in Nat /\ Source' = Source
  BY DEF IInv, LoopRuns, Source
<1>3. pc' \in {"idle", "loop"} /\ (pc' = "loop" => pos + 1 <= Len(Source))
  BY DEF SkipEmpty, Past
<1>4. LoopRuns'
  BY <1>1, <1>2, <1>3 DEF IInv, LoopRuns
<1>5. BehindPosition'
  <2> SUFFICES ASSUME NEW k \in DOMAIN matches, pc' = "loop" PROVE matches[k].end <= pos'
    BY <1>1 DEF BehindPosition
  <2>1. matches[k] \in Match /\ matches[k].end <= pos
    BY DEF IInv, LoopRuns, BehindPosition
  <2> QED BY <1>1, <1>2, <2>1 DEF Match
<1>6. LastKnown'
  <2> SUFFICES ASSUME matches # <<>>, ~Iterates
               PROVE  IF IsEmpty(Last) THEN Last.end < pos' ELSE Last.end = lastMatchEnd
    BY <1>1 DEF LastKnown, Iterates, Last, IsEmpty
  <2>1. Last \in Match
    BY DEF IInv, LoopRuns, Last
  <2> QED BY <1>1, <1>2, <2>1 DEF IInv, LastKnown, Match
<1>7. DisjointUnlessIterated'
  BY <1>1 DEF IInv, DisjointUnlessIterated, Disjoint, Iterates
<1> QED BY <1>4, <1>5, <1>6, <1>7 DEF IInv

(* A match that does not touch the one before it ends behind it.           *)
LEMMA UseIsDisjoint ==
  ASSUME IInv, pc = "loop", ~Iterates, NEW m \in Match, ~Touches(m),
         pos <= m.start, m.start <= m.end
  PROVE  \A k \in 1..Len(Append(matches, m)) - 1 :
           /\ Append(matches, m)[k].end <= Append(matches, m)[k + 1].start
           /\ Append(matches, m)[k + 1].end > Append(matches, m)[k].end
<1> DEFINE ms == Append(matches, m)
<1>1. matches \in Seq(Match) /\ Len(ms) = Len(matches) + 1
  BY DEF IInv, LoopRuns
<1> SUFFICES ASSUME NEW k \in 1..Len(matches)
             PROVE  ms[k].end <= ms[k + 1].start /\ ms[k + 1].end > ms[k].end
  BY <1>1
<1>2. CASE k < Len(matches)
  <2>1. ms[k] = matches[k] /\ ms[k + 1] = matches[k + 1] /\ k \in 1..Len(matches) - 1
    BY <1>1, <1>2
  <2> QED BY <2>1 DEF IInv, DisjointUnlessIterated, Disjoint
<1>3. CASE k = Len(matches)
  <2>1. ms[k] = Last /\ ms[k + 1] = m /\ matches # <<>> /\ Last \in Match
    BY <1>1, <1>3 DEF Last
  <2>2. Last.end <= pos
    BY <1>1, <1>3 DEF IInv, BehindPosition, Last
  <2>3. IF IsEmpty(Last) THEN Last.end < pos ELSE Last.end = lastMatchEnd
    BY <2>1 DEF IInv, LastKnown
  <2>4. pos \in Nat
    BY DEF IInv, LoopRuns
  <2>5. IsEmpty(m) => m.start # lastMatchEnd
    BY DEF Touches
  <2> QED BY <2>1, <2>2, <2>3, <2>4, <2>5 DEF Match, IsEmpty
<1> QED BY <1>1, <1>2, <1>3

(* A loop uses a match.                                                    *)
LEMMA UseKeeps ==
  ASSUME IInv, pc = "loop", NEW m, IsAnswer(m, pos, Len(Source)), Uses(m),
         UNCHANGED <<pattern, engine, loop>>
  PROVE  IInv'
<1>1. PICK next \in Int : \E limit \in Int :
        UseMatch(m, next, limit) /\ next > pos /\ next >= m.end /\ (~Iterates => next = Advance(m))
  BY DEF Uses
<1>2. m \in Match /\ pos <= m.start /\ m.start <= m.end
  BY <1>1 DEF UseMatch, IsAnswer
<1>3. /\ ~Touches(m) /\ matches' = Append(matches, m) /\ pos' = next
      /\ lastMatchEnd' = IF IsEmpty(m) THEN lastMatchEnd ELSE m.end
      /\ pc' \in {"idle", "loop"} /\ (pc' = "loop" => ~(next > Len(Source)))
  BY <1>1 DEF UseMatch
<1>4. /\ matches \in Seq(Match) /\ pos \in 0..Len(Source) /\ Len(Source) \in Nat
      /\ Source' = Source /\ lastMatchEnd \in Int
  BY DEF IInv, LoopRuns, Source
<1>5. /\ matches' \in Seq(Match) /\ Len(matches') = Len(matches) + 1
      /\ \A k \in 1..Len(matches) : matches'[k] = matches[k]
      /\ matches'[Len(matches) + 1] = m
  BY <1>2, <1>3, <1>4
<1>6. LoopRuns'
  <2>1. lastMatchEnd' \in Int
    BY <1>2, <1>3, <1>4 DEF Match
  <2>2. pc' = "loop" => pos' \in 0..Len(Source)
    BY <1>1, <1>3, <1>4
  <2> QED BY <1>3, <1>4, <1>5, <2>1, <2>2 DEF IInv, LoopRuns
<1>7. BehindPosition'
  <2> SUFFICES ASSUME NEW k \in 1..Len(matches) + 1 PROVE matches'[k].end <= pos'
    BY <1>5 DEF BehindPosition
  <2>1. CASE k = Len(matches) + 1
    BY <1>1, <1>3, <1>5, <2>1
  <2>2. CASE k \in 1..Len(matches)
    <3>1. matches[k] \in Match /\ matches[k].end <= pos
      BY <1>4, <2>2 DEF IInv, BehindPosition
    <3>2. matches[k].end \in Nat
      BY <3>1 DEF Match
    <3>3. pos' > pos /\ pos' \in Int /\ pos \in Int
      BY <1>1, <1>3, <1>4
    <3>4. matches[k].end <= pos'
      BY <3>1, <3>2, <3>3
    <3> QED BY <1>5, <2>2, <3>4
  <2> QED BY <1>4, <2>1, <2>2
<1>8. LastKnown'
  <2> SUFFICES ASSUME ~Iterates
               PROVE  IF IsEmpty(m) THEN m.end < pos' ELSE m.end = lastMatchEnd'
    BY <1>5 DEF LastKnown, Iterates, Last, IsEmpty
  <2>1. next = Advance(m)
    BY <1>1
  <2> QED BY <1>2, <1>3, <2>1 DEF Advance, Match
<1>9. DisjointUnlessIterated'
  <2> SUFFICES ASSUME ~Iterates PROVE Disjoint'
    BY DEF DisjointUnlessIterated, Iterates
  <2> QED BY <1>2, <1>3, UseIsDisjoint DEF Disjoint
<1> QED BY <1>6, <1>7, <1>8, <1>9 DEF IInv

(* Every step keeps the invariant.                                         *)
LEMMA StepKeeps ==
  ASSUME EngineAnswers, IInv, [Next]_vars
  PROVE  IInv'
<1>1. CASE NewLoop
  BY <1>1, BeginKeeps
<1>2. CASE Turn
  <2>1. LoopRuns /\ pc = "loop"
    BY <1>2 DEF IInv, Turn
  <2>2. IsAnswer(NextMatch, pos, Len(Source))
    BY <2>1, NextMatchFits
  <2>3. /\ Quits(NextMatch) \/ SkipEmpty(NextMatch) \/ Uses(NextMatch)
        /\ UNCHANGED <<pattern, engine, loop>>
    BY <1>2, <2>1, TurnUses
  <2> QED BY <2>1, <2>2, <2>3, QuitKeeps, SkipKeeps, UseKeeps
<1>3. CASE UNCHANGED vars
  BY <1>3 DEF vars, IInv, LoopRuns, BehindPosition, LastKnown, Last, DisjointUnlessIterated,
              Disjoint, Iterates, Source, IsEmpty
<1> QED BY <1>1, <1>2, <1>3 DEF Next

(* The invariant holds.                                                    *)
LEMMA InvHolds == ASSUME EngineAnswers PROVE Spec => []IInv
<1>1. Init => IInv
  BY InitHolds
<1>2. IInv /\ [Next]_vars => IInv'
  BY StepKeeps
<1> QED BY <1>1, <1>2, PTL DEF Spec

-----------------------------------------------------------------------------
(* FindAll, Count, Split and the replacements never report two matches     *)
(* that overlap, and none twice, whatever the pattern and its engine; of   *)
(* the iterators this is not true when an empty match is found behind the  *)
(* position.                                                               *)
THEOREM MatchesDisjoint == ASSUME EngineAnswers PROVE Spec => [](~Iterates => Disjoint)
<1>1. IInv => (~Iterates => Disjoint)
  BY DEF IInv, DisjointUnlessIterated
<1> QED BY <1>1, InvHolds, PTL

(* No loop, the iterators included, searches in front of the end of a      *)
(* match it has used.                                                      *)
THEOREM NeverBack == ASSUME EngineAnswers PROVE Spec => []BehindPosition
<1>1. IInv => BehindPosition
  BY DEF IInv
<1> QED BY <1>1, InvHolds, PTL

(* Every turn of every loop moves the position on or ends the loop, so     *)
(* that no loop has more turns than the haystack has positions.            *)
THEOREM Progress == ASSUME EngineAnswers PROVE Spec => Forward
<1>1. IInv /\ [Next]_vars => [pc = "loop" => pos' > pos \/ pc' = "idle"]_vars
  <2> SUFFICES ASSUME IInv, Next, pc = "loop" PROVE pos' > pos \/ pc' = "idle"
    OBVIOUS
  <2>1. Turn
    BY DEF Next, NewLoop, Begin
  <2>2. Quits(NextMatch) \/ SkipEmpty(NextMatch) \/ Uses(NextMatch)
    BY <2>1, TurnUses DEF IInv
  <2>3. pos \in Nat
    BY DEF IInv, LoopRuns
  <2>4. CASE Quits(NextMatch)
    BY <2>4 DEF Quits, Stop, Abandon
  <2>5. CASE SkipEmpty(NextMatch)
    BY <2>3, <2>5 DEF SkipEmpty, Past
  <2>6. CASE Uses(NextMatch)
    BY <2>6 DEF Uses, UseMatch
  <2> QED BY <2>2, <2>4, <2>5, <2>6
<1> QED BY <1>1, InvHolds, PTL DEF Spec, Forward
-----------------------------------------------------------------------------
(* What a replacement returns.                                             *)
Replaces == loop.kind \in {"replaceLiteral", "replaceLiteralString", "replaceFunc",
                           "replaceStringFunc", "replaceAll"}

(* What is put in the place of a match.                                    *)
Inserted(m) ==
  CASE loop.kind \in {"replaceFunc", "replaceStringFunc"} -> loop.repl \o Text(m.start, m.end)
    [] Expands -> Expand(loop.repl, m)
    [] OTHER -> loop.repl
Insert == [m \in Match |-> Inserted(m)]

(* parts[k]: the haystack w up to the end of the kth match, rewritten.     *)
EndOf(ms, k) == IF k = 0 THEN 0 ELSE ms[k].end
Between(w, from, to) == SubSeq(w, from + 1, to)
IsRewritten(parts, ms, w, insert) ==
  /\ parts[0] = <<>>
  /\ \A k \in 1..Len(ms) :
       parts[k] = parts[k - 1] \o Between(w, EndOf(ms, k - 1), ms[k].start) \o insert[ms[k]]
RewrittenUpTo(ms, w, insert, text) ==
  \E parts : IsRewritten(parts, ms, w, insert) /\ text = parts[Len(ms)]

(* The whole haystack is rewritten: every match is replaced, and what is   *)
(* before, between and after the matches is copied.                        *)
RewrittenWhole(ms, w, insert, text) ==
  \E done : /\ RewrittenUpTo(ms, w, insert, done)
            /\ text = done \o Between(w, EndOf(ms, Len(ms)), Len(w))
Rewritten == RewrittenWhole(matches, Source, Insert, out)

(* While it runs, all is rewritten up to the last match.                   *)
RewrittenSoFar ==
  Replaces => /\ lastEnd = EndOf(matches, Len(matches))
              /\ pc = "loop" => RewrittenUpTo(matches, Source, Insert, out)
              /\ pc = "idle" /\ loop.n # 0 => Rewritten

(* A turn of a replacement is a Rewrite.                                   *)
LEMMA ReplacesByRewrite ==
  ASSUME NEW m, Take(m), Replaces
  PROVE  Rewrite(m, Inserted(m))
<1>1. ~(FindAllIndices(m) \/ Count(m) \/ FindAllSubmatch(m) \/ Split(m) \/ AllIndex(m))
  BY DEF Replaces, FindAllIndices, Count, FindAllSubmatch, Split, AllIndex
<1>2. loop.kind # "replaceAll" => ~Expands
  BY DEF Expands
<1>3. loop.kind \in {"replaceLiteral", "replaceLiteralString"} => Inserted(m) = loop.repl
  BY <1>2 DEF Inserted
<1>4. loop.kind \in {"replaceFunc", "replaceStringFunc"} =>
        Inserted(m) = loop.repl \o Text(m.start, m.end)
  BY <1>2 DEF Inserted
<1>5. loop.kind = "replaceAll" =>
        Inserted(m) = IF Expands THEN Expand(loop.repl, m) ELSE loop.repl
  BY DEF Inserted
<1>6. CASE ReplaceAllLiteral(m)
  BY <1>3, <1>6 DEF ReplaceAllLiteral
<1>7. CASE ReplaceAllLiteralString(m)
  BY <1>3, <1>7 DEF ReplaceAllLiteralString
<1>8. CASE ReplaceAllFunc(m)
  BY <1>4, <1>8 DEF ReplaceAllFunc
<1>9. CASE ReplaceAllStringFunc(m)
  BY <1>4, <1>9 DEF ReplaceAllStringFunc
<1>10. CASE ReplaceAll(m)
  BY <1>5, <1>10 DEF ReplaceAll
<1> QED BY <1>1, <1>6, <1>7, <1>8, <1>9, <1>10 DEF Take

(* What a loop inserts depends on nothing that a turn changes.             *)
LEMMA SameInsert ==
  ASSUME loop' = loop
  PROVE  Insert' = Insert /\ Source' = Source /\ (Replaces' <=> Replaces)
<1>1. Source' = Source /\ (Replaces' <=> Replaces) /\ (Expands' <=> Expands)
  BY DEF Source, Replaces, Expands
<1>2. \A i, j : Text(i, j)' = Text(i, j)
  BY DEF Text, Source
<1>3. \A m \in Match : Expand(loop.repl, m)' = Expand(loop.repl, m)
  BY DEF Expand, GroupText, Text, Source
<1>4. \A m \in Match : Inserted(m)' = Inserted(m)
  BY <1>1, <1>2, <1>3 DEF Inserted
<1> QED BY <1>1, <1>4 DEF Insert

(* One more match is rewritten.                                            *)
LEMMA OneMoreRewritten ==
  ASSUME NEW ms \in Seq(Match), NEW m \in Match, NEW w, NEW insert, NEW text,
         RewrittenUpTo(ms, w, insert, text)
  PROVE  RewrittenUpTo(Append(ms, m), w, insert,
                       text \o Between(w, EndOf(ms, Len(ms)), m.start) \o insert[m])
<1> DEFINE n == Len(ms)
           next == Append(ms, m)
           new == text \o Between(w, EndOf(ms, n), m.start) \o insert[m]
<1>1. PICK parts : IsRewritten(parts, ms, w, insert) /\ text = parts[n]
  BY DEF RewrittenUpTo
<1> DEFINE more == [k \in 0..(n + 1) |-> IF k = n + 1 THEN new ELSE parts[k]]
<1>2. /\ n \in Nat /\ Len(next) = n + 1 /\ next[n + 1] = m
      /\ \A k \in 1..n : next[k] = ms[k]
  OBVIOUS
<1>3. \A k \in 0..n : EndOf(next, k) = EndOf(ms, k)
  BY <1>2 DEF EndOf
<1>4. new = parts[n] \o Between(w, EndOf(ms, n), m.start) \o insert[m]
  BY <1>1
<1>5. parts[0] = <<>> /\ \A k \in 1..n :
        parts[k] = parts[k - 1] \o Between(w, EndOf(ms, k - 1), ms[k].start) \o insert[ms[k]]
  BY <1>1 DEF IsRewritten
<1> SUFFICES RewrittenUpTo(next, w, insert, new)
  OBVIOUS
<1> HIDE DEF n, next, new
<1>6. more[n + 1] = new /\ \A k \in 0..n : more[k] = parts[k]
  BY <1>2
<1> HIDE DEF more
<1>7. more[0] = <<>>
  BY <1>2, <1>5, <1>6
<1>8. ASSUME NEW k \in 1..(n + 1)
      PROVE  more[k] = more[k - 1] \o Between(w, EndOf(next, k - 1), next[k].start) \o insert[next[k]]
  <2>1. k - 1 \in 0..n
    BY <1>2
  <2>2. CASE k = n + 1
    <3>1. k - 1 = n
      BY <1>2, <2>2
    <3> QED BY <1>2, <1>3, <1>4, <1>6, <2>1, <2>2, <3>1
  <2>3. CASE k # n + 1
    <3>1. k \in 1..n /\ k \in 0..n
      BY <1>2, <2>3
    <3> QED BY <1>2, <1>3, <1>5, <1>6, <2>1, <3>1
  <2> QED BY <2>2, <2>3
<1>9. IsRewritten(more, next, w, insert) /\ new = more[Len(next)]
  BY <1>2, <1>6, <1>7, <1>8 DEF IsRewritten
<1> QED BY <1>9 DEF RewrittenUpTo

(* A loop that begins has rewritten nothing.                               *)
LEMMA NothingRewritten ==
  ASSUME NEW w, NEW insert
  PROVE  RewrittenUpTo(<<>>, w, insert, <<>>)
<1> DEFINE parts == [k \in {0} |-> <<>>]
<1>1. IsRewritten(parts, <<>>, w, insert) /\ <<>> = parts[Len(<<>>)]
  BY DEF IsRewritten
<1> QED BY <1>1 DEF RewrittenUpTo

(* A turn of a replacement copies what is between two matches.             *)
LEMMA TurnRewrites ==
  ASSUME EngineAnswers, IInv, RewrittenSoFar, Turn, Replaces
  PROVE  RewrittenSoFar'
<1> DEFINE m == NextMatch
           end == EndOf(matches, Len(matches))
<1>1. /\ pc = "loop" /\ Take(m) /\ loop' = loop
      /\ lastEnd = end /\ RewrittenUpTo(matches, Source, Insert, out)
  BY DEF Turn, Take, RewrittenSoFar
<1>2. IsAnswer(m, pos, Len(Source))
  BY <1>1, NextMatchFits DEF IInv
<1> HIDE DEF m
<1>3. Rewrite(m, Inserted(m))
  BY <1>1, ReplacesByRewrite
<1>4. Insert' = Insert /\ Source' = Source /\ Replaces'
  BY <1>1, SameInsert
<1>5. \A i, j : Text(i, j) = Between(Source, i, j)
  BY DEF Text, Between
<1>6. CASE (Stop(m) \/ SkipEmpty(m)) /\ out' = Rest(out, lastEnd)
  <2>1. matches' = matches /\ lastEnd' = lastEnd
    BY <1>6 DEF Stop, SkipEmpty
  <2>2. pc' = "idle" => out' = out \o Between(Source, end, Len(Source))
    BY <1>1, <1>5, <1>6 DEF Rest
  <2>3. pc' # "idle" => out' = out
    BY <1>6 DEF Rest
  <2>4. pc' = "idle" => RewrittenWhole(matches, Source, Insert, out')
    BY <1>1, <2>2 DEF RewrittenWhole
  <2>5. pc' = "loop" => RewrittenUpTo(matches, Source, Insert, out')
    BY <1>1, <2>3
  <2> QED BY <1>1, <1>4, <2>1, <2>4, <2>5 DEF RewrittenSoFar, Rewritten
<1>7. CASE /\ UseMatch(m, Advance(m), -1) /\ lastEnd' = m.end
           /\ out' = Rest(out \o Text(lastEnd, m.start) \o Inserted(m), m.end)
  <2> DEFINE new == out \o Between(Source, end, m.start) \o Insert[m]
  <2>1. m \in Match /\ matches' = Append(matches, m) /\ matches \in Seq(Match)
    BY <1>2, <1>7 DEF UseMatch, IsAnswer, IInv, LoopRuns
  <2>2. Insert[m] = Inserted(m)
    BY <2>1 DEF Insert
  <2>3. out' = Rest(new, m.end)
    BY <1>1, <1>5, <1>7, <2>2
  <2>4. RewrittenUpTo(matches', Source, Insert, new)
    BY <1>1, <2>1, OneMoreRewritten
  <2> HIDE DEF new
  <2>5. EndOf(matches', Len(matches')) = m.end
    BY <2>1 DEF EndOf
  <2>6. pc' = "idle" => out' = new \o Between(Source, m.end, Len(Source))
    BY <1>5, <2>3 DEF Rest
  <2>7. pc' # "idle" => out' = new
    BY <2>3 DEF Rest
  <2>8. pc' = "idle" => RewrittenWhole(matches', Source, Insert, out')
    BY <2>4, <2>5, <2>6 DEF RewrittenWhole
  <2>9. pc' = "loop" => RewrittenUpTo(matches', Source, Insert, out')
    BY <2>4, <2>7
  <2> QED BY <1>4, <1>7, <2>5, <2>8, <2>9 DEF RewrittenSoFar, Rewritten
<1> QED BY <1>3, <1>6, <1>7 DEF Rewrite

(* A replacement, however its matches lie, touch or are empty, returns the *)
(* haystack with every match replaced and every byte outside the matches   *)
(* copied once and in its place: the matches it is put together around do  *)
(* not overlap.                                                            *)
THEOREM ReplacementIsWhole ==
  ASSUME EngineAnswers
  PROVE  Spec => [](Replaces /\ pc = "idle" /\ loop.n # 0 => Rewritten /\ Disjoint)
<1>1. Init => RewrittenSoFar
  BY DEF Init, NoLoop, RewrittenSoFar, Replaces
<1>2. IInv /\ RewrittenSoFar /\ [Next]_vars => RewrittenSoFar'
  <2> SUFFICES ASSUME IInv, RewrittenSoFar, [Next]_vars PROVE RewrittenSoFar'
    OBVIOUS
  <2>1. CASE NewLoop
    <3>1. PICK c \in Loops[pattern] : Begin(c)
      BY <2>1 DEF NewLoop
    <3>2. /\ loop' = c /\ matches' = <<>> /\ out' = <<>> /\ lastEnd' = 0
          /\ pc' = IF c.n = 0 THEN "idle" ELSE "loop"
      BY <3>1 DEF Begin
    <3>3. EndOf(matches', Len(matches')) = 0
      BY <3>2 DEF EndOf
    <3>4. RewrittenUpTo(matches', Source', Insert', out')
      BY <3>2, NothingRewritten
    <3> QED BY <3>2, <3>3, <3>4 DEF RewrittenSoFar
  <2>2. CASE Turn /\ Replaces
    BY <2>2, TurnRewrites
  <2>3. CASE Turn /\ ~Replaces
    <3>1. loop' = loop
      BY <2>3 DEF Turn, Take
    <3> QED BY <2>3, <3>1, SameInsert DEF RewrittenSoFar
  <2>4. CASE UNCHANGED vars
    <3>1. /\ loop' = loop /\ pc' = pc /\ matches' = matches /\ lastEnd' = lastEnd /\ out' = out
      BY <2>4 DEF vars
    <3> QED BY <3>1, SameInsert DEF RewrittenSoFar, Rewritten
  <2> QED BY <2>1, <2>2, <2>3, <2>4 DEF Next
<1>3. IInv /\ RewrittenSoFar => (Replaces /\ pc = "idle" /\ loop.n # 0 => Rewritten /\ Disjoint)
  BY DEF RewrittenSoFar, IInv, DisjointUnlessIterated, Replaces, Iterates
<1> QED BY <1>1, <1>2, <1>3, InvHolds, PTL DEF Spec
===============================================================================
