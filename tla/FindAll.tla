-------------------------------- MODULE FindAll --------------------------------
(***************************************************************************)
(* The loops of meta/findall.go and regex.go that collect, count, replace  *)
(* or iterate over all the matches of a pattern.  Each of them asks the    *)
(* engine for the next match from a position, decides whether to use it,   *)
(* and moves the position on; they differ in what they do with a match.    *)
(* Here the engine is a table of answers: SearchLoops puts a searching     *)
(* PikeVM in its place.  There is no RECURSIVE operator, so that theorems  *)
(* may be stated about this module.                                        *)
(***************************************************************************)
EXTENDS Integers, Sequences

CONSTANTS
  Find,      \* Find[p][w][i]: the first match of p in w from position i
  Anchored,  \* the patterns that match at the start of the haystack only
  Loops      \* Loops[p]: the loops [kind, hay, n, repl] over pattern p

Kind == {"indices", "count", "submatches", "replaceLiteral", "replaceLiteralString",
         "replaceFunc", "replaceStringFunc", "replaceAll", "split", "iterator"}

VARIABLES
  pattern,        \* the compiled pattern, and
  engine,         \* what it finds, Find[pattern]: they never change
  loop,           \* the latest loop
  pc,             \* "idle", or in the "loop"
  pos,            \* where the next search starts
  lastMatchEnd,   \* where the last match that was not empty ended, or -1
  matches,        \* the matches used so far
  lastEnd,        \* how much of the haystack a replacement has copied
  out             \* what a replacement or a split returns

vars == <<pattern, engine, loop, pc, pos, lastMatchEnd, matches, lastEnd, out>>

NotFound == [start |-> -1, end |-> -1, groups |-> <<>>]
IsEmpty(m) == m.start = m.end
Source == loop.hay
Text(from, to) == SubSeq(Source, from + 1, to)

-----------------------------------------------------------------------------
(* Templates.  "$" and a digit stand for a group, "$$" for a dollar; any   *)
(* other "$" stands for itself, the forms ${name} and $name included.      *)

Dollar == 36
Digit == 48..57
GroupText(m, k) ==
  LET span == IF k = 0 THEN <<m.start, m.end>>
              ELSE IF k \in DOMAIN m.groups THEN m.groups[k] ELSE <<-1, -1>>
  IN  IF span[1] >= 0 THEN Text(span[1], span[2]) ELSE <<>>

Expand(t, m) ==
  LET rest[i \in 1..(Len(t) + 1)] ==
        CASE i > Len(t) -> <<>>
          [] i = Len(t) -> <<t[i]>>
          [] t[i] = Dollar /\ t[i + 1] \in Digit -> GroupText(m, t[i + 1] - 48) \o rest[i + 2]
          [] t[i] = Dollar /\ t[i + 1] = Dollar -> <<Dollar>> \o rest[i + 2]
          [] OTHER -> <<t[i]>> \o rest[i + 1]
  IN  rest[1]

(* A template without a dollar is inserted as it is.                       *)
Expands == loop.kind = "replaceAll" /\ \E k \in DOMAIN loop.repl : loop.repl[k] = Dollar

(* Only these loops look at groups.                                        *)
WantsGroups == loop.kind = "submatches" \/ Expands

-----------------------------------------------------------------------------
(* Split: what is between the matches, except the empty ones at both ends. *)
(* The part that reaches the limit is followed by all the rest.            *)

Parts(found, w, n) ==
  LET part(from, to) == SubSeq(w, from + 1, to)
      rest(from) == <<part(from, Len(w))>>
      from[k \in 1..(Len(found) + 1), last \in 0..Len(w), count \in 0..Len(found)] ==
        IF k > Len(found) THEN rest(last)
        ELSE LET m == found[k]
             IN  CASE last = 0 /\ m.end = 0 -> from[k + 1, last, count]
                   [] m.start = Len(w) -> rest(last)
                   [] n > 0 /\ count + 1 >= n - 1 -> <<part(last, m.start)>> \o rest(m.end)
                   [] OTHER -> <<part(last, m.start)>> \o from[k + 1, m.end, count + 1]
  IN  from[1, 0, 0]

-----------------------------------------------------------------------------
(* What the loops have in common.                                          *)

(* A request for no results returns before the loop.                       *)
Begin(c) ==
  /\ pc = "idle"
  /\ loop' = c
  /\ pc' = IF c.n = 0 THEN "idle" ELSE "loop"
  /\ pos' = 0 /\ lastMatchEnd' = -1
  /\ matches' = <<>> /\ lastEnd' = 0 /\ out' = <<>>
  /\ UNCHANGED <<pattern, engine>>

Stop(m) ==
  /\ m = NotFound
  /\ pc' = "idle"
  /\ UNCHANGED <<pos, lastMatchEnd, matches, lastEnd>>

(* An empty match where a match ended is not a match of its own.           *)
(* Mutant: the position asked for decides, not the end of the last match.  *)
TouchesPosition(m) == IsEmpty(m) /\ m.start = pos /\ pos > 0
Touches(m) == IsEmpty(m) /\ m.start = lastMatchEnd

(* Mutant: the position stays.                                             *)
Stay == pos
Past == pos + 1

SkipEmpty(m) ==
  /\ m # NotFound
  /\ Touches(m)
  /\ pos' = Past
  /\ pc' = IF Past > Len(Source) THEN "idle" ELSE pc
  /\ UNCHANGED <<lastMatchEnd, matches, lastEnd>>

(* Mutants: after an empty match the search goes on from its end, the      *)
(* first time or always.                                                   *)
AdvanceToEnd(m) == IF m.end > pos THEN m.end ELSE pos + 1
AdvanceToSame(m) == m.end
Advance(m) == IF IsEmpty(m) THEN m.end + 1 ELSE IF m.end > pos THEN m.end ELSE pos + 1

(* The loop goes on from position next, unless that is past the end or     *)
(* limit matches have been used.                                           *)
UseMatch(m, next, limit) ==
  /\ m # NotFound
  /\ ~Touches(m)
  /\ matches' = Append(matches, m)
  /\ lastMatchEnd' = IF IsEmpty(m) THEN lastMatchEnd ELSE m.end
  /\ pos' = next
  /\ pc' = IF next > Len(Source) \/ (limit > 0 /\ Len(matches) + 1 >= limit) THEN "idle" ELSE pc

Collect(m, limit) ==
  \/ Stop(m)
  \/ SkipEmpty(m)
  \/ UseMatch(m, Advance(m), limit) /\ UNCHANGED lastEnd

(* What is between two matches is copied; after the last one, the rest.    *)
Rest(done, from) == IF pc' = "idle" THEN done \o Text(from, Len(Source)) ELSE done
Rewrite(m, repl) ==
  \/ (Stop(m) \/ SkipEmpty(m)) /\ out' = Rest(out, lastEnd)
  \/ /\ UseMatch(m, Advance(m), -1)
     /\ lastEnd' = m.end
     /\ out' = Rest(out \o Text(lastEnd, m.start) \o repl, m.end)

-----------------------------------------------------------------------------
(* The loops.  A callback is a function of the text of the match: here it  *)
(* puts repl before it.                                                    *)

(* An anchored pattern is searched for once, without a loop.               *)
IndicesLimit == IF pattern \in Anchored THEN 1 ELSE loop.n
FindAllIndices(m) == loop.kind = "indices" /\ Collect(m, IndicesLimit) /\ UNCHANGED out
Count(m) == loop.kind = "count" /\ Collect(m, loop.n) /\ UNCHANGED out
FindAllSubmatch(m) == loop.kind = "submatches" /\ Collect(m, loop.n) /\ UNCHANGED out

ReplaceAllLiteral(m) == loop.kind = "replaceLiteral" /\ Rewrite(m, loop.repl)
ReplaceAllLiteralString(m) == loop.kind = "replaceLiteralString" /\ Rewrite(m, loop.repl)
ReplaceAllFunc(m) ==
  loop.kind = "replaceFunc" /\ Rewrite(m, loop.repl \o Text(m.start, m.end))
ReplaceAllStringFunc(m) ==
  loop.kind = "replaceStringFunc" /\ Rewrite(m, loop.repl \o Text(m.start, m.end))
ReplaceAll(m) ==
  loop.kind = "replaceAll" /\ Rewrite(m, IF Expands THEN Expand(loop.repl, m) ELSE loop.repl)

(* Split collects all matches and counts the parts afterwards.             *)
Split(m) ==
  /\ loop.kind = "split"
  /\ Collect(m, IF pattern \in Anchored THEN 1 ELSE -1)
  /\ out' = IF pc' = "idle" THEN Parts(matches', Source, loop.n) ELSE out

(* The consumer of an iterator may take no more matches after this one.    *)
Abandon(m) ==
  /\ m # NotFound
  /\ ~Touches(m)
  /\ matches' = Append(matches, m)
  /\ pc' = "idle"
  /\ UNCHANGED <<pos, lastMatchEnd, lastEnd>>
AllIndex(m) ==
  /\ loop.kind = "iterator"
  /\ \/ Stop(m)
     \/ SkipEmpty(m)
     \/ UseMatch(m, IF m.end = pos THEN pos + 1 ELSE m.end, -1) /\ UNCHANGED lastEnd
     \/ Abandon(m)
  /\ UNCHANGED out

(* One turn of the loop with the answer m of the engine.                   *)
Take(m) ==
  /\ \/ FindAllIndices(m) \/ Count(m) \/ FindAllSubmatch(m) \/ Split(m) \/ AllIndex(m)
     \/ ReplaceAllLiteral(m) \/ ReplaceAllLiteralString(m) \/ ReplaceAll(m)
     \/ ReplaceAllFunc(m) \/ ReplaceAllStringFunc(m)
  /\ UNCHANGED <<pattern, engine, loop>>

-----------------------------------------------------------------------------
(* What the loops rely on: the engine answers no match or one that begins  *)
(* where it was asked to search or later, and that lies in the haystack.   *)
Match == [start : Nat, end : Nat, groups : Seq(Int \X Int)]
IsAnswer(m, from, to) ==
  m = NotFound \/ (m \in Match /\ from <= m.start /\ m.start <= m.end /\ m.end <= to)
EngineAnswers ==
  \A p \in DOMAIN Loops : \A c \in Loops[p] :
    /\ c.hay \in Seq(Nat) /\ c.n \in Int
    /\ \A i \in 0..Len(c.hay) : IsAnswer(Find[p][c.hay][i], i, Len(c.hay))

NoLoop == [kind |-> "indices", hay |-> <<>>, n |-> 0, repl |-> <<>>]

Init ==
  /\ pattern \in DOMAIN Loops /\ engine = Find[pattern]
  /\ loop = NoLoop
  /\ pc = "idle"
  /\ pos = 0 /\ lastMatchEnd = -1
  /\ matches = <<>> /\ lastEnd = 0 /\ out = <<>>

NewLoop == \E c \in Loops[pattern] : Begin(c)
(* What the engine answers: the groups too, when they are asked for.       *)
NextMatch ==
  LET m == engine[Source][pos]
  IN  IF WantsGroups THEN m ELSE [m EXCEPT !.groups = <<>>]

Turn == pc = "loop" /\ Take(NextMatch)
Next == NewLoop \/ Turn

(* A goroutine that runs a loop is not stopped for ever.                   *)
Spec == Init /\ [][Next]_vars /\ WF_vars(Turn)

-----------------------------------------------------------------------------
(* Properties                                                              *)

(* The matches are in order and do not overlap: each one begins where the  *)
(* one before it ended or later, and no two of them are the same.          *)
Disjoint ==
  \A k \in 1..(Len(matches) - 1) :
    /\ matches[k].end <= matches[k + 1].start
    /\ matches[k + 1].end > matches[k].end

(* A search never starts behind the last match, so nothing is found twice. *)
BehindPosition == \A k \in DOMAIN matches : pc = "loop" => matches[k].end <= pos

(* The position only moves on: a loop comes to its end.                    *)
Forward == [][pc = "loop" => pos' > pos \/ pc' = "idle"]_vars
LoopEnds == pc = "loop" ~> pc = "idle"
===============================================================================
