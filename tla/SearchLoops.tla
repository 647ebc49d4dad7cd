------------------------------- MODULE SearchLoops -------------------------------
(***************************************************************************)
(* The loops of FindAll over an engine that searches: each turn of a loop  *)
(* is a search of the PikeVM of the search state the loop holds, from the  *)
(* position the loop asks for.  The same PikeVM serves loops and single    *)
(* searches of any kind, in any order, and keeps its slot tables between   *)
(* them.  The refinement shows that the loops get from the PikeVM what     *)
(* FindAll takes from its table.                                           *)
(***************************************************************************)
EXTENDS Integers, Sequences, SequencesExt

CONSTANTS
  Automaton,    \* the compiled NFA of each pattern
  Find,         \* Find[p][w][i]: the first match of pattern p in w from position i
  Anchored,     \* the patterns that match at the start of the haystack only
  Loops,        \* Loops[p]: the loops [kind, hay, n, repl, twoPhase] over p
  Searches,     \* Searches[p]: single searches of p
  Expected,     \* Expected[p][c]: what search c of p should answer
  ExpectedLoop  \* ExpectedLoop[p][c]: the matches and the output of loop c

VARIABLES
  pattern, engine, loop, pc, pos, lastMatchEnd, matches, lastEnd, out,  \* of FindAll
  nfa, vm, search, stage, position, best, answer,               \* of PikeVM
  asked         \* whether the loop has asked for its next match, and which way

loopVars == <<pattern, engine, loop, pc, pos, lastMatchEnd, matches, lastEnd, out>>
vmVars == <<nfa, vm, search, stage, position, best, answer>>
vars == <<loopVars, vmVars, asked>>

Loop == INSTANCE FindAll
VM == INSTANCE PikeVM

(* What the theorems about FindAll ask of an engine is true of the table   *)
(* the PikeVM is compared with.                                            *)
ASSUME FindAssumption == Loop!EngineAnswers

-----------------------------------------------------------------------------
Length == Len(loop.hay)
Ask(op, at, end) ==
  [op |-> op, hay |-> loop.hay, at |-> at, end |-> end, longest |-> FALSE, candidates |-> 0..Length]

(* The loops that want groups use findSubmatchAtWithState: the strategies  *)
(* whose first search is a PikeVM search for groups, and the others, which *)
(* find the match first and search for the groups in its span.             *)
Asking == pc = "loop" /\ stage = "idle" /\ asked = "no"

AskIndices ==
  /\ Asking
  /\ ~Loop!WantsGroups
  /\ VM!Call(Ask("SlotTableAt", pos, Length))
  /\ asked' = "indices"
  /\ UNCHANGED loopVars

AskSubmatch ==
  /\ Asking
  /\ Loop!WantsGroups /\ ~loop.twoPhase
  /\ VM!Call(Ask("SlotTableCapturesAt", pos, Length))
  /\ asked' = "submatch"
  /\ UNCHANGED loopVars

(* Phase one is another engine's search; its answer is the match itself.   *)
(* Mutant: phase two searches from the position the loop asked for.        *)
Found == engine[loop.hay][pos]
SpanFromPosition(m) == Ask("CapturesInSpan", pos, m.end)
SpanOf(m) == Ask("CapturesInSpan", m.start, m.end)

AskInSpan ==
  /\ Asking
  /\ Loop!WantsGroups /\ loop.twoPhase
  /\ Found # VM!None /\ nfa.captureCount > 1
  /\ VM!Call(SpanOf(Found))
  /\ asked' = "span"
  /\ UNCHANGED loopVars

(* No match, or no groups to search for.                                   *)
SkipPhaseTwo ==
  /\ Asking
  /\ Loop!WantsGroups /\ loop.twoPhase
  /\ Found = VM!None \/ nfa.captureCount <= 1
  /\ Loop!Take(Found)
  /\ UNCHANGED <<vmVars, asked>>

(* The code searches again from pos when phase two finds nothing, which    *)
(* PhasesAgree shows not to happen.                                        *)
Use ==
  /\ asked # "no" /\ stage = "idle"
  /\ Loop!Take(answer)
  /\ asked' = "no"
  /\ UNCHANGED vmVars

-----------------------------------------------------------------------------
Init ==
  /\ Loop!Init
  /\ nfa = Automaton[pattern]
  /\ vm = VM!NewVM
  /\ search = [op |-> "IsMatch", hay |-> <<>>, at |-> 0, end |-> 0, longest |-> FALSE,
               candidates |-> {0}]
  /\ stage = "idle" /\ position = 0
  /\ best = VM!NoMatchYet /\ answer = VM!None
  /\ asked = "no"

Idle == pc = "idle" /\ stage = "idle"
NewLoop == Idle /\ Loop!NewLoop /\ UNCHANGED <<vmVars, asked>>
NewSearch ==
  /\ Idle
  /\ \E c \in Searches[pattern] : VM!Call(c)
  /\ UNCHANGED <<loopVars, asked>>

EngineStep == VM!SearchStep /\ UNCHANGED <<loopVars, asked>>
LoopStep == AskIndices \/ AskSubmatch \/ AskInSpan \/ SkipPhaseTwo \/ Use
Next == NewLoop \/ NewSearch \/ EngineStep \/ LoopStep

(* The goroutine that runs a loop or a search is not stopped for ever.     *)
(* Of EngineStep this is weak fairness too: a search in progress always    *)
(* has a next step.                                                        *)
Searching == stage # "idle"
Fairness ==
  /\ WF_vars(LoopStep)
  /\ <>[]Searching => []<><<EngineStep>>_vars
Spec == Init /\ [][Next]_vars /\ Fairness

-----------------------------------------------------------------------------
(* Properties                                                              *)

(* The queue holds a state at most once, and its threads started where the *)
(* search has been.                                                        *)
TypeOK ==
  /\ pattern \in DOMAIN Automaton /\ nfa = Automaton[pattern]
  /\ pc \in {"idle", "loop"} /\ stage \in {"idle", "begin", "turn"}
  /\ asked \in {"no", "indices", "submatch", "span"}
  /\ pos \in 0..(Length + 1) /\ lastMatchEnd \in -1..Length /\ lastEnd \in 0..Length
  /\ position \in 0..(Len(search.hay) + 1)
  /\ vm.visited \subseteq 0..(Len(nfa.states) - 1)
  /\ \A i, j \in DOMAIN vm.queue : vm.queue[i].state = vm.queue[j].state => i = j
  /\ \A i \in DOMAIN vm.heap : vm.heap[i].refs >= 1

(* A search answers what its pattern calls for, the groups included,       *)
(* whatever the PikeVM was used for before: as long as no cell of captures *)
(* was written that another branch still relied on.                        *)
Answers ==
  stage = "idle" /\ search \in DOMAIN Expected[pattern] /\ ~vm.leaked =>
    answer = Expected[pattern][search]

(* "Clone captures for right branch to ensure COW works properly": what a  *)
(* branch captures is not seen by the branches after it, so that the       *)
(* second phase gets the groups of the match.  It does not hold: the left  *)
(* branch runs before the clone is made, and writes to a cell that it      *)
(* holds alone by the count.                                               *)
SharedCaptures ==
  stage = "idle" /\ search.op = "CapturesInSpan" /\ search \in DOMAIN Expected[pattern] =>
    answer = Expected[pattern][search]

(* The threads are kept in the order in which they started: the first      *)
(* thread of the queue that matches has the leftmost start.                *)
LeftmostFirst ==
  stage = "turn" /\ search.op # "IsMatch" =>
    \A i, j \in DOMAIN vm.queue : i < j => vm.queue[i].start <= vm.queue[j].start

(* Phase two finds the match of phase one, no shorter and no longer.       *)
PhasesAgree ==
  asked = "span" /\ stage = "idle" => answer.start = Found.start /\ answer.end = Found.end

(* The matches of a loop are in order and do not overlap, and a search     *)
(* never starts before the end of a match.                                 *)
MatchesDisjoint == Loop!Disjoint /\ Loop!BehindPosition

(* A finished loop has used exactly the matches there are, as many as it   *)
(* was asked for, or, of an iterator, as many as its consumer has taken;   *)
(* a replacement or a split is made of all of the haystack that is not in  *)
(* a match.                                                                *)
Complete ==
  pc = "idle" /\ loop \in DOMAIN ExpectedLoop[pattern] =>
    /\ IsPrefix(matches, ExpectedLoop[pattern][loop].matches)
    /\ loop.kind # "iterator" => matches = ExpectedLoop[pattern][loop].matches
    /\ out = ExpectedLoop[pattern][loop].out

(* The loops over the PikeVM are the loops of FindAll: a turn of a loop is *)
(* one match, and everything the engine does in between is invisible.      *)
LoopSpec == Loop!Spec

(* A loop comes to its end, and its position only moves on.                *)
LoopEnds == Loop!LoopEnds
Forward == Loop!Forward
===============================================================================
