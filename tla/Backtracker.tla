------------------------------ MODULE Backtracker ------------------------------
(***************************************************************************)
(* nfa/backtrack.go: depth-first search of the NFA over a table that says  *)
(* which pairs of a state and a position have been visited.  A pair counts *)
(* as visited when its entry equals the generation; a new search, and a    *)
(* new starting position, advances the generation instead of clearing the  *)
(* table.  The table outlives the search: one BacktrackerState is used for *)
(* inputs of any length, in any order.  The recursion of the code is an    *)
(* explicit stack of the pairs still to be tried.                          *)
(***************************************************************************)
EXTENDS Determinize

CONSTANTS
  Automaton,        \* the compiled NFA of each pattern
  Calls,            \* Calls[p]: the searches [op, hay, at, longest]
  Expected,         \* Expected[p][c]: what search c of pattern p should answer
  GenerationBits,   \* the width of a table entry (bound: 16 in the code)
  MaxVisitedSize    \* the most entries the table may have

Pattern == DOMAIN Automaton
Op == {"IsMatch", "IsMatchAnchored", "SearchAt"}
Request == [op : Op, hay : Seq(Byte), at : Nat, longest : BOOLEAN]

(* A search begins within its input; only SearchAt begins after 0.  That   *)
(* an entry has at least two values follows from its width, by arithmetic. *)
ASSUME BacktrackerAssumption ==
  /\ GenerationBits \in Nat \ {0} /\ 2 ^ GenerationBits \in Nat \ {0, 1}
  /\ MaxVisitedSize \in Nat
  /\ \A p \in Pattern :
       /\ Validate(Automaton[p])
       /\ \A c \in Calls[p] :
            c \in Request /\ c.at <= Len(c.hay) /\ (c.op # "SearchAt" => c.at = 0)

VARIABLES
  pattern,     \* what the backtracker was built for ...
  nfa,         \* ... and its NFA: neither ever changes
  visited,     \* the table, as far as it was ever allocated
  length,      \* how much of it the latest search uses: len(Visited)
  generation,
  partial,     \* whether a wrap of the generation left entries uncleared
  call,        \* the latest search
  pc,          \* "idle", about to make an "attempt" at a position, "run"ning it
  start,       \* the position of the attempt
  stack,       \* the pairs <<state, position>> still to be tried, next one first
  best,        \* the longest end found, when the longest is wanted
  answer       \* what the latest search returned

vars == <<pattern, nfa, visited, length, generation, partial,
          call, pc, start, stack, best, answer>>
table == <<visited, length, generation, partial>>

NumStates == Len(nfa.states)
Haystack == call.hay
Searching == call.op = "SearchAt"

-----------------------------------------------------------------------------
(* The table.                                                              *)

Entries(span) == NumStates * (span + 1)
(* Mutant: the position at the end of the input is not counted.            *)
CanHandleWithoutEnd(span) == NumStates * span <= MaxVisitedSize
CanHandle(span) == Entries(span) <= MaxVisitedSize

(* shouldVisit: positions count from where the search starts.  Mutant: the *)
(* rows of the table overlap.                                              *)
IndexShortRow(id, pos) == (pos - call.at) * (NumStates - 1) + id + 1
Index(id, pos) == (pos - call.at) * NumStates + id + 1
Visited(id, pos) == visited[Index(id, pos)] = generation

Cleared(entries, used) == [i \in DOMAIN entries |-> IF i <= used THEN 0 ELSE entries[i]]

(* The next generation over a table of which used entries are in use.      *)
NextGeneration(entries, used, latest, left) ==
  LET next == (latest + 1) % 2 ^ GenerationBits
  IN  /\ generation' = IF next = 0 THEN 1 ELSE next
      /\ visited' = IF next = 0 THEN Cleared(entries, used) ELSE entries
      /\ partial' = (left \/ (next = 0 /\ used < Len(entries)))

(* Mutant: a table that is used again keeps its generation.                *)
ResetKeepsGeneration(span) ==
  /\ length' = Entries(span)
  /\ IF Len(visited) >= Entries(span)
     THEN UNCHANGED <<visited, generation, partial>>
     ELSE NextGeneration([i \in 1..Entries(span) |-> 0], Entries(span), 0, FALSE)

Reset(span) ==
  /\ length' = Entries(span)
  /\ IF Len(visited) >= Entries(span)
     THEN NextGeneration(visited, Entries(span), generation, partial)
     ELSE NextGeneration([i \in 1..Entries(span) |-> 0], Entries(span), 0, FALSE)

-----------------------------------------------------------------------------
(* One search.                                                             *)

NoAnswer == [found |-> FALSE, start |-> -1, end |-> -1]
FoundAt(from, end) ==
  IF Searching THEN [found |-> TRUE, start |-> from, end |-> end]
               ELSE [NoAnswer EXCEPT !.found = TRUE]

Return(result) ==
  /\ answer' = result
  /\ pc' = "idle"
  /\ start' = 0 /\ stack' = <<>> /\ best' = -1
  /\ UNCHANGED <<pattern, nfa, call>>

(* An input the table cannot hold is not searched; the callers use PikeVM. *)
Refuse(c) ==
  /\ pc = "idle"
  /\ ~CanHandle(Len(c.hay) - c.at)
  /\ call' = c
  /\ answer' = NoAnswer
  /\ UNCHANGED <<pattern, nfa, table, pc, start, stack, best>>

Search(c) ==
  /\ pc = "idle"
  /\ CanHandle(Len(c.hay) - c.at)
  /\ Reset(Len(c.hay) - c.at)
  /\ call' = c
  /\ pc' = "attempt"
  /\ start' = c.at
  /\ answer' = NoAnswer
  /\ UNCHANGED <<pattern, nfa, stack, best>>

Attempt ==
  /\ pc = "attempt"
  /\ pc' = "run"
  /\ stack' = <<<<nfa.startAnchored, start>>>>
  /\ UNCHANGED <<pattern, nfa, table, call, start, best, answer>>

(* checkLookAssertion sees the whole haystack, also what is before the     *)
(* position asked for.  Mutant: it sees the span only.                     *)
IsWordBeforeInSpan(pos) == pos > call.at /\ IsWordByte(Haystack[pos])
IsWordBefore(pos) == pos > 0 /\ IsWordByte(Haystack[pos])
IsWordAfter(pos) == pos < Len(Haystack) /\ IsWordByte(Haystack[pos + 1])
CheckLookAssertion(look, pos) ==
  CASE look = "StartText" -> pos = 0
    [] look = "EndText" -> pos = Len(Haystack)
    [] look = "StartLine" -> pos = 0 \/ Haystack[pos] = NewlineByte
    [] look = "EndLine" -> pos = Len(Haystack) \/ Haystack[pos + 1] = NewlineByte
    [] look = "WordBoundary" -> IsWordBefore(pos) # IsWordAfter(pos)
    [] look = "NoWordBoundary" -> IsWordBefore(pos) = IsWordAfter(pos)

(* The target of the first range that holds a byte.                        *)
FirstTarget(id, b) ==
  LET s == StateAt(nfa, id)
      ranges == IF s.kind = "Sparse" THEN s.ranges ELSE <<<<s.lo, s.hi, s.next>>>>
      k == SelectInSeq(ranges, LAMBDA r : b \in r[1]..r[2])
  IN  IF k = 0 THEN -1 ELSE ranges[k][3]

(* Where a state leads at a position, the preferred pair first.            *)
Successors(id, pos) ==
  LET s == StateAt(nfa, id)
  IN  CASE s.kind = "Split" -> <<<<s.left, pos>>, <<s.right, pos>>>>
        [] s.kind \in {"Epsilon", "Capture"} -> <<<<s.next, pos>>>>
        [] s.kind = "Look" /\ CheckLookAssertion(s.look, pos) -> <<<<s.next, pos>>>>
        [] s.kind \in {"ByteRange", "Sparse"} /\ pos < Len(Haystack) ->
             <<<<FirstTarget(id, Haystack[pos + 1]), pos + 1>>>>
        [] OTHER -> <<>>

(* The first pair on the stack; a target may be InvalidState, -1.          *)
State == Head(stack)[1]
Position == Head(stack)[2]
Trying == pc = "run" /\ stack # <<>>
InBounds(id) == id \in 0..(NumStates - 1)
ShouldVisit == InBounds(State) /\ ~Visited(State, Position)

Mark ==
  /\ visited' = [visited EXCEPT ![Index(State, Position)] = generation]
  /\ UNCHANGED <<length, generation, partial>>

Skip ==
  /\ Trying
  /\ ~ShouldVisit
  /\ stack' = Tail(stack)
  /\ UNCHANGED <<pattern, nfa, table, call, pc, start, best, answer>>

Explore ==
  /\ Trying
  /\ ShouldVisit
  /\ ~IsMatchID(nfa, State)
  /\ Mark
  /\ stack' = Successors(State, Position) \o Tail(stack)
  /\ UNCHANGED <<pattern, nfa, call, pc, start, best, answer>>

(* The match state ends the search, unless the longest match is wanted.    *)
ReachMatch ==
  /\ Trying
  /\ ShouldVisit
  /\ IsMatchID(nfa, State)
  /\ Mark
  /\ IF Searching /\ call.longest
     THEN /\ best' = IF Position > best THEN Position ELSE best
          /\ stack' = Tail(stack)
          /\ UNCHANGED <<pattern, nfa, call, pc, start, answer>>
     ELSE Return(FoundAt(start, Position))

(* Everything from this position was tried.                                *)
Exhausted == pc = "run" /\ stack = <<>>

Longest ==
  /\ Exhausted
  /\ best >= 0
  /\ Return(FoundAt(start, best))
  /\ UNCHANGED table

MoreAttempts == call.op # "IsMatchAnchored" /\ start < Len(Haystack)

(* Mutant: the next position counts from the one asked for.                *)
StartAfterRequest == call.at + 1
NextStart == start + 1

(* SearchAt starts each attempt with a generation of its own; IsMatch      *)
(* keeps what failed from an earlier position.                             *)
Fail ==
  /\ Exhausted
  /\ best < 0
  /\ IF Searching THEN NextGeneration(visited, length, generation, partial) /\ UNCHANGED length
                  ELSE UNCHANGED table
  /\ IF MoreAttempts
     THEN /\ pc' = "attempt"
          /\ start' = NextStart
          /\ UNCHANGED <<pattern, nfa, call, stack, best, answer>>
     ELSE Return(NoAnswer)

-----------------------------------------------------------------------------
Init ==
  /\ pattern \in Pattern
  /\ nfa = Automaton[pattern]
  /\ visited = <<>> /\ length = 0 /\ generation = 0 /\ partial = FALSE
  /\ call = [op |-> "IsMatch", hay |-> <<>>, at |-> 0, longest |-> FALSE]
  /\ pc = "idle" /\ start = 0 /\ stack = <<>> /\ best = -1
  /\ answer = NoAnswer

NewSearch == \E c \in Calls[pattern] : Refuse(c) \/ Search(c)
SearchStep == Attempt \/ Skip \/ Explore \/ ReachMatch \/ Longest \/ Fail
Next == NewSearch \/ SearchStep

(* The goroutine that runs a search is not stopped for ever: a running     *)
(* search has a step to take, and each changes the stack or pc, so this is *)
(* the weak fairness of SearchStep.                                        *)
Fairness == <>[](pc # "idle") => []<><<pc # "idle">>_vars

Spec == Init /\ [][Next]_vars /\ Fairness

-----------------------------------------------------------------------------
(* Properties                                                              *)

(* The table never outgrows its limit and covers what a search visits.     *)
TypeOK ==
  /\ pattern \in Pattern /\ nfa = Automaton[pattern]
  /\ Len(visited) <= MaxVisitedSize /\ length \in 0..Len(visited)
  /\ generation \in 0..(2 ^ GenerationBits - 1)
  /\ \A i \in DOMAIN visited : visited[i] \in 0..(2 ^ GenerationBits - 1)
  /\ partial \in BOOLEAN
  /\ pc \in {"idle", "attempt", "run"}
  /\ start \in 0..Len(Haystack) /\ best \in -1..Len(Haystack)
  /\ \A k \in DOMAIN stack :
       InBounds(stack[k][1]) => Index(stack[k][1], stack[k][2]) \in 1..length

(* An attempt begins with nothing visited, whatever longer or shorter      *)
(* inputs were searched with the table before; in IsMatch the first one.   *)
NothingVisited ==
  pc = "attempt" /\ (Searching \/ start = call.at) => \A i \in 1..length : visited[i] # generation
FreshTable == ~partial => NothingVisited

(* What the table calls visited is done with, or its successors are still  *)
(* to be tried: nothing is skipped that was not explored in this search,   *)
(* and no pair is taken for another one.                                   *)
Pairs == (0..(NumStates - 1)) \X (call.at..Len(Haystack))
VisitedPairs == {pair \in Pairs : Visited(pair[1], pair[2])}
Follows(pair) == ToSet(Successors(pair[1], pair[2])) \cap Pairs
Explored ==
  ~partial /\ pc = "run" => \A pair \in VisitedPairs :
    Follows(pair) \subseteq VisitedPairs \cup ToSet(stack)

(* The answer of a search is the one its pattern calls for: whether there  *)
(* is a match, one that begins at 0, or the leftmost with its preferred or *)
(* its longest end; as long as no wrap left part of the table behind.      *)
Answered == pc = "idle" /\ generation > 0 /\ CanHandle(Len(Haystack) - call.at)
Answers == ~partial /\ Answered => answer = Expected[pattern][call]

(* Every search ends: a pair is explored once per attempt, so loops over   *)
(* the empty string are left.                                              *)
SearchEnds == pc # "idle" ~> pc = "idle"

(* backtrack.go:46: "When overflow occurs, array is cleared and generation *)
(* resets to 1", so answers do not depend on how many searches there were. *)
AnswersAfterWrap == Answered => answer = Expected[pattern][call]
===============================================================================
