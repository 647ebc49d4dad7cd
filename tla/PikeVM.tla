-------------------------------- MODULE PikeVM --------------------------------
(***************************************************************************)
(* nfa/pikevm.go and nfa/slot_table.go: the Pike VM runs all threads of    *)
(* the NFA in step over the haystack, one byte a turn, in the order in     *)
(* which they are preferred.  What the groups captured is kept in one of   *)
(* two ways: with the thread, in a cell that threads share until one of    *)
(* them writes to it (copy on write), or in the row of its state in a slot *)
(* table, of which there are two, for the current and for the next turn.   *)
(* One PikeVM is used for many searches; its tables outlive them.          *)
(***************************************************************************)
EXTENDS Determinize

VARIABLES
  nfa,        \* the compiled NFA: it never changes
  vm,         \* the working memory, described below
  search,     \* the latest search [op, hay, at, end, longest, candidates]
  stage,      \* "idle", about to "begin" or to take a "turn"
  position,   \* of the turn
  best,       \* the best match so far
  answer      \* what the latest search returned

vars == <<nfa, vm, search, stage, position, best, answer>>

SpanOps == {"SearchAt", "SearchBetween", "SlotTableAt", "IsMatch"}
CowOps == {"CapturesAt", "CapturesInSpan"}
SlotOps == {"SlotTableAt", "SlotTableCapturesAt"}
Op == SpanOps \cup CowOps \cup SlotOps

(* An anchored search of a span sees the haystack cut at its end.          *)
Haystack ==
  IF search.op = "SearchBetween" /\ nfa.isAlwaysAnchored /\ search.end < Len(search.hay)
  THEN SubSeq(search.hay, 1, search.end) ELSE search.hay
Unset == -1
NoMatchYet == [start |-> Unset, end |-> Unset, slots |-> <<>>]
None == [start |-> Unset, end |-> Unset, groups |-> <<>>]
Yes == [start |-> 0, end |-> 0, groups |-> <<>>]

-----------------------------------------------------------------------------
(* Working memory: the threads of the current turn, the states visited,    *)
(* the cells of shared captures, the two slot tables (without rows until a *)
(* search captures groups), how many slots of a row are in use, the buffer *)
(* an epsilon closure works in, and whether a cell was written while       *)
(* another branch still relied on it.                                      *)

NumSlots == 2 * nfa.captureCount
UnsetSlots == [k \in 1..NumSlots |-> Unset]
NoTable == <<>>
EmptyTable == [k \in DOMAIN nfa.states |-> UnsetSlots]

NewVM == [queue |-> <<>>, visited |-> {}, heap |-> <<>>, table |-> NoTable, next |-> NoTable,
          active |-> 0, curr |-> <<>>, leaked |-> FALSE]

(* ensureSlotTables; SetActiveSlots does nothing before it was called.     *)
WithSlotTables(m) ==
  IF m.table # NoTable THEN m
  ELSE [m EXCEPT !.table = EmptyTable, !.next = EmptyTable,
                 !.active = NumSlots, !.curr = [k \in 1..NumSlots |-> 0]]
WithActiveSlots(m, count) == IF m.table = NoTable THEN m ELSE [m EXCEPT !.active = count]

(* Only a search for groups uses more than the two slots of the match.     *)
TracksSlots(m) == m.active > 2

(* A search clears what the one before it left, except the tables.         *)
Cleared(m) == [m EXCEPT !.queue = <<>>, !.visited = {}, !.heap = <<>>, !.leaked = FALSE]
WithoutRows(m) == IF m.table = NoTable THEN m
                  ELSE [m EXCEPT !.table = EmptyTable, !.next = EmptyTable]

-----------------------------------------------------------------------------
(* Captures shared between threads.                                        *)

Thread(id, start, cell) == [state |-> id, start |-> start, cell |-> cell]
NoCell == 0

NewCaptures(m) == [m EXCEPT !.heap = Append(@, [data |-> UnsetSlots, refs |-> 1])]
Clone(m, cell) == IF cell = NoCell THEN m ELSE [m EXCEPT !.heap[cell].refs = @ + 1]

(* Mutant: a cell is let go of by its only holder.                         *)
UpdateCopy(m, cell, slot, value) ==
  IF cell = NoCell THEN [memory |-> m, cell |-> cell]
  ELSE LET copy == [data |-> [m.heap[cell].data EXCEPT ![slot] = value], refs |-> 1]
       IN  [memory |-> [m EXCEPT !.heap = Append([@ EXCEPT ![cell].refs = @ - 1], copy)],
            cell |-> Len(m.heap) + 1]

Update(m, cell, slot, value) ==
  CASE cell = NoCell -> [memory |-> m, cell |-> cell]
    [] cell # NoCell /\ m.heap[cell].refs > 1 ->
         LET copy == [data |-> [m.heap[cell].data EXCEPT ![slot] = value], refs |-> 1]
         IN  [memory |-> [m EXCEPT !.heap = Append([@ EXCEPT ![cell].refs = @ - 1], copy)],
              cell |-> Len(m.heap) + 1]
    [] OTHER -> [memory |-> [m EXCEPT !.heap[cell].data[slot] = value], cell |-> cell]

Slot(s) == 2 * s.group + (IF s.isStart THEN 1 ELSE 2)

-----------------------------------------------------------------------------
(* checkLookAssertion sees the whole haystack.                             *)
WordAt(w, i) == i \in DOMAIN w /\ IsWordByte(w[i])
CheckLook(look, w, i) ==
  CASE look = "StartText" -> i = 0
    [] look = "EndText" -> i = Len(w)
    [] look = "StartLine" -> i = 0 \/ w[i] = NewlineByte
    [] look = "EndLine" -> i = Len(w) \/ w[i + 1] = NewlineByte
    [] look = "WordBoundary" -> WordAt(w, i) # WordAt(w, i + 1)
    [] look = "NoWordBoundary" -> WordAt(w, i) = WordAt(w, i + 1)

ConsumesOrMatches(s) == s.kind \in {"Match", "ByteRange", "Sparse"}

(* Epsilon closures: the states reached from a thread without a byte are   *)
(* visited depth first, the preferred branch first, and those that consume *)
(* or match join the queue.  This one keeps captures with the threads.     *)
RECURSIVE AddThread(_, _, _)
AddThread(t, i, m) ==
  IF t.state < 0 \/ t.state \in m.visited THEN m
  ELSE
    LET s == StateAt(nfa, t.state)
        seen == [m EXCEPT !.visited = @ \cup {t.state}]
        to(id) == [t EXCEPT !.state = id]
        data(n) == IF t.cell = NoCell THEN <<>> ELSE n.heap[t.cell].data
    IN  CASE ConsumesOrMatches(s) -> [seen EXCEPT !.queue = Append(@, t)]
          [] s.kind = "Epsilon" -> AddThread(to(s.next), i, seen)
          [] s.kind = "Split" ->
               LET left == AddThread(to(s.left), i, seen)
                   marked == [left EXCEPT !.leaked = @ \/ data(left) # data(seen)]
               IN  AddThread(to(s.right), i, Clone(marked, t.cell))
          [] s.kind = "Capture" /\ s.next >= 0 ->
               LET updated == Update(seen, t.cell, Slot(s), i)
               IN  AddThread([to(s.next) EXCEPT !.cell = updated.cell], i, updated.memory)
          [] s.kind = "Look" /\ CheckLook(s.look, Haystack, i) -> AddThread(to(s.next), i, seen)
          [] OTHER -> seen

(* Mutant: a capture stays in the buffer when its branch has been left.    *)
KeepCapture(s, before, after) == after
RestoreCapture(s, before, after) ==
  IF TracksSlots(after) THEN [after EXCEPT !.curr[Slot(s)] = before.curr[Slot(s)]] ELSE after

(* This one works on the buffer: a capture is undone when its branch has   *)
(* been left, and a state that joins the queue copies the buffer to its    *)
(* row of the table.                                                       *)
RECURSIVE AddSearchThread(_, _, _)
AddSearchThread(t, i, m) ==
  IF t.state < 0 \/ t.state \in m.visited THEN m
  ELSE
    LET s == StateAt(nfa, t.state)
        seen == [m EXCEPT !.visited = @ \cup {t.state}]
        to(id) == [t EXCEPT !.state = id]
    IN  CASE ConsumesOrMatches(s) ->
               LET queued == [seen EXCEPT !.queue = Append(@, t)]
               IN  IF TracksSlots(m)
                   THEN [queued EXCEPT !.table[t.state + 1] = m.curr] ELSE queued
          [] s.kind = "Epsilon" -> AddSearchThread(to(s.next), i, seen)
          [] s.kind = "Split" ->
               AddSearchThread(to(s.right), i, AddSearchThread(to(s.left), i, seen))
          [] s.kind = "Capture" /\ s.next >= 0 ->
               LET set == IF TracksSlots(m) THEN [seen EXCEPT !.curr[Slot(s)] = i] ELSE seen
               IN  RestoreCapture(s, seen, AddSearchThread(to(s.next), i, set))
          [] s.kind = "Look" /\ CheckLook(s.look, Haystack, i) ->
               AddSearchThread(to(s.next), i, seen)
          [] OTHER -> seen

(* And this one, for IsMatch, keeps a stack of the branches not yet taken. *)
RECURSIVE AddThreadForMatch(_, _, _)
AddThreadForMatch(stack, i, m) ==
  IF stack = <<>> THEN m
  ELSE
    LET id == Head(stack)
        s == StateAt(nfa, id)
        onward == CASE s.kind \in {"Epsilon", "Capture"} -> <<s.next>>
                    [] s.kind = "Split" -> <<s.left, s.right>>
                    [] s.kind = "Look" /\ CheckLook(s.look, Haystack, i) -> <<s.next>>
                    [] OTHER -> <<>>
        seen == [m EXCEPT !.visited = @ \cup {id},
                          !.queue = IF ConsumesOrMatches(s)
                                    THEN Append(@, Thread(id, Unset, NoCell)) ELSE @]
    IN  IF id \in m.visited THEN AddThreadForMatch(Tail(stack), i, m)
        ELSE AddThreadForMatch(SelectSeq(onward, LAMBDA x : x >= 0) \o Tail(stack), i, seen)

(* matchesEmptyAt: can the match state be reached without a byte?          *)
MatchIn(threads) == \E k \in DOMAIN threads : IsMatchID(nfa, threads[k].state)
MatchesEmptyAt(i) == MatchIn(AddThreadForMatch(<<nfa.startAnchored>>, i, NewVM).queue)

-----------------------------------------------------------------------------
(* One turn: seed a new thread, then run the threads over one byte.        *)

(* An anchored NFA and a search in a known span start at one position.     *)
OnlyAtStart == nfa.isAlwaysAnchored \/ search.op = "CapturesInSpan"
Length == Len(search.hay)
Before(end) == IF end < Length THEN end ELSE Length

(* What SkipAhead.Find answers: with no threads left the search jumps to   *)
(* the next candidate.  Without a prefilter every position is one.         *)
SkipsAhead(i) ==
  /\ search.op \in {"SearchAt"} \cup SlotOps
  /\ ~OnlyAtStart /\ vm.queue = <<>> /\ i > search.at
NextCandidate(i) ==
  LET later == {c \in search.candidates : c >= i}
  IN  IF ~SkipsAhead(i) THEN i
      ELSE IF later = {} THEN Unset ELSE CHOOSE c \in later : \A d \in later : c <= d

Seeds == IF OnlyAtStart THEN position = search.at ELSE best = NoMatchYet

(* The thread that starts at the position of the turn, of each of the four *)
(* kinds.  The search for groups in slots does not clear the visited       *)
(* states first: those in the queue keep their rows.                       *)
Fresh == [vm EXCEPT !.visited = {}]
NewThread(cell) == Thread(nfa.startAnchored, position, cell)

(* Mutant: the new thread is preferred to those before it.                 *)
SeedThreadInFront ==
  [AddThread(NewThread(NoCell), position, [Fresh EXCEPT !.queue = <<>>])
     EXCEPT !.queue = @ \o vm.queue]
SeedThread == AddThread(NewThread(NoCell), position, Fresh)
SeedCaptures ==
  LET m == NewCaptures(Fresh) IN AddThread(NewThread(Len(m.heap)), position, m)
SeedSearchThread == AddSearchThread(NewThread(NoCell), position, Fresh)
SeedForMatch == AddThreadForMatch(<<nfa.startAnchored>>, position, Fresh)

SeedSlots == AddSearchThread(NewThread(NoCell), position, [vm EXCEPT !.curr = UnsetSlots])

(* Where thread t goes on byte b, into the next queue.  During a step      *)
(* table is the table of the next turn and next the one the row of the     *)
(* state a thread comes from is read from.                                 *)
AddThreadToNext(t, i, m) == AddThread(t, i, m)
AddThreadToNextForMatch(id, i, m) == AddThreadForMatch(<<id>>, i, m)
AddSearchThreadToNext(t, src, i, m) ==
  AddSearchThread(t, i, IF TracksSlots(m) THEN [m EXCEPT !.curr = m.next[src + 1]] ELSE m)

StepThread(t, b, m) ==
  FoldLeft(LAMBDA n, id : AddThreadToNext([t EXCEPT !.state = id], position + 1, n),
           m, ByteTargets(nfa, t.state, b))
StepSearchThread(t, b, m) ==
  FoldLeft(LAMBDA n, id : AddSearchThreadToNext([t EXCEPT !.state = id], t.state, position + 1, n),
           m, ByteTargets(nfa, t.state, b))
StepForMatch(t, b, m) ==
  FoldLeft(LAMBDA n, id : AddThreadToNextForMatch(id, position + 1, n),
           m, ByteTargets(nfa, t.state, b))
Step(t, b, m) ==
  CASE search.op \in SlotOps -> StepSearchThread(t, b, m)
    [] search.op = "IsMatch" -> StepForMatch(t, b, m)
    [] OTHER -> StepThread(t, b, m)

Swapped(m) == [m EXCEPT !.table = m.next, !.next = m.table]

(* Leftmost start, then the later end.                                     *)
IsBetterMatch(found, start, end) ==
  \/ found = NoMatchYet
  \/ start < found.start
  \/ start = found.start /\ end > found.end

(* Read during the turn, when the rows of the queue are those of next.     *)
SlotsOf(t, m) ==
  CASE search.op \in CowOps -> m.heap[t.cell].data
    [] search.op = "SlotTableCapturesAt" -> m.next[t.state + 1]
    [] OTHER -> <<>>

(* All threads of a turn, in order.  A match ends the turn for the threads *)
(* it is preferred to, unless the longest match is wanted.                 *)
(* Mutant: they go on.                                                     *)
StopsAtMatchNever(limit) == position >= limit
StopsAtMatch(limit) == ~search.longest \/ position >= limit

RunThreads(m, limit) ==
  LET one(sofar, t) ==
        CASE sofar.over -> sofar
          [] ~sofar.over /\ IsMatchID(nfa, t.state) ->
               [sofar EXCEPT
                  !.best = IF IsBetterMatch(@, t.start, position)
                           THEN [start |-> t.start, end |-> position, slots |-> SlotsOf(t, sofar.memory)]
                           ELSE @,
                  !.over = StopsAtMatch(limit)]
          [] ~sofar.over /\ ~IsMatchID(nfa, t.state) /\ position < limit ->
               [sofar EXCEPT !.memory = Step(t, Haystack[position + 1], @)]
          [] OTHER -> sofar
      after == [Swapped(m) EXCEPT !.queue = <<>>, !.visited = {}]
  IN  FoldLeft(one, [memory |-> after, best |-> best, over |-> FALSE], m.queue)

(* No thread is left that could find a match further to the left, or, of a *)
(* search that started once, any match at all.                             *)
NothingBetter(threads, found) ==
  /\ found # NoMatchYet
  /\ IF OnlyAtStart THEN threads = <<>>
                    ELSE \A k \in DOMAIN threads : threads[k].start > found.start

-----------------------------------------------------------------------------
(* A search.                                                               *)

Call(c) ==
  /\ stage = "idle"
  /\ search' = c
  /\ stage' = "begin"
  /\ vm' = Cleared(vm)
  /\ position' = c.at
  /\ best' = NoMatchYet
  /\ answer' = None
  /\ UNCHANGED nfa

(* buildCapturesResult, buildCapturesFromSlots                             *)
GroupsIn(slots) ==
  [k \in 1..(nfa.captureCount - 1) |->
     IF slots # <<>> /\ slots[2 * k + 1] >= 0 /\ slots[2 * k + 2] >= 0
     THEN <<slots[2 * k + 1], slots[2 * k + 2]>> ELSE <<Unset, Unset>>]
ResultOf(found) ==
  CASE found = NoMatchYet -> None
    [] search.op = "IsMatch" -> Yes
    [] search.op \in CowOps \cup {"SlotTableCapturesAt"} ->
         [start |-> found.start, end |-> found.end, groups |-> GroupsIn(found.slots)]
    [] OTHER -> [start |-> found.start, end |-> found.end, groups |-> <<>>]

Return(found, memory) ==
  /\ stage' = "idle"
  /\ answer' = ResultOf(found)
  /\ vm' = [Cleared(memory) EXCEPT !.leaked = memory.leaked]
  /\ best' = NoMatchYet

(* The table a search works on; a search for the match only does not need  *)
(* one, and uses two slots of the one that is there.                       *)
Prepared ==
  CASE search.op = "SlotTableCapturesAt" -> WithActiveSlots(WithSlotTables(vm), NumSlots)
    [] search.op = "SlotTableAt" -> WithActiveSlots(vm, 2)
    [] OTHER -> vm

OutOfRange ==
  CASE search.op = "SearchBetween" -> search.at > Len(search.hay) \/ search.at >= search.end
    [] search.op = "CapturesInSpan" -> search.at > search.end \/ search.end > Len(search.hay)
    [] OTHER -> search.at > Len(search.hay)

(* At the end of the input only the empty match is left, and what groups   *)
(* it went through is not looked up.                                       *)
AtEnd == /\ ~OutOfRange
         /\ search.op \notin {"SearchBetween", "CapturesInSpan"}
         /\ search.at = Len(search.hay)

Decline ==
  /\ stage = "begin"
  /\ OutOfRange
  /\ Return(NoMatchYet, vm)
  /\ UNCHANGED <<nfa, search, position>>

FindEmptyAtEnd ==
  /\ stage = "begin"
  /\ AtEnd
  /\ Return(IF MatchesEmptyAt(search.at)
            THEN [start |-> search.at, end |-> search.at, slots |-> <<>>] ELSE NoMatchYet,
            Prepared)
  /\ UNCHANGED <<nfa, search, position>>

Begin ==
  /\ stage = "begin"
  /\ ~OutOfRange /\ ~AtEnd
  /\ stage' = "turn"
  /\ vm' = IF search.op = "SlotTableCapturesAt" THEN WithoutRows(Prepared) ELSE Prepared
  /\ UNCHANGED <<nfa, search, position, best, answer>>

(* The prefilter knows no candidate any more.                              *)
GiveUp ==
  /\ stage = "turn"
  /\ Seeds
  /\ NextCandidate(position) = Unset
  /\ Return(best, vm)
  /\ UNCHANGED <<nfa, search, position>>

SkipTo ==
  /\ stage = "turn"
  /\ Seeds
  /\ NextCandidate(position) > position
  /\ position' = NextCandidate(position)
  /\ UNCHANGED <<nfa, vm, search, stage, best, answer>>

(* One turn of a search that may match up to limit; seeded is the memory   *)
(* with a new thread.                                                      *)
Turn(limit, seeded) ==
  /\ \E m \in {IF Seeds THEN seeded ELSE vm} : \E run \in {RunThreads(m, limit)} :
       IF \/ search.op = "IsMatch" /\ run.best # NoMatchYet
          \/ position >= limit
          \/ NothingBetter(run.memory.queue, run.best)
       THEN Return(run.best, Swapped(run.memory)) /\ UNCHANGED position
       ELSE /\ vm' = run.memory
            /\ best' = run.best
            /\ position' = position + 1
            /\ UNCHANGED <<stage, answer>>
  /\ UNCHANGED <<nfa, search>>

NewThreads(op) ==
  /\ stage = "turn" /\ search.op = op /\ ~nfa.isAlwaysAnchored
  /\ Seeds => NextCandidate(position) = position
OneThread(op) == stage = "turn" /\ search.op = op /\ nfa.isAlwaysAnchored

(* The loops of the code, one for each search.                             *)
IsMatchUnanchored == NewThreads("IsMatch") /\ Turn(Length, SeedForMatch)
SearchUnanchoredAt == NewThreads("SearchAt") /\ Turn(Length, SeedThread)
SearchUnanchoredBetween == NewThreads("SearchBetween") /\ Turn(Before(search.end), SeedThread)
SearchAnchored ==
  (OneThread("SearchAt") \/ OneThread("SearchBetween")) /\ Turn(Len(Haystack), SeedThread)
SearchUnanchoredWithCapturesAt == NewThreads("CapturesAt") /\ Turn(Length, SeedCaptures)
SearchAtWithCaptures == OneThread("CapturesAt") /\ Turn(Length, SeedCaptures)
SearchWithCapturesInSpan ==
  stage = "turn" /\ search.op = "CapturesInSpan" /\ Turn(Before(search.end), SeedCaptures)
SearchWithSlotTableUnanchored == NewThreads("SlotTableAt") /\ Turn(Length, SeedSearchThread)
SearchWithSlotTableAnchored == OneThread("SlotTableAt") /\ Turn(Length, SeedSearchThread)
SearchWithSlotTableCapturesUnanchored ==
  NewThreads("SlotTableCapturesAt") /\ Turn(Length, SeedSlots)
SearchWithSlotTableCapturesAnchored == OneThread("SlotTableCapturesAt") /\ Turn(Length, SeedSlots)

(* Unlike the others this one ends as soon as no thread is left.           *)
IsMatchAnchored ==
  /\ OneThread("IsMatch")
  /\ IF position > 0 /\ vm.queue = <<>>
     THEN Return(NoMatchYet, vm) /\ UNCHANGED <<nfa, search, position>>
     ELSE Turn(Length, SeedForMatch)

SearchStep ==
  \/ Decline \/ FindEmptyAtEnd \/ Begin \/ GiveUp \/ SkipTo
  \/ IsMatchUnanchored \/ IsMatchAnchored
  \/ SearchUnanchoredAt \/ SearchAnchored \/ SearchUnanchoredBetween
  \/ SearchUnanchoredWithCapturesAt \/ SearchAtWithCaptures \/ SearchWithCapturesInSpan
  \/ SearchWithSlotTableUnanchored \/ SearchWithSlotTableAnchored
  \/ SearchWithSlotTableCapturesUnanchored \/ SearchWithSlotTableCapturesAnchored
===============================================================================
