--------------------------- MODULE BacktrackerProofs ---------------------------
(***************************************************************************)
(* Theorems about Backtracker, for every automaton that Builder.Validate   *)
(* accepts and every input.                                                *)
(***************************************************************************)
EXTENDS Backtracker, TLAPS, WellFoundedInduction

-----------------------------------------------------------------------------
(* Arithmetic of the table: a row of NumStates entries per position.       *)

(* An index lies in the table.                                             *)
LEMMA IndexBound ==
  ASSUME NEW n \in Nat, NEW span \in Nat, NEW row \in 0..span, NEW id \in 0..(n - 1)
  PROVE  row * n + id + 1 \in 1..(n * (span + 1))
  <1>1. row * n \in Nat /\ span * n \in Nat
    OBVIOUS
  <1>2. (span - row) * n >= 0
    OBVIOUS
  <1>3. (span - row) * n = span * n - row * n
    OBVIOUS
  <1>4. n * (span + 1) = span * n + n
    OBVIOUS
  <1> QED BY <1>1, <1>2, <1>3, <1>4

(* Two pairs with one index are one pair.                                  *)
LEMMA IndexInjective ==
  ASSUME NEW n \in Nat, NEW row \in Nat, NEW other \in Nat,
         NEW id \in 0..(n - 1), NEW od \in 0..(n - 1),
         row * n + id + 1 = other * n + od + 1
  PROVE  row = other /\ id = od
  <1>1. row * n \in Nat /\ other * n \in Nat
    OBVIOUS
  <1>2. (row - other) * n = od - id
    BY <1>1
  <1>3. CASE row > other
    <2>1. (row - other) * n >= n
      BY <1>3
    <2> QED BY <2>1, <1>2
  <1>4. CASE row < other
    <2>1. (other - row) * n >= n
      BY <1>4
    <2>2. (other - row) * n = id - od
      BY <1>1
    <2> QED BY <2>1, <2>2
  <1> QED BY <1>2, <1>3, <1>4

(* The only remainder the generation needs.                                *)
LEMMA Modulo ==
  ASSUME NEW n \in Nat \ {0}, NEW x \in 0..n
  PROVE  x % n = IF x = n THEN 0 ELSE x
  <1>1. n % n = 0
    OBVIOUS
  <1>2. \A y \in 0..(n - 1) : y % n = y
    OBVIOUS
  <1> QED BY <1>1, <1>2

(* A nonempty set of naturals has a least element, which Min returns.      *)
LEMMA LeastElement ==
  ASSUME NEW S \in SUBSET Nat, S # {}
  PROVE  Min(S) \in S /\ \A x \in S : Min(S) <= x
  <1>1. PICK x \in S : \A y \in S : ~(<<y, x>> \in OpToRel(<, Nat))
    BY NatLessThanWellFounded, WFMin
  <1>2. \A y \in S : ~(y < x)
    BY <1>1 DEF OpToRel
  <1>3. \A y \in S : x <= y
    BY <1>2
  <1> QED BY <1>3 DEF Min

-----------------------------------------------------------------------------
(* Types.                                                                  *)

Target == -1..(NumStates - 1)
Tried == Target \X (call.at..Len(Haystack))
Entry == 0..(2 ^ GenerationBits - 1)

(* What the search works on: chosen when it begins, fixed until it ends.   *)
Question ==
  /\ pattern \in Pattern /\ nfa = Automaton[pattern]
  /\ call \in Request /\ call.at <= Len(Haystack) /\ (~Searching => call.at = 0)

Table ==
  /\ visited \in Seq(Entry) /\ Len(visited) <= MaxVisitedSize
  /\ length \in 0..Len(visited)
  /\ generation \in Entry /\ partial \in BOOLEAN

Progress ==
  /\ pc \in {"idle", "attempt", "run"}
  /\ start \in 0..Len(Haystack) /\ best \in -1..Len(Haystack)
  /\ stack \in Seq(Tried)
  /\ pc # "idle" => /\ start >= call.at /\ generation > 0
                    /\ length = Entries(Len(Haystack) - call.at)
  /\ pc = "idle" => start = 0
  /\ pc # "run" => stack = <<>> /\ best = -1

Shape == Question /\ Table /\ Progress

(* What the question says of the automaton and the haystack.               *)
LEMMA AutomatonFacts ==
  ASSUME Question
  PROVE  /\ NumStates \in Nat \ {0} /\ nfa.startAnchored \in 0..(NumStates - 1)
         /\ Validate(nfa)
         /\ \A id \in 0..(NumStates - 1) : StateAt(nfa, id) \in ToSet(nfa.states)
         /\ Haystack \in Seq(Byte) /\ call.at \in 0..Len(Haystack)
  <1>1. Validate(nfa)
    BY BacktrackerAssumption DEF Question
  <1>2. NumStates \in Nat /\ nfa.startAnchored \in 0..(NumStates - 1)
    BY <1>1 DEF Validate, NumStates
  <1>3. ASSUME NEW id \in 0..(NumStates - 1)
        PROVE  StateAt(nfa, id) \in ToSet(nfa.states)
    BY <1>1, <1>2, <1>3 DEF Validate, NumStates, StateAt, ToSet
  <1>4. Haystack \in Seq(Byte) /\ call.at \in 0..Len(Haystack)
    BY DEF Question, Request, Haystack
  <1> QED BY <1>1, <1>2, <1>3, <1>4

(* The target of a byte is a state or none.                                *)
LEMMA FirstTargetType ==
  ASSUME Question, NEW id \in 0..(NumStates - 1), NEW b,
         StateAt(nfa, id).kind \in {"ByteRange", "Sparse"}
  PROVE  FirstTarget(id, b) \in Target
  <1> DEFINE s == StateAt(nfa, id)
             ranges == IF s.kind = "Sparse" THEN s.ranges ELSE <<<<s.lo, s.hi, s.next>>>>
             hits == {k \in 1..Len(ranges) : b \in ranges[k][1]..ranges[k][2]}
             k == IF hits # {} THEN Min(hits) ELSE 0
  <1>1. FirstTarget(id, b) = IF k = 0 THEN -1 ELSE ranges[k][3]
    BY DEF FirstTarget, SelectInSeq
  <1>2. k = 0 \/ k \in 1..Len(ranges)
    <2>1. hits \in SUBSET Nat
      OBVIOUS
    <2>2. hits # {} => Min(hits) \in hits
      BY <2>1, LeastElement
    <2> QED BY <2>2
  <1>3. s \in ToSet(nfa.states) /\ Validate(nfa) /\ NumStates \in Nat
    BY AutomatonFacts
  <1> HIDE DEF k
  <1>4. \A j \in 1..Len(ranges) : ranges[j][3] \in Target
    <2>1. CASE s.kind = "Sparse"
      BY <2>1, <1>3 DEF Validate, Target, NumStates
    <2>2. CASE s.kind # "Sparse"
      <3>1. s.next \in Target
        BY <2>2, <1>3 DEF Validate, Target, NumStates
      <3>2. ranges = <<<<s.lo, s.hi, s.next>>>>
        BY <2>2
      <3> HIDE DEF ranges
      <3> QED BY <3>1, <3>2
    <2> QED BY <2>1, <2>2
  <1> HIDE DEF ranges
  <1> QED BY <1>1, <1>2, <1>3, <1>4 DEF Target

(* Where a state leads is a target of the automaton and a position of the  *)
(* input, the next one only if there is a byte to read.                    *)
LEMMA SuccessorsType ==
  ASSUME Question, NEW id \in 0..(NumStates - 1), NEW pos \in call.at..Len(Haystack)
  PROVE  Successors(id, pos) \in Seq(Tried)
  <1> DEFINE s == StateAt(nfa, id)
  <1>1. s \in ToSet(nfa.states) /\ Validate(nfa) /\ NumStates \in Nat
        /\ Haystack \in Seq(Byte) /\ call.at \in 0..Len(Haystack)
    BY AutomatonFacts
  <1>2. CASE s.kind = "Split"
    <2>1. s.left \in Target /\ s.right \in Target
      BY <1>1, <1>2 DEF Validate, Target, NumStates
    <2>2. Successors(id, pos) = <<<<s.left, pos>>, <<s.right, pos>>>>
      BY <1>2 DEF Successors
    <2> QED BY <2>1, <2>2 DEF Tried
  <1>3. CASE s.kind \in {"Epsilon", "Capture", "Look"}
    <2>1. s.next \in Target
      BY <1>1, <1>3 DEF Validate, Target, NumStates
    <2>2. Successors(id, pos) = <<<<s.next, pos>>>> \/ Successors(id, pos) = <<>>
      BY <1>3 DEF Successors
    <2>3. <<<<s.next, pos>>>> \in Seq(Tried)
      BY <2>1 DEF Tried
    <2>4. <<>> \in Seq(Tried)
      OBVIOUS
    <2> QED BY <2>2, <2>3, <2>4
  <1>4. CASE s.kind \in {"ByteRange", "Sparse"}
    <2> DEFINE t == FirstTarget(id, Haystack[pos + 1])
    <2>1. t \in Target
      BY <1>4, FirstTargetType
    <2>2. \/ Successors(id, pos) = <<>>
          \/ pos < Len(Haystack) /\ Successors(id, pos) = <<<<t, pos + 1>>>>
      BY <1>4 DEF Successors
    <2> HIDE DEF t
    <2>3. <<>> \in Seq(Tried)
      OBVIOUS
    <2>4. ASSUME pos < Len(Haystack)
          PROVE  <<<<t, pos + 1>>>> \in Seq(Tried)
      <3>1. <<t, pos + 1>> \in Tried
        BY <1>1, <2>1, <2>4 DEF Tried
      <3> QED BY <3>1
    <2> QED BY <2>2, <2>3, <2>4
  <1>5. CASE s.kind \notin {"Split", "Epsilon", "Capture", "Look", "ByteRange", "Sparse"}
    <2>1. Successors(id, pos) = <<>>
      BY <1>5 DEF Successors
    <2> QED BY <2>1
  <1> QED BY <1>2, <1>3, <1>4, <1>5

-----------------------------------------------------------------------------
(* The table never outgrows its limit and covers what a search visits.     *)

(* With the next generation no entry is visited, unless a wrap left some   *)
(* entries behind.                                                         *)
LEMMA NextGenerationFresh ==
  ASSUME NEW entries \in Seq(Entry), NEW used \in 0..Len(entries),
         NEW latest \in Entry, NEW left \in BOOLEAN,
         NextGeneration(entries, used, latest, left)
  PROVE  /\ visited' \in Seq(Entry) /\ Len(visited') = Len(entries)
         /\ generation' \in Entry \ {0} /\ partial' \in BOOLEAN
         /\ ~partial' => ~left
         /\ ~partial' /\ (\A i \in 1..Len(entries) : entries[i] <= latest)
              => \A i \in 1..Len(entries) : visited'[i] < generation'
  <1> DEFINE many == 2 ^ GenerationBits
             next == (latest + 1) % many
  <1>1. many \in Nat \ {0, 1}
    BY BacktrackerAssumption
  <1> HIDE DEF many
  <1>2. latest \in 0..(many - 1) /\ Entry = 0..(many - 1)
    BY DEF Entry, many
  <1>3. next = IF latest + 1 = many THEN 0 ELSE latest + 1
    <2>1. latest + 1 \in 0..many
      BY <1>1, <1>2
    <2> QED BY <1>1, <2>1, Modulo
  <1>4. /\ generation' = IF next = 0 THEN 1 ELSE next
        /\ visited' = IF next = 0 THEN Cleared(entries, used) ELSE entries
        /\ partial' = (left \/ (next = 0 /\ used < Len(entries)))
    BY DEF NextGeneration, many
  <1> HIDE DEF next
  <1>7. /\ partial' \in BOOLEAN /\ (~partial' => ~left)
        /\ ~partial' /\ next = 0 => ~(used < Len(entries))
    BY <1>4, Zenon
  <1>5. CASE next = 0
    <2>1. visited' = [i \in 1..Len(entries) |-> IF i <= used THEN 0 ELSE entries[i]]
      BY <1>4, <1>5 DEF Cleared
    <2>2. \A i \in 1..Len(entries) : entries[i] \in Entry
      OBVIOUS
    <2>3. 0 \in Entry
      BY <1>1, <1>2
    <2>4. visited' \in Seq(Entry) /\ Len(visited') = Len(entries)
      <3>1. Len(entries) \in Nat
        OBVIOUS
      <3>2. visited' \in [1..Len(entries) -> Entry]
        BY <2>1, <2>2, <2>3
      <3> QED BY <3>1, <3>2
    <2>5. generation' = 1
      BY <1>4, <1>5
    <2>6. ASSUME ~partial', NEW i \in 1..Len(entries)
          PROVE  visited'[i] = 0
      <3>1. ~(used < Len(entries)) /\ used \in Nat /\ i \in Nat /\ Len(entries) \in Nat
        BY <1>5, <1>7, <2>6
      <3>2. i <= used
        BY <3>1
      <3> QED BY <2>1, <3>2
    <2> QED BY <1>1, <1>2, <1>7, <2>4, <2>5, <2>6
  <1>6. CASE next # 0
    <2>1. visited' = entries /\ generation' = latest + 1 /\ generation' < many
      <3>1. latest + 1 # many /\ next = latest + 1
        BY <1>3, <1>6
      <3>2. latest + 1 < many
        BY <1>1, <1>2, <3>1
      <3> QED BY <1>4, <1>6, <3>1, <3>2
    <2>2. \A i \in 1..Len(entries) : entries[i] \in Int
      <3>1. \A i \in 1..Len(entries) : entries[i] \in Entry
        OBVIOUS
      <3> QED BY <1>1, <1>2, <3>1
    <2> QED BY <1>1, <1>2, <1>7, <2>1, <2>2
  <1> QED BY <1>5, <1>6

Fresh ==
  ~partial => /\ \A i \in 1..Len(visited) : visited[i] <= generation
              /\ NothingVisited

(* A table for the span of a request fits, and holds no visited entry.     *)
LEMMA ResetShape ==
  ASSUME Question, Table, Fresh, NEW span \in Nat, CanHandle(span), Reset(span)
  PROVE  /\ visited' \in Seq(Entry) /\ Len(visited') <= MaxVisitedSize
         /\ length' = Entries(span) /\ length' \in 0..Len(visited')
         /\ generation' \in Entry \ {0} /\ partial' \in BOOLEAN
         /\ ~partial' => \A i \in 1..Len(visited') : visited'[i] < generation'
  <1>1. NumStates \in Nat
    BY AutomatonFacts
  <1>2. Entries(span) \in Nat /\ Entries(span) <= MaxVisitedSize /\ MaxVisitedSize \in Nat
    BY <1>1, BacktrackerAssumption DEF Entries, CanHandle
  <1>3. CASE Len(visited) >= Entries(span)
    <2>1. NextGeneration(visited, Entries(span), generation, partial)
      BY <1>3 DEF Reset
    <2>2. Entries(span) \in 0..Len(visited)
      BY <1>2, <1>3 DEF Table
    <2>3. ~partial => \A i \in 1..Len(visited) : visited[i] <= generation
      BY DEF Fresh
    <2>4. /\ visited' \in Seq(Entry) /\ Len(visited') = Len(visited)
          /\ generation' \in Entry \ {0} /\ partial' \in BOOLEAN
          /\ ~partial' => ~partial
          /\ ~partial' /\ (\A i \in 1..Len(visited) : visited[i] <= generation)
               => \A i \in 1..Len(visited) : visited'[i] < generation'
      BY <2>1, <2>2, NextGenerationFresh DEF Table
    <2>5. length' = Entries(span)
      BY DEF Reset
    <2> QED BY <2>2, <2>3, <2>4, <2>5 DEF Table
  <1>4. CASE ~(Len(visited) >= Entries(span))
    <2> DEFINE zeros == [i \in 1..Entries(span) |-> 0]
    <2>1. NextGeneration(zeros, Entries(span), 0, FALSE)
      BY <1>4 DEF Reset
    <2>2. 0 \in Entry
      BY BacktrackerAssumption DEF Entry
    <2>3. zeros \in Seq(Entry) /\ Len(zeros) = Entries(span)
      BY <1>2, <2>2
    <2>4. \A i \in 1..Entries(span) : zeros[i] <= 0
      OBVIOUS
    <2> HIDE DEF zeros
    <2>7. Entries(span) \in 0..Len(zeros) /\ FALSE \in BOOLEAN
      BY <1>2, <2>3
    <2>5. /\ visited' \in Seq(Entry) /\ Len(visited') = Len(zeros)
          /\ generation' \in Entry \ {0} /\ partial' \in BOOLEAN
          /\ ~partial' /\ (\A i \in 1..Len(zeros) : zeros[i] <= 0)
               => \A i \in 1..Len(zeros) : visited'[i] < generation'
      BY <2>1, <2>2, <2>3, <2>7, NextGenerationFresh
    <2>6. length' = Entries(span)
      BY DEF Reset
    <2> QED BY <1>2, <2>3, <2>4, <2>5, <2>6
  <1> QED BY <1>3, <1>4

(* The entry of a pair that is tried lies within the part in use.          *)
LEMMA IndexInUse ==
  ASSUME Question, Progress, pc # "idle",
         NEW id \in 0..(NumStates - 1), NEW pos \in call.at..Len(Haystack)
  PROVE  Index(id, pos) \in 1..length
  <1>1. NumStates \in Nat /\ call.at \in 0..Len(Haystack) /\ Haystack \in Seq(Byte)
    BY AutomatonFacts
  <1>2. length = NumStates * ((Len(Haystack) - call.at) + 1)
    BY DEF Progress, Entries
  <1>3. Len(Haystack) \in Nat /\ Len(Haystack) - call.at \in Nat
        /\ pos - call.at \in 0..(Len(Haystack) - call.at)
    BY <1>1
  <1> QED BY <1>1, <1>2, <1>3, IndexBound DEF Index

EntriesInUse ==
  pc # "idle" => \A id \in 0..(NumStates - 1), pos \in call.at..Len(Haystack) :
                   Index(id, pos) \in 1..length
(* Every pair that can be tried has its entry among those in use.          *)
LEMMA ShapeInUse == Shape => EntriesInUse
  BY IndexInUse DEF Shape, EntriesInUse

(* The top of the stack is a target within the haystack.                   *)
LEMMA TopOfStack ==
  ASSUME Progress, stack # <<>>
  PROVE  State \in Target /\ Position \in call.at..Len(Haystack) /\ Tail(stack) \in Seq(Tried)
         /\ (InBounds(State) => State \in 0..(NumStates - 1))
  <1>1. Head(stack) \in Tried /\ Tail(stack) \in Seq(Tried)
    BY DEF Progress
  <1> QED BY <1>1 DEF Tried, State, Position, InBounds

(* Marking a pair writes its entry and no other.                           *)
LEMMA MarkTable ==
  ASSUME Question, Table, Progress, pc = "run", stack # <<>>, ShouldVisit, Mark
  PROVE  Table' /\ Len(visited') = Len(visited)
         /\ (\A i \in 1..Len(visited) :
               visited'[i] = IF i = Index(State, Position) THEN generation ELSE visited[i])
  <1> DEFINE at == Index(State, Position)
  <1>1. at \in 1..length
    BY TopOfStack, IndexInUse DEF ShouldVisit
  <1>2. visited' = [visited EXCEPT ![at] = generation]
        /\ length' = length /\ generation' = generation /\ partial' = partial
    BY DEF Mark
  <1> HIDE DEF at
  <1>3. at \in 1..Len(visited)
    BY <1>1 DEF Table
  <1>4. visited' \in Seq(Entry) /\ Len(visited') = Len(visited)
    BY <1>2, <1>3 DEF Table
  <1>5. \A i \in 1..Len(visited) : visited'[i] = IF i = at THEN generation ELSE visited[i]
    BY <1>2, <1>3 DEF Table
  <1>6. Table'
    BY <1>2, <1>4 DEF Table, Entry
  <1> QED BY <1>4, <1>5, <1>6 DEF at

(* Marking writes the current generation, so every entry still is of it    *)
(* or an earlier one.                                                      *)
LEMMA MarkFresh ==
  ASSUME Question, Table, Progress, Fresh, pc = "run", stack # <<>>, ShouldVisit, Mark,
         pc' # "attempt"
  PROVE  Fresh'
  <1>1. /\ Len(visited') = Len(visited)
        /\ \A i \in 1..Len(visited) :
             visited'[i] = IF i = Index(State, Position) THEN generation ELSE visited[i]
    BY MarkTable
  <1>2. generation' = generation /\ partial' = partial
    BY DEF Mark
  <1>3. generation \in Int
    BY BacktrackerAssumption DEF Table, Entry
  <1> QED BY <1>1, <1>2, <1>3 DEF Fresh, NothingVisited

(* A search goes on with what it works on.                                 *)
LEMMA SameQuestion ==
  ASSUME UNCHANGED <<pattern, nfa, call>>
  PROVE  /\ (Question => Question')
         /\ Tried' = Tried /\ Haystack' = Haystack /\ NumStates' = NumStates
         /\ Searching' = Searching
         /\ Entries(Len(Haystack) - call.at)' = Entries(Len(Haystack) - call.at)
  BY DEF Question, Tried, Target, Haystack, NumStates, Searching, Entries

(* The initial states.                                                     *)
LEMMA ShapeInit == Init => Shape /\ Fresh
  <1> SUFFICES ASSUME Init PROVE Shape /\ Fresh
    OBVIOUS
  <1>1. Question
    BY DEF Init, Question, Request, Op, Haystack, Searching
  <1>2. Table
    <2>1. 0 \in Entry /\ MaxVisitedSize \in Nat
      BY BacktrackerAssumption DEF Entry
    <2>2. visited \in Seq(Entry) /\ Len(visited) = 0
      BY DEF Init
    <2>3. length = 0 /\ generation = 0
      BY DEF Init
    <2>4. partial \in BOOLEAN
      BY DEF Init
    <2> QED BY <2>1, <2>2, <2>3, <2>4 DEF Table
  <1>3. Progress
    <2>1. Len(Haystack) = 0
      BY DEF Init, Haystack
    <2> QED BY <2>1 DEF Init, Progress
  <1>4. Fresh
    BY DEF Init, Fresh, NothingVisited
  <1> QED BY <1>1, <1>2, <1>3, <1>4 DEF Shape

(* A new search, whatever table the earlier ones have left.                *)
LEMMA NewSearchShape == Shape /\ Fresh /\ NewSearch => Shape' /\ Fresh'
  <1> SUFFICES ASSUME Shape, Fresh, NEW c \in Calls[pattern], Refuse(c) \/ Search(c)
               PROVE  Shape' /\ Fresh'
    BY DEF NewSearch
  <1>1. c \in Request /\ c.at <= Len(c.hay) /\ (c.op # "SearchAt" => c.at = 0)
    BY BacktrackerAssumption DEF Shape, Question
  <1>2. call' = c /\ UNCHANGED <<pattern, nfa>>
    BY DEF Refuse, Search
  <1>3. Question'
    BY <1>1, <1>2 DEF Shape, Question, Haystack, Searching
  <1>4. c.at \in Nat /\ Len(c.hay) \in Nat /\ Len(c.hay) - c.at \in Nat
    BY <1>1 DEF Request
  <1>5. CASE Refuse(c)
    <2>1. UNCHANGED table /\ pc' = "idle" /\ pc = "idle" /\ UNCHANGED <<start, stack, best>>
      BY <1>5 DEF Refuse
    <2>2. Table' /\ Fresh'
      BY <2>1 DEF table, Shape, Table, Entry, Fresh, NothingVisited
    <2>3. Progress'
      BY <1>2, <1>4, <2>1 DEF Shape, Progress, Haystack
    <2> QED BY <1>3, <2>2, <2>3 DEF Shape
  <1>6. CASE Search(c)
    <2> DEFINE span == Len(c.hay) - c.at
    <2>1. CanHandle(span) /\ Reset(span) /\ pc = "idle" /\ pc' = "attempt" /\ start' = c.at
          /\ UNCHANGED <<stack, best>>
      BY <1>6 DEF Search
    <2> HIDE DEF span
    <2>2. /\ visited' \in Seq(Entry) /\ Len(visited') <= MaxVisitedSize
          /\ length' = Entries(span) /\ length' \in 0..Len(visited')
          /\ generation' \in Entry \ {0} /\ partial' \in BOOLEAN
          /\ ~partial' => \A i \in 1..Len(visited') : visited'[i] < generation'
      <3>1. span \in Nat
        BY <1>4 DEF span
      <3> QED BY <2>1, <3>1, ResetShape DEF Shape
    <2>3. Table'
      BY <2>2 DEF Table, Entry
    <2>4. Entries(span) = Entries(Len(Haystack) - call.at)'
      BY <1>2 DEF span, Entries, NumStates, Haystack
    <2>5. generation' \in Nat \ {0}
      BY <2>2, BacktrackerAssumption DEF Entry
    <2>6. Progress'
      BY <1>2, <1>4, <2>1, <2>2, <2>4, <2>5 DEF Shape, Progress, Haystack
    <2>7. Fresh'
      <3> SUFFICES ASSUME ~partial'
                   PROVE  (\A i \in 1..Len(visited') : visited'[i] <= generation')
                          /\ \A i \in 1..length' : visited'[i] # generation'
        BY DEF Fresh, NothingVisited
      <3>1. \A i \in 1..Len(visited') : visited'[i] \in Nat
        BY <2>2, BacktrackerAssumption DEF Entry
      <3>2. \A i \in 1..Len(visited') : visited'[i] < generation'
        BY <2>2
      <3>3. \A i \in 1..length' : i \in 1..Len(visited')
        BY <2>2
      <3> QED BY <2>5, <3>1, <3>2, <3>3
    <2> QED BY <1>3, <2>3, <2>6, <2>7 DEF Shape
  <1> QED BY <1>5, <1>6

(* Every step of a search but the last leaves the question as it is; so    *)
(* does the last, which empties the stack.                                 *)
LEMMA ReturnShape ==
  ASSUME Question, NEW result, Return(result), Table'
  PROVE  Shape'
  <1>1. /\ pc' = "idle" /\ start' = 0 /\ stack' = <<>> /\ best' = -1
        /\ UNCHANGED <<pattern, nfa, call>>
    BY DEF Return
  <1>2. Question' /\ Len(Haystack)' = Len(Haystack)
    BY <1>1, SameQuestion
  <1>3. Len(Haystack) \in Nat
    BY AutomatonFacts
  <1>4. Progress'
    BY <1>1, <1>2, <1>3 DEF Progress
  <1> QED BY <1>2, <1>4 DEF Shape

(* A step of a search.                                                     *)
LEMMA SearchStepShape == Shape /\ Fresh /\ SearchStep => Shape' /\ Fresh'
  <1> SUFFICES ASSUME Shape, Fresh, SearchStep PROVE Shape' /\ Fresh'
    OBVIOUS
  <1>q. Question /\ Table /\ Progress
    BY DEF Shape
  <1>1. Len(Haystack) \in Nat /\ NumStates \in Nat /\ call.at \in 0..Len(Haystack)
        /\ nfa.startAnchored \in 0..(NumStates - 1) /\ generation \in Int
    BY <1>q, AutomatonFacts, BacktrackerAssumption DEF Table, Entry
  <1>2. CASE Attempt
    <2>1. /\ pc = "attempt" /\ pc' = "run" /\ stack' = <<<<nfa.startAnchored, start>>>>
          /\ UNCHANGED <<pattern, nfa, table, call, start, best, answer>>
      BY <1>2 DEF Attempt
    <2>2. Question' /\ Tried' = Tried /\ Haystack' = Haystack
          /\ Entries(Len(Haystack) - call.at)' = Entries(Len(Haystack) - call.at)
      BY <1>q, <2>1, SameQuestion
    <2>3. <<nfa.startAnchored, start>> \in Tried
      BY <1>q, <1>1, <2>1 DEF Progress, Tried, Target
    <2>4. stack' \in Seq(Tried)
      BY <2>1, <2>3
    <2>5. Progress'
      BY <1>q, <2>1, <2>2, <2>4 DEF Progress, table
    <2>6. Table' /\ Fresh'
      BY <1>q, <2>1 DEF table, Table, Entry, Fresh, NothingVisited
    <2> QED BY <2>2, <2>5, <2>6 DEF Shape
  <1>3. CASE Skip
    <2>1. /\ pc = "run" /\ stack # <<>> /\ stack' = Tail(stack)
          /\ UNCHANGED <<pattern, nfa, table, call, pc, start, best, answer>>
      BY <1>3 DEF Skip, Trying
    <2>2. Question' /\ Tried' = Tried /\ Haystack' = Haystack
          /\ Entries(Len(Haystack) - call.at)' = Entries(Len(Haystack) - call.at)
      BY <1>q, <2>1, SameQuestion
    <2>3. stack' \in Seq(Tried)
      BY <1>q, <2>1 DEF Progress
    <2>4. Progress'
      BY <1>q, <2>1, <2>2, <2>3 DEF Progress, table
    <2>5. Table' /\ Fresh'
      BY <1>q, <2>1 DEF table, Table, Entry, Fresh, NothingVisited
    <2> QED BY <2>2, <2>4, <2>5 DEF Shape
  <1>4. CASE Explore
    <2>1. /\ pc = "run" /\ stack # <<>> /\ ShouldVisit /\ Mark
          /\ stack' = Successors(State, Position) \o Tail(stack)
          /\ UNCHANGED <<pattern, nfa, call, pc, start, best, answer>>
      BY <1>4 DEF Explore, Trying
    <2>2. Question' /\ Tried' = Tried /\ Haystack' = Haystack
          /\ Entries(Len(Haystack) - call.at)' = Entries(Len(Haystack) - call.at)
      BY <1>q, <2>1, SameQuestion
    <2>3. stack' \in Seq(Tried)
      BY <1>q, <2>1, TopOfStack, SuccessorsType DEF ShouldVisit
    <2>4. Table' /\ Fresh'
      BY <1>q, <2>1, MarkTable, MarkFresh
    <2>5. length' = length /\ generation' = generation
      BY <2>1 DEF Mark
    <2>6. Progress'
      BY <1>q, <2>1, <2>2, <2>3, <2>5 DEF Progress
    <2> QED BY <2>2, <2>4, <2>6 DEF Shape
  <1>5. CASE ReachMatch
    <2>1. /\ pc = "run" /\ stack # <<>> /\ ShouldVisit /\ Mark
          /\ \/ /\ best' = IF Position > best THEN Position ELSE best
                /\ stack' = Tail(stack)
                /\ UNCHANGED <<pattern, nfa, call, pc, start, answer>>
             \/ Return(FoundAt(start, Position))
      BY <1>5 DEF ReachMatch, Trying
    <2>2. pc' # "attempt"
      BY <2>1 DEF Return
    <2>3. Table' /\ Fresh'
      BY <1>q, <2>1, <2>2, MarkTable, MarkFresh
    <2>4. CASE Return(FoundAt(start, Position))
      BY <1>q, <2>3, <2>4, ReturnShape
    <2>5. CASE /\ best' = IF Position > best THEN Position ELSE best
               /\ stack' = Tail(stack)
               /\ UNCHANGED <<pattern, nfa, call, pc, start, answer>>
      <3>1. Question' /\ Tried' = Tried /\ Haystack' = Haystack
            /\ Entries(Len(Haystack) - call.at)' = Entries(Len(Haystack) - call.at)
        BY <1>q, <2>5, SameQuestion
      <3>2. stack' \in Seq(Tried) /\ Position \in call.at..Len(Haystack)
        BY <1>q, <2>1, <2>5, TopOfStack
      <3>3. best' \in -1..Len(Haystack)
        BY <1>q, <1>1, <2>5, <3>2 DEF Progress
      <3>4. length' = length /\ generation' = generation
        BY <2>1 DEF Mark
      <3>5. Progress'
        BY <1>q, <2>1, <2>5, <3>1, <3>2, <3>3, <3>4 DEF Progress
      <3> QED BY <2>3, <3>1, <3>5 DEF Shape
    <2> QED BY <2>1, <2>4, <2>5
  <1>6. CASE Longest
    <2>1. Return(FoundAt(start, best)) /\ UNCHANGED table
      BY <1>6 DEF Longest
    <2>2. Table' /\ Fresh'
      BY <1>q, <2>1 DEF table, Table, Entry, Fresh, NothingVisited, Return
    <2> QED BY <1>q, <2>1, <2>2, ReturnShape
  <1>7. CASE Fail
    <2>1. /\ pc = "run" /\ stack = <<>> /\ best < 0
          /\ IF Searching
             THEN NextGeneration(visited, length, generation, partial) /\ UNCHANGED length
             ELSE UNCHANGED table
          /\ \/ /\ MoreAttempts /\ pc' = "attempt" /\ start' = NextStart
                /\ UNCHANGED <<pattern, nfa, call, stack, best, answer>>
             \/ Return(NoAnswer)
      BY <1>7 DEF Fail, Exhausted
    <2>2. /\ Table' /\ length' = length /\ generation' > 0 /\ (~partial' => ~partial)
          /\ ~partial' => /\ \A i \in 1..Len(visited') : visited'[i] <= generation'
                          /\ Searching => \A i \in 1..length' : visited'[i] # generation'
      <3>1. CASE Searching
        <4>1. NextGeneration(visited, length, generation, partial) /\ length' = length
          BY <2>1, <3>1
        <4>2. /\ visited' \in Seq(Entry) /\ Len(visited') = Len(visited)
              /\ generation' \in Entry \ {0} /\ partial' \in BOOLEAN
              /\ ~partial' => ~partial
              /\ ~partial' /\ (\A i \in 1..Len(visited) : visited[i] <= generation)
                   => \A i \in 1..Len(visited) : visited'[i] < generation'
          BY <1>q, <4>1, NextGenerationFresh DEF Table
        <4>3. Table'
          BY <1>q, <4>1, <4>2 DEF Table, Entry
        <4>4. \A i \in 1..Len(visited') : visited'[i] \in Nat
          BY <4>2, BacktrackerAssumption DEF Entry
        <4>5. generation' \in Nat \ {0}
          BY <4>2, BacktrackerAssumption DEF Entry
        <4>6. ~partial' => \A i \in 1..Len(visited) : visited'[i] < generation'
          BY <4>2 DEF Fresh
        <4>7. \A i \in 1..length' : i \in 1..Len(visited')
          BY <4>3 DEF Table
        <4> QED BY <4>1, <4>2, <4>3, <4>4, <4>5, <4>6, <4>7
      <3>2. CASE ~Searching
        <4>1. UNCHANGED table
          BY <2>1, <3>2
        <4> QED BY <1>q, <2>1, <3>2, <4>1 DEF table, Table, Entry, Fresh, Progress
      <3> QED BY <3>1, <3>2
    <2>3. CASE Return(NoAnswer)
      <3>1. Fresh'
        BY <2>2, <2>3 DEF Return, Fresh, NothingVisited
      <3> QED BY <1>q, <2>2, <2>3, <3>1, ReturnShape
    <2>4. CASE /\ MoreAttempts /\ pc' = "attempt" /\ start' = NextStart
               /\ UNCHANGED <<pattern, nfa, call, stack, best, answer>>
      <3>1. Question' /\ Tried' = Tried /\ Haystack' = Haystack
            /\ Entries(Len(Haystack) - call.at)' = Entries(Len(Haystack) - call.at)
            /\ Searching' = Searching
        BY <1>q, <2>4, SameQuestion
      <3>2. start' = start + 1 /\ start < Len(Haystack) /\ start \in Nat /\ start >= call.at
        BY <1>q, <2>1, <2>4 DEF MoreAttempts, NextStart, Progress
      <3>3. start' \in 0..Len(Haystack) /\ start' > call.at
        BY <1>1, <3>2
      <3>4. best = -1
        BY <1>q, <2>1, <1>1 DEF Progress
      <3>5. Progress'
        BY <1>q, <1>1, <2>1, <2>2, <2>4, <3>1, <3>3, <3>4 DEF Progress
      <3>6. Fresh'
        BY <1>1, <2>2, <2>4, <3>1, <3>3 DEF Fresh, NothingVisited
      <3> QED BY <2>2, <3>1, <3>5, <3>6 DEF Shape
    <2> QED BY <2>1, <2>3, <2>4
  <1> QED BY <1>2, <1>3, <1>4, <1>5, <1>6, <1>7 DEF SearchStep

(* A stuttering step.                                                      *)
LEMMA ShapeStutter == Shape /\ Fresh /\ UNCHANGED vars => Shape' /\ Fresh'
  <1> SUFFICES ASSUME Shape, Fresh, UNCHANGED vars PROVE Shape' /\ Fresh'
    OBVIOUS
  <1>1. Question' /\ Tried' = Tried /\ Haystack' = Haystack /\ Searching' = Searching
        /\ Entries(Len(Haystack) - call.at)' = Entries(Len(Haystack) - call.at)
    BY SameQuestion DEF Shape, vars
  <1>2. Table' /\ Progress'
    BY <1>1 DEF vars, Shape, Table, Entry, Progress
  <1>3. Fresh'
    BY <1>1 DEF vars, Fresh, NothingVisited
  <1> QED BY <1>1, <1>2, <1>3 DEF Shape

(* The invariant of the table holds.                                       *)
LEMMA ShapeInvariant == Spec => [](Shape /\ Fresh)
  <1>1. Shape /\ Fresh /\ [Next]_vars => (Shape /\ Fresh)'
    BY NewSearchShape, SearchStepShape, ShapeStutter DEF Next
  <1> QED BY ShapeInit, <1>1, PTL DEF Spec

(* What a search touches lies within the table, the table within its limit *)
(* and every entry within its width.                                       *)
THEOREM TypeCorrect == Spec => []TypeOK
  <1>1. Shape => TypeOK
    <2> SUFFICES ASSUME Shape PROVE TypeOK
      OBVIOUS
    <2>1. Question /\ Table /\ Progress
      BY DEF Shape
    <2>2. \A i \in DOMAIN visited : visited[i] \in 0..(2 ^ GenerationBits - 1)
      <3>1. \A i \in DOMAIN visited : visited[i] \in Entry
        BY <2>1 DEF Table
      <3> QED BY <3>1 DEF Entry
    <2>3. \A k \in DOMAIN stack :
            InBounds(stack[k][1]) => Index(stack[k][1], stack[k][2]) \in 1..length
      <3> SUFFICES ASSUME NEW k \in DOMAIN stack, InBounds(stack[k][1])
                   PROVE  Index(stack[k][1], stack[k][2]) \in 1..length
        OBVIOUS
      <3>1. stack[k] \in Tried /\ stack # <<>>
        BY <2>1 DEF Progress
      <3>2. stack[k][2] \in call.at..Len(Haystack) /\ pc # "idle"
        BY <2>1, <3>1 DEF Tried, Progress
      <3> QED BY <2>1, <3>2, IndexInUse DEF InBounds
    <2> QED BY <2>1, <2>2, <2>3 DEF TypeOK, Question, Table, Progress, Entry
  <1> QED BY ShapeInvariant, <1>1, PTL

(* An attempt begins with nothing visited, however often and for whatever  *)
(* inputs the table was used before, until a wrap leaves entries behind.   *)
THEOREM AttemptBeginsFresh == Spec => []FreshTable
  <1>1. Fresh => FreshTable
    BY DEF Fresh, FreshTable
  <1> QED BY ShapeInvariant, <1>1, PTL

-----------------------------------------------------------------------------
(* What an answer means: where the automaton leads, whatever the order in  *)
(* which the search looks.  A pair is reached if it is in every set of     *)
(* pairs that holds the first one and what follows its members.            *)

Closed(S) == \A pair \in S : Follows(pair) \subseteq S
Reaches(from, pair) == \A S \in SUBSET Pairs : from \in S /\ Closed(S) => pair \in S
First(i) == <<nfa.startAnchored, i>>
MatchFrom(i, e) ==
  \E id \in 0..(NumStates - 1) : IsMatchID(nfa, id) /\ Reaches(First(i), <<id, e>>)
NoMatchFrom(i) == \A e \in call.at..Len(Haystack) : ~MatchFrom(i, e)

(* The positions a search tries.                                           *)
Attempts == IF call.op = "IsMatchAnchored" THEN {0} ELSE call.at..Len(Haystack)

(* A match that is reported is one: it begins where it is tried, and the   *)
(* automaton leads from there to a match state at its end.                 *)
AnswerSound ==
  Answered /\ answer.found =>
    IF Searching
    THEN answer.start \in Attempts /\ MatchFrom(answer.start, answer.end)
    ELSE \E i \in Attempts : \E e \in call.at..Len(Haystack) : MatchFrom(i, e)

(* No match is missed, none that begins earlier and, when the longest is   *)
(* wanted, none that ends later.                                           *)
AnswerComplete ==
  ~partial /\ Answered =>
    /\ ~answer.found => \A i \in Attempts : NoMatchFrom(i)
    /\ answer.found /\ Searching =>
         /\ \A i \in call.at..(answer.start - 1) : NoMatchFrom(i)
         /\ call.longest => \A e \in call.at..Len(Haystack) :
                              MatchFrom(answer.start, e) => e <= answer.end

(* The inductive invariant.  Whatever is on the stack was reached ...      *)
StackReached ==
  pc = "run" =>
    /\ \A pair \in ToSet(stack) \cap Pairs : Reaches(First(start), pair)
    /\ best >= 0 => Searching /\ call.longest /\ MatchFrom(start, best)

(* ... and what was visited is explored but for what is on the stack, ends *)
(* no later than the longest match, and rules out the earlier positions.   *)
VisitedDone ==
  ~partial /\ pc # "idle" =>
    /\ pc = "run" => First(start) \in VisitedPairs \cup ToSet(stack)
    /\ \A pair \in VisitedPairs : Follows(pair) \subseteq VisitedPairs \cup ToSet(stack)
    /\ \A pair \in VisitedPairs : IsMatchID(nfa, pair[1]) => pair[2] <= best
    /\ \A i \in call.at..(start - 1) : NoMatchFrom(i)

Anchored == pc # "idle" /\ call.op = "IsMatchAnchored" => start = 0

Reached == Anchored /\ StackReached /\ VisitedDone /\ AnswerSound /\ AnswerComplete

(* A pair reaches itself.                                                  *)
LEMMA ReachesItself == \A pair : Reaches(pair, pair)
  BY DEF Reaches

(* What a reached pair leads to is reached.                                *)
LEMMA ReachesOn ==
  ASSUME NEW from, NEW pair, Reaches(from, pair), pair \in Pairs, NEW next \in Follows(pair)
  PROVE  Reaches(from, next)
  <1> SUFFICES ASSUME NEW S \in SUBSET Pairs, from \in S, Closed(S) PROVE next \in S
    BY DEF Reaches
  <1>1. pair \in S
    BY DEF Reaches
  <1> QED BY <1>1 DEF Closed

(* What a closed set of pairs does not hold is not reached from within it. *)
LEMMA ClosedHoldsReached ==
  ASSUME Closed(VisitedPairs), NEW i, First(i) \in VisitedPairs,
         NEW e \in call.at..Len(Haystack), MatchFrom(i, e)
  PROVE  \E id \in 0..(NumStates - 1) : IsMatchID(nfa, id) /\ <<id, e>> \in VisitedPairs
  <1>1. VisitedPairs \in SUBSET Pairs
    BY DEF VisitedPairs
  <1> QED BY <1>1 DEF MatchFrom, Reaches

(* Marking a pair marks no other one: no two pairs share an entry.         *)
LEMMA MarkVisits ==
  ASSUME Shape, pc = "run", stack # <<>>, ShouldVisit, Mark, UNCHANGED <<nfa, call>>
  PROVE  /\ <<State, Position>> \in Pairs
         /\ VisitedPairs' = VisitedPairs \cup {<<State, Position>>}
  <1> DEFINE top == <<State, Position>>
  <1>1. Question /\ Table /\ Progress
    BY DEF Shape
  <1>2. State \in 0..(NumStates - 1) /\ Position \in call.at..Len(Haystack)
    BY <1>1, TopOfStack DEF ShouldVisit
  <1>3. top \in Pairs
    BY <1>2 DEF Pairs
  <1>4. Pairs' = Pairs /\ generation' = generation
    BY DEF Pairs, NumStates, Haystack, Mark
  <1>5. \A id, pos : Index(id, pos)' = Index(id, pos)
    BY DEF Index, NumStates
  <1>6. ASSUME NEW pair \in Pairs
        PROVE  pair \in VisitedPairs' <=> pair \in VisitedPairs \cup {top}
    <2>1. PICK id \in 0..(NumStates - 1), pos \in call.at..Len(Haystack) : pair = <<id, pos>>
      BY DEF Pairs
    <2>2. Index(id, pos) \in 1..Len(visited)
      <3>1. Index(id, pos) \in 1..length
        BY <1>1, IndexInUse
      <3> QED BY <1>1, <3>1 DEF Table
    <2>3. visited'[Index(id, pos)] =
            IF Index(id, pos) = Index(State, Position) THEN generation ELSE visited[Index(id, pos)]
      BY <1>1, <2>2, MarkTable
    <2>4. Index(id, pos) = Index(State, Position) => pair = top
      <3> SUFFICES ASSUME Index(id, pos) = Index(State, Position) PROVE pair = top
        OBVIOUS
      <3> DEFINE row == pos - call.at
                 other == Position - call.at
      <3>1. NumStates \in Nat /\ call.at \in Nat /\ Len(Haystack) \in Nat
        BY <1>1, AutomatonFacts
      <3>2. row \in Nat /\ other \in Nat /\ pos \in Int /\ Position \in Int
        BY <1>2, <3>1
      <3>3. row * NumStates + id + 1 = other * NumStates + State + 1
        BY DEF Index
      <3> HIDE DEF row, other
      <3>4. row = other /\ id = State
        BY <1>2, <3>1, <3>2, <3>3, IndexInjective
      <3>5. pos = Position
        BY <1>2, <3>1, <3>2, <3>4 DEF row, other
      <3> QED BY <2>1, <3>4, <3>5
    <2>5. pair \in VisitedPairs' <=> visited'[Index(id, pos)] = generation
      BY <1>4, <1>5, <2>1 DEF VisitedPairs, Visited
    <2>6. pair \in VisitedPairs <=> visited[Index(id, pos)] = generation
      BY <2>1 DEF VisitedPairs, Visited
    <2>7. pair = top => Index(id, pos) = Index(State, Position)
      BY <2>1
    <2> QED BY <2>3, <2>4, <2>5, <2>6, <2>7
  <1>7. VisitedPairs \subseteq Pairs /\ VisitedPairs' \subseteq Pairs
    BY <1>4 DEF VisitedPairs
  <1> QED BY <1>3, <1>6, <1>7

(* The initial states.                                                     *)
LEMMA ReachedInit == Init => Reached
  <1> SUFFICES ASSUME Init PROVE Reached
    OBVIOUS
  <1>1. pc = "idle" /\ generation = 0
    BY DEF Init
  <1> QED BY <1>1 DEF Reached, Anchored, StackReached, VisitedDone, AnswerSound,
                      AnswerComplete, Answered

(* A new search, which has visited nothing.                                *)
LEMMA NewSearchReached == Shape /\ Fresh /\ NewSearch => Reached'
  <1> SUFFICES ASSUME Shape, Fresh, NEW c \in Calls[pattern], Refuse(c) \/ Search(c)
               PROVE  Reached'
    BY DEF NewSearch
  <1>1. call' = c /\ UNCHANGED <<pattern, nfa>>
    BY DEF Refuse, Search
  <1>2. Shape' /\ Fresh'
    BY NewSearchShape DEF NewSearch
  <1>3. CASE Refuse(c)
    <2>1. pc' = "idle" /\ ~CanHandle(Len(c.hay) - c.at)
      BY <1>3 DEF Refuse
    <2>2. ~Answered'
      BY <1>1, <2>1 DEF Answered, CanHandle, Entries, NumStates, Haystack
    <2> QED BY <2>1, <2>2 DEF Reached, Anchored, StackReached, VisitedDone, AnswerSound,
                              AnswerComplete
  <1>4. CASE Search(c)
    <2>1. pc' = "attempt" /\ start' = c.at
      BY <1>4 DEF Search
    <2>2. Question' /\ Table' /\ Progress'
      BY <1>2 DEF Shape
    <2>3. ~partial' => VisitedPairs' = {}
      <3> SUFFICES ASSUME ~partial', NEW pair \in VisitedPairs' PROVE FALSE
        OBVIOUS
      <3>1. NothingVisited'
        BY <1>2 DEF Fresh
      <3>2. \A i \in 1..length' : visited'[i] # generation'
        BY <1>1, <2>1, <3>1 DEF NothingVisited
      <3>3. PICK id \in 0..(NumStates' - 1), pos \in call'.at..Len(Haystack') : pair = <<id, pos>>
        BY DEF VisitedPairs, Pairs
      <3>4. Index(id, pos)' \in 1..length'
        <4>1. EntriesInUse'
          BY <1>2, ShapeInUse, PTL
        <4> QED BY <2>1, <3>3, <4>1 DEF EntriesInUse
      <3>5. visited'[Index(id, pos)'] = generation'
        BY <3>3 DEF VisitedPairs, Visited
      <3> QED BY <3>2, <3>4, <3>5
    <2>4. \A i \in call'.at..(start' - 1) : FALSE
      <3>1. c.at \in Nat
        BY <1>1, <2>2 DEF Question, Request
      <3> QED BY <1>1, <2>1, <3>1
    <2>5. VisitedDone'
      BY <2>1, <2>3, <2>4 DEF VisitedDone
    <2>6. Anchored'
      BY <1>1, <2>1, <2>2 DEF Anchored, Question, Searching
    <2> QED BY <2>1, <2>5, <2>6 DEF Reached, StackReached, AnswerSound, AnswerComplete, Answered
  <1> QED BY <1>3, <1>4

(* The elements of a sequence are its head and those of its tail.          *)
LEMMA ToSetOfTail ==
  ASSUME NEW T, NEW s \in Seq(T), s # <<>>
  PROVE  ToSet(s) = {Head(s)} \cup ToSet(Tail(s))
  <1>1. Len(s) \in Nat \ {0} /\ DOMAIN s = 1..Len(s) /\ Head(s) = s[1]
    OBVIOUS
  <1>2. DOMAIN Tail(s) = 1..(Len(s) - 1) /\ \A k \in 1..(Len(s) - 1) : Tail(s)[k] = s[k + 1]
    OBVIOUS
  <1>3. \A k \in 2..Len(s) : k - 1 \in 1..(Len(s) - 1) /\ s[k] = Tail(s)[k - 1]
    BY <1>1, <1>2
  <1>4. ToSet(s) \subseteq {Head(s)} \cup ToSet(Tail(s))
    <2> SUFFICES ASSUME NEW k \in 1..Len(s) PROVE s[k] \in {Head(s)} \cup ToSet(Tail(s))
      BY <1>1 DEF ToSet
    <2>1. CASE k = 1
      BY <1>1, <2>1
    <2>2. CASE k # 1
      <3>1. k \in 2..Len(s)
        BY <2>2
      <3> QED BY <1>2, <1>3, <3>1 DEF ToSet
    <2> QED BY <2>1, <2>2
  <1>5. {Head(s)} \cup ToSet(Tail(s)) \subseteq ToSet(s)
    BY <1>1, <1>2 DEF ToSet
  <1> QED BY <1>4, <1>5

(* The elements of a concatenation.                                        *)
LEMMA ToSetOfConcat ==
  ASSUME NEW T, NEW s \in Seq(T), NEW t \in Seq(T)
  PROVE  ToSet(s \o t) = ToSet(s) \cup ToSet(t)
  <1>1. DOMAIN (s \o t) = 1..(Len(s) + Len(t)) /\ Len(s) \in Nat /\ Len(t) \in Nat
        /\ DOMAIN s = 1..Len(s) /\ DOMAIN t = 1..Len(t)
    OBVIOUS
  <1>2. \A k \in 1..Len(s) : (s \o t)[k] = s[k]
    OBVIOUS
  <1>3. \A k \in 1..Len(t) : (s \o t)[Len(s) + k] = t[k]
    OBVIOUS
  <1>4. ToSet(s \o t) \subseteq ToSet(s) \cup ToSet(t)
    <2> SUFFICES ASSUME NEW k \in 1..(Len(s) + Len(t))
                 PROVE  (s \o t)[k] \in ToSet(s) \cup ToSet(t)
      BY <1>1 DEF ToSet
    <2>1. CASE k \in 1..Len(s)
      BY <1>1, <1>2, <2>1 DEF ToSet
    <2>2. CASE k \notin 1..Len(s)
      <3>1. k - Len(s) \in 1..Len(t) /\ k = Len(s) + (k - Len(s))
        BY <1>1, <2>2
      <3>2. (s \o t)[k] = t[k - Len(s)]
        BY <1>3, <3>1
      <3> QED BY <1>1, <3>1, <3>2 DEF ToSet
    <2> QED BY <2>1, <2>2
  <1>5. ToSet(s) \subseteq ToSet(s \o t)
    BY <1>1, <1>2 DEF ToSet
  <1>6. ToSet(t) \subseteq ToSet(s \o t)
    <2> SUFFICES ASSUME NEW k \in 1..Len(t) PROVE t[k] \in ToSet(s \o t)
      BY <1>1 DEF ToSet
    <2>1. Len(s) + k \in 1..(Len(s) + Len(t))
      BY <1>1
    <2> QED BY <1>1, <1>3, <2>1 DEF ToSet
  <1> QED BY <1>4, <1>5, <1>6

(* What the automaton reaches depends on it and on the input only.         *)
LEMMA SameReach ==
  ASSUME UNCHANGED <<nfa, call>>
  PROVE  /\ Pairs' = Pairs /\ Attempts' = Attempts /\ Haystack' = Haystack
         /\ \A i : First(i)' = First(i)
         /\ \A pair : Follows(pair)' = Follows(pair)
         /\ \A from, pair : Reaches(from, pair)' <=> Reaches(from, pair)
         /\ \A i, e : MatchFrom(i, e)' <=> MatchFrom(i, e)
         /\ \A i : NoMatchFrom(i)' <=> NoMatchFrom(i)
  <1>1. Pairs' = Pairs /\ Attempts' = Attempts /\ Haystack' = Haystack /\ NumStates' = NumStates
    BY DEF Pairs, Attempts, Haystack, NumStates
  <1>2. \A id, pos : Successors(id, pos)' = Successors(id, pos)
    BY <1>1 DEF Successors, FirstTarget, SelectInSeq, CheckLookAssertion, IsWordBefore,
                IsWordAfter
  <1>3. \A pair : Follows(pair)' = Follows(pair)
    BY <1>1, <1>2 DEF Follows
  <1>4. \A S : Closed(S)' <=> Closed(S)
    BY <1>3 DEF Closed
  <1>5. \A from, pair : Reaches(from, pair)' <=> Reaches(from, pair)
    BY <1>1, <1>4 DEF Reaches
  <1>6. \A i : First(i)' = First(i)
    BY DEF First
  <1>7. \A i, e : MatchFrom(i, e)' <=> MatchFrom(i, e)
    BY <1>1, <1>5, <1>6 DEF MatchFrom
  <1>8. \A i : NoMatchFrom(i)' <=> NoMatchFrom(i)
    BY <1>1, <1>7 DEF NoMatchFrom
  <1> QED BY <1>1, <1>3, <1>5, <1>6, <1>7, <1>8

(* An attempt begins at its first pair.                                    *)
LEMMA AttemptReached == Shape /\ Reached /\ Attempt => Reached'
  <1> SUFFICES ASSUME Shape, Reached, Attempt PROVE Reached'
    OBVIOUS
  <1>1. /\ pc = "attempt" /\ pc' = "run" /\ stack' = <<First(start)>>
        /\ UNCHANGED <<nfa, table, call, start, best>>
    BY DEF Attempt, First
  <1>2. Pairs' = Pairs /\ (\A i : First(i)' = First(i)) /\ (\A pair : Follows(pair)' = Follows(pair))
        /\ (\A from, pair : Reaches(from, pair)' <=> Reaches(from, pair))
        /\ (\A i : NoMatchFrom(i)' <=> NoMatchFrom(i))
    BY <1>1, SameReach
  <1>3. VisitedPairs' = VisitedPairs
    BY <1>1, <1>2 DEF VisitedPairs, Visited, Index, NumStates, table
  <1>4. best = -1 /\ stack = <<>>
    BY <1>1 DEF Shape, Progress
  <1>5. ToSet(stack') = {First(start)} /\ ToSet(stack) = {}
    BY <1>1, <1>4 DEF ToSet
  <1>6. First(start)' = First(start)
    BY <1>1 DEF First
  <1>7. StackReached'
    <2>1. \A pair \in ToSet(stack') : Reaches(First(start), pair)
      BY <1>5, ReachesItself
    <2>2. \A pair \in ToSet(stack') : Reaches(First(start), pair)'
      BY <1>1, <1>2, <2>1
    <2> QED BY <1>1, <1>4, <2>1, <1>2, <1>6 DEF StackReached
  <1>8. VisitedDone'
    <2> SUFFICES ASSUME ~partial'
                 PROVE  /\ First(start)' \in VisitedPairs' \cup ToSet(stack')
                        /\ \A pair \in VisitedPairs' :
                             Follows(pair)' \subseteq VisitedPairs' \cup ToSet(stack')
                        /\ \A pair \in VisitedPairs' : IsMatchID(nfa, pair[1])' => pair[2] <= best'
                        /\ \A i \in call'.at..(start' - 1) : NoMatchFrom(i)'
      BY DEF VisitedDone
    <2>1. ~partial /\ pc # "idle"
      BY <1>1 DEF table
    <2>2. \A pair \in VisitedPairs : Follows(pair) \subseteq VisitedPairs
      BY <1>5, <2>1 DEF Reached, VisitedDone
    <2>3. \A pair \in VisitedPairs : IsMatchID(nfa, pair[1]) => pair[2] <= best
      BY <2>1 DEF Reached, VisitedDone
    <2>4. \A i \in call.at..(start - 1) : NoMatchFrom(i)
      BY <2>1 DEF Reached, VisitedDone
    <2> QED BY <1>1, <1>2, <1>3, <1>5, <1>6, <2>2, <2>3, <2>4
  <1> QED BY <1>1, <1>7, <1>8 DEF Reached, Anchored, AnswerSound, AnswerComplete, Answered

(* A pair that was visited before, or is out of bounds, is left.           *)
LEMMA SkipReached == Shape /\ Reached /\ Skip => Reached'
  <1> SUFFICES ASSUME Shape, Reached, Skip PROVE Reached'
    OBVIOUS
  <1> DEFINE top == <<State, Position>>
  <1>1. /\ pc = "run" /\ stack # <<>> /\ ~ShouldVisit /\ stack' = Tail(stack)
        /\ UNCHANGED <<nfa, table, call, pc, start, best>>
    BY DEF Skip, Trying
  <1>2. Pairs' = Pairs /\ (\A i : First(i)' = First(i)) /\ (\A pair : Follows(pair)' = Follows(pair))
        /\ (\A from, pair : Reaches(from, pair)' <=> Reaches(from, pair))
        /\ (\A i, e : MatchFrom(i, e)' <=> MatchFrom(i, e))
        /\ (\A i : NoMatchFrom(i)' <=> NoMatchFrom(i))
    BY <1>1, SameReach
  <1>3. VisitedPairs' = VisitedPairs
    BY <1>1, <1>2 DEF VisitedPairs, Visited, Index, NumStates, table
  <1>4. ToSet(stack) = {Head(stack)} \cup ToSet(stack')
    BY <1>1, ToSetOfTail DEF Shape, Progress
  <1>5. Head(stack) = top
    BY <1>1 DEF Shape, Progress, Tried, State, Position
  <1>6. top \in Pairs => top \in VisitedPairs
    BY <1>1 DEF ShouldVisit, InBounds, Pairs, VisitedPairs
  <1>7. StackReached'
    <2>1. \A pair \in ToSet(stack') \cap Pairs : Reaches(First(start), pair)
      BY <1>1, <1>4 DEF Reached, StackReached
    <2>2. best >= 0 => Searching /\ call.longest /\ MatchFrom(start, best)
      BY <1>1 DEF Reached, StackReached
    <2> QED BY <1>1, <1>2, <2>1, <2>2 DEF StackReached, Searching
  <1>8. VisitedDone'
    <2> SUFFICES ASSUME ~partial'
                 PROVE  /\ First(start)' \in VisitedPairs' \cup ToSet(stack')
                        /\ \A pair \in VisitedPairs' :
                             Follows(pair)' \subseteq VisitedPairs' \cup ToSet(stack')
                        /\ \A pair \in VisitedPairs' : IsMatchID(nfa, pair[1])' => pair[2] <= best'
                        /\ \A i \in call'.at..(start' - 1) : NoMatchFrom(i)'
      BY DEF VisitedDone
    <2>1. ~partial /\ pc # "idle"
      BY <1>1 DEF table
    <2>2. \A pair \in Pairs : pair \in VisitedPairs \cup ToSet(stack)
                                => pair \in VisitedPairs \cup ToSet(stack')
      BY <1>4, <1>5, <1>6
    <2>3. First(start) \in Pairs
      BY <1>1, AutomatonFacts DEF Shape, Progress, First, Pairs
    <2>4. First(start) \in VisitedPairs \cup ToSet(stack')
      BY <1>1, <2>1, <2>2, <2>3 DEF Reached, VisitedDone
    <2>5. \A pair \in VisitedPairs : Follows(pair) \subseteq VisitedPairs \cup ToSet(stack')
      <3>1. \A pair \in VisitedPairs : Follows(pair) \subseteq VisitedPairs \cup ToSet(stack)
        BY <2>1 DEF Reached, VisitedDone
      <3>2. \A pair : Follows(pair) \subseteq Pairs
        BY DEF Follows
      <3> QED BY <2>2, <3>1, <3>2
    <2>6. /\ \A pair \in VisitedPairs : IsMatchID(nfa, pair[1]) => pair[2] <= best
          /\ \A i \in call.at..(start - 1) : NoMatchFrom(i)
      BY <2>1 DEF Reached, VisitedDone
    <2>7. First(start)' = First(start)
      BY <1>1 DEF First
    <2> QED BY <1>1, <1>2, <1>3, <2>4, <2>5, <2>6, <2>7
  <1> QED BY <1>1, <1>7, <1>8 DEF Reached, Anchored, AnswerSound, AnswerComplete, Answered

(* A pair is marked and its successors are to be tried.                    *)
LEMMA ExploreReached == Shape /\ Reached /\ Explore => Reached'
  <1> SUFFICES ASSUME Shape, Reached, Explore PROVE Reached'
    OBVIOUS
  <1> DEFINE top == <<State, Position>>
             next == Successors(State, Position)
  <1>1. /\ pc = "run" /\ stack # <<>> /\ ShouldVisit /\ ~IsMatchID(nfa, State) /\ Mark
        /\ stack' = next \o Tail(stack)
        /\ UNCHANGED <<nfa, call, pc, start, best>>
    BY DEF Explore, Trying
  <1>2. Pairs' = Pairs /\ (\A i : First(i)' = First(i)) /\ (\A pair : Follows(pair)' = Follows(pair))
        /\ (\A from, pair : Reaches(from, pair)' <=> Reaches(from, pair))
        /\ (\A i, e : MatchFrom(i, e)' <=> MatchFrom(i, e))
        /\ (\A i : NoMatchFrom(i)' <=> NoMatchFrom(i))
    BY <1>1, SameReach
  <1>3. top \in Pairs /\ VisitedPairs' = VisitedPairs \cup {top}
    BY <1>1, MarkVisits
  <1>4. ToSet(stack) = {top} \cup ToSet(Tail(stack))
    <2>1. Head(stack) = top
      BY <1>1 DEF Shape, Progress, Tried, State, Position
    <2> QED BY <1>1, <2>1, ToSetOfTail DEF Shape, Progress
  <1>5. ToSet(stack') = ToSet(next) \cup ToSet(Tail(stack))
    <2> DEFINE rest == Tail(stack)
    <2>1. next \in Seq(Tried) /\ rest \in Seq(Tried) /\ stack' = next \o rest
      BY <1>1, TopOfStack, SuccessorsType DEF Shape, ShouldVisit
    <2> HIDE DEF next, rest
    <2>2. ToSet(next \o rest) = ToSet(next) \cup ToSet(rest)
      BY <2>1, ToSetOfConcat
    <2> QED BY <2>1, <2>2 DEF rest
  <1>6. Follows(top) = ToSet(next) \cap Pairs
    BY DEF Follows
  <1> HIDE DEF top, next
  <1>7. StackReached'
    <2>1. \A pair \in ToSet(stack) \cap Pairs : Reaches(First(start), pair)
      BY <1>1 DEF Reached, StackReached
    <2>2. \A pair \in Follows(top) : Reaches(First(start), pair)
      BY <1>3, <1>4, <2>1, ReachesOn
    <2>3. \A pair \in ToSet(stack') \cap Pairs : Reaches(First(start), pair)
      BY <1>4, <1>5, <1>6, <2>1, <2>2
    <2>4. best >= 0 => Searching /\ call.longest /\ MatchFrom(start, best)
      BY <1>1 DEF Reached, StackReached
    <2> QED BY <1>1, <1>2, <2>3, <2>4 DEF StackReached, Searching
  <1>8. VisitedDone'
    <2> SUFFICES ASSUME ~partial'
                 PROVE  /\ First(start)' \in VisitedPairs' \cup ToSet(stack')
                        /\ \A pair \in VisitedPairs' :
                             Follows(pair)' \subseteq VisitedPairs' \cup ToSet(stack')
                        /\ \A pair \in VisitedPairs' : IsMatchID(nfa, pair[1])' => pair[2] <= best'
                        /\ \A i \in call'.at..(start' - 1) : NoMatchFrom(i)'
      BY DEF VisitedDone
    <2>1. ~partial /\ pc # "idle"
      BY <1>1 DEF Mark
    <2>2. VisitedPairs \cup ToSet(stack) \subseteq VisitedPairs' \cup ToSet(stack')
      BY <1>3, <1>4, <1>5
    <2>3. First(start) \in VisitedPairs' \cup ToSet(stack')
      BY <1>1, <2>1, <2>2 DEF Reached, VisitedDone
    <2>4. \A pair \in VisitedPairs' : Follows(pair) \subseteq VisitedPairs' \cup ToSet(stack')
      <3>1. \A pair \in VisitedPairs : Follows(pair) \subseteq VisitedPairs \cup ToSet(stack)
        BY <2>1 DEF Reached, VisitedDone
      <3> QED BY <1>3, <1>5, <1>6, <2>2, <3>1
    <2>5. \A pair \in VisitedPairs' : IsMatchID(nfa, pair[1]) => pair[2] <= best
      <3>1. ~IsMatchID(nfa, top[1])
        BY <1>1 DEF top
      <3> QED BY <1>3, <2>1, <3>1 DEF Reached, VisitedDone
    <2>6. \A i \in call.at..(start - 1) : NoMatchFrom(i)
      BY <2>1 DEF Reached, VisitedDone
    <2>7. First(start)' = First(start)
      BY <1>1 DEF First
    <2> QED BY <1>1, <1>2, <2>3, <2>4, <2>5, <2>6, <2>7
  <1> QED BY <1>1, <1>7, <1>8 DEF Reached, Anchored, AnswerSound, AnswerComplete, Answered

(* The fields of an answer that reports a match.                           *)
LEMMA FoundIsFound ==
  ASSUME NEW from, NEW end
  PROVE  /\ FoundAt(from, end).found
         /\ Searching => FoundAt(from, end).start = from /\ FoundAt(from, end).end = end
  <1>1. CASE Searching
    BY <1>1 DEF FoundAt
  <1>2. CASE ~Searching
    <2>1. FoundAt(from, end) = [found |-> TRUE, start |-> -1, end |-> -1]
      BY <1>2 DEF FoundAt, NoAnswer
    <2> QED BY <1>2, <2>1
  <1> QED BY <1>1, <1>2

(* A match state at the top of the stack is a match of this attempt.       *)
LEMMA TopMatches ==
  ASSUME Shape, Reached, pc = "run", stack # <<>>, ShouldVisit, IsMatchID(nfa, State)
  PROVE  /\ <<State, Position>> \in Pairs /\ MatchFrom(start, Position)
         /\ Follows(<<State, Position>>) = {}
  <1>1. State \in 0..(NumStates - 1) /\ Position \in call.at..Len(Haystack)
    BY TopOfStack DEF Shape, ShouldVisit
  <1>2. <<State, Position>> \in Pairs
    BY <1>1 DEF Pairs
  <1>3. <<State, Position>> \in ToSet(stack)
    <2>1. Head(stack) = <<State, Position>>
      BY DEF Shape, Progress, Tried, State, Position
    <2> QED BY <2>1, ToSetOfTail DEF Shape, Progress
  <1>4. MatchFrom(start, Position)
    BY <1>1, <1>2, <1>3 DEF Reached, StackReached, MatchFrom
  <1>5. Successors(State, Position) = <<>>
    BY DEF IsMatchID, Successors
  <1> QED BY <1>2, <1>4, <1>5 DEF Follows, ToSet

(* A match state is reached.                                               *)
LEMMA ReachMatchReached == Shape /\ Reached /\ ReachMatch => Reached'
  <1> SUFFICES ASSUME Shape, Reached, ReachMatch PROVE Reached'
    OBVIOUS
  <1> DEFINE top == <<State, Position>>
  <1>1. /\ pc = "run" /\ stack # <<>> /\ ShouldVisit /\ IsMatchID(nfa, State) /\ Mark
        /\ UNCHANGED <<nfa, call>>
        /\ IF Searching /\ call.longest
           THEN /\ best' = IF Position > best THEN Position ELSE best
                /\ stack' = Tail(stack) /\ UNCHANGED <<pc, start, answer>>
           ELSE Return(FoundAt(start, Position))
    BY DEF ReachMatch, Trying, Return
  <1>2. Pairs' = Pairs /\ (\A i : First(i)' = First(i)) /\ (\A pair : Follows(pair)' = Follows(pair))
        /\ (\A from, pair : Reaches(from, pair)' <=> Reaches(from, pair))
        /\ (\A i, e : MatchFrom(i, e)' <=> MatchFrom(i, e))
        /\ (\A i : NoMatchFrom(i)' <=> NoMatchFrom(i))
        /\ Attempts' = Attempts /\ Haystack' = Haystack
    BY <1>1, SameReach
  <1>3. top \in Pairs /\ VisitedPairs' = VisitedPairs \cup {top}
    BY <1>1, MarkVisits
  <1>4. MatchFrom(start, Position) /\ Follows(top) = {}
    BY <1>1, TopMatches
  <1>5. Position \in call.at..Len(Haystack) /\ Position \in Nat /\ best \in Int /\ start \in Nat
        /\ start \in call.at..Len(Haystack) /\ call.at \in Nat /\ Len(Haystack) \in Nat
    BY <1>1, TopOfStack, AutomatonFacts DEF Shape, Progress
  <1>6. CASE Searching /\ call.longest
    <2>1. /\ best' = IF Position > best THEN Position ELSE best
          /\ stack' = Tail(stack) /\ UNCHANGED <<pc, start, answer>>
      BY <1>1, <1>6
    <2>2. ToSet(stack) = {top} \cup ToSet(stack')
      <3>1. Head(stack) = top
        BY <1>1 DEF Shape, Progress, Tried, State, Position
      <3> QED BY <1>1, <2>1, <3>1, ToSetOfTail DEF Shape, Progress
    <2>3. StackReached'
      <3>1. \A pair \in ToSet(stack') \cap Pairs : Reaches(First(start), pair)
        BY <1>1, <2>2 DEF Reached, StackReached
      <3>2. MatchFrom(start, best')
        <4>1. best >= 0 => MatchFrom(start, best)
          BY <1>1 DEF Reached, StackReached
        <4> QED BY <1>4, <1>5, <2>1, <4>1
      <3> QED BY <1>1, <1>2, <1>6, <2>1, <3>1, <3>2 DEF StackReached, Searching
    <2>4. VisitedDone'
      <3> SUFFICES ASSUME ~partial'
                   PROVE  /\ First(start)' \in VisitedPairs' \cup ToSet(stack')
                          /\ \A pair \in VisitedPairs' :
                               Follows(pair)' \subseteq VisitedPairs' \cup ToSet(stack')
                          /\ \A pair \in VisitedPairs' : IsMatchID(nfa, pair[1])' => pair[2] <= best'
                          /\ \A i \in call'.at..(start' - 1) : NoMatchFrom(i)'
        BY DEF VisitedDone
      <3>1. ~partial /\ pc # "idle"
        BY <1>1 DEF Mark
      <3>2. VisitedPairs \cup ToSet(stack) = VisitedPairs' \cup ToSet(stack')
        BY <1>3, <2>2
      <3>3. First(start) \in VisitedPairs' \cup ToSet(stack')
        BY <1>1, <3>1, <3>2 DEF Reached, VisitedDone
      <3>4. \A pair \in VisitedPairs' : Follows(pair) \subseteq VisitedPairs' \cup ToSet(stack')
        <4>1. \A pair \in VisitedPairs : Follows(pair) \subseteq VisitedPairs \cup ToSet(stack)
          BY <3>1 DEF Reached, VisitedDone
        <4> QED BY <1>3, <1>4, <3>2, <4>1
      <3>5. \A pair \in VisitedPairs' : IsMatchID(nfa, pair[1]) => pair[2] <= best'
        <4> SUFFICES ASSUME NEW pair \in VisitedPairs', IsMatchID(nfa, pair[1])
                     PROVE  pair[2] <= best'
          OBVIOUS
        <4>1. CASE pair = top
          BY <1>5, <2>1, <4>1
        <4>2. CASE pair \in VisitedPairs
          <5>1. pair[2] <= best
            BY <3>1, <4>2 DEF Reached, VisitedDone
          <5>2. pair[2] \in Nat
            BY <1>5, <4>2 DEF VisitedPairs, Pairs
          <5> QED BY <1>5, <2>1, <5>1, <5>2
        <4> QED BY <1>3, <4>1, <4>2
      <3>6. \A i \in call.at..(start - 1) : NoMatchFrom(i)
        BY <3>1 DEF Reached, VisitedDone
      <3>7. First(start)' = First(start)
        BY <1>1, <2>1 DEF First
      <3> QED BY <1>1, <1>2, <2>1, <3>3, <3>4, <3>5, <3>6, <3>7
    <2> QED BY <1>1, <2>1, <2>3, <2>4 DEF Reached, Anchored, AnswerSound, AnswerComplete, Answered
  <1>7. CASE ~(Searching /\ call.longest)
    <2>1. pc' = "idle" /\ answer' = FoundAt(start, Position)
      BY <1>1, <1>7 DEF Return
    <2>2. Searching' = Searching
      BY <1>1 DEF Searching
    <2> DEFINE found == FoundAt(start, Position)
    <2>8. found.found /\ (Searching => found.start = start /\ found.end = Position)
      BY FoundIsFound
    <2>9. answer' = found
      BY <2>1
    <2> HIDE DEF found
    <2>4. Searching => answer'.start = start /\ answer'.end = Position
      BY <2>8, <2>9
    <2>3. answer'.found
      BY <2>8, <2>9
    <2>5. start \in Attempts
      BY <1>1, <1>5 DEF Attempts, Reached, Anchored
    <2>6. AnswerSound'
      <3>1. call' = call /\ MatchFrom(start, Position)
        BY <1>1, <1>4
      <3>2. CASE Searching
        BY <1>2, <2>2, <2>4, <2>5, <3>1, <3>2 DEF AnswerSound
      <3>3. CASE ~Searching
        BY <1>2, <1>5, <2>2, <2>5, <3>1, <3>3 DEF AnswerSound
      <3> QED BY <3>2, <3>3
    <2>7. AnswerComplete'
      <3>1. ~partial' => \A i \in call.at..(start - 1) : NoMatchFrom(i)
        BY <1>1 DEF Mark, Reached, VisitedDone
      <3> QED BY <1>1, <1>2, <1>7, <2>2, <2>3, <2>4, <3>1 DEF AnswerComplete
    <2> QED BY <2>1, <2>6, <2>7 DEF Reached, Anchored, StackReached, VisitedDone
  <1> QED BY <1>6, <1>7

(* With nothing left to try, the visited pairs are all that is reached.    *)
LEMMA ExhaustedReached ==
  ASSUME Shape, Reached, Exhausted, ~partial
  PROVE  /\ Closed(VisitedPairs)
         /\ \A e \in call.at..Len(Haystack) : MatchFrom(start, e) => e <= best
         /\ \A i \in call.at..(start - 1) : NoMatchFrom(i)
  <1>1. ToSet(stack) = {}
    BY DEF Exhausted, ToSet
  <1>2. Closed(VisitedPairs) /\ First(start) \in VisitedPairs
    BY <1>1 DEF Exhausted, Reached, VisitedDone, Closed
  <1>3. ASSUME NEW e \in call.at..Len(Haystack), MatchFrom(start, e)
        PROVE  e <= best
    <2>1. PICK id \in 0..(NumStates - 1) : IsMatchID(nfa, id) /\ <<id, e>> \in VisitedPairs
      BY <1>2, <1>3, ClosedHoldsReached
    <2> QED BY <2>1 DEF Exhausted, Reached, VisitedDone
  <1>4. \A i \in call.at..(start - 1) : NoMatchFrom(i)
    BY DEF Exhausted, Reached, VisitedDone
  <1> QED BY <1>2, <1>3, <1>4

(* The attempt is over and the longest end it found is reported.           *)
LEMMA LongestReached == Shape /\ Reached /\ Longest => Reached'
  <1> SUFFICES ASSUME Shape, Reached, Longest PROVE Reached'
    OBVIOUS
  <1>1. /\ Exhausted /\ best >= 0 /\ Return(FoundAt(start, best)) /\ UNCHANGED table
        /\ pc' = "idle" /\ answer' = FoundAt(start, best) /\ UNCHANGED <<nfa, call>>
    BY DEF Longest, Return
  <1>2. Attempts' = Attempts /\ Haystack' = Haystack /\ Searching' = Searching
        /\ (\A i, e : MatchFrom(i, e)' <=> MatchFrom(i, e))
        /\ (\A i : NoMatchFrom(i)' <=> NoMatchFrom(i))
    BY <1>1, SameReach DEF Searching
  <1>3. Searching /\ call.longest /\ MatchFrom(start, best)
    BY <1>1 DEF Reached, StackReached, Exhausted
  <1>4. answer'.start = start /\ answer'.end = best /\ answer'.found
    BY <1>1, <1>3, FoundIsFound
  <1>5. start \in Attempts
    <2>1. start \in call.at..Len(Haystack)
      BY <1>1, AutomatonFacts DEF Exhausted, Shape, Progress
    <2> QED BY <1>3, <2>1 DEF Attempts, Searching
  <1>6. AnswerSound'
    BY <1>2, <1>3, <1>4, <1>5 DEF AnswerSound
  <1>7. AnswerComplete'
    <2>1. ~partial' => /\ \A e \in call.at..Len(Haystack) : MatchFrom(start, e) => e <= best
                       /\ \A i \in call.at..(start - 1) : NoMatchFrom(i)
      BY <1>1, ExhaustedReached DEF table
    <2> QED BY <1>1, <1>2, <1>3, <1>4, <2>1 DEF AnswerComplete
  <1> QED BY <1>1, <1>6, <1>7 DEF Reached, Anchored, StackReached, VisitedDone

(* An attempt without a match makes way for the next one.                  *)
LEMMA FailReached == Shape /\ Fresh /\ Reached /\ Fail => Reached'
  <1> SUFFICES ASSUME Shape, Fresh, Reached, Fail PROVE Reached'
    OBVIOUS
  <1>1. /\ Exhausted /\ best < 0 /\ UNCHANGED <<nfa, call>>
        /\ IF Searching
           THEN NextGeneration(visited, length, generation, partial) /\ UNCHANGED length
           ELSE UNCHANGED table
        /\ IF MoreAttempts
           THEN pc' = "attempt" /\ start' = NextStart /\ UNCHANGED <<stack, best, answer>>
           ELSE Return(NoAnswer)
    BY DEF Fail, Return
  <1>2. Attempts' = Attempts /\ Haystack' = Haystack /\ Searching' = Searching /\ Pairs' = Pairs
        /\ (\A pair : Follows(pair)' = Follows(pair))
        /\ (\A i : NoMatchFrom(i)' <=> NoMatchFrom(i))
    BY <1>1, SameReach DEF Searching
  <1>3. Shape' /\ Fresh'
    BY SearchStepShape DEF SearchStep
  <1>4. ~partial' => ~partial
    <2>1. CASE Searching
      <3>1. length \in 0..Len(visited) /\ Table
        BY DEF Shape, Table
      <3> QED BY <1>1, <2>1, <3>1, NextGenerationFresh DEF Table
    <2>2. CASE ~Searching
      BY <1>1, <2>2 DEF table
    <2> QED BY <2>1, <2>2
  <1>5. call.at \in Nat /\ Len(Haystack) \in Nat /\ start \in call.at..Len(Haystack) /\ best \in Int
    BY <1>1, AutomatonFacts DEF Exhausted, Shape, Progress
  <1>6. ~partial => \A i \in call.at..start : NoMatchFrom(i)
    <2> SUFFICES ASSUME ~partial, NEW i \in call.at..start PROVE NoMatchFrom(i)
      OBVIOUS
    <2>1. /\ \A e \in call.at..Len(Haystack) : MatchFrom(start, e) => e <= best
          /\ \A j \in call.at..(start - 1) : NoMatchFrom(j)
      BY <1>1, ExhaustedReached
    <2>2. NoMatchFrom(start)
      BY <1>1, <1>5, <2>1 DEF NoMatchFrom
    <2>3. i \in call.at..(start - 1) \/ i = start
      BY <1>5
    <2> QED BY <2>1, <2>2, <2>3
  <1>7. CASE ~MoreAttempts
    <2>1. pc' = "idle" /\ answer' = NoAnswer
      BY <1>1, <1>7 DEF Return
    <2>2. ~answer'.found
      BY <2>1 DEF NoAnswer
    <2>3. Attempts \subseteq call.at..start
      <3>1. CASE call.op = "IsMatchAnchored"
        <4>1. start = 0
          BY <1>1, <3>1 DEF Reached, Anchored, Exhausted
        <4> QED BY <1>5, <3>1, <4>1 DEF Attempts
      <3>2. CASE call.op # "IsMatchAnchored"
        <4>1. start = Len(Haystack)
          BY <1>5, <1>7, <3>2 DEF MoreAttempts
        <4> QED BY <3>2, <4>1 DEF Attempts
      <3> QED BY <3>1, <3>2
    <2>4. AnswerSound' /\ AnswerComplete'
      BY <1>2, <1>4, <1>6, <2>2, <2>3 DEF AnswerSound, AnswerComplete
    <2> QED BY <2>1, <2>4 DEF Reached, Anchored, StackReached, VisitedDone
  <1>8. CASE MoreAttempts
    <2>1. pc' = "attempt" /\ start' = start + 1 /\ call.op # "IsMatchAnchored" /\ stack' = <<>>
          /\ best' = best
      BY <1>1, <1>8 DEF NextStart, MoreAttempts, Exhausted
    <2>2. VisitedDone'
      <3> SUFFICES ASSUME ~partial'
                   PROVE  /\ \A pair \in VisitedPairs' :
                               Follows(pair)' \subseteq VisitedPairs' \cup ToSet(stack')
                          /\ \A pair \in VisitedPairs' : IsMatchID(nfa, pair[1])' => pair[2] <= best'
                          /\ \A i \in call'.at..(start' - 1) : NoMatchFrom(i)'
        BY <2>1 DEF VisitedDone
      <3>1. \A i \in call'.at..(start' - 1) : NoMatchFrom(i)'
        <4>1. call'.at..(start' - 1) = call.at..start
          BY <1>1, <1>5, <2>1
        <4> QED BY <1>2, <1>4, <1>6, <4>1
      <3>2. CASE Searching
        <4>1. VisitedPairs' = {}
          <5> SUFFICES ASSUME NEW pair \in VisitedPairs' PROVE FALSE
            OBVIOUS
          <5>1. \A i \in 1..length' : visited'[i] # generation'
            BY <1>2, <1>3, <2>1, <3>2 DEF Fresh, NothingVisited
          <5>2. PICK id \in 0..(NumStates' - 1), pos \in call'.at..Len(Haystack') :
                  pair = <<id, pos>>
            BY DEF VisitedPairs, Pairs
          <5>3. Index(id, pos)' \in 1..length'
            <6>1. EntriesInUse'
              BY <1>3, ShapeInUse, PTL
            <6> QED BY <2>1, <5>2, <6>1 DEF EntriesInUse
          <5>4. visited'[Index(id, pos)'] = generation'
            BY <5>2 DEF VisitedPairs, Visited
          <5> QED BY <5>1, <5>3, <5>4
        <4> QED BY <3>1, <4>1
      <3>3. CASE ~Searching
        <4>1. UNCHANGED table
          BY <1>1, <3>3
        <4>2. VisitedPairs' = VisitedPairs
          BY <1>1, <1>2, <4>1 DEF VisitedPairs, Visited, Index, NumStates, table
        <4>3. Closed(VisitedPairs)
          BY <1>1, <1>4, ExhaustedReached
        <4>4. \A pair \in VisitedPairs : IsMatchID(nfa, pair[1]) => pair[2] <= best
          BY <1>1, <1>4 DEF Reached, VisitedDone, Exhausted
        <4> QED BY <1>1, <1>2, <2>1, <3>1, <4>2, <4>3, <4>4 DEF Closed
      <3> QED BY <3>2, <3>3
    <2> QED BY <1>1, <2>1, <2>2 DEF Reached, Anchored, StackReached, AnswerSound,
                                   AnswerComplete, Answered
  <1> QED BY <1>7, <1>8

(* A stuttering step.                                                      *)
LEMMA StutterReached == Reached /\ UNCHANGED vars => Reached'
  <1> SUFFICES ASSUME Reached, UNCHANGED vars PROVE Reached'
    OBVIOUS
  <1>1. UNCHANGED <<pattern, nfa, visited, generation, partial, call, pc, start, stack, best, answer>>
    BY DEF vars
  <1>2. Attempts' = Attempts /\ Haystack' = Haystack /\ Searching' = Searching /\ Pairs' = Pairs
        /\ (\A i : First(i)' = First(i)) /\ (\A pair : Follows(pair)' = Follows(pair))
        /\ (\A from, pair : Reaches(from, pair)' <=> Reaches(from, pair))
        /\ (\A i, e : MatchFrom(i, e)' <=> MatchFrom(i, e))
        /\ (\A i : NoMatchFrom(i)' <=> NoMatchFrom(i))
    BY <1>1, SameReach DEF Searching
  <1>3. VisitedPairs' = VisitedPairs
    BY <1>1, <1>2 DEF VisitedPairs, Visited, Index, NumStates
  <1>4. Answered' <=> Answered
    BY <1>1 DEF Answered, CanHandle, Entries, NumStates, Haystack
  <1>5. StackReached' /\ VisitedDone' /\ Anchored'
    BY <1>1, <1>2, <1>3 DEF Reached, StackReached, VisitedDone, Anchored
  <1>6. AnswerSound' /\ AnswerComplete'
    BY <1>1, <1>2, <1>4 DEF Reached, AnswerSound, AnswerComplete
  <1> QED BY <1>5, <1>6 DEF Reached

(* The invariant of the search holds.                                      *)
LEMMA SearchInvariant == Spec => [](Shape /\ Fresh /\ Reached)
  <1>1. Shape /\ Fresh /\ Reached /\ [Next]_vars => (Shape /\ Fresh /\ Reached)'
    <2> SUFFICES ASSUME Shape, Fresh, Reached, [Next]_vars PROVE (Shape /\ Fresh /\ Reached)'
      OBVIOUS
    <2>1. (Shape /\ Fresh)'
      BY NewSearchShape, SearchStepShape, ShapeStutter DEF Next
    <2>2. Reached'
      BY NewSearchReached, AttemptReached, SkipReached, ExploreReached, ReachMatchReached,
         LongestReached, FailReached, StutterReached DEF Next, SearchStep
    <2> QED BY <2>1, <2>2
  <1> QED BY ShapeInit, ReachedInit, <1>1, PTL DEF Spec

(* What the table calls visited was explored, or is about to be.           *)
THEOREM VisitedExplored == Spec => []Explored
  <1>1. Reached => Explored
    BY DEF Reached, VisitedDone, Explored
  <1> QED BY SearchInvariant, <1>1, PTL

(* Every match a search reports is a way through the automaton.            *)
THEOREM AnswersAreMatches == Spec => []AnswerSound
  <1>1. Reached => AnswerSound
    BY DEF Reached
  <1> QED BY SearchInvariant, <1>1, PTL

(* As long as no wrap left part of the table behind, no match is missed:   *)
(* none at all, none that begins earlier, and none that ends later when    *)
(* the longest is wanted.                                                  *)
THEOREM NoMatchIsMissed == Spec => []AnswerComplete
  <1>1. Reached => AnswerComplete
    BY DEF Reached
  <1> QED BY SearchInvariant, <1>1, PTL
===============================================================================
