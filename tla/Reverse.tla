------------------------------- MODULE Reverse -------------------------------
(***************************************************************************)
(* nfa/reverse.go: the NFA that reads a match backwards.  Its states are   *)
(* those of the forward NFA with the transitions turned round: first every *)
(* forward state gets a state of the shape its incoming edges call for,    *)
(* then these are filled in, helper states being added on the way.  A      *)
(* forward start is the reverse match state, through a proxy when a loop   *)
(* leads back to it.                                                       *)
(***************************************************************************)
EXTENDS Thompson

NoByte == <<>>
Edge(from, to, bytes) == [from |-> from, to |-> to, bytes |-> bytes]
EpsilonEdge(from, to) == Edge(from, to, NoByte)
IsEpsilon(edge) == edge.bytes = NoByte

(* collectEdgesFromState: an assertion is passed like an epsilon, and so   *)
(* is lost.                                                                *)
EdgesFrom(from, s) ==
  CASE s.kind = "ByteRange" -> <<Edge(from, s.next, <<s.lo, s.hi>>)>>
    [] s.kind = "Sparse" ->
         [k \in DOMAIN s.ranges |-> Edge(from, s.ranges[k][3], SubSeq(s.ranges[k], 1, 2))]
    [] s.kind = "Split" -> <<EpsilonEdge(from, s.left), EpsilonEdge(from, s.right)>>
    [] s.kind \in {"Epsilon", "Capture", "Look"} -> <<EpsilonEdge(from, s.next)>>
    [] OTHER -> <<>>

(* Incoming[id]: the edges into state id, in the order of their origins.   *)
ReverseEdges(forward) ==
  LET all == FlattenSeq([k \in DOMAIN forward.states |-> EdgesFrom(k - 1, forward.states[k])])
  IN  [id \in 0..(Len(forward.states) - 1) |-> SelectSeq(all, LAMBDA e : e.to = id)]

-----------------------------------------------------------------------------
(* The lazy loop in front of an unanchored pattern: the split it starts    *)
(* with, and that split's second target if it leads straight back.         *)
LeadsTo(s, target) ==
  CASE s.kind \in {"ByteRange", "Epsilon"} -> s.next = target
    [] s.kind = "Split" -> target \in {s.left, s.right}
    [] OTHER -> FALSE

UnanchoredPrefix(forward) ==
  LET start == forward.startUnanchored
      s == forward.states[start + 1]
  IN  {start} \cup (IF s.kind = "Split" /\ LeadsTo(forward.states[s.right + 1], start)
                    THEN {s.right} ELSE {})

(* Which forward states stand for a start, and which are left out.  An     *)
(* anchored reverse NFA leaves the loop in front out.                      *)
StartsOf(forward, anchored) ==
  IF anchored \/ forward.isAlwaysAnchored THEN <<forward.startAnchored>>
  ELSE <<forward.startAnchored, forward.startUnanchored>>
LeftOut(forward, anchored) ==
  IF anchored /\ ~forward.isAlwaysAnchored THEN UnanchoredPrefix(forward) ELSE {}

-----------------------------------------------------------------------------
(* First pass: a builder whose state 0 is the match state, and the reverse *)
(* state of each forward state.                                            *)
MatchID == 0
Fail == [kind |-> "Fail"]
Unfilled == [kind |-> "Split", left |-> InvalidID, right |-> InvalidID]

Placeholder(edges) ==
  LET epsilons == Len(SelectSeq(edges, IsEpsilon))
      bytes == Len(edges) - epsilons
  IN  CASE edges = <<>> -> Fail
        [] bytes = 0 /\ epsilons = 1 -> Epsilon(InvalidID)
        [] epsilons = 0 /\ bytes = 1 -> ByteRange(0, 0)
        [] epsilons = 0 /\ bytes > 1 -> Sparse(<<<<0, 0>>>>, InvalidID)
        [] OTHER -> Unfilled

Allocated(sofar, id, state) ==
  [builder |-> Append(sofar.builder, state), of |-> (id :> Len(sofar.builder)) @@ sofar.of]

MapStart(sofar, id, edges) ==
  IF edges = <<>> THEN [sofar EXCEPT !.of = (id :> MatchID) @@ @]
                  ELSE Allocated(sofar, id, Epsilon(MatchID))

Allocate(incoming, starts, others) ==
  FoldLeft(LAMBDA sofar, id : Allocated(sofar, id, Placeholder(incoming[id])),
           FoldLeft(LAMBDA sofar, id : MapStart(sofar, id, incoming[id]),
                    [builder |-> <<Accept>>, of |-> <<>>], starts),
           others)

-----------------------------------------------------------------------------
(* Second pass.  A state that was left out has no reverse state; where the *)
(* code does not ask, it gets the Go map's zero, the match state.          *)
TargetOf(of, edge) == IF edge.from \in DOMAIN of THEN of[edge.from] ELSE MatchID
KnownTargets(of, edges) ==
  LET known == SelectSeq(edges, LAMBDA e : e.from \in DOMAIN of)
  IN  [k \in DOMAIN known |-> of[known[k].from]]

WithSplit(chain, id, left) ==
  [chain.builder EXCEPT ![id + 1] = Split(left, chain.start)]

(* fillStartStateWithIncoming: what led to the start, or the match; the    *)
(* byte an incoming edge reads is not looked at.                           *)
FillStart(builder, id, edges, of) ==
  LET targets == KnownTargets(of, edges)
      chain == BuildSplitChain(builder, targets)
  IN  IF targets = <<>> THEN builder
      ELSE [chain.builder EXCEPT ![id + 1] = Split(chain.start, MatchID)]

FillEpsilon(builder, id, edges, of) ==
  LET targets == KnownTargets(of, edges)
  IN  CASE Len(edges) = 1 -> Patch(builder, id, TargetOf(of, edges[1]))
        [] Len(edges) > 1 /\ Len(targets) > 1 ->
             WithSplit(BuildSplitChain(builder, Tail(targets)), id, Head(targets))
        [] OTHER -> builder

Transitions(edges, of) ==
  [k \in DOMAIN edges |-> edges[k].bytes \o <<TargetOf(of, edges[k])>>]
FilledSparse(edges, of) ==
  [kind |-> "Sparse", ranges |-> Transitions(edges, of), next |-> InvalidID]

(* fillMixedState: a split between a new sparse state and the epsilons.    *)
FillMixed(builder, id, bytes, epsilons, of) ==
  LET sparse == Len(builder)
      built == Append(builder, FilledSparse(bytes, of))
      targets == KnownTargets(of, epsilons)
  IN  IF targets = <<>> THEN built
      ELSE WithSplit(BuildSplitChain(built, targets), id, sparse)

FillByteRange(builder, id, edge, of) ==
  [builder EXCEPT ![id + 1] =
     [ByteRange(edge.bytes[1], edge.bytes[2]) EXCEPT !.next = TargetOf(of, edge)]]

FillState(builder, id, edges, of) ==
  LET epsilons == SelectSeq(edges, IsEpsilon)
      bytes == SelectSeq(edges, LAMBDA e : ~IsEpsilon(e))
  IN  CASE edges = <<>> -> builder
        [] bytes = <<>> /\ epsilons # <<>> -> FillEpsilon(builder, id, epsilons, of)
        [] Len(bytes) = 1 /\ epsilons = <<>> -> FillByteRange(builder, id, bytes[1], of)
        [] bytes # <<>> /\ epsilons # <<>> -> FillMixed(builder, id, bytes, epsilons, of)
        [] OTHER -> [builder EXCEPT ![id + 1] = FilledSparse(bytes, of)]

FillAll(incoming, starts, kept, allocated) ==
  FoldLeft(LAMBDA builder, id :
             IF Contains(starts, id)
             THEN FillStart(builder, allocated.of[id], incoming[id], allocated.of)
             ELSE FillState(builder, allocated.of[id], incoming[id], allocated.of),
           allocated.builder, kept)

(* The byte 0 of the placeholders begins a class, whatever replaced it.    *)
ReverseByteClasses(builder) ==
  LET boundaries == BoundaryBytes(builder)
  IN  ByteClasses(boundaries \cup (IF boundaries = {} THEN {} ELSE {0}))

(* Both starts are the reverse of the one match state a pattern has.       *)
Finished(forward, anchored, builder, start) ==
  [states |-> builder, startAnchored |-> start, startUnanchored |-> start,
   isAlwaysAnchored |-> TRUE, isAnchored |-> anchored \/ forward.isAlwaysAnchored,
   captureCount |-> 0, byteClasses |-> ReverseByteClasses(builder)]

ReverseWithOptions(forward, anchored) ==
  LET incoming == ReverseEdges(forward)
      starts == StartsOf(forward, anchored)
      kept == SelectSeq([k \in DOMAIN forward.states |-> k - 1],
                        LAMBDA id : id \notin LeftOut(forward, anchored))
      allocated == Allocate(incoming, starts,
                            SelectSeq(kept, LAMBDA id : ~Contains(starts, id)))
      match == CHOOSE id \in DOMAIN incoming : forward.states[id + 1].kind = "Match"
  IN  Finished(forward, anchored, FillAll(incoming, starts, kept, allocated),
               allocated.of[match])

ReverseNFA(forward) == ReverseWithOptions(forward, FALSE)
ReverseAnchored(forward) == ReverseWithOptions(forward, TRUE)
===============================================================================
