-------------------------------- MODULE Paths --------------------------------
(***************************************************************************)
(* What a compiled NFA matches, without an engine: the pairs of a state    *)
(* and a position of the haystack that can be reached from where a search  *)
(* starts.  An engine is right about whether there is a match when it goes *)
(* by these pairs, however it visits, orders, caches or forgets them.      *)
(***************************************************************************)
EXTENDS Determinize

(* checkLookAssertion: the whole haystack is seen.                         *)
WordAt(w, i) == i \in DOMAIN w /\ IsWordByte(w[i])
LooksAt(w, i) ==
  (IF i = 0 THEN {"StartText"} ELSE {})
  \cup (IF i = 0 \/ w[i] = NewlineByte THEN {"StartLine"} ELSE {})
  \cup (IF i = Len(w) THEN {"EndText"} ELSE {})
  \cup (IF i = Len(w) \/ w[i + 1] = NewlineByte THEN {"EndLine"} ELSE {})
  \cup (IF WordAt(w, i) # WordAt(w, i + 1) THEN {"WordBoundary"} ELSE {"NoWordBoundary"})

(* Where a state leads at a position: without a byte, or past the next.    *)
Edges(n, w, pair) ==
  LET id == pair[1]
      i == pair[2]
  IN  {<<t, i>> : t \in ToSet(EpsilonSuccessors(n, id, LooksAt(w, i)))}
      \cup (IF i < Len(w) THEN {<<t, i + 1>> : t \in ToSet(ByteTargets(n, id, w[i + 1]))} ELSE {})

(* One step further: seen are the pairs reached so far, latest those that  *)
(* were reached last, which nothing has been followed from.                *)
Further(n, w, reach) ==
  LET next == (UNION {Edges(n, w, pair) : pair \in reach.latest}) \ reach.seen
  IN  [seen |-> reach.seen \cup next, latest |-> next]

(* The pairs that can be reached: a path that repeats no pair is no longer *)
(* than there are pairs.                                                   *)
Reached(n, w, from) ==
  LET steps == Len(n.states) * (Len(w) + 1)
      after[k \in 0..steps] ==
        IF k = 0 THEN [seen |-> {from}, latest |-> {from}] ELSE Further(n, w, after[k - 1])
  IN  after[steps].seen

(* Where the matches end that begin at a pair.                             *)
MatchEnds(n, w, from) == {i \in 0..Len(w) : \E pair \in Reached(n, w, from) : IsMatchID(n, pair[1]) /\ pair[2] = i}

(* No assertion about what is before a position is met behind one about    *)
(* what comes after it.                                                    *)
Apart(n) ==
  LET ends == {k \in DOMAIN n.states : n.states[k].kind = "Look" /\ n.states[k].look \in LookSetForEOI}
      behind == EpsilonClosure(n, Sorted(n, {n.states[k].next : k \in ends}), LookSetForEOI)
  IN  \A id \in ToSet(behind) : StateAt(n, id).kind = "Look" =>
        StateAt(n, id).look \notin {"StartText", "StartLine"}
===============================================================================
