----------------------------- MODULE ReverseProofs -----------------------------
(***************************************************************************)
(* The searchers that scan back: whatever candidates they try, their scans *)
(* stay inside the haystack and keep the cache sound, their answers are    *)
(* places in the haystack, and the candidates of one request have no byte  *)
(* in common that two limited scans may read.                              *)
(***************************************************************************)
EXTENDS ReverseStrategies, DFACacheProofs

-----------------------------------------------------------------------------
(* The inductive invariant.                                                *)
DfaOK == Built /\ dfa.searcher = Searcher[dfa.pattern]

RequestOK == /\ H \in Seq(Byte) /\ req.at \in 0..Len(H) /\ reply \in SpanOf(H)
             /\ step \in {"idle", "looking", "scanning"}
             /\ step # "idle" => req \in Requests[dfa.pattern]

LoopOK ==
  /\ loop = [candidate |-> loop.candidate, searchStart |-> loop.searchStart,
             minStart |-> loop.minStart, minPreStart |-> loop.minPreStart, best |-> loop.best]
  /\ loop.searchStart \in 0..(Len(H) + 1) /\ loop.minStart \in 0..Len(H) /\ loop.best \in SpanOf(H)

ScanOK ==
  /\ W \in Seq(Byte) /\ call.minStart \in 0..Len(W)
  /\ call.start \in 0..Len(W) /\ call.end \in 0..Len(W)
  /\ answer.start \in -2..Len(W) /\ pc \in {"idle", "fast", "tail"}
  /\ Scanning => step = "scanning" /\ pos \in call.start..call.end /\ lastMatch \in -1..call.end

CacheOK == Sound(N, config, cache) /\ sid \in IDs(Len(cache.flatTrans))

(* The scan is of the candidate that the loop has got to.                  *)
ScansFor(i, end) ==
  /\ ByLiteral => i \in 0..Len(H) /\ EndOf(i) = end
  /\ Is("Inner") => i + S.innerLen <= Len(H)
CandidateOK == step = "scanning" => W = H /\ ScansFor(loop.candidate, call.end)

(* The guard of a suffix searcher is past all that was scanned.            *)
OfSuffixes == S.kind \in {"Suffix", "SuffixSet"}
PassedOK == step = "looking" /\ call # NoCall /\ OfSuffixes => loop.minStart >= call.end

IInv == DfaOK /\ RequestOK /\ LoopOK /\ ScanOK /\ CacheOK /\ CandidateOK /\ PassedOK

-----------------------------------------------------------------------------
(* What a searcher is, and what it may be asked.                           *)

(* What is assumed of a searcher.                                          *)
LEMMA SearcherFacts ==
  ASSUME DfaOK
  PROVE  /\ S.kind \in {"Anchored", "Suffix", "SuffixSet", "Inner", "Bidirectional", "Direct"}
         /\ ByLiteral => S.literals \in Seq(Seq(Byte))
         /\ Is("Suffix") => /\ S.suffix \in Seq(Byte)
                            /\ \A k \in DOMAIN S.literals : Len(S.suffix) <= Len(S.literals[k])
         /\ Is("Inner") => /\ S.innerLen \in Nat
                           /\ \A k \in DOMAIN S.literals : S.innerLen <= Len(S.literals[k])
  <1>1. dfa.pattern \in Pattern /\ S = Searcher[dfa.pattern]
    BY DEF DfaOK, Built, S
  <1> QED BY <1>1, SearcherAssumption DEF ByLiteral, Is

(* What is assumed of a request.                                           *)
LEMMA RequestFacts ==
  ASSUME DfaOK, NEW r \in Requests[dfa.pattern]
  PROVE  /\ r.hay \in Seq(Byte) /\ Len(r.hay) \in Nat /\ r.at \in 0..Len(r.hay)
         /\ \A i \in 0..Len(r.hay) :
              /\ Leftmost[dfa.pattern][r.hay][i] \in SpanOf(r.hay)
              /\ Is("Inner") => SuffixEnd[dfa.pattern][r.hay][i] \in -1..Len(r.hay)
         /\ Is("Direct") => Direct(dfa.pattern, S, r.op, r.hay, r.at) \in SpanOf(r.hay)
  <1>1. dfa.pattern \in Pattern /\ S = Searcher[dfa.pattern]
    BY DEF DfaOK, Built, S
  <1>2. r.hay \in Seq(Byte) /\ r.at \in 0..Len(r.hay)
    BY <1>1, RequestAssumption
  <1>3. \A i \in 0..Len(r.hay) : Leftmost[dfa.pattern][r.hay][i] \in SpanOf(r.hay)
    BY <1>1, RequestAssumption
  <1>4. Is("Inner") =>
          \A i \in 0..Len(r.hay) : SuffixEnd[dfa.pattern][r.hay][i] \in -1..Len(r.hay)
    BY <1>1, RequestAssumption DEF Is
  <1>5. Is("Direct") => Direct(dfa.pattern, S, r.op, r.hay, r.at) \in SpanOf(r.hay)
    BY <1>1, RequestAssumption DEF Is
  <1> QED BY <1>2, <1>3, <1>4, <1>5

(* What a place in a haystack is.                                          *)
LEMMA SpanFacts ==
  ASSUME NEW w \in Seq(Byte)
  PROVE  /\ Len(w) \in Nat /\ NoSpan \in SpanOf(w)
         /\ \A i, j \in 0..Len(w) : <<i, j>> \in SpanOf(w)
         /\ \A span \in SpanOf(w) :
              /\ span[1] \in -1..Len(w) /\ span[2] \in -1..Len(w)
              /\ span # NoSpan => span[1] \in 0..Len(w) /\ span[2] \in 0..Len(w)
              /\ span = NoSpan => span[2] = -1
  <1>1. Len(w) \in Nat
    OBVIOUS
  <1> QED BY <1>1 DEF SpanOf, NoSpan

(* What the engine that a request is left to answers.                      *)
LEMMA MatchFromType ==
  ASSUME DfaOK, RequestOK, step # "idle", NEW i \in 0..Len(H)
  PROVE  MatchFrom(i) \in SpanOf(H)
  <1>1. req \in Requests[dfa.pattern]
    BY DEF RequestOK
  <1> QED BY <1>1, RequestFacts DEF MatchFrom, H

(* An occurrence of a literal ends in the haystack.                        *)
LEMMA OccurrenceFacts ==
  ASSUME NEW w, NEW literal, NEW i, OccursAt(literal, w, i)
  PROVE  i + Len(literal) <= Len(w)
  BY DEF OccursAt

(* The first literal that occurs at a position ends in the haystack.       *)
LEMMA SuffixLenFacts ==
  ASSUME DfaOK, H \in Seq(Byte), ByLiteral, NEW i \in Nat,
         \E l \in ToSet(S.literals) : OccursAt(l, H, i)
  PROVE  GetSuffixLen(i) \in Nat /\ i + GetSuffixLen(i) <= Len(H)
  <1> DEFINE found == {k \in DOMAIN S.literals : OccursAt(S.literals[k], H, i)}
             k == Minimum(found)
  <1>1. S.literals \in Seq(Seq(Byte)) /\ DOMAIN S.literals = 1..Len(S.literals)
    BY SearcherFacts
  <1>2. found \in SUBSET Nat /\ found # {}
    <2>1. PICK l \in ToSet(S.literals) : OccursAt(l, H, i)
      OBVIOUS
    <2>2. PICK j \in DOMAIN S.literals : l = S.literals[j]
      BY <2>1 DEF ToSet
    <2>3. j \in found
      BY <2>1, <2>2
    <2>4. found \subseteq DOMAIN S.literals
      OBVIOUS
    <2> HIDE DEF found
    <2> QED BY <1>1, <2>3, <2>4
  <1>3. k \in found
    <2> HIDE DEF found
    <2> QED BY <1>2, FirstPosition
  <1>4. GetSuffixLen(i) = Len(S.literals[k])
    BY DEF GetSuffixLen
  <1>5. k \in DOMAIN S.literals /\ OccursAt(S.literals[k], H, i)
    BY <1>3
  <1> HIDE DEF k
  <1>6. S.literals[k] \in Seq(Byte)
    BY <1>1, <1>5
  <1> QED BY <1>4, <1>5, <1>6, OccurrenceFacts

(* A candidate lies in the haystack, and so does what is there.            *)
LEMMA CandidateFacts ==
  ASSUME DfaOK, H \in Seq(Byte), ByLiteral, NEW from \in Nat, NEW i \in Candidates(from)
  PROVE  /\ i \in from..Len(H) /\ i \in 0..Len(H) /\ EndOf(i) \in i..Len(H)
         /\ ScansFor(i, EndOf(i))
  <1>1. Len(H) \in Nat
    OBVIOUS
  <1>2. i \in from..Len(H) /\ \E l \in Needles : OccursAt(l, H, i)
    BY DEF Candidates
  <1>3. i \in Nat /\ i \in 0..Len(H)
    BY <1>1, <1>2
  <1>4. PICK l \in Needles : OccursAt(l, H, i)
    BY <1>2
  <1>5. (l = S.suffix /\ Is("Suffix")) \/ l \in ToSet(S.literals)
    BY DEF Needles
  <1>6. /\ Is("Suffix") => /\ S.suffix \in Seq(Byte) /\ Len(S.suffix) \in Nat
                           /\ Len(S.suffix) <= Len(l)
        /\ Is("Inner") => S.innerLen \in Nat /\ S.innerLen <= Len(l)
        /\ Len(l) \in Nat
    <2>1. CASE l = S.suffix /\ Is("Suffix")
      BY <2>1, SearcherFacts DEF Is
    <2>2. CASE l \in ToSet(S.literals)
      <3>1. PICK k \in DOMAIN S.literals : l = S.literals[k]
        BY <2>2 DEF ToSet
      <3>2. l \in Seq(Byte)
        BY <3>1, SearcherFacts
      <3> QED BY <3>1, <3>2, SearcherFacts
    <2> QED BY <1>5, <2>1, <2>2
  <1>7. i + Len(l) <= Len(H)
    BY <1>4, OccurrenceFacts
  <1>8. EndOf(i) \in i..Len(H)
    <2>1. CASE Is("Suffix")
      <3>1. EndOf(i) = i + Len(S.suffix)
        BY <2>1 DEF EndOf, Is
      <3> QED BY <1>1, <1>3, <1>6, <1>7, <2>1, <3>1
    <2>2. CASE Is("SuffixSet")
      <3>1. EndOf(i) = i + GetSuffixLen(i) /\ ~Is("Suffix")
        BY <2>2 DEF EndOf, Is
      <3>2. GetSuffixLen(i) \in Nat /\ i + GetSuffixLen(i) <= Len(H)
        BY <1>3, <1>4, <1>5, <3>1, SuffixLenFacts
      <3> QED BY <1>1, <1>3, <3>1, <3>2
    <2>3. CASE ~Is("Suffix") /\ ~Is("SuffixSet")
      <3>1. EndOf(i) = i
        BY <2>3 DEF EndOf
      <3> QED BY <1>1, <1>3, <3>1
    <2> QED BY <2>1, <2>2, <2>3
  <1>9. Is("Inner") => i + S.innerLen <= Len(H)
    BY <1>1, <1>3, <1>6, <1>7
  <1> QED BY <1>2, <1>3, <1>8, <1>9 DEF ScansFor

(* So does the suffix of a line.                                           *)
LEMMA SuffixesFacts ==
  ASSUME DfaOK, H \in Seq(Byte), ByLiteral, NEW from \in Nat, NEW i \in SuffixesFrom(from)
  PROVE  i \in 0..Len(H) /\ EndOf(i) \in 0..Len(H)
  <1>1. Len(H) \in Nat
    OBVIOUS
  <1>2. CASE Is("Suffix")
    <2>1. i \in from..Len(H) /\ OccursAt(S.suffix, H, i)
      BY <1>2 DEF SuffixesFrom
    <2>2. EndOf(i) = i + Len(S.suffix)
      BY <1>2 DEF EndOf, Is
    <2>3. i + Len(S.suffix) <= Len(H)
      BY <2>1, OccurrenceFacts
    <2>4. Len(S.suffix) \in Nat
      BY <1>2, SearcherFacts
    <2> QED BY <1>1, <2>1, <2>2, <2>3, <2>4
  <1>3. CASE ~Is("Suffix")
    <2>1. i \in Candidates(from)
      BY <1>3 DEF SuffixesFrom
    <2> QED BY <1>1, <2>1, CandidateFacts
  <1> QED BY <1>2, <1>3

(* The last of some positions.                                             *)
LEMMA LastPosition ==
  ASSUME NEW n \in Nat, NEW positions \in SUBSET (0..n), positions # {}
  PROVE  LastOf(positions) \in positions
  <1> DEFINE back == {n - i : i \in positions}
  <1>1. back \in SUBSET Nat /\ back # {}
    OBVIOUS
  <1>2. Minimum(back) \in back /\ \A j \in back : Minimum(back) <= j
    <2> HIDE DEF back
    <2> QED BY <1>1, FirstPosition
  <1>3. PICK i \in positions : Minimum(back) = n - i
    BY <1>2
  <1>4. ASSUME NEW j \in positions PROVE j <= i
    <2>1. n - j \in back
      OBVIOUS
    <2>2. n - i <= n - j
      BY <1>2, <1>3, <2>1
    <2> QED BY <2>2
  <1>5. \E x \in positions : \A j \in positions : j <= x
    BY <1>4
  <1> QED BY <1>5 DEF LastOf

(* A line begins and a suffix of it ends in the haystack.                  *)
LEMMA LineFacts ==
  ASSUME DfaOK, RequestOK, ByLiteral, loop.searchStart \in Nat, Ahead # {},
         NEW last, last = IF Asked("Find") THEN LastOf(Ahead) ELSE LastOnLine(Minimum(Ahead))
  PROVE  <<LineStartBefore(last), EndOf(last)>> \in SpanOf(H)
  <1>1. H \in Seq(Byte) /\ Len(H) \in Nat /\ req.at \in 0..Len(H)
    BY DEF RequestOK
  <1>2. \A i \in Ahead : i \in 0..Len(H) /\ EndOf(i) \in 0..Len(H)
    <2> SUFFICES ASSUME NEW i \in Ahead PROVE i \in 0..Len(H) /\ EndOf(i) \in 0..Len(H)
      OBVIOUS
    <2>1. i \in 0..Len(H) /\ EndOf(i) \in i..Len(H)
      BY <1>1, CandidateFacts DEF Ahead
    <2> QED BY <1>1, <2>1
  <1>3. Ahead \in SUBSET (0..Len(H)) /\ Ahead \in SUBSET Nat
    BY <1>2
  <1>4. Minimum(Ahead) \in Ahead
    BY <1>3, FirstPosition
  <1>5. last \in 0..Len(H) /\ EndOf(last) \in 0..Len(H)
    <2>1. CASE Asked("Find")
      BY <1>1, <1>2, <1>3, <2>1, LastPosition
    <2>2. CASE ~Asked("Find")
      <3> DEFINE first == Minimum(Ahead)
                 onLine == {first} \cup {i \in SuffixesFrom(first) : EndOf(i) <= LineEndAfter(first)}
      <3>1. last = LastOf(onLine)
        BY <2>2 DEF LastOnLine
      <3>2. first \in 0..Len(H) /\ first \in Nat /\ EndOf(first) \in 0..Len(H)
        BY <1>2, <1>4
      <3> HIDE DEF first
      <3>3. \A i \in onLine : i \in 0..Len(H) /\ EndOf(i) \in 0..Len(H)
        BY <1>1, <3>2, SuffixesFacts
      <3>4. onLine \in SUBSET (0..Len(H)) /\ onLine # {}
        BY <3>3
      <3> HIDE DEF onLine
      <3>5. last \in onLine
        BY <1>1, <3>1, <3>4, LastPosition
      <3> QED BY <3>3, <3>5
    <2> QED BY <2>1, <2>2
  <1>6. LineStartBefore(last) \in 0..Len(H)
    <2> DEFINE breaks == {j \in (req.at + 1)..last : H[j] = LineBreak}
               IsLastBreak(j) == H[j] = LineBreak /\ \A k \in (j + 1)..last : H[k] # LineBreak
               start == CHOOSE j \in (req.at + 1)..last : IsLastBreak(j)
    <2>1. CASE breaks = {}
      BY <1>1, <2>1 DEF LineStartBefore
    <2>2. CASE breaks # {}
      <3>1. breaks \in SUBSET (0..Len(H))
        BY <1>1, <1>5
      <3>2. \E j \in (req.at + 1)..last : IsLastBreak(j)
        <4> DEFINE back == {Len(H) - j : j \in breaks}
        <4>1. back \in SUBSET Nat /\ back # {}
          BY <1>1, <2>2, <3>1
        <4>2. Minimum(back) \in back /\ \A x \in back : Minimum(back) <= x
          <5> HIDE DEF back
          <5> QED BY <4>1, FirstPosition
        <4>3. PICK j \in breaks : Minimum(back) = Len(H) - j
          BY <4>2
        <4>4. ASSUME NEW k \in (j + 1)..last, H[k] = LineBreak PROVE FALSE
          <5>1. k \in breaks /\ ~(k <= j)
            BY <1>1, <1>5, <4>4
          <5>2. Len(H) - j <= Len(H) - k
            BY <4>2, <4>3, <5>1
          <5> QED BY <1>1, <3>1, <5>1, <5>2
        <4> QED BY <4>4
      <3>3. start \in (req.at + 1)..last
        <4> HIDE DEF IsLastBreak
        <4> QED BY <3>2
      <3>4. LineStartBefore(last) = start
        BY <2>2 DEF LineStartBefore
      <3> HIDE DEF start
      <3> QED BY <1>1, <1>5, <3>3, <3>4
    <2> QED BY <2>1, <2>2
  <1> QED BY <1>1, <1>5, <1>6, SpanFacts

-----------------------------------------------------------------------------
(* How a step of the loop over candidates ends.                            *)

(* A request that is answered.                                             *)
LEMMA ReplyKeeps ==
  ASSUME IInv, ~Scanning, NEW span \in SpanOf(H), Reply(span)
  PROVE  IInv'
  <1>1. /\ step' = "idle" /\ loop' = NewLoop(0) /\ req' = req /\ dfa' = dfa /\ cache' = cache
        /\ call' = call /\ pc' = pc /\ pos' = pos /\ sid' = sid /\ lastMatch' = lastMatch
        /\ answer' = answer
    BY DEF Reply, scan
  <1>2. H' = H /\ W' = W /\ pc = "idle" /\ H \in Seq(Byte) /\ Len(H) \in Nat
    BY <1>1 DEF H, W, Scanning, IInv, RequestOK
  <1>3. reply' \in SpanOf(H)
    <2>1. reply' \in {NoSpan, <<0, 0>>, <<0, Len(H)>>, span}
      BY DEF Reply
    <2>2. 0 \in 0..Len(H) /\ Len(H) \in 0..Len(H)
      BY <1>2
    <2> QED BY <1>2, <2>1, <2>2, SpanFacts
  <1>4. DfaOK'
    BY <1>1 DEF IInv, DfaOK, Built, N, config
  <1>5. RequestOK'
    BY <1>1, <1>2, <1>3 DEF IInv, RequestOK
  <1>6. LoopOK'
    BY <1>1, <1>2, SpanFacts DEF LoopOK, NewLoop
  <1>7. ScanOK'
    BY <1>1, <1>2 DEF IInv, ScanOK, Scanning
  <1>8. CacheOK'
    BY <1>1 DEF IInv, CacheOK, N, config
  <1>9. CandidateOK' /\ PassedOK'
    BY <1>1 DEF CandidateOK, PassedOK
  <1> QED BY <1>4, <1>5, <1>6, <1>7, <1>8, <1>9 DEF IInv

(* A loop that goes on behind a candidate.                                 *)
LEMMA TryNextKeeps ==
  ASSUME IInv, step # "idle", ~Scanning, ByLiteral, NEW i \in 0..Len(H), EndOf(i) \in 0..Len(H),
         Is("Inner") => i + S.innerLen <= Len(H), OfSuffixes => EndOf(i) >= call.end,
         NEW best \in SpanOf(H), NEW m, TryNext(i, best, m)
  PROVE  IInv'
  <1>1. /\ step' = "looking" /\ req' = req /\ reply' = reply /\ dfa' = dfa /\ cache' = cache
        /\ call' = call /\ pc' = pc /\ pos' = pos /\ sid' = sid /\ lastMatch' = lastMatch
        /\ answer' = answer
        /\ loop' = [candidate |-> -1, searchStart |-> i + 1, minStart |-> NextMinStart(i),
                    minPreStart |-> m, best |-> best]
    BY DEF TryNext, SearchPast, scan
  <1>2. H' = H /\ W' = W /\ pc = "idle" /\ Len(H) \in Nat
    BY <1>1 DEF H, W, Scanning, IInv, RequestOK
  <1>3. loop.minStart \in 0..Len(H) /\ call.end \in Nat
    BY DEF IInv, LoopOK, ScanOK
  <1>4. NextMinStart(i) \in 0..Len(H) /\ (OfSuffixes => NextMinStart(i) >= call.end)
    <2>1. CASE Is("Suffix")
      <3>1. NextMinStart(i) = EndOf(i) /\ OfSuffixes
        BY <2>1 DEF NextMinStart, Is, OfSuffixes
      <3> QED BY <3>1
    <2>2. CASE Is("SuffixSet")
      <3>1. NextMinStart(i) = AtLeast(EndOf(i)) /\ OfSuffixes
        BY <2>2 DEF NextMinStart, Is, OfSuffixes
      <3> QED BY <1>2, <1>3, <3>1 DEF AtLeast
    <2>3. CASE ~Is("Suffix") /\ ~Is("SuffixSet")
      <3>1. ~OfSuffixes
        BY <2>3 DEF OfSuffixes, Is
      <3>2. NextMinStart(i) = IF Is("Inner") /\ OnlyWhether THEN AtLeast(i + S.innerLen) ELSE loop.minStart
        BY <2>3 DEF NextMinStart
      <3>3. Is("Inner") => AtLeast(i + S.innerLen) \in 0..Len(H)
        <4> SUFFICES ASSUME Is("Inner") PROVE AtLeast(i + S.innerLen) \in 0..Len(H)
          OBVIOUS
        <4>1. S.innerLen \in Nat
          BY SearcherFacts DEF IInv
        <4> QED BY <1>2, <1>3, <4>1 DEF AtLeast
      <3> QED BY <1>3, <3>1, <3>2, <3>3
    <2> QED BY <2>1, <2>2, <2>3
  <1>5. DfaOK'
    BY <1>1 DEF IInv, DfaOK, Built, N, config
  <1>6. RequestOK'
    BY <1>1, <1>2 DEF IInv, RequestOK
  <1>7. LoopOK'
    BY <1>1, <1>2, <1>4 DEF LoopOK
  <1>8. ScanOK'
    BY <1>1, <1>2 DEF IInv, ScanOK, Scanning
  <1>9. CacheOK'
    BY <1>1 DEF IInv, CacheOK, N, config
  <1>10. CandidateOK'
    BY <1>1 DEF CandidateOK
  <1>11. PassedOK'
    BY <1>1, <1>4 DEF PassedOK, OfSuffixes, S
  <1> QED BY <1>5, <1>6, <1>7, <1>8, <1>9, <1>10, <1>11 DEF IInv

(* The ends of a scan that may begin.                                      *)
LEMMA ReverseStartSound ==
  ASSUME Built, NEW c, Sound(N, config, c), NEW w \in Seq(Byte), NEW end \in 0..Len(w)
  PROVE  Leaves(c, ReverseStart(c, w, end).cache, ReverseStart(c, w, end).id)
  <1> DEFINE kind == IF end >= Len(w) THEN "Text" ELSE StartKindOf(w[end + 1])
  <1>1. kind \in StartKind
    BY DEF StartKind, StartKindOf
  <1>2. ReverseStart(c, w, end) = GetStartState(c, kind, FALSE)
    BY DEF ReverseStart
  <1>3. FALSE \in BOOLEAN
    OBVIOUS
  <1> HIDE DEF kind
  <1> QED BY <1>1, <1>2, <1>3, GetStartStateSound

(* A scan that begins, in front of what the loop has got to.               *)
LEMMA ScanBackKeeps ==
  ASSUME IInv, step = "looking", NEW op, NEW start \in 0..Len(H), NEW end \in 0..Len(H), NEW i,
         ScansFor(i, end), ScanBack(op, start, end, i)
  PROVE  IInv'
  <1> DEFINE c == [op |-> op, hay |-> H, start |-> start, end |-> end, minStart |-> loop.minStart]
             first == ReverseStart(cache, H, end)
  <1>1. /\ call' = c /\ dfa' = dfa /\ step' = "scanning" /\ req' = req /\ reply' = reply
        /\ loop' = [loop EXCEPT !.candidate = i]
        /\ EmptyRegion(c) \/ EnterRegion(c, first)
    BY DEF ScanBack, BeginScan
  <1>2. /\ c.op = op /\ c.hay = H /\ c.start = start /\ c.end = end /\ c.minStart = loop.minStart
    OBVIOUS
  <1> HIDE DEF c
  <1>3. H' = H /\ W' = H /\ H \in Seq(Byte) /\ Len(H) \in Nat /\ pc = "idle" /\ N' = N /\ config' = config
    BY <1>1, <1>2 DEF H, W, IInv, RequestOK, ScanOK, Scanning, N, config
  <1>4. /\ loop' = [candidate |-> i, searchStart |-> loop.searchStart, minStart |-> loop.minStart,
                    minPreStart |-> loop.minPreStart, best |-> loop.best]
        /\ loop.searchStart \in 0..(Len(H) + 1) /\ loop.minStart \in 0..Len(H)
        /\ loop.best \in SpanOf(H)
    <2>1. LoopOK
      BY DEF IInv
    <2>2. loop = [candidate |-> loop.candidate, searchStart |-> loop.searchStart,
                  minStart |-> loop.minStart, minPreStart |-> loop.minPreStart,
                  best |-> loop.best]
      BY <2>1 DEF LoopOK
    <2>3. loop' = [candidate |-> i, searchStart |-> loop.searchStart, minStart |-> loop.minStart,
                   minPreStart |-> loop.minPreStart, best |-> loop.best]
      BY <1>1, <2>2
    <2> QED BY <2>1, <2>3 DEF LoopOK
  <1>5. Built /\ Sound(N, config, cache) /\ sid \in IDs(Len(cache.flatTrans))
    BY DEF IInv, DfaOK, CacheOK
  <1>6. Leaves(cache, first.cache, first.id)
    BY <1>3, <1>5, ReverseStartSound
  <1> HIDE DEF first
  <1>7. ScanOK' /\ CacheOK'
    <2>1. CASE EmptyRegion(c)
      <3>1. answer'.start = -1 /\ cache' = cache /\ pc' = "idle" /\ sid' = sid
        BY <1>3, <2>1 DEF EmptyRegion
      <3>2. ScanOK'
        BY <1>1, <1>2, <1>3, <1>4, <3>1 DEF ScanOK, Scanning
      <3> QED BY <1>3, <1>5, <3>1, <3>2 DEF CacheOK
    <2>2. CASE EnterRegion(c, first)
      <3>1. /\ answer'.start = -1 /\ cache' = first.cache /\ pc' \in {"fast", "tail"}
            /\ sid' = first.id /\ pos' = end /\ lastMatch' = -1 /\ end > start
        BY <1>2, <2>2 DEF EnterRegion, ScanFrom, NoAnswer
      <3>2. ScanOK'
        BY <1>1, <1>2, <1>3, <1>4, <3>1 DEF ScanOK, Scanning
      <3> QED BY <1>3, <1>6, <3>1, <3>2 DEF CacheOK, Leaves
    <2> QED BY <1>1, <2>1, <2>2
  <1>8. DfaOK'
    BY <1>1 DEF IInv, DfaOK, Built, N, config
  <1>9. RequestOK'
    BY <1>1, <1>3 DEF IInv, RequestOK
  <1>10. LoopOK'
    BY <1>3, <1>4 DEF LoopOK
  <1>11. CandidateOK'
    <2>1. S' = S /\ call'.end = end /\ loop'.candidate = i
      BY <1>1, <1>2, <1>4 DEF S
    <2>2. ScansFor(loop.candidate, call.end)'
      BY <1>1, <1>3, <2>1 DEF ScansFor, ByLiteral, Is, EndOf, GetSuffixLen
    <2> QED BY <1>3, <2>2 DEF CandidateOK
  <1>12. PassedOK'
    BY <1>1 DEF PassedOK
  <1> QED BY <1>7, <1>8, <1>9, <1>10, <1>11, <1>12 DEF IInv

-----------------------------------------------------------------------------
(* A step of a scan.                                                       *)

(* What a step finds when it begins.                                       *)
LEMMA Before ==
  ASSUME IInv, Scanning
  PROVE  /\ Built /\ Sound(N, config, cache) /\ sid \in AnyID /\ Len(cache.flatTrans) \in Nat
         /\ sid \in IDs(Len(cache.flatTrans)) /\ InvalidState \in IDs(Len(cache.flatTrans))
         /\ W \in Seq(Byte) /\ Len(W) \in Nat /\ step = "scanning"
         /\ call.start \in 0..Len(W) /\ call.end \in 0..Len(W) /\ LowerBound \in call.start..Len(W)
         /\ pos \in call.start..call.end /\ pos \in 0..Len(W) /\ lastMatch \in -1..call.end
         /\ Current \in State(N)
         /\ Current # NoState => /\ sid.row + 1 \in 1..Len(cache.stateList)
                                 /\ cache.stateList[sid.row + 1] = Current
  <1>1. Built /\ Sound(N, config, cache) /\ sid \in IDs(Len(cache.flatTrans))
    BY DEF IInv, DfaOK, CacheOK
  <1>2. Len(cache.flatTrans) \in Nat
    BY <1>1 DEF Sound, Typed
  <1>3. sid \in AnyID /\ InvalidState \in IDs(Len(cache.flatTrans))
    <2>1. sid \in AnyID
      BY <1>1, <1>2, WiderIDs
    <2> QED BY <1>2, <2>1, SpecialTypes
  <1>4. /\ W \in Seq(Byte) /\ Len(W) \in Nat /\ step = "scanning" /\ call.minStart \in 0..Len(W)
        /\ call.start \in 0..Len(W) /\ call.end \in 0..Len(W)
        /\ pos \in call.start..call.end /\ lastMatch \in -1..call.end
    BY DEF IInv, ScanOK
  <1>5. LowerBound \in call.start..Len(W) /\ pos \in 0..Len(W)
    BY <1>4 DEF LowerBound, LowerBoundOf
  <1>6. /\ Current \in State(N)
        /\ Current # NoState => /\ sid.row + 1 \in 1..Len(cache.stateList)
                                /\ cache.stateList[sid.row + 1] = Current
    BY <1>1, <1>3, GetStateFacts DEF Current
  <1> QED BY <1>1, <1>2, <1>3, <1>4, <1>5, <1>6

(* What a byte of the region leads to.                                     *)
LEMMA ByteFacts ==
  ASSUME IInv, AtByte
  PROVE  /\ Scanning /\ pos \in 1..Len(W) /\ pos - 1 \in call.start..call.end /\ pos \in 0..call.end
         /\ W[pos] \in Byte /\ NextBack \in IDs(Len(cache.flatTrans))
  <1>1. Scanning /\ pos > LowerBound
    BY DEF AtByte, OnTail
  <1>2. /\ Built /\ Sound(N, config, cache) /\ sid \in AnyID /\ W \in Seq(Byte) /\ Len(W) \in Nat
        /\ call.start \in 0..Len(W) /\ call.end \in 0..Len(W) /\ LowerBound \in call.start..Len(W)
        /\ pos \in call.start..call.end
    BY <1>1, Before
  <1>3. pos \in 1..Len(W) /\ pos - 1 \in call.start..call.end /\ pos \in 0..call.end
    BY <1>1, <1>2
  <1>4. W[pos] \in Byte
    BY <1>2, <1>3
  <1>5. NextBack \in IDs(Len(cache.flatTrans))
    BY <1>2, <1>4, TransitionType DEF NextBack
  <1> QED BY <1>1, <1>3, <1>4, <1>5

(* A step of a scan leaves the loop where it is.                           *)
LEMMA ScanKeeps ==
  ASSUME IInv, UNCHANGED <<dfa, call>>, UNCHANGED request, ScanOK', CacheOK'
  PROVE  IInv'
  <1>1. /\ dfa' = dfa /\ call' = call /\ req' = req /\ step' = step /\ loop' = loop
        /\ reply' = reply
    BY DEF request
  <1>2. DfaOK' /\ RequestOK' /\ LoopOK' /\ PassedOK'
    BY <1>1 DEF IInv, DfaOK, Built, N, config, RequestOK, LoopOK, PassedOK, OfSuffixes, S, H
  <1>3. CandidateOK'
    BY <1>1 DEF IInv, CandidateOK, ScansFor, ByLiteral, Is, EndOf, GetSuffixLen, S, H, W
  <1> QED BY <1>2, <1>3 DEF IInv

(* A scan that ends.                                                       *)
LEMMA GiveKeeps ==
  ASSUME IInv, NEW start \in -2..Len(W), NEW by, Give(start, by)
  PROVE  ScanOK' /\ sid' = InvalidState /\ call' = call
  <1>1. /\ call' = call /\ pc' = "idle" /\ sid' = InvalidState
        /\ answer'.start = IF Scans("IsMatchReverse") /\ start >= 0 THEN 0 ELSE start
    BY DEF Give
  <1>2. W' = W /\ W \in Seq(Byte) /\ Len(W) \in Nat
    BY <1>1 DEF W, IInv, ScanOK
  <1>3. answer'.start \in -2..Len(W)
    BY <1>1, <1>2
  <1>4. ScanOK'
    BY <1>1, <1>2, <1>3 DEF IInv, ScanOK, Scanning
  <1> QED BY <1>1, <1>4

(* A scan that ends where the cache is as good as before.                  *)
LEMMA GivenKeeps ==
  ASSUME IInv, UNCHANGED dfa, UNCHANGED request, NEW start \in -2..Len(W), NEW by, Give(start, by),
         Sound(N, config, cache')
  PROVE  IInv'
  <1>1. ScanOK' /\ sid' = InvalidState /\ call' = call
    BY GiveKeeps
  <1>2. Len(cache'.flatTrans) \in Nat
    BY DEF Sound, Typed
  <1>3. CacheOK'
    BY <1>1, <1>2, SpecialTypes DEF CacheOK, N, config
  <1> QED BY <1>1, <1>3, ScanKeeps

(* A scan that goes on inside its region.                                  *)
LEMMA StayKeeps ==
  ASSUME IInv, Scanning, UNCHANGED <<dfa, call, answer>>, UNCHANGED request,
         pos' \in call.start..call.end, lastMatch' \in -1..call.end, pc' \in {"fast", "tail"},
         Sound(N, config, cache'), sid' \in IDs(Len(cache'.flatTrans))
  PROVE  IInv'
  <1>1. /\ call' = call /\ answer' = answer /\ W' = W /\ step' = step
    BY DEF W, request
  <1>2. ScanOK'
    BY <1>1 DEF IInv, ScanOK, Scanning
  <1>3. CacheOK'
    BY DEF CacheOK, N, config
  <1> QED BY <1>2, <1>3, ScanKeeps

(* A scan that takes a transition.                                         *)
LEMMA StepBackKeeps ==
  ASSUME IInv, AtByte, UNCHANGED dfa, UNCHANGED request, NEW id, StepBack(id),
         Sound(N, config, cache'), id \in IDs(Len(cache'.flatTrans))
  PROVE  IInv'
  <1>1. Scanning /\ pos - 1 \in call.start..call.end /\ pos \in 0..call.end /\ pos \in 1..Len(W)
    BY ByteFacts
  <1>2. lastMatch \in -1..call.end /\ call.end \in Nat /\ Len(W) \in Nat
    BY <1>1, Before
  <1>3. CASE "match" \in id.tag /\ Scans("IsMatchReverse")
    <2>1. Give(pos, "dfa")
      BY <1>3 DEF StepBack
    <2>2. pos \in -2..Len(W)
      BY <1>1, <1>2
    <2> QED BY <2>1, <2>2, GivenKeeps
  <1>4. CASE ~("match" \in id.tag /\ Scans("IsMatchReverse"))
    <2>1. /\ pos' = pos - 1 /\ sid' = id /\ pc' = "tail" /\ call' = call /\ answer' = answer
          /\ lastMatch' = IF "match" \in id.tag THEN pos ELSE lastMatch
      BY <1>4 DEF StepBack, ScanFrom
    <2>2. lastMatch' \in -1..call.end
      BY <1>1, <1>2, <2>1
    <2> QED BY <1>1, <2>1, <2>2, StayKeeps
  <1> QED BY <1>3, <1>4

(* A scan that hands over to the NFA.                                      *)
LEMMA FallbackKeeps ==
  ASSUME IInv, AtByte, UNCHANGED dfa, UNCHANGED request, FallbackReverse, Sound(N, config, cache')
  PROVE  IInv'
  <1> DEFINE from == IF N.isAnchored THEN {call.start} ELSE call.start..call.end
             starts == {i \in from : RunsFrom(N, i, call.end)}
             start == IF starts = {} THEN -1 ELSE Minimum(starts)
  <1>1. Scanning /\ pos - 1 \in call.start..call.end
    BY ByteFacts
  <1>2. call.start \in 0..Len(W) /\ call.end \in 0..Len(W) /\ Len(W) \in Nat
    BY <1>1, Before
  <1>3. starts \in SUBSET Nat /\ starts \subseteq 0..Len(W)
    BY <1>2
  <1>4. Give(start, "nfa")
    BY DEF FallbackReverse
  <1> HIDE DEF starts
  <1>5. start \in -2..Len(W)
    <2>1. CASE starts = {}
      BY <1>2, <2>1
    <2>2. CASE starts # {}
      <3>1. Minimum(starts) \in starts
        BY <1>3, <2>2, FirstPosition
      <3>2. start \in 0..Len(W)
        BY <1>3, <2>2, <3>1
      <3> HIDE DEF start
      <3> QED BY <1>2, <3>2
    <2> QED BY <2>1, <2>2
  <1> HIDE DEF start
  <1> QED BY <1>4, <1>5, GivenKeeps
(* The unrolled loop of a scan stays inside its region.                    *)
LEMMA FastRunFacts ==
  ASSUME IInv, OnFastLoop
  PROVE  FastRun.length \in 0..4 /\ FastRun.id \in IDs(Len(cache.flatTrans))
  <1> DEFINE L == Len(cache.flatTrans)
             run[k \in 0..4] == IF k = 0 THEN sid ELSE Transition(cache, run[k - 1], W[pos - k + 1])
             taken == [k \in 0..4 |-> [id \in IDs(L) |-> IF k = 0 THEN id
                                                         ELSE Transition(cache, id, W[pos - k + 1])]]
             Runs(k) == (\A j \in 1..k : ~Tagged(run[j])) /\ (k = 4 \/ Tagged(run[k + 1]))
             length == CHOOSE k \in 0..4 : Runs(k)
  <1>1. /\ Built /\ Sound(N, config, cache) /\ L \in Nat /\ sid \in IDs(L)
        /\ W \in Seq(Byte) /\ Len(W) \in Nat /\ pos \in 4..Len(W)
    <2>1. Scanning /\ pos >= call.start + 4
      BY DEF OnFastLoop, Scanning
    <2>2. call.start \in 0..Len(W) /\ call.end \in 0..Len(W) /\ pos \in call.start..call.end
      BY <2>1, Before
    <2>3. pos \in 4..Len(W)
      BY <2>1, <2>2
    <2> QED BY <2>1, <2>3, Before
  <1>2. ASSUME NEW k \in 1..4 PROVE W[pos - k + 1] \in Byte
    <2>1. pos - k + 1 \in 1..Len(W)
      BY <1>1
    <2> QED BY <1>1, <2>1
  <1>3. ASSUME NEW k \in 1..4, NEW id \in IDs(L)
        PROVE  Transition(cache, id, W[pos - k + 1]) \in IDs(L)
    BY <1>1, <1>2, TransitionType, WiderIDs
  <1>4. taken \in [0..4 -> [IDs(L) -> IDs(L)]]
    <2>1. ASSUME NEW k \in 0..4, NEW id \in IDs(L)
          PROVE  (IF k = 0 THEN id ELSE Transition(cache, id, W[pos - k + 1])) \in IDs(L)
      <3>1. k # 0 => k \in 1..4
        OBVIOUS
      <3> QED BY <1>3, <3>1
    <2> HIDE DEF L
    <2> QED BY <2>1
  <1> HIDE DEF L
  <1>5. Defines(0, 4, IDs(L), sid, taken)
    <2> HIDE DEF taken
    <2>1. 0 \in Nat /\ 4 \in Nat /\ 0 <= 4
      OBVIOUS
    <2> QED BY <1>1, <1>4, <2>1, IntervalRecursion
  <1>6. PICK f \in [0..4 -> IDs(L)] :
          \A k \in 0..4 : f[k] = IF k = 0 THEN sid ELSE taken[k][f[k - 1]]
    BY <1>5 DEF Defines
  <1>7. f = [k \in 0..4 |-> IF k = 0 THEN sid ELSE Transition(cache, f[k - 1], W[pos - k + 1])]
    <2> SUFFICES ASSUME NEW k \in 0..4
                 PROVE  f[k] = IF k = 0 THEN sid ELSE Transition(cache, f[k - 1], W[pos - k + 1])
      OBVIOUS
    <2>1. k # 0 => k - 1 \in 0..4
      OBVIOUS
    <2>2. k # 0 => f[k - 1] \in IDs(L) /\ taken[k][f[k - 1]] = Transition(cache, f[k - 1], W[pos - k + 1])
      BY <2>1
    <2> HIDE DEF taken
    <2> QED BY <1>6, <2>2
  <1>8. run = [k \in 0..4 |-> IF k = 0 THEN sid ELSE Transition(cache, run[k - 1], W[pos - k + 1])]
    BY <1>7
  <1> HIDE DEF run, taken
  <1>9. \A k \in 0..4 : run[k] \in IDs(L)
    <2> DEFINE A == {k \in 0..4 : run[k] \in IDs(L)}
    <2>1. 0 \in A
      BY <1>1, <1>8
    <2>2. ASSUME NEW k \in 0..(4 - 1), k \in A PROVE k + 1 \in A
      <3>1. k + 1 \in 0..4 /\ k + 1 \in 1..4 /\ k + 1 # 0 /\ (k + 1) - 1 = k
        OBVIOUS
      <3>2. run[k + 1] = Transition(cache, run[k], W[pos - (k + 1) + 1])
        BY <1>8, <3>1
      <3> QED BY <1>3, <2>2, <3>1, <3>2
    <2>3. 0..4 \subseteq A
      <3> HIDE DEF A
      <3>1. 0 \in Nat /\ 4 \in Nat
        OBVIOUS
      <3> QED BY <2>1, <2>2, <3>1, IntervalInduction
    <2> QED BY <2>3
  <1>10. \E k \in 0..4 : Runs(k)
    <2> DEFINE stops == {j \in 1..4 : Tagged(run[j])}
    <2>1. CASE stops = {}
      <3>1. Runs(4)
        BY <2>1
      <3> QED BY <3>1
    <2>2. CASE stops # {}
      <3>1. Minimum(stops) \in stops /\ \A x \in stops : Minimum(stops) <= x
        <4>1. stops \in SUBSET Nat
          OBVIOUS
        <4> HIDE DEF stops
        <4> QED BY <2>2, <4>1, FirstPosition
      <3>2. PICK j \in 1..4 : Tagged(run[j]) /\ \A i \in 1..4 : Tagged(run[i]) => j <= i
        BY <3>1
      <3>3. Runs(j - 1)
        <4>1. (j - 1) + 1 = j
          OBVIOUS
        <4>2. \A i \in 1..(j - 1) : i \in 1..4 /\ ~(j <= i)
          OBVIOUS
        <4> QED BY <3>2, <4>1, <4>2
      <3>4. j - 1 \in 0..4
        OBVIOUS
      <3> QED BY <3>3, <3>4
    <2> QED BY <2>1, <2>2
  <1>11. length \in 0..4
    <2> HIDE DEF Runs
    <2> QED BY <1>10
  <1>12. FastRun.length = length /\ FastRun.id = run[length]
    BY DEF FastRun, run
  <1> HIDE DEF length
  <1> QED BY <1>9, <1>11, <1>12 DEF L

(* Four transitions a turn.                                                *)
LEMMA FastLoopKeeps ==
  ASSUME IInv, FastLoop, UNCHANGED request
  PROVE  IInv'
  <1> DEFINE length == FastRun.length
  <1>1. /\ OnFastLoop /\ Scanning /\ pos >= call.start + 4
        /\ dfa' = dfa /\ cache' = cache /\ call' = call /\ lastMatch' = lastMatch
        /\ answer' = answer
        /\ pos' = pos - length /\ sid' = FastRun.id
        /\ pc' = IF length = 4 THEN "fast" ELSE "tail"
    BY DEF FastLoop, RunBack, ScanFrom, OnFastLoop, Scanning
  <1>2. length \in 0..4 /\ FastRun.id \in IDs(Len(cache.flatTrans))
    BY <1>1, FastRunFacts
  <1> HIDE DEF length
  <1>3. /\ Sound(N, config, cache) /\ Len(W) \in Nat /\ call.start \in 0..Len(W)
        /\ call.end \in 0..Len(W) /\ pos \in call.start..call.end /\ lastMatch \in -1..call.end
    BY <1>1, Before
  <1>4. pos' \in call.start..call.end
    BY <1>1, <1>2, <1>3
  <1> QED BY <1>1, <1>2, <1>3, <1>4, StayKeeps

(* An unknown transition: the cache it leaves is sound.                    *)
LEMMA DeterminizeBackKeeps ==
  ASSUME IInv, DeterminizeBack, UNCHANGED request
  PROVE  IInv'
  <1> DEFINE outcome == DeterminizeInto(cache, Current, W[pos])
  <1>1. AtByte /\ Current # NoState /\ dfa' = dfa /\ Proceed(outcome) /\ UNCHANGED dfa
    BY DEF DeterminizeBack
  <1>2. Scanning /\ pos \in 1..Len(W) /\ W[pos] \in Byte /\ pos \in 0..call.end
    BY <1>1, ByteFacts
  <1>3. /\ Built /\ Sound(N, config, cache) /\ Len(cache.flatTrans) \in Nat
        /\ sid.row + 1 \in 1..Len(cache.stateList) /\ cache.stateList[sid.row + 1] = Current
        /\ W \in Seq(Byte) /\ Len(W) \in Nat /\ lastMatch \in -1..call.end
        /\ call.end \in 0..Len(W) /\ pos \in call.start..call.end
    BY <1>1, <1>2, Before
  <1>4. Leaves(cache, outcome.cache, outcome.id)
    <2> DEFINE k == sid.row + 1
               b == W[pos]
    <2>1. k \in 1..Len(cache.stateList) /\ cache.stateList[k] = Current /\ b \in Byte
      BY <1>2, <1>3
    <2> HIDE DEF k, b
    <2>2. Leaves(cache, DeterminizeInto(cache, cache.stateList[k], b).cache,
                 DeterminizeInto(cache, cache.stateList[k], b).id)
      BY <1>1, <1>3, <2>1, DeterminizeSound
    <2> QED BY <2>1, <2>2 DEF b
  <1> HIDE DEF outcome
  <1>5. /\ Sound(N, config, outcome.cache) /\ outcome.id \in IDs(Len(outcome.cache.flatTrans))
    BY <1>4 DEF Leaves
  <1>6. CASE StepBack(outcome.id) /\ cache' = outcome.cache
    BY <1>1, <1>5, <1>6, StepBackKeeps
  <1>7. CASE Give(lastMatch, "dfa") /\ cache' = outcome.cache
    <2>1. lastMatch \in -2..Len(W)
      BY <1>3
    <2> QED BY <1>1, <1>5, <1>7, <2>1, GivenKeeps
  <1>8. CASE Restarted(ReverseStart(outcome.cache, W, pos))
    <2> DEFINE start == ReverseStart(outcome.cache, W, pos)
    <2>1. /\ cache' = start.cache /\ sid' = start.id /\ pos' = pos /\ pc' = "tail"
          /\ call' = call /\ lastMatch' = lastMatch /\ answer' = answer
      BY <1>8 DEF Restarted, ScanFrom
    <2>2. Leaves(outcome.cache, start.cache, start.id)
      <3>1. pos \in 0..Len(W)
        BY <1>2, <1>3
      <3> QED BY <1>3, <1>5, <3>1, ReverseStartSound
    <2> HIDE DEF start
    <2>3. Sound(N, config, cache') /\ sid' \in IDs(Len(cache'.flatTrans))
      BY <2>1, <2>2 DEF Leaves
    <2> QED BY <1>1, <1>2, <1>3, <2>1, <2>3, StayKeeps
  <1>9. CASE FallbackReverse /\ cache' = outcome.cache
    BY <1>1, <1>5, <1>9, FallbackKeeps
  <1> QED BY <1>1, <1>6, <1>7, <1>8, <1>9 DEF Proceed

(* A step of a scan, whichever it is.                                      *)
LEMMA ScanStepKeeps ==
  ASSUME IInv, ScanStep, UNCHANGED request
  PROVE  IInv'
  <1>1. CASE FastLoop
    BY <1>1, FastLoopKeeps
  <1>2. CASE FollowBack
    <2>1. AtByte /\ UNCHANGED dfa /\ cache' = cache /\ StepBack(NextBack)
      BY <1>2 DEF FollowBack
    <2>2. Scanning /\ NextBack \in IDs(Len(cache.flatTrans))
      BY <2>1, ByteFacts
    <2>3. Sound(N, config, cache)
      BY <2>2, Before
    <2> QED BY <2>1, <2>2, <2>3, StepBackKeeps
  <1>3. CASE DieBack
    <2>1. AtByte /\ UNCHANGED dfa /\ cache' = cache /\ Give(lastMatch, "dfa")
      BY <1>3 DEF DieBack
    <2>2. Scanning
      BY <2>1, ByteFacts
    <2>3. Sound(N, config, cache) /\ lastMatch \in -2..Len(W)
      BY <2>2, Before
    <2> QED BY <2>1, <2>3, GivenKeeps
  <1>4. CASE DeterminizeBack
    BY <1>4, DeterminizeBackKeeps
  <1>5. CASE LostBack
    <2>1. AtByte /\ UNCHANGED dfa /\ cache' = cache /\ FallbackReverse
      BY <1>5 DEF LostBack
    <2>2. Sound(N, config, cache)
      BY DEF IInv, CacheOK
    <2> QED BY <2>1, <2>2, FallbackKeeps
  <1>6. CASE EndOfRegion
    <2>1. Scanning /\ UNCHANGED dfa /\ cache' = cache /\ Give(Verdict(LastStart), "dfa")
      BY <1>6 DEF EndOfRegion, OnTail
    <2>2. /\ Sound(N, config, cache) /\ lastMatch \in -1..call.end /\ Len(W) \in Nat
          /\ call.start \in 0..Len(W) /\ call.end \in 0..Len(W) /\ LowerBound \in call.start..Len(W)
      BY <2>1, Before
    <2>3. LastStart \in -2..Len(W)
      BY <2>2 DEF LastStart
    <2>4. Verdict(LastStart) \in -2..Len(W)
      BY <2>2, <2>3 DEF Verdict, Quadratic
    <2> QED BY <2>1, <2>2, <2>4, GivenKeeps
  <1> QED BY <1>1, <1>2, <1>3, <1>4, <1>5, <1>6 DEF ScanStep
-----------------------------------------------------------------------------
(* The steps of the loop.                                                  *)

(* What the loop finds when it looks on.                                   *)
LEMMA Looking ==
  ASSUME IInv, step = "looking"
  PROVE  /\ ~Scanning /\ DfaOK /\ RequestOK /\ H \in Seq(Byte) /\ Len(H) \in Nat
         /\ req.at \in 0..Len(H) /\ MatchFrom(req.at) \in SpanOf(H)
         /\ loop.searchStart \in Nat /\ loop.best \in SpanOf(H) /\ NoSpan \in SpanOf(H)
  <1>1. DfaOK /\ RequestOK /\ LoopOK /\ ScanOK
    BY DEF IInv
  <1>2. ~Scanning /\ H \in Seq(Byte) /\ req.at \in 0..Len(H) /\ step # "idle"
    BY <1>1 DEF ScanOK, RequestOK
  <1>3. Len(H) \in Nat /\ NoSpan \in SpanOf(H)
    BY <1>2, SpanFacts
  <1>4. MatchFrom(req.at) \in SpanOf(H)
    BY <1>1, <1>2, MatchFromType
  <1>5. loop.searchStart \in Nat /\ loop.best \in SpanOf(H)
    BY <1>1, <1>3 DEF LoopOK
  <1> QED BY <1>1, <1>2, <1>3, <1>4, <1>5

(* What the loop finds when a scan has ended.                              *)
LEMMA Judged ==
  ASSUME IInv, Judging
  PROVE  /\ ~Scanning /\ step # "idle" /\ DfaOK /\ H \in Seq(Byte) /\ Len(H) \in Nat
         /\ MatchFrom(req.at) \in SpanOf(H) /\ loop.best \in SpanOf(H) /\ NoSpan \in SpanOf(H)
         /\ answer.start >= 0 => answer.start \in 0..Len(H)
         /\ call.end \in 0..Len(H) /\ ScansFor(loop.candidate, call.end)
  <1>1. DfaOK /\ RequestOK /\ LoopOK /\ ScanOK /\ CandidateOK
    BY DEF IInv
  <1>2. ~Scanning /\ step = "scanning" /\ step # "idle"
    BY DEF Judging
  <1>3. H \in Seq(Byte) /\ req.at \in 0..Len(H)
    BY <1>1 DEF RequestOK
  <1>4. Len(H) \in Nat /\ NoSpan \in SpanOf(H)
    BY <1>3, SpanFacts
  <1>5. MatchFrom(req.at) \in SpanOf(H)
    BY <1>1, <1>2, <1>3, MatchFromType
  <1>6. loop.best \in SpanOf(H)
    BY <1>1 DEF LoopOK
  <1>7. W = H /\ ScansFor(loop.candidate, call.end)
    BY <1>1, <1>2 DEF CandidateOK
  <1>8. call.end \in 0..Len(H) /\ answer.start \in -2..Len(H)
    BY <1>1, <1>7 DEF ScanOK
  <1>9. answer.start >= 0 => answer.start \in 0..Len(H)
    BY <1>4, <1>8
  <1> QED BY <1>1, <1>2, <1>3, <1>4, <1>5, <1>6, <1>7, <1>8, <1>9

(* A new request.                                                          *)
LEMMA AskKeeps ==
  ASSUME IInv, Ask
  PROVE  IInv'
  <1>1. /\ step = "idle" /\ req' \in Requests[dfa.pattern] /\ step' = "looking"
        /\ loop' = NewLoop(req'.at) /\ reply' = NoSpan /\ call' = NoCall /\ answer' = NoAnswer
        /\ dfa' = dfa /\ cache' = cache /\ pc' = pc /\ sid' = sid
    BY DEF Ask
  <1>2. DfaOK /\ pc = "idle"
    BY <1>1 DEF IInv, ScanOK, Scanning
  <1>3. req'.hay \in Seq(Byte) /\ Len(req'.hay) \in Nat /\ req'.at \in 0..Len(req'.hay)
    BY <1>1, <1>2, RequestFacts
  <1>4. H' = req'.hay /\ W' = <<>> /\ call'.start = 0 /\ call'.end = 0 /\ call'.minStart = 0
        /\ answer'.start = -1
    BY <1>1 DEF H, W, NoCall, NoAnswer
  <1>5. NoSpan \in SpanOf(req'.hay)
    BY <1>3, SpanFacts
  <1>6. DfaOK'
    BY <1>1, <1>2 DEF DfaOK, Built, N, config
  <1>7. RequestOK'
    BY <1>1, <1>3, <1>4, <1>5 DEF RequestOK
  <1>8. LoopOK'
    BY <1>1, <1>3, <1>4, <1>5 DEF LoopOK, NewLoop
  <1>9. ScanOK'
    <2>1. <<>> \in Seq(Byte) /\ Len(<<>>) = 0
      OBVIOUS
    <2> QED BY <1>1, <1>2, <1>4, <2>1 DEF ScanOK, Scanning
  <1>10. CacheOK'
    BY <1>1 DEF IInv, CacheOK, N, config
  <1>11. CandidateOK' /\ PassedOK'
    BY <1>1 DEF CandidateOK, PassedOK
  <1> QED BY <1>6, <1>7, <1>8, <1>9, <1>10, <1>11 DEF IInv

(* The search forward from a literal.                                      *)
LEMMA VerifySuffixKeeps ==
  ASSUME IInv, step # "idle", ~Scanning, Is("Inner"), NEW start \in 0..Len(H),
         NEW i \in 0..Len(H), i + S.innerLen <= Len(H), VerifySuffix(start, i)
  PROVE  IInv'
  <1>1. DfaOK /\ RequestOK /\ H \in Seq(Byte) /\ req \in Requests[dfa.pattern]
    BY DEF IInv, RequestOK
  <1>2. SuffixEnd[dfa.pattern][H][i] \in -1..Len(H) /\ Len(H) \in Nat
    BY <1>1, RequestFacts DEF H
  <1> DEFINE end == SuffixEnd[dfa.pattern][H][i]
  <1>3. CASE end >= 0 /\ Reply(<<start, end>>)
    <2>1. end \in 0..Len(H)
      BY <1>2, <1>3
    <2> HIDE DEF end
    <2>2. <<start, end>> \in SpanOf(H)
      BY <1>1, <2>1, SpanFacts
    <2> QED BY <1>3, <2>2, ReplyKeeps
  <1> DEFINE m == IF Asked("Find") THEN i + S.innerLen ELSE loop.minPreStart
  <1>4. CASE TryNext(i, NoSpan, m)
    <2>1. EndOf(i) = i /\ ByLiteral /\ ~OfSuffixes
      BY DEF EndOf, Is, ByLiteral, OfSuffixes
    <2>2. NoSpan \in SpanOf(H)
      BY <1>1, SpanFacts
    <2> HIDE DEF m
    <2> QED BY <1>4, <2>1, <2>2, TryNextKeeps
  <1> QED BY <1>3, <1>4 DEF VerifySuffix

(* A request that is answered without a scan.                              *)
LEMMA AnsweredKeeps ==
  ASSUME IInv,
         \/ AnswerDirectly \/ OutOfRange \/ NoCandidate \/ LineMatch \/ UniversalMatch
         \/ AvoidReread \/ ForwardOnly
  PROVE  IInv'
  <1>1. step = "looking"
    BY DEF AnswerDirectly, OutOfRange, NoCandidate, LineMatch, UniversalMatch, AvoidReread,
           ForwardOnly, InRange
  <1>2. /\ ~Scanning /\ DfaOK /\ RequestOK /\ H \in Seq(Byte) /\ Len(H) \in Nat
        /\ req.at \in 0..Len(H) /\ MatchFrom(req.at) \in SpanOf(H)
        /\ loop.searchStart \in Nat /\ loop.best \in SpanOf(H) /\ NoSpan \in SpanOf(H)
    BY <1>1, Looking
  <1>3. ASSUME AskPikeVM PROVE IInv'
    BY <1>2, <1>3, ReplyKeeps DEF AskPikeVM
  <1>4. ASSUME Reply(NoSpan) PROVE IInv'
    BY <1>2, <1>4, ReplyKeeps
  <1>5. CASE AnswerDirectly
    <2> DEFINE span == Direct(dfa.pattern, S, req.op, H, req.at)
    <2>1. Is("Direct") /\ Reply(span)
      BY <1>5 DEF AnswerDirectly
    <2>2. req \in Requests[dfa.pattern]
      BY <1>1, <1>2 DEF RequestOK
    <2>3. span \in SpanOf(H)
      BY <1>2, <2>1, <2>2, RequestFacts DEF H
    <2> HIDE DEF span
    <2> QED BY <1>2, <2>1, <2>3, ReplyKeeps
  <1>6. CASE OutOfRange
    BY <1>3, <1>4, <1>6 DEF OutOfRange
  <1>7. CASE NoCandidate
    <2>1. AskPikeVM \/ Reply(loop.best)
      BY <1>7 DEF NoCandidate
    <2> QED BY <1>2, <1>3, <2>1, ReplyKeeps
  <1>8. CASE LineMatch
    <2> DEFINE place == IF Asked("Find") THEN LastOf(Ahead) ELSE LastOnLine(Minimum(Ahead))
    <2>1. ByLiteral /\ Ahead # {}
      BY <1>8 DEF LineMatch
    <2>2. PICK last \in {place} : Reply(<<LineStartBefore(last), EndOf(last)>>)
      BY <1>8 DEF LineMatch
    <2>3. last = place
      BY <2>2
    <2>4. <<LineStartBefore(last), EndOf(last)>> \in SpanOf(H)
      BY <1>2, <2>1, <2>3, LineFacts
    <2> QED BY <1>2, <2>2, <2>4, ReplyKeeps
  <1>9. CASE UniversalMatch
    <2>1. Reply(<<req.at, Len(H)>>)
      BY <1>9 DEF UniversalMatch
    <2>2. Len(H) \in 0..Len(H)
      BY <1>2
    <2>3. <<req.at, Len(H)>> \in SpanOf(H)
      BY <1>2, <2>2, SpanFacts
    <2> QED BY <1>2, <2>1, <2>3, ReplyKeeps
  <1>10. CASE AvoidReread
    BY <1>3, <1>10 DEF AvoidReread
  <1>11. CASE ForwardOnly
    <2>1. Reply(IF ForwardEnd = -1 THEN NoSpan ELSE <<req.at, ForwardEnd>>)
      BY <1>11 DEF ForwardOnly
    <2>2. ForwardEnd \in -1..Len(H)
      BY <1>2, SpanFacts DEF ForwardEnd
    <2>3. CASE ForwardEnd = -1
      BY <1>4, <2>1, <2>3
    <2>4. CASE ForwardEnd # -1
      <3>1. ForwardEnd \in 0..Len(H)
        BY <1>2, <2>2, <2>4
      <3>2. <<req.at, ForwardEnd>> \in SpanOf(H)
        BY <1>2, <3>1, SpanFacts
      <3> QED BY <1>2, <2>1, <2>4, <3>2, ReplyKeeps
    <2> QED BY <2>3, <2>4
  <1> QED BY <1>5, <1>6, <1>7, <1>8, <1>9, <1>10, <1>11

(* A scan that the loop begins.                                            *)
LEMMA ScannedKeeps ==
  ASSUME IInv, ScanFromEnd \/ ScanFromMatch \/ ScanFromCandidate
  PROVE  IInv'
  <1>1. step = "looking"
    BY DEF ScanFromEnd, ScanFromMatch, ScanFromCandidate, InRange
  <1>2. /\ DfaOK /\ H \in Seq(Byte) /\ Len(H) \in Nat /\ req.at \in 0..Len(H)
        /\ MatchFrom(req.at) \in SpanOf(H) /\ loop.searchStart \in Nat
    BY <1>1, Looking
  <1>3. ASSUME Is("Anchored") \/ Is("Bidirectional"), NEW end PROVE ScansFor(-1, end)
    BY <1>3 DEF Is, ScansFor, ByLiteral
  <1>4. CASE ScanFromEnd
    <2>1. PICK op : ScanBack(op, 0, Len(H), -1)
      BY <1>4 DEF ScanFromEnd
    <2>2. ScansFor(-1, Len(H)) /\ 0 \in 0..Len(H) /\ Len(H) \in 0..Len(H)
      BY <1>2, <1>3, <1>4 DEF ScanFromEnd
    <2> QED BY <1>1, <2>1, <2>2, ScanBackKeeps
  <1>5. CASE ScanFromMatch
    <2>1. ScanBack("SearchReverse", req.at, ForwardEnd, -1) /\ ForwardEnd # -1
      BY <1>5 DEF ScanFromMatch
    <2>2. ForwardEnd \in 0..Len(H)
      <3>1. ForwardEnd \in -1..Len(H)
        BY <1>2, SpanFacts DEF ForwardEnd
      <3> QED BY <1>2, <2>1, <3>1
    <2>3. ScansFor(-1, ForwardEnd)
      BY <1>3, <1>5 DEF ScanFromMatch
    <2> QED BY <1>1, <1>2, <2>1, <2>2, <2>3, ScanBackKeeps
  <1>6. CASE ScanFromCandidate
    <2>1. PICK i \in Ahead : \E op : ScanBack(op, req.at, EndOf(i), i)
      BY <1>6 DEF ScanFromCandidate
    <2>2. PICK op : ScanBack(op, req.at, EndOf(i), i)
      BY <2>1
    <2>3. i \in 0..Len(H) /\ EndOf(i) \in i..Len(H) /\ ScansFor(i, EndOf(i))
      BY <1>2, <1>6, CandidateFacts DEF ScanFromCandidate, Ahead
    <2>4. EndOf(i) \in 0..Len(H)
      BY <1>2, <2>3
    <2> QED BY <1>1, <1>2, <2>2, <2>3, <2>4, ScanBackKeeps
  <1> QED BY <1>4, <1>5, <1>6
(* What the scan says of its candidate.                                    *)
LEMMA JudgedKeeps ==
  ASSUME IInv,
         \/ Reject \/ CutShort \/ AcceptSpan \/ AcceptForNow \/ AcceptForward \/ AcceptInner
  PROVE  IInv'
  <1> DEFINE i == loop.candidate
             found == answer.start
  <1>1. Judging
    BY DEF Reject, CutShort, AcceptSpan, AcceptForNow, AcceptForward, AcceptInner
  <1>2. /\ ~Scanning /\ step # "idle" /\ DfaOK /\ H \in Seq(Byte) /\ Len(H) \in Nat
        /\ MatchFrom(req.at) \in SpanOf(H) /\ loop.best \in SpanOf(H) /\ NoSpan \in SpanOf(H)
        /\ found >= 0 => found \in 0..Len(H)
        /\ call.end \in 0..Len(H) /\ ScansFor(i, call.end)
    BY <1>1, Judged
  <1> HIDE DEF found
  <1>3. /\ ByLiteral => i \in 0..Len(H) /\ EndOf(i) \in 0..Len(H) /\ EndOf(i) >= call.end
        /\ Is("Inner") => i + S.innerLen <= Len(H)
    BY <1>2 DEF ScansFor
  <1> HIDE DEF i
  <1>4. ASSUME ByLiteral, NEW best \in SpanOf(H), NEW m, TryNext(i, best, m) PROVE IInv'
    BY <1>2, <1>3, <1>4, TryNextKeeps
  <1>5. CASE Reject
    <2>1. CASE ByLiteral
      BY <1>2, <1>4, <1>5, <2>1 DEF Reject, i
    <2>2. CASE ~ByLiteral
      BY <1>2, <1>5, <2>2, ReplyKeeps DEF Reject
    <2> QED BY <2>1, <2>2
  <1>6. CASE CutShort
    <2>1. Reply(IF MatchFrom(req.at) # NoSpan THEN MatchFrom(req.at) ELSE loop.best)
      BY <1>6 DEF CutShort
    <2>2. (IF MatchFrom(req.at) # NoSpan THEN MatchFrom(req.at) ELSE loop.best) \in SpanOf(H)
      BY <1>2
    <2> QED BY <1>2, <2>1, <2>2, ReplyKeeps
  <1>7. CASE AcceptSpan
    <2>1. Reply(<<found, call.end>>) /\ found >= 0
      BY <1>7 DEF AcceptSpan, found
    <2>2. <<found, call.end>> \in SpanOf(H)
      BY <1>2, <2>1, SpanFacts
    <2> QED BY <1>2, <2>1, <2>2, ReplyKeeps
  <1>8. CASE AcceptForNow
    <2>1. TryNext(i, <<found, call.end>>, 0) /\ found >= 0 /\ ByLiteral
      BY <1>8 DEF AcceptForNow, found, i, ByLiteral, Is
    <2>2. <<found, call.end>> \in SpanOf(H)
      BY <1>2, <2>1, SpanFacts
    <2> QED BY <1>4, <2>1, <2>2
  <1>9. CASE AcceptForward
    <2>1. VerifyForward(found) /\ found \in 0..Len(H) /\ ByLiteral
      BY <1>2, <1>9 DEF AcceptForward, found, ByLiteral, Is
    <2>2. CASE TryNext(i, NoSpan, 0)
      BY <1>2, <1>4, <2>1, <2>2
    <2> DEFINE span == MatchFrom(found)
    <2>3. CASE Reply(IF span = NoSpan THEN NoSpan ELSE <<found, span[2]>>)
      <3>1. RequestOK
        BY DEF IInv
      <3>2. span \in SpanOf(H)
        BY <1>2, <2>1, <3>1, MatchFromType
      <3> HIDE DEF span
      <3>3. span # NoSpan => span[2] \in 0..Len(H)
        BY <1>2, <3>2, SpanFacts
      <3>4. span # NoSpan => <<found, span[2]>> \in SpanOf(H)
        BY <1>2, <2>1, <3>3, SpanFacts
      <3>5. (IF span = NoSpan THEN NoSpan ELSE <<found, span[2]>>) \in SpanOf(H)
        BY <1>2, <3>4
      <3> QED BY <1>2, <2>3, <3>5, ReplyKeeps
    <2> QED BY <2>1, <2>2, <2>3 DEF VerifyForward, i
  <1>10. CASE AcceptInner
    <2>1. VerifySuffix(found, i) /\ found \in 0..Len(H) /\ Is("Inner") /\ ByLiteral
      BY <1>2, <1>10 DEF AcceptInner, found, i, ByLiteral, Is
    <2> QED BY <1>2, <1>3, <2>1, VerifySuffixKeeps
  <1> QED BY <1>5, <1>6, <1>7, <1>8, <1>9, <1>10

(* A candidate at the start of the haystack.                               *)
LEMMA StartsAtZeroKeeps ==
  ASSUME IInv, StartsAtZero
  PROVE  IInv'
  <1>1. /\ step = "looking" /\ step # "idle" /\ 0 \in Ahead /\ Is("Inner") /\ ByLiteral
        /\ VerifySuffix(0, 0) \/ TryNext(0, NoSpan, 0)
    BY DEF StartsAtZero, InRange, InnerAtZero
  <1>2. /\ ~Scanning /\ DfaOK /\ H \in Seq(Byte) /\ Len(H) \in Nat
        /\ loop.searchStart \in Nat /\ NoSpan \in SpanOf(H)
    BY <1>1, Looking
  <1>3. 0 \in 0..Len(H) /\ EndOf(0) \in 0..Len(H) /\ 0 + S.innerLen <= Len(H)
    BY <1>1, <1>2, CandidateFacts DEF Ahead, ScansFor
  <1>4. ~OfSuffixes
    BY <1>1 DEF OfSuffixes, Is
  <1>5. CASE VerifySuffix(0, 0)
    BY <1>1, <1>2, <1>3, <1>5, VerifySuffixKeeps
  <1>6. CASE TryNext(0, NoSpan, 0)
    BY <1>1, <1>2, <1>3, <1>4, <1>6, TryNextKeeps
  <1> QED BY <1>1, <1>5, <1>6

(* The initial states.                                                     *)
LEMMA Initially ==
  ASSUME Init
  PROVE  IInv
  <1>1. PICK p \in Pattern : \E cfg \in Config[p] : dfa = NewSearcher(p, cfg)
    BY DEF Init
  <1>2. PICK cfg \in Config[p] : dfa = NewSearcher(p, cfg)
    BY <1>1
  <1>3. DfaOK
    <2>1. dfa.pattern = p /\ N = Automaton[p] /\ config = cfg /\ dfa.searcher = Searcher[p]
      BY <1>2 DEF NewSearcher, N, config
    <2> QED BY <2>1 DEF DfaOK, Built
  <1>4. H = <<>> /\ W = <<>> /\ req.at = 0 /\ step = "idle" /\ reply = NoSpan /\ loop = NewLoop(0)
        /\ call.minStart = 0 /\ call.start = 0 /\ call.end = 0 /\ answer.start = -1 /\ pc = "idle"
    BY DEF Init, H, W, NoCall, NoAnswer
  <1>5. <<>> \in Seq(Byte) /\ Len(<<>>) = 0 /\ NoSpan \in SpanOf(<<>>)
    <2>1. <<>> \in Seq(Byte) /\ Len(<<>>) = 0
      OBVIOUS
    <2> QED BY <2>1, SpanFacts
  <1>6. RequestOK /\ LoopOK /\ ScanOK
    BY <1>4, <1>5 DEF RequestOK, LoopOK, NewLoop, ScanOK, Scanning
  <1>7. CacheOK
    <2>1. Sound(N, config, NewCache)
      BY <1>3, NewCacheSound DEF DfaOK
    <2>2. Len(NewCache.flatTrans) \in Nat
      BY DEF NewCache
    <2> QED BY <2>1, <2>2, SpecialTypes DEF Init, CacheOK
  <1>8. CandidateOK /\ PassedOK
    BY <1>4 DEF CandidateOK, PassedOK
  <1> QED BY <1>3, <1>6, <1>7, <1>8 DEF IInv

(* The inductive invariant holds.                                          *)
LEMMA Invariant == Spec => []IInv
  <1>1. IInv /\ [Next]_vars => IInv'
    <2> SUFFICES ASSUME IInv, [Next]_vars PROVE IInv'
      OBVIOUS
    <2>1. CASE Ask
      BY <2>1, AskKeeps
    <2>2. CASE \/ AnswerDirectly \/ OutOfRange \/ NoCandidate \/ LineMatch \/ UniversalMatch
               \/ AvoidReread \/ ForwardOnly
      BY <2>2, AnsweredKeeps
    <2>3. CASE ScanFromEnd \/ ScanFromMatch \/ ScanFromCandidate
      BY <2>3, ScannedKeeps
    <2>4. CASE StartsAtZero
      BY <2>4, StartsAtZeroKeeps
    <2>5. CASE ScanStep /\ UNCHANGED request
      BY <2>5, ScanStepKeeps
    <2>6. CASE \/ Reject \/ CutShort \/ AcceptSpan \/ AcceptForNow \/ AcceptForward
               \/ AcceptInner
      BY <2>6, JudgedKeeps
    <2>7. CASE UNCHANGED vars
      <3>1. /\ dfa' = dfa /\ cache' = cache /\ call' = call /\ pc' = pc /\ pos' = pos /\ sid' = sid
            /\ lastMatch' = lastMatch /\ answer' = answer /\ UNCHANGED request
        BY <2>7 DEF vars, scan
      <3>2. ScanOK' /\ CacheOK'
        BY <3>1 DEF request, IInv, ScanOK, CacheOK, N, config, W, Scanning
      <3> QED BY <3>1, <3>2, ScanKeeps
    <2> QED BY <2>1, <2>2, <2>3, <2>4, <2>5, <2>6, <2>7 DEF Next, Answer
  <1> QED BY <1>1, Initially, PTL DEF Spec

-----------------------------------------------------------------------------
(* The variables are of their types in every state: scans stay inside      *)
(* their regions, the loop inside the haystack, and every answer is a      *)
(* place in it.                                                            *)
THEOREM TypeCorrect == Spec => []TypeOK
  <1>1. ASSUME IInv PROVE TypeOK
    <2>1. DfaOK /\ RequestOK /\ LoopOK /\ ScanOK /\ CacheOK
      BY <1>1 DEF IInv
    <2>2. CacheTypeOK
      BY <2>1, SoundTypes DEF CacheOK, DfaOK
    <2>3. sid \in StateIDs
      BY <2>1 DEF CacheOK, StateIDs, IDs
    <2>4. /\ step \in {"idle", "looking", "scanning"} /\ reply \in SpanOf(H)
          /\ loop.searchStart \in 0..(Len(H) + 1) /\ loop.minStart \in 0..Len(H)
      BY <2>1 DEF RequestOK, LoopOK
    <2>5. /\ pc \in {"idle", "fast", "tail"} /\ answer.start \in -2..Len(call.hay)
          /\ Scanning => step = "scanning" /\ pos \in call.start..call.end /\ lastMatch \in -1..call.end
      BY <2>1 DEF ScanOK, W
    <2> QED BY <2>2, <2>3, <2>4, <2>5 DEF TypeOK
  <1> QED BY <1>1, Invariant, PTL

(* The parts of the cache of a reverse DFA agree in every state, however   *)
(* often it was cleared in the middle of a scan.                           *)
THEOREM CacheStaysInAgreement == Spec => []CacheAgrees
  <1>1. ASSUME IInv PROVE CacheAgrees
    BY <1>1, SoundAgrees DEF IInv, CacheOK, DfaOK
  <1> QED BY <1>1, Invariant, PTL

(* Nor does the cache ever outgrow its capacity by more than one state,    *)
(* the row before it and the exit bytes found later.                       *)
THEOREM CacheStaysBounded == Spec => []MemoryBounded
  <1>1. ASSUME IInv PROVE MemoryBounded
    BY <1>1, BoundedMemory DEF IInv, CacheOK, DfaOK
  <1> QED BY <1>1, Invariant, PTL

-----------------------------------------------------------------------------
(* What a step of the loop may begin.                                      *)

(* Only the scan of a new candidate makes the loop scan.                   *)
LEMMA NewScanFacts ==
  ASSUME Next, step = "looking", step' = "scanning"
  PROVE  call'.minStart = loop.minStart
  <1>1. ASSUME NEW span PROVE ~Reply(span)
    BY DEF Reply
  <1>2. ASSUME NEW i, NEW best, NEW m PROVE ~TryNext(i, best, m)
    BY DEF TryNext
  <1>3. ~AskPikeVM /\ ~Judging /\ step # "idle"
    BY <1>1 DEF AskPikeVM, Judging
  <1>4. ASSUME NEW start, NEW i PROVE ~VerifySuffix(start, i)
    BY <1>1, <1>2 DEF VerifySuffix
  <1>5. ~AnswerDirectly /\ ~OutOfRange /\ ~NoCandidate /\ ~UniversalMatch /\ ~AvoidReread
    BY <1>1, <1>3 DEF AnswerDirectly, OutOfRange, NoCandidate, UniversalMatch, AvoidReread
  <1>6. ~LineMatch /\ ~ForwardOnly /\ ~StartsAtZero
    BY <1>1, <1>2, <1>4 DEF LineMatch, ForwardOnly, StartsAtZero
  <1>7. ~Ask /\ ~(ScanStep /\ UNCHANGED request)
    BY <1>3 DEF Ask, request
  <1>8. ~Reject /\ ~CutShort /\ ~AcceptSpan /\ ~AcceptForNow /\ ~AcceptForward /\ ~AcceptInner
    BY <1>3 DEF Reject, CutShort, AcceptSpan, AcceptForNow, AcceptForward, AcceptInner
  <1>9. ScanFromEnd \/ ScanFromMatch \/ ScanFromCandidate
    BY <1>5, <1>6, <1>7, <1>8 DEF Next, Answer
  <1>10. \E op, start, end, i : ScanBack(op, start, end, i)
    BY <1>9 DEF ScanFromEnd, ScanFromMatch, ScanFromCandidate
  <1> QED BY <1>10 DEF ScanBack, BeginScan

(* The candidates of one request cost one pass: no limited scan of a       *)
(* suffix searcher may read a byte that an earlier one was allowed to.     *)
THEOREM EachByteOnce == Spec => NoByteTwice
  <1> DEFINE Once == NewScan /\ call'.op = "SearchReverseLimited" /\ S.kind \in {"Suffix", "SuffixSet"}
                     => LowerBoundOf(call') >= call.end
  <1>1. IInv /\ IInv' /\ [Next]_vars => [Once]_vars
    <2> SUFFICES ASSUME IInv, IInv', Next, NewScan, S.kind \in {"Suffix", "SuffixSet"},
                        call'.op = "SearchReverseLimited"
                 PROVE  LowerBoundOf(call') >= call.end
      OBVIOUS
    <2>1. step = "looking" /\ step' = "scanning" /\ call # NoCall
      BY DEF NewScan
    <2>2. call'.minStart = loop.minStart
      BY <2>1, NewScanFacts
    <2>3. loop.minStart >= call.end
      BY <2>1 DEF IInv, PassedOK, OfSuffixes
    <2>4. loop.minStart \in Nat /\ call.end \in Nat
      <3>1. loop.minStart \in Nat
        BY <2>1 DEF IInv, LoopOK
      <3>2. call.end \in Nat
        BY <2>1 DEF IInv, ScanOK
      <3> QED BY <3>1, <3>2
    <2>5. call'.start \in Nat
      BY DEF IInv, ScanOK
    <2> DEFINE start == call'.start
               end == call.end
               min == loop.minStart
    <2>6. LowerBoundOf(call') = IF min > start THEN min ELSE start
      BY <2>2 DEF LowerBoundOf
    <2>7. min \in Nat /\ start \in Nat /\ end \in Nat /\ min >= end
      BY <2>3, <2>4, <2>5
    <2> HIDE DEF start, end, min
    <2>8. (IF min > start THEN min ELSE start) >= end
      BY <2>7
    <2> QED BY <2>6, <2>8 DEF end
  <1>2. Spec => [][Next]_vars
    BY DEF Spec
  <1> QED BY <1>1, <1>2, Invariant, PTL DEF NoByteTwice
===============================================================================
