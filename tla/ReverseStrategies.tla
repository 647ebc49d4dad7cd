-------------------------- MODULE ReverseStrategies --------------------------
(***************************************************************************)
(* meta/reverse_*.go and the bidirectional search of meta/find_indices.go: *)
(* the searchers that know where a match may end and scan back from there  *)
(* for its start.  Where a match may end is the end of the haystack, the   *)
(* end a forward DFA found, or an occurrence of a literal of the pattern.  *)
(* Their loops over such candidates guard against reading the same bytes   *)
(* again and again, and leave the request to a PikeVM when they would.     *)
(***************************************************************************)
EXTENDS ReverseScan

CONSTANTS
  Searcher,    \* Searcher[p]: the searcher that was built for pattern p
  Leftmost,    \* Leftmost[p][w][i]: the first match in w from i on
  SuffixEnd,   \* SuffixEnd[p][w][i]: the end of the first match, in the rest
               \* of w from i on, of what follows the prefix of p
  Spans,       \* Spans[p][w]: all matches in w of what is scanned for, by start and end
  Direct(_, _, _, _, _), \* Direct(p, s, op, w, i): what a searcher s without a DFA answers
  Requests     \* Requests[p]: what is asked of the searcher, one after the other

(* No literal is shorter than what a searcher takes all of its literals to *)
(* end with, or to begin with: their common suffix, their common prefix.   *)
ASSUME SearcherAssumption ==
  \A p \in Pattern :
    LET s == Searcher[p]
        NoneShorterThan(n) == \A k \in DOMAIN s.literals : n <= Len(s.literals[k])
    IN  /\ s.kind \in {"Anchored", "Suffix", "SuffixSet", "Inner", "Bidirectional", "Direct"}
        /\ s.kind \in {"Suffix", "SuffixSet", "Inner"} => s.literals \in Seq(Seq(Byte))
        /\ s.kind = "Suffix" => s.suffix \in Seq(Byte) /\ NoneShorterThan(Len(s.suffix))
        /\ s.kind = "Inner" => s.innerLen \in Nat /\ NoneShorterThan(s.innerLen)

VARIABLES
  req,         \* the latest request: op, hay and at
  step,        \* "idle", "looking" for a candidate, "scanning" back from one
  loop,        \* the loop over candidates
  reply        \* the span of the match, NoSpan for none

request == <<req, step, loop, reply>>
vars == <<dfa, cache, scan, request>>

NoSpan == <<-1, -1>>
SpanOf(w) == {NoSpan} \cup ((0..Len(w)) \X (0..Len(w)))

(* A request is for a position in its haystack, and the engines that a     *)
(* searcher leaves it to answer with a place in it.                        *)
ASSUME RequestAssumption ==
  \A p \in Pattern : \A r \in Requests[p] :
    /\ r = [op |-> r.op, hay |-> r.hay, at |-> r.at]
    /\ r.op \in {"Find", "IsMatch", "FindIndicesAt"}
    /\ r.hay \in Seq(Byte) /\ r.at \in 0..Len(r.hay)
    /\ \A i \in 0..Len(r.hay) :
         /\ Leftmost[p][r.hay][i] \in SpanOf(r.hay)
         /\ Searcher[p].kind = "Inner" => SuffixEnd[p][r.hay][i] \in -1..Len(r.hay)
    /\ Searcher[p].kind = "Direct" =>
         Direct(p, Searcher[p], r.op, r.hay, r.at) \in SpanOf(r.hay)

(* The searcher of pattern p, and the reverse DFA it scans with.           *)
NewSearcher(p, cfg) ==
  [pattern |-> p, nfa |-> Automaton[p], config |-> cfg, searcher |-> Searcher[p]]
NewLoop(at) ==
  [candidate |-> -1, searchStart |-> at, minStart |-> at, minPreStart |-> 0, best |-> NoSpan]

S == dfa.searcher
H == req.hay
Is(kind) == S.kind = kind
Asked(op) == req.op = op
MatchFrom(i) == Leftmost[dfa.pattern][H][i]

(* A pattern such as .*X.*: its Find only asks IsMatch, too.               *)
Universal == Is("Inner") /\ S.universalPrefix /\ S.universalSuffix
OnlyWhether == Asked("IsMatch") \/ (Universal /\ Asked("Find"))

(* IsMatch only says whether: <<0, 0>> stands for true.                    *)
Reply(span) ==
  /\ reply' = CASE span = NoSpan -> NoSpan
                [] span # NoSpan /\ Asked("IsMatch") -> <<0, 0>>
                [] span # NoSpan /\ OnlyWhether /\ ~Asked("IsMatch") -> <<0, Len(H)>>
                [] OTHER -> span
  /\ step' = "idle"
  /\ loop' = NewLoop(0)
  /\ UNCHANGED <<req, dfa, cache, scan>>

AskPikeVM == Reply(MatchFrom(req.at))

-----------------------------------------------------------------------------
(* Candidates: occurrences of the literals of the prefilter; Find of a     *)
(* suffix searcher looks for their common suffix instead.                  *)
ByLiteral == S.kind \in {"Suffix", "SuffixSet", "Inner"}
Needles == IF Is("Suffix") /\ Asked("Find") THEN {S.suffix} ELSE ToSet(S.literals)
Candidates(from) == {i \in from..Len(H) : \E l \in Needles : OccursAt(l, H, i)}
Ahead == Candidates(loop.searchStart)

(* getSuffixLen: of the literals that occur at i, the first one counts.    *)
GetSuffixLen(i) == Len(S.literals[Minimum({k \in DOMAIN S.literals : OccursAt(S.literals[k], H, i)})])

(* Where the scan from candidate i begins: behind a suffix, and in front   *)
(* of an inner literal.                                                    *)
EndOf(i) == CASE Is("Suffix") -> i + Len(S.suffix)
              [] Is("SuffixSet") -> i + GetSuffixLen(i)
              [] OTHER -> i

InRange == step = "looking" /\ req.at < Len(H)

OutOfRange ==
  /\ step = "looking"
  /\ req.at >= Len(H) /\ S.kind \notin {"Bidirectional", "Direct"}
  /\ IF Is("Anchored") THEN AskPikeVM ELSE Reply(NoSpan)

NoCandidate ==
  /\ InRange /\ ByLiteral
  /\ Ahead = {}
  /\ IF Is("Inner") /\ ~OnlyWhether THEN AskPikeVM ELSE Reply(loop.best)

(* .* in front of the suffix: the match is the line of a candidate up to   *)
(* the last suffix.  The candidate is the first one, but for Find the last *)
(* one of the haystack.                                                    *)
LineBreak == 10
LineStartBefore(i) ==
  IF \E j \in (req.at + 1)..i : H[j] = LineBreak
  THEN CHOOSE j \in (req.at + 1)..i : H[j] = LineBreak /\ \A k \in (j + 1)..i : H[k] # LineBreak
  ELSE req.at
LineEndAfter(i) == Minimum({Len(H)} \cup {j \in i..(Len(H) - 1) : H[j + 1] = LineBreak})

LastOf(candidates) == CHOOSE i \in candidates : \A j \in candidates : j <= i
SuffixesFrom(from) == IF Is("Suffix") THEN {i \in from..Len(H) : OccursAt(S.suffix, H, i)}
                                      ELSE Candidates(from)
LastOnLine(first) ==
  LastOf({first} \cup {i \in SuffixesFrom(first) : EndOf(i) <= LineEndAfter(first)})

LineMatch ==
  /\ InRange /\ ByLiteral
  /\ S.matchStartZero /\ ~Asked("IsMatch") /\ Ahead # {}
  /\ \E last \in {IF Asked("Find") THEN LastOf(Ahead) ELSE LastOnLine(Minimum(Ahead))} :
       Reply(<<LineStartBefore(last), EndOf(last)>>)

(* .* on both sides of an inner literal.                                   *)
UniversalMatch ==
  /\ InRange /\ Universal
  /\ Asked("FindIndicesAt") /\ Ahead # {}
  /\ Reply(<<req.at, Len(H)>>)

(* A searcher of a special form of patterns, or the PikeVM.                *)
AnswerDirectly ==
  /\ step = "looking" /\ Is("Direct")
  /\ Reply(Direct(dfa.pattern, S, req.op, H, req.at))

-----------------------------------------------------------------------------
(* Scanning back.                                                          *)
ScanBack(op, start, end, candidate) ==
  /\ BeginScan([op |-> op, hay |-> H, start |-> start, end |-> end, minStart |-> loop.minStart])
  /\ step' = "scanning"
  /\ loop' = [loop EXCEPT !.candidate = candidate]
  /\ UNCHANGED <<req, reply>>

ScanFromEnd ==
  /\ InRange /\ Is("Anchored")
  /\ ScanBack(IF Asked("IsMatch") THEN "IsMatchReverse" ELSE "SearchReverse", 0, Len(H), -1)

(* The forward DFA finds where the first match ends; if that is not where  *)
(* the search begins, the reverse DFA finds where it starts.               *)
ForwardEnd == MatchFrom(req.at)[2]
ForwardOnly ==
  /\ step = "looking" /\ Is("Bidirectional")
  /\ ForwardEnd \in {-1, req.at} \/ S.alwaysAnchored
  /\ Reply(IF ForwardEnd = -1 THEN NoSpan ELSE <<req.at, ForwardEnd>>)
ScanFromMatch ==
  /\ step = "looking" /\ Is("Bidirectional")
  /\ ForwardEnd \notin {-1, req.at} /\ ~S.alwaysAnchored
  /\ ScanBack("SearchReverse", req.at, ForwardEnd, -1)

(* Find of an inner searcher does not look at suffixes of the same bytes   *)
(* twice.                                                                  *)
WouldReread(i) == Is("Inner") /\ Asked("Find") /\ ~Universal /\ i < loop.minPreStart
AvoidReread ==
  /\ InRange /\ ByLiteral
  /\ Ahead # {} /\ WouldReread(Minimum(Ahead))
  /\ AskPikeVM

(* IsMatch of an inner searcher scans nothing in front of position 0.      *)
InnerAtZero(i) == Is("Inner") /\ OnlyWhether /\ i = 0

SettledOnLine == S.matchStartZero /\ ~Asked("IsMatch")
SettledAtOnce == Universal /\ Asked("FindIndicesAt")
ScanFromCandidate ==
  /\ InRange /\ ByLiteral
  /\ ~SettledOnLine /\ ~SettledAtOnce
  /\ \E i \in Ahead :
       /\ i = Minimum(Ahead) /\ ~WouldReread(i) /\ ~InnerAtZero(i)
       /\ ScanBack(IF Is("Suffix") /\ Asked("Find") THEN "SearchReverse" ELSE "SearchReverseLimited",
                   req.at, EndOf(i), i)

-----------------------------------------------------------------------------
(* What a scan says of its candidate.                                      *)
Judging == step = "scanning" /\ ~Scanning

(* Mutants: the loop asks for the same candidate again; the guard stays.   *)
SearchAgain(i) == i
SearchPast(i) == i + 1
KeptMinStart(i) == loop.minStart

(* The anti-quadratic guard: nothing in front of it is scanned again.      *)
AtLeast(i) == IF i > loop.minStart THEN i ELSE loop.minStart
NextMinStart(i) ==
  CASE Is("Suffix") -> EndOf(i)
    [] Is("SuffixSet") -> AtLeast(EndOf(i))
    [] Is("Inner") /\ OnlyWhether -> AtLeast(i + S.innerLen)
    [] OTHER -> loop.minStart

TryNext(i, best, minPreStart) ==
  /\ loop' = [candidate |-> -1, searchStart |-> SearchPast(i), minStart |-> NextMinStart(i),
              minPreStart |-> minPreStart, best |-> best]
  /\ step' = "looking"
  /\ UNCHANGED <<req, reply, dfa, cache, scan>>

Reject ==
  /\ Judging
  /\ answer.start = -1
  /\ IF ByLiteral THEN TryNext(loop.candidate, loop.best, loop.minPreStart) ELSE Reply(NoSpan)

CutShort ==
  /\ Judging
  /\ answer.start = Quadratic
  /\ Reply(IF MatchFrom(req.at) # NoSpan THEN MatchFrom(req.at) ELSE loop.best)

(* The end of a match whose start was found.                               *)
AcceptSpan ==
  /\ Judging
  /\ answer.start >= 0
  /\ \/ S.kind \in {"Anchored", "Bidirectional"}
     \/ Is("Suffix") /\ Asked("IsMatch")
     \/ Is("SuffixSet") /\ ~Asked("Find")
  /\ Reply(<<answer.start, call.end>>)

(* Find of a set goes on to the last candidate.                            *)
AcceptForNow ==
  /\ Judging
  /\ answer.start >= 0
  /\ Is("SuffixSet") /\ Asked("Find")
  /\ TryNext(loop.candidate, <<answer.start, call.end>>, 0)

(* A suffix searcher has the forward DFA look for the end.                 *)
VerifyForward(start) ==
  IF MatchFrom(start) = NoSpan /\ Asked("Find")
  THEN TryNext(loop.candidate, NoSpan, 0)
  ELSE Reply(IF MatchFrom(start) = NoSpan THEN NoSpan ELSE <<start, MatchFrom(start)[2]>>)
AcceptForward ==
  /\ Judging
  /\ answer.start >= 0
  /\ Is("Suffix") /\ ~Asked("IsMatch")
  /\ VerifyForward(answer.start)

(* An inner searcher searches forward from the literal.                    *)
VerifySuffix(start, i) ==
  IF SuffixEnd[dfa.pattern][H][i] >= 0
  THEN Reply(<<start, SuffixEnd[dfa.pattern][H][i]>>)
  ELSE TryNext(i, NoSpan, IF Asked("Find") THEN i + S.innerLen ELSE loop.minPreStart)
AcceptInner ==
  /\ Judging
  /\ answer.start >= 0
  /\ Is("Inner")
  /\ VerifySuffix(answer.start, loop.candidate)

StartsAtZero ==
  /\ InRange /\ ByLiteral
  /\ 0 \in Ahead /\ InnerAtZero(0)
  /\ IF S.universalPrefix \/ S.startAnchored THEN VerifySuffix(0, 0) ELSE TryNext(0, NoSpan, 0)

-----------------------------------------------------------------------------
Init ==
  /\ \E p \in Pattern : \E cfg \in Config[p] : dfa = NewSearcher(p, cfg)
  /\ cache = NewCache
  /\ call = NoCall /\ answer = NoAnswer
  /\ pc = "idle" /\ pos = 0 /\ sid = InvalidState /\ lastMatch = -1
  /\ req = [op |-> "Find", hay |-> <<>>, at |-> 0]
  /\ step = "idle" /\ loop = NewLoop(0) /\ reply = NoSpan

Ask ==
  /\ step = "idle"
  /\ req' \in Requests[dfa.pattern]
  /\ step' = "looking"
  /\ loop' = NewLoop(req'.at)
  /\ reply' = NoSpan
  /\ call' = NoCall /\ answer' = NoAnswer
  /\ UNCHANGED <<dfa, cache, pc, pos, sid, lastMatch>>

Answer ==
  \/ AnswerDirectly \/ OutOfRange \/ NoCandidate \/ LineMatch \/ UniversalMatch \/ AvoidReread
  \/ ScanFromEnd \/ ForwardOnly \/ ScanFromMatch \/ ScanFromCandidate \/ StartsAtZero
  \/ ScanStep /\ UNCHANGED request
  \/ Reject \/ CutShort \/ AcceptSpan \/ AcceptForNow \/ AcceptForward \/ AcceptInner

Next == Ask \/ Answer

Busy == step # "idle"
(* A search that has begun is not stopped: it takes its next step.         *)
Fairness == <>[]Busy => []<><<Busy>>_vars
Spec == Init /\ [][Next]_vars /\ Fairness

-----------------------------------------------------------------------------
(* The searcher, its cache and its loop are of their types.                *)
TypeOK ==
  /\ CacheTypeOK
  /\ step \in {"idle", "looking", "scanning"} /\ pc \in {"idle", "fast", "tail"}
  /\ Scanning => /\ step = "scanning"
                 /\ pos \in call.start..call.end /\ sid \in StateIDs
                 /\ lastMatch \in -1..call.end
  /\ answer.start \in -2..Len(call.hay)
  /\ loop.searchStart \in 0..(Len(H) + 1) /\ loop.minStart \in 0..Len(H)
  /\ reply \in SpanOf(H)

(* The cache was never full, so no scan started over in the middle.        *)
Untroubled == cache.clearCount = 0 /\ ~IsFull(cache)

(* The backward DFA answers the first start of a match that ends at the    *)
(* end of the region.  A limited scan may answer the first one behind its  *)
(* bound instead; it says that there is none only if there is none in the  *)
(* whole region, and that it cannot tell only if the bound kept it.        *)
StartsBehind(i) == {s \in i..call.end : <<s, call.end>> \in Spans[dfa.pattern][call.hay]}
FirstBehind(i) == IF StartsBehind(i) = {} THEN -1 ELSE Minimum(StartsBehind(i))
ScanAnswers ==
  step = "scanning" /\ ~Scanning /\ Untroubled /\ call.start < call.end =>
    CASE Scans("SearchReverse") -> answer.start = FirstBehind(call.start)
      [] Scans("IsMatchReverse") -> answer.start = 0 <=> StartsBehind(call.start) # {}
      [] OTHER -> CASE answer.start = -1 -> StartsBehind(call.start) = {}
                    [] answer.start = Quadratic ->
                         LowerBound > call.start /\ StartsBehind(LowerBound) = {}
                    [] OTHER -> answer.start = FirstBehind(LowerBound)

(* Whichever way a searcher takes, scanning back, by lines or through the  *)
(* PikeVM, its answer is the leftmost match.                               *)
Expected ==
  LET span == MatchFrom(req.at)
  IN  IF Asked("IsMatch") /\ span # NoSpan THEN <<0, 0>> ELSE span
RequestAnswers == step = "idle" /\ Untroubled /\ req.hay # <<>> => reply = Expected

(* The candidates of one request cost one pass: no limited scan of a       *)
(* suffix searcher reads a byte that an earlier one was allowed to read.   *)
NewScan == step = "looking" /\ step' = "scanning" /\ call # NoCall
NoByteTwice ==
  [][NewScan /\ call'.op = "SearchReverseLimited" /\ S.kind \in {"Suffix", "SuffixSet"}
     => LowerBoundOf(call') >= call.end]_vars

(* Every request is answered, also if the cache keeps being cleared.       *)
RequestEnds == Busy ~> ~Busy
===============================================================================
