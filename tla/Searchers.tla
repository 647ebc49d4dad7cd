------------------------------- MODULE Searchers -------------------------------
(***************************************************************************)
(* The searchers that Selection chooses for patterns of a special form:    *)
(* nfa/charclass_searcher.go, nfa/composite.go, nfa/composite_dfa.go,      *)
(* nfa/branch_dispatch.go, meta/anchored_literal.go, prefilter/teddy.go,   *)
(* meta/reverse_suffix_multiline.go and the digit loop of                  *)
(* meta/find_indices.go.  None of them looks at the NFA.  A search yields  *)
(* the span of the match, NoMatch for none.                                *)
(***************************************************************************)
EXTENDS Selection

CONSTANTS
  ScalarBelow,     \* bytes from which on Teddy looks at many at once
  Buckets          \* buckets of Teddy

FoundAt(i) == <<i, i>>
From1st(positions, Span(_)) == IF positions = {} THEN NoMatch ELSE Span(Min(positions))

(* The end of the run of bytes of a set that begins at i.                  *)
EndOfRun(bytes, w, i) == Min({Len(w)} \cup {j \in i..(Len(w) - 1) : w[j + 1] \notin bytes})

-----------------------------------------------------------------------------
(* CharClassSearcher: [class]+.                                            *)
CharClassSearchAt(re, w, at) ==
  From1st({i \in at..(Len(w) - 1) : w[i + 1] \in BytesIn(re.sub)},
          LAMBDA i : <<i, EndOfRun(BytesIn(re.sub), w, i)>>)

-----------------------------------------------------------------------------
(* CompositeSearcher: classes one after the other, each with bounds; a     *)
(* maximum that is not positive is none.                                   *)
ExtractSinglePart(re) ==
  LET part(bytes, min, max) == [bytes |-> bytes, min |-> min, max |-> max]
  IN  CASE re.op = "charclass" -> part(BytesIn(re), 1, 1)
        [] re.op = "plus" -> part(BytesIn(re.sub), 1, 0)
        [] re.op = "star" -> part(BytesIn(re.sub), 0, 0)
        [] re.op = "quest" -> part(BytesIn(re.sub), 0, 1)
        [] re.op = "repeat" -> part(BytesIn(re.sub), re.min, re.max)
PartsOf(re) == [k \in DOMAIN re.subs |-> ExtractSinglePart(re.subs[k])]

CanConsume(part, w, pos) ==
  LET run == EndOfRun(part.bytes, w, pos) - pos
  IN  IF part.max > 0 THEN Min({run, part.max}) ELSE run

(* The longest that a part can take such that the other parts match, too.  *)
RECURSIVE MatchAtWithBacktrack(_, _, _)
MatchAtWithBacktrack(parts, w, pos) ==
  LET lengths == {n \in Head(parts).min..CanConsume(Head(parts), w, pos) :
                    MatchAtWithBacktrack(Tail(parts), w, pos + n) >= 0}
  IN  CASE parts = <<>> -> pos
        [] parts # <<>> /\ lengths = {} -> -1
        [] OTHER -> MatchAtWithBacktrack(Tail(parts), w, pos + Max(lengths))
CompositeSearchAt(re, w, at) ==
  From1st({i \in at..Len(w) : MatchAtWithBacktrack(PartsOf(re), w, i) >= 0},
          LAMBDA i : <<i, MatchAtWithBacktrack(PartsOf(re), w, i)>>)

(* CompositeSequenceDFA, for parts that are all repeated: a state is the   *)
(* set of the parts that the last byte may belong to.                      *)
MaxParts == 8
HasSequenceDFA(parts) ==
  Len(parts) <= MaxParts /\ \A k \in DOMAIN parts : parts[k].min > 0 /\ parts[k].max <= 0
ComputeNextConfigs(parts, current, b) ==
  {k \in DOMAIN parts : b \in parts[k].bytes /\ (k \in current \/ k - 1 \in current)}

(* A run of the DFA from start; where it dies the next one begins.         *)
RECURSIVE SequenceSearchAt(_, _, _)
SequenceSearchAt(parts, w, start) ==
  LET configs[k \in (start + 1)..Len(w)] ==
        IF k = start + 1 THEN {1} ELSE ComputeNextConfigs(parts, configs[k - 1], w[k])
      accepted == {k \in DOMAIN configs : Len(parts) \in configs[k]}
      dead == {k \in DOMAIN configs : configs[k] = {}}
  IN  CASE start >= Len(w) -> NoMatch
        [] start < Len(w) /\ w[start + 1] \notin parts[1].bytes ->
             SequenceSearchAt(parts, w, start + 1)
        [] OTHER -> CASE accepted # {} -> <<start, Max(accepted)>>
                      [] accepted = {} /\ dead = {} -> NoMatch
                      [] OTHER -> SequenceSearchAt(parts, w, Min(dead) - 1)

-----------------------------------------------------------------------------
(* BranchDispatcher: the first byte of the haystack says which branch is   *)
(* tried, and only its first literal or class is looked at.                *)
BranchMatch(branch, w) ==
  LET re == UnwrapCapture(branch)
      literal == IF re.op = "concat" THEN Head(re.subs) ELSE re
      end == EndOfRun(BytesIn(re.sub), w, 0)
  IN  CASE literal.op = "literal" -> IF StandsAt(literal.bytes, w, 0) THEN <<0, Len(literal.bytes)>> ELSE NoMatch
        [] OfClass(re, {"plus", "star"}) -> IF end > 0 \/ re.op = "star" THEN <<0, end>> ELSE NoMatch
        [] OTHER -> <<0, 1>>
BranchSearch(re, w) ==
  LET branches == Dispatched(re).subs
      chosen == {k \in DOMAIN branches : w[1] \in ExtractFirstBytes(branches[k])}
      canMatchEmpty == \E k \in DOMAIN branches : ExtractFirstBytes(branches[k]) = {}
  IN  CASE w = <<>> -> IF canMatchEmpty THEN FoundAt(0) ELSE NoMatch
        [] w # <<>> /\ chosen = {} -> NoMatch
        [] OTHER -> BranchMatch(branches[Min(chosen)], w)

-----------------------------------------------------------------------------
(* MatchAnchoredLiteral: prefix, suffix and the class in front of it.      *)
MatchAnchoredLiteral(re, w) ==
  LET info == DetectAnchoredLiteral(re)
      suffixStart == Len(w) - Len(info.suffix)
      middle == Len(info.prefix) + info.wildcardMin
  IN  /\ suffixStart >= middle + Len(info.charClass)
      /\ StandsAt(info.prefix, w, 0) /\ StandsAt(info.suffix, w, suffixStart)
      /\ info.charClass # <<>> => w[suffixStart] \in BytesIn(info.charClass[1])

-----------------------------------------------------------------------------
(* Teddy: the first position where a pattern stands.  Of several patterns  *)
(* there a short haystack yields the first, a long one the first of the    *)
(* lowest bucket.  Aho-Corasick is taken to prefer the first one.          *)
PatternsAt(patterns, w, i) == {id \in DOMAIN patterns : StandsAt(patterns[id], w, i)}
BucketOf(patterns, id) == (id - 1) % Min({Buckets, Len(patterns)})
FirstPattern(patterns, w, at, i) ==
  LET ids == PatternsAt(patterns, w, i)
      bucket == Min({BucketOf(patterns, id) : id \in ids})
  IN  IF Len(w) - at < ScalarBelow THEN Min(ids)
      ELSE Min({id \in ids : BucketOf(patterns, id) = bucket})
TeddyFindMatch(patterns, w, at) ==
  From1st({i \in at..(Len(w) - 1) : PatternsAt(patterns, w, i) # {}},
          LAMBDA i : <<i, i + Len(patterns[FirstPattern(patterns, w, at, i)])>>)
AhoCorasickFind(patterns, w, at) ==
  From1st({i \in at..(Len(w) - 1) : PatternsAt(patterns, w, i) # {}},
          LAMBDA i : <<i, i + Len(patterns[Min(PatternsAt(patterns, w, i))])>>)

(* Wrapped for (?m)^, Teddy only says where: the length is that of all     *)
(* patterns, or the PikeVM finds the end.                                  *)
LineAnchorFind(re, patterns, w, at) ==
  LET lengths == {Len(patterns[id]) : id \in DOMAIN patterns}
  IN  From1st({i \in at..(Len(w) - 1) : PatternsAt(patterns, w, i) # {} /\ Holds("StartLine", w, i)},
              LAMBDA i : IF Cardinality(lengths) = 1 THEN <<i, i + Min(lengths)>> ELSE Match(re, w, i))
TeddySearchAt(re, patterns, w, at) ==
  IF HasAnchorAssertions(re) THEN LineAnchorFind(re, patterns, w, at)
                             ELSE TeddyFindMatch(patterns, w, at)

-----------------------------------------------------------------------------
(* The digit loop: an anchored search at each digit; a run of digits in    *)
(* vain may be skipped.  Find searches on from the digit instead.          *)
DigitFrom(w, pos) == {i \in pos..(Len(w) - 1) : w[i + 1] \in Digits}
RECURSIVE DigitSearchAt(_, _, _)
DigitSearchAt(re, w, pos) ==
  LET digit == Min(DigitFrom(w, pos))
      behind == IF IsDigitRunSkipSafe(re) THEN EndOfRun(Digits, w, digit) ELSE digit + 1
  IN  CASE DigitFrom(w, pos) = {} -> NoMatch
        [] DigitFrom(w, pos) # {} /\ MatchEndFrom(re, w, digit) >= 0 ->
             <<digit, MatchEndFrom(re, w, digit)>>
        [] OTHER -> DigitSearchAt(re, w, behind)
DigitFind(re, w) == From1st(DigitFrom(w, 0), LAMBDA i : Match(re, w, i))

-----------------------------------------------------------------------------
(* MultilineReverseSuffix: from a suffix to the start of its line, where   *)
(* the prefix must stand, or else the pattern must match.                  *)
FindLineStart(w, pos) == Max({0} \cup {j \in 1..pos : w[j] = Newline})
SuffixCandidates(literals, w, at) ==
  {i \in at..(Len(w) - 1) : \E k \in DOMAIN literals : StandsAt(literals[k], w, i)}

(* A line in which the prefix does not stand is left at its first suffix.  *)
OnePerLine(found, w) == {i \in found : \A j \in found : j < i => j < FindLineStart(w, i)}
MultilineEnd(re, prefix, suffix, w, lineStart, suffixPos) ==
  CASE prefix = <<>> -> MatchEndFrom(re, w, lineStart)
    [] prefix # <<>> /\ StandsAt(prefix, w, lineStart) -> suffixPos + Len(suffix)
    [] OTHER -> -1
MultilineFrom(re, prefix, suffix, w, at, found) ==
  LET span(i, lineStart) == <<lineStart, MultilineEnd(re, prefix, suffix, w, lineStart, i)>>
      lineOf(i) == span(i, Max({at, FindLineStart(w, i)}))
  IN  From1st({i \in IF prefix = <<>> THEN found ELSE OnePerLine(found, w) : lineOf(i)[2] >= 0}, lineOf)
MultilineSearchAt(re, s, w, at) ==
  MultilineFrom(re, CommonPrefixOf(ExtractPrefixes(re)), s.suffix, w, at, SuffixCandidates(s.literals, w, at))

-----------------------------------------------------------------------------
(* What the engine answers where no DFA is at work.  Behind position 0     *)
(* there is no match of an anchored pattern, and at the end of the         *)
(* haystack some ask the PikeVM.                                           *)
AskNFA(re, w, at) == Match(re, w, at)
DirectAnswer(re, s, op, w, at) ==
  CASE s.alwaysAnchored /\ at > 0 -> NoMatch
    [] s.strategy = "CharClassSearcher" -> CharClassSearchAt(re, w, at)
    [] s.strategy = "CompositeSearcher" ->
         IF op # "Find" /\ HasSequenceDFA(PartsOf(re)) THEN SequenceSearchAt(PartsOf(re), w, at)
                                                       ELSE CompositeSearchAt(re, w, at)
    [] s.strategy = "BranchDispatch" -> BranchSearch(re, w)
    [] s.strategy = "AnchoredLiteral" -> IF MatchAnchoredLiteral(re, w) THEN <<0, Len(w)>> ELSE NoMatch
    [] s.strategy = "MultilineReverseSuffix" -> MultilineSearchAt(re, s, w, at)
    [] s.strategy \in {"Teddy", "AhoCorasick", "DigitPrefilter"} /\ at > 0 /\ at >= Len(w) -> AskNFA(re, w, at)
    [] s.strategy = "Teddy" -> TeddySearchAt(re, s.literals, w, at)
    [] s.strategy = "AhoCorasick" -> AhoCorasickFind(s.literals, w, at)
    [] s.strategy = "DigitPrefilter" -> IF op = "Find" THEN DigitFind(re, w) ELSE DigitSearchAt(re, w, at)
    [] OTHER -> AskNFA(re, w, at)
===============================================================================
