------------------------------- MODULE Selection -------------------------------
(***************************************************************************)
(* meta/strategy.go and meta/compile.go: which engine a pattern gets.  The *)
(* choice is made on the syntax tree, the size of the NFA and the literals *)
(* extracted, by rules that are tried one after the other; then the engine *)
(* is built, which may fail and leave the pattern to another one.  The     *)
(* configuration is the default one: DFA and prefilter enabled, literals   *)
(* of one byte are long enough.                                            *)
(***************************************************************************)
EXTENDS LiteralExtraction, Thompson

CONSTANTS
  MinTeddyLen,     \* bytes the literals of a prefilter for several must have
  MaxSuffixes,     \* literals of a suffix set
  TinyNFA,         \* states up to which an NFA is tiny
  LargeNFA,        \* states from which on a DFA needs literals
  HugeNFA,         \* states from which on it needs complete ones
  DigitNFA,        \* states up to which the digit prefilter is taken
  MaxBranches      \* branches of a dispatcher

(* The strategy of the first rule that applies.                            *)
FirstRule(rules) == rules[Min({k \in DOMAIN rules : rules[k][1]})][2]

-----------------------------------------------------------------------------
(* What a pattern is made of.                                              *)
Children(re) ==
  CASE re.op \in {"concat", "alternate"} -> ToSet(re.subs)
    [] re.op \in {"capture", "star", "plus", "quest", "repeat"} -> {re.sub}
    [] OTHER -> {}
RECURSIVE Subexpressions(_)
Subexpressions(re) == {re} \cup UNION {Subexpressions(sub) : sub \in Children(re)}
Mentions(re, looks) == \E sub \in Subexpressions(re) : IsLook(sub, looks)

MentionsWordBoundary(re) == Mentions(re, WordAssertions)
ContainsStartAnchor(re) == Mentions(re, StartAnchors)
ContainsEndAnchor(re) == Mentions(re, EndAnchors)
ContainsAnchor(re) == Mentions(re, StartAnchors \cup EndAnchors)
HasAnchorAssertions(re) == Mentions(re, StartAnchors \cup EndAnchors \cup WordAssertions)
HasMultilineLineAnchor(re) == Mentions(re, {"StartLine", "EndLine"})
HasNonLineAnchorsButWords(re) == Mentions(re, {"StartText"} \cup EndAnchors)   \* mutant
HasNonLineAnchors(re) == Mentions(re, {"StartText"} \cup EndAnchors \cup WordAssertions)

RECURSIVE IsEndAnchored(_)
IsEndAnchored(re) ==
  CASE re.op = "look" -> re.look = "EndText"
    [] re.op = "concat" -> IsEndAnchored(Last(re.subs))
    [] re.op = "capture" -> IsEndAnchored(re.sub)
    [] re.op = "alternate" -> \A sub \in Children(re) : IsEndAnchored(sub)
    [] OTHER -> FALSE
RECURSIVE HasInternalEndAnchor(_)
HasInternalEndAnchor(re) ==
  CASE re.op = "concat" -> \/ \E sub \in ToSet(Front(re.subs)) : ContainsEndAnchor(sub)
                           \/ HasInternalEndAnchor(Last(re.subs))
    [] re.op \in {"capture", "alternate"} -> \E sub \in Children(re) : HasInternalEndAnchor(sub)
    [] OTHER -> FALSE
IsPatternEndAnchored(re) == IsEndAnchored(re) /\ ~HasInternalEndAnchor(re)
HasImpossibleEndAnchor(re) == ContainsEndAnchor(re) /\ ~IsEndAnchored(re)

RECURSIVE Bare(_)
Bare(re) == IF re.op = "capture" THEN Bare(re.sub) ELSE re

OfAnyChar(re, ops) == re.op \in ops /\ IsAnyChar(re.sub)
OfClass(re, ops) == re.op \in ops /\ IsClass(re.sub)

-----------------------------------------------------------------------------
(* Patterns that a specialised searcher takes.                             *)
IsSimpleCharClassPlus(re) == OfClass(re, {"plus"})
IsValidCompositePart(re) == IsClass(re) \/ OfClass(re, {"plus", "star", "quest", "repeat"})
IsCompositeCharClassPattern(re) ==
  re.op = "concat" /\ Len(re.subs) >= 2 /\ \A sub \in Children(re) : IsValidCompositePart(sub)
RECURSIVE IsSimpleCharClass(_)
IsSimpleCharClass(re) ==
  \/ IsClass(re)
  \/ /\ re.op \in {"plus", "star", "quest", "repeat", "concat", "capture"}
     /\ \A sub \in Children(re) : IsSimpleCharClass(sub)

Digits == 48..57
IsDigitOnlyClass(re) == IsClass(re) /\ \A k \in DOMAIN re.ranges : re.ranges[k][1]..re.ranges[k][2] \subseteq Digits
IsOptionalElement(re) == re.op \in {"quest", "star"} \/ (re.op = "repeat" /\ re.min = 0)
RECURSIVE IsDigitLeadPattern(_)
IsOptionalDigitOnly(re) ==
  CASE IsClass(re.sub) -> IsDigitOnlyClass(re.sub)
    [] re.sub.op = "literal" -> ToSet(re.sub.bytes) \subseteq Digits
    [] OTHER -> IsDigitLeadPattern(re.sub)
IsDigitLeadConcat(subs) ==
  LET required == {k \in DOMAIN subs : ~IsOptionalElement(subs[k])}
  IN  /\ required # {} /\ IsDigitLeadPattern(subs[Min(required)])
      /\ \A k \in 1..(Min(required) - 1) : IsOptionalDigitOnly(subs[k])
IsDigitLeadPattern(re) ==
  CASE IsClass(re) -> IsDigitOnlyClass(re)
    [] re.op = "literal" -> Head(re.bytes) \in Digits
    [] re.op = "concat" -> IsDigitLeadConcat(re.subs)
    [] re.op \in {"alternate", "capture", "plus"} ->
         \A sub \in Children(re) : IsDigitLeadPattern(sub)
    [] re.op = "repeat" -> re.min >= 1 /\ IsDigitLeadPattern(re.sub)
    [] OTHER -> FALSE

(* Then the rest of a run of digits cannot begin a match if its first one  *)
(* does not.                                                               *)
RECURSIVE IsDigitRunSkipSafe(_)
IsDigitRunSkipSafe(re) ==
  CASE re.op = "concat" -> IsDigitRunSkipSafe(Head(re.subs))
    [] re.op = "capture" -> IsDigitRunSkipSafe(re.sub)
    [] OfClass(re, {"plus", "star"}) -> IsDigitOnlyClass(re.sub)
    [] OfClass(re, {"repeat"}) -> re.max = Unbounded /\ IsDigitOnlyClass(re.sub)
    [] OTHER -> FALSE

(* ^prefix.*[class]+suffix$: what MatchAnchoredLiteral compares, Nil if    *)
(* the pattern is of another form.                                         *)
NotDetected == [prefix |-> <<>>, wildcardMin |-> -1]
Detected(middle, suffix) ==
  LET wildcards == {k \in DOMAIN middle : OfAnyChar(middle[k], {"star", "plus"})}
      wild == Min(wildcards)
      before == SubSeq(middle, 1, wild - 1)
      behind == SubSeq(middle, wild + 1, Len(middle))
  IN  IF \/ Cardinality(wildcards) # 1
         \/ \E sub \in ToSet(before) : sub.op # "literal"
         \/ Len(behind) > 1 \/ \E sub \in ToSet(behind) : ~OfClass(sub, {"plus"})
      THEN NotDetected
      ELSE [prefix |-> FlattenSeq([k \in DOMAIN before |-> before[k].bytes]),
            wildcardMin |-> IF middle[wild].op = "plus" THEN 1 ELSE 0,
            charClass |-> [k \in DOMAIN behind |-> behind[k].sub], suffix |-> suffix.bytes]
DetectAnchoredLiteral(re) ==
  IF /\ re.op = "concat" /\ Len(re.subs) >= 3
     /\ IsLook(Head(re.subs), StartAnchors) /\ IsLook(Last(re.subs), EndAnchors)
     /\ re.subs[Len(re.subs) - 1].op = "literal"
  THEN Detected(SubSeq(re.subs, 2, Len(re.subs) - 2), re.subs[Len(re.subs) - 1])
  ELSE NotDetected

(* The bytes a match may begin with: complete unless it may begin with     *)
(* nothing.                                                                *)
UnknownBytes == {-1}
BytesIn(re) == UNION {re.ranges[k][1]..re.ranges[k][2] : k \in DOMAIN re.ranges}
RECURSIVE ExtractFirstBytes(_)
ExtractFirstBytes(re) ==
  LET all == {ExtractFirstBytes(sub) : sub \in Children(re)}
      behindAnchors == SelectSeq(re.subs, LAMBDA sub : ~IsLook(sub, StartAnchors))
  IN  CASE re.op = "literal" -> {Head(re.bytes)}
        [] re.op = "charclass" -> BytesIn(re)
        [] IsLook(re, StartAnchors \cup EndAnchors) -> {}
        [] re.op = "concat" -> IF behindAnchors = <<>> THEN UnknownBytes
                               ELSE ExtractFirstBytes(Head(behindAnchors))
        [] re.op \in {"capture", "plus", "alternate"} ->
             IF UnknownBytes \in all THEN UnknownBytes ELSE UNION all
        [] re.op = "repeat" /\ re.min > 0 -> ExtractFirstBytes(re.sub)
        [] OTHER -> UnknownBytes

(* ^(a|b|...): the branches begin with different bytes.                    *)
UnwrapCapture(re) == IF re.op = "capture" THEN re.sub ELSE re
CanDispatch(alternation) ==
  LET first == [k \in DOMAIN alternation.subs |-> ExtractFirstBytes(alternation.subs[k])]
  IN  /\ alternation.op = "alternate" /\ Len(alternation.subs) <= MaxBranches
      /\ \A k \in DOMAIN first : first[k] # UnknownBytes
      /\ \A j, k \in DOMAIN first : j # k => first[j] \cap first[k] = {}
FirstAlternate(subs) ==
  LET found == {k \in DOMAIN subs : UnwrapCapture(subs[k]).op = "alternate"}
  IN  IF found = {} THEN 0 ELSE Min(found)
IsBranchDispatchPattern(re) ==
  /\ re.op = "concat" /\ Len(re.subs) >= 2 /\ IsLook(Head(re.subs), StartAnchors)
  /\ FirstAlternate(Tail(re.subs)) > 0
  /\ CanDispatch(UnwrapCapture(Tail(re.subs)[FirstAlternate(Tail(re.subs))]))

-----------------------------------------------------------------------------
(* Prefilters.                                                             *)
SelectPrefilter(seq) ==
  CASE HasNone(seq) -> "None"
    [] Count(seq) = 1 -> IF MinLen(seq) = 1 THEN "Memchr" ELSE "Memmem"
    [] Count(seq) > 1 /\ MinLen(seq) >= MinTeddyLen ->
         IF Count(seq) <= MaxTeddyPatterns THEN "Teddy" ELSE "AhoCorasick"
    [] OTHER -> "None"
CanPrefilter(seq) == SelectPrefilter(seq) # "None"
HasGoodLiterals(literals) == CommonPrefixOf(literals) # <<>>
HasFastPrefixPrefilter(literals) == HasGoodLiterals(literals) \/ CanPrefilter(literals)

HasTeddyLiterals(literals) ==
  Count(literals) \in 2..MaxTeddyPatterns /\ MinLen(literals) >= MinTeddyLen
HasAhoCorasickLiterals(literals) == Count(literals) > MaxTeddyPatterns /\ MinLen(literals) >= 1

-----------------------------------------------------------------------------
(* Reverse strategies.                                                     *)
IsWildcardSubexpression(re) ==
  \/ OfAnyChar(Bare(re), {"star", "plus"}) \/ OfClass(Bare(re), {"plus"})
  \/ Bare(re).op = "repeat" /\ Bare(re).min >= 1
IsSafeForReverseSuffix(re) ==
  LET subs == Bare(re).subs
  IN  /\ Bare(re).op = "concat" /\ Len(subs) >= 2
      /\ \E k \in 1..(Len(subs) - 1) : IsWildcardSubexpression(subs[k])
      /\ \A k \in 2..(Len(subs) - 1) : ~ContainsAnchor(subs[k])
HasDotStarPrefix(re) ==
  /\ Bare(re).op = "concat" /\ Len(Bare(re).subs) >= 2
  /\ OfAnyChar(Bare(Head(Bare(re).subs)), {"star"})

RECURSIVE ContainsLineStartAnchor(_)
ContainsLineStartAnchor(re) ==
  CASE re.op = "look" -> re.look = "StartLine"
    [] re.op \in {"concat", "capture"} -> \E sub \in Children(re) : ContainsLineStartAnchor(sub)
    [] re.op = "alternate" -> \A sub \in Children(re) : ContainsLineStartAnchor(sub)
    [] OTHER -> FALSE
IsWildcardOp(re) == OfAnyChar(re, {"star", "plus"}) \/ OfClass(re, {"plus"})
RECURSIVE ContainsWildcard(_)
ContainsWildcard(re) ==
  \/ OfAnyChar(re, {"star", "plus"})
  \/ /\ re.op \in {"concat", "alternate", "capture", "quest", "repeat"}
     /\ \E sub \in Children(re) : ContainsWildcard(sub)
IsSafeForMultilineReverseSuffix(re) ==
  LET subs == Bare(re).subs
  IN  /\ ContainsLineStartAnchor(re) /\ ContainsWildcard(re)
      /\ Bare(re).op = "concat" /\ Len(subs) >= 2
      /\ IsLook(Head(subs), {"StartLine"}) /\ \E sub \in ToSet(subs) : IsWildcardOp(sub)

IsSafeForReverseInner(re) ==
  /\ Bare(re).op = "concat" /\ Len(Bare(re).subs) >= 2
  /\ IsWildcardOp(Head(Bare(re).subs))

ShouldUseReverseSuffixSet(prefixes, suffixes) ==
  /\ ~(~HasNone(prefixes) /\ AllComplete(prefixes) /\ Count(prefixes) = Count(suffixes))
  /\ Count(suffixes) \in 2..MaxSuffixes /\ MinLen(suffixes) >= 2

NoStrategy == "None"
InnerLiterals(re, inner) == IF inner = 0 THEN NoLiterals ELSE ExtractInner(re.subs[inner])
ReverseRules(re, literals, suffixes, lcs, safe, lcp) ==
  FirstRule(<<
    <<HasImpossibleEndAnchor(re) \/ MentionsWordBoundary(re), NoStrategy>>,
    <<IsPatternAnchored(re) \/ IsPatternEndAnchored(re), NoStrategy>>,
    <<IsSafeForMultilineReverseSuffix(re) /\ lcs # <<>>, "MultilineReverseSuffix">>,
    <<HasFastPrefixPrefilter(literals), NoStrategy>>,
    <<lcs # <<>> /\ ~safe, NoStrategy>>,
    <<lcs # <<>>, "ReverseSuffix">>,
    <<safe /\ ShouldUseReverseSuffixSet(literals, suffixes), "ReverseSuffixSet">>,
    <<Len(lcp) = 1 /\ IsDigitLeadPattern(re), NoStrategy>>,
    <<lcp # <<>> /\ IsSafeForReverseInner(re), "ReverseInner">>,
    <<TRUE, NoStrategy>>>>)
SelectReverseStrategy(re, literals, suffixes) ==
  ReverseRules(re, literals, suffixes, CommonSuffixOf(suffixes), IsSafeForReverseSuffix(re),
               CommonPrefixOf(InnerLiterals(re, InnerIdx(re))))

-----------------------------------------------------------------------------
(* The choice.  Literals are extracted unless the pattern is anchored.     *)
PrefixLiterals(re) == IF IsPatternAnchored(re) THEN NoLiterals ELSE ExtractPrefixes(re)
SelectLiteralStrategy(re, literals) ==
  CASE HasNone(literals) \/ ~AllComplete(literals) -> NoStrategy
    [] HasTeddyLiterals(literals) /\ ~HasNonLineAnchors(re) -> "Teddy"
    [] HasAhoCorasickLiterals(literals) -> "AhoCorasick"
    [] OTHER -> NoStrategy
NeedsNFA(re) == MentionsWordBoundary(re) \/ CanMatchEmpty(re) \/ HasMultilineLineAnchor(re)

IsGood(literals) == ~HasNone(literals) /\ (HasGoodLiterals(literals) \/ HasTeddyLiterals(literals))

StrategyRules(re, literals, states, good, start, end, reverse, literal) ==
  FirstRule(<<
    <<end /\ ~start /\ ~ContainsStartAnchor(re), "ReverseAnchored">>,
    <<start /\ end /\ DetectAnchoredLiteral(re) # NotDetected, "AnchoredLiteral">>,
    <<start /\ IsBranchDispatchPattern(re), "BranchDispatch">>,
    <<start, "BoundedBacktracker">>,
    <<reverse # NoStrategy, reverse>>,
    <<~good /\ IsSimpleCharClassPlus(re), "CharClassSearcher">>,
    <<~good /\ IsCompositeCharClassPattern(re), "CompositeSearcher">>,
    <<~good /\ IsSimpleCharClass(re), "BoundedBacktracker">>,
    <<literal # NoStrategy, literal>>,
    <<states <= DigitNFA /\ IsDigitLeadPattern(re), "DigitPrefilter">>,
    <<states < TinyNFA, IF NeedsNFA(re) THEN "NFA" ELSE "DFA">>,
    <<~good /\ CanMatchEmpty(re), "NFA">>,
    <<good, IF states > HugeNFA /\ ~AllComplete(literals) THEN "NFA" ELSE "DFA">>,
    <<states > LargeNFA, "NFA">>,
    <<TRUE, "Both">>>>)
SelectStrategy(re, literals, suffixes) ==
  StrategyRules(re, literals, Len(CompileRegexp(re).states), IsGood(literals), IsPatternAnchored(re),
                IsPatternEndAnchored(re), SelectReverseStrategy(re, literals, suffixes),
                SelectLiteralStrategy(re, literals))

(* A reverse searcher that gets no prefilter is not built, nor a           *)
(* dispatcher if a group comes before the alternation.                     *)
Dispatched(re) ==
  UnwrapCapture(Head(SelectSeq(Tail(re.subs), LAMBDA sub : sub.op \in {"alternate", "capture"})))
Built(re, suffixes, strategy) ==
  CASE strategy = "BranchDispatch" /\ ~CanDispatch(Dispatched(re)) -> "BoundedBacktracker"
    [] strategy \in {"ReverseSuffix", "MultilineReverseSuffix"} /\ ~CanPrefilter(suffixes) -> "DFA"
    [] strategy = "ReverseSuffixSet" /\ ~CanPrefilter(suffixes) -> "Both"
    [] strategy = "ReverseInner" /\ ~CanPrefilter(InnerLiterals(re, InnerIdx(re))) -> "DFA"
    [] OTHER -> strategy

-----------------------------------------------------------------------------
(* The searcher that is built.                                             *)
IsUniversalMatch(re) == OfAnyChar(re, {"star", "plus"}) \/ re.op = "empty"
RECURSIVE EndsWithUniversalMatch(_)
EndsWithUniversalMatch(re) ==
  \/ OfAnyChar(re, {"star", "plus"})
  \/ re.op = "concat" /\ EndsWithUniversalMatch(Last(re.subs))
  \/ re.op = "capture" /\ EndsWithUniversalMatch(re.sub)
RECURSIVE IsStartAnchorOnly(_)
IsStartAnchorOnly(re) ==
  \/ IsLook(re, StartAnchors) \/ re.op = "empty"
  \/ /\ re.op \in {"star", "plus", "quest", "concat", "capture"}
     /\ \A sub \in Children(re) : IsStartAnchorOnly(sub)

BytesOf(seq) == [k \in DOMAIN seq.literals |-> seq.literals[k].bytes]
NoSearcher(strategy, anchored) ==
  [strategy |-> strategy, literals |-> <<>>, suffix |-> <<>>, matchStartZero |-> FALSE,
   alwaysAnchored |-> anchored, universalPrefix |-> FALSE, universalSuffix |-> FALSE,
   startAnchored |-> FALSE, innerLen |-> 0]
InnerSearcher(searcher, literals, before, behind) ==
  [searcher EXCEPT !.literals = BytesOf(literals), !.innerLen = Len(CommonPrefixOf(literals)),
                   !.universalPrefix = IsUniversalMatch(before),
                   !.universalSuffix = EndsWithUniversalMatch(behind),
                   !.startAnchored = IsStartAnchorOnly(before)]
CompleteSearcher(searcher, re, literals, suffixes, inner) ==
  CASE searcher.strategy \in {"ReverseSuffix", "ReverseSuffixSet", "MultilineReverseSuffix"} ->
         [searcher EXCEPT !.literals = BytesOf(suffixes), !.suffix = CommonSuffixOf(suffixes),
                          !.matchStartZero = HasDotStarPrefix(re)]
    [] searcher.strategy = "ReverseInner" ->
         InnerSearcher(searcher, InnerLiterals(re, inner), BuildPrefixAST(re, inner), BuildSuffixAST(re, inner))
    [] searcher.strategy \in {"Teddy", "AhoCorasick"} -> [searcher EXCEPT !.literals = BytesOf(literals)]
    [] OTHER -> searcher
SearcherOf(re, literals, suffixes) ==
  CompleteSearcher(
    NoSearcher(Built(re, suffixes, SelectStrategy(re, literals, suffixes)), IsPatternAnchored(re)),
    re, literals, suffixes, InnerIdx(re))
SearcherFor(re) == SearcherOf(re, PrefixLiterals(re), ExtractSuffixes(re))
===============================================================================
