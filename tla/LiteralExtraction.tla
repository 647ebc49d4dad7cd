--------------------------- MODULE LiteralExtraction ---------------------------
(***************************************************************************)
(* literal/extractor.go and literal/seq.go: the literals a match must      *)
(* begin with, end with or contain.  A literal is complete if nothing of   *)
(* the pattern follows it (or, for a suffix, precedes it).  An empty       *)
(* sequence says that nothing is known; a sequence of partial coverage     *)
(* that matches may begin with something else.  Nil is Go's nil.           *)
(***************************************************************************)
EXTENDS Regexp

CONSTANTS
  MaxLiterals,       \* literals a sequence may hold
  MaxLiteralLen,     \* bytes of a literal
  MaxClassSize,      \* bytes a class may have that is taken apart
  CrossProductLimit, \* literals a cross product may have before it is cut
  MaxTeddyPatterns   \* literals the largest Teddy takes

NewLiteral(bytes, complete) == [bytes |-> bytes, complete |-> complete]
NewSeq(literals) == [literals |-> literals, partialCoverage |-> FALSE, nil |-> FALSE]
NoLiterals == NewSeq(<<>>)
Nil == [NoLiterals EXCEPT !.nil = TRUE]
HasNone(seq) == seq.literals = <<>>
Count(seq) == Len(seq.literals)
AllComplete(seq) == \A k \in DOMAIN seq.literals : seq.literals[k].complete
HasAnyExact(seq) == \E k \in DOMAIN seq.literals : seq.literals[k].complete
MinLen(seq) == Min({Len(seq.literals[k].bytes) : k \in DOMAIN seq.literals})

(* Clone copies the literals only.                                         *)
Clone(seq) == NewSeq(seq.literals)

StandsAt(bytes, w, i) ==
  i + Len(bytes) <= Len(w) /\ SubSeq(w, i + 1, i + Len(bytes)) = bytes
Take(s, n) == SubSeq(s, 1, Min({n, Len(s)}))
TakeLast(s, n) == SubSeq(s, Len(s) - Min({n, Len(s)}) + 1, Len(s))
Each(seq, F(_)) == [seq EXCEPT !.literals = [k \in DOMAIN seq.literals |-> F(seq.literals[k])]]

MarkAllInexact(seq) == Each(seq, LAMBDA l : NewLiteral(l.bytes, FALSE))
KeepFirstBytes(seq, n) ==
  Each(seq, LAMBDA l : IF Len(l.bytes) > n THEN NewLiteral(Take(l.bytes, n), FALSE) ELSE l)
EnforceMaxLiteralLen(seq) == KeepFirstBytes(seq, MaxLiteralLen)

(* The first of the literals with the same bytes stays.                    *)
Dedup(seq) ==
  [seq EXCEPT !.literals =
     FoldLeft(LAMBDA kept, l : IF \E k \in DOMAIN kept : kept[k].bytes = l.bytes
                               THEN kept ELSE Append(kept, l), <<>>, seq.literals)]
CutToMaxLiterals(seq) == [seq EXCEPT !.literals = Take(@, MaxLiterals)]

(* Literals that are cut short are a prefilter still, but no more.         *)
TrimTo(seq, n) == Dedup(MarkAllInexact(KeepFirstBytes(seq, n)))

CommonPrefixOf(seq) ==
  LET agree(n) == \A k \in DOMAIN seq.literals :
                    /\ n <= Len(seq.literals[k].bytes)
                    /\ Take(seq.literals[k].bytes, n) = Take(seq.literals[1].bytes, n)
  IN  IF HasNone(seq) THEN <<>>
      ELSE Take(seq.literals[1].bytes, Max({n \in 0..Len(seq.literals[1].bytes) : agree(n)}))
CommonSuffixOf(seq) ==
  Reverse(CommonPrefixOf(Each(seq, LAMBDA l : NewLiteral(Reverse(l.bytes), l.complete))))

(* Complete literals are extended by each literal of other.                *)
CrossForward(seq, other) ==
  LET extended(l) ==
        IF ~l.complete THEN <<l>>
        ELSE [j \in DOMAIN other.literals |->
                NewLiteral(l.bytes \o other.literals[j].bytes, other.literals[j].complete)]
  IN  IF HasNone(seq) \/ HasNone(other) THEN seq
      ELSE [seq EXCEPT !.literals = FlattenSeq([k \in DOMAIN @ |-> extended(@[k])])]

-----------------------------------------------------------------------------
(* What a literal and a class contribute.                                  *)

(* caseFolds, of a letter that has one other case.                         *)
CaseFolds(b) ==
  CASE b \in 97..122 -> <<b, b - 32>> [] b \in 65..90 -> <<b, b + 32>> [] OTHER -> <<b>>

(* The variants of the first n bytes.                                      *)
GenerateCaseFoldVariants(foldSets, n) ==
  LET variants == FoldLeft(LAMBDA sofar, folds :
                             FlattenSeq([k \in DOMAIN sofar |->
                               [j \in DOMAIN folds |-> Append(sofar[k], folds[j])]]),
                           <<<<>>>>, Take(foldSets, n))
  IN  NewSeq([k \in DOMAIN variants |-> NewLiteral(Take(variants[k], MaxLiteralLen), TRUE)])

Product(foldSets) == FoldLeft(LAMBDA p, folds : p * Len(folds), 1, foldSets)

(* The fold sets are made until their product is too large; the rest stay  *)
(* empty, and an empty one brings the product down to zero.                *)
FoldSets(bytes) ==
  LET folds == [k \in DOMAIN bytes |-> CaseFolds(bytes[k])]
  IN  [k \in DOMAIN bytes |->
         IF Product(Take(folds, k - 1)) > CrossProductLimit THEN <<>> ELSE folds[k]]
FindMaxCaseFoldPrefix(foldSets) ==
  LET over == {k \in DOMAIN foldSets : Product(Take(foldSets, k)) > MaxLiterals}
  IN  IF over = {} THEN Len(foldSets) ELSE Min(over) - 1

ExpandCaseFoldLiteral(bytes) ==
  LET foldSets == FoldSets(bytes)
      filled == \A k \in DOMAIN foldSets : foldSets[k] # <<>>
      trimLen == FindMaxCaseFoldPrefix(foldSets)
      trimmed == Dedup(MarkAllInexact(GenerateCaseFoldVariants(foldSets, trimLen)))
  IN  CASE bytes = <<>> -> NoLiterals
        [] bytes # <<>> /\ filled /\ Product(foldSets) <= MaxLiterals ->
             GenerateCaseFoldVariants(foldSets, Len(bytes))
        [] OTHER -> IF trimLen = 0 THEN NoLiterals ELSE CutToMaxLiterals(trimmed)

BytesOfClass(re) ==
  FlattenSeq([k \in DOMAIN re.ranges |->
    [j \in 1..(re.ranges[k][2] - re.ranges[k][1] + 1) |-> re.ranges[k][1] + j - 1]])
ClassSize(re) == FoldLeft(LAMBDA n, range : n + range[2] - range[1] + 1, 0, re.ranges)
ExpandCharClass(re) ==
  IF ~IsClass(re) \/ ClassSize(re) > MaxClassSize THEN NoLiterals
  ELSE LET bytes == Take(BytesOfClass(re), MaxLiterals)
       IN  NewSeq([k \in DOMAIN bytes |-> NewLiteral(<<bytes[k]>>, TRUE)])

-----------------------------------------------------------------------------
(* Prefixes.                                                               *)
IsLook(re, looks) == re.op = "look" /\ re.look \in looks
StartAnchors == {"StartText", "StartLine"}
EndAnchors == {"EndText", "EndLine"}
WordAssertions == {"WordBoundary", "NoWordBoundary"}

(* Of a literal that has to be cut, a prefix keeps the first bytes.        *)
PrefixOfLiteral(re) ==
  IF re.fold THEN ExpandCaseFoldLiteral(re.bytes)
             ELSE NewSeq(<<NewLiteral(Take(re.bytes, MaxLiteralLen), TRUE)>>)

(* Mutant: a branch without literals is passed over.                       *)
UnionOfSomeBranches(branches) ==
  NewSeq(FlattenSeq([k \in DOMAIN branches |-> branches[k].literals]))

(* The branches up to the one that makes too many of them.                 *)
UnionOfBranches(branches) ==
  LET upTo(k) == FlattenSeq([j \in 1..k |-> branches[j].literals])
      overflowing == {k \in DOMAIN branches : Len(upTo(k)) > CrossProductLimit}
      looked == IF overflowing = {} THEN Len(branches) ELSE Min(overflowing)
      all == NewSeq(Take(upTo(looked), CrossProductLimit + 1))
      overflowed == overflowing # {}
  IN  CASE \E k \in 1..looked : HasNone(branches[k]) -> NoLiterals
        [] overflowed \/ Count(all) > MaxLiterals ->
             [CutToMaxLiterals(TrimTo(all, 3)) EXCEPT !.partialCoverage = overflowed]
        [] OTHER -> all

(* An alternation inside a concatenation: every branch is looked at, those *)
(* behind an overflow three bytes deep.                                    *)
TooMany(literals) == Len(literals) > CrossProductLimit
AppendTrimmedPrefixes(sofar, seq) ==
  LET appended == sofar \o [k \in DOMAIN seq.literals |->
                              NewLiteral(Take(seq.literals[k].bytes, 3), FALSE)]
  IN  IF TooMany(appended) THEN Dedup(NewSeq(appended)).literals ELSE appended
ExpandAlternateContribution(branches) ==
  LET add(sofar, seq) ==
        IF sofar.overflowed
        THEN [sofar EXCEPT !.literals = AppendTrimmedPrefixes(@, seq)]
        ELSE LET all == sofar.literals \o seq.literals
             IN  [literals |-> IF TooMany(all) THEN TrimTo(NewSeq(all), 3).literals ELSE all,
                  overflowed |-> TooMany(all)]
      collected == FoldLeft(add, [literals |-> <<>>, overflowed |-> FALSE], branches)
  IN  CASE \E k \in DOMAIN branches : HasNone(branches[k]) -> Nil
        [] collected.overflowed \/ Len(collected.literals) > MaxLiterals ->
             CutToMaxLiterals(TrimTo(NewSeq(collected.literals), 3))
        [] OTHER -> NewSeq(collected.literals)

HandleCrossProductOverflow(seq) == CutToMaxLiterals(TrimTo(seq, 4))

(* One step through a concatenation; it stops at what cannot be expanded.  *)
ExtendBy(sofar, contribution) ==
  LET crossed == CrossForward(sofar.acc, contribution)
  IN  CASE sofar.stop \/ ~HasAnyExact(sofar.acc) -> [sofar EXCEPT !.stop = TRUE]
        [] contribution.nil -> [acc |-> MarkAllInexact(sofar.acc), stop |-> TRUE]
        [] Count(crossed) > CrossProductLimit \/ Count(crossed) > MaxLiterals ->
             [acc |-> HandleCrossProductOverflow(crossed), stop |-> TRUE]
        [] OTHER -> [acc |-> EnforceMaxLiteralLen(crossed), stop |-> FALSE]

EmptyLiteral == NewSeq(<<NewLiteral(<<>>, TRUE)>>)
CrossAll(contributions) ==
  LET acc == FoldLeft(ExtendBy, [acc |-> EmptyLiteral, stop |-> FALSE], contributions).acc
  IN  IF Count(acc) = 1 /\ acc.literals[1].bytes = <<>> THEN NoLiterals ELSE acc

WithoutStartAnchors(subs) ==
  LET others == {k \in DOMAIN subs : ~IsLook(subs[k], StartAnchors)}
  IN  IF others = {} THEN <<>> ELSE SubSeq(subs, Min(others), Len(subs))

RECURSIVE extractPrefixes(_)
RECURSIVE ConcatSubContribution(_)

ConcatSubContribution(sub) ==
  CASE sub.op = "literal" ->
         IF sub.fold THEN ExpandCaseFoldLiteral(sub.bytes)
                     ELSE NewSeq(<<NewLiteral(sub.bytes, TRUE)>>)
    [] IsClass(sub) ->
         IF HasNone(ExpandCharClass(sub)) THEN Nil ELSE ExpandCharClass(sub)
    [] sub.op = "alternate" ->
         ExpandAlternateContribution([k \in DOMAIN sub.subs |-> extractPrefixes(sub.subs[k])])
    [] sub.op = "capture" -> ConcatSubContribution(sub.sub)
    [] sub.op = "repeat" ->
         IF sub.min >= 1 THEN MarkAllInexact(ConcatSubContribution(sub.sub)) ELSE Nil
    [] IsLook(sub, WordAssertions) -> EmptyLiteral
    [] OTHER -> Nil

extractPrefixes(re) ==
  CASE re.op = "literal" -> PrefixOfLiteral(re)
    [] re.op = "concat" ->
         CrossAll([k \in DOMAIN WithoutStartAnchors(re.subs) |->
                     ConcatSubContribution(WithoutStartAnchors(re.subs)[k])])
    [] re.op = "alternate" -> UnionOfBranches([k \in DOMAIN re.subs |-> extractPrefixes(re.subs[k])])
    [] IsClass(re) -> ExpandCharClass(re)
    [] re.op = "capture" -> extractPrefixes(re.sub)
    [] OTHER -> NoLiterals

(* More literals than Teddy takes are cut to 4, 3, 2 bytes until they fit; *)
(* if they never do, the ones there were come back.                        *)
CutToTeddy(seq) ==
  FoldLeft(LAMBDA cut, n : IF Count(cut) <= MaxTeddyPatterns THEN cut ELSE Dedup(KeepFirstBytes(cut, n)),
           seq, <<4, 3, 2>>)
Fitting(cut, seq) == IF Count(cut) <= MaxTeddyPatterns THEN cut ELSE Clone(seq)
FitTeddy(seq) == Fitting(CutToTeddy(seq), seq)
ExtractPrefixes(re) == FitTeddy(extractPrefixes(re))

-----------------------------------------------------------------------------
(* Suffixes.                                                               *)
SuffixOfLiteral(re) ==
  IF re.fold THEN ExpandCaseFoldLiteral(re.bytes)
             ELSE NewSeq(<<NewLiteral(TakeLast(re.bytes, MaxLiteralLen), TRUE)>>)

(* The literals in front are put before the suffixes, from the last one to *)
(* the first thing that is none.                                           *)
RECURSIVE CrossReverse(_, _)
CrossReverse(subs, seq) ==
  LET sub == Last(subs)
      longer == NewSeq([k \in DOMAIN seq.literals |->
                  NewLiteral(TakeLast(sub.bytes \o seq.literals[k].bytes, MaxLiteralLen),
                             seq.literals[k].complete)])
  IN  CASE subs = <<>> -> seq
        [] subs # <<>> /\ IsLook(sub, WordAssertions) -> CrossReverse(Front(subs), seq)
        [] subs # <<>> /\ sub.op # "literal" /\ ~IsLook(sub, WordAssertions) -> MarkAllInexact(seq)
        [] OTHER -> IF Count(longer) > MaxLiterals THEN longer ELSE CrossReverse(Front(subs), longer)

WithoutTrailingLooks(subs) ==
  LET others == {k \in DOMAIN subs : ~IsLook(subs[k], EndAnchors \cup WordAssertions)}
  IN  IF others = {} THEN <<>> ELSE SubSeq(subs, 1, Max(others))

(* The union of all branches, as many literals as are allowed.             *)
UnionUpToLimit(branches) ==
  LET all == FlattenSeq([k \in DOMAIN branches |-> branches[k].literals])
      before(k) == Len(FlattenSeq([j \in 1..(k - 1) |-> branches[j].literals]))
  IN  IF \E k \in DOMAIN branches : before(k) < MaxLiterals /\ HasNone(branches[k])
      THEN NoLiterals ELSE NewSeq(Take(all, MaxLiterals))

RECURSIVE ExtractSuffixes(_)
ExtractSuffixes(re) ==
  CASE re.op = "literal" -> SuffixOfLiteral(re)
    [] re.op = "concat" ->
         LET subs == WithoutTrailingLooks(re.subs)
         IN  IF subs = <<>> \/ HasNone(ExtractSuffixes(Last(subs))) THEN NoLiterals
             ELSE CrossReverse(Front(subs), ExtractSuffixes(Last(subs)))
    [] re.op = "alternate" ->
         UnionUpToLimit([k \in DOMAIN re.subs |-> ExtractSuffixes(re.subs[k])])
    [] IsClass(re) -> ExpandCharClass(re)
    [] re.op = "capture" -> ExtractSuffixes(re.sub)
    [] OTHER -> NoLiterals

-----------------------------------------------------------------------------
(* Literals in the middle.                                                 *)
RECURSIVE ExtractInner(_)
ExtractInner(re) ==
  CASE re.op = "literal" -> MarkAllInexact(PrefixOfLiteral(re))
    [] re.op = "concat" ->
         LET found == {k \in DOMAIN re.subs : ~HasNone(ExtractInner(re.subs[k]))}
         IN  IF found = {} THEN NoLiterals ELSE ExtractInner(re.subs[Min(found)])
    [] re.op = "alternate" ->
         UnionUpToLimit([k \in DOMAIN re.subs |-> ExtractInner(re.subs[k])])
    [] IsClass(re) -> ExpandCharClass(re)
    [] re.op = "capture" -> ExtractInner(re.sub)
    [] OTHER -> NoLiterals

RECURSIVE IsWildcardOrRepetition(_)
IsWildcardOrRepetition(re) ==
  CASE re.op \in {"star", "plus", "quest", "repeat"} -> TRUE
    [] IsAnyChar(re) -> TRUE
    [] re.op \in {"concat", "alternate"} ->
         \E k \in DOMAIN re.subs : IsWildcardOrRepetition(re.subs[k])
    [] re.op = "capture" -> IsWildcardOrRepetition(re.sub)
    [] OTHER -> FALSE

(* The first literal of a concatenation with something of variable length  *)
(* on both sides: its index, 0 for none.                                   *)
InnerIdx(re) ==
  LET variable(j) == IsWildcardOrRepetition(re.subs[j])
      good == {i \in 2..(Len(re.subs) - 1) :
                 /\ ~HasNone(ExtractInner(re.subs[i]))
                 /\ \E j \in 1..(i - 1) : variable(j)
                 /\ \E j \in (i + 1)..Len(re.subs) : variable(j)}
  IN  IF re.op # "concat" \/ good = {} THEN 0 ELSE Min(good)

ConcatOf(subs) == IF Len(subs) = 1 THEN subs[1] ELSE Concat(subs)
BuildPrefixAST(re, i) == ConcatOf(SubSeq(re.subs, 1, i - 1))
BuildSuffixAST(re, i) == ConcatOf(SubSeq(re.subs, i, Len(re.subs)))
===============================================================================
