----------------------------- MODULE EngineCalls -----------------------------
(***************************************************************************)
(* What one call of the meta engine does to mutable objects.  A call is a  *)
(* path: the sequence of steps it takes on the pooled SearchStates ("get", *)
(* "search", "put") and on the objects that belong to the Engine itself    *)
(* and are therefore common to every goroutine.  A function of the engine  *)
(* is the set of paths its branches can take; what the branches compute is *)
(* not modelled here, only which mutable objects they touch and in what    *)
(* order.  Immutable searchers (prefilters, Aho-Corasick, the charclass    *)
(* and composite searchers, OnePass tables) leave no step.                 *)
(***************************************************************************)
EXTENDS Naturals, Sequences

(* Objects reachable from the Engine that a search writes to.              *)
EngineVM     == "e.pikevm"
AsciiBT      == "e.asciiBoundedBacktracker.internalState"
ForwardDfaVM == "e.dfa.pikevm"
ReverseDfaVM == "e.reverseDFA.pikevm"
SharedObject == {EngineVM, AsciiBT, ForwardDfaVM, ReverseDfaVM}

Step == {"get", "search", "put"} \cup SharedObject

(* Building blocks: no step, one step, sequencing, a loop and a pooled     *)
(* state held around the paths of a body.  Bound: a loop is followed for   *)
(* at most two iterations.                                                 *)
Nothing == {<<>>}
Only(step) == {<<step>>}
Then(first, second) == {p \o q : p \in first, q \in second}
Loop(body) == Nothing \cup body \cup Then(body, body)
WithState(body) == Then(Only("get"), Then(body, Only("put")))

(* A search of a lazy DFA works on the pooled cache and ends, when the     *)
(* cache is full or the search gives up, in the DFA's own PikeVM.          *)
Search == Only("search")
ForwardDfa == Search \cup Then(Search, Only(ForwardDfaVM))
ReverseDfa == Search \cup Then(Search, Only(ReverseDfaVM))
BidirectionalDfa == ForwardDfa \cup Then(ForwardDfa, ReverseDfa)

-----------------------------------------------------------------------------
(* Find and FindAt                                                         *)

FindNFA   == WithState(Search)
FindNFAAt == Only(EngineVM)
FindDFA ==
  Nothing \cup Only(EngineVM)
  \cup Then(WithState(ForwardDfa), Nothing \cup Only(EngineVM))
FindDFAAt ==
  Nothing \cup Only(EngineVM)
  \cup Then(WithState(ForwardDfa), Nothing \cup Only(EngineVM))
FindAdaptive ==
  Nothing \cup Only(EngineVM) \cup FindNFA
  \cup Then(WithState(ForwardDfa), Only(EngineVM) \cup FindNFA)
FindAdaptiveAt ==
  FindNFAAt
  \cup Then(WithState(ForwardDfa),
            Only(EngineVM) \cup FindNFAAt \cup Then(Only(EngineVM), FindNFAAt))
FindBoundedBacktracker   == Nothing \cup FindNFA \cup Only(AsciiBT)
FindBoundedBacktrackerAt == FindNFAAt
FindTeddy   == Nothing \cup FindNFA \cup FindNFAAt
FindTeddyAt == Nothing \cup FindNFAAt
FindDigitPrefilter ==
  FindNFA \cup WithState(Loop(Search \cup Then(ForwardDfa, Search)))
FindDigitPrefilterAt ==
  FindNFAAt \cup WithState(Loop(Search \cup Then(ForwardDfa, Search)))
FindAhoCorasick   == Nothing \cup FindNFA
FindAhoCorasickAt == Nothing \cup FindNFAAt

-----------------------------------------------------------------------------
(* FindIndices and FindIndicesAt                                           *)

IndicesNFA   == WithState(Loop(Search))
IndicesNFAAt == WithState(Loop(Search))
IndicesBidirectionalDFA == WithState(BidirectionalDfa)
IndicesDFA ==
  Nothing \cup Only(EngineVM) \cup IndicesBidirectionalDFA
  \cup Then(WithState(ForwardDfa), Nothing \cup Only(EngineVM))
IndicesDFAAt ==
  Nothing \cup Only(EngineVM) \cup IndicesBidirectionalDFA
  \cup Then(WithState(ForwardDfa), Nothing \cup Only(EngineVM))
IndicesAdaptive ==
  Nothing \cup Only(EngineVM) \cup IndicesNFA
  \cup Then(WithState(ForwardDfa), Only(EngineVM) \cup IndicesNFA)
IndicesAdaptiveAt ==
  Nothing \cup Only(EngineVM) \cup IndicesNFAAt
  \cup Then(WithState(ForwardDfa), Only(EngineVM) \cup IndicesNFAAt)
IndicesBoundedBacktracker ==
  Nothing \cup IndicesNFA \cup Only(EngineVM) \cup IndicesBidirectionalDFA
  \cup WithState(Search)
IndicesBoundedBacktrackerAt ==
  IndicesNFAAt \cup IndicesBidirectionalDFA \cup Only(EngineVM) \cup Only(AsciiBT)
  \cup WithState(Search)
IndicesTeddy   == Nothing \cup IndicesNFA \cup IndicesNFAAt
IndicesTeddyAt == Nothing \cup IndicesNFAAt
IndicesDigitPrefilter   == IndicesNFA \cup WithState(Loop(Search \cup ForwardDfa))
IndicesDigitPrefilterAt == IndicesNFAAt \cup WithState(Loop(Search \cup ForwardDfa))
IndicesAhoCorasick   == Nothing \cup IndicesNFA
IndicesAhoCorasickAt == Nothing \cup IndicesNFAAt

-----------------------------------------------------------------------------
(* One iteration of a FindAll or Count loop, which already holds a state.  *)
(* The strategies that have no variant taking the held state get another   *)
(* one: Teddy and Aho-Corasick do so when the loop reaches the end of the  *)
(* haystack.                                                               *)

HeldNFAAt == Loop(Search)
HeldDFAAt == Nothing \cup Search \cup BidirectionalDfa \cup Then(ForwardDfa, Search)
HeldAdaptiveAt == Nothing \cup HeldNFAAt \cup Then(ForwardDfa, Search \cup HeldNFAAt)
HeldBoundedBacktrackerAt ==
  Nothing \cup HeldNFAAt \cup BidirectionalDfa \cup Only(AsciiBT)
  \cup Then(Only(AsciiBT), Search) \cup Search \cup Then(Search, Search)
HeldDigitPrefilterAt == HeldNFAAt \cup Loop(Search \cup ForwardDfa)

HeldIndicesAt(strategy) ==
  CASE strategy = "UseNFA"  -> HeldNFAAt
    [] strategy = "UseDFA"  -> HeldDFAAt
    [] strategy = "UseBoth" -> HeldAdaptiveAt
    [] strategy = "UseBoundedBacktracker" -> HeldBoundedBacktrackerAt
    [] strategy = "UseTeddy"          -> IndicesTeddyAt
    [] strategy = "UseDigitPrefilter" -> HeldDigitPrefilterAt
    [] strategy = "UseAhoCorasick"    -> IndicesAhoCorasickAt

(* OnePass works on the held state and is tried first.  Most strategies    *)
(* then extract captures from the held PikeVM alone; the others find the   *)
(* bounds first.                                                           *)
SubmatchHeldAt(strategy) ==
  LET bounds == IF strategy \in {"UseTeddy", "UseAhoCorasick"}
                THEN Then(HeldIndicesAt(strategy), Loop(Search))
                ELSE Search
  IN  Search \cup bounds \cup Then(Search, bounds)

-----------------------------------------------------------------------------
(* IsMatch                                                                 *)

IsMatchNFA == WithState(Loop(Search))
IsMatchDFA == WithState(ForwardDfa)
IsMatchAdaptive ==
  Nothing \cup IsMatchNFA \cup Then(WithState(ForwardDfa), Nothing \cup IsMatchNFA)
IsMatchBoundedBacktracker ==
  IsMatchNFA \cup Nothing \cup Only(EngineVM) \cup Only(AsciiBT) \cup WithState(Search)
IsMatchDigitPrefilter == IsMatchNFA \cup WithState(Loop(Search \cup ForwardDfa))

-----------------------------------------------------------------------------
(* The public searches of an engine, by the strategy it was compiled with. *)

Strategy == {"UseNFA", "UseDFA", "UseBoth", "UseBoundedBacktracker", "UseTeddy",
             "UseDigitPrefilter", "UseAhoCorasick"}

FindAt(strategy) ==
  CASE strategy = "UseNFA"  -> FindNFA \cup FindNFAAt
    [] strategy = "UseDFA"  -> FindDFA \cup FindDFAAt
    [] strategy = "UseBoth" -> FindAdaptive \cup FindAdaptiveAt
    [] strategy = "UseBoundedBacktracker" -> FindBoundedBacktracker \cup FindBoundedBacktrackerAt
    [] strategy = "UseTeddy"          -> FindTeddy \cup FindTeddyAt
    [] strategy = "UseDigitPrefilter" -> FindDigitPrefilter \cup FindDigitPrefilterAt
    [] strategy = "UseAhoCorasick"    -> FindAhoCorasick \cup FindAhoCorasickAt

FindIndicesAt(strategy) ==
  CASE strategy = "UseNFA"  -> IndicesNFA \cup IndicesNFAAt
    [] strategy = "UseDFA"  -> IndicesDFA \cup IndicesDFAAt
    [] strategy = "UseBoth" -> IndicesAdaptive \cup IndicesAdaptiveAt
    [] strategy = "UseBoundedBacktracker" -> IndicesBoundedBacktracker \cup IndicesBoundedBacktrackerAt
    [] strategy = "UseTeddy"          -> IndicesTeddy \cup IndicesTeddyAt
    [] strategy = "UseDigitPrefilter" -> IndicesDigitPrefilter \cup IndicesDigitPrefilterAt
    [] strategy = "UseAhoCorasick"    -> IndicesAhoCorasick \cup IndicesAhoCorasickAt

IsMatch(strategy) ==
  CASE strategy = "UseNFA"  -> IsMatchNFA
    [] strategy = "UseDFA"  -> IsMatchDFA
    [] strategy = "UseBoth" -> IsMatchAdaptive
    [] strategy = "UseBoundedBacktracker" -> IsMatchBoundedBacktracker
    [] strategy \in {"UseTeddy", "UseAhoCorasick"} -> Nothing \cup IsMatchNFA
    [] strategy = "UseDigitPrefilter" -> IsMatchDigitPrefilter

(* A loop holds one state for all its iterations, and takes the DFA pair   *)
(* directly where the strategy has both; an anchored pattern is searched   *)
(* once without holding one.                                               *)
FindAll(strategy) ==
  FindIndicesAt(strategy)
  \cup WithState(Loop(IF strategy \in {"UseDFA", "UseBoth"}
                      THEN BidirectionalDfa \cup HeldIndicesAt(strategy)
                      ELSE HeldIndicesAt(strategy)))
FindSubmatch(strategy) == Nothing \cup WithState(SubmatchHeldAt(strategy))
FindAllSubmatch(strategy) == Nothing \cup WithState(Loop(SubmatchHeldAt(strategy)))

Calls(strategy) ==
  FindAt(strategy) \cup FindIndicesAt(strategy) \cup IsMatch(strategy)
  \cup FindAll(strategy) \cup FindSubmatch(strategy) \cup FindAllSubmatch(strategy)
=============================================================================
