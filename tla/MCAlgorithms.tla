----------------------------- MODULE MCAlgorithms -----------------------------
(***************************************************************************)
(* The algorithms of the repository, which share nothing: in a behaviour   *)
(* one of them, on the bench, is exercised on all of its small inputs.     *)
(***************************************************************************)
EXTENDS PerfectHash, HandEvaluator, Message, CardRange, CombinedRange, Random

VARIABLE bench

vars == <<hashVars, handVars, msgVars, rangeVars, combinedVars, randomVars, bench>>

\* Two cards of the small ranks, three and four of the big ones: room for a
\* full house, four of a kind, straights and flushes.
MCDeck == ((0 .. 5) \X {0, 1}) \cup ({3, 4, 5} \X {2}) \cup ({4, 5} \X {3})

\* Hands of two ranks and of four characters, signs, a capital and a space.
MCPieces ==
    {<<"k", "q">>, <<"t", "K">>, <<"q", "q">>, <<"k", "h">>, <<"q", "s">>, <<"o">>,
     <<"+">>, <<",">>, <<",", "9", "9">>, <<" ", "k">>, <<"r", "a", "n", "d", "o", "m">>}

\* Ranges of up to four pairs of six cards, some with cards in common.
MCRanges ==
    {<<<<1, 0>>>>, <<<<1, 0>>, <<2, 0>>, <<2, 1>>>>, <<<<2, 1>>, <<4, 3>>>>,
     <<<<3, 0>>, <<4, 0>>, <<5, 0>>>>, <<>>,
     <<<<5, 4>>, <<5, 3>>, <<4, 3>>, <<1, 0>>>>}

Init ==
    /\ bench = "empty"
    /\ HashInit /\ HandInit /\ MessageInit /\ RangeInit /\ CombinedInit /\ RandomInit

On(what) == bench \in {"empty", what} /\ bench' = what

Next ==
    \/ /\ On("hash") /\ HashNext
       /\ UNCHANGED <<handVars, msgVars, rangeVars, combinedVars, randomVars>>
    \/ /\ On("evaluator") /\ HandNext
       /\ UNCHANGED <<hashVars, msgVars, rangeVars, combinedVars, randomVars>>
    \/ /\ On("message") /\ MessageNext
       /\ UNCHANGED <<hashVars, handVars, rangeVars, combinedVars, randomVars>>
    \/ /\ On("range") /\ RangeNext
       /\ UNCHANGED <<hashVars, handVars, msgVars, combinedVars, randomVars>>
    \/ /\ On("ranges") /\ CombinedNext
       /\ UNCHANGED <<hashVars, handVars, msgVars, rangeVars, randomVars>>
    \/ /\ \/ On("words") /\ XoroNext /\ UNCHANGED distributionVars
          \/ On("unique") /\ UniqueNext /\ UNCHANGED distributionVars
          \/ On("fast") /\ FastNext
          \/ On("even") /\ EvenNext
       /\ UNCHANGED <<hashVars, handVars, msgVars, rangeVars, combinedVars>>

Spec == Init /\ [][Next]_vars

=============================================================================
