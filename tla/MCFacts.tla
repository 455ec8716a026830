------------------------------ MODULE MCFacts -------------------------------
(* A small instance of Facts for TLC. *)
EXTENDS Facts, TLC

CONSTANTS tea, teas, login, drink, what

MCTexts == {tea, teas, login}

\* The question names tea: the index finds the word, the fallback also finds it
\* inside another; every text answers the second question.
MCMatches == {<<drink, tea>>} \cup ({what} \X MCTexts)
MCOverlaps == {<<drink, tea>>, <<drink, teas>>} \cup ({what} \X MCTexts)

Symmetry == Permutations(Ids)
=============================================================================
