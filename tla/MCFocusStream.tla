--------------------------- MODULE MCFocusStream ---------------------------
(* Small instances of FocusStream for TLC.                                 *)
EXTENDS FocusStream, TLC

CONSTANTS h1, h2, a1, a2

OneHost == <<h1>>
TwoHosts == <<h1, h2>>

\* No label has surrounding white space.
Plain == [a \in App |-> a]
SteadyFirst == {a1}

AppPermutations == Permutations(App)
=============================================================================
