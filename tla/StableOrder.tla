---------------------------- MODULE StableOrder -----------------------------
(* The running order of rows, in every list of the program: a row that     *)
(* stays keeps its place.                                                  *)
EXTENDS Naturals, Sequences

\* stable_order.retain: the elements of seq that are in S, in their order.
Only(seq, S) ==
  LET only[n \in 0..Len(seq)] ==
        IF n = 0 THEN <<>>
        ELSE IF seq[n] \in S THEN Append(only[n - 1], seq[n]) ELSE only[n - 1]
  IN  only[Len(seq)]

\* a has a place before one of b.
Before(a, b, seq) == \E i, j \in DOMAIN seq : i < j /\ seq[i] = a /\ seq[j] = b
=============================================================================
