----------------------------- MODULE Saturating -----------------------------
(* The difference of two readings of a counter that may have been reset.    *)
EXTENDS Integers

\* saturating_sub
Minus(a, b) == IF b > a THEN 0 ELSE a - b
=============================================================================
