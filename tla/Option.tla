------------------------------- MODULE Option -------------------------------
(* The empty Option, one for all the modules that are extended together.    *)
CONSTANT None
=============================================================================
