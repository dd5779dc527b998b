------------------------------ MODULE Samples ------------------------------
(***************************************************************************)
(* Algorithms are looked at one input at a time.                           *)
(***************************************************************************)

VARIABLE sample  \* the input: its kind, and what the algorithms of that kind take
=============================================================================
