------------------------------ MODULE MCFiles ------------------------------
(* Buffers of one and two bytes, empty ones among them.                     *)
EXTENDS Files

CONSTANTS a, b, dot, dotdot

MCStdIn == <<1>>
MCWriteVecs == {<<<<1>>>>, <<<<1>>, <<>>, <<1>>>>, <<<<>>>>}
MCReadVecs == {<<1>>, <<1, 0, 2>>}
============================================================================
