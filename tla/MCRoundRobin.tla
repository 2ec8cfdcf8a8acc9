------------------------------ MODULE MCRoundRobin -----------------------------
(* ServiceChannel with its history on small sets: a counter of a few bits and *)
(* a size_t of a few more stand for the 32 and 64 bits of the code.  Every    *)
(* power of two leaves the remainder 1 or 2 modulo 3, as 2^32 and 2^64 do.    *)
EXTENDS RoundRobin, TLC
================================================================================
