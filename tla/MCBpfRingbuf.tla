----------------------------- MODULE MCBpfRingbuf -----------------------------
(* A ring of 8 words: records of the right size take 2 words, those of the *)
(* wrong size 3.  Starting at 13, records straddle both the end of the     *)
(* data pages and the wrap of the compared half of the positions (16).     *)
EXTENDS BpfRingbuf

CONSTANTS p1, p2

MCPollers == {p1, p2}
MCLens == {8, 12}
MCStartPositions == {13}
===============================================================================
