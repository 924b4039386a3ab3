------------------------------- MODULE MCLists -------------------------------
(* Instances of Lists for TLC.                                              *)
EXTENDS Lists

CONSTANTS p1, i1, b1, g1, a1, d1, d2

Range(lo, hi) == [range |-> TRUE, lo |-> lo, hi |-> hi]
Network(lo, hi) == [range |-> FALSE, lo |-> lo, hi |-> hi]
\* Nothing, an address, a network, and a range of a /32 and a /31.
IpTexts == {{}, {Network(1, 1), Network(2, 3)}, {Range(1, 3)}}
=============================================================================
