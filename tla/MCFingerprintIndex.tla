-------------------------- MODULE MCFingerprintIndex --------------------------
(* Four rows, three node ids (so groups of different sizes form: two      *)
(* nodes on one bitmap, one on another), two timestamps (so ties and      *)
(* supersession both happen), two bitmaps that decode to the same names  *)
(* but differ in flen (spec 9), and a channel limit below the channel row *)
(* count.                                                                  *)
EXTENDS FingerprintIndex, TLC

CONSTANTS r1, r2, r3, r4, n1, n2, n3

MCRows == {r1, r2, r3, r4}
MCNodeIds == {n1, n2, n3}
MCBitmaps == {<<2>>, <<0, 2>>}

Symmetry == Permutations(MCRows) \cup Permutations(MCNodeIds)
=============================================================================
