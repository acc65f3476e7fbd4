------------------------------ MODULE MCGralloc ------------------------------
(* Values for the constants of Gralloc. *)
EXTENDS Gralloc, TLC

CONSTANTS b1, b2, b3

MCBuffers == {b1, b2, b3}
MCSizes == {256, 4096, 8192}    \* what pmemalloc_test.cpp asks for, a page, two pages
Symmetry == Permutations(MCBuffers)
=============================================================================
