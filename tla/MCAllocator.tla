---------------------------- MODULE MCAllocator ----------------------------
(* The output size of one shape is the input size of the other. *)
EXTENDS Allocator, TLC

TwoShapes == {<<1, 2>>, <<2, 3>>}
Symmetry == Permutations(Streams)
=============================================================================
