---------------------------- MODULE MCBlockOrder ----------------------------
(* BlockOrder on small instances.  Blocks are ordered by their numbers, so   *)
(* only the teachers are interchangeable.                                    *)
EXTENDS BlockOrder, TLC

CONSTANTS ann, bob

Symmetry == Permutations(Teacher)
=============================================================================
