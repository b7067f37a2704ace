---------------------------- MODULE MCCommentary ----------------------------
(* Commentary for TLC: model calls are interchangeable.                    *)
EXTENDS Commentary, TLC

Symmetry == Permutations(Call)
=============================================================================
