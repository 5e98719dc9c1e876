---------------------------- MODULE MCAutotrust ----------------------------
(* Instances of Autotrust for TLC. *)
EXTENDS Autotrust, TLC

CONSTANTS w1, w2, k1, k2, z1

Symmetry == Permutations(Ksk)
=============================================================================
