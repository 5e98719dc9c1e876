------------------------------- MODULE MCXfr -------------------------------
(* Instances of Xfr for TLC. *)
EXTENDS Xfr

CONSTANTS w1, w2, h1, h2, u1, n1

OnePrimary == <<h1>>
NoHosts == <<>>
OneUrl == <<u1>>
Block == <<n1>>
=============================================================================
