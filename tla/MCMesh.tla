------------------------------- MODULE MCMesh -------------------------------
(* Instances of Mesh for TLC. *)
EXTENDS Mesh, TLC

CONSTANTS q1, q2, q3, c1, c2, c3, k1

\* All clients use UDP.
UdpOnly == [c \in Client |-> UDP]

\* Every client uses the connection k1.
OneConn == [c \in Client |-> k1]

\* c1 and c2 share the connection k1, the others use UDP.
Mixed == [c \in Client |-> IF c \in {c1, c2} THEN k1 ELSE UDP]

QuerySymmetry == Permutations(Query)

StreamSymmetry == Permutations(Query) \cup Permutations({c1, c2})
=============================================================================
