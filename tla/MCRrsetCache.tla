---------------------------- MODULE MCRrsetCache ----------------------------
(* Instances of RrsetCache for TLC. *)
EXTENDS RrsetCache, TLC

CONSTANTS t1, t2, aa, bb, d1, d2, s1, s2, s3

\* The slots in the order of their addresses.
AddrMV == [s \in Slot |-> CASE s = s1 -> 1 [] s = s2 -> 2 [] s = s3 -> 3]

\* Names that are in one bin until the array has grown.
HashMV == [n \in Name |-> IF n = aa THEN 0 ELSE 1]

\* Two of d1 fit, d2 alone is too large.
SizeMV == [d \in Data |-> IF d = d1 THEN 1 ELSE 3]

\* Messages with an rrset of each name.
Both == {<<aa, bb>>}

\* Messages of one rrset.
Single == {<<aa>>, <<bb>>}

\* Messages of one rrset or of two.
OneOrBoth == {<<aa>>, <<aa, bb>>}

NoReplies == {}

ThreadSymmetry == Permutations(Thread)

\* Only messages of two rrsets depend on the addresses.
ThreadSlotSymmetry == Permutations(Thread) \cup Permutations(Slot)
=============================================================================
