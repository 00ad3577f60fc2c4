---------------------------- MODULE MCXdpDropIcmp ----------------------------
(* Instances of XdpDropIcmp for TLC.                                       *)
EXTENDS XdpDropIcmp, TLC

\* Keys share a bucket, so their order is that of their last update.
MCBucket == [k \in Key |-> 0]

\* One length on each side of the two header bounds, and a longer frame.
MCLength == {13, 14, 33, 34, 60}

\* Elements and CPUs are interchangeable.
Symm == Permutations(Elem) \cup Permutations(CPU)
==============================================================================
