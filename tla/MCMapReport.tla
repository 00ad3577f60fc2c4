----------------------------- MODULE MCMapReport -----------------------------
(* Instances of MapReport for TLC.                                         *)
EXTENDS MapReport

CONSTANTS k1, k2, k3, c1, e1, e2

\* k1 and k2 share a bucket, k3 follows in another.
MCBucket == [k \in Key |-> IF k = k3 THEN 1 ELSE 0]

\* Liveness rules symmetry out; as elements are interchangeable, it is enough to
\* fix which of them are the CPUs' spares at the start.
MCSpare == [c \in CPU |-> IF c = c1 THEN e1 ELSE e2]
MCInit  == RInit /\ spare = MCSpare
MCSpec  == MCInit /\ [][RNext]_rvars /\ WF_rvars(StartPass \/ Report)
==============================================================================
