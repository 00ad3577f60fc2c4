------------------------------ MODULE MCDropUdp ------------------------------
(* Instances of DropUdp for TLC.                                           *)
EXTENDS DropUdp, TLC

\* CPUs, processes and blocks are interchangeable.
Symm == Permutations(CPU) \cup Permutations(Proc) \cup Permutations(Block)
==============================================================================
