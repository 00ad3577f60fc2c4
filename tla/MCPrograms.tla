----------------------------- MODULE MCPrograms -----------------------------
(* Constants of Programs for TLC. *)
EXTENDS Programs

MCNode    == 1..(MaxLen + 1)
MCEntry   == -1..(MaxLen + 1)
MCArrays  == UNION {[0..(n - 1) -> 0..(n - 1)] : n \in 1..4}
               \cup [0..7 -> {0, 1}] \cup [0..8 -> {0, 1}]
==============================================================================
