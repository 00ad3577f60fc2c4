----------------------------- MODULE IcmpCounter -----------------------------
(***************************************************************************)
(* What the drop counters promise a reader of the map: every dropped ICMP  *)
(* frame adds exactly one to the packet count of its {source, destination} *)
(* pair and its length to the byte count, in one step; only a pair that    *)
(* finds the table full when it first appears stays uncounted.             *)
(***************************************************************************)
EXTENDS Integers, FiniteSets

CONSTANTS Key, Length, Capacity

VARIABLES tracked,  \* the pairs with an entry
          counts,   \* counts[k]: the packet count of pair k
          bytes,    \* bytes[k]: its byte count
          dropped   \* dropped[k]: how many of its frames were dropped

cvars == <<tracked, counts, bytes, dropped>>

CInit ==
  /\ tracked = {}
  /\ counts = [k \in Key |-> 0]
  /\ bytes = [k \in Key |-> 0]
  /\ dropped = [k \in Key |-> 0]

Drop(k) == dropped' = [dropped EXCEPT ![k] = @ + 1]

Count(k, n) ==
  /\ k \in tracked \/ Cardinality(tracked) < Capacity
  /\ tracked' = tracked \cup {k}
  /\ counts' = [counts EXCEPT ![k] = @ + 1]
  /\ bytes' = [bytes EXCEPT ![k] = @ + n]
  /\ Drop(k)

DropUncounted(k) ==
  /\ k \notin tracked
  /\ Cardinality(tracked) = Capacity
  /\ Drop(k)
  /\ UNCHANGED <<tracked, counts, bytes>>

CNext == \E k \in Key : \/ \E n \in Length : Count(k, n)
                        \/ DropUncounted(k)

CSpec == CInit /\ [][CNext]_cvars
==============================================================================
