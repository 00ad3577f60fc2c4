--------------------------- MODULE MCNl80211Scan ---------------------------
(* Scan results for TLC: a whole one and, for each part, one that lacks it. *)
EXTENDS Nl80211Scan

MCBss == {"whole"} \cup Part  \* "whole", or the part that the result lacks

MCHas == [b \in MCBss |-> Part \ {b}]
=============================================================================
