------------------------------ MODULE MapReport ------------------------------
(***************************************************************************)
(* The report loop of the loader (bpf/prog_loader.c, lines 111-151) while  *)
(* drop_icmp runs: every three seconds it walks the map with               *)
(* bpf_map_get_next_key from the key {0,0} and prints what it reads for    *)
(* each key it is given.  Keys are linked and relinked while it walks.     *)
(***************************************************************************)
EXTENDS XdpDropIcmp

CONSTANT ZeroKey  \* the key {0, 0} every pass starts from (line 115)

VARIABLES
  rpc,          \* the loop's next step
  current_key,  \* the key the walk has reached
  next_key,     \* the key the map gave it
  rvalue,       \* the VALUE being copied to user space
  relem,        \* the element the copy reads
  reported,     \* reported[k]: how often this pass printed k, and
  report,       \* report[k]: the packet count it printed last
  stable,       \* history: keys in the map since the pass began, not relinked
  moved         \* history: a key was relinked during the pass

readVars == <<rpc, current_key, next_key, rvalue, relem, reported, report>>
passVars == <<stable, moved>>
rvars    == <<vars, readVars, passVars>>

------------------------------------------------------------------------------
(* The kernel's order of keys (external): by bucket, and within a bucket   *)
(* the key linked last comes first.                                        *)

Precedes(j, k) == \/ Bucket[j] < Bucket[k]
                  \/ Bucket[j] = Bucket[k] /\ stamp[j] > stamp[k]

\* The keys after k; all of them when k is not in the map.
After(k) == IF k \in Live THEN {j \in Live : Precedes(k, j)} ELSE Live

\* bpf_map_get_next_key
get_next_key(k) == CHOOSE j \in After(k) :
                      \A i \in After(k) \ {j} : Precedes(j, i)

------------------------------------------------------------------------------
RInit ==
  /\ Init
  /\ rpc = "sleep"
  /\ current_key = ZeroKey
  /\ next_key = NULL
  /\ rvalue = [bytes |-> 0, counts |-> 0]
  /\ relem = NULL
  /\ reported = [k \in Key |-> 0]
  /\ report = [k \in Key |-> 0]
  /\ stable = {}
  /\ moved = FALSE

\* sleep(3) is over: KEY current_key = {0, 0}
StartPass ==
  /\ rpc = "sleep"
  /\ rpc' = "next"
  /\ current_key' = ZeroKey
  /\ reported' = [k \in Key |-> 0]
  /\ stable' = Live
  /\ moved' = FALSE
  /\ UNCHANGED <<vars, next_key, rvalue, relem, report>>

\* Mutant: the loop asks for a key in its condition and again in its body.
NextKeySkips ==
  /\ rpc = "next"
  /\ After(current_key) # {}
  /\ LET k == get_next_key(current_key)
     IN next_key' = IF After(k) = {} THEN k ELSE get_next_key(k)
  /\ rpc' = "copyBytes"
  /\ UNCHANGED <<vars, current_key, rvalue, relem, reported, report, passVars>>

\* The while condition finds another key ...
NextKey ==
  /\ rpc = "next"
  /\ After(current_key) # {}
  /\ next_key' = get_next_key(current_key)
  /\ rpc' = "copyBytes"
  /\ UNCHANGED <<vars, current_key, rvalue, relem, reported, report, passVars>>

\* ... or does not, and the pass is over.
EndPass ==
  /\ rpc = "next"
  /\ After(current_key) = {}
  /\ rpc' = "sleep"
  /\ current_key' = ZeroKey
  /\ UNCHANGED <<vars, next_key, rvalue, relem, reported, report, passVars>>

\* bpf_map_lookup_elem from user space copies the two longs one after the
\* other out of the element it found.
CopyBytes ==
  /\ rpc = "copyBytes"
  /\ rpc' = "copyCounts"
  /\ relem' = map_lookup(next_key)
  /\ rvalue' = [rvalue EXCEPT !.bytes = mem[map_lookup(next_key)].bytes]
  /\ UNCHANGED <<vars, current_key, next_key, reported, report, passVars>>

CopyCounts ==
  /\ rpc = "copyCounts"
  /\ rpc' = "print"
  /\ rvalue' = [rvalue EXCEPT !.counts = mem[relem].counts]
  /\ UNCHANGED <<vars, current_key, next_key, relem, reported, report, passVars>>

\* Mutant: line 147 is missing.
PrintKeyStuck ==
  /\ rpc = "print"
  /\ rpc' = "next"
  /\ reported' = [reported EXCEPT ![next_key] = IF @ < 2 THEN @ + 1 ELSE @]
  /\ report' = [report EXCEPT ![next_key] = rvalue.counts]
  /\ next_key' = NULL
  /\ rvalue' = [bytes |-> 0, counts |-> 0]
  /\ relem' = NULL
  /\ UNCHANGED <<vars, current_key, passVars>>

\* Mutant: the last two arguments of printf are swapped.
PrintKeyBytes ==
  /\ rpc = "print"
  /\ rpc' = "next"
  /\ reported' = [reported EXCEPT ![next_key] = @ + 1]
  /\ report' = [report EXCEPT ![next_key] = rvalue.bytes]
  /\ current_key' = next_key
  /\ next_key' = NULL
  /\ rvalue' = [bytes |-> 0, counts |-> 0]
  /\ relem' = NULL
  /\ UNCHANGED <<vars, passVars>>

\* "src=%s, dst=%s, already dropped %ld packets"; current_key = next_key.
\* The locals of the loop body end here.
PrintKey ==
  /\ rpc = "print"
  /\ rpc' = "next"
  /\ reported' = [reported EXCEPT ![next_key] = @ + 1]
  /\ report' = [report EXCEPT ![next_key] = rvalue.counts]
  /\ current_key' = next_key
  /\ next_key' = NULL
  /\ rvalue' = [bytes |-> 0, counts |-> 0]
  /\ relem' = NULL
  /\ UNCHANGED <<vars, passVars>>

Report == NextKey \/ EndPass \/ CopyBytes \/ CopyCounts \/ PrintKey

Traffic ==
  /\ Next
  /\ stable' = {k \in stable : stamp'[k] = stamp[k]}
  /\ moved' = (moved \/ \E k \in Live : stamp'[k] # stamp[k])
  /\ UNCHANGED readVars

RNext == Traffic \/ StartPass \/ Report

\* The loader is scheduled and sleep(3) returns.
RSpec == RInit /\ [][RNext]_rvars /\ WF_rvars(StartPass \/ Report)

------------------------------------------------------------------------------
(* Properties.                                                             *)

\* A finished pass has printed every source that was in the map throughout it
\* (lines 111-151), although other keys were linked and relinked meanwhile.
PassComplete == rpc = "sleep" => \A k \in stable : reported[k] >= 1

\* A pass during which no key is relinked prints no source twice, although keys
\* are inserted around it.
PrintedOnce == ~moved => \A k \in Key : reported[k] <= 1

\* As long as every update of the map was an insertion, what a pass prints for a
\* source (lines 120-145) is a number of frames the source really lost, although
\* its two longs are copied one by one while CPUs update them.
ReportFresh == clock = Cardinality(Live) =>
                  \A k \in Key : reported[k] > 0 => report[k] \in 1..dropped[k]

\* Every pass ends: relinking a key behind the walk cannot hold it up forever.
PassEnds == rpc # "sleep" ~> rpc = "sleep"
==============================================================================
