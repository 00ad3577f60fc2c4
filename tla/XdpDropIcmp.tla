----------------------------- MODULE XdpDropIcmp -----------------------------
(***************************************************************************)
(* The XDP program drop_icmp (bpf/xdp_prog.c) running on several CPUs over *)
(* one BPF hash map.  A CPU handles one frame at a time and is not         *)
(* preempted, but CPUs interleave at every access to the shared map: the   *)
(* lookup, the update of a missing key, and the plain loads and stores     *)
(* that `value->drop_bytes += bytes; value->drop_counts++` compile to.     *)
(*                                                                         *)
(* The map itself is the kernel's preallocated hash table (external).  The *)
(* program keeps a raw pointer into it across other CPUs' updates, so its  *)
(* elements are modelled one by one: a value pointer is an element, an     *)
(* update of an absent key takes a free element, and an update of a        *)
(* present key links the updating CPU's spare element in place of the old  *)
(* one, which becomes that CPU's spare.                                    *)
(***************************************************************************)
EXTENDS Integers, FiniteSets, Functions

CONSTANTS CPU,      \* the CPUs that receive frames
          Key,      \* {source, destination} pairs of ICMP traffic
          Elem,     \* the preallocated elements: max_entries + one spare a CPU
          Bucket,   \* the hash bucket of a key
          Length,   \* frame lengths in bytes
          MaxPkts,  \* bound: ICMP frames received in a behaviour
          NULL

\* A frame: its length, whether h_proto is IP and protocol is ICMP, and its
\* source and destination addresses (headers past its end are never read).
Frame == [len : Length, ip : BOOLEAN, icmp : BOOLEAN, key : Key]

ASSUME NullAssumption == NULL \notin Elem \cup Key /\ NULL \notin Frame

ASSUME SizeAssumption == /\ Length \subseteq Nat
                         /\ MaxPkts \in Nat

ASSUME KeyAssumption == IsFiniteSet(Key) /\ Bucket \in [Key -> Nat]

ASSUME PoolAssumption == /\ IsFiniteSet(Elem)
                         /\ \E f \in [CPU -> Elem] :
                              \A c, d \in CPU : f[c] = f[d] => c = d

VARIABLES
  pc,       \* pc[c]: the next access of CPU c to shared state
  frame,    \* frame[c]: the ICMP frame CPU c is handling
  value,    \* value[c]: the local `value`, a pointer into the map or NULL
  reg,      \* reg[c]: the register of a load-add-store
  verdict,  \* verdict[c]: what drop_icmp last returned on CPU c
  slot,     \* slot[k]: the element linked for key k
  mem,      \* mem[e]: the VALUE stored in element e
  spare,    \* spare[c]: CPU c's spare element
  free,     \* the elements on the free list
  stamp,    \* stamp[k]: when k was last linked, which orders its bucket
  clock,    \* the number of updates so far
  received, \* history: ICMP frames received, at most MaxPkts
  dropped,  \* history: dropped[k] ICMP frames of key k were dropped
  credit    \* history: credit[e] frames have been counted into element e

cpuVars  == <<pc, frame, value, reg, verdict>>
mapVars  == <<slot, mem, spare, free, stamp, clock>>
histVars == <<received, dropped, credit>>
vars     == <<cpuVars, mapVars, histVars>>

------------------------------------------------------------------------------
(* Frames and the verdict on their headers.                                *)

ETH_HLEN == 14
IP_HLEN  == 20

\* The struct value of xdp_prog.c (two longs).
Value == [bytes : Nat, counts : Nat]

\* Mutant: the test of line 37 is missing.
HeaderVerdictNoIp(f) ==
  IF f.len < ETH_HLEN THEN "ABORTED" ELSE IF f.ip /\ f.icmp THEN "DROP" ELSE "PASS"

\* The tests drop_icmp makes on a frame before it touches the map.  A header
\* is only read once it is known to lie within the frame.
HeaderVerdict(f) ==
  IF f.len < ETH_HLEN THEN "ABORTED"
  ELSE IF ~f.ip THEN "PASS"
  ELSE IF f.len < ETH_HLEN + IP_HLEN THEN "ABORTED"
  ELSE IF f.icmp THEN "DROP" ELSE "PASS"

------------------------------------------------------------------------------
(* The map (external): what the program's two helpers do to it.            *)

Live == {k \in Key : slot[k] # NULL}

\* bpf_map_lookup_elem: the address of the key's value, or NULL.
map_lookup(k) == slot[k]

\* bpf_map_update_elem(..., BPF_ANY) on CPU c: replace or insert; when the
\* key is absent and no element is free it fails and changes nothing.
map_replace(c, k, v) ==
  /\ slot[k] # NULL
  /\ slot'  = [slot EXCEPT ![k] = spare[c]]
  /\ spare' = [spare EXCEPT ![c] = slot[k]]
  /\ mem'   = [mem EXCEPT ![spare[c]] = v]
  /\ stamp' = [stamp EXCEPT ![k] = clock + 1]
  /\ clock' = clock + 1
  /\ UNCHANGED free

map_insert(k, v) ==
  /\ slot[k] = NULL
  /\ \E e \in free :
       /\ slot' = [slot EXCEPT ![k] = e]
       /\ free' = free \ {e}
       /\ mem'  = [mem EXCEPT ![e] = v]
  /\ stamp' = [stamp EXCEPT ![k] = clock + 1]
  /\ clock' = clock + 1
  /\ UNCHANGED spare

map_full(k) ==
  /\ slot[k] = NULL
  /\ free = {}
  /\ UNCHANGED mapVars

map_update(c, k, v) == map_replace(c, k, v) \/ map_insert(k, v) \/ map_full(k)

------------------------------------------------------------------------------
Init ==
  /\ pc = [c \in CPU |-> "idle"]
  /\ frame = [c \in CPU |-> NULL]
  /\ value = [c \in CPU |-> NULL]
  /\ reg = [c \in CPU |-> 0]
  /\ verdict = [c \in CPU |-> NULL]
  /\ slot = [k \in Key |-> NULL]
  /\ mem = [e \in Elem |-> [bytes |-> 0, counts |-> 0]]
  /\ spare \in [CPU -> Elem]
  /\ \A c, d \in CPU : spare[c] = spare[d] => c = d
  /\ free = Elem \ {spare[c] : c \in CPU}
  /\ stamp = [k \in Key |-> 0]
  /\ clock = 0
  /\ received = 0
  /\ dropped = [k \in Key |-> 0]
  /\ credit = [e \in Elem |-> 0]

Goto(c, from, to) == pc[c] = from /\ pc' = [pc EXCEPT ![c] = to]

\* The frame is decided on its headers alone.
DecideOnHeaders(c, f) ==
  /\ pc[c] = "idle"
  /\ HeaderVerdict(f) # "DROP"
  /\ verdict' = [verdict EXCEPT ![c] = HeaderVerdict(f)]
  /\ UNCHANGED <<pc, frame, value, reg, mapVars, histVars>>

\* An ICMP frame: its key and length are taken from the frame.
ReceiveIcmp(c, f) ==
  /\ HeaderVerdict(f) = "DROP"
  /\ Goto(c, "idle", "lookup")
  /\ received < MaxPkts
  /\ received' = received + 1
  /\ frame' = [frame EXCEPT ![c] = f]
  /\ verdict' = [verdict EXCEPT ![c] = NULL]
  /\ UNCHANGED <<value, reg, mapVars, dropped, credit>>

\* Mutant: the key is not set from the frame, so any entry may be found.
LookupWrongKey(c) == \E k \in Key :
  /\ pc[c] = "lookup"
  /\ value' = [value EXCEPT ![c] = map_lookup(k)]
  /\ pc' = [pc EXCEPT ![c] = IF map_lookup(k) = NULL THEN "update" ELSE "loadBytes"]
  /\ UNCHANGED <<frame, reg, verdict, mapVars, histVars>>

\* value = bpf_map_lookup_elem(&drop_icmp_map, &key)
Lookup(c) ==
  /\ pc[c] = "lookup"
  /\ value' = [value EXCEPT ![c] = map_lookup(frame[c].key)]
  /\ pc' = [pc EXCEPT ![c] = IF map_lookup(frame[c].key) = NULL
                             THEN "update" ELSE "loadBytes"]
  /\ UNCHANGED <<frame, reg, verdict, mapVars, histVars>>

\* return XDP_DROP: the frame is gone whether or not it was counted, and so
\* are drop_icmp's locals.
ReturnDrop(c) ==
  /\ verdict' = [verdict EXCEPT ![c] = "DROP"]
  /\ dropped' = [dropped EXCEPT ![frame[c].key] = @ + 1]
  /\ frame' = [frame EXCEPT ![c] = NULL]
  /\ value' = [value EXCEPT ![c] = NULL]
  /\ reg' = [reg EXCEPT ![c] = 0]
  /\ UNCHANGED received

\* Mutant: the flag of line 64 is BPF_EXIST, so a new key is refused.
UpdateNewExist(c) ==
  /\ Goto(c, "update", "idle")
  /\ \/ map_replace(c, frame[c].key, [bytes |-> frame[c].len, counts |-> 1])
     \/ slot[frame[c].key] = NULL /\ UNCHANGED mapVars
  /\ credit' = IF clock' = clock THEN credit
               ELSE [credit EXCEPT ![slot'[frame[c].key]] = @ + 1]
  /\ ReturnDrop(c)

\* The key was absent when looked up; the result of the update is ignored.
UpdateNew(c) ==
  /\ Goto(c, "update", "idle")
  /\ map_update(c, frame[c].key, [bytes |-> frame[c].len, counts |-> 1])
  /\ credit' = IF clock' = clock THEN credit
               ELSE [credit EXCEPT ![slot'[frame[c].key]] = @ + 1]
  /\ ReturnDrop(c)

\* value->drop_bytes += bytes
LoadBytes(c) ==
  /\ Goto(c, "loadBytes", "storeBytes")
  /\ reg' = [reg EXCEPT ![c] = mem[value[c]].bytes]
  /\ UNCHANGED <<frame, value, verdict, mapVars, histVars>>

\* Mutant: = instead of += on line 66.
StoreBytesOverwrite(c) ==
  /\ Goto(c, "storeBytes", "loadCounts")
  /\ mem' = [mem EXCEPT ![value[c]].bytes = frame[c].len]
  /\ UNCHANGED <<frame, value, reg, verdict,
                 slot, spare, free, stamp, clock, histVars>>

StoreBytes(c) ==
  /\ Goto(c, "storeBytes", "loadCounts")
  /\ mem' = [mem EXCEPT ![value[c]].bytes = reg[c] + frame[c].len]
  /\ UNCHANGED <<frame, value, reg, verdict,
                 slot, spare, free, stamp, clock, histVars>>

\* value->drop_counts++
LoadCounts(c) ==
  /\ Goto(c, "loadCounts", "storeCounts")
  /\ reg' = [reg EXCEPT ![c] = mem[value[c]].counts]
  /\ UNCHANGED <<frame, value, verdict, mapVars, histVars>>

\* Mutant: the frame is counted twice.
StoreCountsTwice(c) ==
  /\ Goto(c, "storeCounts", "idle")
  /\ mem' = [mem EXCEPT ![value[c]].counts = reg[c] + 2]
  /\ credit' = [credit EXCEPT ![value[c]] = @ + 1]
  /\ ReturnDrop(c)
  /\ UNCHANGED <<slot, spare, free, stamp, clock>>

StoreCounts(c) ==
  /\ Goto(c, "storeCounts", "idle")
  /\ mem' = [mem EXCEPT ![value[c]].counts = reg[c] + 1]
  /\ credit' = [credit EXCEPT ![value[c]] = @ + 1]
  /\ ReturnDrop(c)
  /\ UNCHANGED <<slot, spare, free, stamp, clock>>

Run(c) == \/ Lookup(c) \/ UpdateNew(c)
          \/ LoadBytes(c) \/ StoreBytes(c)
          \/ LoadCounts(c) \/ StoreCounts(c)

Next == \E c \in CPU : \/ \E f \in Frame : DecideOnHeaders(c, f)
                       \/ \E f \in Frame : ReceiveIcmp(c, f)
                       \/ Run(c)

Spec == Init /\ [][Next]_vars
------------------------------------------------------------------------------
(* Properties.                                                             *)

PC == {"idle", "lookup", "update",
       "loadBytes", "storeBytes", "loadCounts", "storeCounts"}

\* An ICMP frame that ends behind its two headers.
Whole(f) == f.ip /\ f.icmp /\ f.len >= ETH_HLEN + IP_HLEN

\* Type correctness.  A CPU that uses the map holds an ICMP frame whose two
\* headers lie within it (lines 32-42), and a value pointer exactly while it
\* updates in place.
TypeOK ==
  /\ pc \in [CPU -> PC]
  /\ frame \in [CPU -> Frame \cup {NULL}]
  /\ value \in [CPU -> Elem \cup {NULL}]
  /\ reg \in [CPU -> Nat]
  /\ verdict \in [CPU -> {"ABORTED", "PASS", "DROP", NULL}]
  /\ slot \in [Key -> Elem \cup {NULL}]
  /\ mem \in [Elem -> Value]
  /\ spare \in [CPU -> Elem]
  /\ free \subseteq Elem
  /\ stamp \in [Key -> Nat]
  /\ clock \in Nat
  /\ received \in Nat
  /\ dropped \in [Key -> Nat]
  /\ credit \in [Elem -> Nat]
  /\ \A c \in CPU :
       /\ pc[c] = "idle" <=> frame[c] = NULL
       /\ pc[c] # "idle" => Whole(frame[c])
       /\ pc[c] \in {"idle", "lookup", "update"} <=> value[c] = NULL

\* Only a full table loses a source entirely: a key with a dropped frame and
\* no entry implies that no element is free (lines 60-64).
UntrackedOnlyWhenFull ==
  \A k \in Key : dropped[k] > 0 /\ slot[k] = NULL => free = {}

\* No frame is counted into two elements, nor twice into one: an element's
\* count never exceeds the number of frames that were counted into it, however
\* CPUs interleave and whatever stale pointer they write through (lines 59-67).
CreditBound == \A e \in Elem : mem[e].counts <= credit[e]

\* No source is charged with more frames than it lost.  The value pointer of
\* line 59 is used after other CPUs' updates, so this rests on an element not
\* being reused for another key while a CPU still points to it.
CountsNotAbove == \A k \in Live : mem[slot[k]].counts <= dropped[k]

\* Over all sources together the map never shows more frames than were dropped
\* (lines 59-71): lost updates only lose, even through stale pointers.
TotalNotAbove == SumFunctionOnSet([k \in Live |-> mem[slot[k]].counts], Live)
                   <= SumFunctionOnSet(dropped, Key)

\* The count of a source is the number of its frames that were dropped, as the
\* loader reports it ("already dropped %ld packets").
CountsExact == \A k \in Live : mem[slot[k]].counts = dropped[k]

------------------------------------------------------------------------------
(* With one CPU the counters are those of IcmpCounter.                     *)

\* The part of key k's byte count whose frame is not in the packet count yet.
Unsettled(k) ==
  LET half == {c \in CPU : /\ pc[c] \in {"loadCounts", "storeCounts"}
                           /\ value[c] = slot[k]}
  IN IF half = {} THEN 0 ELSE frame[CHOOSE c \in half : TRUE].len

Counter == INSTANCE IcmpCounter WITH
  Length   <- {n \in Length : n >= ETH_HLEN + IP_HLEN},
  Capacity <- Cardinality(Elem) - Cardinality(CPU),
  tracked  <- Live,
  counts   <- [k \in Key |-> IF k \in Live THEN mem[slot[k]].counts ELSE 0],
  bytes    <- [k \in Key |->
                 IF k \in Live THEN mem[slot[k]].bytes - Unsettled(k) ELSE 0]

\* The in-place load-add-store sequence on one CPU implements the one-step
\* counter: bytes and counts of a frame take effect together, and only frames
\* that hold both headers are counted.
ImplementsCounter == Counter!CSpec
==============================================================================
