-------------------------- MODULE MapReport_proofs --------------------------
(***************************************************************************)
(* Proofs about the report loop for any number of CPUs, keys and elements, *)
(* while keys are inserted and relinked around the walk.                   *)
(***************************************************************************)
EXTENDS MapReport, XdpDropIcmp_proofs

-----------------------------------------------------------------------------
(* The order of the keys.                                                  *)

\* The keys in the map carry different stamps, none from the future.
StampInv ==
  /\ \A k \in Live : stamp[k] <= clock
  /\ \A j, k \in Live : stamp[j] = stamp[k] => j = k

\* What a step of a CPU may do to the map: link one key as the newest, or nothing.
LinkStep ==
  \/ UNCHANGED <<Live, stamp, clock>>
  \/ \E k \in Key : /\ Live' = Live \cup {k}
                    /\ stamp' = [stamp EXCEPT ![k] = clock + 1]
                    /\ clock' = clock + 1

LEMMA TrafficLinks == TypeOK /\ [Next]_vars => LinkStep
<1> SUFFICES ASSUME TypeOK, [Next]_vars PROVE LinkStep
  OBVIOUS
<1> USE NullAssumption
<1>1. ASSUME UNCHANGED <<slot, stamp, clock>> PROVE LinkStep
  BY <1>1 DEF LinkStep, Live
<1>2. ASSUME NEW c \in CPU, NEW f \in Frame, DecideOnHeaders(c, f) \/ ReceiveIcmp(c, f)
      PROVE LinkStep
  BY <1>1, <1>2 DEF DecideOnHeaders, ReceiveIcmp, mapVars
<1>3. ASSUME NEW c \in CPU,
             Lookup(c) \/ LoadBytes(c) \/ StoreBytes(c) \/ LoadCounts(c) \/ StoreCounts(c)
      PROVE LinkStep
  BY <1>1, <1>3 DEF Lookup, LoadBytes, StoreBytes, LoadCounts, StoreCounts, mapVars
<1>4. ASSUME NEW c \in CPU, UpdateNew(c) PROVE LinkStep
  <2>0. PICK k \in Key : \E v : k = frame[c].key /\ map_update(c, k, v)
    BY <1>4, FrameInHand DEF UpdateNew, Goto
  <2>1. PICK v : map_update(c, k, v)
    BY <2>0
  <2>2. CASE map_replace(c, k, v)
    <3>1. spare[c] \in Elem
      BY DEF TypeOK
    <3>2. Live' = Live \cup {k}
      BY <2>2, <3>1 DEF map_replace, Live, TypeOK
    <3>3. QED
      BY <2>2, <3>2 DEF map_replace, LinkStep
  <2>3. CASE map_insert(k, v)
    <3>1. PICK e \in Elem : slot' = [slot EXCEPT ![k] = e]
      BY <2>3 DEF map_insert, TypeOK
    <3>2. Live' = Live \cup {k}
      BY <3>1 DEF Live, TypeOK
    <3>3. QED
      BY <2>3, <3>2 DEF map_insert, LinkStep
  <2>4. CASE map_full(k)
    BY <1>1, <2>4 DEF map_full, mapVars
  <2>5. QED
    BY <2>1, <2>2, <2>3, <2>4 DEF map_update
<1>5. CASE UNCHANGED vars
  BY <1>1, <1>5 DEF vars, mapVars
<1>6. QED
  BY <1>2, <1>3, <1>4, <1>5 DEF Next, Run

LEMMA StampStep == TypeOK /\ StampInv /\ [Next]_vars => StampInv'
<1> SUFFICES ASSUME TypeOK, StampInv, LinkStep PROVE StampInv'
  BY TrafficLinks
<1>1. CASE UNCHANGED <<Live, stamp, clock>>
  BY <1>1 DEF StampInv
<1>2. ASSUME NEW k \in Key, Live' = Live \cup {k},
             stamp' = [stamp EXCEPT ![k] = clock + 1], clock' = clock + 1
      PROVE  StampInv'
  <2>1. \A j \in Live : j \in Key /\ stamp[j] \in Nat
    BY DEF Live, TypeOK
  <2>2. \A j \in Live' : stamp'[j] = IF j = k THEN clock + 1 ELSE stamp[j]
    BY <1>2, <2>1 DEF TypeOK
  <2>3. clock \in Nat
    BY DEF TypeOK
  <2>4. QED
    BY <1>2, <2>1, <2>2, <2>3 DEF StampInv
<1>3. QED
  BY <1>1, <1>2 DEF LinkStep

\* Keys in the map are totally ordered.
LEMMA PrecedesOrder ==
  ASSUME TypeOK, StampInv
  PROVE  /\ \A j, k \in Live : j # k => Precedes(j, k) \/ Precedes(k, j)
         /\ \A j, k \in Live : ~ (Precedes(j, k) /\ Precedes(k, j))
         /\ \A i, j, k \in Live : Precedes(i, j) /\ Precedes(j, k) => Precedes(i, k)
<1>1. \A k \in Live : Bucket[k] \in Nat /\ stamp[k] \in Nat
  BY KeyAssumption DEF Live, TypeOK
<1>2. QED
  BY <1>1 DEF Precedes, StampInv

\* bpf_map_get_next_key gives the first of the keys after k.
LEMMA NextKeyIsFirst ==
  ASSUME TypeOK, StampInv, NEW k, After(k) # {}
  PROVE  /\ get_next_key(k) \in After(k)
         /\ \A i \in After(k) : i # get_next_key(k) => Precedes(get_next_key(k), i)
<1>1. PICK A : A = After(k)
  OBVIOUS
<1>2. A \subseteq Live /\ A # {} /\ \A j \in A : Bucket[j] \in Nat /\ stamp[j] \in Nat
  BY <1>1, KeyAssumption DEF After, Live, TypeOK
<1>3. PICK b \in Nat : (\E j \in A : Bucket[j] = b) /\ \A j \in A : b <= Bucket[j]
  <2>1. PICK N : N = {Bucket[j] : j \in A}
    OBVIOUS
  <2>2. N \in SUBSET Nat /\ N # {}
    BY <1>2, <2>1
  <2>3. PICK b \in N : \A n \in N : b <= n
    BY <2>2, LeastNatural
  <2>4. QED
    BY <2>1, <2>2, <2>3
<1>4. \A j \in A : stamp[j] <= clock /\ clock \in Nat
  BY <1>2 DEF StampInv, TypeOK
<1>5. PICK a \in Nat : /\ \E j \in A : Bucket[j] = b /\ clock - stamp[j] = a
                       /\ \A j \in A : Bucket[j] = b => a <= clock - stamp[j]
  <2>1. PICK N : N = {clock - stamp[j] : j \in {i \in A : Bucket[i] = b}}
    OBVIOUS
  <2>2. N \in SUBSET Nat /\ N # {}
    BY <1>2, <1>3, <1>4, <2>1
  <2>3. PICK a \in N : \A n \in N : a <= n
    BY <2>2, LeastNatural
  <2>4. QED
    BY <2>1, <2>2, <2>3
<1>6. PICK j \in A : Bucket[j] = b /\ clock - stamp[j] = a
  BY <1>5
<1>7. \A i \in A \ {j} : Precedes(j, i)
  <2> SUFFICES ASSUME NEW i \in A \ {j} PROVE Precedes(j, i)
    OBVIOUS
  <2>1. stamp[i] # stamp[j]
    BY <1>2 DEF StampInv
  <2>2. Bucket[i] = b => stamp[i] <= stamp[j]
    BY <1>2, <1>4, <1>5, <1>6
  <2>3. QED
    BY <1>2, <1>3, <1>6, <2>1, <2>2 DEF Precedes
<1>8. \E m \in After(k) : \A i \in After(k) \ {m} : Precedes(m, i)
  BY <1>1, <1>7
<1>9. QED
  BY <1>8 DEF get_next_key

-----------------------------------------------------------------------------
(* The loop only reads the map: what holds of drop_icmp holds beside it.   *)

LEMMA ReportReads == [RNext]_rvars => [Next]_vars
BY DEF RNext, rvars, Traffic, StartPass, Report, NextKey, EndPass, CopyBytes,
       CopyCounts, PrintKey

\* The report loop takes nothing from the program and adds nothing to it, so every
\* safety property of drop_icmp holds while the loader reads its map.
THEOREM ReportKeepsSpec == RSpec => Spec
<1>1. RInit => Init
  BY DEF RInit
<1>2. QED
  BY <1>1, ReportReads, PTL DEF RSpec, Spec

\* Its own steps leave all of drop_icmp's state as it is.
LEMMA ReportSilent == StartPass \/ Report => UNCHANGED vars
BY DEF StartPass, Report, NextKey, EndPass, CopyBytes, CopyCounts, PrintKey

\* The key that is being copied and printed.
Reading == rpc \in {"copyBytes", "copyCounts", "print"}

\* Types of the loop's state.  The key it was given is in the map and stays there.
WalkOK ==
  /\ rpc \in {"sleep", "next", "copyBytes", "copyCounts", "print"}
  /\ reported \in [Key -> Nat]
  /\ stable \subseteq Live
  /\ Reading => next_key \in Live
  /\ rpc = "next" => current_key = ZeroKey \/ current_key \in Live

BaseInv == TypeOK /\ StampInv /\ WalkOK

\* What traffic leaves of the order: a linked key only moves to the front of its
\* bucket, and keys that were not linked anew keep their place.
LEMMA TrafficOrder ==
  ASSUME TypeOK, StampInv, [Next]_vars
  PROVE  /\ Live \subseteq Live'
         /\ \A j, k \in Live : stamp'[k] = stamp[k] /\ Precedes(j, k) => Precedes(j, k)'
<1> SUFFICES ASSUME LinkStep
    PROVE  /\ Live \subseteq Live'
           /\ \A j, k \in Live : stamp'[k] = stamp[k] /\ Precedes(j, k) => Precedes(j, k)'
  BY TrafficLinks
<1>1. CASE UNCHANGED <<Live, stamp, clock>>
  BY <1>1 DEF Precedes
<1>2. ASSUME NEW k \in Key, Live' = Live \cup {k},
             stamp' = [stamp EXCEPT ![k] = clock + 1], clock' = clock + 1
      PROVE  /\ Live \subseteq Live'
             /\ \A i, j \in Live : stamp'[j] = stamp[j] /\ Precedes(i, j) => Precedes(i, j)'
  <2>1. \A j \in Live : j \in Key /\ stamp[j] \in Nat /\ stamp[j] <= clock /\ Bucket[j] \in Nat
    BY KeyAssumption DEF Live, TypeOK, StampInv
  <2>2. \A j \in Live : stamp'[j] = IF j = k THEN clock + 1 ELSE stamp[j]
    BY <1>2, <2>1 DEF TypeOK
  <2>3. clock \in Nat
    BY DEF TypeOK
  <2>4. QED
    BY <1>2, <2>1, <2>2, <2>3 DEF Precedes
<1>3. QED
  BY <1>1, <1>2 DEF LinkStep

LEMMA WalkStep == BaseInv /\ [RNext]_rvars => BaseInv'
<1> SUFFICES ASSUME BaseInv, [RNext]_rvars PROVE BaseInv'
  OBVIOUS
<1>1. [Next]_vars
  BY ReportReads
<1>2. TypeOK' /\ StampInv'
  BY <1>1, TypeStep, StampStep DEF BaseInv
<1>3. WalkOK'
  <2> USE DEF BaseInv, WalkOK, Reading
  <2>1. CASE Traffic
    <3>1. Live \subseteq Live'
      BY <1>1, TrafficOrder
    <3>2. QED
      BY <2>1, <3>1 DEF Traffic, readVars
  <2>2. CASE StartPass
    BY <2>2, ReportSilent DEF StartPass, vars, mapVars, Live
  <2>3. CASE NextKey
    <3>1. Live' = Live
      BY <2>3, ReportSilent DEF Report, vars, mapVars, Live
    <3>2. next_key' \in Live
      BY <2>3, NextKeyIsFirst DEF NextKey, After
    <3>3. QED
      BY <2>3, <3>1, <3>2 DEF NextKey, passVars
  <2>4. CASE EndPass
    BY <2>4, ReportSilent DEF EndPass, Report, vars, mapVars, Live, passVars
  <2>5. CASE CopyBytes
    BY <2>5, ReportSilent DEF CopyBytes, Report, vars, mapVars, Live, passVars
  <2>6. CASE CopyCounts
    BY <2>6, ReportSilent DEF CopyCounts, Report, vars, mapVars, Live, passVars
  <2>7. CASE PrintKey
    <3>1. next_key \in Key /\ Live' = Live
      BY <2>7, ReportSilent DEF PrintKey, Report, vars, mapVars, Live
    <3>2. QED
      BY <2>7, <3>1 DEF PrintKey, passVars
  <2>8. CASE UNCHANGED rvars
    BY <2>8 DEF rvars, vars, mapVars, readVars, passVars, Live
  <2>9. QED
    BY <2>1, <2>2, <2>3, <2>4, <2>5, <2>6, <2>7, <2>8 DEF RNext, Report
<1>4. QED
  BY <1>2, <1>3 DEF BaseInv

LEMMA BaseInvariant == RSpec => []BaseInv
<1>1. Init => TypeOK
  BY NullAssumption DEF Init, TypeOK, Value, PC
<1>2. RInit => BaseInv
  <2> SUFFICES ASSUME RInit PROVE BaseInv
    OBVIOUS
  <2>1. Live = {}
    BY DEF RInit, Init, Live
  <2>2. QED
    BY <1>1, <2>1 DEF RInit, BaseInv, StampInv, WalkOK, Reading
<1>3. QED
  BY <1>2, WalkStep, PTL DEF RSpec

-----------------------------------------------------------------------------
(* A pass is complete.                                                     *)

\* The strengthening: a key that was in the map throughout and has not been
\* printed is still ahead of the walk.
CompleteInv ==
  /\ PassComplete
  /\ rpc = "next" => \A k \in stable : reported[k] >= 1 \/ k \in After(current_key)
  /\ Reading => \A k \in stable : \/ reported[k] >= 1
                                  \/ k = next_key \/ Precedes(next_key, k)

LEMMA CompleteStep ==
  ASSUME ZeroKey \notin Key
  PROVE  BaseInv /\ CompleteInv /\ [RNext]_rvars => CompleteInv'
<1> SUFFICES ASSUME BaseInv, CompleteInv, [RNext]_rvars PROVE CompleteInv'
  OBVIOUS
<1> USE DEF BaseInv, WalkOK, Reading, CompleteInv, PassComplete
<1>1. ZeroKey \notin Live /\ Live \subseteq Key
  BY DEF Live
<1>2. CASE Traffic
  <2>1. /\ Live \subseteq Live'
        /\ \A j, k \in Live : stamp'[k] = stamp[k] /\ Precedes(j, k) => Precedes(j, k)'
    BY <1>2, TrafficOrder DEF Traffic
  <2>2. /\ UNCHANGED <<rpc, current_key, next_key, reported>>
        /\ \A k \in stable' : k \in stable /\ k \in Live /\ stamp'[k] = stamp[k]
    BY <1>2 DEF Traffic, readVars
  <2>3. ZeroKey \notin Live'
    BY DEF Live
  <2>4. ASSUME rpc = "next", NEW k \in stable', k \in After(current_key)
        PROVE  k \in After(current_key)'
    <3>1. CASE current_key = ZeroKey
      BY <1>1, <2>1, <2>2, <2>3, <2>4, <3>1 DEF After
    <3>2. CASE current_key \in Live
      <4>1. Precedes(current_key, k) /\ k \in Live
        BY <2>4, <3>2 DEF After
      <4>2. Precedes(current_key, k)'
        BY <2>1, <2>2, <3>2, <4>1
      <4>3. QED
        BY <2>1, <2>2, <3>2, <4>1, <4>2 DEF After
    <3>3. QED
      BY <2>4, <3>1, <3>2
  <2>5. PassComplete'
    BY <2>2
  <2>6. (rpc = "next" => \A k \in stable : reported[k] >= 1 \/ k \in After(current_key))'
    BY <2>2, <2>4
  <2>7. (Reading => \A k \in stable : \/ reported[k] >= 1
                                      \/ k = next_key \/ Precedes(next_key, k))'
    BY <2>1, <2>2 DEF Precedes
  <2>8. QED
    BY <2>5, <2>6, <2>7
<1>3. CASE StartPass
  <2>1. Live' = Live /\ ~ (current_key' \in Live)
    BY <1>1, <1>3, ReportSilent DEF StartPass, vars, mapVars, Live
  <2>2. QED
    BY <1>3, <2>1 DEF StartPass, After
<1>4. CASE NextKey
  <2>1. \A i \in After(current_key) : i # next_key' => Precedes(next_key', i)
    BY <1>4, NextKeyIsFirst DEF NextKey
  <2>2. \A j, k : Precedes(j, k)' <=> Precedes(j, k)
    BY <1>4, ReportSilent DEF Report, vars, mapVars, Precedes
  <2>3. QED
    BY <1>4, <2>1, <2>2 DEF NextKey, passVars
<1>5. CASE EndPass
  BY <1>5 DEF EndPass, passVars
<1>6. CASE CopyBytes
  BY <1>6, ReportSilent DEF CopyBytes, Report, vars, mapVars, passVars, Precedes
<1>7. CASE CopyCounts
  BY <1>7, ReportSilent DEF CopyCounts, Report, vars, mapVars, passVars, Precedes
<1>8. CASE PrintKey
  <2>1. /\ UNCHANGED <<stable, Live, stamp>> /\ rpc' = "next" /\ current_key' = next_key
        /\ reported' = [reported EXCEPT ![next_key] = @ + 1]
        /\ next_key \in Live
    BY <1>8, ReportSilent DEF PrintKey, Report, vars, mapVars, passVars, Live
  <2>2. \A k \in stable : reported'[k] = IF k = next_key THEN reported[k] + 1 ELSE reported[k]
    BY <1>1, <2>1
  <2>3. \A k \in stable : reported[k] \in Nat
    BY <1>1
  <2>4. QED
    BY <1>8, <2>1, <2>2, <2>3 DEF PrintKey, After, Precedes
<1>9. CASE UNCHANGED rvars
  BY <1>9 DEF rvars, vars, mapVars, readVars, passVars, After, Precedes, Live
<1>10. QED
  BY <1>2, <1>3, <1>4, <1>5, <1>6, <1>7, <1>8, <1>9 DEF RNext, Report

\* A pass of the report loop prints every source that was in the map throughout it,
\* whatever is inserted or relinked around the walk, provided no frame carries
\* the key {0, 0} from which a pass starts.
THEOREM PassIsComplete == ASSUME ZeroKey \notin Key
                          PROVE  RSpec => []PassComplete
<1>1. RInit => CompleteInv
  BY DEF RInit, CompleteInv, PassComplete, Reading
<1>2. CompleteInv => PassComplete
  BY DEF CompleteInv
<1>3. BaseInv /\ CompleteInv /\ [RNext]_rvars => CompleteInv'
  BY CompleteStep
<1>4. QED
  BY <1>1, <1>2, <1>3, BaseInvariant, PTL DEF RSpec

-----------------------------------------------------------------------------
(* A pass prints no source twice.                                          *)

\* The strengthening: what the pass has printed lies behind the walk.
Behind ==
  /\ \A k \in Key : reported[k] <= 1
  /\ rpc = "next" => \A k \in Key : reported[k] > 0 =>
       /\ current_key \in Live /\ k \in Live
       /\ k = current_key \/ Precedes(k, current_key)
  /\ Reading => \A k \in Key : reported[k] > 0 => k \in Live /\ Precedes(k, next_key)

OnceInv == ~moved => Behind

LEMMA OnceStep == BaseInv /\ OnceInv /\ [RNext]_rvars => OnceInv'
<1> SUFFICES ASSUME BaseInv, OnceInv, [RNext]_rvars, ~moved' PROVE Behind'
  BY DEF OnceInv
<1> USE DEF BaseInv, WalkOK, Reading, Behind
<1>1. CASE Traffic
  <2>1. /\ Live \subseteq Live'
        /\ \A j, k \in Live : stamp'[k] = stamp[k] /\ Precedes(j, k) => Precedes(j, k)'
    BY <1>1, TrafficOrder DEF Traffic
  <2>2. ~moved /\ \A k \in Live : stamp'[k] = stamp[k]
    BY <1>1, Zenon DEF Traffic
  <2>3. Behind
    BY <2>2 DEF OnceInv
  <2>4. UNCHANGED <<rpc, current_key, next_key, reported>>
    BY <1>1 DEF Traffic, readVars
  <2>5. QED
    BY <2>1, <2>2, <2>3, <2>4 DEF Precedes
<1>2. CASE StartPass
  BY <1>2 DEF StartPass
<1>3. ASSUME Report PROVE Behind'
  <2>1. ~moved
    BY <1>3 DEF Report, NextKey, EndPass, CopyBytes, CopyCounts, PrintKey, passVars
  <2>2. Behind
    BY <2>1 DEF OnceInv
  <2>3. UNCHANGED <<Live, stamp>>
    BY <1>3, ReportSilent DEF vars, mapVars, Live
  <2>4. Live \subseteq Key
    BY DEF Live
  <2>5. CASE NextKey
    <3>1. next_key' \in After(current_key)
      BY <2>5, NextKeyIsFirst DEF NextKey
    <3>2. \A k \in Key : reported[k] > 0 =>
             k \in Live /\ current_key \in Live /\ next_key' \in Live /\ Precedes(k, next_key')
      BY <2>2, <2>5, <3>1, PrecedesOrder DEF NextKey, After
    <3>3. QED
      BY <2>2, <2>3, <2>5, <3>2 DEF NextKey, Precedes
  <2>6. CASE EndPass
    BY <2>2, <2>6 DEF EndPass
  <2>7. CASE CopyBytes
    BY <2>2, <2>3, <2>7 DEF CopyBytes, Precedes
  <2>8. CASE CopyCounts
    BY <2>2, <2>3, <2>8 DEF CopyCounts, Precedes
  <2>9. CASE PrintKey
    <3>1. /\ next_key \in Live /\ next_key \in Key /\ current_key' = next_key /\ rpc' = "next"
          /\ reported' = [reported EXCEPT ![next_key] = @ + 1]
      BY <2>4, <2>9 DEF PrintKey
    <3>2. ~ Precedes(next_key, next_key)
      BY <3>1, PrecedesOrder
    <3>3. reported[next_key] = 0
      BY <2>2, <2>9, <3>1, <3>2 DEF PrintKey
    <3>4. \A k \in Key : reported'[k] = IF k = next_key THEN 1 ELSE reported[k]
      BY <3>1, <3>3
    <3>5. \A k \in Key : reported'[k] > 0 => k \in Live /\ (k = next_key \/ Precedes(k, next_key))
      BY <2>2, <2>9, <3>1, <3>4 DEF PrintKey
    <3>6. \A k \in Key : reported'[k] <= 1
      BY <2>2, <3>4
    <3>7. QED
      BY <2>3, <3>1, <3>5, <3>6 DEF Precedes
  <2>10. QED
    BY <1>3, <2>5, <2>6, <2>7, <2>8, <2>9 DEF Report
<1>4. CASE UNCHANGED rvars
  <2>1. ~moved /\ UNCHANGED <<rpc, current_key, next_key, reported, Live, stamp>>
    BY <1>4 DEF rvars, vars, mapVars, readVars, passVars, Live
  <2>2. QED
    BY <2>1 DEF OnceInv, Precedes
<1>5. QED
  BY <1>1, <1>2, <1>3, <1>4 DEF RNext

\* A pass during which no key is relinked prints no source twice, although other
\* keys are inserted ahead of it and behind it.
THEOREM PrintsOnce == RSpec => []PrintedOnce
<1>1. RInit => OnceInv
  BY DEF RInit, OnceInv, Behind, Reading
<1>2. OnceInv => PrintedOnce
  BY Zenon DEF OnceInv, PrintedOnce, Behind
<1>3. QED
  BY <1>1, <1>2, OnceStep, BaseInvariant, PTL DEF RSpec

-----------------------------------------------------------------------------
(* What a pass prints is a number of frames the source really lost.        *)

\* While every update was an insertion a live key keeps its element, so a CPU
\* that updates in place points to the element of the key it holds.
CountsFresh ==
  /\ \A k \in Live : mem[slot[k]].counts >= 1 /\ mem[slot[k]].counts <= dropped[k]
  /\ \A c \in CPU : pc[c] \in InPlace => /\ frame[c].key \in Live
                                         /\ value[c] = slot[frame[c].key]
  /\ \A c \in CPU : pc[c] = "storeCounts" => reg[c] <= dropped[frame[c].key]

InsertOnly == clock = Cardinality(Live)

\* The map holds no more keys than there were updates.
InsertInv ==
  /\ Cardinality(Live) <= clock
  /\ InsertOnly => CountsFresh

LEMMA LiveSize == TypeOK => IsFiniteSet(Live) /\ Cardinality(Live) \in Nat
BY KeyAssumption, FS_Subset, FS_CardinalityType DEF Live

\* CPU c returns from drop_icmp and its frame is dropped: the other CPUs keep
\* what they hold.
LEMMA FreshReturn ==
  ASSUME TypeOK, CountsFresh, NEW c \in CPU, NEW k \in Key,
         pc' = [pc EXCEPT ![c] = "idle"],
         \A d \in CPU \ {c} : frame'[d] = frame[d] /\ value'[d] = value[d] /\ reg'[d] = reg[d],
         dropped' = [dropped EXCEPT ![k] = @ + 1],
         Live \subseteq Live', \A j \in Live : slot'[j] = slot[j],
         \A j \in Live' : mem'[slot'[j]].counts >= 1 /\ mem'[slot'[j]].counts <= dropped'[j]
  PROVE  CountsFresh'
<1>1. \A j \in Key : dropped[j] \in Nat /\ dropped'[j] \in Nat /\ dropped[j] <= dropped'[j]
  BY DEF TypeOK
<1>2. ASSUME NEW d \in CPU, pc'[d] \in InPlace
      PROVE  /\ d # c /\ pc[d] = pc'[d] /\ frame'[d] = frame[d] /\ reg'[d] = reg[d]
             /\ frame[d].key \in Live /\ value'[d] = slot[frame[d].key]
  BY <1>2 DEF CountsFresh, InPlace, TypeOK
<1>3. \A d \in CPU : pc'[d] \in InPlace => /\ frame'[d].key \in Live'
                                           /\ value'[d] = slot'[frame'[d].key]
  BY <1>2
<1>4. ASSUME NEW d \in CPU, pc'[d] = "storeCounts" PROVE reg'[d] <= dropped'[frame'[d].key]
  <2>1. /\ pc[d] = pc'[d] /\ frame'[d] = frame[d] /\ reg'[d] = reg[d] /\ reg[d] \in Nat
        /\ frame[d].key \in Key
    BY <1>2, <1>4 DEF InPlace, TypeOK, Live
  <2>2. reg[d] <= dropped[frame[d].key]
    BY <1>4, <2>1 DEF CountsFresh
  <2>3. QED
    BY <1>1, <2>1, <2>2
<1>5. QED
  BY <1>3, <1>4 DEF CountsFresh

\* Replacing a linked key breaks InsertOnly for good; inserting one does not.
LEMMA InsertUpdate ==
  ASSUME TypeOK, PoolInv, InsertInv, NEW c \in CPU, UpdateNew(c)
  PROVE  InsertInv'
<1>1. PICK k \in Key : k = frame[c].key
  BY FrameInHand DEF UpdateNew, Goto
<1>2. PICK v : v = [bytes |-> frame[c].len, counts |-> 1]
  OBVIOUS
<1>3. /\ map_update(c, k, v) /\ dropped' = [dropped EXCEPT ![k] = @ + 1]
      /\ pc' = [pc EXCEPT ![c] = "idle"]
      /\ \A d \in CPU \ {c} : frame'[d] = frame[d] /\ value'[d] = value[d] /\ reg'[d] = reg[d]
  BY <1>1, <1>2 DEF UpdateNew, Goto, ReturnDrop, TypeOK
<1>4. IsFiniteSet(Live) /\ Cardinality(Live) \in Nat /\ clock \in Nat
  BY LiveSize DEF TypeOK
<1>5. \A j \in Key : dropped[j] \in Nat /\ dropped'[j] = IF j = k THEN dropped[j] + 1 ELSE dropped[j]
  BY <1>3 DEF TypeOK
<1>6. \A j \in Live : j \in Key /\ slot[j] \in Elem /\ mem[slot[j]].counts \in Nat
  BY DEF Live, TypeOK, Value
<1>7. CASE map_replace(c, k, v)
  <2>1. Live' = Live /\ clock' = clock + 1
    BY <1>7, NullAssumption DEF map_replace, Live, TypeOK
  <2>2. QED
    BY <1>4, <2>1 DEF InsertInv, InsertOnly
<1>8. CASE map_insert(k, v)
  <2>1. PICK e \in free : /\ slot' = [slot EXCEPT ![k] = e]
                          /\ mem' = [mem EXCEPT ![e] = v]
    BY <1>8 DEF map_insert
  <2>2. Live' = Live \cup {k} /\ k \notin Live /\ clock' = clock + 1 /\ e \in Elem
    BY <1>8, <2>1, NullAssumption DEF map_insert, Live, TypeOK
  <2>3. Cardinality(Live') = Cardinality(Live) + 1
    BY <1>4, <2>2, FS_AddElement
  <2>4. SUFFICES ASSUME InsertOnly PROVE CountsFresh'
    BY <1>4, <2>2, <2>3 DEF InsertInv, InsertOnly
  <2>5. CountsFresh
    BY <2>4 DEF InsertInv
  <2>6. \A j \in Live : j # k /\ slot'[j] = slot[j] /\ mem'[slot[j]] = mem[slot[j]]
    BY <1>6, <2>1, <2>2 DEF PoolInv, TypeOK
  <2>7. slot'[k] = e /\ mem'[e].counts = 1
    BY <1>2, <2>1, <2>2 DEF TypeOK
  <2>8. \A j \in Live' : mem'[slot'[j]].counts >= 1 /\ mem'[slot'[j]].counts <= dropped'[j]
    BY <1>5, <1>6, <2>2, <2>5, <2>6, <2>7 DEF CountsFresh
  <2>9. QED
    BY <1>3, <2>2, <2>5, <2>6, <2>8, FreshReturn
<1>9. CASE map_full(k)
  <2>1. UNCHANGED <<slot, mem, clock, Live>>
    BY <1>9 DEF map_full, mapVars, Live
  <2>2. SUFFICES ASSUME InsertOnly PROVE CountsFresh'
    BY <2>1 DEF InsertInv, InsertOnly
  <2>3. CountsFresh
    BY <2>2 DEF InsertInv
  <2>4. \A j \in Live' : mem'[slot'[j]].counts >= 1 /\ mem'[slot'[j]].counts <= dropped'[j]
    BY <1>5, <1>6, <2>1, <2>3 DEF CountsFresh
  <2>5. QED
    BY <1>3, <2>1, <2>3, <2>4, FreshReturn
<1>10. QED
  BY <1>3, <1>7, <1>8, <1>9 DEF map_update

LEMMA InsertStep == TypeOK /\ PoolInv /\ InsertInv /\ [Next]_vars => InsertInv'
<1> SUFFICES ASSUME TypeOK, PoolInv, InsertInv, [Next]_vars PROVE InsertInv'
  OBVIOUS
<1>1. ASSUME NEW c \in CPU, UpdateNew(c) PROVE InsertInv'
  BY <1>1, InsertUpdate
<1>2. ASSUME UNCHANGED <<slot, clock>>, CountsFresh => CountsFresh' PROVE InsertInv'
  BY <1>2 DEF InsertInv, InsertOnly, Live
<1>3. \A j \in Live : j \in Key /\ slot[j] \in Elem /\ mem[slot[j]] \in Value
  BY DEF Live, TypeOK
<1>4. ASSUME NEW c \in CPU, NEW f \in Frame, DecideOnHeaders(c, f) PROVE InsertInv'
  BY <1>2, <1>4 DEF DecideOnHeaders, mapVars, histVars, CountsFresh, Live
<1>5. ASSUME NEW c \in CPU, NEW f \in Frame, ReceiveIcmp(c, f) PROVE InsertInv'
  <2>1. CountsFresh => CountsFresh'
    BY <1>5 DEF ReceiveIcmp, Goto, mapVars, CountsFresh, Live, TypeOK, InPlace
  <2>2. QED
    BY <1>2, <1>5, <2>1 DEF ReceiveIcmp, mapVars
<1>6. ASSUME NEW c \in CPU, Lookup(c) PROVE InsertInv'
  <2>1. PICK k \in Key : k = frame[c].key
    BY <1>6, FrameInHand DEF Lookup
  <2>2. CountsFresh => CountsFresh'
    BY <1>6, <2>1 DEF Lookup, mapVars, histVars, map_lookup, CountsFresh, Live, TypeOK, InPlace
  <2>3. QED
    BY <1>2, <1>6, <2>2 DEF Lookup, mapVars
<1>7. ASSUME NEW c \in CPU, LoadBytes(c) PROVE InsertInv'
  <2>1. CountsFresh => CountsFresh'
    BY <1>7 DEF LoadBytes, Goto, mapVars, histVars, CountsFresh, Live, TypeOK, InPlace
  <2>2. QED
    BY <1>2, <1>7, <2>1 DEF LoadBytes, mapVars
<1>8. ASSUME NEW c \in CPU, StoreBytes(c) PROVE InsertInv'
  <2>1. PICK b : mem' = [mem EXCEPT ![value[c]].bytes = b]
    BY <1>8 DEF StoreBytes
  <2>2. \A j \in Live : mem'[slot[j]].counts = mem[slot[j]].counts
    BY <1>3, <2>1 DEF TypeOK, Value
  <2>3. CountsFresh => CountsFresh'
    BY <1>8, <2>2 DEF StoreBytes, Goto, histVars, CountsFresh, Live, TypeOK, InPlace
  <2>4. QED
    BY <1>2, <1>8, <2>3 DEF StoreBytes
<1>9. ASSUME NEW c \in CPU, LoadCounts(c) PROVE InsertInv'
  <2>1. CountsFresh => CountsFresh'
    <3> SUFFICES ASSUME CountsFresh PROVE CountsFresh'
      OBVIOUS
    <3>1. /\ pc[c] \in InPlace /\ pc' = [pc EXCEPT ![c] = "storeCounts"]
          /\ reg' = [reg EXCEPT ![c] = mem[value[c]].counts]
          /\ UNCHANGED <<frame, value, slot, mem, dropped, Live>>
      BY <1>9 DEF LoadCounts, Goto, mapVars, histVars, InPlace, Live
    <3>2. mem[value[c]].counts <= dropped[frame[c].key]
      BY <3>1 DEF CountsFresh
    <3>3. \A d \in CPU : pc'[d] = IF d = c THEN "storeCounts" ELSE pc[d]
      BY <3>1 DEF TypeOK
    <3>4. \A d \in CPU : reg'[d] = IF d = c THEN mem[value[c]].counts ELSE reg[d]
      BY <3>1 DEF TypeOK
    <3>5. QED
      BY <3>1, <3>2, <3>3, <3>4 DEF CountsFresh
  <2>2. QED
    BY <1>2, <1>9, <2>1 DEF LoadCounts, mapVars
<1>10. ASSUME NEW c \in CPU, StoreCounts(c) PROVE InsertInv'
  <2>1. CountsFresh => CountsFresh'
    <3> SUFFICES ASSUME CountsFresh PROVE CountsFresh'
      OBVIOUS
    <3>1. PICK k \in Live, n \in Nat : /\ k = frame[c].key /\ n = reg[c]
                                       /\ value[c] = slot[k] /\ n <= dropped[k]
      BY <1>10 DEF StoreCounts, Goto, CountsFresh, InPlace, TypeOK
    <3>2. /\ mem' = [mem EXCEPT ![slot[k]].counts = n + 1]
          /\ dropped' = [dropped EXCEPT ![k] = @ + 1]
          /\ pc' = [pc EXCEPT ![c] = "idle"] /\ UNCHANGED <<slot, Live>>
          /\ \A d \in CPU \ {c} : frame'[d] = frame[d] /\ value'[d] = value[d] /\ reg'[d] = reg[d]
      BY <1>10, <3>1 DEF StoreCounts, Goto, ReturnDrop, Live, TypeOK
    <3>3. \A j \in Live : mem'[slot[j]].counts = IF j = k THEN n + 1 ELSE mem[slot[j]].counts
      BY <1>3, <3>2 DEF PoolInv, TypeOK, Value
    <3>4. \A j \in Live : dropped'[j] = (IF j = k THEN dropped[j] + 1 ELSE dropped[j])
                          /\ dropped[j] \in Nat
      BY <1>3, <3>2 DEF TypeOK
    <3>5. \A j \in Live' : mem'[slot'[j]].counts >= 1 /\ mem'[slot'[j]].counts <= dropped'[j]
      BY <3>1, <3>2, <3>3, <3>4 DEF CountsFresh
    <3>6. QED
      BY <1>3, <3>2, <3>5, FreshReturn
  <2>2. QED
    BY <1>2, <1>10, <2>1 DEF StoreCounts
<1>11. CASE UNCHANGED vars
  BY <1>2, <1>11 DEF vars, cpuVars, mapVars, histVars, CountsFresh, Live
<1>12. QED
  BY <1>1, <1>4, <1>5, <1>6, <1>7, <1>8, <1>9, <1>10, <1>11 DEF Next, Run

\* As long as every update of the map was an insertion no source is charged with
\* more frames than it lost, on any number of CPUs: the stale pointer that breaks
\* CountsNotAbove needs a key that is linked twice.
THEOREM ChargedWhileInserting == Spec => [](InsertOnly => CountsNotAbove)
<1>1. Init => TypeOK /\ PoolInv /\ InsertInv
  <2> SUFFICES ASSUME Init PROVE TypeOK /\ PoolInv /\ InsertInv
    OBVIOUS
  <2>1. TypeOK
    BY NullAssumption DEF Init, TypeOK, Value, PC
  <2>2. Live = {}
    BY DEF Init, Live
  <2>3. PoolInv
    BY <2>2 DEF Init, PoolInv
  <2>4. Cardinality(Live) = 0
    BY <2>2, FS_EmptySet
  <2>5. QED
    BY <2>1, <2>2, <2>3, <2>4 DEF Init, InsertInv, CountsFresh, InPlace
<1>2. InsertInv => (InsertOnly => CountsNotAbove)
  BY DEF InsertInv, CountsFresh, CountsNotAbove
<1>3. QED
  BY <1>1, <1>2, TypeStep, PoolStep, InsertStep, PTL DEF Spec

\* What the loop holds while it reads, and has printed, is bounded likewise.
ReadFresh ==
  /\ rpc = "copyCounts" => relem = slot[next_key]
  /\ rpc = "print" => rvalue.counts >= 1 /\ rvalue.counts <= dropped[next_key]
  /\ \A k \in Key : reported[k] > 0 => report[k] >= 1 /\ report[k] <= dropped[k]

FreshInv ==
  /\ TypeOK /\ PoolInv /\ InsertInv /\ WalkOK
  /\ rvalue \in Value /\ report \in [Key -> Nat]
  /\ rpc = "copyCounts" => relem \in Elem
  /\ InsertOnly => ReadFresh

\* Keys keep their elements and drops are not forgotten.
LEMMA KeepsElements ==
  ASSUME TypeOK, InsertInv, [Next]_vars
  PROVE  /\ \A k \in Key : dropped[k] \in Nat /\ dropped'[k] \in Nat /\ dropped[k] <= dropped'[k]
         /\ InsertOnly' => InsertOnly /\ \A k \in Live : slot'[k] = slot[k]
<1> DEFINE Kept == /\ \A k \in Key : dropped[k] \in Nat /\ dropped'[k] \in Nat /\ dropped[k] <= dropped'[k]
                   /\ InsertOnly' => InsertOnly /\ \A k \in Live : slot'[k] = slot[k]
<1> SUFFICES Kept
  OBVIOUS
<1>1. ASSUME UNCHANGED <<slot, clock>>,
             \/ UNCHANGED dropped
             \/ \E k \in Key : dropped' = [dropped EXCEPT ![k] = @ + 1]
      PROVE  Kept
  <2>1. \A k \in Key : dropped[k] \in Nat /\ dropped'[k] \in Nat /\ dropped[k] <= dropped'[k]
    BY <1>1 DEF TypeOK
  <2>2. QED
    BY <1>1, <2>1 DEF InsertOnly, Live
<1>2. ASSUME NEW c \in CPU, NEW f \in Frame, DecideOnHeaders(c, f) \/ ReceiveIcmp(c, f)
      PROVE  Kept
  BY <1>1, <1>2 DEF DecideOnHeaders, ReceiveIcmp, mapVars, histVars
<1>3. ASSUME NEW c \in CPU, Lookup(c) \/ LoadBytes(c) \/ StoreBytes(c) \/ LoadCounts(c)
      PROVE  Kept
  BY <1>1, <1>3 DEF Lookup, LoadBytes, StoreBytes, LoadCounts, mapVars, histVars
<1>4. ASSUME NEW c \in CPU, StoreCounts(c) PROVE Kept
  <2>1. frame[c].key \in Key
    BY <1>4, FrameInHand DEF StoreCounts, Goto
  <2>2. QED
    BY <1>1, <1>4, <2>1 DEF StoreCounts, ReturnDrop
<1>5. ASSUME NEW c \in CPU, UpdateNew(c) PROVE Kept
  <2>0. PICK k \in Key : /\ k = frame[c].key /\ \E v : map_update(c, k, v)
                         /\ dropped' = [dropped EXCEPT ![k] = @ + 1]
    BY <1>5, FrameInHand DEF UpdateNew, Goto, ReturnDrop
  <2>1. PICK v : map_update(c, k, v) /\ dropped' = [dropped EXCEPT ![k] = @ + 1]
    BY <2>0
  <2>2. \A j \in Key : dropped[j] \in Nat /\ dropped'[j] \in Nat /\ dropped[j] <= dropped'[j]
    BY <2>1 DEF TypeOK
  <2>3. IsFiniteSet(Live) /\ Cardinality(Live) \in Nat /\ clock \in Nat
    BY LiveSize DEF TypeOK
  <2>4. CASE map_replace(c, k, v)
    <3>1. Live' = Live /\ clock' = clock + 1
      BY <2>4, NullAssumption DEF map_replace, Live, TypeOK
    <3>2. ~ InsertOnly'
      BY <2>3, <3>1 DEF InsertInv, InsertOnly
    <3>3. QED
      BY <2>2, <3>2
  <2>5. CASE map_insert(k, v)
    <3>1. PICK e \in Elem : slot' = [slot EXCEPT ![k] = e]
      BY <2>5 DEF map_insert, TypeOK
    <3>2. Live' = Live \cup {k} /\ k \notin Live /\ clock' = clock + 1
      BY <2>5, <3>1, NullAssumption DEF map_insert, Live, TypeOK
    <3>3. Cardinality(Live') = Cardinality(Live) + 1
      BY <2>3, <3>2, FS_AddElement
    <3>4. \A j \in Live : slot'[j] = slot[j]
      BY <3>1, <3>2 DEF Live, TypeOK
    <3>5. QED
      BY <2>2, <2>3, <3>2, <3>3, <3>4 DEF InsertOnly
  <2>6. CASE map_full(k)
    BY <1>1, <2>1, <2>6 DEF map_full, mapVars
  <2>7. QED
    BY <2>1, <2>4, <2>5, <2>6 DEF map_update
<1>6. CASE UNCHANGED vars
  BY <1>1, <1>6 DEF vars, mapVars, histVars
<1>7. QED
  BY <1>2, <1>3, <1>4, <1>5, <1>6 DEF Next, Run

LEMMA FreshStep == BaseInv /\ FreshInv /\ [RNext]_rvars => FreshInv'
<1> SUFFICES ASSUME BaseInv, FreshInv, [RNext]_rvars PROVE FreshInv'
  OBVIOUS
<1>1. [Next]_vars
  BY ReportReads
<1>2. TypeOK' /\ PoolInv' /\ InsertInv' /\ WalkOK'
  <2>1. TypeOK' /\ WalkOK'
    BY WalkStep DEF BaseInv
  <2>2. PoolInv' /\ InsertInv'
    BY <1>1, PoolStep, InsertStep DEF FreshInv
  <2>3. QED
    BY <2>1, <2>2
<1>3. Live \subseteq Key /\ \A k \in Live : slot[k] \in Elem /\ mem[slot[k]] \in Value
  BY DEF Live, FreshInv, TypeOK
<1>4. CASE Traffic
  <2>1. UNCHANGED <<rpc, next_key, rvalue, relem, reported, report>>
    BY <1>4 DEF Traffic, readVars
  <2>2. /\ \A k \in Key : dropped[k] \in Nat /\ dropped'[k] \in Nat /\ dropped[k] <= dropped'[k]
        /\ InsertOnly' => InsertOnly /\ \A k \in Live : slot'[k] = slot[k]
    BY <1>1, KeepsElements DEF FreshInv
  <2>3. Reading => next_key \in Live
    BY DEF FreshInv, WalkOK
  <2>4. rvalue.counts \in Nat /\ \A k \in Key : report[k] \in Nat
    BY DEF FreshInv, Value
  <2>5. InsertOnly' => ReadFresh'
    BY <1>3, <2>1, <2>2, <2>3, <2>4 DEF FreshInv, ReadFresh, Reading
  <2>6. QED
    BY <1>2, <2>1, <2>5 DEF FreshInv
<1>5. ASSUME StartPass \/ Report PROVE FreshInv'
  <2>1. UNCHANGED <<slot, mem, clock, dropped, Live, InsertOnly>>
    BY <1>5, ReportSilent DEF vars, mapVars, histVars, Live, InsertOnly
  <2>2. CASE StartPass
    <3>1. ReadFresh'
      BY <2>2 DEF StartPass, ReadFresh
    <3>2. QED
      BY <1>2, <2>2, <3>1 DEF StartPass, FreshInv
  <2>3. CASE NextKey \/ EndPass
    BY <1>2, <2>1, <2>3 DEF NextKey, EndPass, FreshInv, ReadFresh
  <2>4. CASE CopyBytes
    <3>1. PICK b \in Nat : rvalue' = [rvalue EXCEPT !.bytes = b]
      BY <1>3, <2>4 DEF CopyBytes, map_lookup, FreshInv, WalkOK, Reading, Value
    <3>2. rvalue' \in Value /\ relem' = slot[next_key] /\ relem' \in Elem
      BY <1>3, <2>4, <3>1 DEF CopyBytes, map_lookup, FreshInv, WalkOK, Reading, Value
    <3>3. QED
      BY <1>2, <2>1, <2>4, <3>2 DEF CopyBytes, FreshInv, ReadFresh
  <2>5. CASE CopyCounts
    <3>1. relem \in Elem /\ mem[relem].counts \in Nat /\ next_key \in Live
      BY <2>5 DEF CopyCounts, FreshInv, TypeOK, Value, WalkOK, Reading
    <3>2. rvalue' \in Value /\ rvalue'.counts = mem[relem].counts
      BY <2>5, <3>1 DEF CopyCounts, FreshInv, Value
    <3>3. InsertOnly => mem[relem].counts >= 1 /\ mem[relem].counts <= dropped[next_key]
      BY <2>5, <3>1 DEF CopyCounts, FreshInv, ReadFresh, InsertInv, CountsFresh
    <3>4. InsertOnly' => ReadFresh'
      BY <2>1, <2>5, <3>2, <3>3 DEF CopyCounts, FreshInv, ReadFresh
    <3>5. QED
      BY <1>2, <2>5, <3>2, <3>4 DEF CopyCounts, FreshInv
  <2>6. CASE PrintKey
    <3>1. next_key \in Key /\ rvalue.counts \in Nat
      BY <1>3, <2>6 DEF PrintKey, FreshInv, WalkOK, Reading, Value
    <3>2. \A k \in Key : /\ report'[k] = (IF k = next_key THEN rvalue.counts ELSE report[k])
                         /\ k # next_key => reported'[k] = reported[k]
      BY <2>6 DEF PrintKey, FreshInv, WalkOK
    <3>3. report' \in [Key -> Nat] /\ rvalue' \in Value /\ rpc' = "next"
      BY <2>6, <3>1 DEF PrintKey, FreshInv, Value
    <3>4. InsertOnly' => ReadFresh'
      BY <2>1, <2>6, <3>2, <3>3 DEF PrintKey, FreshInv, ReadFresh
    <3>5. QED
      BY <1>2, <3>3, <3>4 DEF FreshInv
  <2>7. QED
    BY <1>5, <2>2, <2>3, <2>4, <2>5, <2>6 DEF Report
<1>6. CASE UNCHANGED rvars
  <2>1. /\ UNCHANGED <<rpc, next_key, rvalue, relem, reported, report>>
        /\ UNCHANGED <<slot, dropped, InsertOnly>>
    BY <1>6 DEF rvars, readVars, vars, mapVars, histVars, InsertOnly, Live
  <2>2. QED
    BY <1>2, <2>1 DEF FreshInv, ReadFresh
<1>7. QED
  BY <1>4, <1>5, <1>6 DEF RNext

\* As long as every update of the map was an insertion, every number a pass prints
\* is a number of frames the source really lost, although its two longs are
\* copied one by one while CPUs update them.
THEOREM ReportsFresh == RSpec => []ReportFresh
<1>1. RInit => FreshInv
  <2> SUFFICES ASSUME RInit PROVE FreshInv
    OBVIOUS
  <2>1. TypeOK
    BY NullAssumption DEF RInit, Init, TypeOK, Value, PC
  <2>2. Live = {}
    BY DEF RInit, Init, Live
  <2>3. PoolInv
    BY <2>2 DEF RInit, Init, PoolInv
  <2>4. Cardinality(Live) = 0
    BY <2>2, FS_EmptySet
  <2>5. InsertInv
    BY <2>2, <2>4 DEF RInit, Init, InsertInv, CountsFresh, InPlace
  <2>6. WalkOK
    BY DEF RInit, WalkOK, Reading
  <2>7. QED
    BY <2>1, <2>3, <2>5, <2>6 DEF RInit, FreshInv, ReadFresh, Value
<1>2. FreshInv => ReportFresh
  BY DEF FreshInv, ReadFresh, ReportFresh, InsertOnly, TypeOK
<1>3. QED
  BY <1>1, <1>2, FreshStep, BaseInvariant, PTL DEF RSpec
=============================================================================
