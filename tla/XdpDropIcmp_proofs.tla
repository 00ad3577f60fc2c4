------------------------- MODULE XdpDropIcmp_proofs -------------------------
(***************************************************************************)
(* Proofs about drop_icmp for any number of CPUs, keys and map elements.   *)
(***************************************************************************)
EXTENDS XdpDropIcmp, FiniteSums, TLAPS

\* The accesses made through the value pointer (lines 66-67).
InPlace == {"loadBytes", "storeBytes", "loadCounts", "storeCounts"}

\* A CPU inside drop_icmp holds an ICMP frame.
LEMMA FrameInHand ==
  ASSUME TypeOK, NEW c \in CPU, pc[c] # "idle"
  PROVE  /\ frame[c] \in Frame
         /\ frame[c].key \in Key
         /\ frame[c].len \in Nat
<1>1. frame[c] \in Frame
  BY DEF TypeOK
<1>2. QED
  BY <1>1, SizeAssumption DEF Frame

\* A CPU that updates in place points to an element of the map.
LEMMA ValueInHand ==
  ASSUME TypeOK, NEW c \in CPU, pc[c] \in InPlace
  PROVE  /\ value[c] \in Elem
         /\ mem[value[c]] \in Value
         /\ mem[value[c]].bytes \in Nat
         /\ mem[value[c]].counts \in Nat
<1>1. value[c] \in Elem
  BY DEF TypeOK, InPlace
<1>2. QED
  BY <1>1 DEF TypeOK, Value

\* The frame's contribution to a new entry (lines 62-63) is a VALUE.
LEMMA NewValue ==
  ASSUME TypeOK, NEW c \in CPU, pc[c] # "idle"
  PROVE  [bytes |-> frame[c].len, counts |-> 1] \in Value
BY FrameInHand DEF Value

\* Element e was CPU c's spare or free and is now key k's, holding v.
Linked(c, k, v, e) == /\ e = spare[c] \/ e \in free
                      /\ slot' = [slot EXCEPT ![k] = e]
                      /\ mem' = [mem EXCEPT ![e] = v]
                      /\ clock' # clock

\* bpf_map_update_elem keeps the map well formed.  When it succeeds the key is
\* linked to an element that was the CPU's spare or free.
LEMMA UpdateType ==
  ASSUME TypeOK, NEW c \in CPU, NEW k \in Key, NEW v \in Value,
         map_update(c, k, v)
  PROVE  /\ slot' \in [Key -> Elem \cup {NULL}]
         /\ mem' \in [Elem -> Value]
         /\ spare' \in [CPU -> Elem]
         /\ free' \subseteq free
         /\ stamp' \in [Key -> Nat]
         /\ clock' \in Nat
         /\ \/ UNCHANGED mapVars /\ slot[k] = NULL /\ free = {}
            \/ \E e \in Elem : Linked(c, k, v, e)
<1>1. CASE map_replace(c, k, v)
  <2>1. slot[k] \in Elem /\ spare[c] \in Elem
    BY <1>1 DEF TypeOK, map_replace
  <2>2. Linked(c, k, v, spare[c])
    BY <1>1 DEF TypeOK, map_replace, Linked
  <2>3. QED
    BY <1>1, <2>1, <2>2 DEF TypeOK, map_replace
<1>2. CASE map_insert(k, v)
  <2>1. PICK e \in free : /\ slot' = [slot EXCEPT ![k] = e]
                          /\ free' = free \ {e}
                          /\ mem'  = [mem EXCEPT ![e] = v]
    BY <1>2 DEF map_insert
  <2>2. e \in Elem
    BY DEF TypeOK
  <2>3. UNCHANGED spare /\ clock' = clock + 1
    BY <1>2 DEF map_insert
  <2>4. stamp' \in [Key -> Nat]
    BY <1>2 DEF map_insert, TypeOK
  <2>5. Linked(c, k, v, e)
    BY <2>1, <2>3 DEF TypeOK, Linked
  <2>6. slot' \in [Key -> Elem \cup {NULL}] /\ mem' \in [Elem -> Value]
    BY <2>1, <2>2 DEF TypeOK
  <2>7. spare' \in [CPU -> Elem] /\ free' \subseteq free /\ clock' \in Nat
    BY <2>1, <2>3 DEF TypeOK
  <2>8. QED
    BY <2>2, <2>4, <2>5, <2>6, <2>7
<1>3. CASE map_full(k)
  BY <1>3 DEF TypeOK, map_full, mapVars
<1>4. QED
  BY <1>1, <1>2, <1>3 DEF map_update

\* Every step keeps the types.
LEMMA TypeStep == TypeOK /\ [Next]_vars => TypeOK'
<1> SUFFICES ASSUME TypeOK, [Next]_vars PROVE TypeOK'
  OBVIOUS
<1> USE NullAssumption
<1>1. ASSUME NEW c \in CPU, NEW f \in Frame, DecideOnHeaders(c, f)
      PROVE TypeOK'
  BY <1>1 DEF TypeOK, DecideOnHeaders, HeaderVerdict, mapVars, histVars
<1>2. ASSUME NEW c \in CPU, NEW f \in Frame, ReceiveIcmp(c, f)
      PROVE TypeOK'
  <2>1. Whole(f)
    BY <1>2, SizeAssumption DEF ReceiveIcmp, HeaderVerdict, Whole, Frame, ETH_HLEN, IP_HLEN
  <2>2. QED
    BY <1>2, <2>1 DEF TypeOK, ReceiveIcmp, Goto, mapVars, PC
<1>3. ASSUME NEW c \in CPU, Lookup(c) PROVE TypeOK'
  <2>1. frame[c].key \in Key
    BY <1>3, FrameInHand DEF Lookup
  <2>2. slot[frame[c].key] \in Elem \cup {NULL}
    BY <2>1 DEF TypeOK
  <2>3. QED
    BY <1>3, <2>2 DEF TypeOK, Lookup, map_lookup, mapVars, histVars, PC
<1>4. ASSUME NEW c \in CPU, UpdateNew(c) PROVE TypeOK'
  <2> DEFINE k == frame[c].key
             v == [bytes |-> frame[c].len, counts |-> 1]
  <2>1. k \in Key /\ v \in Value
    BY <1>4, FrameInHand, NewValue DEF UpdateNew, Goto
  <2>2. map_update(c, k, v)
    BY <1>4 DEF UpdateNew
  <2>3. /\ slot' \in [Key -> Elem \cup {NULL}]
        /\ mem' \in [Elem -> Value]
        /\ spare' \in [CPU -> Elem]
        /\ free' \subseteq Elem
        /\ stamp' \in [Key -> Nat]
        /\ clock' \in Nat
        /\ clock' # clock => slot'[k] \in Elem
    BY <2>1, <2>2, UpdateType DEF TypeOK, mapVars, Linked
  <2>4. credit' \in [Elem -> Nat]
    BY <1>4, <2>3 DEF UpdateNew, TypeOK
  <2>5. dropped' \in [Key -> Nat] /\ received' \in Nat
    BY <1>4, <2>1 DEF UpdateNew, ReturnDrop, TypeOK
  <2>6. QED
    BY <1>4, <2>3, <2>4, <2>5 DEF TypeOK, UpdateNew, ReturnDrop, Goto, PC
<1>5. ASSUME NEW c \in CPU, LoadBytes(c) PROVE TypeOK'
  BY <1>5, ValueInHand
     DEF TypeOK, LoadBytes, Goto, mapVars, histVars, PC, InPlace
<1>6. ASSUME NEW c \in CPU, StoreBytes(c) PROVE TypeOK'
  <2>1. frame[c].len \in Nat /\ value[c] \in Elem
    BY <1>6, FrameInHand, ValueInHand DEF StoreBytes, Goto, InPlace
  <2>2. mem' \in [Elem -> Value]
    BY <1>6, <2>1 DEF StoreBytes, TypeOK, Value
  <2>3. QED
    BY <1>6, <2>2 DEF TypeOK, StoreBytes, Goto, histVars, PC
<1>7. ASSUME NEW c \in CPU, LoadCounts(c) PROVE TypeOK'
  BY <1>7, ValueInHand
     DEF TypeOK, LoadCounts, Goto, mapVars, histVars, PC, InPlace
<1>8. ASSUME NEW c \in CPU, StoreCounts(c) PROVE TypeOK'
  <2>1. frame[c].key \in Key /\ value[c] \in Elem
    BY <1>8, FrameInHand, ValueInHand DEF StoreCounts, Goto, InPlace
  <2>2. mem' \in [Elem -> Value]
    BY <1>8, <2>1, SMTT(20) DEF StoreCounts, TypeOK, Value
  <2>3. dropped' \in [Key -> Nat] /\ credit' \in [Elem -> Nat]
    BY <1>8, <2>1 DEF StoreCounts, ReturnDrop, TypeOK
  <2>4. QED
    BY <1>8, <2>2, <2>3 DEF TypeOK, StoreCounts, ReturnDrop, Goto, PC
<1>9. CASE UNCHANGED vars
  BY <1>9 DEF TypeOK, vars, cpuVars, mapVars, histVars
<1>10. QED
  BY <1>1, <1>2, <1>3, <1>4, <1>5, <1>6, <1>7, <1>8, <1>9 DEF Next, Run

\* Type correctness of drop_icmp's locals, the map and the histories.
THEOREM TypeCorrect == Spec => []TypeOK
<1>1. Init => TypeOK
  BY NullAssumption DEF Init, TypeOK, Value, PC
<1>2. QED
  BY <1>1, TypeStep, PTL DEF Spec

-----------------------------------------------------------------------------
(* No frame is counted twice.                                              *)

\* CreditBound is not inductive: a count about to be stored was loaded earlier,
\* so it is compared with the credit of the element it was loaded from.
CreditInv ==
  /\ CreditBound
  /\ \A c \in CPU : pc[c] = "storeCounts" => reg[c] <= credit[value[c]]

LEMMA CreditStep == TypeOK /\ CreditInv /\ [Next]_vars => CreditInv'
<1> SUFFICES ASSUME TypeOK, CreditInv, [Next]_vars PROVE CreditInv'
  OBVIOUS
<1> USE DEF CreditInv, CreditBound
<1>1. ASSUME NEW c \in CPU, NEW f \in Frame, DecideOnHeaders(c, f)
      PROVE CreditInv'
  BY <1>1 DEF DecideOnHeaders, mapVars, histVars
<1>2. ASSUME NEW c \in CPU, NEW f \in Frame, ReceiveIcmp(c, f)
      PROVE CreditInv'
  BY <1>2 DEF TypeOK, ReceiveIcmp, Goto, mapVars
<1>3. ASSUME NEW c \in CPU, Lookup(c) PROVE CreditInv'
  BY <1>3 DEF TypeOK, Lookup, mapVars, histVars
<1>4. ASSUME NEW c \in CPU, UpdateNew(c) PROVE CreditInv'
  <2> DEFINE k == frame[c].key
             v == [bytes |-> frame[c].len, counts |-> 1]
  <2>1. k \in Key /\ v \in Value
    BY <1>4, FrameInHand, NewValue DEF UpdateNew, Goto
  <2>2. map_update(c, k, v)
    BY <1>4 DEF UpdateNew
  <2>3. CASE UNCHANGED mapVars
    BY <1>4, <2>3 DEF UpdateNew, ReturnDrop, Goto, TypeOK, mapVars
  <2>4. ASSUME NEW e \in Elem, Linked(c, k, v, e) PROVE CreditInv'
    <3>1. slot'[k] = e /\ mem' = [mem EXCEPT ![e] = v]
      BY <2>1, <2>4 DEF Linked, TypeOK
    <3>2. credit' = [credit EXCEPT ![e] = @ + 1]
      BY <1>4, <2>4, <3>1 DEF UpdateNew, Linked
    <3>3. CreditBound'
      BY <3>1, <3>2 DEF TypeOK
    <3>4. \A d \in CPU : pc'[d] = "storeCounts" =>
             /\ d # c /\ pc[d] = "storeCounts" /\ UNCHANGED <<reg[d], value[d]>>
             /\ value[d] \in Elem
      BY <1>4, ValueInHand DEF UpdateNew, ReturnDrop, Goto, TypeOK, InPlace
    <3>5. \A d \in Elem : credit'[d] >= credit[d] /\ credit[d] \in Nat /\ credit'[d] \in Nat
      BY <3>2 DEF TypeOK
    <3>6. QED
      BY <3>3, <3>4, <3>5 DEF TypeOK
  <2>5. QED
    BY <2>1, <2>2, <2>3, <2>4, UpdateType
<1>5. ASSUME NEW c \in CPU, LoadBytes(c) PROVE CreditInv'
  BY <1>5 DEF TypeOK, LoadBytes, Goto, mapVars, histVars
<1>6. ASSUME NEW c \in CPU, StoreBytes(c) PROVE CreditInv'
  <2>1. value[c] \in Elem
    BY <1>6, ValueInHand DEF StoreBytes, Goto, InPlace
  <2>2. \A e \in Elem : mem'[e].counts = mem[e].counts
    BY <1>6, <2>1 DEF StoreBytes, TypeOK, Value
  <2>3. QED
    BY <1>6, <2>2 DEF TypeOK, StoreBytes, Goto, histVars
<1>7. ASSUME NEW c \in CPU, LoadCounts(c) PROVE CreditInv'
  <2>1. value[c] \in Elem
    BY <1>7, ValueInHand DEF LoadCounts, Goto, InPlace
  <2>2. QED
    BY <1>7, <2>1 DEF TypeOK, LoadCounts, Goto, mapVars, histVars
<1>8. ASSUME NEW c \in CPU, StoreCounts(c) PROVE CreditInv'
  <2>1. value[c] \in Elem /\ reg[c] <= credit[value[c]]
    BY <1>8, ValueInHand DEF StoreCounts, Goto, InPlace
  <2>2. \A e \in Elem : /\ credit[e] \in Nat
                        /\ credit'[e] = IF e = value[c] THEN credit[e] + 1
                                                        ELSE credit[e]
    BY <1>8, <2>1 DEF StoreCounts, TypeOK
  <2>3. \A e \in Elem : mem'[e].counts = IF e = value[c] THEN reg[c] + 1
                                                         ELSE mem[e].counts
    BY <1>8, <2>1 DEF StoreCounts, TypeOK, Value
  <2>4. CreditBound'
    BY <2>1, <2>2, <2>3 DEF TypeOK
  <2>5. \A d \in CPU : pc'[d] = "storeCounts" =>
           /\ d # c /\ pc[d] = "storeCounts" /\ UNCHANGED <<reg[d], value[d]>>
           /\ value[d] \in Elem
    BY <1>8, ValueInHand DEF StoreCounts, ReturnDrop, Goto, TypeOK, InPlace
  <2>6. QED
    BY <2>2, <2>4, <2>5 DEF TypeOK
<1>9. CASE UNCHANGED vars
  BY <1>9 DEF vars, cpuVars, mapVars, histVars
<1>10. QED
  BY <1>1, <1>2, <1>3, <1>4, <1>5, <1>6, <1>7, <1>8, <1>9 DEF Next, Run

\* An element's count never exceeds the frames counted into it, on any number
\* of CPUs and through any stale value pointer.
THEOREM NoDoubleCount == Spec => []CreditBound
<1>1. Init => TypeOK /\ CreditInv
  BY NullAssumption DEF Init, TypeOK, Value, PC, CreditInv, CreditBound
<1>2. CreditInv => CreditBound
  BY DEF CreditInv
<1>3. QED
  BY <1>1, <1>2, TypeStep, CreditStep, PTL DEF Spec

-----------------------------------------------------------------------------
(* All sources together are charged with no more frames than were dropped. *)

\* Every element has at most one owner: a key, the free list or a CPU.
PoolInv ==
  /\ \A j, k \in Live : slot[j] = slot[k] => j = k
  /\ \A k \in Live : slot[k] \notin free
  /\ \A k \in Live, c \in CPU : slot[k] # spare[c]
  /\ \A c \in CPU : spare[c] \notin free
  /\ \A c, d \in CPU : spare[c] = spare[d] => c = d

LEMMA PoolUpdate ==
  ASSUME TypeOK, PoolInv, NEW c \in CPU, NEW k \in Key, NEW v, map_update(c, k, v)
  PROVE  PoolInv'
<1> USE NullAssumption DEF TypeOK, PoolInv, Live
<1>1. CASE map_replace(c, k, v)
  <2>1. /\ slot' = [slot EXCEPT ![k] = spare[c]] /\ slot[k] # NULL
        /\ spare' = [spare EXCEPT ![c] = slot[k]] /\ free' = free
    BY <1>1 DEF map_replace
  <2>2. \A d \in CPU : spare[d] \in Elem
    OBVIOUS
  <2>3. Live' = Live
    BY <2>1, <2>2
  <2>4. \A j \in Key : slot'[j] = IF j = k THEN spare[c] ELSE slot[j]
    BY <2>1
  <2>5. \A d \in CPU : spare'[d] = IF d = c THEN slot[k] ELSE spare[d]
    BY <2>1
  <2>6. QED
    BY <2>1, <2>2, <2>3, <2>4, <2>5
<1>2. CASE map_insert(k, v)
  BY <1>2 DEF map_insert
<1>3. CASE map_full(k)
  BY <1>3 DEF map_full, mapVars
<1>4. QED
  BY <1>1, <1>2, <1>3 DEF map_update

LEMMA PoolStep == TypeOK /\ PoolInv /\ [Next]_vars => PoolInv'
<1> SUFFICES ASSUME TypeOK, PoolInv, [Next]_vars PROVE PoolInv'
  OBVIOUS
<1>1. ASSUME UNCHANGED <<slot, spare, free>> PROVE PoolInv'
  BY <1>1 DEF PoolInv, Live
<1>2. ASSUME NEW c \in CPU, NEW f \in Frame, DecideOnHeaders(c, f) \/ ReceiveIcmp(c, f)
      PROVE PoolInv'
  BY <1>1, <1>2 DEF DecideOnHeaders, ReceiveIcmp, mapVars
<1>3. ASSUME NEW c \in CPU,
             Lookup(c) \/ LoadBytes(c) \/ StoreBytes(c) \/ LoadCounts(c) \/ StoreCounts(c)
      PROVE PoolInv'
  BY <1>1, <1>3 DEF Lookup, LoadBytes, StoreBytes, LoadCounts, StoreCounts, mapVars
<1>4. ASSUME NEW c \in CPU, UpdateNew(c) PROVE PoolInv'
  <2>1. frame[c].key \in Key
    BY <1>4, FrameInHand DEF UpdateNew, Goto
  <2>2. QED
    BY <1>4, <2>1, PoolUpdate DEF UpdateNew
<1>5. CASE UNCHANGED vars
  BY <1>1, <1>5 DEF vars, mapVars
<1>6. QED
  BY <1>2, <1>3, <1>4, <1>5 DEF Next, Run

\* Every frame that is counted is dropped: credits never outrun the drops.
CreditTotal == SumFunctionOnSet(credit, Elem) <= SumFunctionOnSet(dropped, Key)

\* One frame is dropped and at most one credit given.
LEMMA CreditTotalDrop ==
  ASSUME TypeOK, CreditTotal, NEW k \in Key, NEW e \in Elem,
         dropped' = [dropped EXCEPT ![k] = @ + 1],
         credit' = [credit EXCEPT ![e] = @ + 1] \/ credit' = credit
  PROVE  CreditTotal'
<1>1. PICK d, dd, x, xx : d = dropped /\ dd = dropped' /\ x = credit /\ xx = credit'
  OBVIOUS
<1>2. /\ Summable(d, Key) /\ Summable(dd, Key)
      /\ Summable(x, Elem) /\ Summable(xx, Elem)
  BY <1>1 DEF TypeOK, Summable
<1>3. /\ dd[k] = d[k] + 1 /\ d[k] \in Nat
      /\ \A j \in Key \ {k} : dd[j] = d[j]
  BY <1>1 DEF TypeOK
<1>4. /\ xx[e] <= x[e] + 1 /\ x[e] \in Nat /\ xx[e] \in Nat
      /\ \A j \in Elem \ {e} : xx[j] = x[j]
  BY <1>1 DEF TypeOK
<1>5. SumFunctionOnSet(dd, Key) = SumFunctionOnSet(d, Key) + dd[k] - d[k]
  BY <1>2, <1>3, SumUpdate, KeyAssumption
<1>6. SumFunctionOnSet(xx, Elem) = SumFunctionOnSet(x, Elem) + xx[e] - x[e]
  BY <1>2, <1>4, SumUpdate, PoolAssumption
<1>7. SumFunctionOnSet(d, Key) \in Nat /\ SumFunctionOnSet(x, Elem) \in Nat
  BY <1>2, SumType, KeyAssumption, PoolAssumption
<1>8. SumFunctionOnSet(x, Elem) <= SumFunctionOnSet(d, Key)
  BY <1>1 DEF CreditTotal
<1>9. SumFunctionOnSet(xx, Elem) <= SumFunctionOnSet(dd, Key)
  BY <1>3, <1>4, <1>5, <1>6, <1>7, <1>8
<1>10. QED
  BY <1>1, <1>9 DEF CreditTotal

LEMMA CreditTotalStep == TypeOK /\ CreditTotal /\ [Next]_vars => CreditTotal'
<1> SUFFICES ASSUME TypeOK, CreditTotal, [Next]_vars PROVE CreditTotal'
  OBVIOUS
<1>1. ASSUME UNCHANGED <<credit, dropped>> PROVE CreditTotal'
  BY <1>1 DEF CreditTotal
<1>2. ASSUME NEW c \in CPU, NEW f \in Frame, DecideOnHeaders(c, f) \/ ReceiveIcmp(c, f)
      PROVE CreditTotal'
  BY <1>1, <1>2 DEF DecideOnHeaders, ReceiveIcmp, histVars
<1>3. ASSUME NEW c \in CPU, Lookup(c) \/ LoadBytes(c) \/ StoreBytes(c) \/ LoadCounts(c)
      PROVE CreditTotal'
  BY <1>1, <1>3 DEF Lookup, LoadBytes, StoreBytes, LoadCounts, histVars
<1>4. ASSUME NEW c \in CPU, UpdateNew(c) PROVE CreditTotal'
  <2> DEFINE v == [bytes |-> frame[c].len, counts |-> 1]
  <2>1. PICK k \in Key : k = frame[c].key /\ v \in Value
    BY <1>4, FrameInHand, NewValue DEF UpdateNew, Goto
  <2>2. dropped' = [dropped EXCEPT ![k] = @ + 1]
    BY <1>4, <2>1 DEF UpdateNew, ReturnDrop
  <2>3. PICK e \in Elem : credit' = [credit EXCEPT ![e] = @ + 1] \/ credit' = credit
    <3>1. map_update(c, k, v)
      BY <1>4, <2>1 DEF UpdateNew
    <3>2. CASE UNCHANGED mapVars
      BY <1>4, <3>2 DEF UpdateNew, mapVars, TypeOK
    <3>3. ASSUME NEW e \in Elem, Linked(c, k, v, e)
          PROVE  credit' = [credit EXCEPT ![e] = @ + 1]
      BY <1>4, <2>1, <3>3 DEF UpdateNew, Linked, TypeOK
    <3>4. QED
      BY <2>1, <3>1, <3>2, <3>3, UpdateType
  <2>4. QED
    BY <2>2, <2>3, CreditTotalDrop
<1>5. ASSUME NEW c \in CPU, StoreCounts(c) PROVE CreditTotal'
  <2>1. PICK k \in Key, e \in Elem : k = frame[c].key /\ e = value[c]
    BY <1>5, FrameInHand, ValueInHand DEF StoreCounts, Goto, InPlace
  <2>2. /\ dropped' = [dropped EXCEPT ![k] = @ + 1]
        /\ credit' = [credit EXCEPT ![e] = @ + 1]
    BY <1>5, <2>1 DEF StoreCounts, ReturnDrop
  <2>3. QED
    BY <2>2, CreditTotalDrop
<1>6. CASE UNCHANGED vars
  BY <1>1, <1>6 DEF vars, histVars
<1>7. QED
  BY <1>2, <1>3, <1>4, <1>5, <1>6 DEF Next, Run

\* Whatever updates are lost or hit an element that is no longer the source's, the
\* map as a whole never shows more frames than were dropped.
THEOREM TotalBounded == Spec => []TotalNotAbove
<1>1. Init => TypeOK /\ CreditInv
  BY NullAssumption DEF Init, TypeOK, Value, PC, CreditInv, CreditBound
<1>2. Init => PoolInv
  BY NullAssumption DEF Init, PoolInv, Live
<1>3. Init => CreditTotal
  <2> SUFFICES ASSUME Init PROVE CreditTotal
    OBVIOUS
  <2>1. (\A e \in Elem : credit[e] = 0) /\ (\A k \in Key : dropped[k] = 0)
    BY DEF Init
  <2>2. SumFunctionOnSet(credit, Elem) = 0 /\ SumFunctionOnSet(dropped, Key) = 0
    BY <2>1, SumZero, KeyAssumption, PoolAssumption
  <2>3. QED
    BY <2>2 DEF CreditTotal
<1>4. TypeOK /\ CreditInv /\ PoolInv /\ CreditTotal => TotalNotAbove
  <2> SUFFICES ASSUME TypeOK, CreditInv, PoolInv, CreditTotal PROVE TotalNotAbove
    OBVIOUS
  <2>1. PICK S : S = Live
    OBVIOUS
  <2>2. PICK s, h, f, x, d : /\ s = [k \in S |-> slot[k]]
                             /\ h = [k \in S |-> mem[slot[k]].counts]
                             /\ f = [e \in Elem |-> mem[e].counts]
                             /\ x = credit /\ d = dropped
    OBVIOUS
  <2>3. IsFiniteSet(S) /\ IsFiniteSet(Elem) /\ IsFiniteSet(Key)
    BY <2>1, FS_Subset, KeyAssumption, PoolAssumption DEF Live
  <2>4. /\ s \in [S -> Elem] /\ \A j, k \in S : s[j] = s[k] => j = k
        /\ \A k \in S : h[k] = f[s[k]]
    BY <2>1, <2>2 DEF TypeOK, Live, PoolInv
  <2>5. Summable(f, Elem) /\ Summable(x, Elem) /\ Summable(d, Key) /\ Summable(h, S)
    BY <2>1, <2>2 DEF TypeOK, Value, Summable, Live
  <2>6. \A e \in Elem : f[e] <= x[e]
    BY <2>2 DEF CreditInv, CreditBound
  <2>7. SumFunctionOnSet(h, S) <= SumFunctionOnSet(f, Elem)
    BY <2>3, <2>4, <2>5, SumInjection
  <2>8. SumFunctionOnSet(f, Elem) <= SumFunctionOnSet(x, Elem)
    BY <2>3, <2>5, <2>6, SumMonotone
  <2>9. SumFunctionOnSet(x, Elem) <= SumFunctionOnSet(d, Key)
    BY <2>2 DEF CreditTotal
  <2>10. /\ SumFunctionOnSet(h, S) \in Nat /\ SumFunctionOnSet(f, Elem) \in Nat
         /\ SumFunctionOnSet(x, Elem) \in Nat /\ SumFunctionOnSet(d, Key) \in Nat
    BY <2>3, <2>5, SumType
  <2>11. SumFunctionOnSet(h, S) <= SumFunctionOnSet(d, Key)
    BY <2>7, <2>8, <2>9, <2>10
  <2>12. QED
    BY <2>1, <2>2, <2>11 DEF TotalNotAbove
<1>5. QED
  BY <1>1, <1>2, <1>3, <1>4, TypeStep, CreditStep, PoolStep, CreditTotalStep, PTL DEF Spec

-----------------------------------------------------------------------------
(* A source is lost only to a full table.                                  *)

\* The strengthening: a CPU that updates in place found its key in the map,
\* and an entry is never removed.
TrackInv ==
  /\ UntrackedOnlyWhenFull
  /\ \A c \in CPU : pc[c] \in InPlace => slot[frame[c].key] # NULL

LEMMA TrackStep == TypeOK /\ TrackInv /\ [Next]_vars => TrackInv'
<1> SUFFICES ASSUME TypeOK, TrackInv, [Next]_vars PROVE TrackInv'
  OBVIOUS
<1> USE NullAssumption DEF TrackInv, UntrackedOnlyWhenFull, InPlace
<1>1. ASSUME NEW c \in CPU, NEW f \in Frame, DecideOnHeaders(c, f)
      PROVE TrackInv'
  BY <1>1 DEF DecideOnHeaders, mapVars, histVars
<1>2. ASSUME NEW c \in CPU, NEW f \in Frame, ReceiveIcmp(c, f)
      PROVE TrackInv'
  BY <1>2 DEF TypeOK, ReceiveIcmp, Goto, mapVars
<1>3. ASSUME NEW c \in CPU, Lookup(c) PROVE TrackInv'
  BY <1>3 DEF TypeOK, Lookup, map_lookup, mapVars, histVars
<1>4. ASSUME NEW c \in CPU, UpdateNew(c) PROVE TrackInv'
  <2> DEFINE k == frame[c].key
             v == [bytes |-> frame[c].len, counts |-> 1]
  <2>1. k \in Key /\ v \in Value
    BY <1>4, FrameInHand, NewValue DEF UpdateNew, Goto
  <2>2. map_update(c, k, v)
    BY <1>4 DEF UpdateNew
  <2>3. dropped' = [dropped EXCEPT ![k] = @ + 1]
    BY <1>4 DEF UpdateNew, ReturnDrop
  <2>4. /\ free' \subseteq free
        /\ slot'[k] = NULL => free = {}
        /\ \A j \in Key : slot[j] # NULL => slot'[j] # NULL
        /\ \A j \in Key : j # k => slot'[j] = slot[j]
    BY <2>1, <2>2, UpdateType DEF TypeOK, Linked, mapVars
  <2>5. UntrackedOnlyWhenFull'
    BY <2>1, <2>3, <2>4 DEF TypeOK
  <2>6. \A d \in CPU : pc'[d] \in InPlace =>
          /\ pc[d] \in InPlace /\ frame'[d] = frame[d]
          /\ frame[d].key \in Key
    BY <1>4, FrameInHand DEF UpdateNew, ReturnDrop, Goto, TypeOK
  <2>7. QED
    BY <2>4, <2>5, <2>6
<1>5. ASSUME NEW c \in CPU, LoadBytes(c) PROVE TrackInv'
  BY <1>5 DEF TypeOK, LoadBytes, Goto, mapVars, histVars
<1>6. ASSUME NEW c \in CPU, StoreBytes(c) PROVE TrackInv'
  BY <1>6 DEF TypeOK, StoreBytes, Goto, histVars
<1>7. ASSUME NEW c \in CPU, LoadCounts(c) PROVE TrackInv'
  BY <1>7 DEF TypeOK, LoadCounts, Goto, mapVars, histVars
<1>8. ASSUME NEW c \in CPU, StoreCounts(c) PROVE TrackInv'
  <2>1. frame[c].key \in Key /\ slot[frame[c].key] # NULL
    BY <1>8, FrameInHand DEF StoreCounts, Goto
  <2>2. QED
    BY <1>8, <2>1 DEF TypeOK, StoreCounts, ReturnDrop, Goto
<1>9. CASE UNCHANGED vars
  BY <1>9 DEF vars, cpuVars, mapVars, histVars
<1>10. QED
  BY <1>1, <1>2, <1>3, <1>4, <1>5, <1>6, <1>7, <1>8, <1>9 DEF Next, Run

\* A source with dropped frames has an entry unless no element was free.
THEOREM LostOnlyToFullTable == Spec => []UntrackedOnlyWhenFull
<1>1. Init => TypeOK /\ TrackInv
  BY NullAssumption
     DEF Init, TypeOK, Value, PC, TrackInv, UntrackedOnlyWhenFull, InPlace
<1>2. TrackInv => UntrackedOnlyWhenFull
  BY DEF TrackInv
<1>3. QED
  BY <1>1, <1>2, TypeStep, TrackStep, PTL DEF Spec

-----------------------------------------------------------------------------
(* On one CPU the counts are exact.                                        *)

\* The strengthening.  With nobody else to change the map, what the CPU found
\* by its lookup and loaded into its register is still true when it is used;
\* keys do not share elements; a key without an entry had no frame while the
\* table had room.
SoloInv(c) ==
  /\ CountsExact
  /\ \A j, k \in Live : slot[j] = slot[k] => j = k
  /\ \A k \in Live : slot[k] \notin free
  /\ \A k \in Key : slot[k] = NULL /\ free # {} => dropped[k] = 0
  /\ pc[c] = "update" => slot[frame[c].key] = NULL
  /\ pc[c] \in InPlace => value[c] = slot[frame[c].key]
  /\ pc[c] = "storeCounts" => reg[c] = mem[value[c]].counts

LEMMA SoloStep ==
  ASSUME NEW c, CPU = {c}
  PROVE  TypeOK /\ SoloInv(c) /\ [Next]_vars => SoloInv(c)'
<1> SUFFICES ASSUME TypeOK, SoloInv(c), [Next]_vars PROVE SoloInv(c)'
  OBVIOUS
<1> c \in CPU
  OBVIOUS
<1> USE NullAssumption DEF SoloInv, CountsExact, Live, InPlace
<1>1. ASSUME NEW f \in Frame, DecideOnHeaders(c, f) PROVE SoloInv(c)'
  BY <1>1 DEF DecideOnHeaders, mapVars, histVars
<1>2. ASSUME NEW f \in Frame, ReceiveIcmp(c, f) PROVE SoloInv(c)'
  BY <1>2 DEF TypeOK, ReceiveIcmp, Goto, mapVars
<1>3. ASSUME Lookup(c) PROVE SoloInv(c)'
  BY <1>3 DEF TypeOK, Lookup, map_lookup, mapVars, histVars
<1>4. ASSUME UpdateNew(c) PROVE SoloInv(c)'
  <2> DEFINE k == frame[c].key
             v == [bytes |-> frame[c].len, counts |-> 1]
  <2>1. k \in Key /\ v \in Value /\ slot[k] = NULL /\ v.counts = 1
    BY <1>4, FrameInHand, NewValue DEF UpdateNew, Goto
  <2>2. map_insert(k, v) \/ map_full(k)
    BY <1>4, <2>1 DEF UpdateNew, map_update, map_replace
  <2>3. pc'[c] = "idle" /\ dropped' = [dropped EXCEPT ![k] = @ + 1]
    BY <1>4 DEF UpdateNew, ReturnDrop, Goto, TypeOK
  <2>4. CASE map_insert(k, v)
    <3>1. PICK e \in free : /\ slot' = [slot EXCEPT ![k] = e]
                            /\ free' = free \ {e}
                            /\ mem' = [mem EXCEPT ![e] = v]
      BY <2>4 DEF map_insert
    <3>2. e \in Elem /\ dropped'[k] = 1
      BY <2>1, <2>3 DEF TypeOK
    <3>3. CountsExact'
      BY <2>1, <2>3, <3>1, <3>2 DEF TypeOK
    <3>4. QED
      BY <2>1, <2>3, <3>1, <3>2, <3>3 DEF TypeOK
  <2>5. CASE map_full(k)
    BY <2>1, <2>3, <2>5 DEF map_full, mapVars, TypeOK
  <2>6. QED
    BY <2>2, <2>4, <2>5
<1>5. ASSUME LoadBytes(c) PROVE SoloInv(c)'
  BY <1>5 DEF TypeOK, LoadBytes, Goto, mapVars, histVars
<1>6. ASSUME StoreBytes(c) PROVE SoloInv(c)'
  <2>1. value[c] \in Elem
    BY <1>6, ValueInHand DEF StoreBytes, Goto
  <2>2. \A e \in Elem : mem'[e].counts = mem[e].counts
    BY <1>6, <2>1 DEF StoreBytes, TypeOK, Value
  <2>3. QED
    BY <1>6, <2>2 DEF TypeOK, StoreBytes, Goto, histVars
<1>7. ASSUME LoadCounts(c) PROVE SoloInv(c)'
  BY <1>7 DEF TypeOK, LoadCounts, Goto, mapVars, histVars
<1>8. ASSUME StoreCounts(c) PROVE SoloInv(c)'
  <2> DEFINE k == frame[c].key
  <2>1. /\ k \in Key /\ value[c] \in Elem /\ value[c] = slot[k]
        /\ reg[c] = mem[slot[k]].counts
    BY <1>8, FrameInHand, ValueInHand DEF StoreCounts, Goto
  <2>2. \A e \in Elem : mem'[e].counts = IF e = slot[k] THEN dropped[k] + 1
                                                        ELSE mem[e].counts
    BY <1>8, <2>1 DEF StoreCounts, TypeOK, Value
  <2>3. \A j \in Key : dropped'[j] = IF j = k THEN dropped[j] + 1 ELSE dropped[j]
    BY <1>8, <2>1 DEF StoreCounts, ReturnDrop, TypeOK
  <2>4. pc'[c] = "idle" /\ UNCHANGED <<slot, free>>
    BY <1>8 DEF StoreCounts, Goto, TypeOK
  <2>5. \A j \in Live : slot[j] \in Elem
    BY DEF TypeOK
  <2>6. QED
    BY <2>1, <2>2, <2>3, <2>4, <2>5
<1>9. CASE UNCHANGED vars
  BY <1>9 DEF vars, cpuVars, mapVars, histVars
<1>10. QED
  BY <1>1, <1>2, <1>3, <1>4, <1>5, <1>6, <1>7, <1>8, <1>9 DEF Next, Run

\* On a single CPU the plain increments of lines 66-67 lose nothing: every
\* entry counts exactly the frames of its source that were dropped.
THEOREM ExactOnOneCpu == ASSUME NEW CONSTANT c, CPU = {c}
                         PROVE  Spec => []CountsExact
<1>1. Init => TypeOK /\ SoloInv(c)
  BY NullAssumption
     DEF Init, TypeOK, Value, PC, SoloInv, CountsExact, Live, InPlace
<1>2. SoloInv(c) => CountsExact
  BY DEF SoloInv
<1>3. TypeOK /\ SoloInv(c) /\ [Next]_vars => SoloInv(c)'
  BY SoloStep
<1>4. QED
  BY <1>1, <1>2, <1>3, TypeStep, PTL DEF Spec

-----------------------------------------------------------------------------
(* On one CPU the program implements the one-step counter.                 *)

\* What the refinement needs besides SoloInv: every element is linked, free or
\* the CPU's spare, and the register of the byte count is up to date.
RefineInv(c) ==
  /\ IsFiniteSet(Live) /\ IsFiniteSet(free)
  /\ Cardinality(Live) + Cardinality(free) + 1 = Cardinality(Elem)
  /\ pc[c] = "storeBytes" => reg[c] = mem[value[c]].bytes

LEMMA RefineInvStep ==
  ASSUME NEW c, CPU = {c}
  PROVE  TypeOK /\ SoloInv(c) /\ RefineInv(c) /\ [Next]_vars => RefineInv(c)'
<1> SUFFICES ASSUME TypeOK, SoloInv(c), RefineInv(c), [Next]_vars PROVE RefineInv(c)'
  OBVIOUS
<1> c \in CPU
  OBVIOUS
<1> USE NullAssumption DEF RefineInv
<1>1. ASSUME UNCHANGED mapVars, pc'[c] # "storeBytes" PROVE RefineInv(c)'
  BY <1>1 DEF Live, mapVars
<1>2. ASSUME NEW f \in Frame, DecideOnHeaders(c, f) PROVE RefineInv(c)'
  BY <1>2 DEF DecideOnHeaders, mapVars, histVars, Live
<1>3. ASSUME NEW f \in Frame, ReceiveIcmp(c, f) PROVE RefineInv(c)'
  BY <1>1, <1>3 DEF TypeOK, ReceiveIcmp, Goto
<1>4. ASSUME Lookup(c) PROVE RefineInv(c)'
  BY <1>1, <1>4 DEF TypeOK, Lookup
<1>5. ASSUME UpdateNew(c) PROVE RefineInv(c)'
  <2> DEFINE k == frame[c].key
             v == [bytes |-> frame[c].len, counts |-> 1]
  <2>1. k \in Key /\ slot[k] = NULL
    BY <1>5, FrameInHand DEF UpdateNew, Goto, SoloInv
  <2>2. map_insert(k, v) \/ map_full(k)
    BY <1>5, <2>1 DEF UpdateNew, map_update, map_replace
  <2>3. pc'[c] = "idle"
    BY <1>5 DEF UpdateNew, Goto, TypeOK
  <2>4. CASE map_insert(k, v)
    <3>1. PICK e \in free : slot' = [slot EXCEPT ![k] = e] /\ free' = free \ {e}
      BY <2>4 DEF map_insert
    <3>2. k \notin Live /\ Live' = Live \cup {k}
      BY <2>1, <3>1 DEF Live, TypeOK
    <3>3. IsFiniteSet(Live') /\ Cardinality(Live') = Cardinality(Live) + 1
      BY <3>2, FS_AddElement
    <3>4. IsFiniteSet(free') /\ Cardinality(free') = Cardinality(free) - 1
      BY <3>1, FS_RemoveElement
    <3>5. Cardinality(Live) \in Nat /\ Cardinality(free) \in Nat
      BY FS_CardinalityType
    <3>6. QED
      BY <2>3, <3>3, <3>4, <3>5
  <2>5. CASE map_full(k)
    BY <1>1, <2>3, <2>5 DEF map_full
  <2>6. QED
    BY <2>2, <2>4, <2>5
<1>6. ASSUME LoadBytes(c) PROVE RefineInv(c)'
  BY <1>6 DEF TypeOK, LoadBytes, Goto, mapVars, Live
<1>7. ASSUME StoreBytes(c) PROVE RefineInv(c)'
  BY <1>7 DEF TypeOK, StoreBytes, Goto, Live
<1>8. ASSUME LoadCounts(c) PROVE RefineInv(c)'
  BY <1>1, <1>8 DEF TypeOK, LoadCounts, Goto
<1>9. ASSUME StoreCounts(c) PROVE RefineInv(c)'
  BY <1>9 DEF TypeOK, StoreCounts, Goto, Live
<1>10. CASE UNCHANGED vars
  BY <1>10 DEF vars, cpuVars, mapVars, histVars, Live
<1>11. QED
  BY <1>2, <1>3, <1>4, <1>5, <1>6, <1>7, <1>8, <1>9, <1>10 DEF Next, Run

\* With one CPU the bytes not yet settled are those of its frame.
LEMMA UnsettledSolo ==
  ASSUME NEW c, CPU = {c}, NEW k
  PROVE  /\ Unsettled(k) =
              IF pc[c] \in {"loadCounts", "storeCounts"} /\ value[c] = slot[k]
              THEN frame[c].len ELSE 0
         /\ Unsettled(k)' =
              IF pc'[c] \in {"loadCounts", "storeCounts"} /\ value'[c] = slot'[k]
              THEN frame'[c].len ELSE 0
<1>1. \A S : S = {c} => (CHOOSE d \in S : TRUE) = c
  OBVIOUS
<1>2. \A S : S \subseteq {c} /\ c \in S => S = {c}
  OBVIOUS
<1>3. QED
  BY <1>1, <1>2 DEF Unsettled

\* What the map shows of key k, read as IcmpCounter's counters.
ShownCounts(k) == IF k \in Live THEN mem[slot[k]].counts ELSE 0
ShownBytes(k)  == IF k \in Live THEN mem[slot[k]].bytes - Unsettled(k) ELSE 0

\* A step that neither drops a frame nor changes what the map shows.
LEMMA RefineStutter ==
  ASSUME UNCHANGED <<Live, dropped>>,
         \A k \in Key : UNCHANGED <<ShownCounts(k), ShownBytes(k)>>
  PROVE  UNCHANGED Counter!cvars
<1>1. UNCHANGED [k \in Key |-> IF k \in Live THEN mem[slot[k]].counts ELSE 0]
  BY DEF ShownCounts
<1>2. UNCHANGED [k \in Key |-> IF k \in Live THEN mem[slot[k]].bytes - Unsettled(k) ELSE 0]
  BY DEF ShownBytes
<1>3. QED
  BY <1>1, <1>2 DEF Counter!cvars

\* The instance's own copy of Cardinality is Cardinality.
LEMMA SameCardinality == ASSUME NEW S PROVE Counter!Cardinality(S) = Cardinality(S)
BY DEF Counter!Cardinality, Cardinality, Counter!IsFiniteSet, IsFiniteSet

\* A step that drops a frame of n bytes of key k and shows it.
LEMMA RefineCount ==
  ASSUME NEW k \in Key, NEW n,
         k \in Live \/ Cardinality(Live) < Cardinality(Elem) - Cardinality(CPU),
         Live' = Live \cup {k},
         dropped' = [dropped EXCEPT ![k] = @ + 1],
         \A j \in Key :
            /\ ShownCounts(j)' = IF j = k THEN ShownCounts(j) + 1 ELSE ShownCounts(j)
            /\ ShownBytes(j)' = IF j = k THEN ShownBytes(j) + n ELSE ShownBytes(j)
  PROVE  Counter!Count(k, n)
<1>1. [j \in Key |-> IF j \in Live THEN mem[slot[j]].counts ELSE 0]'
        = [[j \in Key |-> IF j \in Live THEN mem[slot[j]].counts ELSE 0] EXCEPT ![k] = @ + 1]
  BY DEF ShownCounts
<1>2. [j \in Key |-> IF j \in Live THEN mem[slot[j]].bytes - Unsettled(j) ELSE 0]'
        = [[j \in Key |-> IF j \in Live THEN mem[slot[j]].bytes - Unsettled(j) ELSE 0] EXCEPT ![k] = @ + n]
  BY DEF ShownBytes
<1>3. QED
  BY <1>1, <1>2, SameCardinality DEF Counter!Count, Counter!Drop

\* Every step of the program on one CPU is a step of the counter or leaves it alone.
LEMMA RefineStep ==
  ASSUME NEW c, CPU = {c}
  PROVE  TypeOK /\ SoloInv(c) /\ RefineInv(c) /\ [Next]_vars
            => [Counter!CNext]_(Counter!cvars)
<1> SUFFICES ASSUME TypeOK, SoloInv(c), RefineInv(c), [Next]_vars
             PROVE  [Counter!CNext]_(Counter!cvars)
  OBVIOUS
<1> c \in CPU
  OBVIOUS
<1> USE NullAssumption
<1>1. ASSUME UNCHANGED <<slot, mem, dropped>>,
             \A k \in Live : Unsettled(k)' = Unsettled(k)
      PROVE  UNCHANGED Counter!cvars
  BY <1>1, RefineStutter DEF Live, ShownCounts, ShownBytes
<1>2. ASSUME NEW f \in Frame, DecideOnHeaders(c, f) PROVE UNCHANGED Counter!cvars
  BY <1>1, <1>2 DEF DecideOnHeaders, mapVars, histVars, Unsettled
<1>3. ASSUME NEW f \in Frame, ReceiveIcmp(c, f) PROVE UNCHANGED Counter!cvars
  BY <1>1, <1>3, UnsettledSolo DEF TypeOK, ReceiveIcmp, Goto, mapVars
<1>4. ASSUME Lookup(c) PROVE UNCHANGED Counter!cvars
  BY <1>1, <1>4, UnsettledSolo DEF TypeOK, Lookup, mapVars, histVars
<1>5. ASSUME UpdateNew(c) PROVE Counter!CNext
  <2>0. PICK k \in Key, n \in Length : k = frame[c].key /\ n = frame[c].len
    BY <1>5, FrameInHand DEF UpdateNew, Goto, Frame
  <2>0a. n \in {l \in Length : l >= ETH_HLEN + IP_HLEN}
    BY <1>5, <2>0 DEF UpdateNew, Goto, TypeOK, Whole
  <2> DEFINE v == [bytes |-> n, counts |-> 1]
  <2>1. slot[k] = NULL /\ k \notin Live /\ n \in Nat
    BY <1>5, <2>0, SizeAssumption DEF UpdateNew, Goto, SoloInv, Live
  <2>2. map_insert(k, v) \/ map_full(k)
    BY <1>5, <2>0, <2>1 DEF UpdateNew, map_update, map_replace
  <2>3. /\ pc[c] = "update" /\ pc'[c] = "idle"
        /\ dropped' = [dropped EXCEPT ![k] = @ + 1]
    BY <1>5, <2>0 DEF UpdateNew, ReturnDrop, Goto, TypeOK
  <2>4. \A j \in Key : Unsettled(j) = 0 /\ Unsettled(j)' = 0
    BY <2>3, UnsettledSolo
  <2>5. Cardinality(CPU) = 1 /\ Cardinality(Elem) \in Nat
    BY FS_Singleton, FS_CardinalityType, PoolAssumption
  <2>6. Cardinality(Live) \in Nat /\ Cardinality(free) \in Nat
    BY FS_CardinalityType DEF RefineInv
  <2>7. CASE map_insert(k, v)
    <3>1. PICK e \in free : /\ slot' = [slot EXCEPT ![k] = e]
                            /\ mem' = [mem EXCEPT ![e] = v]
      BY <2>7 DEF map_insert
    <3>2. e \in Elem /\ Live' = Live \cup {k}
      BY <2>1, <3>1 DEF Live, TypeOK
    <3>3. Cardinality(Live) < Cardinality(Elem) - Cardinality(CPU)
      BY <2>5, <2>6, <3>1, FS_EmptySet DEF RefineInv
    <3>4. \A j \in Live : slot[j] # e /\ slot[j] \in Elem /\ slot'[j] = slot[j] /\ j # k
      BY <2>1, <3>1 DEF SoloInv, TypeOK, Live
    <3>5. \A j \in Key :
            /\ ShownCounts(j)' = IF j = k THEN ShownCounts(j) + 1 ELSE ShownCounts(j)
            /\ ShownBytes(j)' = IF j = k THEN ShownBytes(j) + n ELSE ShownBytes(j)
      BY <2>1, <2>4, <3>1, <3>2, <3>4 DEF ShownCounts, ShownBytes, TypeOK, Value
    <3>6. Counter!Count(k, n)
      BY <2>1, <2>3, <3>2, <3>3, <3>5, RefineCount
    <3>7. QED
      BY <2>0a, <3>6 DEF Counter!CNext
  <2>8. CASE map_full(k)
    <3>1. UNCHANGED <<slot, mem, Live>> /\ free = {}
      BY <2>8 DEF map_full, mapVars, Live
    <3>2. Cardinality(Live) = Cardinality(Elem) - Cardinality(CPU)
      BY <2>5, <2>6, <3>1, FS_EmptySet DEF RefineInv
    <3>3. Counter!DropUncounted(k)
      BY <2>1, <2>3, <2>4, <3>1, <3>2, SameCardinality DEF Counter!DropUncounted, Counter!Drop
    <3>4. QED
      BY <2>1, <3>3 DEF Counter!CNext
  <2>9. QED
    BY <2>2, <2>7, <2>8
<1>6. ASSUME LoadBytes(c) PROVE UNCHANGED Counter!cvars
  BY <1>1, <1>6, UnsettledSolo DEF TypeOK, LoadBytes, Goto, mapVars, histVars
<1>7. ASSUME StoreBytes(c) PROVE UNCHANGED Counter!cvars
  <2> DEFINE k == frame[c].key
  <2>1. /\ k \in Key /\ value[c] \in Elem /\ value[c] = slot[k] /\ k \in Live
        /\ reg[c] = mem[slot[k]].bytes /\ frame[c].len \in Nat
    BY <1>7, FrameInHand, ValueInHand DEF StoreBytes, Goto, InPlace, SoloInv, RefineInv, Live
  <2>2. \A e \in Elem : /\ mem'[e].counts = mem[e].counts
                        /\ mem'[e].bytes = IF e = slot[k] THEN mem[e].bytes + frame[c].len
                                                          ELSE mem[e].bytes
    BY <1>7, <2>1 DEF StoreBytes, TypeOK, Value
  <2>3. UNCHANGED <<slot, dropped, value, frame>> /\ pc[c] = "storeBytes" /\ pc'[c] = "loadCounts"
    BY <1>7 DEF StoreBytes, Goto, histVars, TypeOK
  <2>4. \A j \in Live : /\ slot[j] \in Elem
                        /\ slot[j] = slot[k] <=> j = k
                        /\ mem[slot[j]].bytes \in Nat
    BY <2>1 DEF TypeOK, SoloInv, Live, Value
  <2>5. \A j \in Live : /\ Unsettled(j) = 0
                        /\ Unsettled(j)' = IF j = k THEN frame[c].len ELSE 0
    BY <2>1, <2>3, <2>4, UnsettledSolo
  <2>6. Live' = Live
    BY <2>3 DEF Live
  <2>7. \A j \in Key : UNCHANGED <<ShownCounts(j), ShownBytes(j)>>
    BY <2>1, <2>2, <2>3, <2>4, <2>5, <2>6 DEF ShownCounts, ShownBytes
  <2>8. QED
    BY <2>3, <2>6, <2>7, RefineStutter
<1>8. ASSUME LoadCounts(c) PROVE UNCHANGED Counter!cvars
  BY <1>1, <1>8, UnsettledSolo DEF TypeOK, LoadCounts, Goto, mapVars, histVars
<1>9. ASSUME StoreCounts(c) PROVE Counter!CNext
  <2>0. PICK k \in Key, n \in Length : k = frame[c].key /\ n = frame[c].len
    BY <1>9, FrameInHand DEF StoreCounts, Goto, Frame
  <2>0a. n \in {l \in Length : l >= ETH_HLEN + IP_HLEN}
    BY <1>9, <2>0 DEF StoreCounts, Goto, TypeOK, Whole
  <2>1. /\ value[c] \in Elem /\ value[c] = slot[k] /\ k \in Live
        /\ reg[c] = mem[slot[k]].counts /\ n \in Nat
    BY <1>9, <2>0, ValueInHand, SizeAssumption
       DEF StoreCounts, Goto, InPlace, SoloInv, Live
  <2>2. \A e \in Elem : /\ mem'[e].bytes = mem[e].bytes
                        /\ mem'[e].counts = IF e = slot[k] THEN mem[e].counts + 1
                                                           ELSE mem[e].counts
    BY <1>9, <2>1 DEF StoreCounts, TypeOK, Value
  <2>3. /\ pc[c] = "storeCounts" /\ pc'[c] = "idle" /\ UNCHANGED <<slot, Live>>
        /\ dropped' = [dropped EXCEPT ![k] = @ + 1]
    BY <1>9, <2>0 DEF StoreCounts, ReturnDrop, Goto, TypeOK, Live
  <2>4. \A j \in Live : /\ slot[j] \in Elem
                        /\ slot[j] = slot[k] <=> j = k
                        /\ mem[slot[j]].bytes \in Nat
    BY <2>1 DEF TypeOK, SoloInv, Live, Value
  <2>5. \A j \in Live : /\ Unsettled(j)' = 0
                        /\ Unsettled(j) = IF j = k THEN n ELSE 0
    BY <2>0, <2>1, <2>3, <2>4, UnsettledSolo
  <2>6. \A j \in Key :
          /\ ShownCounts(j)' = IF j = k THEN ShownCounts(j) + 1 ELSE ShownCounts(j)
          /\ ShownBytes(j)' = IF j = k THEN ShownBytes(j) + n ELSE ShownBytes(j)
    BY <2>1, <2>2, <2>3, <2>4, <2>5 DEF ShownCounts, ShownBytes
  <2>7. Live' = Live \cup {k}
    BY <2>1, <2>3
  <2>8. Counter!Count(k, n)
    BY <2>1, <2>3, <2>6, <2>7, RefineCount
  <2>9. QED
    BY <2>0a, <2>8 DEF Counter!CNext
<1>10. CASE UNCHANGED vars
  BY <1>1, <1>10 DEF vars, cpuVars, mapVars, histVars, Unsettled
<1>11. QED
  BY <1>2, <1>3, <1>4, <1>5, <1>6, <1>7, <1>8, <1>9, <1>10 DEF Next, Run

\* On a single CPU drop_icmp implements the one-step counter of IcmpCounter: the
\* two separate increments of lines 66-67, each a load and a store, show as one,
\* and only a source that meets a full table goes uncounted.
THEOREM RefinesCounterOnOneCpu == ASSUME NEW CONSTANT c, CPU = {c}
                                  PROVE  Spec => ImplementsCounter
<1>1. Init => TypeOK /\ SoloInv(c)
  BY NullAssumption
     DEF Init, TypeOK, Value, PC, SoloInv, CountsExact, Live, InPlace
<1>2. Init => RefineInv(c)
  <2> SUFFICES ASSUME Init PROVE RefineInv(c)
    OBVIOUS
  <2>1. Live = {} /\ pc[c] = "idle"
    BY DEF Init, Live
  <2>2. spare[c] \in Elem /\ free = Elem \ {spare[c]}
    BY DEF Init
  <2>3. IsFiniteSet(free) /\ Cardinality(free) = Cardinality(Elem) - 1
    BY <2>2, PoolAssumption, FS_RemoveElement
  <2>4. QED
    BY <2>1, <2>3, FS_EmptySet, FS_CardinalityType, PoolAssumption DEF RefineInv
<1>3. Init => Counter!CInit
  BY DEF Init, Live, Counter!CInit
<1>4. TypeOK /\ SoloInv(c) /\ [Next]_vars => SoloInv(c)'
  BY SoloStep
<1>5. TypeOK /\ SoloInv(c) /\ RefineInv(c) /\ [Next]_vars => RefineInv(c)'
  BY RefineInvStep
<1>6. TypeOK /\ SoloInv(c) /\ RefineInv(c) /\ [Next]_vars
         => [Counter!CNext]_(Counter!cvars)
  BY RefineStep
<1>7. QED
  BY <1>1, <1>2, <1>3, <1>4, <1>5, <1>6, TypeStep, PTL
     DEF Spec, ImplementsCounter, Counter!CSpec
=============================================================================
