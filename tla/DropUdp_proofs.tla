--------------------------- MODULE DropUdp_proofs ---------------------------
(***************************************************************************)
(* Proofs about the UDP byte counter for any number of CPUs, processes and *)
(* blocks and any width of the counter.                                    *)
(***************************************************************************)
EXTENDS DropUdp, FiniteSums, TLAPS

\* The counter's modulus is positive, so that a remainder is a counter value.
LEMMA Modulus == 2^Width \in Nat \ {0}
BY WidthAssumption

\* A multiple of m that is closer to 0 than m is 0.
LEMMA SmallMultiple ==
  ASSUME NEW m \in Nat \ {0}, NEW k \in Int, m * k < m, - m < m * k
  PROVE  m * k = 0
<1>1. CASE k >= 1
  BY <1>1
<1>2. CASE k <= -1
  BY <1>2
<1>3. CASE k = 0
  BY <1>3
<1>4. QED
  BY <1>1, <1>2, <1>3

\* Division with remainder.
LEMMA DivMod ==
  ASSUME NEW m \in Nat \ {0}, NEW x \in Nat
  PROVE  x \div m \in Int /\ x % m \in 0..(m - 1) /\ x = m * (x \div m) + (x % m)
OBVIOUS

\* Numbers that differ by a multiple of m have the same remainder.
LEMMA SameRemainder ==
  ASSUME NEW m \in Nat \ {0}, NEW x \in Nat, NEW y \in Nat, NEW k \in Int,
         x = m * k + y
  PROVE  x % m = y % m
<1>1. PICK p \in Int, r \in 0..(m - 1) : p = x \div m /\ r = x % m /\ x = m * p + r
  BY DivMod
<1>2. PICK q \in Int, s \in 0..(m - 1) : q = y \div m /\ s = y % m /\ y = m * q + s
  BY DivMod
<1>3. m * (p - k - q) = s - r
  <2>1. m * (p - k - q) = m * p - m * k - m * q
    OBVIOUS
  <2>2. PICK mp \in Int, mk \in Int, mq \in Int : mp = m * p /\ mk = m * k /\ mq = m * q
    OBVIOUS
  <2>3. mp + r = mk + (mq + s)
    BY <1>1, <1>2, <2>2
  <2>4. mp - mk - mq = s - r
    BY <2>3
  <2>5. QED
    BY <2>1, <2>2, <2>4
<1>4. m * (p - k - q) = 0
  <2>1. p - k - q \in Int
    OBVIOUS
  <2>2. s - r < m /\ - m < s - r
    OBVIOUS
  <2>3. QED
    BY <1>3, <2>1, <2>2, SmallMultiple
<1>5. r = s
  BY <1>3, <1>4
<1>6. QED
  BY <1>1, <1>2, <1>5

\* Reducing a summand first does not change a remainder.
LEMMA AddModulo ==
  ASSUME NEW m \in Nat \ {0}, NEW a \in Nat, NEW b \in Nat
  PROVE  ((a % m) + b) % m = (a + b) % m
<1>1. PICK p \in Int, r \in 0..(m - 1) : p = a \div m /\ r = a % m /\ a = m * p + r
  BY DivMod
<1>2. PICK x \in Nat, y \in Nat : x = a + b /\ y = r + b
  OBVIOUS
<1>3. x = m * p + y
  BY <1>1, <1>2
<1>4. x % m = y % m
  BY <1>3, SameRemainder
<1>5. QED
  BY <1>1, <1>2, <1>4

------------------------------------------------------------------------------
(* Types.                                                                  *)

\* A process that parses does so into a block: nobody resets the pointer.
ParsesIntoBlock == \A p \in Proc : ppc[p] = "parse" => port \in Block

TypeInv == TypeOK /\ ParsesIntoBlock

LEMMA TypeInit == ASSUME Init PROVE TypeInv
<1>1. hook \in BOOLEAN /\ overlap \in BOOLEAN
  BY Zenon DEF Init
<1>2. QED
  BY <1>1, Modulus DEF Init, TypeInv, TypeOK, ParsesIntoBlock

LEMMA TypeStep ==
  ASSUME TypeInv, [Next]_vars
  PROVE  TypeInv'
<1> USE Modulus, LengthAssumption, DistinctAssumption
      DEF TypeInv, TypeOK, ParsesIntoBlock
<1>1. CASE RegisterHook
  BY <1>1 DEF RegisterHook, hookVars, portVars
<1>2. CASE CreateFiles
  BY <1>2 DEF CreateFiles, File, hookVars, portVars
<1>3. CASE Deinit
  BY <1>3 DEF Deinit, hookVars, portVars
<1>4. ASSUME NEW c \in CPU, NEW n \in Length, Packet(c, n)
      PROVE  TypeInv'
  <2>1. overlap' \in BOOLEAN
    BY <1>4, Zenon DEF Packet
  <2>2. QED
    BY <1>4, <2>1 DEF Packet, moduleVars, portVars
<1>5. ASSUME NEW c \in CPU, LoadCount(c)
      PROVE  TypeInv'
  BY <1>5 DEF LoadCount, moduleVars, portVars
<1>6. ASSUME NEW c \in CPU, StoreCount(c)
      PROVE  TypeInv'
  <2>1. reg[c] + len[c] \in Nat
    OBVIOUS
  <2>2. count' \in 0..(2^Width - 1)
    BY <1>6, <2>1, DivMod DEF StoreCount
  <2>3. QED
    BY <1>6, <2>2 DEF StoreCount, moduleVars, portVars
<1>7. ASSUME NEW p \in Proc, NEW v \in PortValue \cup {GARBAGE, OPEN}, AllocPort(p, v)
      PROVE  TypeInv'
  BY <1>7 DEF AllocPort, moduleVars, hookVars
<1>8. ASSUME NEW p \in Proc, RejectPort(p)
      PROVE  TypeInv'
  BY <1>8 DEF RejectPort, moduleVars, hookVars
<1>9. ASSUME NEW p \in Proc, ParsePort(p)
      PROVE  TypeInv'
  <2>1. PICK v \in PortValue : heap' = [heap EXCEPT ![port] = v]
    BY <1>9 DEF ParsePort
  <2>2. QED
    BY <1>9, <2>1 DEF ParsePort, moduleVars, hookVars
<1>10. CASE UNCHANGED vars
  BY <1>10 DEF vars, moduleVars, hookVars, portVars
<1>11. QED
  BY <1>1, <1>2, <1>3, <1>4, <1>5, <1>6, <1>7, <1>8, <1>9, <1>10 DEF Next

LEMMA TypeInvariant == Spec => []TypeInv
BY TypeInit, TypeStep, PTL DEF Spec

\* The module's state has its type; the counter stays within its width.
THEOREM TypeCorrect == Spec => []TypeOK
<1>1. TypeInv => TypeOK
  BY DEF TypeInv
<1>2. QED
  BY <1>1, TypeInvariant, PTL

------------------------------------------------------------------------------
(* The file drop_port.                                                     *)

\* After an undisturbed accepted write nobody is writing, and the pointer is at
\* the block with the number that was parsed.
HeldInv == last # NULL => /\ \A p \in Proc : ppc[p] = "user"
                          /\ port \in Block /\ heap[port] \in PortValue
                          /\ last # OPEN => heap[port] = last

LEMMA HeldStep ==
  ASSUME TypeInv, HeldInv, [Next]_vars
  PROVE  HeldInv'
<1> USE DistinctAssumption DEF TypeInv, TypeOK, ParsesIntoBlock, HeldInv
<1>1. CASE RegisterHook \/ CreateFiles \/ Deinit
  BY <1>1 DEF RegisterHook, CreateFiles, Deinit, portVars
<1>2. ASSUME NEW c \in CPU,
             LoadCount(c) \/ StoreCount(c) \/ \E n \in Length : Packet(c, n)
      PROVE  HeldInv'
  BY <1>2 DEF LoadCount, StoreCount, Packet, portVars
<1>3. ASSUME NEW p \in Proc, NEW v \in PortValue \cup {GARBAGE, OPEN}, AllocPort(p, v)
      PROVE  HeldInv'
  BY <1>3 DEF AllocPort
<1>4. ASSUME NEW p \in Proc, RejectPort(p)
      PROVE  HeldInv'
  BY <1>4 DEF RejectPort
<1>5. ASSUME NEW p \in Proc, ParsePort(p)
      PROVE  HeldInv'
  <2>1. PICK v \in PortValue : /\ heap' = [heap EXCEPT ![port] = v]
                               /\ input[p] # OPEN => v = input[p]
    BY <1>5 DEF ParsePort
  <2>2. QED
    BY <1>5, <2>1 DEF ParsePort
<1>6. CASE UNCHANGED vars
  BY <1>6 DEF vars, portVars
<1>7. QED
  BY <1>1, <1>2, <1>3, <1>4, <1>5, <1>6 DEF Next

\* However writers of drop_port interleave on the global pointer, a write that was
\* accepted undisturbed is what port_show prints until the next write begins, if
\* its text holds the end of its number; otherwise port_show prints some number.
THEOREM PortHeld == Spec => []AcceptedPortHeld
<1>1. Init => HeldInv
  BY DEF Init, HeldInv
<1>2. TypeInv /\ HeldInv => AcceptedPortHeld
  BY DistinctAssumption DEF HeldInv, AcceptedPortHeld, port_show
<1>3. QED
  BY <1>1, <1>2, TypeInvariant, HeldStep, PTL DEF Spec

------------------------------------------------------------------------------
(* The counter.                                                            *)

\* While packets have not overlapped, at most one is in the hook, and the counter
\* lacks just its length.
SerialInv ==
  ~overlap =>
    /\ \A c, d \in CPU : cpc[c] # "idle" /\ cpc[d] # "idle" => c = d
    /\ Quiet => count = total % 2^Width
    /\ \A c \in CPU : cpc[c] # "idle" =>
         \E before \in Nat : /\ total = before + len[c]
                             /\ count = before % 2^Width
                             /\ cpc[c] = "store" => reg[c] = count

LEMMA SerialStep ==
  ASSUME TypeInv, SerialInv, [Next]_vars
  PROVE  SerialInv'
<1>1. CASE RegisterHook \/ CreateFiles \/ Deinit
  BY <1>1 DEF SerialInv, Quiet, RegisterHook, CreateFiles, Deinit, hookVars
<1>2. ASSUME NEW e \in CPU, NEW n \in Length, Packet(e, n)
      PROVE  SerialInv'
  <2> SUFFICES ASSUME ~overlap' PROVE SerialInv'
    BY DEF SerialInv
  <2>1. /\ ~overlap /\ Quiet /\ n \in Nat /\ total \in Nat
        /\ cpc' = [cpc EXCEPT ![e] = "load"] /\ len' = [len EXCEPT ![e] = n]
        /\ total' = total + n /\ count' = count
    BY <1>2, LengthAssumption DEF Packet, Quiet, TypeInv, TypeOK
  <2>2. count = total % 2^Width
    BY <2>1 DEF SerialInv
  <2>3. \A c \in CPU : cpc'[c] = IF c = e THEN "load" ELSE "idle"
    BY <2>1 DEF Quiet, TypeInv, TypeOK
  <2>4. len'[e] = n
    BY <2>1 DEF TypeInv, TypeOK
  <2>5. QED
    BY <2>1, <2>2, <2>3, <2>4 DEF SerialInv, Quiet
<1>3. ASSUME NEW e \in CPU, LoadCount(e)
      PROVE  SerialInv'
  <2>1. /\ UNCHANGED <<count, len, total, overlap>>
        /\ cpc[e] = "load" /\ cpc' = [cpc EXCEPT ![e] = "store"]
        /\ reg' = [reg EXCEPT ![e] = count]
    BY <1>3 DEF LoadCount
  <2>2. QED
    BY <2>1 DEF SerialInv, Quiet, TypeInv, TypeOK
<1>4. ASSUME NEW e \in CPU, StoreCount(e)
      PROVE  SerialInv'
  <2> SUFFICES ASSUME ~overlap PROVE SerialInv'
    BY <1>4 DEF SerialInv, StoreCount
  <2>1. /\ cpc[e] = "store" /\ cpc' = [cpc EXCEPT ![e] = "idle"]
        /\ count' = (reg[e] + len[e]) % 2^Width /\ total' = total
    BY <1>4 DEF StoreCount
  <2>2. PICK before \in Nat : total = before + len[e] /\ reg[e] = before % 2^Width
    BY <2>1 DEF SerialInv
  <2>3. count' = total' % 2^Width
    BY <2>1, <2>2, AddModulo, Modulus DEF TypeInv, TypeOK
  <2>4. \A c \in CPU : cpc'[c] = "idle"
    BY <2>1 DEF SerialInv, TypeInv, TypeOK
  <2>5. QED
    BY <2>3, <2>4 DEF SerialInv
<1>5. ASSUME NEW p \in Proc,
             RejectPort(p) \/ ParsePort(p)
               \/ \E v \in PortValue \cup {GARBAGE, OPEN} : AllocPort(p, v)
      PROVE  SerialInv'
  BY <1>5 DEF SerialInv, Quiet, RejectPort, ParsePort, AllocPort, hookVars
<1>6. CASE UNCHANGED vars
  BY <1>6 DEF SerialInv, Quiet, vars, hookVars
<1>7. QED
  BY <1>1, <1>2, <1>3, <1>4, <1>5, <1>6 DEF Next

\* Packets that are handled one after the other are counted exactly modulo the
\* width of the counter, and drop_count shows their total below the sign bit.
THEOREM SerialExact == Spec => []SerialCountExact
<1>1. Init => SerialInv
  <2>1. 0 = 0 % 2^Width
    BY Modulus
  <2>2. QED
    BY <2>1 DEF Init, SerialInv, Quiet
<1>2. TypeInv /\ SerialInv => SerialCountExact
  <2>1. ASSUME total \in Nat, total < 2^(Width - 1)
        PROVE  total % 2^Width = total
    BY <2>1, WidthAssumption
  <2>2. QED
    BY <2>1 DEF SerialInv, SerialCountExact, drop_count_show, TypeInv, TypeOK
<1>3. QED
  BY <1>1, <1>2, TypeInvariant, SerialStep, PTL DEF Spec

------------------------------------------------------------------------------
(* Overlapping packets lose bytes and never invent any.                    *)

\* The bytes of the packets that are in the hook.
InHook == SumFunctionOnSet(len, CPU)

\* The strengthening: until the traffic exceeds the counter's width, the counter
\* and every copy of it that is about to be stored lack at least the bytes of the
\* packets in the hook.
BelowInv ==
  /\ \A c \in CPU : cpc[c] = "idle" => len[c] = 0
  /\ total < 2^Width =>
       /\ count + InHook <= total
       /\ \A c \in CPU : cpc[c] = "store" => reg[c] + InHook <= total

LEMMA LenSummable == ASSUME TypeInv PROVE Summable(len, CPU) /\ InHook \in Nat
BY SumType, CpuAssumption DEF TypeInv, TypeOK, Summable, InHook

LEMMA BelowStep ==
  ASSUME TypeInv, TypeInv', BelowInv, [Next]_vars
  PROVE  BelowInv'
<1>1. CASE RegisterHook \/ CreateFiles \/ Deinit
  BY <1>1 DEF BelowInv, InHook, RegisterHook, CreateFiles, Deinit, hookVars
<1>2. ASSUME NEW e \in CPU, NEW n \in Length, Packet(e, n)
      PROVE  BelowInv'
  <2>1. /\ n \in Nat /\ total \in Nat /\ len[e] = 0 /\ len \in [CPU -> Nat]
        /\ cpc[e] = "idle"
    BY <1>2, LengthAssumption DEF Packet, TypeInv, TypeOK, BelowInv
  <2>2. /\ UNCHANGED <<count, reg>> /\ total' = total + n
        /\ cpc' = [cpc EXCEPT ![e] = "load"] /\ len' = [len EXCEPT ![e] = n]
    BY <1>2 DEF Packet
  <2>3. PICK l, ll : l = len /\ ll = len'
    OBVIOUS
  <2>4. Summable(l, CPU) /\ Summable(ll, CPU)
    BY <2>1, <2>2, <2>3 DEF Summable
  <2>5. ll[e] = n /\ l[e] = 0 /\ \A d \in CPU \ {e} : ll[d] = l[d]
    BY <2>1, <2>2, <2>3
  <2>6. SumFunctionOnSet(ll, CPU) = SumFunctionOnSet(l, CPU) + ll[e] - l[e]
    BY <2>4, <2>5, SumUpdate, CpuAssumption
  <2>7. InHook' = InHook + n /\ InHook \in Nat
    BY <2>1, <2>3, <2>5, <2>6, LenSummable DEF InHook
  <2>8. \A d \in CPU : /\ reg[d] \in Nat /\ count \in Nat
                       /\ cpc'[d] = "idle" => len'[d] = 0
                       /\ cpc'[d] = "store" => cpc[d] = "store"
    BY <2>1, <2>2, Modulus DEF TypeInv, TypeOK, BelowInv
  <2>9. ASSUME total' < 2^Width
        PROVE  /\ count' + InHook' <= total'
               /\ \A d \in CPU : cpc'[d] = "store" => reg'[d] + InHook' <= total'
    BY <2>1, <2>2, <2>7, <2>8, <2>9, Modulus DEF BelowInv
  <2>10. QED
    BY <2>8, <2>9 DEF BelowInv
<1>3. ASSUME NEW e \in CPU, LoadCount(e)
      PROVE  BelowInv'
  <2>1. /\ UNCHANGED <<count, len, total>>
        /\ cpc[e] = "load" /\ cpc' = [cpc EXCEPT ![e] = "store"]
        /\ reg' = [reg EXCEPT ![e] = count]
    BY <1>3 DEF LoadCount
  <2>2. InHook' = InHook
    BY <2>1 DEF InHook
  <2>3. QED
    BY <2>1, <2>2 DEF BelowInv, TypeInv, TypeOK
<1>4. ASSUME NEW e \in CPU, StoreCount(e)
      PROVE  BelowInv'
  <2>1. /\ cpc[e] = "store" /\ cpc' = [cpc EXCEPT ![e] = "idle"]
        /\ count' = (reg[e] + len[e]) % 2^Width /\ total' = total
        /\ reg' = [reg EXCEPT ![e] = 0] /\ len' = [len EXCEPT ![e] = 0]
    BY <1>4 DEF StoreCount
  <2>2. PICK l, ll : l = len /\ ll = len'
    OBVIOUS
  <2>3. Summable(l, CPU) /\ Summable(ll, CPU)
    BY <2>1, <2>2 DEF Summable, TypeInv, TypeOK
  <2>4. ll[e] = 0 /\ l[e] = len[e] /\ \A d \in CPU \ {e} : ll[d] = l[d]
    BY <2>1, <2>2 DEF TypeInv, TypeOK
  <2>5. SumFunctionOnSet(ll, CPU) = SumFunctionOnSet(l, CPU) + ll[e] - l[e]
    BY <2>3, <2>4, SumUpdate, CpuAssumption
  <2>6. SumFunctionOnSet(l, CPU) \in Nat /\ SumFunctionOnSet(ll, CPU) \in Nat
    BY <2>3, SumType, CpuAssumption
  <2>7. InHook' = InHook - len[e] /\ len[e] <= InHook /\ InHook \in Nat /\ len[e] \in Nat
    BY <2>2, <2>3, <2>4, <2>5, <2>6 DEF InHook, Summable
  <2>8. \A d \in CPU : /\ cpc'[d] = "idle" => len'[d] = 0
                       /\ cpc'[d] = "store" => /\ cpc[d] = "store"
                                               /\ reg'[d] = reg[d]
                       /\ reg[d] \in Nat
    BY <2>1, Modulus DEF TypeInv, TypeOK, BelowInv
  <2>9. ASSUME total < 2^Width
        PROVE  /\ count' + InHook' <= total
               /\ \A d \in CPU : cpc'[d] = "store" => reg'[d] + InHook' <= total
    <3>1. reg[e] + InHook <= total /\ reg[e] \in Nat /\ total \in Nat
      BY <2>1, <2>8, <2>9 DEF BelowInv, TypeInv, TypeOK
    <3>2. reg[e] + len[e] \in Nat /\ reg[e] + len[e] < 2^Width
      BY <2>7, <2>9, <3>1, Modulus
    <3>3. count' = reg[e] + len[e]
      BY <2>1, <3>2, Modulus
    <3>4. count' + InHook' <= total
      BY <2>7, <3>1, <3>3
    <3>5. \A d \in CPU : cpc'[d] = "store" => reg'[d] + InHook' <= total
      BY <2>7, <2>8, <2>9, <3>1 DEF BelowInv
    <3>6. QED
      BY <3>4, <3>5
  <2>10. QED
    BY <2>1, <2>8, <2>9 DEF BelowInv
<1>5. ASSUME NEW p \in Proc,
             RejectPort(p) \/ ParsePort(p)
               \/ \E v \in PortValue \cup {GARBAGE, OPEN} : AllocPort(p, v)
      PROVE  BelowInv'
  BY <1>5 DEF BelowInv, InHook, RejectPort, ParsePort, AllocPort, hookVars
<1>6. CASE UNCHANGED vars
  BY <1>6 DEF BelowInv, InHook, vars, hookVars
<1>7. QED
  BY <1>1, <1>2, <1>3, <1>4, <1>5, <1>6 DEF Next

\* However packets overlap in the hook on any number of CPUs, the counter never
\* exceeds the bytes that were sent, until those exceed its width.
THEOREM NeverAboveTotal == Spec => []CountNotAbove
<1>1. Init => BelowInv
  <2> SUFFICES ASSUME Init PROVE BelowInv
    OBVIOUS
  <2>1. \A c \in CPU : len[c] = 0 /\ cpc[c] = "idle"
    BY DEF Init
  <2>2. InHook = 0
    BY <2>1, SumZero, CpuAssumption DEF InHook
  <2>3. QED
    BY <2>1, <2>2 DEF Init, BelowInv
<1>2. TypeInv /\ BelowInv => CountNotAbove
  <2> SUFFICES ASSUME TypeInv, BelowInv PROVE CountNotAbove
    OBVIOUS
  <2>1. InHook \in Nat /\ count \in Nat /\ total \in Nat
    BY LenSummable, Modulus DEF TypeInv, TypeOK
  <2>2. QED
    BY <2>1 DEF BelowInv, CountNotAbove
<1>3. QED
  BY <1>1, <1>2, TypeInvariant, BelowStep, PTL DEF Spec
=============================================================================
