------------------------ MODULE SocketReaders_proofs ------------------------
(***************************************************************************)
(* Proofs about the TCP pair for any number of clients, messages of any    *)
(* length and number, and a buffer of any size; about the dump programs    *)
(* and the route listener for tables of any length; and about get_sta_info *)
(* for any number of interfaces and stations.                              *)
(***************************************************************************)
EXTENDS SocketReaders, FiniteSums, SequenceTheorems, TLAPS

-----------------------------------------------------------------------------
(* FlattenSeq, one sequence after the other.                               *)

LEMMA SequenceFacts ==
  ASSUME NEW T, NEW ss \in Seq(T)
  PROVE  /\ Len(ss) \in Nat
         /\ ss \in [1..Len(ss) -> T]
         /\ \A i \in 1..Len(ss) : ss[i] \in T
         /\ Len(ss) = 0 => ss = <<>>
         /\ \A x \in T : /\ Append(ss, x) \in Seq(T)
                         /\ Len(Append(ss, x)) = Len(ss) + 1
                         /\ Append(ss, x)[Len(ss) + 1] = x
                         /\ \A i \in 1..Len(ss) : Append(ss, x)[i] = ss[i]
OBVIOUS

\* The same for a sequence of sequences.
LEMMA NestedFacts ==
  ASSUME NEW S, NEW ss \in Seq(Seq(S))
  PROVE  /\ Len(ss) \in Nat
         /\ ss \in [1..Len(ss) -> Seq(S)]
         /\ \A i \in 1..Len(ss) : ss[i] \in Seq(S)
         /\ Len(ss) = 0 => ss = <<>>
         /\ \A x \in Seq(S) : /\ Append(ss, x) \in Seq(Seq(S))
                              /\ Len(Append(ss, x)) = Len(ss) + 1
                              /\ Append(ss, x)[Len(ss) + 1] = x
                              /\ \A i \in 1..Len(ss) : Append(ss, x)[i] = ss[i]
BY SequenceFacts

FlatStep(ss, f, i) == IF i = 1 THEN ss[i] ELSE f[i - 1] \o ss[i]

IsFlat(ss, f) == f = [i \in 1..Len(ss) |-> FlatStep(ss, f, i)]

Flat(ss) == CHOOSE f : IsFlat(ss, f)

LEMMA FlattenIsFlat ==
  ASSUME NEW ss, Len(ss) # 0
  PROVE  FlattenSeq(ss) = Flat(ss)[Len(ss)]
BY DEF FlattenSeq, Flat, IsFlat, FlatStep

\* The recursive definition has a solution.
LEMMA FlatExists ==
  ASSUME NEW S, NEW ss \in Seq(Seq(S))
  PROVE  \E f \in [1..Len(ss) -> Seq(S)] : f = Flat(ss) /\ IsFlat(ss, f)
<1> DEFINE Upto(f, n) == \A m \in 1..Len(ss) : m <= n => f[m] = FlatStep(ss, f, m)
<1>1. PICK G \in SUBSET Nat : G = {n \in Nat : \E f \in [1..Len(ss) -> Seq(S)] : Upto(f, n)}
  OBVIOUS
<1>2. 0 \in G
  <2>1. ss \in [1..Len(ss) -> Seq(S)] /\ Upto(ss, 0)
    OBVIOUS
  <2>2. QED
    BY <1>1, <2>1
<1>3. ASSUME NEW n \in G PROVE n + 1 \in G
  <2>1. PICK f \in [1..Len(ss) -> Seq(S)] : Upto(f, n)
    BY <1>1, <1>3
  <2>2. n \in Nat /\ Len(ss) \in Nat
    BY <1>1
  <2>3. CASE n + 1 > Len(ss)
    <3>1. Upto(f, n + 1)
      BY <2>1, <2>2, <2>3
    <3>2. QED
      BY <1>1, <2>2, <3>1
  <2>4. CASE n + 1 <= Len(ss)
    <3>1. n + 1 \in 1..Len(ss) /\ (n + 1) - 1 = n
      BY <2>2, <2>4
    <3>2. ss[n + 1] \in Seq(S)
      BY <3>1, NestedFacts
    <3>3. n # 0 => f[n] \in Seq(S)
      <4>1. n # 0 => n \in 1..Len(ss)
        BY <2>2, <3>1
      <4>2. \A m \in 1..Len(ss) : f[m] \in Seq(S)
        BY Zenon
      <4>3. QED
        BY <4>1, <4>2
    <3>4. FlatStep(ss, f, n + 1) = IF n = 0 THEN ss[n + 1] ELSE f[n] \o ss[n + 1]
      BY <2>2, <3>1 DEF FlatStep
    <3>5. PICK v \in Seq(S) : v = FlatStep(ss, f, n + 1)
      <4>1. n # 0 => f[n] \o ss[n + 1] \in Seq(S)
        BY <3>2, <3>3
      <4>2. QED
        BY <3>2, <3>4, <4>1
    <3>6. PICK g \in [1..Len(ss) -> Seq(S)] : g = [f EXCEPT ![n + 1] = v]
      BY <3>1
    <3>7. g[n + 1] = v /\ \A m \in 1..Len(ss) : m <= n => g[m] = f[m]
      BY <2>2, <3>1, <3>6
    <3>8. ASSUME NEW m \in 1..Len(ss), m <= n + 1
          PROVE  FlatStep(ss, g, m) = FlatStep(ss, f, m)
      <4>1. m # 1 => m - 1 \in 1..Len(ss) /\ m - 1 <= n
        BY <2>2, <3>8
      <4>2. m # 1 => g[m - 1] = f[m - 1]
        BY <3>7, <4>1
      <4>3. QED
        BY <4>2 DEF FlatStep
    <3>9. ASSUME NEW m \in 1..Len(ss), m <= n + 1 PROVE g[m] = FlatStep(ss, g, m)
      <4>1. CASE m = n + 1
        BY <3>5, <3>7, <3>8, <3>9, <4>1
      <4>2. CASE m <= n
        BY <2>1, <3>7, <3>8, <3>9, <4>2
      <4>3. QED
        BY <2>2, <3>9, <4>1, <4>2
    <3>10. QED
      BY <1>1, <2>2, <3>9
  <2>5. QED
    BY <2>2, <2>3, <2>4
<1>4. Len(ss) \in G
  <2>1. G = Nat
    BY <1>2, <1>3, SetOfAllNaturals
  <2>2. QED
    BY <2>1
<1>5. PICK f \in [1..Len(ss) -> Seq(S)] : Upto(f, Len(ss))
  BY <1>1, <1>4
<1>6. IsFlat(ss, f)
  <2>1. \A m \in 1..Len(ss) : f[m] = FlatStep(ss, f, m)
    BY <1>5
  <2>2. f = [m \in 1..Len(ss) |-> f[m]]
    OBVIOUS
  <2>3. QED
    BY <2>1, <2>2, Zenon DEF IsFlat
<1>7. PICK g : g = Flat(ss)
  OBVIOUS
<1>8. IsFlat(ss, g)
  BY <1>6, <1>7 DEF Flat
<1>9. g \in [1..Len(ss) -> Seq(S)]
  <2>1. g = [m \in 1..Len(ss) |-> FlatStep(ss, g, m)]
    BY <1>8 DEF IsFlat
  <2>2. \A m \in 1..Len(ss) : g[m] = FlatStep(ss, g, m)
    BY <2>1
  <2>3. PICK H \in SUBSET Nat : H = {n \in Nat : n + 1 <= Len(ss) => g[n + 1] \in Seq(S)}
    OBVIOUS
  <2>4. 0 \in H
    <3>1. CASE 1 <= Len(ss)
      <4>1. 1 \in 1..Len(ss) /\ ss[1] \in Seq(S)
        BY <3>1
      <4>2. g[1] = ss[1]
        BY <2>2, <4>1 DEF FlatStep
      <4>3. QED
        BY <2>3, <4>1, <4>2
    <3>2. QED
      BY <2>3, <3>1
  <2>5. ASSUME NEW n \in H PROVE n + 1 \in H
    <3>1. n \in Nat /\ n + 1 \in Nat
      BY <2>3
    <3>2. CASE (n + 1) + 1 <= Len(ss)
      <4>1. n + 1 <= Len(ss) /\ (n + 1) + 1 \in 1..Len(ss) /\ ((n + 1) + 1) - 1 = n + 1
        BY <3>1, <3>2
      <4>2. g[n + 1] \in Seq(S) /\ ss[(n + 1) + 1] \in Seq(S)
        BY <2>3, <2>5, <4>1, NestedFacts
      <4>3. g[(n + 1) + 1] = g[n + 1] \o ss[(n + 1) + 1]
        <5>1. PICK i \in 1..Len(ss) : i = (n + 1) + 1 /\ i - 1 = n + 1 /\ i # 1
          BY <3>1, <4>1
        <5>2. g[i] = g[i - 1] \o ss[i]
          BY <2>2, <5>1 DEF FlatStep
        <5>3. QED
          BY <5>1, <5>2
      <4>4. g[(n + 1) + 1] \in Seq(S)
        BY <4>2, <4>3
      <4>5. QED
        BY <2>3, <3>1, <4>4
    <3>3. QED
      BY <2>3, <3>1, <3>2
  <2>6. H = Nat
    BY <2>4, <2>5, SetOfAllNaturals
  <2>7. ASSUME NEW m \in 1..Len(ss) PROVE g[m] \in Seq(S)
    <3>1. m - 1 \in H /\ (m - 1) + 1 = m /\ m <= Len(ss)
      BY <2>6
    <3>2. QED
      BY <2>3, <3>1
  <2>8. QED
    BY <2>1, <2>7
<1>10. QED
  BY <1>7, <1>8, <1>9

LEMMA FlattenEmpty == FlattenSeq(<<>>) = <<>>
BY DEF FlattenSeq

LEMMA FlattenType ==
  ASSUME NEW S, NEW ss \in Seq(Seq(S))
  PROVE  FlattenSeq(ss) \in Seq(S)
<1>1. CASE Len(ss) = 0
  <2>1. ss = <<>>
    BY <1>1, NestedFacts
  <2>2. QED
    BY <2>1, FlattenEmpty, EmptySeq
<1>2. CASE Len(ss) # 0
  <2>1. PICK f \in [1..Len(ss) -> Seq(S)] : f = Flat(ss)
    BY FlatExists
  <2>2. Len(ss) \in 1..Len(ss)
    BY <1>2, NestedFacts
  <2>3. f[Len(ss)] \in Seq(S)
    BY <2>2
  <2>4. QED
    BY <1>2, <2>1, <2>3, FlattenIsFlat
<1>3. QED
  BY <1>1, <1>2

\* What is appended comes last.
LEMMA FlattenAppend ==
  ASSUME NEW S, NEW ss \in Seq(Seq(S)), NEW x \in Seq(S)
  PROVE  FlattenSeq(Append(ss, x)) = FlattenSeq(ss) \o x
<1>1. PICK tt \in Seq(Seq(S)) : tt = Append(ss, x)
  BY NestedFacts
<1>2. /\ Len(tt) = Len(ss) + 1 /\ Len(ss) \in Nat /\ tt[Len(ss) + 1] = x
      /\ \A i \in 1..Len(ss) : tt[i] = ss[i]
  BY <1>1, NestedFacts
<1>3. PICK g \in [1..Len(tt) -> Seq(S)] : g = Flat(tt) /\ IsFlat(tt, g)
  BY FlatExists
<1>4. \A i \in 1..Len(tt) : g[i] = FlatStep(tt, g, i)
  <2>1. g = [i \in 1..Len(tt) |-> FlatStep(tt, g, i)]
    BY <1>3 DEF IsFlat
  <2>2. QED
    BY <2>1
<1>5. FlattenSeq(tt) = g[Len(tt)]
  BY <1>2, <1>3, FlattenIsFlat
<1>6. CASE Len(ss) = 0
  <2>1. ss = <<>> /\ 1 \in 1..Len(tt) /\ Len(tt) = 1
    BY <1>2, <1>6, NestedFacts
  <2>2. g[1] = x
    BY <1>2, <1>4, <1>6, <2>1 DEF FlatStep
  <2>3. <<>> \o x = x
    OBVIOUS
  <2>4. QED
    BY <1>1, <1>5, <2>1, <2>2, <2>3, FlattenEmpty
<1>7. CASE Len(ss) # 0
  <2>1. PICK f \in [1..Len(ss) -> Seq(S)] : f = Flat(ss) /\ IsFlat(ss, f)
    BY FlatExists
  <2>2. \A i \in 1..Len(ss) : f[i] = FlatStep(ss, f, i)
    <3>1. f = [i \in 1..Len(ss) |-> FlatStep(ss, f, i)]
      BY <2>1 DEF IsFlat
    <3>2. QED
      BY <3>1
  <2>3. PICK H \in SUBSET Nat : H = {n \in Nat : n + 1 <= Len(ss) => g[n + 1] = f[n + 1]}
    OBVIOUS
  <2>4. 0 \in H
    <3>1. 1 \in 1..Len(ss) /\ 1 \in 1..Len(tt)
      BY <1>2, <1>7
    <3>2. g[1] = tt[1] /\ f[1] = ss[1] /\ tt[1] = ss[1]
      BY <1>2, <1>4, <2>2, <3>1 DEF FlatStep
    <3>3. QED
      BY <2>3, <3>2
  <2>5. ASSUME NEW n \in H PROVE n + 1 \in H
    <3>1. n \in Nat /\ n + 1 \in Nat
      BY <2>3
    <3>2. CASE (n + 1) + 1 <= Len(ss)
      <4>1. /\ n + 1 <= Len(ss) /\ (n + 1) + 1 \in 1..Len(ss) /\ (n + 1) + 1 \in 1..Len(tt)
            /\ ((n + 1) + 1) - 1 = n + 1 /\ (n + 1) + 1 # 1
        BY <1>2, <3>1, <3>2
      <4>2. g[n + 1] = f[n + 1] /\ tt[(n + 1) + 1] = ss[(n + 1) + 1]
        BY <1>2, <2>3, <2>5, <4>1
      <4>3. g[(n + 1) + 1] = g[n + 1] \o tt[(n + 1) + 1]
        BY <1>4, <4>1 DEF FlatStep
      <4>4. f[(n + 1) + 1] = f[n + 1] \o ss[(n + 1) + 1]
        BY <2>2, <4>1 DEF FlatStep
      <4>5. QED
        BY <2>3, <3>1, <4>2, <4>3, <4>4
    <3>3. QED
      BY <2>3, <3>1, <3>2
  <2>6. H = Nat
    BY <2>4, <2>5, SetOfAllNaturals
  <2>7. g[Len(ss)] = f[Len(ss)]
    <3>1. Len(ss) - 1 \in H /\ (Len(ss) - 1) + 1 = Len(ss)
      BY <1>2, <1>7, <2>6
    <3>2. QED
      BY <2>3, <3>1
  <2>8. g[Len(tt)] = g[Len(ss)] \o x
    <3>1. Len(tt) \in 1..Len(tt) /\ Len(tt) - 1 = Len(ss) /\ Len(tt) # 1 /\ tt[Len(tt)] = x
      BY <1>2, <1>7
    <3>2. QED
      BY <1>4, <3>1 DEF FlatStep
  <2>9. FlattenSeq(ss) = f[Len(ss)]
    BY <1>7, <2>1, FlattenIsFlat
  <2>10. QED
    BY <1>1, <1>5, <2>7, <2>8, <2>9
<1>8. QED
  BY <1>6, <1>7

-----------------------------------------------------------------------------
(* Least and greatest elements.                                            *)

LEMMA MinOfSet ==
  ASSUME NEW R \in SUBSET Nat, R # {}
  PROVE  Min(R) \in R /\ \A y \in R : Min(R) <= y
<1>1. \E x \in R : \A y \in R : x <= y
  BY LeastNatural
<1>2. QED
  BY <1>1 DEF Min

LEMMA MaxOfSet ==
  ASSUME NEW n \in Nat, NEW R \in SUBSET (1..n), R # {}
  PROVE  Max(R) \in R /\ \A y \in R : Max(R) >= y
<1>1. PICK B : B = {n - y : y \in R}
  OBVIOUS
<1>2. B \in SUBSET Nat /\ B # {}
  <2>1. \A y \in R : y \in 1..n
    OBVIOUS
  <2>2. \A y \in R : n - y \in Nat
    BY <2>1
  <2>3. PICK y \in R : TRUE
    OBVIOUS
  <2>4. n - y \in B
    BY <1>1
  <2>5. \A z \in B : z \in Nat
    BY <1>1, <2>2
  <2>6. QED
    BY <2>4, <2>5
<1>3. PICK b \in B : \A y \in B : b <= y
  BY <1>2, LeastNatural
<1>4. PICK x \in R : b = n - x
  BY <1>1
<1>5. \A y \in R : n - y \in B /\ y \in Nat
  BY <1>1
<1>6. ASSUME NEW y \in R PROVE x >= y
  <2>1. PICK z \in B : z = n - y
    BY <1>5
  <2>2. b <= z /\ x \in Nat /\ y \in Nat
    BY <1>3, <1>5
  <2>3. QED
    BY <1>4, <2>1, <2>2
<1>7. QED
  BY <1>6 DEF Max

LEMMA MinOfTwo ==
  ASSUME NEW a \in Nat, NEW b \in Nat
  PROVE  Min({a, b}) \in Nat /\ Min({a, b}) <= a /\ Min({a, b}) <= b
<1>1. PICK R \in SUBSET Nat : R = {a, b}
  OBVIOUS
<1>2. R # {}
  BY <1>1
<1>3. QED
  BY <1>1, <1>2, MinOfSet

-----------------------------------------------------------------------------
(* What a client sends.                                                    *)

Char == Client \X Nat

LEMMA ConcatChars ==
  ASSUME NEW s \in Seq(Char), NEW t \in Seq(Char), NEW u \in Seq(Char)
  PROVE  (s \o t) \o u = s \o (t \o u)
<1> DEFINE C == Char
<1> HIDE DEF C
<1>1. s \in Seq(C) /\ t \in Seq(C) /\ u \in Seq(C)
  BY DEF C
<1>2. QED
  BY <1>1, ConcatAssociative, SMTT(30)

\* The characters of the first n messages of c, and those of one message.
Stream(c, n) == [k \in 1..(MsgLen * n) |-> <<c, 1 + (k - 1) \div MsgLen>>]
Block(c, n)  == [k \in 1..MsgLen |-> <<c, n>>]

LEMMA DivideBlock ==
  ASSUME NEW M \in Nat \ {0}, NEW p \in Nat, NEW j \in 1..M
  PROVE  ((M * p + j) - 1) \div M = p
<1>1. PICK i \in 0..(M - 1) : i = j - 1
  OBVIOUS
<1>2. (M * p + i) \div M = p
  OBVIOUS
<1>3. (M * p + j) - 1 = M * p + i
  <2>1. PICK q \in Nat : q = M * p
    OBVIOUS
  <2>2. QED
    BY <1>1, <2>1
<1>4. QED
  BY <1>2, <1>3

LEMMA StreamType ==
  ASSUME NEW c \in Client, NEW n \in Nat
  PROVE  /\ Stream(c, n) \in Seq(Char) /\ Len(Stream(c, n)) = MsgLen * n /\ MsgLen * n \in Nat
         /\ Block(c, n) \in Seq(Char) /\ Len(Block(c, n)) = MsgLen
<1>1. MsgLen \in Nat \ {0}
  BY TcpAssumption
<1>2. PICK m \in Nat : m = MsgLen * n
  BY <1>1
<1>3. \A k \in 1..m : (k - 1) \div MsgLen \in Nat
  <2> SUFFICES ASSUME NEW k \in 1..m PROVE (k - 1) \div MsgLen \in Nat
    OBVIOUS
  <2>1. PICK i \in Nat : i = k - 1
    OBVIOUS
  <2>2. i \div MsgLen \in Nat
    BY <1>1
  <2>3. QED
    BY <2>1, <2>2
<1>4. \A k \in 1..m : <<c, 1 + (k - 1) \div MsgLen>> \in Char
  BY <1>3 DEF Char
<1>5. Stream(c, n) \in [1..m -> Char]
  BY <1>2, <1>4 DEF Stream
<1>6. Block(c, n) \in [1..MsgLen -> Char]
  BY DEF Block, Char
<1>7. QED
  BY <1>1, <1>2, <1>5, <1>6

\* One more message.
LEMMA StreamGrows ==
  ASSUME NEW c \in Client, NEW n \in Nat
  PROVE  Stream(c, n + 1) = Stream(c, n) \o Block(c, n + 1)
<1>1. MsgLen \in Nat \ {0}
  BY TcpAssumption
<1>2. PICK m \in Nat : m = MsgLen * n
  BY <1>1
<1>3. MsgLen * (n + 1) = m + MsgLen
  BY <1>1, <1>2
<1>4. PICK s \in Seq(Char), t \in Seq(Char), u \in Seq(Char) :
        s = Stream(c, n) /\ t = Block(c, n + 1) /\ u = Stream(c, n + 1)
  BY StreamType
<1>5. Len(s) = m /\ Len(t) = MsgLen /\ Len(u) = m + MsgLen
  BY <1>2, <1>3, <1>4, StreamType
<1>6. /\ \A k \in 1..m : s[k] = <<c, 1 + (k - 1) \div MsgLen>>
      /\ \A k \in 1..MsgLen : t[k] = <<c, n + 1>>
      /\ \A k \in 1..(m + MsgLen) : u[k] = <<c, 1 + (k - 1) \div MsgLen>>
  BY <1>2, <1>3, <1>4 DEF Stream, Block
<1>7. /\ s \o t \in Seq(Char) /\ Len(s \o t) = m + MsgLen
      /\ \A k \in 1..(m + MsgLen) : (s \o t)[k] = IF k <= m THEN s[k] ELSE t[k - m]
  BY <1>5, ConcatProperties
<1>8. ASSUME NEW k \in 1..(m + MsgLen) PROVE u[k] = (s \o t)[k]
  <2>1. CASE k <= m
    <3>1. k \in 1..m /\ (s \o t)[k] = s[k]
      BY <1>7, <2>1
    <3>2. QED
      BY <1>6, <3>1
  <2>2. CASE ~ (k <= m)
    <3>1. PICK j \in 1..MsgLen : j = k - m /\ k = m + j
      BY <1>1, <2>2
    <3>2. (k - 1) \div MsgLen = n
      BY <1>1, <1>2, <3>1, DivideBlock
    <3>3. (s \o t)[k] = <<c, n + 1>>
      BY <1>6, <1>7, <2>2, <3>1
    <3>4. u[k] = <<c, 1 + n>> /\ 1 + n = n + 1
      BY <1>6, <3>2
    <3>5. QED
      BY <3>3, <3>4
  <2>3. QED
    BY <2>1, <2>2
<1>9. u = s \o t
  BY <1>5, <1>7, <1>8, SeqEqual
<1>10. QED
  BY <1>4, <1>9

LEMMA StreamStarts == ASSUME NEW c \in Client PROVE Stream(c, 0) = <<>>
<1>1. Stream(c, 0) \in Seq(Char) /\ Len(Stream(c, 0)) = 0
  BY StreamType, TcpAssumption
<1>2. QED
  BY <1>1

-----------------------------------------------------------------------------
(* What the server prints.                                                 *)

\* What a character of its buffer, or behind it, can be.
Cell == Char \cup {NULL, "0", "?"}

\* printf prints what was received and goes on to the first terminator, or out of
\* the buffer if there is none.
LEMMA PrintedText ==
  ASSUME NEW resp \in [1..Resp -> Cell], NEW n \in 0..Resp,
         \A k \in 1..n : resp[k] # NULL, NEW t \in Printed(resp)
  PROVE  /\ t \in Seq(Cell) /\ Len(t) \in Nat /\ n <= Len(t)
         /\ \A j \in 1..Len(t) : j <= Resp => t[j] = resp[j] /\ resp[j] # NULL
<1>1. Resp \in Nat /\ resp \in Seq(Cell) /\ Len(resp) = Resp
  BY TcpAssumption
<1>2. PICK E \in SUBSET (1..Resp) : E = {k \in 1..Resp : resp[k] = NULL}
  OBVIOUS
<1>3. CASE E = {}
  <2>1. PICK y \in SeqOf({"?"}, MaxStray) : t = resp \o y
    BY <1>2, <1>3 DEF Printed
  <2>2. PICK m \in 0..MaxStray : y \in [1..m -> {"?"}]
    BY DEF SeqOf
  <2>3. m \in Nat /\ "?" \in Cell
    BY TcpAssumption DEF Cell
  <2>4. y \in Seq(Cell) /\ Len(y) = m
    BY <2>2, <2>3
  <2>5. /\ t \in Seq(Cell) /\ Len(t) = Resp + m
        /\ \A j \in 1..(Resp + m) : t[j] = IF j <= Resp THEN resp[j] ELSE y[j - Resp]
    BY <1>1, <2>1, <2>4, ConcatProperties
  <2>6. \A j \in 1..Resp : resp[j] # NULL
    BY <1>2, <1>3
  <2>7. Len(t) \in Nat /\ n <= Len(t)
    BY <1>1, <2>3, <2>5
  <2>8. ASSUME NEW j \in 1..Len(t), j <= Resp PROVE t[j] = resp[j] /\ resp[j] # NULL
    <3>1. j \in 1..Resp /\ j \in 1..(Resp + m)
      BY <1>1, <2>3, <2>5, <2>8
    <3>2. QED
      BY <2>5, <2>6, <2>8, <3>1
  <2>9. QED
    BY <2>5, <2>7, <2>8
<1>4. CASE E # {}
  <2>1. PICK m \in E : m = Min(E) /\ \A y \in E : m <= y
    <3>1. E \in SUBSET Nat
      BY <1>1
    <3>2. QED
      BY <1>4, <3>1, MinOfSet
  <2>2. t = SubSeq(resp, 1, m - 1)
    BY <1>2, <1>4, <2>1 DEF Printed
  <2>3. m \in 1..Resp /\ m > n
    BY <1>2, <2>1
  <2>5. t \in Seq(Cell) /\ Len(t) = m - 1 /\ \A j \in 1..(m - 1) : t[j] = resp[j]
    <3>1. 1 \in 1..(Len(resp) + 1) /\ m - 1 \in 0..Len(resp)
      BY <1>1, <2>3
    <3>2. PICK q \in 0..Len(resp) : q = m - 1
      BY <3>1
    <3>3. /\ SubSeq(resp, 1, q) \in Seq(Cell)
          /\ Len(SubSeq(resp, 1, q)) = IF 1 <= q THEN q - 1 + 1 ELSE 0
          /\ \A j \in 1..(q - 1 + 1) : SubSeq(resp, 1, q)[j] = resp[1 + j - 1]
      BY <1>1, <3>1, <3>2, SubSeqProperties
    <3>4. \A j \in 1..q : 1 + j - 1 = j
      BY <1>1, <3>2
    <3>5. QED
      BY <1>1, <2>2, <2>3, <3>2, <3>3, <3>4
  <2>6. ASSUME NEW j \in 1..(m - 1) PROVE resp[j] # NULL
    <3>1. j \in 1..Resp /\ ~ (m <= j)
      BY <1>1, <2>3
    <3>2. j \notin E
      BY <2>1, <3>1
    <3>3. QED
      BY <1>2, <3>1, <3>2
  <2>7. QED
    BY <1>1, <2>3, <2>5, <2>6
<1>5. QED
  BY <1>3, <1>4

-----------------------------------------------------------------------------
(* The buffer behind what was received.                                    *)

Entry == [len : Int, text : Seq(Cell)]

\* The lines up to the k-th that reach the j-th place of the buffer.
Reach(s, k, j) == {i \in 1..k : s[i].len >= j}

\* What was received with each line.
Parts(s) == [k \in 1..Len(s) |-> SubSeq(s[k].text, 1, s[k].len)]

\* What was in the buffer first.
AtFirst(j) == IF j = 1 THEN "0" ELSE NULL

\* The buffer holds what the last line that reached a place left in it, and its
\* first value where none has.
LastLeft(s, b) ==
  \A j \in 1..Resp :
    /\ Reach(s, Len(s), j) = {} => b[j] = AtFirst(j)
    /\ Reach(s, Len(s), j) # {} => b[j] = s[Max(Reach(s, Len(s), j))].text[j]

\* The second half of ServerLines, for one place of one line.
OldAt(s, k, j) ==
  IF j > Resp THEN Reach(s, k, Resp) # {}
  ELSE IF Reach(s, k - 1, j) = {} THEN j = 1 /\ s[k].text[j] = "0"
  ELSE s[k].text[j] = s[Max(Reach(s, k - 1, j))].text[j]

BehindIsOld(s) ==
  \A k \in 1..Len(s) : \A j \in 1..Len(s[k].text) : j > s[k].len => OldAt(s, k, j)

\* Appending leaves the earlier lines where they are.
LEMMA AppendedEntry ==
  ASSUME NEW s \in Seq(Entry), NEW e \in Entry
  PROVE  /\ Append(s, e) \in Seq(Entry) /\ Len(s) \in Nat
         /\ Len(Append(s, e)) = Len(s) + 1
         /\ Append(s, e)[Len(s) + 1] = e
         /\ \A i \in 1..Len(s) : Append(s, e)[i] = s[i] /\ s[i] \in Entry
         /\ \A k \in 0..Len(s), j \in Int : Reach(Append(s, e), k, j) = Reach(s, k, j)
<1>1. PICK T : T = Entry
  OBVIOUS
<1>2. s \in Seq(T) /\ e \in T
  BY <1>1
<1>3. PICK t : t = Append(s, e)
  OBVIOUS
<1>4. /\ t \in Seq(T) /\ Len(s) \in Nat /\ Len(t) = Len(s) + 1 /\ t[Len(s) + 1] = e
      /\ \A i \in 1..Len(s) : t[i] = s[i] /\ s[i] \in T
  BY <1>2, <1>3, SequenceFacts
<1>5. ASSUME NEW k \in 0..Len(s), NEW j \in Int PROVE Reach(t, k, j) = Reach(s, k, j)
  <2>1. \A i \in 1..k : i \in 1..Len(s)
    BY <1>4
  <2>2. \A i \in 1..k : t[i] = s[i]
    BY <1>4, <2>1
  <2>3. QED
    BY <2>2 DEF Reach
<1>6. QED
  BY <1>1, <1>3, <1>4, <1>5

\* What recv returns for n characters, none of them if it fails.
LineLen(n) == IF n = 0 THEN -1 ELSE n

\* One recv: n characters of p go to the start of the buffer, and the line e is
\* printed from it.
Received(s, b, p, n, b2, e) ==
  /\ s \in Seq(Entry) /\ p \in Seq(Char) /\ n \in 0..Resp /\ n <= Len(p)
  /\ b \in [1..Resp -> Cell]
  /\ b2 = [k \in 1..Resp |-> IF k <= n THEN p[k] ELSE b[k]]
  /\ \E t \in Printed(b2) : e = [len |-> LineLen(n), text |-> t]

LEMMA ReceivedLine ==
  ASSUME NEW s, NEW b, NEW p, NEW n, NEW b2, NEW e, Received(s, b, p, n, b2, e)
  PROVE  /\ b2 \in [1..Resp -> Cell] /\ e \in Entry /\ e.len = LineLen(n)
         /\ \A k \in 1..Resp : b2[k] = IF k <= n THEN p[k] ELSE b[k]
         /\ Len(e.text) \in Nat /\ n <= Len(e.text)
         /\ \A j \in 1..Len(e.text) : j <= Resp => e.text[j] = b2[j] /\ b2[j] # NULL
         /\ Resp \in Nat \ {0, 1} /\ n \in Nat /\ n \in 0..Resp /\ n <= Len(p)
         /\ s \in Seq(Entry) /\ p \in Seq(Char)
<1>1. /\ Resp \in Nat \ {0, 1} /\ s \in Seq(Entry) /\ p \in Seq(Char)
      /\ n \in 0..Resp /\ n <= Len(p) /\ b \in [1..Resp -> Cell]
      /\ b2 = [k \in 1..Resp |-> IF k <= n THEN p[k] ELSE b[k]]
  BY TcpAssumption DEF Received
<1>2. \A k \in 1..n : p[k] \in Char
  <2>1. PICK T : T = Char
    OBVIOUS
  <2>2. p \in Seq(T) /\ \A k \in 1..n : k \in 1..Len(p)
    BY <1>1, <2>1
  <2>3. QED
    BY <2>1, <2>2, SequenceFacts
<1>3. \A c \in Char : c # NULL /\ c \in Cell
  BY TcpAssumption DEF Char, Cell
<1>4. \A k \in 1..Resp : b2[k] = IF k <= n THEN p[k] ELSE b[k]
  BY <1>1
<1>5. ASSUME NEW k \in 1..Resp PROVE b2[k] \in Cell /\ (k <= n => b2[k] # NULL)
  <2>1. CASE k <= n
    <3>1. k \in 1..n
      BY <1>1, <2>1
    <3>2. QED
      BY <1>2, <1>3, <1>4, <2>1, <3>1
  <2>2. CASE ~ (k <= n)
    BY <1>1, <1>4, <2>2
  <2>3. QED
    BY <2>1, <2>2
<1>6. b2 \in [1..Resp -> Cell]
  BY <1>1, <1>5
<1>7. \A k \in 1..n : b2[k] # NULL
  BY <1>1, <1>5
<1>8. PICK t \in Printed(b2) : e = [len |-> LineLen(n), text |-> t]
  BY DEF Received
<1>9. /\ t \in Seq(Cell) /\ Len(t) \in Nat /\ n <= Len(t)
      /\ \A j \in 1..Len(t) : j <= Resp => t[j] = b2[j] /\ b2[j] # NULL
  BY <1>1, <1>6, <1>7, <1>8, PrintedText
<1>10. PICK l : l = LineLen(n)
  OBVIOUS
<1>10a. e.len = l /\ e.text = t /\ e = [len |-> l, text |-> t]
  BY <1>8, <1>10
<1>11. e \in Entry
  <2>1. PICK T : T = Seq(Cell)
    OBVIOUS
  <2>2. l \in Int
    BY <1>1, <1>10 DEF LineLen
  <2>3. [len |-> l, text |-> t] \in [len : Int, text : T]
    BY <1>9, <2>1, <2>2
  <2>4. QED
    BY <1>10a, <2>1, <2>3 DEF Entry
<1>12. /\ Len(e.text) \in Nat /\ n <= Len(e.text)
       /\ \A j \in 1..Len(e.text) : j <= Resp => e.text[j] = b2[j] /\ b2[j] # NULL
  <2>1. PICK f : f = e.text
    OBVIOUS
  <2>2. f = t
    BY <1>10a, <2>1
  <2>3. /\ Len(f) \in Nat /\ n <= Len(f)
        /\ \A j \in 1..Len(f) : j <= Resp => f[j] = b2[j] /\ b2[j] # NULL
    BY <1>9, <2>2, Zenon
  <2>4. QED
    BY <2>1, <2>3, Zenon
<1>13. n \in Nat
  BY <1>1
<1>14. QED
  BY <1>1, <1>4, <1>6, <1>10, <1>10a, <1>11, <1>12, <1>13, Zenon

\* What the line shows first is what was received.
Shows(e)      == SubSeq(e.text, 1, e.len)
FirstOf(p, n) == SubSeq(p, 1, n)

LEMMA ReceivedPart ==
  ASSUME NEW s, NEW b, NEW p, NEW n, NEW b2, NEW e, Received(s, b, p, n, b2, e)
  PROVE  Shows(e) = FirstOf(p, n)
<1>1. /\ n \in Nat /\ e.len = LineLen(n) /\ Len(e.text) \in Nat /\ n <= Len(e.text)
      /\ Resp \in Nat /\ n \in 0..Resp /\ n <= Len(p)
      /\ \A k \in 1..Resp : b2[k] = IF k <= n THEN p[k] ELSE b[k]
      /\ \A j \in 1..Len(e.text) : j <= Resp => e.text[j] = b2[j]
  BY ReceivedLine
<1>1a. CASE n = 0
  <2>1. PICK l \in Int : l = -1 /\ l < 1
    OBVIOUS
  <2>2. PICK t : t = e.text
    OBVIOUS
  <2>3. e.len = l
    BY <1>1, <1>1a, <2>1 DEF LineLen
  <2>4. SubSeq(t, 1, l) = <<>> /\ SubSeq(p, 1, 0) = <<>>
    BY <2>1
  <2>5. QED
    BY <1>1a, <2>2, <2>3, <2>4 DEF Shows, FirstOf
<1>1b. SUFFICES ASSUME n # 0 PROVE Shows(e) = FirstOf(p, n)
  BY <1>1a
<1>1c. e.len = n /\ n >= 1
  BY <1>1, <1>1b DEF LineLen
<1>2. PICK t, S : t = e.text /\ S = {t[k] : k \in 1..n}
  OBVIOUS
<1>3. ASSUME NEW k \in 1..n PROVE t[k] = p[k] /\ t[k] \in S
  <2>1. k \in 1..Len(t) /\ k \in 1..Resp /\ k <= n
    BY <1>1, <1>2
  <2>2. QED
    BY <1>1, <1>2, <2>1
<1>4. PICK u : u = SubSeq(t, 1, n)
  OBVIOUS
<1>5. PICK w : w = SubSeq(p, 1, n)
  OBVIOUS
<1>6. u \in Seq(S) /\ Len(u) = n /\ \A i \in 1..n : u[i] = t[i]
  <2>1. /\ SubSeq(t, 1, n) \in Seq(S) /\ Len(SubSeq(t, 1, n)) = IF 1 <= n THEN n-1+1 ELSE 0
        /\ \A i \in 1..(n-1+1) : SubSeq(t, 1, n)[i] = t[1+i-1]
    BY <1>1, <1>3, SubSeqProperties
  <2>2. n - 1 + 1 = n /\ 1 <= n /\ \A i \in 1..n : 1 + i - 1 = i
    BY <1>1, <1>1c
  <2>3. QED
    BY <1>4, <2>1, <2>2
<1>7. w \in Seq(S) /\ Len(w) = n /\ \A i \in 1..n : w[i] = p[i]
  <2>1. \A i \in 1..n : p[i] \in S
    BY <1>3
  <2>2. /\ SubSeq(p, 1, n) \in Seq(S) /\ Len(SubSeq(p, 1, n)) = IF 1 <= n THEN n-1+1 ELSE 0
        /\ \A i \in 1..(n-1+1) : SubSeq(p, 1, n)[i] = p[1+i-1]
    BY <1>1, <2>1, SubSeqProperties
  <2>3. n - 1 + 1 = n /\ 1 <= n /\ \A i \in 1..n : 1 + i - 1 = i
    BY <1>1, <1>1c
  <2>4. QED
    BY <1>5, <2>2, <2>3
<1>8. u = w
  BY <1>3, <1>6, <1>7, SeqEqual
<1>9. QED
  BY <1>1c, <1>2, <1>4, <1>5, <1>8 DEF Shows, FirstOf

LEMMA ReceivedLastLeft ==
  ASSUME NEW s, NEW b, NEW p, NEW n, NEW b2, NEW e, Received(s, b, p, n, b2, e),
         LastLeft(s, b)
  PROVE  LastLeft(Append(s, e), b2)
<1>1. s \in Seq(Entry) /\ e \in Entry /\ n \in 0..Resp /\ Resp \in Nat
  BY ReceivedLine
<1>2. PICK t : t = Append(s, e)
  OBVIOUS
<1>3. PICK L \in Nat : L = Len(s)
  BY <1>1, AppendedEntry
<1>4. /\ Len(t) = L + 1 /\ t[L + 1] = e /\ \A i \in 1..L : t[i] = s[i]
  BY <1>1, <1>2, <1>3, AppendedEntry
<1>5. \A j \in Int : Reach(t, L, j) = Reach(s, L, j)
  BY <1>1, <1>2, <1>3, AppendedEntry
<1>6. /\ e.len = LineLen(n) /\ Len(e.text) \in Nat /\ n <= Len(e.text)
      /\ \A k \in 1..Resp : b2[k] = IF k <= n THEN p[k] ELSE b[k]
      /\ \A j \in 1..Len(e.text) : j <= Resp => e.text[j] = b2[j]
  BY ReceivedLine
<1>7. ASSUME NEW j \in 1..Resp
      PROVE  /\ Reach(t, L + 1, j) = {} => b2[j] = AtFirst(j)
             /\ Reach(t, L + 1, j) # {} => b2[j] = t[Max(Reach(t, L + 1, j))].text[j]
  <2>1. j \in 1..Resp /\ j \in Int
    BY <1>1
  <2>2. PICK Q : Q = Reach(t, L + 1, j)
    OBVIOUS
  <2>3. Q \in SUBSET (1..(L + 1)) /\ \A i \in 1..(L + 1) : i \in Q <=> t[i].len >= j
    BY <2>2 DEF Reach
  <2>4. CASE j <= n
    <3>1. L + 1 \in Q
      <4>1. e.len = n /\ n >= j
        BY <1>1, <1>6, <2>1, <2>4 DEF LineLen
      <4>2. QED
        BY <1>3, <1>4, <2>3, <4>1
    <3>2. Max(Q) \in Q /\ \A y \in Q : Max(Q) >= y
      <4>1. PICK m \in Nat : m = L + 1
        BY <1>3
      <4>2. QED
        BY <2>3, <3>1, <4>1, MaxOfSet
    <3>3. Max(Q) = L + 1
      <4>1. PICK x \in Q : x = Max(Q) /\ x >= L + 1
        BY <3>1, <3>2
      <4>2. x \in 1..(L + 1)
        BY <2>3
      <4>3. QED
        BY <1>3, <4>1, <4>2
    <3>4. j \in 1..Len(e.text)
      BY <1>1, <1>6, <2>1, <2>4
    <3>5. t[Max(Q)].text[j] = b2[j]
      BY <1>4, <1>6, <2>1, <3>3, <3>4
    <3>6. QED
      BY <2>2, <3>1, <3>5
  <2>5. CASE ~ (j <= n)
    <3>1. Q = Reach(t, L, j)
      <4>1. L + 1 \notin Q
        <5>1. ~ (e.len >= j)
          BY <1>1, <1>6, <2>1, <2>5 DEF LineLen
        <5>2. QED
          BY <1>3, <1>4, <2>3, <5>1
      <4>2. \A i : i \in 1..(L + 1) <=> i \in 1..L \/ i = L + 1
        BY <1>3
      <4>3. QED
        BY <2>2, <4>1, <4>2 DEF Reach
    <3>2. Q = Reach(s, L, j)
      BY <1>5, <2>1, <3>1
    <3>3. b2[j] = b[j]
      BY <1>6, <2>1, <2>5
    <3>4. Q = {} => b[j] = AtFirst(j)
      BY <1>3, <3>2 DEF LastLeft
    <3>5. Q # {} => b[j] = s[Max(Q)].text[j]
      BY <1>3, <3>2 DEF LastLeft
    <3>6. Q # {} => Max(Q) \in 1..L
      <4>1. Q \in SUBSET (1..L)
        BY <3>2 DEF Reach
      <4>2. QED
        BY <1>3, <4>1, MaxOfSet
    <3>7. QED
      BY <1>4, <2>2, <3>3, <3>4, <3>5, <3>6
  <2>6. QED
    BY <2>4, <2>5
<1>8. QED
  BY <1>2, <1>4, <1>7 DEF LastLeft

LEMMA ReceivedBehindIsOld ==
  ASSUME NEW s, NEW b, NEW p, NEW n, NEW b2, NEW e, Received(s, b, p, n, b2, e),
         LastLeft(s, b), BehindIsOld(s)
  PROVE  BehindIsOld(Append(s, e))
<1>1. s \in Seq(Entry) /\ e \in Entry /\ n \in 0..Resp /\ Resp \in Nat \ {0, 1}
  BY ReceivedLine
<1>2. PICK t : t = Append(s, e)
  OBVIOUS
<1>3. PICK L \in Nat : L = Len(s)
  BY <1>1, AppendedEntry
<1>4. /\ Len(t) = L + 1 /\ t[L + 1] = e /\ \A i \in 1..L : t[i] = s[i] /\ s[i] \in Entry
  BY <1>1, <1>2, <1>3, AppendedEntry
<1>5. \A k \in 0..L, j \in Int : Reach(t, k, j) = Reach(s, k, j)
  BY <1>1, <1>2, <1>3, AppendedEntry
<1>6. /\ e.len = LineLen(n) /\ Len(e.text) \in Nat /\ n <= Len(e.text)
      /\ \A k \in 1..Resp : b2[k] = IF k <= n THEN p[k] ELSE b[k]
      /\ \A j \in 1..Len(e.text) : j <= Resp => e.text[j] = b2[j] /\ b2[j] # NULL
  BY ReceivedLine
<1>7. ASSUME NEW k \in 1..(L + 1), NEW j \in 1..Len(t[k].text), j > t[k].len
      PROVE  OldAt(t, k, j)
  <2>1. j \in Int /\ k - 1 \in 0..L /\ Resp \in Int /\ j >= 1
    BY <1>1, <1>3
  <2>2. PICK Q : Q = Reach(s, k - 1, j)
    OBVIOUS
  <2>3. Q = Reach(t, k - 1, j)
    BY <1>5, <2>1, <2>2
  <2>4. Q \in SUBSET (1..(k - 1))
    BY <2>2 DEF Reach
  <2>5. Q # {} => Max(Q) \in 1..L
    <3>1. PICK m \in 0..L : m = k - 1
      BY <2>1
    <3>2. Q # {} => Max(Q) \in 1..m
      <4>1. m \in Nat /\ Q \in SUBSET (1..m)
        BY <1>3, <2>4, <3>1
      <4>2. Q # {} => Max(Q) \in Q
        BY <4>1, MaxOfSet
      <4>3. QED
        BY <4>1, <4>2
    <3>3. \A i \in 1..m : i \in 1..L
      BY <1>3
    <3>4. QED
      BY <3>2, <3>3
  <2>6. Q # {} => t[Max(Q)] = s[Max(Q)]
    BY <1>4, <2>5
  <2>7. CASE k <= L
    <3>1. k \in 1..L /\ k \in 0..L /\ t[k] = s[k]
      BY <1>3, <1>4, <2>7
    <3>2. OldAt(s, k, j)
      BY <1>3, <1>7, <3>1 DEF BehindIsOld
    <3>3. Reach(t, k, Resp) = Reach(s, k, Resp)
      BY <1>5, <2>1, <3>1
    <3>4. QED
      BY <2>2, <2>3, <2>6, <3>1, <3>2, <3>3 DEF OldAt
  <2>8. CASE k = L + 1
    <3>1. t[k] = e /\ k - 1 = L
      BY <1>3, <1>4, <2>8
    <3>2. Q = Reach(s, L, j)
      BY <2>2, <3>1
    <3>3. CASE j <= Resp
      <4>1. j \in 1..Len(e.text) /\ j \in 1..Resp
        BY <1>1, <2>1, <3>1, <3>3
      <4>2. ~ (j <= n)
        BY <1>1, <1>6, <1>7, <2>1, <3>1 DEF LineLen
      <4>3. e.text[j] = b[j] /\ b[j] # NULL
        BY <1>6, <3>3, <4>1, <4>2
      <4>4. CASE Q = {}
        <5>1. b[j] = AtFirst(j)
          BY <1>3, <3>2, <4>1, <4>4 DEF LastLeft
        <5>2. j = 1 /\ e.text[j] = "0"
          BY <4>3, <5>1 DEF AtFirst
        <5>3. QED
          BY <2>1, <2>3, <3>1, <3>3, <4>4, <5>2 DEF OldAt
      <4>5. CASE Q # {}
        <5>1. b[j] = s[Max(Q)].text[j]
          BY <1>3, <3>2, <4>1, <4>5 DEF LastLeft
        <5>2. e.text[j] = t[Max(Q)].text[j]
          BY <2>6, <4>3, <4>5, <5>1
        <5>3. QED
          BY <2>1, <2>3, <3>1, <3>3, <4>5, <5>2 DEF OldAt
      <4>6. QED
        BY <4>4, <4>5
    <3>4. CASE j > Resp
      <4>1. Resp \in 1..Len(e.text) /\ Resp \in 1..Resp /\ Resp # 1
        BY <1>1, <1>6, <3>1, <3>4
      <4>2. b2[Resp] # NULL
        BY <1>1, <1>6, <4>1
      <4>3. LastLeft(t, b2)
        BY <1>2, ReceivedLastLeft
      <4>4. Reach(t, L + 1, Resp) = {} => b2[Resp] = NULL
        BY <1>4, <4>1, <4>3 DEF LastLeft, AtFirst
      <4>5. QED
        BY <2>8, <3>4, <4>2, <4>4 DEF OldAt
    <3>5. QED
      BY <1>1, <2>1, <3>3, <3>4
  <2>9. QED
    BY <1>3, <2>7, <2>8
<1>8. QED
  BY <1>2, <1>4, <1>7 DEF BehindIsOld

LEMMA Intervals ==
  ASSUME NEW m \in Nat, NEW n \in Nat
  PROVE  /\ 1..m = 1..n => m = n
         /\ \A k \in 1..(n + 1) : k = n + 1 \/ k \in 1..n
OBVIOUS

LEMMA PartsAppend ==
  ASSUME NEW s \in Seq(Entry), NEW e \in Entry, Parts(s) \in Seq(Seq(Char)),
         SubSeq(e.text, 1, e.len) \in Seq(Char)
  PROVE  /\ Parts(Append(s, e)) = Append(Parts(s), SubSeq(e.text, 1, e.len))
         /\ Parts(Append(s, e)) \in Seq(Seq(Char))
<1>1. PICK t : t = Append(s, e)
  OBVIOUS
<1>2. PICK L \in Nat : L = Len(s)
  BY AppendedEntry
<1>3. Len(t) = L + 1 /\ t[L + 1] = e /\ \A i \in 1..L : t[i] = s[i]
  BY <1>1, <1>2, AppendedEntry
<1>4. PICK q \in Seq(Seq(Char)), x \in Seq(Char) : q = Parts(s) /\ x = SubSeq(e.text, 1, e.len)
  OBVIOUS
<1>5. q = [k \in 1..L |-> SubSeq(s[k].text, 1, s[k].len)]
  BY <1>2, <1>4 DEF Parts
<1>6. Len(q) = L
  <2>1. q \in [1..Len(q) -> Seq(Char)] /\ Len(q) \in Nat
    BY NestedFacts
  <2>2. DOMAIN q = 1..Len(q) /\ DOMAIN q = 1..L
    BY <1>5, <2>1
  <2>3. QED
    BY <2>1, <2>2, Intervals, Zenon
<1>7. PICK r \in Seq(Seq(Char)) : r = Append(q, x)
  BY NestedFacts
<1>8. Len(r) = L + 1 /\ r[L + 1] = x /\ \A i \in 1..L : r[i] = q[i]
  BY <1>6, <1>7, NestedFacts
<1>9. r \in [1..(L + 1) -> Seq(Char)]
  BY <1>8, NestedFacts
<1>10. r = [k \in 1..(L + 1) |-> r[k]]
  BY <1>9
<1>11. ASSUME NEW k \in 1..(L + 1) PROVE r[k] = SubSeq(t[k].text, 1, t[k].len)
  <2>1. CASE k = L + 1
    BY <1>3, <1>4, <1>8, <2>1
  <2>2. CASE k \in 1..L
    <3>1. q[k] = SubSeq(s[k].text, 1, s[k].len)
      BY <1>5, <2>2
    <3>2. QED
      BY <1>3, <1>8, <2>2, <3>1
  <2>3. QED
    BY <2>1, <2>2, Intervals, Zenon
<1>12. r = Parts(t)
  BY <1>3, <1>10, <1>11, Zenon DEF Parts
<1>13. QED
  BY <1>1, <1>4, <1>7, <1>12

LEMMA NoParts == Parts(<<>>) = <<>> /\ <<>> \in Seq(Entry) /\ Parts(<<>>) \in Seq(Seq(Char))
<1>1. Len(<<>>) = 0
  OBVIOUS
<1>2. Parts(<<>>) = <<>>
  BY <1>1 DEF Parts
<1>3. QED
  BY <1>2, EmptySeq

-----------------------------------------------------------------------------
(* The invariant of the server.                                            *)

ClientState ==
  [at : {"connect", "send", "failed", "closed"}, retry : Int, sends : Nat]

TcpOK ==
  /\ pending \in [Client -> Seq(Char)]
  /\ client \in [Client -> ClientState]
  /\ backlog \in Seq(Client)
  /\ server \in Client \cup {"off", "listening"}
  /\ buf \in [1..Resp -> Cell]
  /\ shown \in Seq(Entry) /\ Parts(shown) \in Seq(Seq(Char))
  /\ server \notin Client => shown = <<>>

\* What the server has got from c.
Got(c) == IF c = server THEN FlattenSeq(Parts(shown)) ELSE <<>>

\* Nothing a client has sent is lost, doubled or moved.
TcpStream == \A c \in Client : Got(c) \o pending[c] = Stream(c, client[c].sends)

ServerInv ==
  program = "server" =>
    TcpOK /\ TcpStream /\ LastLeft(shown, buf) /\ BehindIsOld(shown)

LEMMA ServerInvInit == Init => ServerInv
<1> SUFFICES ASSUME Init, program = "server" PROVE ServerInv
  BY DEF ServerInv
<1> USE DEF Dumper, LibnlUser
<1>1. /\ server = "off" /\ backlog = <<>> /\ shown = <<>>
      /\ client = [c \in Client |-> [at |-> "connect", retry |-> 3, sends |-> 0]]
  BY DEF Init
<1>2. pending = [c \in Client |-> <<>>]
  BY DEF Init
<1>3. buf = <<"0">> \o [k \in 1..(Resp - 1) |-> NULL]
  BY DEF Init
<1>4. Resp \in Nat \ {0} /\ "off" \notin Client
  BY TcpAssumption
<1>5. /\ buf \in [1..Resp -> Cell] /\ \A j \in 1..Resp : buf[j] = AtFirst(j)
  <2>1. PICK u, w : u = <<"0">> /\ w = [k \in 1..(Resp - 1) |-> NULL]
    OBVIOUS
  <2>2. u \in Seq(Cell) /\ Len(u) = 1
    BY <2>1 DEF Cell
  <2>3. NULL \in Cell /\ Resp - 1 \in Nat
    BY <1>4 DEF Cell
  <2>4. w \in Seq(Cell) /\ Len(w) = Resp - 1
    BY <2>1, <2>3
  <2>5. /\ u \o w \in Seq(Cell) /\ Len(u \o w) = Len(u) + Len(w)
        /\ \A i \in 1..(Len(u) + Len(w)) : (u \o w)[i] = IF i <= Len(u) THEN u[i] ELSE w[i - Len(u)]
    BY <2>2, <2>4, ConcatProperties
  <2>6. buf = u \o w /\ Len(u) + Len(w) = Resp
    BY <1>3, <1>4, <2>1, <2>2, <2>4
  <2>7. buf \in Seq(Cell) /\ Len(buf) = Resp /\ \A i \in 1..Resp : buf[i] = IF i <= 1 THEN u[i] ELSE w[i - 1]
    BY <2>2, <2>5, <2>6
  <2>8. ASSUME NEW j \in 1..Resp PROVE buf[j] = AtFirst(j)
    <3>1. CASE j = 1
      BY <2>1, <2>7, <3>1 DEF AtFirst
    <3>2. CASE j # 1
      <4>1. ~ (j <= 1) /\ j - 1 \in 1..(Resp - 1)
        BY <1>4, <3>2
      <4>2. QED
        BY <2>1, <2>7, <3>2, <4>1 DEF AtFirst
    <3>3. QED
      BY <3>1, <3>2
  <2>9. buf \in [1..Resp -> Cell]
    BY <2>7
  <2>10. QED
    BY <2>8, <2>9
<1>6. pending \in [Client -> Seq(Char)] /\ \A c \in Client : pending[c] = <<>>
  <2>1. <<>> \in Seq(Char)
    BY EmptySeq
  <2>2. QED
    BY <1>2, <2>1
<1>7. /\ client \in [Client -> ClientState]
      /\ \A c \in Client : client[c].sends = 0
  BY <1>1 DEF ClientState
<1>8. TcpOK
  BY <1>1, <1>5, <1>6, <1>7, NoParts, EmptySeq DEF TcpOK
<1>9. TcpStream
  <2>1. ASSUME NEW c \in Client PROVE Got(c) \o pending[c] = Stream(c, client[c].sends)
    <3>1. Got(c) = <<>>
      BY <1>1, <1>4 DEF Got
    <3>2. <<>> \o <<>> = <<>>
      OBVIOUS
    <3>3. QED
      BY <1>6, <1>7, <3>1, <3>2, StreamStarts
  <2>2. QED
    BY <2>1 DEF TcpStream
<1>10. LastLeft(shown, buf) /\ BehindIsOld(shown)
  <2>1. Len(shown) = 0 /\ 1..0 = {}
    BY <1>1
  <2>2. \A j \in 1..Resp : Reach(shown, Len(shown), j) = {}
    BY <2>1 DEF Reach
  <2>3. LastLeft(shown, buf)
    BY <1>5, <2>2 DEF LastLeft
  <2>4. BehindIsOld(shown)
    BY <2>1 DEF BehindIsOld
  <2>5. QED
    BY <2>3, <2>4
<1>11. QED
  BY <1>8, <1>9, <1>10 DEF ServerInv

\* The steps of the other programs are not taken, and the server and its
\* clients change only what belongs to them.
LEMMA ServerSteps ==
  ASSUME Next, program = "server"
  PROVE  \/ ServerListen \/ ServerAccept \/ ServerRecv \/ ServerRecvFails
         \/ \E c \in Client : ClientMain(c)
<1> USE DEF Dumper, LibnlUser
<1>1. ~ Receive /\ ~ GetAddr /\ ~ GetLink /\ ~ GetRoute
  BY DEF Receive, GetAddr, GetLink, GetRoute
<1>2. ~ RouteChange /\ ~ Listen
  BY DEF RouteChange, Listen
<1>3. ~ LibnlStep
  BY DEF LibnlStep, GetStaInfoMain, GenetlinkTestMain
<1>4. QED
  BY <1>1, <1>2, <1>3 DEF Next

LEMMA ProgramKept == Next => program' = program
<1> SUFFICES ASSUME Next PROVE program' = program
  OBVIOUS
<1>1. CASE Receive
  BY <1>1 DEF Receive
<1>2. CASE GetAddr \/ GetLink \/ GetRoute
  BY <1>2 DEF GetAddr, GetLink, GetRoute, MessageLoop
<1>3. CASE RouteChange \/ Listen
  BY <1>3 DEF RouteChange, Listen
<1>4. CASE ServerListen \/ ServerAccept \/ ServerRecv \/ ServerRecvFails
  BY <1>4 DEF ServerListen, ServerAccept, ServerRecv, ServerRecvFails, netVars
<1>5. CASE \E c \in Client : ClientMain(c)
  BY <1>5 DEF ClientMain, ClientConnect, ClientSend, netVars
<1>6. CASE LibnlStep
  <2>1. CASE get_interface_index \/ get_station_info
    BY <2>1 DEF get_interface_index, get_station_info, Request
  <2>2. CASE WaitErr \/ WaitGot
    BY <2>2 DEF WaitErr, WaitGot, nl_recvmsgs
  <2>3. CASE LeaveWaitErr \/ LeaveWaitGot
    BY <2>3 DEF LeaveWaitErr, LeaveWaitGot
  <2>4. QED
    BY <1>6, <2>1, <2>2, <2>3 DEF LibnlStep, GetStaInfoMain, GenetlinkTestMain
<1>7. QED
  BY <1>1, <1>2, <1>3, <1>4, <1>5, <1>6 DEF Next

ServerBody == TcpOK /\ TcpStream /\ LastLeft(shown, buf) /\ BehindIsOld(shown)

LEMMA ListenKeeps == ServerBody /\ ServerListen => ServerBody'
<1> SUFFICES ASSUME ServerBody, ServerListen PROVE ServerBody'
  OBVIOUS
<1>1. /\ server = "off" /\ server' = "listening"
      /\ UNCHANGED <<pending, buf, shown, backlog, client>>
  BY DEF ServerListen
<1>2. "off" \notin Client /\ "listening" \notin Client
  BY TcpAssumption
<1>3. TcpOK'
  BY <1>1, <1>2 DEF ServerBody, TcpOK
<1>4. \A c \in Client : Got(c)' = Got(c)
  BY <1>1, <1>2 DEF Got
<1>5. TcpStream'
  BY <1>1, <1>4 DEF ServerBody, TcpStream
<1>6. QED
  BY <1>1, <1>3, <1>5 DEF ServerBody

LEMMA AcceptKeeps == ServerBody /\ ServerAccept => ServerBody'
<1> SUFFICES ASSUME ServerBody, ServerAccept PROVE ServerBody'
  OBVIOUS
<1>1. /\ server = "listening" /\ backlog # <<>> /\ server' = Head(backlog)
      /\ UNCHANGED <<pending, buf, shown, backlog, client>>
  BY DEF ServerAccept
<1>2. "listening" \notin Client
  BY TcpAssumption
<1>3. backlog \in Seq(Client) /\ shown = <<>>
  BY <1>1, <1>2 DEF ServerBody, TcpOK
<1>4. server' \in Client
  BY <1>1, <1>3
<1>5. TcpOK'
  BY <1>1, <1>4 DEF ServerBody, TcpOK
<1>6. FlattenSeq(Parts(shown)) = <<>>
  BY <1>3, NoParts, FlattenEmpty
<1>7. \A c \in Client : Got(c)' = Got(c)
  BY <1>1, <1>2, <1>6 DEF Got
<1>8. TcpStream'
  BY <1>1, <1>7 DEF ServerBody, TcpStream
<1>9. QED
  BY <1>1, <1>5, <1>8 DEF ServerBody

\* What becomes of one client's state.
LEMMA OneClient ==
  ASSUME NEW f \in [Client -> ClientState], NEW c \in Client, NEW r \in ClientState
  PROVE  /\ [f EXCEPT ![c] = r] \in [Client -> ClientState]
         /\ [f EXCEPT ![c] = r][c] = r
         /\ \A d \in Client : d # c => [f EXCEPT ![c] = r][d] = f[d]
OBVIOUS

LEMMA ClientFields ==
  ASSUME NEW r \in ClientState
  PROVE  /\ [r EXCEPT !.at = "send"] \in ClientState
         /\ [r EXCEPT !.at = "closed"] \in ClientState
         /\ [r EXCEPT !.at = "send"].sends = r.sends
         /\ [r EXCEPT !.at = "closed"].sends = r.sends
         /\ r.sends \in Nat
BY DEF ClientState

LEMMA ClientSends ==
  ASSUME NEW r \in ClientState, NEW m \in Nat
  PROVE  [r EXCEPT !.sends = m] \in ClientState /\ [r EXCEPT !.sends = m].sends = m
BY DEF ClientState

Refused(r) == [r EXCEPT !.retry = @ - 1, !.at = IF r.retry = 1 THEN "failed" ELSE @]

LEMMA ClientRefused ==
  ASSUME NEW r \in ClientState
  PROVE  Refused(r) \in ClientState /\ Refused(r).sends = r.sends
<1>1. r.retry - 1 \in Int /\ r.at \in {"connect", "send", "failed", "closed"} /\ r.sends \in Nat
  BY DEF ClientState
<1>2. PICK w \in {"connect", "send", "failed", "closed"} :
        w = IF r.retry = 1 THEN "failed" ELSE r.at
  BY <1>1
<1>3. PICK q \in ClientState : q = [r EXCEPT !.retry = r.retry - 1] /\ q.at = r.at /\ q.sends = r.sends
  <2>1. PICK n \in Int : n = r.retry - 1
    BY <1>1
  <2>2. [r EXCEPT !.retry = n] \in ClientState
    BY DEF ClientState
  <2>3. [r EXCEPT !.retry = n].at = r.at /\ [r EXCEPT !.retry = n].sends = r.sends
    BY DEF ClientState
  <2>4. QED
    BY <2>1, <2>2, <2>3
<1>4. Refused(r) = [q EXCEPT !.at = w]
  <2>1. CASE r.retry = 1
    BY <1>2, <1>3, <2>1 DEF Refused
  <2>2. CASE r.retry # 1
    BY <1>2, <1>3, <2>2 DEF Refused
  <2>3. QED
    BY <2>1, <2>2
<1>5. [q EXCEPT !.at = w] \in ClientState /\ [q EXCEPT !.at = w].sends = q.sends
  BY DEF ClientState
<1>6. QED
  BY <1>3, <1>4, <1>5

LEMMA ConnectKeeps == ASSUME NEW c \in Client PROVE ServerBody /\ ClientConnect(c) => ServerBody'
<1> SUFFICES ASSUME ServerBody, ClientConnect(c) PROVE ServerBody'
  OBVIOUS
<1>1. UNCHANGED <<pending, buf, shown, server>>
  BY DEF ClientConnect
<1>2. client \in [Client -> ClientState] /\ backlog \in Seq(Client)
  BY DEF ServerBody, TcpOK
<1>3. /\ client' \in [Client -> ClientState] /\ backlog' \in Seq(Client)
      /\ \A d \in Client : client'[d].sends = client[d].sends
  <2>1. CASE server # "off"
    <3>1. PICK r \in ClientState : r = [client[c] EXCEPT !.at = "send"] /\ r.sends = client[c].sends
      BY <1>2, ClientFields
    <3>2. client' = [client EXCEPT ![c] = r] /\ backlog' = Append(backlog, c)
      BY <2>1, <3>1 DEF ClientConnect
    <3>3. backlog' \in Seq(Client)
      BY <1>2, <3>2
    <3>4. QED
      BY <1>2, <3>1, <3>2, <3>3, OneClient
  <2>2. CASE ~ (server # "off")
    <3>1. PICK q \in ClientState : q = client[c]
      BY <1>2
    <3>2. PICK r \in ClientState : r = Refused(q) /\ r.sends = client[c].sends
      BY <3>1, ClientRefused
    <3>3. client' = [client EXCEPT ![c] = r] /\ backlog' = backlog
      BY <1>2, <2>2, <3>1, <3>2 DEF ClientConnect, Refused
    <3>4. QED
      BY <1>2, <3>2, <3>3, OneClient
  <2>3. QED
    BY <2>1, <2>2
<1>4. TcpOK'
  BY <1>1, <1>3 DEF ServerBody, TcpOK
<1>5. \A d \in Client : Got(d)' = Got(d)
  BY <1>1 DEF Got
<1>6. TcpStream'
  BY <1>1, <1>3, <1>5 DEF ServerBody, TcpStream
<1>7. QED
  BY <1>1, <1>4, <1>6 DEF ServerBody

LEMMA GotType == ASSUME NEW c \in Client PROVE TcpOK => Got(c) \in Seq(Char)
<1> SUFFICES ASSUME TcpOK PROVE Got(c) \in Seq(Char)
  OBVIOUS
<1>1. FlattenSeq(Parts(shown)) \in Seq(Char)
  BY FlattenType DEF TcpOK
<1>2. QED
  BY <1>1, EmptySeq DEF Got

LEMMA SendKeeps == ASSUME NEW c \in Client PROVE ServerBody /\ ClientSend(c) => ServerBody'
<1> SUFFICES ASSUME ServerBody, ClientSend(c) PROVE ServerBody'
  OBVIOUS
<1>1. UNCHANGED <<buf, shown, server, backlog>>
  BY DEF ClientSend
<1>2. client \in [Client -> ClientState] /\ pending \in [Client -> Seq(Char)]
  BY DEF ServerBody, TcpOK
<1>3. PICK m \in Nat : m = client[c].sends
  BY <1>2, ClientFields
<1>4. \A d \in Client : Got(d)' = Got(d)
  BY <1>1 DEF Got
<1>5. CASE m + 1 <= Count
  <2>1. PICK w \in Seq(Char) : w = Block(c, m + 1)
    <3>1. m + 1 \in Nat
      OBVIOUS
    <3>2. QED
      BY <3>1, StreamType
  <2>2. /\ pending' = [pending EXCEPT ![c] = @ \o w]
        /\ client' = [client EXCEPT ![c].sends = m + 1]
    BY <1>3, <1>5, <2>1 DEF ClientSend, Block
  <2>3. /\ client' \in [Client -> ClientState] /\ client'[c].sends = m + 1
        /\ \A d \in Client : d # c => client'[d] = client[d]
    <3>1. m + 1 \in Nat
      OBVIOUS
    <3>2. PICK r \in ClientState : r = [client[c] EXCEPT !.sends = m + 1] /\ r.sends = m + 1
      BY <1>2, <3>1, ClientSends
    <3>3. client' = [client EXCEPT ![c] = r]
      BY <2>2, <3>2
    <3>4. QED
      BY <1>2, <3>2, <3>3, OneClient
  <2>4. pending[c] \in Seq(Char) /\ pending[c] \o w \in Seq(Char)
    BY <1>2
  <2>5. /\ pending' \in [Client -> Seq(Char)] /\ pending'[c] = pending[c] \o w
        /\ \A d \in Client : d # c => pending'[d] = pending[d]
    BY <1>2, <2>2, <2>4
  <2>6. TcpOK'
    BY <1>1, <2>3, <2>5 DEF ServerBody, TcpOK
  <2>7. Got(c) \o (pending[c] \o w) = Stream(c, m + 1)
    <3>1. PICK g \in Seq(Char), q \in Seq(Char) : g = Got(c) /\ q = pending[c]
      BY <2>4, GotType DEF ServerBody
    <3>2. g \o q = Stream(c, m)
      BY <1>3, <3>1 DEF ServerBody, TcpStream
    <3>3. (g \o q) \o w = g \o (q \o w)
      BY ConcatChars
    <3>4. Stream(c, m + 1) = Stream(c, m) \o w
      BY <2>1, StreamGrows
    <3>5. QED
      BY <3>1, <3>2, <3>3, <3>4
  <2>8. ASSUME NEW d \in Client PROVE Got(d)' \o pending'[d] = Stream(d, client'[d].sends)
    <3>1. CASE d = c
      BY <1>4, <2>3, <2>5, <2>7, <3>1
    <3>2. CASE d # c
      <4>1. Got(d) \o pending[d] = Stream(d, client[d].sends)
        BY DEF ServerBody, TcpStream
      <4>2. QED
        BY <1>4, <2>3, <2>5, <3>2, <4>1
    <3>3. QED
      BY <3>1, <3>2
  <2>9. TcpStream'
    BY <2>8 DEF TcpStream, Stream
  <2>10. QED
    BY <1>1, <2>6, <2>9 DEF ServerBody
<1>6. CASE ~ (m + 1 <= Count)
  <2>1. pending' = pending /\ client' = [client EXCEPT ![c].at = "closed"]
    BY <1>3, <1>6 DEF ClientSend
  <2>2. client' \in [Client -> ClientState] /\ \A d \in Client : client'[d].sends = client[d].sends
    <3>1. PICK r \in ClientState : r = [client[c] EXCEPT !.at = "closed"] /\ r.sends = client[c].sends
      BY <1>2, ClientFields
    <3>2. client' = [client EXCEPT ![c] = r]
      BY <2>1, <3>1
    <3>3. QED
      BY <1>2, <3>1, <3>2, OneClient
  <2>3. TcpOK'
    BY <1>1, <2>1, <2>2 DEF ServerBody, TcpOK
  <2>4. TcpStream'
    BY <1>4, <2>1, <2>2 DEF ServerBody, TcpStream
  <2>5. QED
    BY <1>1, <2>3, <2>4 DEF ServerBody
<1>7. QED
  BY <1>5, <1>6

\* A sequence cut in two.
LEMMA CutInTwo ==
  ASSUME NEW S, NEW p \in Seq(S), NEW n \in 0..Len(p)
  PROVE  /\ SubSeq(p, 1, n) \in Seq(S) /\ SubSeq(p, n + 1, Len(p)) \in Seq(S)
         /\ SubSeq(p, 1, n) \o SubSeq(p, n + 1, Len(p)) = p
<1>1. Len(p) \in Nat /\ n \in Nat /\ \A i \in 1..Len(p) : p[i] \in S
  BY SequenceFacts
<1>2. PICK L \in Nat : L = Len(p) /\ n <= L
  BY <1>1
<1>3. PICK u : u = SubSeq(p, 1, n)
  OBVIOUS
<1>4. PICK w : w = SubSeq(p, n + 1, L)
  OBVIOUS
<1>5. /\ u \in Seq(S) /\ Len(u) = n /\ \A i \in 1..n : u[i] = p[i]
  <2>1. \A i \in 1..n : p[i] \in S
    BY <1>1, <1>2
  <2>2. /\ SubSeq(p, 1, n) \in Seq(S) /\ Len(SubSeq(p, 1, n)) = IF 1 <= n THEN n-1+1 ELSE 0
        /\ \A i \in 1..(n-1+1) : SubSeq(p, 1, n)[i] = p[1+i-1]
    BY <1>1, <2>1, SubSeqProperties
  <2>3. n - 1 + 1 = n /\ (~ (1 <= n) => n = 0) /\ \A i \in 1..n : 1 + i - 1 = i
    BY <1>1
  <2>4. QED
    BY <1>3, <2>2, <2>3
<1>6. w \in Seq(S) /\ Len(w) = L - n /\ \A i \in 1..(L - n) : w[i] = p[n + i]
  <2>1. PICK m \in Nat : m = n + 1 /\ m \in Int
    BY <1>1
  <2>2. \A i \in m..L : p[i] \in S
    BY <1>1, <1>2, <2>1
  <2>3. /\ SubSeq(p, m, L) \in Seq(S) /\ Len(SubSeq(p, m, L)) = IF m <= L THEN L-m+1 ELSE 0
        /\ \A i \in 1..(L-m+1) : SubSeq(p, m, L)[i] = p[m+i-1]
    BY <1>2, <2>1, <2>2, SubSeqProperties
  <2>4. L - m + 1 = L - n /\ (~ (m <= L) => L - n = 0) /\ \A i \in 1..(L - n) : m + i - 1 = n + i
    BY <1>1, <1>2, <2>1
  <2>5. SubSeq(p, m, L) = w
    BY <1>4, <2>1
  <2>6. Len(w) = L - n
    BY <2>3, <2>4, <2>5
  <2>7. ASSUME NEW i \in 1..(L - n) PROVE w[i] = p[n + i]
    BY <2>3, <2>4, <2>5
  <2>8. QED
    BY <2>3, <2>5, <2>6, <2>7
<1>7. /\ u \o w \in Seq(S) /\ Len(u \o w) = Len(u) + Len(w)
      /\ \A i \in 1..(Len(u) + Len(w)) : (u \o w)[i] = IF i <= Len(u) THEN u[i] ELSE w[i - Len(u)]
  BY <1>5, <1>6, ConcatProperties
<1>8. Len(u) + Len(w) = L /\ Len(u) = n
  BY <1>1, <1>2, <1>5, <1>6
<1>9. ASSUME NEW i \in 1..L PROVE (u \o w)[i] = p[i]
  <2>1. CASE i <= n
    <3>1. i \in 1..n /\ (u \o w)[i] = u[i]
      BY <1>1, <1>7, <1>8, <2>1
    <3>2. QED
      BY <1>5, <3>1
  <2>2. CASE ~ (i <= n)
    <3>1. PICK j \in 1..(L - n) : j = i - n /\ n + j = i
      BY <1>1, <1>2, <2>2
    <3>2. (u \o w)[i] = w[j]
      BY <1>7, <1>8, <2>2, <3>1
    <3>3. QED
      BY <1>6, <3>1, <3>2
  <2>3. QED
    BY <2>1, <2>2
<1>10. u \o w = p
  BY <1>2, <1>7, <1>8, <1>9, SeqEqual
<1>11. QED
  BY <1>2, <1>3, <1>4, <1>5, <1>6, <1>10

\* A line printed after a receive of n characters, or of none.
LEMMA LineKeeps ==
  ASSUME ServerBody, server \in Client, UNCHANGED <<server, backlog, client>>,
         NEW p, p = pending[server], NEW n \in 0..Len(p), NEW b2, b2 = buf',
         NEW e, Received(shown, buf, p, n, b2, e), shown' = Append(shown, e),
         pending' = [pending EXCEPT ![server] = SubSeq(p, n + 1, Len(p))]
  PROVE  ServerBody'
<1>1. server \in Client /\ server' = server /\ backlog' = backlog /\ client' = client
  OBVIOUS
<1>2. p \in Seq(Char) /\ p = pending[server]
  BY <1>1 DEF ServerBody, TcpOK
<1>3. pending' = [pending EXCEPT ![server] = SubSeq(p, n + 1, Len(p))]
  OBVIOUS
<1>4. n \in 0..Len(p)
  OBVIOUS
<1>5. b2 = buf'
  OBVIOUS
<1>6. Received(shown, buf, p, n, b2, e)
  OBVIOUS
<1>7. shown' = Append(shown, e)
  OBVIOUS
<1>8. b2 \in [1..Resp -> Cell] /\ e \in Entry /\ shown \in Seq(Entry)
  BY <1>6, ReceivedLine
<1>9. LastLeft(shown', buf') /\ BehindIsOld(shown')
  <2>1. LastLeft(Append(shown, e), b2)
    BY <1>6, ReceivedLastLeft DEF ServerBody
  <2>2. BehindIsOld(Append(shown, e))
    BY <1>6, ReceivedBehindIsOld DEF ServerBody
  <2>3. QED
    BY <1>5, <1>7, <2>1, <2>2
<1>10. PICK h \in Seq(Char), r \in Seq(Char) :
         h = SubSeq(p, 1, n) /\ r = SubSeq(p, n + 1, Len(p)) /\ h \o r = p
  <2>1. /\ SubSeq(p, 1, n) \in Seq(Char) /\ SubSeq(p, n + 1, Len(p)) \in Seq(Char)
        /\ SubSeq(p, 1, n) \o SubSeq(p, n + 1, Len(p)) = p
    BY <1>2, <1>4, CutInTwo, Zenon
  <2>2. QED
    BY <2>1, Zenon
<1>11. SubSeq(e.text, 1, e.len) = h
  <2>1. Shows(e) = FirstOf(p, n)
    BY <1>6, ReceivedPart
  <2>2. QED
    BY <1>10, <2>1, Zenon DEF Shows, FirstOf
<1>12. PICK q \in Seq(Seq(Char)) : q = Parts(shown)
  BY DEF ServerBody, TcpOK
<1>13. Parts(shown') = Append(q, h) /\ Parts(shown') \in Seq(Seq(Char))
  BY <1>7, <1>8, <1>11, <1>12, PartsAppend
<1>14. /\ pending' \in [Client -> Seq(Char)] /\ pending'[server] = r
       /\ \A c \in Client : c # server => pending'[c] = pending[c]
  <2>1. pending \in [Client -> Seq(Char)]
    BY DEF ServerBody, TcpOK
  <2>2. pending' = [pending EXCEPT ![server] = r]
    BY <1>3, <1>10
  <2>3. QED
    BY <1>1, <2>1, <2>2
<1>15. TcpOK'
  <2>1. shown' \in Seq(Entry)
    BY <1>7, <1>8, AppendedEntry
  <2>2. QED
    BY <1>1, <1>5, <1>8, <1>13, <1>14, <2>1 DEF ServerBody, TcpOK
<1>16. FlattenSeq(Parts(shown')) \o r = FlattenSeq(Parts(shown)) \o p
  <2>1. PICK f \in Seq(Char) : f = FlattenSeq(q)
    BY FlattenType
  <2>2. FlattenSeq(Append(q, h)) = f \o h
    BY <2>1, FlattenAppend
  <2>3. (f \o h) \o r = f \o (h \o r)
    BY ConcatChars
  <2>4. QED
    BY <1>10, <1>12, <1>13, <2>1, <2>2, <2>3
<1>17. TcpStream'
  <2>1. ASSUME NEW c \in Client PROVE Got(c)' \o pending'[c] = Stream(c, client[c].sends)
    <3>1. Got(c) \o pending[c] = Stream(c, client[c].sends)
      BY DEF ServerBody, TcpStream
    <3>2. CASE c = server
      <4>1. Got(c)' = FlattenSeq(Parts(shown')) /\ Got(c) = FlattenSeq(Parts(shown))
        BY <1>1, <3>2 DEF Got, Parts
      <4>2. QED
        BY <1>2, <1>14, <1>16, <3>1, <3>2, <4>1
    <3>3. CASE c # server
      <4>1. Got(c)' = <<>> /\ Got(c) = <<>>
        BY <1>1, <3>3 DEF Got
      <4>2. QED
        BY <1>14, <3>1, <3>3, <4>1
    <3>4. QED
      BY <3>2, <3>3
  <2>2. QED
    BY <1>1, <2>1 DEF TcpStream, Stream
<1>18. QED
  BY <1>9, <1>15, <1>17 DEF ServerBody

LEMMA RecvKeeps == ServerBody /\ ServerRecv => ServerBody'
<1> SUFFICES ASSUME ServerBody, ServerRecv PROVE ServerBody'
  OBVIOUS
<1>1. server \in Client /\ UNCHANGED <<server, backlog, client>>
  BY DEF ServerRecv, tcpVars
<1>2. PICK p \in Seq(Char) : p = pending[server]
  BY <1>1 DEF ServerBody, TcpOK
<1>3. PICK n \in 1..Min({Resp, Len(p)}) :
        /\ buf' = [k \in 1..Resp |-> IF k <= n THEN p[k] ELSE buf[k]]
        /\ pending' = [pending EXCEPT ![server] = SubSeq(p, n + 1, Len(p))]
        /\ \E t \in Printed(buf') : shown' = Append(shown, [len |-> n, text |-> t])
  BY <1>2 DEF ServerRecv
<1>4. n \in 0..Resp /\ n \in 0..Len(p) /\ n <= Len(p) /\ n # 0
  <2>1. Resp \in Nat /\ Len(p) \in Nat
    BY TcpAssumption
  <2>2. PICK a \in Nat : a = Min({Resp, Len(p)}) /\ a <= Resp /\ a <= Len(p)
    BY <2>1, MinOfTwo
  <2>3. QED
    BY <2>1, <2>2
<1>5. PICK b2 : b2 = buf'
  OBVIOUS
<1>6. PICK t \in Printed(b2) : shown' = Append(shown, [len |-> n, text |-> t])
  BY <1>3, <1>5 DEF Printed
<1>7. PICK e : e = [len |-> LineLen(n), text |-> t]
  OBVIOUS
<1>8. LineLen(n) = n /\ shown' = Append(shown, e)
  BY <1>4, <1>6, <1>7 DEF LineLen
<1>9. Received(shown, buf, p, n, b2, e)
  BY <1>3, <1>4, <1>5, <1>7 DEF Received, ServerBody, TcpOK
<1>10. QED
  BY <1>1, <1>2, <1>3, <1>4, <1>5, <1>8, <1>9, LineKeeps

LEMMA FailKeeps == ServerBody /\ ServerRecvFails => ServerBody'
<1> SUFFICES ASSUME ServerBody, ServerRecvFails PROVE ServerBody'
  OBVIOUS
<1>1. /\ server \in Client /\ UNCHANGED <<server, backlog, client>>
      /\ buf' = buf /\ pending' = pending
  BY DEF ServerRecvFails, tcpVars
<1>2. PICK p \in Seq(Char) : p = pending[server]
  BY <1>1 DEF ServerBody, TcpOK
<1>3. PICK n \in Nat : n = 0
  OBVIOUS
<1>4. n \in 0..Resp /\ n \in 0..Len(p) /\ n <= Len(p)
  <2>1. Resp \in Nat /\ Len(p) \in Nat
    BY TcpAssumption
  <2>2. QED
    BY <1>3, <2>1
<1>5. PICK b2 : b2 = buf'
  OBVIOUS
<1>6. buf \in [1..Resp -> Cell] /\ pending \in [Client -> Seq(Char)] /\ shown \in Seq(Entry)
  BY DEF ServerBody, TcpOK
<1>7. b2 = [k \in 1..Resp |-> IF k <= n THEN p[k] ELSE buf[k]]
  <2>1. \A k \in 1..Resp : ~ (k <= n)
    BY <1>3
  <2>2. QED
    BY <1>1, <1>5, <1>6, <2>1
<1>8. pending' = [pending EXCEPT ![server] = SubSeq(p, n + 1, Len(p))]
  <2>1. PICK q : q = SubSeq(p, n + 1, Len(p))
    OBVIOUS
  <2>2. n + 1 = 1
    BY <1>3
  <2>3. q = p
    <3>1. q = SubSeq(p, 1, Len(p))
      BY <2>1, <2>2
    <3>2. QED
      BY <3>1
  <2>4. QED
    BY <1>1, <1>2, <1>6, <2>1, <2>3
<1>9. PICK t \in Printed(b2) : shown' = Append(shown, [len |-> -1, text |-> t])
  BY <1>1, <1>5 DEF ServerRecvFails
<1>10. PICK e : e = [len |-> LineLen(n), text |-> t]
  OBVIOUS
<1>11. LineLen(n) = -1 /\ shown' = Append(shown, e)
  BY <1>3, <1>9, <1>10 DEF LineLen
<1>12. Received(shown, buf, p, n, b2, e)
  BY <1>4, <1>6, <1>7, <1>10 DEF Received
<1>13. QED
  BY <1>1, <1>2, <1>4, <1>5, <1>8, <1>11, <1>12, LineKeeps

\* The server gets the messages of the client it accepted, complete and in order,
\* whatever receives fail, and a line shows behind them only what an earlier one or
\* the start left in the buffer, or, once it has been full, what lies behind it: for
\* any number of clients and messages, of any length, and any size of the buffer.
THEOREM ServerReadsStream == Spec => []ServerLines
<1>1. Init => ServerInv
  BY ServerInvInit
<1>2. ServerInv /\ [Next]_vars => ServerInv'
  <2> SUFFICES ASSUME ServerInv, [Next]_vars PROVE ServerInv'
    OBVIOUS
  <2>1. CASE Next /\ program = "server"
    <3>1. ServerBody
      BY <2>1 DEF ServerInv, ServerBody
    <3>2. \/ ServerListen \/ ServerAccept \/ ServerRecv \/ ServerRecvFails
          \/ \E c \in Client : ClientMain(c)
      BY <2>1, ServerSteps
    <3>3. ASSUME NEW c \in Client, ClientMain(c) PROVE ServerBody'
      BY <3>1, <3>3, ConnectKeeps, SendKeeps DEF ClientMain
    <3>4. ServerBody'
      BY <3>1, <3>2, <3>3, ListenKeeps, AcceptKeeps, RecvKeeps, FailKeeps
    <3>5. QED
      BY <3>4 DEF ServerInv, ServerBody
  <2>2. CASE Next /\ program # "server"
    BY <2>2, ProgramKept DEF ServerInv
  <2>3. CASE UNCHANGED vars
    BY <2>3 DEF vars, ServerInv, TcpOK, TcpStream, Got
  <2>4. QED
    BY <2>1, <2>2, <2>3
<1>3. ServerInv => ServerLines
  <2> SUFFICES ASSUME ServerInv, program = "server", server \in Client
               PROVE  /\ FlattenSeq(Parts(shown)) \o pending[server] = Stream(server, client[server].sends)
                      /\ BehindIsOld(shown)
    BY DEF ServerLines, Parts, Stream, BehindIsOld, OldAt, Reach
  <2>1. TcpStream /\ BehindIsOld(shown)
    BY DEF ServerInv
  <2>2. Got(server) = FlattenSeq(Parts(shown))
    BY DEF Got
  <2>3. QED
    BY <2>1, <2>2 DEF TcpStream
<1>4. QED
  BY <1>1, <1>2, <1>3, PTL DEF Spec

-----------------------------------------------------------------------------
(* Where the parts of a flattened sequence are.                            *)

\* What was flattened first stays at the front.
FrontOf(u, w) == /\ Len(u) \in Nat /\ Len(w) \in Nat /\ Len(u) <= Len(w)
                 /\ \A j \in 1..Len(u) : w[j] = u[j]

LEMMA FlatPrefix ==
  ASSUME NEW S, NEW ss \in Seq(Seq(S)), NEW f \in [1..Len(ss) -> Seq(S)], IsFlat(ss, f),
         NEW k \in 1..Len(ss), NEW m \in 1..Len(ss), k <= m
  PROVE  FrontOf(f[k], f[m])
<1>1. Len(ss) \in Nat /\ \A i \in 1..Len(ss) : ss[i] \in Seq(S) /\ f[i] \in Seq(S)
  BY NestedFacts
<1>2. \A i \in 1..Len(ss) : f[i] = FlatStep(ss, f, i)
  <2>1. f = [i \in 1..Len(ss) |-> FlatStep(ss, f, i)]
    BY DEF IsFlat
  <2>2. QED
    BY <2>1
<1> DEFINE Begins(n) == FrontOf(f[k], f[n])
<1>3. PICK G \in SUBSET Nat : G = {d \in Nat : k + d <= Len(ss) => Begins(k + d)}
  OBVIOUS
<1>4. 0 \in G
  <2>1. k + 0 = k
    BY <1>1
  <2>2. Begins(k)
    BY <1>1 DEF FrontOf
  <2>3. QED
    BY <1>3, <2>1, <2>2
<1>5. ASSUME NEW d \in G PROVE d + 1 \in G
  <2> SUFFICES ASSUME k + (d + 1) <= Len(ss) PROVE Begins(k + (d + 1))
    BY <1>3
  <2> HIDE DEF Begins
  <2>1. PICK a \in 1..Len(ss), b \in 1..Len(ss) : a = k + d /\ b = k + (d + 1) /\ b - 1 = a /\ b # 1
    BY <1>1, <1>3
  <2>2. Begins(a)
    BY <1>1, <1>3, <2>1
  <2>3. PICK u \in Seq(S), v \in Seq(S), w \in Seq(S) : u = f[a] /\ v = ss[b] /\ w = f[k]
    BY <1>1
  <2>4. f[b] = u \o v
    BY <1>2, <2>1, <2>3 DEF FlatStep
  <2>5. /\ Len(u \o v) = Len(u) + Len(v) /\ Len(u) \in Nat /\ Len(v) \in Nat
        /\ \A j \in 1..Len(u) : (u \o v)[j] = u[j]
    OBVIOUS
  <2>6. Len(w) \in Nat /\ Len(w) <= Len(u) /\ \A j \in 1..Len(w) : u[j] = w[j]
    BY <2>2, <2>3 DEF Begins, FrontOf
  <2>7. Begins(b)
    <3>1. Len(w) <= Len(u \o v) /\ Len(u \o v) \in Nat
      BY <2>5, <2>6, SMTT(20)
    <3>2. ASSUME NEW j \in 1..Len(w) PROVE (u \o v)[j] = w[j]
      <4>1. j \in 1..Len(u)
        BY <2>5, <2>6
      <4>2. QED
        BY <2>5, <2>6, <4>1
    <3>3. QED
      BY <2>3, <2>4, <2>6, <3>1, <3>2 DEF Begins, FrontOf
  <2>8. QED
    BY <2>1, <2>7
<1>6. G = Nat
  BY <1>4, <1>5, SetOfAllNaturals
<1>7. m - k \in G /\ k + (m - k) = m
  BY <1>1, <1>6
<1>8. Begins(m)
  BY <1>1, <1>3, <1>7
<1>9. QED
  BY <1>8

\* Parts of between lo and hi elements.
LEMMA FlatLength ==
  ASSUME NEW S, NEW ss \in Seq(Seq(S)), NEW f \in [1..Len(ss) -> Seq(S)], IsFlat(ss, f),
         NEW lo \in Nat, NEW hi \in Nat,
         \A i \in 1..Len(ss) : Len(ss[i]) >= lo /\ Len(ss[i]) <= hi,
         NEW m \in 1..Len(ss)
  PROVE  Len(f[m]) >= lo * m /\ Len(f[m]) <= hi * m
<1>1. Len(ss) \in Nat /\ \A i \in 1..Len(ss) : ss[i] \in Seq(S) /\ f[i] \in Seq(S)
  BY NestedFacts
<1>2. \A i \in 1..Len(ss) : f[i] = FlatStep(ss, f, i)
  <2>1. f = [i \in 1..Len(ss) |-> FlatStep(ss, f, i)]
    BY DEF IsFlat
  <2>2. QED
    BY <2>1
<1> DEFINE Fits(n) == Len(f[n]) >= lo * n /\ Len(f[n]) <= hi * n
<1>3. PICK G \in SUBSET Nat : G = {d \in Nat : d + 1 <= Len(ss) => Fits(d + 1)}
  OBVIOUS
<1>4. 0 \in G
  <2> SUFFICES ASSUME 1 <= Len(ss) PROVE Fits(1)
    BY <1>3
  <2>1. 1 \in 1..Len(ss)
    BY <1>1
  <2>2. f[1] = ss[1]
    BY <1>2, <2>1 DEF FlatStep
  <2>3. lo * 1 = lo /\ hi * 1 = hi
    OBVIOUS
  <2>4. QED
    BY <2>1, <2>2, <2>3
<1>5. ASSUME NEW d \in G PROVE d + 1 \in G
  <2> SUFFICES ASSUME (d + 1) + 1 <= Len(ss) PROVE Fits((d + 1) + 1)
    BY <1>3
  <2> HIDE DEF Fits
  <2>1. PICK a \in 1..Len(ss), b \in 1..Len(ss) : a = d + 1 /\ b = (d + 1) + 1 /\ b - 1 = a /\ b # 1 /\ b = a + 1
    BY <1>1, <1>3
  <2>2. Fits(a)
    BY <1>1, <1>3, <2>1
  <2>3. PICK u \in Seq(S), v \in Seq(S) : u = f[a] /\ v = ss[b]
    BY <1>1
  <2>4. f[b] = u \o v
    BY <1>2, <2>1, <2>3 DEF FlatStep
  <2>5. Len(u \o v) = Len(u) + Len(v) /\ Len(u) \in Nat /\ Len(v) \in Nat
    OBVIOUS
  <2>6. Len(v) >= lo /\ Len(v) <= hi
    BY <2>3
  <2>7. PICK x \in Nat, y \in Nat : x = lo * a /\ y = hi * a /\ lo * b = x + lo /\ hi * b = y + hi
    <3>1. a \in Nat /\ lo * (a + 1) = lo * a + lo /\ hi * (a + 1) = hi * a + hi
      OBVIOUS
    <3>2. QED
      BY <2>1, <3>1
  <2>8. Len(u) >= x /\ Len(u) <= y
    BY <2>2, <2>3, <2>7 DEF Fits
  <2>9. Len(f[b]) >= lo * b /\ Len(f[b]) <= hi * b
    <3>1. Len(u \o v) >= x + lo /\ Len(u \o v) <= y + hi
      BY <2>5, <2>6, <2>8, SMTT(20)
    <3>2. QED
      BY <2>4, <2>7, <3>1, Zenon
  <2>10. QED
    BY <2>1, <2>9 DEF Fits
<1>6. G = Nat
  BY <1>4, <1>5, SetOfAllNaturals
<1>7. m - 1 \in G /\ (m - 1) + 1 = m
  BY <1>1, <1>6
<1>8. QED
  BY <1>1, <1>3, <1>7

\* The places p at which the parts begin, and what is found from there on.
Placed(ss, z, p) ==
  /\ p \in [1..(Len(ss) + 1) -> Nat] /\ p[1] = 1 /\ p[Len(ss) + 1] = Len(z) + 1
  /\ \A k \in 1..Len(ss) :
       /\ p[k + 1] = p[k] + Len(ss[k]) /\ p[k] + Len(ss[k]) <= p[Len(ss) + 1] /\ p[k] >= 1
       /\ \A j \in 1..Len(ss[k]) : z[p[k] + j - 1] = ss[k][j]

LEMMA FlattenPositions ==
  ASSUME NEW S, NEW ss \in Seq(Seq(S)), NEW lo \in Nat \ {0}, NEW hi \in Nat,
         \A i \in 1..Len(ss) : Len(ss[i]) >= lo /\ Len(ss[i]) <= hi
  PROVE  /\ FlattenSeq(ss) \in Seq(S)
         /\ Len(FlattenSeq(ss)) >= lo * Len(ss) /\ Len(FlattenSeq(ss)) <= hi * Len(ss)
         /\ \E p : Placed(ss, FlattenSeq(ss), p)
<1>1. PICK L \in Nat : L = Len(ss)
  BY NestedFacts
<1>2. PICK z \in Seq(S) : z = FlattenSeq(ss)
  BY FlattenType
<1>3. CASE L = 0
  <2>1. z = <<>>
    BY <1>1, <1>2, <1>3, NestedFacts, FlattenEmpty
  <2>2. Len(z) = 0 /\ lo * 0 = 0 /\ hi * 0 = 0
    BY <2>1
  <2>3. PICK p \in [1..(L + 1) -> Nat] : p = [k \in 1..(L + 1) |-> 1]
    OBVIOUS
  <2>4. p[1] = 1 /\ p[L + 1] = Len(z) + 1 /\ 1..L = {}
    BY <1>3, <2>2, <2>3
  <2>5. Placed(ss, z, p)
    BY <1>1, <2>4 DEF Placed
  <2>6. QED
    BY <1>1, <1>2, <1>3, <2>2, <2>5
<1>4. CASE L # 0
  <2>1. PICK f \in [1..Len(ss) -> Seq(S)] : f = Flat(ss) /\ IsFlat(ss, f)
    BY FlatExists
  <2>2. L \in 1..L /\ z = f[L]
    BY <1>1, <1>2, <1>4, <2>1, FlattenIsFlat
  <2>3. Len(z) >= lo * L /\ Len(z) <= hi * L
    BY <1>1, <2>1, <2>2, FlatLength
  <2>4. \A i \in 1..L : f[i] = FlatStep(ss, f, i)
    <3>1. f = [i \in 1..Len(ss) |-> FlatStep(ss, f, i)]
      BY <2>1 DEF IsFlat
    <3>2. QED
      BY <1>1, <3>1
  <2>5. \A i \in 1..L : ss[i] \in Seq(S) /\ f[i] \in Seq(S) /\ Len(f[i]) \in Nat /\ Len(ss[i]) \in Nat
    BY <1>1, NestedFacts, SMTT(20)
  <2>6. \A i \in 1..L : Len(f[i]) <= Len(z) /\ \A j \in 1..Len(f[i]) : z[j] = f[i][j]
    <3>1. ASSUME NEW i \in 1..L PROVE Len(f[i]) <= Len(z) /\ \A j \in 1..Len(f[i]) : z[j] = f[i][j]
      <4>1. i \in 1..Len(ss) /\ L \in 1..Len(ss) /\ i <= L
        BY <1>1, <2>2
      <4>2. FrontOf(f[i], f[L])
        BY <2>1, <4>1, FlatPrefix, Zenon
      <4>3. QED
        BY <2>2, <4>2 DEF FrontOf
    <3>2. QED
      BY <3>1
  <2>7. PICK p : p = [k \in 1..(L + 1) |-> IF k = 1 THEN 1 ELSE Len(f[k - 1]) + 1]
    OBVIOUS
  <2>8. p[1] = 1 /\ \A k \in 1..L : p[k + 1] = Len(f[k]) + 1
    <3>1. 1 \in 1..(L + 1) /\ \A k \in 1..L : k + 1 \in 1..(L + 1) /\ k + 1 # 1 /\ (k + 1) - 1 = k
      BY <1>1
    <3>2. QED
      BY <2>7, <3>1
  <2>9. p \in [1..(L + 1) -> Nat]
    <3>1. ASSUME NEW k \in 1..(L + 1) PROVE (IF k = 1 THEN 1 ELSE Len(f[k - 1]) + 1) \in Nat
      <4>1. k # 1 => k - 1 \in 1..L
        BY <1>1
      <4>2. k # 1 => Len(f[k - 1]) \in Nat
        BY <2>5, <4>1
      <4>3. QED
        BY <4>2
    <3>2. QED
      BY <2>7, <3>1
  <2>10. ASSUME NEW k \in 1..L
         PROVE  /\ p[k + 1] = p[k] + Len(ss[k]) /\ p[k] + Len(ss[k]) <= Len(z) + 1 /\ p[k] >= 1
                /\ \A j \in 1..Len(ss[k]) : z[p[k] + j - 1] = ss[k][j]
    <3>1. PICK v \in Seq(S), w \in Seq(S) : v = ss[k] /\ w = f[k]
      BY <2>5
    <3>2. PICK n \in Nat : n = Len(v) /\ n >= lo /\ n >= 1
      BY <1>1, <3>1
    <3>3. CASE k = 1
      <4>1. w = v
        BY <2>4, <3>1, <3>3 DEF FlatStep
      <4>2. p[k] = 1 /\ p[k + 1] = n + 1
        BY <2>8, <3>1, <3>2, <3>3, <4>1
      <4>3. n <= Len(z) /\ \A j \in 1..n : z[j] = v[j]
        BY <2>6, <3>1, <3>2, <4>1
      <4>4. \A j \in 1..n : 1 + j - 1 = j
        OBVIOUS
      <4>5. p[k + 1] = p[k] + n /\ p[k] + n <= Len(z) + 1 /\ p[k] >= 1
        BY <3>2, <4>2, <4>3
      <4>6. \A j \in 1..n : z[p[k] + j - 1] = v[j]
        BY <4>2, <4>3, <4>4
      <4>7. QED
        BY <3>1, <3>2, <4>5, <4>6
    <3>4. CASE k # 1
      <4>1. PICK i \in 1..L : i = k - 1 /\ i + 1 = k
        BY <1>1, <3>4
      <4>2. PICK u \in Seq(S) : u = f[i]
        BY <2>5
      <4>3. w = u \o v
        BY <2>4, <3>1, <3>4, <4>1, <4>2 DEF FlatStep
      <4>4. PICK q \in Nat : q = Len(u)
        OBVIOUS
      <4>5. Len(w) = q + n /\ \A j \in 1..n : w[q + j] = v[j]
        BY <3>2, <4>3, <4>4
      <4>6. p[k] = q + 1 /\ p[k + 1] = q + n + 1
        BY <2>8, <3>1, <4>1, <4>2, <4>4, <4>5
      <4>7. q + n <= Len(z) /\ \A j \in 1..(q + n) : z[j] = w[j]
        BY <2>6, <3>1, <4>5
      <4>8. ASSUME NEW j \in 1..n PROVE z[p[k] + j - 1] = v[j]
        <5>1. PICK x \in 1..(q + n) : x = q + j /\ p[k] + j - 1 = x
          BY <4>4, <4>6, SMTT(20)
        <5>2. w[x] = v[j]
          BY <4>5, <5>1
        <5>3. z[x] = w[x]
          BY <4>7
        <5>4. QED
          BY <5>1, <5>2, <5>3
      <4>9. p[k + 1] = p[k] + n /\ p[k] + n <= Len(z) + 1 /\ p[k] >= 1
        <5>1. PICK h \in Nat : h = Len(z)
          OBVIOUS
        <5>2. (q + 1) + n = q + n + 1 /\ (q + 1) + n <= h + 1 /\ q + 1 >= 1
          BY <4>7, <5>1
        <5>3. QED
          BY <4>6, <5>1, <5>2
      <4>10. QED
        BY <3>1, <3>2, <4>8, <4>9
    <3>5. QED
      BY <3>3, <3>4
  <2>11. p[L + 1] = Len(z) + 1
    BY <2>2, <2>8
  <2>12. Placed(ss, z, p)
    BY <1>1, <2>8, <2>9, <2>10, <2>11 DEF Placed
  <2>13. QED
    BY <1>1, <1>2, <2>3, <2>12
<1>5. QED
  BY <1>3, <1>4

-----------------------------------------------------------------------------
(* The datagrams of a dump.                                                *)

LEMMA ShortSequences ==
  ASSUME NEW S, NEW x \in S, NEW y \in S
  PROVE  /\ <<x>> \in Seq(S) /\ Len(<<x>>) = 1 /\ <<x>>[1] = x
         /\ <<x, y>> \in Seq(S) /\ Len(<<x, y>>) = 2 /\ <<x, y>>[1] = x /\ <<x, y>>[2] = y
OBVIOUS

LEMMA ConstantSequence ==
  ASSUME NEW S, NEW x \in S, NEW n \in Nat
  PROVE  /\ [k \in 1..n |-> x] \in Seq(S) /\ Len([k \in 1..n |-> x]) = n
         /\ \A i \in 1..n : [k \in 1..n |-> x][i] = x
OBVIOUS

LEMMA Concatenated ==
  ASSUME NEW S, NEW s \in Seq(S), NEW t \in Seq(S)
  PROVE  /\ s \o t \in Seq(S) /\ Len(s \o t) = Len(s) + Len(t)
         /\ Len(s) \in Nat /\ Len(t) \in Nat
         /\ \A i \in 1..Len(s) : (s \o t)[i] = s[i]
         /\ \A j \in 1..Len(t) : (s \o t)[Len(s) + j] = t[j]
OBVIOUS

WordType == [len : Nat, type : Nat, of : Nat]

LEMMA WordFacts ==
  ASSUME NEW l \in Nat, NEW t \in Nat, NEW o \in Nat
  PROVE  /\ Word(l, t, o) \in WordType
         /\ Word(l, t, o).len = l /\ Word(l, t, o).type = t /\ Word(l, t, o).of = o
BY DEF Word, WordType

\* The words that came with entry i, and with the entries up to it.
WordsOf(i)   == {w \in WordType : w.of = i}
WordsUpto(i) == {w \in WordType : w.of <= i}

\* w begins an attribute of two words, of type t.
IsAttr(w, t) == w.len = 2 /\ w.type = t

TableOK ==
  /\ Len(table) \in 0..MaxEntry
  /\ \A i \in 1..Len(table) :
       /\ table[i].main \in BOOLEAN /\ table[i].attrs \in Seq(Nat) /\ Len(table[i].attrs) <= 4
       /\ program # "get_route" => table[i].main = TRUE

MsgSize(i) == 4 + Header[program] + 2 * Len(table[i].attrs)

LEMMA Headers ==
  ASSUME program \in Dumper
  PROVE  Header[program] \in 2..4 /\ RTM_NEW[program] \in 4..6
<1>1. CASE program = "get_addr"
  BY <1>1 DEF Header, RTM_NEW
<1>2. CASE program = "get_link"
  BY <1>2 DEF Header, RTM_NEW
<1>3. CASE program = "get_route"
  BY <1>3 DEF Header, RTM_NEW
<1>4. QED
  BY <1>1, <1>2, <1>3 DEF Dumper

\* Where the j-th attribute of a message begins.
AttrPlace(j) == 4 + Header[program] + 2 * j - 1

LEMMA MessageFacts ==
  ASSUME program \in Dumper, TableOK, NEW i \in 1..Len(table)
  PROVE  /\ MsgSize(i) \in 6..16
         /\ Message(i) \in Seq(WordsOf(i)) /\ Len(Message(i)) = MsgSize(i)
         /\ Message(i)[1].len = MsgSize(i) /\ Message(i)[1].of = i
         /\ Message(i)[2].len = RTM_NEW[program]
         /\ \A j \in 1..Len(table[i].attrs) :
              /\ AttrPlace(j) \in 1..MsgSize(i)
              /\ IsAttr(Message(i)[AttrPlace(j)], table[i].attrs[j])
<1>1. PICK n \in 2..4, r \in 4..6 : n = Header[program] /\ r = RTM_NEW[program]
  BY Headers
<1>2. PICK a \in Seq(Nat) : a = table[i].attrs /\ Len(a) <= 4
  BY DEF TableOK
<1>3. PICK l \in 0..4 : l = Len(a)
  <2>1. Len(a) \in Nat
    OBVIOUS
  <2>2. Len(a) <= 4
    BY <1>2, Zenon
  <2>3. \A x \in Nat : x <= 4 => x \in 0..4
    OBVIOUS
  <2>4. QED
    BY <2>1, <2>2, <2>3, Zenon
<1>4. i \in Nat
  BY EntryAssumption DEF TableOK
<1>4a. PICK S : S = WordsOf(i)
  OBVIOUS
<1>4b. \A w : w \in S <=> w \in WordType /\ w.of = i
  BY <1>4a DEF WordsOf
<1>5. MsgSize(i) = 4 + n + 2 * l /\ 4 + n + 2 * l \in 6..16 /\ 4 + n + 2 * l \in Nat
  <2>1. MsgSize(i) = 4 + n + 2 * l
    BY <1>1, <1>2, <1>3, Zenon DEF MsgSize
  <2>2. 4 + n + 2 * l \in 6..16 /\ 4 + n + 2 * l \in Nat
    OBVIOUS
  <2>3. QED
    BY <2>1, <2>2, Zenon
<1>6. PICK w1, w2, w0 :
        w1 = Word(4 + n + 2 * l, 0, i) /\ w2 = Word(r, 2, i) /\ w0 = Word(0, 0, i)
  OBVIOUS
<1>6a. w1 \in S /\ w1.len = 4 + n + 2 * l /\ w1.of = i /\ w2 \in S /\ w2.len = r /\ w0 \in S
  <2>1. PICK m \in Nat : m = 4 + n + 2 * l
    BY <1>5
  <2>2. w1 \in WordType /\ w1.len = m /\ w1.of = i
    <3>1. w1 = [len |-> m, type |-> 0, of |-> i]
      BY <1>6, <2>1 DEF Word
    <3>2. QED
      BY <1>4, <3>1 DEF WordType
  <2>3. r \in Nat /\ 2 \in Nat /\ 0 \in Nat
    OBVIOUS
  <2>4. w2 \in WordType /\ w2.len = r /\ w2.of = i /\ w0 \in WordType /\ w0.of = i
    <3>1. w2 = [len |-> r, type |-> 2, of |-> i] /\ w0 = [len |-> 0, type |-> 0, of |-> i]
      BY <1>6 DEF Word
    <3>2. QED
      BY <1>4, <2>3, <3>1 DEF WordType
  <2>5. QED
    BY <1>4b, <2>1, <2>2, <2>4
<1>7. PICK u : u = <<w1, w2>>
  OBVIOUS
<1>7a. u \in Seq(S) /\ Len(u) = 2 /\ u[1] = w1 /\ u[2] = w2
  BY <1>6a, <1>7, ShortSequences
<1>8. PICK v : v = [k \in 1..(2 + n) |-> w0]
  OBVIOUS
<1>8a. v \in Seq(S) /\ Len(v) = 2 + n
  <2>1. 2 + n \in Nat
    OBVIOUS
  <2>2. QED
    BY <1>6a, <1>8, <2>1, ConstantSequence
<1>9. PICK ss \in Seq(Seq(S)) :
        /\ ss = [k \in 1..l |-> <<Word(2, a[k], i), w0>>] /\ Len(ss) = l
        /\ \A k \in 1..l : Len(ss[k]) = 2 /\ IsAttr(ss[k][1], a[k])
  <2>1. \A k \in 1..l : a[k] \in Nat
    BY <1>3
  <2>2. ASSUME NEW k \in 1..l PROVE Word(2, a[k], i) \in S /\ IsAttr(Word(2, a[k], i), a[k])
    <3>1. PICK t \in Nat : t = a[k]
      BY <2>1
    <3>2. PICK two \in Nat : two = 2
      OBVIOUS
    <3>3. PICK x : x = [len |-> two, type |-> t, of |-> i]
      OBVIOUS
    <3>4. x \in WordType /\ x.len = two /\ x.type = t /\ x.of = i
      BY <1>4, <3>3 DEF WordType
    <3>5. Word(2, a[k], i) = x
      BY <3>1, <3>2, <3>3 DEF Word
    <3>6. x \in S /\ IsAttr(x, a[k])
      BY <1>4b, <3>1, <3>2, <3>4 DEF IsAttr
    <3>7. QED
      BY <3>5, <3>6
  <2>3. ASSUME NEW k \in 1..l
        PROVE  /\ <<Word(2, a[k], i), w0>> \in Seq(S) /\ Len(<<Word(2, a[k], i), w0>>) = 2
               /\ <<Word(2, a[k], i), w0>>[1] = Word(2, a[k], i)
    BY <1>6a, <2>2, ShortSequences
  <2>4. PICK T : T = Seq(S)
    OBVIOUS
  <2>5. PICK q : q = [k \in 1..l |-> <<Word(2, a[k], i), w0>>]
    OBVIOUS
  <2>6. q \in [1..l -> T] /\ \A k \in 1..l : q[k] = <<Word(2, a[k], i), w0>>
    BY <2>3, <2>4, <2>5
  <2>7. q \in Seq(T) /\ Len(q) = l
    BY <2>6
  <2>8. \A k \in 1..l : Len(q[k]) = 2 /\ IsAttr(q[k][1], a[k])
    BY <2>2, <2>3, <2>6
  <2>9. QED
    BY <2>4, <2>5, <2>7, <2>8
<1>10. PICK w \in Seq(S) : /\ w = FlattenSeq(ss) /\ Len(w) = 2 * l
                           /\ \A k \in 1..l : IsAttr(w[2 * k - 1], a[k])
  <2>1. /\ FlattenSeq(ss) \in Seq(S)
        /\ Len(FlattenSeq(ss)) >= 2 * Len(ss) /\ Len(FlattenSeq(ss)) <= 2 * Len(ss)
        /\ \E p : Placed(ss, FlattenSeq(ss), p)
    <3>1. PICK two \in Nat \ {0} : two = 2
      OBVIOUS
    <3>2. \A k \in 1..Len(ss) : Len(ss[k]) >= two /\ Len(ss[k]) <= two
      BY <1>9, <3>1
    <3>3. QED
      BY <3>1, <3>2, FlattenPositions
  <2>2. PICK z \in Seq(S) : z = FlattenSeq(ss)
    BY <2>1
  <2>3. Len(z) = 2 * l
    <3>1. Len(z) \in Nat /\ Len(z) >= 2 * l /\ Len(z) <= 2 * l
      BY <1>9, <2>1, <2>2
    <3>2. QED
      BY <3>1
  <2>4. PICK p : Placed(ss, z, p)
    BY <2>1, <2>2
  <2>5. /\ p[1] = 1 /\ \A k \in 1..l : p[k + 1] = p[k] + 2
        /\ \A k \in 1..l : z[p[k] + 1 - 1] = ss[k][1]
    <3>1. /\ p[1] = 1 /\ \A k \in 1..l : p[k + 1] = p[k] + Len(ss[k])
          /\ \A k \in 1..l : \A j \in 1..Len(ss[k]) : z[p[k] + j - 1] = ss[k][j]
      BY <1>9, <2>4 DEF Placed
    <3>2. \A k \in 1..l : Len(ss[k]) = 2 /\ 1 \in 1..Len(ss[k])
      BY <1>9
    <3>3. QED
      BY <3>1, <3>2
  <2>6. PICK G \in SUBSET Nat : G = {k \in Nat : k <= l => p[k + 1] = 2 * k + 1}
    OBVIOUS
  <2>7. 0 \in G
    BY <2>5, <2>6
  <2>8. ASSUME NEW k \in G PROVE k + 1 \in G
    <3>1. k \in Nat
      BY <2>6
    <3>2. SUFFICES ASSUME k + 1 <= l PROVE p[(k + 1) + 1] = 2 * (k + 1) + 1
      BY <2>6, <3>1
    <3>3. p[k + 1] = 2 * k + 1
      BY <2>6, <2>8, <3>1, <3>2
    <3>4. k + 1 \in 1..l
      BY <3>1, <3>2
    <3>5. QED
      BY <2>5, <3>1, <3>3, <3>4
  <2>9. G = Nat
    BY <2>7, <2>8, SetOfAllNaturals
  <2>10. ASSUME NEW k \in 1..l PROVE IsAttr(z[2 * k - 1], a[k])
    <3>1. PICK h \in Nat : h = k - 1 /\ h + 1 = k /\ h <= l /\ 2 * h + 1 = 2 * k - 1
      OBVIOUS
    <3>2. p[k] = 2 * k - 1
      BY <2>6, <2>9, <3>1
    <3>3. (2 * k - 1) + 1 - 1 = 2 * k - 1
      OBVIOUS
    <3>4. z[2 * k - 1] = ss[k][1]
      BY <2>5, <3>2, <3>3
    <3>5. QED
      BY <1>9, <3>4
  <2>11. QED
    BY <2>2, <2>3, <2>10
<1>11. Message(i) = u \o v \o w
  BY <1>1, <1>2, <1>3, <1>6, <1>7, <1>8, <1>9, <1>10 DEF Message
<1>12. PICK uv : uv = u \o v
  OBVIOUS
<1>12a. uv \in Seq(S) /\ Len(uv) = 4 + n /\ uv[1] = w1 /\ uv[2] = w2
  <2>1. uv \in Seq(S) /\ Len(uv) = Len(u) + Len(v) /\ \A j \in 1..Len(u) : uv[j] = u[j]
    BY <1>7a, <1>8a, <1>12, Concatenated, ZenonT(40)
  <2>2. QED
    BY <1>7a, <1>8a, <2>1, SMTT(20)
<1>13. PICK mm : mm = uv \o w
  OBVIOUS
<1>13a. /\ mm \in Seq(S) /\ Len(mm) = 4 + n + 2 * l /\ mm[1] = w1 /\ mm[2] = w2
        /\ \A j \in 1..(2 * l) : mm[4 + n + j] = w[j]
  <2>1. /\ mm \in Seq(S) /\ Len(mm) = Len(uv) + Len(w) /\ \A j \in 1..Len(uv) : mm[j] = uv[j]
        /\ \A j \in 1..Len(w) : mm[Len(uv) + j] = w[j]
    BY <1>12a, <1>13, Concatenated, SMTT(20)
  <2>2. PICK c \in Nat : c = 4 + n /\ c = Len(uv) /\ 1 \in 1..c /\ 2 \in 1..c
    BY <1>12a
  <2>3. PICK h \in Nat : h = 2 * l /\ h = Len(w)
    BY <1>10
  <2>4. Len(mm) = c + h
    BY <2>1, <2>2, <2>3
  <2>5. mm[1] = w1 /\ mm[2] = w2
    BY <1>12a, <2>1, <2>2
  <2>6. \A j \in 1..h : mm[c + j] = w[j]
    BY <2>1, <2>2, <2>3
  <2>7. QED
    BY <2>1, <2>2, <2>3, <2>4, <2>5, <2>6
<1>14. Message(i) = mm
  BY <1>11, <1>12, <1>13
<1>15. ASSUME NEW j \in 1..l
       PROVE  AttrPlace(j) \in 1..(4 + n + 2 * l) /\ IsAttr(mm[AttrPlace(j)], a[j])
  <2>1. PICK x \in 1..(2 * l) : x = 2 * j - 1
    OBVIOUS
  <2>2. 4 + n + 2 * j - 1 = 4 + n + x /\ 4 + n + x \in 1..(4 + n + 2 * l)
    BY <2>1
  <2>3. AttrPlace(j) = 4 + n + x
    BY <1>1, <2>2 DEF AttrPlace
  <2>4. IsAttr(mm[4 + n + x], a[j])
    BY <1>10, <1>13a, <2>1
  <2>5. QED
    BY <2>2, <2>3, <2>4
<1>16. QED
  BY <1>1, <1>2, <1>3, <1>4a, <1>5, <1>6a, <1>13a, <1>14, <1>15, Zenon

LEMMA DoneFacts ==
  NLMSG_DONE \in Seq(WordsOf(0)) /\ Len(NLMSG_DONE) = 5 /\ NLMSG_DONE[1].len = 5 /\ NLMSG_DONE[2].len = 0
<1>0. PICK S : S = WordsOf(0)
  OBVIOUS
<1>1. PICK w1, w0 : w1 = Word(5, 0, 0) /\ w0 = Word(0, 0, 0)
  OBVIOUS
<1>2. w1 \in S /\ w1.len = 5 /\ w0 \in S /\ w0.len = 0
  BY <1>0, <1>1, WordFacts DEF WordsOf
<1>3. PICK u, v : u = <<w1>> /\ v = [k \in 1..4 |-> w0]
  OBVIOUS
<1>4. u \in Seq(S) /\ Len(u) = 1 /\ u[1] = w1
  BY <1>2, <1>3, ShortSequences
<1>5. v \in Seq(S) /\ Len(v) = 4 /\ \A i \in 1..4 : v[i] = w0
  BY <1>2, <1>3, ConstantSequence
<1>6. PICK d : d = u \o v
  OBVIOUS
<1>7. /\ d \in Seq(S) /\ Len(d) = Len(u) + Len(v)
      /\ \A i \in 1..Len(u) : d[i] = u[i]
      /\ \A j \in 1..Len(v) : d[Len(u) + j] = v[j]
  <2>1. u \in Seq(S) /\ v \in Seq(S)
    BY <1>4, <1>5
  <2>2. QED
    BY <1>6, <2>1, Concatenated
<1>8. Len(d) = 5 /\ d[1] = w1 /\ d[2] = w0
  <2>1. 1 \in 1..Len(u) /\ 1 \in 1..Len(v) /\ 1 \in 1..4 /\ Len(u) + 1 = 2 /\ Len(u) + Len(v) = 5
    BY <1>4, <1>5
  <2>2. QED
    BY <1>4, <1>5, <1>7, <2>1
<1>9. NLMSG_DONE = d
  BY <1>1, <1>3, <1>6 DEF NLMSG_DONE
<1>10. QED
  BY <1>0, <1>2, <1>7, <1>8, <1>9

\* The messages with the n entries after base lie in d one behind the other.
Laid(d, p, base, n) ==
  /\ p \in [1..(n + 1) -> Nat]
  /\ \A k \in 1..n : /\ p[k + 1] = p[k] + MsgSize(base + k)
                     /\ p[k] >= 1 /\ p[k] + MsgSize(base + k) <= p[n + 1]
                     /\ d[p[k]].len = MsgSize(base + k) /\ d[p[k]].of = base + k
                     /\ d[p[k] + 1].len = RTM_NEW[program]

\* Each has its attributes behind the fixed part.
Filled(d, p, base, n) ==
  \A k \in 1..n : \A j \in 1..Len(table[base + k].attrs) :
    /\ IsAttr(d[p[k] + AttrPlace(j) - 1], table[base + k].attrs[j])
    /\ d[p[k] + AttrPlace(j) - 1].of = base + k

\* Behind them, at e, the datagram ends or the end of the dump follows.
EndsAt(d, e, stop) == stop = e \/ (stop = e + 5 /\ d[e].len = 5 /\ d[e + 1].len = 0)

LEMMA DatagramFacts ==
  ASSUME program \in Dumper, TableOK, sent \in 0..Len(table),
         NEW n \in 0..(Len(table) - sent), NEW done \in BOOLEAN
  PROVE  /\ Len(Datagram(n, done)) \in Nat /\ Len(Datagram(n, done)) <= BufWords
         /\ Datagram(n, done) \in Seq(WordsUpto(sent + n))
         /\ \E p : /\ Laid(Datagram(n, done), p, sent, n) /\ p[1] = 1
                   /\ p[n + 1] <= Len(Datagram(n, done)) + 1
                   /\ EndsAt(Datagram(n, done), p[n + 1], Len(Datagram(n, done)) + 1)
                   /\ Filled(Datagram(n, done), p, sent, n)
                   /\ \A q \in 1..Len(Datagram(n, done)) :
                        q >= p[n + 1] => Datagram(n, done)[q].of = 0
<1>1. n \in Nat /\ sent \in Nat /\ MaxEntry \in Nat /\ n <= MaxEntry /\ Len(table) \in Nat
  BY EntryAssumption DEF TableOK
<1>1a. PICK S : S = WordsUpto(sent + n)
  OBVIOUS
<1>1b. ASSUME NEW i \in 0..(sent + n), NEW s \in Seq(WordsOf(i)) PROVE s \in Seq(S)
  <2>1. WordsOf(i) \subseteq S
    BY <1>1a DEF WordsOf, WordsUpto
  <2>2. QED
    BY <2>1
<1>2. ASSUME NEW k \in 1..n
      PROVE  /\ sent + k \in 1..Len(table)
             /\ MsgSize(sent + k) \in 6..16
             /\ Message(sent + k) \in Seq(S) /\ Len(Message(sent + k)) = MsgSize(sent + k)
             /\ Message(sent + k)[1].len = MsgSize(sent + k) /\ Message(sent + k)[1].of = sent + k
             /\ Message(sent + k)[2].len = RTM_NEW[program]
  <2>1. PICK i \in 1..Len(table) : i = sent + k /\ i \in 0..(sent + n)
    BY <1>1
  <2>2. Message(i) \in Seq(S)
    BY <1>1b, <2>1, MessageFacts
  <2>3. QED
    BY <2>1, <2>2, MessageFacts
<1>3. PICK ss : ss = [k \in 1..n |-> Message(sent + k)]
  OBVIOUS
<1>4. /\ ss \in Seq(Seq(S)) /\ Len(ss) = n
      /\ \A k \in 1..n : ss[k] = Message(sent + k)
  <2>1. PICK T : T = Seq(S)
    OBVIOUS
  <2>2. ss \in [1..n -> T] /\ \A k \in 1..n : ss[k] = Message(sent + k)
    BY <1>2, <1>3, <2>1
  <2>3. ss \in Seq(T) /\ Len(ss) = n
    BY <1>1, <2>2
  <2>4. QED
    BY <2>1, <2>2, <2>3
<1>5. PICK z : z = FlattenSeq(ss)
  OBVIOUS
<1>6. PICK lo \in Nat \ {0}, hi \in Nat : lo = 6 /\ hi = 16
  OBVIOUS
<1>7. ASSUME NEW k \in 1..Len(ss) PROVE Len(ss[k]) >= lo /\ Len(ss[k]) <= hi
  <2>1. k \in 1..n
    BY <1>4
  <2>2. PICK m \in 6..16 : m = Len(ss[k])
    BY <1>2, <1>4, <2>1
  <2>3. m >= lo /\ m <= hi
    BY <1>6
  <2>4. QED
    BY <2>2, <2>3
<1>8. z \in Seq(S) /\ Len(z) <= hi * n /\ \E p : Placed(ss, z, p)
  BY <1>4, <1>5, <1>7, FlattenPositions
<1>8a. PICK p : Placed(ss, z, p)
  BY <1>8
<1>9. /\ p \in [1..(n + 1) -> Nat] /\ p[1] = 1 /\ p[n + 1] = Len(z) + 1
      /\ \A k \in 1..n :
           /\ p[k + 1] = p[k] + Len(ss[k]) /\ p[k] + Len(ss[k]) <= p[n + 1] /\ p[k] >= 1
           /\ \A j \in 1..Len(ss[k]) : z[p[k] + j - 1] = ss[k][j]
  <2>1. Len(ss) = n
    BY <1>4
  <2>2. QED
    BY <1>8a, <2>1 DEF Placed
<1>10. PICK L \in Nat : L = Len(z) /\ L <= 16 * n
  BY <1>1, <1>6, <1>8
<1>11. PICK y : y = IF done THEN NLMSG_DONE ELSE <<>>
  OBVIOUS
<1>11a. NLMSG_DONE \in Seq(S)
  <2>1. 0 \in 0..(sent + n)
    BY <1>1
  <2>2. QED
    BY <1>1b, <2>1, DoneFacts
<1>12. y \in Seq(S) /\ (done => Len(y) = 5 /\ y[1].len = 5 /\ y[2].len = 0) /\ (~ done => Len(y) = 0)
  BY <1>11, <1>11a, DoneFacts
<1>13. PICK d : d = z \o y
  OBVIOUS
<1>14. Datagram(n, done) = d
  BY <1>3, <1>5, <1>11, <1>13 DEF Datagram
<1>15. /\ Len(d) = L + Len(y) /\ \A i \in 1..L : d[i] = z[i]
       /\ \A j \in 1..Len(y) : d[L + j] = y[j]
  <2>1. z \in Seq(S) /\ y \in Seq(S)
    BY <1>8, <1>12
  <2>2. /\ Len(d) = Len(z) + Len(y) /\ \A i \in 1..Len(z) : d[i] = z[i]
        /\ \A j \in 1..Len(y) : d[Len(z) + j] = y[j]
    BY <1>13, <2>1, Concatenated
  <2>3. L = Len(z)
    BY <1>10
  <2>4. QED
    BY <2>2, <2>3
<1>16. Len(d) \in Nat /\ Len(d) <= BufWords
  <2>1. PICK l \in 0..5 : l = Len(y)
    BY <1>12
  <2>2. Len(d) = L + l
    BY <1>15, <2>1
  <2>3. L + l \in Nat /\ L + l <= 16 * MaxEntry + 16
    BY <1>1, <1>10
  <2>4. QED
    BY <2>2, <2>3 DEF BufWords
<1>17. ASSUME NEW k \in 1..n
       PROVE  /\ p[k + 1] = p[k] + MsgSize(sent + k)
              /\ p[k] >= 1 /\ p[k] + MsgSize(sent + k) <= p[n + 1]
              /\ d[p[k]].len = MsgSize(sent + k) /\ d[p[k]].of = sent + k
              /\ d[p[k] + 1].len = RTM_NEW[program]
  <2>1. PICK m \in 6..16 : m = MsgSize(sent + k) /\ m = Len(ss[k])
    BY <1>2, <1>4
  <2>2. PICK a \in Nat : a = p[k]
    <3>1. k \in 1..(n + 1)
      BY <1>1
    <3>2. QED
      BY <1>9, <3>1
  <2>3. p[k + 1] = a + m /\ a + m <= L + 1 /\ a >= 1
    BY <1>9, <1>10, <2>1, <2>2
  <2>4. z[a] = ss[k][1] /\ z[a + 1] = ss[k][2]
    <3>0. 1 \in 1..m /\ 2 \in 1..m /\ a + 1 - 1 = a /\ a + 2 - 1 = a + 1
      OBVIOUS
    <3>1. 1 \in 1..Len(ss[k]) /\ 2 \in 1..Len(ss[k]) /\ a + 1 - 1 = a /\ a + 2 - 1 = a + 1
      BY <2>1, <3>0, Zenon
    <3>2. \A j \in 1..Len(ss[k]) : z[a + j - 1] = ss[k][j]
      BY <1>9, <2>2
    <3>3. z[a + 1 - 1] = ss[k][1] /\ z[a + 2 - 1] = ss[k][2]
      BY <3>1, <3>2
    <3>4. QED
      BY <3>1, <3>3
  <2>5. a \in 1..L /\ a + 1 \in 1..L
    <3>1. a + m <= L + 1 /\ a >= 1
      BY <2>3
    <3>2. QED
      BY <3>1
  <2>6. d[a] = ss[k][1] /\ d[a + 1] = ss[k][2]
    BY <1>15, <2>4, <2>5
  <2>7. /\ ss[k][1].len = m /\ ss[k][1].of = sent + k /\ ss[k][2].len = RTM_NEW[program]
    BY <1>2, <1>4, <2>1
  <2>8. p[n + 1] = L + 1
    BY <1>9, <1>10
  <2>9. QED
    BY <2>1, <2>2, <2>3, <2>6, <2>7, <2>8
<1>18. Laid(d, p, sent, n)
  BY <1>9, <1>17, Zenon DEF Laid
<1>19. p[n + 1] = L + 1 /\ p[1] = 1
  BY <1>9, <1>10
<1>20. EndsAt(d, L + 1, Len(d) + 1) /\ L + 1 <= Len(d) + 1
  <2>1. CASE done
    <3>0. Len(y) = 5 /\ Len(d) = L + Len(y)
      BY <1>12, <1>15, <2>1
    <3>1. Len(d) + 1 = (L + 1) + 5 /\ 1 \in 1..Len(y) /\ 2 \in 1..Len(y) /\ (L + 1) + 1 = L + 2
      BY <3>0
    <3>2. d[L + 1] = y[1] /\ d[L + 2] = y[2]
      BY <1>15, <3>1
    <3>3. QED
      BY <1>10, <1>12, <2>1, <3>1, <3>2 DEF EndsAt
  <2>2. CASE ~ done
    BY <1>10, <1>12, <1>15, <2>2 DEF EndsAt
  <2>3. QED
    BY <2>1, <2>2
<1>21. d \in Seq(S)
  BY <1>8, <1>12, <1>13, Concatenated
<1>22. ASSUME NEW q \in 1..Len(d), q >= L + 1 PROVE d[q].of = 0
  <2>0. PICK l \in Nat : l = Len(y) /\ Len(d) = L + l
    BY <1>12, <1>15
  <2>1. done /\ l = 5
    <3>1. q \in 1..(L + l)
      BY <2>0
    <3>2. l # 0
      BY <1>22, <3>1
    <3>3. QED
      BY <1>12, <2>0, <3>2
  <2>2. PICK j \in 1..l : q = L + j
    <3>1. q \in 1..(L + l)
      BY <2>0
    <3>2. q - L \in 1..l /\ q = L + (q - L)
      BY <1>22, <3>1
    <3>3. QED
      BY <3>2
  <2>3. d[q] = y[j]
    BY <1>15, <2>0, <2>2
  <2>4. PICK T : T = WordsOf(0)
    OBVIOUS
  <2>5. y[j] \in T
    <3>1. PICK v \in Seq(T) : v = y
      BY <1>11, <2>1, <2>4, DoneFacts
    <3>2. j \in 1..Len(v)
      BY <2>0, <3>1
    <3>3. v[j] \in T
      BY <3>2
    <3>4. QED
      BY <3>1, <3>3
  <2>6. QED
    BY <2>3, <2>4, <2>5 DEF WordsOf
<1>23. ASSUME NEW k \in 1..n, NEW j \in 1..Len(table[sent + k].attrs)
       PROVE  /\ IsAttr(d[p[k] + AttrPlace(j) - 1], table[sent + k].attrs[j])
              /\ d[p[k] + AttrPlace(j) - 1].of = sent + k
  <2>1. PICK i \in 1..Len(table) : i = sent + k
    BY <1>1
  <2>2. PICK m \in 6..16 : m = MsgSize(i) /\ m = Len(ss[k])
    BY <1>2, <1>4, <2>1
  <2>3. PICK x \in 1..m : x = AttrPlace(j) /\ IsAttr(ss[k][x], table[i].attrs[j])
    <3>1. \A h \in 1..Len(table[i].attrs) :
              /\ AttrPlace(h) \in 1..MsgSize(i)
              /\ IsAttr(Message(i)[AttrPlace(h)], table[i].attrs[h])
      BY MessageFacts
    <3>2. ss[k] = Message(i)
      BY <1>4, <2>1
    <3>3. QED
      BY <2>1, <2>2, <3>1, <3>2
  <2>4. ss[k][x].of = i
    <3>1. PICK T : T = WordsOf(i)
      OBVIOUS
    <3>2. PICK mm \in Seq(T) : mm = ss[k]
      BY <1>4, <2>1, <3>1, MessageFacts
    <3>3. mm[x] \in T
      BY <2>2, <3>2
    <3>4. QED
      BY <3>1, <3>2, <3>3 DEF WordsOf
  <2>5. PICK a \in Nat : a = p[k] /\ a >= 1 /\ a + m <= L + 1
    <3>1. k \in 1..(n + 1)
      BY <1>1
    <3>2. QED
      BY <1>9, <1>10, <2>2, <3>1
  <2>6. a + x - 1 \in 1..L
    <3>1. x \in Nat /\ x >= 1 /\ x <= m
      OBVIOUS
    <3>2. a \in Nat /\ a >= 1 /\ a + m <= L + 1
      BY <2>5
    <3>3. QED
      BY <3>1, <3>2
  <2>7. d[a + x - 1] = ss[k][x]
    <3>1. x \in 1..Len(ss[k])
      BY <2>2
    <3>2. z[a + x - 1] = ss[k][x]
      BY <1>9, <2>5, <3>1
    <3>3. QED
      BY <1>15, <2>6, <3>2
  <2>8. QED
    BY <2>1, <2>3, <2>4, <2>5, <2>7
<1>24. Filled(d, p, sent, n)
  BY <1>23 DEF Filled
<1>25. QED
  BY <1>1a, <1>14, <1>16, <1>18, <1>19, <1>20, <1>21, <1>22, <1>24

-----------------------------------------------------------------------------
(* The walk over the messages of a datagram.                               *)

\* The lines s show the first i entries, as far as they are to be shown.
Upto(s, i) ==
  /\ {s[k].id : k \in 1..Len(s)} = {j \in 1..i : table[j].main}
  /\ \A j, k \in 1..Len(s) : j < k => s[j].id < s[k].id

LEMMA UptoSame ==
  ASSUME NEW i \in Nat, NEW s, Upto(s, i), table[i + 1].main = FALSE
  PROVE  Upto(s, i + 1)
<1>1. \A j : j \in 1..(i + 1) <=> j \in 1..i \/ j = i + 1
  OBVIOUS
<1>2. {j \in 1..(i + 1) : table[j].main} = {j \in 1..i : table[j].main}
  BY <1>1
<1>3. QED
  BY <1>2 DEF Upto

LEMMA UptoMore ==
  ASSUME NEW i \in Nat, NEW S, NEW s \in Seq(S), Upto(s, i),
         table[i + 1].main = TRUE, NEW e, e.id = i + 1
  PROVE  Upto(s \o <<e>>, i + 1) /\ \E T : s \o <<e>> \in Seq(T)
<1>1. PICK T : T = S \cup {e}
  OBVIOUS
<1>2. s \in Seq(T) /\ e \in T
  BY <1>1
<1>3. PICK u : u = <<e>>
  OBVIOUS
<1>4. u \in Seq(T) /\ Len(u) = 1 /\ u[1] = e
  BY <1>2, <1>3, ShortSequences
<1>5. PICK t : t = s \o u
  OBVIOUS
<1>6. PICK L \in Nat : L = Len(s)
  BY <1>2
<1>7. /\ t \in Seq(T) /\ Len(t) = L + Len(u) /\ \A k \in 1..L : t[k] = s[k]
      /\ \A j \in 1..Len(u) : t[L + j] = u[j]
  <2>1. s \in Seq(T) /\ u \in Seq(T)
    BY <1>2, <1>4
  <2>2. QED
    BY <1>5, <1>6, <2>1, Concatenated
<1>8. Len(t) = L + 1 /\ t[L + 1] = e
  BY <1>4, <1>6, <1>7
<1>9. \A k : k \in 1..(L + 1) <=> k \in 1..L \/ k = L + 1
  OBVIOUS
<1>10. {t[k].id : k \in 1..(L + 1)} = {s[k].id : k \in 1..L} \cup {i + 1}
  BY <1>7, <1>8, <1>9
<1>11. {j \in 1..(i + 1) : table[j].main} = {j \in 1..i : table[j].main} \cup {i + 1}
  <2>1. \A j : j \in 1..(i + 1) <=> j \in 1..i \/ j = i + 1
    OBVIOUS
  <2>2. QED
    BY <2>1
<1>12. {s[k].id : k \in 1..L} = {j \in 1..i : table[j].main}
  BY <1>6 DEF Upto
<1>13. \A k \in 1..L : s[k].id \in 1..i
  BY <1>12
<1>14. ASSUME NEW j \in 1..(L + 1), NEW k \in 1..(L + 1), j < k PROVE t[j].id < t[k].id
  <2>1. j \in 1..L /\ t[j] = s[j]
    BY <1>7, <1>14
  <2>2. CASE k = L + 1
    <3>1. s[j].id < i + 1
      BY <1>13, <2>1
    <3>2. QED
      BY <1>8, <2>1, <2>2, <3>1
  <2>3. CASE k \in 1..L
    <3>1. t[k] = s[k] /\ s[j].id < s[k].id
      BY <1>6, <1>7, <1>14, <2>1, <2>3 DEF Upto
    <3>2. QED
      BY <2>1, <3>1
  <2>4. QED
    BY <1>9, <2>2, <2>3
<1>15. Upto(t, i + 1)
  BY <1>8, <1>10, <1>11, <1>12, <1>14 DEF Upto
<1>16. QED
  BY <1>3, <1>5, <1>7, <1>15

\* The header nlh is at the m-th of the messages after entry base, or behind them.
Chain(base, p, m) ==
  /\ Laid(buf, p, base, sent - base) /\ m \in 1..((sent - base) + 1) /\ at = p[m]
  /\ EndsAt(buf, p[(sent - base) + 1], at + left)
  /\ Upto(shown, (base + m) - 1)

\* An entry has an attribute, an address two and the first of them is no name.
AttrsOK ==
  \A i \in 1..Len(table) :
    /\ Len(table[i].attrs) >= 1
    /\ program = "get_addr" => Len(table[i].attrs) >= 2 /\ table[i].attrs[1] # IFLA_IFNAME

\* Of the datagram with the messages at p: their attributes, and behind them nothing of
\* theirs; its last entry is known as such.
Behind(base, p) ==
  /\ Filled(buf, p, base, sent - base)
  /\ p[(sent - base) + 1] <= BufWords + 1
  /\ \A q \in 1..BufWords : q >= p[(sent - base) + 1] => buf[q].of <= base
  /\ base < sent => sent \in ends

DumpOK ==
  /\ TableOK /\ sent \in 0..Len(table) /\ at \in Nat /\ left \in Nat
  /\ AttrsOK /\ buf \in [1..BufWords -> WordsUpto(sent)]
  /\ \E S : shown \in Seq(S)
  /\ pc \in {"recv", "messages"}
  /\ pc = "recv" => Upto(shown, sent)
  /\ pc = "messages" => \/ left = 0 /\ Upto(shown, sent)
                        \/ \E base \in 0..sent : \E p, m : Chain(base, p, m) /\ Behind(base, p)

\* The lines a message gives: one of its entry, or none.
LinesOf(lines) ==
  \A i \in 1..Len(table) : buf[at].of = i =>
    /\ table[i].main = TRUE => \E e : lines = <<e>> /\ e.id = i
    /\ table[i].main = FALSE => lines = <<>>

LEMMA EveryEntryItsLine ==
  ASSUME TableOK
  PROVE  /\ GetAddr => LinesOf(parse_addr_entry(at))
         /\ GetLink => LinesOf(parse_link_entry(at))
         /\ GetRoute => LinesOf(parse_route_entry(at))
<1>1. ASSUME NEW i, NEW tb, NEW types
      PROVE  \E e : Line(i, tb, types) = <<e>> /\ e.id = i
  <2>1. PICK e : e = [id |-> i, tb |-> [t \in types |-> tb[t]]]
    OBVIOUS
  <2>2. e.id = i /\ Line(i, tb, types) = <<e>>
    BY <2>1 DEF Line
  <2>3. QED
    BY <2>2
<1>2. ASSUME GetAddr PROVE LinesOf(parse_addr_entry(at))
  <2>1. \A i \in 1..Len(table) : table[i].main = TRUE
    BY <1>2 DEF GetAddr, TableOK
  <2>2. \E e : parse_addr_entry(at) = <<e>> /\ e.id = buf[at].of
    BY <1>1 DEF parse_addr_entry
  <2>3. QED
    BY <2>1, <2>2 DEF LinesOf
<1>3. ASSUME GetLink PROVE LinesOf(parse_link_entry(at))
  <2>1. \A i \in 1..Len(table) : table[i].main = TRUE
    BY <1>3 DEF GetLink, TableOK
  <2>2. \E e : parse_link_entry(at) = <<e>> /\ e.id = buf[at].of
    BY <1>1 DEF parse_link_entry
  <2>3. QED
    BY <2>1, <2>2 DEF LinesOf
<1>4. LinesOf(parse_route_entry(at))
  <2>1. CASE table[buf[at].of].main = TRUE
    <3>1. \E e : parse_route_entry(at) = <<e>> /\ e.id = buf[at].of
      BY <1>1, <2>1 DEF parse_route_entry
    <3>2. QED
      BY <2>1, <3>1 DEF LinesOf
  <2>2. CASE table[buf[at].of].main = FALSE
    BY <2>2 DEF LinesOf, parse_route_entry
  <2>3. CASE table[buf[at].of].main \notin BOOLEAN
    BY <2>3 DEF LinesOf, TableOK
  <2>4. QED
    BY <2>1, <2>2, <2>3
<1>5. QED
  BY <1>2, <1>3, <1>4

\* One message of a datagram, or the end of the dump in it.
LEMMA WalkOn ==
  ASSUME program \in Dumper, DumpOK, NEW lines, LinesOf(lines), MessageLoop(lines),
         left > 0, NEW base \in 0..sent, NEW p, NEW m, Chain(base, p, m)
  PROVE  /\ \E S : shown' \in Seq(S)
         /\ at' \in Nat /\ left' \in Nat
         /\ \/ left' = 0 /\ Upto(shown', sent)
            \/ /\ m + 1 \in 1..((sent - base) + 1) /\ at' = p[m + 1]
               /\ EndsAt(buf, p[(sent - base) + 1], at' + left')
               /\ Upto(shown', (base + (m + 1)) - 1)
<1>1. PICK N \in Nat : N = Len(table)
  BY EntryAssumption DEF DumpOK, TableOK
<1>2. sent \in Nat /\ sent <= N /\ base \in Nat /\ base <= sent /\ at \in Nat /\ left \in Nat
  BY <1>1 DEF DumpOK
<1>3. PICK n \in Nat : n = sent - base /\ base + n = sent
  BY <1>2
<1>4. m \in 1..(n + 1) /\ at = p[m] /\ Laid(buf, p, base, n) /\ EndsAt(buf, p[n + 1], at + left)
  BY <1>3 DEF Chain
<1>5. /\ shown' = IF buf[at + 1].len = RTM_NEW[program] THEN shown \o lines ELSE shown
      /\ at' = at + buf[at].len /\ left' = left - buf[at].len
  BY DEF MessageLoop
<1>6. Upto(shown, (base + m) - 1)
  BY DEF Chain
<1>7. PICK e \in Nat : e = p[n + 1]
  <2>1. n + 1 \in 1..(n + 1)
    OBVIOUS
  <2>2. QED
    BY <1>4, <2>1 DEF Laid
<1>8. PICK S : shown \in Seq(S)
  BY DEF DumpOK
<1>9. CASE m \in 1..n
  <2>1. PICK i \in 1..N : i = base + m /\ i - 1 \in Nat /\ (i - 1) + 1 = i /\ (base + (m + 1)) - 1 = i
    BY <1>2, <1>3, <1>9
  <2>2. PICK k \in 6..16 : k = MsgSize(i)
    BY <1>1, MessageFacts DEF DumpOK
  <2>3. /\ p[m + 1] = at + k /\ at + k <= e
        /\ buf[at].len = k /\ buf[at].of = i /\ buf[at + 1].len = RTM_NEW[program]
    BY <1>4, <1>7, <1>9, <2>1, <2>2 DEF Laid
  <2>4. at' = p[m + 1] /\ at' = at + k /\ left' = left - k /\ shown' = shown \o lines
    BY <1>5, <2>3
  <2>5. at + left = e \/ at + left = e + 5
    BY <1>4, <1>7 DEF EndsAt
  <2>6. at' \in Nat /\ left' \in Nat /\ at' + left' = at + left
    <3>1. at + k \in Nat /\ left - k \in Nat /\ (at + k) + (left - k) = at + left
      BY <1>2, <2>3, <2>5
    <3>2. QED
      BY <2>4, <3>1
  <2>7. m + 1 \in 1..(n + 1)
    BY <1>9
  <2>8. Upto(shown, i - 1)
    BY <1>6, <2>1
  <2>9. table[i].main \in BOOLEAN
    BY <1>1 DEF DumpOK, TableOK
  <2>10. Upto(shown', i) /\ \E T : shown' \in Seq(T)
    <3>1. CASE table[i].main = TRUE
      <4>1. PICK x : lines = <<x>> /\ x.id = i
        BY <1>1, <2>3, <3>1 DEF LinesOf
      <4>2. PICK h \in Nat : h = i - 1 /\ h + 1 = i
        BY <2>1
      <4>3. Upto(shown \o <<x>>, h + 1) /\ \E T : shown \o <<x>> \in Seq(T)
        <5>1. Upto(shown, h) /\ table[h + 1].main = TRUE /\ x.id = h + 1
          BY <2>8, <3>1, <4>1, <4>2
        <5>2. QED
          BY <1>8, <5>1, UptoMore
      <4>4. QED
        BY <2>4, <4>1, <4>2, <4>3
    <3>2. CASE table[i].main = FALSE
      <4>1. lines = <<>>
        BY <1>1, <2>3, <3>2 DEF LinesOf
      <4>2. shown \o <<>> = shown
        BY <1>8
      <4>3. shown' = shown
        BY <2>4, <4>1, <4>2
      <4>4. PICK h \in Nat : h = i - 1 /\ h + 1 = i
        BY <2>1
      <4>5. Upto(shown, h + 1)
        <5>1. Upto(shown, h) /\ table[h + 1].main = FALSE
          BY <2>8, <3>2, <4>4
        <5>2. QED
          BY <5>1, UptoSame
      <4>6. QED
        BY <1>8, <4>3, <4>4, <4>5
    <3>3. QED
      BY <2>9, <3>1, <3>2
  <2>11. EndsAt(buf, p[n + 1], at' + left')
    BY <1>4, <2>6
  <2>12. QED
    BY <1>3, <2>1, <2>4, <2>6, <2>7, <2>10, <2>11
<1>10. CASE m = n + 1
  <2>1. at = e /\ (at + left = e \/ (at + left = e + 5 /\ buf[e].len = 5 /\ buf[e + 1].len = 0))
    BY <1>4, <1>7, <1>10 DEF EndsAt
  <2>2. left = 5 /\ buf[at].len = 5 /\ buf[at + 1].len = 0
    BY <1>2, <2>1
  <2>3. RTM_NEW[program] # 0
    <3>1. RTM_NEW[program] \in 4..6
      BY Headers
    <3>2. QED
      BY <3>1
  <2>4. left' = 0 /\ at' = at + 5 /\ shown' = shown
    BY <1>5, <2>2, <2>3
  <2>5. (base + m) - 1 = sent
    BY <1>2, <1>3, <1>10
  <2>6. QED
    BY <1>2, <1>6, <1>8, <2>4, <2>5
<1>11. QED
  BY <1>4, <1>9, <1>10

LEMMA MessageLoopKeeps ==
  ASSUME program \in Dumper, DumpOK, NEW lines, LinesOf(lines), MessageLoop(lines)
  PROVE  DumpOK'
<1>1. /\ program' = program /\ table' = table /\ sent' = sent /\ buf' = buf /\ ends' = ends
      /\ pc = "messages"
  BY DEF MessageLoop
<1>2. TableOK' /\ AttrsOK' /\ sent' \in 0..Len(table') /\ (buf \in [1..BufWords -> WordsUpto(sent)])'
  <2>1. TableOK' /\ AttrsOK' /\ sent' \in 0..Len(table')
    BY <1>1 DEF DumpOK, TableOK, AttrsOK
  <2>2. buf \in [1..BufWords -> WordsUpto(sent)]
    BY DEF DumpOK
  <2>3. BufWords' = BufWords /\ WordsUpto(sent)' = WordsUpto(sent)
    BY <1>1 DEF BufWords, WordsUpto, WordType
  <2>4. QED
    BY <1>1, <2>1, <2>2, <2>3
<1>3. left \in Nat /\ at \in Nat /\ sent \in Nat
  BY EntryAssumption DEF DumpOK, TableOK
<1>4. CASE left = 0
  <2>1. pc' = "recv" /\ shown' = shown /\ at' = at /\ left' = left
    BY <1>4 DEF MessageLoop
  <2>2. Upto(shown, sent)
    <3>1. ASSUME NEW base \in 0..sent, NEW p, NEW m, Chain(base, p, m) PROVE Upto(shown, sent)
      <4>1. PICK n \in Nat : n = sent - base /\ base \in Nat /\ base + n = sent
        BY <1>3
      <4>2. m \in 1..(n + 1) /\ at = p[m] /\ Laid(buf, p, base, n) /\ EndsAt(buf, p[n + 1], at + left)
        BY <3>1, <4>1 DEF Chain
      <4>3. PICK e \in Nat : e = p[n + 1]
        <5>1. n + 1 \in 1..(n + 1)
          OBVIOUS
        <5>2. QED
          BY <4>2, <5>1 DEF Laid
      <4>4. ASSUME m \in 1..n PROVE FALSE
        <5>1. base + m \in 1..Len(table)
          BY <4>1, <4>4, EntryAssumption DEF DumpOK, TableOK
        <5>2. PICK k \in 6..16 : k = MsgSize(base + m)
          BY <5>1, MessageFacts DEF DumpOK
        <5>3. at + k <= e
          BY <4>2, <4>3, <4>4, <5>2 DEF Laid
        <5>4. at + left = e \/ at + left = e + 5
          BY <4>2, <4>3 DEF EndsAt
        <5>5. QED
          BY <1>3, <1>4, <5>3, <5>4
      <4>5. m = n + 1
        BY <4>2, <4>4
      <4>6. (base + m) - 1 = sent
        BY <4>1, <4>5
      <4>7. QED
        BY <3>1, <4>6 DEF Chain
    <3>2. QED
      BY <1>1, <3>1 DEF DumpOK
  <2>3. Upto(shown, sent)'
    BY <1>1, <2>1, <2>2 DEF Upto
  <2>4. QED
    BY <1>2, <1>3, <2>1, <2>3 DEF DumpOK
<1>5. CASE left > 0
  <2>1. pc' = "messages"
    BY <1>1, <1>5 DEF MessageLoop
  <2>2. PICK base \in 0..sent : \E p, m : Chain(base, p, m) /\ Behind(base, p)
    BY <1>1, <1>5 DEF DumpOK
  <2>3. PICK p, m : Chain(base, p, m) /\ Behind(base, p)
    BY <2>2
  <2>4. /\ \E S : shown' \in Seq(S)
        /\ at' \in Nat /\ left' \in Nat
        /\ \/ left' = 0 /\ Upto(shown', sent)
           \/ /\ m + 1 \in 1..((sent - base) + 1) /\ at' = p[m + 1]
              /\ EndsAt(buf, p[(sent - base) + 1], at' + left')
              /\ Upto(shown', (base + (m + 1)) - 1)
    BY <1>5, <2>3, WalkOn
  <2>5. CASE left' = 0 /\ Upto(shown', sent)
    <3>1. Upto(shown, sent)'
      BY <1>1, <2>5 DEF Upto
    <3>2. QED
      BY <1>2, <2>1, <2>4, <2>5, <3>1 DEF DumpOK
  <2>6. CASE /\ m + 1 \in 1..((sent - base) + 1) /\ at' = p[m + 1]
             /\ EndsAt(buf, p[(sent - base) + 1], at' + left')
             /\ Upto(shown', (base + (m + 1)) - 1)
    <3>1. Laid(buf, p, base, sent - base)
      BY <2>3 DEF Chain
    <3>2. Laid(buf, p, base, sent - base)'
      BY <1>1, <3>1 DEF Laid, MsgSize
    <3>3. Upto(shown, (base + (m + 1)) - 1)'
      BY <1>1, <2>6 DEF Upto
    <3>4. Chain(base, p, m + 1)'
      BY <1>1, <2>6, <3>2, <3>3 DEF Chain, EndsAt
    <3>5. base \in 0..sent'
      BY <1>1
    <3>6. Behind(base, p)'
      BY <1>1, <2>3 DEF Behind, Filled, AttrPlace, BufWords
    <3>7. QED
      BY <1>2, <2>1, <2>4, <3>4, <3>5, <3>6 DEF DumpOK
  <2>7. QED
    BY <2>4, <2>5, <2>6
<1>6. QED
  BY <1>3, <1>4, <1>5

LEMMA ReceiveKeeps ==
  ASSUME program \in Dumper, DumpOK, Receive
  PROVE  DumpOK'
<1>1. /\ program' = program /\ table' = table /\ shown' = shown
      /\ pc = "recv" /\ pc' = "messages" /\ at' = 1
  BY DEF Receive
<1>2. TableOK' /\ AttrsOK' /\ Upto(shown, sent) /\ TableOK
  BY <1>1 DEF DumpOK, TableOK, AttrsOK
<1>3. PICK N \in Nat : N = Len(table)
  BY EntryAssumption DEF DumpOK, TableOK
<1>4. sent \in Nat /\ sent <= N /\ sent \in 0..N
  BY <1>3 DEF DumpOK
<1>5. PICK n \in 0..(N - sent), done \in BOOLEAN :
        /\ Overwrite(Datagram(n, done)) /\ sent' = sent + n
        /\ ends' = IF n > 0 THEN ends \cup {sent + n} ELSE ends
  BY <1>3 DEF Receive
<1>6. PICK d : d = Datagram(n, done)
  OBVIOUS
<1>7. /\ Len(d) \in Nat /\ Len(d) <= BufWords
      /\ d \in Seq(WordsUpto(sent + n))
      /\ \E p : /\ Laid(d, p, sent, n) /\ p[1] = 1
                /\ p[n + 1] <= Len(d) + 1 /\ EndsAt(d, p[n + 1], Len(d) + 1)
                /\ Filled(d, p, sent, n) /\ \A q \in 1..Len(d) : q >= p[n + 1] => d[q].of = 0
  BY <1>2, <1>3, <1>4, <1>6, DatagramFacts
<1>8. PICK p : /\ Laid(d, p, sent, n) /\ p[1] = 1
               /\ p[n + 1] <= Len(d) + 1 /\ EndsAt(d, p[n + 1], Len(d) + 1)
               /\ Filled(d, p, sent, n) /\ \A q \in 1..Len(d) : q >= p[n + 1] => d[q].of = 0
  BY <1>7
<1>9. PICK L \in Nat : L = Len(d) /\ L <= BufWords
  BY <1>7
<1>10. /\ left' = L /\ \A x \in 1..L : buf'[x] = d[x]
       /\ buf' \in [1..BufWords -> WordsUpto(sent + n)]
       /\ \A x \in 1..BufWords : x > L => buf'[x] = buf[x]
  <2>1. left' = L /\ buf' = [k \in 1..BufWords |-> IF k <= L THEN d[k] ELSE buf[k]]
    BY <1>5, <1>6, <1>9 DEF Overwrite
  <2>2. BufWords \in Nat
    BY EntryAssumption DEF BufWords
  <2>3. \A x \in 1..L : x \in 1..BufWords /\ x <= L
    BY <1>9, <2>2
  <2>4. \A x \in 1..BufWords : (x <= L => x \in 1..L) /\ (x > L => ~ (x <= L))
    BY <1>9, <2>2
  <2>5. PICK S : S = WordsUpto(sent + n)
    OBVIOUS
  <2>6. \A x \in 1..L : d[x] \in S
    BY <1>7, <1>9, <2>5
  <2>7. \A x \in 1..BufWords : buf[x] \in S
    <3>1. buf \in [1..BufWords -> WordsUpto(sent)]
      BY DEF DumpOK
    <3>2. WordsUpto(sent) \subseteq S
      BY <1>4, <1>5, <2>5 DEF WordsUpto, WordType
    <3>3. QED
      BY <3>1, <3>2
  <2>8. buf' \in [1..BufWords -> S]
    BY <2>1, <2>4, <2>6, <2>7
  <2>9. QED
    BY <2>1, <2>3, <2>4, <2>5, <2>8
<1>11. n \in Nat /\ sent' \in Nat /\ sent' \in 0..N /\ sent \in 0..sent' /\ sent' - sent = n
  BY <1>4, <1>5
<1>12. PICK e \in Nat : e = p[n + 1] /\ e <= L + 1
  <2>1. n + 1 \in 1..(n + 1)
    BY <1>11
  <2>2. QED
    BY <1>8, <1>9, <2>1 DEF Laid
<1>13. ASSUME NEW k \in 1..n
       PROVE  /\ p[k + 1] = p[k] + MsgSize(sent + k)
              /\ p[k] >= 1 /\ p[k] + MsgSize(sent + k) <= p[n + 1]
              /\ buf'[p[k]].len = MsgSize(sent + k) /\ buf'[p[k]].of = sent + k
              /\ buf'[p[k] + 1].len = RTM_NEW[program]
  <2>1. /\ p[k + 1] = p[k] + MsgSize(sent + k)
        /\ p[k] >= 1 /\ p[k] + MsgSize(sent + k) <= p[n + 1]
        /\ d[p[k]].len = MsgSize(sent + k) /\ d[p[k]].of = sent + k
        /\ d[p[k] + 1].len = RTM_NEW[program]
    BY <1>8 DEF Laid
  <2>2. sent + k \in 1..Len(table)
    BY <1>3, <1>4, <1>5
  <2>3. PICK z \in 6..16 : z = MsgSize(sent + k)
    BY <1>2, <2>2, MessageFacts
  <2>4. PICK a \in Nat : a = p[k]
    <3>1. k \in 1..(n + 1)
      BY <1>11
    <3>2. QED
      BY <1>8, <3>1 DEF Laid
  <2>5. a >= 1 /\ a + z <= e
    BY <1>12, <2>1, <2>3, <2>4
  <2>6. a \in 1..L /\ a + 1 \in 1..L
    BY <1>12, <2>5
  <2>7. buf'[a] = d[a] /\ buf'[a + 1] = d[a + 1]
    BY <1>10, <2>6
  <2>8. QED
    BY <2>1, <2>4, <2>7
<1>14. Laid(buf', p, sent, n)
  BY <1>8, <1>13, Zenon DEF Laid
<1>15. PICK b \in Nat : b = sent /\ b \in 0..sent' /\ sent' - b = n
  BY <1>4, <1>11
<1>16. Laid(buf', p, b, n)
  BY <1>14, <1>15
<1>17. \A k : MsgSize(k)' = MsgSize(k)
  BY <1>1 DEF MsgSize
<1>18. Laid(buf, p, b, n)'
  BY <1>1, <1>16, <1>17 DEF Laid
<1>19. EndsAt(buf, p[n + 1], at + left)'
  <2>1. at' + left' = L + 1
    BY <1>1, <1>10
  <2>2. e = L + 1 \/ (L + 1 = e + 5 /\ d[e].len = 5 /\ d[e + 1].len = 0)
    BY <1>8, <1>9, <1>12 DEF EndsAt
  <2>3. CASE e = L + 1
    BY <1>12, <2>1, <2>3 DEF EndsAt
  <2>4. CASE L + 1 = e + 5 /\ d[e].len = 5 /\ d[e + 1].len = 0
    <3>1. e >= 1
      <4>1. CASE n = 0
        BY <1>8, <1>12, <4>1
      <4>2. CASE n > 0
        <5>1. 1 \in 1..n /\ sent + 1 \in 1..Len(table)
          BY <1>3, <1>4, <1>5, <1>11, <4>2
        <5>2. PICK z \in 6..16 : z = MsgSize(sent + 1)
          BY <1>2, <5>1, MessageFacts
        <5>3. 1 + z <= e
          BY <1>8, <1>12, <1>13, <5>1, <5>2
        <5>4. QED
          BY <5>3
      <4>3. QED
        BY <1>11, <4>1, <4>2
    <3>2. e \in 1..L /\ e + 1 \in 1..L
      BY <2>4, <3>1
    <3>3. buf'[e] = d[e] /\ buf'[e + 1] = d[e + 1]
      BY <1>10, <3>2
    <3>4. QED
      BY <1>12, <2>1, <2>4, <3>3 DEF EndsAt
  <2>5. QED
    BY <2>2, <2>3, <2>4
<1>20. Upto(shown, (b + 1) - 1)'
  <2>1. (b + 1) - 1 = sent
    BY <1>15
  <2>2. QED
    BY <1>1, <1>2, <2>1 DEF Upto
<1>21. Chain(b, p, 1)'
  <2>0. 1 \in 1..(n + 1)
    BY <1>11
  <2>1. 1 \in 1..((sent' - b) + 1) /\ at' = p[1]
    BY <1>1, <1>8, <1>15, <2>0
  <2>2. QED
    BY <1>15, <1>18, <1>19, <1>20, <2>1 DEF Chain
<1>21a. Filled(buf', p, b, n)
  <2>1. ASSUME NEW k \in 1..n, NEW j \in 1..Len(table[sent + k].attrs)
        PROVE  buf'[p[k] + AttrPlace(j) - 1] = d[p[k] + AttrPlace(j) - 1]
    <3>1. PICK i \in 1..Len(table) : i = sent + k
      BY <1>3, <1>4, <1>5
    <3>2. PICK z \in 6..16 : z = MsgSize(i)
      BY <1>2, MessageFacts
    <3>3. PICK x \in 1..z : x = AttrPlace(j)
      <4>1. \A h \in 1..Len(table[i].attrs) : AttrPlace(h) \in 1..MsgSize(i)
        BY <1>2, MessageFacts
      <4>2. QED
        BY <3>1, <3>2, <4>1
    <3>4. PICK a \in Nat : a = p[k]
      <4>1. k \in 1..(n + 1)
        BY <1>11
      <4>2. QED
        BY <1>8, <4>1 DEF Laid
    <3>5. a >= 1 /\ a + z <= e
      BY <1>12, <1>13, <3>1, <3>2, <3>4
    <3>6. a + x - 1 \in 1..L
      <4>1. x \in Nat /\ x >= 1 /\ x <= z
        OBVIOUS
      <4>2. e <= L + 1
        BY <1>12
      <4>3. QED
        BY <3>5, <4>1, <4>2
    <3>7. QED
      BY <1>10, <3>3, <3>4, <3>6
  <2>2. Filled(d, p, sent, n)
    BY <1>8
  <2>3. QED
    BY <1>15, <2>1, <2>2 DEF Filled
<1>21b. ASSUME NEW q \in 1..BufWords, q >= e PROVE buf'[q].of <= b
  <2>1. BufWords \in Nat
    BY EntryAssumption DEF BufWords
  <2>2. CASE q <= L
    <3>1. q \in 1..L
      BY <2>1, <2>2
    <3>2. buf'[q] = d[q] /\ d[q].of = 0
      BY <1>8, <1>9, <1>10, <1>12, <1>21b, <3>1
    <3>3. QED
      BY <1>15, <3>2
  <2>3. CASE q > L
    <3>1. buf'[q] = buf[q]
      BY <1>10, <2>3
    <3>2. buf[q] \in WordsUpto(sent)
      BY DEF DumpOK
    <3>3. QED
      BY <1>15, <3>1, <3>2 DEF WordsUpto
  <2>4. QED
    BY <2>1, <2>2, <2>3
<1>21c. Behind(b, p)'
  <2>1. b < sent' => sent' \in ends'
    <3>1. b < sent' => n > 0
      BY <1>4, <1>5, <1>15
    <3>2. QED
      BY <1>5, <3>1
  <2>2. Filled(buf, p, b, n)'
    BY <1>1, <1>21a DEF Filled, AttrPlace
  <2>3. BufWords' = BufWords
    BY DEF BufWords
  <2>4. QED
    <3>1. e <= BufWords + 1
      <4>1. BufWords \in Nat
        BY EntryAssumption DEF BufWords
      <4>2. QED
        BY <1>9, <1>12, <4>1
    <3>2. QED
      BY <1>12, <1>15, <1>21b, <2>1, <2>2, <2>3, <3>1 DEF Behind
<1>21d. (buf \in [1..BufWords -> WordsUpto(sent)])'
  <2>1. BufWords' = BufWords /\ WordsUpto(sent)' = WordsUpto(sent + n)
    BY <1>5 DEF BufWords, WordsUpto, WordType
  <2>2. QED
    BY <1>10, <2>1
<1>22. at' \in Nat /\ left' \in Nat /\ sent' \in 0..Len(table') /\ \E S : shown' \in Seq(S)
  BY <1>1, <1>3, <1>10, <1>11 DEF DumpOK
<1>23. \E base \in 0..sent' : \E q, m : Chain(base, q, m)' /\ Behind(base, q)'
  BY <1>15, <1>21, <1>21c
<1>24. QED
  BY <1>1, <1>2, <1>21d, <1>22, <1>23 DEF DumpOK

-----------------------------------------------------------------------------
(* The dump programs and the listener.                                     *)

Changes == {"RTM_NEWROUTE", "RTM_DELROUTE"}

\* The listener's queue, and its lines so far, hold all events while none was lost.
ListenOK ==
  /\ table \in Seq(Changes) /\ pending \in Seq(Changes) /\ shown \in Seq(Changes)
  /\ sent \in Nat /\ sent <= Len(table)
  /\ sent = Len(table) => shown \o pending = table

\* Nothing is connected but by the pair of client and server.
Idle == program # "server" => server = "off" /\ \A c \in Client : client[c].at = "connect"

EntriesInv ==
  /\ Idle
  /\ program \in Dumper => DumpOK
  /\ program = "netlink_user" => ListenOK

LEMMA Appended ==
  ASSUME NEW S, NEW s \in Seq(S), NEW t \in Seq(S), NEW e \in S
  PROVE  /\ Append(s, e) \in Seq(S) /\ Len(Append(s, e)) = Len(s) + 1 /\ Len(s) \in Nat
         /\ t \o Append(s, e) = Append(t \o s, e)
OBVIOUS

LEMMA ChangesKeep ==
  ASSUME ListenOK, RouteChange \/ Listen
  PROVE  ListenOK'
<1>0. PICK a, b, c : a = shown /\ b = pending /\ c = table
  OBVIOUS
<1>0a. a \in Seq(Changes) /\ b \in Seq(Changes) /\ c \in Seq(Changes)
  BY <1>0 DEF ListenOK
<1>1. CASE Listen
  <2>1. b # <<>> /\ shown' = Append(a, Head(b)) /\ pending' = Tail(b) /\ table' = c /\ sent' = sent
    BY <1>0, <1>1 DEF Listen
  <2>2. Append(a, Head(b)) \in Seq(Changes) /\ Tail(b) \in Seq(Changes) /\ Append(a, Head(b)) \o Tail(b) = a \o b
    BY <1>0a, <2>1
  <2>3. QED
    BY <1>0, <2>1, <2>2 DEF ListenOK
<1>2. CASE RouteChange
  <2>1. PICK e \in Changes :
          /\ table' = Append(c, e) /\ shown' = a
          /\ IF Len(b) < RcvBuf THEN pending' = Append(b, e) /\ sent' = sent + 1
             ELSE pending' = b /\ sent' = sent
    BY <1>0, <1>2 DEF RouteChange, bufVars, Changes
  <2>2. /\ Append(c, e) \in Seq(Changes) /\ Append(b, e) \in Seq(Changes)
        /\ Len(Append(c, e)) = Len(c) + 1 /\ Len(c) \in Nat
    BY <1>0a, Appended
  <2>3. sent \in Nat /\ sent <= Len(c) /\ (sent = Len(c) => a \o b = c)
    BY <1>0 DEF ListenOK
  <2>4. CASE pending' = Append(b, e) /\ sent' = sent + 1
    <3>1. a \o Append(b, e) = Append(a \o b, e)
      BY <1>0a, Appended
    <3>2. sent + 1 = Len(c) + 1 => sent = Len(c)
      BY <2>2, <2>3
    <3>3. sent' = Len(table') => shown' \o pending' = table'
      BY <2>1, <2>2, <2>3, <2>4, <3>1, <3>2
    <3>4. sent' \in Nat /\ sent' <= Len(table')
      BY <2>1, <2>2, <2>3, <2>4
    <3>5. table' \in Seq(Changes) /\ pending' \in Seq(Changes) /\ shown' \in Seq(Changes)
      BY <1>0a, <2>1, <2>2, <2>4
    <3>6. QED
      BY <3>3, <3>4, <3>5 DEF ListenOK
  <2>5. CASE pending' = b /\ sent' = sent
    <3>1. sent' \in Nat /\ sent' <= Len(table') /\ sent' # Len(table')
      BY <2>1, <2>2, <2>3, <2>5
    <3>2. table' \in Seq(Changes) /\ pending' \in Seq(Changes) /\ shown' \in Seq(Changes)
      BY <1>0a, <2>1, <2>2, <2>5
    <3>3. QED
      BY <3>1, <3>2 DEF ListenOK
  <2>6. QED
    BY <2>1, <2>4, <2>5
<1>3. QED
  BY <1>1, <1>2

LEMMA EntriesInit == Init => EntriesInv
<1>1. SUFFICES ASSUME Init PROVE EntriesInv
  OBVIOUS
<1>2. Idle
  BY <1>1 DEF Init, Idle
<1>3. program = "netlink_user" => ListenOK
  <2>1. program = "netlink_user" => table = <<>> /\ pending = <<>> /\ shown = <<>> /\ sent = 0
    BY <1>1 DEF Init, Dumper, LibnlUser
  <2>2. QED
    BY <2>1 DEF ListenOK
<1>4. ASSUME program \in Dumper PROVE DumpOK
  <2>1. /\ table \in SeqOf(Entries[program], MaxEntry)
        /\ sent = 0 /\ at = 1 /\ left = 0 /\ shown = <<>> /\ pc = "recv"
        /\ \E len \in {0, 2} : buf = [x \in 1..BufWords |-> Word(len, IFLA_IFNAME, 0)]
    BY <1>1, <1>4 DEF Init, Dumper, LibnlUser
  <2>2. PICK k \in 0..MaxEntry : table \in [1..k -> Entries[program]]
    BY <2>1 DEF SeqOf
  <2>3. k \in Nat /\ Len(table) = k
    BY <2>2, EntryAssumption
  <2>4. ASSUME NEW x \in Entries[program]
        PROVE  /\ x.main \in BOOLEAN /\ x.attrs \in Seq(Nat) /\ Len(x.attrs) <= 4
               /\ program # "get_route" => x.main = TRUE
               /\ Len(x.attrs) >= 1
               /\ program = "get_addr" => Len(x.attrs) >= 2 /\ x.attrs[1] # IFLA_IFNAME
    <3>1. CASE program = "get_addr"
      <4>1. PICK a \in {<<1, 2, 3>>, <<1, 2>>} : x = [main |-> TRUE, attrs |-> a]
        BY <2>4, <3>1 DEF Entries
      <4>2. /\ <<1, 2, 3>> \in Seq(Nat) /\ Len(<<1, 2, 3>>) <= 4 /\ Len(<<1, 2, 3>>) >= 1
            /\ Len(<<1, 2, 3>>) >= 2 /\ <<1, 2, 3>>[1] # IFLA_IFNAME
            /\ <<1, 2>> \in Seq(Nat) /\ Len(<<1, 2>>) <= 4 /\ Len(<<1, 2>>) >= 1
            /\ Len(<<1, 2>>) >= 2 /\ <<1, 2>>[1] # IFLA_IFNAME
        BY DEF IFLA_IFNAME
      <4>3. /\ a \in Seq(Nat) /\ Len(a) <= 4 /\ Len(a) >= 1
            /\ Len(a) >= 2 /\ a[1] # IFLA_IFNAME
        BY <4>2, Zenon
      <4>4. QED
        BY <4>1, <4>3
    <3>2. CASE program = "get_link"
      <4>1. PICK a \in {<<3>>, <<3, 4>>} : x = [main |-> TRUE, attrs |-> a]
        BY <2>4, <3>2 DEF Entries
      <4>2. /\ <<3>> \in Seq(Nat) /\ Len(<<3>>) <= 4 /\ Len(<<3>>) >= 1
            /\ <<3, 4>> \in Seq(Nat) /\ Len(<<3, 4>>) <= 4 /\ Len(<<3, 4>>) >= 1
        OBVIOUS
      <4>3. a \in Seq(Nat) /\ Len(a) <= 4 /\ Len(a) >= 1
        BY <4>2, Zenon
      <4>4. QED
        BY <3>2, <4>1, <4>3
    <3>3. CASE program = "get_route"
      <4>1. PICK m \in BOOLEAN, a \in {<<15, 4>>, <<15, 1, 7, 4>>, <<15, 5, 4>>} :
              x = [main |-> m, attrs |-> a]
        BY <2>4, <3>3 DEF Entries
      <4>2. /\ <<15, 4>> \in Seq(Nat) /\ Len(<<15, 4>>) <= 4 /\ Len(<<15, 4>>) >= 1
            /\ <<15, 1, 7, 4>> \in Seq(Nat) /\ Len(<<15, 1, 7, 4>>) <= 4 /\ Len(<<15, 1, 7, 4>>) >= 1
            /\ <<15, 5, 4>> \in Seq(Nat) /\ Len(<<15, 5, 4>>) <= 4 /\ Len(<<15, 5, 4>>) >= 1
        OBVIOUS
      <4>3. a \in Seq(Nat) /\ Len(a) <= 4 /\ Len(a) >= 1
        BY <4>2, Zenon
      <4>4. QED
        BY <3>3, <4>1, <4>3
    <3>4. QED
      BY <1>4, <3>1, <3>2, <3>3 DEF Dumper
  <2>5. TableOK /\ AttrsOK
    BY <2>2, <2>3, <2>4 DEF TableOK, AttrsOK
  <2>5a. buf \in [1..BufWords -> WordsUpto(sent)]
    <3>1. PICK len \in {0, 2} : buf = [x \in 1..BufWords |-> Word(len, IFLA_IFNAME, 0)]
      BY <2>1
    <3>2. PICK w : w = Word(len, IFLA_IFNAME, 0)
      OBVIOUS
    <3>3. w \in WordType /\ w.of = 0
      <4>1. len \in Nat /\ IFLA_IFNAME \in Nat
        BY DEF IFLA_IFNAME
      <4>2. QED
        BY <3>2, <4>1 DEF Word, WordType
    <3>4. w \in WordsUpto(sent)
      BY <2>1, <3>3 DEF WordsUpto
    <3>5. QED
      BY <3>1, <3>2, <3>4
  <2>6. Upto(<<>>, 0)
    BY DEF Upto
  <2>7. QED
    BY <2>1, <2>3, <2>5, <2>5a, <2>6 DEF DumpOK
<1>5. QED
  BY <1>2, <1>3, <1>4 DEF EntriesInv

LEMMA EntriesNext == EntriesInv /\ [Next]_vars => EntriesInv'
<1>1. SUFFICES ASSUME EntriesInv, [Next]_vars PROVE EntriesInv'
  OBVIOUS
<1>2. CASE UNCHANGED vars
  <2>1. UNCHANGED <<program, pc, table, sent, pending, buf, at, left, ends, shown, server, client>>
    BY <1>2 DEF vars
  <2>2. DumpOK => DumpOK'
    <3>1. TableOK' <=> TableOK
      BY <2>1 DEF TableOK
    <3>2. \A s, i : Upto(s, i)' <=> Upto(s, i)
      BY <2>1 DEF Upto
    <3>3. \A i : MsgSize(i)' = MsgSize(i)
      BY <2>1 DEF MsgSize
    <3>4. \A d, p, base, n : Laid(d, p, base, n)' <=> Laid(d, p, base, n)
      BY <2>1, <3>3 DEF Laid
    <3>5. \A base, p, m : Chain(base, p, m)' <=> Chain(base, p, m)
      BY <2>1, <3>2, <3>4 DEF Chain, EndsAt
    <3>6. BufWords' = BufWords /\ WordsUpto(sent)' = WordsUpto(sent) /\ AttrsOK' = AttrsOK
      BY <2>1 DEF BufWords, WordsUpto, WordType, AttrsOK
    <3>7. \A base, p : Behind(base, p)' <=> Behind(base, p)
      BY <2>1, <3>6 DEF Behind, Filled, AttrPlace
    <3>8. QED
      BY <2>1, <3>1, <3>2, <3>5, <3>6, <3>7 DEF DumpOK
  <2>3. QED
    BY <1>1, <2>1, <2>2 DEF EntriesInv, Idle, ListenOK
<1>3. CASE Receive
  <2>1. program \in Dumper /\ program' = program /\ server' = server /\ client' = client
    BY <1>3 DEF Receive, tcpVars
  <2>2. DumpOK'
    BY <1>1, <1>3, <2>1, ReceiveKeeps DEF EntriesInv
  <2>3. QED
    BY <1>1, <2>1, <2>2 DEF EntriesInv, Idle, Dumper
<1>4. CASE GetAddr \/ GetLink \/ GetRoute
  <2>1. PICK lines : program \in Dumper /\ MessageLoop(lines) /\ LinesOf(lines)
    <3>1. TableOK
      BY <1>1, <1>4 DEF EntriesInv, DumpOK, GetAddr, GetLink, GetRoute, Dumper
    <3>2. CASE GetAddr
      BY <3>1, <3>2, EveryEntryItsLine DEF GetAddr, Dumper
    <3>3. CASE GetLink
      BY <3>1, <3>3, EveryEntryItsLine DEF GetLink, Dumper
    <3>4. CASE GetRoute
      BY <3>1, <3>4, EveryEntryItsLine DEF GetRoute, Dumper
    <3>5. QED
      BY <1>4, <3>2, <3>3, <3>4
  <2>2. DumpOK'
    BY <1>1, <2>1, MessageLoopKeeps DEF EntriesInv
  <2>3. program' = program /\ server' = server /\ client' = client
    BY <2>1 DEF MessageLoop, tcpVars
  <2>4. QED
    BY <1>1, <2>1, <2>2, <2>3 DEF EntriesInv, Idle, Dumper
<1>5. CASE RouteChange \/ Listen
  <2>1. program = "netlink_user" /\ program' = program /\ server' = server /\ client' = client
    BY <1>5 DEF RouteChange, Listen, tcpVars
  <2>2. ListenOK'
    BY <1>1, <1>5, <2>1, ChangesKeep DEF EntriesInv
  <2>3. QED
    BY <1>1, <2>1, <2>2 DEF EntriesInv, Idle, Dumper
<1>6. CASE \/ ServerListen \/ ServerAccept \/ ServerRecv \/ ServerRecvFails
           \/ \E c \in Client : ClientMain(c)
  <2>1. program = "server"
    <3>1. CASE ServerListen
      BY <3>1 DEF ServerListen
    <3>2. CASE ServerAccept
      BY <1>1, <3>2 DEF ServerAccept, EntriesInv, Idle
    <3>3. CASE ServerRecv \/ ServerRecvFails
      BY <1>1, <3>3, TcpAssumption DEF ServerRecv, ServerRecvFails, EntriesInv, Idle
    <3>4. CASE \E c \in Client : ClientMain(c)
      BY <1>1, <3>4 DEF ClientMain, ClientConnect, ClientSend, EntriesInv, Idle
    <3>5. QED
      BY <1>6, <3>1, <3>2, <3>3, <3>4
  <2>2. program' = program
    BY <1>6 DEF ServerListen, ServerAccept, ServerRecv, ServerRecvFails, ClientMain,
                ClientConnect, ClientSend, netVars
  <2>3. QED
    BY <2>1, <2>2 DEF EntriesInv, Idle, Dumper
<1>7. CASE LibnlStep
  <2>1. program \in LibnlUser /\ program' = program /\ server' = server /\ client' = client
    BY <1>7 DEF LibnlStep, GetStaInfoMain, GenetlinkTestMain, get_interface_index, get_station_info,
                Request, WaitErr, LeaveWaitErr, WaitGot, LeaveWaitGot, nl_recvmsgs, tcpVars, LibnlUser
  <2>2. QED
    BY <1>1, <2>1 DEF EntriesInv, Idle, Dumper, LibnlUser
<1>8. QED
  BY <1>1, <1>2, <1>3, <1>4, <1>5, <1>6, <1>7 DEF Next

\* However the kernel spreads a dump of any length over datagrams, get_addr, get_link and
\* get_route print every entry (of the main table, for routes) once and in order; and the
\* listener netlink_user prints all route changes in order unless one found its socket full.
THEOREM EntriesInOrder == Spec => []EntriesOnce
<1>1. EntriesInv => EntriesOnce
  BY DEF EntriesInv, EntriesOnce, DumpOK, ListenOK, Upto
<1>2. QED
  BY <1>1, EntriesInit, EntriesNext, PTL DEF Spec

-----------------------------------------------------------------------------
(* The walk over the attributes of an entry.                               *)

\* Where rta goes from q, of a walk from a over n words.
Forward(a, n, q) == IF RTA_OK(q, a + n - q) THEN q + buf[q].len ELSE q

WalkStep(a, n, f, k) == IF k = 0 THEN a ELSE Forward(a, n, f[k - 1])

IsWalk(a, n, f) == f = [k \in 0..n |-> WalkStep(a, n, f, k)]

Walk(a, n) == CHOOSE f : IsWalk(a, n, f)

\* The recursive definition has a solution.
LEMMA WalkExists ==
  ASSUME NEW a, NEW n \in Nat
  PROVE  IsWalk(a, n, Walk(a, n))
<1> DEFINE Begins(f, m) == \A k \in 0..n : k <= m => f[k] = WalkStep(a, n, f, k)
<1>1. PICK G \in SUBSET Nat : G = {m \in Nat : \E f : Begins(f, m)}
  OBVIOUS
<1>2. 0 \in G
  <2>1. PICK f : f = [k \in 0..n |-> a]
    OBVIOUS
  <2>2. Begins(f, 0)
    BY <2>1 DEF WalkStep
  <2>3. QED
    BY <1>1, <2>2
<1>3. ASSUME NEW m \in G PROVE m + 1 \in G
  <2>1. PICK f : Begins(f, m)
    BY <1>1, <1>3
  <2>2. m \in Nat /\ m + 1 \in Nat
    BY <1>1
  <2>3. PICK v : v = WalkStep(a, n, f, m + 1)
    OBVIOUS
  <2>4. PICK g : g = [k \in 0..n |-> IF k = m + 1 THEN v ELSE f[k]]
    OBVIOUS
  <2>5. \A k \in 0..n : (k = m + 1 => g[k] = v) /\ (k <= m => g[k] = f[k])
    BY <2>2, <2>4
  <2>6. ASSUME NEW k \in 0..n, k <= m + 1
        PROVE  WalkStep(a, n, g, k) = WalkStep(a, n, f, k)
    <3>1. k # 0 => k - 1 \in 0..n /\ k - 1 <= m
      BY <2>2, <2>6
    <3>2. k # 0 => g[k - 1] = f[k - 1]
      BY <2>5, <3>1
    <3>3. QED
      BY <3>2 DEF WalkStep
  <2>7. ASSUME NEW k \in 0..n, k <= m + 1 PROVE g[k] = WalkStep(a, n, g, k)
    <3>1. CASE k = m + 1
      <4>1. g[k] = v
        BY <2>5, <3>1
      <4>2. v = WalkStep(a, n, f, k)
        BY <2>3, <3>1
      <4>3. QED
        BY <2>6, <2>7, <4>1, <4>2
    <3>2. CASE k <= m
      <4>1. g[k] = f[k] /\ f[k] = WalkStep(a, n, f, k)
        BY <2>1, <2>5, <3>2
      <4>2. QED
        BY <2>6, <2>7, <4>1
    <3>3. QED
      BY <2>2, <2>7, <3>1, <3>2
  <2>8. Begins(g, m + 1)
    BY <2>7
  <2>9. QED
    BY <1>1, <2>2, <2>8
<1>4. n \in G
  BY <1>2, <1>3, SetOfAllNaturals
<1>5. PICK f : Begins(f, n)
  BY <1>1, <1>4
<1>6. PICK g : g = [k \in 0..n |-> f[k]]
  OBVIOUS
<1>7. ASSUME NEW k \in 0..n PROVE g[k] = WalkStep(a, n, g, k)
  <2>1. k # 0 => k - 1 \in 0..n
    OBVIOUS
  <2>2. g[k] = f[k] /\ (k # 0 => g[k - 1] = f[k - 1])
    BY <1>6, <2>1
  <2>3. f[k] = WalkStep(a, n, f, k)
    BY <1>5
  <2>4. QED
    BY <2>2, <2>3 DEF WalkStep
<1>8. IsWalk(a, n, g)
  <2>1. g = [k \in 0..n |-> g[k]]
    BY <1>6
  <2>2. QED
    BY <1>7, <2>1, Zenon DEF IsWalk
<1>9. QED
  BY <1>8 DEF Walk

\* The attributes of type t on a walk w.
Met(a, n, w, t) ==
  {q \in {w[k] : k \in 0..n} : RTA_OK(q, a + n - q) /\ buf[q].type = t}

\* v is what a walk leaves for type t.
Left(a, n, t, v) ==
  \E w : /\ w[0] = a /\ \A k \in 1..n : w[k] = Forward(a, n, w[k - 1])
        /\ v = IF Met(a, n, w, t) = {} THEN NULL ELSE buf[Max(Met(a, n, w, t))].of

LEMMA ParseStep ==
  ASSUME NEW max, NEW a, NEW n \in Nat, NEW t \in 0..max
  PROVE  Left(a, n, t, parse_attributes(max, a, n)[t])
<1>1. PICK w : w = Walk(a, n)
  OBVIOUS
<1>2. w = [k \in 0..n |-> WalkStep(a, n, w, k)]
  BY <1>1, WalkExists DEF IsWalk
<1>3. \A k \in 0..n : w[k] = WalkStep(a, n, w, k)
  BY <1>2
<1>4. w[0] = a /\ \A k \in 1..n : w[k] = Forward(a, n, w[k - 1])
  BY <1>3 DEF WalkStep
<1>5. parse_attributes(max, a, n) =
        [x \in 0..max |-> IF Met(a, n, w, x) = {} THEN NULL ELSE buf[Max(Met(a, n, w, x))].of]
  BY <1>1, Zenon DEF parse_attributes, Walk, IsWalk, WalkStep, Forward, Met
<1>6. QED
  BY <1>4, <1>5 DEF Left

\* The walk from a over n words meets m attributes of two words that belong to entry i;
\* at e, where they end, it stops or comes to words that older entries left.
OwnWalk(a, n, m, i, e, old) ==
  /\ a \in Nat /\ n \in Nat /\ m \in Nat /\ i \in Nat /\ e \in Nat /\ old \in BOOLEAN
  /\ a >= 1 /\ 2 * m <= n /\ e = a + 2 * m /\ e <= BufWords + 1
  /\ \A j \in 1..m : buf[a + 2 * (j - 1)].len = 2 /\ buf[a + 2 * (j - 1)].of = i
  /\ ~ old => ~ RTA_OK(e, a + n - e)
  /\ old => \A q \in 1..BufWords : q >= e => buf[q].of < i

\* What it may leave for type t.
OwnResult(a, m, i, old, t, v) ==
  IF \E j \in 1..m : buf[a + 2 * (j - 1)].type = t
  THEN v = i \/ (old /\ v \in 0..(i - 1))
  ELSE v = NULL \/ (old /\ v \in 0..(i - 1))

LEMMA ParseOwn ==
  ASSUME buf \in [1..BufWords -> WordType],
         NEW a, NEW n, NEW m, NEW i, NEW e, NEW old, OwnWalk(a, n, m, i, e, old),
         NEW max, NEW t \in 0..max
  PROVE  OwnResult(a, m, i, old, t, parse_attributes(max, a, n)[t])
<1> USE DEF OwnWalk
<1>0. PICK B \in Nat : B = BufWords
  BY EntryAssumption DEF BufWords
<1>1. PICK w : /\ w[0] = a /\ \A k \in 1..n : w[k] = Forward(a, n, w[k - 1])
               /\ parse_attributes(max, a, n)[t] =
                    IF Met(a, n, w, t) = {} THEN NULL ELSE buf[Max(Met(a, n, w, t))].of
  <2>1. Left(a, n, t, parse_attributes(max, a, n)[t])
    BY ParseStep
  <2>2. QED
    BY <2>1 DEF Left
<1>2. ASSUME NEW k \in Nat, k < m
      PROVE  /\ a + 2 * k \in 1..B /\ buf[a + 2 * k].len = 2 /\ buf[a + 2 * k].of = i
             /\ RTA_OK(a + 2 * k, a + n - (a + 2 * k))
  <2>1. PICK j \in 1..m : j = k + 1 /\ j - 1 = k
    BY <1>2
  <2>2. PICK q \in Nat : q = a + 2 * k
    OBVIOUS
  <2>3. buf[q].len = 2 /\ buf[q].of = i
    BY <2>1, <2>2
  <2>4. q \in 1..B /\ q + 2 <= e /\ a + n - q >= 2
    BY <1>0, <1>2, <2>2
  <2>5. RTA_OK(q, a + n - q)
    <3>1. PICK r \in Nat : r = a + n - q /\ r >= 2
      BY <2>4
    <3>2. 2 \in 1..r /\ r >= 1
      BY <3>1
    <3>3. QED
      BY <1>0, <2>3, <2>4, <3>1, <3>2 DEF RTA_OK
  <2>6. QED
    BY <2>2, <2>3, <2>4, <2>5
<1>3. \A k \in Nat : k <= m => w[k] = a + 2 * k
  <2>1. PICK G \in SUBSET Nat : G = {k \in Nat : k <= m => w[k] = a + 2 * k}
    OBVIOUS
  <2>2. 0 \in G
    BY <1>1, <2>1
  <2>3. ASSUME NEW k \in G PROVE k + 1 \in G
    <3>1. k \in Nat
      BY <2>1
    <3>2. SUFFICES ASSUME k + 1 <= m PROVE w[k + 1] = a + 2 * (k + 1)
      BY <2>1, <3>1
    <3>3. k < m /\ k + 1 \in 1..n /\ (k + 1) - 1 = k /\ a + 2 * (k + 1) = (a + 2 * k) + 2
      BY <3>1, <3>2
    <3>4. w[k] = a + 2 * k
      BY <2>1, <2>3, <3>1, <3>3
    <3>5. w[k + 1] = Forward(a, n, w[k])
      BY <1>1, <3>3
    <3>6. Forward(a, n, a + 2 * k) = (a + 2 * k) + 2
      BY <1>2, <3>1, <3>3 DEF Forward
    <3>7. QED
      BY <3>3, <3>4, <3>5, <3>6
  <2>4. G = Nat
    BY <2>2, <2>3, SetOfAllNaturals
  <2>5. QED
    BY <2>1, <2>4
<1>4. \A k \in Nat : m <= k /\ k <= n => w[k] \in Nat /\ w[k] >= e /\ (~ old => w[k] = e)
  <2>1. PICK G \in SUBSET Nat :
          G = {k \in Nat : m <= k /\ k <= n => w[k] \in Nat /\ w[k] >= e /\ (~ old => w[k] = e)}
    OBVIOUS
  <2>2. w[m] = e
    BY <1>3
  <2>3. 0 \in G
    <3>1. m <= 0 => m = 0
      OBVIOUS
    <3>2. QED
      BY <2>1, <2>2, <3>1
  <2>4. ASSUME NEW k \in G PROVE k + 1 \in G
    <3>1. k \in Nat
      BY <2>1
    <3>2. SUFFICES ASSUME m <= k + 1, k + 1 <= n
                   PROVE  w[k + 1] \in Nat /\ w[k + 1] >= e /\ (~ old => w[k + 1] = e)
      BY <2>1, <3>1
    <3>3. CASE m = k + 1
      BY <2>2, <3>3
    <3>4. CASE m <= k
      <4>1. k <= n /\ k + 1 \in 1..n /\ (k + 1) - 1 = k
        BY <3>1, <3>2
      <4>2. w[k] \in Nat /\ w[k] >= e /\ (~ old => w[k] = e)
        BY <2>1, <2>4, <3>1, <3>4, <4>1
      <4>3. PICK q \in Nat : q = w[k] /\ q >= e
        BY <4>2
      <4>4. w[k + 1] = Forward(a, n, q)
        BY <1>1, <4>1, <4>3
      <4>5. CASE RTA_OK(q, a + n - q)
        <5>1. q \in 1..B
          BY <1>0, <4>5 DEF RTA_OK
        <5>2. buf[q].len \in Nat
          BY <1>0, <5>1 DEF WordType
        <5>3. w[k + 1] = q + buf[q].len
          BY <4>4, <4>5 DEF Forward
        <5>4. old
          BY <4>2, <4>3, <4>5
        <5>5. QED
          BY <4>3, <5>2, <5>3, <5>4
      <4>6. CASE ~ RTA_OK(q, a + n - q)
        BY <4>2, <4>3, <4>4, <4>6 DEF Forward
      <4>7. QED
        BY <4>5, <4>6
    <3>5. QED
      BY <3>1, <3>2, <3>3, <3>4
  <2>5. G = Nat
    BY <2>3, <2>4, SetOfAllNaturals
  <2>6. QED
    BY <2>1, <2>5
<1>5. PICK R : R = Met(a, n, w, t)
  OBVIOUS
<1>6. ASSUME NEW q \in R
      PROVE  /\ q \in 1..B /\ buf[q].type = t
             /\ \/ buf[q].of = i /\ \E j \in 1..m : q = a + 2 * (j - 1)
                \/ old /\ buf[q].of \in 0..(i - 1)
  <2>1. PICK k \in 0..n : q = w[k] /\ RTA_OK(q, a + n - q) /\ buf[q].type = t
    BY <1>5, <1>6 DEF Met
  <2>2. q \in 1..B
    BY <1>0, <2>1 DEF RTA_OK
  <2>3. CASE k < m
    <3>1. q = a + 2 * k
      BY <1>3, <2>1, <2>3
    <3>2. k + 1 \in 1..m /\ (k + 1) - 1 = k
      BY <2>3
    <3>3. buf[q].of = i
      BY <1>2, <2>3, <3>1
    <3>4. QED
      BY <2>1, <2>2, <3>1, <3>2, <3>3
  <2>4. CASE m <= k
    <3>1. q >= e /\ (~ old => q = e)
      BY <1>4, <2>1, <2>4
    <3>2. old
      BY <2>1, <3>1
    <3>3. buf[q].of < i /\ buf[q].of \in Nat
      BY <1>0, <2>2, <3>1, <3>2 DEF WordType
    <3>4. buf[q].of \in 0..(i - 1)
      BY <3>3
    <3>5. QED
      BY <2>1, <2>2, <3>2, <3>4
  <2>5. QED
    BY <2>3, <2>4
<1>7. PICK v : v = parse_attributes(max, a, n)[t]
  OBVIOUS
<1>8. CASE R = {}
  <2>1. v = NULL
    BY <1>1, <1>5, <1>7, <1>8
  <2>2. ASSUME NEW j \in 1..m, buf[a + 2 * (j - 1)].type = t PROVE FALSE
    <3>1. PICK k \in Nat : k = j - 1 /\ k < m /\ k \in 0..n
      OBVIOUS
    <3>2. PICK q : q = a + 2 * k
      OBVIOUS
    <3>3. q = w[k] /\ RTA_OK(q, a + n - q) /\ buf[q].type = t
      <4>1. k <= m
        BY <3>1
      <4>2. q = w[k]
        BY <1>3, <3>1, <3>2, <4>1
      <4>3. RTA_OK(q, a + n - q)
        BY <1>2, <3>1, <3>2
      <4>4. buf[q].type = t
        BY <2>2, <3>1, <3>2
      <4>5. QED
        BY <4>2, <4>3, <4>4
    <3>4. q \in R
      BY <1>5, <3>1, <3>3 DEF Met
    <3>5. QED
      BY <1>8, <3>4
  <2>3. QED
    BY <1>7, <2>1, <2>2 DEF OwnResult
<1>9. CASE R # {}
  <2>1. R \in SUBSET (1..B)
    BY <1>6
  <2>2. PICK q \in R : q = Max(R)
    BY <1>9, <2>1, MaxOfSet
  <2>3. v = buf[q].of
    BY <1>1, <1>5, <1>7, <1>9, <2>2
  <2>4. \/ v = i /\ \E j \in 1..m : buf[a + 2 * (j - 1)].type = t
        \/ old /\ v \in 0..(i - 1)
    BY <1>6, <2>3
  <2>5. QED
    BY <1>7, <2>4 DEF OwnResult
<1>10. QED
  BY <1>8, <1>9

-----------------------------------------------------------------------------
(* The line of an entry.                                                   *)

\* The header nlh is at entry i, which another follows or which is the last one.
MessageAt(i) ==
  /\ i \in 1..Len(table) /\ buf[at].of = i /\ buf[at].len = MsgSize(i)
  /\ at >= 1 /\ at + MsgSize(i) <= BufWords + 1
  /\ \A j \in 1..Len(table[i].attrs) :
       /\ IsAttr(buf[at + AttrPlace(j) - 1], table[i].attrs[j])
       /\ buf[at + AttrPlace(j) - 1].of = i
  /\ \/ i + 1 \in 1..Len(table) /\ buf[at + MsgSize(i)].len = MsgSize(i + 1)
     \/ i \in ends /\ \A q \in 1..BufWords : q >= at + MsgSize(i) => buf[q].of < i

LEMMA AtMessage ==
  ASSUME program \in Dumper, DumpOK, pc = "messages", left > 0, buf[at + 1].len = RTM_NEW[program]
  PROVE  \E i : MessageAt(i)
<1>1. PICK N \in Nat : N = Len(table)
  BY EntryAssumption DEF DumpOK, TableOK
<1>2. left \in Nat /\ at \in Nat /\ sent \in Nat /\ sent <= N
  BY <1>1 DEF DumpOK
<1>3. left # 0
  BY <1>2
<1>4. PICK base \in 0..sent : \E p, m : Chain(base, p, m) /\ Behind(base, p)
  BY <1>3 DEF DumpOK
<1>5. PICK p, m : Chain(base, p, m) /\ Behind(base, p)
  BY <1>4
<1>6. PICK n \in Nat : n = sent - base /\ base \in Nat /\ base + n = sent
  BY <1>2
<1>7. m \in 1..(n + 1) /\ at = p[m] /\ Laid(buf, p, base, n) /\ EndsAt(buf, p[n + 1], at + left)
  BY <1>5, <1>6 DEF Chain
<1>8. PICK e \in Nat : e = p[n + 1]
  <2>1. n + 1 \in 1..(n + 1)
    OBVIOUS
  <2>2. QED
    BY <1>7, <2>1 DEF Laid
<1>9. m \in 1..n
  <2>1. SUFFICES ASSUME m = n + 1 PROVE FALSE
    BY <1>7
  <2>2. at = e /\ (at + left = e \/ (at + left = e + 5 /\ buf[e + 1].len = 0))
    BY <1>7, <1>8, <2>1 DEF EndsAt
  <2>3. buf[at + 1].len = 0
    BY <1>2, <1>3, <2>2
  <2>4. RTM_NEW[program] \in 4..6
    BY Headers
  <2>5. QED
    BY <2>3, <2>4
<1>10. PICK i \in 1..N : i = base + m
  BY <1>2, <1>6, <1>9
<1>11. PICK k \in 6..16 : k = MsgSize(i)
  BY <1>1, MessageFacts DEF DumpOK
<1>12. /\ p[m + 1] = at + k /\ at >= 1 /\ at + k <= e
       /\ buf[at].len = k /\ buf[at].of = i
  BY <1>7, <1>8, <1>9, <1>10, <1>11 DEF Laid
<1>13. /\ Filled(buf, p, base, n) /\ e <= BufWords + 1
       /\ \A q \in 1..BufWords : q >= e => buf[q].of <= base
       /\ base < sent => sent \in ends
  BY <1>5, <1>6, <1>8 DEF Behind
<1>14. at + k <= BufWords + 1
  <2>1. BufWords \in Nat
    BY EntryAssumption DEF BufWords
  <2>2. QED
    BY <1>2, <1>12, <1>13, <2>1
<1>15. \A j \in 1..Len(table[i].attrs) :
         /\ IsAttr(buf[at + AttrPlace(j) - 1], table[i].attrs[j])
         /\ buf[at + AttrPlace(j) - 1].of = i
  BY <1>7, <1>9, <1>10, <1>13 DEF Filled
<1>16. \/ i + 1 \in 1..N /\ buf[at + k].len = MsgSize(i + 1)
       \/ i \in ends /\ \A q \in 1..BufWords : q >= at + k => buf[q].of < i
  <2>1. CASE m = n
    <3>1. i = sent /\ base < sent /\ base < i
      BY <1>6, <1>9, <1>10, <2>1
    <3>2. at + k = e
      BY <1>8, <1>12, <2>1
    <3>3. ASSUME NEW q \in 1..BufWords, q >= e PROVE buf[q].of < i
      <4>1. buf[q] \in WordsUpto(sent)
        BY DEF DumpOK
      <4>2. buf[q].of \in Nat
        BY <4>1 DEF WordsUpto, WordType
      <4>3. buf[q].of <= base
        BY <1>13, <3>3
      <4>4. QED
        BY <1>6, <3>1, <4>2, <4>3
    <3>4. QED
      BY <1>13, <3>1, <3>2, <3>3
  <2>2. CASE m + 1 \in 1..n
    <3>1. base + (m + 1) = i + 1 /\ i + 1 \in 1..N
      BY <1>2, <1>6, <1>9, <1>10, <2>2
    <3>2. buf[p[m + 1]].len = MsgSize(base + (m + 1))
      BY <1>7, <2>2 DEF Laid
    <3>3. QED
      BY <1>12, <3>1, <3>2
  <2>3. QED
    BY <1>9, <2>1, <2>2
<1>17. QED
  BY <1>1, <1>11, <1>12, <1>14, <1>15, <1>16 DEF MessageAt

\* v may be shown for type t in the line of entry i.
OwnValue(i, t, v) ==
  IF Contains(table[i].attrs, t)
  THEN v = i \/ (i \in ends /\ v \in 0..(i - 1))
  ELSE v = NULL \/ (i \in ends /\ v \in 0..(i - 1))

\* A walk from a leaves out the first s attributes, none of them of type t.
Skips(i, t, s, a) ==
  /\ a = at + 4 + Header[program] + 2 * s
  /\ \A j \in 1..Len(table) : Len(table[j].attrs) > s
  /\ \A j \in 1..s : table[i].attrs[j] # t

LEMMA ParsedOwn ==
  ASSUME program \in Dumper, DumpOK, NEW i, MessageAt(i), NEW s \in 0..1, NEW max, NEW t \in 0..max,
         NEW a, Skips(i, t, s, a)
  PROVE  OwnValue(i, t, parse_attributes(max, a, buf[at].len)[t])
<1>1. PICK h \in 2..4 : h = Header[program]
  BY Headers
<1>2. PICK u \in Seq(Nat) : u = table[i].attrs
  BY DEF MessageAt, DumpOK, TableOK
<1>3. PICK l \in Nat : l = Len(u) /\ l > s
  BY <1>2 DEF MessageAt, Skips
<1>4. PICK n \in Nat : n = 4 + h + 2 * l /\ n = buf[at].len /\ n = MsgSize(i)
  <2>1. PICK x \in Nat : x = 4 + h + 2 * l
    OBVIOUS
  <2>2. x = MsgSize(i)
    BY <1>1, <1>2, <1>3, <2>1 DEF MsgSize
  <2>3. QED
    BY <2>1, <2>2 DEF MessageAt
<1>5. PICK m \in Nat : m = l - s
  <2>1. l - s \in Nat
    BY <1>3
  <2>2. QED
    BY <2>1
<1>6. at \in Nat /\ at >= 1
  BY DEF DumpOK, MessageAt
<1>7. a \in Nat /\ a >= 1 /\ 2 * m <= n /\ a = at + 4 + h + 2 * s
  <2>1. a = at + 4 + h + 2 * s
    BY <1>1 DEF Skips
  <2>2. at + 4 + h + 2 * s \in Nat /\ at + 4 + h + 2 * s >= 1
    BY <1>6
  <2>3. 2 * m <= n
    BY <1>4, <1>5
  <2>4. QED
    BY <2>1, <2>2, <2>3
<1>8. PICK e \in Nat : e = a + 2 * m /\ e = at + n /\ a + n - e = 4 + h + 2 * s
  BY <1>4, <1>5, <1>6, <1>7
<1>9. e <= BufWords + 1
  BY <1>4, <1>8 DEF MessageAt
<1>10. ASSUME NEW j \in 1..m
       PROVE  /\ s + j \in 1..l /\ buf[a + 2 * (j - 1)].len = 2
              /\ buf[a + 2 * (j - 1)].type = u[s + j] /\ buf[a + 2 * (j - 1)].of = i
  <2>1. PICK x \in 1..l : x = s + j
    BY <1>5
  <2>2. at + (4 + h + 2 * x - 1) - 1 = a + 2 * (j - 1)
    BY <1>6, <1>7, <2>1
  <2>3. at + AttrPlace(x) - 1 = a + 2 * (j - 1)
    BY <1>1, <2>2 DEF AttrPlace
  <2>4. /\ IsAttr(buf[at + AttrPlace(x) - 1], u[x]) /\ buf[at + AttrPlace(x) - 1].of = i
    BY <1>2, <1>3 DEF MessageAt
  <2>5. QED
    BY <2>1, <2>3, <2>4 DEF IsAttr
<1>11. i \in Nat
  BY EntryAssumption DEF MessageAt, DumpOK, TableOK
<1>12. buf \in [1..BufWords -> WordType]
  <2>1. buf \in [1..BufWords -> WordsUpto(sent)] /\ WordsUpto(sent) \subseteq WordType
    BY DEF DumpOK, WordsUpto
  <2>2. QED
    BY <2>1
<1>13. PICK old \in BOOLEAN :
         /\ ~ old => ~ RTA_OK(e, a + n - e)
         /\ old => i \in ends /\ \A q \in 1..BufWords : q >= e => buf[q].of < i
  <2>1. CASE i + 1 \in 1..Len(table) /\ buf[at + MsgSize(i)].len = MsgSize(i + 1)
    <3>1. PICK v \in Seq(Nat) : v = table[i + 1].attrs
      BY <2>1 DEF DumpOK, TableOK
    <3>2. PICK l2 \in Nat : l2 = Len(v) /\ l2 > s
      BY <2>1, <3>1 DEF Skips
    <3>3. PICK n2 \in Nat : n2 = 4 + h + 2 * l2 /\ n2 = MsgSize(i + 1)
      <4>1. PICK x \in Nat : x = 4 + h + 2 * l2
        OBVIOUS
      <4>2. x = MsgSize(i + 1)
        BY <1>1, <3>1, <3>2, <4>1 DEF MsgSize
      <4>3. QED
        BY <4>1, <4>2
    <3>4. buf[e].len = n2
      BY <1>4, <1>8, <2>1, <3>3
    <3>5. n2 > 4 + h + 2 * s
      BY <3>2, <3>3
    <3>6. PICK r \in Nat : r = a + n - e /\ n2 > r
      BY <1>8, <3>5
    <3>7. ~ (n2 \in 1..r)
      BY <3>6
    <3>8. ~ RTA_OK(e, a + n - e)
      BY <3>4, <3>6, <3>7 DEF RTA_OK
    <3>9. QED
      BY <3>8
  <2>2. CASE i \in ends /\ \A q \in 1..BufWords : q >= at + MsgSize(i) => buf[q].of < i
    <3>1. at + MsgSize(i) = e
      BY <1>4, <1>8
    <3>2. QED
      BY <2>2, <3>1
  <2>3. QED
    BY <2>1, <2>2 DEF MessageAt
<1>14. PICK v : v = parse_attributes(max, a, n)[t]
  OBVIOUS
<1>15. IF \E j \in 1..m : buf[a + 2 * (j - 1)].type = t
       THEN v = i \/ (old /\ v \in 0..(i - 1))
       ELSE v = NULL \/ (old /\ v \in 0..(i - 1))
  <2>1. \A j \in 1..m : buf[a + 2 * (j - 1)].len = 2 /\ buf[a + 2 * (j - 1)].of = i
    BY <1>10
  <2>2. old => \A q \in 1..BufWords : q >= e => buf[q].of < i
    BY <1>13
  <2>3. ~ old => ~ RTA_OK(e, a + n - e)
    BY <1>13
  <2>4. e = a + 2 * m
    BY <1>8
  <2>5. OwnWalk(a, n, m, i, e, old)
    BY <1>7, <1>9, <1>11, <2>1, <2>2, <2>3, <2>4 DEF OwnWalk
  <2>6. OwnResult(a, m, i, old, t, v)
    BY <1>12, <1>14, <2>5, ParseOwn
  <2>7. QED
    BY <2>6 DEF OwnResult
<1>16. Contains(u, t) <=> \E j \in 1..m : buf[a + 2 * (j - 1)].type = t
  <2>1. ASSUME NEW x \in 1..l, u[x] = t PROVE \E j \in 1..m : buf[a + 2 * (j - 1)].type = t
    <3>1. x \notin 1..s
      BY <1>2, <2>1 DEF Skips
    <3>2. PICK j \in 1..m : x = s + j
      <4>1. x - s \in 1..m /\ x = s + (x - s)
        BY <1>5, <3>1
      <4>2. QED
        BY <4>1
    <3>3. buf[a + 2 * (j - 1)].type = t
      BY <1>10, <2>1, <3>2
    <3>4. QED
      BY <3>3
  <2>2. ASSUME NEW j \in 1..m, buf[a + 2 * (j - 1)].type = t PROVE \E x \in 1..l : u[x] = t
    BY <1>10, <2>2
  <2>3. QED
    BY <1>3, <2>1, <2>2 DEF Contains
<1>17. QED
  BY <1>2, <1>4, <1>13, <1>14, <1>15, <1>16 DEF OwnValue

\* A line that shows for every type what it may.
OwnLine(e) == \A t \in DOMAIN e.tb : OwnValue(e.id, t, e.tb[t])

OwnLines(lines) == lines = <<>> \/ \E e : lines = <<e>> /\ OwnLine(e)

LEMMA LineOwn ==
  ASSUME NEW i, NEW tb, NEW types, \A t \in types : OwnValue(i, t, tb[t])
  PROVE  OwnLines(Line(i, tb, types))
<1>1. PICK f : f = [t \in types |-> tb[t]]
  OBVIOUS
<1>2. DOMAIN f = types /\ \A t \in types : f[t] = tb[t]
  BY <1>1
<1>3. PICK e : e = [id |-> i, tb |-> f]
  OBVIOUS
<1>4. e.id = i /\ e.tb = f
  BY <1>3
<1>5. OwnLine(e)
  BY <1>2, <1>4 DEF OwnLine
<1>6. Line(i, tb, types) = <<e>>
  BY <1>1, <1>3 DEF Line
<1>7. QED
  BY <1>5, <1>6 DEF OwnLines

\* A walk over all attributes.
LEMMA AllParsed ==
  ASSUME program \in Dumper, DumpOK, NEW i, MessageAt(i), NEW max, NEW t \in 0..max
  PROVE  OwnValue(i, t, parse_attributes(max, at + 4 + Header[program], buf[at].len)[t])
<1>1. PICK a : a = at + 4 + Header[program]
  OBVIOUS
<1>2. \A j \in 1..Len(table) : Len(table[j].attrs) > 0
  <2>1. ASSUME NEW j \in 1..Len(table) PROVE Len(table[j].attrs) > 0
    <3>1. Len(table[j].attrs) \in Nat
      BY DEF DumpOK, TableOK
    <3>2. Len(table[j].attrs) >= 1
      BY DEF DumpOK, AttrsOK
    <3>3. QED
      BY <3>1, <3>2
  <2>2. QED
    BY <2>1
<1>3. a = at + 4 + Header[program] + 2 * 0
  <2>1. Header[program] \in Nat /\ at \in Nat
    BY Headers DEF DumpOK
  <2>2. QED
    BY <1>1, <2>1
<1>4. 1..0 = {} /\ 0 \in 0..1
  OBVIOUS
<1>5. Skips(i, t, 0, a)
  BY <1>2, <1>3, <1>4 DEF Skips
<1>6. OwnValue(i, t, parse_attributes(max, a, buf[at].len)[t])
  BY <1>4, <1>5, ParsedOwn
<1>7. QED
  BY <1>1, <1>6

\* The name of an address: its walk begins where the attributes of a link would, behind
\* the first attribute of the address.
LEMMA NameParsed ==
  ASSUME program = "get_addr", DumpOK, NEW i, MessageAt(i)
  PROVE  OwnValue(i, IFLA_IFNAME,
                  parse_attributes(30, at + 4 + Header.get_link, buf[at].len)[IFLA_IFNAME])
<1>1. PICK a : a = at + 4 + Header.get_link
  OBVIOUS
<1>2. \A j \in 1..Len(table) : Len(table[j].attrs) > 1
  <2>1. ASSUME NEW j \in 1..Len(table) PROVE Len(table[j].attrs) > 1
    <3>1. Len(table[j].attrs) \in Nat
      BY DEF DumpOK, TableOK
    <3>2. Len(table[j].attrs) >= 2
      BY DEF DumpOK, AttrsOK
    <3>3. QED
      BY <3>1, <3>2
  <2>2. QED
    BY <2>1
<1>3. a = at + 4 + Header[program] + 2 * 1
  <2>1. Header[program] = 2 /\ Header.get_link = 4 /\ at \in Nat
    BY DEF DumpOK, Header
  <2>2. QED
    BY <1>1, <2>1
<1>4. \A j \in 1..1 : table[i].attrs[j] # IFLA_IFNAME
  <2>1. table[i].attrs[1] # IFLA_IFNAME
    BY DEF DumpOK, AttrsOK, MessageAt
  <2>2. QED
    BY <2>1
<1>5. 1 \in 0..1 /\ IFLA_IFNAME \in 0..30 /\ program \in Dumper
  BY DEF IFLA_IFNAME, Dumper
<1>6. Skips(i, IFLA_IFNAME, 1, a)
  BY <1>2, <1>3, <1>4 DEF Skips
<1>7. OwnValue(i, IFLA_IFNAME, parse_attributes(30, a, buf[at].len)[IFLA_IFNAME])
  BY <1>5, <1>6, ParsedOwn
<1>8. QED
  BY <1>1, <1>7

LEMMA ParsedDomain ==
  ASSUME NEW max, NEW rta, NEW len
  PROVE  DOMAIN parse_attributes(max, rta, len) = 0..max
BY DEF parse_attributes

LEMMA EntryOwn ==
  ASSUME DumpOK, NEW i, MessageAt(i)
  PROVE  /\ program = "get_addr" => OwnLines(parse_addr_entry(at))
         /\ program = "get_link" => OwnLines(parse_link_entry(at))
         /\ program = "get_route" => OwnLines(parse_route_entry(at))
<1>1. buf[at].of = i
  BY DEF MessageAt
<1>2. ASSUME program = "get_addr" PROVE OwnLines(parse_addr_entry(at))
  <2>1. PICK tba : tba = parse_attributes(10, at + 4 + Header.get_addr, buf[at].len)
    OBVIOUS
  <2>2. PICK v : v = parse_attributes(30, at + 4 + Header.get_link, buf[at].len)[IFLA_IFNAME]
    OBVIOUS
  <2>3. PICK tb : tb = [tba EXCEPT ![IFLA_IFNAME] = v]
    OBVIOUS
  <2>4. DOMAIN tba = 0..10
    BY <2>1, ParsedDomain
  <2>5. tb[IFLA_IFNAME] = v /\ tb[IFA_LOCAL] = tba[IFA_LOCAL]
    BY <2>3, <2>4 DEF IFLA_IFNAME, IFA_LOCAL
  <2>6. Header[program] = Header.get_addr /\ program \in Dumper /\ IFA_LOCAL \in 0..10
    BY <1>2 DEF Dumper, IFA_LOCAL
  <2>7. OwnValue(i, IFA_LOCAL, parse_attributes(10, at + 4 + Header[program], buf[at].len)[IFA_LOCAL])
    BY <2>6, AllParsed
  <2>8. OwnValue(i, IFA_LOCAL, tb[IFA_LOCAL])
    BY <2>1, <2>5, <2>6, <2>7
  <2>9. OwnValue(i, IFLA_IFNAME, tb[IFLA_IFNAME])
    BY <1>2, <2>2, <2>5, NameParsed
  <2>10. OwnLines(Line(i, tb, {IFA_LOCAL, IFLA_IFNAME}))
    BY <2>8, <2>9, LineOwn
  <2>11. parse_addr_entry(at) = Line(i, tb, {IFA_LOCAL, IFLA_IFNAME})
    BY <1>1, <2>1, <2>2, <2>3 DEF parse_addr_entry
  <2>12. QED
    BY <2>10, <2>11
<1>3. ASSUME program = "get_link" PROVE OwnLines(parse_link_entry(at))
  <2>1. PICK tb : tb = parse_attributes(30, at + 4 + Header.get_link, buf[at].len)
    OBVIOUS
  <2>2. Header[program] = Header.get_link /\ program \in Dumper /\ IFLA_IFNAME \in 0..30
    BY <1>3 DEF Dumper, IFLA_IFNAME
  <2>3. OwnValue(i, IFLA_IFNAME, parse_attributes(30, at + 4 + Header[program], buf[at].len)[IFLA_IFNAME])
    BY <2>2, AllParsed
  <2>4. OwnValue(i, IFLA_IFNAME, tb[IFLA_IFNAME])
    BY <2>1, <2>2, <2>3
  <2>5. OwnLines(Line(i, tb, {IFLA_IFNAME}))
    BY <2>4, LineOwn
  <2>6. QED
    BY <1>1, <2>1, <2>5 DEF parse_link_entry
<1>4. ASSUME program = "get_route" PROVE OwnLines(parse_route_entry(at))
  <2>1. PICK tb : tb = parse_attributes(30, at + 4 + Header.get_route, buf[at].len)
    OBVIOUS
  <2>2. PICK types : types = {RTA_TABLE, RTA_GATEWAY, RTA_DST, RTA_OIF, RTA_PREFSRC}
    OBVIOUS
  <2>3. types \subseteq 0..30
    BY <2>2 DEF RTA_TABLE, RTA_GATEWAY, RTA_DST, RTA_OIF, RTA_PREFSRC
  <2>4. Header[program] = Header.get_route /\ program \in Dumper
    BY <1>4 DEF Dumper
  <2>5. ASSUME NEW t \in types PROVE OwnValue(i, t, tb[t])
    <3>1. t \in 0..30
      BY <2>3
    <3>2. OwnValue(i, t, parse_attributes(30, at + 4 + Header[program], buf[at].len)[t])
      BY <2>4, <3>1, AllParsed
    <3>3. QED
      BY <2>1, <2>4, <3>2
  <2>6. OwnLines(Line(i, tb, types))
    BY <2>5, LineOwn
  <2>7. parse_route_entry(at) = <<>> \/ parse_route_entry(at) = Line(i, tb, types)
    BY <1>1, <2>1, <2>2 DEF parse_route_entry
  <2>8. OwnLines(<<>>)
    BY DEF OwnLines
  <2>9. QED
    BY <2>6, <2>7, <2>8
<1>5. QED
  BY <1>2, <1>3, <1>4

\* What a line may show, it may still show after any step of these programs.
OwnShown(s) == \A k \in 1..Len(s) : OwnLine(s[k])

LEMMA OwnShownIs == OwnAttributes <=> (program \in Dumper => OwnShown(shown))
BY DEF OwnAttributes, OwnShown, OwnLine, OwnValue

LEMMA OwnShownLater ==
  ASSUME table' = table, ends \subseteq ends'
  PROVE  /\ \A e : OwnLine(e) => OwnLine(e)'
         /\ \A s : OwnShown(s) => OwnShown(s)'
<1>1. \A i, t, v : OwnValue(i, t, v) => OwnValue(i, t, v)'
  BY DEF OwnValue
<1>2. \A e : OwnLine(e) => OwnLine(e)'
  BY <1>1 DEF OwnLine
<1>3. QED
  BY <1>2 DEF OwnShown

LEMMA OwnNext == EntriesInv /\ OwnAttributes /\ [Next]_vars => OwnAttributes'
<1>1. ASSUME NEW s, program' \in Dumper => s = shown' /\ OwnShown(s)' PROVE OwnAttributes'
  BY <1>1 DEF OwnAttributes, OwnShown, OwnLine, OwnValue, Dumper
<1>2. SUFFICES ASSUME EntriesInv, OwnAttributes, [Next]_vars, program' \in Dumper
               PROVE  \E s : s = shown' /\ OwnShown(s)'
  BY <1>1
<1>3. program' = program /\ program \in Dumper
  <2>1. program' = program
    BY <1>2, ProgramKept DEF vars
  <2>2. QED
    BY <1>2, <2>1 DEF Dumper
<1>4. DumpOK /\ OwnShown(shown)
  BY <1>2, <1>3, OwnShownIs DEF EntriesInv
<1>5. CASE UNCHANGED vars
  <2>1. table' = table /\ ends' = ends /\ shown' = shown
    BY <1>5 DEF vars
  <2>2. PICK s : s = shown
    OBVIOUS
  <2>3. OwnShown(s)'
    BY <1>4, <2>1, <2>2, OwnShownLater
  <2>4. QED
    BY <2>1, <2>2, <2>3
<1>6. CASE Receive
  <2>1. table' = table /\ ends \subseteq ends' /\ shown' = shown
    BY <1>6 DEF Receive
  <2>2. PICK s : s = shown
    OBVIOUS
  <2>3. OwnShown(s)'
    BY <1>4, <2>1, <2>2, OwnShownLater
  <2>4. QED
    BY <2>1, <2>2, <2>3
<1>7. CASE GetAddr \/ GetLink \/ GetRoute
  <2>1. PICK lines : /\ MessageLoop(lines)
                     /\ \A i : MessageAt(i) => OwnLines(lines)
    <3>1. CASE GetAddr
      BY <1>4, <3>1, EntryOwn DEF GetAddr
    <3>2. CASE GetLink
      BY <1>4, <3>2, EntryOwn DEF GetLink
    <3>3. CASE GetRoute
      BY <1>4, <3>3, EntryOwn DEF GetRoute
    <3>4. QED
      BY <1>7, <3>1, <3>2, <3>3
  <2>2. table' = table /\ ends' = ends /\ pc = "messages"
    BY <2>1 DEF MessageLoop
  <2>3. \A s : OwnShown(s) => OwnShown(s)'
    BY <2>2, OwnShownLater
  <2>4. CASE shown' = shown
    <3>1. PICK s : s = shown
      OBVIOUS
    <3>2. OwnShown(s)'
      BY <1>4, <2>3, <3>1
    <3>3. QED
      BY <2>4, <3>1, <3>2
  <2>5. CASE shown' # shown
    <3>1. left > 0 /\ buf[at + 1].len = RTM_NEW[program] /\ shown' = shown \o lines
      BY <2>1, <2>5 DEF MessageLoop
    <3>2. PICK i : MessageAt(i)
      BY <1>3, <1>4, <2>2, <3>1, AtMessage
    <3>3. OwnLines(lines)
      BY <2>1, <3>2
    <3>4. PICK S : shown \in Seq(S)
      BY <1>4 DEF DumpOK
    <3>5. lines # <<>>
      BY <2>5, <3>1, <3>4
    <3>6. PICK e : lines = <<e>> /\ OwnLine(e)
      BY <3>3, <3>5 DEF OwnLines
    <3>7. PICK n \in Nat : n = Len(shown)
      BY <3>4
    <3>8. Len(shown') = n + 1 /\ shown'[n + 1] = e /\ \A k \in 1..n : shown'[k] = shown[k]
      BY <3>1, <3>4, <3>6, <3>7
    <3>9. ASSUME NEW k \in 1..(n + 1) PROVE OwnLine(shown'[k])
      <4>1. CASE k \in 1..n
        BY <1>4, <3>7, <3>8, <4>1 DEF OwnShown
      <4>2. CASE k = n + 1
        BY <3>6, <3>8, <4>2
      <4>3. QED
        BY <4>1, <4>2
    <3>10. PICK s : s = shown'
      OBVIOUS
    <3>11. OwnShown(s)
      BY <3>8, <3>9, <3>10 DEF OwnShown
    <3>12. OwnShown(s)'
      BY <2>3, <3>11
    <3>13. QED
      BY <3>10, <3>12
  <2>6. QED
    BY <2>4, <2>5
<1>8. CASE RouteChange \/ Listen
  BY <1>3, <1>8 DEF RouteChange, Listen, Dumper
<1>9. CASE \/ ServerListen \/ ServerAccept \/ ServerRecv \/ ServerRecvFails
           \/ \E c \in Client : ClientMain(c)
  <2>1. program # "server" /\ Idle
    BY <1>2, <1>3 DEF Dumper, EntriesInv
  <2>2. server = "off" /\ server \notin Client /\ \A c \in Client : client[c].at = "connect"
    BY <2>1, TcpAssumption DEF Idle
  <2>3. QED
    BY <1>9, <2>1, <2>2 DEF ServerListen, ServerAccept, ServerRecv, ServerRecvFails, ClientMain,
                            ClientConnect, ClientSend
<1>10. CASE LibnlStep
  BY <1>3, <1>10 DEF LibnlStep, GetStaInfoMain, GenetlinkTestMain, Dumper
<1>11. QED
  BY <1>2, <1>5, <1>6, <1>7, <1>8, <1>9, <1>10 DEF Next

\* A line of get_addr, get_link or get_route shows all attributes of its entry and no other
\* entry's, though the walk is given the length of the whole message and runs past its end,
\* unless the entry is the last of its datagram: that one may show, for an attribute it does
\* not have and in the place of one it has, what was in the buffer before, but of no later
\* entry.  So for tables of any length and every way the kernel spreads them over datagrams.
THEOREM LinesShowOwnAttributes == Spec => []OwnAttributes
<1>1. Init => OwnAttributes
  BY DEF Init, OwnAttributes
<1>2. QED
  BY <1>1, EntriesInit, EntriesNext, OwnNext, PTL DEF Spec

-----------------------------------------------------------------------------
(* What nl_recvmsgs makes of the answer.                                   *)

HandleStep(r, q, f, k) == IF k = 0 THEN r ELSE Handle(f[k - 1], q[k])

IsHandled(r, q, n, f) == f = [k \in 0..n |-> HandleStep(r, q, f, k)]

Handled(r, q, n) == CHOOSE f : IsHandled(r, q, n, f)

\* The recursive definition has a solution.
LEMMA HandledExists ==
  ASSUME NEW r, NEW q, NEW n \in Nat
  PROVE  IsHandled(r, q, n, Handled(r, q, n))
<1> DEFINE Begins(f, m) == \A k \in 0..n : k <= m => f[k] = HandleStep(r, q, f, k)
<1>1. PICK G \in SUBSET Nat : G = {m \in Nat : \E f : Begins(f, m)}
  OBVIOUS
<1>2. 0 \in G
  <2>1. PICK f : f = [k \in 0..n |-> r]
    OBVIOUS
  <2>2. Begins(f, 0)
    BY <2>1 DEF HandleStep
  <2>3. QED
    BY <1>1, <2>2
<1>3. ASSUME NEW m \in G PROVE m + 1 \in G
  <2>1. PICK f : Begins(f, m)
    BY <1>1, <1>3
  <2>2. m \in Nat /\ m + 1 \in Nat
    BY <1>1
  <2>3. PICK v : v = HandleStep(r, q, f, m + 1)
    OBVIOUS
  <2>4. PICK g : g = [k \in 0..n |-> IF k = m + 1 THEN v ELSE f[k]]
    OBVIOUS
  <2>5. \A k \in 0..n : (k = m + 1 => g[k] = v) /\ (k <= m => g[k] = f[k])
    BY <2>2, <2>4
  <2>6. ASSUME NEW k \in 0..n, k <= m + 1
        PROVE  HandleStep(r, q, g, k) = HandleStep(r, q, f, k)
    <3>1. k # 0 => k - 1 \in 0..n /\ k - 1 <= m
      BY <2>2, <2>6
    <3>2. k # 0 => g[k - 1] = f[k - 1]
      BY <2>5, <3>1
    <3>3. QED
      BY <3>2 DEF HandleStep
  <2>7. ASSUME NEW k \in 0..n, k <= m + 1 PROVE g[k] = HandleStep(r, q, g, k)
    <3>1. CASE k = m + 1
      <4>1. g[k] = v
        BY <2>5, <3>1
      <4>2. v = HandleStep(r, q, f, k)
        BY <2>3, <3>1
      <4>3. QED
        BY <2>6, <2>7, <4>1, <4>2
    <3>2. CASE k <= m
      <4>1. g[k] = f[k] /\ f[k] = HandleStep(r, q, f, k)
        BY <2>1, <2>5, <3>2
      <4>2. QED
        BY <2>6, <2>7, <4>1
    <3>3. QED
      BY <2>2, <2>7, <3>1, <3>2
  <2>8. Begins(g, m + 1)
    BY <2>7
  <2>9. QED
    BY <1>1, <2>2, <2>8
<1>4. n \in G
  BY <1>2, <1>3, SetOfAllNaturals
<1>5. PICK f : Begins(f, n)
  BY <1>1, <1>4
<1>6. PICK g : g = [k \in 0..n |-> f[k]]
  OBVIOUS
<1>7. ASSUME NEW k \in 0..n PROVE g[k] = HandleStep(r, q, g, k)
  <2>1. k # 0 => k - 1 \in 0..n
    OBVIOUS
  <2>2. g[k] = f[k] /\ (k # 0 => g[k - 1] = f[k - 1])
    BY <1>6, <2>1
  <2>3. f[k] = HandleStep(r, q, f, k)
    BY <1>5
  <2>4. QED
    BY <2>2, <2>3 DEF HandleStep
<1>8. IsHandled(r, q, n, g)
  <2>1. g = [k \in 0..n |-> g[k]]
    BY <1>6
  <2>2. QED
    BY <1>7, <2>1, Zenon DEF IsHandled
<1>9. QED
  BY <1>8 DEF Handled

LEMMA ReceivesStep ==
  ASSUME NEW n, nl_recvmsgs(n), Len(pending) \in Nat
  PROVE  /\ n \in 1..Len(pending)
         /\ \E f : /\ f[0] = reg /\ reg' = f[n]
                   /\ \A k \in 1..n : f[k] = Handle(f[k - 1], pending[k])
<1>1. n \in 1..Len(pending) /\ n \in Nat
  BY DEF nl_recvmsgs
<1>2. PICK f : f = Handled(reg, pending, n)
  OBVIOUS
<1>3. f = [k \in 0..n |-> HandleStep(reg, pending, f, k)]
  BY <1>1, <1>2, HandledExists DEF IsHandled
<1>4. reg' = f[n]
  BY <1>2 DEF nl_recvmsgs, Handled, IsHandled, HandleStep
<1>5. \A k \in 0..n : f[k] = HandleStep(reg, pending, f, k)
  BY <1>3
<1>6. f[0] = reg
  BY <1>1, <1>5 DEF HandleStep
<1>7. \A k \in 1..n : f[k] = Handle(f[k - 1], pending[k])
  BY <1>1, <1>5 DEF HandleStep
<1>8. QED
  BY <1>1, <1>4, <1>6, <1>7

\* The registers of get_sta_info, as long as nothing was read that is not there.
Clean(err, idx, got, out) ==
  [err |-> err, idx |-> idx, got |-> got, fault |-> FALSE, out |-> out]

\* x is the index the first i interfaces leave, 0 if none of them has one.
LastIndex(i, x) ==
  IF x = 0 THEN \A j \in 1..i : table.ifaces[j].index = 0
  ELSE \E k \in 1..i : /\ table.ifaces[k].index = x
                       /\ \A j \in (k + 1)..i : table.ifaces[j].index = 0

Ifaces == {Iface(i) : i \in 0..MaxIface}

\* The interfaces after the i-th and the end of the dump wait on the socket.
RestOf(i) ==
  /\ pending \in Seq(Ifaces \cup {DONE})
  /\ Len(pending) = (Len(table.ifaces) - i) + 1
  /\ \A k \in 1..(Len(table.ifaces) - i) : pending[k] = table.ifaces[i + k]
  /\ pending[(Len(table.ifaces) - i) + 1] = DONE

HasInfo(st, k) == "STA_INFO" \in st[k].attrs

\* The lines that may be printed of a station.
AnyLine == CounterLines \cup TxLines \cup RxLines

\* The registers after the first i stations, if every counter was there.
ShownUpto(st, i, got, out) ==
  /\ out \in Seq(SUBSET AnyLine) /\ Len(out) = i
  /\ \A k \in 1..i : RightLines(st[k].attrs, out[k])
  /\ got # 0 => \E k \in 1..i : HasInfo(st, k)

InterfaceWait ==
  \E x \in 0..MaxIface :
    \/ \E i \in 0..Len(table.ifaces) : reg = Clean(1, x, 0, <<>>) /\ LastIndex(i, x) /\ RestOf(i)
    \/ reg = Clean(0, x, 0, <<>>) /\ LastIndex(Len(table.ifaces), x) /\ pending = <<>>
    \/ reg = Clean(1, 0, 0, <<>>) /\ pending = <<ERROR>>
    \/ reg = Clean(-1, 0, 0, <<>>) /\ pending = <<>>

\* The first request is over, with index x.
Indexed(x) == x \in 1..MaxIface /\ LastIndex(Len(table.ifaces), x)

StationWait ==
  \E x, e, got, out :
    /\ Indexed(x) /\ reg = Clean(e, x, got, out)
    /\ \/ got = 0 /\ out = <<>> /\ pending = table.stations[x] \o <<DONE>>
       \/ got = 0 /\ out = <<>> /\ pending = <<ERROR>>
       \/ /\ pending = <<>>
          /\ ShownUpto(table.stations[x], Len(table.stations[x]), got, out)

StationOK ==
  /\ table \in Wireless
  /\ pc \in {"getInterface", "waitErr", "getStation", "waitGot", "ok", "notSent", "error", "fault"}
  /\ pc = "getInterface" => reg = Clean(1, 0, 0, <<>>)
  /\ pc = "waitErr" => InterfaceWait
  /\ pc = "getStation" => \E x, e : Indexed(x) /\ reg = Clean(e, x, 0, <<>>)
  /\ pc = "waitGot" => StationWait
  /\ pc = "ok" => StationShown

StationInv == Idle /\ (program = "get_sta_info" => StationOK)

LEMMA WirelessFacts ==
  ASSUME table \in Wireless
  PROVE  /\ MaxIface \in Nat /\ Len(table.ifaces) \in Nat
         /\ \A k \in 1..Len(table.ifaces) :
              table.ifaces[k].kind = "IFACE" /\ table.ifaces[k].index \in 0..MaxIface
         /\ table.ifaces \in Seq(Ifaces)
<1>1. MaxIface \in Nat
  BY StationAssumption
<1>2. PICK S : S = Ifaces
  OBVIOUS
<1>3. table.ifaces \in SeqOf(S, MaxIface)
  BY <1>2 DEF Wireless, Ifaces
<1>4. PICK m \in 0..MaxIface : table.ifaces \in [1..m -> S]
  BY <1>3 DEF SeqOf
<1>5. m \in Nat
  BY <1>1
<1>6. Len(table.ifaces) = m /\ table.ifaces \in Seq(S)
  BY <1>4, <1>5
<1>7. ASSUME NEW k \in 1..m
      PROVE  table.ifaces[k].kind = "IFACE" /\ table.ifaces[k].index \in 0..MaxIface
  <2>1. table.ifaces[k] \in S
    BY <1>4
  <2>2. PICK i \in 0..MaxIface : table.ifaces[k] = Iface(i)
    BY <1>2, <2>1 DEF Ifaces
  <2>3. QED
    BY <2>2 DEF Iface
<1>8. QED
  BY <1>1, <1>2, <1>5, <1>6, <1>7

LEMMA StationFacts ==
  ASSUME table \in Wireless, NEW x \in 1..MaxIface
  PROVE  /\ Len(table.stations[x]) \in Nat
         /\ \A k \in 1..Len(table.stations[x]) : table.stations[x][k].kind = "STA"
         /\ \E S : table.stations[x] \in Seq(S)
<1>1. PICK D : D = {[k \in 1..Len(s) |-> Sta(s[k])] : s \in Stations}
  OBVIOUS
<1>2. table.stations \in [1..MaxIface -> D]
  BY <1>1 DEF Wireless
<1>3. table.stations[x] \in D
  BY <1>2
<1>4. PICK s \in Stations : table.stations[x] = [k \in 1..Len(s) |-> Sta(s[k])]
  BY <1>1, <1>3
<1>5. Len(s) \in Nat
  <2>1. PICK T : T = SUBSET STRING
    OBVIOUS
  <2>2. s \in Seq(T)
    BY <2>1, StationAssumption
  <2>3. QED
    BY <2>2
<1>6. PICK n \in Nat : n = Len(s)
  BY <1>5
<1>7. PICK S : S = {Sta(s[k]) : k \in 1..n}
  OBVIOUS
<1>8. PICK st : st = table.stations[x]
  OBVIOUS
<1>9. st \in [1..n -> S] /\ \A k \in 1..n : st[k] = Sta(s[k])
  BY <1>4, <1>6, <1>7, <1>8
<1>10. st \in Seq(S) /\ Len(st) = n
  BY <1>9
<1>11. \A k \in 1..n : st[k].kind = "STA"
  BY <1>9 DEF Sta
<1>12. QED
  BY <1>8, <1>10, <1>11

LEMMA CleanFacts ==
  ASSUME NEW err, NEW idx, NEW got, NEW out
  PROVE  /\ Clean(err, idx, got, out).err = err /\ Clean(err, idx, got, out).idx = idx
         /\ Clean(err, idx, got, out).got = got /\ Clean(err, idx, got, out).out = out
         /\ ~ Clean(err, idx, got, out).fault
BY DEF Clean

Fields(e, x, g, b, o) == [err |-> e, idx |-> x, got |-> g, fault |-> b, out |-> o]

LEMMA CleanFields ==
  ASSUME NEW e, NEW x, NEW g, NEW o, NEW b, b = FALSE
  PROVE  Clean(e, x, g, o) = Fields(e, x, g, b, o)
BY Zenon DEF Clean, Fields

\* One message, and what its callback does to the registers.
LEMMA HandleInterface ==
  ASSUME program = "get_sta_info", NEW e, NEW x, NEW g, NEW o, NEW m, m.kind = "IFACE",
         NEW y, y = IF m.index # 0 THEN m.index ELSE x
  PROVE  Handle(Clean(e, x, g, o), m) = Clean(e, y, g, o)
<1>1. PICK r : r = Clean(e, x, g, o)
  OBVIOUS
<1>2. ~ r.fault
  BY <1>1, CleanFacts
<1>3. Handle(r, m) = callback_of_get_interface_index(m, r)
  BY <1>2 DEF Handle
<1>4. CASE m.index # 0
  <2>1. Handle(r, m) = [r EXCEPT !.idx = y]
    BY <1>3, <1>4 DEF callback_of_get_interface_index
  <2>2. QED
    <3>1. PICK b : b = FALSE
      OBVIOUS
    <3>2. r = Fields(e, x, g, b, o)
      BY <1>1, <3>1, CleanFields, Zenon
    <3>3. Handle(r, m) = Fields(e, y, g, b, o)
      BY <2>1, <3>2 DEF Fields
    <3>4. QED
      BY <1>1, <3>1, <3>3, CleanFields, Zenon
<1>5. CASE m.index = 0
  BY <1>1, <1>3, <1>5 DEF callback_of_get_interface_index
<1>6. QED
  BY <1>4, <1>5

LEMMA HandleEnd ==
  ASSUME program = "get_sta_info", NEW e, NEW x, NEW g, NEW o
  PROVE  /\ pc = "waitErr" => /\ Handle(Clean(e, x, g, o), DONE) = Clean(0, x, g, o)
                              /\ Handle(Clean(e, x, g, o), ERROR) = Clean(-1, x, g, o)
         /\ pc # "waitErr" => Handle(Clean(e, x, g, o), DONE) = Clean(e, x, g, o)
<1>1. DONE.kind = "DONE" /\ ERROR.kind = "ERROR"
  BY DEF DONE, ERROR
<1>2. PICK r : r = Clean(e, x, g, o)
  OBVIOUS
<1>3. ~ r.fault
  BY <1>2, CleanFacts
<1>4. pc = "waitErr" => Handle(r, DONE) = finish_handler(r) /\ Handle(r, ERROR) = error_handler(r)
  BY <1>1, <1>3 DEF Handle
<1>5. pc # "waitErr" => Handle(r, DONE) = r
  BY <1>1, <1>3 DEF Handle
<1>6. finish_handler(r) = Clean(0, x, g, o) /\ error_handler(r) = Clean(-1, x, g, o)
  <2>1. PICK v : v = 0
    OBVIOUS
  <2>2. PICK w : w = -1
    OBVIOUS
  <2>3. finish_handler(r) = [r EXCEPT !.err = v] /\ error_handler(r) = [r EXCEPT !.err = w]
    BY <2>1, <2>2 DEF finish_handler, error_handler
  <2>4. QED
    <3>1. PICK b : b = FALSE
      OBVIOUS
    <3>2. r = Fields(e, x, g, b, o)
      BY <1>2, <3>1, CleanFields, Zenon
    <3>3. finish_handler(r) = Fields(v, x, g, b, o)
      BY <2>3, <3>2 DEF Fields
    <3>4. error_handler(r) = Fields(w, x, g, b, o)
      BY <2>3, <3>2 DEF Fields
    <3>5. QED
      BY <2>1, <2>2, <3>1, <3>3, <3>4, CleanFields, Zenon
<1>7. QED
  BY <1>2, <1>4, <1>5, <1>6

\* A counter is read that is not there.
Missing(attrs) ==
  /\ Nested(attrs, "STA_INFO", "STA_INFO_BAD")
  /\ "RX_PACKETS" \in attrs /\ "TX_PACKETS" \notin attrs

\* The lines l are printed of m, b says if a counter is missing, and got becomes h.
StationOf(m, b, l, g, h) ==
  /\ m.kind = "STA"
  /\ b \in BOOLEAN /\ b = Missing(m.attrs)
  /\ l = StationLines(m.attrs)
  /\ h = IF "STA_INFO" \in m.attrs THEN 1 ELSE g

LEMMA HandleStation ==
  ASSUME NEW e, NEW x, NEW g, NEW o, NEW m, NEW b, NEW l, NEW h, StationOf(m, b, l, g, h)
  PROVE  Handle(Clean(e, x, g, o), m) = Fields(e, x, h, b, Append(o, l))
<1>1. PICK r : r = Clean(e, x, g, o)
  OBVIOUS
<1>2. ~ r.fault /\ r.got = g
  BY <1>1, CleanFacts
<1>3. Handle(r, m) = callback_of_get_sta_info(m, r)
  BY <1>2 DEF Handle, StationOf
<1>5. PICK c : c = FALSE
  OBVIOUS
<1>6. r = Fields(e, x, g, c, o)
  BY <1>1, <1>5, CleanFields, Zenon
<1>6a. PICK hh : hh = IF "STA_INFO" \in m.attrs THEN 1 ELSE r.got
  OBVIOUS
<1>6b. hh = h
  BY <1>2, <1>6a DEF StationOf
<1>6c. Missing(m.attrs) = b
  BY DEF StationOf
<1>4. Handle(r, m) = [r EXCEPT !.got = h, !.fault = b, !.out = Append(@, l)]
  <2>1. Handle(r, m) = [r EXCEPT !.got = hh, !.fault = Missing(m.attrs),
                                 !.out = Append(@, StationLines(m.attrs))]
    BY <1>3, <1>6a DEF callback_of_get_sta_info, Missing
  <2>2. StationLines(m.attrs) = l
    BY DEF StationOf
  <2>3. QED
    BY <1>6b, <1>6c, <2>1, <2>2, Zenon
<1>7. PICK w : w = Append(o, l)
  OBVIOUS
<1>8. PICK r1 : r1 = [r EXCEPT !.got = h]
  OBVIOUS
<1>9. r1 = Fields(e, x, h, c, o)
  BY <1>6, <1>8 DEF Fields
<1>10. PICK r2 : r2 = [r1 EXCEPT !.fault = b]
  OBVIOUS
<1>11. r2 = Fields(e, x, h, b, o)
  BY <1>9, <1>10 DEF Fields
<1>12. [r2 EXCEPT !.out = w] = Fields(e, x, h, b, w)
  BY <1>11 DEF Fields
<1>13. r2.out = o
  BY <1>11 DEF Fields
<1>14. Handle(r, m) = [r2 EXCEPT !.out = Append(@, l)]
  BY <1>4, <1>8, <1>10
<1>15. [r2 EXCEPT !.out = Append(@, l)] = [r2 EXCEPT !.out = w]
  BY <1>7, <1>13
<1>16. QED
  BY <1>1, <1>7, <1>12, <1>14, <1>15

LEMMA HandleFault == ASSUME NEW r, r.fault = TRUE, NEW m PROVE Handle(r, m) = r
BY DEF Handle

\* The walk over the interfaces.
LEMMA LastIndexNext ==
  ASSUME table \in Wireless, NEW i \in Nat, i + 1 \in 1..Len(table.ifaces), NEW x, LastIndex(i, x),
         NEW y, y = IF table.ifaces[i + 1].index # 0 THEN table.ifaces[i + 1].index ELSE x
  PROVE  LastIndex(i + 1, y)
<1>1. \A j : j \in 1..(i + 1) <=> j \in 1..i \/ j = i + 1
  OBVIOUS
<1>2. CASE table.ifaces[i + 1].index # 0
  <2>1. \A j \in ((i + 1) + 1)..(i + 1) : FALSE
    OBVIOUS
  <2>2. QED
    BY <1>1, <1>2, <2>1 DEF LastIndex
<1>3. CASE table.ifaces[i + 1].index = 0 /\ x = 0
  BY <1>1, <1>3 DEF LastIndex
<1>4. CASE table.ifaces[i + 1].index = 0 /\ x # 0
  <2>1. PICK k \in 1..i : /\ table.ifaces[k].index = x
                          /\ \A j \in (k + 1)..i : table.ifaces[j].index = 0
    BY <1>4 DEF LastIndex
  <2>2. \A j \in (k + 1)..(i + 1) : j \in (k + 1)..i \/ j = i + 1
    OBVIOUS
  <2>3. k \in 1..(i + 1) /\ \A j \in (k + 1)..(i + 1) : table.ifaces[j].index = 0
    BY <1>4, <2>1, <2>2
  <2>4. QED
    BY <1>4, <2>1, <2>3 DEF LastIndex
<1>5. QED
  BY <1>2, <1>3, <1>4

LEMMA RestOfSeq ==
  ASSUME NEW S, NEW q \in Seq(S), NEW L \in Nat, Len(q) = L + 1, NEW n \in Nat, n <= L
  PROVE  /\ Len(SubSeq(q, n + 1, L + 1)) = (L - n) + 1 /\ SubSeq(q, n + 1, L + 1) \in Seq(S)
         /\ \A k \in 1..((L - n) + 1) : SubSeq(q, n + 1, L + 1)[k] = q[n + k]
<1>1. PICK a \in Int, b \in Int : a = n + 1 /\ b = L + 1 /\ b - a + 1 = (L - n) + 1 /\ a <= b /\ a >= 1
  OBVIOUS
<1>2. PICK r : r = SubSeq(q, a, b)
  OBVIOUS
<1>3. \A i \in a..b : q[i] \in S
  <2>1. ASSUME NEW i \in a..b PROVE q[i] \in S
    <3>1. i \in 1..Len(q)
      BY <1>1
    <3>2. QED
      BY <3>1
  <2>2. QED
    BY <2>1
<1>4. /\ r \in Seq(S) /\ Len(r) = b - a + 1
      /\ \A i \in 1..(b - a + 1) : r[i] = q[a + i - 1]
  BY <1>1, <1>2, <1>3, SubSeqProperties
<1>5. ASSUME NEW k \in 1..((L - n) + 1) PROVE r[k] = q[n + k]
  <2>1. a + k - 1 = n + k /\ k \in 1..(b - a + 1)
    BY <1>1
  <2>2. QED
    BY <1>4, <2>1
<1>6. QED
  BY <1>1, <1>2, <1>4, <1>5

\* A receive that takes the first n messages of the answer to the first request.
AfterInterfaces(r, k) == \E y \in 0..MaxIface : r = Clean(1, y, 0, <<>>) /\ LastIndex(k, y)

LEMMA ReadInterfaces ==
  ASSUME program = "get_sta_info", pc = "waitErr", table \in Wireless,
         NEW n, nl_recvmsgs(n), NEW x \in 0..MaxIface,
         NEW i \in 0..Len(table.ifaces), reg = Clean(1, x, 0, <<>>), LastIndex(i, x), RestOf(i)
  PROVE  InterfaceWait'
<1>1. PICK I \in Nat : I = Len(table.ifaces)
  BY WirelessFacts
<1>2. i \in Nat /\ i <= I /\ MaxIface \in Nat
  BY <1>1, WirelessFacts
<1>3. PICK L \in Nat : L = I - i
  <2>1. I - i \in Nat
    BY <1>1, <1>2
  <2>2. QED
    BY <2>1
<1>4. /\ Len(pending) = L + 1 /\ pending[L + 1] = DONE
      /\ \A k \in 1..L : pending[k] = table.ifaces[i + k]
  BY <1>1, <1>3 DEF RestOf
<1>4a. Len(pending) \in Nat
  BY <1>4
<1>5. PICK f : /\ f[0] = reg /\ reg' = f[n]
               /\ \A k \in 1..n : f[k] = Handle(f[k - 1], pending[k])
  BY <1>4a, ReceivesStep
<1>6. n \in 1..(L + 1)
  BY <1>4, <1>4a, ReceivesStep
<1>7. PICK G \in SUBSET Nat :
        G = {k \in Nat : k <= n /\ k <= L => AfterInterfaces(f[k], i + k)}
  OBVIOUS
<1>8. 0 \in G
  <2>1. i + 0 = i
    BY <1>2
  <2>2. AfterInterfaces(f[0], i + 0)
    BY <1>5, <2>1 DEF AfterInterfaces
  <2>3. QED
    BY <1>7, <2>2
<1>9. ASSUME NEW k \in G PROVE k + 1 \in G
  <2>1. k \in Nat
    BY <1>7
  <2>2. SUFFICES ASSUME k + 1 <= n, k + 1 <= L
                 PROVE  AfterInterfaces(f[k + 1], i + (k + 1))
    BY <1>7, <2>1
  <2>3. PICK y \in 0..MaxIface : f[k] = Clean(1, y, 0, <<>>) /\ LastIndex(i + k, y)
    <3>1. k <= n /\ k <= L
      BY <1>6, <2>1, <2>2
    <3>2. AfterInterfaces(f[k], i + k)
      BY <1>7, <1>9, <3>1
    <3>3. QED
      BY <3>2 DEF AfterInterfaces
  <2>4. /\ k + 1 \in 1..n /\ (k + 1) - 1 = k /\ k + 1 \in 1..L
        /\ i + k \in Nat /\ i + (k + 1) = (i + k) + 1 /\ (i + k) + 1 \in 1..I
    BY <1>2, <1>3, <1>6, <2>1, <2>2
  <2>5. PICK m : m = table.ifaces[(i + k) + 1]
    OBVIOUS
  <2>6. m.kind = "IFACE" /\ m.index \in 0..MaxIface
    BY <1>1, <2>4, <2>5, WirelessFacts
  <2>7. f[k + 1] = Handle(f[k], m)
    BY <1>4, <1>5, <2>4, <2>5
  <2>8. PICK z \in 0..MaxIface : z = IF m.index # 0 THEN m.index ELSE y
    BY <2>6
  <2>9. f[k + 1] = Clean(1, z, 0, <<>>)
    BY <2>3, <2>6, <2>7, <2>8, HandleInterface
  <2>10. LastIndex((i + k) + 1, z)
    BY <1>1, <2>3, <2>4, <2>5, <2>8, LastIndexNext
  <2>11. QED
    BY <2>4, <2>9, <2>10 DEF AfterInterfaces
<1>10. G = Nat
  BY <1>8, <1>9, SetOfAllNaturals
<1>11. UNCHANGED <<table, program>> /\ pending' = SubSeq(pending, n + 1, Len(pending))
  BY DEF nl_recvmsgs
<1>12. PICK S : S = Ifaces \cup {DONE}
  OBVIOUS
<1>12a. pending \in Seq(S)
  BY <1>12 DEF RestOf
<1>13. CASE n <= L
  <2>1. PICK y \in 0..MaxIface : reg' = Clean(1, y, 0, <<>>) /\ LastIndex(i + n, y)
    <3>1. n \in G /\ n <= n
      BY <1>6, <1>10
    <3>2. AfterInterfaces(f[n], i + n)
      BY <1>7, <1>13, <3>1
    <3>3. QED
      BY <1>5, <3>2 DEF AfterInterfaces
  <2>2. i + n \in 0..I /\ I - (i + n) = L - n /\ L - n \in Nat
    BY <1>2, <1>3, <1>6, <1>13
  <2>3. /\ Len(pending') = (L - n) + 1 /\ pending' \in Seq(S)
        /\ \A k \in 1..((L - n) + 1) : pending'[k] = pending[n + k]
    <3>1. PICK q, r : q = pending /\ r = SubSeq(q, n + 1, L + 1)
      OBVIOUS
    <3>2. q \in Seq(S) /\ Len(q) = L + 1 /\ n \in Nat /\ n <= L /\ n >= 1
      BY <1>4, <1>6, <1>12a, <1>13, <3>1
    <3>3. /\ Len(r) = (L - n) + 1 /\ r \in Seq(S)
          /\ \A k \in 1..((L - n) + 1) : r[k] = q[n + k]
      BY <3>1, <3>2, RestOfSeq
    <3>4. r = pending'
      BY <1>4, <1>11, <3>1
    <3>5. QED
      BY <3>1, <3>3, <3>4
  <2>4. RestOf(i + n)'
    <3>1. \A k \in 1..(L - n) : n + k \in 1..L /\ k \in 1..((L - n) + 1) /\ i + (n + k) = (i + n) + k
      BY <1>2, <1>6, <1>13, <2>2
    <3>2. \A k \in 1..(L - n) : pending'[k] = table.ifaces[(i + n) + k]
      BY <1>4, <2>3, <3>1
    <3>3. (L - n) + 1 \in 1..((L - n) + 1) /\ n + ((L - n) + 1) = L + 1
      BY <1>6, <2>2
    <3>4. pending'[(L - n) + 1] = DONE
      BY <1>4, <2>3, <3>3
    <3>5. Seq(Ifaces \cup {DONE})' = Seq(S)
      BY <1>12 DEF Ifaces, Iface, DONE
    <3>6. QED
      BY <1>1, <1>11, <2>2, <2>3, <3>2, <3>4, <3>5 DEF RestOf
  <2>5. LastIndex(i + n, y)'
    BY <1>11, <2>1 DEF LastIndex
  <2>6. QED
    BY <1>1, <1>11, <2>1, <2>2, <2>4, <2>5 DEF InterfaceWait
<1>14. CASE n = L + 1
  <2>1. L <= n /\ L \in G
    BY <1>10, <1>14
  <2>2. PICK y \in 0..MaxIface : f[L] = Clean(1, y, 0, <<>>) /\ LastIndex(i + L, y)
    <3>1. AfterInterfaces(f[L], i + L)
      BY <1>7, <2>1
    <3>2. QED
      BY <3>1 DEF AfterInterfaces
  <2>3. f[n] = Handle(f[L], DONE)
    <3>1. n \in 1..n /\ n - 1 = L
      BY <1>6, <1>14
    <3>2. QED
      BY <1>4, <1>5, <1>14, <3>1
  <2>4. reg' = Clean(0, y, 0, <<>>)
    BY <1>5, <2>2, <2>3, HandleEnd
  <2>5. i + L = I
    BY <1>2, <1>3
  <2>6. LastIndex(Len(table.ifaces), y)'
    BY <1>1, <1>11, <2>2, <2>5 DEF LastIndex
  <2>7. pending' = <<>>
    BY <1>4, <1>11, <1>12a, <1>14
  <2>8. QED
    BY <2>4, <2>6, <2>7 DEF InterfaceWait
<1>15. QED
  BY <1>6, <1>13, <1>14

-----------------------------------------------------------------------------
(* The lines of the stations.                                              *)

\* The fields of the lines that may be printed.
LEMMA LineFields ==
  /\ \A l \in CounterLines :
       \/ l.needs = l.shows /\ l.label = l.shows /\ l.needs \in {"TX_BYTES", "TX_PACKETS", "SIGNAL"}
       \/ l.needs = "RX_BYTES" /\ l.label = "TX_BYTES" /\ l.shows = "RX_BYTES"
       \/ l.needs = "RX_PACKETS" /\ l.label = "RX_PACKETS" /\ l.shows = "TX_PACKETS"
       \/ l.needs = "CHAIN_SIGNAL" /\ l.label = "SIGNAL" /\ l.shows = "CHAIN_SIGNAL"
  /\ \A l \in TxLines : l.needs = l.shows /\ l.label = l.shows /\ l.needs \in {"TX_BITRATE", "TX_WIDTH"}
  /\ \A l \in RxLines :
       \/ l.needs = "RX_BITRATE" /\ l.label = "RX_BITRATE" /\ l.shows = "RX_BITRATE"
       \/ l.needs = "TX_WIDTH" /\ l.label = "RX_WIDTH" /\ l.shows = "TX_WIDTH"
BY DEF CounterLines, TxLines, RxLines, StaLine

\* Every attribute that is ever shown has a line.
LEMMA LineFor ==
  /\ \A n \in {"TX_BYTES", "TX_PACKETS", "SIGNAL", "RX_BYTES", "CHAIN_SIGNAL"} :
       \E l \in CounterLines : l.needs = n /\ l.shows = n
  /\ \A n \in {"TX_BITRATE", "TX_WIDTH"} :
       \E l \in TxLines : l.needs = n /\ l.shows = n /\ l.label = n
  /\ \E l \in RxLines : l.needs = "RX_BITRATE" /\ l.shows = "RX_BITRATE"
<1>1. \A n, c, v : /\ StaLine(n, c, v).needs = n /\ StaLine(n, c, v).label = c
                   /\ StaLine(n, c, v).shows = v
  BY DEF StaLine
<1>2. \A n \in {"TX_BYTES", "TX_PACKETS", "SIGNAL"} : StaLine(n, n, n) \in CounterLines
  BY DEF CounterLines
<1>3. /\ StaLine("RX_BYTES", "TX_BYTES", "RX_BYTES") \in CounterLines
      /\ StaLine("CHAIN_SIGNAL", "SIGNAL", "CHAIN_SIGNAL") \in CounterLines
  BY DEF CounterLines
<1>4. \A n \in {"TX_BITRATE", "TX_WIDTH"} : StaLine(n, n, n) \in TxLines
  BY DEF TxLines
<1>5. StaLine("RX_BITRATE", "RX_BITRATE", "RX_BITRATE") \in RxLines
  BY DEF RxLines
<1>6. QED
  BY <1>1, <1>2, <1>3, <1>4, <1>5

Tx(a) == Nested(a, "TX_BITRATE", "TX_BITRATE_BAD")
Rx(a) == Nested(a, "RX_BITRATE", "RX_BITRATE_BAD")

LEMMA StationLineFacts ==
  ASSUME NEW a, Nested(a, "STA_INFO", "STA_INFO_BAD")
  PROVE  /\ StationLines(a) \subseteq AnyLine
         /\ \A l \in AnyLine : l \in StationLines(a) <=>
              l.needs \in a /\ (l \in TxLines => Tx(a)) /\ (l \in RxLines => Tx(a) /\ Rx(a))
BY DEF StationLines, AnyLine, Tx, Rx

\* What is printed of a station is right.
LEMMA LinesRight ==
  ASSUME NEW a, ~ Missing(a)
  PROVE  StationLines(a) \in SUBSET AnyLine /\ RightLines(a, StationLines(a))
<1>1. CASE ~ Nested(a, "STA_INFO", "STA_INFO_BAD")
  <2>1. StationLines(a) = {} /\ Readable(a) = {}
    BY <1>1 DEF StationLines, Readable
  <2>2. QED
    BY <2>1 DEF RightLines
<1>2. CASE Nested(a, "STA_INFO", "STA_INFO_BAD")
  <2>1. PICK M : M = StationLines(a)
    OBVIOUS
  <2>2. /\ M \subseteq AnyLine
        /\ \A l \in AnyLine : l \in M <=>
             l.needs \in a /\ (l \in TxLines => Tx(a)) /\ (l \in RxLines => Tx(a) /\ Rx(a))
    BY <1>2, <2>1, StationLineFacts
  <2>3. "RX_PACKETS" \in a => "TX_PACKETS" \in a
    BY <1>2 DEF Missing
  <2>4. Readable(a) =
          (a \cap {"TX_BYTES", "TX_PACKETS", "RX_BYTES", "RX_PACKETS", "CHAIN_SIGNAL", "SIGNAL"})
            \cup (IF Tx(a) THEN a \cap {"TX_BITRATE", "TX_WIDTH"} ELSE {})
            \cup (IF Rx(a) THEN a \cap {"RX_BITRATE", "RX_WIDTH"} ELSE {})
    BY <1>2 DEF Readable, Tx, Rx
  <2>5. ASSUME NEW l \in M
        PROVE  /\ l.shows \in Readable(a)
               /\ l.label = l.shows \/ <<l.label, l.shows>> \in Mislabelled
    <3>1. l \in AnyLine /\ l.needs \in a /\ (l \in TxLines => Tx(a)) /\ (l \in RxLines => Tx(a) /\ Rx(a))
      BY <2>2
    <3>2. CASE l \in CounterLines
      BY <2>3, <2>4, <3>1, <3>2, LineFields DEF Mislabelled
    <3>3. CASE l \in TxLines
      BY <2>4, <3>1, <3>3, LineFields
    <3>4. CASE l \in RxLines
      BY <2>4, <3>1, <3>4, LineFields DEF Mislabelled
    <3>5. QED
      BY <3>1, <3>2, <3>3, <3>4 DEF AnyLine
  <2>6. ASSUME NEW x \in Readable(a), x # "RX_PACKETS", x # "RX_WIDTH", ~ Tx(a) => x # "RX_BITRATE"
        PROVE  \E l \in M : l.shows = x
    <3>1. CASE x \in {"TX_BYTES", "TX_PACKETS", "SIGNAL", "RX_BYTES", "CHAIN_SIGNAL"}
      <4>1. PICK l \in CounterLines : l.needs = x /\ l.shows = x
        BY <3>1, LineFor
      <4>2. l \notin TxLines /\ l \notin RxLines
        BY <3>1, <4>1, LineFields
      <4>3. x \in a
        BY <2>4, <2>6, <3>1
      <4>4. QED
        BY <2>2, <4>1, <4>2, <4>3 DEF AnyLine
    <3>2. CASE x \in {"TX_BITRATE", "TX_WIDTH"}
      <4>1. PICK l \in TxLines : l.needs = x /\ l.shows = x /\ l.label = x
        BY <3>2, LineFor
      <4>2. l \notin RxLines
        BY <3>2, <4>1, LineFields
      <4>3. x \in a /\ Tx(a)
        BY <2>4, <2>6, <3>2
      <4>4. QED
        BY <2>2, <4>1, <4>2, <4>3 DEF AnyLine
    <3>3. CASE x = "RX_BITRATE"
      <4>1. PICK l \in RxLines : l.needs = x /\ l.shows = x
        BY <3>3, LineFor
      <4>2. x \in a /\ Rx(a) /\ Tx(a)
        BY <2>4, <2>6, <3>3
      <4>3. QED
        BY <2>2, <4>1, <4>2 DEF AnyLine
    <3>4. QED
      BY <2>4, <2>6, <3>1, <3>2, <3>3
  <2>7. RightLines(a, M)
    BY <2>5, <2>6 DEF RightLines, Tx
  <2>8. QED
    BY <2>1, <2>2, <2>7
<1>3. QED
  BY <1>1, <1>2

\* The registers after the first k stations, with the err and the index they had.
AfterStations(r, st, k, e, x) ==
  \/ r.fault = TRUE
  \/ \E got, out : r = Clean(e, x, got, out) /\ ShownUpto(st, k, got, out)

LEMMA NextStation ==
  ASSUME NEW st, NEW k \in Nat, st[k + 1].kind = "STA", NEW e, NEW x, NEW r, AfterStations(r, st, k, e, x)
  PROVE  AfterStations(Handle(r, st[k + 1]), st, k + 1, e, x)
<1>1. CASE r.fault = TRUE
  BY <1>1, HandleFault DEF AfterStations
<1>2. ASSUME NEW got, NEW out, r = Clean(e, x, got, out), ShownUpto(st, k, got, out)
      PROVE  AfterStations(Handle(r, st[k + 1]), st, k + 1, e, x)
  <2>1. PICK m : m = st[k + 1]
    OBVIOUS
  <2>2. PICK l, h : l = StationLines(m.attrs) /\ h = IF "STA_INFO" \in m.attrs THEN 1 ELSE got
    OBVIOUS
  <2>3. PICK b \in BOOLEAN : b = Missing(m.attrs)
    BY DEF Missing
  <2>4. StationOf(m, b, l, got, h)
    BY <2>1, <2>2, <2>3 DEF StationOf
  <2>5. Handle(r, m) = Fields(e, x, h, b, Append(out, l))
    BY <1>2, <2>4, HandleStation
  <2>6. CASE b = TRUE
    <3>1. Handle(r, m).fault = b
      BY <2>5 DEF Fields
    <3>2. QED
      BY <2>1, <2>6, <3>1 DEF AfterStations
  <2>7. CASE b = FALSE
    <3>1. PICK T : T = SUBSET AnyLine
      OBVIOUS
    <3>2. l \in T /\ RightLines(m.attrs, l)
      BY <2>2, <2>3, <2>7, <3>1, LinesRight
    <3>3. PICK o : o = Append(out, l)
      OBVIOUS
    <3>4. out \in Seq(T) /\ Len(out) = k
      BY <1>2, <3>1 DEF ShownUpto
    <3>5. o \in Seq(T) /\ Len(o) = k + 1 /\ o[k + 1] = l /\ \A j \in 1..k : o[j] = out[j]
      BY <3>2, <3>3, <3>4, SequenceFacts
    <3>6. \A j : j \in 1..(k + 1) <=> j \in 1..k \/ j = k + 1
      OBVIOUS
    <3>7. \A j \in 1..(k + 1) : RightLines(st[j].attrs, o[j])
      <4>1. ASSUME NEW j \in 1..k PROVE RightLines(st[j].attrs, o[j])
        BY <1>2, <3>5 DEF ShownUpto
      <4>2. RightLines(st[k + 1].attrs, o[k + 1])
        BY <2>1, <3>2, <3>5
      <4>3. QED
        BY <3>6, <4>1, <4>2
    <3>8. h # 0 => \E j \in 1..(k + 1) : HasInfo(st, j)
      <4>1. CASE "STA_INFO" \in m.attrs
        BY <2>1, <3>6, <4>1 DEF HasInfo
      <4>2. CASE "STA_INFO" \notin m.attrs
        BY <1>2, <2>2, <3>6, <4>2 DEF ShownUpto
      <4>3. QED
        BY <4>1, <4>2
    <3>9. ShownUpto(st, k + 1, h, o)
      BY <3>1, <3>5, <3>7, <3>8 DEF ShownUpto
    <3>10. Handle(r, m) = Clean(e, x, h, o)
      BY <2>5, <2>7, <3>3, CleanFields, Zenon
    <3>11. QED
      BY <2>1, <3>9, <3>10 DEF AfterStations
  <2>8. QED
    BY <2>6, <2>7
<1>3. QED
  BY <1>1, <1>2 DEF AfterStations

\* A receive that finds the error message.
LEMMA ReadError ==
  ASSUME program = "get_sta_info", pc = "waitErr", NEW n, nl_recvmsgs(n), MaxIface \in Nat,
         reg = Clean(1, 0, 0, <<>>), pending = <<ERROR>>
  PROVE  InterfaceWait'
<1>1. PICK p : p = pending
  OBVIOUS
<1>2. p \in Seq({ERROR}) /\ Len(p) = 1 /\ p[1] = ERROR
  BY <1>1
<1>3. n \in 1..1
  BY <1>1, <1>2, ReceivesStep
<1>4. PICK f : /\ f[0] = reg /\ reg' = f[n]
               /\ \A k \in 1..n : f[k] = Handle(f[k - 1], pending[k])
  BY <1>1, <1>2, ReceivesStep
<1>5. n = 1
  BY <1>3
<1>6. reg' = Handle(reg, ERROR)
  BY <1>1, <1>2, <1>4, <1>5
<1>7. reg' = Clean(-1, 0, 0, <<>>)
  BY <1>6, HandleEnd
<1>8. pending' = <<>>
  BY <1>1, <1>2, <1>5 DEF nl_recvmsgs
<1>9. QED
  BY <1>7, <1>8 DEF InterfaceWait

\* The answer to the first request.
LEMMA InterfacesAsked ==
  ASSUME table \in Wireless, table' = table, reg' = reg, reg = Clean(1, 0, 0, <<>>),
         pending' = table.ifaces \o <<DONE>> \/ pending' = <<ERROR>>
  PROVE  InterfaceWait'
<1>1. MaxIface \in Nat /\ 0 \in 0..MaxIface
  BY WirelessFacts
<1>2. CASE pending' = <<ERROR>>
  BY <1>1, <1>2 DEF InterfaceWait
<1>3. CASE pending' = table.ifaces \o <<DONE>>
  <2>0. PICK u : u = table.ifaces
    OBVIOUS
  <2>1. PICK n \in Nat : u = table.ifaces /\ n = Len(u) /\ u \in Seq(Ifaces)
    BY <2>0, WirelessFacts
  <2>2. PICK S : S = Ifaces \cup {DONE}
    OBVIOUS
  <2>3. u \in Seq(S) /\ <<DONE>> \in Seq(S) /\ Len(<<DONE>>) = 1 /\ <<DONE>>[1] = DONE
    <3>1. Ifaces \subseteq S /\ DONE \in S
      BY <2>2
    <3>2. QED
      BY <2>1, <3>1, ShortSequences
  <2>4. PICK p : p = u \o <<DONE>>
    OBVIOUS
  <2>5. /\ p \in Seq(S) /\ Len(p) = n + 1 /\ p[n + 1] = DONE
        /\ \A k \in 1..n : p[k] = u[k]
    BY <2>1, <2>3, <2>4
  <2>6. n - 0 = n /\ \A k \in 1..n : 0 + k = k
    BY <2>1
  <2>7. p = pending'
    BY <1>3, <2>1, <2>4
  <2>8. RestOf(0)'
    <3>1. Seq(Ifaces \cup {DONE})' = Seq(S)
      BY <2>2 DEF Ifaces, Iface, DONE
    <3>2. QED
      BY <2>1, <2>5, <2>6, <2>7, <3>1 DEF RestOf
  <2>9. LastIndex(0, 0)'
    BY DEF LastIndex
  <2>10. 0 \in 0..Len(table'.ifaces)
    BY <2>1
  <2>11. QED
    BY <1>1, <2>8, <2>9, <2>10 DEF InterfaceWait
<1>4. QED
  BY <1>2, <1>3

\* A receive of the answer to the second request: unless it fails on the way or a
\* counter is missing, the whole answer has been shown.
LEMMA ReadStations ==
  ASSUME program = "get_sta_info", pc = "waitGot", table \in Wireless, NEW n, nl_recvmsgs(n),
         NEW x, Indexed(x), NEW e, reg = Clean(e, x, 0, <<>>),
         pending = table.stations[x] \o <<DONE>>, ~ reg'.fault, n >= Len(pending)
  PROVE  StationWait'
<1>1. PICK st : st = table.stations[x]
  OBVIOUS
<1>2. x \in 1..MaxIface
  BY DEF Indexed
<1>3a. PICK L \in Nat : L = Len(st) /\ \A k \in 1..L : st[k].kind = "STA"
  BY <1>1, <1>2, StationFacts
<1>3b. PICK S : st \in Seq(S)
  BY <1>1, <1>2, StationFacts
<1>3. L = Len(st) /\ st \in Seq(S) /\ \A k \in 1..L : st[k].kind = "STA"
  BY <1>3a, <1>3b
<1>4. PICK p : p = pending
  OBVIOUS
<1>5. Len(p) = L + 1 /\ p[L + 1] = DONE /\ \A k \in 1..L : p[k] = st[k]
  <2>1. PICK T : T = S \cup {DONE}
    OBVIOUS
  <2>2. st \in Seq(T) /\ <<DONE>> \in Seq(T) /\ Len(<<DONE>>) = 1 /\ <<DONE>>[1] = DONE
    <3>1. S \subseteq T /\ DONE \in T
      BY <2>1
    <3>2. QED
      BY <1>3, <3>1, ShortSequences
  <2>3. p = st \o <<DONE>>
    BY <1>1, <1>4
  <2>4. QED
    BY <1>3, <2>2, <2>3
<1>6. Len(pending) \in Nat
  BY <1>4, <1>5
<1>7. n = L + 1
  <2>1. n \in 1..Len(pending)
    BY <1>6, ReceivesStep
  <2>2. QED
    BY <1>4, <1>5, <2>1
<1>8. PICK f : /\ f[0] = reg /\ reg' = f[n]
               /\ \A k \in 1..n : f[k] = Handle(f[k - 1], pending[k])
  BY <1>6, ReceivesStep
<1>9. PICK G \in SUBSET Nat : G = {k \in Nat : k <= L => AfterStations(f[k], st, k, e, x)}
  OBVIOUS
<1>10. 0 \in G
  <2>1. ShownUpto(st, 0, 0, <<>>)
    <3>1. <<>> \in Seq(SUBSET AnyLine) /\ Len(<<>>) = 0
      BY EmptySeq
    <3>2. QED
      BY <3>1 DEF ShownUpto
  <2>2. AfterStations(f[0], st, 0, e, x)
    BY <1>8, <2>1 DEF AfterStations
  <2>3. QED
    BY <1>9, <2>2
<1>11. ASSUME NEW k \in G PROVE k + 1 \in G
  <2>1. k \in Nat
    BY <1>9
  <2>2. SUFFICES ASSUME k + 1 <= L PROVE AfterStations(f[k + 1], st, k + 1, e, x)
    BY <1>9, <2>1
  <2>3. k <= L /\ k + 1 \in 1..L /\ k + 1 \in 1..n /\ (k + 1) - 1 = k
    BY <1>7, <2>1, <2>2
  <2>4. AfterStations(f[k], st, k, e, x)
    BY <1>9, <1>11, <2>3
  <2>5. f[k + 1] = Handle(f[k], st[k + 1])
    BY <1>4, <1>5, <1>8, <2>3
  <2>6. st[k + 1].kind = "STA"
    BY <1>3, <2>3
  <2>7. QED
    BY <2>1, <2>4, <2>5, <2>6, NextStation
<1>12. AfterStations(f[L], st, L, e, x)
  <2>1. L \in G
    BY <1>10, <1>11, SetOfAllNaturals
  <2>2. QED
    BY <1>9, <2>1
<1>13. reg' = Handle(f[L], DONE)
  <2>1. n \in 1..n /\ n - 1 = L
    BY <1>7
  <2>2. QED
    BY <1>4, <1>5, <1>7, <1>8, <2>1
<1>14. f[L].fault # TRUE
  BY <1>13, HandleFault
<1>15. PICK got, out : f[L] = Clean(e, x, got, out) /\ ShownUpto(st, L, got, out)
  BY <1>12, <1>14 DEF AfterStations
<1>16. reg' = Clean(e, x, got, out)
  BY <1>13, <1>15, HandleEnd
<1>17. table' = table /\ pending' = <<>>
  <2>1. table' = table /\ pending' = SubSeq(p, n + 1, Len(p))
    BY <1>4 DEF nl_recvmsgs
  <2>2. n + 1 > Len(p)
    BY <1>5, <1>7
  <2>3. QED
    BY <1>5, <1>7, <2>1, <2>2
<1>18. Indexed(x)'
  BY <1>17 DEF Indexed, LastIndex
<1>19. ShownUpto(table'.stations[x], Len(table'.stations[x]), got, out)
  BY <1>1, <1>3, <1>15, <1>17
<1>20. QED
  BY <1>16, <1>17, <1>18, <1>19 DEF StationWait

\* The stations st of the interface with index x have been shown.
AllShown(ifaces, st, x, out) ==
  /\ \E k \in 1..Len(ifaces) : /\ ifaces[k].index = x /\ x # 0
                              /\ \A j \in (k + 1)..Len(ifaces) : ifaces[j].index = 0
  /\ \E k \in 1..Len(st) : "STA_INFO" \in st[k].attrs
  /\ Len(out) = Len(st)
  /\ \A k \in 1..Len(st) : RightLines(st[k].attrs, out[k])

\* What the flag got stands for once the second loop is left.
LEMMA ShownAtEnd ==
  ASSUME table \in Wireless, StationWait, reg.got # 0
  PROVE  AllShown(table.ifaces, table.stations[reg.idx], reg.idx, reg.out)
<1>1. PICK x, e, got, out :
        /\ Indexed(x) /\ reg = Clean(e, x, got, out)
        /\ \/ got = 0
           \/ ShownUpto(table.stations[x], Len(table.stations[x]), got, out)
  BY DEF StationWait
<1>2. reg.got = got /\ reg.idx = x /\ reg.out = out
  BY <1>1, CleanFacts
<1>3. PICK st : st = table.stations[x]
  OBVIOUS
<1>4. ShownUpto(st, Len(st), got, out) /\ got # 0
  BY <1>1, <1>2, <1>3
<1>5. \E k \in 1..Len(table.ifaces) :
        /\ table.ifaces[k].index = x /\ x # 0
        /\ \A j \in (k + 1)..Len(table.ifaces) : table.ifaces[j].index = 0
  <2>1. x # 0
    BY <1>1 DEF Indexed
  <2>2. QED
    BY <1>1, <2>1 DEF Indexed, LastIndex
<1>6. /\ \E k \in 1..Len(st) : "STA_INFO" \in st[k].attrs
      /\ Len(out) = Len(st) /\ \A k \in 1..Len(st) : RightLines(st[k].attrs, out[k])
  BY <1>4 DEF ShownUpto, HasInfo
<1>7. QED
  BY <1>2, <1>3, <1>5, <1>6 DEF AllShown

LEMMA StationInit == Init => StationInv
<1>1. SUFFICES ASSUME Init PROVE StationInv
  OBVIOUS
<1>2. Idle
  BY <1>1, EntriesInit DEF EntriesInv
<1>3. ASSUME program = "get_sta_info" PROVE StationOK
  <2>1. program \in LibnlUser /\ program \notin Dumper
    BY <1>3 DEF LibnlUser, Dumper
  <2>2. pc = "getInterface" /\ table \in Wireless
    BY <1>1, <2>1 DEF Init
  <2>3. reg = Clean(1, 0, 0, <<>>)
    BY <1>1, Zenon DEF Init, Clean
  <2>4. QED
    BY <2>2, <2>3 DEF StationOK
<1>4. QED
  BY <1>2, <1>3 DEF StationInv

LEMMA StationStep ==
  ASSUME program = "get_sta_info", StationOK, GetStaInfoMain
  PROVE  StationOK'
<1>1. table' = table /\ program' = program /\ table \in Wireless /\ table' \in Wireless'
  <2>1. table' = table /\ program' = program /\ table \in Wireless
    BY DEF GetStaInfoMain, get_interface_index, get_station_info, Request, WaitErr, LeaveWaitErr,
           WaitGot, LeaveWaitGot, nl_recvmsgs, StationOK
  <2>2. Wireless' = Wireless
    BY DEF Wireless, Iface, Sta
  <2>3. QED
    BY <2>1, <2>2
<1>2. CASE get_interface_index
  <2>1. reg' = reg /\ reg = Clean(1, 0, 0, <<>>) /\ pc = "getInterface"
    BY <1>2 DEF get_interface_index, Request, StationOK
  <2>2. \/ pc' = "notSent"
        \/ pc' = "waitErr" /\ (pending' = table.ifaces \o <<DONE>> \/ pending' = <<ERROR>>)
    BY <1>2 DEF get_interface_index, Request
  <2>3. pc' = "waitErr" => InterfaceWait'
    BY <1>1, <2>1, <2>2, InterfacesAsked
  <2>4. QED
    BY <1>1, <2>2, <2>3 DEF StationOK
<1>3. CASE WaitErr
  <2>1. pc = "waitErr" /\ pc' = pc /\ InterfaceWait
    BY <1>3 DEF WaitErr, StationOK
  <2>2. PICK n \in 1..Len(pending) : nl_recvmsgs(n)
    BY <1>3 DEF WaitErr
  <2>3. MaxIface \in Nat
    BY <1>1, WirelessFacts
  <2>4. reg.err > 0
    BY <1>3 DEF WaitErr
  <2>5. InterfaceWait'
    <3>1. PICK x \in 0..MaxIface :
            \/ \E i \in 0..Len(table.ifaces) :
                 reg = Clean(1, x, 0, <<>>) /\ LastIndex(i, x) /\ RestOf(i)
            \/ reg = Clean(1, 0, 0, <<>>) /\ pending = <<ERROR>>
            \/ pending = <<>>
      BY <2>1 DEF InterfaceWait
    <3>2. CASE \E i \in 0..Len(table.ifaces) :
                 reg = Clean(1, x, 0, <<>>) /\ LastIndex(i, x) /\ RestOf(i)
      BY <1>1, <2>1, <2>2, <3>2, ReadInterfaces
    <3>3. CASE reg = Clean(1, 0, 0, <<>>) /\ pending = <<ERROR>>
      BY <2>1, <2>2, <2>3, <3>3, ReadError
    <3>4. CASE pending = <<>>
      BY <2>2, <3>4
    <3>5. QED
      BY <3>1, <3>2, <3>3, <3>4
  <2>6. QED
    BY <1>1, <2>1, <2>5 DEF StationOK
<1>4. CASE LeaveWaitErr
  <2>1. /\ pc = "waitErr" /\ reg.err <= 0 /\ reg.idx # 0 /\ pc' = "getStation" /\ reg' = reg
        /\ InterfaceWait
    BY <1>4 DEF LeaveWaitErr, StationOK
  <2>2. PICK x \in 0..MaxIface :
          \/ reg = Clean(1, x, 0, <<>>)
          \/ reg = Clean(0, x, 0, <<>>) /\ LastIndex(Len(table.ifaces), x)
          \/ reg = Clean(1, 0, 0, <<>>)
          \/ reg = Clean(-1, 0, 0, <<>>)
    BY <2>1 DEF InterfaceWait
  <2>3. reg # Clean(1, x, 0, <<>>) /\ reg # Clean(1, 0, 0, <<>>) /\ reg # Clean(-1, 0, 0, <<>>)
    BY <2>1, CleanFacts
  <2>4. reg = Clean(0, x, 0, <<>>) /\ LastIndex(Len(table.ifaces), x) /\ reg.idx = x
    BY <2>2, <2>3, CleanFacts
  <2>5. MaxIface \in Nat /\ x \in 1..MaxIface
    BY <1>1, <2>1, <2>4, WirelessFacts
  <2>6. Indexed(x)'
    BY <1>1, <2>4, <2>5 DEF Indexed, LastIndex
  <2>7. reg' = Clean(0, x, 0, <<>>)
    BY <2>1, <2>4
  <2>8. QED
    BY <1>1, <2>1, <2>6, <2>7 DEF StationOK
<1>5. CASE get_station_info
  <2>1. pc = "getStation" /\ reg' = reg
    BY <1>5 DEF get_station_info, Request
  <2>2. PICK x, e : Indexed(x) /\ reg = Clean(e, x, 0, <<>>)
    BY <2>1 DEF StationOK
  <2>3. reg.idx = x
    BY <2>2, CleanFacts
  <2>4. \/ pc' = "notSent"
        \/ pc' = "waitGot" /\ (pending' = table.stations[x] \o <<DONE>> \/ pending' = <<ERROR>>)
    BY <1>5, <2>3 DEF get_station_info, Request
  <2>5. Indexed(x)'
    BY <1>1, <2>2 DEF Indexed, LastIndex
  <2>6. pc' = "waitGot" => StationWait'
    <3>1. CASE pending' = table.stations[x] \o <<DONE>>
      <4>1. DONE' = DONE
        BY DEF DONE
      <4>2. QED
        BY <1>1, <2>1, <2>2, <2>5, <3>1, <4>1 DEF StationWait
    <3>2. CASE pending' = <<ERROR>>
      <4>1. ERROR' = ERROR
        BY DEF ERROR
      <4>2. QED
        BY <1>1, <2>1, <2>2, <2>5, <3>2, <4>1 DEF StationWait
    <3>3. QED
      BY <2>4, <3>1, <3>2
  <2>7. QED
    BY <1>1, <2>4, <2>6 DEF StationOK
<1>6. CASE WaitGot
  <2>1. pc = "waitGot" /\ StationWait
    BY <1>6 DEF WaitGot, StationOK
  <2>2. PICK n \in 1..Len(pending) :
          /\ nl_recvmsgs(n)
          /\ pc' = IF reg'.fault THEN "fault"
                   ELSE IF n < Len(pending) \/ pending[n].kind = "ERROR" THEN "error" ELSE pc
    BY <1>6 DEF WaitGot
  <2>3. pc' \in {"fault", "error", "waitGot"}
    BY <2>1, <2>2
  <2>4. ASSUME pc' = "waitGot" PROVE StationWait'
    <3>1. ~ reg'.fault /\ ~ (n < Len(pending)) /\ pending[n].kind # "ERROR"
      BY <2>2, <2>4
    <3>2. PICK x, e, got, out :
            /\ Indexed(x) /\ reg = Clean(e, x, got, out)
            /\ \/ got = 0 /\ out = <<>> /\ pending = table.stations[x] \o <<DONE>>
               \/ pending = <<ERROR>>
               \/ pending = <<>>
      BY <2>1 DEF StationWait
    <3>3. CASE got = 0 /\ out = <<>> /\ pending = table.stations[x] \o <<DONE>>
      <4>1. PICK L \in Nat : L = Len(pending)
        <5>1. x \in 1..MaxIface
          BY <3>2 DEF Indexed
        <5>2. PICK st, S : st = table.stations[x] /\ st \in Seq(S)
          BY <1>1, <5>1, StationFacts
        <5>3. PICK p : p = st \o <<DONE>>
          OBVIOUS
        <5>4. Len(p) \in Nat
          BY <5>2, <5>3
        <5>5. QED
          BY <3>3, <5>2, <5>3, <5>4
      <4>2. n >= Len(pending)
        BY <2>2, <3>1, <4>1
      <4>3. reg = Clean(e, x, 0, <<>>)
        BY <3>2, <3>3
      <4>4. QED
        BY <1>1, <2>1, <2>2, <3>1, <3>2, <3>3, <4>2, <4>3, ReadStations
    <3>4. CASE pending = <<ERROR>>
      BY <2>2, <3>1, <3>4 DEF ERROR
    <3>5. CASE pending = <<>>
      BY <2>2, <3>5
    <3>6. QED
      BY <3>2, <3>3, <3>4, <3>5
  <2>5. QED
    BY <1>1, <2>3, <2>4 DEF StationOK
<1>7. CASE LeaveWaitGot
  <2>1. pc' = "ok" /\ reg' = reg /\ StationWait /\ reg.got # 0
    BY <1>7 DEF LeaveWaitGot, StationOK
  <2>2. AllShown(table'.ifaces, table'.stations[reg'.idx], reg'.idx, reg'.out)
    BY <1>1, <2>1, ShownAtEnd
  <2>3. StationShown'
    BY <2>2 DEF AllShown, StationShown
  <2>4. QED
    BY <1>1, <2>1, <2>3 DEF StationOK
<1>8. QED
  BY <1>2, <1>3, <1>4, <1>5, <1>6, <1>7 DEF GetStaInfoMain

LEMMA StationNext == StationInv /\ EntriesInv /\ [Next]_vars => StationInv'
<1>1. SUFFICES ASSUME StationInv, EntriesInv, [Next]_vars PROVE StationInv'
  OBVIOUS
<1>2. Idle'
  BY <1>1, EntriesNext DEF EntriesInv
<1>3. program' = program
  BY <1>1, ProgramKept DEF vars
<1>4. SUFFICES ASSUME program = "get_sta_info", StationOK PROVE StationOK'
  BY <1>1, <1>2, <1>3 DEF StationInv
<1>5. CASE UNCHANGED vars
  <2>1. UNCHANGED <<program, pc, table, pending, reg>>
    BY <1>5 DEF vars
  <2>2. Wireless' = Wireless /\ Ifaces' = Ifaces /\ DONE' = DONE /\ ERROR' = ERROR
    BY DEF Wireless, Ifaces, Iface, Sta, DONE, ERROR
  <2>3. \A i, x : LastIndex(i, x)' = LastIndex(i, x) /\ Indexed(x)' = Indexed(x)
    BY <2>1 DEF LastIndex, Indexed
  <2>4. \A i : RestOf(i)' = RestOf(i)
    BY <2>1, <2>2 DEF RestOf
  <2>5. InterfaceWait' = InterfaceWait
    BY <2>1, <2>2, <2>3, <2>4 DEF InterfaceWait
  <2>6. StationWait' = StationWait
    BY <2>1, <2>2, <2>3 DEF StationWait
  <2>7. StationShown' = StationShown
    BY <2>1 DEF StationShown
  <2>8. QED
    BY <1>4, <2>1, <2>2, <2>3, <2>5, <2>6, <2>7 DEF StationOK
<1>6. CASE Next
  <2>1. server = "off" /\ \A c \in Client : client[c].at = "connect"
    BY <1>1, <1>4 DEF StationInv, Idle
  <2>2. ~ Receive /\ ~ GetAddr /\ ~ GetLink /\ ~ GetRoute /\ ~ RouteChange /\ ~ Listen
    BY <1>4 DEF Receive, GetAddr, GetLink, GetRoute, RouteChange, Listen, Dumper
  <2>3. ~ ServerListen /\ ~ ServerAccept
    BY <1>4, <2>1 DEF ServerListen, ServerAccept
  <2>4. ~ ServerRecv /\ ~ ServerRecvFails
    BY <2>1, TcpAssumption DEF ServerRecv, ServerRecvFails
  <2>5. ~ \E c \in Client : ClientMain(c)
    BY <1>4, <2>1 DEF ClientMain, ClientConnect, ClientSend
  <2>6. GetStaInfoMain
    BY <1>4, <1>6, <2>2, <2>3, <2>4, <2>5 DEF Next, LibnlStep, GenetlinkTestMain
  <2>7. QED
    BY <1>4, <2>6, StationStep
<1>7. QED
  BY <1>1, <1>5, <1>6

\* get_sta_info ends well only with information on a station, and has then printed, once and
\* in order, every station of the interface that was listed last: each with all that can be
\* read of it and under its own label, but for the four lines and the attributes named in
\* the property.  So for any number of interfaces and stations, wherever receiving stops and
\* is taken up again: no answer to the request for the interfaces is taken for one to the
\* request for the stations.
THEOREM StationsOfLastInterface == Spec => []StationShown
<1>1. StationInv => StationShown
  BY DEF StationInv, StationOK, StationShown
<1>2. QED
  BY <1>1, EntriesInit, EntriesNext, StationInit, StationNext, PTL DEF Spec
=============================================================================
