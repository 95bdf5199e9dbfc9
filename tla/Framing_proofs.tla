--------------------------- MODULE Framing_proofs ---------------------------
(***************************************************************************)
(* The packet layer delivers the packets whole, once and in order, for all   *)
(* sizes of the buffers, all packets and any number of threads.  The         *)
(* argument starts with the VarInts: they are recursive functions, and what  *)
(* they compute is proved from the least number principle, first that the    *)
(* recursions define functions at all, then that reading takes back what     *)
(* writing made.  A stream of frames is a third recursive function, and the  *)
(* inductive invariant says that what is received, on the wire and gone with *)
(* a process that died is the stream of the packets not handled yet.         *)
(***************************************************************************)
EXTENDS Framing, SequenceTheorems, WellFoundedInduction, TLAPS

-----------------------------------------------------------------------------
(* Recursive functions.                                                     *)

\* Every set of naturals that is not empty has a least element.
LEMMA Least ==
  ASSUME NEW T \in SUBSET Nat, T # {}
  PROVE  \E x \in T : \A y \in T : x <= y
  <1> DEFINE R == {ss \in Nat \X Nat : ss[1] < ss[2]}
  <1>1. IsWellFoundedOn(R, Nat)
    BY NatLessThanWellFounded DEF OpToRel
  <1> HIDE DEF R
  <1>2. PICK x \in T : \A y \in T : <<y, x>> \notin R
    BY <1>1, WFMin
  <1>3. ASSUME NEW y \in T PROVE x <= y
    <2>1. <<y, x>> \notin R
      BY <1>2
    <2>2. <<y, x>> \in Nat \X Nat /\ x \in Nat /\ y \in Nat
      OBVIOUS
    <2>3. ~ (y < x)
      BY <2>1, <2>2 DEF R
    <2> QED BY <2>2, <2>3
  <1> QED BY <1>3

\* A recursion on D with values in R: B holds the arguments where it ends, with the
\* values b; next is the argument of the recursive call, from whose value h makes
\* the value; and the natural number m falls along it.
Recursive(D, R, B, b, h, next, m) ==
  /\ b \in [D -> R] /\ h \in [D -> [R -> R]]
  /\ next \in [D -> D] /\ m \in [D -> Nat]
  /\ \A x \in D : x \notin B => m[next[x]] < m[x]

\* Such a recursion has a solution.
LEMMA Recursion ==
  ASSUME NEW D, NEW R, NEW B, NEW b, NEW h, NEW next, NEW m,
         Recursive(D, R, B, b, h, next, m)
  PROVE  \E f \in [D -> R] : \A x \in D :
            f[x] = IF x \in B THEN b[x] ELSE h[x][f[next[x]]]
  <1> USE DEF Recursive
  <1> DEFINE Below(n) == {x \in D : m[x] < n}
             Good(f, n) == /\ f \in [Below(n) -> R]
                           /\ \A x \in Below(n) :
                                f[x] = IF x \in B THEN b[x] ELSE h[x][f[next[x]]]
  <1>1. ASSUME NEW n \in Nat, NEW k \in Nat, NEW f, NEW g, Good(f, n), Good(g, k),
               NEW x \in Below(n), x \in Below(k)
        PROVE  f[x] = g[x]
    <2> DEFINE T == {j \in Nat : \E y \in D : m[y] = j /\ y \in Below(n) /\ y \in Below(k) /\ f[y] # g[y]}
    <2> SUFFICES ASSUME f[x] # g[x] PROVE FALSE
      OBVIOUS
    <2>1. m[x] \in T
      BY <1>1
    <2>2. PICK j \in T : \A i \in T : j <= i
      <3>1. T \in SUBSET Nat /\ T # {}
        BY <2>1
      <3> HIDE DEF T
      <3> QED BY <3>1, Least
    <2>3. PICK y \in D : m[y] = j /\ y \in Below(n) /\ y \in Below(k) /\ f[y] # g[y]
      BY <2>2
    <2>4. y \notin B
      BY <1>1, <2>3
    <2>5. m[next[y]] < m[y] /\ next[y] \in D /\ m[next[y]] \in Nat /\ m[y] \in Nat
      BY <2>4
    <2>6. next[y] \in Below(n) /\ next[y] \in Below(k)
      BY <2>3, <2>5
    <2>7. f[next[y]] # g[next[y]]
      BY <1>1, <2>3, <2>4
    <2>8. m[next[y]] \in T
      BY <2>5, <2>6, <2>7
    <2> QED BY <2>2, <2>3, <2>5, <2>8
  <1>2. ASSUME NEW n \in Nat PROVE \E f : Good(f, n)
    <2> DEFINE T == {j \in Nat : ~ \E f : Good(f, j)}
    <2> SUFFICES ASSUME n \in T PROVE FALSE
      OBVIOUS
    <2>1. PICK j \in T : \A i \in T : j <= i
      <3>1. T \in SUBSET Nat /\ T # {}
        OBVIOUS
      <3> HIDE DEF T
      <3> QED BY <3>1, Least
    <2>2. CASE j = 0
      <3>1. Below(j) = {}
        BY <2>2
      <3>2. Good([x \in Below(j) |-> b[x]], j)
        BY <3>1
      <3> QED BY <2>1, <3>2
    <2>3. CASE j # 0
      <3>1. j - 1 \in Nat /\ ~ (j - 1 \in T)
        <4>1. j \in Nat
          BY <2>1
        <4> HIDE DEF T
        <4> QED BY <2>1, <2>3, <4>1
      <3>2. PICK f : Good(f, j - 1)
        BY <3>1
      <3> DEFINE g == [x \in Below(j) |-> IF x \in B THEN b[x] ELSE h[x][f[next[x]]]]
      <3>3. ASSUME NEW x \in Below(j), x \notin B
            PROVE  next[x] \in Below(j - 1) /\ next[x] \in Below(j) /\ f[next[x]] \in R
        <4>1. m[next[x]] < m[x] /\ m[next[x]] \in Nat /\ m[x] \in Nat /\ m[x] < j /\ j \in Nat /\ next[x] \in D
          BY <3>3, <2>1
        <4>2. next[x] \in Below(j - 1) /\ next[x] \in Below(j)
          BY <4>1
        <4> QED BY <4>2, <3>2
      <3>4. ASSUME NEW x \in Below(j - 1) PROVE g[x] = f[x]
        <4>1. x \in Below(j)
          <5>1. m[x] \in Nat /\ j \in Nat /\ m[x] < j - 1 /\ x \in D
            BY <2>1
          <5> QED BY <5>1
        <4> QED BY <4>1, <3>2
      <3>5. g \in [Below(j) -> R]
        BY <3>3
      <3>6. ASSUME NEW x \in Below(j)
            PROVE  g[x] = IF x \in B THEN b[x] ELSE h[x][g[next[x]]]
        BY <3>3, <3>4
      <3>7. Good(g, j)
        BY <3>5, <3>6
      <3> QED BY <3>7, <2>1
    <2> QED BY <2>2, <2>3
  <1> HIDE DEF Good
  <1> DEFINE F(n) == CHOOSE f : Good(f, n)
  <1>3. ASSUME NEW n \in Nat PROVE Good(F(n), n)
    BY <1>2
  <1> HIDE DEF F
  <1> DEFINE f == [x \in D |-> F(m[x] + 1)[x]]
  <1>4. ASSUME NEW x \in D
        PROVE  f[x] \in R /\ f[x] = IF x \in B THEN b[x] ELSE h[x][f[next[x]]]
    <2>1. m[x] \in Nat /\ m[x] + 1 \in Nat /\ x \in Below(m[x] + 1)
      OBVIOUS
    <2>2. Good(F(m[x] + 1), m[x] + 1)
      BY <2>1, <1>3
    <2>3. /\ F(m[x] + 1)[x] \in R
          /\ F(m[x] + 1)[x] = IF x \in B THEN b[x] ELSE h[x][F(m[x] + 1)[next[x]]]
      BY <2>1, <2>2 DEF Good
    <2>4. ASSUME x \notin B PROVE F(m[x] + 1)[next[x]] = f[next[x]]
      <3>1. next[x] \in D /\ m[next[x]] \in Nat /\ m[next[x]] + 1 \in Nat /\ m[next[x]] < m[x]
        BY <2>4
      <3>2. next[x] \in Below(m[next[x]] + 1) /\ next[x] \in Below(m[x] + 1)
        BY <2>1, <3>1
      <3>3. Good(F(m[next[x]] + 1), m[next[x]] + 1)
        BY <3>1, <1>3
      <3>4. F(m[x] + 1)[next[x]] = F(m[next[x]] + 1)[next[x]]
        BY <1>1, <2>1, <2>2, <3>1, <3>2, <3>3
      <3> QED BY <3>1, <3>4
    <2> QED BY <2>3, <2>4
  <1>5. f \in [D -> R]
    BY <1>4
  <1> HIDE DEF f
  <1> QED BY <1>4, <1>5

-----------------------------------------------------------------------------
(* VarInts.                                                                 *)

\* Division and remainder by the base.
LEMMA DivMod ==
  ASSUME NEW n \in Nat
  PROVE  /\ n \div Base \in Nat /\ n % Base \in 0..(Base - 1)
         /\ n = Base * (n \div Base) + (n % Base)
         /\ n >= Base => n \div Base < n
  <1>1. Base \in Nat /\ Base >= 2
    BY FramingAssumption
  <1> DEFINE q == n \div Base
             r == n % Base
  <1>2. q \in Nat /\ r \in 0..(Base - 1) /\ n = Base * q + r
    BY <1>1
  <1> HIDE DEF q, r
  <1>3. ASSUME n >= Base PROVE q < n
    <2> SUFFICES ASSUME q >= n PROVE FALSE
      BY <1>2
    <2>1. Base * q >= 2 * q
      BY <1>1, <1>2
    <2> QED BY <1>1, <1>2, <1>3, <2>1
  <1> QED BY <1>2, <1>3 DEF q, r

\* Bytes are naturals, and the marked ones are those from Base on.
LEMMA Bytes ==
  /\ Base \in Nat /\ Base >= 2
  /\ \A n \in 0..(Base - 1) : n \in Byte /\ Base + n \in Byte
  /\ \A b \in Byte : b \in Nat /\ b % Base \in Nat
  <1>1. Base \in Nat /\ Base >= 2
    BY FramingAssumption
  <1> QED BY <1>1 DEF Byte

\* The recursion of WriteVarInt32.
LEMMA VarIntDef ==
  \A n \in Nat :
    VarInt[n] = IF n < Base THEN <<n>> ELSE <<Base + (n % Base)>> \o VarInt[n \div Base]
  <1> DEFINE D == Nat
             R == Seq(Byte)
             B == 0..(Base - 1)
             b == [n \in Nat |-> IF n < Base THEN <<n>> ELSE <<>>]
             h == [n \in Nat |-> [s \in R |-> <<Base + (n % Base)>> \o s]]
             next == [n \in Nat |-> n \div Base]
             m == [n \in Nat |-> n]
             Def(f) == [n \in Nat |-> IF n < Base THEN <<n>>
                                      ELSE <<Base + (n % Base)>> \o f[n \div Base]]
  <1>1. b \in [D -> R]
    <2>1. ASSUME NEW n \in Nat, n < Base PROVE <<n>> \in R
      BY <2>1, Bytes
    <2> QED BY <2>1
  <1>2. h \in [D -> [R -> R]]
    <2>1. ASSUME NEW n \in Nat, NEW s \in R PROVE <<Base + (n % Base)>> \o s \in R
      <3>1. Base + (n % Base) \in Byte
        BY DivMod, Bytes
      <3>2. <<Base + (n % Base)>> \in R
        BY <3>1
      <3> QED BY <3>2, ConcatProperties
    <2> QED BY <2>1
  <1>3. next \in [D -> D] /\ m \in [D -> Nat]
    BY DivMod
  <1>4. \A n \in D : n \notin B => m[next[n]] < m[n]
    <2>1. ASSUME NEW n \in Nat, n \notin B PROVE n \div Base < n /\ n \div Base \in Nat
      BY <2>1, DivMod, Bytes
    <2> QED BY <2>1
  <1>5. PICK f \in [D -> R] :
          \A n \in D : f[n] = IF n \in B THEN b[n] ELSE h[n][f[next[n]]]
    <2>1. Recursive(D, R, B, b, h, next, m)
      BY <1>1, <1>2, <1>3, <1>4 DEF Recursive
    <2> HIDE DEF D, R, B, b, h, next, m
    <2> QED BY <2>1, Recursion
  <1>6. ASSUME NEW n \in Nat
        PROVE  f[n] = IF n < Base THEN <<n>> ELSE <<Base + (n % Base)>> \o f[n \div Base]
    <2>1. n \in B <=> n < Base
      BY Bytes
    <2>2. n \div Base \in Nat
      BY DivMod
    <2>3. f[n \div Base] \in R
      BY <2>2
    <2> QED BY <1>5, <2>1, <2>2, <2>3
  <1>7. f = Def(f)
    BY <1>6
  <1>8. VarInt = CHOOSE g : g = Def(g)
    BY DEF VarInt
  <1> HIDE DEF Def
  <1>9. VarInt = Def(VarInt)
    BY <1>7, <1>8
  <1> QED BY <1>9 DEF Def

\* The recursion of ReadVarInt32.
LEMMA DigitsDef ==
  \A s \in Seq(Byte) :
    Digits[s] = IF s = <<>> THEN 0 ELSE (Head(s) % Base) + Base * Digits[Tail(s)]
  <1> DEFINE D == Seq(Byte)
             B == {<<>>}
             b == [s \in D |-> 0]
             h == [s \in D |-> [v \in Nat |-> IF s = <<>> THEN 0 ELSE (Head(s) % Base) + Base * v]]
             next == [s \in D |-> IF s = <<>> THEN <<>> ELSE Tail(s)]
             m == [s \in D |-> Len(s)]
             Def(f) == [s \in D |-> IF s = <<>> THEN 0 ELSE (Head(s) % Base) + Base * f[Tail(s)]]
  <1>1. h \in [D -> [Nat -> Nat]]
    <2>1. ASSUME NEW s \in D, s # <<>>, NEW v \in Nat
          PROVE  (Head(s) % Base) + Base * v \in Nat
      <3>1. Head(s) % Base \in Nat /\ Base \in Nat
        BY <2>1, Bytes, HeadTailProperties
      <3>2. Base * v \in Nat
        BY <3>1
      <3> QED BY <3>1, <3>2
    <2> QED BY <2>1
  <1>2. next \in [D -> D] /\ m \in [D -> Nat] /\ b \in [D -> Nat]
    BY HeadTailProperties, EmptySeq, LenProperties
  <1>3. ASSUME NEW s \in D, s \notin B PROVE m[next[s]] < m[s]
    <2>1. Tail(s) \in D /\ Len(Tail(s)) = Len(s) - 1 /\ Len(s) \in Nat
      BY <1>3, HeadTailProperties, LenProperties
    <2> QED BY <1>3, <2>1
  <1>4. PICK f \in [D -> Nat] :
          \A s \in D : f[s] = IF s \in B THEN b[s] ELSE h[s][f[next[s]]]
    <2>1. Recursive(D, Nat, B, b, h, next, m)
      BY <1>1, <1>2, <1>3 DEF Recursive
    <2> HIDE DEF D, B, b, h, next, m
    <2> QED BY <2>1, Recursion
  <1>5. ASSUME NEW s \in D
        PROVE  f[s] = IF s = <<>> THEN 0 ELSE (Head(s) % Base) + Base * f[Tail(s)]
    <2>1. CASE s = <<>>
      BY <1>4, <2>1
    <2>2. CASE s # <<>>
      <3>1. next[s] = Tail(s) /\ Tail(s) \in D /\ f[Tail(s)] \in Nat
        BY <2>2, HeadTailProperties
      <3> QED BY <1>4, <2>2, <3>1
    <2> QED BY <2>1, <2>2
  <1>6. f = Def(f)
    BY <1>5
  <1>7. Digits = CHOOSE g : g = Def(g)
    BY DEF Digits
  <1> HIDE DEF Def
  <1>8. Digits = Def(Digits)
    BY <1>6, <1>7
  <1> QED BY <1>8 DEF Def

\* Digits make a natural number.
LEMMA DigitsType ==
  ASSUME NEW s \in Seq(Byte)
  PROVE  Digits[s] \in Nat
  <1> DEFINE T == {n \in Nat : \E t \in Seq(Byte) : Len(t) = n /\ Digits[t] \notin Nat}
  <1> SUFFICES ASSUME Digits[s] \notin Nat PROVE FALSE
    OBVIOUS
  <1>1. Len(s) \in T
    BY LenProperties
  <1>2. PICK n \in T : \A k \in T : n <= k
    <2>1. T \in SUBSET Nat /\ T # {}
      BY <1>1
    <2> HIDE DEF T
    <2> QED BY <2>1, Least
  <1>3. PICK t \in Seq(Byte) : Len(t) = n /\ Digits[t] \notin Nat
    BY <1>2
  <1>4. t # <<>> /\ Digits[t] = (Head(t) % Base) + Base * Digits[Tail(t)]
    BY <1>3, DigitsDef
  <1>5. Tail(t) \in Seq(Byte) /\ Len(Tail(t)) = n - 1 /\ Head(t) % Base \in Nat /\ n \in Nat
    BY <1>3, <1>4, HeadTailProperties, Bytes
  <1>6. Digits[Tail(t)] \notin Nat
    <2> SUFFICES ASSUME Digits[Tail(t)] \in Nat PROVE FALSE
      OBVIOUS
    <2>1. Base * Digits[Tail(t)] \in Nat
      BY Bytes
    <2> QED BY <2>1, <1>3, <1>4, <1>5
  <1>7. n - 1 \in T
    <2>1. n - 1 \in Nat
      BY <1>5, LenProperties
    <2> QED BY <2>1, <1>5, <1>6
  <1> HIDE DEF T
  <1> QED BY <1>2, <1>5, <1>7

\* A digit is its own remainder.
LEMMA SmallMod ==
  ASSUME NEW r \in 0..(Base - 1)
  PROVE  r % Base = r /\ (Base + r) % Base = r
  BY FramingAssumption

\* What WriteVarInt32 makes: all bytes but the last are marked, and the digits make
\* the number.
LEMMA VarIntBytes ==
  ASSUME NEW n \in Nat
  PROVE  /\ VarInt[n] \in Seq(Byte) /\ Len(VarInt[n]) >= 1
         /\ VarInt[n][Len(VarInt[n])] < Base
         /\ \A i \in 1..(Len(VarInt[n]) - 1) : VarInt[n][i] >= Base
         /\ Digits[VarInt[n]] = n
  <1> DEFINE Good(k) == /\ VarInt[k] \in Seq(Byte) /\ Len(VarInt[k]) >= 1
                        /\ VarInt[k][Len(VarInt[k])] < Base
                        /\ \A i \in 1..(Len(VarInt[k]) - 1) : VarInt[k][i] >= Base
                        /\ Digits[VarInt[k]] = k
             T == {k \in Nat : ~Good(k)}
  <1> SUFFICES ASSUME n \in T PROVE FALSE
    OBVIOUS
  <1> HIDE DEF Good
  <1>1. PICK k \in T : \A j \in T : k <= j
    <2>1. T \in SUBSET Nat /\ T # {}
      OBVIOUS
    <2> HIDE DEF T
    <2> QED BY <2>1, Least
  <1>2. k \in Nat
    BY <1>1
  <1>3. CASE k < Base
    <2>1. VarInt[k] = <<k>>
      BY <1>2, <1>3, VarIntDef
    <2>2. k \in Byte
      BY <1>2, <1>3, Bytes
    <2>3. <<k>> \in Seq(Byte) /\ Len(<<k>>) = 1 /\ Head(<<k>>) = k /\ Tail(<<k>>) = <<>> /\ <<k>> # <<>>
      BY <2>2
    <2>4. k % Base = k
      BY <1>2, <1>3, SmallMod, Bytes
    <2>5. Digits[<<>>] = 0 /\ Digits[<<k>>] = (k % Base) + Base * Digits[<<>>]
      BY <2>3, DigitsDef, EmptySeq
    <2>6. Digits[<<k>>] = k
      <3>1. Base * 0 = 0
        BY Bytes
      <3> QED BY <2>4, <2>5, <3>1, <1>2
    <2>7. Good(k)
      BY <2>1, <2>3, <2>6, <1>3, <1>2 DEF Good
    <2> QED BY <2>7, <1>1
  <1>4. CASE k >= Base
    <2> DEFINE q == k \div Base
               v == VarInt[q]
               d == Base + (k % Base)
    <2>1. q \in Nat /\ q < k /\ k % Base \in 0..(Base - 1) /\ k = Base * q + (k % Base)
      BY <1>2, <1>4, DivMod
    <2>2. Good(q)
      <3>1. q \notin T
        <4> HIDE DEF T, q
        <4> QED BY <1>1, <1>2, <2>1
      <3> QED BY <3>1, <2>1
    <2>3. VarInt[k] = <<d>> \o v
      <3>1. ~(k < Base)
        BY <1>2, <1>4, Bytes
      <3> QED BY <1>2, <3>1, VarIntDef
    <2>4. d \in Byte /\ d >= Base /\ d \in Nat
      BY <2>1, Bytes
    <2>5. v \in Seq(Byte) /\ Len(v) \in Nat /\ Len(v) >= 1
      BY <2>2, LenProperties DEF Good
    <2> DEFINE u == <<d>> \o v
    <2>6. u \in Seq(Byte) /\ Len(u) = Len(v) + 1 /\ u[1] = d /\ \A i \in 1..Len(v) : u[i + 1] = v[i]
      <3> HIDE DEF d, v
      <3>1. <<d>> \in Seq(Byte) /\ Len(<<d>>) = 1 /\ <<d>>[1] = d
        BY <2>4
      <3>2. u \in Seq(Byte) /\ Len(u) = 1 + Len(v)
        BY <2>5, <3>1, ConcatProperties
      <3>3. \A i \in 1..(1 + Len(v)) : u[i] = IF i <= 1 THEN <<d>>[i] ELSE v[i - 1]
        BY <2>5, <3>1, ConcatProperties
      <3> QED BY <2>5, <3>1, <3>2, <3>3
    <2>7. u # <<>> /\ Head(u) = d /\ Tail(u) = v
      <3> HIDE DEF d, v
      <3>1. u # <<>> /\ Head(u) = u[1]
        BY <2>5, <2>6, EmptySeq
      <3>2. Tail(u) \in Seq(Byte) /\ Len(Tail(u)) = Len(v) /\ \A i \in 1..Len(v) : Tail(u)[i] = u[i + 1]
        BY <2>5, <2>6, <3>1, HeadTailProperties
      <3>3. Tail(u) = v
        BY <2>5, <2>6, <3>2, SeqEqual
      <3> QED BY <2>6, <3>1, <3>3
    <2>8. Digits[u] = k
      <3>1. Digits[u] = (d % Base) + Base * Digits[v]
        BY <2>6, <2>7, DigitsDef
      <3>2. Digits[v] = q
        BY <2>2 DEF Good
      <3>3. d % Base = k % Base
        BY <2>1, SmallMod
      <3> HIDE DEF u, v, d, q
      <3> QED BY <2>1, <3>1, <3>2, <3>3, Bytes
    <2>9. u[Len(u)] < Base /\ \A i \in 1..(Len(u) - 1) : u[i] >= Base
      <3>1. v[Len(v)] < Base /\ \A i \in 1..(Len(v) - 1) : v[i] >= Base
        BY <2>2 DEF Good
      <3> HIDE DEF u, v, d
      <3>2. u[Len(u)] = v[Len(v)]
        BY <2>5, <2>6
      <3>3. ASSUME NEW i \in 1..(Len(u) - 1) PROVE u[i] >= Base
        <4>1. CASE i = 1
          BY <4>1, <2>4, <2>6
        <4>2. CASE i # 1
          <5>1. i - 1 \in 1..(Len(v) - 1) /\ i - 1 \in 1..Len(v) /\ (i - 1) + 1 = i
            BY <4>2, <2>5, <2>6
          <5> QED BY <5>1, <2>6, <3>1
        <4> QED BY <4>1, <4>2
      <3> QED BY <3>1, <3>2, <3>3
    <2>10. Good(k)
      BY <2>3, <2>5, <2>6, <2>8, <2>9 DEF Good
    <2> QED BY <2>10, <1>1
  <1> QED BY <1>2, <1>3, <1>4, Bytes

\* ReadVarInt32 reads up to the first byte that is not marked, if there is one.
LEMMA SizeFacts ==
  ASSUME NEW s \in Seq(Byte)
  PROVE  /\ VarIntSize(s) \in 0..Len(s)
         /\ VarIntSize(s) > 0 => /\ s[VarIntSize(s)] < Base
                                 /\ \A i \in 1..(VarIntSize(s) - 1) : s[i] >= Base
         /\ VarIntSize(s) = 0 => \A i \in 1..Len(s) : s[i] >= Base
  <1> DEFINE ends == {k \in 1..Len(s) : s[k] < Base}
  <1>1. Len(s) \in Nat /\ \A i \in 1..Len(s) : s[i] \in Nat
    BY Bytes, LenProperties, ElementOfSeq
  <1>2. CASE ends = {}
    <2>1. VarIntSize(s) = 0
      BY <1>2 DEF VarIntSize
    <2>2. ASSUME NEW i \in 1..Len(s) PROVE s[i] >= Base
      <3>1. ~(s[i] < Base)
        BY <1>2
      <3>2. s[i] \in Nat /\ Base \in Nat
        BY <1>1, Bytes
      <3> QED BY <3>1, <3>2
    <2> QED BY <1>1, <2>1, <2>2
  <1>3. CASE ends # {}
    <2>1. ends \in SUBSET Nat
      BY <1>1
    <2>2. \E k \in ends : \A j \in ends : k <= j
      <3> HIDE DEF ends
      <3> QED BY <1>3, <2>1, Least
    <2> DEFINE k == CHOOSE k \in ends : \A j \in ends : k <= j
    <2>3. VarIntSize(s) = k
      BY <1>3 DEF VarIntSize
    <2>4. k \in ends /\ \A j \in ends : k <= j
      <3> HIDE DEF ends
      <3> QED BY <2>2
    <2> HIDE DEF k
    <2>5. k \in 1..Len(s) /\ s[k] < Base
      BY <2>4
    <2>6. ASSUME NEW i \in 1..(k - 1) PROVE s[i] >= Base
      <3>1. i \in 1..Len(s) /\ ~(k <= i)
        BY <1>1, <2>5
      <3>2. i \notin ends
        BY <2>4, <3>1
      <3>3. ~(s[i] < Base)
        BY <3>1, <3>2
      <3>4. s[i] \in Nat /\ Base \in Nat
        BY <1>1, <3>1, Bytes
      <3> QED BY <3>3, <3>4
    <2> QED BY <1>1, <2>3, <2>5, <2>6
  <1> QED BY <1>2, <1>3

\* The first byte that is not marked is where it stops.
LEMMA SizeIs ==
  ASSUME NEW s \in Seq(Byte), NEW k \in 1..Len(s), s[k] < Base,
         \A i \in 1..(k - 1) : s[i] >= Base
  PROVE  VarIntSize(s) = k
  <1> DEFINE n == VarIntSize(s)
  <1>1. Len(s) \in Nat /\ Base \in Nat /\ \A i \in 1..Len(s) : s[i] \in Nat
    BY Bytes, LenProperties, ElementOfSeq
  <1>2. /\ n \in 0..Len(s)
        /\ n > 0 => s[n] < Base /\ \A i \in 1..(n - 1) : s[i] >= Base
        /\ n = 0 => \A i \in 1..Len(s) : s[i] >= Base
    BY SizeFacts
  <1> HIDE DEF n
  <1>3. n # 0
    BY <1>1, <1>2
  <1>4. ~(n < k)
    <2>1. n < k => n \in 1..(k - 1) /\ n \in 1..Len(s)
      BY <1>1, <1>2, <1>3
    <2> QED BY <2>1, <1>1, <1>2, <1>3
  <1>5. ~(k < n)
    <2>1. k < n => k \in 1..(n - 1)
      BY <1>1, <1>2, <1>3
    <2> QED BY <2>1, <1>1, <1>2, <1>3
  <1> QED BY <1>1, <1>2, <1>4, <1>5 DEF n

\* What ReadVarInt32 returns is a natural number.
LEMMA ReadType ==
  ASSUME NEW s \in Seq(Byte)
  PROVE  ReadVarInt32(s) \in Nat
  <1>1. VarIntSize(s) \in 0..Len(s) /\ Len(s) \in Nat
    BY SizeFacts, LenProperties
  <1>2. SubSeq(s, 1, VarIntSize(s)) \in Seq(Byte)
    BY <1>1, SubSeqProperties
  <1> QED BY <1>2, DigitsType DEF ReadVarInt32

\* The elements of a concatenation.
LEMMA Concat ==
  ASSUME NEW S, NEW s \in Seq(S), NEW t \in Seq(S)
  PROVE  /\ s \o t \in Seq(S) /\ Len(s \o t) = Len(s) + Len(t)
         /\ Len(s) \in Nat /\ Len(t) \in Nat
         /\ \A i \in 1..Len(s) : (s \o t)[i] = s[i]
         /\ \A i \in 1..Len(t) : (s \o t)[Len(s) + i] = t[i]
  <1>1. Len(s) \in Nat /\ Len(t) \in Nat
    BY LenProperties
  <1>2. /\ s \o t \in Seq(S) /\ Len(s \o t) = Len(s) + Len(t)
        /\ \A i \in 1..(Len(s) + Len(t)) : (s \o t)[i] = IF i <= Len(s) THEN s[i] ELSE t[i - Len(s)]
    BY ConcatProperties
  <1> QED BY <1>1, <1>2

\* What follows a VarInt does not change how it is read.
LEMMA ReadExtended ==
  ASSUME NEW s \in Seq(Byte), NEW t \in Seq(Byte), VarIntSize(s) > 0
  PROVE  VarIntSize(s \o t) = VarIntSize(s) /\ ReadVarInt32(s \o t) = ReadVarInt32(s)
  <1> DEFINE k == VarIntSize(s)
             u == s \o t
  <1>1. u \in Seq(Byte) /\ Len(u) = Len(s) + Len(t) /\ Len(s) \in Nat /\ Len(t) \in Nat
        /\ \A i \in 1..Len(s) : u[i] = s[i]
    BY Concat
  <1>2. k \in 1..Len(s) /\ s[k] < Base /\ \A i \in 1..(k - 1) : s[i] >= Base
    BY SizeFacts, <1>1
  <1> HIDE DEF k, u
  <1>3. k \in 1..Len(u) /\ u[k] < Base /\ \A i \in 1..(k - 1) : u[i] >= Base
    BY <1>1, <1>2
  <1>4. VarIntSize(u) = k
    BY <1>1, <1>3, SizeIs
  <1>5. SubSeq(u, 1, k) = SubSeq(s, 1, k)
    <2>1. 1 \in 1..(Len(u) + 1) /\ k \in 0..Len(u) /\ 1 \in 1..(Len(s) + 1) /\ k \in 0..Len(s)
      BY <1>1, <1>2
    <2>2. SubSeq(u, 1, k) \in Seq(Byte) /\ Len(SubSeq(u, 1, k)) = k
          /\ \A i \in 1..k : SubSeq(u, 1, k)[i] = u[i]
      BY <1>1, <1>2, <2>1, SubSeqProperties
    <2>3. SubSeq(s, 1, k) \in Seq(Byte) /\ Len(SubSeq(s, 1, k)) = k
          /\ \A i \in 1..k : SubSeq(s, 1, k)[i] = s[i]
      BY <1>1, <1>2, <2>1, SubSeqProperties
    <2>4. \A i \in 1..k : u[i] = s[i]
      BY <1>1, <1>2
    <2> QED BY <2>2, <2>3, <2>4, SeqEqual
  <1> QED BY <1>4, <1>5 DEF ReadVarInt32, k, u

\* ReadVarInt32 takes back what WriteVarInt32 wrote, whatever follows it, and nothing
\* short of all of it: for every number, not only the ones TLC tries.
THEOREM RoundTrip ==
  ASSUME NEW n \in Nat, NEW s \in Seq(Byte)
  PROVE  /\ ReadVarInt32(WriteVarInt32(n) \o s) = n
         /\ VarIntSize(WriteVarInt32(n) \o s) = Len(WriteVarInt32(n))
         /\ \A k \in 0..(Len(WriteVarInt32(n)) - 1) : VarIntSize(SubSeq(WriteVarInt32(n), 1, k)) = 0
  <1> DEFINE v == WriteVarInt32(n)
  <1>1. /\ v \in Seq(Byte) /\ Len(v) >= 1 /\ Len(v) \in Nat
        /\ v[Len(v)] < Base
        /\ \A i \in 1..(Len(v) - 1) : v[i] >= Base
        /\ Digits[v] = n
    BY VarIntBytes, LenProperties DEF WriteVarInt32
  <1> HIDE DEF v
  <1>2. VarIntSize(v) = Len(v)
    <2>1. Len(v) \in 1..Len(v)
      BY <1>1
    <2> QED BY <1>1, <2>1, SizeIs
  <1>3. ReadVarInt32(v) = n
    <2>1. SubSeq(v, 1, Len(v)) = v
      BY <1>1, SubSeqFull
    <2> QED BY <1>1, <1>2, <2>1 DEF ReadVarInt32
  <1>4. ReadVarInt32(v \o s) = n /\ VarIntSize(v \o s) = Len(v)
    BY <1>1, <1>2, <1>3, ReadExtended
  <1>5. ASSUME NEW k \in 0..(Len(v) - 1) PROVE VarIntSize(SubSeq(v, 1, k)) = 0
    <2> DEFINE u == SubSeq(v, 1, k)
    <2>1. u \in Seq(Byte) /\ Len(u) = k /\ \A i \in 1..k : u[i] = v[i]
      <3>1. 1 \in 1..(Len(v) + 1) /\ k \in 0..Len(v) /\ k \in Nat
        BY <1>1
      <3> QED BY <1>1, <3>1, SubSeqProperties
    <2>2. \A i \in 1..k : u[i] >= Base /\ u[i] \in Nat
      <3>1. \A i \in 1..k : i \in 1..(Len(v) - 1) /\ i \in 1..Len(v)
        BY <1>1
      <3>2. \A i \in 1..Len(v) : v[i] \in Nat
        BY <1>1, ElementOfSeq, Bytes
      <3> HIDE DEF u
      <3> QED BY <1>1, <2>1, <3>1, <3>2
    <2> HIDE DEF u
    <2>3. VarIntSize(u) \in 0..k /\ (VarIntSize(u) > 0 => u[VarIntSize(u)] < Base)
      BY <2>1, SizeFacts
    <2>4. VarIntSize(u) = 0
      BY <2>2, <2>3, Bytes
    <2> QED BY <2>4 DEF u
  <1> QED BY <1>4, <1>5 DEF v

\* A number below a power of the base loses a power with every digit, and a VarInt
\* is one byte longer than that of what the first digit leaves.
LEMMA OneDigit ==
  ASSUME NEW n \in Nat, NEW m \in Nat, n < Base * m
  PROVE  /\ n \div Base \in Nat /\ n \div Base < m
         /\ Len(VarInt[n]) = 1 \/ Len(VarInt[n]) = 1 + Len(VarInt[n \div Base])
  <1>1. Base \in Nat /\ Base >= 2
    BY Bytes
  <1>2. n \div Base \in Nat /\ n \div Base < m
    <2> DEFINE q == n \div Base
               r == n % Base
    <2>1. q \in Nat /\ r \in Nat /\ n = Base * q + r
      BY <1>1, DivMod
    <2> HIDE DEF q, r
    <2>2. q < m
      <3> SUFFICES ASSUME q >= m PROVE FALSE
        BY <2>1
      <3>1. Base * q >= Base * m
        BY <1>1, <2>1
      <3>2. Base * q \in Nat /\ Base * m \in Nat
        BY <1>1, <2>1
      <3> QED BY <2>1, <3>1, <3>2
    <2> QED BY <2>1, <2>2 DEF q
  <1>3. ASSUME n < Base PROVE Len(VarInt[n]) = 1
    <2>1. VarInt[n] = << n >>
      BY <1>3, VarIntDef
    <2> QED BY <2>1
  <1>4. ASSUME ~(n < Base) PROVE Len(VarInt[n]) = 1 + Len(VarInt[n \div Base])
    <2>1. VarInt[n] = <<Base + (n % Base)>> \o VarInt[n \div Base]
      BY <1>4, VarIntDef
    <2>2. Base + (n % Base) \in Byte
      BY DivMod, Bytes
    <2>3. <<Base + (n % Base)>> \in Seq(Byte) /\ Len(<<Base + (n % Base)>>) = 1
      BY <2>2
    <2>4. VarInt[n \div Base] \in Seq(Byte)
      BY <1>2, VarIntBytes
    <2> HIDE DEF Byte
    <2> QED BY <2>1, <2>3, <2>4, ConcatProperties
  <1> QED BY <1>2, <1>3, <1>4

\* A number of at most five digits takes at most five bytes: WriteVarInt32 stays in
\* its array b, and ReadVarInt32 shifts by at most four digits when it reads what
\* WriteVarInt32 wrote.  With Base = 128 every number of 32 bits is such a number.
THEOREM FiveBytes ==
  ASSUME NEW n \in Nat, n < Base * (Base * (Base * (Base * Base)))
  PROVE  Len(WriteVarInt32(n)) \in 1..5
  <1>1. Base \in Nat /\ Base >= 2
    BY Bytes
  <1> DEFINE d1 == n \div Base
             d2 == d1 \div Base
             d3 == d2 \div Base
             d4 == d3 \div Base
             B2 == Base * Base
             B3 == Base * B2
             B4 == Base * B3
  <1>2. B2 \in Nat
    BY <1>1
  <1>3. B3 \in Nat
    <2> HIDE DEF B2
    <2> QED BY <1>1, <1>2
  <1>4. B4 \in Nat
    <2> HIDE DEF B3
    <2> QED BY <1>1, <1>3
  <1>5. /\ d1 \in Nat /\ d1 < B4
        /\ Len(VarInt[n]) = 1 \/ Len(VarInt[n]) = 1 + Len(VarInt[d1])
    <2>1. n < Base * B4
      OBVIOUS
    <2> HIDE DEF B4
    <2> QED BY <1>4, <2>1, OneDigit
  <1>6. /\ d2 \in Nat /\ d2 < B3
        /\ Len(VarInt[d1]) = 1 \/ Len(VarInt[d1]) = 1 + Len(VarInt[d2])
    <2>1. d1 \in Nat /\ d1 < Base * B3
      BY <1>5
    <2> HIDE DEF B3, d1
    <2> QED BY <1>3, <2>1, OneDigit
  <1>7. /\ d3 \in Nat /\ d3 < B2
        /\ Len(VarInt[d2]) = 1 \/ Len(VarInt[d2]) = 1 + Len(VarInt[d3])
    <2>1. d2 \in Nat /\ d2 < Base * B2
      BY <1>6
    <2> HIDE DEF B2, d2
    <2> QED BY <1>2, <2>1, OneDigit
  <1>8. /\ d4 \in Nat /\ d4 < Base
        /\ Len(VarInt[d3]) = 1 \/ Len(VarInt[d3]) = 1 + Len(VarInt[d4])
    <2>1. d3 \in Nat /\ d3 < Base * Base
      BY <1>7
    <2> HIDE DEF d3
    <2> QED BY <1>1, <2>1, OneDigit
  <1>9. Len(VarInt[d4]) = 1
    <2>1. VarInt[d4] = << d4 >>
      BY <1>8, VarIntDef
    <2> HIDE DEF d4
    <2> QED BY <2>1
  <1> DEFINE l0 == Len(VarInt[n])
             l1 == Len(VarInt[d1])
             l2 == Len(VarInt[d2])
             l3 == Len(VarInt[d3])
             l4 == Len(VarInt[d4])
  <1>10. /\ l0 = 1 \/ l0 = 1 + l1
         /\ l1 = 1 \/ l1 = 1 + l2
         /\ l2 = 1 \/ l2 = 1 + l3
         /\ l3 = 1 \/ l3 = 1 + l4
         /\ l4 = 1
    BY <1>5, <1>6, <1>7, <1>8, <1>9
  <1>11. l0 \in 1..5
    <2> HIDE DEF l0, l1, l2, l3, l4
    <2> QED BY <1>10
  <1> QED BY <1>11 DEF WriteVarInt32

-----------------------------------------------------------------------------
(* Frames.                                                                  *)

\* What SendPacket puts on the wire for a packet.
Packet == Seq(Byte)
Frame(p) == WriteVarInt32(Len(p)) \o p

\* The frames of several packets.
Encoded[ps \in Seq(Packet)] ==
  IF ps = <<>> THEN <<>> ELSE Frame(Head(ps)) \o Encoded[Tail(ps)]

\* Concatenation of bytes is associative.
LEMMA Associative ==
  ASSUME NEW s \in Seq(Byte), NEW t \in Seq(Byte), NEW u \in Seq(Byte)
  PROVE  s \o (t \o u) = (s \o t) \o u
  BY ConcatAssociative

\* A frame is a sequence of bytes, and not an empty one.
LEMMA FrameType ==
  ASSUME NEW p \in Packet
  PROVE  /\ Frame(p) \in Seq(Byte) /\ Len(p) \in Nat
         /\ WriteVarInt32(Len(p)) \in Seq(Byte) /\ Len(WriteVarInt32(Len(p))) \in Nat
         /\ Len(WriteVarInt32(Len(p))) >= 1
         /\ Len(Frame(p)) = Len(WriteVarInt32(Len(p))) + Len(p)
  <1>1. Len(p) \in Nat
    BY LenProperties DEF Packet
  <1>2. WriteVarInt32(Len(p)) \in Seq(Byte) /\ Len(WriteVarInt32(Len(p))) >= 1
    BY <1>1, VarIntBytes DEF WriteVarInt32
  <1> QED BY <1>1, <1>2, Concat DEF Frame, Packet

\* The recursion of Encoded.
LEMMA EncodedDef ==
  \A ps \in Seq(Packet) :
    Encoded[ps] = IF ps = <<>> THEN <<>> ELSE Frame(Head(ps)) \o Encoded[Tail(ps)]
  <1> DEFINE D == Seq(Packet)
             R == Seq(Byte)
             B == {<<>>}
             b == [ps \in D |-> <<>>]
             h == [ps \in D |-> [s \in R |-> IF ps = <<>> THEN <<>> ELSE Frame(Head(ps)) \o s]]
             next == [ps \in D |-> IF ps = <<>> THEN <<>> ELSE Tail(ps)]
             m == [ps \in D |-> Len(ps)]
             Def(f) == [ps \in D |-> IF ps = <<>> THEN <<>> ELSE Frame(Head(ps)) \o f[Tail(ps)]]
  <1>1. h \in [D -> [R -> R]]
    <2>1. ASSUME NEW ps \in D, ps # <<>>, NEW s \in R PROVE Frame(Head(ps)) \o s \in R
      <3>1. Head(ps) \in Packet
        BY <2>1, HeadTailProperties
      <3> QED BY <3>1, FrameType, Concat
    <2>2. <<>> \in R
      BY EmptySeq
    <2> QED BY <2>1, <2>2
  <1>2. next \in [D -> D] /\ m \in [D -> Nat] /\ b \in [D -> R]
    BY HeadTailProperties, EmptySeq, LenProperties
  <1>3. ASSUME NEW ps \in D, ps \notin B PROVE m[next[ps]] < m[ps]
    <2>1. Tail(ps) \in D /\ Len(Tail(ps)) = Len(ps) - 1 /\ Len(ps) \in Nat
      BY <1>3, HeadTailProperties, LenProperties
    <2> QED BY <1>3, <2>1
  <1>4. PICK f \in [D -> R] :
          \A ps \in D : f[ps] = IF ps \in B THEN b[ps] ELSE h[ps][f[next[ps]]]
    <2>1. Recursive(D, R, B, b, h, next, m)
      BY <1>1, <1>2, <1>3 DEF Recursive
    <2> HIDE DEF D, R, B, b, h, next, m
    <2> QED BY <2>1, Recursion
  <1>5. ASSUME NEW ps \in D
        PROVE  f[ps] = IF ps = <<>> THEN <<>> ELSE Frame(Head(ps)) \o f[Tail(ps)]
    <2>1. CASE ps = <<>>
      BY <1>4, <2>1
    <2>2. CASE ps # <<>>
      <3>1. next[ps] = Tail(ps) /\ Tail(ps) \in D /\ f[Tail(ps)] \in R
        BY <2>2, HeadTailProperties
      <3> QED BY <1>4, <2>2, <3>1
    <2> QED BY <2>1, <2>2
  <1>6. f = Def(f)
    BY <1>5
  <1>7. Encoded = CHOOSE g : g = Def(g)
    BY DEF Encoded
  <1> HIDE DEF Def
  <1>8. Encoded = Def(Encoded)
    BY <1>6, <1>7
  <1> QED BY <1>8 DEF Def

\* Frames make a sequence of bytes.
LEMMA EncodedType ==
  ASSUME NEW ps \in Seq(Packet)
  PROVE  Encoded[ps] \in Seq(Byte)
  <1> DEFINE T == {n \in Nat : \E qs \in Seq(Packet) : Len(qs) = n /\ Encoded[qs] \notin Seq(Byte)}
  <1> SUFFICES ASSUME Encoded[ps] \notin Seq(Byte) PROVE FALSE
    OBVIOUS
  <1>1. Len(ps) \in T
    BY LenProperties
  <1>2. PICK n \in T : \A k \in T : n <= k
    <2>1. T \in SUBSET Nat /\ T # {}
      BY <1>1
    <2> HIDE DEF T
    <2> QED BY <2>1, Least
  <1>3. PICK qs \in Seq(Packet) : Len(qs) = n /\ Encoded[qs] \notin Seq(Byte)
    BY <1>2
  <1>4. qs # <<>> /\ Encoded[qs] = Frame(Head(qs)) \o Encoded[Tail(qs)]
    BY <1>3, EncodedDef, EmptySeq
  <1>5. Tail(qs) \in Seq(Packet) /\ Len(Tail(qs)) = n - 1 /\ Head(qs) \in Packet /\ n \in Nat /\ n # 0
    BY <1>3, <1>4, HeadTailProperties, EmptySeq
  <1>6. Encoded[Tail(qs)] \notin Seq(Byte)
    BY <1>3, <1>4, <1>5, FrameType, Concat
  <1>7. n - 1 \in T
    <2>1. n - 1 \in Nat
      BY <1>5
    <2> QED BY <2>1, <1>5, <1>6
  <1> HIDE DEF T
  <1> QED BY <1>2, <1>5, <1>7

\* One more packet is one more frame at the end.
LEMMA EncodedAppend ==
  ASSUME NEW ps \in Seq(Packet), NEW p \in Packet
  PROVE  Encoded[Append(ps, p)] = Encoded[ps] \o Frame(p)
  <1> DEFINE Wrong(qs) == Encoded[Append(qs, p)] # Encoded[qs] \o Frame(p)
             T == {n \in Nat : \E qs \in Seq(Packet) : Len(qs) = n /\ Wrong(qs)}
  <1> SUFFICES ASSUME Wrong(ps) PROVE FALSE
    OBVIOUS
  <1> HIDE DEF Wrong
  <1>1. Len(ps) \in T
    BY LenProperties
  <1>2. PICK n \in T : \A k \in T : n <= k
    <2>1. T \in SUBSET Nat /\ T # {}
      BY <1>1
    <2> HIDE DEF T
    <2> QED BY <2>1, Least
  <1>3. PICK qs \in Seq(Packet) : Len(qs) = n /\ Wrong(qs)
    BY <1>2
  <1> DEFINE q == Append(qs, p)
  <1>4. q \in Seq(Packet) /\ q # <<>> /\ Len(q) = Len(qs) + 1 /\ Len(qs) \in Nat
        /\ q[Len(qs) + 1] = p /\ \A i \in 1..Len(qs) : q[i] = qs[i]
    BY AppendProperties, LenProperties
  <1>5. Frame(p) \in Seq(Byte)
    BY FrameType
  <1>6. CASE qs = <<>>
    <2>1. Head(q) = p /\ Tail(q) = <<>>
      BY <1>6, HeadTailAppend
    <2>2. Encoded[q] = Frame(p) \o Encoded[<<>>] /\ Encoded[<<>>] = <<>>
      BY <1>4, <2>1, EncodedDef, EmptySeq
    <2>3. Frame(p) \o <<>> = <<>> \o Frame(p)
      BY <1>5, ConcatEmptySeq
    <2> QED BY <1>3, <1>6, <2>2, <2>3 DEF Wrong
  <1>7. CASE qs # <<>>
    <2> DEFINE a == Head(qs)
               t == Tail(qs)
    <2>1. t \in Seq(Packet) /\ a \in Packet /\ Len(t) = n - 1 /\ n \in Nat /\ n - 1 \in Nat
      BY <1>3, <1>7, HeadTailProperties, EmptySeq
    <2>2. Head(q) = a /\ Tail(q) = Append(t, p) /\ Append(t, p) \in Seq(Packet)
      BY <1>7, <2>1, HeadTailAppend, AppendProperties
    <2>3. ~Wrong(t)
      <3> HIDE DEF t
      <3> SUFFICES ASSUME Wrong(t) PROVE FALSE
        OBVIOUS
      <3>1. n - 1 \in T
        BY <2>1
      <3> HIDE DEF T
      <3> QED BY <1>2, <2>1, <3>1
    <2>4. Encoded[q] = Frame(a) \o (Encoded[t] \o Frame(p))
      <3>1. Encoded[q] = Frame(Head(q)) \o Encoded[Tail(q)]
        BY <1>4, EncodedDef
      <3> QED BY <2>2, <2>3, <3>1 DEF Wrong
    <2>5. Encoded[qs] = Frame(a) \o Encoded[t]
      BY <1>7, EncodedDef
    <2>6. Frame(a) \in Seq(Byte) /\ Encoded[t] \in Seq(Byte)
      BY <2>1, FrameType, EncodedType
    <2> HIDE DEF a, t
    <2>7. Frame(a) \o (Encoded[t] \o Frame(p)) = (Frame(a) \o Encoded[t]) \o Frame(p)
      BY <1>5, <2>6, Associative
    <2> QED BY <1>3, <2>4, <2>5, <2>7 DEF Wrong
  <1> QED BY <1>6, <1>7

\* A stream that s begins and t ends.
Joins(u, s, t) == u = s \o t

\* The elements of such a stream.
LEMMA Joined ==
  ASSUME NEW s \in Seq(Byte), NEW t \in Seq(Byte), NEW u, Joins(u, s, t)
  PROVE  /\ u \in Seq(Byte) /\ Len(u) = Len(s) + Len(t)
         /\ Len(s) \in Nat /\ Len(t) \in Nat
         /\ \A i \in 1..Len(s) : u[i] = s[i]
         /\ \A i \in 1..Len(t) : u[Len(s) + i] = t[i]
  BY Concat DEF Joins

\* The elements of a part of a sequence.
LEMMA Part ==
  ASSUME NEW S, NEW s \in Seq(S), NEW k \in Nat, NEW n \in Nat, k <= n, n <= Len(s)
  PROVE  /\ SubSeq(s, k + 1, n) \in Seq(S) /\ Len(SubSeq(s, k + 1, n)) = n - k
         /\ \A i \in 1..(n - k) : SubSeq(s, k + 1, n)[i] = s[k + i]
  <1>1. Len(s) \in Nat /\ \A i \in 1..Len(s) : s[i] \in S
    BY LenProperties, ElementOfSeq
  <1>2. k + 1 \in Int /\ n \in Int /\ \A i \in (k + 1)..n : s[i] \in S
    BY <1>1
  <1> DEFINE x == SubSeq(s, k + 1, n)
  <1>3. /\ x \in Seq(S)
        /\ Len(x) = IF k + 1 <= n THEN n - (k + 1) + 1 ELSE 0
        /\ \A i \in 1..(n - (k + 1) + 1) : x[i] = s[(k + 1) + i - 1]
    BY <1>2, SubSeqProperties
  <1> HIDE DEF x
  <1>4. Len(x) = n - k
    BY <1>3
  <1>5. ASSUME NEW i \in 1..(n - k) PROVE x[i] = s[k + i]
    <2>1. i \in 1..(n - (k + 1) + 1) /\ (k + 1) + i - 1 = k + i
      OBVIOUS
    <2> QED BY <1>3, <2>1
  <1> QED BY <1>3, <1>4, <1>5 DEF x

\* A sequence that continues one part of a stream is cut off where that part ends.
LEMMA Cut ==
  ASSUME NEW a \in Seq(Byte), NEW b \in Seq(Byte), NEW c \in Seq(Byte), NEW d \in Seq(Byte),
         NEW u, Joins(u, a, b), Joins(u, c, d), Len(c) <= Len(a)
  PROVE  /\ SubSeq(a, Len(c) + 1, Len(a)) \in Seq(Byte)
         /\ Joins(a, c, SubSeq(a, Len(c) + 1, Len(a)))
         /\ Joins(d, SubSeq(a, Len(c) + 1, Len(a)), b)
  <1> DEFINE k == Len(c)
             n == Len(a)
             x == SubSeq(a, k + 1, n)
  <1>1. /\ u \in Seq(Byte) /\ Len(u) = n + Len(b) /\ n \in Nat /\ Len(b) \in Nat
        /\ \A i \in 1..n : u[i] = a[i]
        /\ \A i \in 1..Len(b) : u[n + i] = b[i]
    BY Joined
  <1>2. /\ u \in Seq(Byte) /\ Len(u) = k + Len(d) /\ k \in Nat /\ Len(d) \in Nat
        /\ \A i \in 1..k : u[i] = c[i]
        /\ \A i \in 1..Len(d) : u[k + i] = d[i]
    BY Joined
  <1>3. k <= n
    OBVIOUS
  <1> HIDE DEF k, n
  <1>4. x \in Seq(Byte) /\ Len(x) = n - k /\ \A i \in 1..(n - k) : x[i] = a[k + i]
    BY <1>1, <1>2, <1>3, Part DEF n
  <1> HIDE DEF x
  <1>5. Joins(a, c, x)
    <2> PICK cx : Joins(cx, c, x)
      BY DEF Joins
    <2>1. /\ cx \in Seq(Byte) /\ Len(cx) = k + Len(x)
          /\ \A i \in 1..k : cx[i] = c[i]
          /\ \A i \in 1..Len(x) : cx[k + i] = x[i]
      BY <1>4, Joined DEF k
    <2>2. Len(cx) = n
      BY <1>1, <1>2, <1>4, <2>1
    <2>3. ASSUME NEW i \in 1..n PROVE cx[i] = a[i]
      <3>1. CASE i <= k
        <4>1. i \in 1..k
          BY <3>1, <1>1, <1>2
        <4> QED BY <4>1, <1>1, <1>2, <1>3, <2>1
      <3>2. CASE ~(i <= k)
        <4>1. i - k \in 1..(n - k) /\ k + (i - k) = i
          BY <3>2, <1>1, <1>2
        <4> QED BY <4>1, <1>4, <2>1
      <3> QED BY <3>1, <3>2
    <2>4. cx = a
      BY <2>1, <2>2, <2>3, SeqEqual DEF n
    <2> QED BY <2>4
  <1>6. Joins(d, x, b)
    <2> PICK xb : Joins(xb, x, b)
      BY DEF Joins
    <2>0. x \in Seq(Byte)
      BY <1>4
    <2>1. /\ xb \in Seq(Byte) /\ Len(xb) = Len(x) + Len(b)
          /\ \A i \in 1..Len(x) : xb[i] = x[i]
          /\ \A i \in 1..Len(b) : xb[Len(x) + i] = b[i]
      BY <2>0, Joined
    <2>2. Len(xb) = Len(d) /\ Len(x) = n - k
      <3>1. Len(xb) = Len(x) + Len(b) /\ Len(x) = n - k
        BY <1>4, <2>1
      <3>2. n + Len(b) = k + Len(d)
        BY <1>1, <1>2
      <3>3. ASSUME NEW i \in Nat, NEW j \in Nat, n + i = k + j PROVE (n - k) + i = j
        BY <1>1, <1>2, <3>3
      <3>4. (n - k) + Len(b) = Len(d)
        BY <1>1, <1>2, <3>2, <3>3
      <3> QED BY <3>1, <3>4
    <2>3. ASSUME NEW i \in 1..Len(d) PROVE xb[i] = d[i]
      <3>1. u[k + i] = d[i] /\ i \in Nat
        BY <1>2
      <3>2. CASE i <= n - k
        <4>1. i \in 1..(n - k) /\ k + i \in 1..n
          BY <3>2, <1>1, <1>2
        <4> QED BY <4>1, <3>1, <1>1, <1>3, <1>4, <2>1
      <3>3. CASE ~(i <= n - k)
        <4>1. i - (n - k) \in 1..Len(b) /\ (n - k) + (i - (n - k)) = i /\ n + (i - (n - k)) = k + i
          BY <3>3, <1>1, <1>2, <1>3
        <4>2. u[k + i] = b[i - (n - k)] /\ xb[i] = b[i - (n - k)]
          BY <4>1, <1>1, <2>1, <2>2
        <4> QED BY <4>2, <3>1
      <3> QED BY <3>2, <3>3
    <2>4. xb = d
      BY <2>1, <2>2, <2>3, SeqEqual
    <2> QED BY <2>4
  <1> QED BY <1>4, <1>5, <1>6 DEF x, k, n

\* A stream of three parts.
LEMMA JoinsTwice ==
  ASSUME NEW s \in Seq(Byte), NEW t \in Seq(Byte), NEW x \in Seq(Byte), NEW f, NEW u,
         Joins(f, s, t), Joins(u, f, x)
  PROVE  u = s \o (t \o x) /\ t \o x \in Seq(Byte)
  BY Associative, Concat DEF Joins

\* What the client reads of the stream of a frame: it finds a complete packet when
\* it has received all of the frame, and then it finds that packet.
LEMMA FrameRead ==
  ASSUME NEW r \in Seq(Byte), NEW w \in Seq(Byte), NEW p \in Packet, NEW t \in Seq(Byte),
         NEW u, Joins(u, r, w), Joins(u, Frame(p), t)
  PROVE  /\ VarIntSize(r) > 0 /\ VarIntSize(r) + ReadVarInt32(r) <= Len(r)
              <=> Len(Frame(p)) <= Len(r)
         /\ Len(Frame(p)) <= Len(r) =>
              /\ VarIntSize(r) + ReadVarInt32(r) = Len(Frame(p))
              /\ SubSeq(r, VarIntSize(r) + 1, VarIntSize(r) + ReadVarInt32(r)) = p
              /\ SubSeq(r, Len(Frame(p)) + 1, Len(r)) \in Seq(Byte)
              /\ Joins(t, SubSeq(r, Len(Frame(p)) + 1, Len(r)), w)
  <1> DEFINE v == WriteVarInt32(Len(p))
             f == Frame(p)
  <1>1. /\ f \in Seq(Byte) /\ Len(p) \in Nat /\ v \in Seq(Byte) /\ Len(v) \in Nat
        /\ Len(v) >= 1 /\ Len(f) = Len(v) + Len(p) /\ p \in Seq(Byte) /\ Joins(f, v, p)
    BY FrameType DEF Packet, Frame, Joins
  <1>2. Len(r) \in Nat /\ VarIntSize(r) \in 0..Len(r) /\ ReadVarInt32(r) \in Nat
    BY SizeFacts, ReadType, LenProperties
  <1>3. ASSUME VarIntSize(r) > 0 PROVE VarIntSize(r) = Len(v) /\ ReadVarInt32(r) = Len(p)
    <2>1. VarIntSize(u) = VarIntSize(r) /\ ReadVarInt32(u) = ReadVarInt32(r)
      BY <1>3, ReadExtended DEF Joins
    <2>2. u = v \o (p \o t) /\ p \o t \in Seq(Byte)
      BY <1>1, JoinsTwice
    <2>3. VarIntSize(v \o (p \o t)) = Len(v) /\ ReadVarInt32(v \o (p \o t)) = Len(p)
      BY <1>1, <2>2, RoundTrip
    <2> QED BY <2>1, <2>2, <2>3
  <1>4. ASSUME VarIntSize(r) > 0, VarIntSize(r) + ReadVarInt32(r) <= Len(r)
        PROVE  Len(f) <= Len(r)
    BY <1>1, <1>3, <1>4
  <1>5. ASSUME Len(f) <= Len(r)
        PROVE  /\ VarIntSize(r) = Len(v) /\ ReadVarInt32(r) = Len(p)
               /\ SubSeq(r, Len(v) + 1, Len(f)) = p
               /\ SubSeq(r, Len(f) + 1, Len(r)) \in Seq(Byte)
               /\ Joins(t, SubSeq(r, Len(f) + 1, Len(r)), w)
    <2> DEFINE x == SubSeq(r, Len(f) + 1, Len(r))
    <2>1. x \in Seq(Byte) /\ Joins(r, f, x) /\ Joins(t, x, w)
      BY <1>1, <1>5, Cut
    <2> HIDE DEF x
    <2>2. r = v \o (p \o x) /\ p \o x \in Seq(Byte)
      BY <1>1, <2>1, JoinsTwice
    <2>3. VarIntSize(r) = Len(v) /\ ReadVarInt32(r) = Len(p)
      BY <1>1, <2>2, RoundTrip
    <2>4. SubSeq(r, Len(v) + 1, Len(f)) = p
      <3> DEFINE y == SubSeq(r, Len(v) + 1, Len(f))
      <3> HIDE DEF v, f
      <3>1. \A i \in 1..Len(p) : f[Len(v) + i] = p[i]
        BY <1>1, Joined
      <3>2. \A i \in 1..Len(f) : r[i] = f[i]
        <4>1. f \in Seq(Byte) /\ x \in Seq(Byte) /\ Joins(r, f, x)
          BY <1>1, <2>1
        <4> QED BY <4>1, Joined
      <3>3. y \in Seq(Byte) /\ Len(y) = Len(p) /\ \A i \in 1..Len(p) : y[i] = r[Len(v) + i]
        <4>1. Len(v) <= Len(f) /\ Len(f) <= Len(r) /\ Len(f) \in Nat /\ Len(f) - Len(v) = Len(p)
          BY <1>1, <1>2, <1>5
        <4> QED BY <1>1, <4>1, Part
      <3> HIDE DEF y
      <3>4. ASSUME NEW i \in 1..Len(p) PROVE y[i] = p[i]
        <4>1. Len(v) + i \in 1..Len(f)
          BY <1>1
        <4> QED BY <3>1, <3>2, <3>3, <4>1
      <3>5. y = p
        BY <1>1, <3>3, <3>4, SeqEqual
      <3> QED BY <3>5 DEF y
    <2> QED BY <2>1, <2>3, <2>4 DEF x
  <1>6. Len(f) <= Len(r) => VarIntSize(r) > 0 /\ VarIntSize(r) + ReadVarInt32(r) = Len(f)
    <2> SUFFICES ASSUME Len(f) <= Len(r) PROVE VarIntSize(r) > 0 /\ VarIntSize(r) + ReadVarInt32(r) = Len(f)
      OBVIOUS
    <2>1. VarIntSize(r) = Len(v) /\ ReadVarInt32(r) = Len(p)
      BY <1>5
    <2>2. Len(v) >= 1 /\ Len(f) = Len(v) + Len(p) /\ Len(v) \in Nat
      BY <1>1
    <2> HIDE DEF v, f
    <2> QED BY <2>1, <2>2
  <1> QED BY <1>2, <1>4, <1>5, <1>6

-----------------------------------------------------------------------------
(* The stream between the two ends: r is received, w is on the wire, and what  *)
(* is gone was lost with the server's process.                              *)

Pending(r, w, ps, up) ==
  \E gone \in Seq(Byte) :
    /\ up => gone = <<>>
    /\ Joins(Encoded[ps], r, w \o gone)

\* ReadVarInt and CanReadBytes succeed on r.
IsComplete(r) == VarIntSize(r) > 0 /\ VarIntSize(r) + ReadVarInt32(r) <= Len(r)

\* The beginning of a sequence and the rest of it.
LEMMA Halves ==
  ASSUME NEW S, NEW s \in Seq(S), NEW n \in 0..Len(s)
  PROVE  /\ SubSeq(s, 1, n) \in Seq(S) /\ Len(SubSeq(s, 1, n)) = n
         /\ \A i \in 1..n : SubSeq(s, 1, n)[i] = s[i]
         /\ SubSeq(s, n + 1, Len(s)) \in Seq(S)
         /\ SubSeq(s, 1, n) \o SubSeq(s, n + 1, Len(s)) = s
  <1>1. Len(s) \in Nat /\ n \in Nat /\ n <= Len(s)
    BY LenProperties
  <1> DEFINE a == SubSeq(s, 1, n)
             b == SubSeq(s, n + 1, Len(s))
  <1>2. a \in Seq(S) /\ Len(a) = n /\ \A i \in 1..n : a[i] = s[i]
    <2>1. 1 \in Int /\ n \in Int /\ \A i \in 1..n : s[i] \in S
      BY <1>1, ElementOfSeq
    <2>2. /\ a \in Seq(S) /\ Len(a) = IF 1 <= n THEN n - 1 + 1 ELSE 0
          /\ \A i \in 1..(n - 1 + 1) : a[i] = s[1 + i - 1]
      BY <2>1, SubSeqProperties
    <2> HIDE DEF a
    <2>3. ASSUME NEW i \in 1..n PROVE a[i] = s[i]
      <3>1. i \in 1..(n - 1 + 1) /\ 1 + i - 1 = i
        BY <1>1
      <3> QED BY <2>2, <3>1
    <2> QED BY <1>1, <2>2, <2>3
  <1>3. b \in Seq(S) /\ Len(b) = Len(s) - n /\ \A i \in 1..(Len(s) - n) : b[i] = s[n + i]
    BY <1>1, Part
  <1> HIDE DEF a, b
  <1> PICK u : u = a \o b
    OBVIOUS
  <1>4. /\ u \in Seq(S) /\ Len(u) = Len(a) + Len(b)
        /\ \A i \in 1..Len(a) : u[i] = a[i]
        /\ \A i \in 1..Len(b) : u[Len(a) + i] = b[i]
    <2>1. a \in Seq(S) /\ b \in Seq(S)
      BY <1>2, <1>3
    <2> QED BY <2>1, Concat
  <1>5. Len(u) = Len(s)
    BY <1>1, <1>2, <1>3, <1>4
  <1>6. ASSUME NEW i \in 1..Len(s) PROVE u[i] = s[i]
    <2>1. CASE i <= n
      <3>1. i \in 1..n
        BY <2>1, <1>1
      <3> QED BY <3>1, <1>2, <1>4
    <2>2. CASE ~(i <= n)
      <3>1. i - n \in 1..(Len(s) - n) /\ n + (i - n) = i
        BY <2>2, <1>1
      <3> QED BY <3>1, <1>2, <1>3, <1>4
    <2> QED BY <2>1, <2>2
  <1>7. u = s
    BY <1>4, <1>5, <1>6, SeqEqual
  <1> QED BY <1>2, <1>3, <1>7 DEF a, b

\* SendPacket adds a frame.
LEMMA PendingSend ==
  ASSUME NEW r \in Seq(Byte), NEW w \in Seq(Byte), NEW ps \in Seq(Packet), NEW p \in Packet,
         Pending(r, w, ps, TRUE)
  PROVE  Pending(r, w \o WriteVarInt32(Len(p)) \o p, Append(ps, p), TRUE)
  <1> DEFINE v == WriteVarInt32(Len(p))
             x == (w \o v) \o p
  <1>1. Joins(Encoded[ps], r, w)
    <2>1. Joins(Encoded[ps], r, w \o <<>>)
      BY DEF Pending
    <2>2. w \o <<>> = w
      BY ConcatEmptySeq
    <2> QED BY <2>1, <2>2
  <1>2. v \in Seq(Byte) /\ p \in Seq(Byte) /\ Frame(p) = v \o p /\ Frame(p) \in Seq(Byte)
    BY FrameType DEF Frame, Packet
  <1> HIDE DEF v
  <1>3. x = w \o Frame(p) /\ x \in Seq(Byte)
    <2>1. w \o (v \o p) = (w \o v) \o p
      BY <1>2, Associative
    <2> QED BY <1>2, <2>1, Concat
  <1>4. Encoded[Append(ps, p)] = (r \o w) \o Frame(p)
    BY <1>1, EncodedAppend DEF Joins
  <1>5. r \o (w \o Frame(p)) = (r \o w) \o Frame(p)
    BY <1>2, Associative
  <1> HIDE DEF x
  <1>6. x \o <<>> = x
    BY <1>3, ConcatEmptySeq
  <1>7. Joins(Encoded[Append(ps, p)], r, x \o <<>>)
    BY <1>3, <1>4, <1>5, <1>6 DEF Joins
  <1>8. Pending(r, x, Append(ps, p), TRUE)
    BY <1>7, EmptySeq DEF Pending
  <1> QED BY <1>8 DEF x, v

\* When the process dies, what the system had not sent is gone.
LEMMA PendingDies ==
  ASSUME NEW r \in Seq(Byte), NEW w \in Seq(Byte), NEW ps \in Seq(Packet), NEW n \in 0..Len(w),
         Pending(r, w, ps, TRUE)
  PROVE  Pending(r, SubSeq(w, 1, n), ps, FALSE)
  <1>1. Joins(Encoded[ps], r, w)
    <2>1. Joins(Encoded[ps], r, w \o <<>>)
      BY DEF Pending
    <2>2. w \o <<>> = w
      BY ConcatEmptySeq
    <2> QED BY <2>1, <2>2
  <1>2. SubSeq(w, 1, n) \o SubSeq(w, n + 1, Len(w)) = w /\ SubSeq(w, n + 1, Len(w)) \in Seq(Byte)
    BY Halves
  <1> QED BY <1>1, <1>2 DEF Pending

\* A chunk moves from the wire to the buffer.
LEMMA PendingMoves ==
  ASSUME NEW r \in Seq(Byte), NEW w \in Seq(Byte), NEW ps \in Seq(Packet), NEW n \in 0..Len(w),
         NEW up, Pending(r, w, ps, up)
  PROVE  Pending(r \o SubSeq(w, 1, n), SubSeq(w, n + 1, Len(w)), ps, up)
  <1>1. PICK gone \in Seq(Byte) : (up => gone = <<>>) /\ Joins(Encoded[ps], r, w \o gone)
    BY DEF Pending
  <1> DEFINE a == SubSeq(w, 1, n)
             b == SubSeq(w, n + 1, Len(w))
  <1>2. a \o b = w /\ a \in Seq(Byte) /\ b \in Seq(Byte)
    BY Halves
  <1> HIDE DEF a, b
  <1>3. PICK y : y = b \o gone
    OBVIOUS
  <1>4. y \in Seq(Byte) /\ a \o y = w \o gone /\ r \o (a \o y) = (r \o a) \o y
    <2>1. a \in Seq(Byte) /\ b \in Seq(Byte)
      BY <1>2
    <2>2. y \in Seq(Byte)
      BY <1>3, <2>1, Concat
    <2>3. a \o (b \o gone) = (a \o b) \o gone
      BY <2>1, Associative
    <2>4. r \o (a \o y) = (r \o a) \o y
      BY <2>1, <2>2, Associative
    <2> QED BY <1>2, <1>3, <2>2, <2>3, <2>4
  <1>5. Joins(Encoded[ps], r \o a, b \o gone)
    BY <1>1, <1>3, <1>4 DEF Joins
  <1>6. Pending(r \o a, b, ps, up)
    BY <1>1, <1>5 DEF Pending
  <1> QED BY <1>6 DEF a, b

\* The first frame of the stream: nothing is received or on the way when there is
\* none, and it decides when the client finds a complete packet.
LEMMA PendingFirst ==
  ASSUME NEW r \in Seq(Byte), NEW w \in Seq(Byte), NEW ps \in Seq(Packet), NEW up,
         Pending(r, w, ps, up)
  PROVE  /\ ps = <<>> => r = <<>> /\ w = <<>> /\ ~IsComplete(r)
         /\ ps # <<>> => (IsComplete(r) <=> Len(Frame(Head(ps))) <= Len(r))
         /\ ps # <<>> /\ IsComplete(r) =>
              LET k == VarIntSize(r)
                  n == k + ReadVarInt32(r)
              IN  /\ SubSeq(r, k + 1, n) = Head(ps)
                  /\ SubSeq(r, n + 1, Len(r)) \in Seq(Byte)
                  /\ Pending(SubSeq(r, n + 1, Len(r)), w, Tail(ps), up)
         /\ ps # <<>> /\ up /\ w = <<>> => IsComplete(r)
  <1>1. PICK gone \in Seq(Byte) : (up => gone = <<>>) /\ Joins(Encoded[ps], r, w \o gone)
    BY DEF Pending
  <1>2. w \o gone \in Seq(Byte) /\ Len(w \o gone) = Len(w) + Len(gone) /\ Len(w) \in Nat
        /\ Len(gone) \in Nat /\ Len(r) \in Nat
    BY Concat, LenProperties
  <1>3. Encoded[ps] \in Seq(Byte)
    BY EncodedType
  <1>4. Len(Encoded[ps]) = Len(r) + Len(w \o gone)
    BY <1>1, <1>2, Joined
  <1>5. CASE ps = <<>>
    <2>1. Encoded[ps] = <<>>
      BY <1>5, EncodedDef
    <2>2. Len(r) = 0 /\ Len(w) = 0
      BY <1>2, <1>4, <2>1
    <2>3. r = <<>> /\ w = <<>>
      BY <2>2, EmptySeq
    <2>4. VarIntSize(r) = 0
      <3>1. VarIntSize(r) \in 0..Len(r)
        BY SizeFacts
      <3> QED BY <2>2, <3>1
    <2> QED BY <1>5, <2>3, <2>4 DEF IsComplete
  <1>6. CASE ps # <<>>
    <2> DEFINE p == Head(ps)
               t == Encoded[Tail(ps)]
               f == Frame(p)
    <2>1. p \in Packet /\ Tail(ps) \in Seq(Packet)
      BY <1>6, HeadTailProperties
    <2>2. Joins(Encoded[ps], f, t) /\ t \in Seq(Byte)
      BY <1>6, <2>1, EncodedDef, EncodedType DEF Joins
    <2>3. /\ IsComplete(r) <=> Len(f) <= Len(r)
          /\ Len(f) <= Len(r) =>
               /\ VarIntSize(r) + ReadVarInt32(r) = Len(f)
               /\ SubSeq(r, VarIntSize(r) + 1, VarIntSize(r) + ReadVarInt32(r)) = p
               /\ SubSeq(r, Len(f) + 1, Len(r)) \in Seq(Byte)
               /\ Joins(t, SubSeq(r, Len(f) + 1, Len(r)), w \o gone)
      <3> HIDE DEF p, t
      <3> QED BY <1>1, <1>2, <2>1, <2>2, FrameRead DEF IsComplete
    <2>4. ASSUME up, w = <<>> PROVE IsComplete(r)
      <3>1. Len(w \o gone) = 0
        BY <1>1, <1>2, <2>4
      <3>2. Len(Encoded[ps]) = Len(f) + Len(t) /\ Len(t) \in Nat /\ Len(f) \in Nat
        <4>1. f \in Seq(Byte)
          BY <2>1, FrameType
        <4> HIDE DEF f, t
        <4> QED BY <4>1, <2>2, Joined
      <3> QED BY <1>2, <1>4, <2>3, <3>1, <3>2
    <2>5. ASSUME IsComplete(r)
          PROVE  Pending(SubSeq(r, Len(f) + 1, Len(r)), w, Tail(ps), up)
      BY <1>1, <2>3, <2>5 DEF Pending
    <2> QED BY <1>6, <2>3, <2>4, <2>5
  <1> QED BY <1>5, <1>6

-----------------------------------------------------------------------------
(* The inductive invariant.                                                 *)

\* The lock belongs to the thread that composes, and m_OutPacketBuffer holds its
\* packet and nothing else; every packet starts with a type.
Composing ==
  /\ \A w \in Writer : draft[w] # <<>> => lock = w /\ out = draft[w] /\ VarIntSize(out) > 0
  /\ lock # Free => draft[lock] # <<>> /\ Len(sent) < MaxSent
  /\ lock = Free => out = <<>>
  /\ \A i \in 1..Len(sent) : VarIntSize(sent[i]) > 0

\* The packets not handled yet.
Remaining == SubSeq(sent, Len(handled) + 1, Len(sent))

\* Up to the first chunk that is dropped, the handled packets are the first ones
\* sent, the stream holds the frames of the others, and the client has left its
\* loop early only at a packet with a refused type.
Delivered ==
  /\ Len(handled) <= Len(sent) /\ handled = SubSeq(sent, 1, Len(handled))
  /\ Pending(received, wire, Remaining, alive)
  /\ held => \E i \in 1..Len(sent) : ReadVarInt32(sent[i]) \in Refused

Delivery == ~lost => Delivered

\* The client waits for data only when there is no complete packet.
Waiting == reader = "idle" /\ ~held => ~Complete

IInv == TypeOK /\ Composing /\ Delivery /\ Waiting

\* A type makes a VarInt that is read as that type and fits into the buffer.
LEMMA TypeVarInt ==
  ASSUME NEW type \in Type
  PROVE  /\ WriteVarInt32(type) \in Seq(Byte) /\ WriteVarInt32(type) # <<>>
         /\ VarIntSize(WriteVarInt32(type)) > 0 /\ Len(WriteVarInt32(type)) \in Nat
         /\ Len(WriteVarInt32(type)) <= OutSize
  <1> DEFINE v == WriteVarInt32(type)
  <1>1. type \in Nat
    BY FramingAssumption
  <1>2. v \in Seq(Byte) /\ Len(v) >= 1 /\ Len(v) \in Nat
    BY <1>1, VarIntBytes, LenProperties DEF WriteVarInt32
  <1>3. VarIntSize(v \o <<>>) = Len(v)
    BY <1>1, RoundTrip, EmptySeq
  <1>4. Len(v) <= OutSize
    BY TypesFit
  <1> HIDE DEF v
  <1>5. v \o <<>> = v /\ v # <<>>
    BY <1>2, ConcatEmptySeq, EmptySeq
  <1> QED BY <1>2, <1>3, <1>4, <1>5 DEF v

\* Complete is IsComplete of the buffer.
LEMMA CompleteIs == Complete <=> IsComplete(received)
  BY DEF Complete, IsComplete

\* A packet that is cut out of the buffer and what is left.
LEMMA CutOut ==
  ASSUME TypeOK, Complete
  PROVE  LET k == VarIntSize(received)
             n == k + ReadVarInt32(received)
         IN  /\ SubSeq(received, k + 1, n) \in Seq(Byte)
             /\ SubSeq(received, n + 1, Len(received)) \in Seq(Byte)
             /\ Len(SubSeq(received, n + 1, Len(received))) <= InSize
  <1> DEFINE k == VarIntSize(received)
             n == k + ReadVarInt32(received)
  <1>1. received \in Seq(Byte) /\ Len(received) \in Nat /\ Len(received) <= InSize
    BY LenProperties DEF TypeOK
  <1>2. k \in 0..Len(received) /\ ReadVarInt32(received) \in Nat /\ n <= Len(received)
    BY <1>1, SizeFacts, ReadType DEF Complete
  <1>3. k \in Nat /\ n \in Nat /\ k <= n
    BY <1>1, <1>2
  <1> HIDE DEF k, n
  <1>4. SubSeq(received, k + 1, n) \in Seq(Byte)
    BY <1>1, <1>2, <1>3, Part
  <1>5. /\ SubSeq(received, n + 1, Len(received)) \in Seq(Byte)
        /\ Len(SubSeq(received, n + 1, Len(received))) = Len(received) - n
    BY <1>1, <1>2, <1>3, Part
  <1>6. Len(SubSeq(received, n + 1, Len(received))) <= InSize
    BY <1>1, <1>3, <1>5, FramingAssumption
  <1> QED BY <1>4, <1>5, <1>6 DEF k, n

\* The first state.
LEMMA InitHolds == Init => IInv
  <1> SUFFICES ASSUME Init PROVE IInv
    OBVIOUS
  <1> USE DEF Init
  <1>1. TypeOK
    <2>1. <<>> \in Seq(Byte) /\ <<>> \in Seq(Seq(Byte)) /\ Len(<<>>) = 0
      BY EmptySeq
    <2>2. OutSize \in Nat /\ InSize \in Nat /\ MaxSent \in Nat /\ MaxFields \in Nat
      BY FramingAssumption
    <2>3. draft \in [Writer -> Seq(Byte)] /\ fields \in [Writer -> 0..MaxFields]
      BY <2>1, <2>2
    <2>4. Len(<<>>) <= OutSize /\ Len(<<>>) <= InSize /\ Len(<<>>) <= MaxSent
      BY <2>1, <2>2
    <2>5. alive \in BOOLEAN /\ held \in BOOLEAN /\ lost \in BOOLEAN /\ lock \in Writer \cup {Free}
          /\ reader \in {"idle", "loop"}
      OBVIOUS
    <2>6. /\ out \in Seq(Byte) /\ Len(out) <= OutSize /\ wire \in Seq(Byte)
          /\ received \in Seq(Byte) /\ Len(received) <= InSize
          /\ sent \in Seq(Seq(Byte)) /\ Len(sent) <= MaxSent /\ handled \in Seq(Seq(Byte))
      BY <2>1, <2>4, Zenon
    <2> QED BY <2>3, <2>5, <2>6 DEF TypeOK
  <1>2. Composing
    BY EmptySeq DEF Composing
  <1>3. Encoded[<<>>] = <<>> /\ <<>> \o (<<>> \o <<>>) = <<>>
    BY EncodedDef, EmptySeq, ConcatEmptySeq
  <1>4. VarIntSize(<<>>) = 0
    <2>1. <<>> \in Seq(Byte) /\ Len(<<>>) = 0
      BY EmptySeq
    <2>2. VarIntSize(<<>>) \in 0..0
      BY <2>1, SizeFacts
    <2> QED BY <2>2
  <1>5. Remaining = <<>> /\ SubSeq(sent, 1, Len(handled)) = <<>>
    BY EmptySeq, SubSeqEmpty DEF Remaining
  <1>6. Pending(received, wire, Remaining, alive)
    BY <1>3, <1>5, EmptySeq DEF Pending, Joins
  <1>7. Delivery
    <2>1. Len(handled) = 0 /\ Len(sent) = 0
      BY EmptySeq
    <2>2. Len(handled) <= Len(sent)
      BY <2>1
    <2>3. held = FALSE /\ handled = SubSeq(sent, 1, Len(handled))
      BY <1>5
    <2> QED BY <1>6, <2>2, <2>3 DEF Delivery, Delivered
  <1>8. Waiting
    BY <1>4 DEF Waiting, Complete
  <1> QED BY <1>1, <1>2, <1>7, <1>8 DEF IInv

\* Every step keeps the types.
LEMMA TypeStep == ASSUME IInv, [Next]_vars PROVE TypeOK'
  <1> USE DEF IInv
  <1>1. ASSUME NEW w \in Writer, NEW type \in Type, Packetizer(w, type) PROVE TypeOK'
    <2> DEFINE v == WriteVarInt32(type)
    <2>1. v \in Seq(Byte) /\ Len(v) \in Nat
      BY TypeVarInt
    <2>2. out' \in Seq(Byte) /\ Len(out') <= OutSize
      <3>1. out \in Seq(Byte) /\ Len(out) <= OutSize /\ out' = IF Fits(v) THEN out \o v ELSE out
        BY <1>1 DEF Packetizer, TypeOK
      <3> HIDE DEF v
      <3>2. out \o v \in Seq(Byte) /\ Len(out \o v) = Len(out) + Len(v)
        BY <2>1, <3>1, Concat
      <3> QED BY <3>1, <3>2 DEF Fits
    <2>3. draft' \in [Writer -> Seq(Byte)]
      BY <1>1, <2>1 DEF Packetizer, TypeOK
    <2> HIDE DEF v
    <2> QED BY <1>1, <2>2, <2>3 DEF Packetizer, TypeOK, readVars
  <1>2. ASSUME NEW w \in Writer, NEW s \in Field, WriteField(w, s) PROVE TypeOK'
    <2>1. s \in Seq(Byte)
      BY FramingAssumption
    <2>2. out \o s \in Seq(Byte) /\ Len(out \o s) = Len(out) + Len(s)
      BY <2>1, Concat DEF TypeOK
    <2>3. draft[w] \o s \in Seq(Byte)
      BY <2>1, Concat DEF TypeOK
    <2>4. draft' \in [Writer -> Seq(Byte)] /\ out' \in Seq(Byte) /\ Len(out') <= OutSize
      BY <1>2, <2>2, <2>3 DEF WriteField, TypeOK, Fits
    <2>5. fields' \in [Writer -> 0..MaxFields]
      <3>1. MaxFields \in Nat /\ fields \in [Writer -> 0..MaxFields]
            /\ fields' = [fields EXCEPT ![w] = fields[w] + 1] /\ fields[w] < MaxFields
        BY <1>2, FramingAssumption DEF WriteField, TypeOK
      <3>2. fields[w] + 1 \in 0..MaxFields
        BY <3>1
      <3> QED BY <3>1, <3>2
    <2> QED BY <1>2, <2>4, <2>5 DEF WriteField, TypeOK, readVars
  <1>3. ASSUME NEW w \in Writer, NEW s \in Field, VerificationFails(w, s) PROVE TypeOK'
    <2>1. wire' \in Seq(Byte)
      BY <1>3, Halves DEF VerificationFails, TypeOK
    <2> QED BY <1>3, <2>1 DEF VerificationFails, TypeOK, readVars
  <1>4. ASSUME NEW w \in Writer, SendPacket(w) PROVE TypeOK'
    <2>1. draft[w] # <<>> /\ draft[w] \in Seq(Byte) /\ sent \in Seq(Seq(Byte)) /\ Len(sent) \in Nat
      BY <1>4, LenProperties DEF SendPacket, TypeOK
    <2>2. lock = w /\ Len(sent) < MaxSent
      BY <2>1, FramingAssumption DEF Composing
    <2>3. sent' \in Seq(Seq(Byte)) /\ Len(sent') <= MaxSent
      <3>1. Append(sent, draft[w]) \in Seq(Seq(Byte)) /\ Len(Append(sent, draft[w])) = Len(sent) + 1
        BY <2>1, AppendProperties
      <3> QED BY <1>4, <2>1, <2>2, <3>1, FramingAssumption DEF SendPacket
    <2>4. wire' \in Seq(Byte)
      <3>1. Len(out) \in Nat /\ out \in Seq(Byte) /\ wire \in Seq(Byte)
        BY LenProperties DEF TypeOK
      <3>2. WriteVarInt32(Len(out)) \in Seq(Byte)
        BY <3>1, VarIntBytes DEF WriteVarInt32
      <3>3. wire \o WriteVarInt32(Len(out)) \in Seq(Byte)
        BY <3>1, <3>2, Concat
      <3>4. (wire \o WriteVarInt32(Len(out))) \o out \in Seq(Byte)
        BY <3>1, <3>3, Concat
      <3> QED BY <1>4, <3>4 DEF SendPacket
    <2>5. out' \in Seq(Byte) /\ Len(out') <= OutSize /\ draft' \in [Writer -> Seq(Byte)]
          /\ fields' \in [Writer -> 0..MaxFields]
      BY <1>4, EmptySeq, FramingAssumption DEF SendPacket, TypeOK
    <2> QED BY <1>4, <2>3, <2>4, <2>5 DEF SendPacket, TypeOK, readVars
  <1>5. ASSUME LoopEnds PROVE TypeOK'
    BY <1>5 DEF LoopEnds, TypeOK, writeVars
  <1>6. ASSUME HandlePacket PROVE TypeOK'
    <2> DEFINE k == VarIntSize(received)
               n == k + ReadVarInt32(received)
               packet == SubSeq(received, k + 1, n)
               rest == SubSeq(received, n + 1, Len(received))
    <2>1. packet \in Seq(Byte) /\ rest \in Seq(Byte) /\ Len(rest) <= InSize
      BY <1>6, CutOut DEF HandlePacket
    <2>2. /\ received' = rest
          /\ handled' = IF VarIntSize(packet) > 0 THEN Append(handled, packet) ELSE handled
          /\ reader' \in {"idle", "loop"} /\ held' \in BOOLEAN
          /\ UNCHANGED <<writeVars, wire, lost>>
      BY <1>6 DEF HandlePacket, Known
    <2> HIDE DEF packet, rest
    <2>3. handled' \in Seq(Seq(Byte))
      BY <2>1, <2>2, AppendProperties DEF TypeOK
    <2> QED BY <2>1, <2>2, <2>3 DEF TypeOK, writeVars
  <1>7. ASSUME NEW n \in 1..MaxChunk, DataReceived(n) PROVE TypeOK'
    <2>1. n \in 0..Len(wire) /\ wire \in Seq(Byte) /\ received \in Seq(Byte)
      BY <1>7, FramingAssumption, LenProperties DEF DataReceived, TypeOK
    <2> DEFINE a == SubSeq(wire, 1, n)
               b == SubSeq(wire, n + 1, Len(wire))
    <2>2. a \in Seq(Byte) /\ Len(a) = n /\ b \in Seq(Byte)
      BY <2>1, Halves
    <2>3. received \o a \in Seq(Byte) /\ Len(received \o a) = Len(received) + Len(a)
      BY <2>1, <2>2, Concat
    <2>4. /\ wire' = b
          /\ \/ /\ HasRoom(n) /\ received' = received \o a /\ reader' = "loop" /\ held' = FALSE
                /\ UNCHANGED lost
             \/ lost' = TRUE /\ UNCHANGED <<received, reader, held>>
          /\ UNCHANGED <<writeVars, handled>>
      BY <1>7 DEF DataReceived
    <2> HIDE DEF a, b
    <2>5. received' \in Seq(Byte) /\ Len(received') <= InSize
      BY <2>2, <2>3, <2>4 DEF HasRoom, TypeOK
    <2> QED BY <2>2, <2>4, <2>5 DEF TypeOK, writeVars
  <1>8. CASE UNCHANGED vars
    BY <1>8 DEF vars, writeVars, readVars, TypeOK
  <1> QED BY <1>1, <1>2, <1>3, <1>4, <1>5, <1>6, <1>7, <1>8 DEF Next, ReaderStep

\* Every step keeps the lock and the buffer to one thread.
LEMMA ComposingStep == ASSUME IInv, [Next]_vars PROVE Composing'
  <1> USE DEF IInv
  <1>1. ASSUME NEW w \in Writer, NEW type \in Type, Packetizer(w, type) PROVE Composing'
    <2> DEFINE v == WriteVarInt32(type)
    <2>1. /\ v \in Seq(Byte) /\ v # <<>> /\ VarIntSize(v) > 0 /\ Len(v) \in Nat /\ Len(v) <= OutSize
      BY TypeVarInt
    <2>2. lock = Free /\ out = <<>> /\ Len(sent) < MaxSent
      BY <1>1 DEF Packetizer, MayCompose, Composing
    <2>3. out' = v
      <3>1. Len(<<>>) = 0 /\ <<>> \o v = v
        BY <2>1, EmptySeq, ConcatEmptySeq
      <3>2. Fits(v)
        BY <2>1, <2>2, <3>1 DEF Fits
      <3> QED BY <1>1, <2>2, <3>1, <3>2 DEF Packetizer
    <2>4. \A x \in Writer : draft[x] = <<>>
      BY <2>2, FramingAssumption DEF Composing
    <2> HIDE DEF v
    <2>5. draft' = [draft EXCEPT ![w] = v] /\ lock' = w /\ sent' = sent /\ draft \in [Writer -> Seq(Byte)]
      BY <1>1 DEF Packetizer, TypeOK, v
    <2> QED BY <2>1, <2>2, <2>3, <2>4, <2>5, FramingAssumption DEF Composing
  <1>2. ASSUME NEW w \in Writer, NEW s \in Field, WriteField(w, s) PROVE Composing'
    <2>1. lock = w /\ out = draft[w] /\ VarIntSize(out) > 0 /\ out \in Seq(Byte) /\ s \in Seq(Byte)
          /\ draft[w] # <<>>
      BY <1>2, FramingAssumption DEF WriteField, Composing, TypeOK
    <2> DEFINE x == out \o s
    <2>2. VarIntSize(x) > 0 /\ x \in Seq(Byte)
      BY <2>1, ReadExtended, Concat
    <2>3. x # <<>>
      <3>1. VarIntSize(x) \in 0..Len(x)
        BY <2>2, SizeFacts
      <3> HIDE DEF x
      <3> QED BY <2>2, <3>1, EmptySeq
    <2>4. out' = x /\ draft' = [draft EXCEPT ![w] = x] /\ lock' = lock /\ sent' = sent
          /\ draft \in [Writer -> Seq(Byte)]
      BY <1>2, <2>1 DEF WriteField, TypeOK
    <2> HIDE DEF x
    <2> QED BY <2>1, <2>2, <2>3, <2>4, FramingAssumption DEF Composing
  <1>3. ASSUME NEW w \in Writer, NEW s \in Field, VerificationFails(w, s) PROVE Composing'
    BY <1>3 DEF VerificationFails, Composing
  <1>4. ASSUME NEW w \in Writer, SendPacket(w) PROVE Composing'
    <2>1. lock = w /\ out = draft[w] /\ VarIntSize(draft[w]) > 0 /\ draft[w] \in Seq(Byte)
          /\ \A x \in Writer : x # w => draft[x] = <<>>
      BY <1>4, FramingAssumption DEF SendPacket, Composing, TypeOK
    <2>2. out' = <<>> /\ draft' = [draft EXCEPT ![w] = <<>>] /\ lock' = Free
          /\ sent' = Append(sent, draft[w]) /\ draft \in [Writer -> Seq(Byte)]
      BY <1>4 DEF SendPacket, TypeOK
    <2>3. \A i \in 1..Len(sent') : VarIntSize(sent'[i]) > 0
      <3>1. /\ Len(sent') = Len(sent) + 1 /\ Len(sent) \in Nat
            /\ sent'[Len(sent) + 1] = draft[w] /\ \A i \in 1..Len(sent) : sent'[i] = sent[i]
        BY <2>1, <2>2, AppendProperties, LenProperties DEF TypeOK
      <3>2. ASSUME NEW i \in 1..Len(sent') PROVE VarIntSize(sent'[i]) > 0
        <4>1. i = Len(sent) + 1 \/ i \in 1..Len(sent)
          BY <3>1
        <4> QED BY <2>1, <3>1, <4>1 DEF Composing
      <3> QED BY <3>2
    <2>4. \A x \in Writer : draft'[x] = <<>>
      BY <2>1, <2>2
    <2> QED BY <2>2, <2>3, <2>4 DEF Composing
  <1>5. ASSUME LoopEnds PROVE Composing'
    BY <1>5 DEF LoopEnds, Composing, writeVars
  <1>6. ASSUME HandlePacket PROVE Composing'
    BY <1>6 DEF HandlePacket, Composing, writeVars
  <1>7. ASSUME NEW n \in 1..MaxChunk, DataReceived(n) PROVE Composing'
    BY <1>7 DEF DataReceived, Composing, writeVars
  <1>8. CASE UNCHANGED vars
    BY <1>8 DEF vars, writeVars, readVars, Composing
  <1> QED BY <1>1, <1>2, <1>3, <1>4, <1>5, <1>6, <1>7, <1>8 DEF Next, ReaderStep

\* The client does not go back to wait with a complete packet in its buffer.
LEMMA WaitingStep == ASSUME IInv, [Next]_vars PROVE Waiting'
  <1> USE DEF IInv
  <1>1. ASSUME UNCHANGED readVars PROVE Waiting'
    BY <1>1 DEF readVars, Waiting, Complete
  <1>2. ASSUME LoopEnds PROVE Waiting'
    BY <1>2 DEF LoopEnds, Waiting, Complete
  <1>3. ASSUME HandlePacket PROVE Waiting'
    BY <1>3 DEF HandlePacket, Waiting, Continues
  <1>4. ASSUME NEW n \in 1..MaxChunk, DataReceived(n) PROVE Waiting'
    BY <1>4 DEF DataReceived, Waiting, Complete
  <1> QED BY <1>1, <1>2, <1>3, <1>4
          DEF Next, ReaderStep, Packetizer, WriteField, VerificationFails, SendPacket, vars

\* The packet after k others, and what follows it.
LEMMA RestFacts ==
  ASSUME NEW S, NEW s \in Seq(S), NEW k \in Nat, k < Len(s)
  PROVE  /\ SubSeq(s, k + 1, Len(s)) # <<>> /\ Head(SubSeq(s, k + 1, Len(s))) = s[k + 1]
         /\ Tail(SubSeq(s, k + 1, Len(s))) = SubSeq(s, (k + 1) + 1, Len(s))
         /\ SubSeq(s, 1, k + 1) = Append(SubSeq(s, 1, k), s[k + 1])
  <1> DEFINE n == Len(s)
             a == SubSeq(s, k + 1, n)
             b == SubSeq(s, (k + 1) + 1, n)
             c == SubSeq(s, 1, k)
             d == SubSeq(s, 1, k + 1)
  <1>1. n \in Nat /\ k + 1 \in Nat /\ k + 1 <= n /\ k <= n /\ k \in 0..n /\ k + 1 \in 0..n
    BY LenProperties
  <1>2. a \in Seq(S) /\ Len(a) = n - k /\ \A i \in 1..(n - k) : a[i] = s[k + i]
    BY <1>1, Part
  <1>3. b \in Seq(S) /\ Len(b) = n - (k + 1) /\ \A i \in 1..(n - (k + 1)) : b[i] = s[(k + 1) + i]
    BY <1>1, Part
  <1>4. c \in Seq(S) /\ Len(c) = k /\ \A i \in 1..k : c[i] = s[i]
    BY <1>1, Halves
  <1>5. d \in Seq(S) /\ Len(d) = k + 1 /\ \A i \in 1..(k + 1) : d[i] = s[i]
    BY <1>1, Halves
  <1> HIDE DEF a, b, c, d, n
  <1>6. a # <<>> /\ Head(a) = s[k + 1]
    <2>1. a # <<>>
      BY <1>1, <1>2, EmptySeq
    <2>2. Head(a) = a[1] /\ 1 \in 1..(n - k)
      BY <1>1, <1>2, <2>1
    <2> QED BY <1>2, <2>1, <2>2
  <1>7. Tail(a) = b
    <2>1. Tail(a) \in Seq(S) /\ Len(Tail(a)) = Len(a) - 1 /\ \A i \in 1..(Len(a) - 1) : Tail(a)[i] = a[i + 1]
      BY <1>2, <1>6, HeadTailProperties
    <2>2. Len(Tail(a)) = Len(b)
      BY <1>1, <1>2, <1>3, <2>1
    <2>3. ASSUME NEW i \in 1..Len(b) PROVE Tail(a)[i] = b[i]
      <3>1. i \in 1..(Len(a) - 1) /\ i + 1 \in 1..(n - k) /\ k + (i + 1) = (k + 1) + i /\ i \in 1..(n - (k + 1))
        BY <1>1, <1>2, <1>3
      <3> QED BY <3>1, <1>2, <1>3, <2>1
    <2> QED BY <1>3, <2>1, <2>2, <2>3, SeqEqual
  <1>8. d = Append(c, s[k + 1])
    <2> DEFINE e == Append(c, s[k + 1])
    <2>1. s[k + 1] \in S
      BY <1>1, ElementOfSeq DEF n
    <2>2. e \in Seq(S) /\ Len(e) = k + 1 /\ e[k + 1] = s[k + 1] /\ \A i \in 1..k : e[i] = c[i]
      BY <1>4, <2>1, AppendProperties
    <2> HIDE DEF e
    <2>3. ASSUME NEW i \in 1..(k + 1) PROVE d[i] = e[i]
      <3>1. i = k + 1 \/ i \in 1..k
        BY <1>1
      <3> QED BY <3>1, <1>4, <1>5, <2>2
    <2>4. d = e
      BY <1>5, <2>2, <2>3, SeqEqual
    <2> QED BY <2>4 DEF e
  <1> QED BY <1>6, <1>7, <1>8 DEF a, b, c, d, n

\* A packet more at the end.
LEMMA RestAppend ==
  ASSUME NEW S, NEW s \in Seq(S), NEW e \in S, NEW k \in Nat, k <= Len(s)
  PROVE  /\ SubSeq(Append(s, e), k + 1, Len(Append(s, e))) = Append(SubSeq(s, k + 1, Len(s)), e)
         /\ SubSeq(Append(s, e), 1, k) = SubSeq(s, 1, k)
  <1> DEFINE t == Append(s, e)
             n == Len(s)
             a == SubSeq(s, k + 1, n)
             c == SubSeq(s, 1, k)
  <1>1. t \in Seq(S) /\ Len(t) = n + 1 /\ t[n + 1] = e /\ \A i \in 1..n : t[i] = s[i]
    BY AppendProperties
  <1>2. n \in Nat /\ k <= n /\ k \in 0..n /\ k \in 0..(n + 1) /\ k <= n + 1 /\ n + 1 \in Nat
    BY LenProperties
  <1>3. a \in Seq(S) /\ Len(a) = n - k /\ \A i \in 1..(n - k) : a[i] = s[k + i]
    BY <1>2, Part
  <1>4. c \in Seq(S) /\ Len(c) = k /\ \A i \in 1..k : c[i] = s[i]
    BY <1>2, Halves
  <1> HIDE DEF t, a, c, n
  <1> DEFINE b == SubSeq(t, k + 1, n + 1)
             d == SubSeq(t, 1, k)
             g == Append(a, e)
  <1>5. b \in Seq(S) /\ Len(b) = (n + 1) - k /\ \A i \in 1..((n + 1) - k) : b[i] = t[k + i]
    BY <1>1, <1>2, Part
  <1>6. d \in Seq(S) /\ Len(d) = k /\ \A i \in 1..k : d[i] = t[i]
    BY <1>1, <1>2, Halves
  <1>7. g \in Seq(S) /\ Len(g) = Len(a) + 1 /\ g[Len(a) + 1] = e /\ \A i \in 1..Len(a) : g[i] = a[i]
    BY <1>3, AppendProperties
  <1> HIDE DEF b, d, g
  <1>8. b = g
    <2>1. Len(b) = Len(g)
      BY <1>2, <1>3, <1>5, <1>7
    <2>2. ASSUME NEW i \in 1..Len(b) PROVE b[i] = g[i]
      <3>1. CASE i = (n - k) + 1
        <4>1. k + i = n + 1 /\ i = Len(a) + 1 /\ i \in 1..((n + 1) - k)
          BY <3>1, <1>2, <1>3, <1>5
        <4> QED BY <4>1, <1>1, <1>5, <1>7
      <3>2. CASE i # (n - k) + 1
        <4>1. i \in 1..(n - k) /\ k + i \in 1..n /\ i \in 1..((n + 1) - k)
          BY <3>2, <1>2, <1>5
        <4> QED BY <4>1, <1>1, <1>3, <1>5, <1>7
      <3> QED BY <3>1, <3>2
    <2> QED BY <1>5, <1>7, <2>1, <2>2, SeqEqual
  <1>9. d = c
    <2>1. \A i \in 1..k : d[i] = c[i]
      BY <1>1, <1>2, <1>4, <1>6
    <2> QED BY <1>4, <1>6, <2>1, SeqEqual
  <1> QED BY <1>1, <1>8, <1>9 DEF t, n, a, b, c, d, g

\* Up to the first chunk that is dropped: the next packet of the stream.
LEMMA StreamFacts ==
  ASSUME IInv, ~lost
  PROVE  /\ sent \in Seq(Packet) /\ Len(sent) \in Nat
         /\ Len(handled) \in Nat /\ Len(handled) <= Len(sent)
         /\ received \in Seq(Byte) /\ wire \in Seq(Byte) /\ Remaining \in Seq(Packet)
         /\ Remaining = <<>> <=> Len(handled) = Len(sent)
         /\ Remaining # <<>> =>
              /\ Len(handled) + 1 \in 1..Len(sent)
              /\ Head(Remaining) = sent[Len(handled) + 1] /\ Head(Remaining) \in Packet
              /\ Tail(Remaining) = SubSeq(sent, (Len(handled) + 1) + 1, Len(sent))
  <1> DEFINE k == Len(handled)
             n == Len(sent)
  <1>1. /\ sent \in Seq(Packet) /\ n \in Nat /\ k \in Nat
        /\ received \in Seq(Byte) /\ wire \in Seq(Byte)
    BY LenProperties DEF IInv, TypeOK, Packet
  <1>2. k <= n
    BY DEF IInv, Delivery, Delivered
  <1>3. Remaining \in Seq(Packet) /\ Len(Remaining) = n - k
    BY <1>1, <1>2, Part DEF Remaining
  <1>4. Remaining = <<>> <=> k = n
    <2> HIDE DEF k, n
    <2> QED BY <1>1, <1>3, EmptySeq
  <1>5. ASSUME Remaining # <<>>
        PROVE  /\ k + 1 \in 1..n
               /\ Head(Remaining) = sent[k + 1] /\ Head(Remaining) \in Packet
               /\ Tail(Remaining) = SubSeq(sent, (k + 1) + 1, n)
    <2>1. k < n
      BY <1>1, <1>2, <1>4, <1>5
    <2>2. Head(Remaining) \in Packet
      BY <1>3, <1>5, HeadTailProperties
    <2> QED BY <1>1, <2>1, <2>2, RestFacts DEF Remaining
  <1> QED BY <1>1, <1>2, <1>3, <1>4, <1>5

\* HandlePacket gets the next packet.
LEMMA HandleFacts ==
  ASSUME IInv, ~lost, HandlePacket
  PROVE  /\ Remaining # <<>>
         /\ handled' = Append(handled, sent[Len(handled) + 1])
         /\ Pending(received', wire, Tail(Remaining), alive)
         /\ held' => ReadVarInt32(sent[Len(handled) + 1]) \in Refused
         /\ UNCHANGED <<sent, alive, wire, lost>>
  <1> DEFINE k == VarIntSize(received)
             n == k + ReadVarInt32(received)
             packet == SubSeq(received, k + 1, n)
             next == sent[Len(handled) + 1]
  <1>1. IsComplete(received)
    BY CompleteIs DEF HandlePacket
  <1>2. Pending(received, wire, Remaining, alive)
    BY DEF IInv, Delivery, Delivered
  <1>3. received \in Seq(Byte) /\ wire \in Seq(Byte) /\ Remaining \in Seq(Packet)
    BY StreamFacts
  <1>4. Remaining # <<>>
    BY <1>1, <1>2, <1>3, PendingFirst
  <1>5. packet = Head(Remaining) /\ Pending(SubSeq(received, n + 1, Len(received)), wire, Tail(Remaining), alive)
    BY <1>1, <1>2, <1>3, <1>4, PendingFirst
  <1>6. packet = next /\ Len(handled) + 1 \in 1..Len(sent)
    BY <1>4, <1>5, StreamFacts
  <1>7. VarIntSize(next) > 0
    BY <1>6 DEF IInv, Composing
  <1>8. /\ received' = SubSeq(received, n + 1, Len(received))
        /\ handled' = IF VarIntSize(packet) > 0 THEN Append(handled, packet) ELSE handled
        /\ held' = ~Known(packet)
        /\ UNCHANGED <<sent, alive, wire, lost>>
    BY DEF HandlePacket, writeVars
  <1>9. handled' = Append(handled, next) /\ (held' => ReadVarInt32(next) \in Refused)
    <2> HIDE DEF packet, next
    <2> QED BY <1>6, <1>7, <1>8 DEF Known
  <1> QED BY <1>4, <1>5, <1>8, <1>9

\* A chunk that finds no room has a fatal packet before it or in it.
LEMMA DropFacts ==
  ASSUME IInv, ~lost, NEW n \in 1..MaxChunk, DataReceived(n), ~HasRoom(n)
  PROVE  \E i \in 1..Len(sent) : Fatal(sent[i])
  <1>1. CASE held
    BY <1>1 DEF IInv, Delivery, Delivered, Fatal
  <1>2. CASE ~held
    <2>1. ~IsComplete(received)
      BY <1>2, CompleteIs DEF IInv, Waiting, DataReceived
    <2>2. Pending(received, wire, Remaining, alive)
      BY DEF IInv, Delivery, Delivered
    <2>3. received \in Seq(Byte) /\ wire \in Seq(Byte) /\ Remaining \in Seq(Packet)
      BY StreamFacts
    <2>4. Remaining # <<>>
      <3>1. wire # <<>>
        <4>1. n <= Len(wire) /\ n \in Nat /\ n >= 1
          BY FramingAssumption DEF DataReceived
        <4> QED BY <2>3, <4>1, EmptySeq
      <3> QED BY <2>2, <2>3, <3>1, PendingFirst
    <2> DEFINE p == sent[Len(handled) + 1]
    <2>5. ~(Len(Frame(p)) <= Len(received)) /\ p \in Packet /\ Len(handled) + 1 \in 1..Len(sent)
      <3>1. p = Head(Remaining) /\ p \in Packet /\ Len(handled) + 1 \in 1..Len(sent)
        BY <2>4, StreamFacts
      <3>2. ~(Len(Frame(Head(Remaining))) <= Len(received))
        BY <2>1, <2>2, <2>3, <2>4, PendingFirst
      <3> QED BY <3>1, <3>2
    <2> HIDE DEF p
    <2>6. /\ Len(p) \in Nat /\ Len(WriteVarInt32(Len(p))) \in Nat
          /\ Len(Frame(p)) = Len(WriteVarInt32(Len(p))) + Len(p)
      BY <2>5, FrameType
    <2>7. /\ Len(received) \in Nat /\ InSize \in Nat /\ MaxChunk \in Nat
          /\ n \in Nat /\ n <= MaxChunk /\ ~(Len(received) + n <= InSize)
      BY <2>3, LenProperties, FramingAssumption DEF HasRoom
    <2>8. Len(WriteVarInt32(Len(p))) + Len(p) + MaxChunk > InSize + 1
      BY <2>5, <2>6, <2>7
    <2>9. Fatal(p)
      BY <2>8 DEF Fatal
    <2> QED BY <2>5, <2>9 DEF p
  <1> QED BY <1>1, <1>2

\* Every step keeps the stream.
LEMMA DeliveryStep == ASSUME IInv, [Next]_vars PROVE Delivery'
  <1> SUFFICES ASSUME ~lost'
               PROVE  Delivered'
    BY DEF Delivery
  <1>1. ~lost
    BY DEF Next, ReaderStep, Packetizer, WriteField, VerificationFails, SendPacket,
           LoopEnds, HandlePacket, DataReceived, vars, readVars
  <1>2. /\ Len(handled) <= Len(sent) /\ handled = SubSeq(sent, 1, Len(handled))
        /\ Pending(received, wire, Remaining, alive)
        /\ held => \E i \in 1..Len(sent) : ReadVarInt32(sent[i]) \in Refused
    BY <1>1 DEF IInv, Delivery, Delivered
  <1>3. /\ sent \in Seq(Packet) /\ Len(sent) \in Nat /\ Len(handled) \in Nat
        /\ received \in Seq(Byte) /\ wire \in Seq(Byte) /\ Remaining \in Seq(Packet)
    BY <1>1, StreamFacts
  <1>4. CASE UNCHANGED <<alive, wire, received, held, sent, handled>>
    BY <1>2, <1>4 DEF Remaining, Delivered
  <1>5. ASSUME NEW w \in Writer, NEW s \in Field, VerificationFails(w, s)
        PROVE  Delivered'
    <2>1. /\ alive = TRUE /\ alive' = FALSE /\ UNCHANGED <<received, held, sent, handled>>
          /\ Remaining' = Remaining
      BY <1>5 DEF VerificationFails, readVars, Remaining, IInv, TypeOK
    <2>2. PICK n \in 0..Len(wire) : wire' = SubSeq(wire, 1, n)
      BY <1>5 DEF VerificationFails
    <2>3. Pending(received, wire, Remaining, TRUE)
      BY <1>2, <2>1
    <2>4. Pending(received, SubSeq(wire, 1, n), Remaining, FALSE)
      BY <1>3, <2>3, PendingDies
    <2> QED BY <1>2, <2>1, <2>2, <2>4 DEF Delivered
  <1>6. ASSUME NEW w \in Writer, SendPacket(w)
        PROVE  Delivered'
    <2> DEFINE p == draft[w]
    <2>1. /\ alive = TRUE /\ alive' = TRUE /\ UNCHANGED <<received, held, handled>>
          /\ sent' = Append(sent, p) /\ p \in Packet
      BY <1>6 DEF SendPacket, readVars, IInv, TypeOK, Packet
    <2>2. wire' = wire \o WriteVarInt32(Len(p)) \o p
      BY <1>6 DEF SendPacket, IInv, Composing
    <2> HIDE DEF p
    <2>3. Pending(received, wire, Remaining, TRUE)
      BY <1>2, <2>1
    <2>4. Pending(received, wire', Append(Remaining, p), TRUE)
      BY <1>3, <2>1, <2>2, <2>3, PendingSend
    <2>5. /\ SubSeq(sent', Len(handled) + 1, Len(sent')) = Append(SubSeq(sent, Len(handled) + 1, Len(sent)), p)
          /\ SubSeq(sent', 1, Len(handled)) = SubSeq(sent, 1, Len(handled))
      BY <1>2, <1>3, <2>1, RestAppend
    <2>6. Remaining' = Append(Remaining, p)
      BY <2>1, <2>5 DEF Remaining
    <2>7. Len(sent') = Len(sent) + 1 /\ \A i \in 1..Len(sent) : sent'[i] = sent[i]
      BY <1>3, <2>1, AppendProperties
    <2>8. Pending(received', wire', Remaining', alive')
      BY <2>1, <2>4, <2>6
    <2>9. Len(handled') <= Len(sent') /\ handled' = SubSeq(sent', 1, Len(handled'))
      BY <1>2, <1>3, <2>1, <2>5, <2>7
    <2>10. ASSUME held' PROVE \E i \in 1..Len(sent') : ReadVarInt32(sent'[i]) \in Refused
      <3>1. PICK i \in 1..Len(sent) : ReadVarInt32(sent[i]) \in Refused
        BY <1>2, <2>1, <2>10
      <3>2. i \in 1..Len(sent') /\ sent'[i] = sent[i]
        BY <1>3, <2>7
      <3> QED BY <3>1, <3>2
    <2> QED BY <2>8, <2>9, <2>10 DEF Delivered
  <1>7. ASSUME HandlePacket
        PROVE  Delivered'
    <2> DEFINE k == Len(handled)
    <2>1. /\ Remaining # <<>> /\ handled' = Append(handled, sent[k + 1])
          /\ Pending(received', wire, Tail(Remaining), alive)
          /\ held' => ReadVarInt32(sent[k + 1]) \in Refused
          /\ UNCHANGED <<sent, alive, wire>>
      BY <1>1, <1>7, HandleFacts
    <2>2. k + 1 \in 1..Len(sent) /\ Tail(Remaining) = SubSeq(sent, (k + 1) + 1, Len(sent))
      BY <1>1, <2>1, StreamFacts
    <2>3. Len(handled') = k + 1
      BY <2>1, AppendProperties DEF IInv, TypeOK
    <2>4. SubSeq(sent, 1, k + 1) = Append(SubSeq(sent, 1, k), sent[k + 1])
      <3>1. k < Len(sent) /\ k \in Nat
        BY <1>3, <2>2
      <3> QED BY <1>3, <3>1, RestFacts
    <2>5. Remaining' = Tail(Remaining)
      BY <2>1, <2>2, <2>3 DEF Remaining
    <2>6. handled' = SubSeq(sent, 1, k + 1)
      BY <1>2, <2>1, <2>4
    <2>7. Len(handled') <= Len(sent') /\ handled' = SubSeq(sent', 1, Len(handled'))
      BY <1>3, <2>1, <2>2, <2>3, <2>6
    <2> QED BY <2>1, <2>2, <2>5, <2>7 DEF Delivered
  <1>8. ASSUME NEW n \in 1..MaxChunk, DataReceived(n)
        PROVE  Delivered'
    <2>1. /\ received' = received \o SubSeq(wire, 1, n) /\ wire' = SubSeq(wire, n + 1, Len(wire))
          /\ held' = FALSE /\ UNCHANGED <<sent, handled, alive>> /\ Remaining' = Remaining
      BY <1>8 DEF DataReceived, writeVars, Remaining
    <2>2. n \in 0..Len(wire)
      BY <1>3, <1>8, LenProperties, FramingAssumption DEF DataReceived
    <2>3. Pending(received', wire', Remaining, alive)
      BY <1>2, <1>3, <2>1, <2>2, PendingMoves
    <2> QED BY <1>2, <2>1, <2>3 DEF Delivered
  <1> QED BY <1>4, <1>5, <1>6, <1>7, <1>8
          DEF Next, ReaderStep, Packetizer, WriteField, LoopEnds, vars, writeVars, readVars

\* Every step keeps the invariant.
LEMMA Inductive == IInv /\ [Next]_vars => IInv'
  BY TypeStep, ComposingStep, DeliveryStep, WaitingStep DEF IInv

-----------------------------------------------------------------------------
(* Theorems.                                                                *)

\* The invariant holds: the buffer belongs to one thread, the stream holds the
\* frames of the packets not handled, and the client waits only when it must.
THEOREM Invariant == Spec => []IInv
  BY InitHolds, Inductive, PTL DEF Spec

\* Every variable keeps its type and both buffers their size, whatever is sent
\* and however it is cut into chunks (TypeOK).
THEOREM TypeCorrect == Spec => []TypeOK
  <1>1. IInv => TypeOK
    BY DEF IInv
  <1> QED BY <1>1, Invariant, PTL

\* The loop of AddReceivedData leaves no complete packet behind, and once the wire
\* is empty everything a live server sent has been handled, unless a packet was
\* refused or a chunk dropped (NothingCompleteWaits).
THEOREM DeliverySafety == Spec => []NothingCompleteWaits
  <1>1. IInv => NothingCompleteWaits
    <2> SUFFICES ASSUME IInv, reader = "idle", ~lost, ~held
                 PROVE  ~Complete /\ (alive /\ wire = <<>> => handled = sent)
      BY DEF NothingCompleteWaits
    <2>1. ~Complete
      BY DEF IInv, Waiting
    <2>2. ASSUME alive, wire = <<>> PROVE handled = sent
      <3>1. Pending(received, wire, Remaining, alive) /\ handled = SubSeq(sent, 1, Len(handled))
        BY DEF IInv, Delivery, Delivered
      <3>2. received \in Seq(Byte) /\ wire \in Seq(Byte) /\ Remaining \in Seq(Packet)
        BY StreamFacts
      <3>3. Remaining = <<>>
        BY <2>1, <2>2, <3>1, <3>2, PendingFirst, CompleteIs
      <3>4. Len(handled) = Len(sent) /\ sent \in Seq(Packet)
        BY <3>3, StreamFacts
      <3>5. SubSeq(sent, 1, Len(sent)) = sent
        BY <3>4, SubSeqFull
      <3> QED BY <3>1, <3>4, <3>5
    <2> QED BY <2>1, <2>2
  <1> QED BY <1>1, Invariant, PTL

\* The initial states of the packet layer are those of the packet stream.
LEMMA StreamInit == Init => Stream!Init
  BY DEF Init, Stream!Init

\* Every step of the packet layer is a step of the packet stream or none.
LEMMA StreamStep == ASSUME IInv, [Next]_vars PROVE [Stream!Next]_(Stream!vars)
  <1>1. CASE UNCHANGED <<sent, handled, lost>>
    BY <1>1 DEF Stream!vars
  <1>2. ASSUME NEW w \in Writer, SendPacket(w) PROVE Stream!Next
    <2>1. sent' = Append(sent, draft[w]) /\ UNCHANGED <<handled, lost>>
          /\ sent \in Seq(Seq(Byte)) /\ draft[w] \in Seq(Byte)
      BY <1>2 DEF SendPacket, readVars, IInv, TypeOK
    <2>2. Len(sent') = Len(sent) + 1
      BY <2>1, AppendProperties
    <2>3. SubSeq(sent', 1, Len(sent)) = sent
      <3>1. Len(sent) \in Nat /\ Len(sent) <= Len(sent)
        BY <2>1, LenProperties
      <3>2. SubSeq(sent', 1, Len(sent)) = SubSeq(sent, 1, Len(sent))
        BY <2>1, <3>1, RestAppend
      <3>3. SubSeq(sent, 1, Len(sent)) = sent
        BY <2>1, SubSeqFull
      <3> QED BY <3>2, <3>3
    <2> QED BY <2>1, <2>2, <2>3 DEF Stream!Next, Stream!Send
  <1>3. ASSUME HandlePacket PROVE Stream!Next
    <2>1. CASE lost
      BY <1>3, <2>1 DEF HandlePacket, writeVars, Stream!Next, Stream!Garbage
    <2>2. CASE ~lost
      <3>1. Remaining # <<>> /\ handled' = Append(handled, sent[Len(handled) + 1])
            /\ UNCHANGED <<sent, lost>>
        BY <1>3, <2>2, HandleFacts
      <3>2. Len(handled) + 1 \in 1..Len(sent) /\ Len(handled) \in Nat /\ Len(sent) \in Nat
        BY <2>2, <3>1, StreamFacts
      <3>3. Len(handled) < Len(sent)
        BY <3>2
      <3> QED BY <2>2, <3>1, <3>3 DEF Stream!Next, Stream!Handle
    <2> QED BY <2>1, <2>2
  <1>4. ASSUME NEW n \in 1..MaxChunk, DataReceived(n) PROVE [Stream!Next]_(Stream!vars)
    <2>1. CASE HasRoom(n) \/ lost
      BY <1>4, <2>1 DEF DataReceived, writeVars, Stream!vars, IInv, TypeOK
    <2>2. CASE ~HasRoom(n) /\ ~lost
      <3>1. \E i \in 1..Len(sent) : Fatal(sent[i])
        BY <1>4, <2>2, DropFacts
      <3>2. lost' = TRUE /\ UNCHANGED <<sent, handled>>
        BY <1>4, <2>2 DEF DataReceived, writeVars
      <3> QED BY <2>2, <3>1, <3>2 DEF Stream!Next, Stream!Break
    <2> QED BY <2>1, <2>2
  <1> QED BY <1>1, <1>2, <1>3, <1>4
          DEF Next, ReaderStep, Packetizer, WriteField, VerificationFails, LoopEnds,
              vars, writeVars, readVars

\* The packet layer implements the packet stream: the handlers get the packets whole,
\* once and in the order in which the threads released m_CSPacket, until a chunk is
\* dropped, and none is unless a packet was fatal (PacketsInOrder).
THEOREM OrderRefinement == Spec => PacketsInOrder
  BY StreamInit, StreamStep, Invariant, PTL DEF Spec, PacketsInOrder, Stream!Spec

\* Whenever a chunk has been dropped, one of the packets sent was fatal.
Excused == lost => \E i \in 1..Len(sent) : Fatal(sent[i])

\* Every step keeps that.
LEMMA ExcusedStep == ASSUME IInv, Excused, [Next]_vars PROVE Excused'
  <1>1. CASE UNCHANGED <<sent, lost>>
    BY <1>1 DEF Excused
  <1>2. ASSUME NEW w \in Writer, SendPacket(w) PROVE Excused'
    <2>1. sent' = Append(sent, draft[w]) /\ UNCHANGED lost
          /\ sent \in Seq(Seq(Byte)) /\ draft[w] \in Seq(Byte)
      BY <1>2 DEF SendPacket, readVars, IInv, TypeOK
    <2>2. Len(sent) \in Nat /\ Len(sent') = Len(sent) + 1
          /\ \A i \in 1..Len(sent) : sent'[i] = sent[i]
      BY <2>1, AppendProperties, LenProperties
    <2>3. SUFFICES ASSUME lost, NEW i \in 1..Len(sent), Fatal(sent[i])
                   PROVE  \E j \in 1..Len(sent') : Fatal(sent'[j])
      BY <2>1 DEF Excused, Fatal
    <2>4. i \in 1..Len(sent') /\ sent'[i] = sent[i]
      BY <2>2
    <2> QED BY <2>3, <2>4
  <1>3. ASSUME NEW n \in 1..MaxChunk, DataReceived(n), ~HasRoom(n), ~lost PROVE Excused'
    <2>1. \E i \in 1..Len(sent) : Fatal(sent[i])
      BY <1>3, DropFacts
    <2> QED BY <1>3, <2>1 DEF DataReceived, writeVars, Excused, Fatal
  <1>4. ASSUME NEW n \in 1..MaxChunk, DataReceived(n), HasRoom(n) \/ lost PROVE Excused'
    <2>1. UNCHANGED <<sent, lost>>
      BY <1>4 DEF DataReceived, writeVars, IInv, TypeOK
    <2> QED BY <1>1, <2>1
  <1> QED BY <1>1, <1>2, <1>3, <1>4
          DEF Next, ReaderStep, HandlePacket, Packetizer, WriteField, VerificationFails, LoopEnds,
              vars, writeVars, readVars

\* AddReceivedData never reports "Too much data" and drops a chunk unless a packet
\* was refused or, with its length and one chunk, was larger than m_ReceivedData: a
\* client that is merely behind loses nothing.
THEOREM LossNeedsFatal == Spec => [](lost => \E i \in 1..Len(sent) : Fatal(sent[i]))
  <1>1. Init => Excused
    BY DEF Init, Excused
  <1>2. IInv /\ Excused /\ [Next]_vars => Excused'
    BY ExcusedStep
  <1> QED BY <1>1, <1>2, Invariant, PTL DEF Spec, Excused

=============================================================================
