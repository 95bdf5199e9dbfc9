--------------------------- MODULE ByteBuffer_proofs --------------------------
(***************************************************************************)
(* The ring buffer is a queue, for every capacity and every set of bytes.   *)
(* The inductive invariant is TypeOK and InOrder; the refinement follows     *)
(* from three facts about segments of the ring: how they join, how they are  *)
(* cut, and what a write leaves of them.                                     *)
(***************************************************************************)
EXTENDS ByteBuffer, SequenceTheorems, TLAPS

-----------------------------------------------------------------------------
(* Positions.                                                               *)

\* Going at most once round the ring from a position leads to a position.
LEMMA WrapType ==
  ASSUME NEW i \in Position, NEW n \in 0..BufferSize
  PROVE  Wrap(i + n) \in Position
  BY ByteBufferAssumption DEF Wrap, Position, BufferSize

\* Distances are shorter than the ring.
LEMMA DistanceType ==
  ASSUME NEW i \in Position, NEW j \in Position
  PROVE  Distance(i, j) \in 0..Capacity
  BY ByteBufferAssumption DEF Distance, Position, BufferSize

\* Going n cells on is the inverse of the distance.
LEMMA DistanceWrap ==
  ASSUME NEW i \in Position, NEW n \in 0..Capacity
  PROVE  Distance(i, Wrap(i + n)) = n
  BY ByteBufferAssumption DEF Distance, Wrap, Position, BufferSize

\* And the other way round.
LEMMA WrapDistance ==
  ASSUME NEW i \in Position, NEW j \in Position
  PROVE  Wrap(i + Distance(i, j)) = j
  BY ByteBufferAssumption DEF Distance, Wrap, Position, BufferSize

\* Two legs along the ring are one.
LEMMA WrapWrap ==
  ASSUME NEW i \in Position, NEW m \in 0..BufferSize, NEW n \in 0..BufferSize,
         m + n \in 0..BufferSize
  PROVE  Wrap(Wrap(i + m) + n) = Wrap(i + (m + n))
  BY ByteBufferAssumption DEF Wrap, Position, BufferSize

\* GetFreeSpace leaves one cell free.
LEMMA FreeSpace ==
  ASSUME TypeOK
  PROVE  GetFreeSpace = Capacity - Distance(dataStart, writePos)
  BY ByteBufferAssumption DEF GetFreeSpace, Distance, TypeOK, Position, BufferSize

-----------------------------------------------------------------------------
(* Segments.                                                                *)

\* A segment is a sequence of its length.
LEMMA SegmentType ==
  ASSUME NEW b \in [Position -> Byte], NEW i \in Position, NEW n \in 0..BufferSize
  PROVE  /\ Segment(b, i, n) \in Seq(Byte)
         /\ Len(Segment(b, i, n)) = n
         /\ \A k \in 1..n : Segment(b, i, n)[k] = b[Wrap(i + k - 1)]
<1>1. n \in Nat
  BY ByteBufferAssumption DEF BufferSize
<1>2. ASSUME NEW k \in 1..n
      PROVE  b[Wrap(i + k - 1)] \in Byte
  <2>1. k - 1 \in 0..BufferSize /\ i + k - 1 = i + (k - 1)
    BY ByteBufferAssumption DEF BufferSize, Position
  <2>2. Wrap(i + (k - 1)) \in Position
    BY <2>1, WrapType
  <2> QED
    BY <2>1, <2>2
<1>3. Segment(b, i, n) \in [1..n -> Byte]
  BY <1>2 DEF Segment
<1>4. Segment(b, i, n) \in Seq(Byte) /\ Len(Segment(b, i, n)) = n
  BY <1>1, <1>3
<1> QED
  BY <1>4 DEF Segment

\* Two adjacent segments make one.
LEMMA SegmentJoin ==
  ASSUME NEW b \in [Position -> Byte], NEW i \in Position,
         NEW m \in 0..Capacity, NEW n \in 0..Capacity, m + n \in 0..Capacity
  PROVE  Segment(b, i, m) \o Segment(b, Wrap(i + m), n) = Segment(b, i, m + n)
<1> DEFINE j == Wrap(i + m)
           S == Segment(b, i, m)
           T == Segment(b, j, n)
           U == Segment(b, i, m + n)
<1>1. m \in 0..BufferSize /\ n \in 0..BufferSize /\ m + n \in 0..BufferSize
  BY ByteBufferAssumption DEF BufferSize
<1>2. j \in Position
  BY <1>1, WrapType
<1>3. /\ S \in Seq(Byte) /\ Len(S) = m
      /\ \A k \in 1..m : S[k] = b[Wrap(i + k - 1)]
  BY <1>1, SegmentType
<1>4. /\ T \in Seq(Byte) /\ Len(T) = n
      /\ \A k \in 1..n : T[k] = b[Wrap(j + k - 1)]
  BY <1>1, <1>2, SegmentType
<1>5. /\ U \in Seq(Byte) /\ Len(U) = m + n
      /\ \A k \in 1..(m + n) : U[k] = b[Wrap(i + k - 1)]
  BY <1>1, SegmentType
<1>6. ASSUME NEW k \in 1..(m + n)
      PROVE  (S \o T)[k] = U[k]
  <2>1. CASE k \in 1..m
    BY <2>1, <1>3, <1>4, <1>5
  <2>2. CASE k \notin 1..m
    <3>1. k - m \in 1..n /\ k - m - 1 \in 0..BufferSize /\ m + (k - m - 1) \in 0..BufferSize
      BY <2>2, <1>1, ByteBufferAssumption DEF BufferSize
    <3>2. Wrap(j + (k - m - 1)) = Wrap(i + (m + (k - m - 1)))
      BY <3>1, <1>1, WrapWrap
    <3>3. j + (k - m) - 1 = j + (k - m - 1) /\ m + (k - m - 1) = k - 1 /\ i + (k - 1) = i + k - 1
      BY <1>1, <1>2, <3>1 DEF Position
    <3>4. T[k - m] = b[Wrap(j + (k - m) - 1)]
      BY <3>1, <1>4
    <3>5. (S \o T)[k] = T[k - m]
      BY <2>2, <1>3, <1>4
    <3> QED
      BY <3>2, <3>3, <3>4, <3>5, <1>5
  <2> QED
    BY <2>1, <2>2
<1> HIDE DEF S, T, U
<1>7. S \o T \in Seq(Byte) /\ Len(S \o T) = m + n
  BY <1>3, <1>4, ConcatProperties
<1>8. S \o T = U
  BY <1>5, <1>6, <1>7, SeqEqual
<1> USE DEF S, T, U
<1> QED
  BY <1>8

\* A segment is cut into two.
LEMMA SegmentCut ==
  ASSUME NEW b \in [Position -> Byte], NEW i \in Position,
         NEW n \in 0..Capacity, NEW m \in 0..n
  PROVE  /\ SubSeq(Segment(b, i, n), 1, m) = Segment(b, i, m)
         /\ SubSeq(Segment(b, i, n), m + 1, n) = Segment(b, Wrap(i + m), n - m)
<1> DEFINE j == Wrap(i + m)
           S == Segment(b, i, m)
           T == Segment(b, j, n - m)
           U == Segment(b, i, n)
<1>1. /\ n \in 0..BufferSize /\ m \in 0..BufferSize /\ n - m \in 0..BufferSize
      /\ m \in 0..Capacity /\ n - m \in 0..Capacity /\ m + (n - m) = n
  BY ByteBufferAssumption DEF BufferSize
<1>2. j \in Position
  BY <1>1, WrapType
<1>3. S \in Seq(Byte) /\ Len(S) = m
  BY <1>1, SegmentType
<1>4. T \in Seq(Byte) /\ Len(T) = n - m
  BY <1>1, <1>2, SegmentType
<1>5. S \o T = U
  BY <1>1, SegmentJoin
<1>6. SubSeq(S \o T, 1, m) = S
  BY <1>3, <1>4
<1>7. SubSeq(S \o T, m + 1, n) = T
  BY <1>1, <1>3, <1>4
<1> QED
  BY <1>5, <1>6, <1>7

\* The ring b after the bytes s were written at position w.
Overwritten(b, w, s) ==
  [i \in Position |-> IF Distance(w, i) < Len(s) THEN s[Distance(w, i) + 1] ELSE b[i]]

\* The cells before a position are at the far end of the ring from it.
LEMMA DistanceBack ==
  ASSUME NEW i \in Position, NEW n \in 0..Capacity, NEW k \in 1..n
  PROVE  Distance(Wrap(i + n), Wrap(i + k - 1)) = BufferSize - (n - k + 1)
  BY ByteBufferAssumption DEF Distance, Wrap, Position, BufferSize

\* A write that fits leaves what lies before the write position as it was.
LEMMA WriteKeeps ==
  ASSUME NEW b \in [Position -> Byte], NEW i \in Position, NEW n \in 0..Capacity,
         NEW m \in 0..n, NEW s \in Seq(Byte), n + Len(s) <= Capacity
  PROVE  Segment(Overwritten(b, Wrap(i + n), s), i, m) = Segment(b, i, m)
<1>1. Len(s) \in Nat /\ n \in Nat /\ m \in Nat
  BY ByteBufferAssumption
<1>2. ASSUME NEW k \in 1..m
      PROVE  Overwritten(b, Wrap(i + n), s)[Wrap(i + k - 1)] = b[Wrap(i + k - 1)]
  <2>1. k \in 1..n /\ k - 1 \in 0..BufferSize /\ i + k - 1 = i + (k - 1)
    BY <1>1, ByteBufferAssumption DEF BufferSize, Position
  <2>2. Wrap(i + k - 1) \in Position
    BY <2>1, WrapType
  <2>3. Distance(Wrap(i + n), Wrap(i + k - 1)) = BufferSize - (n - k + 1)
    BY <2>1, DistanceBack
  <2>4. ~ (Distance(Wrap(i + n), Wrap(i + k - 1)) < Len(s))
    BY <1>1, <2>1, <2>3, ByteBufferAssumption DEF BufferSize
  <2> QED
    BY <2>2, <2>4 DEF Overwritten
<1> QED
  BY <1>2 DEF Segment

\* And what lies after it is what was written.
LEMMA WriteAdds ==
  ASSUME NEW b \in [Position -> Byte], NEW w \in Position,
         NEW s \in Seq(Byte), Len(s) <= Capacity
  PROVE  Segment(Overwritten(b, w, s), w, Len(s)) = s
<1> DEFINE c == Overwritten(b, w, s)
<1>1. Len(s) \in Nat /\ s \in [1..Len(s) -> Byte]
  BY LenProperties
<1>2. ASSUME NEW k \in 1..Len(s)
      PROVE  c[Wrap(w + k - 1)] = s[k]
  <2>1. k - 1 \in 0..Capacity /\ k - 1 \in 0..BufferSize /\ w + k - 1 = w + (k - 1)
    BY <1>1, ByteBufferAssumption DEF BufferSize, Position
  <2>2. Wrap(w + (k - 1)) \in Position /\ Distance(w, Wrap(w + (k - 1))) = k - 1
    BY <2>1, WrapType, DistanceWrap
  <2>3. k - 1 < Len(s) /\ (k - 1) + 1 = k
    BY <1>1
  <2> QED
    BY <2>1, <2>2, <2>3 DEF Overwritten
<1>3. Segment(c, w, Len(s)) = [k \in 1..Len(s) |-> s[k]]
  <2> HIDE DEF c
  <2> QED
    BY <1>2 DEF Segment
<1> QED
  BY <1>1, <1>3

\* The ring keeps its type.
LEMMA WriteType ==
  ASSUME NEW b \in [Position -> Byte], NEW w \in Position, NEW s \in Seq(Byte)
  PROVE  Overwritten(b, w, s) \in [Position -> Byte]
<1>1. Len(s) \in Nat /\ s \in [1..Len(s) -> Byte]
  BY LenProperties
<1>2. ASSUME NEW i \in Position, Distance(w, i) < Len(s)
      PROVE  s[Distance(w, i) + 1] \in Byte
  <2>1. Distance(w, i) \in Nat
    BY DistanceType, ByteBufferAssumption
  <2>2. Distance(w, i) + 1 \in 1..Len(s)
    BY <1>1, <1>2, <2>1
  <2> QED
    BY <1>1, <2>2
<1> QED
  BY <1>2 DEF Overwritten

-----------------------------------------------------------------------------
(* The steps, each with the step of the queue that it implements.           *)

Inv == TypeOK /\ InOrder

\* The two parts of the data, as the refinement mapping has them.
Done == Segment(buffer, dataStart, Distance(dataStart, readPos))
Todo == Segment(buffer, readPos, Distance(readPos, writePos))

\* What the invariant says of the two parts.
LEMMA Parts ==
  ASSUME Inv
  PROVE  /\ Done \in Seq(Byte) /\ Len(Done) = Distance(dataStart, readPos)
         /\ Todo \in Seq(Byte) /\ Len(Todo) = Distance(readPos, writePos)
         /\ Len(Done) + Len(Todo) = Distance(dataStart, writePos)
         /\ Len(Done) \in 0..Capacity /\ Len(Todo) \in 0..Capacity
         /\ Len(Done) + Len(Todo) \in 0..Capacity
<1>1. /\ Distance(dataStart, readPos) \in 0..Capacity
      /\ Distance(readPos, writePos) \in 0..Capacity
      /\ Distance(dataStart, writePos) \in 0..Capacity
  BY DistanceType DEF Inv, TypeOK
<1>2. /\ Distance(dataStart, readPos) \in 0..BufferSize
      /\ Distance(readPos, writePos) \in 0..BufferSize
  BY <1>1, ByteBufferAssumption DEF BufferSize
<1>3. Done \in Seq(Byte) /\ Len(Done) = Distance(dataStart, readPos)
  BY <1>2, SegmentType DEF Inv, TypeOK, Done
<1>4. Todo \in Seq(Byte) /\ Len(Todo) = Distance(readPos, writePos)
  BY <1>2, SegmentType DEF Inv, TypeOK, Todo
<1> QED
  BY <1>1, <1>3, <1>4 DEF Inv, InOrder

\* A call that fails, or that returns nothing and moves nothing.
LEMMA Rest ==
  ASSUME Inv, UNCHANGED <<buffer, dataStart, readPos, writePos>>
  PROVE  /\ InOrder' /\ Done' = Done /\ Todo' = Todo
         /\ (out' \in [ok : BOOLEAN, data : Seq(Byte)] => TypeOK')
  BY DEF Inv, TypeOK, InOrder, Done, Todo

\* What the calls return is of its type.
LEMMA ReturnType ==
  /\ Fail \in [ok : BOOLEAN, data : Seq(Byte)]
  /\ \A t \in Seq(Byte) : Return(t) \in [ok : BOOLEAN, data : Seq(Byte)]
  /\ Return(<<>>) \in [ok : BOOLEAN, data : Seq(Byte)]
  BY DEF Fail, Return

\* A segment of no cells is empty.
LEMMA EmptySegment ==
  ASSUME NEW b, NEW i
  PROVE  Segment(b, i, 0) = <<>>
  BY DEF Segment

\* No cell is between a position and itself.
LEMMA DistanceSelf ==
  ASSUME NEW i \in Position
  PROVE  Distance(i, i) = 0
  BY ByteBufferAssumption DEF Distance, Position, BufferSize

\* From where moving on n cells leads, n fewer cells are left.
LEMMA DistanceMove ==
  ASSUME NEW i \in Position, NEW j \in Position, NEW n \in 0..Distance(i, j)
  PROVE  Distance(Wrap(i + n), j) = Distance(i, j) - n
  BY ByteBufferAssumption DEF Distance, Wrap, Position, BufferSize

\* And moving the far end on adds to the distance.
LEMMA DistanceGrow ==
  ASSUME NEW i \in Position, NEW j \in Position, NEW n \in Nat,
         Distance(i, j) + n <= Capacity
  PROVE  Distance(i, Wrap(j + n)) = Distance(i, j) + n
  BY ByteBufferAssumption DEF Distance, Wrap, Position, BufferSize

\* A write appends to the queue, or fails as the queue does.
LEMMA WriteStep ==
  ASSUME Inv, NEW s \in Seq(Byte), Write(s)
  PROVE  Inv' /\ Queue!Write(s)
<1>1. Len(s) \in Nat /\ GetFreeSpace = Capacity - Distance(dataStart, writePos)
  BY FreeSpace, LenProperties DEF Inv
<1>2. /\ Distance(dataStart, readPos) \in 0..Capacity
      /\ Distance(readPos, writePos) \in 0..Capacity
      /\ Distance(dataStart, writePos) \in 0..Capacity
      /\ Distance(dataStart, readPos) + Distance(readPos, writePos)
           = Distance(dataStart, writePos)
  BY DistanceType DEF Inv, TypeOK, InOrder
<1>3. Len(s) <= GetFreeSpace <=> Len(Done) + Len(Todo) + Len(s) <= Capacity
  BY <1>1, <1>2, Parts, ByteBufferAssumption
<1>4. CASE Len(s) <= GetFreeSpace
  <2>1. /\ buffer' = Overwritten(buffer, writePos, s)
        /\ writePos' = Wrap(writePos + Len(s))
        /\ out' = Return(<<>>)
        /\ dataStart' = dataStart /\ readPos' = readPos
    BY <1>4 DEF Write, Overwritten
  <2>2. Len(s) \in 0..BufferSize /\ Len(s) \in 0..Capacity
    BY <1>1, <1>2, <1>4, ByteBufferAssumption DEF BufferSize
  <2>3. TypeOK'
    BY <2>1, <2>2, WriteType, WrapType, ReturnType DEF Inv, TypeOK
  <2>4. /\ Distance(dataStart, writePos') = Distance(dataStart, writePos) + Len(s)
        /\ Distance(readPos, writePos') = Distance(readPos, writePos) + Len(s)
    BY <1>1, <1>2, <1>4, <2>1, DistanceGrow, ByteBufferAssumption DEF Inv, TypeOK
  <2>5. InOrder'
    BY <1>1, <1>2, <2>1, <2>4, ByteBufferAssumption DEF InOrder
  <2>6. writePos = Wrap(dataStart + Distance(dataStart, writePos))
        /\ writePos = Wrap(readPos + Distance(readPos, writePos))
    BY WrapDistance DEF Inv, TypeOK
  <2>7. Done' = Done
    <3>1. Distance(dataStart, readPos) \in 0..Distance(dataStart, writePos)
      BY <1>2, ByteBufferAssumption
    <3>2. Segment(Overwritten(buffer, Wrap(dataStart + Distance(dataStart, writePos)), s),
                  dataStart, Distance(dataStart, readPos)) = Done
      BY <1>1, <1>2, <1>4, <3>1, WriteKeeps, ByteBufferAssumption DEF Inv, TypeOK, Done
    <3> QED
      BY <2>1, <2>6, <3>2 DEF Done
  <2>8. Todo' = Todo \o s
    <3>1. Segment(buffer', readPos, Distance(readPos, writePos)) = Todo
      <4>1. Distance(readPos, writePos) \in 0..Distance(readPos, writePos)
        BY <1>2, ByteBufferAssumption
      <4>2. Segment(Overwritten(buffer, Wrap(readPos + Distance(readPos, writePos)), s),
                    readPos, Distance(readPos, writePos)) = Todo
        BY <1>1, <1>2, <1>4, <4>1, WriteKeeps, ByteBufferAssumption DEF Inv, TypeOK, Todo
      <4> QED
        BY <2>1, <2>6, <4>2
    <3>2. Segment(buffer', writePos, Len(s)) = s
      BY <2>1, <2>2, WriteAdds DEF Inv, TypeOK
    <3>3. Segment(buffer', readPos, Distance(readPos, writePos))
            \o Segment(buffer', Wrap(readPos + Distance(readPos, writePos)), Len(s))
          = Segment(buffer', readPos, Distance(readPos, writePos) + Len(s))
      <4> DEFINE R == Distance(readPos, writePos)
      <4>1. R \in 0..Capacity /\ R + Len(s) <= Capacity
        BY <1>1, <1>2, <1>4, ByteBufferAssumption
      <4>2. buffer' \in [Position -> Byte] /\ readPos \in Position
        BY <2>3 DEF Inv, TypeOK
      <4> HIDE DEF R
      <4>3. R + Len(s) \in 0..Capacity
        BY <1>1, <4>1, ByteBufferAssumption
      <4>4. Segment(buffer', readPos, R) \o Segment(buffer', Wrap(readPos + R), Len(s))
              = Segment(buffer', readPos, R + Len(s))
        BY <2>2, <4>1, <4>2, <4>3, SegmentJoin
      <4> QED
        BY <4>4 DEF R
    <3> QED
      BY <2>1, <2>4, <2>6, <3>1, <3>2, <3>3 DEF Todo
  <2>9. Queue!Write(s)
    BY <1>3, <1>4, <2>1, <2>7, <2>8
       DEF Queue!Write, Queue!Return, Return, Done, Todo
  <2> QED
    BY <2>3, <2>5, <2>9 DEF Inv
<1>5. CASE ~ (Len(s) <= GetFreeSpace)
  <2>1. out' = Fail /\ UNCHANGED <<buffer, dataStart, readPos, writePos>>
    BY <1>5 DEF Write
  <2>2. Inv' /\ Done' = Done /\ Todo' = Todo
    BY <2>1, Rest, ReturnType DEF Inv
  <2> QED
    BY <1>3, <1>5, <2>1, <2>2
       DEF Queue!Write, Queue!Fail, Fail, Done, Todo
<1> QED
  BY <1>4, <1>5

\* Moving the read position on moves bytes from one part to the other.
LEMMA Advance ==
  ASSUME Inv, NEW n \in Nat, n <= GetReadableSpace,
         readPos' = Wrap(readPos + n), UNCHANGED <<buffer, dataStart, writePos>>
  PROVE  /\ readPos' \in Position /\ InOrder'
         /\ SubSeq(Todo, 1, n) = Segment(buffer, readPos, n)
         /\ Done' = Done \o SubSeq(Todo, 1, n)
         /\ Todo' = SubSeq(Todo, n + 1, Len(Todo))
<1> DEFINE D == Distance(dataStart, readPos)
           R == Distance(readPos, writePos)
<1>1. /\ D \in 0..Capacity /\ R \in 0..Capacity /\ D + R \in 0..Capacity
      /\ D + R = Distance(dataStart, writePos) /\ Len(Todo) = R
  BY Parts
<1>2. n <= R /\ n \in 0..R /\ n \in 0..Capacity /\ n \in 0..BufferSize
  BY <1>1, ByteBufferAssumption DEF GetReadableSpace, BufferSize
<1>3. buffer \in [Position -> Byte] /\ dataStart \in Position /\ readPos \in Position
      /\ writePos \in Position
  BY DEF Inv, TypeOK
<1>4. readPos' \in Position
  BY <1>2, <1>3, WrapType
<1>5. Distance(readPos', writePos) = R - n
  BY <1>2, <1>3, DistanceMove
<1>6. Distance(dataStart, readPos') = D + n
  <2>1. D + n <= Capacity
    <3> HIDE DEF D, R
    <3> QED
      BY <1>1, <1>2, ByteBufferAssumption
  <2> QED
    BY <1>3, <2>1, DistanceGrow
<1>7. InOrder'
  <2>1. (D + n) + (R - n) = D + R
    <3> HIDE DEF D, R
    <3> QED
      BY <1>1, <1>2, ByteBufferAssumption
  <2> QED
    BY <1>1, <1>5, <1>6, <2>1 DEF InOrder
<1>8. /\ SubSeq(Todo, 1, n) = Segment(buffer, readPos, n)
      /\ SubSeq(Todo, n + 1, R) = Segment(buffer, Wrap(readPos + n), R - n)
  BY <1>1, <1>2, <1>3, SegmentCut DEF Todo
<1>9. Todo' = SubSeq(Todo, n + 1, Len(Todo))
  BY <1>1, <1>5, <1>8 DEF Todo
<1>10. Done \o Segment(buffer, readPos, n) = Segment(buffer, dataStart, D + n)
  <2>1. readPos = Wrap(dataStart + D)
    BY <1>3, WrapDistance
  <2>2. D + n \in 0..Capacity
    <3> HIDE DEF D, R
    <3> QED
      BY <1>1, <1>2, ByteBufferAssumption
  <2>3. Segment(buffer, dataStart, D) \o Segment(buffer, Wrap(dataStart + D), n)
          = Segment(buffer, dataStart, D + n)
    <3> HIDE DEF D
    <3> QED
      BY <1>1, <1>2, <1>3, <2>2, SegmentJoin
  <2> QED
    BY <2>1, <2>3 DEF Done
<1>11. Done' = Done \o SubSeq(Todo, 1, n)
  BY <1>6, <1>8, <1>10 DEF Done
<1> QED
  BY <1>4, <1>7, <1>8, <1>9, <1>11

\* A read takes from the queue, or fails as the queue does.
LEMMA ReadStep ==
  ASSUME Inv, NEW n \in Nat, Read(n)
  PROVE  Inv' /\ Queue!Read(n)
<1>1. n <= GetReadableSpace <=> n <= Len(Todo)
  BY Parts DEF GetReadableSpace
<1>2. CASE n <= GetReadableSpace
  <2>1. /\ out' = Return(Segment(buffer, readPos, n))
        /\ readPos' = Wrap(readPos + n) /\ UNCHANGED <<buffer, dataStart, writePos>>
    BY <1>2 DEF Read
  <2>2. /\ readPos' \in Position /\ InOrder'
        /\ SubSeq(Todo, 1, n) = Segment(buffer, readPos, n)
        /\ Done' = Done \o SubSeq(Todo, 1, n)
        /\ Todo' = SubSeq(Todo, n + 1, Len(Todo))
    BY <1>2, <2>1, Advance
  <2>3. Segment(buffer, readPos, n) \in Seq(Byte)
    <3>1. n \in 0..BufferSize
      BY <1>1, <1>2, Parts, ByteBufferAssumption DEF BufferSize
    <3> QED
      BY <3>1, SegmentType DEF Inv, TypeOK
  <2>4. TypeOK'
    BY <2>1, <2>2, <2>3, ReturnType DEF Inv, TypeOK
  <2> QED
    BY <1>1, <1>2, <2>1, <2>2, <2>4
       DEF Inv, Queue!Read, Queue!Return, Return, Done, Todo
<1>3. CASE ~ (n <= GetReadableSpace)
  <2>1. out' = Fail /\ UNCHANGED <<buffer, dataStart, readPos, writePos>>
    BY <1>3 DEF Read
  <2>2. Inv' /\ Done' = Done /\ Todo' = Todo
    BY <2>1, Rest, ReturnType DEF Inv
  <2> QED
    BY <1>1, <1>3, <2>1, <2>2 DEF Queue!Read, Queue!Fail, Fail, Done, Todo
<1> QED
  BY <1>2, <1>3

\* A skip moves on without returning the bytes.
LEMMA SkipStep ==
  ASSUME Inv, NEW n \in Nat, SkipRead(n)
  PROVE  Inv' /\ Queue!SkipRead(n)
<1>1. n <= GetReadableSpace <=> n <= Len(Todo)
  BY Parts DEF GetReadableSpace
<1>2. CASE n <= GetReadableSpace
  <2>1. /\ out' = Return(<<>>)
        /\ readPos' = Wrap(readPos + n) /\ UNCHANGED <<buffer, dataStart, writePos>>
    BY <1>2 DEF SkipRead
  <2>2. /\ readPos' \in Position /\ InOrder'
        /\ Done' = Done \o SubSeq(Todo, 1, n)
        /\ Todo' = SubSeq(Todo, n + 1, Len(Todo))
    BY <1>2, <2>1, Advance
  <2>3. TypeOK'
    BY <2>1, <2>2, ReturnType DEF Inv, TypeOK
  <2> QED
    BY <1>1, <1>2, <2>1, <2>2, <2>3
       DEF Inv, Queue!SkipRead, Queue!Return, Return, Done, Todo
<1>3. CASE ~ (n <= GetReadableSpace)
  <2>1. out' = Fail /\ UNCHANGED <<buffer, dataStart, readPos, writePos>>
    BY <1>3 DEF SkipRead
  <2>2. Inv' /\ Done' = Done /\ Todo' = Todo
    BY <2>1, Rest, ReturnType DEF Inv
  <2> QED
    BY <1>1, <1>3, <2>1, <2>2 DEF Queue!SkipRead, Queue!Fail, Fail, Done, Todo
<1> QED
  BY <1>2, <1>3

\* CommitRead forgets what was read.
LEMMA CommitStep ==
  ASSUME Inv, CommitRead
  PROVE  Inv' /\ Queue!CommitRead
<1>1. /\ dataStart' = readPos /\ readPos' = readPos /\ writePos' = writePos
      /\ buffer' = buffer /\ out' = Return(<<>>)
  BY DEF CommitRead
<1>2. Distance(readPos, readPos) = 0
  BY DistanceSelf DEF Inv, TypeOK
<1>3. Distance(readPos, writePos) \in 0..Capacity
  BY DistanceType DEF Inv, TypeOK
<1>4. TypeOK'
  BY <1>1, ReturnType DEF Inv, TypeOK
<1>5. InOrder'
  BY <1>1, <1>2, <1>3, ByteBufferAssumption DEF InOrder
<1>6. Done' = <<>> /\ Todo' = Todo
  BY <1>1, <1>2, EmptySegment DEF Done, Todo
<1> QED
  BY <1>1, <1>4, <1>5, <1>6
     DEF Inv, Queue!CommitRead, Queue!Return, Return, Done, Todo

\* ResetRead makes what was read unread.
LEMMA ResetStep ==
  ASSUME Inv, ResetRead
  PROVE  Inv' /\ Queue!ResetRead
<1>1. /\ readPos' = dataStart /\ dataStart' = dataStart /\ writePos' = writePos
      /\ buffer' = buffer /\ out' = Return(<<>>)
  BY DEF ResetRead
<1>2. Distance(dataStart, dataStart) = 0
  BY DistanceSelf DEF Inv, TypeOK
<1>3. Distance(dataStart, writePos) \in 0..Capacity
  BY DistanceType DEF Inv, TypeOK
<1>4. TypeOK'
  BY <1>1, ReturnType DEF Inv, TypeOK
<1>5. InOrder'
  BY <1>1, <1>2, <1>3, ByteBufferAssumption DEF InOrder
<1>6. Todo' = Done \o Todo
  <2> DEFINE D == Distance(dataStart, readPos)
             R == Distance(readPos, writePos)
  <2>1. /\ D \in 0..Capacity /\ R \in 0..Capacity /\ D + R \in 0..Capacity
        /\ D + R = Distance(dataStart, writePos)
    BY Parts
  <2>2. readPos = Wrap(dataStart + D)
    BY WrapDistance DEF Inv, TypeOK
  <2>3. buffer \in [Position -> Byte] /\ dataStart \in Position
    BY DEF Inv, TypeOK
  <2>4. Segment(buffer, dataStart, D) \o Segment(buffer, Wrap(dataStart + D), R)
          = Segment(buffer, dataStart, D + R)
    <3> HIDE DEF D, R
    <3> QED
      BY <2>1, <2>3, SegmentJoin
  <2> QED
    BY <1>1, <2>1, <2>2, <2>4 DEF Done, Todo
<1>7. Done' = <<>>
  BY <1>1, <1>2, EmptySegment DEF Done
<1> QED
  BY <1>1, <1>4, <1>5, <1>6, <1>7
     DEF Inv, Queue!ResetRead, Queue!Return, Return, Done, Todo

\* ReadAgain returns what was read and is not committed.
LEMMA ReadAgainStep ==
  ASSUME Inv, ReadAgain
  PROVE  Inv' /\ Queue!ReadAgain
<1>1. out' = Return(Done) /\ UNCHANGED <<buffer, dataStart, readPos, writePos>>
  BY DEF ReadAgain, Done
<1>2. Inv' /\ Done' = Done /\ Todo' = Todo
  BY <1>1, Rest, ReturnType, Parts DEF Inv
<1> QED
  BY <1>1, <1>2 DEF Queue!ReadAgain, Queue!Return, Return, Done, Todo

\* ClearAll empties the queue.
LEMMA ClearStep ==
  ASSUME Inv, ClearAll
  PROVE  Inv' /\ Queue!ClearAll
<1>1. /\ dataStart' = 0 /\ readPos' = 0 /\ writePos' = 0
      /\ buffer' = buffer /\ out' = Return(<<>>)
  BY DEF ClearAll
<1>2. 0 \in Position
  BY ByteBufferAssumption DEF Position, BufferSize
<1>3. Distance(0, 0) = 0
  BY <1>2, DistanceSelf
<1>4. TypeOK'
  BY <1>1, <1>2, ReturnType DEF Inv, TypeOK
<1>5. InOrder'
  BY <1>1, <1>3 DEF InOrder
<1>6. Done' = <<>> /\ Todo' = <<>>
  BY <1>1, <1>3, EmptySegment DEF Done, Todo
<1> QED
  BY <1>1, <1>4, <1>5, <1>6
     DEF Inv, Queue!ClearAll, Queue!Return, Return, Done, Todo

-----------------------------------------------------------------------------
(* The theorems.                                                            *)

\* A new buffer is an empty queue.
LEMMA InitStep ==
  ASSUME Init
  PROVE  Inv /\ Queue!Init
<1>1. 0 \in Position
  BY ByteBufferAssumption DEF Position, BufferSize
<1>2. Distance(0, 0) = 0
  BY <1>1, DistanceSelf
<1>3. TypeOK
  BY <1>1, ReturnType DEF Init, TypeOK
<1>4. InOrder
  BY <1>2 DEF Init, InOrder
<1>5. Done = <<>> /\ Todo = <<>>
  BY <1>2, EmptySegment DEF Init, Done, Todo
<1> QED
  BY <1>3, <1>4, <1>5 DEF Inv, Init, Queue!Init, Queue!Return, Return, Done, Todo

\* Every step keeps the invariant and is a step of the queue.
LEMMA Step ==
  ASSUME Inv, [Next]_vars
  PROVE  Inv' /\ [Queue!Next]_Queue!qvars
<1>1. ASSUME NEW n \in 0..MaxCall, NEW s \in [1..n -> Byte], Write(s)
      PROVE  Inv' /\ Queue!Next
  <2>1. s \in Seq(Byte)
    BY ByteBufferAssumption
  <2>2. Inv' /\ Queue!Write(s)
    BY <1>1, <2>1, WriteStep
  <2> QED
    BY <2>2 DEF Queue!Next
<1>2. ASSUME NEW n \in 0..MaxCall, Read(n)
      PROVE  Inv' /\ Queue!Next
  <2>1. n \in Nat
    BY ByteBufferAssumption
  <2>2. Inv' /\ Queue!Read(n)
    BY <1>2, <2>1, ReadStep
  <2> QED
    BY <2>2 DEF Queue!Next
<1>3. ASSUME NEW n \in 0..MaxCall, SkipRead(n)
      PROVE  Inv' /\ Queue!Next
  <2>1. n \in Nat
    BY ByteBufferAssumption
  <2>2. Inv' /\ Queue!SkipRead(n)
    BY <1>3, <2>1, SkipStep
  <2> QED
    BY <2>2 DEF Queue!Next
<1>4. CASE CommitRead
  BY <1>4, CommitStep DEF Queue!Next
<1>5. CASE ResetRead
  BY <1>5, ResetStep DEF Queue!Next
<1>6. CASE ReadAgain
  BY <1>6, ReadAgainStep DEF Queue!Next
<1>7. CASE ClearAll
  BY <1>7, ClearStep DEF Queue!Next
<1>8. CASE UNCHANGED vars
  <2>1. UNCHANGED <<buffer, dataStart, readPos, writePos>> /\ out' = out
    BY <1>8 DEF vars
  <2>2. Inv' /\ Done' = Done /\ Todo' = Todo
    BY <2>1, Rest DEF Inv, TypeOK
  <2> QED
    BY <2>1, <2>2 DEF Queue!qvars, Done, Todo
<1> QED
  BY <1>1, <1>2, <1>3, <1>4, <1>5, <1>6, <1>7, <1>8 DEF Next

\* The positions stay on the ring and the bytes bytes, in every call of every
\* length (Wrap: AdvanceReadPos and the two copies of Write).
THEOREM TypeCorrect == Spec => []TypeOK
<1>1. Spec => []Inv
  BY InitStep, Step, PTL DEF Spec
<1>2. Inv => TypeOK
  BY DEF Inv
<1> QED
  BY <1>1, <1>2, PTL

\* Reads never pass the write position and writes never reach data that may be
\* read again, for every capacity.
THEOREM OrderCorrect == Spec => []InOrder
<1>1. Spec => []Inv
  BY InitStep, Step, PTL DEF Spec
<1>2. Inv => InOrder
  BY DEF Inv
<1> QED
  BY <1>1, <1>2, PTL

\* The ring buffer implements the queue: what is read is what was written, in
\* order, and a call fails exactly when the queue is too full or too short.
THEOREM Refinement == Spec => QueueSpec
<1>1. Spec => []Inv
  BY InitStep, Step, PTL DEF Spec
<1>2. Spec => Queue!Init
  BY InitStep, PTL DEF Spec
<1>3. Spec => [][Queue!Next]_Queue!qvars
  BY <1>1, Step, PTL DEF Spec
<1> QED
  BY <1>2, <1>3, PTL DEF QueueSpec, Queue!Spec
=============================================================================
