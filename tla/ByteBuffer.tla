------------------------------ MODULE ByteBuffer ------------------------------
(***************************************************************************)
(* cByteBuffer (Src/Common/ByteBuffer.cpp, and the client's copy of it in   *)
(* Src/Client): the ring buffer that both ends of the protocol collect      *)
(* received data in and compose packets in.  Three positions chase each     *)
(* other round the ring; one cell is never used, so that a full buffer      *)
(* differs from an empty one.  Each call is one step: a buffer is used by   *)
(* one thread at a time.                                                    *)
(***************************************************************************)
EXTENDS Naturals, Sequences

CONSTANTS
  Byte,      \* the values of a byte
  Capacity,  \* a_BufferSize, what the constructor is asked for
  MaxCall    \* bound on the number of bytes in one call

ASSUME ByteBufferAssumption ==
  /\ Capacity \in Nat
  /\ MaxCall \in Nat
  /\ Byte # {}

VARIABLES
  buffer,     \* m_Buffer
  dataStart,  \* m_DataStart: where the data begins that is not committed
  readPos,    \* m_ReadPos: where the next read begins
  writePos,   \* m_WritePos: where the next write begins
  out         \* what the last call returned: whether it succeeded, and its data

vars == <<buffer, dataStart, readPos, writePos, out>>

BufferSize == Capacity + 1

Position == 0..(BufferSize - 1)

Fail == [ok |-> FALSE, data |-> <<>>]
Return(s) == [ok |-> TRUE, data |-> s]

TypeOK ==
  /\ buffer \in [Position -> Byte]
  /\ dataStart \in Position
  /\ readPos \in Position
  /\ writePos \in Position
  /\ out \in [ok : BOOLEAN, data : Seq(Byte)]

Init ==
  /\ buffer \in [Position -> Byte]
  /\ dataStart = 0
  /\ readPos = 0
  /\ writePos = 0
  /\ out = Return(<<>>)

\* Mutant: a position that reaches the end of the buffer stays there.
Wrap_Late(i) == IF i > BufferSize THEN i - BufferSize ELSE i

\* A position that has passed the end goes on at the beginning.
Wrap(i) == IF i >= BufferSize THEN i - BufferSize ELSE i

\* How many cells from position i on to position j.
Distance(i, j) == IF i > j THEN BufferSize - i + j ELSE j - i

\* The n bytes of b that begin at position i.
Segment(b, i, n) == [k \in 1..n |-> b[Wrap(i + k - 1)]]

\* Mutant: the cell that tells full from empty is given away.
GetFreeSpace_All ==
  IF writePos >= dataStart THEN BufferSize - writePos + dataStart
  ELSE dataStart - writePos

GetFreeSpace ==
  IF writePos >= dataStart THEN BufferSize - writePos + dataStart - 1
  ELSE dataStart - writePos - 1

GetReadableSpace == Distance(readPos, writePos)

\* Write and WriteBuf.
Write(s) ==
  IF Len(s) <= GetFreeSpace
  THEN /\ buffer' = [i \in Position |->
                       IF Distance(writePos, i) < Len(s)
                       THEN s[Distance(writePos, i) + 1] ELSE buffer[i]]
       /\ writePos' = Wrap(writePos + Len(s))
       /\ out' = Return(<<>>)
       /\ UNCHANGED <<dataStart, readPos>>
  ELSE /\ out' = Fail
       /\ UNCHANGED <<buffer, dataStart, readPos, writePos>>

\* ReadBuf and ReadString; the typed reads are reads of their size.
Read(n) ==
  IF n <= GetReadableSpace
  THEN /\ out' = Return(Segment(buffer, readPos, n))
       /\ readPos' = Wrap(readPos + n)
       /\ UNCHANGED <<buffer, dataStart, writePos>>
  ELSE /\ out' = Fail
       /\ UNCHANGED <<buffer, dataStart, readPos, writePos>>

SkipRead(n) ==
  IF n <= GetReadableSpace
  THEN /\ out' = Return(<<>>)
       /\ readPos' = Wrap(readPos + n)
       /\ UNCHANGED <<buffer, dataStart, writePos>>
  ELSE /\ out' = Fail
       /\ UNCHANGED <<buffer, dataStart, readPos, writePos>>

CommitRead ==
  /\ dataStart' = readPos
  /\ out' = Return(<<>>)
  /\ UNCHANGED <<buffer, readPos, writePos>>

ResetRead ==
  /\ readPos' = dataStart
  /\ out' = Return(<<>>)
  /\ UNCHANGED <<buffer, dataStart, writePos>>

\* Mutant: data that wraps round the end of the buffer is returned from the
\* beginning of the buffer only.
ReadAgain_NoWrap ==
  /\ out' = Return(IF readPos < dataStart THEN Segment(buffer, 0, readPos)
                   ELSE Segment(buffer, dataStart, readPos - dataStart))
  /\ UNCHANGED <<buffer, dataStart, readPos, writePos>>

ReadAgain ==
  /\ out' = Return(Segment(buffer, dataStart, Distance(dataStart, readPos)))
  /\ UNCHANGED <<buffer, dataStart, readPos, writePos>>

\* The client's SignOut empties its buffers.
ClearAll ==
  /\ dataStart' = 0
  /\ readPos' = 0
  /\ writePos' = 0
  /\ out' = Return(<<>>)
  /\ UNCHANGED buffer

Next ==
  \/ \E n \in 0..MaxCall : \E s \in [1..n -> Byte] : Write(s)
  \/ \E n \in 0..MaxCall : Read(n) \/ SkipRead(n)
  \/ CommitRead
  \/ ResetRead
  \/ ReadAgain
  \/ ClearAll

Spec == Init /\ [][Next]_vars

-----------------------------------------------------------------------------
(* Properties.                                                              *)

\* The read position lies between the start of the data and the write position,
\* wherever the three are on the ring: a read never passes what was written, and
\* a write never reaches what may still be read again.
InOrder ==
  Distance(dataStart, readPos) + Distance(readPos, writePos)
    = Distance(dataStart, writePos)

\* The buffer is a queue of bytes: the data between the positions is what is
\* read and what is still to be read, whatever was written and read before and
\* however often it went round the ring (the assertions of Write, and TestWrap).
Queue == INSTANCE ByteQueue WITH
           done <- Segment(buffer, dataStart, Distance(dataStart, readPos)),
           todo <- Segment(buffer, readPos, Distance(readPos, writePos))

QueueSpec == Queue!Spec
=============================================================================
