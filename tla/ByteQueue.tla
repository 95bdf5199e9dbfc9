------------------------------ MODULE ByteQueue -------------------------------
(***************************************************************************)
(* What cByteBuffer promises its users: a bounded queue of bytes with a     *)
(* read position that can be taken back.  Bytes that were read stay in the  *)
(* queue, and take up room, until CommitRead; ResetRead makes them unread.  *)
(***************************************************************************)
EXTENDS Naturals, Sequences

CONSTANTS
  Byte,      \* the values of a byte
  Capacity,  \* what the constructor was asked for
  MaxCall    \* bound on the number of bytes in one call

VARIABLES
  done,  \* bytes that were read and are not committed
  todo,  \* bytes that are not read yet
  out    \* what the last call returned: whether it succeeded, and its data

qvars == <<done, todo, out>>

Fail == [ok |-> FALSE, data |-> <<>>]
Return(s) == [ok |-> TRUE, data |-> s]

Init ==
  /\ done = <<>>
  /\ todo = <<>>
  /\ out = Return(<<>>)

Write(s) ==
  IF Len(done) + Len(todo) + Len(s) <= Capacity
  THEN /\ todo' = todo \o s
       /\ out' = Return(<<>>)
       /\ UNCHANGED done
  ELSE /\ out' = Fail
       /\ UNCHANGED <<done, todo>>

Read(n) ==
  IF n <= Len(todo)
  THEN /\ done' = done \o SubSeq(todo, 1, n)
       /\ todo' = SubSeq(todo, n + 1, Len(todo))
       /\ out' = Return(SubSeq(todo, 1, n))
  ELSE /\ out' = Fail
       /\ UNCHANGED <<done, todo>>

SkipRead(n) ==
  IF n <= Len(todo)
  THEN /\ done' = done \o SubSeq(todo, 1, n)
       /\ todo' = SubSeq(todo, n + 1, Len(todo))
       /\ out' = Return(<<>>)
  ELSE /\ out' = Fail
       /\ UNCHANGED <<done, todo>>

CommitRead ==
  /\ done' = <<>>
  /\ out' = Return(<<>>)
  /\ UNCHANGED todo

ResetRead ==
  /\ todo' = done \o todo
  /\ done' = <<>>
  /\ out' = Return(<<>>)

\* The data that was read and is not committed, once more.
ReadAgain ==
  /\ out' = Return(done)
  /\ UNCHANGED <<done, todo>>

ClearAll ==
  /\ done' = <<>>
  /\ todo' = <<>>
  /\ out' = Return(<<>>)

Next ==
  \/ \E n \in 0..MaxCall : \E s \in [1..n -> Byte] : Write(s)
  \/ \E n \in 0..MaxCall : Read(n) \/ SkipRead(n)
  \/ CommitRead
  \/ ResetRead
  \/ ReadAgain
  \/ ClearAll

Spec == Init /\ [][Next]_qvars
=============================================================================
