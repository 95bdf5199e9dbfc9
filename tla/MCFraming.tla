------------------------------ MODULE MCFraming ------------------------------
EXTENDS Framing
CONSTANTS w1, w2

\* ReadVarInt32 takes back what WriteVarInt32 wrote, whatever follows it, and
\* nothing short of all of it.
ASSUME VarIntRoundTrip ==
  \A n \in 0..300, rest \in {<<>>, <<0>>, <<Base>>} :
    LET s == WriteVarInt32(n) IN
      /\ ReadVarInt32(s \o rest) = n
      /\ VarIntSize(s \o rest) = Len(s)
      /\ \A k \in 0..(Len(s) - 1) : VarIntSize(SubSeq(s, 1, k)) = 0

MCField == {<<1>>, <<3, 0>>}
====
