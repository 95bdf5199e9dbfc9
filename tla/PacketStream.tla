---------------------------- MODULE PacketStream ----------------------------
(***************************************************************************)
(* What the packet layer promises to the handlers of the two ends: packets  *)
(* are handled whole, once and in the order in which they were sent, up to  *)
(* the moment the stream breaks, which only certain packets can make it do. *)
(***************************************************************************)
EXTENDS Naturals, Sequences

CONSTANT Fatal(_)  \* packets that may break the stream

VARIABLES
  sent,     \* packets sent so far
  handled,  \* packets handled so far
  broken    \* the receiver has lost data

vars == <<sent, handled, broken>>

Init == sent = <<>> /\ handled = <<>> /\ broken = FALSE

Send ==
  /\ Len(sent') = Len(sent) + 1
  /\ SubSeq(sent', 1, Len(sent)) = sent
  /\ UNCHANGED <<handled, broken>>

Handle ==
  /\ ~broken
  /\ Len(handled) < Len(sent)
  /\ handled' = Append(handled, sent[Len(handled) + 1])
  /\ UNCHANGED <<sent, broken>>

Break ==
  /\ ~broken
  /\ \E i \in 1..Len(sent) : Fatal(sent[i])
  /\ broken' = TRUE
  /\ UNCHANGED <<sent, handled>>

\* Nothing is promised of what is handled after that.
Garbage == broken /\ UNCHANGED <<sent, broken>>

Next == Send \/ Handle \/ Break \/ Garbage

Spec == Init /\ [][Next]_vars
====
