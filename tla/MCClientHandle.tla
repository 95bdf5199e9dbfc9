--------------------------- MODULE MCClientHandle ---------------------------
(* Model values and packets for ClientHandle.                               *)
EXTENDS ClientHandle

CONSTANTS c1

OneClient == {c1}

\* Packets for every outcome of the dispatch: handled, refused, cut short, of an
\* unknown type (2 and 9 before the login), and empty.
Packets ==
  {[type |-> 0, content |-> "good"], [type |-> 2, content |-> "good"],
   [type |-> 0, content |-> "bad"], [type |-> 9, content |-> "short"],
   [type |-> 0, content |-> "empty"]}

=============================================================================
