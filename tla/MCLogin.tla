------------------------------ MODULE MCLogin -------------------------------
(* Instances of Login: its constants are numbers and a set of strings, so   *)
(* the configurations give them directly.                                   *)
EXTENDS Login
=============================================================================
