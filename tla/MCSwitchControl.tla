--------------------------- MODULE MCSwitchControl ---------------------------
(***************************************************************************)
(* The switch page on small instances: one or two requests at a time, the  *)
(* default program and one other, one or two versions of a source.         *)
(***************************************************************************)
EXTENDS SwitchControl, TLC

\* Requests are interchangeable.
Symmetric == Permutations(Requests)

=============================================================================
