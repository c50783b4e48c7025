---------------------------- MODULE MCBasicMirror ----------------------------
(***************************************************************************)
(* The mirror with two ports: paired by the mask or each mapped to itself, *)
(* on an lcore each or both on one.                                        *)
(***************************************************************************)
EXTENDS BasicMirror

Selfs == {<<>>, << <<0, 0>>, <<1, 1>> >>}

=============================================================================
