---------------------------- MODULE MCMirrorPorts ----------------------------
(***************************************************************************)
(* Every port mask and every port map of up to two pairs on a board of     *)
(* three ports out of four, with fewer lcores than ports.                  *)
(***************************************************************************)
EXTENDS MirrorPorts, SequencesExt

MCMasks == SUBSET (0 .. 3)
Pairs == (0 .. 4) \X (0 .. 4)
MCPortMaps == BoundedSeq(Pairs, 2) \cup {<< <<0, 1>>, <<2, 2>>, <<0, 0>> >>}

=============================================================================
