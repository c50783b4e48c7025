------------------------------ MODULE XTermTable ------------------------------
(***************************************************************************)
(* The transition table of the terminal's parser (VT500_TRANSITION_TABLE   *)
(* of xterm.js).                                                           *)
(***************************************************************************)
EXTENDS Integers, SequencesExt

CONSTANT Bytes  \* the codes of the stream

ASSUME BytesAssumption == Bytes \subseteq Nat

PRINTABLES == 32 .. 126
EXECUTABLES == 0 .. 23 \cup {25}

\* Rows of VT500_TRANSITION_TABLE: codes, states, action, next state; a later
\* row replaces an earlier one.  The states are: 0 ground, 1 escape, 2 escape
\* intermediate, 3 CSI entry, 4 CSI parameters, 5 CSI intermediate, 6 CSI
\* ignored, 7 SOS, PM or APC string, 8 OSC string, 9 DCS entry, 10 DCS
\* parameters, 11 DCS ignored, 12 DCS intermediate, 13 DCS data.
Every == 0 .. 13
Same == -1  \* for a next state: the same

VT500_TRANSITION_TABLE ==
  << <<0 .. 159, Every, "error", 0>>, <<PRINTABLES, {0}, "print", 0>>,
        <<{24, 26} \cup 128 .. 151 \cup {153, 154}, Every, "execute", 0>>,
        <<{156}, Every, "ignore", 0>>, <<{27}, Every, "clear", 1>>,
        <<{157}, Every, "osc_start", 8>>, <<{152, 158, 159}, Every, "ignore", 7>>,
        <<{155}, Every, "clear", 3>>, <<{144}, Every, "clear", 9>>,
        <<EXECUTABLES, 0 .. 6, "execute", Same>>, <<EXECUTABLES, 7 .. 12, "ignore", Same>>,
        <<{127}, 1 .. 13 \ {7, 8}, "ignore", Same>>, <<28 .. 31, 8 .. 12, "ignore", Same>>,
        <<{93}, {1}, "osc_start", 8>>, <<32 .. 127, {8}, "osc_put", 8>>,
        <<{156, 27, 24, 26, 7}, {8}, "osc_end", 0>>,
        <<{88, 94, 95}, {1}, "ignore", 7>>, <<PRINTABLES, {7}, "ignore", 7>>,
        <<{91}, {1}, "clear", 3>>, <<64 .. 126, {3, 4, 5}, "csi_dispatch", 0>>,
        <<48 .. 57 \cup {59}, {3, 4}, "param", 4>>, <<60 .. 63, {3}, "collect", 4>>,
        <<{58} \cup 60 .. 63, {4}, "ignore", 6>>, <<{58}, {3}, "ignore", 6>>,
        <<32 .. 63, {6}, "ignore", 6>>, <<64 .. 126, {6}, "ignore", 0>>,
        <<32 .. 47, {3, 4, 5}, "collect", 5>>, <<48 .. 63, {5}, "ignore", 6>>,
        <<32 .. 47, {1, 2}, "collect", 2>>, <<48 .. 126, {2}, "esc_dispatch", 0>>,
        <<48 .. 79 \cup 81 .. 87 \cup {89, 90, 92} \cup 96 .. 126, {1}, "esc_dispatch", 0>>,
        <<{80}, {1}, "clear", 9>>, <<32 .. 47, {9, 10, 12}, "collect", 12>>,
        <<{58}, {9, 10}, "ignore", 11>>, <<48 .. 57 \cup {59}, {9, 10}, "param", 10>>,
        <<60 .. 63, {9}, "collect", 10>>, <<60 .. 63, {10}, "ignore", 11>>,
        <<32 .. 127, {11}, "ignore", 11>>, <<48 .. 63, {12}, "ignore", 11>>,
        <<64 .. 126, {9, 10, 12}, "dcs_hook", 13>>,
        <<EXECUTABLES \cup PRINTABLES, {13}, "dcs_put", 13>>,
        <<{27, 156}, {13}, "dcs_unhook", 0>> >>

\* TransitionTable.add: the last row for a state and a code is the one that
\* counts.  Codes from 160 on have no row: they are text where text is.
Added(s, c) ==
  LET rowsOf == {k \in DOMAIN VT500_TRANSITION_TABLE :
                   /\ s \in VT500_TRANSITION_TABLE[k][2]
                   /\ c \in VT500_TRANSITION_TABLE[k][1]}
      row == VT500_TRANSITION_TABLE[Max(rowsOf)]
  IN  IF rowsOf = {} THEN <<"error", 0>> ELSE <<row[3], IF row[4] = Same THEN s ELSE row[4]>>

\* The short way of parse for text in the ground state takes 127 for text too.
Transitions ==
  [s \in Every |-> [c \in Bytes |-> IF s = 0 /\ c = 127 THEN <<"print", 0>> ELSE Added(s, c)]]
=============================================================================
