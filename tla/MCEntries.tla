------------------------------ MODULE MCEntries ------------------------------
(***************************************************************************)
(* Two pages at once and two tables, one of them with an entry without a   *)
(* mask.  A list grows to twice its size with each entry, so that recv may *)
(* return one, or several, or the beginning of one.                        *)
(***************************************************************************)
EXTENDS Entries

MCTables == <<"l2tab", "l3tabedit">>
MCInitial == [t \in Names |-> <<[id |-> 1, masked |-> t # "l2tab"]>>]
MCUnits == [n \in 0 .. MaxEntries |-> 2 ^ n]
=============================================================================
