---------------------------- MODULE ExampleSwitch ----------------------------
(***************************************************************************)
(* simple_switch with the example programs that keep tables: it runs one   *)
(* of them at a time, with the tables of that program, which start empty.  *)
(***************************************************************************)
EXTENDS StatefulFirewall, FilterFields, FiniteSets

CONSTANTS
  FilterPackets,
  FilterKeys

VARIABLES
  program,     \* the program the switch runs
  rules,       \* the tables of the traffic filter
  out          \* where the last packet of the traffic filter went

filter == <<rules, out>>

Filter == INSTANCE TrafficFilter WITH Packets <- FilterPackets, Keys <- FilterKeys

\* The parser gives a packet the fields of the headers it could extract.
ASSUME PacketsAssumption ==
  \A p \in FilterPackets : p.in \in Ports /\ DOMAIN p.fields \in Parsed
ASSUME RulesAssumption == \A k \in FilterKeys : IsFiniteSet(k[2])

Programs == {"stateful_firewall", "traffic_filter"}

SwitchInit ==
  /\ Init
  /\ Filter!Init
  /\ program \in Programs

\* The switch page selects a program: the switch is built and started anew.
Select(p) ==
  /\ program' = p
  /\ Restart
  /\ Filter!Restart

SwitchNext ==
  \/ program = "stateful_firewall" /\ Next /\ UNCHANGED <<program, filter>>
  \/ program = "traffic_filter" /\ Filter!Next /\ UNCHANGED <<program, vars>>
  \/ \E p \in Programs : Select(p)

SwitchSpec == SwitchInit /\ [][SwitchNext]_<<vars, filter, program>>

-----------------------------------------------------------------------------
(***************************************************************************)
(* What the filter does with its rules holds in the switch that is given   *)
(* one program or the other at any time; what its README says of any rule  *)
(* does not.                                                               *)
(***************************************************************************)
BlocksCovered == Filter!BlocksCovered
AnyRuleBlocks == Filter!AnyRuleBlocks
NewRuleOnlyBlocks == Filter!NewRuleOnlyBlocks

=============================================================================
