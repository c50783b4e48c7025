-------------------------- MODULE ConnectionFilter --------------------------
(***************************************************************************)
(* What the stateful firewall promises (t4p4s/stateful_firewall/README.md  *)
(* and the comments of stateful_firewall.p4): everything but TCP passes;   *)
(* TCP from an internal port passes, and its SYN opens a flow; TCP from an *)
(* external port passes if and only if it belongs to an opened flow.       *)
(*                                                                         *)
(* Alike[f] is what opening flow f opens: {f} in the ideal filter, more in *)
(* a filter that keeps a hash of the flow instead of the flow.             *)
(***************************************************************************)
CONSTANTS
  Ports,       \* of the switch
  Endpoints,   \* pairs of an IP address and a TCP port
  Alike

VARIABLES
  opened,      \* the flows that may come in: <<inner end, outer end>>
  internal,    \* the ports of the internal network
  last         \* the last packet and what became of it

vars == <<opened, internal, last>>

Packets == [in : Ports, kind : {"syn", "tcp", "other"},
            src : Endpoints, dst : Endpoints]

NoPacket == [verdict |-> "none"]

Init ==
  /\ opened = {}
  /\ internal = {}
  /\ last = NoPacket

Sees(p, verdict) == last' = [packet |-> p, verdict |-> verdict]

NotTCP(p) ==
  /\ p.kind = "other"
  /\ Sees(p, "pass")
  /\ UNCHANGED <<opened, internal>>

FromInside(p) ==
  /\ p.kind # "other"
  /\ p.in \in internal
  /\ opened' = IF p.kind = "syn" THEN opened \cup Alike[<<p.src, p.dst>>] ELSE opened
  /\ Sees(p, "pass")
  /\ UNCHANGED internal

FromOutside(p) ==
  /\ p.kind # "other"
  /\ p.in \notin internal
  /\ Sees(p, IF <<p.dst, p.src>> \in opened THEN "pass" ELSE "drop")
  /\ UNCHANGED <<opened, internal>>

\* The operator declares ports internal or external.
Configure ==
  /\ internal' \in SUBSET Ports
  /\ UNCHANGED <<opened, last>>

Restart ==
  /\ opened' = {}
  /\ internal' = {}
  /\ last' = NoPacket

Next ==
  \/ \E p \in Packets : NotTCP(p) \/ FromInside(p) \/ FromOutside(p)
  \/ Configure
  \/ Restart

Spec == Init /\ [][Next]_vars

=============================================================================
