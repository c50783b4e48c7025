---------------------------- MODULE TrafficFilter ----------------------------
(***************************************************************************)
(* The program bmv2/traffic_filter/traffic_filter.p4: ten tables, one per  *)
(* header field, whose entries block packets.                              *)
(*                                                                         *)
(* A packet is the port it came in by and the fields its parsed headers    *)
(* have, each with a value.  A prefix is the set of addresses it covers;   *)
(* an exact key covers one value.                                          *)
(***************************************************************************)
EXTENDS FilterFields, FiniteSets, Naturals

CONSTANTS
  Packets,     \* the packets the model sends: [in, fields]
  Keys         \* the entries the operator writes: <<table, values covered>>

VARIABLES
  rules,       \* the action of each entry, or "none"
  out          \* the port the last packet went out by

vars == <<rules, out>>

DROP_PORT == 511
Actions == {"drop", "NoAction"}

TypeOK ==
  /\ rules \in [Keys -> Actions \cup {"none"}]
  /\ out \in {0, 1, DROP_PORT}

Init ==
  /\ rules = [k \in Keys |-> "none"]
  /\ out = DROP_PORT

-----------------------------------------------------------------------------
\* The entries of table t that cover the packet's field.
Covering(p, t) ==
  IF t \notin DOMAIN p.fields THEN {}
  ELSE {k \in Keys : k[1] = t /\ rules[k] # "none" /\ p.fields[t] \in k[2]}

hit(p, t) == Covering(p, t) # {}

\* apply(): the action of the longest prefix; mark_to_drop sets egress_spec.
Drops(p, t) ==
  \E k \in Covering(p, t) :
    /\ \A l \in Covering(p, t) : Cardinality(k[2]) <= Cardinality(l[2])
    /\ rules[k] = "drop"

\* Tables applied in order up to the first hit, as || does.
HitAny(p, ts) == \E t \in ts : hit(p, t)

FirstHit(p, order) ==
  order[CHOOSE i \in DOMAIN order :
          hit(p, order[i]) /\ \A j \in 1 .. i - 1 : ~hit(p, order[j])]

\* Mutant: the UDP test by analogy with the TCP one.
UdpEither(p) == HitAny(p, UDP)

\* Mutant: miss for hit in the second test.
UdpFirstOnly(p) == hit(p, "udp_srcPort") /\ ~hit(p, "udp_dstPort")

\* Line 313: the second table is applied only if the first one hits.
UdpHit(p) == hit(p, "udp_srcPort") /\ hit(p, "udp_dstPort")

dropped(p) == HitAny(p, ETH) \/ HitAny(p, IP) \/ HitAny(p, TCP) \/ UdpHit(p)

Order == << "eth_srcMac", "eth_dstMac", "eth_proto", "ip_srcIP", "ip_dstIP", "ip_proto",
            "tcp_srcPort", "tcp_dstPort" >>

\* Whether the actions that ran marked the packet.
marked(p) ==
  IF HitAny(p, ETH \cup IP \cup TCP) THEN Drops(p, FirstHit(p, Order))
  ELSE Drops(p, "udp_srcPort") \/ (hit(p, "udp_srcPort") /\ Drops(p, "udp_dstPort"))

\* egress_spec at the end of MyIngress: it starts as 0, and a packet that is not
\* dropped overwrites it, marked or not.
egress_spec(p) ==
  IF DOMAIN p.fields = {} THEN 0
  ELSE IF ~dropped(p) THEN (p.in + 1) % 2
  ELSE IF marked(p) THEN DROP_PORT ELSE 0

Apply(p) ==
  /\ out' = egress_spec(p)
  /\ UNCHANGED rules

\* P4Runtime: an entry is written, changed or deleted.
WriteEntry(k, a) ==
  /\ rules' = [rules EXCEPT ![k] = a]
  /\ UNCHANGED out

Restart ==
  /\ rules' = [k \in Keys |-> "none"]
  /\ out' = DROP_PORT

Next ==
  \/ \E p \in Packets : Apply(p)
  \/ \E k \in Keys, a \in Actions \cup {"none"} : WriteEntry(k, a)

Spec == Init /\ [][Next]_vars

-----------------------------------------------------------------------------
\* The tables that cover a field of the packet, wherever in apply they stand.
Matching(p) == {t \in DOMAIN p.fields : hit(p, t)}

(***************************************************************************)
(* What the nested tests do with rules that drop, longest prefixes and     *)
(* marks that are overwritten included: a packet with an Ethernet header   *)
(* is dropped if and only if a rule covers a field of its Ethernet, IP or  *)
(* TCP headers, or rules cover both its UDP ports.  Every other packet     *)
(* goes out by the other port.  This is less than what the README says:    *)
(* see AnyRuleBlocks.                                                      *)
(***************************************************************************)
Blocks(p) == Matching(p) \ UDP # {} \/ UDP \subseteq Matching(p)
BlocksCovered ==
  (\A k \in Keys : rules[k] # "NoAction") =>
    \A p \in Packets :
      DOMAIN p.fields # {} =>
        egress_spec(p) = IF Blocks(p) THEN DROP_PORT ELSE (p.in + 1) % 2

(***************************************************************************)
(* What the README says of rules that drop (t4p4s/traffic_filter/README.md *)
(* lines 9 and 110): a packet that any of them covers is dropped; in step  *)
(* 6, one rule for a UDP port blocks it.  Not so for a single UDP port.    *)
(***************************************************************************)
AnyRuleBlocks ==
  (\A k \in Keys : rules[k] # "NoAction") =>
    \A p \in Packets : Matching(p) # {} => egress_spec(p) = DROP_PORT

(***************************************************************************)
(* A new rule that drops lets through no packet that was dropped, whatever *)
(* entries there are, longer prefixes and entries of NoAction included.    *)
(***************************************************************************)
NewRuleOnlyBlocks ==
  [][\A k \in Keys :
       rules[k] = "none" /\ WriteEntry(k, "drop") =>
         \A p \in Packets : egress_spec(p) = DROP_PORT => egress_spec(p)' = DROP_PORT]_rules

=============================================================================
