-------------------------- MODULE StatefulFirewall --------------------------
(***************************************************************************)
(* The program bmv2/stateful_firewall/stateful_firewall.p4 and its control *)
(* plane.  simple_switch runs its ingress in one thread, so a packet is    *)
(* one step; the operator changes the table check_ports between packets.   *)
(***************************************************************************)
EXTENDS Naturals

CONSTANTS
  Endpoints,   \* pairs of an IP address and a TCP port
  Positions,   \* the cells of a register: BLOOM_FILTER_ENTRIES of them
  Hash,        \* the crc32 of a flow, as a position
  Keys         \* the keys of check_ports the operator writes entries for

Ports == {0, 1}
Flows == Endpoints \X Endpoints

ASSUME HashAssumption == Hash \in [Flows -> Positions]
ASSUME KeysAssumption == Keys \subseteq Ports \X Ports

VARIABLES
  check_ports,      \* the entry of each key <<ingress_port, egress_spec>>
  bloom_filter_1,   \* the two registers
  bloom_filter_2,
  last              \* the last packet and what became of it

vars == <<check_ports, bloom_filter_1, bloom_filter_2, last>>
registers == <<bloom_filter_1, bloom_filter_2>>

Entries == {"miss", "internal", "external", "NoAction"}

Packets == [in : Ports, kind : {"syn", "tcp", "other"},
            src : Endpoints, dst : Endpoints]

NoPacket == [verdict |-> "none"]
Seen == {NoPacket} \cup [packet : Packets, verdict : {"pass", "drop"}]

TypeOK ==
  /\ check_ports \in [Ports \X Ports -> Entries]
  /\ bloom_filter_1 \in [Positions -> {0, 1}]
  /\ bloom_filter_2 \in [Positions -> {0, 1}]
  /\ last \in Seen

\* The switch comes up with empty tables and cleared registers.
Init ==
  /\ check_ports = [k \in Ports \X Ports |-> "miss"]
  /\ bloom_filter_1 = [i \in Positions |-> 0]
  /\ bloom_filter_2 = [i \in Positions |-> 0]
  /\ last = NoPacket

-----------------------------------------------------------------------------
\* standard_metadata.egress_spec, before the tables are applied.
egress_spec(p) == (p.in + 1) % 2

check_ports_apply(p) == check_ports[<<p.in, egress_spec(p)>>]

\* set_direction: a hit without it leaves the default direction, 0.
direction(p) == IF check_ports_apply(p) = "external" THEN 1 ELSE 0

FromInternal(p) == check_ports_apply(p) # "miss" /\ direction(p) = 0

compute_hashes(a, b) == Hash[<<a, b>>]

Sees(p, verdict) == last' = [packet |-> p, verdict |-> verdict]

\* Mutant: the second register is forgotten.
RecordOne(i) ==
  /\ bloom_filter_1' = [bloom_filter_1 EXCEPT ![i] = 1]
  /\ UNCHANGED bloom_filter_2

\* The atomic block of the internal branch.
Record(i) ==
  /\ bloom_filter_1' = [bloom_filter_1 EXCEPT ![i] = 1]
  /\ bloom_filter_2' = [bloom_filter_2 EXCEPT ![i] = 1]

\* The test of both external branches.
Allowed(p) ==
  LET i == compute_hashes(p.dst, p.src)
  IN  bloom_filter_1[i] = 1 /\ bloom_filter_2[i] = 1

\* No valid TCP header: another protocol, or a packet cut short.
NotTCP(p) ==
  /\ p.kind = "other"
  /\ Sees(p, "pass")
  /\ UNCHANGED <<check_ports, registers>>

Internal(p) ==
  /\ p.kind # "other"
  /\ FromInternal(p)
  /\ IF p.kind = "syn" THEN Record(compute_hashes(p.src, p.dst))
                       ELSE UNCHANGED registers
  /\ Sees(p, "pass")
  /\ UNCHANGED check_ports

External(p) ==
  /\ p.kind # "other"
  /\ ~FromInternal(p)
  /\ Sees(p, IF Allowed(p) THEN "pass" ELSE "drop")
  /\ UNCHANGED <<check_ports, registers>>

-----------------------------------------------------------------------------
\* P4Runtime: an entry is inserted, modified or, with "miss", deleted.
WriteEntry(k, e) ==
  /\ check_ports' = [check_ports EXCEPT ![k] = e]
  /\ UNCHANGED <<registers, last>>

\* The switch is started anew.
Restart ==
  /\ check_ports' = [k \in Ports \X Ports |-> "miss"]
  /\ bloom_filter_1' = [i \in Positions |-> 0]
  /\ bloom_filter_2' = [i \in Positions |-> 0]
  /\ last' = NoPacket

Next ==
  \/ \E p \in Packets : NotTCP(p) \/ Internal(p) \/ External(p)
  \/ \E k \in Keys, e \in Entries : WriteEntry(k, e)
  \/ Restart

Spec == Init /\ [][Next]_vars

-----------------------------------------------------------------------------
\* What the tables and the registers stand for.
internalPorts ==
  {q \in Ports : check_ports[<<q, (q + 1) % 2>>] \in {"internal", "NoAction"}}

openedFlows ==
  {f \in Flows : bloom_filter_1[Hash[f]] = 1 /\ bloom_filter_2[Hash[f]] = 1}

\* The flows the registers cannot tell from each flow.
Colliding == [f \in Flows |-> {g \in Flows : Hash[g] = Hash[f]}]

Hashed == INSTANCE ConnectionFilter
          WITH opened <- openedFlows, internal <- internalPorts, Alike <- Colliding

(***************************************************************************)
(* Whatever the hash, over any mix of packets and table changes: a         *)
(* connection opened from inside is never blocked, and only the flows that *)
(* collide with an opened one come in besides.  Entries whose egress port  *)
(* no packet has, and hits on NoAction, count as the abstraction says.     *)
(***************************************************************************)
HashedFilter == Hashed!Spec

=============================================================================
