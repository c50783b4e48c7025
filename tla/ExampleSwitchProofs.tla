------------------------- MODULE ExampleSwitchProofs -------------------------
(***************************************************************************)
(* The stateful firewall implements the connection filter, for every set   *)
(* of endpoints, size of the registers and hash, and what the traffic      *)
(* filter blocks, for any packets and any entries, in a switch that may be *)
(* given either program at any time.                                       *)
(***************************************************************************)
EXTENDS ExampleSwitch, FiniteSetTheorems, WellFoundedInduction, TLAPS

(***************************************************************************)
(* The state has its type: the registers hold 0 or 1 at every position,    *)
(* so that the test for 1 means "was recorded".                            *)
(***************************************************************************)
LEMMA FirewallTyped == Spec => []TypeOK
<1>1. Init => TypeOK
  BY DEF Init, TypeOK, Ports, Entries, Seen
<1>2. TypeOK /\ [Next]_vars => TypeOK'
  <2> SUFFICES ASSUME TypeOK, [Next]_vars PROVE TypeOK'
    OBVIOUS
  <2> USE DEF TypeOK
  <2>1. ASSUME NEW p \in Packets, NotTCP(p) PROVE TypeOK'
    BY <2>1 DEF NotTCP, Sees, Seen, registers
  <2>2. ASSUME NEW p \in Packets, Internal(p) PROVE TypeOK'
    <3>1. last' \in Seen /\ check_ports' = check_ports
      BY <2>2 DEF Internal, Sees, Seen
    <3>2. /\ bloom_filter_1' \in [Positions -> {0, 1}]
          /\ bloom_filter_2' \in [Positions -> {0, 1}]
      BY <2>2 DEF Internal, Record, registers
    <3> QED BY <3>1, <3>2
  <2>3. ASSUME NEW p \in Packets, External(p) PROVE TypeOK'
    BY <2>3 DEF External, Sees, Seen, registers
  <2>4. ASSUME NEW k \in Keys, NEW e \in Entries, WriteEntry(k, e) PROVE TypeOK'
    BY <2>4 DEF WriteEntry, registers
  <2>5. CASE Restart
    BY <2>5 DEF Restart, Ports, Entries, Seen
  <2>6. CASE UNCHANGED vars
    BY <2>6 DEF vars
  <2> QED BY <2>1, <2>2, <2>3, <2>4, <2>5, <2>6 DEF Next
<1> QED BY <1>1, <1>2, PTL DEF Spec

-----------------------------------------------------------------------------
(***************************************************************************)
(* A packet is taken for internal exactly when the abstraction of the      *)
(* table declares its port internal: its egress port follows from it.      *)
(***************************************************************************)
LEMMA PortDecides ==
  ASSUME TypeOK, NEW p \in Packets
  PROVE  FromInternal(p) <=> p.in \in internalPorts
<1>1. check_ports[<<p.in, (p.in + 1) % 2>>] \in Entries
  BY DEF TypeOK, Packets, Ports
<1>2. p.in \in Ports
  BY DEF Packets
<1> QED
  BY <1>1, <1>2
  DEF FromInternal, check_ports_apply, egress_spec, direction, internalPorts, Entries

(***************************************************************************)
(* A packet from outside is let in exactly when its flow counts as opened. *)
(***************************************************************************)
LEMMA TestDecides ==
  ASSUME NEW p \in Packets
  PROVE  Allowed(p) <=> <<p.dst, p.src>> \in openedFlows
BY DEF Allowed, compute_hashes, openedFlows, Flows, Packets

(***************************************************************************)
(* Recording a flow opens it and what collides with it, and nothing else.  *)
(***************************************************************************)
LEMMA RecordOpens ==
  ASSUME TypeOK, NEW f \in Flows, Record(Hash[f])
  PROVE  openedFlows' = openedFlows \cup Colliding[f]
<1>1. Hash[f] \in Positions /\ \A g \in Flows : Hash[g] \in Positions
  BY HashAssumption
<1>2. ASSUME NEW g \in Flows
      PROVE  /\ bloom_filter_1'[Hash[g]] =
                  IF Hash[g] = Hash[f] THEN 1 ELSE bloom_filter_1[Hash[g]]
             /\ bloom_filter_2'[Hash[g]] =
                  IF Hash[g] = Hash[f] THEN 1 ELSE bloom_filter_2[Hash[g]]
  BY <1>1 DEF Record, TypeOK
<1> QED BY <1>2 DEF openedFlows, Colliding

\* The registers did not change, so neither did what they stand for.
LEMMA SameRegisters ==
  ASSUME UNCHANGED registers PROVE UNCHANGED openedFlows
BY DEF registers, openedFlows

\* Nor the table.
LEMMA SameTable ==
  ASSUME UNCHANGED check_ports PROVE UNCHANGED internalPorts
BY DEF internalPorts

\* Both modules speak of the same packets.
LEMMA SamePackets == Packets = Hashed!Packets /\ NoPacket = Hashed!NoPacket
BY DEF Packets, Hashed!Packets, NoPacket, Hashed!NoPacket

-----------------------------------------------------------------------------
\* The initial states of the firewall are initial states of the filter.
LEMMA InitRefines == Init => Hashed!Init
<1> SUFFICES ASSUME Init PROVE Hashed!Init
  OBVIOUS
<1>1. openedFlows = {}
  BY HashAssumption DEF Init, openedFlows
<1>2. internalPorts = {}
  BY DEF Init, internalPorts, Ports
<1> QED BY <1>1, <1>2 DEF Init, Hashed!Init, NoPacket, Hashed!NoPacket

(***************************************************************************)
(* Every step of the firewall is a step of the filter or changes nothing   *)
(* the filter shows.                                                       *)
(***************************************************************************)
LEMMA StepRefines == TypeOK /\ [Next]_vars => [Hashed!Next]_(Hashed!vars)
<1> SUFFICES ASSUME TypeOK, [Next]_vars PROVE [Hashed!Next]_(Hashed!vars)
  OBVIOUS
<1>1. ASSUME NEW p \in Packets, NotTCP(p) PROVE Hashed!NotTCP(p)
  BY <1>1, SameRegisters, SameTable DEF NotTCP, Hashed!NotTCP, Sees, Hashed!Sees
<1>2. ASSUME NEW p \in Packets, Internal(p) PROVE Hashed!FromInside(p)
  <2>1. p.in \in internalPorts /\ UNCHANGED internalPorts
    BY <1>2, PortDecides, SameTable DEF Internal
  <2>2. <<p.src, p.dst>> \in Flows
    BY DEF Packets, Flows
  <2>3. openedFlows' = IF p.kind = "syn"
                       THEN openedFlows \cup Colliding[<<p.src, p.dst>>]
                       ELSE openedFlows
    <3>1. CASE p.kind = "syn"
      BY <1>2, <2>2, <3>1, RecordOpens DEF Internal, compute_hashes
    <3>2. CASE p.kind # "syn"
      BY <1>2, <3>2, SameRegisters DEF Internal
    <3> QED BY <3>1, <3>2
  <2> QED BY <1>2, <2>1, <2>3 DEF Internal, Hashed!FromInside, Sees, Hashed!Sees
<1>3. ASSUME NEW p \in Packets, External(p) PROVE Hashed!FromOutside(p)
  BY <1>3, PortDecides, TestDecides, SameRegisters, SameTable
  DEF External, Hashed!FromOutside, Sees, Hashed!Sees
<1>4. ASSUME NEW k \in Keys, NEW e \in Entries, WriteEntry(k, e)
      PROVE  Hashed!Configure
  <2>1. internalPorts' \in SUBSET Ports
    BY DEF internalPorts
  <2> QED BY <1>4, <2>1, SameRegisters DEF WriteEntry, Hashed!Configure
<1>5. CASE Restart
  <2>1. openedFlows' = {}
    BY <1>5, HashAssumption DEF Restart, openedFlows
  <2>2. internalPorts' = {}
    BY <1>5 DEF Restart, internalPorts, Ports
  <2> QED BY <1>5, <2>1, <2>2, SamePackets DEF Restart, Hashed!Restart, Hashed!Next
<1>6. CASE UNCHANGED vars
  BY <1>6, SameRegisters, SameTable DEF vars, registers, Hashed!vars
<1> QED
  BY <1>1, <1>2, <1>3, <1>4, <1>5, <1>6, SamePackets DEF Next, Hashed!Next

(***************************************************************************)
(* The firewall implements the filter that opens, with a flow, what        *)
(* collides with it: no connection opened from inside is ever blocked, and *)
(* nothing comes in that does not collide with an opened flow.             *)
(***************************************************************************)
THEOREM FirewallFilters == Spec => HashedFilter
BY InitRefines, StepRefines, FirewallTyped, PTL DEF Spec, HashedFilter, Hashed!Spec

(***************************************************************************)
(* Whatever the switch runs, to the firewall it is the firewall, at rest   *)
(* or started anew.                                                        *)
(***************************************************************************)
LEMMA SwitchRunsFirewall == SwitchSpec => Spec
<1>1. SwitchInit => Init
  BY DEF SwitchInit
<1>2. [SwitchNext]_<<vars, filter, program>> => [Next]_vars
  BY DEF SwitchNext, Select, Next
<1> QED BY <1>1, <1>2, PTL DEF SwitchSpec, Spec

(***************************************************************************)
(* So does the switch that is given one program or the other at any time.  *)
(***************************************************************************)
THEOREM SwitchFilters == SwitchSpec => HashedFilter
BY SwitchRunsFirewall, FirewallFilters, PTL

-----------------------------------------------------------------------------
\* Packets come in by the two ports of the switch, with the fields of the
\* headers the parser extracts; an entry covers finitely many values.
LEMMA Inputs ==
  /\ \A p \in FilterPackets : p.in \in {0, 1} /\ DOMAIN p.fields \in Parsed
  /\ \A k \in FilterKeys : IsFiniteSet(k[2])
BY PacketsAssumption, RulesAssumption DEF Ports

\* An entry covers a number of values.
LEMMA CountsValues == \A k \in FilterKeys : Filter!Cardinality(k[2]) \in Nat
<1>1. \A S : Filter!Cardinality(S) = Cardinality(S)
  BY DEF Cardinality, Filter!Cardinality
<1>2. QED
  BY <1>1, Inputs, FS_CardinalityType

\* The tables that are tried one after the other, up to the first hit.
Main == Filter!ETH \cup Filter!IP \cup Filter!TCP

\* A number is found in every non-empty set of numbers that no other is below.
LEMMA Least ==
  ASSUME NEW S, S \subseteq Nat, S # {} PROVE \E n \in S : \A m \in S : n <= m
<1> DEFINE Below == {ss \in Nat \X Nat : ss[1] < ss[2]}
<1>1. IsWellFoundedOn(Below, Nat)
  BY NatLessThanWellFounded DEF OpToRel
<1> HIDE DEF Below
<1>2. PICK n \in S : \A m \in S : ~(<<m, n>> \in Below)
  BY <1>1, WFMin
<1>3. \A m \in S : ~(m < n)
  BY <1>2 DEF Below
<1>4. QED
  BY <1>3

-----------------------------------------------------------------------------
(***************************************************************************)
(* The order of apply goes through the tables of Ethernet, IP and TCP.     *)
(***************************************************************************)
LEMMA OrderIsMain == DOMAIN Filter!Order = 1 .. 8 /\ Main = {Filter!Order[i] : i \in 1 .. 8}
<1>1. DOMAIN Filter!Order = 1 .. 8
  BY DEF Filter!Order
<1>2. {Filter!Order[i] : i \in 1 .. 8} \subseteq Main
  BY DEF Filter!Order, Main, Filter!ETH, Filter!IP, Filter!TCP
<1>3. ASSUME NEW t \in Main PROVE \E i \in 1 .. 8 : t = Filter!Order[i]
  <2>1. /\ Filter!Order[1] = "eth_srcMac" /\ Filter!Order[2] = "eth_dstMac"
        /\ Filter!Order[3] = "eth_proto" /\ Filter!Order[4] = "ip_srcIP"
        /\ Filter!Order[5] = "ip_dstIP" /\ Filter!Order[6] = "ip_proto"
        /\ Filter!Order[7] = "tcp_srcPort" /\ Filter!Order[8] = "tcp_dstPort"
    BY DEF Filter!Order
  <2>2. QED
    BY <2>1 DEF Main, Filter!ETH, Filter!IP, Filter!TCP
<1>4. QED
  BY <1>1, <1>2, <1>3

\* Table i of the order is the first one that hits, and the one FirstHit finds.
FirstAt(p, i) ==
  /\ Filter!FirstHit(p, Filter!Order) = Filter!Order[i]
  /\ Filter!hit(p, Filter!Order[i])
  /\ \A j \in 1 .. i - 1 : ~Filter!hit(p, Filter!Order[j])

\* If a table of them hits, there is a first one,
LEMMA FirstHitIs == \A p : Filter!HitAny(p, Main) => \E i \in 1 .. 8 : FirstAt(p, i)
<1> SUFFICES ASSUME NEW p, Filter!HitAny(p, Main) PROVE \E i \in 1 .. 8 : FirstAt(p, i)
  OBVIOUS
<1> DEFINE S == {i \in 1 .. 8 : Filter!hit(p, Filter!Order[i])}
<1>1. S \subseteq Nat /\ S # {}
  BY OrderIsMain DEF Filter!HitAny
<1>2. PICK i \in S : \A j \in S : i <= j
  BY <1>1, Least
<1>3. i \in DOMAIN Filter!Order /\ \A j \in 1 .. i - 1 : ~Filter!hit(p, Filter!Order[j])
  BY <1>2, OrderIsMain
<1>4. QED
  BY <1>2, <1>3, OrderIsMain DEF Filter!FirstHit, FirstAt

\* also after a step.
LEMMA FirstHitIsNext == \A p : Filter!HitAny(p, Main)' => \E i \in 1 .. 8 : FirstAt(p, i)'
<1>1. (\A p : Filter!HitAny(p, Main) => \E i \in 1 .. 8 : FirstAt(p, i))'
  BY FirstHitIs, PTL
<1>2. QED
  BY <1>1

-----------------------------------------------------------------------------
(***************************************************************************)
(* Entries and packets hold what they can hold, and a packet that is not   *)
(* dropped leaves by port 0 or 1.                                          *)
(***************************************************************************)
LEMMA OtherPort == ASSUME NEW p \in FilterPackets PROVE (p.in + 1) % 2 \in {0, 1}
BY Inputs

\* A packet leaves by a port of the switch or is dropped.
LEMMA EgressType ==
  ASSUME NEW p \in FilterPackets PROVE Filter!egress_spec(p) \in {0, 1, Filter!DROP_PORT}
BY OtherPort DEF Filter!egress_spec

\* No packet, no table write and no change of the program takes the tables of
\* the filter out of their type.
LEMMA FilterTyped == SwitchSpec => []Filter!TypeOK
<1>1. SwitchInit => Filter!TypeOK
  BY DEF SwitchInit, Filter!Init, Filter!TypeOK, Filter!Actions
<1>2. Filter!TypeOK /\ [SwitchNext]_<<vars, filter, program>> => Filter!TypeOK'
  <2> SUFFICES ASSUME Filter!TypeOK, [SwitchNext]_<<vars, filter, program>>
               PROVE  Filter!TypeOK'
    OBVIOUS
  <2>1. ASSUME NEW p \in FilterPackets, Filter!Apply(p) PROVE Filter!TypeOK'
    BY <2>1, EgressType DEF Filter!Apply, Filter!TypeOK
  <2>2. ASSUME NEW k \in FilterKeys, NEW a \in Filter!Actions \cup {"none"},
               Filter!WriteEntry(k, a)
        PROVE  Filter!TypeOK'
    BY <2>2 DEF Filter!WriteEntry, Filter!TypeOK
  <2>3. CASE Filter!Restart
    BY <2>3 DEF Filter!Restart, Filter!TypeOK, Filter!Actions
  <2>4. CASE UNCHANGED filter
    BY <2>4 DEF filter, Filter!TypeOK
  <2>5. QED
    BY <2>1, <2>2, <2>3, <2>4 DEF SwitchNext, Select, Filter!Next
<1>3. QED
  BY <1>1, <1>2, PTL DEF SwitchSpec

-----------------------------------------------------------------------------
(***************************************************************************)
(* When every rule drops, the longest prefix of a table that hits exists,  *)
(* and drops.                                                              *)
(***************************************************************************)
LEMMA HitDrops ==
  ASSUME Filter!TypeOK, \A k \in FilterKeys : rules[k] # "NoAction",
         NEW p, NEW t, Filter!hit(p, t)
  PROVE  Filter!Drops(p, t)
<1> DEFINE S == {Filter!Cardinality(k[2]) : k \in Filter!Covering(p, t)}
<1>1. Filter!Covering(p, t) \subseteq FilterKeys
  BY DEF Filter!Covering
<1>2. S \subseteq Nat /\ S # {}
  BY <1>1, CountsValues DEF Filter!hit
<1>3. PICK n \in S : \A m \in S : n <= m
  BY <1>2, Least
<1>4. PICK k \in Filter!Covering(p, t) : n = Filter!Cardinality(k[2])
  BY <1>3
<1>5. rules[k] = "drop"
  BY <1>4 DEF Filter!Covering, Filter!TypeOK, Filter!Actions
<1>6. QED
  BY <1>3, <1>4, <1>5 DEF Filter!Drops

(***************************************************************************)
(* The nested tests of apply come to: some table covers the packet, and    *)
(* of the UDP tables both.                                                 *)
(***************************************************************************)
LEMMA DroppedBlocks ==
  ASSUME NEW p \in FilterPackets PROVE Filter!dropped(p) <=> Filter!Blocks(p)
<1>1. \A t : Filter!hit(p, t) => t \in DOMAIN p.fields
  BY DEF Filter!hit, Filter!Covering
<1>2. DOMAIN p.fields \subseteq Main \cup Filter!UDP /\ Main \cap Filter!UDP = {}
  BY Inputs DEF Parsed, ETH, IP, TCP, UDP, Main, Filter!ETH, Filter!IP, Filter!TCP, Filter!UDP
<1>3. Filter!dropped(p) <=> Filter!HitAny(p, Main) \/ Filter!UdpHit(p)
  BY DEF Filter!dropped, Filter!HitAny, Main
<1>4. Filter!HitAny(p, Main) <=> Filter!Matching(p) \ Filter!UDP # {}
  BY <1>1, <1>2 DEF Filter!HitAny, Filter!Matching
<1>5. Filter!UdpHit(p) <=> Filter!UDP \subseteq Filter!Matching(p)
  BY <1>1 DEF Filter!UdpHit, Filter!Matching, Filter!UDP
<1>6. QED
  BY <1>3, <1>4, <1>5 DEF Filter!Blocks

(***************************************************************************)
(* Whatever entries that drop are written, in whatever order: a packet is  *)
(* dropped if and only if rules cover a field of its Ethernet, IP or TCP   *)
(* headers or both of its UDP ports.                                       *)
(***************************************************************************)
THEOREM RulesBlock == SwitchSpec => []BlocksCovered
<1>1. Filter!TypeOK => BlocksCovered
  <2> SUFFICES ASSUME Filter!TypeOK, \A k \in FilterKeys : rules[k] # "NoAction",
                      NEW p \in FilterPackets, DOMAIN p.fields # {}
               PROVE  Filter!egress_spec(p) =
                        IF Filter!Blocks(p) THEN Filter!DROP_PORT ELSE (p.in + 1) % 2
    BY DEF BlocksCovered, Filter!BlocksCovered
  <2>1. Filter!dropped(p) => Filter!marked(p)
    <3>1. CASE Filter!HitAny(p, Main)
      <4>1. Filter!Drops(p, Filter!FirstHit(p, Filter!Order))
        BY <3>1, FirstHitIs, HitDrops DEF FirstAt
      <4>2. QED
        BY <3>1, <4>1 DEF Filter!marked, Main
    <3>2. CASE ~Filter!HitAny(p, Main) /\ Filter!UdpHit(p)
      BY <3>2, HitDrops DEF Filter!marked, Main, Filter!UdpHit
    <3>3. QED
      BY <3>1, <3>2 DEF Filter!dropped, Filter!HitAny, Main
  <2>2. QED
    BY <2>1, DroppedBlocks DEF Filter!egress_spec
<1>2. QED
  BY <1>1, FilterTyped, PTL

-----------------------------------------------------------------------------
(***************************************************************************)
(* A new entry that drops covers more packets.  Where a table dropped a    *)
(* packet it still does: the new entry is the longest prefix, or the one   *)
(* that was still is.  Where a table did not hit, only the new entry does. *)
(***************************************************************************)
Added(k) == k \in FilterKeys /\ rules[k] = "none" /\ rules' = [rules EXCEPT ![k] = "drop"]

\* The new entry is the only one that covers a packet anew.
LEMMA CoveringGrows ==
  ASSUME Filter!TypeOK, NEW k, Added(k), NEW p, NEW t
  PROVE  /\ Filter!Covering(p, t) \subseteq Filter!Covering(p, t)'
         /\ Filter!Covering(p, t)' \subseteq Filter!Covering(p, t) \cup {k}
         /\ k \in Filter!Covering(p, t)' => rules'[k] = "drop"
         /\ \A l \in Filter!Covering(p, t) : rules'[l] = rules[l]
<1>1. \A l \in FilterKeys : rules'[l] = IF l = k THEN "drop" ELSE rules[l]
  BY DEF Added, Filter!TypeOK
<1>2. /\ Filter!Covering(p, t) \subseteq Filter!Covering(p, t)'
      /\ Filter!Covering(p, t)' \subseteq Filter!Covering(p, t) \cup {k}
  BY <1>1 DEF Filter!Covering, Added
<1>3. \A l \in Filter!Covering(p, t) : l \in FilterKeys /\ l # k
  BY DEF Filter!Covering, Added
<1>4. QED
  BY <1>1, <1>2, <1>3 DEF Added

\* A table that dropped a packet still does.
LEMMA DropsStay ==
  ASSUME Filter!TypeOK, NEW k, Added(k), NEW p, NEW t, Filter!Drops(p, t)
  PROVE  Filter!Drops(p, t)'
<1>1. PICK l \in Filter!Covering(p, t) :
        /\ \A m \in Filter!Covering(p, t) : Filter!Cardinality(l[2]) <= Filter!Cardinality(m[2])
        /\ rules[l] = "drop"
  BY DEF Filter!Drops
<1>2. l \in Filter!Covering(p, t)' /\ rules'[l] = "drop"
  BY <1>1, CoveringGrows
<1>3. k \in FilterKeys /\ Filter!Covering(p, t) \subseteq FilterKeys
  BY DEF Added, Filter!Covering
<1>4. \A m \in Filter!Covering(p, t) \cup {k} : Filter!Cardinality(m[2]) \in Nat
  BY <1>3, CountsValues
<1>5. Filter!Covering(p, t)' \subseteq Filter!Covering(p, t) \cup {k}
  BY CoveringGrows
<1>6. CASE k \notin Filter!Covering(p, t)' \/ Filter!Cardinality(l[2]) <= Filter!Cardinality(k[2])
  BY <1>1, <1>2, <1>5, <1>6 DEF Filter!Drops
<1>7. CASE k \in Filter!Covering(p, t)' /\ Filter!Cardinality(k[2]) < Filter!Cardinality(l[2])
  <2>1. \A m \in Filter!Covering(p, t) \cup {k} :
          Filter!Cardinality(k[2]) <= Filter!Cardinality(m[2])
    BY <1>1, <1>4, <1>7
  <2>2. rules'[k] = "drop"
    BY <1>7, CoveringGrows
  <2>3. QED
    BY <1>5, <1>7, <2>1, <2>2 DEF Filter!Drops
<1>8. QED
  BY <1>1, <1>4, <1>6, <1>7

\* A table that hits because of the new entry drops.
LEMMA NewHitDrops ==
  ASSUME Filter!TypeOK, NEW k, Added(k), NEW p, NEW t, ~Filter!hit(p, t), Filter!hit(p, t)'
  PROVE  Filter!Drops(p, t)'
<1>1. Filter!Covering(p, t)' = {k} /\ rules'[k] = "drop"
  BY CoveringGrows DEF Filter!hit
<1>2. Filter!Cardinality(k[2]) <= Filter!Cardinality(k[2])
  BY CountsValues DEF Added
<1>3. QED
  BY <1>1, <1>2 DEF Filter!Drops

\* A hit stays one; so the first hit of a packet stays, or becomes a new one.
LEMMA MarkedStays ==
  ASSUME Filter!TypeOK, NEW k, Added(k), NEW p, Filter!dropped(p), Filter!marked(p)
  PROVE  Filter!dropped(p)' /\ Filter!marked(p)'
<1>1. \A t : Filter!hit(p, t) => Filter!hit(p, t)'
  BY CoveringGrows DEF Filter!hit
<1>2. Filter!dropped(p)'
  BY <1>1 DEF Filter!dropped, Filter!HitAny, Filter!UdpHit
<1>3. ASSUME Filter!HitAny(p, Main)' PROVE Filter!Drops(p, Filter!FirstHit(p, Filter!Order))'
  <2>0. PICK i \in 1 .. 8 : FirstAt(p, i)'
    BY <1>3, FirstHitIsNext
  <2>1. /\ Filter!FirstHit(p, Filter!Order)' = Filter!Order[i]
        /\ Filter!hit(p, Filter!Order[i])'
        /\ \A j \in 1 .. i - 1 : ~Filter!hit(p, Filter!Order[j])'
    BY <2>0 DEF FirstAt
  <2>2. CASE ~Filter!hit(p, Filter!Order[i])
    <3>1. Filter!Drops(p, Filter!Order[i])'
      BY <2>1, <2>2, NewHitDrops
    <3>2. QED
      BY <2>1, <3>1
  <2>3. CASE Filter!hit(p, Filter!Order[i])
    <3>1. Filter!HitAny(p, Main)
      BY <2>3, OrderIsMain DEF Filter!HitAny
    <3>2. PICK n \in 1 .. 8 : FirstAt(p, n)
      BY <3>1, FirstHitIs
    <3>3. n = i
      BY <1>1, <2>1, <2>3, <3>2 DEF FirstAt
    <3>4. Filter!Drops(p, Filter!Order[i])
      BY <3>1, <3>2, <3>3 DEF FirstAt, Filter!marked, Main
    <3>5. Filter!Drops(p, Filter!Order[i])'
      BY <3>4, DropsStay
    <3>6. QED
      BY <2>1, <3>5
  <2>4. QED
    BY <2>2, <2>3
<1>4. ASSUME ~Filter!HitAny(p, Main)' PROVE Filter!marked(p)'
  <2>1. ~Filter!HitAny(p, Main)
    BY <1>1, <1>4 DEF Filter!HitAny
  <2>2. \/ Filter!Drops(p, "udp_srcPort")
        \/ Filter!hit(p, "udp_srcPort") /\ Filter!Drops(p, "udp_dstPort")
    BY <2>1 DEF Filter!marked, Main
  <2>3. \/ Filter!Drops(p, "udp_srcPort")'
        \/ Filter!hit(p, "udp_srcPort")' /\ Filter!Drops(p, "udp_dstPort")'
    BY <1>1, <2>2, DropsStay
  <2>4. QED
    BY <1>4, <2>3 DEF Filter!marked, Main
<1>5. QED
  BY <1>2, <1>3, <1>4 DEF Filter!marked, Main

(***************************************************************************)
(* Whatever entries there are, entries of NoAction included: a new rule    *)
(* that drops lets through no packet that was dropped.                     *)
(***************************************************************************)
THEOREM RulesOnlyBlock == SwitchSpec => NewRuleOnlyBlocks
<1>1. Filter!TypeOK =>
        \A k \in FilterKeys :
          rules[k] = "none" /\ Filter!WriteEntry(k, "drop") =>
            \A p \in FilterPackets :
              Filter!egress_spec(p) = Filter!DROP_PORT =>
                Filter!egress_spec(p)' = Filter!DROP_PORT
  <2> SUFFICES ASSUME Filter!TypeOK, NEW k \in FilterKeys, rules[k] = "none", Filter!WriteEntry(k, "drop"),
                      NEW p \in FilterPackets, Filter!egress_spec(p) = Filter!DROP_PORT
               PROVE  Filter!egress_spec(p)' = Filter!DROP_PORT
    OBVIOUS
  <2>1. Added(k)
    BY DEF Added, Filter!WriteEntry
  <2>2. DOMAIN p.fields # {} /\ Filter!dropped(p) /\ Filter!marked(p)
    BY OtherPort DEF Filter!egress_spec, Filter!DROP_PORT
  <2>3. Filter!dropped(p)' /\ Filter!marked(p)'
    BY <2>1, <2>2, MarkedStays
  <2>4. QED
    BY <2>2, <2>3 DEF Filter!egress_spec
<1>2. QED
  BY <1>1, FilterTyped, PTL DEF NewRuleOnlyBlocks, Filter!NewRuleOnlyBlocks
=============================================================================
