-------------------------- MODULE BasicMirrorProofs --------------------------
(***************************************************************************)
(* The DPDK mirror, for every board, command line, size of the buffers and *)
(* number of lcores.  Its port map is its own inverse, and its queues      *)
(* share no port; so its lcores, none of which writes where another does,  *)
(* lose no packet, count every one and keep their order, whatever one does *)
(* between reading a length and storing a packet.                          *)
(***************************************************************************)
EXTENDS BasicMirror, SequenceTheorems, TLAPS

-----------------------------------------------------------------------------
\* The port map and the queues, from the command line to the launch.
Mapped == {"lcores", "start", "run"}
Early == {"args", "pairs", "mask"}

Pair(x) == Members(args.pairs[x])

\* The first k pairs share no port.
Apart(k) == \A x, j \in 1 .. k : x # j => Pair(x) \cap Pair(j) = {}

\* The ports of the first k pairs are those of set S.
Covers(k, S) ==
  /\ \A x \in 1 .. k : Pair(x) \subseteq S
  /\ \A p \in S : \E x \in 1 .. k : p \in Pair(x)

\* --portmap: what check_port_pair_config has accepted, and map_pair done.
PairsInv ==
  /\ phase = "args" => config_mask = {}
  /\ phase = "pairs" =>
       /\ index <= Len(args.pairs)
       /\ Apart(index)
       /\ Covers(index, config_mask)
       /\ config_mask \subseteq mask
  /\ phase \in {"mask", "map"} /\ args.mapped =>
       /\ Apart(Len(args.pairs))
       /\ Covers(Len(args.pairs), mask)
  /\ phase = "map" /\ args.mapped =>
       /\ index <= Len(args.pairs)
       /\ \A x \in 1 .. index : /\ dst[args.pairs[x][1]] = args.pairs[x][2]
                                /\ dst[args.pairs[x][2]] = args.pairs[x][1]

\* No --portmap: the ports seen so far are matched, but for an odd last one.
Matched(p) == p \in mask /\ p < index /\ ~(odd = 1 /\ p = last_port)

PortsInv ==
  /\ phase \in Early => odd = 0
  /\ phase = "map" /\ ~args.mapped =>
       /\ index <= NbPorts
       /\ odd = 1 => last_port \in mask /\ last_port < index
       /\ \A p \in Ports : Matched(p) => Matched(dst[p]) /\ dst[dst[p]] = p

MapInv ==
  /\ TypeOK
  /\ phase = "pairs" => args.mapped
  /\ PairsInv
  /\ PortsInv
  /\ phase \in {"map"} \cup Mapped => \A p \in mask : p < NbPorts
  /\ phase \in Mapped => \A p \in mask : dst[p] \in mask /\ dst[dst[p]] = p

\* The ports the loop over the lcores has assigned.
Polled(l, x) == rx_port_list[l][x]
Given == {p \in mask : phase = "lcores" => p < index}

QueueInv ==
  /\ phase \in Early \cup {"map"} => \A l \in Lcores : rx_port_list[l] = <<>>
  /\ phase \in {"pairs", "mask", "map"} \cup Mapped => args.q < MAX_RX_QUEUE_PER_LCORE
  /\ phase \in Mapped =>
       /\ \A l \in Lcores : Len(rx_port_list[l]) <= args.q
       /\ \A l \in Lcores : \A x \in 1 .. Len(rx_port_list[l]) : Polled(l, x) \in Given
       /\ \A p \in Given : \E l \in Enabled :
            \E x \in 1 .. Len(rx_port_list[l]) : Polled(l, x) = p
       /\ \A l, m \in Lcores :
            \A x \in 1 .. Len(rx_port_list[l]), j \in 1 .. Len(rx_port_list[m]) :
              Polled(l, x) = Polled(m, j) => l = m /\ x = j

-----------------------------------------------------------------------------
\* The command line asks for masks of ports and a number of queues.
LEMMA ArgsTyped ==
  ASSUME args \in Args
  PROVE  /\ args.p \subseteq Ports
         /\ args.q \in Nat
         /\ args.mapped \in BOOLEAN
         /\ args.pairs \in Seq(Nat \X Nat)
         /\ Len(args.pairs) \in Nat
         /\ \A x \in 1 .. Len(args.pairs) :
              /\ args.pairs[x] \in Nat \X Nat
              /\ Pair(x) = {args.pairs[x][1], args.pairs[x][2]}
<1>1. args.pairs \in Seq(Nat \X Nat)
  <2>1. args.pairs \in PortMaps \/ args.pairs = <<>>
    BY DEF Args
  <2>2. <<>> \in Seq(Nat \X Nat)
    OBVIOUS
  <2> QED BY <2>1, <2>2, ArgsAssumption
<1>2. args.p \subseteq Ports /\ args.q \in Nat /\ args.mapped \in BOOLEAN
  BY ArgsAssumption DEF Args
<1> QED BY <1>1, <1>2 DEF Pair, Members

\* The invariant of the pairing holds before the first loop,
LEMMA MapInit == Init => MapInv
<1> SUFFICES ASSUME Init PROVE MapInv
  OBVIOUS
<1>1. TypeOK
  BY BoardAssumption DEF Init, TypeOK, Ports, Lcores, Exits
<1> QED BY <1>1 DEF Init, MapInv, PairsInv, PortsInv, Early, Mapped

\* The options are parsed.
LEMMA MapParse ==
  ASSUME MapInv, parse_args PROVE MapInv'
<1> USE DEF MapInv
<1>1. args \in Args /\ args' = args /\ phase = "args"
  BY DEF TypeOK, parse_args
<1>2. mask' \subseteq Ports
  BY <1>1, ArgsTyped DEF parse_args
<1>3. index' = 0 /\ phase' \in {"pairs", "mask"} \cup Exits
  BY DEF parse_args, Goes, Exits
<1>4. (phase' = "pairs" => args.mapped) /\ (phase' = "mask" => ~args.mapped)
  BY DEF parse_args, Goes
<1>5. UNCHANGED <<config_mask, dst, last_port, odd, rx_lcore_id, rx_port_list>>
  BY DEF parse_args, pairing, queues
<1>6. TypeOK'
  BY <1>1, <1>2, <1>3, <1>5 DEF TypeOK
<1>7. config_mask = {} /\ odd = 0
  BY <1>1 DEF PairsInv, PortsInv, Early
<1>8. PairsInv'
  <2>1. CASE phase' = "pairs"
    BY <1>1, <1>3, <1>5, <1>7, <2>1, ArgsTyped DEF PairsInv, Apart, Covers
  <2>2. CASE phase' # "pairs"
    BY <1>1, <1>3, <1>4, <2>2 DEF PairsInv, Exits
  <2> QED BY <2>1, <2>2
<1>9. PortsInv'
  BY <1>3, <1>5, <1>7 DEF PortsInv, Exits
<1> QED BY <1>1, <1>3, <1>4, <1>6, <1>8, <1>9 DEF Mapped, Exits

\* A pair is checked, or the loop over the pairs ends.
LEMMA MapCheckPair ==
  ASSUME MapInv, check_port_pair PROVE MapInv'
<1> USE DEF MapInv
<1>1. /\ args \in Args /\ args' = args /\ phase = "pairs" /\ args.mapped
      /\ UNCHANGED <<dst, last_port, odd, rx_lcore_id, rx_port_list>>
      /\ index \in Nat /\ index <= Len(args.pairs) /\ odd = 0
      /\ Len(args.pairs) \in Nat
  BY ArgsTyped DEF TypeOK, check_port_pair, queues, PairsInv, PortsInv, Early
<1>2. \A x : Pair(x)' = Pair(x)
  BY <1>1 DEF Pair
<1> DEFINE pair == Members(args.pairs[index + 1])
           Accepts == /\ index < Len(args.pairs)
                      /\ \A p \in pair : p \in mask /\ p < NbPorts
                      /\ pair \cap config_mask = {}
                      /\ config_mask' = config_mask \cup pair
                      /\ index' = index + 1
                      /\ phase' = phase /\ mask' = mask
           Refuses == /\ phase' = "bad pair" /\ index' = 0
                      /\ mask' = mask /\ config_mask' = config_mask
           Ends == /\ index >= Len(args.pairs)
                   /\ mask' = mask \cap config_mask
                   /\ phase' = "mask" /\ index' = 0
                   /\ config_mask' = config_mask
<1>3. CASE Accepts
  <2>1. TypeOK'
    BY <1>1, <1>3 DEF TypeOK
  <2>2. pair = Pair(index + 1) /\ Apart(index) /\ Covers(index, config_mask)
    BY <1>1 DEF Pair, PairsInv
  <2>3. \A x \in 1 .. index : Pair(x) \cap pair = {}
    BY <1>3, <2>2 DEF Covers
  <2>4. Apart(index + 1)
    <3>1. ASSUME NEW x \in 1 .. index + 1, NEW j \in 1 .. index + 1, x # j
          PROVE  Pair(x) \cap Pair(j) = {}
      <4>1. CASE x \in 1 .. index /\ j \in 1 .. index
        BY <2>2, <3>1, <4>1 DEF Apart
      <4>2. CASE x = index + 1 /\ j \in 1 .. index
        BY <2>2, <2>3, <4>2
      <4>3. CASE j = index + 1 /\ x \in 1 .. index
        BY <2>2, <2>3, <4>3
      <4> QED BY <1>1, <3>1, <4>1, <4>2, <4>3
    <3> QED BY <3>1 DEF Apart
  <2>5. Covers(index + 1, config_mask \cup pair)
    <3>1. \A x \in 1 .. index + 1 : x \in 1 .. index \/ x = index + 1
      BY <1>1
    <3>2. \A x \in 1 .. index : x \in 1 .. index + 1
      BY <1>1
    <3>3. index + 1 \in 1 .. index + 1
      BY <1>1
    <3> HIDE DEF pair
    <3> QED BY <2>2, <3>1, <3>2, <3>3 DEF Covers
  <2>6. PairsInv'
    <3>1. Apart(index)' /\ Covers(index, config_mask)'
      BY <1>1, <1>2, <1>3, <2>4, <2>5 DEF Apart, Covers
    <3>2. config_mask' \subseteq mask'
      BY <1>1, <1>3 DEF PairsInv
    <3> QED BY <1>1, <1>3, <3>1, <3>2 DEF PairsInv
  <2> QED BY <1>1, <1>3, <2>1, <2>6 DEF PortsInv, Mapped
<1>4. CASE Refuses
  BY <1>1, <1>4 DEF TypeOK, PairsInv, PortsInv, Early, Mapped, Exits
<1>5. CASE Ends
  <2>1. index = Len(args.pairs) /\ mask' = config_mask
    BY <1>1, <1>5, ArgsTyped DEF PairsInv
  <2>2. Apart(Len(args.pairs))' /\ Covers(Len(args.pairs), mask)'
    BY <1>1, <1>2, <2>1 DEF PairsInv, Apart, Covers
  <2>3. TypeOK'
    BY <1>1, <1>5 DEF TypeOK
  <2> QED BY <1>1, <1>5, <2>2, <2>3 DEF PairsInv, PortsInv, Mapped
<1>6. Accepts \/ Refuses \/ Ends
  <2>1. CASE index < Len(args.pairs)
    <3>1. mask' = mask
      BY <2>1 DEF check_port_pair
    <3>2. \/ /\ \A p \in pair : p \in mask /\ p < NbPorts
             /\ pair \cap config_mask = {}
             /\ config_mask' = config_mask \cup pair
             /\ index' = index + 1
             /\ phase' = phase
          \/ Goes("bad pair") /\ config_mask' = config_mask
      BY <2>1 DEF check_port_pair
    <3> QED BY <2>1, <3>1, <3>2 DEF Goes
  <2>2. CASE ~(index < Len(args.pairs))
    <3>1. mask' = mask \cap config_mask /\ Goes("mask") /\ config_mask' = config_mask
      BY <2>2 DEF check_port_pair
    <3>2. index >= Len(args.pairs)
      BY <1>1, <2>2
    <3> QED BY <3>1, <3>2 DEF Goes
  <2> QED BY <2>1, <2>2
<1> HIDE DEF Accepts, Refuses, Ends
<1> QED BY <1>3, <1>4, <1>5, <1>6

\* The port mask is compared with the devices.
LEMMA MapCheckMask ==
  ASSUME MapInv, check_mask PROVE MapInv'
<1> USE DEF MapInv
<1>1. /\ args \in Args /\ phase = "mask" /\ index' = 0
      /\ UNCHANGED <<args, mask, config_mask, dst, last_port, odd, queues>>
      /\ odd = 0
  BY DEF TypeOK, check_mask, pairing, Goes, PortsInv, Early
<1>2. \/ phase' = "impossible mask"
      \/ phase' = "map" /\ \A p \in mask : ~(p >= NbPorts)
  BY DEF check_mask, Goes
<1>3. TypeOK'
  BY <1>1, <1>2 DEF TypeOK, queues, Exits
<1>4. PairsInv'
  <2>1. args.mapped => Apart(Len(args.pairs))' /\ Covers(Len(args.pairs), mask)'
    BY <1>1 DEF PairsInv, Apart, Covers, Pair
  <2>2. Len(args.pairs) >= 0 /\ \A x : x \in 1 .. 0 => FALSE
    BY <1>1, ArgsTyped
  <2> QED BY <1>1, <1>2, <2>1, <2>2 DEF PairsInv
<1>5. PortsInv'
  <2>1. \A p \in Ports : ~(p < 0)
    BY DEF Ports
  <2>2. \A p \in Ports : ~Matched(p)'
    BY <1>1, <2>1 DEF Matched
  <2>3. 0 <= NbPorts
    BY BoardAssumption
  <2>4. \A p \in Ports : ~(p < index')
    BY <1>1, <2>1
  <2>5. odd' = 0 /\ index' <= NbPorts
    BY <1>1, <2>3
  <2> QED BY <2>4, <2>5 DEF PortsInv, Matched
<1>6. phase' = "map" => \A p \in mask : p < NbPorts
  BY <1>2, BoardAssumption DEF TypeOK, Ports
<1> QED BY <1>1, <1>2, <1>3, <1>4, <1>5, <1>6 DEF Mapped

\* A pair is mapped, or the loop over the pairs ends.
LEMMA MapMapPair ==
  ASSUME MapInv, map_pair PROVE MapInv'
<1> USE DEF MapInv
<1> DEFINE a(x) == args.pairs[x][1]
           b(x) == args.pairs[x][2]
           N == Len(args.pairs)
<1>1. /\ args \in Args /\ phase = "map" /\ args.mapped
      /\ UNCHANGED <<args, mask, config_mask, last_port, odd, queues>>
      /\ index \in Nat /\ index <= N /\ N \in Nat
  BY ArgsTyped DEF TypeOK, map_pair, PairsInv
<1>2. Apart(N) /\ Covers(N, mask) /\ mask \subseteq Ports
  BY <1>1 DEF PairsInv, TypeOK
<1>3. \A x \in 1 .. N : a(x) \in Pair(x) /\ b(x) \in Pair(x)
  BY <1>1, ArgsTyped
<1>4. \A x \in 1 .. index : dst[a(x)] = b(x) /\ dst[b(x)] = a(x)
  BY <1>1 DEF PairsInv
<1>5. CASE /\ index < N
           /\ dst' = [dst EXCEPT ![a(index + 1)] = b(index + 1),
                                 ![b(index + 1)] = a(index + 1)]
           /\ index' = index + 1
           /\ UNCHANGED phase
  <2>1. a(index + 1) \in Ports /\ b(index + 1) \in Ports
    <3>1. index + 1 \in 1 .. N
      BY <1>1, <1>5
    <3>2. Pair(index + 1) \subseteq Ports
      BY <1>2, <3>1 DEF Covers
    <3> QED BY <1>3, <3>1, <3>2
  <2>2. TypeOK'
    BY <1>1, <1>5, <2>1 DEF TypeOK, queues
  <2>3. ASSUME NEW x \in 1 .. index + 1
        PROVE  dst'[a(x)] = b(x) /\ dst'[b(x)] = a(x)
    <3>1. CASE x = index + 1
      BY <1>5, <2>1, <3>1 DEF TypeOK
    <3>2. CASE x # index + 1
      <4>1. x \in 1 .. index /\ x \in 1 .. N /\ index + 1 \in 1 .. N
        BY <1>1, <1>5, <3>2
      <4>2. {a(x), b(x)} \cap {a(index + 1), b(index + 1)} = {}
        BY <1>2, <1>3, <3>2, <4>1, ArgsTyped, <1>1 DEF Apart
      <4>3. a(x) \in Ports /\ b(x) \in Ports
        BY <1>2, <1>3, <4>1 DEF Covers
      <4> QED BY <1>4, <1>5, <4>1, <4>2, <4>3 DEF TypeOK
    <3> QED BY <3>1, <3>2
  <2>4. PairsInv'
    <3>1. Apart(Len(args.pairs))' /\ Covers(Len(args.pairs), mask)'
      BY <1>1, <1>2 DEF Apart, Covers, Pair
    <3>2. index' <= Len(args.pairs)' /\ phase' = "map"
      BY <1>1, <1>5
    <3>3. \A x \in 1 .. index' : /\ dst'[args'.pairs[x][1]] = args'.pairs[x][2]
                                 /\ dst'[args'.pairs[x][2]] = args'.pairs[x][1]
      BY <1>1, <1>5, <2>3
    <3> QED BY <3>1, <3>2, <3>3 DEF PairsInv
  <2> QED BY <1>1, <1>5, <2>2, <2>4 DEF PortsInv, Early, Mapped
<1>6. CASE index >= N /\ phase' = "lcores" /\ index' = 0 /\ UNCHANGED dst
  <2>1. ASSUME NEW p \in mask PROVE dst[p] \in mask /\ dst[dst[p]] = p
    <3>1. PICK x \in 1 .. N : p \in Pair(x)
      BY <1>2 DEF Covers
    <3>2. x \in 1 .. index /\ (p = a(x) \/ p = b(x))
      BY <1>1, <1>6, <3>1, ArgsTyped
    <3> QED BY <1>2, <1>3, <1>4, <3>1, <3>2 DEF Covers
  <2>2. TypeOK'
    BY <1>1, <1>6 DEF TypeOK, queues
  <2> QED BY <1>1, <1>6, <2>1, <2>2 DEF PairsInv, PortsInv, Early, Mapped
<1> QED BY <1>1, <1>5, <1>6 DEF map_pair, Goes

\* A port is matched, or the loop over the ports ends.
LEMMA MapMapPort ==
  ASSUME MapInv, map_port PROVE MapInv'
<1> USE DEF MapInv
<1>1. /\ args \in Args /\ phase = "map" /\ ~args.mapped
      /\ UNCHANGED <<args, mask, config_mask, queues>>
      /\ index \in Nat /\ index <= NbPorts
      /\ odd = 1 => last_port \in mask /\ last_port < index
      /\ mask \subseteq Ports /\ last_port \in Ports /\ dst \in [Ports -> Ports]
      /\ odd \in {0, 1}
  BY DEF TypeOK, map_port, PortsInv
<1>2. \A p \in Ports : Matched(p) => Matched(dst[p]) /\ dst[dst[p]] = p
  BY <1>1 DEF PortsInv
<1>3. Ports \subseteq Nat /\ NbPorts \in Nat /\ \A p \in mask : p < NbPorts
  BY <1>1, BoardAssumption DEF Ports
<1>4. CASE index < NbPorts /\ index' = index + 1 /\ UNCHANGED phase
  <2>1. \/ index \notin mask /\ UNCHANGED <<dst, last_port, odd>>
        \/ /\ index \in mask /\ odd = 1 /\ odd' = 0 /\ UNCHANGED last_port
           /\ dst' = [dst EXCEPT ![index] = last_port, ![last_port] = index]
        \/ /\ index \in mask /\ odd = 0 /\ odd' = 1 /\ last_port' = index
           /\ UNCHANGED dst
    BY <1>1, <1>3, <1>4 DEF map_port, Goes
  <2>2. TypeOK'
    BY <1>1, <1>4, <2>1 DEF TypeOK, queues
  <2>3. odd' = 1 => last_port' \in mask /\ last_port' < index'
    BY <1>1, <1>3, <1>4, <2>1
  <2>4. ASSUME NEW p \in Ports, Matched(p)' PROVE Matched(dst[p])' /\ dst'[dst'[p]] = p
    <3>1. CASE index \notin mask
      <4>1. dst' = dst /\ odd' = odd /\ last_port' = last_port /\ mask' = mask
        BY <1>1, <2>1, <3>1
      <4>2. Matched(p)
        BY <1>1, <1>3, <1>4, <2>4, <3>1, <4>1 DEF Matched
      <4>3. Matched(dst[p]) /\ dst[dst[p]] = p
        BY <1>2, <4>2
      <4>4. ASSUME NEW q, Matched(q), q \in Nat PROVE Matched(q)'
        BY <1>1, <1>4, <4>1, <4>4 DEF Matched
      <4> QED BY <1>1, <1>3, <4>1, <4>3, <4>4 DEF Matched
    <3>2. CASE index \in mask /\ odd = 1
      <4>1. CASE p = index \/ p = last_port
        BY <1>1, <1>3, <1>4, <2>1, <3>2, <4>1 DEF Matched
      <4>2. CASE p # index /\ p # last_port
        <5>1. Matched(p) /\ p # last_port
          BY <1>1, <1>3, <1>4, <2>4, <3>2, <4>2 DEF Matched
        <5>2. Matched(dst[p]) /\ dst[dst[p]] = p /\ dst[p] \in Ports
          BY <1>1, <1>2, <5>1
        <5>3. dst[p] # index /\ dst[p] # last_port
          BY <1>1, <1>3, <3>2, <5>2 DEF Matched
        <5>4. dst'[p] = dst[p] /\ dst'[dst[p]] = p
          BY <1>1, <2>1, <3>2, <4>2, <5>2, <5>3
        <5>5. dst[p] \in mask' /\ dst[p] < index' /\ odd' = 0
          <6>1. dst[p] \in mask /\ dst[p] < index /\ dst[p] \in Nat
            BY <1>3, <5>2 DEF Matched
          <6>2. mask' = mask /\ index' = index + 1 /\ odd' = 0
            BY <1>1, <1>4, <2>1, <3>2
          <6> QED BY <1>1, <6>1, <6>2
        <5>6. Matched(dst[p])'
          BY <5>4, <5>5 DEF Matched
        <5> QED BY <5>4, <5>6
      <4> QED BY <4>1, <4>2
    <3>3. CASE index \in mask /\ odd = 0
      <4>1. Matched(p)
        BY <1>1, <1>3, <1>4, <2>1, <2>4, <3>3 DEF Matched
      <4>2. Matched(dst[p]) /\ dst[dst[p]] = p /\ dst[p] \in Ports
        BY <1>1, <1>2, <4>1
      <4>3. dst' = dst /\ odd' = 1 /\ last_port' = index /\ mask' = mask
        BY <1>1, <2>1, <3>3
      <4>4. ASSUME NEW q, Matched(q), q \in Nat PROVE Matched(q)'
        BY <1>1, <1>4, <4>3, <4>4 DEF Matched
      <4> QED BY <1>3, <4>2, <4>3, <4>4
    <3> QED BY <1>1, <3>1, <3>2, <3>3
  <2>5. PortsInv'
    BY <1>1, <1>3, <1>4, <2>3, <2>4 DEF PortsInv, Early
  <2> QED BY <1>1, <1>3, <1>4, <2>2, <2>5 DEF PairsInv, Mapped
<1>5. CASE /\ index >= NbPorts /\ phase' = "lcores" /\ index' = 0
           /\ dst' = IF odd = 1 THEN [dst EXCEPT ![last_port] = last_port] ELSE dst
           /\ UNCHANGED <<last_port, odd>>
  <2>1. TypeOK'
    BY <1>1, <1>5 DEF TypeOK, queues
  <2>2. ASSUME NEW p \in mask PROVE dst'[p] \in mask /\ dst'[dst'[p]] = p
    <3>1. CASE odd = 1 /\ p = last_port
      BY <1>1, <1>5, <3>1
    <3>2. CASE ~(odd = 1 /\ p = last_port)
      <4>1. Matched(p) /\ p \in Ports
        BY <1>1, <1>3, <1>5, <3>2 DEF Matched
      <4>2. Matched(dst[p]) /\ dst[dst[p]] = p
        BY <1>2, <4>1
      <4> QED BY <1>1, <1>5, <3>2, <4>1, <4>2 DEF Matched
    <3> QED BY <3>1, <3>2
  <2> QED BY <1>1, <1>3, <1>5, <2>1, <2>2 DEF PairsInv, PortsInv, Early, Mapped
<1> QED BY <1>1, <1>4, <1>5 DEF map_port, Goes

\* The loop over the lcores: the port map stays as it is.
LEMMA MapLcores ==
  ASSUME MapInv, assign_port \/ skip_port \/ assigned \/ start_ports PROVE MapInv'
<1> USE DEF MapInv
<1>1. UNCHANGED <<args, mask, config_mask, dst, last_port, odd>>
  BY DEF assign_port, skip_port, assigned, start_ports, pairing
<1>2. phase \in {"lcores", "start"} /\ phase' \in {"lcores", "start", "run"} \cup Exits
  BY DEF assign_port, skip_port, assigned, start_ports, Goes, Exits
<1>3. index \in Nat /\ index' \in Nat
  <2>1. index \in Nat
    BY DEF TypeOK
  <2>2. index' \in {index + 1, 0}
    BY DEF assign_port, skip_port, assigned, start_ports, Goes
  <2> QED BY <2>1, <2>2
<1>4. rx_lcore_id' \in Lcores /\ rx_port_list' \in [Lcores -> Seq(Ports)]
  <2>1. CASE assign_port
    <3>1. index \in Ports
      <4>1. index < NbPorts
        BY <2>1 DEF assign_port
      <4> QED BY <1>3, <4>1, BoardAssumption DEF Ports
    <3>2. \A l \in rx_lcore_id .. MaxLcore - 1 : l \in Lcores
      BY BoardAssumption DEF TypeOK, Lcores
    <3>3. rx_lcore_id \in Lcores /\ rx_port_list \in [Lcores -> Seq(Ports)]
      BY DEF TypeOK
    <3>4. \/ UNCHANGED <<rx_lcore_id, rx_port_list>>
          \/ \E l \in rx_lcore_id .. MaxLcore - 1 :
               /\ rx_lcore_id' = l
               /\ rx_port_list' = [rx_port_list EXCEPT ![l] = Append(@, index)]
      BY <2>1 DEF assign_port, queues
    <3>5. \A l \in Lcores : Append(rx_port_list[l], index) \in Seq(Ports)
      BY <3>1, <3>3
    <3> QED BY <3>2, <3>3, <3>4, <3>5
  <2>2. CASE skip_port \/ assigned \/ start_ports
    BY <2>2 DEF TypeOK, skip_port, assigned, start_ports, queues
  <2> QED BY <2>1, <2>2
<1>5. TypeOK'
  BY <1>1, <1>2, <1>3, <1>4 DEF TypeOK
<1>6. PairsInv' /\ PortsInv'
  BY <1>1, <1>2 DEF PairsInv, PortsInv, Early, Exits
<1> QED BY <1>1, <1>2, <1>5, <1>6 DEF Mapped, Exits

\* A step of main preserves it,
LEMMA MapStep ==
  ASSUME MapInv, [Next]_vars PROVE MapInv'
<1>1. CASE UNCHANGED vars
  <2>1. TypeOK'
    BY <1>1 DEF vars, MapInv, TypeOK, pairing, queues
  <2>2. PairsInv' /\ PortsInv'
    BY <1>1 DEF vars, pairing, MapInv, PairsInv, PortsInv, Apart, Covers, Pair, Matched
  <2> QED BY <1>1, <2>1, <2>2 DEF vars, pairing, MapInv
<1> QED
  BY <1>1, MapParse, MapCheckPair, MapCheckMask, MapMapPair, MapMapPort, MapLcores
  DEF Next

\* so it holds in every reachable state.
LEMMA MapInductive == Spec => []MapInv
<1>1. MapInv /\ [Next]_vars => MapInv'
  BY MapStep
<1> QED BY <1>1, MapInit, PTL DEF Spec

(***************************************************************************)
(* The state has its type: in particular no destination lies outside the   *)
(* array of ports.                                                         *)
(***************************************************************************)
LEMMA TypeInvariant == Spec => []TypeOK
BY MapInductive, PTL DEF MapInv

(***************************************************************************)
(* Once the lcores run, the enabled ports forward to each other in pairs,  *)
(* or to themselves, whatever the masks, the port maps and the devices.    *)
(***************************************************************************)
THEOREM PortsMirrored == Spec => []Mirrored
<1>1. MapInv => Mirrored
  BY DEF MapInv, Mirrored, Mapped
<1> QED BY <1>1, MapInductive, PTL

-----------------------------------------------------------------------------
\* The invariant of the assignment holds before the first loop,
LEMMA QueueInit == Init => QueueInv
BY DEF Init, QueueInv, Mapped

\* Before the loop over the lcores no list has a port.
LEMMA QueueBefore ==
  ASSUME MapInv, QueueInv,
         parse_args \/ check_port_pair \/ check_mask \/ map_pair \/ map_port
  PROVE  QueueInv'
<1>1. rx_port_list' = rx_port_list /\ args' = args
  BY DEF parse_args, check_port_pair, check_mask, map_pair, map_port, queues
<1>2. phase \in Early \cup {"map"}
  BY DEF parse_args, check_port_pair, check_mask, map_pair, map_port, Early
<1>3. \A l \in Lcores : rx_port_list[l] = <<>>
  BY <1>2 DEF QueueInv
<1>4. phase' \in {"pairs", "mask", "map"} \cup Mapped => args.q < MAX_RX_QUEUE_PER_LCORE
  <2>1. CASE parse_args
    <3>1. args.q \in Nat
      BY ArgsTyped DEF MapInv, TypeOK
    <3>2. phase' \in Exits \/ parse_nqueue(args.q) # 0
      BY <2>1 DEF parse_args, Goes, Exits
    <3>3. parse_nqueue(args.q) # 0 => args.q < MAX_RX_QUEUE_PER_LCORE
      BY <3>1 DEF parse_nqueue, MAX_RX_QUEUE_PER_LCORE
    <3> QED BY <3>2, <3>3 DEF Mapped, Exits
  <2>2. CASE check_port_pair \/ check_mask \/ map_pair \/ map_port
    BY <2>2 DEF check_port_pair, check_mask, map_pair, map_port, QueueInv
  <2> QED BY <2>1, <2>2
<1>5. phase' \in Mapped => phase' = "lcores" /\ index' = 0
  <2>1. CASE parse_args
    BY <2>1 DEF parse_args, Goes, Mapped
  <2>2. CASE check_port_pair \/ check_mask
    BY <2>2 DEF check_port_pair, check_mask, Goes, Mapped
  <2>3. CASE map_pair \/ map_port
    BY <2>3 DEF map_pair, map_port, Goes, Mapped
  <2> QED BY <2>1, <2>2, <2>3
<1>6. phase' \in Mapped => Given' = {}
  <2>1. mask' \subseteq Ports
    BY MapParse, MapCheckPair, MapCheckMask, MapMapPair, MapMapPort DEF MapInv, TypeOK
  <2>2. \A p \in mask' : ~(p < 0)
    BY <2>1 DEF Ports
  <2> QED BY <1>5, <2>2 DEF Given
<1>7. args.q \in Nat
  BY ArgsTyped DEF MapInv, TypeOK
<1> QED BY <1>1, <1>3, <1>4, <1>6, <1>7 DEF QueueInv, Polled

\* The first free lcore takes the next port.
LEMMA QueueAssign ==
  ASSUME MapInv, QueueInv, assign_port PROVE QueueInv'
<1>1. /\ rx_port_list \in [Lcores -> Seq(Ports)]
      /\ index \in Nat /\ mask \subseteq Ports /\ args.q \in Nat
      /\ Ports \subseteq Nat /\ Enabled \subseteq Lcores
  <2>1. /\ rx_port_list \in [Lcores -> Seq(Ports)]
        /\ index \in Nat /\ mask \subseteq Ports /\ args \in Args
    BY DEF MapInv, TypeOK
  <2>2. Ports \subseteq Nat /\ Enabled \subseteq Lcores
    BY BoardAssumption DEF Ports
  <2> QED BY <2>1, <2>2, ArgsTyped
<1>2. /\ phase = "lcores" /\ index \in mask
      /\ args' = args /\ mask' = mask
  BY DEF assign_port
<1>3. CASE phase' = "not enough cores"
  BY <1>3 DEF QueueInv, Early, Mapped
<1>4. ASSUME NEW l \in rx_lcore_id .. MaxLcore - 1, Free(l),
             rx_port_list' = [rx_port_list EXCEPT ![l] = Append(@, index)],
             index' = index + 1, phase' = phase
      PROVE  QueueInv'
  <2> DEFINE L == rx_port_list
             n == Len(L[l])
  <2>1. l \in Enabled /\ l \in Lcores /\ n # args.q
    BY <1>1, <1>4 DEF Free
  <2>2. /\ \A m \in Lcores : L[m] \in Seq(Ports) /\ Len(L[m]) \in Nat
        /\ n \in Nat
    BY <1>1, <2>1
  <2>3. /\ args.q < MAX_RX_QUEUE_PER_LCORE
        /\ \A m \in Lcores : Len(L[m]) <= args.q
        /\ \A m \in Lcores : \A x \in 1 .. Len(L[m]) : L[m][x] \in mask /\ L[m][x] < index
        /\ \A p \in mask : p < index => \E m \in Enabled : \E x \in 1 .. Len(L[m]) : L[m][x] = p
        /\ \A k, m \in Lcores : \A x \in 1 .. Len(L[k]), j \in 1 .. Len(L[m]) :
             L[k][x] = L[m][j] => k = m /\ x = j
    BY <1>2 DEF QueueInv, Mapped, Polled, Given
  <2>4. /\ Len(L'[l]) = n + 1
        /\ L'[l][n + 1] = index
        /\ \A x \in 1 .. n : L'[l][x] = L[l][x]
    BY <1>1, <1>4, <2>1, <2>2
  <2>5. \A m \in Lcores : m # l => L'[m] = L[m]
    BY <1>1, <1>4
  <2>6. \A m \in Lcores : \A x \in 1 .. Len(L'[m]) :
          \/ x \in 1 .. Len(L[m]) /\ L'[m][x] = L[m][x]
          \/ m = l /\ x = n + 1 /\ L'[m][x] = index
    BY <2>2, <2>4, <2>5
  <2>7. \A m \in Lcores : \A x \in 1 .. Len(L[m]) :
          x \in 1 .. Len(L'[m]) /\ L'[m][x] = L[m][x]
    BY <2>2, <2>4, <2>5
  <2> HIDE DEF L
  <2>8. \A m \in Lcores : Len(L'[m]) <= args.q
    <3>1. Len(L'[l]) <= args.q
      BY <1>1, <2>1, <2>2, <2>3, <2>4
    <3> QED BY <2>3, <2>5, <3>1
  <2>9. ASSUME NEW m \in Lcores, NEW x \in 1 .. Len(L'[m])
        PROVE  L'[m][x] \in mask /\ L'[m][x] < index + 1
    <3>1. CASE x \in 1 .. Len(L[m]) /\ L'[m][x] = L[m][x]
      <4>1. L[m][x] \in mask /\ L[m][x] < index
        BY <2>3, <3>1
      <4>2. L[m][x] \in Nat
        BY <1>1, <4>1
      <4> QED BY <1>1, <3>1, <4>1, <4>2
    <3>2. CASE L'[m][x] = index
      BY <1>1, <1>2, <3>2
    <3> QED BY <2>6, <3>1, <3>2
  <2>10. ASSUME NEW p \in mask, p < index + 1
         PROVE  \E m \in Enabled : \E x \in 1 .. Len(L'[m]) : L'[m][x] = p
    <3>1. CASE p = index
      BY <2>1, <2>2, <2>4, <3>1
    <3>2. CASE p < index
      <4>1. PICK m \in Enabled : \E x \in 1 .. Len(L[m]) : L[m][x] = p
        BY <2>3, <3>2
      <4>2. PICK x \in 1 .. Len(L[m]) : L[m][x] = p
        BY <4>1
      <4>3. x \in 1 .. Len(L'[m]) /\ L'[m][x] = p
        BY <1>1, <2>7, <4>1, <4>2
      <4> QED BY <4>3
    <3>3. p \in Nat
      BY <1>1
    <3> QED BY <1>1, <2>10, <3>1, <3>2, <3>3
  <2>11. ASSUME NEW k \in Lcores, NEW m \in Lcores,
                NEW x \in 1 .. Len(L'[k]), NEW j \in 1 .. Len(L'[m]),
                L'[k][x] = L'[m][j]
         PROVE  k = m /\ x = j
    <3>1. \A h \in Lcores : \A g \in 1 .. Len(L[h]) : L[h][g] # index
      BY <1>1, <2>3
    <3>2. CASE x \in 1 .. Len(L[k]) /\ L'[k][x] = L[k][x]
      <4>1. CASE j \in 1 .. Len(L[m]) /\ L'[m][j] = L[m][j]
        <5>1. L[k][x] = L[m][j]
          BY <2>11, <3>2, <4>1
        <5> QED BY <2>3, <3>2, <4>1, <5>1
      <4>2. CASE L'[m][j] = index
        BY <2>11, <3>1, <3>2, <4>2
      <4> QED BY <2>6, <4>1, <4>2
    <3>3. CASE k = l /\ x = n + 1 /\ L'[k][x] = index
      <4>1. CASE j \in 1 .. Len(L[m]) /\ L'[m][j] = L[m][j]
        BY <2>11, <3>1, <3>3, <4>1
      <4>2. CASE m = l /\ j = n + 1
        BY <3>3, <4>2
      <4> QED BY <2>6, <4>1, <4>2
    <3> QED BY <2>6, <3>2, <3>3
  <2>12. phase' = "lcores" /\ index' = index + 1
    BY <1>2, <1>4
  <2> USE DEF L
  <2>13. \A p : p \in Given' <=> p \in mask /\ p < index + 1
    BY <1>2, <2>12 DEF Given
  <2> QED
    BY <1>2, <2>3, <2>8, <2>9, <2>10, <2>11, <2>12, <2>13
    DEF QueueInv, Early, Mapped, Polled
<1>5. \/ phase' = "not enough cores"
      \/ \E l \in rx_lcore_id .. MaxLcore - 1 :
           /\ Free(l)
           /\ rx_port_list' = [rx_port_list EXCEPT ![l] = Append(@, index)]
           /\ index' = index + 1
           /\ phase' = phase
  BY DEF assign_port, Goes
<1> QED BY <1>3, <1>4, <1>5

\* The lists stay as they are, and every enabled port has been given out.
LEMMA QueueAfter ==
  ASSUME MapInv, QueueInv, skip_port \/ assigned \/ start_ports
  PROVE  QueueInv'
<1>1. rx_port_list' = rx_port_list /\ args' = args /\ mask' = mask
  BY DEF skip_port, assigned, start_ports, queues
<1>2. phase \in {"lcores", "start"} /\ phase' \in {"lcores", "start", "run"} \cup Exits
  BY DEF skip_port, assigned, start_ports, Goes, Exits
<1>3. phase' \in Mapped => Given' = Given
  <2>1. mask \subseteq Nat /\ index \in Nat /\ NbPorts \in Nat /\ \A p \in mask : p < NbPorts
    BY <1>2, BoardAssumption DEF MapInv, TypeOK, Ports, Mapped
  <2>2. CASE skip_port
    <3>1. phase = "lcores" /\ phase' = "lcores" /\ index' = index + 1 /\ index \notin mask
      BY <2>2 DEF skip_port
    <3>2. \A p \in mask : p < index + 1 <=> p < index
      BY <2>1, <3>1
    <3> QED BY <1>1, <3>1, <3>2 DEF Given
  <2>3. CASE assigned
    <3>1. phase' = "start" /\ index >= NbPorts
      BY <2>3 DEF assigned, Goes
    <3>2. \A p \in mask : p < index
      BY <2>1, <3>1
    <3> QED BY <1>1, <3>1, <3>2 DEF Given
  <2>4. CASE start_ports
    BY <1>1, <1>2, <2>4 DEF start_ports, Goes, Given, Mapped
  <2> QED BY <2>2, <2>3, <2>4
<1>4. CASE phase' \in Mapped
  BY <1>1, <1>2, <1>3, <1>4 DEF QueueInv, Early, Mapped, Polled
<1>5. CASE phase' \notin Mapped
  BY <1>2, <1>5 DEF QueueInv, Early, Mapped, Exits
<1> QED BY <1>4, <1>5

\* A step of main preserves it,
LEMMA QueueStep ==
  ASSUME MapInv, QueueInv, [Next]_vars PROVE QueueInv'
<1>1. CASE UNCHANGED vars
  BY <1>1 DEF vars, QueueInv, Polled, Given
<1> QED BY <1>1, QueueBefore, QueueAssign, QueueAfter DEF Next

\* so it holds in every reachable state.
LEMMA QueueInductive == Spec => []QueueInv
<1>1. MapInv /\ QueueInv /\ [Next]_vars => QueueInv'
  BY QueueStep
<1> QED BY <1>1, QueueInit, MapInductive, PTL DEF Spec

(***************************************************************************)
(* Once the lcores run, every enabled port is polled once, by an enabled   *)
(* lcore, and no list of ports overflows.                                  *)
(***************************************************************************)
THEOREM PortsPolledOnce == Spec => []PolledOnce
<1>1. MapInv /\ QueueInv => PolledOnce
  <2> SUFFICES ASSUME MapInv, QueueInv, phase = "run" PROVE PolledOnce
    BY DEF PolledOnce
  <2>1. args.q \in Nat /\ \A l \in Lcores : Len(rx_port_list[l]) \in Nat
    BY ArgsTyped DEF MapInv, TypeOK
  <2>2. Given = mask
    BY DEF Given
  <2> QED
    BY <2>1, <2>2 DEF QueueInv, PolledOnce, Mapped, Polled, MAX_RX_QUEUE_PER_LCORE
<1> QED BY <1>1, MapInductive, QueueInductive, PTL

(***************************************************************************)
(* Once the lcores run, no two of them send to the same port: the transmit *)
(* buffers and counters need no lock.                                      *)
(***************************************************************************)
THEOREM SendersApart == Spec => []OneSender
<1>1. MapInv /\ QueueInv => OneSender
  <2> SUFFICES ASSUME MapInv, QueueInv, phase = "run",
                      NEW l \in Lcores, NEW m \in Lcores, l # m,
                      NEW p \in SendsTo(l), p \in SendsTo(m)
               PROVE  FALSE
    BY DEF OneSender
  <2>1. PICK x \in 1 .. Len(rx_port_list[l]) : p = dst[rx_port_list[l][x]]
    BY DEF SendsTo
  <2>2. PICK j \in 1 .. Len(rx_port_list[m]) : p = dst[rx_port_list[m][j]]
    BY DEF SendsTo
  <2>3. rx_port_list[l][x] \in mask /\ rx_port_list[m][j] \in mask
    BY DEF QueueInv, Mapped, Polled, Given
  <2>4. \A q \in mask : dst[dst[q]] = q
    BY DEF MapInv, Mapped
  <2>5. rx_port_list[l][x] = dst[p] /\ rx_port_list[m][j] = dst[p]
    BY <2>1, <2>2, <2>3, <2>4
  <2> QED BY <2>5 DEF QueueInv, Mapped, Polled
<1> QED BY <1>1, MapInductive, QueueInductive, PTL

-----------------------------------------------------------------------------
\* The lcores, from the launch on.

\* The lcores have been launched.
Launched == phase \in {"run", "closed"}

\* Port p of the list of lcore l, and all the ports an lcore polls.
Polls(l, p) == \E k \in 1 .. Len(rx_port_list[l]) : rx_port_list[l][k] = p

\* Launched ports forward to each other in pairs, and one lcore polls each.
RoutesInv ==
  Launched =>
    /\ \A p \in mask : dst[p] \in mask /\ dst[dst[p]] = p
    /\ \A l \in Enabled : \A k \in 1 .. Len(rx_port_list[l]) : rx_port_list[l][k] \in mask
    /\ \A l, m \in Enabled :
         \A j \in 1 .. Len(rx_port_list[l]), k \in 1 .. Len(rx_port_list[m]) :
           rx_port_list[l][j] = rx_port_list[m][k] => l = m /\ j = k
    /\ \A l \in Enabled : Len(rx_port_list[l]) < MAX_RX_QUEUE_PER_LCORE

\* Until then nothing has been received or sent.
Quiet ==
  /\ pc = [l \in Enabled |-> "out"]
  /\ tx_buffer = [p \in Ports |-> <<>>]
  /\ wire = [p \in Ports |-> <<>>]
  /\ rx = [p \in Ports |-> 0]
  /\ tx = [p \in Ports |-> 0]
  /\ dropped = [p \in Ports |-> 0]

\* Packets of port p in the order they arrived in, none numbered above n.
Line(s, p, n) ==
  /\ \A k \in 1 .. Len(s) : s[k][1] = p /\ s[k][2] <= n
  /\ \A j, k \in 1 .. Len(s) : j < k => s[j][2] < s[k][2]

\* An lcore at its loop over the ports, with the last packets of a port in hand.
InLoop(l) ==
  /\ pc[l] \in {"flush", "rx"} => i[l] <= Len(rx_port_list[l])
  /\ pc[l] \in {"forward", "store"} =>
       /\ More(l)
       /\ Len(burst[l]) <= rx[portid(l)]
       /\ \A k \in 1 .. Len(burst[l]) :
            burst[l][k] = <<portid(l), rx[portid(l)] - Len(burst[l]) + k>>
  /\ pc[l] = "store" => burst[l] # <<>> /\ len[l] = Len(tx_buffer[dst[portid(l)]])

\* Port p of lcore l: its counters, and what its mirror has sent or holds.
Kept(l, p) ==
  LET d == dst[p]
  IN  /\ rx[p] = tx[d] + dropped[d] + Len(tx_buffer[d]) + InHand(l, p)
      /\ Line(wire[d] \o tx_buffer[d], p, rx[p] - InHand(l, p))

\* No lcore sends to port d.
Idle(d) == \A l \in Enabled : d \notin SendsTo(l)

LoopInv ==
  /\ LoopTypeOK
  /\ ~Launched => Quiet
  /\ phase = "closed" => \A l \in Enabled : pc[l] = "done"
  /\ \A p \in Ports : Len(tx_buffer[p]) < MAX_PKT_BURST
  /\ Launched =>
       /\ \A l \in Enabled : InLoop(l)
       /\ \A l \in Enabled : \A p \in Ports : Polls(l, p) => Kept(l, p)
       /\ \A d \in Ports : Idle(d) => wire[d] = <<>> /\ tx_buffer[d] = <<>>

-----------------------------------------------------------------------------
\* What the type invariant says of the state an lcore works on.
LEMMA LoopTyped ==
  ASSUME LoopTypeOK
  PROVE  /\ pc \in [Enabled -> {"out", "top", "flush", "rx", "forward", "store", "done"}]
         /\ i \in [Enabled -> Nat]
         /\ burst \in [Enabled -> Seq(Packets)]
         /\ len \in [Enabled -> Nat]
         /\ tx_buffer \in [Ports -> Seq(Packets)]
         /\ wire \in [Ports -> Seq(Packets)]
         /\ rx \in [Ports -> Nat]
         /\ tx \in [Ports -> Nat]
         /\ dropped \in [Ports -> Nat]
         /\ rx_port_list \in [Lcores -> Seq(Ports)]
         /\ dst \in [Ports -> Ports]
         /\ mask \subseteq Ports
         /\ Ports \subseteq Nat
         /\ Enabled \subseteq Lcores
         /\ MAX_PKT_BURST \in Nat \ {0} /\ MaxRx \in Nat
<1>1. /\ rx_port_list \in [Lcores -> Seq(Ports)] /\ dst \in [Ports -> Ports]
      /\ mask \subseteq Ports
  BY DEF LoopTypeOK, TypeOK
<1>2. Ports \subseteq Nat /\ Enabled \subseteq Lcores
  BY BoardAssumption DEF Ports
<1>3. 0 .. MaxRx \subseteq Nat /\ 0 .. MAX_PKT_BURST - 1 \subseteq Nat
      /\ 0 .. MAX_RX_QUEUE_PER_LCORE \subseteq Nat
  BY BurstAssumption DEF MAX_RX_QUEUE_PER_LCORE
<1>4. /\ i \in [Enabled -> Nat] /\ len \in [Enabled -> Nat] /\ rx \in [Ports -> Nat]
  BY <1>3 DEF LoopTypeOK
<1> QED BY <1>1, <1>2, <1>4, BurstAssumption DEF LoopTypeOK

\* A packet has a port and a number.
LEMMA PacketParts ==
  ASSUME NEW m \in Packets
  PROVE  m[1] \in Ports /\ m[2] \in Nat /\ m = <<m[1], m[2]>>
BY BurstAssumption DEF Packets

\* Sending the front of a buffer keeps the order of what was sent.
LEMMA LineTake ==
  ASSUME NEW w \in Seq(Packets), NEW s \in Seq(Packets), NEW n \in 0 .. Len(s),
         NEW p, NEW c, Line(w \o s, p, c)
  PROVE  /\ w \o SubSeq(s, 1, n) \in Seq(Packets)
         /\ Line((w \o SubSeq(s, 1, n)) \o <<>>, p, c)
<1> DEFINE t == SubSeq(s, 1, n)
<1>1. t \in Seq(Packets) /\ Len(t) = n /\ \A k \in 1 .. n : t[k] = s[k]
  OBVIOUS
<1> HIDE DEF t
<1>2. (w \o t) \o <<>> = w \o t /\ w \o t \in Seq(Packets)
  BY <1>1
<1>3. /\ Len(w \o t) = Len(w) + n
      /\ Len(w \o t) <= Len(w \o s)
      /\ \A k \in 1 .. Len(w \o t) : k \in 1 .. Len(w \o s) /\ (w \o t)[k] = (w \o s)[k]
  BY <1>1
<1>4. \A k \in 1 .. Len(w \o t) : k \in 1 .. Len(w \o s)
  BY <1>3
<1>5. Line(w \o t, p, c)
  <2>1. \A k \in 1 .. Len(w \o t) : (w \o t)[k][1] = p /\ (w \o t)[k][2] <= c
    BY <1>3 DEF Line
  <2>2. ASSUME NEW j \in 1 .. Len(w \o t), NEW k \in 1 .. Len(w \o t), j < k
        PROVE  (w \o t)[j][2] < (w \o t)[k][2]
    BY <1>3, <2>2 DEF Line
  <2> QED BY <2>1, <2>2 DEF Line
<1> QED BY <1>2, <1>5 DEF t

\* The next packet of the port goes behind the others.
LEMMA LineStore ==
  ASSUME NEW w \in Seq(Packets), NEW s \in Seq(Packets), NEW p \in Ports,
         NEW c \in Nat, <<p, c + 1>> \in Packets, Line(w \o s, p, c)
  PROVE  /\ Append(s, <<p, c + 1>>) \in Seq(Packets)
         /\ Line(w \o Append(s, <<p, c + 1>>), p, c + 1)
<1> DEFINE m == <<p, c + 1>>
           t == w \o s
           N == Len(t)
<1>1. t \in Seq(Packets) /\ N \in Nat
  OBVIOUS
<1>2. m \in Packets /\ m[1] = p /\ m[2] = c + 1
  OBVIOUS
<1>3. w \o Append(s, m) = Append(t, m) /\ Append(s, m) \in Seq(Packets)
  BY <1>2
<1>4. \A k \in 1 .. N : t[k] \in Packets /\ t[k][2] \in Nat
  BY <1>1, PacketParts
<1>5. /\ \A k \in 1 .. N : t[k][1] = p /\ t[k][2] <= c
      /\ \A j, k \in 1 .. N : j < k => t[j][2] < t[k][2]
  BY DEF Line
<1> HIDE DEF m, t
<1>6. /\ Len(Append(t, m)) = N + 1
      /\ Append(t, m)[N + 1] = m
      /\ \A k \in 1 .. N : Append(t, m)[k] = t[k]
  BY <1>1, <1>2
<1>7. ASSUME NEW k \in 1 .. N + 1
      PROVE  Append(t, m)[k][1] = p /\ Append(t, m)[k][2] <= c + 1
  <2>1. CASE k \in 1 .. N
    BY <1>4, <1>5, <1>6, <2>1
  <2>2. CASE k = N + 1
    BY <1>2, <1>6, <2>2
  <2> QED BY <1>1, <2>1, <2>2
<1>8. ASSUME NEW j \in 1 .. N + 1, NEW k \in 1 .. N + 1, j < k
      PROVE  Append(t, m)[j][2] < Append(t, m)[k][2]
  <2>1. j \in 1 .. N
    BY <1>1, <1>8
  <2>2. CASE k \in 1 .. N
    BY <1>5, <1>6, <1>8, <2>1, <2>2
  <2>3. CASE k = N + 1
    BY <1>2, <1>4, <1>5, <1>6, <2>1, <2>3
  <2> QED BY <1>1, <2>2, <2>3
<1>9. Line(Append(t, m), p, c + 1)
  BY <1>6, <1>7, <1>8 DEF Line
<1> QED BY <1>3, <1>9 DEF m

\* With the length that is there, a packet is stored behind the others.
LEMMA StoredIsAppend ==
  ASSUME NEW s \in Seq(Packets), NEW m
  PROVE  Stored(s, Len(s), m) = Append(s, m)
<1>1. SubSeq(s, 1, Len(s)) = s
  OBVIOUS
<1> QED BY <1>1 DEF Stored

\* A flush of s at port d, for any line that s continues.
LEMMA FlushLine ==
  ASSUME LoopTypeOK, NEW d \in Ports, NEW s \in Seq(Packets), Flush(d, s),
         NEW p, NEW c, Line(wire[d] \o s, p, c)
  PROVE  /\ tx_buffer' \in [Ports -> Seq(Packets)]
         /\ wire' \in [Ports -> Seq(Packets)]
         /\ tx' \in [Ports -> Nat]
         /\ dropped' \in [Ports -> Nat]
         /\ \A q \in Ports \ {d} : /\ tx_buffer'[q] = tx_buffer[q]
                                   /\ wire'[q] = wire[q]
                                   /\ tx'[q] = tx[q]
                                   /\ dropped'[q] = dropped[q]
         /\ tx_buffer'[d] = <<>>
         /\ tx'[d] + dropped'[d] = tx[d] + dropped[d] + Len(s)
         /\ Line(wire'[d] \o tx_buffer'[d], p, c)
<1>1. /\ tx_buffer \in [Ports -> Seq(Packets)]
      /\ wire \in [Ports -> Seq(Packets)]
      /\ tx \in [Ports -> Nat]
      /\ dropped \in [Ports -> Nat]
  BY LoopTyped
<1>2. PICK n \in 0 .. Len(s) :
        /\ wire' = [wire EXCEPT ![d] = @ \o SubSeq(s, 1, n)]
        /\ tx' = [tx EXCEPT ![d] = @ + n]
        /\ dropped' = [dropped EXCEPT ![d] = @ + (Len(s) - n)]
        /\ tx_buffer' = [tx_buffer EXCEPT ![d] = <<>>]
  BY DEF Flush
<1>3. Len(s) \in Nat /\ n \in Nat /\ Len(s) - n \in Nat
  OBVIOUS
<1>4. /\ wire[d] \o SubSeq(s, 1, n) \in Seq(Packets)
      /\ Line((wire[d] \o SubSeq(s, 1, n)) \o <<>>, p, c)
  BY <1>1, LineTake
<1>5. <<>> \in Seq(Packets)
  OBVIOUS
<1>6. /\ tx_buffer' \in [Ports -> Seq(Packets)]
      /\ wire' \in [Ports -> Seq(Packets)]
  BY <1>1, <1>2, <1>4, <1>5
<1>7. /\ tx' \in [Ports -> Nat]
      /\ dropped' \in [Ports -> Nat]
  BY <1>1, <1>2, <1>3
<1>8. \A q \in Ports \ {d} : /\ tx_buffer'[q] = tx_buffer[q]
                             /\ wire'[q] = wire[q]
                             /\ tx'[q] = tx[q]
                             /\ dropped'[q] = dropped[q]
  BY <1>1, <1>2
<1>9. tx_buffer'[d] = <<>> /\ wire'[d] = wire[d] \o SubSeq(s, 1, n)
  BY <1>1, <1>2
<1>10. tx'[d] + dropped'[d] = tx[d] + dropped[d] + Len(s)
  BY <1>1, <1>2, <1>3
<1> QED BY <1>4, <1>6, <1>7, <1>8, <1>9, <1>10

-----------------------------------------------------------------------------
\* The lcores and the signal leave the start of the program as it was.
LEMMA StartOrNot ==
  ASSUME MirrorNext
  PROVE  \/ start
         \/ UNCHANGED vars
         \/ close_ports
BY DEF MirrorNext, run, launch, leave, drain, no_drain, flush, receive, forward, store,
       signal_handler

\* The ports stay mapped while the lcores run.
LEMMA MapStays == MirrorSpec => []MapInv
<1>1. MapInv /\ [MirrorNext]_allvars => MapInv'
  <2> SUFFICES ASSUME MapInv, [MirrorNext]_allvars PROVE MapInv'
    OBVIOUS
  <2>1. CASE start \/ UNCHANGED vars
    <3>1. [Next]_vars
      BY <2>1 DEF start
    <3> QED BY <3>1, MapStep
  <2>2. CASE close_ports
    <3>1. /\ UNCHANGED <<args, mask, config_mask, dst, last_port, odd, rx_lcore_id, rx_port_list>>
          /\ phase' = "closed" /\ index' = 0
      BY <2>2 DEF close_ports, Goes, pairing, queues
    <3>2. TypeOK'
      BY <3>1 DEF MapInv, TypeOK
    <3>3. PairsInv' /\ PortsInv'
      BY <3>1 DEF PairsInv, PortsInv, Early
    <3> QED BY <3>1, <3>2, <3>3 DEF MapInv, Mapped
  <2> QED BY <2>1, <2>2, StartOrNot DEF allvars
<1> QED BY <1>1, MapInit, PTL DEF MirrorSpec, MirrorInit

\* and so do the lists of the lcores.
LEMMA QueueStays == MirrorSpec => []QueueInv
<1>1. MapInv /\ QueueInv /\ [MirrorNext]_allvars => QueueInv'
  <2> SUFFICES ASSUME MapInv, QueueInv, [MirrorNext]_allvars PROVE QueueInv'
    OBVIOUS
  <2>1. CASE start \/ UNCHANGED vars
    <3>1. [Next]_vars
      BY <2>1 DEF start
    <3> QED BY <3>1, QueueStep
  <2>2. CASE close_ports
    BY <2>2 DEF close_ports, Goes, QueueInv, Early, Mapped
  <2> QED BY <2>1, <2>2, StartOrNot DEF allvars
<1> QED BY <1>1, QueueInit, MapStays, PTL DEF MirrorSpec, MirrorInit

\* What the start of the program leaves to the lcores.
LEMMA RoutesAtRun ==
  ASSUME MapInv, QueueInv, phase = "run" PROVE RoutesInv
<1>1. args.q \in Nat /\ \A l \in Lcores : Len(rx_port_list[l]) \in Nat
  BY ArgsTyped DEF MapInv, TypeOK
<1>2. Given = mask
  BY DEF Given
<1>3. Enabled \subseteq Lcores
  BY BoardAssumption
<1>4. \A p \in mask : dst[p] \in mask /\ dst[dst[p]] = p
  BY DEF MapInv, Mapped
<1>5. \A l \in Lcores : Len(rx_port_list[l]) < MAX_RX_QUEUE_PER_LCORE
  BY <1>1 DEF QueueInv, Mapped, MAX_RX_QUEUE_PER_LCORE
<1> QED BY <1>2, <1>3, <1>4, <1>5 DEF QueueInv, RoutesInv, Mapped, Polled

\* It holds until the ports are closed, and after.
LEMMA RoutesInductive == MirrorSpec => []RoutesInv
<1>1. MapInv /\ QueueInv => (phase = "run" => RoutesInv)
  BY RoutesAtRun
<1>2. RoutesInv /\ [MirrorNext]_allvars /\ (phase = "run" => RoutesInv)' => RoutesInv'
  <2> SUFFICES ASSUME RoutesInv, [MirrorNext]_allvars, phase' = "run" => RoutesInv'
               PROVE  RoutesInv'
    OBVIOUS
  <2>1. CASE start
    <3>1. phase' # "closed"
      BY <2>1 DEF start, Next, parse_args, check_port_pair, check_mask, map_pair, map_port,
         assign_port, skip_port, assigned, start_ports, Goes
    <3> QED BY <3>1 DEF RoutesInv, Launched
  <2>2. CASE UNCHANGED vars
    BY <2>2 DEF vars, queues, pairing, RoutesInv, Launched
  <2>3. CASE close_ports
    BY <2>3 DEF close_ports, Goes, queues, pairing, RoutesInv, Launched
  <2> QED BY <2>1, <2>2, <2>3, StartOrNot DEF allvars
<1>3. MirrorInit => RoutesInv
  BY DEF MirrorInit, Init, RoutesInv, Launched
<1> QED BY <1>1, <1>2, <1>3, MapStays, QueueStays, PTL DEF MirrorSpec

-----------------------------------------------------------------------------
\* A port that is polled forwards to another and back, and by its lcore alone.
LEMMA PolledPort ==
  ASSUME LoopTypeOK, RoutesInv, Launched, NEW l \in Enabled, NEW p, Polls(l, p)
  PROVE  /\ p \in mask /\ p \in Ports /\ dst[p] \in Ports
         /\ dst[p] \in SendsTo(l)
         /\ dst[dst[p]] = p
         /\ \A m \in Enabled : l # m => ~Polls(m, p) /\ dst[p] \notin SendsTo(m)
<1>1. /\ \A r \in mask : dst[r] \in mask /\ dst[dst[r]] = r
      /\ \A h \in Enabled : \A k \in 1 .. Len(rx_port_list[h]) : rx_port_list[h][k] \in mask
      /\ \A h, g \in Enabled :
           \A j \in 1 .. Len(rx_port_list[h]), k \in 1 .. Len(rx_port_list[g]) :
             rx_port_list[h][j] = rx_port_list[g][k] => h = g /\ j = k
  BY DEF RoutesInv
<1>2. PICK j \in 1 .. Len(rx_port_list[l]) : rx_port_list[l][j] = p
  BY DEF Polls
<1>3. p \in mask /\ mask \subseteq Ports /\ dst \in [Ports -> Ports]
  BY <1>1, <1>2, LoopTyped
<1>4. dst[p] \in SendsTo(l)
  BY <1>2 DEF SendsTo
<1>5. ASSUME NEW m \in Enabled, l # m PROVE ~Polls(m, p) /\ dst[p] \notin SendsTo(m)
  <2>1. ~Polls(m, p)
    BY <1>1, <1>2, <1>5 DEF Polls
  <2>2. ASSUME dst[p] \in SendsTo(m) PROVE FALSE
    <3>1. PICK g \in 1 .. Len(rx_port_list[m]) : dst[p] = dst[rx_port_list[m][g]]
      BY <2>2 DEF SendsTo
    <3>2. rx_port_list[m][g] \in mask
      BY <1>1, <3>1
    <3>3. rx_port_list[m][g] = p
      BY <1>1, <1>3, <3>1, <3>2
    <3> QED BY <2>1, <3>3 DEF Polls
  <2> QED BY <2>1, <2>2
<1> QED BY <1>1, <1>3, <1>4, <1>5

\* The port of this turn is one that the lcore polls.
LEMMA TurnPolls ==
  ASSUME LoopTypeOK, NEW l \in Enabled, More(l)
  PROVE  Polls(l, portid(l)) /\ i[l] + 1 \in 1 .. Len(rx_port_list[l])
<1>1. i[l] \in Nat /\ Len(rx_port_list[l]) \in Nat
  BY LoopTyped
<1> QED BY <1>1 DEF More, Polls, portid

\* The next turn is still inside the list, or at its end.
LEMMA NextTurn ==
  ASSUME LoopTypeOK, RoutesInv, Launched, NEW l \in Enabled,
         i[l] + 1 \in 1 .. Len(rx_port_list[l]), Next_i(l)
  PROVE  /\ i' \in [Enabled -> 0 .. MAX_RX_QUEUE_PER_LCORE]
         /\ i'[l] <= Len(rx_port_list[l])
         /\ \A m \in Enabled \ {l} : i'[m] = i[m]
<1>1. i \in [Enabled -> 0 .. MAX_RX_QUEUE_PER_LCORE]
  BY DEF LoopTypeOK
<1>2. Len(rx_port_list[l]) \in Nat /\ Len(rx_port_list[l]) < 16
  BY LoopTyped DEF RoutesInv, MAX_RX_QUEUE_PER_LCORE
<1>3. i' = [i EXCEPT ![l] = i[l] + 1]
  BY DEF Next_i
<1>4. i'[l] = i[l] + 1 /\ \A m \in Enabled \ {l} : i'[m] = i[m]
  BY <1>1, <1>3
<1>5. PICK n : n = i[l] + 1
  OBVIOUS
<1>6. n \in 0 .. 16 /\ n <= Len(rx_port_list[l])
  <2>1. n \in 1 .. Len(rx_port_list[l])
    BY <1>5
  <2> QED BY <1>2, <2>1
<1>7. n \in 0 .. MAX_RX_QUEUE_PER_LCORE
  BY <1>6 DEF MAX_RX_QUEUE_PER_LCORE
<1> QED BY <1>1, <1>3, <1>4, <1>5, <1>6, <1>7

(***************************************************************************)
(* What one lcore does cannot be seen at the ports of the others: if it    *)
(* keeps its own ports, buffers and loop in order, the invariant holds.    *)
(***************************************************************************)
LEMMA OnlyOne ==
  ASSUME LoopInv, RoutesInv, Launched, UNCHANGED vars, LoopTypeOK',
         NEW l \in Enabled, pc[l] # "done",
         \A m \in Enabled \ {l} : /\ pc'[m] = pc[m] /\ i'[m] = i[m]
                                  /\ burst'[m] = burst[m] /\ len'[m] = len[m],
         \A q \in Ports : ~Polls(l, q) => rx'[q] = rx[q],
         \A d \in Ports : d \notin SendsTo(l) =>
           /\ tx_buffer'[d] = tx_buffer[d] /\ wire'[d] = wire[d]
           /\ tx'[d] = tx[d] /\ dropped'[d] = dropped[d],
         \A d \in Ports : Len(tx_buffer'[d]) < MAX_PKT_BURST,
         InLoop(l)',
         \A p \in Ports : Polls(l, p) => Kept(l, p)'
  PROVE  LoopInv'
<1> USE DEF LoopInv
<1>1. /\ phase' = phase /\ rx_port_list' = rx_port_list /\ dst' = dst /\ mask' = mask
      /\ Launched'
      /\ \A m \in Enabled : SendsTo(m)' = SendsTo(m)
      /\ \A m \in Enabled, p \in Ports : Polls(m, p)' <=> Polls(m, p)
  BY DEF vars, pairing, queues, Launched, SendsTo, Polls
<1>3. ASSUME NEW m \in Enabled, m # l, NEW p \in Ports, Polls(m, p)
      PROVE  /\ rx'[p] = rx[p]
             /\ LET d == dst[p] IN
                  /\ tx_buffer'[d] = tx_buffer[d] /\ wire'[d] = wire[d]
                  /\ tx'[d] = tx[d] /\ dropped'[d] = dropped[d]
  <2>1. ~Polls(l, p)
    BY <1>3, PolledPort
  <2>2. dst[p] \in Ports /\ dst[p] \notin SendsTo(l)
    BY <1>3, PolledPort
  <2> QED BY <2>1, <2>2
<1>4. ASSUME NEW m \in Enabled, m # l
      PROVE  InLoop(m)' /\ \A p \in Ports : Polls(m, p) => Kept(m, p)'
  <2>1. /\ pc'[m] = pc[m] /\ i'[m] = i[m] /\ burst'[m] = burst[m] /\ len'[m] = len[m]
        /\ portid(m)' = portid(m) /\ (More(m)' <=> More(m))
    BY <1>1, <1>4 DEF portid, More
  <2>2. InLoop(m)
    OBVIOUS
  <2>3. More(m) => portid(m) \in Ports /\ Polls(m, portid(m))
    BY TurnPolls, PolledPort
  <2>4. InLoop(m)'
    <3>1. CASE pc[m] \in {"forward", "store"}
      <4>1. /\ More(m)
            /\ Len(burst[m]) <= rx[portid(m)]
            /\ \A k \in 1 .. Len(burst[m]) :
                 burst[m][k] = <<portid(m), rx[portid(m)] - Len(burst[m]) + k>>
        BY <2>2, <3>1 DEF InLoop
      <4>2. /\ rx'[portid(m)] = rx[portid(m)]
            /\ tx_buffer'[dst[portid(m)]] = tx_buffer[dst[portid(m)]]
        BY <1>3, <1>4, <2>3, <4>1
      <4> QED BY <1>1, <2>1, <2>2, <3>1, <4>1, <4>2 DEF InLoop
    <3>2. CASE pc[m] \notin {"forward", "store"}
      BY <1>1, <2>1, <2>2, <3>2 DEF InLoop
    <3> QED BY <3>1, <3>2
  <2>5. ASSUME NEW p \in Ports, Polls(m, p) PROVE Kept(m, p)'
    <3>1. Kept(m, p)
      BY <2>5
    <3>2. InHand(m, p)' = InHand(m, p)
      BY <2>1 DEF InHand
    <3> QED BY <1>1, <1>3, <1>4, <2>5, <3>1, <3>2 DEF Kept
  <2> QED BY <2>4, <2>5
<1>5. ASSUME NEW d \in Ports, Idle(d)' PROVE wire'[d] = <<>> /\ tx_buffer'[d] = <<>>
  <2>1. Idle(d) /\ d \notin SendsTo(l)
    BY <1>1, <1>5 DEF Idle
  <2> QED BY <2>1
<1>6. phase' # "closed"
  BY <1>1
<1> QED BY <1>1, <1>3, <1>4, <1>5

\* A port of the lcore that is not the one of this turn has no packet in hand.
LEMMA OtherPort ==
  ASSUME LoopInv, RoutesInv, Launched, UNCHANGED <<dst, rx_port_list>>,
         NEW l \in Enabled, NEW p \in Ports, Polls(l, p),
         pc[l] \in {"forward", "store"} => portid(l) # p,
         pc'[l] \in {"forward", "store"} => portid(l)' # p,
         rx'[p] = rx[p],
         tx_buffer'[dst[p]] = tx_buffer[dst[p]], wire'[dst[p]] = wire[dst[p]],
         tx'[dst[p]] = tx[dst[p]], dropped'[dst[p]] = dropped[dst[p]]
  PROVE  Kept(l, p)'
<1>1. Kept(l, p)
  BY DEF LoopInv
<1>2. InHand(l, p) = 0 /\ InHand(l, p)' = 0
  BY DEF InHand
<1> QED BY <1>1, <1>2 DEF Kept

-----------------------------------------------------------------------------
\* A step of lcore l that moves no packet: what it must leave to the loop.
LEMMA NothingMoves ==
  ASSUME LoopInv, RoutesInv, Launched,
         NEW l \in Enabled, pc[l] \in {"out", "top", "flush", "rx"},
         NEW to \in {"top", "flush", "rx", "done"}, Goto(l, to),
         i' = i \/ From_0(l), to \in {"flush", "rx"} => From_0(l),
         UNCHANGED <<vars, force_quit, burst, len, tx_buffer, wire, statistics>>
  PROVE  LoopInv'
<1>1. LoopTypeOK /\ UNCHANGED <<rx, tx, dropped, dst, rx_port_list>>
  BY DEF LoopInv, statistics, vars, pairing, queues
<1>2. /\ pc \in [Enabled -> {"out", "top", "flush", "rx", "forward", "store", "done"}]
      /\ i \in [Enabled -> 0 .. MAX_RX_QUEUE_PER_LCORE]
  BY <1>1 DEF LoopTypeOK
<1>3. /\ pc'[l] = to
      /\ \A m \in Enabled \ {l} : pc'[m] = pc[m] /\ i'[m] = i[m]
      /\ to \in {"flush", "rx"} => i'[l] = 0
  BY <1>2 DEF Goto, From_0
<1>4. LoopTypeOK'
  <2>1. TypeOK'
    BY <1>1 DEF vars, pairing, queues, LoopTypeOK, TypeOK
  <2>2. pc' \in [Enabled -> {"out", "top", "flush", "rx", "forward", "store", "done"}]
    BY <1>2 DEF Goto
  <2>3. i' \in [Enabled -> 0 .. MAX_RX_QUEUE_PER_LCORE]
    BY <1>2 DEF From_0, MAX_RX_QUEUE_PER_LCORE
  <2> QED BY <1>1, <2>1, <2>2, <2>3 DEF LoopTypeOK
<1>5. Len(rx_port_list[l]) \in Nat
  BY <1>1, LoopTyped
<1>6. InLoop(l)'
  BY <1>1, <1>3, <1>5 DEF InLoop
<1>7. ASSUME NEW p \in Ports, Polls(l, p) PROVE Kept(l, p)'
  BY <1>1, <1>3, <1>7, OtherPort
<1>8. \A d \in Ports : Len(tx_buffer'[d]) < MAX_PKT_BURST
  BY DEF LoopInv
<1> QED BY <1>1, <1>3, <1>4, <1>6, <1>7, <1>8, OnlyOne

\* The step that launches an lcore.
LEMMA LoopLaunch ==
  ASSUME LoopInv, RoutesInv, NEW l \in Enabled, launch(l) PROVE LoopInv'
BY NothingMoves DEF launch, Launched

\* An lcore that runs has been launched.
LEMMA RunsLaunched ==
  ASSUME LoopInv, NEW l \in Enabled, pc[l] # "out" PROVE Launched
BY DEF LoopInv, Quiet

\* The top of the loop.
LEMMA LoopTop ==
  ASSUME LoopInv, RoutesInv, NEW l \in Enabled, leave(l) \/ drain(l) \/ no_drain(l)
  PROVE  LoopInv'
<1>1. Launched
  BY RunsLaunched DEF leave, drain, no_drain
<1>2. CASE leave(l)
  BY <1>1, <1>2, NothingMoves DEF leave
<1>3. CASE drain(l)
  BY <1>1, <1>3, NothingMoves DEF drain
<1>4. CASE no_drain(l)
  BY <1>1, <1>4, NothingMoves DEF no_drain
<1> QED BY <1>2, <1>3, <1>4

\* A port is drained, or all have been.
LEMMA LoopFlush ==
  ASSUME LoopInv, RoutesInv, NEW l \in Enabled, flush(l) PROVE LoopInv'
<1>1. pc[l] = "flush" /\ Launched
  BY RunsLaunched DEF flush
<1>2. CASE ~More(l)
  <2>1. /\ Goto(l, "rx") /\ From_0(l)
        /\ UNCHANGED <<vars, force_quit, burst, len, tx_buffer, wire, statistics>>
    BY <1>2 DEF flush, statistics
  <2> QED BY <1>1, <2>1, NothingMoves
<1>3. CASE More(l)
  <2>port. PICK p : p = portid(l)
    OBVIOUS
  <2>dest. PICK d : d = dst[p]
    OBVIOUS
  <2>1. /\ Flush(d, tx_buffer[d]) /\ Next_i(l)
        /\ UNCHANGED <<vars, force_quit, burst, len, rx, pc>>
    BY <1>3, <2>port, <2>dest DEF flush
  <2>2. UNCHANGED <<phase, dst, rx_port_list>>
    BY <2>1 DEF vars, pairing, queues
  <2>3. LoopTypeOK
    BY DEF LoopInv
  <2>4. /\ Polls(l, p) /\ p \in Ports /\ d \in Ports /\ d \in SendsTo(l) /\ dst[d] = p
        /\ i[l] + 1 \in 1 .. Len(rx_port_list[l])
    BY <1>1, <1>3, <2>port, <2>dest, <2>3, TurnPolls, PolledPort
  <2>5. InHand(l, p) = 0 /\ InHand(l, p)' = 0
    BY <1>1, <2>1 DEF InHand
  <2>6. Kept(l, p)
    BY <1>1, <2>4 DEF LoopInv
  <2>7. tx_buffer[d] \in Seq(Packets) /\ Len(tx_buffer[d]) \in Nat
    BY <2>3, <2>4, LoopTyped
  <2>8. Line(wire[d] \o tx_buffer[d], p, rx[p] - 0)
    BY <2>dest, <2>5, <2>6 DEF Kept
  <2>9. /\ tx_buffer' \in [Ports -> Seq(Packets)]
        /\ wire' \in [Ports -> Seq(Packets)]
        /\ tx' \in [Ports -> Nat]
        /\ dropped' \in [Ports -> Nat]
        /\ \A q \in Ports \ {d} : /\ tx_buffer'[q] = tx_buffer[q]
                                  /\ wire'[q] = wire[q]
                                  /\ tx'[q] = tx[q]
                                  /\ dropped'[q] = dropped[q]
        /\ tx_buffer'[d] = <<>>
        /\ tx'[d] + dropped'[d] = tx[d] + dropped[d] + Len(tx_buffer[d])
        /\ Line(wire'[d] \o tx_buffer'[d], p, rx[p] - 0)
    BY <2>1, <2>3, <2>4, <2>7, <2>8, FlushLine
  <2>10. /\ i' \in [Enabled -> 0 .. MAX_RX_QUEUE_PER_LCORE]
         /\ i'[l] <= Len(rx_port_list[l])
         /\ \A m \in Enabled \ {l} : i'[m] = i[m]
    BY <1>1, <2>1, <2>3, <2>4, NextTurn
  <2>11. LoopTypeOK'
    <3>1. TypeOK'
      BY <2>1, <2>3 DEF vars, pairing, queues, LoopTypeOK, TypeOK
    <3> QED BY <2>1, <2>3, <2>9, <2>10, <3>1 DEF LoopTypeOK
  <2>12. InLoop(l)'
    BY <1>1, <2>1, <2>2, <2>10 DEF InLoop
  <2>13. Kept(l, p)'
    <3>1. dst'[p] = d
      BY <2>dest, <2>2
    <3>2. rx[p] = tx[d] + dropped[d] + Len(tx_buffer[d]) + 0
      BY <2>dest, <2>5, <2>6 DEF Kept
    <3>3. rx'[p] = tx'[d] + dropped'[d] + Len(tx_buffer'[d]) + 0
      <4>1. Len(tx_buffer'[d]) = 0
        BY <2>9
      <4>2. tx'[d] \in Nat /\ dropped'[d] \in Nat /\ tx[d] \in Nat /\ dropped[d] \in Nat
        BY <2>3, <2>4, <2>9, LoopTyped
      <4> QED BY <2>1, <2>7, <2>9, <3>2, <4>1, <4>2
    <3> QED BY <2>1, <2>5, <2>9, <3>1, <3>3 DEF Kept
  <2>14. ASSUME NEW q \in Ports, Polls(l, q) PROVE Kept(l, q)'
    <3>1. CASE q = p
      BY <2>13, <3>1
    <3>2. CASE q # p
      <4>1. dst[q] \in Ports /\ dst[q] # d
        BY <1>1, <2>3, <2>4, <2>14, <3>2, PolledPort
      <4> QED BY <1>1, <2>1, <2>2, <2>9, <2>14, <4>1, OtherPort
    <3> QED BY <3>1, <3>2
  <2>15. \A g \in Ports : Len(tx_buffer'[g]) < MAX_PKT_BURST
    <3>1. \A g \in Ports : Len(tx_buffer[g]) < MAX_PKT_BURST
      BY DEF LoopInv
    <3>2. Len(tx_buffer'[d]) = 0
      BY <2>9
    <3>3. 0 < MAX_PKT_BURST
      BY BurstAssumption
    <3>4. \A g \in Ports \ {d} : tx_buffer'[g] = tx_buffer[g]
      BY <2>9
    <3> QED BY <3>1, <3>2, <3>3, <3>4
  <2> QED BY <1>1, <2>1, <2>4, <2>9, <2>10, <2>11, <2>12, <2>14, <2>15, OnlyOne
<1> QED BY <1>2, <1>3

\* A burst is received from a port, or the turn of all the ports is over.
LEMMA LoopReceive ==
  ASSUME LoopInv, RoutesInv, NEW l \in Enabled, receive(l) PROVE LoopInv'
<1>1. pc[l] = "rx" /\ Launched
  BY RunsLaunched DEF receive
<1>2. CASE ~More(l)
  <2>1. /\ Goto(l, "top")
        /\ UNCHANGED <<vars, force_quit, i, burst, len, tx_buffer, wire, statistics>>
    BY <1>2 DEF receive, statistics
  <2> QED BY <1>1, <2>1, NothingMoves
<1>3. CASE More(l)
  <2>1. PICK p : p = portid(l)
    OBVIOUS
  <2>2. PICK n \in 0 .. MAX_PKT_BURST :
          /\ rx[p] + n <= MaxRx
          /\ burst' = [burst EXCEPT ![l] = [k \in 1 .. n |-> <<p, rx[p] + k>>]]
          /\ rx' = [rx EXCEPT ![p] = @ + n]
    BY <1>3, <2>1 DEF receive
  <2>3. Goto(l, "forward") /\ UNCHANGED <<vars, force_quit, i, len, tx_buffer, wire, tx, dropped>>
    BY <1>3 DEF receive
  <2>4. UNCHANGED <<phase, dst, rx_port_list>>
    BY <2>3 DEF vars, pairing, queues
  <2>5. LoopTypeOK
    BY DEF LoopInv
  <2>6. Polls(l, p) /\ p \in Ports /\ dst[p] \in Ports
    BY <1>1, <1>3, <2>1, <2>5, TurnPolls, PolledPort
  <2>7. n \in Nat /\ rx[p] \in Nat /\ MaxRx \in Nat
    BY <2>5, <2>6, LoopTyped
  <2> DEFINE b == [k \in 1 .. n |-> <<p, rx[p] + k>>]
  <2>8. b \in Seq(Packets) /\ Len(b) = n /\ \A k \in 1 .. n : b[k] = <<p, rx[p] + k>>
    <3>1. \A k \in 1 .. n : <<p, rx[p] + k>> \in Packets
      BY <2>2, <2>6, <2>7 DEF Packets
    <3>2. b \in [1 .. n -> Packets]
      BY <3>1
    <3>3. b \in Seq(Packets)
      BY <2>7, <3>2, IsASeq
    <3> QED BY <2>7, <3>2, <3>3
  <2> HIDE DEF b
  <2>9. /\ burst' = [burst EXCEPT ![l] = b]
        /\ burst'[l] = b
        /\ \A m \in Enabled \ {l} : burst'[m] = burst[m]
        /\ burst' \in [Enabled -> Seq(Packets)]
    BY <2>2, <2>5, <2>8, LoopTyped DEF b
  <2>10. /\ rx' \in [Ports -> 0 .. MaxRx]
         /\ rx'[p] = rx[p] + n
         /\ \A q \in Ports \ {p} : rx'[q] = rx[q]
    <3>1. rx \in [Ports -> 0 .. MaxRx]
      BY <2>5 DEF LoopTypeOK
    <3>2. rx[p] + n \in 0 .. MaxRx
      BY <2>2, <2>7
    <3> QED BY <2>2, <2>6, <3>1, <3>2
  <2>11. /\ pc' \in [Enabled -> {"out", "top", "flush", "rx", "forward", "store", "done"}]
         /\ pc'[l] = "forward"
         /\ \A m \in Enabled \ {l} : pc'[m] = pc[m]
    BY <2>3, <2>5, LoopTyped DEF Goto
  <2>12. LoopTypeOK'
    <3>1. TypeOK'
      BY <2>3, <2>5 DEF vars, pairing, queues, LoopTypeOK, TypeOK
    <3> QED BY <2>3, <2>5, <2>9, <2>10, <2>11, <3>1 DEF LoopTypeOK
  <2>13. portid(l)' = p /\ More(l)'
    BY <1>3, <2>1, <2>3, <2>4 DEF portid, More
  <2>14. InLoop(l)'
    <3>1. Len(b) <= rx'[p]
      BY <2>7, <2>8, <2>10
    <3>2. \A k \in 1 .. Len(b) : b[k] = <<p, rx'[p] - Len(b) + k>>
      <4>1. \A k \in 1 .. n : rx'[p] - n + k = rx[p] + k
        BY <2>7, <2>10
      <4> QED BY <2>8, <4>1
    <3> QED BY <2>9, <2>11, <2>13, <3>1, <3>2 DEF InLoop
  <2>15. Kept(l, p)'
    <3>1. InHand(l, p) = 0
      BY <1>1 DEF InHand
    <3>2. InHand(l, p)' = n
      BY <2>8, <2>9, <2>11, <2>13 DEF InHand
    <3>3. Kept(l, p)
      BY <1>1, <2>6 DEF LoopInv
    <3>4. rx[p] - 0 = rx'[p] - n
      BY <2>7, <2>10
    <3>5. Line(wire[dst[p]] \o tx_buffer[dst[p]], p, rx'[p] - n)
      BY <3>1, <3>3, <3>4 DEF Kept
    <3>6. /\ tx[dst[p]] \in Nat /\ dropped[dst[p]] \in Nat
          /\ Len(tx_buffer[dst[p]]) \in Nat
      BY <2>5, <2>6, LoopTyped
    <3>7. rx[p] = tx[dst[p]] + dropped[dst[p]] + Len(tx_buffer[dst[p]]) + 0
      BY <3>1, <3>3 DEF Kept
    <3>8. rx'[p] = tx[dst[p]] + dropped[dst[p]] + Len(tx_buffer[dst[p]]) + n
      BY <2>7, <2>10, <3>6, <3>7
    <3> QED BY <2>3, <2>4, <3>2, <3>5, <3>8 DEF Kept
  <2>16. ASSUME NEW q \in Ports, Polls(l, q) PROVE Kept(l, q)'
    <3>1. CASE q = p
      BY <2>15, <3>1
    <3>2. CASE q # p
      BY <1>1, <2>3, <2>4, <2>10, <2>13, <2>16, <3>2, OtherPort
    <3> QED BY <3>1, <3>2
  <2>17. \A g \in Ports : Len(tx_buffer'[g]) < MAX_PKT_BURST
    BY <2>3 DEF LoopInv
  <2> QED BY <1>1, <2>3, <2>6, <2>9, <2>10, <2>11, <2>12, <2>14, <2>16, <2>17, OnlyOne
<1> QED BY <1>2, <1>3

\* The length of the buffer is read, or the burst is done.
LEMMA LoopForward ==
  ASSUME LoopInv, RoutesInv, NEW l \in Enabled, forward(l) PROVE LoopInv'
<1>1. /\ pc[l] = "forward" /\ Launched
      /\ UNCHANGED <<vars, force_quit, burst, tx_buffer, wire, rx, tx, dropped>>
  BY RunsLaunched DEF forward, statistics
<1>2. UNCHANGED <<phase, dst, rx_port_list>>
  BY <1>1 DEF vars, pairing, queues
<1>3. LoopTypeOK /\ InLoop(l)
  BY <1>1 DEF LoopInv
<1>4. PICK p : p = portid(l)
  OBVIOUS
<1>5. /\ More(l) /\ Polls(l, p) /\ p \in Ports /\ dst[p] \in Ports
      /\ i[l] + 1 \in 1 .. Len(rx_port_list[l])
  BY <1>1, <1>3, <1>4, TurnPolls, PolledPort DEF InLoop
<1>6. /\ Len(tx_buffer[dst[p]]) \in Nat /\ Len(tx_buffer[dst[p]]) < MAX_PKT_BURST
      /\ MAX_PKT_BURST \in Nat
  BY <1>3, <1>5, LoopTyped DEF LoopInv
<1>7. TypeOK'
  BY <1>1, <1>3 DEF vars, pairing, queues, LoopTypeOK, TypeOK
<1>8. \A g \in Ports : Len(tx_buffer'[g]) < MAX_PKT_BURST
  BY <1>1 DEF LoopInv
<1>9. Kept(l, p)
  BY <1>1, <1>5 DEF LoopInv
<1>10. CASE burst[l] # <<>>
  <2>1. /\ len' = [len EXCEPT ![l] = Len(tx_buffer[dst[p]])]
        /\ Goto(l, "store") /\ UNCHANGED i
    BY <1>4, <1>10 DEF forward
  <2>2. /\ pc' \in [Enabled -> {"out", "top", "flush", "rx", "forward", "store", "done"}]
        /\ pc'[l] = "store"
        /\ \A m \in Enabled \ {l} : pc'[m] = pc[m]
    BY <1>3, <2>1, LoopTyped DEF Goto
  <2>3. /\ len' \in [Enabled -> 0 .. MAX_PKT_BURST - 1]
        /\ len'[l] = Len(tx_buffer[dst[p]])
        /\ \A m \in Enabled \ {l} : len'[m] = len[m]
    <3>1. len \in [Enabled -> 0 .. MAX_PKT_BURST - 1]
      BY <1>3 DEF LoopTypeOK
    <3>2. Len(tx_buffer[dst[p]]) \in 0 .. MAX_PKT_BURST - 1
      BY <1>6
    <3> QED BY <2>1, <3>1, <3>2
  <2>4. LoopTypeOK'
    BY <1>1, <1>3, <1>7, <2>1, <2>2, <2>3 DEF LoopTypeOK
  <2>5. portid(l)' = p /\ More(l)'
    BY <1>2, <1>4, <1>5, <2>1 DEF portid, More
  <2>6. InLoop(l)'
    BY <1>1, <1>2, <1>3, <1>4, <1>10, <2>2, <2>3, <2>5 DEF InLoop
  <2>7. ASSUME NEW q \in Ports, Polls(l, q) PROVE Kept(l, q)'
    <3>1. CASE q = p
      <4>1. InHand(l, p) = Len(burst[l]) /\ InHand(l, p)' = Len(burst[l])
        BY <1>1, <1>4, <2>2, <2>5 DEF InHand
      <4> QED BY <1>1, <1>2, <1>9, <3>1, <4>1 DEF Kept
    <3>2. CASE q # p
      BY <1>1, <1>2, <1>4, <2>5, <2>7, <3>2, OtherPort
    <3> QED BY <3>1, <3>2
  <2> QED BY <1>1, <1>8, <2>1, <2>2, <2>3, <2>4, <2>6, <2>7, OnlyOne
<1>11. CASE burst[l] = <<>>
  <2>1. Next_i(l) /\ Goto(l, "rx") /\ UNCHANGED len
    BY <1>11 DEF forward
  <2>2. /\ pc' \in [Enabled -> {"out", "top", "flush", "rx", "forward", "store", "done"}]
        /\ pc'[l] = "rx"
        /\ \A m \in Enabled \ {l} : pc'[m] = pc[m]
    BY <1>3, <2>1, LoopTyped DEF Goto
  <2>3. /\ i' \in [Enabled -> 0 .. MAX_RX_QUEUE_PER_LCORE]
        /\ i'[l] <= Len(rx_port_list[l])
        /\ \A m \in Enabled \ {l} : i'[m] = i[m]
    BY <1>1, <1>3, <1>5, <2>1, NextTurn
  <2>4. LoopTypeOK'
    BY <1>1, <1>3, <1>7, <2>1, <2>2, <2>3 DEF LoopTypeOK
  <2>5. InLoop(l)'
    BY <1>2, <2>2, <2>3 DEF InLoop
  <2>6. ASSUME NEW q \in Ports, Polls(l, q) PROVE Kept(l, q)'
    <3>1. InHand(l, q) = 0 /\ InHand(l, q)' = 0
      <4>1. Len(burst[l]) = 0
        BY <1>11
      <4> QED BY <2>2, <4>1 DEF InHand
    <3>2. Kept(l, q)
      BY <1>1, <2>6 DEF LoopInv
    <3> QED BY <1>1, <1>2, <3>1, <3>2 DEF Kept
  <2> QED BY <1>1, <1>8, <2>1, <2>2, <2>3, <2>4, <2>5, <2>6, OnlyOne
<1> QED BY <1>10, <1>11

\* The packet is stored behind the others, a full buffer is sent at once.
LEMMA LoopStore ==
  ASSUME LoopInv, RoutesInv, NEW l \in Enabled, store(l) PROVE LoopInv'
<1>1. /\ pc[l] = "store" /\ Launched
      /\ UNCHANGED <<vars, force_quit, i, len, rx>>
  BY RunsLaunched DEF store
<1>2. UNCHANGED <<phase, dst, rx_port_list>>
  BY <1>1 DEF vars, pairing, queues
<1>3. LoopTypeOK /\ InLoop(l)
  BY <1>1 DEF LoopInv
<1>4. PICK p : p = portid(l)
  OBVIOUS
<1>5. PICK d : d = dst[p]
  OBVIOUS
<1>6. /\ More(l) /\ Polls(l, p) /\ p \in Ports /\ d \in Ports
      /\ d \in SendsTo(l)
  BY <1>1, <1>3, <1>4, <1>5, TurnPolls, PolledPort DEF InLoop
<1>7. PICK s : s = tx_buffer[d]
  OBVIOUS
<1>8. PICK b : b = burst[l]
  OBVIOUS
<1>9. PICK c : c = rx[p] - Len(b)
  OBVIOUS
<1>10. /\ s \in Seq(Packets) /\ Len(s) \in Nat
       /\ wire[d] \in Seq(Packets)
       /\ b \in Seq(Packets) /\ b # <<>> /\ Len(b) \in Nat \ {0}
       /\ rx[p] \in Nat /\ tx[d] \in Nat /\ dropped[d] \in Nat
       /\ MAX_PKT_BURST \in Nat
  <2>1. b # <<>> /\ b \in Seq(Packets)
    BY <1>1, <1>3, <1>8, LoopTyped DEF InLoop
  <2>2. Len(b) \in Nat /\ Len(b) # 0
    BY <2>1
  <2>3. s \in Seq(Packets) /\ wire[d] \in Seq(Packets)
    BY <1>3, <1>6, <1>7, LoopTyped
  <2>4. Len(s) \in Nat
    BY <2>3
  <2>5. rx[p] \in Nat /\ tx[d] \in Nat /\ dropped[d] \in Nat /\ MAX_PKT_BURST \in Nat
    BY <1>3, <1>6, LoopTyped
  <2> QED BY <2>1, <2>2, <2>3, <2>4, <2>5
<1>11. /\ c \in Nat
       /\ len[l] = Len(s)
       /\ \A k \in 1 .. Len(b) : b[k] = <<p, c + k>>
  <2>1. Len(b) <= rx[p] /\ \A k \in 1 .. Len(b) : b[k] = <<p, rx[p] - Len(b) + k>>
    BY <1>1, <1>3, <1>4, <1>8 DEF InLoop
  <2>2. len[l] = Len(s)
    BY <1>1, <1>3, <1>4, <1>5, <1>7 DEF InLoop
  <2> QED BY <1>9, <1>10, <2>1, <2>2
<1>12. PICK m : m = <<p, c + 1>>
  OBVIOUS
<1>13. Head(b) = m /\ m \in Packets
  <2>1. 1 \in 1 .. Len(b)
    BY <1>10
  <2>2. Head(b) = b[1] /\ b[1] \in Packets
    BY <1>10, <2>1
  <2> QED BY <1>11, <1>12, <2>1, <2>2
<1>14. PICK s2 : s2 = Append(s, m)
  OBVIOUS
<1>15. /\ s2 \in Seq(Packets) /\ Len(s2) = Len(s) + 1
       /\ Line(wire[d] \o s2, p, c + 1)
  <2>1. Kept(l, p) /\ InHand(l, p) = Len(b)
    BY <1>1, <1>4, <1>6, <1>8 DEF LoopInv, InHand
  <2>2. Line(wire[d] \o s, p, c)
    BY <1>5, <1>7, <1>9, <2>1 DEF Kept
  <2>3. s2 \in Seq(Packets) /\ Line(wire[d] \o s2, p, c + 1)
    BY <1>6, <1>10, <1>11, <1>12, <1>13, <1>14, <2>2, LineStore
  <2>4. Len(s2) = Len(s) + 1
    BY <1>10, <1>13, <1>14
  <2> QED BY <2>3, <2>4
<1>16. /\ \/ /\ Len(s2) < MAX_PKT_BURST
             /\ tx_buffer' = [tx_buffer EXCEPT ![d] = s2]
             /\ UNCHANGED <<wire, tx, dropped>>
          \/ Flush(d, s2)
       /\ burst' = [burst EXCEPT ![l] = Tail(@)]
       /\ Goto(l, "forward")
  <2>1. Stored(tx_buffer[d], len[l], Head(burst[l])) = s2
    BY <1>7, <1>8, <1>10, <1>11, <1>13, <1>14, StoredIsAppend
  <2> QED BY <1>4, <1>5, <2>1 DEF store
<1>17. /\ tx_buffer' \in [Ports -> Seq(Packets)]
       /\ wire' \in [Ports -> Seq(Packets)]
       /\ tx' \in [Ports -> Nat]
       /\ dropped' \in [Ports -> Nat]
       /\ \A q \in Ports \ {d} : /\ tx_buffer'[q] = tx_buffer[q]
                                 /\ wire'[q] = wire[q]
                                 /\ tx'[q] = tx[q]
                                 /\ dropped'[q] = dropped[q]
       /\ Len(tx_buffer'[d]) < MAX_PKT_BURST
       /\ tx'[d] + dropped'[d] + Len(tx_buffer'[d]) = tx[d] + dropped[d] + Len(s2)
       /\ Line(wire'[d] \o tx_buffer'[d], p, c + 1)
  <2>1. /\ tx_buffer \in [Ports -> Seq(Packets)]
        /\ wire \in [Ports -> Seq(Packets)]
        /\ tx \in [Ports -> Nat]
        /\ dropped \in [Ports -> Nat]
    BY <1>3, LoopTyped
  <2>2. CASE /\ Len(s2) < MAX_PKT_BURST
             /\ tx_buffer' = [tx_buffer EXCEPT ![d] = s2]
             /\ UNCHANGED <<wire, tx, dropped>>
    <3>1. /\ tx_buffer' \in [Ports -> Seq(Packets)]
          /\ tx_buffer'[d] = s2
          /\ \A q \in Ports \ {d} : tx_buffer'[q] = tx_buffer[q]
      BY <1>6, <1>15, <2>1, <2>2
    <3> QED BY <1>15, <2>1, <2>2, <3>1
  <2>3. CASE Flush(d, s2)
    <3>1. /\ tx_buffer' \in [Ports -> Seq(Packets)]
          /\ wire' \in [Ports -> Seq(Packets)]
          /\ tx' \in [Ports -> Nat]
          /\ dropped' \in [Ports -> Nat]
          /\ \A q \in Ports \ {d} : /\ tx_buffer'[q] = tx_buffer[q]
                                    /\ wire'[q] = wire[q]
                                    /\ tx'[q] = tx[q]
                                    /\ dropped'[q] = dropped[q]
          /\ tx_buffer'[d] = <<>>
          /\ tx'[d] + dropped'[d] = tx[d] + dropped[d] + Len(s2)
          /\ Line(wire'[d] \o tx_buffer'[d], p, c + 1)
      BY <1>3, <1>6, <1>15, <2>3, FlushLine
    <3>2. Len(tx_buffer'[d]) = 0 /\ 0 < MAX_PKT_BURST
      BY <3>1, BurstAssumption
    <3>3. tx'[d] \in Nat /\ dropped'[d] \in Nat
      BY <1>6, <3>1
    <3>4. tx'[d] + dropped'[d] + Len(tx_buffer'[d]) = tx[d] + dropped[d] + Len(s2)
      BY <3>1, <3>2, <3>3
    <3> QED BY <3>1, <3>2, <3>4
  <2> QED BY <1>16, <2>2, <2>3
<1>18. /\ burst' \in [Enabled -> Seq(Packets)]
       /\ burst'[l] = Tail(b)
       /\ Tail(b) \in Seq(Packets)
       /\ Len(Tail(b)) = Len(b) - 1
       /\ \A k \in 1 .. Len(Tail(b)) : Tail(b)[k] = <<p, c + 1 + k>>
       /\ \A g \in Enabled \ {l} : burst'[g] = burst[g]
  <2>1. /\ Tail(b) \in Seq(Packets) /\ Len(Tail(b)) = Len(b) - 1
        /\ \A k \in 1 .. Len(b) - 1 : Tail(b)[k] = b[k + 1]
    BY <1>10
  <2>2. \A k \in 1 .. Len(b) - 1 : k + 1 \in 1 .. Len(b) /\ c + (k + 1) = c + 1 + k
    BY <1>10, <1>11
  <2>3. \A k \in 1 .. Len(Tail(b)) : Tail(b)[k] = <<p, c + 1 + k>>
    BY <1>11, <2>1, <2>2
  <2>4. burst \in [Enabled -> Seq(Packets)] /\ burst' = [burst EXCEPT ![l] = Tail(b)]
    BY <1>3, <1>8, <1>16, LoopTyped
  <2> QED BY <2>1, <2>3, <2>4
<1>19. /\ pc' \in [Enabled -> {"out", "top", "flush", "rx", "forward", "store", "done"}]
       /\ pc'[l] = "forward"
       /\ \A g \in Enabled \ {l} : pc'[g] = pc[g]
  BY <1>3, <1>16, LoopTyped DEF Goto
<1>20. LoopTypeOK'
  <2>1. TypeOK'
    BY <1>1, <1>3 DEF vars, pairing, queues, LoopTypeOK, TypeOK
  <2> QED BY <1>1, <1>3, <1>17, <1>18, <1>19, <2>1 DEF LoopTypeOK
<1>21. portid(l)' = p /\ More(l)'
  BY <1>1, <1>2, <1>4, <1>6 DEF portid, More
<1>22. rx[p] - Len(Tail(b)) = c + 1 /\ Len(Tail(b)) \in Nat /\ Len(Tail(b)) <= rx[p]
  BY <1>9, <1>10, <1>11, <1>18
<1>23. InLoop(l)'
  <2>1. \A k \in 1 .. Len(Tail(b)) : Tail(b)[k] = <<p, rx[p] - Len(Tail(b)) + k>>
    BY <1>18, <1>22
  <2> QED BY <1>1, <1>18, <1>19, <1>21, <1>22, <2>1 DEF InLoop
<1>24. Kept(l, p)'
  <2>1. InHand(l, p) = Len(b) /\ InHand(l, p)' = Len(Tail(b))
    BY <1>1, <1>4, <1>8, <1>18, <1>19, <1>21 DEF InHand
  <2>2. rx[p] = tx[d] + dropped[d] + Len(s) + Len(b)
    BY <1>1, <1>5, <1>6, <1>7, <2>1 DEF LoopInv, Kept
  <2>3. rx[p] = tx'[d] + dropped'[d] + Len(tx_buffer'[d]) + Len(Tail(b))
    <3>1. /\ Len(s2) = Len(s) + 1 /\ Len(Tail(b)) = Len(b) - 1
          /\ Len(b) \in Nat /\ Len(s) \in Nat /\ tx[d] \in Nat /\ dropped[d] \in Nat
      BY <1>10, <1>15, <1>18
    <3>2. PICK x \in Nat, y \in Nat, v \in Nat, w \in Nat :
            tx[d] = x /\ dropped[d] = y /\ Len(s) = v /\ Len(b) = w
      BY <3>1
    <3>3. rx[p] = x + y + (v + 1) + (w - 1)
      BY <2>2, <3>2
    <3> QED BY <1>17, <3>1, <3>2, <3>3
  <2>4. Line(wire'[d] \o tx_buffer'[d], p, rx[p] - Len(Tail(b)))
    BY <1>17, <1>22
  <2> QED BY <1>1, <1>2, <1>5, <2>1, <2>3, <2>4 DEF Kept
<1>25. ASSUME NEW q \in Ports, Polls(l, q) PROVE Kept(l, q)'
  <2>1. CASE q = p
    BY <1>24, <2>1
  <2>2. CASE q # p
    <3>1. dst[q] \in Ports /\ dst[dst[q]] = q /\ dst[d] = p
      BY <1>1, <1>3, <1>5, <1>6, <1>25, PolledPort
    <3>2. dst[q] # d
      BY <2>2, <3>1
    <3> QED BY <1>1, <1>2, <1>4, <1>17, <1>21, <1>25, <2>2, <3>1, <3>2, OtherPort
  <2> QED BY <2>1, <2>2
<1>26. \A g \in Ports : Len(tx_buffer'[g]) < MAX_PKT_BURST
  <2>1. \A g \in Ports : Len(tx_buffer[g]) < MAX_PKT_BURST
    BY DEF LoopInv
  <2>2. \A g \in Ports \ {d} : tx_buffer'[g] = tx_buffer[g]
    BY <1>17
  <2> QED BY <1>17, <2>1, <2>2
<1> QED BY <1>1, <1>6, <1>17, <1>18, <1>19, <1>20, <1>23, <1>25, <1>26, OnlyOne

\* A step of main that launches nothing, or launches every lcore.
LEMMA LoopStart ==
  ASSUME LoopInv, MapInv', start PROVE LoopInv'
<1>1. ~Launched /\ phase' # "closed"
  BY DEF start, Next, parse_args, check_port_pair, check_mask, map_pair, map_port,
     assign_port, skip_port, assigned, start_ports, Goes, Launched
<1>2. /\ UNCHANGED <<force_quit, pc, i, burst, len, tx_buffer, wire, rx, tx, dropped>>
      /\ Quiet /\ LoopTypeOK
  BY <1>1 DEF LoopInv, start, loop, lcore, statistics
<1>3. LoopTypeOK'
  BY <1>2 DEF MapInv, LoopTypeOK
<1>4. \A p \in Ports : Len(tx_buffer'[p]) < MAX_PKT_BURST
  BY <1>2 DEF LoopInv
<1>5. dst' \in [Ports -> Ports]
  BY DEF MapInv, TypeOK
<1>6. ASSUME NEW l \in Enabled
      PROVE  InLoop(l)' /\ \A p \in Ports : Kept(l, p)'
  <2>1. pc'[l] = "out"
    BY <1>2 DEF Quiet
  <2>2. InLoop(l)'
    BY <2>1 DEF InLoop
  <2>3. ASSUME NEW p \in Ports PROVE Kept(l, p)'
    <3>1. InHand(l, p)' = 0
      BY <2>1 DEF InHand
    <3>2. PICK d : d = dst'[p]
      OBVIOUS
    <3>3. d \in Ports
      BY <1>5, <3>2
    <3>4. /\ rx'[p] = 0 /\ tx'[d] = 0 /\ dropped'[d] = 0
          /\ tx_buffer'[d] = <<>> /\ wire'[d] = <<>>
      BY <1>2, <3>3 DEF Quiet
    <3>5. <<>> \o <<>> = <<>> /\ Len(<<>>) = 0
      OBVIOUS
    <3>6. Line(<<>>, p, 0 - 0)
      BY <3>5 DEF Line
    <3> QED BY <3>1, <3>2, <3>4, <3>5, <3>6 DEF Kept
  <2> QED BY <2>2, <2>3
<1>7. \A d \in Ports : wire'[d] = <<>> /\ tx_buffer'[d] = <<>>
  BY <1>2 DEF Quiet
<1>8. Quiet'
  BY <1>2 DEF Quiet
<1> QED BY <1>1, <1>3, <1>4, <1>6, <1>7, <1>8 DEF LoopInv

\* The signal, the end of the program and a stutter leave ports and lcores alone.
LEMMA LoopRest ==
  ASSUME LoopInv, MapInv', signal_handler \/ close_ports \/ UNCHANGED allvars
  PROVE  LoopInv'
<1>1. UNCHANGED <<pc, i, burst, len, tx_buffer, wire, rx, tx, dropped, dst, rx_port_list>>
  BY DEF signal_handler, close_ports, allvars, vars, loop, lcore, statistics, pairing, queues
<1>force. force_quit' = TRUE \/ force_quit' = force_quit
  BY DEF signal_handler, close_ports, allvars, loop
<1>phase. \/ phase' = phase
          \/ phase = "run" /\ phase' = "closed" /\ \A l \in Enabled : pc[l] = "done"
  <2>1. CASE signal_handler \/ UNCHANGED allvars
    BY <2>1 DEF signal_handler, allvars, vars
  <2>2. CASE close_ports
    BY <2>2 DEF close_ports, Goes
  <2> QED BY <2>1, <2>2
<1>closed. phase' = "closed" => \A l \in Enabled : pc'[l] = "done"
  BY <1>1, <1>phase DEF LoopInv
<1>2. Launched' <=> Launched
  BY <1>phase DEF Launched
<1>3. LoopTypeOK'
  <2>1. force_quit' \in BOOLEAN
    BY <1>force DEF LoopInv, LoopTypeOK
  <2> QED BY <1>1, <2>1 DEF LoopInv, MapInv, LoopTypeOK
<1>4. \A l \in Enabled : InLoop(l)' <=> InLoop(l)
  BY <1>1 DEF InLoop, More, portid
<1>5. \A l \in Enabled, p \in Ports :
        (Kept(l, p)' <=> Kept(l, p)) /\ (Polls(l, p)' <=> Polls(l, p))
  <2>1. \A l \in Enabled, p \in Ports : InHand(l, p)' = InHand(l, p)
    BY <1>1 DEF InHand, portid
  <2> QED BY <1>1, <2>1 DEF Kept, Polls
<1>6. \A d \in Ports : Idle(d)' <=> Idle(d)
  BY <1>1 DEF Idle, SendsTo
<1>7. Quiet' <=> Quiet
  BY <1>1 DEF Quiet
<1> QED BY <1>1, <1>closed, <1>2, <1>3, <1>4, <1>5, <1>6, <1>7 DEF LoopInv

\* Nothing is on the way when the program starts.
LEMMA LoopInit ==
  ASSUME MirrorInit, MapInv PROVE LoopInv
<1>1. ~Launched /\ phase # "closed" /\ Quiet
  BY DEF MirrorInit, Init, Launched, Quiet
<1>2. LoopTypeOK
  <2>1. MAX_PKT_BURST \in Nat \ {0} /\ MaxRx \in Nat
    BY BurstAssumption
  <2>2. <<>> \in Seq(Packets) /\ 0 \in 0 .. MAX_PKT_BURST - 1 /\ 0 \in 0 .. MaxRx
        /\ 0 \in 0 .. MAX_RX_QUEUE_PER_LCORE
    BY <2>1 DEF MAX_RX_QUEUE_PER_LCORE
  <2>3. burst \in [Enabled -> Seq(Packets)] /\ len \in [Enabled -> 0 .. MAX_PKT_BURST - 1]
        /\ i \in [Enabled -> 0 .. MAX_RX_QUEUE_PER_LCORE]
    BY <2>2 DEF MirrorInit
  <2>4. /\ tx_buffer \in [Ports -> Seq(Packets)] /\ wire \in [Ports -> Seq(Packets)]
        /\ rx \in [Ports -> 0 .. MaxRx] /\ tx \in [Ports -> Nat] /\ dropped \in [Ports -> Nat]
    BY <2>2 DEF MirrorInit
  <2> QED BY <2>3, <2>4 DEF MirrorInit, MapInv, LoopTypeOK
<1>3. \A p \in Ports : Len(tx_buffer[p]) < MAX_PKT_BURST
  <2>1. Len(<<>>) = 0 /\ 0 < MAX_PKT_BURST
    BY BurstAssumption
  <2> QED BY <1>1, <2>1 DEF Quiet
<1> QED BY <1>1, <1>2, <1>3 DEF LoopInv

\* Every step of the program preserves the invariant.
LEMMA LoopInductive == MirrorSpec => []LoopInv
<1>1. MirrorInit /\ MapInv => LoopInv
  BY LoopInit
<1>2. LoopInv /\ RoutesInv /\ MapInv' /\ [MirrorNext]_allvars => LoopInv'
  <2> SUFFICES ASSUME LoopInv, RoutesInv, MapInv', [MirrorNext]_allvars PROVE LoopInv'
    OBVIOUS
  <2>1. CASE start
    BY <2>1, LoopStart
  <2>2. ASSUME NEW l \in Enabled, run(l) PROVE LoopInv'
    BY <2>2, LoopLaunch, LoopTop, LoopFlush, LoopReceive, LoopForward, LoopStore DEF run
  <2>3. CASE signal_handler \/ close_ports \/ UNCHANGED allvars
    BY <2>3, LoopRest
  <2> QED BY <2>1, <2>2, <2>3 DEF MirrorNext
<1> QED BY <1>1, <1>2, MapStays, RoutesInductive, PTL DEF MirrorSpec

\* A burst is what one receive returned, or a rest of it.
BurstsFit == \A l \in Enabled : Len(burst[l]) <= MAX_PKT_BURST

LEMMA BurstsFitInductive == MirrorSpec => []BurstsFit
<1>1. MirrorInit => BurstsFit
  BY BurstAssumption DEF MirrorInit, BurstsFit
<1>2. LoopInv /\ BurstsFit /\ [MirrorNext]_allvars => BurstsFit'
  <2> SUFFICES ASSUME LoopInv, BurstsFit, [MirrorNext]_allvars PROVE BurstsFit'
    OBVIOUS
  <2>1. /\ burst \in [Enabled -> Seq(Packets)]
        /\ MAX_PKT_BURST \in Nat
    BY LoopTyped DEF LoopInv
  <2>2. CASE UNCHANGED burst
    BY <2>2 DEF BurstsFit
  <2>3. ASSUME NEW l \in Enabled, receive(l), More(l) PROVE BurstsFit'
    <3>1. PICK n \in 0 .. MAX_PKT_BURST :
            burst' = [burst EXCEPT ![l] = [k \in 1 .. n |-> <<portid(l), rx[portid(l)] + k>>]]
      BY <2>3 DEF receive
    <3>2. n \in Nat /\ n <= MAX_PKT_BURST
      BY <2>1
    <3>3. Len([k \in 1 .. n |-> <<portid(l), rx[portid(l)] + k>>]) = n
      BY <3>2
    <3> QED BY <2>1, <3>1, <3>2, <3>3 DEF BurstsFit
  <2>4. ASSUME NEW l \in Enabled, store(l) PROVE BurstsFit'
    <3>1. pc[l] = "store" /\ burst' = [burst EXCEPT ![l] = Tail(burst[l])]
      BY <2>4 DEF store
    <3>2. Launched
      BY <3>1, RunsLaunched
    <3>3. burst[l] # <<>> /\ burst[l] \in Seq(Packets)
      BY <2>1, <3>1, <3>2 DEF LoopInv, InLoop
    <3>4. Len(Tail(burst[l])) = Len(burst[l]) - 1 /\ Len(burst[l]) \in Nat
      BY <3>3
    <3>5. Len(Tail(burst[l])) <= MAX_PKT_BURST
      BY <2>1, <3>4 DEF BurstsFit
    <3> QED BY <2>1, <3>1, <3>5 DEF BurstsFit
  <2> QED
    BY <2>2, <2>3, <2>4
    DEF MirrorNext, run, start, launch, leave, drain, no_drain, flush, receive, forward,
        signal_handler, close_ports, loop, lcore, allvars
<1> QED BY <1>1, <1>2, LoopInductive, PTL DEF MirrorSpec

(***************************************************************************)
(* The state of the lcores has its type: an lcore indexes no list past its *)
(* end, no burst is longer than the array it is received in, and no        *)
(* transmit buffer is ever longer than its array, though its length is     *)
(* read before the packet is stored.                                       *)
(***************************************************************************)
THEOREM MirrorTyped == MirrorSpec => []MirrorTypeOK
<1>1. LoopInv /\ BurstsFit => MirrorTypeOK
  BY DEF LoopInv, BurstsFit, MirrorTypeOK
<1> QED BY <1>1, LoopInductive, BurstsFitInductive, PTL

(***************************************************************************)
(* What a port has received, its mirror has sent, dropped or still holds,  *)
(* for any number of lcores, ports and packets, any size of the buffers    *)
(* and any map of the ports.                                               *)
(***************************************************************************)
THEOREM CountersConserved == MirrorSpec => []Conserved
<1>1. LoopInv /\ RoutesInv => Conserved
  <2> SUFFICES ASSUME LoopInv, RoutesInv, Launched, NEW l \in Enabled,
                      NEW k \in 1 .. Len(rx_port_list[l]),
                      NEW p, p = rx_port_list[l][k]
               PROVE  rx[p] = tx[dst[p]] + dropped[dst[p]] + Len(tx_buffer[dst[p]])
                                + InHand(l, p)
    BY DEF Conserved, Launched
  <2>1. Polls(l, p)
    BY DEF Polls
  <2>2. p \in Ports
    BY <2>1, PolledPort DEF LoopInv
  <2>3. Kept(l, p)
    BY <2>1, <2>2 DEF LoopInv
  <2> QED BY <2>3 DEF Kept
<1> QED BY <1>1, LoopInductive, RoutesInductive, PTL

(***************************************************************************)
(* A port sends the packets of its mirror port only, none of them twice    *)
(* and in the order they arrived in, whatever the lcores do between.       *)
(***************************************************************************)
THEOREM SentInOrder == MirrorSpec => []InOrder
<1>1. LoopInv /\ RoutesInv => InOrder
  <2> SUFFICES ASSUME LoopInv, RoutesInv, NEW d \in Ports,
                      NEW s, s = wire[d] \o tx_buffer[d]
               PROVE  /\ \A k \in 1 .. Len(s) : s[k][1] = dst[d]
                      /\ \A j, k \in 1 .. Len(s) : j < k => s[j][2] < s[k][2]
    BY DEF InOrder
  <2>1. CASE ~Launched \/ Idle(d)
    <3>1. wire[d] = <<>> /\ tx_buffer[d] = <<>>
      BY <2>1 DEF LoopInv, Quiet
    <3>2. Len(s) = 0
      BY <3>1
    <3> QED BY <3>2
  <2>2. CASE Launched /\ ~Idle(d)
    <3>1. PICK l \in Enabled : d \in SendsTo(l)
      BY <2>2 DEF Idle
    <3>2. PICK k \in 1 .. Len(rx_port_list[l]) : d = dst[rx_port_list[l][k]]
      BY <3>1 DEF SendsTo
    <3>3. PICK p : p = rx_port_list[l][k]
      OBVIOUS
    <3>4. Polls(l, p)
      BY <3>3 DEF Polls
    <3>5. p \in Ports /\ dst[d] = p
      BY <2>2, <3>2, <3>3, <3>4, PolledPort DEF LoopInv
    <3>6. Kept(l, p)
      BY <2>2, <3>4, <3>5 DEF LoopInv
    <3>7. Line(s, p, rx[p] - InHand(l, p))
      BY <3>2, <3>3, <3>6 DEF Kept
    <3> QED BY <3>5, <3>7 DEF Line
  <2> QED BY <2>1, <2>2
<1> QED BY <1>1, LoopInductive, RoutesInductive, PTL

=============================================================================
