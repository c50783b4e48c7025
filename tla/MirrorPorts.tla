----------------------------- MODULE MirrorPorts -----------------------------
(***************************************************************************)
(* The start of the DPDK mirror (dpdk/basic_mirror/main.c, main up to the  *)
(* launch of the lcores): the command line becomes a set of ports, a port  *)
(* each port forwards to, and a list of ports each lcore polls.            *)
(*                                                                         *)
(* The port mask is the set of the ports whose bit is set; the loops over  *)
(* pairs and ports take one step per iteration.                            *)
(***************************************************************************)
EXTENDS Integers, Sequences

CONSTANTS
  EthPorts,    \* RTE_MAX_ETHPORTS
  NbPorts,     \* the devices present: ports 0 to NbPorts - 1
  MaxLcore,    \* RTE_MAX_LCORE
  Enabled,     \* the lcores of the EAL core mask
  Masks,       \* values of -p, as sets of ports
  PortMaps,    \* values of --portmap, as sequences of pairs
  Queues,      \* values of -q
  Periods      \* values of -T, in seconds

Ports == 0 .. EthPorts - 1
Lcores == 0 .. MaxLcore - 1
MAX_RX_QUEUE_PER_LCORE == 16
MAX_TIMER_PERIOD == 86400

ASSUME BoardAssumption ==
  /\ EthPorts \in Nat \ {0} /\ NbPorts \in Nat /\ MaxLcore \in Nat \ {0}
  /\ NbPorts <= EthPorts
  /\ Enabled \subseteq Lcores
ASSUME ArgsAssumption ==
  /\ Masks \subseteq SUBSET Ports
  /\ PortMaps \subseteq Seq(Nat \X Nat)
  /\ Queues \subseteq Nat
  /\ Periods \subseteq Nat

VARIABLES
  args,          \* the command line
  phase,         \* where main is, or why it exits
  mask,          \* l2fwd_enabled_port_mask
  index,         \* of the loop main is in
  config_mask,   \* port_pair_config_mask
  dst,           \* l2fwd_dst_ports
  last_port,
  odd,           \* nb_ports_in_mask % 2
  rx_lcore_id,
  rx_port_list   \* of each lcore

vars == <<args, phase, mask, index, config_mask, dst, last_port, odd,
          rx_lcore_id, rx_port_list>>
pairing == <<config_mask, dst, last_port, odd>>
queues == <<rx_lcore_id, rx_port_list>>

\* Without -p the mask stays empty; without --portmap there are no pairs.
Args == [masked : BOOLEAN, p : Masks \cup {{}}, q : Queues, T : Periods,
         mapped : BOOLEAN, pairs : PortMaps \cup {<<>>}]

Exits == {"bad mask", "bad queue", "bad period", "bad portmap", "no devices",
          "bad pair", "impossible mask", "not enough cores", "all disabled",
          "device error"}

TypeOK ==
  /\ args \in Args
  /\ phase \in {"args", "pairs", "mask", "map", "lcores", "start", "run",
                "closed"} \cup Exits
  /\ mask \subseteq Ports
  /\ index \in Nat
  /\ config_mask \subseteq Ports
  /\ dst \in [Ports -> Ports]
  /\ last_port \in Ports
  /\ odd \in {0, 1}
  /\ rx_lcore_id \in Lcores
  /\ rx_port_list \in [Lcores -> Seq(Ports)]

Init ==
  /\ args \in Args
  /\ ~args.masked => args.p = {}
  /\ ~args.mapped => args.pairs = <<>>
  /\ phase = "args"
  /\ mask = {}
  /\ index = 0
  /\ config_mask = {}
  /\ dst = [p \in Ports |-> 0]
  /\ last_port = 0
  /\ odd = 0
  /\ rx_lcore_id = 0
  /\ rx_port_list = [l \in Lcores |-> <<>>]

Members(pair) == {pair[1], pair[2]}

\* Go to a phase, its loop at the first iteration.
Goes(to) == phase' = to /\ index' = 0

-----------------------------------------------------------------------------
\* The parsers of the options: 0, or -1, is refused by l2fwd_parse_args.
parse_nqueue(n) == IF n >= MAX_RX_QUEUE_PER_LCORE THEN 0 ELSE n

parse_timer_period(n) == IF n >= MAX_TIMER_PERIOD THEN -1 ELSE n

parse_port_pair_config(pairs) ==
  IF \/ Len(pairs) > EthPorts \div 2
     \/ \E k \in DOMAIN pairs : \E p \in Members(pairs[k]) : p >= EthPorts
  THEN -1
  ELSE 0

parse_args ==
  /\ phase = "args"
  /\ \/ args.masked /\ args.p = {} /\ Goes("bad mask")
     \/ parse_nqueue(args.q) = 0 /\ Goes("bad queue")
     \/ parse_timer_period(args.T) = -1 /\ Goes("bad period")
     \/ args.mapped /\ parse_port_pair_config(args.pairs) = -1 /\ Goes("bad portmap")
     \/ /\ args.masked => args.p # {}
        /\ parse_nqueue(args.q) # 0
        /\ parse_timer_period(args.T) # -1
        /\ args.mapped => parse_port_pair_config(args.pairs) = 0
        /\ Goes(IF NbPorts = 0 THEN "no devices"
                ELSE IF args.mapped THEN "pairs" ELSE "mask")
  /\ mask' = args.p
  /\ UNCHANGED <<args, pairing, queues>>

\* Mutant: a port may be in several pairs.
check_port_pair_again ==
  /\ phase = "pairs"
  /\ IF index < Len(args.pairs)
     THEN LET pair == Members(args.pairs[index + 1]) IN
          /\ IF \A p \in pair : p \in mask /\ p < NbPorts
             THEN phase' = phase /\ index' = index + 1
             ELSE Goes("bad pair")
          /\ config_mask' = config_mask \cup pair
          /\ UNCHANGED mask
     ELSE /\ mask' = mask \cap config_mask
          /\ Goes("mask")
          /\ UNCHANGED config_mask
  /\ UNCHANGED <<args, dst, last_port, odd, queues>>

\* check_port_pair_config, and what it leaves in the port mask.
check_port_pair ==
  /\ phase = "pairs"
  /\ IF index < Len(args.pairs)
     THEN LET pair == Members(args.pairs[index + 1]) IN
          /\ \/ /\ \A p \in pair : p \in mask /\ p < NbPorts
                /\ pair \cap config_mask = {}
                /\ config_mask' = config_mask \cup pair
                /\ index' = index + 1
                /\ UNCHANGED phase
             \/ /\ \/ \E p \in pair : p \notin mask \/ p >= NbPorts
                   \/ pair \cap config_mask # {}
                /\ Goes("bad pair")
                /\ UNCHANGED config_mask
          /\ UNCHANGED mask
     ELSE /\ mask' = mask \cap config_mask
          /\ Goes("mask")
          /\ UNCHANGED config_mask
  /\ UNCHANGED <<args, dst, last_port, odd, queues>>

check_mask ==
  /\ phase = "mask"
  /\ Goes(IF \E p \in mask : p >= NbPorts THEN "impossible mask" ELSE "map")
  /\ UNCHANGED <<args, mask, pairing, queues>>

-----------------------------------------------------------------------------
\* --portmap: the ports of a pair forward to each other.
map_pair ==
  /\ phase = "map"
  /\ args.mapped
  /\ IF index < Len(args.pairs)
     THEN LET pair == args.pairs[index + 1] IN
          /\ dst' = [dst EXCEPT ![pair[1]] = pair[2], ![pair[2]] = pair[1]]
          /\ index' = index + 1
          /\ UNCHANGED phase
     ELSE Goes("lcores") /\ UNCHANGED dst
  /\ UNCHANGED <<args, mask, config_mask, last_port, odd, queues>>

\* Mutant: the first port of a pair is left with its initial destination.
map_port_half ==
  /\ phase = "map"
  /\ ~args.mapped
  /\ IF index < NbPorts
     THEN /\ odd' = IF index \in mask THEN 1 - odd ELSE odd
          /\ dst' = IF index \in mask /\ odd = 1 THEN [dst EXCEPT ![index] = last_port] ELSE dst
          /\ last_port' = IF index \in mask /\ odd = 0 THEN index ELSE last_port
          /\ index' = index + 1
          /\ UNCHANGED phase
     ELSE /\ dst' = IF odd = 1 THEN [dst EXCEPT ![last_port] = last_port] ELSE dst
          /\ Goes("lcores")
          /\ UNCHANGED <<last_port, odd>>
  /\ UNCHANGED <<args, mask, config_mask, queues>>

\* Without: the enabled ports in pairs, an odd one forwards to itself.
map_port ==
  /\ phase = "map"
  /\ ~args.mapped
  /\ \/ /\ index < NbPorts
        /\ \/ index \notin mask /\ UNCHANGED <<dst, last_port, odd>>
           \/ /\ index \in mask /\ odd = 1
              /\ dst' = [dst EXCEPT ![index] = last_port, ![last_port] = index]
              /\ odd' = 0
              /\ UNCHANGED last_port
           \/ /\ index \in mask /\ odd = 0
              /\ last_port' = index
              /\ odd' = 1
              /\ UNCHANGED dst
        /\ index' = index + 1
        /\ UNCHANGED phase
     \/ /\ index >= NbPorts
        /\ dst' = IF odd = 1 THEN [dst EXCEPT ![last_port] = last_port] ELSE dst
        /\ Goes("lcores")
        /\ UNCHANGED <<last_port, odd>>
  /\ UNCHANGED <<args, mask, config_mask, queues>>

-----------------------------------------------------------------------------
\* An lcore that can take one more port.
Free(l) == l \in Enabled /\ Len(rx_port_list[l]) # args.q

\* Mutant: no search for a free lcore.
assign_last == /\ phase = "lcores" /\ index < NbPorts /\ index \in mask
               /\ rx_port_list' = [rx_port_list EXCEPT ![rx_lcore_id] = Append(@, index)]
               /\ index' = index + 1
               /\ UNCHANGED <<args, phase, mask, pairing, rx_lcore_id>>

\* The first free lcore from rx_lcore_id on polls the port.
assign_port ==
  /\ phase = "lcores"
  /\ index < NbPorts
  /\ index \in mask
  /\ \/ \E l \in rx_lcore_id .. MaxLcore - 1 :
          /\ Free(l)
          /\ \A m \in rx_lcore_id .. l - 1 : ~Free(m)
          /\ rx_lcore_id' = l
          /\ rx_port_list' = [rx_port_list EXCEPT ![l] = Append(@, index)]
          /\ index' = index + 1
          /\ UNCHANGED phase
     \/ /\ \A l \in rx_lcore_id .. MaxLcore - 1 : ~Free(l)
        /\ Goes("not enough cores")
        /\ UNCHANGED queues
  /\ UNCHANGED <<args, mask, pairing>>

skip_port ==
  /\ phase = "lcores"
  /\ index < NbPorts
  /\ index \notin mask
  /\ index' = index + 1
  /\ UNCHANGED <<args, phase, mask, pairing, queues>>

assigned ==
  /\ phase = "lcores"
  /\ index >= NbPorts
  /\ Goes("start")
  /\ UNCHANGED <<args, mask, pairing, queues>>

\* The ports are configured and started, or main exits.
start_ports ==
  /\ phase = "start"
  /\ \/ mask = {} /\ Goes("all disabled")
     \/ mask # {} /\ Goes("run")
     \/ mask # {} /\ Goes("device error")
  /\ UNCHANGED <<args, mask, pairing, queues>>

Next ==
  \/ parse_args \/ check_port_pair \/ check_mask \/ map_pair \/ map_port
  \/ assign_port \/ skip_port \/ assigned \/ start_ports

Spec == Init /\ [][Next]_vars

-----------------------------------------------------------------------------
(***************************************************************************)
(* When the lcores are launched, the enabled ports forward to each other   *)
(* in pairs, or to themselves: for any port map, that may pair a port with *)
(* itself and leaves the unmapped ports disabled, and any port mask.       *)
(***************************************************************************)
Mirrored ==
  phase = "run" => \A p \in mask : dst[p] \in mask /\ dst[dst[p]] = p

(***************************************************************************)
(* Every enabled port is polled by one lcore, an enabled one, once, and no *)
(* list grows past -q, hence past its array.                               *)
(***************************************************************************)
PolledOnce ==
  phase = "run" =>
    /\ \A p \in mask : \E l \in Enabled :
         \E i \in 1 .. Len(rx_port_list[l]) : rx_port_list[l][i] = p
    /\ \A l, m \in Lcores : \A i \in 1 .. Len(rx_port_list[l]), j \in 1 .. Len(rx_port_list[m]) :
         rx_port_list[l][i] = rx_port_list[m][j] => l = m /\ i = j
    /\ \A l \in Lcores : Len(rx_port_list[l]) < MAX_RX_QUEUE_PER_LCORE

(***************************************************************************)
(* No two lcores send to the same port: its transmit buffer, its transmit  *)
(* queue and its counters, none of which is locked, have one writer.       *)
(***************************************************************************)
SendsTo(l) == {dst[rx_port_list[l][i]] : i \in 1 .. Len(rx_port_list[l])}

OneSender ==
  phase = "run" =>
    \A l, m \in Lcores : l # m => SendsTo(l) \cap SendsTo(m) = {}

=============================================================================
