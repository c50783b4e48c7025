--------------------------- MODULE MCExampleSwitch ---------------------------
(***************************************************************************)
(* The stateful firewall between two endpoints, with a hash that confuses  *)
(* a flow with one other and tells the remaining two apart; the traffic    *)
(* filter with a rule of each header, a prefix and a host in it, and both  *)
(* ports of UDP.                                                           *)
(***************************************************************************)
EXTENDS ExampleSwitch

TwoEndpoints == 0 .. 1

MixedHash == [f \in TwoEndpoints \X TwoEndpoints |-> f[1] * (1 + f[2])]

\* The keys a packet can have, and one that none has.
MCKeys == {<<0, 1>>, <<1, 0>>, <<0, 0>>}

\* Every packet with the two values 1 and 2 in the fields that have a rule.
Ruled == {"eth_dstMac", "ip_srcIP", "tcp_dstPort", "udp_srcPort", "udp_dstPort"}

MCFilterPackets ==
  {[in |-> IF DOMAIN f = ETH THEN 1 ELSE 0, fields |-> f] :
     f \in UNION {{g \in [d -> {1, 2}] : \A t \in d \ Ruled : g[t] = 1} : d \in Parsed}}

MCFilterKeys ==
  {<<t, {1}>> : t \in Ruled} \cup {<<"ip_srcIP", {1, 2}>>}

=============================================================================
