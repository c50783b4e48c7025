---------------------------- MODULE FilterFields ----------------------------
(***************************************************************************)
(* The header fields that have a table in traffic_filter.p4, and which of  *)
(* them the parser gives a packet.                                         *)
(***************************************************************************)
ETH == {"eth_srcMac", "eth_dstMac", "eth_proto"}
IP == {"ip_srcIP", "ip_dstIP", "ip_proto"}
TCP == {"tcp_srcPort", "tcp_dstPort"}
UDP == {"udp_srcPort", "udp_dstPort"}

\* MyParser: the fields a packet has, by the last header that was extracted; a
\* packet too short for its Ethernet header has none.
Parsed == {{}, ETH, ETH \cup IP, ETH \cup IP \cup TCP, ETH \cup IP \cup UDP}
=============================================================================
