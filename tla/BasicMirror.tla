----------------------------- MODULE BasicMirror -----------------------------
(***************************************************************************)
(* The DPDK mirror as it runs (dpdk/basic_mirror/main.c): after the start  *)
(* of MirrorPorts every lcore runs l2fwd_main_loop, and main waits for     *)
(* them to close the ports.                                                *)
(*                                                                         *)
(* The lcores share memory without a lock, so the loop is cut where one    *)
(* could meet another in a transmit buffer: rte_eth_tx_buffer reads the    *)
(* length, then stores the packet and the new length.                      *)
(***************************************************************************)
EXTENDS MirrorPorts

CONSTANTS
  MAX_PKT_BURST,  \* of a receive burst, and the size of a transmit buffer
  MaxRx           \* bound: packets that arrive at a port

ASSUME BurstAssumption == MAX_PKT_BURST \in Nat \ {0} /\ MaxRx \in Nat

VARIABLES
  force_quit,
  pc,           \* where each lcore is in l2fwd_main_loop
  i,            \* its loop index
  burst,        \* what is left of its receive burst
  len,          \* the length rte_eth_tx_buffer has read
  tx_buffer,    \* per port: the packets that wait
  wire,         \* per port: the packets sent
  rx, tx, dropped   \* port_statistics

lcore == <<pc, i, burst, len>>
statistics == <<rx, tx, dropped>>
loop == <<force_quit, lcore, tx_buffer, wire, statistics>>
allvars == <<vars, loop>>

\* A packet is the port it came in by and its number there.
Packets == Ports \X (1 .. MaxRx)

LoopTypeOK ==
  /\ TypeOK
  /\ force_quit \in BOOLEAN
  /\ pc \in [Enabled -> {"out", "top", "flush", "rx", "forward", "store", "done"}]
  /\ i \in [Enabled -> 0 .. MAX_RX_QUEUE_PER_LCORE]
  /\ burst \in [Enabled -> Seq(Packets)]
  /\ len \in [Enabled -> 0 .. MAX_PKT_BURST - 1]
  /\ tx_buffer \in [Ports -> Seq(Packets)]
  /\ wire \in [Ports -> Seq(Packets)]
  /\ rx \in [Ports -> 0 .. MaxRx]
  /\ tx \in [Ports -> Nat]
  /\ dropped \in [Ports -> Nat]

(***************************************************************************)
(* Counters never fall below zero, and what is received at once and what   *)
(* waits to be sent fit in their arrays, whichever lcore stores and        *)
(* whatever the device takes: a full buffer is sent before anything is     *)
(* stored in it again.                                                     *)
(***************************************************************************)
MirrorTypeOK ==
  /\ LoopTypeOK
  /\ \A l \in Enabled : Len(burst[l]) <= MAX_PKT_BURST
  /\ \A p \in Ports : Len(tx_buffer[p]) < MAX_PKT_BURST

MirrorInit ==
  /\ Init
  /\ force_quit = FALSE
  /\ pc = [l \in Enabled |-> "out"]
  /\ i = [l \in Enabled |-> 0]
  /\ burst = [l \in Enabled |-> <<>>]
  /\ len = [l \in Enabled |-> 0]
  /\ tx_buffer = [p \in Ports |-> <<>>]
  /\ wire = [p \in Ports |-> <<>>]
  /\ rx = [p \in Ports |-> 0]
  /\ tx = [p \in Ports |-> 0]
  /\ dropped = [p \in Ports |-> 0]

Goto(l, to) == pc' = [pc EXCEPT ![l] = to]
Next_i(l) == i' = [i EXCEPT ![l] = @ + 1]
From_0(l) == i' = [i EXCEPT ![l] = 0]

\* The port of this turn of the loops over rx_port_list.
More(l) == i[l] < Len(rx_port_list[l])
portid(l) == rx_port_list[l][i[l] + 1]

-----------------------------------------------------------------------------
\* Mutants: drops that are not counted or lowered; packets sent and kept.
FlushUncounted(p, s) ==
  \E n \in 0 .. Len(s) :
    /\ wire' = [wire EXCEPT ![p] = @ \o SubSeq(s, 1, n)]
    /\ tx' = [tx EXCEPT ![p] = @ + n]
    /\ tx_buffer' = [tx_buffer EXCEPT ![p] = <<>>]
    /\ UNCHANGED dropped
FlushLowers(p, s) ==
  \E n \in 0 .. Len(s) :
    /\ wire' = [wire EXCEPT ![p] = @ \o SubSeq(s, 1, n)]
    /\ tx' = [tx EXCEPT ![p] = @ + n]
    /\ dropped' = [dropped EXCEPT ![p] = @ + n - Len(s)]
    /\ tx_buffer' = [tx_buffer EXCEPT ![p] = <<>>]
FlushKeeps(p, s) ==
  \E n \in 0 .. Len(s) :
    /\ wire' = [wire EXCEPT ![p] = @ \o SubSeq(s, 1, n)]
    /\ tx' = [tx EXCEPT ![p] = @ + n]
    /\ tx_buffer' = [tx_buffer EXCEPT ![p] = IF n = Len(s) THEN <<>> ELSE s]
    /\ UNCHANGED dropped

\* rte_eth_tx_buffer_flush of s: the device takes some packets, the error
\* callback counts the others as dropped.
Flush(p, s) ==
  \E n \in 0 .. Len(s) :
    /\ wire' = [wire EXCEPT ![p] = @ \o SubSeq(s, 1, n)]
    /\ tx' = [tx EXCEPT ![p] = @ + n]
    /\ dropped' = [dropped EXCEPT ![p] = @ + (Len(s) - n)]
    /\ tx_buffer' = [tx_buffer EXCEPT ![p] = <<>>]

launch(l) ==
  /\ phase = "run"
  /\ pc[l] = "out"
  /\ Goto(l, IF rx_port_list[l] = <<>> THEN "done" ELSE "top")
  /\ UNCHANGED <<vars, force_quit, i, burst, len, tx_buffer, wire, statistics>>

\* Mutant: the signal is not looked at.
leave_never(l) == /\ pc[l] = "top" /\ force_quit /\ Goto(l, "rx") /\ From_0(l)
                  /\ UNCHANGED <<vars, force_quit, burst, len, tx_buffer, wire, statistics>>

leave(l) ==
  /\ pc[l] = "top"
  /\ force_quit
  /\ Goto(l, "done")
  /\ UNCHANGED <<vars, force_quit, i, burst, len, tx_buffer, wire, statistics>>

\* More than drain_tsc has passed since the last drain, or not.
drain(l) ==
  /\ pc[l] = "top"
  /\ ~force_quit
  /\ Goto(l, "flush") /\ From_0(l)
  /\ UNCHANGED <<vars, force_quit, burst, len, tx_buffer, wire, statistics>>

no_drain(l) ==
  /\ pc[l] = "top"
  /\ ~force_quit
  /\ Goto(l, "rx") /\ From_0(l)
  /\ UNCHANGED <<vars, force_quit, burst, len, tx_buffer, wire, statistics>>

\* Mutant: the last port of the list is not drained.
flush_but_last(l) ==
  /\ pc[l] = "flush"
  /\ \/ /\ i[l] + 1 < Len(rx_port_list[l])
        /\ Flush(dst[portid(l)], tx_buffer[dst[portid(l)]])
        /\ Next_i(l)
        /\ UNCHANGED pc
     \/ /\ ~(i[l] + 1 < Len(rx_port_list[l]))
        /\ Goto(l, "rx") /\ From_0(l)
        /\ UNCHANGED <<tx_buffer, wire, tx, dropped>>
  /\ UNCHANGED <<vars, force_quit, burst, len, rx>>

flush(l) ==
  /\ pc[l] = "flush"
  /\ \/ /\ More(l)
        /\ Flush(dst[portid(l)], tx_buffer[dst[portid(l)]])
        /\ Next_i(l)
        /\ UNCHANGED pc
     \/ /\ ~More(l)
        /\ Goto(l, "rx") /\ From_0(l)
        /\ UNCHANGED <<tx_buffer, wire, tx, dropped>>
  /\ UNCHANGED <<vars, force_quit, burst, len, rx>>

\* rte_eth_rx_burst on the next port of the list.
receive(l) ==
  /\ pc[l] = "rx"
  /\ \/ /\ More(l)
        /\ \E n \in 0 .. MAX_PKT_BURST :
             LET p == portid(l) IN
             /\ rx[p] + n <= MaxRx
             /\ burst' = [burst EXCEPT ![l] = [k \in 1 .. n |-> <<p, rx[p] + k>>]]
             /\ rx' = [rx EXCEPT ![p] = @ + n]
        /\ Goto(l, "forward")
     \/ /\ ~More(l)
        /\ Goto(l, "top")
        /\ UNCHANGED <<burst, rx>>
  /\ UNCHANGED <<vars, force_quit, i, len, tx_buffer, wire, tx, dropped>>

\* l2fwd_simple_forward, as far as the length of the buffer.
forward(l) ==
  /\ pc[l] = "forward"
  /\ \/ /\ burst[l] # <<>>
        /\ len' = [len EXCEPT ![l] = Len(tx_buffer[dst[portid(l)]])]
        /\ Goto(l, "store")
        /\ UNCHANGED i
     \/ /\ burst[l] = <<>>
        /\ Next_i(l) /\ Goto(l, "rx")
        /\ UNCHANGED len
  /\ UNCHANGED <<vars, force_quit, burst, tx_buffer, wire, statistics>>

\* The buffer with packet m stored behind its first n packets.
Stored(s, n, m) == Append(SubSeq(s, 1, IF n < Len(s) THEN n ELSE Len(s)), m)

store(l) ==
  /\ pc[l] = "store"
  /\ LET d == dst[portid(l)]
         s == Stored(tx_buffer[d], len[l], Head(burst[l]))
     IN  \/ /\ Len(s) < MAX_PKT_BURST
            /\ tx_buffer' = [tx_buffer EXCEPT ![d] = s]
            /\ UNCHANGED <<wire, tx, dropped>>
         \/ /\ Len(s) >= MAX_PKT_BURST
            /\ Flush(d, s)
  /\ burst' = [burst EXCEPT ![l] = Tail(@)]
  /\ Goto(l, "forward")
  /\ UNCHANGED <<vars, force_quit, i, len, rx>>

-----------------------------------------------------------------------------
\* SIGINT or SIGTERM, also while the ports are being started.
signal_handler ==
  /\ ~force_quit
  /\ phase \notin Exits \cup {"closed"}
  /\ force_quit' = TRUE
  /\ UNCHANGED <<vars, lcore, tx_buffer, wire, statistics>>

\* Every lcore has returned.
close_ports ==
  /\ phase = "run"
  /\ \A l \in Enabled : pc[l] = "done"
  /\ Goes("closed")
  /\ UNCHANGED <<args, mask, pairing, queues, loop>>

start == Next /\ UNCHANGED loop

run(l) == \/ launch(l) \/ leave(l) \/ drain(l) \/ no_drain(l) \/ flush(l)
          \/ receive(l) \/ forward(l) \/ store(l)

MirrorNext ==
  \/ start
  \/ \E l \in Enabled : run(l)
  \/ signal_handler
  \/ close_ports

MirrorSpec == MirrorInit /\ [][MirrorNext]_allvars

(***************************************************************************)
(* Main and every lcore keep running, and time passes: a loop that turns   *)
(* for ever drains again and again.  Nothing obliges a signal to come.     *)
(***************************************************************************)
FairMirror ==
  /\ MirrorSpec
  /\ WF_allvars(start) /\ WF_allvars(close_ports)
  /\ \A l \in Enabled : WF_allvars(run(l)) /\ SF_allvars(drain(l))

-----------------------------------------------------------------------------
\* The packets of port p that its lcore l has received and not yet stored.
InHand(l, p) ==
  IF pc[l] \in {"forward", "store"} /\ portid(l) = p THEN Len(burst[l]) ELSE 0

(***************************************************************************)
(* The counters never lie: what a port has received is what its mirror has *)
(* sent, dropped or still holds, with every lcore in the middle of its     *)
(* loop.  A buffer two lcores wrote to would lose packets.                 *)
(***************************************************************************)
Conserved ==
  phase \in {"run", "closed"} =>
    \A l \in Enabled : \A k \in 1 .. Len(rx_port_list[l]) :
      LET p == rx_port_list[l][k]
          d == dst[p]
      IN  rx[p] = tx[d] + dropped[d] + Len(tx_buffer[d]) + InHand(l, p)

(***************************************************************************)
(* A port sends the packets of its mirror port, each at most once and in   *)
(* the order they arrived in.                                              *)
(***************************************************************************)
InOrder ==
  \A p \in Ports :
    LET s == wire[p] \o tx_buffer[p] IN
    /\ \A k \in 1 .. Len(s) : s[k][1] = dst[p]
    /\ \A j, k \in 1 .. Len(s) : j < k => s[j][2] < s[k][2]

(***************************************************************************)
(* A packet that waits in a transmit buffer leaves it, although nothing    *)
(* more arrives, unless a signal stops the program.                        *)
(***************************************************************************)
Drains ==
  \A p \in Ports : tx_buffer[p] # <<>> ~> (tx_buffer[p] = <<>> \/ force_quit)

(***************************************************************************)
(* After a signal, whenever it comes, the program ends.                    *)
(***************************************************************************)
Stops == force_quit ~> phase \in Exits \cup {"closed"}

=============================================================================
