------------------------------- MODULE Network -------------------------------
(***************************************************************************)
(* What the actors of rustasim-dcsim share: a queue in each direction of    *)
(* every link, a server's queue to itself, and a queue from the World to    *)
(* every actor (Links).                                                     *)
(*                                                                          *)
(* Actors are named by their ids; the index maps of the builders only       *)
(* rename them.                                                             *)
(***************************************************************************)
EXTENDS Integers, Sequences, FiniteSets, SequencesExt, FiniteSetsExt, Topology, Tcp

CONSTANTS
  Net,              \* the network, hosts first
  NHosts,
  Latency,          \* latency_ns
  Bandwidth,        \* bandwidth_gbps
  QSize,            \* Q_SIZE
  AckBytes          \* 10 in Server::advance

ASSUME NetworkAssumption ==
  /\ Net \in Seq(Seq(1 .. Len(Net)))
  /\ TwoWay(Net)
  /\ \A a \in DOMAIN Net : a \notin ToSet(Net[a])
  /\ NHosts \in 1 .. Len(Net)
  /\ \A h \in 1 .. NHosts : Len(Net[h]) = 1 /\ Net[h][1] > NHosts   \* a router
  /\ Latency \in Nat \ {0}      \* with 0 null messages never advance anybody
  /\ Bandwidth \in Nat \ {0} /\ QSize \in Nat \ {0}
  /\ AckBytes \in Nat

World   == 0
Hosts   == 1 .. NHosts
Routers == NHosts + 1 .. Len(Net)
Actors  == Hosts \cup Routers

Neighbours(a) == ToSet(Net[a])

Chans == {ch \in Actors \X Actors : ch[2] \in Neighbours(ch[1])}
           \cup {<<h, h>> : h \in Hosts}
           \cup {<<World, a>> : a \in Actors}

VARIABLES queue, heard, status,
          count     \* events of the model handled

netVars == <<queue, heard, status, count>>

INSTANCE Links

-----------------------------------------------------------------------------
(* Events *)

TimeoutAt(t)  == [time |-> t, kind |-> "Timeout"]
PacketAt(t, p) == [time |-> t, kind |-> "Packet", packet |-> p]
FlowAt(t, src, dst, size) ==
  [time |-> t, kind |-> "Flow", src |-> src, dst |-> dst, size_byte |-> size]

SizeByte(p) == IF p.is_ack THEN AckBytes ELSE BytesPerPacket

(* tx_rx_time *)
TxTime(size) == (8 * size) \div Bandwidth

Counted(a) == count' = [count EXCEPT ![a] = @ + 1]
=============================================================================
