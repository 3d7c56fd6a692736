----------------------------- MODULE MCDcsimRacks -----------------------------
(* The smallest network the command line accepts, two racks of one host     *)
(* each, with a flow file: flows in both directions, one at the limit and   *)
(* one after it.                                                            *)
EXTENDS Dcsim, Config

Racks == FullyConnected(2)

MCNet    == NetworkOf(Racks)
MCNHosts == HostsOf(Racks)

Line(t, s, d, n) == [time |-> t, src |-> s, dst |-> d, size_byte |-> n]

File == <<Line(0, 0, 1, 1), Line(Limit, 1, 0, 1), Line(Limit + 1, 0, 1, 1)>>

MCWorkload == AddFlows(ReadFlows(File, Limit), 1 .. MCNHosts)

ASSUME Accepted(Racks)

(* A run that ends has started every flow of the file up to and including   *)
(* the limit at its host, and no other.                                     *)
FlowsStarted ==
  (\A a \in Actors : status[a] = "done") =>
    \A h \in Hosts :
      Len(flows[h]) = Cardinality({i \in DOMAIN File : File[i].src + 1 = h /\ File[i].time <= Limit})
=============================================================================
