-------------------------------- MODULE Config --------------------------------
(***************************************************************************)
(* What main and run_config (rustasim-dcsim/src/main.rs, lib.rs) make of    *)
(* the command line and the flow file: the network and the flows a World is *)
(* built from.  A topology is a SimConfig's, a line of the file a record    *)
(* [src, dst, size_byte, time] that counts hosts from 0.                    *)
(***************************************************************************)
EXTENDS Integers, Sequences, SequencesExt, FiniteSetsExt, Topology

FullyConnected(k) == [kind |-> "FullyConnected", k |-> k]
CLOS(u, d)        == [kind |-> "CLOS", u |-> u, d |-> d]

(* main exits for a CLOS of odd k; build_fc(0, -1) and a World of one       *)
(* router, whose Merger has a single queue, panic.                          *)
Accepted(t) ==
  CASE t.kind = "FullyConnected" -> t.k >= 2
    [] t.kind = "CLOS"           -> t.u > 0 /\ t.d > 0 /\ (t.u + t.d) % 2 = 0

NetworkOf(t) ==
  CASE t.kind = "FullyConnected" -> BuildFc(t.k, t.k - 1)
    [] t.kind = "CLOS"           -> BuildClos(t.u, t.d)

HostsOf(t) ==
  CASE t.kind = "FullyConnected" -> t.k * (t.k - 1)
    [] t.kind = "CLOS"           -> ClosHosts(t.u, t.d)

(* Mutant: a flow that starts at the limit is left out. *)
ReadFlowsBefore(file, limit) ==
  LET beyond == {i \in DOMAIN file : file[i].time >= limit}
      n      == IF beyond = {} THEN Len(file) ELSE Min(beyond) - 1
  IN  [i \in 1 .. n |-> [file[i] EXCEPT !.src = @ + 1, !.dst = @ + 1]]

(* The file is read up to its first flow after the limit. *)
ReadFlows(file, limit) ==
  LET beyond == {i \in DOMAIN file : file[i].time > limit}
      n      == IF beyond = {} THEN Len(file) ELSE Min(beyond) - 1
  IN  [i \in 1 .. n |-> [file[i] EXCEPT !.src = @ + 1, !.dst = @ + 1]]

(* World::add_flows: every flow goes to its source, in the file's order. *)
AddFlows(flow_list, hosts) ==
  [h \in hosts |-> SelectSeq(flow_list, LAMBDA f : f.src = h)]
=============================================================================
