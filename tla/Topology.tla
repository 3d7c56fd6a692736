------------------------------ MODULE Topology ------------------------------
(***************************************************************************)
(* The networks of rustasim-dcsim/src/routing.rs: connect, build_fc and     *)
(* build_clos, and what a network's distances and shortest paths are.       *)
(*                                                                          *)
(* A network maps the ids 1 .. n to the sequences of their neighbours, in   *)
(* the order they were connected; hosts have the lowest ids.                *)
(***************************************************************************)
EXTENDS Naturals, Sequences, FiniteSets, SequencesExt

(* Every id is inserted with no neighbours ... *)
NewNetwork(n) == [id \in 1 .. n |-> <<>>]

(* ... and connected in both directions. *)
Connect(net, src, dst) ==
  LET there == [net EXCEPT ![src] = Append(@, dst)]
  IN  [there EXCEPT ![dst] = Append(@, src)]

ConnectAll(net, links) ==
  FoldLeft(LAMBDA n, link : Connect(n, link[1], link[2]), net, links)

(* Pairs(n, m, Link) is a nested pair of for loops, 0 .. n-1 around         *)
(* 0 .. m-1, and the link made in each turn.                                *)
Pairs(n, m, Link(_, _)) ==
  [k \in 1 .. n * m |-> Link((k - 1) \div m, (k - 1) % m)]

(* Mutant: every rack is connected to itself too. *)
BuildFcSelf(n_racks, hosts_per_rack) ==
  LET n_hosts == n_racks * hosts_per_rack
      Rack(i) == n_hosts + i + 1
      hosts   == [h \in 1 .. n_hosts |-> <<h, Rack((h - 1) \div hosts_per_rack)>>]
      racks   == SelectSeq(Pairs(n_racks, n_racks, LAMBDA i, j : <<Rack(i), Rack(j)>>),
                           LAMBDA link : link[1] <= link[2])
  IN  ConnectAll(NewNetwork(n_hosts + n_racks), hosts \o racks)

(* n_racks racks of hosts_per_rack hosts, every rack connected to every     *)
(* other one.                                                               *)
BuildFc(n_racks, hosts_per_rack) ==
  LET n_hosts == n_racks * hosts_per_rack
      Rack(i) == n_hosts + i + 1
      hosts   == [h \in 1 .. n_hosts |-> <<h, Rack((h - 1) \div hosts_per_rack)>>]
      racks   == SelectSeq(Pairs(n_racks, n_racks, LAMBDA i, j : <<Rack(i), Rack(j)>>),
                           LAMBDA link : link[1] < link[2])
  IN  ConnectAll(NewNetwork(n_hosts + n_racks), hosts \o racks)

(* Mutant: every upper pod is connected to the same cores. *)
BuildClosSameCores(u, d) ==
  LET k       == u + d
      n_racks == k * (k \div 2)
      n_hosts == n_racks * d
      n_upper == k * u
      Rack(i)  == n_hosts + i + 1
      Upper(i) == n_hosts + n_racks + i + 1
      Core(i)  == n_hosts + n_racks + n_upper + i + 1
      hosts == [h \in 1 .. n_hosts |-> <<h, Rack((h - 1) \div d)>>]
      racks == Pairs(n_racks, u, LAMBDA i, j : <<Rack(i), Upper((i \div (k \div 2)) * u + j)>>)
      cores == Pairs(n_upper, k \div 2, LAMBDA i, j : <<Upper(i), Core(j)>>)
  IN  ConnectAll(NewNetwork(n_hosts + n_racks + n_upper + (u * k) \div 2),
                 hosts \o racks \o cores)

(* A folded Clos network of switches with k = u + d ports: k pods of k / 2  *)
(* racks and u upper switches, and u * k / 2 cores.                         *)
BuildClos(u, d) ==
  LET k       == u + d
      n_racks == k * (k \div 2)
      n_hosts == n_racks * d
      n_upper == k * u
      Rack(i)  == n_hosts + i + 1
      Upper(i) == n_hosts + n_racks + i + 1
      Core(i)  == n_hosts + n_racks + n_upper + i + 1
      hosts == [h \in 1 .. n_hosts |-> <<h, Rack((h - 1) \div d)>>]
      racks == Pairs(n_racks, u, LAMBDA i, j : <<Rack(i), Upper((i \div (k \div 2)) * u + j)>>)
      cores == Pairs(n_upper, k \div 2,
                     LAMBDA i, j : <<Upper(i), Core((k \div 2) * (i % u) + j)>>)
  IN  ConnectAll(NewNetwork(n_hosts + n_racks + n_upper + (u * k) \div 2),
                 hosts \o racks \o cores)

ClosHosts(u, d) == (u + d) * ((u + d) \div 2) * d

-----------------------------------------------------------------------------
(* Reference definitions: distances and shortest paths. *)

(* One hop further than from the nodes of a set. *)
Around(net, nodes) == nodes \cup UNION {ToSet(net[n]) : n \in nodes}

(* The nodes at most 0, 1, 2 ... hops from node s. *)
Balls(net, s) ==
  LET ball[k \in 0 .. Len(net)] == IF k = 0 THEN {s} ELSE Around(net, ball[k - 1])
  IN  ball

(* The distance from s of every node that can be reached from it. *)
Distances(net, s) ==
  LET balls == Balls(net, s)
  IN  [t \in balls[Len(net)] |->
         CHOOSE k \in 0 .. Len(net) : t \in balls[k] /\ \A j \in 0 .. k - 1 : t \notin balls[j]]

(* Every link leads to a node, and both ways. *)
TwoWay(net) ==
  \A n \in DOMAIN net : \A m \in ToSet(net[n]) : m \in DOMAIN net /\ n \in ToSet(net[m])

(* From distances to t: the neighbours of s that are one hop nearer. *)
NextHops(net, s, toT) ==
  {n \in ToSet(net[s]) : s \in DOMAIN toT /\ toT[n] + 1 = toT[s]}
=============================================================================
