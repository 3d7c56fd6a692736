------------------------------ MODULE MCRouting ------------------------------
(* Routing on every network of four nodes, connected or not, and on small   *)
(* instances of the topologies the program builds.                          *)
EXTENDS Routing

Links4 == {l \in (1 .. 4) \X (1 .. 4) : l[1] < l[2]}

Small == {ConnectAll(NewNetwork(4), SetToSeq(links)) : links \in SUBSET Links4}

FcSizes   == (1 .. 3) \X (1 .. 2)
ClosSizes == {<<1, 1>>, <<1, 3>>, <<2, 2>>}

Fc   == [s \in FcSizes |-> BuildFc(s[1], s[2])]
Clos == [s \in ClosSizes |-> BuildClos(s[1], s[2])]

MCNetworks == Small \cup {Fc[s] : s \in FcSizes} \cup {Clos[s] : s \in ClosSizes}

(* Links go both ways, no link is doubled and no node is linked to itself.  *)
WellFormed(net) ==
  TwoWay(net) /\ \A n \in DOMAIN net : n \notin ToSet(net[n]) /\ IsInjective(net[n])

(* What build_clos documents: a host has one link, a switch u + d of them,  *)
(* and there are k*k/2*d hosts; any two hosts reach each other in at most   *)
(* six hops, up to the cores and down again.                                *)
ClosSound ==
  \A s \in ClosSizes : network = Clos[s] =>
    LET u == s[1]  d == s[2]  n == ClosHosts(u, d)
    IN  /\ WellFormed(network)
        /\ \A id \in DOMAIN network : Len(network[id]) = IF id <= n THEN 1 ELSE u + d
        /\ source <= n => \A id \in 1 .. n : AllDistances[network][source][id] <= 6

(* What build_fc documents: a host has one link, to its rack, and the racks *)
(* are linked to one another.                                               *)
FcSound ==
  \A s \in FcSizes : network = Fc[s] =>
    LET n == s[1] * s[2]
    IN  /\ WellFormed(network)
        /\ \A id \in DOMAIN network :
             Len(network[id]) = IF id <= n THEN 1 ELSE s[1] - 1 + s[2]
        /\ source <= n => \A id \in 1 .. n : AllDistances[network][source][id] <= 3
=============================================================================
