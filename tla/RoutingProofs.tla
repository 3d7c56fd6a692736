---------------------------- MODULE RoutingProofs ----------------------------
(***************************************************************************)
(* route_all and route_id on every set of networks whose links go both      *)
(* ways.                                                                    *)
(***************************************************************************)
EXTENDS Routing, CommonLemmas

-----------------------------------------------------------------------------
(* Distances *)

(* dist[a] are the distances from a. *)
Metrics(net, dist) ==
  IsNetwork(net) /\ DOMAIN dist = DOMAIN net /\ \A a \in DOMAIN net : Metric(net, a, dist[a])

LEMMA AllMetrics ==
  ASSUME NEW net \in Networks
  PROVE  Metrics(net, AllDistances[net])
<1>1. IsNetwork(net)
  BY NetworksAssumption DEF IsNetwork
<1>2. AllDistances[net] = [s \in DOMAIN net |-> Distances(net, s)]
  BY DEF AllDistances
<1> QED  BY <1>1, <1>2, DistancesMetric DEF Metrics

(* A node no link leads to has distance 0, or comes after another one. *)
LEMMA Before ==
  ASSUME NEW net, NEW dist, Metrics(net, dist), NEW a \in DOMAIN net, NEW t \in DOMAIN dist[a], t # a
  PROVE  \E p \in DOMAIN dist[a] :
           t \in ToSet(net[p]) /\ dist[a][p] \in Nat /\ dist[a][t] = dist[a][p] + 1
  BY DEF Metrics, Metric

LEMMA After ==
  ASSUME NEW net, NEW dist, Metrics(net, dist), NEW a \in DOMAIN net,
         NEW p \in DOMAIN dist[a], NEW t \in ToSet(net[p])
  PROVE  /\ t \in DOMAIN dist[a] /\ t \in DOMAIN net /\ p \in DOMAIN net
         /\ dist[a][t] \in Nat /\ dist[a][p] \in Nat /\ dist[a][t] <= dist[a][p] + 1
  BY DEF Metrics, Metric

LEMMA Here ==
  ASSUME NEW net, NEW dist, Metrics(net, dist), NEW a \in DOMAIN net
  PROVE  /\ a \in DOMAIN dist[a] /\ dist[a][a] = 0 /\ DOMAIN dist[a] \subseteq DOMAIN net
         /\ \A t \in DOMAIN dist[a] : dist[a][t] \in Nat /\ (dist[a][t] = 0 => t = a)
<1>1. /\ a \in DOMAIN dist[a] /\ dist[a][a] = 0 /\ DOMAIN dist[a] \subseteq DOMAIN net
      /\ \A t \in DOMAIN dist[a] : dist[a][t] \in Nat
  BY DEF Metrics, Metric
<1>2. ASSUME NEW t \in DOMAIN dist[a], t # a  PROVE dist[a][t] # 0
  BY <1>2, Before
<1> QED  BY <1>1, <1>2

LEMMA Linked ==
  ASSUME NEW net, NEW dist, Metrics(net, dist), NEW a \in DOMAIN net, NEW m \in ToSet(net[a])
  PROVE  m \in DOMAIN net /\ a \in ToSet(net[m])
  BY DEF Metrics, IsNetwork, TwoWay

(* From a neighbour of a, nothing is more than a hop nearer than from a. *)
LEMMA Nearer ==
  ASSUME NEW net, NEW dist, Metrics(net, dist), NEW a \in DOMAIN net, NEW m \in ToSet(net[a]),
         NEW t \in DOMAIN dist[m]
  PROVE  t \in DOMAIN dist[a] /\ dist[a][t] <= dist[m][t] + 1
<1> DEFINE Good(x) == x \in DOMAIN dist[a] /\ dist[a][x] <= dist[m][x] + 1
           Bad == {k \in Nat : \E x \in DOMAIN dist[m] : dist[m][x] = k /\ ~Good(x)}
<1>1. m \in DOMAIN net
  BY Linked
<1>2. Bad = {}
  <2> SUFFICES ASSUME Bad # {}  PROVE FALSE
    OBVIOUS
  <2>1. PICK k \in Bad : \A j \in Bad : k <= j
    BY LeastOf
  <2>2. PICK x \in DOMAIN dist[m] : dist[m][x] = k /\ ~Good(x)
    OBVIOUS
  <2>3. CASE x = m
    <3>1. a \in DOMAIN dist[a] /\ dist[a][a] = 0 /\ dist[m][m] = 0
      BY <1>1, Here
    <3>2. m \in DOMAIN dist[a] /\ dist[a][m] \in Nat /\ dist[a][m] <= dist[a][a] + 1
      BY <3>1, After
    <3>3. Good(m)
      BY <3>1, <3>2
    <3> QED  BY <2>2, <2>3, <3>3
  <2>4. CASE x # m
    <3>1. PICK p \in DOMAIN dist[m] :
            x \in ToSet(net[p]) /\ dist[m][p] \in Nat /\ dist[m][x] = dist[m][p] + 1
      BY <1>1, <2>4, Before
    <3>2. dist[m][p] \notin Bad
      BY <2>1, <2>2, <3>1
    <3>3. Good(p)
      BY <3>1, <3>2
    <3>4. /\ x \in DOMAIN dist[a] /\ dist[a][x] \in Nat /\ dist[a][p] \in Nat
          /\ dist[a][x] <= dist[a][p] + 1
      BY <3>1, <3>3, After
    <3>5. dist[a][x] <= dist[m][x] + 1
      BY <3>1, <3>3, <3>4
    <3> QED  BY <2>2, <3>4, <3>5
  <2> QED  BY <2>3, <2>4
<1>3. dist[m][t] \in Nat
  BY <1>1, Here
<1> QED  BY <1>2, <1>3

(* Distances are the same in both directions. *)
LEMMA Back ==
  ASSUME NEW net, NEW dist, Metrics(net, dist), NEW a \in DOMAIN net, NEW t \in DOMAIN dist[a]
  PROVE  t \in DOMAIN net /\ a \in DOMAIN dist[t] /\ dist[t][a] <= dist[a][t]
<1> DEFINE Good(x) == a \in DOMAIN dist[x] /\ dist[x][a] <= dist[a][x]
           Bad == {k \in Nat : \E x \in DOMAIN dist[a] : dist[a][x] = k /\ ~Good(x)}
<1>1. Bad = {}
  <2> SUFFICES ASSUME Bad # {}  PROVE FALSE
    OBVIOUS
  <2>1. PICK k \in Bad : \A j \in Bad : k <= j
    BY LeastOf
  <2>2. PICK x \in DOMAIN dist[a] : dist[a][x] = k /\ ~Good(x)
    OBVIOUS
  <2>3. CASE x = a
    <3>1. a \in DOMAIN dist[a] /\ dist[a][a] = 0
      BY Here
    <3>2. Good(a)
      BY <3>1
    <3> QED  BY <2>2, <2>3, <3>2
  <2>4. CASE x # a
    <3>1. PICK p \in DOMAIN dist[a] :
            x \in ToSet(net[p]) /\ dist[a][p] \in Nat /\ dist[a][x] = dist[a][p] + 1
      BY <2>4, Before
    <3>2. dist[a][p] \notin Bad
      BY <2>1, <2>2, <3>1
    <3>3. Good(p)
      BY <3>1, <3>2
    <3>4. p \in DOMAIN net /\ x \in DOMAIN net /\ p \in ToSet(net[x])
      BY <3>1, After, Linked
    <3>5. a \in DOMAIN dist[x] /\ dist[x][a] <= dist[p][a] + 1
      BY <3>3, <3>4, Nearer
    <3>6. dist[p][a] \in Nat /\ dist[x][a] \in Nat
      BY <3>3, <3>4, <3>5, Here
    <3>7. dist[x][a] <= dist[a][x]
      BY <3>1, <3>3, <3>5, <3>6
    <3> QED  BY <2>2, <3>5, <3>7
  <2> QED  BY <2>3, <2>4
<1>2. dist[a][t] \in Nat /\ t \in DOMAIN net
  BY Here
<1> QED  BY <1>1, <1>2

LEMMA Symmetric ==
  ASSUME NEW net, NEW dist, Metrics(net, dist), NEW a \in DOMAIN net, NEW t \in DOMAIN dist[a]
  PROVE  t \in DOMAIN net /\ a \in DOMAIN dist[t] /\ dist[t][a] = dist[a][t]
<1>1. t \in DOMAIN net /\ a \in DOMAIN dist[t] /\ dist[t][a] <= dist[a][t]
  BY Back
<1>2. dist[a][t] <= dist[t][a]
  BY <1>1, Back
<1>3. dist[a][t] \in Nat /\ dist[t][a] \in Nat
  BY <1>1, Here
<1> QED  BY <1>1, <1>2, <1>3

(* The first hops of shortest paths, from the distances to the target or    *)
(* from those from the hops.                                                *)
LEMMA Firsts ==
  ASSUME NEW net, NEW dist, Metrics(net, dist), NEW s \in DOMAIN net, NEW t \in DOMAIN dist[s]
  PROVE  NextHops(net, s, dist[t]) =
           {h \in ToSet(net[s]) : t \in DOMAIN dist[h] /\ dist[h][t] + 1 = dist[s][t]}
<1>1. t \in DOMAIN net /\ s \in DOMAIN dist[t] /\ dist[t][s] = dist[s][t]
  BY Symmetric
<1>2. ASSUME NEW h \in ToSet(net[s])
      PROVE  t \in DOMAIN dist[h] /\ dist[h][t] = dist[t][h]
  <2>1. h \in DOMAIN dist[t]
    BY <1>1, After
  <2> QED  BY <1>1, <2>1, Symmetric
<1> QED  BY <1>1, <1>2 DEF NextHops
-----------------------------------------------------------------------------
(* The search *)

(* Every distance in the network, and what the search knows of them. *)
Dist == AllDistances[network]

Cost(id) == route_cost[id].cost

(* The hops a node's neighbour m may have from it. *)
From(p, m) == IF p = source THEN {m} ELSE ToSet(route_cost[p].hops)

Typed ==
  /\ network \in Networks /\ source \in DOMAIN network /\ all \in BOOLEAN
  /\ queue \in Seq(Nat \X Nat \X Nat)
  /\ source \in DOMAIN route_cost /\ Cost(source) = 0
  /\ \A id \in DOMAIN route_cost : Cost(id) \in Nat /\ route_cost[id].hops \in Seq(Nat)

(* The candidates are in the order of their costs, and all at the cost of   *)
(* the first one or at the next.                                            *)
Sorted ==
  \A i, j \in DOMAIN queue :
    queue[j][3] <= queue[i][3] + 1 /\ (i <= j => queue[i][3] <= queue[j][3])

(* A candidate's first hop leads to its node, at its cost or less. *)
Leads(q) ==
  /\ q[2] \in ToSet(network[source])
  /\ q[1] \in DOMAIN Dist[q[2]] /\ Dist[q[2]][q[1]] + 1 <= q[3]

CandidatesLead == \A q \in ToSet(queue) : Leads(q)

CostsRight ==
  \A id \in DOMAIN route_cost : id \in DOMAIN Dist[source] /\ Cost(id) = Dist[source][id]

(* The hops of a node are first hops of shortest paths. *)
HopsRight ==
  \A id \in DOMAIN route_cost \ {source} :
    LET hops == route_cost[id].hops
    IN  /\ hops # <<>> /\ IsInjective(hops) /\ (~all => Len(hops) = 1)
        /\ \A h \in ToSet(hops) :
             h \in ToSet(network[source]) /\ id \in DOMAIN Dist[h] /\ Dist[h][id] + 1 = Cost(id)

(* What is known of p has reached its neighbour m: it is a candidate, m has *)
(* the hop, or m is as near.                                                *)
Passed(p, m, h) ==
  \/ <<m, h, Cost(p) + 1>> \in ToSet(queue)
  \/ m \in DOMAIN route_cost /\ Cost(m) <= Cost(p)
  \/ /\ m \in DOMAIN route_cost /\ Cost(m) = Cost(p) + 1
     /\ all => h \in ToSet(route_cost[m].hops)

AllPassed ==
  \A p \in DOMAIN route_cost : \A m \in ToSet(network[p]) : \A h \in From(p, m) : Passed(p, m, h)

Search == Typed /\ Sorted /\ CandidatesLead /\ CostsRight /\ HopsRight /\ AllPassed

LEMMA InNetwork ==
  ASSUME Typed
  PROVE  Metrics(network, Dist) /\ source \in DOMAIN network
  BY AllMetrics DEF Typed, Dist

(* The candidate at the front, and the others. *)
IsFront(q) == queue # <<>> /\ q = Head(queue)

Others == Tail(queue)

LEMMA AtFront ==
  ASSUME Typed, NEW q, IsFront(q)
  PROVE  /\ q \in Nat \X Nat \X Nat /\ q[1] \in Nat /\ q[2] \in Nat /\ q[3] \in Nat
         /\ Len(queue) \in Nat /\ Len(queue) >= 1 /\ DOMAIN queue = 1 .. Len(queue) /\ queue[1] = q
<1>1. queue \in Seq(Nat \X Nat \X Nat) /\ queue # <<>> /\ q = Head(queue)
  BY DEF Typed, IsFront
<1>2. Len(queue) \in Nat /\ Len(queue) >= 1 /\ DOMAIN queue = 1 .. Len(queue) /\ queue[1] = q
  BY <1>1
<1>3. q \in Nat \X Nat \X Nat
  BY <1>1, <1>2
<1>4. q[1] \in Nat /\ q[2] \in Nat /\ q[3] \in Nat
  BY <1>3
<1> QED  BY <1>2, <1>3, <1>4

LEMMA Rest ==
  ASSUME Typed, NEW q, IsFront(q)
  PROVE  /\ Others \in Seq(Nat \X Nat \X Nat)
         /\ DOMAIN Others = 1 .. Len(queue) - 1 /\ Len(Others) = Len(queue) - 1
         /\ \A i \in 1 .. Len(queue) - 1 : Others[i] = queue[i + 1]
<1>1. queue \in Seq(Nat \X Nat \X Nat) /\ queue # <<>> /\ Others = Tail(queue)
  BY DEF Typed, IsFront, Others
<1>2. Others \in Seq(Nat \X Nat \X Nat) /\ DOMAIN Others = 1 .. Len(queue) - 1 /\ Len(Others) = Len(queue) - 1
  BY <1>1
<1>3. \A i \in 1 .. Len(queue) - 1 : Others[i] = queue[i + 1]
  BY <1>1
<1> QED  BY <1>2, <1>3

LEMMA FrontAndRest ==
  ASSUME Typed, NEW q, IsFront(q)
  PROVE  ToSet(queue) = {q} \cup ToSet(Others)
<1>1. Len(queue) \in Nat /\ Len(queue) >= 1 /\ DOMAIN queue = 1 .. Len(queue) /\ queue[1] = q
  BY AtFront
<1>2. /\ DOMAIN Others = 1 .. Len(queue) - 1
      /\ \A i \in 1 .. Len(queue) - 1 : Others[i] = queue[i + 1]
  BY Rest
<1>3. ASSUME NEW e \in ToSet(queue)  PROVE e \in {q} \cup ToSet(Others)
  <2>1. PICK i \in DOMAIN queue : e = queue[i]
    BY DEF ToSet
  <2>2. CASE i = 1
    BY <1>1, <2>1, <2>2
  <2>3. CASE i # 1
    <3>1. i - 1 \in 1 .. Len(queue) - 1 /\ (i - 1) + 1 = i
      BY <1>1, <2>1, <2>3
    <3>2. Others[i - 1] = e
      BY <1>2, <2>1, <3>1
    <3> QED  BY <1>2, <3>1, <3>2 DEF ToSet
  <2> QED  BY <2>2, <2>3
<1>4. ASSUME NEW e \in ToSet(Others)  PROVE e \in ToSet(queue)
  <2>1. PICK i \in DOMAIN Others : e = Others[i]
    BY DEF ToSet
  <2>2. i + 1 \in DOMAIN queue /\ e = queue[i + 1]
    BY <1>1, <1>2, <2>1
  <2> QED  BY <2>2 DEF ToSet
<1>5. q \in ToSet(queue)
  <2>1. 1 \in DOMAIN queue
    BY <1>1
  <2> QED  BY <1>1, <2>1 DEF ToSet
<1> QED  BY <1>3, <1>4, <1>5

(* No candidate is cheaper than the one at the front. *)
LEMMA FrontLeast ==
  ASSUME Typed, Sorted, NEW q, IsFront(q), NEW e \in ToSet(queue)
  PROVE  q[3] <= e[3]
<1>1. PICK i \in DOMAIN queue : e = queue[i]
  BY DEF ToSet
<1>2. Len(queue) \in Nat /\ Len(queue) >= 1 /\ DOMAIN queue = 1 .. Len(queue) /\ queue[1] = q
  BY AtFront
<1>3. 1 \in DOMAIN queue /\ 1 <= i
  BY <1>1, <1>2
<1>4. queue[1][3] <= queue[i][3]
  BY <1>1, <1>3 DEF Sorted
<1> QED  BY <1>1, <1>2, <1>4

(* What a candidate says of the distance of its node. *)
LEMMA LeadsTo ==
  ASSUME Typed, NEW q, Leads(q), q[3] \in Nat
  PROVE  /\ q[1] \in DOMAIN network /\ q[2] \in DOMAIN network /\ q[2] \in ToSet(network[source])
         /\ q[1] \in DOMAIN Dist[source] /\ q[1] \in DOMAIN Dist[q[2]]
         /\ Dist[source][q[1]] \in Nat /\ Dist[q[2]][q[1]] \in Nat
         /\ Dist[source][q[1]] <= Dist[q[2]][q[1]] + 1 /\ Dist[q[2]][q[1]] + 1 <= q[3]
<1>1. Metrics(network, Dist) /\ source \in DOMAIN network
  BY InNetwork
<1>2. q[2] \in ToSet(network[source]) /\ q[1] \in DOMAIN Dist[q[2]] /\ Dist[q[2]][q[1]] + 1 <= q[3]
  BY DEF Leads
<1>3. q[2] \in DOMAIN network
  BY <1>1, <1>2, Linked
<1>4. q[1] \in DOMAIN Dist[source] /\ Dist[source][q[1]] <= Dist[q[2]][q[1]] + 1
  BY <1>1, <1>2, Nearer
<1>5. q[1] \in DOMAIN network /\ Dist[source][q[1]] \in Nat /\ Dist[q[2]][q[1]] \in Nat
  BY <1>1, <1>2, <1>3, <1>4, Here
<1> QED  BY <1>2, <1>3, <1>4, <1>5

(* A known node has a hop for each of its neighbours. *)
LEMMA HasHop ==
  ASSUME Typed, HopsRight, NEW p \in DOMAIN route_cost, NEW m
  PROVE  \E h : h \in From(p, m)
<1>1. CASE p = source
  BY <1>1 DEF From
<1>2. CASE p # source
  <2> DEFINE hops == route_cost[p].hops
  <2>1. hops # <<>> /\ hops \in Seq(Nat)
    BY <1>2 DEF HopsRight, Typed
  <2> HIDE DEF hops
  <2>2. 1 \in DOMAIN hops
    BY <2>1
  <2>3. hops[1] \in ToSet(hops)
    BY <2>2 DEF ToSet
  <2> QED  BY <1>2, <2>3 DEF From, hops
<1> QED  BY <1>1, <1>2

(* A node nearer than all candidates is known. *)
LEMMA NearerKnown ==
  ASSUME Search, NEW t \in DOMAIN Dist[source],
         \A e \in ToSet(queue) : Dist[source][t] < e[3]
  PROVE  t \in DOMAIN route_cost
<1> DEFINE d == Dist[source]
           Bad == {k \in Nat : k <= d[t] /\ \E x \in DOMAIN d : d[x] = k /\ x \notin DOMAIN route_cost}
<1>1. Typed /\ CostsRight /\ HopsRight /\ AllPassed
  BY DEF Search
<1>2. Metrics(network, Dist) /\ source \in DOMAIN network /\ source \in DOMAIN route_cost
  BY <1>1, InNetwork DEF Typed
<1>3. d[t] \in Nat
  BY <1>2, Here
<1>4. Bad = {}
  <2> SUFFICES ASSUME Bad # {}  PROVE FALSE
    OBVIOUS
  <2>1. PICK k \in Bad : \A j \in Bad : k <= j
    BY LeastOf
  <2>2. PICK x \in DOMAIN d : d[x] = k /\ x \notin DOMAIN route_cost /\ k \in Nat /\ k <= d[t]
    OBVIOUS
  <2>3. PICK p \in DOMAIN d : x \in ToSet(network[p]) /\ d[p] \in Nat /\ d[x] = d[p] + 1
    BY <1>2, <2>2, Before
  <2>4. d[p] \notin Bad /\ d[p] <= d[t] /\ d[p] + 1 <= d[t]
    BY <1>3, <2>1, <2>2, <2>3
  <2>5. p \in DOMAIN route_cost
    BY <2>3, <2>4
  <2>6. Cost(p) = d[p]
    BY <1>1, <2>5 DEF CostsRight
  <2>7. PICK h : h \in From(p, x)
    BY <1>1, <2>5, HasHop
  <2>8. Passed(p, x, h)
    BY <1>1, <2>3, <2>5, <2>7 DEF AllPassed
  <2>9. <<x, h, Cost(p) + 1>> \in ToSet(queue)
    BY <2>2, <2>8 DEF Passed
  <2>10. d[t] < Cost(p) + 1
    BY <2>9
  <2> QED  BY <1>3, <2>3, <2>4, <2>6, <2>10
<1> QED  BY <1>3, <1>4

(* What entering a candidate enters. *)
Entered(q) ==
  /\ q[1] \in DOMAIN network /\ q[2] \in ToSet(network[source]) /\ q[1] # source
  /\ q[3] \in Nat /\ q[3] # 0
  /\ q[1] \in DOMAIN Dist[source] /\ Dist[source][q[1]] = q[3]
  /\ q[1] \in DOMAIN Dist[q[2]] /\ Dist[q[2]][q[1]] + 1 = q[3]
  /\ q[1] \in DOMAIN route_cost => Cost(q[1]) = q[3]

LEMMA FrontEntered ==
  ASSUME Search, NEW q, IsFront(q), ~(q[1] \in DOMAIN route_cost /\ Cost(q[1]) < q[3])
  PROVE  Entered(q)
<1>1. Typed /\ Sorted /\ CandidatesLead /\ CostsRight
  BY DEF Search
<1>2. Metrics(network, Dist) /\ source \in DOMAIN network
  BY <1>1, InNetwork
<1>3. q[3] \in Nat /\ q \in ToSet(queue)
  BY <1>1, AtFront, FrontAndRest
<1>4. Leads(q)
  BY <1>1, <1>3 DEF CandidatesLead
<1>5. /\ q[1] \in DOMAIN network /\ q[2] \in ToSet(network[source])
      /\ q[1] \in DOMAIN Dist[source] /\ q[1] \in DOMAIN Dist[q[2]]
      /\ Dist[source][q[1]] \in Nat /\ Dist[q[2]][q[1]] \in Nat
      /\ Dist[source][q[1]] <= Dist[q[2]][q[1]] + 1 /\ Dist[q[2]][q[1]] + 1 <= q[3]
  BY <1>1, <1>3, <1>4, LeadsTo
<1>6. q[1] \in DOMAIN route_cost => Cost(q[1]) = Dist[source][q[1]]
  BY <1>1 DEF CostsRight
<1>7. Dist[source][q[1]] = q[3]
  <2> SUFFICES ASSUME Dist[source][q[1]] < q[3]  PROVE FALSE
    BY <1>3, <1>5
  <2>1. ASSUME NEW e \in ToSet(queue)  PROVE Dist[source][q[1]] < e[3]
    <3>1. q[3] <= e[3]
      BY <1>1, FrontLeast
    <3>2. e[3] \in Nat
      <4>1. queue \in Seq(Nat \X Nat \X Nat)
        BY <1>1 DEF Typed
      <4>2. PICK i \in DOMAIN queue : e = queue[i]
        BY DEF ToSet
      <4>3. e \in Nat \X Nat \X Nat
        BY <4>1, <4>2
      <4> QED  BY <4>3
    <3> QED  BY <1>3, <1>5, <3>1, <3>2
  <2>2. q[1] \in DOMAIN route_cost
    BY <1>5, <2>1, NearerKnown
  <2> QED  BY <1>6, <2>2
<1>8. q[1] # source
  <2>1. source \in DOMAIN route_cost /\ Cost(source) = 0
    BY <1>1 DEF Typed
  <2>2. q[3] # 0
    BY <1>3, <1>5
  <2>3. q[1] = source => Cost(q[1]) < q[3] /\ q[1] \in DOMAIN route_cost
    BY <1>3, <2>1, <2>2
  <2> QED  BY <2>3
<1>9. q[3] # 0 /\ Dist[q[2]][q[1]] + 1 = q[3]
  BY <1>3, <1>5, <1>7
<1> QED  BY <1>3, <1>5, <1>6, <1>7, <1>8, <1>9 DEF Entered

(* The two steps, on the candidate at the front. *)
Drop(q) ==
  /\ q[1] \in DOMAIN route_cost /\ Cost(q[1]) < q[3]
  /\ queue' = Others
  /\ UNCHANGED <<network, source, all, route_cost>>

Enter(q) ==
  /\ ~(q[1] \in DOMAIN route_cost /\ Cost(q[1]) < q[3])
  /\ route_cost' = Insert(route_cost, q[1], [hops |-> Hops(q[1], q[2], q[3]), cost |-> q[3]])
  /\ queue' = Others \o Candidates(network, q[1], q[2], q[3] + 1)
  /\ UNCHANGED <<network, source, all>>

LEMMA SkipDrops == Skip => \E q : IsFront(q) /\ Drop(q)
  BY DEF Skip, IsFront, Drop, Seen, Cost, Others

LEMMA ExpandEnters == Expand => \E q : IsFront(q) /\ Enter(q)
<1> SUFFICES ASSUME Expand  PROVE \E q : IsFront(q) /\ Enter(q)
  OBVIOUS
<1>1. IsFront(Head(queue)) /\ Enter(Head(queue))
  BY DEF Expand, IsFront, Enter, Seen, Cost, Others
<1> QED  BY <1>1

LEMMA Joins ==
  ASSUME NEW S, NEW a \in Seq(S), NEW b \in Seq(S)
  PROVE  /\ Len(a) \in Nat /\ Len(b) \in Nat /\ DOMAIN a = 1 .. Len(a) /\ DOMAIN b = 1 .. Len(b)
         /\ DOMAIN (a \o b) = 1 .. Len(a) + Len(b)
         /\ \A i \in 1 .. Len(a) + Len(b) : (a \o b)[i] = IF i <= Len(a) THEN a[i] ELSE b[i - Len(a)]
  BY ConcatProperties, LenProperties

LEMMA Joined ==
  ASSUME NEW S, NEW a \in Seq(S), NEW b \in Seq(S)
  PROVE  ToSet(a \o b) = ToSet(a) \cup ToSet(b)
<1>1. /\ Len(a) \in Nat /\ Len(b) \in Nat /\ DOMAIN a = 1 .. Len(a) /\ DOMAIN b = 1 .. Len(b)
      /\ DOMAIN (a \o b) = 1 .. Len(a) + Len(b)
      /\ \A i \in 1 .. Len(a) + Len(b) : (a \o b)[i] = IF i <= Len(a) THEN a[i] ELSE b[i - Len(a)]
  BY Joins
<1> DEFINE c == a \o b
<1> HIDE DEF c
<1>2. ASSUME NEW e \in ToSet(a)  PROVE e \in ToSet(c)
  <2>1. PICK i \in 1 .. Len(a) : e = a[i]
    BY <1>1 DEF ToSet
  <2>2. i \in 1 .. Len(a) + Len(b) /\ c[i] = e
    BY <1>1, <2>1 DEF c
  <2> QED  BY <1>1, <2>2 DEF ToSet, c
<1>3. ASSUME NEW e \in ToSet(b)  PROVE e \in ToSet(c)
  <2>1. PICK i \in 1 .. Len(b) : e = b[i]
    BY <1>1 DEF ToSet
  <2>2. i + Len(a) \in 1 .. Len(a) + Len(b) /\ ~(i + Len(a) <= Len(a)) /\ (i + Len(a)) - Len(a) = i
    BY <1>1, <2>1
  <2>3. c[i + Len(a)] = e
    BY <1>1, <2>1, <2>2 DEF c
  <2> QED  BY <1>1, <2>2, <2>3 DEF ToSet, c
<1>4. ASSUME NEW e \in ToSet(c)  PROVE e \in ToSet(a) \cup ToSet(b)
  <2>1. PICK i \in 1 .. Len(a) + Len(b) : e = c[i]
    BY <1>1 DEF ToSet, c
  <2>2. CASE i <= Len(a)
    <3>1. i \in 1 .. Len(a) /\ e = a[i]
      BY <1>1, <2>1, <2>2 DEF c
    <3> QED  BY <1>1, <3>1 DEF ToSet
  <2>3. CASE ~(i <= Len(a))
    <3>1. i - Len(a) \in 1 .. Len(b)
      BY <1>1, <2>1, <2>3
    <3>2. e = b[i - Len(a)]
      BY <1>1, <2>1, <2>3 DEF c
    <3> QED  BY <1>1, <3>1, <3>2 DEF ToSet
  <2> QED  BY <2>2, <2>3
<1> QED  BY <1>2, <1>3, <1>4 DEF c

LEMMA NewCandidates ==
  ASSUME Typed, NEW id \in DOMAIN network, NEW hop \in Nat, NEW cost \in Nat
  PROVE  LET new == Candidates(network, id, hop, cost)
         IN  /\ new \in Seq(Nat \X Nat \X Nat)
             /\ \A i \in DOMAIN new : new[i][3] = cost
             /\ ToSet(new) = {<<m, hop, cost>> : m \in ToSet(network[id])}
<1> DEFINE new == Candidates(network, id, hop, cost)
<1>1. network[id] \in Seq(Nat)
  BY InNetwork DEF Metrics, IsNetwork
<1>2. new = [i \in DOMAIN network[id] |-> <<network[id][i], hop, cost>>]
  BY DEF Candidates
<1>3. Len(network[id]) \in Nat /\ DOMAIN network[id] = 1 .. Len(network[id])
  BY <1>1
<1> HIDE DEF new
<1>4. \A i \in DOMAIN network[id] : network[id][i] \in Nat
  BY <1>1
<1>5. new \in [1 .. Len(network[id]) -> Nat \X Nat \X Nat]
  BY <1>2, <1>3, <1>4
<1>6. new \in Seq(Nat \X Nat \X Nat)
  BY <1>3, <1>5, SeqDef
<1>7. \A i \in DOMAIN new : new[i][3] = cost
  BY <1>2
<1>8. ToSet(new) = {<<m, hop, cost>> : m \in ToSet(network[id])}
  BY <1>2 DEF ToSet
<1> QED  BY <1>6, <1>7, <1>8 DEF new

(* The hops entered for a node. *)
LEMMA NewHops ==
  ASSUME Typed, HopsRight, NEW q, IsFront(q), Entered(q)
  PROVE  LET old   == route_cost[q[1]].hops
             hops  == Hops(q[1], q[2], q[3])
             known == all /\ q[1] \in DOMAIN route_cost
         IN  /\ hops \in Seq(Nat) /\ hops # <<>> /\ IsInjective(hops) /\ (~all => Len(hops) = 1)
             /\ q[2] \in ToSet(hops)
             /\ \A h \in ToSet(hops) : h = q[2] \/ (known /\ h \in ToSet(old))
             /\ known => ToSet(old) \subseteq ToSet(hops)
<1> DEFINE old   == route_cost[q[1]].hops
           hops  == Hops(q[1], q[2], q[3])
           known == all /\ q[1] \in DOMAIN route_cost
           hop   == q[2]
<1>1. hop \in Nat
  BY AtFront
<1>2. q[1] \in DOMAIN route_cost => Cost(q[1]) = q[3] /\ q[1] # source
  BY DEF Entered
<1>3. hops = IF known THEN (IF hop \in ToSet(old) THEN old ELSE Append(old, hop)) ELSE <<hop>>
  BY <1>2 DEF Hops, Seen, Cost
<1>4. ASSUME known
      PROVE  old \in Seq(Nat) /\ old # <<>> /\ IsInjective(old)
  BY <1>2, <1>4 DEF HopsRight, Typed
<1> HIDE DEF old, hops, hop
<1>5. CASE ~known
  <2>1. hops = <<hop>>
    BY <1>3, <1>5
  <2>2. hops \in Seq(Nat) /\ hops # <<>> /\ Len(hops) = 1 /\ DOMAIN hops = {1} /\ hops[1] = hop
    BY <1>1, <2>1
  <2>3. ToSet(hops) = {hop}
    BY <2>2 DEF ToSet
  <2>4. IsInjective(hops)
    BY <2>2 DEF IsInjective
  <2> QED  BY <1>5, <2>2, <2>3, <2>4 DEF old, hops, hop
<1>6. CASE known /\ hop \in ToSet(old)
  <2>1. hops = old
    BY <1>3, <1>6
  <2> QED  BY <1>4, <1>6, <2>1 DEF old, hops, hop
<1>7. CASE known /\ hop \notin ToSet(old)
  <2>1. hops = Append(old, hop) /\ old \in Seq(Nat) /\ IsInjective(old)
    BY <1>3, <1>4, <1>7
  <2>2. /\ Len(old) \in Nat /\ DOMAIN old = 1 .. Len(old)
        /\ hops \in Seq(Nat) /\ hops # <<>> /\ DOMAIN hops = 1 .. Len(old) + 1
        /\ hops[Len(old) + 1] = hop
    BY <1>1, <2>1
  <2>3. \A i \in 1 .. Len(old) : hops[i] = old[i]
    BY <1>1, <2>1
  <2>4. ToSet(hops) = ToSet(old) \cup {hop}
    <3>1. ASSUME NEW e \in ToSet(hops)  PROVE e \in ToSet(old) \cup {hop}
      <4>1. PICK i \in 1 .. Len(old) + 1 : e = hops[i]
        BY <2>2 DEF ToSet
      <4>2. i = Len(old) + 1 \/ i \in 1 .. Len(old)
        BY <2>2, <4>1
      <4> QED  BY <2>2, <2>3, <4>1, <4>2 DEF ToSet
    <3>2. ASSUME NEW e \in ToSet(old)  PROVE e \in ToSet(hops)
      <4>1. PICK i \in 1 .. Len(old) : e = old[i]
        BY <2>2 DEF ToSet
      <4>2. i \in 1 .. Len(old) + 1 /\ hops[i] = e
        BY <2>2, <2>3, <4>1
      <4> QED  BY <2>2, <4>2 DEF ToSet
    <3>3. hop \in ToSet(hops)
      <4>1. Len(old) + 1 \in DOMAIN hops
        BY <2>2
      <4> QED  BY <2>2, <4>1 DEF ToSet
    <3> QED  BY <3>1, <3>2, <3>3
  <2>5. IsInjective(hops)
    <3> SUFFICES ASSUME NEW i \in DOMAIN hops, NEW j \in DOMAIN hops, hops[i] = hops[j]  PROVE i = j
      BY DEF IsInjective
    <3>1. \A k \in 1 .. Len(old) : old[k] # hop
      BY <1>7, <2>2 DEF ToSet
    <3>2. i \in 1 .. Len(old) \/ i = Len(old) + 1
      BY <2>2
    <3>3. j \in 1 .. Len(old) \/ j = Len(old) + 1
      BY <2>2
    <3>4. CASE i \in 1 .. Len(old) /\ j \in 1 .. Len(old)
      BY <2>1, <2>2, <2>3, <3>4 DEF IsInjective
    <3> QED  BY <2>2, <2>3, <3>1, <3>2, <3>3, <3>4
  <2> QED  BY <1>7, <2>2, <2>4, <2>5 DEF old, hops, hop
<1> QED  BY <1>5, <1>6, <1>7

(* What is known after a candidate was entered. *)
LEMMA NewRoutes ==
  ASSUME NEW q, Enter(q)
  PROVE  /\ DOMAIN route_cost' = DOMAIN route_cost \cup {q[1]}
         /\ route_cost'[q[1]].cost = q[3] /\ route_cost'[q[1]].hops = Hops(q[1], q[2], q[3])
         /\ \A p \in DOMAIN route_cost : p # q[1] => route_cost'[p] = route_cost[p]
<1>1. route_cost' = Insert(route_cost, q[1], [hops |-> Hops(q[1], q[2], q[3]), cost |-> q[3]])
  BY DEF Enter
<1>2. /\ DOMAIN route_cost' = DOMAIN route_cost \cup {q[1]}
      /\ route_cost'[q[1]] = [hops |-> Hops(q[1], q[2], q[3]), cost |-> q[3]]
      /\ \A p \in DOMAIN route_cost : p # q[1] => route_cost'[p] = route_cost[p]
  BY <1>1 DEF Insert
<1> QED  BY <1>2

LEMMA NewQueue ==
  ASSUME Typed, NEW q, IsFront(q), Enter(q), Entered(q)
  PROVE  /\ queue' \in Seq(Nat \X Nat \X Nat)
         /\ ToSet(queue') = ToSet(Others) \cup {<<m, q[2], q[3] + 1>> : m \in ToSet(network[q[1]])}
<1>1. q[1] \in DOMAIN network /\ q[2] \in Nat /\ q[3] + 1 \in Nat
  BY AtFront DEF Entered
<1> DEFINE new == Candidates(network, q[1], q[2], q[3] + 1)
<1>2. /\ new \in Seq(Nat \X Nat \X Nat)
      /\ ToSet(new) = {<<m, q[2], q[3] + 1>> : m \in ToSet(network[q[1]])}
  BY <1>1, NewCandidates
<1>3. queue' = Others \o new
  BY DEF Enter
<1>4. Others \in Seq(Nat \X Nat \X Nat)
  BY Rest
<1> HIDE DEF new
<1>5. Others \o new \in Seq(Nat \X Nat \X Nat)
  BY <1>2, <1>4
<1> QED  BY <1>2, <1>3, <1>4, <1>5, Joined

(* Skip keeps the invariant. *)
LEMMA DropKeeps ==
  ASSUME Search, NEW q, IsFront(q), Drop(q)
  PROVE  Search'
<1>1. Typed /\ Sorted /\ CandidatesLead /\ CostsRight /\ HopsRight /\ AllPassed
  BY DEF Search
<1>2. /\ q[1] \in DOMAIN route_cost /\ Cost(q[1]) < q[3] /\ queue' = Others
      /\ network' = network /\ source' = source /\ all' = all /\ route_cost' = route_cost
  BY DEF Drop
<1>3. Others \in Seq(Nat \X Nat \X Nat) /\ ToSet(queue) = {q} \cup ToSet(Others)
  BY <1>1, Rest, FrontAndRest
<1>4. Typed'
  BY <1>1, <1>2, <1>3 DEF Typed, Cost
<1>5. Sorted'
  <2>1. Len(queue) \in Nat /\ Len(queue) >= 1 /\ DOMAIN queue = 1 .. Len(queue)
    BY <1>1, AtFront
  <2>2. /\ DOMAIN Others = 1 .. Len(queue) - 1
        /\ \A i \in 1 .. Len(queue) - 1 : Others[i] = queue[i + 1]
    BY <1>1, Rest
  <2>3. ASSUME NEW i \in DOMAIN Others, NEW j \in DOMAIN Others
        PROVE  Others[j][3] <= Others[i][3] + 1 /\ (i <= j => Others[i][3] <= Others[j][3])
    <3>1. i + 1 \in DOMAIN queue /\ j + 1 \in DOMAIN queue /\ (i <= j => i + 1 <= j + 1)
      BY <2>1, <2>2, <2>3
    <3>2. Others[i] = queue[i + 1] /\ Others[j] = queue[j + 1]
      BY <2>2, <2>3
    <3> QED  BY <1>1, <3>1, <3>2 DEF Sorted
  <2> QED  BY <1>2, <2>3 DEF Sorted
<1>6. CandidatesLead'
  BY <1>1, <1>2, <1>3 DEF CandidatesLead, Leads, Dist
<1>7. CostsRight'
  BY <1>1, <1>2 DEF CostsRight, Dist, Cost
<1>8. HopsRight'
  BY <1>1, <1>2 DEF HopsRight, Dist, Cost
<1>9. AllPassed'
  <2> SUFFICES ASSUME NEW p \in DOMAIN route_cost, NEW m \in ToSet(network[p]), NEW h \in From(p, m)
               PROVE  Passed(p, m, h)'
    BY <1>2 DEF AllPassed, From
  <2>1. Passed(p, m, h)
    BY <1>1 DEF AllPassed
  <2>2. Cost(p) \in Nat /\ Cost(q[1]) \in Nat /\ q[3] \in Nat
    BY <1>1, <1>2, AtFront DEF Typed
  <2>3. CASE <<m, h, Cost(p) + 1>> = q
    <3>1. m = q[1] /\ Cost(p) + 1 = q[3]
      BY <2>3
    <3>2. m \in DOMAIN route_cost /\ Cost(m) <= Cost(p)
      BY <1>2, <2>2, <3>1
    <3> QED  BY <1>2, <3>2 DEF Passed, Cost
  <2>4. CASE <<m, h, Cost(p) + 1>> # q
    BY <1>2, <1>3, <2>1, <2>4 DEF Passed, Cost
  <2> QED  BY <2>3, <2>4
<1> QED  BY <1>4, <1>5, <1>6, <1>7, <1>8, <1>9 DEF Search

(* Expand keeps it, part by part. *)
LEMMA EnterTyped ==
  ASSUME Typed, HopsRight, NEW q, IsFront(q), Enter(q), Entered(q)
  PROVE  Typed'
<1>1. network' = network /\ source' = source /\ all' = all
  BY DEF Enter
<1>2. queue' \in Seq(Nat \X Nat \X Nat)
  BY NewQueue
<1>3. /\ DOMAIN route_cost' = DOMAIN route_cost \cup {q[1]}
      /\ route_cost'[q[1]].cost = q[3] /\ route_cost'[q[1]].hops = Hops(q[1], q[2], q[3])
      /\ \A p \in DOMAIN route_cost : p # q[1] => route_cost'[p] = route_cost[p]
  BY NewRoutes
<1>4. Hops(q[1], q[2], q[3]) \in Seq(Nat)
  BY NewHops
<1>5. q[3] \in Nat /\ q[1] # source
  BY DEF Entered
<1>6. \A id \in DOMAIN route_cost' : route_cost'[id].cost \in Nat /\ route_cost'[id].hops \in Seq(Nat)
  BY <1>3, <1>4, <1>5 DEF Typed, Cost
<1>7. source \in DOMAIN route_cost' /\ route_cost'[source].cost = 0
  BY <1>3, <1>5 DEF Typed, Cost
<1> QED  BY <1>1, <1>2, <1>6, <1>7 DEF Typed, Cost

LEMMA EnterSorted ==
  ASSUME Typed, Sorted, NEW q, IsFront(q), Enter(q), Entered(q)
  PROVE  Sorted'
<1> DEFINE c   == q[3]
           n   == Len(queue) - 1
           new == Candidates(network, q[1], q[2], q[3] + 1)
<1>1. /\ Len(queue) \in Nat /\ Len(queue) >= 1 /\ DOMAIN queue = 1 .. Len(queue) /\ queue[1] = q
      /\ q[2] \in Nat /\ c \in Nat
  BY AtFront
<1>2. /\ Others \in Seq(Nat \X Nat \X Nat) /\ DOMAIN Others = 1 .. n /\ Len(Others) = n
      /\ \A i \in 1 .. n : Others[i] = queue[i + 1]
  BY Rest
<1>3. new \in Seq(Nat \X Nat \X Nat) /\ \A i \in DOMAIN new : new[i][3] = c + 1
  <2>1. q[1] \in DOMAIN network /\ q[3] + 1 \in Nat
    BY <1>1 DEF Entered
  <2> QED  BY <1>1, <2>1, NewCandidates
<1>4. queue' = Others \o new
  BY DEF Enter
<1> HIDE DEF new
<1>5. Len(new) \in Nat /\ DOMAIN new = 1 .. Len(new)
  BY <1>3
<1>6. /\ DOMAIN (Others \o new) = 1 .. n + Len(new)
      /\ \A i \in 1 .. n + Len(new) : (Others \o new)[i] = IF i <= n THEN Others[i] ELSE new[i - n]
  <2>1. /\ DOMAIN (Others \o new) = 1 .. Len(Others) + Len(new)
        /\ \A i \in 1 .. Len(Others) + Len(new) :
             (Others \o new)[i] = IF i <= Len(Others) THEN Others[i] ELSE new[i - Len(Others)]
    <3> DEFINE S == Nat \X Nat \X Nat
    <3>1. Others \in Seq(S) /\ new \in Seq(S)
      BY <1>2, <1>3
    <3> HIDE DEF S
    <3> QED  BY <3>1, Joins
  <2>2. Len(Others) = n
    BY <1>2
  <2> HIDE DEF n
  <2> QED  BY <2>1, <2>2
<1> DEFINE k(i) == (Others \o new)[i][3]
<1>7. ASSUME NEW i \in 1 .. n
      PROVE  k(i) = queue[i + 1][3] /\ k(i) \in Nat /\ c <= k(i) /\ k(i) <= c + 1
  <2>1. i \in 1 .. n + Len(new) /\ i <= n
    BY <1>1, <1>5, <1>7
  <2>2. k(i) = queue[i + 1][3]
    BY <1>2, <1>6, <1>7, <2>1
  <2>3. 1 \in DOMAIN queue /\ i + 1 \in DOMAIN queue /\ 1 <= i + 1
    BY <1>1, <1>7
  <2>4. queue[i + 1][3] <= queue[1][3] + 1 /\ queue[1][3] <= queue[i + 1][3]
    BY <2>3 DEF Sorted
  <2>5. queue[i + 1][3] \in Nat
    <3>1. queue[i + 1] \in Nat \X Nat \X Nat
      BY <2>3 DEF Typed
    <3> QED  BY <3>1
  <2> HIDE DEF k
  <2> QED  BY <1>1, <2>2, <2>4, <2>5
<1>8. ASSUME NEW i \in 1 .. n + Len(new), ~(i <= n)
      PROVE  k(i) = c + 1
  <2>1. i - n \in DOMAIN new
    BY <1>1, <1>5, <1>8
  <2> QED  BY <1>3, <1>6, <1>8, <2>1
<1> HIDE DEF k, c
<1>9. ASSUME NEW i \in 1 .. n + Len(new), NEW j \in 1 .. n + Len(new)
      PROVE  k(j) <= k(i) + 1 /\ (i <= j => k(i) <= k(j))
  <2>1. n \in Nat /\ c \in Nat
    BY <1>1
  <2>2. CASE i <= n /\ j <= n
    <3>1. i \in 1 .. n /\ j \in 1 .. n
      BY <2>1, <2>2
    <3>2. i + 1 \in DOMAIN queue /\ j + 1 \in DOMAIN queue /\ (i <= j => i + 1 <= j + 1)
      BY <1>1, <3>1
    <3>3. /\ queue[j + 1][3] <= queue[i + 1][3] + 1
          /\ i + 1 <= j + 1 => queue[i + 1][3] <= queue[j + 1][3]
      BY <3>2 DEF Sorted
    <3>4. k(i) = queue[i + 1][3] /\ k(j) = queue[j + 1][3]
      BY <1>7, <3>1
    <3> QED  BY <3>2, <3>3, <3>4
  <2>3. CASE i <= n /\ ~(j <= n)
    <3>1. i \in 1 .. n
      BY <2>1, <2>3
    <3>2. k(i) \in Nat /\ c <= k(i) /\ k(i) <= c + 1 /\ k(j) = c + 1
      BY <1>7, <1>8, <2>3, <3>1
    <3> QED  BY <2>1, <3>2
  <2>4. CASE ~(i <= n) /\ j <= n
    <3>1. j \in 1 .. n /\ ~(i <= j)
      BY <2>1, <2>4
    <3>2. k(j) \in Nat /\ c <= k(j) /\ k(j) <= c + 1 /\ k(i) = c + 1
      BY <1>7, <1>8, <2>4, <3>1
    <3> QED  BY <2>1, <3>1, <3>2
  <2>5. CASE ~(i <= n) /\ ~(j <= n)
    <3>1. k(i) = c + 1 /\ k(j) = c + 1
      BY <1>8, <2>5
    <3> QED  BY <2>1, <3>1
  <2> QED  BY <2>2, <2>3, <2>4, <2>5
<1>10. \A i, j \in DOMAIN queue' :
         queue'[j][3] <= queue'[i][3] + 1 /\ (i <= j => queue'[i][3] <= queue'[j][3])
  BY <1>4, <1>6, <1>9 DEF k
<1> QED  BY <1>10 DEF Sorted

LEMMA EnterLeads ==
  ASSUME Typed, CandidatesLead, NEW q, IsFront(q), Enter(q), Entered(q)
  PROVE  CandidatesLead'
<1>1. network' = network /\ source' = source
  BY DEF Enter
<1>2. ToSet(queue') = ToSet(Others) \cup {<<m, q[2], q[3] + 1>> : m \in ToSet(network[q[1]])}
  BY NewQueue
<1>3. ToSet(Others) \subseteq ToSet(queue)
  BY FrontAndRest
<1>4. ASSUME NEW m \in ToSet(network[q[1]])  PROVE Leads(<<m, q[2], q[3] + 1>>)
  <2>1. /\ Metrics(network, Dist) /\ source \in DOMAIN network
        /\ q[2] \in ToSet(network[source]) /\ q[1] \in DOMAIN Dist[q[2]] /\ Dist[q[2]][q[1]] + 1 = q[3]
    BY InNetwork DEF Entered
  <2>2. q[2] \in DOMAIN network
    BY <2>1, Linked
  <2>3. /\ m \in DOMAIN Dist[q[2]] /\ Dist[q[2]][m] \in Nat /\ Dist[q[2]][q[1]] \in Nat
        /\ Dist[q[2]][m] <= Dist[q[2]][q[1]] + 1
    BY <1>4, <2>1, <2>2, After
  <2>4. Dist[q[2]][m] + 1 <= q[3] + 1
    BY <2>1, <2>3
  <2> QED  BY <2>1, <2>3, <2>4 DEF Leads
<1>5. ASSUME NEW e \in ToSet(queue')  PROVE Leads(e)
  BY <1>2, <1>3, <1>4 DEF CandidatesLead
<1> QED  BY <1>1, <1>5 DEF CandidatesLead, Leads, Dist

LEMMA EnterCosts ==
  ASSUME CostsRight, NEW q, Enter(q), Entered(q)
  PROVE  CostsRight'
<1>1. network' = network /\ source' = source
  BY DEF Enter
<1>2. /\ DOMAIN route_cost' = DOMAIN route_cost \cup {q[1]} /\ route_cost'[q[1]].cost = q[3]
      /\ \A p \in DOMAIN route_cost : p # q[1] => route_cost'[p] = route_cost[p]
  BY NewRoutes
<1>3. q[1] \in DOMAIN Dist[source] /\ Dist[source][q[1]] = q[3]
  BY DEF Entered
<1>4. \A id \in DOMAIN route_cost' : id \in DOMAIN Dist[source] /\ route_cost'[id].cost = Dist[source][id]
  BY <1>2, <1>3 DEF CostsRight, Cost
<1> QED  BY <1>1, <1>4 DEF CostsRight, Cost, Dist

LEMMA EnterHops ==
  ASSUME Typed, HopsRight, NEW q, IsFront(q), Enter(q), Entered(q)
  PROVE  HopsRight'
<1> DEFINE Right(id, hops, cost) ==
             /\ hops # <<>> /\ IsInjective(hops) /\ (~all => Len(hops) = 1)
             /\ \A h \in ToSet(hops) :
                  h \in ToSet(network[source]) /\ id \in DOMAIN Dist[h] /\ Dist[h][id] + 1 = cost
           new == Hops(q[1], q[2], q[3])
<1>1. network' = network /\ source' = source /\ all' = all
  BY DEF Enter
<1>2. /\ DOMAIN route_cost' = DOMAIN route_cost \cup {q[1]}
      /\ route_cost'[q[1]].cost = q[3] /\ route_cost'[q[1]].hops = new
      /\ \A p \in DOMAIN route_cost : p # q[1] => route_cost'[p] = route_cost[p]
  BY NewRoutes
<1>3. \A id \in DOMAIN route_cost \ {source} : Right(id, route_cost[id].hops, route_cost[id].cost)
  BY DEF HopsRight, Cost
<1>4. Right(q[1], new, q[3])
  <2>1. /\ q[2] \in ToSet(network[source]) /\ q[1] \in DOMAIN Dist[q[2]] /\ Dist[q[2]][q[1]] + 1 = q[3]
        /\ q[1] # source /\ (q[1] \in DOMAIN route_cost => route_cost[q[1]].cost = q[3])
    BY DEF Entered, Cost
  <2>2. /\ new # <<>> /\ IsInjective(new) /\ (~all => Len(new) = 1)
        /\ \A h \in ToSet(new) :
             h = q[2] \/ (q[1] \in DOMAIN route_cost /\ h \in ToSet(route_cost[q[1]].hops))
    BY NewHops
  <2> HIDE DEF new
  <2>3. ASSUME NEW h \in ToSet(new)
        PROVE  h \in ToSet(network[source]) /\ q[1] \in DOMAIN Dist[h] /\ Dist[h][q[1]] + 1 = q[3]
    <3>1. CASE h = q[2]
      BY <2>1, <3>1
    <3>2. CASE q[1] \in DOMAIN route_cost /\ h \in ToSet(route_cost[q[1]].hops)
      <4>1. Right(q[1], route_cost[q[1]].hops, route_cost[q[1]].cost)
        BY <1>3, <2>1, <3>2
      <4> QED  BY <2>1, <3>2, <4>1
    <3> QED  BY <2>2, <3>1, <3>2
  <2> QED  BY <2>2, <2>3
<1> HIDE DEF Right, new
<1>5. \A id \in DOMAIN route_cost' \ {source} : Right(id, route_cost'[id].hops, route_cost'[id].cost)
  BY <1>2, <1>3, <1>4
<1> QED  BY <1>1, <1>5 DEF HopsRight, Cost, Dist, Right

(* What had reached a neighbour still has, and what is entered is on its way. *)
LEMMA EnterPassed ==
  ASSUME Typed, HopsRight, AllPassed, NEW q, IsFront(q), Enter(q), Entered(q)
  PROVE  AllPassed'
<1>1. network' = network /\ source' = source /\ all' = all
  BY DEF Enter
<1>2. /\ DOMAIN route_cost' = DOMAIN route_cost \cup {q[1]}
      /\ route_cost'[q[1]].cost = q[3] /\ route_cost'[q[1]].hops = Hops(q[1], q[2], q[3])
      /\ \A p \in DOMAIN route_cost : p # q[1] => route_cost'[p] = route_cost[p]
  BY NewRoutes
<1>3. /\ q[1] # source /\ q[3] \in Nat
      /\ (q[1] \in DOMAIN route_cost => route_cost[q[1]].cost = q[3])
  BY DEF Entered, Cost
<1>4. /\ q[2] \in ToSet(Hops(q[1], q[2], q[3]))
      /\ \A h \in ToSet(Hops(q[1], q[2], q[3])) :
           \/ h = q[2]
           \/ q[1] \in DOMAIN route_cost /\ h \in ToSet(route_cost[q[1]].hops)
      /\ all /\ q[1] \in DOMAIN route_cost =>
           ToSet(route_cost[q[1]].hops) \subseteq ToSet(Hops(q[1], q[2], q[3]))
  BY NewHops
<1>5. /\ ToSet(queue') = ToSet(Others) \cup {<<m, q[2], q[3] + 1>> : m \in ToSet(network[q[1]])}
      /\ ToSet(queue) = {q} \cup ToSet(Others)
  BY NewQueue, FrontAndRest
<1>6. \A p \in DOMAIN route_cost : route_cost'[p].cost = route_cost[p].cost
  BY <1>2, <1>3
<1>7. ASSUME NEW p \in DOMAIN route_cost, NEW m \in ToSet(network[p]), NEW h \in From(p, m)
      PROVE  Passed(p, m, h)'
  <2>1. Passed(p, m, h)
    BY <1>7 DEF AllPassed
  <2>2. route_cost'[p].cost = route_cost[p].cost /\ p \in DOMAIN route_cost'
    BY <1>2, <1>6
  <2>3. CASE <<m, h, Cost(p) + 1>> = q
    <3>1. m = q[1] /\ h = q[2] /\ Cost(p) + 1 = q[3]
      BY <2>3
    <3>2. m \in DOMAIN route_cost' /\ route_cost'[m].cost = route_cost'[p].cost + 1
      BY <1>2, <2>2, <3>1 DEF Cost
    <3>3. h \in ToSet(route_cost'[m].hops)
      BY <1>2, <1>4, <3>1
    <3> QED  BY <3>2, <3>3 DEF Passed, Cost
  <2>4. CASE <<m, h, Cost(p) + 1>> \in ToSet(queue) /\ <<m, h, Cost(p) + 1>> # q
    <3>1. <<m, h, route_cost'[p].cost + 1>> \in ToSet(queue')
      BY <1>5, <2>2, <2>4 DEF Cost
    <3> QED  BY <3>1 DEF Passed, Cost
  <2>5. CASE m \in DOMAIN route_cost /\ Cost(m) <= Cost(p)
    <3>1. m \in DOMAIN route_cost' /\ route_cost'[m].cost <= route_cost'[p].cost
      BY <1>2, <1>6, <2>2, <2>5 DEF Cost
    <3> QED  BY <3>1 DEF Passed, Cost
  <2>6. CASE /\ m \in DOMAIN route_cost /\ Cost(m) = Cost(p) + 1
             /\ all => h \in ToSet(route_cost[m].hops)
    <3>1. m \in DOMAIN route_cost' /\ route_cost'[m].cost = route_cost'[p].cost + 1
      BY <1>2, <1>6, <2>2, <2>6 DEF Cost
    <3>2. all' => h \in ToSet(route_cost'[m].hops)
      BY <1>1, <1>2, <1>4, <2>6
    <3> QED  BY <3>1, <3>2 DEF Passed, Cost
  <2> QED  BY <2>1, <2>3, <2>4, <2>5, <2>6 DEF Passed
<1>8. ASSUME NEW m \in ToSet(network[q[1]])  PROVE Passed(q[1], m, q[2])'
  <2>1. <<m, q[2], route_cost'[q[1]].cost + 1>> \in ToSet(queue')
    BY <1>2, <1>5, <1>8
  <2> QED  BY <2>1 DEF Passed, Cost
<1>9. SUFFICES ASSUME NEW p \in DOMAIN route_cost', NEW m \in ToSet(network[p]), NEW h \in From(p, m)'
               PROVE  Passed(p, m, h)'
  BY <1>1 DEF AllPassed
<1>10. CASE p = q[1]
  <2>1. h \in ToSet(Hops(q[1], q[2], q[3]))
    BY <1>1, <1>2, <1>3, <1>9, <1>10 DEF From
  <2>2. CASE h = q[2]
    BY <1>8, <1>9, <1>10, <2>2
  <2>3. CASE q[1] \in DOMAIN route_cost /\ h \in ToSet(route_cost[q[1]].hops)
    <3>1. h \in From(p, m)
      BY <1>3, <1>10, <2>3 DEF From
    <3> QED  BY <1>7, <1>9, <1>10, <2>3, <3>1
  <2> QED  BY <1>4, <2>1, <2>2, <2>3
<1>11. CASE p # q[1]
  <2>1. p \in DOMAIN route_cost /\ h \in From(p, m)
    BY <1>1, <1>2, <1>9, <1>11 DEF From
  <2> QED  BY <1>7, <1>9, <2>1
<1> QED  BY <1>10, <1>11

LEMMA EnterKeeps ==
  ASSUME Search, NEW q, IsFront(q), Enter(q)
  PROVE  Search'
<1>1. Typed /\ Sorted /\ CandidatesLead /\ CostsRight /\ HopsRight /\ AllPassed
  BY DEF Search
<1>2. Entered(q)
  BY FrontEntered DEF Enter
<1> QED  BY <1>1, <1>2, EnterTyped, EnterSorted, EnterLeads, EnterCosts, EnterHops, EnterPassed DEF Search

LEMMA InitSearch == Init => Search
<1> SUFFICES ASSUME Init  PROVE Search
  OBVIOUS
<1> DEFINE links == network[source]
<1>1. /\ network \in Networks /\ source \in DOMAIN network /\ all \in BOOLEAN
      /\ queue = [i \in DOMAIN links |-> <<links[i], links[i], 1>>]
      /\ route_cost = [id \in {source} |-> [hops |-> <<source>>, cost |-> 0]]
  BY DEF Init
<1>2. network \in Seq(Seq(Nat)) /\ links \in Seq(Nat) /\ source \in Nat
  BY <1>1, NetworksAssumption
<1>3. Metrics(network, Dist)
  BY <1>1, AllMetrics DEF Dist
<1>4. /\ DOMAIN route_cost = {source} /\ Cost(source) = 0
      /\ route_cost[source].hops = <<source>> /\ <<source>> \in Seq(Nat)
  BY <1>1, <1>2 DEF Cost
<1> HIDE DEF links
<1>5. Len(links) \in Nat /\ DOMAIN links = 1 .. Len(links) /\ \A i \in DOMAIN links : links[i] \in Nat
  BY <1>2
<1>6. queue \in [1 .. Len(links) -> Nat \X Nat \X Nat]
  BY <1>1, <1>5
<1>7. queue \in Seq(Nat \X Nat \X Nat)
  BY <1>5, <1>6, SeqDef
<1>8. ToSet(queue) = {<<m, m, 1>> : m \in ToSet(links)} /\ \A i \in DOMAIN queue : queue[i][3] = 1
  BY <1>1 DEF ToSet
<1>9. Typed
  <2>1. ASSUME NEW id \in DOMAIN route_cost
        PROVE  Cost(id) \in Nat /\ route_cost[id].hops \in Seq(Nat)
    <3>1. id = source
      BY <1>4
    <3> DEFINE hops == <<source>>
    <3>2. route_cost[id].hops = hops /\ hops \in Seq(Nat)
      BY <1>4, <3>1
    <3> HIDE DEF hops
    <3> QED  BY <1>4, <3>1, <3>2
  <2> QED  BY <1>1, <1>4, <1>7, <2>1 DEF Typed
<1>10. Sorted
  BY <1>8 DEF Sorted
<1>11. CandidatesLead
  <2>1. ASSUME NEW m \in ToSet(links)  PROVE Leads(<<m, m, 1>>)
    <3>1. m \in DOMAIN network
      BY <1>1, <1>3, <2>1, Linked DEF links
    <3>2. m \in DOMAIN Dist[m] /\ Dist[m][m] = 0
      BY <1>3, <3>1, Here
    <3> QED  BY <2>1, <3>2 DEF Leads, links
  <2> QED  BY <1>8, <2>1 DEF CandidatesLead
<1>12. CostsRight
  BY <1>1, <1>3, <1>4, Here DEF CostsRight
<1>13. HopsRight
  BY <1>4 DEF HopsRight
<1>14. AllPassed
  <2> SUFFICES ASSUME NEW m \in ToSet(links)  PROVE Passed(source, m, m)
    BY <1>4 DEF AllPassed, From, links
  <2>1. <<m, m, Cost(source) + 1>> \in ToSet(queue)
    BY <1>4, <1>8
  <2> QED  BY <2>1 DEF Passed
<1> QED  BY <1>9, <1>10, <1>11, <1>12, <1>13, <1>14 DEF Search

(* What the search knows is right at every turn: the queue is ordered, the  *)
(* costs are exact, the hops begin shortest paths, and what is known of a   *)
(* node has reached its neighbours or is a candidate for them.              *)
THEOREM Invariant == Spec => []Search
<1>1. Search /\ [Next]_vars => Search'
  <2> SUFFICES ASSUME Search, [Next]_vars  PROVE Search'
    OBVIOUS
  <2>1. CASE Skip
    BY <2>1, SkipDrops, DropKeeps
  <2>2. CASE Expand
    BY <2>2, ExpandEnters, EnterKeeps
  <2>3. CASE UNCHANGED vars
    BY <2>3 DEF vars, Search, Typed, Sorted, CandidatesLead, Leads, CostsRight, HopsRight, AllPassed,
                From, Passed, Cost, Dist
  <2> QED  BY <2>1, <2>2, <2>3 DEF Next, Returned
<1> QED  BY InitSearch, <1>1, PTL DEF Spec

(* Breadth first search never has to correct a cost. *)
THEOREM ExactCosts == Spec => []CostsExact
<1>1. Search => CostsExact
  BY DEF Search, CostsRight, CostsExact, Cost, Dist
<1> QED  BY <1>1, Invariant, PTL

-----------------------------------------------------------------------------
(* What is returned *)

LEMMA InjectiveLen ==
  ASSUME NEW hops \in Seq(Nat), IsInjective(hops)
  PROVE  Cardinality(ToSet(hops)) = Len(hops)
<1>1. Len(hops) \in Nat /\ DOMAIN hops = 1 .. Len(hops)
  OBVIOUS
<1>2. hops \in [1 .. Len(hops) -> ToSet(hops)]
  <2>1. hops = [i \in 1 .. Len(hops) |-> hops[i]]
    BY <1>1
  <2>2. \A i \in 1 .. Len(hops) : hops[i] \in ToSet(hops)
    BY <1>1 DEF ToSet
  <2> QED  BY <2>1, <2>2
<1>3. hops \in Bijection(1 .. Len(hops), ToSet(hops))
  BY <1>1, <1>2 DEF IsInjective, ToSet, Bijection, Injection, Surjection, IsInjective
<1>4. ExistsBijection(1 .. Len(hops), ToSet(hops))
  BY <1>3 DEF ExistsBijection
<1> QED  BY <1>1, <1>4, FS_CountingElements

(* All first hops of shortest paths are found. *)
LEMMA AllFound ==
  ASSUME Search, queue = <<>>, all, NEW t \in DOMAIN Dist[source], t # source,
         NEW h \in ToSet(network[source]), t \in DOMAIN Dist[h], Dist[h][t] + 1 = Dist[source][t]
  PROVE  h \in ToSet(route_cost[t].hops)
<1> DEFINE d == Dist[source]
           Good(x) == h \in ToSet(route_cost[x].hops)
           Bad == {k \in Nat : \E x \in DOMAIN Dist[h] : /\ x \in DOMAIN d /\ x # source
                                                        /\ Dist[h][x] = k /\ d[x] = k + 1 /\ ~Good(x)}
<1>1. Typed /\ CostsRight /\ AllPassed
  BY DEF Search
<1>2. Metrics(network, Dist) /\ source \in DOMAIN network /\ source \in DOMAIN route_cost /\ Cost(source) = 0
  BY <1>1, InNetwork DEF Typed
<1>3. h \in DOMAIN network
  BY <1>2, Linked
<1>4. \A x \in DOMAIN d : x \in DOMAIN route_cost /\ Cost(x) = d[x] /\ d[x] \in Nat
  <2>1. ToSet(queue) = {}
    BY DEF ToSet
  <2>2. \A x \in DOMAIN d : x \in DOMAIN route_cost
    BY <2>1, NearerKnown
  <2> QED  BY <1>1, <1>2, <2>2, Here DEF CostsRight
<1>5. ASSUME NEW p \in DOMAIN d, NEW x \in ToSet(network[p]), h \in From(p, x), x \in DOMAIN d, d[x] = d[p] + 1
      PROVE  Good(x)
  <2>1. Passed(p, x, h) /\ ToSet(queue) = {}
    BY <1>1, <1>4, <1>5 DEF AllPassed, ToSet
  <2>2. Cost(x) = Cost(p) + 1 /\ Cost(p) \in Nat
    BY <1>4, <1>5
  <2> QED  BY <2>1, <2>2 DEF Passed
<1>6. Bad = {}
  <2> SUFFICES ASSUME Bad # {}  PROVE FALSE
    OBVIOUS
  <2>1. PICK k \in Bad : \A j \in Bad : k <= j
    BY LeastOf
  <2>2. PICK x \in DOMAIN Dist[h] : /\ x \in DOMAIN d /\ x # source /\ k \in Nat
                                  /\ Dist[h][x] = k /\ d[x] = k + 1 /\ ~Good(x)
    OBVIOUS
  <2> HIDE DEF Good
  <2>3. CASE x = h
    <3>1. Dist[h][h] = 0 /\ d[source] = 0 /\ source \in DOMAIN d
      BY <1>2, <1>3, Here
    <3>2. h \in From(source, h)
      BY DEF From
    <3>3. Good(h)
      BY <1>5, <2>2, <2>3, <3>1, <3>2
    <3> QED  BY <2>2, <2>3, <3>3
  <2>4. CASE x # h
    <3>1. PICK p \in DOMAIN Dist[h] :
            x \in ToSet(network[p]) /\ Dist[h][p] \in Nat /\ Dist[h][x] = Dist[h][p] + 1
      BY <1>2, <1>3, <2>2, <2>4, Before
    <3>2. p \in DOMAIN d /\ d[p] <= Dist[h][p] + 1
      BY <1>2, <3>1, Nearer
    <3>3. d[x] <= d[p] + 1 /\ d[p] \in Nat
      BY <1>2, <3>1, <3>2, After
    <3>4. d[p] = Dist[h][p] + 1 /\ d[x] = d[p] + 1
      BY <2>2, <3>1, <3>2, <3>3
    <3>5. p # source
      BY <1>2, <3>1, <3>4, Here
    <3>6. Dist[h][p] \notin Bad
      BY <2>1, <2>2, <3>1
    <3>7. Good(p)
      BY <3>1, <3>2, <3>4, <3>5, <3>6
    <3>8. h \in From(p, x)
      BY <3>5, <3>7 DEF From, Good
    <3> QED  BY <1>5, <2>2, <3>1, <3>2, <3>4, <3>8
  <2> QED  BY <2>3, <2>4
<1>7. Dist[h][t] \in Nat
  BY <1>2, <1>3, Here
<1> QED  BY <1>6, <1>7

LEMMA Returns == Search => ShortestPaths
<1> SUFFICES ASSUME Search, queue = <<>>
             PROVE  LET dist == AllDistances[network]
                    IN  /\ DOMAIN route_cost = DOMAIN dist[source]
                        /\ \A id \in DOMAIN route_cost \ {source} :
                             LET hops == route_cost[id].hops
                                 best == NextHops(network, source, dist[id])
                             IN  /\ ToSet(hops) \subseteq best
                                 /\ Len(hops) = IF all THEN Cardinality(best) ELSE 1
                                 /\ all => ToSet(hops) = best
  BY DEF ShortestPaths
<1>1. Typed /\ CostsRight /\ HopsRight
  BY DEF Search
<1>2. Metrics(network, Dist) /\ source \in DOMAIN network
  BY <1>1, InNetwork
<1>3. DOMAIN route_cost = DOMAIN Dist[source]
  <2>1. ToSet(queue) = {}
    BY DEF ToSet
  <2>2. \A x \in DOMAIN Dist[source] : x \in DOMAIN route_cost
    BY <2>1, NearerKnown
  <2> QED  BY <1>1, <2>2 DEF CostsRight
<1>4. ASSUME NEW id \in DOMAIN route_cost, id # source
      PROVE  LET hops == route_cost[id].hops
                 best == NextHops(network, source, Dist[id])
             IN  /\ ToSet(hops) \subseteq best
                 /\ Len(hops) = IF all THEN Cardinality(best) ELSE 1
                 /\ all => ToSet(hops) = best
  <2> DEFINE hops == route_cost[id].hops
             best == NextHops(network, source, Dist[id])
  <2>1. id \in DOMAIN Dist[source] /\ Cost(id) = Dist[source][id]
    BY <1>1 DEF CostsRight
  <2>2. best = {h \in ToSet(network[source]) : id \in DOMAIN Dist[h] /\ Dist[h][id] + 1 = Dist[source][id]}
    BY <1>2, <2>1, Firsts
  <2>3. /\ IsInjective(hops) /\ hops \in Seq(Nat) /\ (~all => Len(hops) = 1)
        /\ \A h \in ToSet(hops) :
             h \in ToSet(network[source]) /\ id \in DOMAIN Dist[h] /\ Dist[h][id] + 1 = Cost(id)
    BY <1>1, <1>4 DEF HopsRight, Typed
  <2> HIDE DEF hops, best
  <2>4. ToSet(hops) \subseteq best
    BY <2>1, <2>2, <2>3
  <2>5. ASSUME all  PROVE best \subseteq ToSet(hops)
    BY <1>4, <2>1, <2>2, <2>5, AllFound DEF hops
  <2>6. Cardinality(ToSet(hops)) = Len(hops)
    BY <2>3, InjectiveLen
  <2>7. all => ToSet(hops) = best
    BY <2>4, <2>5
  <2> QED  BY <2>3, <2>4, <2>6, <2>7 DEF hops, best
<1> QED  BY <1>3, <1>4 DEF Dist

(* What is returned has a route to every node that can be reached, and      *)
(* route_all the first hops of all shortest paths to it, once each.         *)
THEOREM PathsShortest == Spec => []ShortestPaths
  BY Invariant, Returns, PTL

-----------------------------------------------------------------------------
(* The networks *)

LEMMA NewIsNetwork ==
  ASSUME NEW n \in Nat
  PROVE  IsNetwork(NewNetwork(n))
<1> DEFINE net == NewNetwork(n)
<1>1. net = [id \in 1 .. n |-> <<>>] /\ <<>> \in Seq(Nat)
  BY DEF NewNetwork
<1>2. net \in [1 .. n -> Seq(Nat)]
  BY <1>1
<1>3. net \in Seq(Seq(Nat))
  BY <1>2, SeqDef
<1>4. ASSUME NEW id \in 1 .. n  PROVE ToSet(net[id]) = {}
  BY <1>1 DEF ToSet
<1>5. TwoWay(net)
  BY <1>1, <1>4 DEF TwoWay
<1> QED  BY <1>3, <1>5 DEF IsNetwork

LEMMA Appended ==
  ASSUME NEW a \in Seq(Nat), NEW x \in Nat
  PROVE  Append(a, x) \in Seq(Nat) /\ ToSet(Append(a, x)) = ToSet(a) \cup {x}
<1> DEFINE c == Append(a, x)
<1>1. /\ Len(a) \in Nat /\ DOMAIN a = 1 .. Len(a) /\ c \in Seq(Nat)
      /\ DOMAIN c = 1 .. Len(a) + 1 /\ c[Len(a) + 1] = x
  OBVIOUS
<1>2. \A i \in 1 .. Len(a) : c[i] = a[i]
  BY <1>1
<1> HIDE DEF c
<1>3. ASSUME NEW e \in ToSet(c)  PROVE e \in ToSet(a) \cup {x}
  <2>1. PICK i \in 1 .. Len(a) + 1 : e = c[i]
    BY <1>1 DEF ToSet
  <2>2. i = Len(a) + 1 \/ i \in 1 .. Len(a)
    BY <1>1, <2>1
  <2> QED  BY <1>1, <1>2, <2>1, <2>2 DEF ToSet
<1>4. ASSUME NEW e \in ToSet(a)  PROVE e \in ToSet(c)
  <2>1. PICK i \in 1 .. Len(a) : e = a[i]
    BY <1>1 DEF ToSet
  <2>2. i \in 1 .. Len(a) + 1 /\ c[i] = e
    BY <1>1, <1>2, <2>1
  <2> QED  BY <1>1, <2>2 DEF ToSet
<1>5. x \in ToSet(c)
  <2>1. Len(a) + 1 \in DOMAIN c
    BY <1>1
  <2> QED  BY <1>1, <2>1 DEF ToSet
<1> QED  BY <1>1, <1>3, <1>4, <1>5 DEF c

(* connect() links the two nodes to one another, and nothing else.          *)
Linking(net, new, src, dst) ==
  /\ new \in Seq(Seq(Nat)) /\ DOMAIN new = DOMAIN net
  /\ \A n \in DOMAIN net :
       ToSet(new[n]) = ToSet(net[n]) \cup (IF n = src THEN {dst} ELSE {})
                                     \cup (IF n = dst THEN {src} ELSE {})

LEMMA Connects ==
  ASSUME NEW net, IsNetwork(net), NEW src \in DOMAIN net, NEW dst \in DOMAIN net
  PROVE  Linking(net, Connect(net, src, dst), src, dst)
<1> DEFINE one == [net EXCEPT ![src] = Append(@, dst)]
           new == Connect(net, src, dst)
<1>1. /\ Len(net) \in Nat /\ DOMAIN net = 1 .. Len(net) /\ net \in Seq(Seq(Nat))
      /\ \A n \in DOMAIN net : net[n] \in Seq(Nat) /\ n \in Nat
  BY LenProperties DEF IsNetwork
<1>2. new = [one EXCEPT ![dst] = Append(@, src)]
  BY DEF Connect
<1>3. /\ DOMAIN one = DOMAIN net
      /\ \A n \in DOMAIN net : one[n] = IF n = src THEN Append(net[n], dst) ELSE net[n]
  OBVIOUS
<1> HIDE DEF one, new
<1>4. /\ DOMAIN new = DOMAIN net
      /\ \A n \in DOMAIN net : new[n] = IF n = dst THEN Append(one[n], src) ELSE one[n]
  BY <1>2, <1>3
<1>5. ASSUME NEW n \in DOMAIN net
      PROVE  /\ one[n] \in Seq(Nat)
             /\ ToSet(one[n]) = ToSet(net[n]) \cup (IF n = src THEN {dst} ELSE {})
  <2>1. net[n] \in Seq(Nat) /\ dst \in Nat
    BY <1>1
  <2>2. Append(net[n], dst) \in Seq(Nat) /\ ToSet(Append(net[n], dst)) = ToSet(net[n]) \cup {dst}
    BY <2>1, Appended
  <2> QED  BY <1>3, <2>1, <2>2
<1>6. ASSUME NEW n \in DOMAIN net
      PROVE  /\ new[n] \in Seq(Nat)
             /\ ToSet(new[n]) = ToSet(one[n]) \cup (IF n = dst THEN {src} ELSE {})
  <2>1. one[n] \in Seq(Nat) /\ src \in Nat
    BY <1>1, <1>5
  <2>2. Append(one[n], src) \in Seq(Nat) /\ ToSet(Append(one[n], src)) = ToSet(one[n]) \cup {src}
    BY <2>1, Appended
  <2> QED  BY <1>4, <2>1, <2>2
<1>7. new \in [1 .. Len(net) -> Seq(Nat)]
  <2>1. new = [n \in DOMAIN net |-> new[n]]
    BY <1>2, <1>3
  <2>2. \A n \in DOMAIN net : new[n] \in Seq(Nat)
    BY <1>6
  <2> QED  BY <1>1, <2>1, <2>2
<1>8. new \in Seq(Seq(Nat))
  <2> DEFINE S == Seq(Nat)
             k == Len(net)
  <2>1. k \in Nat /\ new \in [1 .. k -> S]
    BY <1>1, <1>7
  <2> HIDE DEF S, k
  <2>2. new \in Seq(S)
    BY <2>1, SeqDef
  <2> QED  BY <2>2 DEF S
<1>9. Linking(net, new, src, dst)
  BY <1>4, <1>5, <1>6, <1>8 DEF Linking
<1> QED  BY <1>9 DEF new

(* What the search assumes of its networks, every call of connect() keeps.  *)
THEOREM ConnectKeeps ==
  ASSUME NEW net, IsNetwork(net), NEW src \in DOMAIN net, NEW dst \in DOMAIN net
  PROVE  IsNetwork(Connect(net, src, dst))
<1> DEFINE new == Connect(net, src, dst)
<1>1. Linking(net, new, src, dst)
  BY Connects
<1> HIDE DEF new
<1>2. /\ new \in Seq(Seq(Nat)) /\ DOMAIN new = DOMAIN net
      /\ \A n \in DOMAIN net :
           ToSet(new[n]) = ToSet(net[n]) \cup (IF n = src THEN {dst} ELSE {})
                                         \cup (IF n = dst THEN {src} ELSE {})
  BY <1>1 DEF Linking
<1>3. \A n \in DOMAIN net : \A m \in ToSet(net[n]) : m \in DOMAIN net /\ n \in ToSet(net[m])
  BY DEF IsNetwork, TwoWay
<1>4. ASSUME NEW n \in DOMAIN net, NEW m \in ToSet(new[n])
      PROVE  m \in DOMAIN net /\ n \in ToSet(new[m])
  <2>1. CASE m \in ToSet(net[n])
    BY <1>2, <1>3, <2>1
  <2>2. CASE n = src /\ m = dst
    BY <1>2, <2>2
  <2>3. CASE n = dst /\ m = src
    BY <1>2, <2>3
  <2> QED  BY <1>2, <1>4, <2>1, <2>2, <2>3
<1> QED  BY <1>2, <1>4 DEF new, IsNetwork, TwoWay
=============================================================================
