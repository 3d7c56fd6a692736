----------------------------- MODULE CommonLemmas -----------------------------
(***************************************************************************)
(* What the proofs of several components need: distances in a network, what *)
(* the operators of a TCP flow return, and sequences of events, as a queue  *)
(* of Links holds them.                                                     *)
(***************************************************************************)
EXTENDS Integers, Sequences, SequencesExt, FiniteSetsExt, Topology, Tcp, SequenceTheorems,
        FiniteSetTheorems, FunctionTheorems, WellFoundedInduction, TLAPS

-----------------------------------------------------------------------------
(* Numbers *)

(* A set of numbers has a least one. *)
LEMMA LeastOf ==
  ASSUME NEW S \in SUBSET Nat, S # {}
  PROVE  \E x \in S : \A y \in S : x <= y
<1>1. \E x \in S : \A y \in S : ~(<<y, x>> \in OpToRel(<, Nat))
  BY NatLessThanWellFounded, WFMin
<1>2. PICK x \in S : \A y \in S : ~(y < x)
  BY <1>1 DEF OpToRel
<1> QED  BY <1>2

-----------------------------------------------------------------------------
(* Distances in a network *)

IsNetwork(net) == net \in Seq(Seq(Nat)) /\ TwoWay(net)

(* b[k] is the ball of radius k around s, for the radii up to m. *)
AreBalls(b, net, s, m) ==
  b = [k \in 0 .. m |-> IF k = 0 THEN {s} ELSE Around(net, b[k - 1])]

LEMMA BallsExist ==
  ASSUME NEW net, NEW s, NEW m \in Nat
  PROVE  \E b : AreBalls(b, net, s, m)
<1> DEFINE Bad == {k \in Nat : ~\E b : AreBalls(b, net, s, k)}
<1> SUFFICES ASSUME Bad # {}  PROVE FALSE
  OBVIOUS
<1>1. PICK k \in Bad : \A j \in Bad : k <= j
  BY LeastOf
<1>2. k \in Nat /\ ~\E b : AreBalls(b, net, s, k)
  OBVIOUS
<1>3. CASE k = 0
  <2>1. AreBalls([i \in 0 .. 0 |-> {s}], net, s, 0)
    BY DEF AreBalls
  <2> QED  BY <1>2, <1>3, <2>1
<1>4. CASE k # 0
  <2>1. k - 1 \in Nat /\ k - 1 \notin Bad
    BY <1>1, <1>2, <1>4
  <2>2. PICK g : AreBalls(g, net, s, k - 1)
    BY <2>1
  <2> DEFINE h == [i \in 0 .. k |-> IF i = k THEN Around(net, g[k - 1]) ELSE g[i]]
  <2>3. \A i \in 0 .. k - 1 : g[i] = IF i = 0 THEN {s} ELSE Around(net, g[i - 1])
    BY <2>2 DEF AreBalls
  <2>4. \A i \in 0 .. k : h[i] = IF i = 0 THEN {s} ELSE Around(net, h[i - 1])
    <3> TAKE i \in 0 .. k
    <3>1. CASE i = k
      BY <1>2, <1>4, <3>1
    <3>2. CASE i # k /\ i = 0
      BY <1>2, <1>4, <2>3, <3>2
    <3>3. CASE i # k /\ i # 0
      <4>1. i \in 0 .. k - 1 /\ i - 1 \in 0 .. k /\ i - 1 # k
        BY <1>2, <3>3
      <4>2. h[i] = g[i] /\ h[i - 1] = g[i - 1]
        BY <3>3, <4>1
      <4> QED  BY <2>3, <3>3, <4>1, <4>2
    <3> QED  BY <3>1, <3>2, <3>3
  <2>5. h = [i \in 0 .. k |-> IF i = 0 THEN {s} ELSE Around(net, h[i - 1])]
    <3>1. h = [i \in 0 .. k |-> h[i]]
      OBVIOUS
    <3> HIDE DEF h
    <3> QED  BY <2>4, <3>1
  <2> HIDE DEF h
  <2>6. AreBalls(h, net, s, k)
    BY <2>5 DEF AreBalls
  <2> QED  BY <1>2, <2>6
<1> QED  BY <1>3, <1>4

LEMMA BallsAre ==
  ASSUME NEW net, Len(net) \in Nat, NEW s
  PROVE  /\ Balls(net, s)[0] = {s}
         /\ \A k \in 1 .. Len(net) : Balls(net, s)[k] = Around(net, Balls(net, s)[k - 1])
<1>1. \E b : AreBalls(b, net, s, Len(net))
  BY BallsExist
<1>2. AreBalls(Balls(net, s), net, s, Len(net))
  BY <1>1 DEF Balls, AreBalls
<1> DEFINE b == Balls(net, s)
           n == Len(net)
<1>3. b = [k \in 0 .. n |-> IF k = 0 THEN {s} ELSE Around(net, b[k - 1])]
  BY <1>2 DEF AreBalls
<1> HIDE DEF b, n
<1>4. n \in Nat
  BY DEF n
<1>5. \A k \in 0 .. n : b[k] = IF k = 0 THEN {s} ELSE Around(net, b[k - 1])
  BY <1>3
<1>6. b[0] = {s} /\ \A k \in 1 .. n : b[k] = Around(net, b[k - 1])
  BY <1>4, <1>5
<1> QED  BY <1>6 DEF b, n

(* The nodes around a set are nodes, and as many more as there are new.     *)
LEMMA AroundGrows ==
  ASSUME NEW net, IsNetwork(net), NEW nodes \in SUBSET DOMAIN net
  PROVE  /\ nodes \subseteq Around(net, nodes) /\ Around(net, nodes) \subseteq DOMAIN net
         /\ \A p \in nodes : ToSet(net[p]) \subseteq Around(net, nodes)
         /\ \A t \in Around(net, nodes) \ nodes : \E p \in nodes : t \in ToSet(net[p])
  BY DEF Around, IsNetwork, TwoWay

LEMMA Nodes ==
  ASSUME NEW net, IsNetwork(net)
  PROVE  /\ Len(net) \in Nat /\ DOMAIN net = 1 .. Len(net)
         /\ IsFiniteSet(DOMAIN net) /\ Cardinality(DOMAIN net) = Len(net)
<1>1. Len(net) \in Nat /\ DOMAIN net = 1 .. Len(net)
  BY LenProperties DEF IsNetwork
<1>2. 1 \in Int /\ Len(net) \in Int
  BY <1>1
<1>3. IsFiniteSet(1 .. Len(net)) /\ Cardinality(1 .. Len(net)) = IF 1 > Len(net) THEN 0 ELSE Len(net) - 1 + 1
  BY <1>2, FS_Interval
<1> QED  BY <1>1, <1>3

(* A ball that has stopped growing has all that can be reached. *)
SelfContained(net, nodes) == \A p \in nodes : ToSet(net[p]) \subseteq nodes

LEMMA BallsGrow ==
  ASSUME NEW net, IsNetwork(net), NEW s \in DOMAIN net, NEW k \in 0 .. Len(net)
  PROVE  LET b == Balls(net, s)
         IN  /\ b[k] \in SUBSET DOMAIN net /\ s \in b[k]
             /\ SelfContained(net, b[k]) \/ Cardinality(b[k]) >= k + 1
<1> DEFINE b == Balls(net, s)
           n == Len(net)
           Good(i) == /\ b[i] \in SUBSET DOMAIN net /\ s \in b[i]
                      /\ SelfContained(net, b[i]) \/ Cardinality(b[i]) >= i + 1
           Bad == {i \in 0 .. n : ~Good(i)}
<1>1. n \in Nat /\ IsFiniteSet(DOMAIN net)
  BY Nodes
<1>2. b[0] = {s} /\ \A i \in 1 .. n : b[i] = Around(net, b[i - 1])
  BY <1>1, BallsAre
<1> HIDE DEF b, n
<1>3. Good(0)
  <2>1. Cardinality({s}) = 1
    BY FS_Singleton
  <2> QED  BY <1>2, <2>1
<1>4. ASSUME NEW i \in 1 .. n, Good(i - 1)  PROVE Good(i)
  <2> DEFINE c == b[i - 1]
  <2>1. c \in SUBSET DOMAIN net /\ s \in c /\ b[i] = Around(net, c)
    BY <1>2, <1>4
  <2>2. c \subseteq b[i] /\ b[i] \subseteq DOMAIN net /\ \A p \in c : ToSet(net[p]) \subseteq b[i]
    BY <2>1, AroundGrows
  <2>3. \A t \in b[i] \ c : \E p \in c : t \in ToSet(net[p])
    BY <2>1, AroundGrows
  <2>4. IsFiniteSet(c) /\ IsFiniteSet(b[i])
    BY <1>1, <2>1, <2>2, FS_Subset
  <2>5. CASE b[i] = c
    <3>1. SelfContained(net, b[i])
      BY <2>2, <2>5 DEF SelfContained
    <3> QED  BY <2>1, <2>2, <3>1
  <2>6. CASE b[i] # c
    <3>1. ~SelfContained(net, c)
      BY <2>2, <2>3, <2>6 DEF SelfContained
    <3>2. Cardinality(c) >= (i - 1) + 1
      BY <1>4, <3>1
    <3>3. Cardinality(c) <= Cardinality(b[i]) /\ Cardinality(c) # Cardinality(b[i])
      BY <2>2, <2>4, <2>6, FS_Subset
    <3>4. Cardinality(c) \in Nat /\ Cardinality(b[i]) \in Nat
      BY <2>4, FS_CardinalityType
    <3>5. i \in Nat
      BY <1>1
    <3> HIDE DEF c
    <3>6. Cardinality(b[i]) >= i + 1
      BY <3>2, <3>3, <3>4, <3>5
    <3> QED  BY <2>1, <2>2, <3>6
  <2> QED  BY <2>5, <2>6
<1>5. Bad = {}
  <2> SUFFICES ASSUME Bad # {}  PROVE FALSE
    OBVIOUS
  <2>1. Bad \in SUBSET Nat
    OBVIOUS
  <2>2. PICK i \in Bad : \A j \in Bad : i <= j
    BY <2>1, LeastOf
  <2>3. i \in 0 .. n /\ ~Good(i)
    OBVIOUS
  <2> HIDE DEF Good
  <2>4. i \in 1 .. n /\ i - 1 \in 0 .. n
    BY <1>1, <1>3, <2>3
  <2>5. i - 1 \notin Bad
    BY <1>1, <2>2, <2>3
  <2>6. Good(i - 1)
    BY <2>4, <2>5
  <2> QED  BY <1>4, <2>3, <2>4, <2>6
<1> HIDE DEF Good
<1>6. Good(k)
  BY <1>5 DEF n
<1> QED  BY <1>6 DEF Good, b

LEMMA BallsInside ==
  ASSUME NEW net, IsNetwork(net), NEW s \in DOMAIN net, NEW k \in 0 .. Len(net)
  PROVE  Balls(net, s)[k] \subseteq Balls(net, s)[Len(net)]
<1> DEFINE b == Balls(net, s)
           n == Len(net)
           Bad == {i \in Nat : i <= n /\ ~(b[n - i] \subseteq b[n])}
<1>1. n \in Nat
  BY Nodes
<1>2. \A i \in 1 .. n : b[i - 1] \subseteq b[i]
  <2> TAKE i \in 1 .. n
  <2>1. b[i] = Around(net, b[i - 1])
    BY <1>1, BallsAre
  <2>2. i - 1 \in 0 .. n
    BY <1>1
  <2>3. b[i - 1] \in SUBSET DOMAIN net
    BY <2>2, BallsGrow
  <2> HIDE DEF b
  <2> QED  BY <2>1, <2>3, AroundGrows
<1> HIDE DEF b, n
<1>3. Bad = {}
  <2> SUFFICES ASSUME Bad # {}  PROVE FALSE
    OBVIOUS
  <2>1. PICK i \in Bad : \A j \in Bad : i <= j
    BY LeastOf
  <2>2. i \in Nat /\ i <= n /\ ~(b[n - i] \subseteq b[n])
    OBVIOUS
  <2>3. i # 0
    BY <1>1, <2>2
  <2>4. i - 1 \in Nat /\ i - 1 <= n /\ i - 1 \notin Bad /\ n - i + 1 \in 1 .. n
    BY <1>1, <2>1, <2>2, <2>3
  <2>5. b[n - (i - 1)] \subseteq b[n] /\ n - (i - 1) = n - i + 1 /\ (n - i + 1) - 1 = n - i
    BY <1>1, <2>2, <2>4
  <2>6. b[(n - i + 1) - 1] \subseteq b[n - i + 1]
    BY <1>2, <2>4
  <2> QED  BY <2>2, <2>5, <2>6
<1>4. n - k \in Nat /\ n - k <= n /\ n - (n - k) = k
  BY <1>1 DEF n
<1>5. b[k] \subseteq b[n]
  BY <1>3, <1>4
<1> QED  BY <1>5 DEF b, n

(* What distances are: 0 at s, one more at most over a link, and one less   *)
(* at some neighbour.                                                       *)
Metric(net, s, d) ==
  /\ DOMAIN d \subseteq DOMAIN net /\ s \in DOMAIN d /\ d[s] = 0
  /\ \A t \in DOMAIN d : d[t] \in Nat
  /\ \A t \in DOMAIN d : \A m \in ToSet(net[t]) : m \in DOMAIN d /\ d[m] <= d[t] + 1
  /\ \A t \in DOMAIN d \ {s} : \E p \in DOMAIN d : t \in ToSet(net[p]) /\ d[t] = d[p] + 1

LEMMA DistancesMetric ==
  ASSUME NEW net, IsNetwork(net), NEW s \in DOMAIN net
  PROVE  Metric(net, s, Distances(net, s))
<1> DEFINE b == Balls(net, s)
           n == Len(net)
           d == Distances(net, s)
           At(t, k) == k \in 0 .. n /\ t \in b[k] /\ \A j \in 0 .. k - 1 : t \notin b[j]
<1>1. n \in Nat /\ DOMAIN net = 1 .. n /\ IsFiniteSet(DOMAIN net) /\ Cardinality(DOMAIN net) = n
  BY Nodes
<1>2. b[0] = {s} /\ \A k \in 1 .. n : b[k] = Around(net, b[k - 1])
  BY <1>1, BallsAre
<1>3. \A k \in 0 .. n : b[k] \in SUBSET DOMAIN net /\ s \in b[k] /\ b[k] \subseteq b[n]
  BY BallsGrow, BallsInside
<1>4. SelfContained(net, b[n])
  <2>1. n \in 0 .. n
    BY <1>1
  <2>2. SelfContained(net, b[n]) \/ Cardinality(b[n]) >= n + 1
    BY <2>1, BallsGrow
  <2>3. Cardinality(b[n]) <= n /\ IsFiniteSet(b[n])
    BY <1>1, <1>3, <2>1, FS_Subset
  <2>4. Cardinality(b[n]) \in Nat
    BY <2>3, FS_CardinalityType
  <2> HIDE DEF b, n
  <2> QED  BY <1>1, <2>2, <2>3, <2>4
<1>5. d = [t \in b[n] |-> CHOOSE k \in 0 .. n : t \in b[k] /\ \A j \in 0 .. k - 1 : t \notin b[j]]
  BY DEF Distances
<1> HIDE DEF b, n, d
<1>6. ASSUME NEW t \in b[n]  PROVE At(t, d[t])
  <2> DEFINE S == {k \in 0 .. n : t \in b[k]}
  <2>1. S \in SUBSET Nat /\ n \in S
    BY <1>1
  <2>2. PICK k \in S : \A j \in S : k <= j
    BY <2>1, LeastOf
  <2>3. k \in 0 .. n /\ t \in b[k]
    OBVIOUS
  <2>4. \A j \in 0 .. k - 1 : t \notin b[j]
    BY <1>1, <2>2, <2>3
  <2>5. d[t] = CHOOSE i \in 0 .. n : t \in b[i] /\ \A j \in 0 .. i - 1 : t \notin b[j]
    BY <1>5
  <2> QED  BY <2>3, <2>4, <2>5
<1>7. ASSUME NEW t \in b[n]  PROVE d[t] \in 0 .. n /\ t \in b[d[t]] /\ \A j \in 0 .. d[t] - 1 : t \notin b[j]
  BY <1>6
<1> HIDE DEF At
<1>8. DOMAIN d = b[n]
  BY <1>5
<1>9. ASSUME NEW t \in b[n], NEW k \in 0 .. n, t \in b[k]  PROVE d[t] <= k
  BY <1>1, <1>7, <1>9
<1>10. ASSUME NEW t \in b[n], NEW m \in ToSet(net[t])  PROVE m \in b[n] /\ d[m] <= d[t] + 1
  <2>1. m \in b[n]
    BY <1>4, <1>10 DEF SelfContained
  <2>2. d[t] \in 0 .. n /\ t \in b[d[t]] /\ d[m] \in 0 .. n
    BY <1>7, <1>10, <2>1
  <2>3. CASE d[t] = n
    <3>1. d[m] <= d[t] + 1
      BY <1>1, <2>2, <2>3
    <3> QED  BY <2>1, <3>1
  <2>4. CASE d[t] # n
    <3>1. d[t] + 1 \in 1 .. n /\ (d[t] + 1) - 1 = d[t]
      BY <1>1, <2>2, <2>4
    <3>2. b[d[t] + 1] = Around(net, b[d[t]]) /\ b[d[t]] \in SUBSET DOMAIN net
      BY <1>2, <1>3, <2>2, <3>1
    <3>3. ToSet(net[t]) \subseteq b[d[t] + 1]
      BY <2>2, <3>2, AroundGrows
    <3>4. d[t] + 1 \in 0 .. n
      BY <1>1, <3>1
    <3>5. m \in b[d[t] + 1]
      BY <1>10, <3>3
    <3>6. d[m] <= d[t] + 1
      BY <1>9, <2>1, <3>4, <3>5
    <3> QED  BY <2>1, <3>6
  <2> QED  BY <2>1, <2>3, <2>4
<1>11. s \in b[n] /\ d[s] = 0
  <2>1. 0 \in 0 .. n /\ s \in b[0]
    BY <1>1, <1>2
  <2>2. s \in b[n]
    BY <1>3, <2>1
  <2>3. d[s] <= 0 /\ d[s] \in 0 .. n
    BY <1>7, <1>9, <2>1, <2>2
  <2> QED  BY <1>1, <2>2, <2>3
<1>12. ASSUME NEW t \in b[n], t # s  PROVE \E p \in b[n] : t \in ToSet(net[p]) /\ d[t] = d[p] + 1
  <2>1. d[t] \in 0 .. n /\ t \in b[d[t]] /\ \A j \in 0 .. d[t] - 1 : t \notin b[j]
    BY <1>7
  <2>2. d[t] # 0
    BY <1>2, <1>12, <2>1
  <2>3. d[t] \in 1 .. n /\ d[t] - 1 \in 0 .. n /\ d[t] - 1 \in 0 .. d[t] - 1
    BY <1>1, <2>1, <2>2
  <2>4. b[d[t]] = Around(net, b[d[t] - 1]) /\ b[d[t] - 1] \in SUBSET DOMAIN net /\ b[d[t] - 1] \subseteq b[n]
    BY <1>2, <1>3, <2>3
  <2>5. t \notin b[d[t] - 1]
    BY <2>1, <2>3
  <2>6. PICK p \in b[d[t] - 1] : t \in ToSet(net[p])
    BY <2>1, <2>4, <2>5, AroundGrows
  <2>7. p \in b[n]
    BY <2>4, <2>6
  <2>8. d[p] <= d[t] - 1
    BY <1>9, <2>3, <2>6, <2>7
  <2>9. d[t] <= d[p] + 1
    BY <1>10, <2>6, <2>7
  <2>10. d[p] \in 0 .. n
    BY <1>7, <2>7
  <2>11. d[t] = d[p] + 1
    BY <1>1, <2>1, <2>8, <2>9, <2>10
  <2> QED  BY <2>6, <2>7, <2>11
<1>13. \A t \in b[n] : d[t] \in Nat
  BY <1>1, <1>7
<1>14. b[n] \subseteq DOMAIN net
  <2>1. n \in 0 .. n
    BY <1>1
  <2> QED  BY <1>3, <2>1
<1> HIDE DEF Metric
<1>15. Metric(net, s, d)
  BY <1>8, <1>10, <1>11, <1>12, <1>13, <1>14 DEF Metric
<1> QED  BY <1>15 DEF d

-----------------------------------------------------------------------------
(* A TCP flow *)

(* The packets a flow of this size is cut into. *)
PacketsOf(size) == (size + BytesPerPacket - 1) \div BytesPerPacket

FlowRecord(size) ==
  [src : Nat, dst : Nat, size_byte : {size}, start : Nat,
   outstanding : 0 .. Cwnd, n_acked : Nat, next_seq : 0 .. PacketsOf(size),
   acked : SUBSET Nat, rtx_queue : Seq(Nat)]

(* What the flow has sent, and what of it is not acked. *)
SentOf(f)  == 0 .. f.next_seq - 1
Missing(f) == SentOf(f) \ f.acked

(* The counters, of a flow that waits for nothing but acks and timeouts.    *)
Counters(f) ==
  /\ f.acked \subseteq SentOf(f)
  /\ f.n_acked = Cardinality(f.acked)
  /\ f.outstanding = f.next_seq - f.n_acked
  /\ f.rtx_queue = <<>>

(* It has filled its window, too. *)
Filled(f, size) ==
  Counters(f) /\ (f.outstanding < Cwnd => f.next_seq = PacketsOf(size))

(* The packets from number q on are sent. *)
Sends(r, q) ==
  \E n \in Nat : r.sent = [k \in 1 .. n |-> q + k - 1] /\ r.flow.next_seq = q + n

SameFlow(f, g) == g.src = f.src /\ g.dst = f.dst /\ g.start = f.start

LEMMA PacketCount ==
  ASSUME NEW z \in Nat
  PROVE  /\ PacketsOf(z) \in Nat
         /\ \A x \in Nat : x * BytesPerPacket < z <=> x < PacketsOf(z)
<1> DEFINE b == BytesPerPacket
           y == z + b - 1
           n == y \div b
<1>1. b \in Nat \ {0} /\ z \in Nat
  BY TcpAssumption
<1>2. y \in Nat /\ y = z + b - 1
  BY <1>1
<1> HIDE DEF b, y
<1>3. n \in Nat /\ n * b <= y /\ y < n * b + b /\ n * b \in Nat
  BY <1>1, <1>2
<1>4. PacketsOf(z) = n
  BY DEF PacketsOf, n, y, b
<1> HIDE DEF n
<1>5. ASSUME NEW x \in Nat  PROVE x * b < z <=> x < n
  <2>1. CASE x < n
    <3>1. (x + 1) * b <= n * b /\ (x + 1) * b = x * b + b /\ x * b \in Nat
      BY <1>1, <1>3, <2>1
    <3> QED  BY ONLY <1>1, <1>2, <1>3, <2>1, <3>1
  <2>2. CASE ~(x < n)
    <3>1. n * b <= x * b /\ x * b \in Nat
      BY <1>1, <1>3, <2>2
    <3> QED  BY ONLY <1>1, <1>2, <1>3, <2>2, <3>1
  <2> QED  BY <2>1, <2>2
<1> QED  BY <1>3, <1>4, <1>5 DEF b

LEMMA SizeOfPrefix ==
  ASSUME NEW n \in Nat
  PROVE  IsFiniteSet(1 .. n) /\ Cardinality(1 .. n) = n
  BY FS_Interval

(* n packets are what fits behind o in a window of c and q in m packets.    *)
FillsTo(n, o, c, q, m) ==
  /\ o + n <= c /\ q + n <= m
  /\ o + n < c => q + n = m
  /\ \A k \in 1 .. c : o + k <= c /\ q + k - 1 < m <=> k <= n

LEMMA FillsToExists ==
  ASSUME NEW c \in Nat, NEW o \in 0 .. c, NEW m \in Nat, NEW q \in 0 .. m
  PROVE  \E n \in 0 .. c : FillsTo(n, o, c, q, m)
<1> DEFINE n == IF c - o <= m - q THEN c - o ELSE m - q
<1>1. n \in 0 .. c /\ FillsTo(n, o, c, q, m)
  BY DEF FillsTo
<1> HIDE DEF n
<1> QED  BY <1>1

(* The next n packets fill the window or reach the end of the flow. *)
LEMMA FillNew ==
  ASSUME NEW z \in Nat, NEW f \in FlowRecord(z), f.rtx_queue = <<>>
  PROVE  \E n \in 0 .. Cwnd :
           /\ Fill(f).sent = [k \in 1 .. n |-> f.next_seq + k - 1]
           /\ Fill(f).flow = [f EXCEPT !.outstanding = @ + n, !.next_seq = @ + n]
           /\ f.outstanding + n <= Cwnd /\ f.next_seq + n <= PacketsOf(z)
           /\ f.outstanding + n < Cwnd => f.next_seq + n = PacketsOf(z)
<1> DEFINE o == f.outstanding
           q == f.next_seq
           S == {k \in 1 .. Cwnd : f.outstanding + k <= Cwnd /\ HasNext(f, k)}
<1>1. Cwnd \in Nat \ {0} /\ PacketsOf(z) \in Nat /\ o \in 0 .. Cwnd /\ q \in 0 .. PacketsOf(z)
  BY TcpAssumption, PacketCount DEF FlowRecord
<1>0. PICK n \in 0 .. Cwnd : FillsTo(n, o, Cwnd, q, PacketsOf(z))
  BY <1>1, FillsToExists
<1>2. /\ o + n <= Cwnd /\ q + n <= PacketsOf(z)
      /\ o + n < Cwnd => q + n = PacketsOf(z)
      /\ \A k \in 1 .. Cwnd : o + k <= Cwnd /\ q + k - 1 < PacketsOf(z) <=> k <= n
  BY <1>0 DEF FillsTo
<1>3. Wanted(f) = {} /\ NRtx(f) = 0
  <2>1. Wanted(f) = {}
    BY DEF Wanted
  <2> QED  BY <2>1, FS_EmptySet DEF NRtx
<1>4. \A k \in 1 .. Cwnd + 1 : NewSeq(f, k) = q + k - 1 /\ NewSeq(f, k) \in Nat /\ ~(k <= NRtx(f))
  BY <1>1, <1>3 DEF NewSeq
<1>5. \A k \in 1 .. Cwnd : k \in 1 .. Cwnd + 1 /\ (HasNext(f, k) <=> q + k - 1 < PacketsOf(z))
  <2> TAKE k \in 1 .. Cwnd
  <2>1. k \in 1 .. Cwnd + 1
    BY <1>1
  <2>2. f.size_byte = z
    BY DEF FlowRecord
  <2> QED  BY <1>4, <2>1, <2>2, PacketCount DEF HasNext
<1>6. \A k \in 1 .. Cwnd : k \in S <=> k <= n
  BY <1>2, <1>5
<1>7. S = 1 .. n
  <2>1. S \subseteq 1 .. Cwnd
    OBVIOUS
  <2> HIDE DEF S
  <2>2. 1 .. n \subseteq 1 .. Cwnd /\ \A k \in 1 .. Cwnd : k \in 1 .. n <=> k <= n
    BY <1>1
  <2> QED  BY ONLY <1>6, <2>1, <2>2
<1>8. Cardinality(S) = n
  <2>1. n \in Nat
    BY <1>1
  <2> HIDE DEF S
  <2> QED  BY ONLY <1>7, <2>1, SizeOfPrefix
<1> DEFINE R == LeftToRtx(f, Cwnd - f.outstanding)
           Q == IF n > NRtx(f) THEN NewSeq(f, n + 1) ELSE f.next_seq
<1>9. /\ Fill(f).flow = [f EXCEPT !.outstanding = f.outstanding + n, !.rtx_queue = R, !.next_seq = Q]
      /\ Fill(f).sent = [k \in 1 .. n |-> NextSeq(f, k)]
  BY <1>8 DEF Fill
<1>10. R = <<>>
  BY <1>1, <1>3 DEF LeftToRtx
<1>11. Q = q + n
  <2>1. n + 1 \in 1 .. Cwnd + 1 /\ n \in Nat
    BY <1>1
  <2>2. NewSeq(f, n + 1) = q + (n + 1) - 1
    BY <1>4, <2>1
  <2>3. q \in Nat /\ q + (n + 1) - 1 = q + n
    BY <1>1, <2>1
  <2>4. CASE n > 0
    BY <1>3, <2>2, <2>3, <2>4
  <2>5. CASE n = 0
    BY <1>3, <2>3, <2>5
  <2> QED  BY <2>1, <2>4, <2>5
<1>12. [k \in 1 .. n |-> NextSeq(f, k)] = [k \in 1 .. n |-> q + k - 1]
  <2>1. \A k \in 1 .. n : k \in 1 .. Cwnd + 1
    BY <1>1, <1>2
  <2>2. \A k \in 1 .. n : NextSeq(f, k) = q + k - 1
    BY <1>4, <2>1 DEF NextSeq
  <2> QED  BY <2>2
<1> HIDE DEF R, Q
<1>13. Fill(f).sent = [k \in 1 .. n |-> q + k - 1]
  BY <1>9, <1>12
<1>14. Fill(f).flow = [f EXCEPT !.outstanding = @ + n, !.next_seq = @ + n]
  BY <1>9, <1>10, <1>11 DEF FlowRecord
<1> QED  BY <1>2, <1>13, <1>14

(* The one retransmission takes the place of the packet that timed out.     *)
LEMMA FillAgain ==
  ASSUME NEW z \in Nat, NEW f \in FlowRecord(z), NEW s \in Nat, f.rtx_queue = <<s>>, s \notin f.acked,
         f.outstanding < Cwnd, f.outstanding + 1 < Cwnd => f.next_seq = PacketsOf(z)
  PROVE  /\ Fill(f).sent = <<s>>
         /\ Fill(f).flow = [f EXCEPT !.outstanding = @ + 1, !.rtx_queue = <<>>]
<1> DEFINE o == f.outstanding
           q == f.next_seq
           S == {k \in 1 .. Cwnd : f.outstanding + k <= Cwnd /\ HasNext(f, k)}
           n == Cardinality(S)
<1>1. Cwnd \in Nat \ {0} /\ PacketsOf(z) \in Nat /\ o \in 0 .. Cwnd /\ q \in 0 .. PacketsOf(z)
  BY TcpAssumption, PacketCount DEF FlowRecord
<1>2. Wanted(f) = {1} /\ NRtx(f) = 1
  <2>1. Wanted(f) = {1}
    BY DEF Wanted
  <2> QED  BY <2>1, FS_Singleton DEF NRtx
<1>3. Rtx(f, 1) = 1
  <2>1. {j \in Wanted(f) : j <= 1} = {1}
    BY <1>2
  <2>2. \A i \in Wanted(f) : i = 1
    BY <1>2
  <2>3. Cardinality({j \in Wanted(f) : j <= 1}) = 1
    BY <2>1, FS_Singleton
  <2> QED  BY <1>2, <2>2, <2>3 DEF Rtx
<1>4. 1 \in S
  BY <1>1, <1>2 DEF HasNext
<1>5. ASSUME NEW k \in S, k # 1  PROVE FALSE
  <2>1. k \in 2 .. Cwnd /\ o + k <= Cwnd /\ HasNext(f, k)
    BY <1>5
  <2>2. q = PacketsOf(z)
    BY <1>1, <2>1
  <2>3. NewSeq(f, k) = q + k - 2 /\ q + k - 2 \in Nat /\ ~(k <= 1) /\ ~(q + k - 2 < PacketsOf(z))
    BY <1>1, <1>2, <2>1, <2>2 DEF NewSeq
  <2>4. f.size_byte = z
    BY DEF FlowRecord
  <2> QED  BY <1>2, <2>1, <2>3, <2>4, PacketCount DEF HasNext
<1>6. S = {1}
  <2> HIDE DEF S
  <2> QED  BY <1>4, <1>5
<1>7. n = 1
  BY <1>6, FS_Singleton
<1> DEFINE R == LeftToRtx(f, Cwnd - f.outstanding)
<1>8. R = <<>>
  <2> DEFINE m == Cwnd - f.outstanding
  <2>1. m \in Nat /\ m >= 1
    BY <1>1
  <2>2. CASE m > 1
    BY <1>2, <2>2 DEF LeftToRtx
  <2>3. CASE m = 1
    BY <1>2, <1>3, <2>3 DEF LeftToRtx
  <2> QED  BY <2>1, <2>2, <2>3
<1>9. [k \in 1 .. 1 |-> NextSeq(f, k)] = <<s>>
  <2>1. NextSeq(f, 1) = s
    BY <1>2, <1>3 DEF NextSeq
  <2>2. \A k \in 1 .. 1 : k = 1
    OBVIOUS
  <2> QED  BY <2>1, <2>2
<1>10. /\ Fill(f).flow = [f EXCEPT !.outstanding = f.outstanding + n, !.rtx_queue = R,
                                   !.next_seq = IF n > NRtx(f) THEN NewSeq(f, n + 1) ELSE f.next_seq]
       /\ Fill(f).sent = [k \in 1 .. n |-> NextSeq(f, k)]
  BY DEF Fill
<1> HIDE DEF R, n
<1>11. (IF n > NRtx(f) THEN NewSeq(f, n + 1) ELSE f.next_seq) = f.next_seq
  BY <1>2, <1>7
<1>12. Fill(f).sent = <<s>>
  <2>1. [k \in 1 .. n |-> NextSeq(f, k)] = [k \in 1 .. 1 |-> NextSeq(f, k)]
    BY <1>7
  <2> QED  BY <1>9, <1>10, <2>1
<1>13. Fill(f).flow = [f EXCEPT !.outstanding = f.outstanding + 1, !.rtx_queue = <<>>, !.next_seq = f.next_seq]
  BY <1>7, <1>8, <1>10, <1>11
<1>14. Fill(f).flow = [f EXCEPT !.outstanding = @ + 1, !.rtx_queue = <<>>]
  BY <1>13 DEF FlowRecord
<1> QED  BY <1>12, <1>14

(* Sets of sequence numbers. *)
LEMMA SizeOfSent ==
  ASSUME NEW q \in Nat
  PROVE  IsFiniteSet(0 .. q - 1) /\ Cardinality(0 .. q - 1) = q
<1>1. 0 \in Int /\ q - 1 \in Int /\ (0 > q - 1 => q = 0) /\ (q - 1) - 0 + 1 = q
  BY q \in Nat
<1> QED  BY <1>1, FS_Interval

LEMMA SizeOfAcked ==
  ASSUME NEW q \in Nat, NEW A \in SUBSET (0 .. q - 1)
  PROVE  /\ IsFiniteSet(A) /\ Cardinality(A) \in 0 .. q
         /\ Cardinality((0 .. q - 1) \ A) = q - Cardinality(A)
         /\ Cardinality(A) = q => A = 0 .. q - 1
<1> DEFINE S == 0 .. q - 1
<1>1. IsFiniteSet(S) /\ Cardinality(S) = q
  BY SizeOfSent
<1> HIDE DEF S
<1>2. IsFiniteSet(A) /\ Cardinality(A) <= q /\ (Cardinality(A) = q => A = S)
  BY <1>1, FS_Subset DEF S
<1>3. Cardinality(A) \in Nat
  BY <1>2, FS_CardinalityType
<1>4. Cardinality(S \ A) = Cardinality(S) - Cardinality(S \cap A)
  BY <1>1, <1>2, FS_Difference
<1>5. S \cap A = A
  BY DEF S
<1>6. Cardinality(A) \in 0 .. q
  BY <1>2, <1>3
<1> QED  BY <1>1, <1>2, <1>4, <1>5, <1>6 DEF S

LEMMA AckedMore ==
  ASSUME NEW q \in Nat, NEW A \in SUBSET (0 .. q - 1), NEW s \in 0 .. q - 1, s \notin A
  PROVE  Cardinality(A \cup {s}) = Cardinality(A) + 1
<1>1. IsFiniteSet(A)
  BY SizeOfAcked
<1> QED  BY <1>1, FS_AddElement

(* The end of a handler: new packets only, and a window that is full.       *)
LEMMA FillFills ==
  ASSUME NEW z \in Nat, NEW f \in FlowRecord(z), Counters(f)
  PROVE  LET r == Fill(f)
         IN  /\ r.flow \in FlowRecord(z) /\ Filled(r.flow, z) /\ SameFlow(f, r.flow)
             /\ r.flow.acked = f.acked /\ r.flow.n_acked = f.n_acked
             /\ Sends(r, f.next_seq)
<1> DEFINE g == Fill(f).flow
           q == f.next_seq
           m == PacketsOf(z)
<1>0. f.rtx_queue = <<>>
  BY DEF Counters
<1>1. PICK n \in 0 .. Cwnd :
           /\ Fill(f).sent = [k \in 1 .. n |-> f.next_seq + k - 1]
           /\ Fill(f).flow = [f EXCEPT !.outstanding = @ + n, !.next_seq = @ + n]
           /\ f.outstanding + n <= Cwnd /\ f.next_seq + n <= PacketsOf(z)
           /\ f.outstanding + n < Cwnd => f.next_seq + n = PacketsOf(z)
  BY <1>0, FillNew
<1>2. Cwnd \in Nat /\ m \in Nat /\ q \in 0 .. m /\ n \in Nat /\ f.n_acked \in Nat /\ f.outstanding \in Nat
  BY PacketCount, TcpAssumption DEF FlowRecord
<1>3. /\ g \in FlowRecord(z) /\ g.acked = f.acked /\ g.n_acked = f.n_acked
      /\ g.next_seq = q + n /\ g.outstanding = f.outstanding + n /\ g.rtx_queue = <<>>
      /\ g.src = f.src /\ g.dst = f.dst /\ g.start = f.start
  <2>1. f.outstanding + n \in 0 .. Cwnd /\ f.next_seq + n \in 0 .. PacketsOf(z)
    BY <1>1, <1>2
  <2> QED  BY <1>0, <1>1, <2>1 DEF FlowRecord
<1> HIDE DEF g
<1>4. 0 .. q - 1 \subseteq 0 .. (q + n) - 1
  BY <1>2
<1>5. Filled(g, z)
  <2>1. g.outstanding = g.next_seq - g.n_acked
    BY <1>2, <1>3 DEF Counters
  <2>2. g.acked \subseteq SentOf(g) /\ g.n_acked = Cardinality(g.acked)
    BY <1>3, <1>4 DEF Counters, SentOf
  <2> QED  BY <1>1, <1>3, <2>1, <2>2 DEF Filled, Counters
<1>6. Sends(Fill(f), q)
  BY <1>1, <1>2, <1>3 DEF Sends, g
<1> QED  BY <1>3, <1>5, <1>6 DEF SameFlow, g

(* Flow::start *)
LEMMA StartFills ==
  ASSUME NEW src \in Nat, NEW dst \in Nat, NEW z \in Nat, NEW t \in Nat,
         NEW r, r = Start(NewFlow(src, dst, z), t)
  PROVE  /\ r.flow \in FlowRecord(z) /\ Filled(r.flow, z)
         /\ r.flow.src = src /\ r.flow.dst = dst /\ r.flow.acked = {}
         /\ Sends(r, 0)
<1> DEFINE f == [NewFlow(src, dst, z) EXCEPT !.start = t]
<1>1. 0 \in 0 .. Cwnd /\ 0 \in 0 .. PacketsOf(z) /\ <<>> \in Seq(Nat)
  BY PacketCount, TcpAssumption
<1>2. /\ f \in FlowRecord(z) /\ f.src = src /\ f.dst = dst /\ f.acked = {} /\ f.next_seq = 0
      /\ f.n_acked = 0 /\ f.outstanding = 0 /\ f.rtx_queue = <<>>
  BY <1>1 DEF NewFlow, FlowRecord
<1> HIDE DEF f
<1>3. Counters(f)
  BY <1>2, FS_EmptySet DEF Counters
<1>4. r = Fill(f)
  BY DEF Start, f
<1>5. /\ r.flow \in FlowRecord(z) /\ Filled(r.flow, z) /\ SameFlow(f, r.flow)
      /\ r.flow.acked = f.acked /\ Sends(r, f.next_seq)
  BY <1>2, <1>3, <1>4, FillFills
<1> QED  BY <1>2, <1>5 DEF SameFlow

(* What an ack that is new makes of the flow. *)
Acked(f, s) ==
  [f EXCEPT !.outstanding = @ - 1, !.n_acked = @ + 1, !.acked = @ \cup {s}]

LEMMA NewAck ==
  ASSUME NEW z \in Nat, NEW f \in FlowRecord(z), Filled(f, z), NEW s \in SentOf(f), s \notin f.acked
  PROVE  LET g == Acked(f, s)
         IN  /\ g \in FlowRecord(z) /\ Counters(g) /\ SameFlow(f, g)
             /\ g.acked = f.acked \cup {s} /\ g.next_seq = f.next_seq
<1> DEFINE q == f.next_seq
           A == f.acked
           g == Acked(f, s)
<1>1. q \in Nat /\ A \in SUBSET (0 .. q - 1) /\ f.n_acked = Cardinality(A) /\ f.outstanding = q - f.n_acked
  BY PacketCount DEF FlowRecord, Filled, Counters, SentOf
<1>2. Cardinality(A \cup {s}) = Cardinality(A) + 1 /\ A \cup {s} \in SUBSET (0 .. q - 1)
  BY <1>1, AckedMore DEF SentOf
<1>3. s \in Nat /\ Cardinality(A) \in 0 .. q /\ Cardinality(A \cup {s}) \in 0 .. q
  <2>1. s \in Nat
    BY <1>1 DEF SentOf
  <2> QED  BY <1>1, <1>2, <2>1, SizeOfAcked
<1>4. f.outstanding \in 0 .. Cwnd /\ Cwnd \in Nat /\ f.acked \subseteq Nat
  BY TcpAssumption DEF FlowRecord
<1>5. f.outstanding - 1 \in 0 .. Cwnd /\ f.n_acked + 1 \in Nat /\ f.n_acked + 1 <= q
      /\ f.outstanding - 1 = q - (f.n_acked + 1)
  BY <1>1, <1>2, <1>3, <1>4
<1>6. /\ g \in FlowRecord(z) /\ SameFlow(f, g) /\ g.rtx_queue = f.rtx_queue /\ g.next_seq = q /\ g.acked = A \cup {s}
      /\ g.n_acked = f.n_acked + 1 /\ g.outstanding = f.outstanding - 1
  BY <1>3, <1>4, <1>5 DEF FlowRecord, SameFlow, Acked
<1>7. f.rtx_queue = <<>>
  BY DEF Filled, Counters
<1> HIDE DEF g
<1> QED  BY <1>1, <1>2, <1>5, <1>6, <1>7 DEF Counters, SentOf, g

(* Flow::src_receive *)
LEMMA ReceiveFills ==
  ASSUME NEW z \in Nat, NEW f \in FlowRecord(z), Filled(f, z), NEW s \in SentOf(f)
  PROVE  LET r == SrcReceive(f, s)
         IN  /\ r.flow \in FlowRecord(z) /\ Filled(r.flow, z) /\ SameFlow(f, r.flow)
             /\ r.flow.acked = f.acked \cup {s}
             /\ Sends(r, f.next_seq)
<1>1. CASE s \in f.acked
  <2>1. Counters(f) /\ SrcReceive(f, s) = Fill(f) /\ f.acked \cup {s} = f.acked
    BY <1>1 DEF Filled, SrcReceive
  <2> QED  BY <2>1, FillFills
<1>2. CASE s \notin f.acked
  <2> DEFINE g == Acked(f, s)
  <2>1. SrcReceive(f, s) = Fill(g)
    BY <1>2 DEF SrcReceive, Acked
  <2>2. /\ g \in FlowRecord(z) /\ Counters(g) /\ g.next_seq = f.next_seq
        /\ g.acked = f.acked \cup {s} /\ SameFlow(f, g)
    BY <1>2, NewAck
  <2> HIDE DEF g
  <2> DEFINE r == Fill(g)
  <2>3. /\ r.flow \in FlowRecord(z) /\ Filled(r.flow, z) /\ SameFlow(g, r.flow)
        /\ r.flow.acked = g.acked /\ Sends(r, g.next_seq)
    BY <2>2, FillFills
  <2> HIDE DEF r
  <2>4. /\ r.flow \in FlowRecord(z) /\ Filled(r.flow, z) /\ SameFlow(f, r.flow)
        /\ r.flow.acked = f.acked \cup {s} /\ Sends(r, f.next_seq)
    BY <2>2, <2>3 DEF SameFlow
  <2> QED  BY <2>1, <2>4 DEF r
<1> QED  BY <1>1, <1>2

(* Flow::timeout: the packet is sent again, unless it is acked.             *)
LEMMA TimeoutRepeats ==
  ASSUME NEW z \in Nat, NEW f \in FlowRecord(z), Filled(f, z), NEW s \in SentOf(f)
  PROVE  /\ Timeout(f, s).flow = f
         /\ Timeout(f, s).sent = IF s \in f.acked THEN <<>> ELSE <<s>>
<1>1. CASE s \in f.acked
  BY <1>1 DEF Timeout
<1>2. CASE s \notin f.acked
  <2> DEFINE g == [f EXCEPT !.outstanding = @ - 1, !.rtx_queue = Append(@, s)]
  <2>1. Timeout(f, s) = Fill(g)
    BY <1>2 DEF Timeout
  <2>2. s \in Nat /\ f.rtx_queue = <<>> /\ f.next_seq \in Nat
    BY PacketCount DEF Filled, Counters, SentOf, FlowRecord
  <2>3. f.outstanding \in 0 .. Cwnd /\ f.outstanding >= 1 /\ Cwnd \in Nat
    <3>1. f.acked \in SUBSET (0 .. f.next_seq - 1) /\ s \in 0 .. f.next_seq - 1
      BY DEF Filled, Counters, SentOf
    <3>2. /\ Cardinality(f.acked \cup {s}) = Cardinality(f.acked) + 1
          /\ f.acked \cup {s} \in SUBSET (0 .. f.next_seq - 1)
      BY <1>2, <2>2, <3>1, AckedMore
    <3>3. Cardinality(f.acked \cup {s}) \in 0 .. f.next_seq /\ Cardinality(f.acked) \in 0 .. f.next_seq
      BY <2>2, <3>1, <3>2, SizeOfAcked
    <3>4. f.outstanding = f.next_seq - Cardinality(f.acked)
      BY DEF Filled, Counters
    <3>5. f.outstanding \in 0 .. Cwnd /\ Cwnd \in Nat
      BY TcpAssumption DEF FlowRecord
    <3> QED  BY <2>2, <3>2, <3>3, <3>4, <3>5
  <2>4. Append(f.rtx_queue, s) = <<s>>
    BY <2>2
  <2>5. /\ g \in FlowRecord(z) /\ g.rtx_queue = <<s>> /\ g.acked = f.acked
        /\ g.outstanding = f.outstanding - 1 /\ g.next_seq = f.next_seq
    <3>1. <<s>> \in Seq(Nat) /\ f.outstanding - 1 \in 0 .. Cwnd
      BY <2>2, <2>3
    <3>2. g = [f EXCEPT !.outstanding = f.outstanding - 1, !.rtx_queue = <<s>>]
      BY <2>4
    <3> HIDE DEF g
    <3> QED  BY <3>1, <3>2 DEF FlowRecord
  <2>6. [g EXCEPT !.outstanding = f.outstanding, !.rtx_queue = <<>>] = f
    BY <2>2 DEF FlowRecord
  <2>7. f.outstanding < Cwnd => f.next_seq = PacketsOf(z)
    BY DEF Filled
  <2> HIDE DEF g
  <2>8. /\ Fill(g).sent = <<s>>
        /\ Fill(g).flow = [g EXCEPT !.outstanding = @ + 1, !.rtx_queue = <<>>]
    <3>1. g.outstanding < Cwnd /\ (g.outstanding + 1 < Cwnd => g.next_seq = PacketsOf(z)) /\ s \notin g.acked
      BY <1>2, <2>3, <2>5, <2>7
    <3> QED  BY <2>2, <2>5, <3>1, FillAgain
  <2>9. g.outstanding + 1 = f.outstanding
    BY <2>3, <2>5
  <2>10. Fill(g).flow = f
    BY <2>6, <2>8, <2>9
  <2> QED  BY <1>2, <2>1, <2>8, <2>10
<1> QED  BY <1>1, <1>2

-----------------------------------------------------------------------------
(* Queues of events: what stays true of one when its first event is taken   *)
(* and when events are pushed to it.                                        *)

Timed(Ev) == \A e \in Ev : e.time \in Nat

(* All that is in q, the Close left out, is in order and between lo and hi. *)
Between(q, lo, hi) ==
  /\ \A i \in 1 .. Len(q) : q[i].kind # "Close" => lo <= q[i].time /\ q[i].time <= hi
  /\ \A i, j \in 1 .. Len(q) :
       i < j /\ q[i].kind # "Close" /\ q[j].kind # "Close" => q[i].time <= q[j].time

(* How many of the events out fit into q, which has n places, and what     *)
(* pushing them leaves in it.                                               *)
Fits(q, out, n)   == Min({Len(out), n - Len(q)})
Pushed(q, out, n) == q \o SubSeq(out, 1, Fits(q, out, n))

(* p is q and the first k of out. *)
IsPushed(p, k, q, out) ==
  /\ k \in 0 .. Len(out)
  /\ Len(p) = Len(q) + k
  /\ \A i \in 1 .. Len(q) : p[i] = q[i]
  /\ \A i \in Len(q) + 1 .. Len(q) + k : p[i] = out[i - Len(q)]

LEMMA MinOfTwo ==
  ASSUME NEW i \in Int, NEW j \in Int
  PROVE  Min({i, j}) = IF i <= j THEN i ELSE j
<1>1. \A x \in {i, j} : (\A y \in {i, j} : x =< y) => x = (IF i <= j THEN i ELSE j)
  OBVIOUS
<1>2. \E x \in {i, j} : \A y \in {i, j} : x =< y
  OBVIOUS
<1> QED  BY <1>1, <1>2 DEF Min

LEMMA MaxOfTwo ==
  ASSUME NEW i \in Nat, NEW j \in Nat
  PROVE  Max({i, j}) \in Nat /\ i <= Max({i, j}) /\ j <= Max({i, j})
<1>1. \A x \in {i, j} : (\A y \in {i, j} : x >= y) => x \in Nat /\ i <= x /\ j <= x
  OBVIOUS
<1>2. \E x \in {i, j} : \A y \in {i, j} : x >= y
  OBVIOUS
<1> QED  BY <1>1, <1>2 DEF Max

LEMMA MinOfNats ==
  ASSUME NEW S \in SUBSET Nat, S # {}
  PROVE  Min(S) \in S /\ \A y \in S : Min(S) <= y
<1>1. \E x \in S : \A y \in S : ~(<<y, x>> \in OpToRel(<, Nat))
  BY NatLessThanWellFounded, WFMin
<1>2. PICK x \in S : \A y \in S : ~(y < x)
  BY <1>1 DEF OpToRel
<1>3. \A y \in S : x <= y
  BY <1>2
<1> QED  BY <1>3 DEF Min

LEMMA MaxBounded ==
  ASSUME NEW S \in SUBSET Nat, S # {}, NEW m \in Nat, \A y \in S : y <= m
  PROVE  Max(S) \in S /\ \A y \in S : y <= Max(S)
<1> DEFINE U == {u \in Nat : \A y \in S : y <= u}
           u == Min(U)
<1>1. U \in SUBSET Nat /\ U # {}
  OBVIOUS
<1> HIDE DEF U
<1>2. u \in U /\ \A x \in U : u <= x
  BY <1>1, MinOfNats
<1> HIDE DEF u
<1>3. u \in Nat /\ \A y \in S : y <= u
  BY <1>2 DEF U
<1>4. u \in S
  <2> SUFFICES ASSUME u \notin S  PROVE FALSE
    OBVIOUS
  <2>1. \A y \in S : y \in Nat /\ y < u
    BY <1>3
  <2>4. PICK y \in S : TRUE
    OBVIOUS
  <2>5. y \in Nat /\ y < u
    BY <2>1
  <2>2. u - 1 \in Nat /\ \A x \in S : x <= u - 1
    BY <1>3, <2>1, <2>5
  <2>3. u - 1 \in U
    BY <2>2 DEF U
  <2> QED  BY <1>2, <1>3, <2>3
<1>5. \E x \in S : \A y \in S : x >= y
  BY <1>3, <1>4
<1>6. Max(S) \in S /\ \A y \in S : Max(S) >= y
  BY <1>5 DEF Max
<1> QED  BY <1>6

LEMMA SizeOfPositions ==
  ASSUME NEW n \in Nat, NEW S \in SUBSET (1 .. n)
  PROVE  Cardinality(S) \in Nat
<1>1. IsFiniteSet(1 .. n)
  BY FS_Interval
<1>2. IsFiniteSet(S)
  BY <1>1, FS_Subset
<1> QED  BY <1>2, FS_CardinalityType

LEMMA DivNat ==
  ASSUME NEW x \in Nat, NEW y \in Nat \ {0}
  PROVE  x \div y \in Nat
  OBVIOUS

LEMMA TimesGrow ==
  ASSUME NEW c \in Nat, NEW i \in Nat, NEW j \in Nat, i <= j
  PROVE  i * c \in Nat /\ i * c <= j * c
  OBVIOUS

LEMMA PushedSeq ==
  ASSUME NEW Ev, NEW q \in Seq(Ev), NEW out \in Seq(Ev), NEW n \in Nat, Len(q) <= n
  PROVE  /\ Pushed(q, out, n) \in Seq(Ev)
         /\ Len(Pushed(q, out, n)) <= n
         /\ Len(out) <= n - Len(q) => Fits(q, out, n) = Len(out)
         /\ IsPushed(Pushed(q, out, n), Fits(q, out, n), q, out)
<1> DEFINE k == Fits(q, out, n)
           s == SubSeq(out, 1, k)
<1>1. Len(q) \in Nat /\ Len(out) \in Nat
  BY LenProperties
<1>2. k \in 0 .. Len(out) /\ k <= n - Len(q) /\ (Len(out) <= n - Len(q) => k = Len(out))
  <2>1. k = IF Len(out) <= n - Len(q) THEN Len(out) ELSE n - Len(q)
    BY <1>1, MinOfTwo DEF Fits
  <2> QED  BY <1>1, <2>1
<1> HIDE DEF k
<1>3. \A i \in 1 .. k : out[i] \in Ev
  BY <1>2, <1>1, ElementOfSeq
<1>4. s \in Seq(Ev) /\ Len(s) = k /\ \A i \in 1 .. k : s[i] = out[i]
  BY <1>1, <1>2, <1>3, SubSeqProperties
<1>5. /\ q \o s \in Seq(Ev) /\ Len(q \o s) = Len(q) + k
      /\ \A i \in 1 .. Len(q) + k : (q \o s)[i] = IF i <= Len(q) THEN q[i] ELSE s[i - Len(q)]
  BY <1>4, ConcatProperties
<1>6. Pushed(q, out, n) = q \o s
  BY DEF Pushed, k
<1> HIDE DEF s
<1>7. \A i \in Len(q) + 1 .. Len(q) + k : (q \o s)[i] = out[i - Len(q)]
  BY <1>1, <1>2, <1>4, <1>5
<1> QED  BY <1>1, <1>2, <1>5, <1>6, <1>7 DEF k, IsPushed

(* Nothing else is in the queue then. *)
LEMMA PushedWithin ==
  ASSUME NEW Ev, NEW q \in Seq(Ev), NEW out \in Seq(Ev), NEW n \in Nat, Len(q) <= n,
         NEW Good, \A i \in 1 .. Len(q) : q[i] \in Good, \A i \in 1 .. Len(out) : out[i] \in Good
  PROVE  \A i \in 1 .. Len(Pushed(q, out, n)) : Pushed(q, out, n)[i] \in Good
<1> DEFINE p == Pushed(q, out, n)
           k == Fits(q, out, n)
<1>1. Len(q) \in Nat /\ Len(out) \in Nat
  BY LenProperties
<1>0. IsPushed(p, k, q, out)
  BY PushedSeq
<1>2. /\ k \in 0 .. Len(out)
      /\ Len(p) = Len(q) + k
      /\ \A i \in 1 .. Len(q) : p[i] = q[i]
      /\ \A i \in Len(q) + 1 .. Len(q) + k : p[i] = out[i - Len(q)]
  BY <1>0 DEF IsPushed
<1> SUFFICES ASSUME NEW i \in 1 .. Len(p)  PROVE p[i] \in Good
  OBVIOUS
<1> HIDE DEF p, k
<1>3. CASE i \in 1 .. Len(q)
  BY <1>2, <1>3
<1>4. CASE i \notin 1 .. Len(q)
  <2>1. i \in Len(q) + 1 .. Len(q) + k /\ i - Len(q) \in 1 .. Len(out)
    BY <1>1, <1>2, <1>4
  <2> QED  BY <1>2, <2>1
<1> QED  BY <1>3, <1>4

LEMMA PushedBetween ==
  ASSUME NEW Ev, Timed(Ev), NEW q \in Seq(Ev), NEW out \in Seq(Ev), NEW n \in Nat, Len(q) <= n,
         NEW lo \in Int, NEW mid \in Int, NEW hi \in Int, lo <= mid, mid <= hi,
         Between(q, lo, mid), Between(out, mid, hi)
  PROVE  Between(Pushed(q, out, n), lo, hi)
<1> DEFINE p == Pushed(q, out, n)
           k == Fits(q, out, n)
<1>1. Len(q) \in Nat /\ Len(out) \in Nat
  BY LenProperties
<1>0. IsPushed(p, k, q, out)
  BY PushedSeq
<1>2. /\ k \in 0 .. Len(out)
      /\ Len(p) = Len(q) + k
      /\ \A i \in 1 .. Len(q) : p[i] = q[i]
      /\ \A i \in Len(q) + 1 .. Len(q) + k : p[i] = out[i - Len(q)]
  BY <1>0 DEF IsPushed
<1>3. \A i \in 1 .. Len(q) : q[i].time \in Nat
  BY ElementOfSeq DEF Timed
<1>4. \A i \in 1 .. Len(out) : out[i].time \in Nat
  BY ElementOfSeq DEF Timed
<1> HIDE DEF p, k
<1>5. \A i \in 1 .. Len(p) : \/ i \in 1 .. Len(q) /\ p[i] = q[i]
                            \/ /\ i \notin 1 .. Len(q) /\ i - Len(q) \in 1 .. Len(out)
                               /\ p[i] = out[i - Len(q)]
  BY <1>1, <1>2
<1>6. ASSUME NEW i \in 1 .. Len(p), p[i].kind # "Close"
      PROVE  lo <= p[i].time /\ p[i].time <= hi
  <2>1. CASE i \in 1 .. Len(q)
    <3>1. p[i] = q[i]  BY <1>5, <2>1
    <3>2. lo <= q[i].time /\ q[i].time <= mid  BY <1>6, <2>1, <3>1 DEF Between
    <3> QED  BY <1>3, <2>1, <3>1, <3>2
  <2>2. CASE i \notin 1 .. Len(q)
    <3>1. p[i] = out[i - Len(q)] /\ i - Len(q) \in 1 .. Len(out)  BY <1>5, <2>2
    <3>2. mid <= out[i - Len(q)].time /\ out[i - Len(q)].time <= hi  BY <1>6, <3>1 DEF Between
    <3> QED  BY <1>4, <3>1, <3>2
  <2> QED  BY <2>1, <2>2
<1>7. ASSUME NEW i \in 1 .. Len(p), NEW j \in 1 .. Len(p), i < j,
             p[i].kind # "Close", p[j].kind # "Close"
      PROVE  p[i].time <= p[j].time
  <2>1. CASE j \in 1 .. Len(q)
    <3>1. i \in 1 .. Len(q)  BY <1>1, <1>2, <1>7, <2>1
    <3> QED  BY <1>5, <1>7, <2>1, <3>1 DEF Between
  <2>2. CASE i \in 1 .. Len(q) /\ j \notin 1 .. Len(q)
    <3>1. p[i] = q[i] /\ j - Len(q) \in 1 .. Len(out) /\ p[j] = out[j - Len(q)]
      BY <1>5, <2>2
    <3>2. p[i].time <= mid /\ mid <= p[j].time
      BY <1>7, <2>2, <3>1 DEF Between
    <3>3. p[i].time \in Int /\ p[j].time \in Int
      BY <1>3, <1>4, <2>2, <3>1
    <3> QED  BY <3>2, <3>3
  <2>3. CASE i \notin 1 .. Len(q)
    <3>1. /\ i - Len(q) \in 1 .. Len(out) /\ p[i] = out[i - Len(q)]
          /\ j - Len(q) \in 1 .. Len(out) /\ p[j] = out[j - Len(q)]
      BY <1>1, <1>2, <1>5, <1>7, <2>3
    <3>2. i - Len(q) < j - Len(q)
      BY <1>1, <1>7
    <3> QED  BY <1>7, <3>1, <3>2 DEF Between
  <2> QED  BY <2>1, <2>2, <2>3
<1> QED  BY <1>6, <1>7 DEF Between, p

LEMMA TailBetween ==
  ASSUME NEW Ev, Timed(Ev), NEW q \in Seq(Ev), q # <<>>,
         NEW lo \in Int, NEW hi \in Int, Between(q, lo, hi)
  PROVE  /\ Tail(q) \in Seq(Ev)
         /\ Head(q) \in Ev /\ Head(q) = q[1]
         /\ Len(q) \in Nat \ {0} /\ Len(Tail(q)) = Len(q) - 1
         /\ \A i \in 1 .. Len(q) - 1 : Tail(q)[i] = q[i + 1]
         /\ Between(Tail(q), lo, hi)
         /\ Head(q).kind # "Close" => /\ lo <= Head(q).time /\ Head(q).time <= hi
                                      /\ Between(Tail(q), Head(q).time, hi)
<1>1. /\ Tail(q) \in Seq(Ev) /\ Head(q) \in Ev
      /\ Len(Tail(q)) = Len(q) - 1
      /\ \A i \in 1 .. Len(q) - 1 : Tail(q)[i] = q[i + 1]
  BY HeadTailProperties
<1>2. Len(q) \in Nat \ {0}
  BY EmptySeq
<1>3. Head(q) = q[1]
  OBVIOUS
<1>4. \A i \in 1 .. Len(q) - 1 : i + 1 \in 1 .. Len(q) /\ 1 < i + 1
  BY <1>2
<1>5. 1 \in 1 .. Len(q)
  BY <1>2
<1>6. \A i \in 1 .. Len(Tail(q)) : Tail(q)[i].kind # "Close" => lo <= Tail(q)[i].time /\ Tail(q)[i].time <= hi
  BY <1>1, <1>4 DEF Between
<1>7. \A i, j \in 1 .. Len(Tail(q)) :
         i < j /\ Tail(q)[i].kind # "Close" /\ Tail(q)[j].kind # "Close" => Tail(q)[i].time <= Tail(q)[j].time
  <2> SUFFICES ASSUME NEW i \in 1 .. Len(q) - 1, NEW j \in 1 .. Len(q) - 1, i < j,
                      q[i + 1].kind # "Close", q[j + 1].kind # "Close"
               PROVE  q[i + 1].time <= q[j + 1].time
    BY <1>1
  <2>1. i + 1 < j + 1  BY <1>2
  <2> QED  BY <1>4, <2>1 DEF Between
<1>8. ASSUME Head(q).kind # "Close"
      PROVE  /\ lo <= Head(q).time /\ Head(q).time <= hi
             /\ \A i \in 1 .. Len(Tail(q)) : Tail(q)[i].kind # "Close" => Head(q).time <= Tail(q)[i].time
  <2>1. lo <= Head(q).time /\ Head(q).time <= hi
    BY <1>3, <1>5, <1>8 DEF Between
  <2>2. \A i \in 1 .. Len(q) - 1 : q[i + 1].kind # "Close" => q[1].time <= q[i + 1].time
    BY <1>3, <1>4, <1>5, <1>8 DEF Between
  <2> QED  BY <1>1, <1>3, <2>1, <2>2
<1> QED  BY <1>1, <1>2, <1>3, <1>6, <1>7, <1>8 DEF Between

-----------------------------------------------------------------------------
(* The queues of all channels.  C: the channels <<from, to>>; q, h: their    *)
(* queues and the times last heard from them; R: the actors that run; P: the *)
(* time up to which a channel's sender has promised to send nothing more.    *)

CloseLast(s) == \A i \in 1 .. Len(s) : s[i].kind = "Close" => i = Len(s)

(* One event by itself. *)
LEMMA OneEvent ==
  ASSUME NEW e, e.time \in Nat
  PROVE  /\ <<e>> \in Seq({e}) /\ Len(<<e>>) = 1 /\ <<e>>[1] = e
         /\ Timed({e}) /\ CloseLast(<<e>>)
         /\ \A lo, hi : (e.kind # "Close" => lo <= e.time /\ e.time <= hi) => Between(<<e>>, lo, hi)
<1>1. \A i \in 1 .. 1 : i = 1
  OBVIOUS
<1>2. /\ <<e>> \in Seq({e}) /\ Len(<<e>>) = 1 /\ <<e>>[1] = e
      /\ Timed({e})
  BY DEF Timed
<1>3. CloseLast(<<e>>)
  BY <1>1, <1>2 DEF CloseLast
<1>4. e.time <= e.time
  OBVIOUS
<1>5. \A lo, hi : (e.kind # "Close" => lo <= e.time /\ e.time <= hi) => Between(<<e>>, lo, hi)
  BY <1>1, <1>2, <1>4 DEF Between
<1> QED  BY <1>2, <1>3, <1>5

LEMMA IndexedSeq ==
  ASSUME NEW E, NEW n \in Nat, NEW s, s = [k \in 1 .. n |-> s[k]], \A k \in 1 .. n : s[k] \in E
  PROVE  s \in Seq(E) /\ Len(s) = n
  OBVIOUS

(* n packets, c apart, from time t on. *)
LEMMA Spaced ==
  ASSUME NEW E, NEW n \in Nat, NEW c \in Nat, NEW t \in Nat, NEW s \in Seq(E), Len(s) = n,
         \A k \in 1 .. n : s[k].kind = "Packet" /\ s[k].time = t + k * c
  PROVE  /\ CloseLast(s) /\ Between(s, t, t + n * c)
         /\ \A k \in 1 .. n : s[k].time \in Nat
<1>1. ASSUME NEW i \in 1 .. n, NEW j \in 1 .. n, i <= j
      PROVE  i * c \in Nat /\ i * c <= j * c
  <2>1. i \in Nat /\ j \in Nat
    OBVIOUS
  <2> QED  BY <1>1, <2>1, TimesGrow
<1>2. ASSUME NEW i \in 1 .. n
      PROVE  s[i].time \in Nat /\ t <= s[i].time /\ s[i].time <= t + n * c
  <2>1. i \in Nat /\ i <= n
    OBVIOUS
  <2>2. i * c \in Nat /\ i * c <= n * c /\ n * c \in Nat
    BY <2>1, TimesGrow
  <2> DEFINE x == i * c
             y == n * c
  <2>3. s[i].time = t + x
    OBVIOUS
  <2>4. x \in Nat /\ x <= y /\ y \in Nat
    BY <2>2
  <2> HIDE DEF x, y
  <2> QED  BY <2>3, <2>4 DEF y
<1>3. ASSUME NEW i \in 1 .. n, NEW j \in 1 .. n, i < j
      PROVE  s[i].time <= s[j].time
  <2> DEFINE x == i * c
             y == j * c
  <2>1. x \in Nat /\ x <= y
    BY <1>1, <1>3
  <2>2. y \in Nat
    BY <1>1
  <2>3. s[i].time = t + x /\ s[j].time = t + y
    OBVIOUS
  <2> HIDE DEF x, y
  <2> QED  BY <2>1, <2>2, <2>3
<1>4. CloseLast(s)
  BY DEF CloseLast
<1> QED  BY <1>2, <1>3, <1>4 DEF Between

(* Nothing on its way to an actor that runs, and nothing that may still be  *)
(* sent to it, is earlier than what the actor has heard from anybody.       *)
InTime(C, q, h, R, P) ==
  \A ch \in C : ch[2] \in R =>
    /\ CloseLast(q[ch])
    /\ h[ch] <= P[ch]
    /\ \A d \in C : d[2] = ch[2] => /\ Between(q[ch], h[d], P[ch])
                                    /\ q[ch] = <<>> => h[d] <= h[ch]

(* The first event of c is earlier than all that may come to the same actor. *)
Earliest(C, q, h, c) ==
  \A d \in C : d[2] = c[2] => Head(q[c]).time <= IF q[d] # <<>> THEN Head(q[d]).time ELSE h[d]

LEMMA TakeInTime ==
  ASSUME NEW Ev, Timed(Ev), NEW C, NEW R, NEW c \in C,
         NEW q \in [C -> Seq(Ev)], NEW h \in [C -> Nat], NEW P \in [C -> Int],
         InTime(C, q, h, R, P),
         q[c] # <<>>, Earliest(C, q, h, c), c[2] \in R => Head(q[c]).kind # "Close"
  PROVE  InTime(C, [q EXCEPT ![c] = Tail(@)], [h EXCEPT ![c] = Head(q[c]).time], R, P)
<1> DEFINE e  == Head(q[c])
           q2 == [q EXCEPT ![c] = Tail(@)]
           h2 == [h EXCEPT ![c] = e.time]
<1>1. \A ch \in C : q[ch] \in Seq(Ev) /\ h[ch] \in Nat /\ P[ch] \in Int
  OBVIOUS
<1>2. /\ q2[c] = Tail(q[c]) /\ h2[c] = e.time
      /\ \A ch \in C : ch # c => q2[ch] = q[ch] /\ h2[ch] = h[ch]
  OBVIOUS
<1>3. e \in Ev /\ e.time \in Nat
  BY HeadTailProperties DEF Timed
<1> HIDE DEF e, q2, h2
<1> SUFFICES ASSUME NEW ch \in C, ch[2] \in R
             PROVE  /\ CloseLast(q2[ch])
                    /\ h2[ch] <= P[ch]
                    /\ \A d \in C : d[2] = ch[2] => /\ Between(q2[ch], h2[d], P[ch])
                                                    /\ q2[ch] = <<>> => h2[d] <= h2[ch]
  BY DEF InTime, q2, h2, e
<1>4. /\ CloseLast(q[ch]) /\ h[ch] <= P[ch]
      /\ \A d \in C : d[2] = ch[2] => Between(q[ch], h[d], P[ch]) /\ (q[ch] = <<>> => h[d] <= h[ch])
  BY DEF InTime
<1>5. CASE ch[2] # c[2]
  BY <1>2, <1>4, <1>5
<1>6. CASE ch = c
  <2>1. e.kind # "Close"
    BY <1>6 DEF e
  <2>2. /\ Len(q[c]) \in Nat \ {0} /\ Len(Tail(q[c])) = Len(q[c]) - 1
        /\ \A i \in 1 .. Len(q[c]) - 1 : Tail(q[c])[i] = q[c][i + 1]
    BY <1>1, <1>4, <1>6, TailBetween
  <2>3. CloseLast(Tail(q[c]))
    <3>1. CloseLast(q[c])
      BY <1>4, <1>6
    <3> DEFINE l == Len(q[c])
    <3>2. \A i \in 1 .. l - 1 : i + 1 \in 1 .. l /\ (i + 1 = l => i = l - 1)
      <4>1. l \in Nat  BY <2>2
      <4> HIDE DEF l
      <4> QED  BY <4>1
    <3> QED  BY <2>2, <3>1, <3>2 DEF CloseLast
  <2>4. ASSUME NEW d \in C, d[2] = ch[2]
        PROVE  /\ h[d] <= e.time /\ e.time <= P[c]
               /\ Between(Tail(q[c]), h[d], P[c]) /\ Between(Tail(q[c]), e.time, P[c])
    <3>1. q[c] \in Seq(Ev) /\ q[c] # <<>> /\ h[d] \in Int /\ P[c] \in Int
      BY <1>1
    <3>2. Between(q[c], h[d], P[c])
      BY <1>4, <1>6, <2>4
    <3>3. e = Head(q[c])
      BY DEF e
    <3> QED  BY <2>1, <3>1, <3>2, <3>3, TailBetween
  <2>5. ASSUME NEW d \in C, d[2] = ch[2]
        PROVE  Between(Tail(q[c]), h2[d], P[c]) /\ h2[d] <= e.time
    <3>1. CASE d = c
      BY <1>2, <1>3, <1>6, <2>4, <3>1
    <3>2. CASE d # c
      BY <1>2, <2>4, <2>5, <3>2
    <3> QED  BY <3>1, <3>2
  <2>6. e.time <= P[c]
    BY <2>4, <1>6
  <2> QED  BY <1>2, <1>6, <2>3, <2>5, <2>6
<1>7. CASE ch # c /\ ch[2] = c[2]
  <2>1. e.time <= IF q[ch] # <<>> THEN Head(q[ch]).time ELSE h[ch]
    BY <1>7 DEF Earliest, e
  <2>2. Between(q[ch], e.time, P[ch])
    <3>1. CASE q[ch] = <<>>
      BY <3>1 DEF Between
    <3>2. CASE q[ch] # <<>>
      <4>1. Head(q[ch]) = q[ch][1] /\ Len(q[ch]) \in Nat \ {0}
        BY <1>1, <3>2, EmptySeq
      <4>2. e.time <= q[ch][1].time
        BY <2>1, <3>2, <4>1
      <4>3. \A i \in 1 .. Len(q[ch]) : q[ch][i].time \in Nat
        BY <1>1, ElementOfSeq DEF Timed
      <4>4. ASSUME NEW i \in 1 .. Len(q[ch]), q[ch][i].kind # "Close"
            PROVE  e.time <= q[ch][i].time
        <5>1. CASE i = 1
          BY <4>2, <5>1
        <5>2. CASE i # 1
          <6> DEFINE l == Len(q[ch])
          <6>0. l \in Nat \ {0} /\ i \in 1 .. l
            BY <4>1
          <6> HIDE DEF l
          <6>a. 1 \in 1 .. l /\ 1 < i /\ 1 # l
            BY <5>2, <6>0
          <6>1. 1 \in 1 .. Len(q[ch]) /\ 1 < i /\ 1 # Len(q[ch])
            BY <6>a DEF l
          <6>2. q[ch][1].kind # "Close"
            BY <1>4, <6>1 DEF CloseLast
          <6>3. q[ch][1].time <= q[ch][i].time
            BY <1>4, <4>4, <6>1, <6>2 DEF Between
          <6>4. q[ch][1].time \in Nat /\ q[ch][i].time \in Nat
            BY <4>3, <6>1
          <6> QED  BY <1>3, <4>2, <6>3, <6>4
        <5> QED  BY <5>1, <5>2
      <4> QED  BY <1>4, <4>4 DEF Between
    <3> QED  BY <3>1, <3>2
  <2>3. q[ch] = <<>> => e.time <= h[ch]
    BY <2>1
  <2>4. \A d \in C : d[2] = ch[2] => Between(q[ch], h2[d], P[ch]) /\ (q[ch] = <<>> => h2[d] <= h[ch])
    BY <1>2, <1>4, <2>2, <2>3
  <2> QED  BY <1>2, <1>4, <1>7, <2>4
<1> QED  BY <1>5, <1>6, <1>7

LEMMA PushedCloseLast ==
  ASSUME NEW Ev, NEW q \in Seq(Ev), NEW out \in Seq(Ev), NEW n \in Nat, Len(q) <= n,
         CloseLast(out), \A i \in 1 .. Len(q) : q[i].kind # "Close"
  PROVE  CloseLast(Pushed(q, out, n)) /\ (Pushed(q, out, n) = <<>> => q = <<>>)
<1> DEFINE p == Pushed(q, out, n)
           k == Fits(q, out, n)
<1>1. Len(q) \in Nat /\ Len(out) \in Nat
  BY LenProperties
<1>0. IsPushed(p, k, q, out)
  BY PushedSeq
<1>2. /\ k \in 0 .. Len(out)
      /\ Len(p) = Len(q) + k
      /\ \A i \in 1 .. Len(q) : p[i] = q[i]
      /\ \A i \in Len(q) + 1 .. Len(q) + k : p[i] = out[i - Len(q)]
  BY <1>0 DEF IsPushed
<1> HIDE DEF p, k
<1>3. ASSUME NEW i \in 1 .. Len(p), p[i].kind = "Close"
      PROVE  i = Len(p)
  <2>1. i \notin 1 .. Len(q)
    BY <1>2, <1>3
  <2>2. i \in Len(q) + 1 .. Len(q) + k
    BY <1>1, <1>2, <2>1
  <2>3. i - Len(q) \in 1 .. Len(out) /\ out[i - Len(q)].kind = "Close"
    BY <1>1, <1>2, <1>3, <2>2
  <2>4. i - Len(q) = Len(out)
    BY <2>3 DEF CloseLast
  <2>5. k \in 0 .. Len(out) /\ Len(p) = Len(q) + k
    BY <1>2
  <2> QED  BY ONLY <1>1, <2>2, <2>4, <2>5
<1>4. p = <<>> => q = <<>>
  <2>1. p = <<>> => Len(q) + k = 0
    BY <1>2
  <2>2. k \in Nat
    BY <1>1, <1>2
  <2>3. p = <<>> => Len(q) = 0
    BY ONLY <1>1, <2>1, <2>2
  <2> QED  BY <2>3, EmptySeq
<1> QED  BY <1>3, <1>4 DEF p, CloseLast

(* A handler pushes out to the channels D: to the queues q, of n places,    *)
(* which are q2 then.                                                       *)
Queues(C, Ev) == [C -> Seq(Ev)]
Times(C, T)   == [C -> T]
Later(C, R, P, P2) == \A ch \in C : ch[2] \in R => P[ch] <= P2[ch]

IsPush(C, q, D, out, n, q2) ==
  \A ch \in C : /\ Len(q[ch]) <= n
               /\ q2[ch] = IF ch \in D THEN Pushed(q[ch], out[ch], n) ELSE q[ch]

Timely(D, R, q, out, P, P2) ==
  \A ch \in D : ch[2] \in R =>
    /\ CloseLast(out[ch])
    /\ Between(out[ch], P[ch], P2[ch])
    /\ \A i \in 1 .. Len(q[ch]) : q[ch][i].kind # "Close"

LEMMA PushInTime ==
  ASSUME NEW Ev, Timed(Ev), NEW C, NEW R, NEW n \in Nat,
         NEW q \in Queues(C, Ev), NEW h \in Times(C, Nat), NEW P \in Times(C, Int), NEW P2 \in Times(C, Int),
         InTime(C, q, h, R, P), Later(C, R, P, P2),
         NEW D \in SUBSET C, NEW out \in Queues(D, Ev), Timely(D, R, q, out, P, P2),
         NEW q2, IsPush(C, q, D, out, n, q2)
  PROVE  InTime(C, q2, h, R, P2)
<1>1. \A ch \in C : /\ q[ch] \in Seq(Ev) /\ h[ch] \in Nat /\ P[ch] \in Int /\ P2[ch] \in Int
                    /\ q2[ch] = IF ch \in D THEN Pushed(q[ch], out[ch], n) ELSE q[ch]
                    /\ Len(q[ch]) <= n /\ (ch[2] \in R => P[ch] <= P2[ch])
  BY DEF Queues, Times, Later, IsPush
<1> SUFFICES ASSUME NEW ch \in C, ch[2] \in R
             PROVE  /\ CloseLast(q2[ch])
                    /\ h[ch] <= P2[ch]
                    /\ \A d \in C : d[2] = ch[2] => /\ Between(q2[ch], h[d], P2[ch])
                                                    /\ q2[ch] = <<>> => h[d] <= h[ch]
  BY DEF InTime
<1>2. /\ CloseLast(q[ch]) /\ h[ch] <= P[ch]
      /\ \A d \in C : d[2] = ch[2] => Between(q[ch], h[d], P[ch]) /\ (q[ch] = <<>> => h[d] <= h[ch])
  BY DEF InTime
<1>3. h[ch] <= P2[ch]
  BY <1>1, <1>2
<1>4. \A i \in 1 .. Len(q[ch]) : q[ch][i].time \in Nat
  BY <1>1, ElementOfSeq DEF Timed
<1>5. CASE ch \notin D
  <2>1. \A d \in C : d[2] = ch[2] => Between(q[ch], h[d], P2[ch])
    <3> SUFFICES ASSUME NEW d \in C, d[2] = ch[2], NEW i \in 1 .. Len(q[ch]), q[ch][i].kind # "Close"
                 PROVE  q[ch][i].time <= P2[ch]
      BY <1>2 DEF Between
    <3>1. q[ch][i].time <= P[ch] /\ P[ch] <= P2[ch]
      BY <1>1, <1>2 DEF Between
    <3> QED  BY <1>1, <1>4, <3>1
  <2> QED  BY <1>1, <1>2, <1>3, <1>5, <2>1
<1>6. CASE ch \in D
  <2> DEFINE o == out[ch]
  <2>1. /\ o \in Seq(Ev) /\ CloseLast(o) /\ Between(o, P[ch], P2[ch])
        /\ \A i \in 1 .. Len(q[ch]) : q[ch][i].kind # "Close"
    BY <1>6 DEF Queues, Timely
  <2>2. q2[ch] = Pushed(q[ch], o, n)
    BY <1>1, <1>6
  <2> HIDE DEF o
  <2>5. CloseLast(q2[ch]) /\ (q2[ch] = <<>> => q[ch] = <<>>)
    <3>1. q[ch] \in Seq(Ev) /\ Len(q[ch]) <= n
      BY <1>1
    <3> QED  BY <2>1, <2>2, <3>1, PushedCloseLast
  <2>6. ASSUME NEW d \in C, d[2] = ch[2]
        PROVE  Between(q2[ch], h[d], P2[ch])
    <3>1. h[d] <= P[ch]
      <4>1. CASE q[ch] = <<>>
        BY <1>1, <1>2, <2>6, <4>1
      <4>2. CASE q[ch] # <<>>
        <5>1. 1 \in 1 .. Len(q[ch])
          BY <1>1, <4>2, EmptySeq
        <5>2. h[d] <= q[ch][1].time /\ q[ch][1].time <= P[ch]
          BY <1>2, <2>1, <2>6, <5>1 DEF Between
        <5> QED  BY <1>1, <1>4, <5>1, <5>2
      <4> QED  BY <4>1, <4>2
    <3>2. h[d] \in Int /\ P[ch] \in Int /\ P2[ch] \in Int /\ P[ch] <= P2[ch] /\ Len(q[ch]) <= n
      BY <1>1
    <3> QED  BY <1>1, <1>2, <2>1, <2>2, <2>6, <3>1, <3>2, PushedBetween
  <2> QED  BY <1>2, <1>3, <2>5, <2>6
<1> QED  BY <1>5, <1>6

(* Whoever has sent a Close does not run, and sent it after the limit. *)
Closed(C, q, R, limit) ==
  \A ch \in C : \A i \in 1 .. Len(q[ch]) :
    q[ch][i].kind = "Close" => ch[1] \notin R /\ q[ch][i].time > limit

LEMMA PushClosed ==
  ASSUME NEW Ev, NEW C, NEW R, NEW R2 \in SUBSET R, NEW n \in Nat, NEW limit \in Int,
         NEW q \in Queues(C, Ev), Closed(C, q, R, limit),
         NEW D \in SUBSET C, NEW out \in Queues(D, Ev), Closed(D, out, R2, limit),
         NEW q2, IsPush(C, q, D, out, n, q2)
  PROVE  Closed(C, q2, R2, limit)
<1> SUFFICES ASSUME NEW ch \in C
             PROVE  \A i \in 1 .. Len(q2[ch]) : q2[ch][i].kind = "Close" =>
                       ch[1] \notin R2 /\ q2[ch][i].time > limit
  BY DEF Closed
<1>1. \A i \in 1 .. Len(q[ch]) : q[ch][i].kind = "Close" => ch[1] \notin R2 /\ q[ch][i].time > limit
  BY DEF Closed
<1>2. CASE ch \notin D
  BY <1>1, <1>2 DEF IsPush
<1>3. CASE ch \in D
  <2> DEFINE p == Pushed(q[ch], out[ch], n)
  <2>1. q[ch] \in Seq(Ev) /\ out[ch] \in Seq(Ev) /\ Len(q[ch]) <= n /\ q2[ch] = p
    BY <1>3 DEF Queues, IsPush
  <2> DEFINE Good == {e \in Ev : e.kind = "Close" => ch[1] \notin R2 /\ e.time > limit}
  <2>2. /\ \A i \in 1 .. Len(q[ch]) : q[ch][i] \in Good
        /\ \A i \in 1 .. Len(out[ch]) : out[ch][i] \in Good
    BY <1>1, <1>3, <2>1, ElementOfSeq DEF Closed
  <2> HIDE DEF Good
  <2>3. \A i \in 1 .. Len(p) : p[i] \in Good
    BY <2>1, <2>2, PushedWithin
  <2> QED  BY <2>1, <2>3 DEF Good
<1> QED  BY <1>2, <1>3

LEMMA TakeClosed ==
  ASSUME NEW Ev, NEW C, NEW R, NEW limit \in Int, NEW c \in C,
         NEW q \in [C -> Seq(Ev)], q[c] # <<>>,
         Closed(C, q, R, limit)
  PROVE  /\ Closed(C, [q EXCEPT ![c] = Tail(@)], R, limit)
         /\ Head(q[c]).kind = "Close" => Head(q[c]).time > limit
<1> DEFINE q2 == [q EXCEPT ![c] = Tail(@)]
           l  == Len(q[c])
<1>1. q2[c] = Tail(q[c]) /\ \A ch \in C : ch # c => q2[ch] = q[ch]
  OBVIOUS
<1>2. /\ l \in Nat \ {0} /\ Head(q[c]) = q[c][1] /\ Len(Tail(q[c])) = l - 1
      /\ \A i \in 1 .. l - 1 : Tail(q[c])[i] = q[c][i + 1]
  BY HeadTailProperties, EmptySeq
<1>3. \A i \in 1 .. l : q[c][i].kind = "Close" => c[1] \notin R /\ q[c][i].time > limit
  BY DEF Closed
<1> HIDE DEF q2, l
<1>4. \A i \in 1 .. l - 1 : i + 1 \in 1 .. l
  BY <1>2
<1>5. 1 \in 1 .. l
  BY <1>2
<1>6. \A i \in 1 .. Len(q2[c]) : q2[c][i].kind = "Close" => c[1] \notin R /\ q2[c][i].time > limit
  BY <1>1, <1>2, <1>3, <1>4
<1>7. Closed(C, q2, R, limit)
  BY <1>1, <1>6 DEF Closed
<1> QED  BY <1>2, <1>3, <1>5, <1>7 DEF q2

-----------------------------------------------------------------------------
(* Counting.  s: a sequence of at most n events for every member of B;      *)
(* Spots: the places in them that hold an event of G.                       *)

Spots(B, s, n, G) == {x \in B \X (1 .. n) : x[2] \in 1 .. Len(s[x[1]]) /\ s[x[1]][x[2]] \in G}

LEMMA SpotsFinite ==
  ASSUME NEW B, IsFiniteSet(B), NEW n \in Nat, NEW s, NEW G
  PROVE  /\ IsFiniteSet(Spots(B, s, n, G))
         /\ Cardinality(Spots(B, s, n, G)) \in Nat
         /\ Cardinality(Spots(B, s, n, G)) = 0 <=> Spots(B, s, n, G) = {}
<1>1. IsFiniteSet(1 .. n)
  BY FS_Interval
<1>2. IsFiniteSet(B \X (1 .. n))
  BY <1>1, FS_Product
<1>3. Spots(B, s, n, G) \in SUBSET (B \X (1 .. n))
  BY DEF Spots
<1>4. IsFiniteSet(Spots(B, s, n, G))
  BY <1>2, <1>3, FS_Subset
<1> QED  BY <1>4, FS_CardinalityType, FS_EmptySet

(* The sequence of c loses its first event. *)
Shortened(Ev, B, s, n, c, s2) ==
  /\ c \in B /\ \A b \in B : Len(s[b]) <= n
  /\ s[c] \in Seq(Ev) /\ s[c] # <<>> /\ s2[c] = Tail(s[c])
  /\ \A b \in B : b # c => s2[b] = s[b]

LEMMA SpotsTake ==
  ASSUME NEW Ev, NEW B, IsFiniteSet(B), NEW n \in Nat, NEW G,
         NEW s, NEW s2, NEW c, Shortened(Ev, B, s, n, c, s2)
  PROVE  Cardinality(Spots(B, s2, n, G)) =
           IF Head(s[c]) \in G THEN Cardinality(Spots(B, s, n, G)) - 1 ELSE Cardinality(Spots(B, s, n, G))
<1> DEFINE old  == Spots(B, s, n, G)
           new  == Spots(B, s2, n, G)
           left == old \ {<<c, 1>>}
           f    == [x \in left |-> IF x[1] = c THEN <<c, x[2] - 1>> ELSE x]
           l    == Len(s[c])
<1>0. /\ c \in B /\ s[c] \in Seq(Ev) /\ s[c] # <<>> /\ s2[c] = Tail(s[c])
      /\ \A b \in B : Len(s[b]) <= n /\ (b # c => s2[b] = s[b])
  BY DEF Shortened
<1>1. /\ l \in Nat \ {0} /\ l <= n /\ Head(s[c]) = s[c][1]
      /\ Len(s2[c]) = l - 1 /\ \A i \in 1 .. l - 1 : s2[c][i] = s[c][i + 1]
  BY <1>0, HeadTailProperties, EmptySeq
<1>2. \A b, i : <<b, i>> \in old <=> b \in B /\ i \in 1 .. n /\ i \in 1 .. Len(s[b]) /\ s[b][i] \in G
  BY DEF Spots
<1>3. \A b, i : <<b, i>> \in new <=> b \in B /\ i \in 1 .. n /\ i \in 1 .. Len(s2[b]) /\ s2[b][i] \in G
  BY DEF Spots
<1>4. \A x \in old : x[1] \in B /\ x[2] \in 1 .. n /\ x = <<x[1], x[2]>>
  BY DEF Spots
<1>5. \A x \in new : x[1] \in B /\ x[2] \in 1 .. n /\ x = <<x[1], x[2]>>
  BY DEF Spots
<1>6. IsFiniteSet(old)
  BY SpotsFinite
<1>7. Cardinality(left) = (IF Head(s[c]) \in G THEN Cardinality(old) - 1 ELSE Cardinality(old)) /\ IsFiniteSet(left)
  <2>1. <<c, 1>> \in old <=> Head(s[c]) \in G
    <3>1. 1 \in 1 .. n /\ 1 \in 1 .. l
      <4> HIDE DEF l
      <4> QED  BY <1>1
    <3> QED  BY <1>0, <1>1, <1>2, <3>1
  <2> HIDE DEF old
  <2> QED  BY <1>6, <2>1, FS_RemoveElement
<1> HIDE DEF old, new
<1>8. ASSUME NEW x \in left
      PROVE  f[x] \in new
  <2>1. CASE x[1] = c
    <3> DEFINE i == x[2]
    <3>1. x = <<c, i>> /\ i \in 1 .. n /\ i \in 1 .. l /\ s[c][i] \in G /\ i # 1
      BY <1>2, <1>4, <2>1
    <3> HIDE DEF i, l
    <3>2. i - 1 \in 1 .. l - 1 /\ i - 1 \in 1 .. n /\ (i - 1) + 1 = i
      BY <1>1, <3>1
    <3>3. s2[c][i - 1] \in G /\ i - 1 \in 1 .. Len(s2[c])
      BY <1>1, <3>1, <3>2
    <3>4. <<c, i - 1>> \in new
      BY <1>0, <1>3, <3>2, <3>3
    <3>5. f[x] = <<c, i - 1>>
      BY <2>1 DEF i
    <3> QED  BY <3>4, <3>5
  <2>2. CASE x[1] # c
    <3>1. /\ x = <<x[1], x[2]>> /\ x[1] \in B /\ x[2] \in 1 .. n
          /\ x[2] \in 1 .. Len(s[x[1]]) /\ s[x[1]][x[2]] \in G
      BY <1>2, <1>4
    <3>2. s2[x[1]] = s[x[1]]
      BY <1>0, <2>2, <3>1
    <3>3. x \in new
      BY <1>3, <3>1, <3>2
    <3> QED  BY <2>2, <3>3
  <2> QED  BY <2>1, <2>2
<1>9. ASSUME NEW y \in new
      PROVE  \E x \in left : f[x] = y
  <2>1. CASE y[1] = c
    <3> DEFINE i == y[2]
    <3>1. y = <<c, i>> /\ i \in 1 .. n /\ i \in 1 .. l - 1 /\ s2[c][i] \in G
      BY <1>1, <1>3, <1>5, <2>1
    <3> HIDE DEF i, l
    <3>2. i + 1 \in 1 .. l /\ i + 1 \in 1 .. n /\ (i + 1) - 1 = i /\ i + 1 # 1
      BY <1>1, <3>1
    <3>3. <<c, i + 1>> \in old
      BY <1>0, <1>1, <1>2, <3>1, <3>2 DEF l
    <3>4. <<c, i + 1>> \in left
      BY <3>2, <3>3
    <3>5. f[<<c, i + 1>>] = <<c, (i + 1) - 1>>
      BY <3>4
    <3> QED  BY <3>1, <3>2, <3>4, <3>5
  <2>2. CASE y[1] # c
    <3>1. /\ y = <<y[1], y[2]>> /\ y[1] \in B /\ y[2] \in 1 .. n
          /\ y[2] \in 1 .. Len(s2[y[1]]) /\ s2[y[1]][y[2]] \in G
      BY <1>3, <1>5
    <3>2. s2[y[1]] = s[y[1]]
      BY <1>0, <2>2, <3>1
    <3>3. y \in old /\ y # <<c, 1>>
      BY <1>2, <2>2, <3>1, <3>2
    <3>4. y \in left /\ f[y] = y
      BY <2>2, <3>3
    <3> QED  BY <3>4
  <2> QED  BY <2>1, <2>2
<1>10. ASSUME NEW x \in left, NEW y \in left, f[x] = f[y]
       PROVE  x = y
  <2>1. /\ x[2] \in Nat /\ x = <<x[1], x[2]>> /\ f[x] = <<x[1], IF x[1] = c THEN x[2] - 1 ELSE x[2]>>
        /\ y[2] \in Nat /\ y = <<y[1], y[2]>> /\ f[y] = <<y[1], IF y[1] = c THEN y[2] - 1 ELSE y[2]>>
    BY <1>4
  <2> DEFINE i == x[2]
             j == y[2]
             b == x[1]
             d == y[1]
  <2>2. i \in Nat /\ j \in Nat /\ x = <<b, i>> /\ y = <<d, j>>
    BY <2>1
  <2>3. <<b, IF b = c THEN i - 1 ELSE i>> = <<d, IF d = c THEN j - 1 ELSE j>>
    BY <1>10, <2>1
  <2> HIDE DEF i, j, b, d
  <2>4. b = d /\ i = j
    BY <2>2, <2>3
  <2> QED  BY <2>2, <2>4
<1>11. f \in [left -> new]
  <2> HIDE DEF left
  <2> QED  BY <1>8
<1> HIDE DEF left, f
<1>12. f \in Bijection(left, new)
  BY <1>9, <1>10, <1>11, Fun_IsBij
<1>13. Cardinality(new) = Cardinality(left)
  BY <1>7, <1>12, FS_Bijection DEF ExistsBijection
<1> QED  BY <1>7, <1>13 DEF new, old

(* s2 goes on where s ends. *)
Prolongs(B, s, s2) ==
  \A b \in B : /\ Len(s[b]) \in Nat /\ Len(s2[b]) \in Nat /\ Len(s[b]) <= Len(s2[b])
               /\ \A i \in 1 .. Len(s[b]) : s2[b][i] = s[b][i]

LEMMA SpotsGrow ==
  ASSUME NEW B, IsFiniteSet(B), NEW n \in Nat, NEW G, NEW s, NEW s2, Prolongs(B, s, s2)
  PROVE  /\ Spots(B, s, n, G) \subseteq Spots(B, s2, n, G)
         /\ Cardinality(Spots(B, s, n, G)) <= Cardinality(Spots(B, s2, n, G))
         /\ Cardinality(Spots(B, s, n, G)) # Cardinality(Spots(B, s2, n, G)) =>
              \E b \in B : \E i \in Len(s[b]) + 1 .. Len(s2[b]) : s2[b][i] \in G
<1> DEFINE old == Spots(B, s, n, G)
           new == Spots(B, s2, n, G)
<1>1. old \subseteq new
  <2> SUFFICES ASSUME NEW x \in old  PROVE x \in new
    OBVIOUS
  <2>1. x \in B \X (1 .. n) /\ x[1] \in B /\ x[2] \in 1 .. Len(s[x[1]]) /\ s[x[1]][x[2]] \in G
    BY DEF Spots
  <2>2. x[2] \in 1 .. Len(s2[x[1]]) /\ s2[x[1]][x[2]] \in G
    BY <2>1 DEF Prolongs
  <2> QED  BY <2>1, <2>2 DEF Spots
<1>2. IsFiniteSet(new) /\ IsFiniteSet(old)
  BY SpotsFinite
<1>3. ASSUME old # new
      PROVE  \E b \in B : \E i \in Len(s[b]) + 1 .. Len(s2[b]) : s2[b][i] \in G
  <2>1. PICK x \in new : x \notin old
    BY <1>1, <1>3
  <2>2. /\ x \in B \X (1 .. n) /\ x[1] \in B /\ x[2] \in Nat
        /\ x[2] \in 1 .. Len(s2[x[1]]) /\ s2[x[1]][x[2]] \in G
    BY DEF Spots
  <2>3. ~(x[2] \in 1 .. Len(s[x[1]]) /\ s[x[1]][x[2]] \in G)
    BY <2>1, <2>2 DEF Spots
  <2>4. x[2] \notin 1 .. Len(s[x[1]])
    BY <2>2, <2>3 DEF Prolongs
  <2>5. x[2] \in Len(s[x[1]]) + 1 .. Len(s2[x[1]])
    BY <2>2, <2>4 DEF Prolongs
  <2> QED  BY <2>2, <2>5
<1> HIDE DEF old, new
<1>4. Cardinality(old) <= Cardinality(new) /\ (Cardinality(old) # Cardinality(new) => old # new)
  BY <1>1, <1>2, FS_Subset
<1> QED  BY <1>1, <1>3, <1>4 DEF old, new

(* The sequence of c gets one event of G more, the others none. *)
Extended(B, s, n, c, s2, G) ==
  /\ c \in B /\ Prolongs(B, s, s2) /\ \A b \in B : b # c => s2[b] = s[b]
  /\ Len(s2[c]) = Len(s[c]) + 1 /\ Len(s2[c]) <= n /\ s2[c][Len(s2[c])] \in G

LEMMA SpotsAdd ==
  ASSUME NEW B, IsFiniteSet(B), NEW n \in Nat, NEW G, NEW s, NEW s2, NEW c, Extended(B, s, n, c, s2, G)
  PROVE  Cardinality(Spots(B, s2, n, G)) = Cardinality(Spots(B, s, n, G)) + 1
<1> DEFINE old == Spots(B, s, n, G)
           new == Spots(B, s2, n, G)
           k   == Len(s[c])
<1>a. c \in B /\ Prolongs(B, s, s2) /\ \A b \in B : b # c => s2[b] = s[b]
  BY DEF Extended
<1>0. k \in Nat /\ Len(s2[c]) = k + 1 /\ k + 1 <= n /\ s2[c][k + 1] \in G
  BY <1>a DEF Extended, Prolongs
<1>1. IsFiniteSet(old)
  BY SpotsFinite
<1>2. <<c, k + 1>> \notin old
  <2>1. k + 1 \notin 1 .. k
    <3> HIDE DEF k
    <3> QED  BY <1>0
  <2> QED  BY <2>1 DEF Spots
<1>3. <<c, k + 1>> \in new
  <2>1. k + 1 \in 1 .. n /\ k + 1 \in 1 .. k + 1
    <3> HIDE DEF k
    <3> QED  BY <1>0
  <2> HIDE DEF k
  <2> QED  BY <1>a, <1>0, <2>1 DEF Spots
<1>4. old \subseteq new
  BY <1>a, SpotsGrow
<1>5. ASSUME NEW x \in new, x # <<c, k + 1>>
      PROVE  x \in old
  <2>1. /\ x \in B \X (1 .. n) /\ x[1] \in B /\ x[2] \in Nat /\ x = <<x[1], x[2]>>
        /\ x[2] \in 1 .. Len(s2[x[1]]) /\ s2[x[1]][x[2]] \in G
    BY DEF Spots
  <2>2. CASE x[1] # c
    <3>1. s2[x[1]] = s[x[1]]
      BY <1>a, <2>1, <2>2
    <3> QED  BY <2>1, <3>1 DEF Spots
  <2>3. CASE x[1] = c
    <3>1. x[2] # k + 1 /\ x[2] \in 1 .. k + 1
      BY <1>0, <1>5, <2>1, <2>3
    <3>2. x[2] \in 1 .. k
      <4> HIDE DEF k
      <4> QED  BY <1>0, <3>1
    <3>3. s2[c][x[2]] = s[c][x[2]]
      BY <1>a, <3>2 DEF Prolongs
    <3> QED  BY <2>1, <2>3, <3>2, <3>3 DEF Spots
  <2> QED  BY <2>2, <2>3
<1>6. new = old \cup {<<c, k + 1>>}
  <2> HIDE DEF old, new
  <2> QED  BY <1>3, <1>4, <1>5
<1> HIDE DEF old, new, k
<1>7. Cardinality(new) = Cardinality(old) + 1
  BY <1>1, <1>2, <1>6, FS_AddElement
<1> QED  BY <1>7 DEF old, new

(* What is on its way to actor a: how many events of M there are for each   *)
(* time.  C, q, n: the channels, their queues, and the places of a queue.   *)
In(C, a)         == {ch[1] : ch \in {c \in C : c[2] = a}}
Into(C, q, a)    == [b \in In(C, a) |-> q[<<b, a>>]]
At(M, t)         == {e \in M : e.time = t}
On(C, q, n, M, a) == [t \in Nat |-> Cardinality(Spots(In(C, a), Into(C, q, a), n, At(M, t)))]

(* The channels lead from members of a finite set to each actor. *)
Channels(C, q, n, Ev) ==
  /\ \A ch \in C : ch = <<ch[1], ch[2]>> /\ q[ch] \in Seq(Ev) /\ Len(q[ch]) <= n
  /\ \A a : IsFiniteSet(In(C, a))

LEMMA InChannels ==
  ASSUME NEW Ev, NEW C, NEW q, NEW n, Channels(C, q, n, Ev), NEW a
  PROVE  /\ \A b : b \in In(C, a) <=> <<b, a>> \in C
         /\ \A b \in In(C, a) : /\ Into(C, q, a)[b] = q[<<b, a>>]
                                /\ Into(C, q, a)[b] \in Seq(Ev)
                                /\ Len(Into(C, q, a)[b]) \in Nat
                                /\ Len(Into(C, q, a)[b]) <= n
<1>1. \A b : b \in In(C, a) <=> <<b, a>> \in C
  <2>1. ASSUME NEW b, b \in In(C, a)  PROVE <<b, a>> \in C
    <3>1. PICK ch \in C : ch[2] = a /\ b = ch[1]
      BY <2>1 DEF In
    <3>2. ch = <<ch[1], ch[2]>>
      BY DEF Channels
    <3> QED  BY <3>1, <3>2
  <2>2. ASSUME NEW b, <<b, a>> \in C  PROVE b \in In(C, a)
    <3>1. <<b, a>>[1] = b /\ <<b, a>>[2] = a
      OBVIOUS
    <3> QED  BY <2>2, <3>1 DEF In
  <2> QED  BY <2>1, <2>2
<1>2. \A b \in In(C, a) : Into(C, q, a)[b] = q[<<b, a>>]
  BY DEF Into
<1>3. \A b \in In(C, a) : q[<<b, a>>] \in Seq(Ev) /\ Len(q[<<b, a>>]) <= n
  BY <1>1 DEF Channels
<1> QED  BY <1>1, <1>2, <1>3, LenProperties

(* Some event of time t of M is in a queue that leads to a. *)
Comes(C, q, M, a, t) ==
  \E ch \in C : ch[2] = a /\ \E i \in 1 .. Len(q[ch]) : q[ch][i] \in M /\ q[ch][i].time = t

LEMMA OnWay ==
  ASSUME NEW Ev, NEW C, NEW q, NEW n \in Nat, Channels(C, q, n, Ev), NEW a, NEW M, NEW t \in Nat
  PROVE  /\ On(C, q, n, M, a)[t] \in Nat
         /\ On(C, q, n, M, a)[t] # 0 <=> Comes(C, q, M, a, t)
<1> DEFINE B == In(C, a)
           s == Into(C, q, a)
           S == Spots(B, s, n, At(M, t))
<1>1. On(C, q, n, M, a)[t] = Cardinality(S)
  BY DEF On
<1>2. \A b \in B : <<b, a>> \in C /\ s[b] = q[<<b, a>>] /\ Len(s[b]) \in Nat /\ Len(s[b]) <= n
  BY InChannels
<1>3. IsFiniteSet(B)
  BY DEF Channels
<1>4. Cardinality(S) \in Nat /\ (Cardinality(S) # 0 <=> S # {})
  <2> HIDE DEF B, s
  <2> QED  BY <1>3, SpotsFinite
<1>5. ASSUME NEW x \in S
      PROVE  \E ch \in C : ch[2] = a /\ \E i \in 1 .. Len(q[ch]) : q[ch][i] \in M /\ q[ch][i].time = t
  <2> DEFINE b == x[1]
             i == x[2]
  <2> HIDE DEF B, s
  <2>1. b \in B /\ i \in 1 .. Len(s[b]) /\ s[b][i] \in M /\ s[b][i].time = t
    BY DEF Spots, At
  <2> HIDE DEF b, i
  <2>2. <<b, a>> \in C /\ i \in 1 .. Len(q[<<b, a>>]) /\ q[<<b, a>>][i] \in M /\ q[<<b, a>>][i].time = t
    BY <1>2, <2>1
  <2>3. <<b, a>>[2] = a
    OBVIOUS
  <2> QED  BY <2>2, <2>3
<1>6. ASSUME NEW ch \in C, ch[2] = a, NEW i \in 1 .. Len(q[ch]), q[ch][i] \in M, q[ch][i].time = t
      PROVE  S # {}
  <2> DEFINE b == ch[1]
  <2>1. ch = <<b, a>>
    BY <1>6 DEF Channels
  <2>2. b \in B
    BY <1>6 DEF In
  <2> HIDE DEF B, s, b
  <2>3. i \in 1 .. Len(s[b]) /\ s[b][i] \in At(M, t)
    BY <1>2, <1>6, <2>1, <2>2 DEF At
  <2>4. i \in 1 .. n
    <3> DEFINE k == Len(s[b])
    <3>1. k \in Nat /\ k <= n /\ i \in 1 .. k
      BY <1>2, <2>2, <2>3
    <3> HIDE DEF k
    <3> QED  BY <3>1
  <2>5. <<b, i>> \in S
    BY <2>2, <2>3, <2>4 DEF Spots
  <2> QED  BY <2>5
<1> HIDE DEF S
<1> QED  BY <1>1, <1>4, <1>5, <1>6 DEF Comes

(* The first event of channel c is taken. *)
LEMMA OnTake ==
  ASSUME NEW Ev, NEW C, NEW q, NEW n \in Nat, Channels(C, q, n, Ev), NEW M,
         NEW c \in C, q[c] # <<>>, NEW q2, q2[c] = Tail(q[c]), \A ch \in C : ch # c => q2[ch] = q[ch],
         NEW a, NEW t \in Nat
  PROVE  On(C, q2, n, M, a)[t] = IF c[2] = a /\ Head(q[c]) \in M /\ Head(q[c]).time = t
                                 THEN On(C, q, n, M, a)[t] - 1 ELSE On(C, q, n, M, a)[t]
<1> DEFINE B  == In(C, a)
           s  == Into(C, q, a)
           s2 == Into(C, q2, a)
<1>1. \A b \in B : /\ <<b, a>> \in C /\ s[b] = q[<<b, a>>] /\ s[b] \in Seq(Ev)
                   /\ Len(s[b]) \in Nat /\ Len(s[b]) <= n /\ s2[b] = q2[<<b, a>>]
  BY InChannels DEF Into
<1>2. IsFiniteSet(B)
  BY DEF Channels
<1>3. /\ On(C, q, n, M, a)[t] = Cardinality(Spots(B, s, n, At(M, t)))
      /\ On(C, q2, n, M, a)[t] = Cardinality(Spots(B, s2, n, At(M, t)))
  BY DEF On
<1>4. CASE c[2] = a
  <2> DEFINE b == c[1]
  <2>1. c = <<b, a>> /\ b \in B
    BY <1>4 DEF Channels, In
  <2> HIDE DEF B, s, s2, b
  <2>2. s[b] \in Seq(Ev) /\ s[b] # <<>> /\ s2[b] = Tail(s[b]) /\ s[b] = q[c]
    BY <1>1, <2>1
  <2>3. \A d \in B : d # b => s2[d] = s[d]
    <3> SUFFICES ASSUME NEW d \in B, d # b  PROVE s2[d] = s[d]
      OBVIOUS
    <3>1. <<d, a>> # c
      BY <2>1
    <3> QED  BY <1>1, <3>1
  <2>4. Cardinality(Spots(B, s2, n, At(M, t))) =
          IF Head(s[b]) \in At(M, t) THEN Cardinality(Spots(B, s, n, At(M, t))) - 1
          ELSE Cardinality(Spots(B, s, n, At(M, t)))
    <3>1. \A d \in B : Len(s[d]) <= n
      BY <1>1
    <3> DEFINE G == At(M, t)
    <3> HIDE DEF G
    <3>2. Shortened(Ev, B, s, n, b, s2)
      BY <2>1, <2>2, <2>3, <3>1 DEF Shortened
    <3>3. Cardinality(Spots(B, s2, n, G)) =
            IF Head(s[b]) \in G THEN Cardinality(Spots(B, s, n, G)) - 1 ELSE Cardinality(Spots(B, s, n, G))
      BY ONLY <1>2, <3>2, n \in Nat, SpotsTake
    <3> QED  BY <3>3 DEF G
  <2>5. Head(s[b]) \in At(M, t) <=> Head(q[c]) \in M /\ Head(q[c]).time = t
    BY <2>2 DEF At
  <2> QED  BY <1>3, <1>4, <2>4, <2>5
<1>5. CASE c[2] # a
  <2>1. \A b \in B : q2[<<b, a>>] = q[<<b, a>>]
    <3> SUFFICES ASSUME NEW b \in B  PROVE q2[<<b, a>>] = q[<<b, a>>]
      OBVIOUS
    <3>1. <<b, a>>[2] = a
      OBVIOUS
    <3>2. <<b, a>> # c
      BY <1>5, <3>1
    <3> QED  BY <1>1, <3>2
  <2>2. s2 = s
    BY <2>1 DEF Into
  <2> QED  BY <1>3, <1>5, <2>2
<1> QED  BY <1>4, <1>5

LEMMA PushProlongs ==
  ASSUME NEW Ev, NEW q \in Seq(Ev), NEW out \in Seq(Ev), NEW n \in Nat, Len(q) <= n,
         NEW p, p = Pushed(q, out, n)
  PROVE  /\ Len(p) \in Nat /\ Len(q) \in Nat /\ Len(q) <= Len(p)
         /\ \A i \in 1 .. Len(q) : p[i] = q[i]
         /\ \A i \in Len(q) + 1 .. Len(p) : i - Len(q) \in 1 .. Len(out) /\ p[i] = out[i - Len(q)]
<1> DEFINE k == Fits(q, out, n)
<1>1. Len(q) \in Nat /\ Len(out) \in Nat
  BY LenProperties
<1>2. IsPushed(p, k, q, out)
  BY PushedSeq
<1>3. /\ k \in 0 .. Len(out)
      /\ Len(p) = Len(q) + k
      /\ \A i \in 1 .. Len(q) : p[i] = q[i]
      /\ \A i \in Len(q) + 1 .. Len(q) + k : p[i] = out[i - Len(q)]
  BY <1>2 DEF IsPushed
<1> HIDE DEF k
<1>4. \A i \in Len(q) + 1 .. Len(q) + k : i - Len(q) \in 1 .. Len(out)
  BY <1>1, <1>3
<1>5. Len(p) \in Nat /\ Len(q) <= Len(p)
  BY <1>1, <1>3
<1> QED  BY <1>1, <1>3, <1>4, <1>5

(* From the queues q to q2 nothing is lost on the way to a at time t, and   *)
(* what is new comes from out, pushed to the channels D.                    *)
Gains(C, q, q2, n, M, D, out, a, t) ==
  /\ On(C, q, n, M, a)[t] <= On(C, q2, n, M, a)[t]
  /\ On(C, q, n, M, a)[t] # On(C, q2, n, M, a)[t] =>
       \E ch \in D : ch[2] = a /\ \E i \in 1 .. Len(out[ch]) : out[ch][i] \in M /\ out[ch][i].time = t

LEMMA OnPush ==
  ASSUME NEW Ev, NEW C, NEW q, NEW n \in Nat, Channels(C, q, n, Ev), NEW M,
         NEW D \in SUBSET C, NEW out \in Queues(D, Ev), NEW q2, IsPush(C, q, D, out, n, q2),
         NEW a, NEW t \in Nat
  PROVE  Gains(C, q, q2, n, M, D, out, a, t)
<1> DEFINE B  == In(C, a)
           s  == Into(C, q, a)
           s2 == Into(C, q2, a)
<1>1. \A b \in B : /\ <<b, a>> \in C /\ s[b] = q[<<b, a>>] /\ s[b] \in Seq(Ev)
                   /\ Len(s[b]) \in Nat /\ Len(s[b]) <= n /\ s2[b] = q2[<<b, a>>]
  BY InChannels DEF Into
<1>2. IsFiniteSet(B)
  BY DEF Channels
<1>3. /\ On(C, q, n, M, a)[t] = Cardinality(Spots(B, s, n, At(M, t)))
      /\ On(C, q2, n, M, a)[t] = Cardinality(Spots(B, s2, n, At(M, t)))
  BY DEF On
<1> HIDE DEF B, s, s2
<1>4. ASSUME NEW b \in B
      PROVE  /\ Len(s2[b]) \in Nat /\ Len(s[b]) <= Len(s2[b])
             /\ \A i \in 1 .. Len(s[b]) : s2[b][i] = s[b][i]
             /\ \A i \in Len(s[b]) + 1 .. Len(s2[b]) :
                  /\ <<b, a>> \in D /\ i - Len(s[b]) \in 1 .. Len(out[<<b, a>>])
                  /\ s2[b][i] = out[<<b, a>>][i - Len(s[b])]
  <2>0. /\ <<b, a>> \in C /\ s[b] = q[<<b, a>>] /\ s[b] \in Seq(Ev)
        /\ Len(s[b]) \in Nat /\ Len(s[b]) <= n /\ s2[b] = q2[<<b, a>>]
    BY <1>1
  <2>1. CASE <<b, a>> \in D
    <3> DEFINE o == out[<<b, a>>]
    <3>1. o \in Seq(Ev) /\ s2[b] = Pushed(s[b], o, n)
      BY <2>0, <2>1 DEF Queues, IsPush
    <3> DEFINE x == s[b]
               y == s2[b]
    <3>2. x \in Seq(Ev) /\ o \in Seq(Ev) /\ Len(x) <= n /\ y = Pushed(x, o, n) /\ n \in Nat
      BY <2>0, <3>1
    <3> HIDE DEF o, x, y
    <3>3. /\ Len(y) \in Nat /\ Len(x) <= Len(y)
          /\ \A i \in 1 .. Len(x) : y[i] = x[i]
          /\ \A i \in Len(x) + 1 .. Len(y) : i - Len(x) \in 1 .. Len(o) /\ y[i] = o[i - Len(x)]
      BY ONLY <3>2, PushProlongs
    <3> QED  BY <2>1, <3>3 DEF o, x, y
  <2>2. CASE <<b, a>> \notin D
    <3>1. s2[b] = s[b]
      BY <2>0, <2>2 DEF IsPush
    <3>2. Len(s[b]) + 1 .. Len(s2[b]) = {}
      BY <2>0, <3>1
    <3> QED  BY <2>0, <3>1, <3>2
  <2> QED  BY <2>1, <2>2
<1>5. Prolongs(B, s, s2)
  BY <1>1, <1>4 DEF Prolongs
<1>6. /\ Cardinality(Spots(B, s, n, At(M, t))) <= Cardinality(Spots(B, s2, n, At(M, t)))
      /\ Cardinality(Spots(B, s, n, At(M, t))) # Cardinality(Spots(B, s2, n, At(M, t))) =>
           \E b \in B : \E i \in Len(s[b]) + 1 .. Len(s2[b]) : s2[b][i] \in At(M, t)
  BY <1>2, <1>5, SpotsGrow
<1>7. ASSUME NEW b \in B, NEW i \in Len(s[b]) + 1 .. Len(s2[b]), s2[b][i] \in At(M, t)
      PROVE  \E ch \in D : ch[2] = a /\ \E j \in 1 .. Len(out[ch]) : out[ch][j] \in M /\ out[ch][j].time = t
  <2> DEFINE ch == <<b, a>>
             j  == i - Len(s[b])
  <2>1. ch \in D /\ j \in 1 .. Len(out[ch]) /\ out[ch][j] \in M /\ out[ch][j].time = t /\ ch[2] = a
    BY <1>4, <1>7 DEF At
  <2> HIDE DEF ch, j
  <2> QED  BY <2>1
<1> QED  BY <1>3, <1>6, <1>7 DEF Gains

(* c's first event is the least: none on its way to the same actor comes    *)
(* before it, and nothing heard is later.                                   *)
LEMMA FromEarliest ==
  ASSUME NEW Ev, Timed(Ev), NEW C, NEW R, NEW q \in [C -> Seq(Ev)], NEW h \in [C -> Nat],
         NEW P \in [C -> Int], InTime(C, q, h, R, P),
         NEW c \in C, c[2] \in R, q[c] # <<>>, Earliest(C, q, h, c)
  PROVE  /\ \A d \in C : d[2] = c[2] =>
              \A i \in 1 .. Len(q[d]) : q[d][i].kind # "Close" => Head(q[c]).time <= q[d][i].time
         /\ Head(q[c]).kind # "Close" => \A d \in C : d[2] = c[2] => h[d] <= Head(q[c]).time
<1>0. /\ Head(q[c]) = q[c][1] /\ q[c][1].time \in Nat /\ 1 \in 1 .. Len(q[c])
  <2>1. Head(q[c]) = q[c][1] /\ Len(q[c]) \in Nat \ {0}
    BY EmptySeq
  <2>2. 1 \in 1 .. Len(q[c])
    BY <2>1
  <2> QED  BY <2>1, <2>2, ElementOfSeq DEF Timed
<1>1. ASSUME NEW d \in C, d[2] = c[2], NEW i \in 1 .. Len(q[d]), q[d][i].kind # "Close"
      PROVE  Head(q[c]).time <= q[d][i].time
  <2>1. q[d] # <<>> /\ q[d] \in Seq(Ev)
    BY <1>1, LenProperties
  <2>2. Head(q[d]) = q[d][1] /\ Len(q[d]) \in Nat \ {0}
    BY <2>1, EmptySeq
  <2>3. Head(q[c]).time <= q[d][1].time
    BY <1>1, <2>1, <2>2 DEF Earliest
  <2>4. CloseLast(q[d]) /\ Between(q[d], h[d], P[d])
    BY <1>1 DEF InTime
  <2>5. CASE i = 1
    BY <2>3, <2>5
  <2>6. CASE i # 1
    <3> DEFINE l == Len(q[d])
    <3>0. l \in Nat \ {0} /\ i \in 1 .. l
      BY <2>2
    <3> HIDE DEF l
    <3>1. 1 \in 1 .. l /\ 1 < i /\ 1 # l
      BY <2>6, <3>0
    <3>2. q[d][1].kind # "Close"
      BY <2>4, <3>1 DEF CloseLast, l
    <3>3. q[d][1].time <= q[d][i].time
      BY <1>1, <2>4, <3>0, <3>1, <3>2 DEF Between, l
    <3>4. q[d][1].time \in Nat /\ q[d][i].time \in Nat
      BY <2>1, <3>0, <3>1, ElementOfSeq DEF Timed, l
    <3> QED  BY <1>0, <2>3, <3>3, <3>4
  <2> QED  BY <2>5, <2>6
<1>2. ASSUME Head(q[c]).kind # "Close", NEW d \in C, d[2] = c[2]
      PROVE  h[d] <= Head(q[c]).time
  <2>1. Between(q[c], h[d], P[c])
    BY <1>2 DEF InTime
  <2> QED  BY <1>0, <1>2, <2>1 DEF Between
<1> QED  BY <1>1, <1>2

(* What anybody has been told is no later than what a running actor may     *)
(* still push to him.                                                       *)
Past(C, h, R, P) ==
  \A ch \in C : ch[1] \in R => \A d \in C : d[2] = ch[2] => h[d] <= P[ch]

LEMMA TakePast ==
  ASSUME NEW Ev, Timed(Ev), NEW C, NEW R, NEW limit, NEW q \in [C -> Seq(Ev)], NEW h \in [C -> Nat],
         NEW P \in [C -> Int], InTime(C, q, h, R, P), Closed(C, q, R, limit), Past(C, h, R, P),
         NEW c \in C, c[2] \in R, q[c] # <<>>, Earliest(C, q, h, c)
  PROVE  Past(C, [h EXCEPT ![c] = Head(q[c]).time], R, P)
<1> DEFINE h2 == [h EXCEPT ![c] = Head(q[c]).time]
<1> SUFFICES ASSUME NEW ch \in C, ch[1] \in R, NEW d \in C, d[2] = ch[2]
             PROVE  h2[d] <= P[ch]
  BY DEF Past
<1>1. CASE d # c
  BY <1>1 DEF Past
<1>2. CASE d = c
  <2>1. h2[d] = Head(q[c]).time
    BY <1>2
  <2>2. Head(q[c]).time <= IF q[ch] # <<>> THEN Head(q[ch]).time ELSE h[ch]
    BY <1>2 DEF Earliest
  <2>3. h[ch] <= P[ch] /\ h[ch] \in Nat /\ P[ch] \in Int
    BY <1>2 DEF InTime
  <2>4. Head(q[c]).time \in Nat
    BY HeadTailProperties DEF Timed
  <2>5. CASE q[ch] = <<>>
    BY <2>1, <2>2, <2>3, <2>4, <2>5
  <2>6. CASE q[ch] # <<>>
    <3>1. Head(q[ch]) = q[ch][1] /\ 1 \in 1 .. Len(q[ch])
      <4>1. Len(q[ch]) \in Nat \ {0}
        BY <2>6, EmptySeq
      <4> QED  BY <4>1
    <3>2. q[ch][1].kind # "Close"
      BY <3>1 DEF Closed
    <3>3. Between(q[ch], h[ch], P[ch])
      BY <1>2 DEF InTime
    <3>4. q[ch][1].time <= P[ch]
      BY <3>1, <3>2, <3>3 DEF Between
    <3>5. q[ch][1].time \in Nat
      BY <3>1, ElementOfSeq DEF Timed
    <3> QED  BY <2>1, <2>2, <2>3, <2>4, <2>6, <3>1, <3>4, <3>5
  <2> QED  BY <2>5, <2>6
<1> QED  BY <1>1, <1>2

-----------------------------------------------------------------------------
(* Bags of times: the one that holds k[t] times the time t. *)
Bg == INSTANCE Bags

Held(k) == {t \in Nat : k[t] # 0}
Bag(k)  == [t \in Held(k) |-> k[t]]

Less(k, t0) == [t \in Nat |-> IF t = t0 THEN k[t] - 1 ELSE k[t]]

LEMMA BagsCompare ==
  ASSUME NEW k \in [Nat -> Nat], NEW k2 \in [Nat -> Nat]
  PROVE  /\ Bg!IsABag(Bag(k)) /\ DOMAIN Bag(k) \subseteq Nat
         /\ \A t : t \in DOMAIN Bag(k) <=> t \in Nat /\ k[t] # 0
         /\ (\A t \in Nat : k[t] <= k2[t]) => Bg!\sqsubseteq(Bag(k), Bag(k2))
         /\ \A t \in DOMAIN Bg!(-)(Bag(k2), Bag(k)) : t \in Nat /\ k2[t] > k[t]
<1> DEFINE b == Bag(k)
           b2 == Bag(k2)
<1>1. \A t : t \in DOMAIN b <=> t \in Nat /\ k[t] # 0
  BY DEF Bag, Held
<1>2. \A t : t \in DOMAIN b2 <=> t \in Nat /\ k2[t] # 0
  BY DEF Bag, Held
<1>3. \A t \in DOMAIN b : b[t] = k[t] /\ k[t] \in Nat /\ k[t] > 0 /\ t \in Nat
  BY DEF Bag, Held
<1>4. \A t \in DOMAIN b2 : b2[t] = k2[t] /\ k2[t] \in Nat /\ k2[t] > 0 /\ t \in Nat
  BY DEF Bag, Held
<1>5. b \in [DOMAIN b -> {n \in Nat : n > 0}]
  <2>1. b = [t \in DOMAIN b |-> b[t]]
    BY DEF Bag, Held
  <2> HIDE DEF b
  <2> QED  BY <1>3, <2>1
<1> HIDE DEF b, b2
<1>6. Bg!IsABag(b)
  BY <1>5 DEF Bg!IsABag
<1>7. (\A t \in Nat : k[t] <= k2[t]) => Bg!\sqsubseteq(b, b2)
  BY <1>1, <1>2, <1>3, <1>4 DEF Bg!\sqsubseteq
<1>8. ASSUME NEW t \in DOMAIN Bg!(-)(b2, b)  PROVE t \in Nat /\ k2[t] > k[t]
  <2>1. t \in DOMAIN b2 /\ (IF t \in DOMAIN b THEN b2[t] - b[t] ELSE b2[t]) > 0
    BY <1>8 DEF Bg!(-)
  <2> QED  BY <1>1, <1>3, <1>4, <2>1
<1> QED  BY <1>1, <1>3, <1>6, <1>7, <1>8 DEF b, b2

LEMMA BagWithout ==
  ASSUME NEW k \in [Nat -> Nat], NEW t0 \in Nat, k[t0] # 0
  PROVE  /\ Less(k, t0) \in [Nat -> Nat]
         /\ Bg!(-)(Bag(k), Bg!SetToBag({t0})) = Bag(Less(k, t0))
<1> DEFINE b == Bag(k)
           s == Bg!SetToBag({t0})
           l == Less(k, t0)
           d == Bg!(-)(b, s)
           bl == Bag(l)
<1>1. \A t : t \in DOMAIN b <=> t \in Nat /\ k[t] # 0
  BY DEF Bag, Held
<1>2. \A t \in DOMAIN b : b[t] = k[t]
  BY DEF Bag, Held
<1>3. DOMAIN s = {t0} /\ s[t0] = 1
  BY DEF Bg!SetToBag
<1>4. l \in [Nat -> Nat] /\ \A t \in Nat : l[t] = IF t = t0 THEN k[t] - 1 ELSE k[t]
  BY DEF Less
<1>5. /\ DOMAIN d = {t \in DOMAIN b : (IF t \in DOMAIN s THEN b[t] - s[t] ELSE b[t]) > 0}
      /\ \A t \in DOMAIN d : d[t] = IF t \in DOMAIN s THEN b[t] - s[t] ELSE b[t]
      /\ d = [t \in DOMAIN d |-> d[t]]
  BY DEF Bg!(-)
<1>6. /\ DOMAIN bl = {t \in Nat : l[t] # 0} /\ \A t \in DOMAIN bl : bl[t] = l[t]
      /\ bl = [t \in DOMAIN bl |-> bl[t]]
  BY DEF Bag, Held
<1> HIDE DEF b, s, l, d, bl
<1>7. \A t : t \in DOMAIN d <=> t \in DOMAIN bl
  BY <1>1, <1>2, <1>3, <1>4, <1>5, <1>6
<1>8. \A t \in DOMAIN d : d[t] = bl[t]
  BY <1>1, <1>2, <1>3, <1>4, <1>5, <1>6, <1>7
<1>9. d = bl
  <2>1. DOMAIN d = DOMAIN bl
    BY <1>7
  <2> QED  BY <1>5, <1>6, <1>8, <2>1
<1> QED  BY <1>4, <1>9 DEF d, bl, l, b, s

-----------------------------------------------------------------------------
(* Coming and Now of Links, for any queues and times heard. *)
WaysAt(C, q, a, t) ==
  {x \in UNION {{<<b, i>> : i \in DOMAIN q[<<b, a>>]} : b \in In(C, a)} :
     LET e == q[<<x[1], a>>][x[2]] IN e.kind \notin {"Null", "Close"} /\ e.time = t}

WaysTimes(C, q, a) ==
  UNION {{e.time : e \in {f \in ToSet(q[<<b, a>>]) : f.kind \notin {"Null", "Close"}}} : b \in In(C, a)}

WaysBag(C, q, a) == [t \in WaysTimes(C, q, a) |-> Cardinality(WaysAt(C, q, a, t))]

Latest(C, h, a) == Max({h[<<b, a>>] : b \in In(C, a)})

(* M are those of the events Ev that are the model's. *)
AreModels(M, Ev) == \A e \in Ev : e \in M <=> e.kind \notin {"Null", "Close"}

LEMMA OnTyped ==
  ASSUME NEW Ev, NEW C, NEW q, NEW n \in Nat, Channels(C, q, n, Ev), NEW a, NEW M
  PROVE  /\ On(C, q, n, M, a) \in [Nat -> Nat]
         /\ \A t \in Nat : On(C, q, n, M, a)[t] # 0 <=> Comes(C, q, M, a, t)
<1>1. ASSUME NEW t \in Nat
      PROVE  On(C, q, n, M, a)[t] \in Nat /\ (On(C, q, n, M, a)[t] # 0 <=> Comes(C, q, M, a, t))
  BY OnWay
<1>2. On(C, q, n, M, a) = [t \in Nat |-> On(C, q, n, M, a)[t]]
  BY DEF On
<1> QED  BY ONLY <1>1, <1>2

LEMMA SameOn ==
  ASSUME NEW C, NEW n, NEW M, NEW a, NEW q, NEW q2,
         \A t \in Nat : On(C, q2, n, M, a)[t] = On(C, q, n, M, a)[t]
  PROVE  On(C, q2, n, M, a) = On(C, q, n, M, a)
<1>1. /\ On(C, q2, n, M, a) = [t \in Nat |-> On(C, q2, n, M, a)[t]]
      /\ On(C, q, n, M, a) = [t \in Nat |-> On(C, q, n, M, a)[t]]
  BY DEF On
<1> QED  BY ONLY <1>1, \A t \in Nat : On(C, q2, n, M, a)[t] = On(C, q, n, M, a)[t]

(* If no event of M is pushed, as many are on their way. *)
LEMMA OnQuiet ==
  ASSUME NEW Ev, NEW C, NEW q, NEW n \in Nat, Channels(C, q, n, Ev), NEW M,
         NEW D \in SUBSET C, NEW out \in Queues(D, Ev), NEW q2, IsPush(C, q, D, out, n, q2),
         \A ch \in D : \A i \in 1 .. Len(out[ch]) : out[ch][i] \notin M,
         NEW a
  PROVE  On(C, q2, n, M, a) = On(C, q, n, M, a)
<1>1. \A t \in Nat : On(C, q2, n, M, a)[t] = On(C, q, n, M, a)[t]
  <2> TAKE t \in Nat
  <2>1. Gains(C, q, q2, n, M, D, out, a, t)
    BY OnPush
  <2> QED  BY <2>1 DEF Gains
<1> QED  BY ONLY <1>1, SameOn

LEMMA BagOfWays ==
  ASSUME NEW Ev, Timed(Ev), NEW C, NEW q, NEW n \in Nat, Channels(C, q, n, Ev),
         NEW M, AreModels(M, Ev), NEW a
  PROVE  WaysBag(C, q, a) = Bag(On(C, q, n, M, a))
<1> DEFINE I == In(C, a)
           w == On(C, q, n, M, a)
<1>2. /\ \A b : b \in I <=> <<b, a>> \in C
      /\ \A b \in I : /\ Into(C, q, a)[b] = q[<<b, a>>] /\ q[<<b, a>>] \in Seq(Ev)
                      /\ Len(q[<<b, a>>]) \in Nat /\ Len(q[<<b, a>>]) <= n
                      /\ DOMAIN q[<<b, a>>] = 1 .. Len(q[<<b, a>>])
  BY InChannels, LenProperties
<1>w. \A t \in Nat : w[t] # 0 <=> Comes(C, q, M, a, t)
  BY OnTyped
<1>3. \A b \in I : \A i \in 1 .. Len(q[<<b, a>>]) :
        /\ q[<<b, a>>][i] \in Ev /\ q[<<b, a>>][i].time \in Nat
        /\ q[<<b, a>>][i].kind \notin {"Null", "Close"} <=> q[<<b, a>>][i] \in M
  <2>1. \A b \in I : \A i \in 1 .. Len(q[<<b, a>>]) : q[<<b, a>>][i] \in Ev
    BY <1>2, ElementOfSeq
  <2> QED  BY <2>1 DEF AreModels, Timed
<1> HIDE DEF w
<1>4. WaysTimes(C, q, a) = Held(w)
  <2>1. ASSUME NEW t \in WaysTimes(C, q, a)  PROVE t \in Held(w)
    <3>1. PICK b \in I : \E e \in ToSet(q[<<b, a>>]) : e.kind \notin {"Null", "Close"} /\ e.time = t
      BY DEF WaysTimes
    <3>2. PICK i \in 1 .. Len(q[<<b, a>>]) : q[<<b, a>>][i].kind \notin {"Null", "Close"} /\ q[<<b, a>>][i].time = t
      BY <1>2, <3>1 DEF ToSet
    <3>3. q[<<b, a>>][i] \in M /\ t \in Nat
      BY <1>3, <3>2
    <3>4. <<b, a>> \in C /\ <<b, a>>[2] = a
      BY <1>2
    <3>5. w[t] # 0
      BY <1>w, <3>2, <3>3, <3>4 DEF Comes
    <3> QED  BY <3>3, <3>5 DEF Held
  <2>2. ASSUME NEW t \in Held(w)  PROVE t \in WaysTimes(C, q, a)
    <3>1. t \in Nat /\ w[t] # 0
      BY DEF Held
    <3>2. PICK ch \in C : ch[2] = a /\ \E i \in 1 .. Len(q[ch]) : q[ch][i] \in M /\ q[ch][i].time = t
      BY <1>w, <3>1 DEF Comes
    <3>3. PICK i \in 1 .. Len(q[ch]) : q[ch][i] \in M /\ q[ch][i].time = t
      BY <3>2
    <3>4. ch = <<ch[1], a>> /\ ch[1] \in I
      BY <3>2 DEF Channels, In
    <3>5. q[ch][i].kind \notin {"Null", "Close"} /\ q[ch][i] \in ToSet(q[<<ch[1], a>>])
      BY <1>2, <1>3, <3>3, <3>4 DEF ToSet
    <3>6. t \in {e.time : e \in {f \in ToSet(q[<<ch[1], a>>]) : f.kind \notin {"Null", "Close"}}}
      BY <3>3, <3>5
    <3> QED  BY <3>4, <3>6 DEF WaysTimes
  <2> QED  BY <2>1, <2>2
<1>5. ASSUME NEW t \in Nat
      PROVE  Cardinality(WaysAt(C, q, a, t)) = w[t]
  <2> DEFINE S == Spots(In(C, a), Into(C, q, a), n, At(M, t))
  <2>1. ASSUME NEW x \in WaysAt(C, q, a, t)  PROVE x \in S
    <3>0. PICK b \in I : \E i \in DOMAIN q[<<b, a>>] : x = <<b, i>>
      BY DEF WaysAt
    <3>1. PICK i \in DOMAIN q[<<b, a>>] : x = <<b, i>>
      BY <3>0
    <3>2. q[<<b, a>>][i].kind \notin {"Null", "Close"} /\ q[<<b, a>>][i].time = t
      BY <3>1 DEF WaysAt
    <3>3. i \in 1 .. Len(q[<<b, a>>]) /\ i \in 1 .. n
      BY <1>2, <3>1
    <3>4. q[<<b, a>>][i] \in At(M, t)
      BY <1>3, <3>2, <3>3 DEF At
    <3> QED  BY <1>2, <3>1, <3>3, <3>4 DEF Spots
  <2>2. ASSUME NEW x \in S  PROVE x \in WaysAt(C, q, a, t)
    <3> DEFINE b == x[1]
               i == x[2]
    <3>1. /\ x = <<b, i>> /\ b \in I /\ i \in 1 .. Len(Into(C, q, a)[b])
          /\ Into(C, q, a)[b][i] \in At(M, t)
      BY DEF Spots
    <3> HIDE DEF b, i
    <3>2. i \in DOMAIN q[<<b, a>>] /\ q[<<b, a>>][i] \in M /\ q[<<b, a>>][i].time = t
      BY <1>2, <3>1 DEF At
    <3>3. q[<<b, a>>][i].kind \notin {"Null", "Close"}
      BY <1>2, <1>3, <3>1, <3>2
    <3>4. <<b, i>>[1] = b /\ <<b, i>>[2] = i
      OBVIOUS
    <3>5. x \in UNION {{<<d, j>> : j \in DOMAIN q[<<d, a>>]} : d \in In(C, a)}
      <4>1. x \in {<<b, j>> : j \in DOMAIN q[<<b, a>>]}
        BY <3>1, <3>2
      <4> QED  BY <3>1, <4>1
    <3> QED  BY <3>1, <3>2, <3>3, <3>4, <3>5 DEF WaysAt
  <2>3. S = WaysAt(C, q, a, t)
    <3> HIDE DEF S
    <3> QED  BY <2>1, <2>2
  <2> QED  BY <2>3 DEF On, w
<1>6. \A t \in Held(w) : t \in Nat
  BY DEF Held
<1> QED  BY <1>4, <1>5, <1>6 DEF WaysBag, Bag, w

ArePairs(C) == \A ch \in C : ch = <<ch[1], ch[2]>>

LEMMA LatestBounds ==
  ASSUME NEW C, ArePairs(C), NEW h \in [C -> Nat], NEW a, In(C, a) # {},
         NEW m \in Nat, \A ch \in C : ch[2] = a => h[ch] <= m
  PROVE  /\ Latest(C, h, a) \in Nat /\ Latest(C, h, a) <= m
         /\ \A ch \in C : ch[2] = a => h[ch] <= Latest(C, h, a)
<1> DEFINE S == {h[<<b, a>>] : b \in In(C, a)}
<1>1. \A b \in In(C, a) : <<b, a>> \in C /\ <<b, a>>[2] = a
  BY DEF In, ArePairs
<1>2. S \in SUBSET Nat /\ S # {} /\ \A y \in S : y <= m
  BY <1>1
<1>3. \A ch \in C : ch[2] = a => h[ch] \in S
  BY DEF In, ArePairs
<1>4. Latest(C, h, a) = Max(S)
  BY DEF Latest
<1> HIDE DEF S
<1>5. Max(S) \in S /\ \A y \in S : y <= Max(S)
  BY <1>2, MaxBounded
<1> QED  BY <1>2, <1>3, <1>4, <1>5

LEMMA SameHeard ==
  ASSUME NEW C, ArePairs(C), NEW h, NEW h2, NEW d, \A ch \in C : ch[2] = d => h2[ch] = h[ch]
  PROVE  Latest(C, h2, d) = Latest(C, h, d)
<1>1. \A b \in In(C, d) : h2[<<b, d>>] = h[<<b, d>>]
  BY DEF In, ArePairs
<1>2. {h2[<<b, d>>] : b \in In(C, d)} = {h[<<b, d>>] : b \in In(C, d)}
  BY <1>1
<1> QED  BY <1>2 DEF Latest

(* Who hears of a time t0 that is no earlier than all he has heard is there. *)
LEMMA HearsLatest ==
  ASSUME NEW C, ArePairs(C), NEW h \in [C -> Nat], NEW c \in C, NEW t0 \in Nat,
         \A ch \in C : ch[2] = c[2] => h[ch] <= t0
  PROVE  /\ Latest(C, [h EXCEPT ![c] = t0], c[2]) = t0
         /\ Latest(C, h, c[2]) \in Nat /\ Latest(C, h, c[2]) <= t0
<1> DEFINE h2 == [h EXCEPT ![c] = t0]
           a  == c[2]
<1>1. h2 \in [C -> Nat] /\ h2[c] = t0 /\ \A ch \in C : ch[2] = a => h2[ch] <= t0
  OBVIOUS
<1>2. In(C, a) # {} /\ c \in C /\ c[2] = a
  BY DEF In
<1>3. \A ch \in C : ch[2] = a => h[ch] <= t0
  OBVIOUS
<1> HIDE DEF h2, a
<1>4. Latest(C, h2, a) \in Nat /\ Latest(C, h2, a) <= t0 /\ h2[c] <= Latest(C, h2, a)
  BY <1>1, <1>2, LatestBounds
<1>5. Latest(C, h, a) \in Nat /\ Latest(C, h, a) <= t0
  BY <1>2, <1>3, LatestBounds
<1> QED  BY <1>1, <1>4, <1>5 DEF h2, a
-----------------------------------------------------------------------------
(* The last event of a queue *)

EndsInClose(s) == s # <<>> /\ s[Len(s)].kind = "Close"

(* What a queue's reader will have heard once the queue is empty. *)
LastTime(s, t) == IF s = <<>> THEN t ELSE s[Len(s)].time

(* Taking an event puts nothing last that was not last.                     *)
LEMMA LastOfTail ==
  ASSUME NEW Ev, NEW s \in Seq(Ev), s # <<>>, NEW t
  PROVE  /\ LastTime(Tail(s), Head(s).time) = LastTime(s, t)
         /\ EndsInClose(s) /\ Head(s).kind # "Close" => EndsInClose(Tail(s))
<1>1. /\ Len(s) \in Nat \ {0} /\ Tail(s) \in Seq(Ev) /\ Len(Tail(s)) = Len(s) - 1 /\ Head(s) = s[1]
      /\ \A i \in 1 .. Len(s) - 1 : Tail(s)[i] = s[i + 1]
  BY HeadTailProperties, EmptySeq
<1> DEFINE u == Tail(s)
           n == Len(s)
           m == Len(u)
<1>2. n \in Nat \ {0} /\ m = n - 1 /\ u \in Seq(Ev)
  BY <1>1
<1>e. m = 0 <=> n = 1
  <2> HIDE DEF n, m
  <2> QED  BY ONLY <1>2
<1>f. u = <<>> <=> m = 0
  <2> HIDE DEF u
  <2> QED  BY ONLY <1>2, EmptySeq
<1>3. CASE n = 1
  <2>1. u = <<>>
    BY ONLY <1>3, <1>e, <1>f
  <2> QED  BY <1>1, <1>3, <2>1 DEF LastTime, EndsInClose
<1>4. CASE n # 1
  <2>1. u # <<>>
    BY ONLY <1>4, <1>e, <1>f
  <2>2. u[m] = s[n]
    <3>1. \A i \in 1 .. n - 1 : u[i] = s[i + 1]
      BY <1>1
    <3> HIDE DEF u, n, m
    <3>2. m \in 1 .. n - 1 /\ m + 1 = n
      BY ONLY <1>2, <1>4
    <3> QED  BY <3>1, <3>2
  <2> QED  BY <2>1, <2>2 DEF LastTime, EndsInClose
<1> QED  BY <1>3, <1>4

(* What is pushed in full is last. *)
LEMMA LastPushed ==
  ASSUME NEW Ev, NEW q \in Seq(Ev), NEW out \in Seq(Ev), NEW n \in Nat,
         Len(out) <= n - Len(q), NEW p, p = Pushed(q, out, n), NEW t
  PROVE  /\ out # <<>> => LastTime(p, t) = out[Len(out)].time
         /\ out = <<>> => p = q
         /\ EndsInClose(out) => EndsInClose(p)
<1> DEFINE k == Len(out)
           l == Len(q)
<1>1. k \in Nat /\ l \in Nat /\ l <= n
  BY LenProperties
<1>2. p \in Seq(Ev) /\ Fits(q, out, n) = k /\ IsPushed(p, Fits(q, out, n), q, out)
  BY <1>1, PushedSeq
<1>3. /\ Len(p) = l + k
      /\ \A i \in 1 .. l : p[i] = q[i]
      /\ \A i \in l + 1 .. l + k : p[i] = out[i - l]
  BY <1>2 DEF IsPushed
<1>4. CASE out = <<>>
  <2>1. k = 0 /\ ~EndsInClose(out)
    BY <1>4 DEF EndsInClose
  <2>2. p = q
    <3>1. Len(p) = Len(q) /\ \A i \in 1 .. Len(q) : p[i] = q[i]
      BY <1>1, <1>3, <2>1
    <3> QED  BY <1>2, <3>1, SeqEqual
  <2> QED  BY <1>4, <2>1, <2>2
<1>5. CASE out # <<>>
  <2>1. k # 0
    BY <1>5, EmptySeq
  <2>2. l + k \in l + 1 .. l + k /\ (l + k) - l = k /\ l + k # 0
    <3> HIDE DEF l, k
    <3> QED  BY ONLY <1>1, <2>1
  <2>3. p # <<>> /\ p[Len(p)] = out[k]
    <3>1. p # <<>>
      BY <1>2, <1>3, <2>2, EmptySeq
    <3> QED  BY <1>3, <2>2, <3>1
  <2> QED  BY <1>5, <2>3 DEF LastTime, EndsInClose
<1> QED  BY <1>4, <1>5
=============================================================================
