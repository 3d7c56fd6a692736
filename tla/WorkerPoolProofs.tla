--------------------------- MODULE WorkerPoolProofs ---------------------------
(***************************************************************************)
(* The pool of WorkerPool shares no actor, loses none, and returns when all *)
(* are done, for every number of actors, workers and heaps.                 *)
(***************************************************************************)
EXTENDS WorkerPool, SequenceTheorems, FiniteSetTheorems, FunctionTheorems,
        WellFoundedInduction, TLAPS

States == {"pull", "advance", "idle", "returned", "panicked"}

Typed ==
  /\ heaps \in [Heaps -> Seq(Actors)]
  /\ counter \in Nat
  /\ pc \in [Workers -> States]
  /\ task \in [Workers -> Actors \cup {NoActor}]
  /\ \A w \in Workers : pc[w] = "advance" <=> task[w] # NoActor
  /\ counts \in [Workers -> Seq(Actors)]
  /\ joined \in 0 .. NWorkers /\ results \in Seq(Actors)
  /\ level \in [Actors -> 0 .. Goal]
  /\ panics \in 0 .. MaxPanics

(* Sequences that hold no actor twice, and none that another one holds. *)
Distinct(S, q) ==
  \A x, y \in S : \A i \in 1 .. Len(q[x]), j \in 1 .. Len(q[y]) :
    q[x][i] = q[y][j] => x = y /\ i = j

In(a, s) == \E i \in 1 .. Len(s) : s[i] = a

(* The actors that are not done. *)
InHeap(a)  == \E h \in Heaps : In(a, heaps[h])
InHands(a) == \E w \in Workers : task[w] = a
Live       == {a \in Actors : InHeap(a) \/ InHands(a)}

(* Every actor, or its result, is in one place at most. *)
Unique ==
  /\ Distinct(Heaps, heaps)
  /\ Distinct(Workers, counts)
  /\ \A v, w \in Workers : task[v] = task[w] /\ task[v] # NoActor => v = w
  /\ \A w \in Workers : \A a \in Actors :
       In(a, counts[w]) => ~InHeap(a) /\ ~InHands(a)
  /\ \A w \in Workers : ~InHeap(task[w])

(* What is not to be advanced again is done, unless a worker has panicked. *)
Found ==
  \A a \in Actors \ Live :
    panics = 0 => level[a] = Goal /\ \E w \in Workers : In(a, counts[w])

(* The main thread has the results of the workers that it has joined. *)
Joins ==
  /\ \A w \in 1 .. joined : pc[w] = "returned"
  /\ \A i, j \in 1 .. Len(results) : results[i] = results[j] => i = j
  /\ \A a \in Actors : In(a, results) <=> \E w \in 1 .. joined : In(a, counts[w])

(* The inductive invariant. *)
IInv ==
  /\ Typed
  /\ Unique
  /\ counter + Cardinality(Live) + panics = NActors
  /\ Found
  /\ \A w \in Workers : pc[w] = "returned" => counter = NActors
  /\ Joins
-----------------------------------------------------------------------------
LEMMA ConstantsTyped ==
  /\ NActors \in Nat \ {0} /\ NWorkers \in Nat /\ Goal \in Nat
  /\ NHeaps \in Nat \ {0} /\ NHeaps <= NActors
  /\ NoActor \notin Actors /\ Actors \subseteq Nat
  /\ 1 .. NWorkers = Workers
  BY PoolAssumption DEF NHeaps, NoActor, Actors, Workers

LEMMA SetsOfActors ==
  /\ Cardinality(Actors) = NActors
  /\ \A S \in SUBSET Actors : IsFiniteSet(S) /\ Cardinality(S) \in Nat
<1>1. NActors \in Nat /\ NActors # 0
  BY ConstantsTyped
<1>2. 0 \in Int /\ NActors - 1 \in Int /\ ~(0 > NActors - 1) /\ NActors - 1 - 0 + 1 = NActors
  BY <1>1
<1>3. IsFiniteSet(Actors) /\ Cardinality(Actors) = NActors
  BY <1>2, FS_Interval DEF Actors
<1>4. ASSUME NEW S \in SUBSET Actors  PROVE IsFiniteSet(S) /\ Cardinality(S) \in Nat
  <2>1. IsFiniteSet(S)
    BY <1>3, FS_Subset
  <2> QED  BY <2>1, FS_CardinalityType
<1> QED  BY <1>3, <1>4

(* A worker that has put its actor, if any, behind heap h takes the first.  *)
(* heap: what h then is.                                                    *)
LEMMA TakeFirst ==
  ASSUME Typed, Unique, NEW w \in Workers, NEW h \in Heaps,
         NEW heap \in Seq(Actors), heap # <<>>,
         \A i, j \in 1 .. Len(heap) : heap[i] = heap[j] => i = j,
         \A a \in Actors : In(a, heap) <=> In(a, heaps[h]) \/ a = task[w],
         heaps' = [heaps EXCEPT ![h] = Tail(heap)],
         task' = [task EXCEPT ![w] = Head(heap)],
         counts' = counts
  PROVE  /\ heaps' \in [Heaps -> Seq(Actors)]
         /\ task' \in [Workers -> Actors \cup {NoActor}] /\ task'[w] # NoActor
         /\ Live' = Live
         /\ Unique'
<1> USE ConstantsTyped
<1> DEFINE tail == Tail(heap)
           t    == heap[1]
<1>1. /\ Len(heap) \in Nat \ {0} /\ t \in Actors /\ Head(heap) = t
      /\ tail \in Seq(Actors) /\ Len(tail) = Len(heap) - 1
      /\ \A i \in 1 .. Len(tail) : tail[i] = heap[i + 1]
  <2>1. Len(heap) \in Nat \ {0}
    BY EmptySeq
  <2>2. t \in Actors /\ Head(heap) = t
    BY <2>1
  <2> QED  BY <2>1, <2>2, HeadTailProperties
<1>2. \A i \in 1 .. Len(tail) :
        i \in Nat /\ i + 1 \in 1 .. Len(heap) /\ i + 1 # 1 /\ tail[i] = heap[i + 1] /\ tail[i] \in Actors
  BY <1>1
<1>3. \A i \in 1 .. Len(heap) : i = 1 \/ (i - 1 \in 1 .. Len(tail) /\ tail[i - 1] = heap[i])
  BY <1>1
<1>4. 1 \in 1 .. Len(heap)
  BY <1>1
<1>5. /\ heaps \in [Heaps -> Seq(Actors)] /\ task \in [Workers -> Actors \cup {NoActor}]
  BY DEF Typed
<1> HIDE DEF tail, t
<1>6. /\ heaps'[h] = tail /\ task'[w] = t /\ t # NoActor
      /\ \A k \in Heaps : k # h => heaps'[k] = heaps[k]
      /\ \A v \in Workers : v # w => task'[v] = task[v]
  BY <1>1, <1>5 DEF tail
<1>7. /\ heaps' \in [Heaps -> Seq(Actors)]
      /\ task' \in [Workers -> Actors \cup {NoActor}]
  BY <1>1, <1>5 DEF tail
<1>8. \A a \in Actors : In(a, heap) <=> a = t \/ In(a, tail)
  <2> TAKE a \in Actors
  <2>1. In(a, heap) => a = t \/ In(a, tail)
    BY <1>3 DEF In, t
  <2>2. a = t => In(a, heap)
    BY <1>4 DEF In, t
  <2>3. In(a, tail) => In(a, heap)
    BY <1>2 DEF In
  <2> QED  BY <2>1, <2>2, <2>3
<1>9. ~In(t, tail)
  <2> SUFFICES ASSUME NEW i \in 1 .. Len(tail), tail[i] = t  PROVE FALSE
    BY DEF In
  <2>1. heap[i + 1] = heap[1] /\ i + 1 \in 1 .. Len(heap) /\ i + 1 # 1
    BY <1>2 DEF t
  <2> QED  BY <1>4, <2>1
<1>10. \A a : In(a, tail) => a \in Actors
  BY <1>2 DEF In
<1>11. ASSUME NEW k \in Heaps, NEW a, In(a, heaps[k])  PROVE a \in Actors
  <2>1. heaps[k] \in Seq(Actors)
    BY <1>5
  <2>2. PICK i \in 1 .. Len(heaps[k]) : heaps[k][i] = a
    BY <1>11 DEF In
  <2> QED  BY ONLY <2>1, <2>2, ElementOfSeq
<1>12. \A a \in Actors : a = t \/ In(a, tail) <=> In(a, heaps[h]) \/ a = task[w]
  BY <1>8
<1>13. ASSUME NEW a \in Actors
       PROVE  (InHeap(a) \/ InHands(a))' <=> InHeap(a) \/ InHands(a)
  <2>1. InHeap(a)' <=> In(a, tail) \/ \E k \in Heaps \ {h} : In(a, heaps[k])
    <3>1. InHeap(a)' <=> \E k \in Heaps : In(a, heaps'[k])
      BY DEF InHeap, In
    <3>2. In(a, heaps'[h]) <=> In(a, tail)
      BY <1>6
    <3>3. \A k \in Heaps \ {h} : In(a, heaps'[k]) <=> In(a, heaps[k])
      BY <1>6
    <3> QED  BY <3>1, <3>2, <3>3
  <2>2. InHeap(a) <=> In(a, heaps[h]) \/ \E k \in Heaps \ {h} : In(a, heaps[k])
    BY DEF InHeap
  <2>3. InHands(a)' <=> a = t \/ \E v \in Workers \ {w} : task[v] = a
    BY <1>6 DEF InHands
  <2>4. InHands(a) <=> a = task[w] \/ \E v \in Workers \ {w} : task[v] = a
    BY DEF InHands
  <2> QED  BY <1>12, <2>1, <2>2, <2>3, <2>4
<1>14. Live' = Live
  BY <1>13 DEF Live
<1>15. Distinct(Heaps, heaps')
  <2> SUFFICES ASSUME NEW x \in Heaps, NEW y \in Heaps,
                      NEW i \in 1 .. Len(heaps'[x]), NEW j \in 1 .. Len(heaps'[y]),
                      heaps'[x][i] = heaps'[y][j]
               PROVE  x = y /\ i = j
    BY DEF Distinct
  <2>0. ASSUME NEW k \in Heaps, k # h, NEW a, In(a, heaps[k]), In(a, tail)
        PROVE  FALSE
    <3>1. a \in Actors /\ (In(a, heaps[h]) \/ a = task[w])
      BY <1>10, <1>12, <2>0
    <3>2. ~In(a, heaps[h])
      BY <2>0 DEF Unique, Distinct, In
    <3>3. ~InHeap(task[w])
      BY DEF Unique
    <3>4. InHeap(a)
      BY <2>0 DEF InHeap
    <3> QED  BY <3>1, <3>2, <3>3, <3>4
  <2>1. CASE x # h /\ y # h
    BY <1>6, <2>1 DEF Unique, Distinct
  <2>2. CASE x = h /\ y = h
    <3>1. heap[i + 1] = heap[j + 1] /\ i + 1 \in 1 .. Len(heap) /\ j + 1 \in 1 .. Len(heap) /\ i \in Nat /\ j \in Nat
      BY <1>2, <1>6, <2>2
    <3>2. i + 1 = j + 1
      BY <3>1
    <3> QED  BY <2>2, <3>1, <3>2
  <2>3. CASE x = h /\ y # h
    <3>1. In(heaps'[x][i], tail) /\ In(heaps'[x][i], heaps[y])
      BY <1>6, <2>3 DEF In
    <3> QED  BY <2>0, <2>3, <3>1
  <2>4. CASE x # h /\ y = h
    <3>1. In(heaps'[x][i], tail) /\ In(heaps'[x][i], heaps[x])
      BY <1>6, <2>4 DEF In
    <3> QED  BY <2>0, <2>4, <3>1
  <2> QED  BY <2>1, <2>2, <2>3, <2>4
<1>16. \A v \in Workers : v # w => task[v] # t
  <2> SUFFICES ASSUME NEW v \in Workers, v # w, task[v] = t  PROVE FALSE
    OBVIOUS
  <2>1. In(t, heaps[h]) \/ t = task[w]
    BY <1>1, <1>12
  <2>2. ~In(t, heaps[h])
    BY DEF Unique, InHeap
  <2> QED  BY <1>6, <2>1, <2>2 DEF Unique
<1>17. \A v, u \in Workers : task'[v] = task'[u] /\ task'[v] # NoActor => v = u
  BY <1>6, <1>16 DEF Unique
<1>18. \A v \in Workers : \A a \in Actors :
         In(a, counts'[v]) => ~InHeap(a)' /\ ~InHands(a)'
  BY <1>13 DEF Unique
<1>19. \A v \in Workers : ~InHeap(task[v])
  BY DEF Unique
<1>20. ASSUME NEW v \in Workers, NEW k \in Heaps, In(task'[v], heaps'[k])
       PROVE  FALSE
  <2>1. CASE v = w /\ k = h
    BY <1>6, <1>9, <1>20, <2>1
  <2>2. CASE v = w /\ k # h
    <3>1. In(t, heaps[k]) /\ t \in Actors
      BY <1>1, <1>6, <1>20, <2>2
    <3>2. In(t, heaps[h]) \/ t = task[w]
      BY <1>1, <1>12
    <3>3. ~In(t, heaps[h])
      BY <2>2, <3>1 DEF Unique, Distinct, In
    <3> QED  BY <1>19, <3>1, <3>2, <3>3 DEF InHeap
  <2>3. CASE v # w /\ k = h
    <3>1. In(task[v], tail) /\ task[v] \in Actors
      BY <1>6, <1>10, <1>20, <2>3
    <3>2. In(task[v], heaps[h]) \/ task[v] = task[w]
      BY <1>12, <3>1
    <3>3. task[v] # task[w]
      BY <2>3, <3>1 DEF Unique
    <3> QED  BY <1>19, <3>2, <3>3 DEF InHeap
  <2>4. CASE v # w /\ k # h
    BY <1>6, <1>19, <1>20, <2>4 DEF InHeap
  <2> QED  BY <2>1, <2>2, <2>3, <2>4
<1>21. Unique'
  <2>1. \A v \in Workers : ~InHeap(task[v])'
    BY <1>20 DEF InHeap
  <2>2. Distinct(Workers, counts')
    BY DEF Unique
  <2> QED  BY <1>15, <1>17, <1>18, <2>1, <2>2 DEF Unique
<1> QED  BY <1>6, <1>7, <1>14, <1>21

(* Arithmetic of dealing out in turn. *)
LEMMA Division ==
  ASSUME NEW x \in Nat, NEW n \in Nat \ {0}
  PROVE  x \div n \in Nat /\ (x \div n) * n <= x /\ x < (x \div n) * n + n
  OBVIOUS

LEMMA Multiples ==
  ASSUME NEW x \in Nat, NEW y \in Nat, NEW n \in Nat, x <= y
  PROVE  /\ x * n \in Nat /\ y * n \in Nat /\ x * n <= y * n
         /\ (x + 1) * n = x * n + n
  OBVIOUS

(* One deal: NActors + NHeaps - 1 - h is x. *)
LEMMA DealtTo ==
  ASSUME NEW h \in Heaps
  PROVE  /\ Dealt(h) \in Seq(Actors)
         /\ \A i \in 1 .. Len(Dealt(h)) : Dealt(h)[i] = h + (i - 1) * NHeaps
         /\ \A q \in Nat : h + q * NHeaps < NActors => q + 1 \in 1 .. Len(Dealt(h))
<1> USE ConstantsTyped
<1> DEFINE n == NHeaps
           x == NActors + n - 1 - h
           d == x \div n
<1>1. h \in Nat /\ h < n /\ n \in Nat \ {0} /\ x \in Nat /\ x = NActors + n - 1 - h /\ NActors \in Nat
  BY DEF Heaps
<1> HIDE DEF n, x
<1>2. d \in Nat /\ d * n <= x /\ x < d * n + n
  BY <1>1, Division
<1>3. Dealt(h) = [i \in 1 .. d |-> h + (i - 1) * n]
  BY DEF Dealt, n, x
<1> HIDE DEF d
<1>4. ASSUME NEW i \in 1 .. d  PROVE h + (i - 1) * n \in Actors
  <2> DEFINE j == i - 1
  <2>1. j \in Nat /\ j + 1 <= d /\ j + 1 \in Nat
    BY <1>2
  <2> HIDE DEF j
  <2>2. (j + 1) * n <= d * n /\ (j + 1) * n = j * n + n /\ j * n \in Nat /\ d * n \in Nat
    BY ONLY <2>1, <1>1, <1>2, Multiples
  <2>3. h + j * n \in 0 .. NActors - 1
    BY ONLY <1>1, <1>2, <2>2
  <2> QED  BY <2>3 DEF j, Actors
<1>5. Dealt(h) \in Seq(Actors) /\ Len(Dealt(h)) = d
  BY <1>2, <1>3, <1>4
<1>6. ASSUME NEW q \in Nat, h + q * n < NActors  PROVE q + 1 \in 1 .. d
  <2> SUFFICES ASSUME d <= q  PROVE FALSE
    BY <1>2
  <2>1. d * n <= q * n /\ q * n \in Nat /\ d * n \in Nat
    BY ONLY <1>1, <1>2, d <= q, q \in Nat, Multiples
  <2> QED  BY ONLY <1>1, <1>2, <1>6, <2>1
<1> QED  BY <1>3, <1>5, <1>6 DEF n

LEMMA DealtOnce ==
  /\ Distinct(Heaps, [h \in Heaps |-> Dealt(h)])
  /\ \A a \in Actors : \E h \in Heaps : In(a, Dealt(h))
<1> USE ConstantsTyped
<1>1. ASSUME NEW x \in Heaps, NEW y \in Heaps,
             NEW i \in 1 .. Len(Dealt(x)), NEW j \in 1 .. Len(Dealt(y)),
             Dealt(x)[i] = Dealt(y)[j]
      PROVE  x = y /\ i = j
  <2> DEFINE n == NHeaps
             p == i - 1
             q == j - 1
  <2>1. x + p * n = y + q * n
    BY <1>1, DealtTo
  <2>2. /\ p \in Nat /\ q \in Nat /\ n \in Nat \ {0}
        /\ x \in Nat /\ x < n /\ y \in Nat /\ y < n
        /\ i = p + 1 /\ j = q + 1
    <3>1. Len(Dealt(x)) \in Nat /\ Len(Dealt(y)) \in Nat
      BY DealtTo
    <3> QED  BY <3>1 DEF Heaps
  <2> HIDE DEF n, p, q
  <2>3. ~(p < q)
    <3> SUFFICES ASSUME p + 1 <= q  PROVE FALSE
      BY <2>2
    <3>1. /\ (p + 1) * n <= q * n /\ (p + 1) * n = p * n + n /\ p * n \in Nat /\ q * n \in Nat
      BY ONLY <2>2, p + 1 <= q, p + 1 \in Nat, Multiples
    <3> QED  BY ONLY <2>1, <2>2, <3>1
  <2>4. ~(q < p)
    <3> SUFFICES ASSUME q + 1 <= p  PROVE FALSE
      BY <2>2
    <3>1. /\ (q + 1) * n <= p * n /\ (q + 1) * n = q * n + n /\ p * n \in Nat /\ q * n \in Nat
      BY ONLY <2>2, q + 1 <= p, q + 1 \in Nat, Multiples
    <3> QED  BY ONLY <2>1, <2>2, <3>1
  <2>5. p = q
    BY ONLY <2>2, <2>3, <2>4
  <2>6. p * n \in Nat
    BY ONLY <2>2, Multiples, p <= p
  <2> QED  BY ONLY <2>1, <2>2, <2>5, <2>6
<1>2. ASSUME NEW a \in Actors  PROVE \E h \in Heaps : In(a, Dealt(h))
  <2> DEFINE n == NHeaps
             q == a \div n
             m == q * n
             h == a - m
  <2>1. a \in Nat /\ a < NActors /\ n \in Nat \ {0}
    BY DEF Actors
  <2>2. q \in Nat /\ m <= a /\ a < m + n
    BY <2>1, Division
  <2>3. m \in Nat
    BY <2>1, <2>2, Multiples, q <= q
  <2> HIDE DEF m
  <2>4. h \in Heaps /\ h + m = a
    BY <2>1, <2>2, <2>3 DEF Heaps
  <2> HIDE DEF q, h
  <2>5. q + 1 \in 1 .. Len(Dealt(h)) /\ Dealt(h)[q + 1] = h + q * n
    <3>1. h + q * NHeaps < NActors
      BY <2>1, <2>4 DEF m
    <3>2. q + 1 \in 1 .. Len(Dealt(h))
      BY <2>2, <2>4, <3>1, DealtTo
    <3>3. Dealt(h)[q + 1] = h + ((q + 1) - 1) * NHeaps
      BY <2>4, <3>2, DealtTo
    <3>4. (q + 1) - 1 = q
      BY <2>2
    <3> QED  BY <3>2, <3>3, <3>4
  <2>6. Dealt(h)[q + 1] = a
    BY <2>4, <2>5 DEF m
  <2> QED  BY <2>4, <2>5, <2>6 DEF In
<1> QED  BY <1>1, <1>2 DEF Distinct
-----------------------------------------------------------------------------
(* The level advance() takes an actor to exists. *)
LEMMA ReachTyped ==
  ASSUME NEW a \in Actors, level \in [Actors -> 0 .. Goal]
  PROVE  Reach(a) \in 0 .. Goal
<1> USE ConstantsTyped
<1> DEFINE others == {level[b] : b \in Actors \ {a}}
           ahead  == {l \in 0 .. Goal : \A m \in others : l <= m + 1}
           short  == {k \in 0 .. Goal : Goal - k \in ahead}
<1>1. 0 \in ahead
  OBVIOUS
<1>2. Goal \in short /\ short \in SUBSET Nat /\ \A l \in ahead : l \in 0 .. Goal /\ Goal - l \in short
  BY <1>1
<1>3. \A k \in short : k \in Nat /\ Goal - k \in ahead
  OBVIOUS
<1>4. Reach(a) = CHOOSE l \in ahead : \A k \in ahead : k <= l
  BY DEF Reach
<1>5. ahead \subseteq 0 .. Goal
  OBVIOUS
<1> HIDE DEF ahead, short
<1>6. \E x \in short : \A y \in short : ~(<<y, x>> \in OpToRel(<, Nat))
  BY <1>2, NatLessThanWellFounded, WFMin
<1>7. PICK x \in short : \A y \in short : ~(y < x)
  BY <1>2, <1>6 DEF OpToRel
<1>8. Goal - x \in ahead /\ \A k \in ahead : k <= Goal - x
  BY <1>2, <1>3, <1>7
<1> QED  BY <1>4, <1>5, <1>8

LEMMA Counting ==
  ASSUME NEW a \in Actors
  PROVE  /\ Cardinality(Live) \in Nat
         /\ a \in Live => /\ Cardinality(Live) >= 1
                          /\ Cardinality(Live \ {a}) = Cardinality(Live) - 1
<1>1. Live \in SUBSET Actors /\ Live \ {a} \in SUBSET Actors
  BY DEF Live
<1>2. IsFiniteSet(Live) /\ Cardinality(Live) \in Nat /\ Cardinality(Live \ {a}) \in Nat
  BY <1>1, SetsOfActors
<1>3. a \in Live => Cardinality(Live \ {a}) = Cardinality(Live) - 1
  BY <1>2, FS_RemoveElement
<1> QED  BY <1>2, <1>3

LEMMA InitKeeps == Init => IInv
<1> SUFFICES ASSUME Init  PROVE IInv
  OBVIOUS
<1> USE ConstantsTyped
<1>1. heaps = [h \in Heaps |-> Dealt(h)] /\ \A h \in Heaps : heaps[h] = Dealt(h) /\ heaps[h] \in Seq(Actors)
  BY DealtTo DEF Init
<1>2. heaps \in [Heaps -> Seq(Actors)]
  BY <1>1
<1>3. Typed
  BY <1>2, PoolAssumption DEF Init, Typed, States
<1>4. \A w \in Workers : counts[w] = <<>> /\ task[w] = NoActor /\ pc[w] = "pull"
  BY DEF Init
<1>5. \A a : ~In(a, <<>>)
  BY DEF In
<1>6. ~InHeap(NoActor)
  <2> SUFFICES ASSUME NEW h \in Heaps, NEW i \in 1 .. Len(heaps[h]), heaps[h][i] = NoActor
               PROVE  FALSE
    BY DEF InHeap, In
  <2>1. heaps[h] \in Seq(Actors)
    BY <1>1
  <2>2. heaps[h][i] \in Actors
    BY ONLY <2>1, i \in 1 .. Len(heaps[h]), ElementOfSeq
  <2> QED  BY <2>2
<1>7. Unique
  <2>1. Distinct(Heaps, heaps)
    BY <1>1, DealtOnce
  <2>2. Distinct(Workers, counts)
    BY <1>4 DEF Distinct
  <2> QED  BY <1>4, <1>5, <1>6, <2>1, <2>2 DEF Unique
<1>8. Live = Actors
  BY <1>1, DealtOnce DEF Live, InHeap
<1>9. counter + Cardinality(Live) + panics = NActors
  BY <1>8, SetsOfActors DEF Init
<1>10. Found
  BY <1>8 DEF Found
<1>11. Joins
  BY <1>5 DEF Init, Joins
<1> QED  BY <1>3, <1>4, <1>7, <1>9, <1>10, <1>11 DEF IInv
-----------------------------------------------------------------------------
(* A worker that has no task and gets none. *)
LEMMA MovesOnly ==
  ASSUME IInv, NEW w \in Workers, NEW s \in {"pull", "idle", "returned"},
         pc[w] \in {"pull", "idle"}, pc' = [pc EXCEPT ![w] = s],
         s = "returned" => counter = NActors,
         UNCHANGED <<heaps, task, counter, counts, joined, results, level, panics>>
  PROVE  IInv'
<1>1. Typed /\ Unique /\ Found /\ Joins
      /\ counter + Cardinality(Live) + panics = NActors
      /\ \A v \in Workers : pc[v] = "returned" => counter = NActors
  BY DEF IInv
<1>2. pc \in [Workers -> States]
  BY <1>1 DEF Typed
<1>3. pc' \in [Workers -> States] /\ pc'[w] = s /\ \A v \in Workers : v # w => pc'[v] = pc[v]
  BY <1>2 DEF States
<1>4. Typed'
  <2>1. \A v \in Workers : pc'[v] = "advance" <=> task'[v] # NoActor
    BY <1>1, <1>3 DEF Typed
  <2> QED  BY <1>1, <1>3, <2>1 DEF Typed
<1>5. Unique' /\ Live' = Live /\ Found'
  BY <1>1 DEF Unique, Distinct, In, InHeap, InHands, Live, Found
<1>6. \A v \in Workers : pc'[v] = "returned" => counter' = NActors
  BY <1>1, <1>3
<1>7. Joins'
  <2>1. \A v \in 1 .. joined : v \in Workers
    BY <1>1, ConstantsTyped DEF Typed, Workers
  <2>2. \A v \in 1 .. joined : pc'[v] = "returned"
    BY <1>1, <1>3, <2>1 DEF Joins
  <2> QED  BY <1>1, <2>2 DEF Joins, In
<1> QED  BY <1>1, <1>4, <1>5, <1>6, <1>7 DEF IInv

(* A worker that has no actor that is done takes the first of heap. *)
LEMMA TakeKeeps ==
  ASSUME IInv, NEW w \in Workers, NEW h \in Heaps,
         NEW heap \in Seq(Actors), heap # <<>>,
         \A i, j \in 1 .. Len(heap) : heap[i] = heap[j] => i = j,
         \A a \in Actors : In(a, heap) <=> In(a, heaps[h]) \/ a = task[w],
         heaps' = [heaps EXCEPT ![h] = Tail(heap)],
         task' = [task EXCEPT ![w] = Head(heap)],
         pc[w] \in {"pull", "advance"}, pc' = [pc EXCEPT ![w] = "advance"],
         level' \in [Actors -> 0 .. Goal],
         \A a \in Actors \ Live : level'[a] = level[a],
         UNCHANGED <<counter, counts, joined, results, panics>>
  PROVE  IInv'
<1>1. Typed /\ Unique /\ Found /\ Joins
      /\ counter + Cardinality(Live) + panics = NActors
      /\ \A v \in Workers : pc[v] = "returned" => counter = NActors
  BY DEF IInv
<1>2. /\ heaps' \in [Heaps -> Seq(Actors)]
      /\ task' \in [Workers -> Actors \cup {NoActor}] /\ task'[w] # NoActor
      /\ Live' = Live
      /\ Unique'
  BY <1>1, TakeFirst
<1>3. pc \in [Workers -> States] /\ task \in [Workers -> Actors \cup {NoActor}]
  BY <1>1 DEF Typed
<1>4. /\ pc' \in [Workers -> States] /\ pc'[w] = "advance"
      /\ \A v \in Workers : v # w => pc'[v] = pc[v] /\ task'[v] = task[v]
  BY <1>3 DEF States
<1>5. Typed'
  <2>1. \A v \in Workers : pc'[v] = "advance" <=> task'[v] # NoActor
    BY <1>1, <1>2, <1>4 DEF Typed
  <2> QED  BY <1>1, <1>2, <1>4, <2>1 DEF Typed
<1>6. Found'
  BY <1>1, <1>2 DEF Found, In
<1>7. \A v \in Workers : pc'[v] = "returned" => counter' = NActors
  BY <1>1, <1>4
<1>8. Joins'
  <2>1. \A v \in 1 .. joined : v \in Workers
    BY <1>1, ConstantsTyped DEF Typed, Workers
  <2>2. \A v \in 1 .. joined : pc'[v] = "returned"
    BY <1>1, <1>4, <2>1 DEF Joins
  <2> QED  BY <1>1, <2>2 DEF Joins, In
<1> QED  BY <1>1, <1>2, <1>5, <1>6, <1>7, <1>8 DEF IInv

LEMMA PullKeeps ==
  ASSUME IInv, NEW w \in Workers, NEW h \in Heaps, Pull(w, h)
  PROVE  IInv'
<1>1. Typed /\ Unique
  BY DEF IInv
<1>2. pc[w] = "pull" /\ task[w] = NoActor /\ heaps[h] \in Seq(Actors)
  BY <1>1 DEF Pull, Typed
<1>3. UNCHANGED <<counter, counts, joined, results, level, panics>>
  BY DEF Pull
<1>4. CASE heaps[h] # <<>>
  <2> DEFINE heap == heaps[h]
  <2>1. /\ heaps' = [heaps EXCEPT ![h] = Tail(heap)]
        /\ task' = [task EXCEPT ![w] = Head(heap)]
        /\ pc' = [pc EXCEPT ![w] = "advance"]
    BY <1>4 DEF Pull
  <2>2. \A i, j \in 1 .. Len(heap) : heap[i] = heap[j] => i = j
    BY <1>1 DEF Unique, Distinct
  <2>3. \A a \in Actors : In(a, heap) <=> In(a, heaps[h]) \/ a = task[w]
    BY <1>2, ConstantsTyped
  <2>4. level' \in [Actors -> 0 .. Goal] /\ \A a \in Actors \ Live : level'[a] = level[a]
    BY <1>1, <1>3 DEF Typed
  <2>5. heap \in Seq(Actors) /\ heap # <<>>
    BY <1>2, <1>4
  <2> HIDE DEF heap
  <2> QED  BY <1>2, <1>3, <2>1, <2>2, <2>3, <2>4, <2>5, TakeKeeps
<1>5. CASE heaps[h] = <<>>
  <2>1. pc' = [pc EXCEPT ![w] = "idle"] /\ UNCHANGED <<task, heaps>>
    BY <1>5 DEF Pull
  <2> QED  BY <1>2, <1>3, <2>1, MovesOnly
<1> QED  BY <1>4, <1>5

LEMMA RotateKept ==
  ASSUME IInv, NEW w \in Workers, NEW h \in Heaps, Rotate(w, h)
  PROVE  IInv'
<1> DEFINE s    == heaps[h]
           t    == task[w]
           heap == Append(s, t)
<1>1. Typed /\ Unique
  BY DEF IInv
<1>2. pc[w] = "advance" /\ s \in Seq(Actors) /\ t \in Actors
  BY <1>1 DEF Rotate, Typed
<1>3. UNCHANGED <<counter, counts, joined, results, panics, pc>>
      /\ level' = [level EXCEPT ![t] = Reach(t)]
      /\ heaps' = [heaps EXCEPT ![h] = Tail(heap)]
      /\ task' = [task EXCEPT ![w] = Head(heap)]
  BY DEF Rotate
<1>4. pc' = [pc EXCEPT ![w] = "advance"]
  BY <1>1, <1>2, <1>3 DEF Typed
<1>5. level \in [Actors -> 0 .. Goal]
  BY <1>1 DEF Typed
<1>6. level' \in [Actors -> 0 .. Goal] /\ \A a \in Actors : a # t => level'[a] = level[a]
  BY <1>2, <1>3, <1>5, ReachTyped
<1>7. t \in Live
  BY <1>2 DEF Live, InHands
<1>8. /\ heap \in Seq(Actors) /\ heap # <<>>
      /\ Len(s) \in Nat /\ Len(heap) = Len(s) + 1
      /\ \A i \in 1 .. Len(s) : heap[i] = s[i]
      /\ heap[Len(s) + 1] = t
  BY <1>2, AppendProperties, LenProperties
<1>9. \A i \in 1 .. Len(s) : s[i] # t
  BY <1>1 DEF Unique, InHeap, In
<1>10. \A i, j \in 1 .. Len(s) : s[i] = s[j] => i = j
  BY <1>1 DEF Unique, Distinct
<1> HIDE DEF heap, s, t
<1>11. \A i, j \in 1 .. Len(heap) : heap[i] = heap[j] => i = j
  <2>1. \A i \in 1 .. Len(heap) : i \in 1 .. Len(s) \/ i = Len(s) + 1
    BY <1>8
  <2> QED  BY <1>8, <1>9, <1>10, <2>1
<1>12. \A a \in Actors : In(a, heap) <=> In(a, s) \/ a = t
  <2> TAKE a \in Actors
  <2>1. \A i \in 1 .. Len(heap) : i \in 1 .. Len(s) \/ i = Len(s) + 1
    BY <1>8
  <2>2. \A i \in 1 .. Len(s) : i \in 1 .. Len(heap)
    BY <1>8
  <2>3. Len(s) + 1 \in 1 .. Len(heap)
    BY <1>8
  <2> QED  BY <1>8, <2>1, <2>2, <2>3 DEF In
<1>13. UNCHANGED <<counter, counts, joined, results, panics>>
  BY <1>3
<1>14. \A a \in Actors \ Live : level'[a] = level[a]
  BY <1>6, <1>7
<1>15. \A a \in Actors : In(a, heap) <=> In(a, heaps[h]) \/ a = task[w]
  BY <1>12 DEF s, t
<1>16. pc[w] \in {"pull", "advance"}
  BY <1>2
<1>17. /\ heaps' = [heaps EXCEPT ![h] = Tail(heap)]
       /\ task' = [task EXCEPT ![w] = Head(heap)]
  BY <1>3
<1>18. heap \in Seq(Actors) /\ heap # <<>>
  BY <1>8
<1>19. level' \in [Actors -> 0 .. Goal]
  BY <1>6
<1> QED  BY ONLY IInv, w \in Workers, h \in Heaps, <1>4, <1>11, <1>13, <1>14,
                 <1>15, <1>16, <1>17, <1>18, <1>19, TakeKeeps

(* A worker lets go of its actor: no worker has returned before. *)
LEMMA LetsGo ==
  ASSUME IInv, NEW w \in Workers, pc[w] = "advance", NEW s \in {"pull", "panicked"},
         pc' = [pc EXCEPT ![w] = s],
         task' = [task EXCEPT ![w] = NoActor], heaps' = heaps
  PROVE  /\ task[w] \in Actors /\ task[w] \in Live
         /\ Live' = Live \ {task[w]}
         /\ Cardinality(Live') = Cardinality(Live) - 1
         /\ \A a \in Actors : (InHeap(a)' <=> InHeap(a)) /\ (InHands(a)' <=> InHands(a) /\ a # task[w])
         /\ \A v \in Workers : pc'[v] # "returned" /\ pc[v] # "returned"
         /\ pc' \in [Workers -> States] /\ task' \in [Workers -> Actors \cup {NoActor}]
         /\ \A v \in Workers : pc'[v] = "advance" <=> task'[v] # NoActor
         /\ \A u, v \in Workers : task'[u] = task'[v] /\ task'[u] # NoActor => u = v
         /\ \A v \in Workers : ~InHeap(task[v])' /\ ~InHeap(task[v])
<1> DEFINE t == task[w]
<1>1. Typed /\ Unique
      /\ counter + Cardinality(Live) + panics = NActors
      /\ \A v \in Workers : pc[v] = "returned" => counter = NActors
  BY DEF IInv
<1>2. /\ pc \in [Workers -> States] /\ task \in [Workers -> Actors \cup {NoActor}]
      /\ heaps \in [Heaps -> Seq(Actors)] /\ counter \in Nat /\ panics \in Nat
      /\ \A v \in Workers : pc[v] = "advance" <=> task[v] # NoActor
  BY <1>1 DEF Typed
<1>3. t \in Actors
  BY <1>2
<1>4. t \in Live
  BY <1>3 DEF Live, InHands
<1>5. Cardinality(Live) \in Nat /\ Cardinality(Live) >= 1 /\ Cardinality(Live \ {t}) = Cardinality(Live) - 1
  BY <1>3, <1>4, Counting
<1>6. \A u, v \in Workers : task[u] = task[v] /\ task[u] # NoActor => u = v
  BY <1>1 DEF Unique
<1>7. \A v \in Workers : ~InHeap(task[v])
  BY <1>1 DEF Unique
<1>8. /\ task' \in [Workers -> Actors \cup {NoActor}] /\ task'[w] = NoActor
      /\ pc' \in [Workers -> States] /\ pc'[w] = s
      /\ \A v \in Workers : v # w => task'[v] = task[v] /\ pc'[v] = pc[v]
  BY <1>2 DEF States
<1>9. \A a : InHeap(a) <=> \E h \in Heaps : In(a, heaps[h])
  BY DEF InHeap
<1>10. ~InHeap(NoActor)
  <2> SUFFICES ASSUME NEW h \in Heaps, NEW i \in 1 .. Len(heaps[h]), heaps[h][i] = NoActor
               PROVE  FALSE
    BY DEF InHeap, In
  <2>1. heaps[h] \in Seq(Actors)
    BY <1>2
  <2>2. heaps[h][i] \in Actors
    BY ONLY <2>1, i \in 1 .. Len(heaps[h]), ElementOfSeq
  <2> QED  BY <2>2, ConstantsTyped
<1>11. ASSUME NEW a \in Actors
       PROVE  (InHeap(a)' <=> InHeap(a)) /\ (InHands(a)' <=> InHands(a) /\ a # t)
  <2>1. InHeap(a)' <=> InHeap(a)
    BY DEF InHeap, In
  <2>2. InHands(a)' <=> \E v \in Workers : task'[v] = a
    BY DEF InHands
  <2>3. InHands(a) <=> \E v \in Workers : task[v] = a
    BY DEF InHands
  <2>4. a # NoActor
    BY ConstantsTyped
  <2> QED  BY <1>2, <1>6, <1>8, <2>1, <2>2, <2>3, <2>4
<1>12. Live' = Live \ {t}
  <2>1. t \notin Live'
    BY <1>3, <1>7, <1>11 DEF Live
  <2>2. \A a \in Actors : a # t => (a \in Live' <=> a \in Live)
    BY <1>11 DEF Live
  <2>3. Live \subseteq Actors /\ Live' \subseteq Actors
    BY DEF Live
  <2> QED  BY <2>1, <2>2, <2>3
<1>13. \A v \in Workers : pc[v] # "returned"
  BY <1>1, <1>2, <1>5
<1>14. \A v \in Workers : pc'[v] # "returned"
  BY <1>8, <1>13
<1>15. \A v \in Workers : pc'[v] = "advance" <=> task'[v] # NoActor
  BY <1>2, <1>8
<1>16. \A u, v \in Workers : task'[u] = task'[v] /\ task'[u] # NoActor => u = v
  BY <1>6, <1>8
<1>17. \A v \in Workers : ~InHeap(task[v])'
  <2> TAKE v \in Workers
  <2>1. InHeap(task[v])' <=> \E h \in Heaps : In(task'[v], heaps[h])
    BY DEF InHeap, In
  <2>2. CASE v = w
    BY <1>8, <1>9, <1>10, <2>1, <2>2
  <2>3. CASE v # w
    BY <1>7, <1>8, <1>9, <2>1, <2>3
  <2> QED  BY <2>2, <2>3
<1> QED  BY <1>3, <1>4, <1>5, <1>7, <1>8, <1>11, <1>12, <1>13, <1>14, <1>15, <1>16, <1>17

LEMMA FinishKeeps ==
  ASSUME IInv, NEW w \in Workers, Finish(w)
  PROVE  IInv'
<1> DEFINE t == task[w]
           c == counts[w]
<1>1. Typed /\ Unique /\ Found /\ Joins
      /\ counter + Cardinality(Live) + panics = NActors
  BY DEF IInv
<1>2. /\ pc[w] = "advance" /\ level' = [level EXCEPT ![t] = Goal]
      /\ counts' = [counts EXCEPT ![w] = Append(c, t)]
      /\ counter' = counter + 1
      /\ task' = [task EXCEPT ![w] = NoActor] /\ pc' = [pc EXCEPT ![w] = "pull"]
      /\ UNCHANGED <<heaps, joined, results, panics>>
  BY DEF Finish
<1>3. /\ t \in Actors /\ t \in Live /\ Live' = Live \ {t}
      /\ Cardinality(Live') = Cardinality(Live) - 1
      /\ \A a \in Actors : (InHeap(a)' <=> InHeap(a)) /\ (InHands(a)' <=> InHands(a) /\ a # t)
      /\ \A v \in Workers : pc'[v] # "returned" /\ pc[v] # "returned"
      /\ pc' \in [Workers -> States] /\ task' \in [Workers -> Actors \cup {NoActor}]
      /\ \A v \in Workers : pc'[v] = "advance" <=> task'[v] # NoActor
      /\ \A u, v \in Workers : task'[u] = task'[v] /\ task'[u] # NoActor => u = v
      /\ \A v \in Workers : ~InHeap(task[v])' /\ ~InHeap(task[v])
  BY <1>2, LetsGo
<1>4. counts \in [Workers -> Seq(Actors)] /\ level \in [Actors -> 0 .. Goal] /\ c \in Seq(Actors)
  BY <1>1 DEF Typed
<1>5. /\ Append(c, t) \in Seq(Actors) /\ Len(c) \in Nat /\ Len(Append(c, t)) = Len(c) + 1
      /\ \A i \in 1 .. Len(c) : Append(c, t)[i] = c[i]
      /\ Append(c, t)[Len(c) + 1] = t
  BY <1>3, <1>4, AppendProperties, LenProperties
<1>6. /\ counts' \in [Workers -> Seq(Actors)] /\ counts'[w] = Append(c, t)
      /\ \A v \in Workers : v # w => counts'[v] = counts[v]
      /\ level' \in [Actors -> 0 .. Goal] /\ level'[t] = Goal
      /\ \A a \in Actors : a # t => level'[a] = level[a]
  BY <1>2, <1>3, <1>4, <1>5, ConstantsTyped
<1>7. Typed'
  BY <1>1, <1>2, <1>3, <1>6 DEF Typed
<1>8. \A v \in Workers : ~In(t, counts[v])
  BY <1>1, <1>3 DEF Unique, InHands
<1>9. \A v \in Workers : \A a : In(a, counts'[v]) <=> In(a, counts[v]) \/ (v = w /\ a = t)
  <2> DEFINE s == Append(c, t)
  <2>1. \A i \in 1 .. Len(s) : i \in 1 .. Len(c) \/ i = Len(c) + 1
    BY <1>5
  <2>2. \A i \in 1 .. Len(c) : i \in 1 .. Len(s)
    BY <1>5
  <2>3. Len(c) + 1 \in 1 .. Len(s)
    BY <1>5
  <2>4. \A a : In(a, s) <=> In(a, c) \/ a = t
    BY <1>5, <2>1, <2>2, <2>3 DEF In
  <2> HIDE DEF s
  <2> QED  BY <1>6, <2>4 DEF s
<1>10. Distinct(Workers, counts')
  <2> SUFFICES ASSUME NEW x \in Workers, NEW y \in Workers,
                      NEW i \in 1 .. Len(counts'[x]), NEW j \in 1 .. Len(counts'[y]),
                      counts'[x][i] = counts'[y][j]
               PROVE  x = y /\ i = j
    BY DEF Distinct
  <2> DEFINE n == Len(c) + 1
  <2> HIDE DEF c, t
  <2>1. ASSUME NEW v \in Workers, NEW k \in 1 .. Len(counts'[v])
        PROVE  IF v = w /\ k = n THEN counts'[v][k] = t
               ELSE k \in 1 .. Len(counts[v]) /\ counts'[v][k] = counts[v][k] /\ counts[v][k] # t
    <3>1. CASE v # w
      BY <1>6, <1>8, <3>1 DEF In
    <3>2. CASE v = w /\ k = n
      BY <1>5, <1>6, <3>2
    <3>3. CASE v = w /\ k # n
      <4> DEFINE m == Len(c)
      <4>0. k \in 1 .. m + 1 /\ k # m + 1 /\ m \in Nat
        BY <1>5, <1>6, <3>3
      <4> HIDE DEF m
      <4>1. k \in 1 .. m
        BY ONLY <4>0
      <4>2. k \in 1 .. Len(c)
        BY <4>1 DEF m
      <4>3. counts'[v][k] = c[k] /\ counts[v] = c
        BY <1>5, <1>6, <3>3, <4>2 DEF c
      <4>4. c[k] # t
        BY <1>8, <4>2 DEF In, c
      <4> QED  BY <3>3, <4>2, <4>3, <4>4
    <3> QED  BY <3>1, <3>2, <3>3
  <2>2. Distinct(Workers, counts)
    BY <1>1 DEF Unique
  <2>3. CASE counts'[x][i] = t
    <3>1. x = w /\ i = n
      BY <2>1, <2>3
    <3>2. counts'[y][j] = t
      BY <2>3
    <3>3. y = w /\ j = n
      BY <2>1, <3>2
    <3> QED  BY <3>1, <3>3
  <2>4. CASE counts'[x][i] # t
    <3>1. i \in 1 .. Len(counts[x]) /\ j \in 1 .. Len(counts[y]) /\ counts[x][i] = counts[y][j]
      BY <2>1, <2>4
    <3> QED  BY <2>2, <3>1 DEF Distinct
  <2> QED  BY <2>3, <2>4
<1>11. Unique'
  <2>1. Distinct(Heaps, heaps')
    BY <1>1, <1>2 DEF Unique
  <2>2. \A v \in Workers : \A a \in Actors : In(a, counts'[v]) => ~InHeap(a)' /\ ~InHands(a)'
    BY <1>1, <1>3, <1>9 DEF Unique
  <2> QED  BY <1>3, <1>10, <2>1, <2>2 DEF Unique
<1>12. Found'
  <2> SUFFICES ASSUME NEW a \in Actors \ Live', panics = 0
               PROVE  level'[a] = Goal /\ \E v \in Workers : In(a, counts'[v])
    BY <1>2 DEF Found, In
  <2>1. CASE a = t
    BY <1>6, <1>9, <2>1
  <2>2. CASE a # t
    BY <1>1, <1>3, <1>6, <1>9, <2>2 DEF Found
  <2> QED  BY <2>1, <2>2
<1>13. counter' + Cardinality(Live') + panics' = NActors
  <2>1. Cardinality(Live) \in Nat /\ counter \in Nat /\ panics \in Nat
    BY <1>1, <1>3, Counting DEF Typed
  <2> QED  BY <1>1, <1>2, <1>3, <2>1
<1>14. Joins'
  <2>1. \A v \in 1 .. joined : v \in Workers
    BY <1>1, ConstantsTyped DEF Typed, Workers
  <2>2. \A v \in 1 .. joined : FALSE
    BY <1>1, <1>3, <2>1 DEF Joins
  <2> QED  BY <1>1, <1>2, <2>2 DEF Joins, In
<1> QED  BY <1>3, <1>7, <1>11, <1>12, <1>13, <1>14 DEF IInv

LEMMA PanicKeeps ==
  ASSUME IInv, NEW w \in Workers, Panic(w)
  PROVE  IInv'
<1> DEFINE t == task[w]
<1>1. Typed /\ Unique /\ Joins
      /\ counter + Cardinality(Live) + panics = NActors
  BY DEF IInv
<1>2. /\ pc[w] = "advance" /\ panics < MaxPanics /\ panics' = panics + 1
      /\ counts' = [counts EXCEPT ![w] = <<>>]
      /\ task' = [task EXCEPT ![w] = NoActor] /\ pc' = [pc EXCEPT ![w] = "panicked"]
      /\ UNCHANGED <<heaps, counter, joined, results, level>>
  BY DEF Panic
<1>3. /\ t \in Actors /\ t \in Live
      /\ Cardinality(Live') = Cardinality(Live) - 1
      /\ \A a \in Actors : (InHeap(a)' <=> InHeap(a)) /\ (InHands(a)' <=> InHands(a) /\ a # t)
      /\ \A v \in Workers : pc'[v] # "returned" /\ pc[v] # "returned"
      /\ pc' \in [Workers -> States] /\ task' \in [Workers -> Actors \cup {NoActor}]
      /\ \A v \in Workers : pc'[v] = "advance" <=> task'[v] # NoActor
      /\ \A u, v \in Workers : task'[u] = task'[v] /\ task'[u] # NoActor => u = v
      /\ \A v \in Workers : ~InHeap(task[v])' /\ ~InHeap(task[v])
  BY <1>2, LetsGo
<1>4. counts \in [Workers -> Seq(Actors)] /\ panics \in 0 .. MaxPanics
  BY <1>1 DEF Typed
<1>5. /\ counts' \in [Workers -> Seq(Actors)]
      /\ \A v \in Workers : counts'[v] = IF v = w THEN <<>> ELSE counts[v]
      /\ panics' \in 0 .. MaxPanics /\ panics' # 0
  BY <1>2, <1>4, PoolAssumption
<1>6. Typed'
  BY <1>1, <1>2, <1>3, <1>5 DEF Typed
<1>7. \A v \in Workers : \A a : In(a, counts'[v]) => In(a, counts[v])
  BY <1>5 DEF In
<1>8. Distinct(Workers, counts')
  BY <1>1, <1>5 DEF Unique, Distinct
<1>9. Unique'
  <2>1. Distinct(Heaps, heaps')
    BY <1>1, <1>2 DEF Unique
  <2>2. \A v \in Workers : \A a \in Actors : In(a, counts'[v]) => ~InHeap(a)' /\ ~InHands(a)'
    BY <1>1, <1>3, <1>7 DEF Unique
  <2> QED  BY <1>3, <1>8, <2>1, <2>2 DEF Unique
<1>10. Found'
  BY <1>5 DEF Found
<1>11. counter' + Cardinality(Live') + panics' = NActors
  <2>1. Cardinality(Live) \in Nat
    BY <1>3, Counting
  <2>2. counter \in Nat /\ panics \in Nat
    BY <1>1, <1>4 DEF Typed
  <2> QED  BY <1>1, <1>2, <1>3, <2>1, <2>2
<1>12. Joins'
  <2>1. \A v \in 1 .. joined : v \in Workers
    BY <1>1, ConstantsTyped DEF Typed, Workers
  <2>2. \A v \in 1 .. joined : FALSE
    BY <1>1, <1>3, <2>1 DEF Joins
  <2> QED  BY <1>1, <1>2, <2>2 DEF Joins, In
<1> QED  BY <1>3, <1>6, <1>9, <1>10, <1>11, <1>12 DEF IInv

LEMMA JoinKeeps ==
  ASSUME IInv, Join
  PROVE  IInv'
<1> DEFINE w == joined + 1
           c == counts[w]
           m == Len(results)
           n == Len(c)
<1>1. Typed /\ Unique /\ Joins /\ Found
      /\ counter + Cardinality(Live) + panics = NActors
      /\ \A v \in Workers : pc[v] = "returned" => counter = NActors
  BY DEF IInv
<1>2. /\ joined < NWorkers /\ pc[w] = "returned"
      /\ results' = results \o c /\ joined' = w
      /\ UNCHANGED <<heaps, counter, pc, task, counts, level, panics>>
  BY DEF Join
<1>3. joined \in Nat /\ w \in Workers /\ w \in 0 .. NWorkers
  BY <1>1, <1>2, ConstantsTyped DEF Typed, Workers
<1>4. results \in Seq(Actors) /\ c \in Seq(Actors) /\ m \in Nat /\ n \in Nat
  BY <1>1, <1>3, LenProperties DEF Typed
<1>5. /\ results' \in Seq(Actors) /\ Len(results') = m + n
      /\ \A i \in 1 .. m + n : results'[i] = IF i <= m THEN results[i] ELSE c[i - m]
  BY <1>2, <1>4, ConcatProperties
<1>6. Typed'
  BY <1>1, <1>2, <1>3, <1>5 DEF Typed
<1>7. Unique' /\ Live' = Live /\ Found'
  BY <1>1, <1>2 DEF Unique, Distinct, In, InHeap, InHands, Live, Found
<1>8. \A v \in 1 .. joined : v \in Workers /\ v # w
  BY <1>3, ConstantsTyped DEF Workers
<1>9. 1 .. joined' = 1 .. joined \cup {w}
  BY <1>2, <1>3
<1> HIDE DEF w, c, m, n
<1>10. \A a \in Actors : In(a, results) => ~In(a, c)
  <2> SUFFICES ASSUME NEW a \in Actors, In(a, results), In(a, c)  PROVE FALSE
    OBVIOUS
  <2>1. PICK v \in 1 .. joined : In(a, counts[v])
    BY <1>1 DEF Joins
  <2>2. v \in Workers /\ v # w /\ Distinct(Workers, counts)
    BY <1>1, <1>8 DEF Unique
  <2> QED  BY <1>3, <2>1, <2>2 DEF Distinct, In, c
<1>11. \A i \in 1 .. m : results[i] \in Actors /\ In(results[i], results)
  BY <1>4, ElementOfSeq DEF In, m
<1>12. \A i \in 1 .. n : c[i] \in Actors /\ In(c[i], c)
  BY <1>4, ElementOfSeq DEF In, n
<1>13. \A i \in 1 .. m + n :
         IF i <= m THEN i \in 1 .. m ELSE i - m \in 1 .. n /\ i = (i - m) + m
  BY <1>4
<1>14. ASSUME NEW i \in 1 .. m + n, NEW j \in 1 .. m + n, results'[i] = results'[j]
       PROVE  i = j
  <2>1. CASE i <= m /\ j <= m
    BY <1>1, <1>5, <1>13, <1>14, <2>1 DEF Joins, m
  <2>2. CASE i <= m /\ ~(j <= m)
    BY <1>5, <1>10, <1>11, <1>12, <1>13, <1>14, <2>2
  <2>3. CASE ~(i <= m) /\ j <= m
    BY <1>5, <1>10, <1>11, <1>12, <1>13, <1>14, <2>3
  <2>4. CASE ~(i <= m) /\ ~(j <= m)
    <3>1. c[i - m] = c[j - m] /\ i - m \in 1 .. n /\ j - m \in 1 .. n
      BY <1>5, <1>13, <1>14, <2>4
    <3>2. i - m = j - m
      BY <1>1, <1>3, <3>1 DEF Unique, Distinct, c, n
    <3> QED  BY <1>4, <3>2
  <2> QED  BY <2>1, <2>2, <2>3, <2>4
<1>15. \A a \in Actors : In(a, results') <=> In(a, results) \/ In(a, c)
  <2> TAKE a \in Actors
  <2>1. In(a, results') => In(a, results) \/ In(a, c)
    BY <1>5, <1>13 DEF In, m, n
  <2>2. In(a, results) => In(a, results')
    <3>1. \A i \in 1 .. m : i \in 1 .. m + n /\ results'[i] = results[i]
      BY <1>4, <1>5
    <3> QED  BY <1>5, <3>1 DEF In, m
  <2>3. In(a, c) => In(a, results')
    <3>1. \A i \in 1 .. n : i + m \in 1 .. m + n /\ ~(i + m <= m) /\ (i + m) - m = i
      BY <1>4
    <3>2. \A i \in 1 .. n : i + m \in 1 .. m + n /\ results'[i + m] = c[i]
      BY <1>5, <3>1
    <3> QED  BY <1>5, <3>2 DEF In, n
  <2> QED  BY <2>1, <2>2, <2>3
<1>16. Joins'
  <2>1. \A v \in 1 .. joined' : pc'[v] = "returned"
    BY <1>1, <1>2, <1>9 DEF Joins
  <2>2. \A i, j \in 1 .. Len(results') : results'[i] = results'[j] => i = j
    BY <1>5, <1>14
  <2>3. \A a \in Actors : In(a, results') <=> \E v \in 1 .. joined' : In(a, counts'[v])
    BY <1>1, <1>2, <1>9, <1>15 DEF Joins, c
  <2> QED  BY <2>1, <2>2, <2>3 DEF Joins, In
<1> QED  BY <1>1, <1>2, <1>6, <1>7, <1>16 DEF IInv

LEMMA NextKeeps == IInv /\ [Next]_vars => IInv'
<1> SUFFICES ASSUME IInv, [Next]_vars  PROVE IInv'
  OBVIOUS
<1>1. CASE UNCHANGED vars
  <2>1. Typed' <=> Typed
    BY <1>1 DEF vars, Typed
  <2>2. Live' = Live /\ (Unique' <=> Unique) /\ (Found' <=> Found)
    BY <1>1 DEF vars, Unique, Distinct, In, InHeap, InHands, Live, Found
  <2>3. Joins' <=> Joins
    BY <1>1 DEF vars, Joins, In
  <2> QED  BY <1>1, <2>1, <2>2, <2>3 DEF IInv, vars
<1>2. ASSUME NEW w \in Workers, NEW h \in Heaps, Visit(w, h)  PROVE IInv'
  BY <1>2, PullKeeps, RotateKept DEF Visit
<1>3. ASSUME NEW w \in Workers, Return(w)  PROVE IInv'
  BY <1>3, MovesOnly DEF Return
<1>4. ASSUME NEW w \in Workers, Retry(w)  PROVE IInv'
  BY <1>4, MovesOnly DEF Retry
<1> QED
  BY <1>1, <1>2, <1>3, <1>4, FinishKeeps, PanicKeeps, JoinKeeps DEF Next, Worker, Done

(* The pool never leaves the states of the inductive invariant. *)
THEOREM Invariant == Spec => []IInv
  BY InitKeeps, NextKeeps, PTL DEF Spec
-----------------------------------------------------------------------------
LEMMA TypesFollow == IInv => TypeOK
<1> SUFFICES ASSUME IInv  PROVE TypeOK
  OBVIOUS
<1>1. Typed /\ counter + Cardinality(Live) + panics = NActors
  BY DEF IInv
<1>2. 0 \in Actors
  BY ConstantsTyped DEF Actors
<1>3. Cardinality(Live) \in Nat
  BY <1>2, Counting
<1>4. counter \in Nat /\ panics \in Nat
  BY <1>1 DEF Typed
<1>5. counter \in 0 .. NActors
  BY <1>1, <1>3, <1>4, ConstantsTyped
<1> QED  BY <1>1, <1>5 DEF Typed, TypeOK, States

(* The types of start() and run() hold for every number of actors, workers  *)
(* and heaps.                                                               *)
THEOREM TypeCorrect == Spec => []TypeOK
  BY Invariant, TypesFollow, PTL

LEMMA PlacesAre ==
  ASSUME Typed, NEW a \in Actors
  PROVE  \A p : p \in Places(a) <=>
           \/ \E h \in Heaps : \E i \in 1 .. Len(heaps[h]) : heaps[h][i] = a /\ p = <<"heap", h, i>>
           \/ \E w \in Workers : task[w] = a /\ p = <<"task", w, 0>>
           \/ \E w \in Workers : \E i \in 1 .. Len(counts[w]) : counts[w][i] = a /\ p = <<"done", w, i>>
<1>1. \A h \in Heaps : DOMAIN heaps[h] = 1 .. Len(heaps[h])
  BY DEF Typed
<1>2. \A w \in Workers : DOMAIN counts[w] = 1 .. Len(counts[w])
  BY DEF Typed
<1>3. \A p : p \in InHeaps(a) <=>
        \E h \in Heaps : \E i \in 1 .. Len(heaps[h]) : heaps[h][i] = a /\ p = <<"heap", h, i>>
  BY <1>1 DEF InHeaps
<1>4. \A p : p \in InTasks(a) <=> \E w \in Workers : task[w] = a /\ p = <<"task", w, 0>>
  BY DEF InTasks
<1>5. \A p : p \in InCounts(a) <=>
        \E w \in Workers : \E i \in 1 .. Len(counts[w]) : counts[w][i] = a /\ p = <<"done", w, i>>
  BY <1>2 DEF InCounts
<1>6. \A p : p \in Places(a) <=> p \in InHeaps(a) \/ p \in InTasks(a) \/ p \in InCounts(a)
  BY DEF Places
<1> QED  BY <1>3, <1>4, <1>5, <1>6

LEMMA OwnerFollows == IInv => OneOwner
<1> SUFFICES ASSUME IInv, NEW a \in Actors
             PROVE  Cardinality(Places(a)) <= 1 /\ (panics = 0 => Places(a) # {})
  BY DEF OneOwner
<1>1. Typed /\ Unique /\ Found
  BY DEF IInv
<1> DEFINE AtHeap(p, h, i) == h \in Heaps /\ i \in 1 .. Len(heaps[h]) /\ heaps[h][i] = a /\ p = <<"heap", h, i>>
           AtTask(p, w)    == w \in Workers /\ task[w] = a /\ p = <<"task", w, 0>>
           AtDone(p, w, i) == w \in Workers /\ i \in 1 .. Len(counts[w]) /\ counts[w][i] = a /\ p = <<"done", w, i>>
           IsHeap(p) == \E h, i : AtHeap(p, h, i)
           IsTask(p) == \E w : AtTask(p, w)
           IsDone(p) == \E w, i : AtDone(p, w, i)
<1>2. \A p : p \in Places(a) <=> IsHeap(p) \/ IsTask(p) \/ IsDone(p)
  BY <1>1, PlacesAre
<1>3. \A p : IsHeap(p) => InHeap(a)
  BY DEF InHeap, In
<1>4. \A p : IsTask(p) => InHands(a) /\ ~InHeap(a)
  BY <1>1 DEF InHands, Unique
<1>5. \A p : IsDone(p) => ~InHeap(a) /\ ~InHands(a)
  BY <1>1 DEF Unique, In
<1>6. \A p, q : IsHeap(p) /\ IsHeap(q) => p = q
  BY <1>1 DEF Unique, Distinct
<1>7. \A p, q : IsTask(p) /\ IsTask(q) => p = q
  BY <1>1, ConstantsTyped DEF Unique
<1>8. \A p, q : IsDone(p) /\ IsDone(q) => p = q
  BY <1>1 DEF Unique, Distinct
<1>9. InHeap(a) => \E p : IsHeap(p)
  BY DEF InHeap, In
<1>10. InHands(a) => \E p : IsTask(p)
  BY DEF InHands
<1>11. (\E w \in Workers : In(a, counts[w])) => \E p : IsDone(p)
  BY DEF In
<1> HIDE DEF IsHeap, IsTask, IsDone
<1>12. \A p, q \in Places(a) : p = q
  BY <1>2, <1>3, <1>4, <1>5, <1>6, <1>7, <1>8
<1>13. Cardinality(Places(a)) <= 1
  <2>1. CASE Places(a) = {}
    BY <2>1, FS_EmptySet
  <2>2. CASE Places(a) # {}
    <3>1. PICK p \in Places(a) : TRUE
      BY <2>2
    <3>2. Places(a) = {p}
      BY <1>12, <3>1
    <3>3. Cardinality({p}) = 1
      BY FS_Singleton
    <3> QED  BY <3>2, <3>3
  <2> QED  BY <2>1, <2>2
<1>14. panics = 0 => Places(a) # {}
  BY <1>1, <1>2, <1>9, <1>10, <1>11 DEF Found, Live
<1> QED  BY <1>13, <1>14

(* No two owners of an actor, and none lost without a panic, however many   *)
(* workers move the actors between however many heaps.                      *)
THEOREM SingleOwner == Spec => []OneOwner
  BY Invariant, OwnerFollows, PTL

LEMMA NobodyLeft ==
  ASSUME IInv, NEW w \in Workers, pc[w] = "returned"
  PROVE  Live = {} /\ panics = 0
<1>1. Typed /\ counter + Cardinality(Live) + panics = NActors /\ counter = NActors
  BY DEF IInv
<1>2. 0 \in Actors /\ Live \in SUBSET Actors
  BY ConstantsTyped DEF Actors, Live
<1>3. Cardinality(Live) \in Nat /\ IsFiniteSet(Live)
  BY <1>2, SetsOfActors
<1>4. panics \in Nat /\ counter \in Nat
  BY <1>1 DEF Typed
<1>5. Cardinality(Live) = 0 /\ panics = 0
  BY <1>1, <1>3, <1>4
<1> QED  BY <1>3, <1>5, FS_EmptySet

LEMMA ReturnFollows == IInv => NoEarlyReturn
<1> SUFFICES ASSUME IInv, NEW w \in Workers, pc[w] = "returned"
             PROVE  /\ \A h \in Heaps : heaps[h] = <<>>
                    /\ \A v \in Workers : task[v] = NoActor
                    /\ \A a \in Actors : level[a] = Goal
                    /\ panics = 0
  BY DEF NoEarlyReturn
<1>1. Typed /\ Found /\ Live = {} /\ panics = 0
  BY NobodyLeft DEF IInv
<1>2. \A a \in Actors : level[a] = Goal /\ ~InHeap(a) /\ ~InHands(a)
  BY <1>1 DEF Found, Live
<1>3. ASSUME NEW h \in Heaps, heaps[h] # <<>>  PROVE FALSE
  <2>1. heaps[h] \in Seq(Actors)
    BY <1>1 DEF Typed
  <2>2. 1 \in 1 .. Len(heaps[h]) /\ heaps[h][1] \in Actors
    BY <1>3, <2>1
  <2> QED  BY <1>2, <2>2 DEF InHeap, In
<1>4. \A v \in Workers : task[v] = NoActor
  BY <1>1, <1>2 DEF Typed, InHands
<1> QED  BY <1>1, <1>2, <1>3, <1>4

(* No worker leaves before every actor is done, and none after a panic.     *)
THEOREM Complete == Spec => []NoEarlyReturn
  BY Invariant, ReturnFollows, PTL

LEMMA ResultsFollow == ASSUME NWorkers > 0  PROVE IInv => AllResults
<1> SUFFICES ASSUME IInv, joined = NWorkers
             PROVE  Len(results) = NActors /\ ToSet(results) = Actors
  BY DEF AllResults, Started
<1>1. Typed /\ Found /\ Joins
  BY DEF IInv
<1>2. 1 .. joined = Workers /\ 1 \in Workers
  BY ConstantsTyped DEF Workers
<1>3. pc[1] = "returned"
  BY <1>1, <1>2 DEF Joins
<1>4. Live = {} /\ panics = 0
  BY <1>2, <1>3, NobodyLeft
<1>5. \A a \in Actors : In(a, results)
  BY <1>1, <1>2, <1>4 DEF Found, Joins
<1>6. results \in Seq(Actors) /\ Len(results) \in Nat
  BY <1>1, LenProperties DEF Typed
<1> DEFINE S == 1 .. Len(results)
<1>7. results \in [S -> Actors] /\ DOMAIN results = S
  BY <1>6
<1>8. \A i, j \in S : results[i] = results[j] => i = j
  BY <1>1 DEF Joins
<1>9. \A a \in Actors : \E i \in S : results[i] = a
  BY <1>5 DEF In
<1>10. IsFiniteSet(S) /\ Cardinality(S) = Len(results)
  BY <1>6, FS_Interval
<1>11. ToSet(results) = Actors
  BY <1>7, <1>9 DEF ToSet
<1> HIDE DEF S
<1>12. results \in Bijection(S, Actors)
  BY <1>7, <1>8, <1>9, Fun_IsBij
<1>13. ExistsBijection(S, Actors)
  BY <1>12 DEF ExistsBijection
<1>14. Cardinality(Actors) = Cardinality(S)
  BY <1>10, <1>13, FS_Bijection
<1> QED  BY <1>10, <1>11, <1>14, SetsOfActors

(* With a worker at all, start() returns one result per actor.              *)
THEOREM ResultPerActor == ASSUME NWorkers > 0  PROVE Spec => []AllResults
  BY Invariant, ResultsFollow, PTL
=============================================================================
