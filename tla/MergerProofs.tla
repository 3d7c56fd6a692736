----------------------------- MODULE MergerProofs -----------------------------
(***************************************************************************)
(* The loser tree of Merger, for any number of queues for which new()       *)
(* builds one (Shape), any capacity, times and payloads.                    *)
(***************************************************************************)
EXTENDS Merger, Integers, SequenceTheorems, WellFoundedInduction, TLAPS

(* What new() has to build. *)
Shape == ShapedBy(N, Up)

QueueEvents == [time : Times, kind : Kinds]

Typed ==
  /\ queues \in [Queues -> Seq(QueueEvents)]
  /\ \A q \in Queues : Len(queues[q]) <= Cap
  /\ last \in [Queues -> Times]
  /\ held \in [Queues -> BOOLEAN]
  /\ loser_e \in [Nodes -> Events]
  /\ winner_q \in Queues /\ safe_time \in Times
  /\ pc \in {"pop", "climb", "check"}
  /\ cand \in Events /\ index \in 0 .. N - 1 /\ out \in Events

(* One event of every queue: cand's, and the ones in the tree. *)
Tree ==
  /\ \A i \in Nodes : loser_e[i].src # cand.src /\ i \in Above(loser_e[i].src)
  /\ \A i, j \in Nodes : loser_e[i].src = loser_e[j].src => i = j
  /\ \A q \in Queues \ {cand.src} : \E i \in Nodes : loser_e[i].src = q

(* Where the candidate is. *)
Position ==
  /\ pc = "climb" => index = 0 \/ (index \in Above(cand.src) /\ index \in Above(winner_q))
  /\ pc # "climb" => winner_q = cand.src /\ safe_time = cand.time
  /\ pc = "check" => cand.kind = "Stalled"

(* The loser of node i was beaten by an event that came past i and is now   *)
(* above it, unless the candidate has still to come past.                   *)
Beaten(i) ==
  \/ \E j \in Nodes : j < i /\ i \in Above(loser_e[j].src) /\ Key(loser_e[j]) <= Key(loser_e[i])
  \/ i \in Above(cand.src) /\ Key(cand) <= Key(loser_e[i])

Order == \A i \in Nodes : (pc = "climb" /\ i \in Above(winner_q) /\ i <= index) \/ Beaten(i)

(* What a queue whose last time is l has said: event e, and then s.         *)
Saying(e, s, l) ==
  /\ \A i \in 1 .. Len(s) : e.time <= s[i].time
  /\ \A i, j \in 1 .. Len(s) : i <= j => s[i].time <= s[j].time
  /\ l = IF s = <<>> THEN e.time ELSE s[Len(s)].time

Heard(e, q) == Saying(e, queues[q], last[q])

(* Whether event e of queue q in the tree is to be passed on. *)
Kept(e, q) ==
  /\ held[q] => e.kind # "Stalled"
  /\ e.kind \in Payloads => held[q]

Said ==
  /\ Heard(cand, cand.src)
  /\ \A i \in Nodes : Heard(loser_e[i], loser_e[i].src)
  /\ \A i \in Nodes : Kept(loser_e[i], loser_e[i].src)
  /\ IF pc = "climb" THEN Kept(cand, cand.src) ELSE ~held[cand.src]

(* The inductive invariant. *)
IInv == Typed /\ Tree /\ Position /\ Order /\ Said /\ Conservative
-----------------------------------------------------------------------------
(* Ways up the tree. *)
LEMMA Built ==
  ASSUME Shape
  PROVE  /\ \A q \in Queues : paths[q] \in Nodes
         /\ \A i \in Nodes : FirstSrc(N)[i] \in Queues \ {0} /\ i \in Above(FirstSrc(N)[i])
         /\ \A i, j \in Nodes : FirstSrc(N)[i] = FirstSrc(N)[j] => i = j
         /\ \A q \in Queues \ {0} : \E i \in Nodes : FirstSrc(N)[i] = q
         /\ \A i \in Nodes : \/ i \in Above(0)
                             \/ \E j \in Nodes : j < i /\ i \in Above(FirstSrc(N)[j])
<1>1. 1 .. N - 1 = Queues \ {0}
  BY MergerAssumption DEF Queues
<1>2. /\ \A q \in Queues : Paths(N)[q] \in Nodes
      /\ \A i \in Nodes : FirstSrc(N)[i] \in 1 .. N - 1 /\ i \in Up(Paths(N)[FirstSrc(N)[i]])
      /\ \A i, j \in Nodes : FirstSrc(N)[i] = FirstSrc(N)[j] => i = j
      /\ \A q \in 1 .. N - 1 : \E i \in Nodes : FirstSrc(N)[i] = q
      /\ \A i \in Nodes : \/ i \in Up(Paths(N)[0])
                          \/ \E j \in Nodes : j < i /\ i \in Up(Paths(N)[FirstSrc(N)[j]])
  BY DEF Shape, ShapedBy, Queues, Nodes
<1> QED  BY <1>1, <1>2 DEF Above, paths

LEMMA Sizes ==
  /\ N \in Nat /\ N >= 2 /\ Nodes \subseteq Nat \ {0} /\ 0 \in Queues
  /\ Times \subseteq Nat /\ 0 \in Times
  /\ \A i \in Nodes : i \div 2 \in Nat /\ i \div 2 < i /\ (i \div 2 = 0 \/ i \div 2 \in Nodes)
  /\ \A i, j \in Nodes : i <= j => i \div 2 <= j \div 2
  BY MergerAssumption DEF Nodes, Queues

LEMMA UpBasics ==
  ASSUME NEW i \in Nodes
  PROVE  /\ i \in Up(i) /\ Up(i) \subseteq Nodes
         /\ \A j \in Up(i) : j <= i
         /\ \A j \in Up(i) : j \div 2 = 0 \/ j \div 2 \in Up(i)
<1>1. i \in Up(i) /\ Up(i) \subseteq Nodes
  BY DEF Up
<1>2. ASSUME NEW j \in Up(i)  PROVE j <= i
  <2> DEFINE S == {k \in Nodes : k <= i}
  <2>1. S \in SUBSET Nodes /\ i \in S
    BY Sizes
  <2>2. ASSUME NEW k \in S  PROVE k \div 2 \in S \cup {0}
    BY Sizes
  <2>3. Rising(S)
    BY <2>2 DEF Rising
  <2> HIDE DEF S
  <2>4. j \in S
    BY <2>1, <2>3 DEF Up
  <2> QED  BY <2>4 DEF S
<1>3. ASSUME NEW j \in Up(i), j \div 2 # 0  PROVE j \div 2 \in Up(i)
  <2>1. j \in Nodes /\ j \div 2 \in Nodes
    BY <1>1, <1>3, Sizes
  <2>2. ASSUME NEW S \in SUBSET Nodes, i \in S, Rising(S)  PROVE j \div 2 \in S
    <3>1. j \in S
      BY <2>2 DEF Up
    <3>2. j \div 2 \in S \cup {0}
      BY <2>2, <3>1 DEF Rising
    <3> QED  BY <1>3, <3>2
  <2> QED  BY <2>1, <2>2 DEF Up
<1> QED  BY <1>1, <1>2, <1>3

LEMMA UpStep ==
  ASSUME NEW k \in Nodes, NEW c \in Up(k), k # c, k \div 2 # 0
  PROVE  c \in Up(k \div 2)
<1>1. k \div 2 \in Nodes /\ c \in Nodes
  BY Sizes, UpBasics
<1>2. ASSUME NEW T \in SUBSET Nodes, k \div 2 \in T, Rising(T)  PROVE c \in T
  <2>1. Rising(T \cup {k}) /\ T \cup {k} \in SUBSET Nodes
    BY <1>1, <1>2 DEF Rising
  <2>2. c \in T \cup {k}
    BY <2>1 DEF Up
  <2> QED  BY <2>2
<1> QED  BY <1>1, <1>2 DEF Up

(* Ways that meet go on together. *)
LEMMA UpMeets ==
  ASSUME NEW i \in Nodes, NEW c \in Up(i), NEW j \in Up(i), j < c,
         NEW k \in Nodes, c \in Up(k)
  PROVE  j \in Up(k)
<1>1. c \in Nodes /\ j \in Nodes
  BY UpBasics
<1> DEFINE S == {n \in Nodes : n \in Up(c) \/ c \in Up(n)}
<1>2. i \in S /\ S \in SUBSET Nodes
  OBVIOUS
<1>3. ASSUME NEW n \in S  PROVE n \div 2 \in S \cup {0}
  <2>1. n \in Nodes /\ (n \div 2 = 0 \/ n \div 2 \in Nodes)
    BY Sizes
  <2>2. CASE n \in Up(c)
    BY <1>1, <2>1, <2>2, UpBasics
  <2>3. CASE n = c
    BY <1>1, <2>1, <2>3, UpBasics
  <2>4. CASE c \in Up(n) /\ n # c
    BY <2>1, <2>4, UpStep
  <2> QED  BY <2>2, <2>3, <2>4
<1>4. Rising(S)
  BY <1>3 DEF Rising
<1> HIDE DEF S
<1>5. j \in S
  BY <1>2, <1>4 DEF Up
<1>6. ~(c \in Up(j))
  BY <1>1, UpBasics, Sizes
<1>7. j \in Up(c)
  BY <1>5, <1>6 DEF S
<1> QED  BY <1>1, <1>7 DEF Up

(* A way has no node between one of its own and the parent of that. *)
LEMMA UpChain ==
  ASSUME NEW i \in Nodes, NEW c \in Up(i), NEW j \in Up(i), j < c
  PROVE  j <= c \div 2
<1> DEFINE S == {k \in Nodes : c \in Up(k) \/ k <= c \div 2}
<1>1. i \in S /\ S \in SUBSET Nodes
  OBVIOUS
<1>2. c \in Nodes /\ j \in Nodes
  BY UpBasics
<1>3. ASSUME NEW k \in S  PROVE k \div 2 \in S \cup {0}
  <2>0. k \in Nodes /\ (k \div 2 = 0 \/ k \div 2 \in Nodes) /\ k \div 2 \in Nat /\ k \div 2 < k
    BY Sizes
  <2>1. CASE k <= c \div 2
    <3>1. k \div 2 <= c \div 2
      BY <1>2, <2>0, <2>1, Sizes
    <3> QED  BY <2>0, <3>1
  <2>2. CASE k = c
    <3>1. k \div 2 <= c \div 2
      BY <2>0, <2>2
    <3> QED  BY <2>0, <3>1
  <2>3. CASE c \in Up(k) /\ k # c /\ k \div 2 # 0
    BY <2>0, <2>3, UpStep
  <2>4. c \in Up(k) \/ k <= c \div 2
    OBVIOUS
  <2> QED  BY <2>1, <2>2, <2>3, <2>4
<1>4. Rising(S)
  BY <1>3 DEF Rising
<1> HIDE DEF S
<1>5. j \in S
  BY <1>1, <1>4 DEF Up
<1>6. ~(c \in Up(j))
  BY <1>2, UpBasics, Sizes
<1> QED  BY <1>5, <1>6 DEF S

(* The same of the ways of the queues. *)
LEMMA Ways ==
  ASSUME Shape, NEW q \in Queues
  PROVE  /\ paths[q] \in Above(q) /\ Above(q) \subseteq Nodes
         /\ \A j \in Above(q) : j <= paths[q]
         /\ \A j \in Above(q) : j \div 2 = 0 \/ j \div 2 \in Above(q)
         /\ \A c, j \in Above(q) : j < c => j <= c \div 2
         /\ \A w \in Queues : \A c, j \in Above(q) : j < c /\ c \in Above(w) => j \in Above(w)
<1>1. \A p \in Queues : paths[p] \in Nodes
  BY Built
<1>2. /\ paths[q] \in Up(paths[q]) /\ Up(paths[q]) \subseteq Nodes
      /\ \A j \in Up(paths[q]) : j <= paths[q]
      /\ \A j \in Up(paths[q]) : j \div 2 = 0 \/ j \div 2 \in Up(paths[q])
  BY <1>1, UpBasics
<1>3. \A c, j \in Up(paths[q]) : j < c => j <= c \div 2
  BY <1>1, UpChain
<1>4. \A w \in Queues : \A c, j \in Up(paths[q]) : j < c /\ c \in Up(paths[w]) => j \in Up(paths[w])
  BY <1>1, UpMeets
<1> QED  BY <1>2, <1>3, <1>4 DEF Above
-----------------------------------------------------------------------------
(* Events. *)
LEMMA Keys ==
  ASSUME NEW e \in Events, NEW f \in Events
  PROVE  /\ Key(e) \in Nat /\ e.time \in Nat
         /\ Key(e) <= Key(f) => e.time <= f.time
         /\ Beats(e, f) => Key(e) <= Key(f)
         /\ ~Beats(e, f) => Key(f) <= Key(e)
<1>1. e.time \in Nat /\ f.time \in Nat
  BY Sizes DEF Events
<1> DEFINE x == IF e.kind = "Stalled" THEN 1 ELSE 0
           y == IF f.kind = "Stalled" THEN 1 ELSE 0
<1>2. Key(e) = 2 * e.time + x /\ Key(f) = 2 * f.time + y
  BY DEF Key
<1>3. x \in 0 .. 1 /\ y \in 0 .. 1 /\ (y = 1 <=> f.kind = "Stalled")
  OBVIOUS
<1>4. Beats(e, f) <=> e.time < f.time \/ (e.time = f.time /\ y = 1)
  BY <1>3 DEF Beats
<1> HIDE DEF x, y
<1> QED  BY <1>1, <1>2, <1>3, <1>4

(* The winner of a climb, and what has won until the next one. *)
LEMMA Least ==
  ASSUME Typed, Order, index = 0 \/ pc # "climb"
  PROVE  \A i \in Nodes : Key(cand) <= Key(loser_e[i])
<1> DEFINE S == {i \in Nodes : ~(Key(cand) <= Key(loser_e[i]))}
<1> SUFFICES ASSUME S # {}  PROVE FALSE
  OBVIOUS
<1>1. S \in SUBSET Nat /\ S \subseteq Nodes
  BY Sizes
<1>2. cand \in Events /\ \A i \in Nodes : loser_e[i] \in Events
  BY DEF Typed
<1>3. Key(cand) \in Nat /\ \A i \in Nodes : Key(loser_e[i]) \in Nat
  BY <1>2, Keys
<1>4. \A i \in Nodes : i \in S <=> ~(Key(cand) <= Key(loser_e[i]))
  OBVIOUS
<1> HIDE DEF S
<1>5. \E x \in S : \A y \in S : ~(<<y, x>> \in OpToRel(<, Nat))
  BY <1>1, NatLessThanWellFounded, WFMin
<1>6. PICK x \in S : \A y \in S : ~(y < x)
  BY <1>1, <1>5 DEF OpToRel
<1>7. x \in Nodes /\ ~(x <= 0)
  BY <1>1, <1>6, Sizes
<1>8. Beaten(x)
  BY <1>7 DEF Order
<1>9. CASE \E j \in Nodes : j < x /\ Key(loser_e[j]) <= Key(loser_e[x])
  BY <1>3, <1>4, <1>6, <1>7, <1>9
<1>10. CASE Key(cand) <= Key(loser_e[x])
  BY <1>4, <1>6, <1>7, <1>10
<1> QED  BY <1>8, <1>9, <1>10 DEF Beaten

(* Every queue has one event, and has not said less than it since. *)
LEMMA LastBounds ==
  ASSUME NEW e, NEW s \in Seq(QueueEvents), NEW l \in Nat, e.time \in Nat, Saying(e, s, l)
  PROVE  e.time <= l /\ \A i \in 1 .. Len(s) : s[i].time <= l
<1>1. Len(s) \in Nat /\ (s # <<>> => Len(s) \in 1 .. Len(s))
  BY EmptySeq, LenProperties
<1>2. \A i \in 1 .. Len(s) : s[i].time \in Nat
  <2> TAKE i \in 1 .. Len(s)
  <2>1. s[i] \in QueueEvents
    BY ElementOfSeq
  <2> QED  BY <2>1, Sizes DEF QueueEvents
<1>3. CASE s = <<>>
  BY <1>3 DEF Saying
<1>4. CASE s # <<>>
  <2>1. l = s[Len(s)].time
    BY <1>4 DEF Saying
  <2>2. e.time <= l
    BY <1>1, <1>4, <2>1 DEF Saying
  <2>3. ASSUME NEW i \in 1 .. Len(s)  PROVE s[i].time <= l
    <3>1. i <= Len(s)
      BY <1>1
    <3> QED  BY <1>1, <1>4, <2>1, <3>1 DEF Saying
  <2> QED  BY <2>2, <2>3
<1> QED  BY <1>3, <1>4

LEMMA SayMore ==
  ASSUME NEW e, NEW s \in Seq(QueueEvents), NEW l \in Nat, e.time \in Nat, Saying(e, s, l),
         NEW x \in QueueEvents, x.time >= l
  PROVE  Saying(e, Append(s, x), x.time)
<1> DEFINE a == Append(s, x)
<1>1. /\ Len(s) \in Nat /\ Len(a) = Len(s) + 1 /\ a # <<>> /\ a[Len(s) + 1] = x
      /\ \A i \in 1 .. Len(s) : a[i] = s[i]
  BY AppendProperties, LenProperties
<1>2. e.time <= l /\ \A i \in 1 .. Len(s) : s[i].time <= l
  BY LastBounds
<1>3. \A i \in 1 .. Len(s) : s[i].time \in Nat
  <2> TAKE i \in 1 .. Len(s)
  <2>1. s[i] \in QueueEvents
    BY ElementOfSeq
  <2> QED  BY <2>1, Sizes DEF QueueEvents
<1>4. x.time \in Nat
  BY Sizes DEF QueueEvents
<1> HIDE DEF a
<1>5. \A i \in 1 .. Len(a) : (i \in 1 .. Len(s) /\ a[i] = s[i]) \/ (i = Len(s) + 1 /\ a[i] = x)
  BY <1>1
<1>6. \A i \in 1 .. Len(a) : e.time <= a[i].time
  BY <1>2, <1>4, <1>5 DEF Saying
<1>7. ASSUME NEW i \in 1 .. Len(a), NEW j \in 1 .. Len(a), i <= j
      PROVE  a[i].time <= a[j].time
  <2>1. CASE i \in 1 .. Len(s) /\ j \in 1 .. Len(s)
    BY <1>1, <1>7, <2>1 DEF Saying
  <2>2. CASE i \in 1 .. Len(s) /\ j = Len(s) + 1
    BY <1>1, <1>2, <1>3, <1>4, <2>2
  <2>3. CASE i = Len(s) + 1
    <3>1. j = i
      BY <1>1, <1>7, <2>3
    <3> QED  BY <1>1, <1>4, <2>3, <3>1
  <2> QED  BY <1>5, <2>1, <2>2, <2>3
<1>8. x.time = IF a = <<>> THEN e.time ELSE a[Len(a)].time
  BY <1>1
<1> QED  BY <1>6, <1>7, <1>8 DEF Saying, a

LEMMA SaidFirst ==
  ASSUME NEW e, NEW s \in Seq(QueueEvents), s # <<>>, NEW l, Saying(e, s, l),
         NEW f, f.time = Head(s).time
  PROVE  Saying(f, Tail(s), l)
<1> DEFINE t == Tail(s)
<1>1. /\ Len(s) \in Nat /\ Len(s) >= 1 /\ Head(s) = s[1] /\ Len(t) = Len(s) - 1
      /\ \A i \in 1 .. Len(t) : t[i] = s[i + 1]
      /\ (t = <<>> <=> Len(t) = 0)
  <2>1. Len(s) \in Nat \ {0}
    BY EmptySeq
  <2>2. t \in Seq(QueueEvents)
    BY HeadTailProperties
  <2>3. Head(s) = s[1] /\ Len(t) = Len(s) - 1 /\ \A i \in 1 .. Len(t) : t[i] = s[i + 1]
    BY <2>1, HeadTailProperties
  <2>4. t = <<>> <=> Len(t) = 0
    BY <2>2, EmptySeq
  <2>5. Len(s) \in Nat /\ Len(s) >= 1
    BY <2>1
  <2> HIDE DEF t
  <2> QED  BY <2>3, <2>4, <2>5
<1> HIDE DEF t
<1>2. \A i \in 1 .. Len(t) : i + 1 \in 1 .. Len(s) /\ 1 \in 1 .. Len(s) /\ 1 <= i + 1
  BY <1>1
<1>3. \A i \in 1 .. Len(t) : f.time <= t[i].time
  BY <1>1, <1>2 DEF Saying
<1>4. \A i, j \in 1 .. Len(t) : i <= j => t[i].time <= t[j].time
  <2> SUFFICES ASSUME NEW i \in 1 .. Len(t), NEW j \in 1 .. Len(t), i <= j
               PROVE  t[i].time <= t[j].time
    OBVIOUS
  <2>1. i + 1 <= j + 1
    BY <1>1
  <2> QED  BY <1>1, <1>2, <2>1 DEF Saying
<1>5. l = IF t = <<>> THEN f.time ELSE t[Len(t)].time
  <2>1. l = s[Len(s)].time
    BY <1>1 DEF Saying
  <2>2. CASE Len(t) = 0
    <3>1. Len(s) = 1
      BY <1>1, <2>2
    <3> QED  BY <1>1, <2>1, <2>2, <3>1
  <2>3. CASE Len(t) # 0
    <3>1. Len(t) \in 1 .. Len(t) /\ Len(t) + 1 = Len(s)
      BY <1>1, <2>3
    <3> QED  BY <1>1, <2>1, <2>3, <3>1
  <2> QED  BY <2>2, <2>3
<1> QED  BY <1>3, <1>4, <1>5 DEF Saying, t
-----------------------------------------------------------------------------
(* Every step preserves the invariant. *)
LEMMA AboveDef ==
  ASSUME NEW i \in Nodes, Tree, Typed
  PROVE  loser_e[i].src \in Queues /\ loser_e[i].src # cand.src /\ cand.src \in Queues
  BY DEF Tree, Typed, Events

LEMMA InitKeeps ==
  ASSUME Shape, Init
  PROVE  IInv
<1>1. Typed
  <2>1. \A q, k \in Queues : Event(0, "Null", q) \in Events
    BY Sizes DEF Events, Event, Kinds
  <2>2. \A q \in Queues : queues[q] = <<>> /\ Len(queues[q]) <= Cap
    BY MergerAssumption, EmptySeq DEF Init
  <2>3. queues \in [Queues -> Seq(QueueEvents)]
    BY EmptySeq DEF Init
  <2>4. last \in [Queues -> Times] /\ held \in [Queues -> BOOLEAN]
    BY Sizes DEF Init
  <2>5. loser_e \in [Nodes -> Events]
    BY <2>1, Built DEF Init
  <2>6. winner_q \in Queues /\ safe_time \in Times /\ index \in 0 .. N - 1
    BY Sizes DEF Init
  <2>7. pc \in {"pop", "climb", "check"} /\ cand \in Events /\ out \in Events
    BY <2>1, Sizes DEF Init
  <2> QED  BY <2>2, <2>3, <2>4, <2>5, <2>6, <2>7 DEF Typed
<1>2. cand = Event(0, "Null", 0) /\ \A i \in Nodes : loser_e[i] = Event(0, "Null", FirstSrc(N)[i])
  BY DEF Init
<1>3. ASSUME NEW q  PROVE Event(0, "Null", q).src = q /\ Key(Event(0, "Null", q)) = 0
  <2>1. Event(0, "Null", q).src = q
    BY DEF Event
  <2>2. Event(0, "Null", q).time = 0 /\ Event(0, "Null", q).kind = "Null"
    BY DEF Event
  <2>3. Key(Event(0, "Null", q)) = 2 * 0 + 0
    BY <2>2 DEF Key
  <2> QED  BY <2>1, <2>3
<1>4. cand.src = 0 /\ Key(cand) = 0
  BY <1>2, <1>3
<1>5. \A i \in Nodes : loser_e[i].src = FirstSrc(N)[i] /\ Key(loser_e[i]) = 0
  BY <1>2, <1>3
<1>6. Tree
  BY <1>4, <1>5, Built DEF Tree
<1>7. Position
  BY <1>4, <1>2 DEF Init, Position, Event
<1>8. Order
  BY <1>4, <1>5, Built DEF Order, Beaten
<1>9. Said
  <2>1. ASSUME NEW q \in Queues  PROVE Heard(Event(0, "Null", q), q)
    <3>1. queues[q] = <<>> /\ last[q] = 0 /\ Len(queues[q]) = 0
      BY EmptySeq DEF Init
    <3>2. Event(0, "Null", q).time = 0
      BY DEF Event
    <3> QED  BY <3>1, <3>2 DEF Heard, Saying
  <2>2. ASSUME NEW q \in Queues  PROVE Kept(Event(0, "Null", q), q) /\ ~held[q]
    <3>1. Event(0, "Null", q).kind = "Null"
      BY DEF Event
    <3> QED  BY <3>1, MergerAssumption DEF Init, Kept
  <2>3. 0 \in Queues /\ (\A i \in Nodes : FirstSrc(N)[i] \in Queues) /\ pc = "pop"
    BY Sizes, Built DEF Init
  <2> QED  BY <1>2, <1>4, <1>5, <2>1, <2>2, <2>3 DEF Said
<1>10. Conservative
  BY DEF Conservative, Init
<1> QED  BY <1>1, <1>6, <1>7, <1>8, <1>9, <1>10 DEF IInv

LEMMA PushKeeps ==
  ASSUME IInv, NEW q \in Queues, NEW t \in Times, NEW k \in Kinds, Push(q, t, k)
  PROVE  IInv'
<1> DEFINE x == [time |-> t, kind |-> k]
<1>1. Typed /\ Tree /\ Position /\ Order /\ Said /\ Conservative
  BY DEF IInv
<1>2. /\ queues' = [queues EXCEPT ![q] = Append(queues[q], x)]
      /\ last' = [last EXCEPT ![q] = t] /\ t >= last[q] /\ Len(queues[q]) < Cap
      /\ held' = held /\ loser_e' = loser_e /\ winner_q' = winner_q /\ safe_time' = safe_time
      /\ pc' = pc /\ cand' = cand /\ index' = index /\ out' = out
  BY DEF Push, treeVars, callVars
<1>3. x \in QueueEvents /\ x.time = t
  BY DEF QueueEvents
<1> HIDE DEF x
<1>4. /\ queues'[q] = Append(queues[q], x) /\ last'[q] = t
      /\ \A p \in Queues \ {q} : queues'[p] = queues[p] /\ last'[p] = last[p]
  BY <1>1, <1>2 DEF Typed
<1>5. queues[q] \in Seq(QueueEvents) /\ \A p \in Queues : last[p] \in Nat
  BY <1>1, Sizes DEF Typed
<1>6. Typed'
  <2>1. Append(queues[q], x) \in Seq(QueueEvents) /\ Len(Append(queues[q], x)) = Len(queues[q]) + 1
    BY <1>3, <1>5, AppendProperties
  <2>2. Len(queues[q]) \in Nat /\ Cap \in Nat
    BY <1>5, LenProperties, MergerAssumption
  <2>3. \A p \in Queues : Len(queues'[p]) <= Cap
    BY <1>1, <1>2, <1>4, <2>1, <2>2 DEF Typed
  <2>4. queues' \in [Queues -> Seq(QueueEvents)] /\ last' \in [Queues -> Times]
    BY <1>1, <1>2, <2>1 DEF Typed
  <2> QED  BY <1>1, <1>2, <2>3, <2>4 DEF Typed
<1>7. Tree' /\ Position'
  BY <1>1, <1>2 DEF Tree, Position
<1>8. Order'
  BY <1>1, <1>2 DEF Order, Beaten
<1>9. Said'
  <2>1. ASSUME NEW e \in Events, e.src \in Queues, Heard(e, e.src)
        PROVE  Saying(e, queues'[e.src], last'[e.src])
    <3>1. e.time \in Nat
      BY Keys
    <3>2. Saying(e, queues[e.src], last[e.src])
      BY <2>1 DEF Heard
    <3>3. CASE e.src = q
      BY <1>2, <1>3, <1>4, <1>5, <3>1, <3>2, <3>3, SayMore
    <3> QED  BY <1>4, <2>1, <3>2, <3>3
  <2>2. cand \in Events /\ cand.src \in Queues /\ Heard(cand, cand.src)
    BY <1>1 DEF Said, Typed, Events
  <2>3. \A i \in Nodes : loser_e[i] \in Events /\ loser_e[i].src \in Queues /\ Heard(loser_e[i], loser_e[i].src)
    BY <1>1 DEF Said, Typed, Events
  <2>4. Saying(cand, queues'[cand.src], last'[cand.src])
    BY <2>1, <2>2
  <2>5. \A i \in Nodes : Saying(loser_e[i], queues'[loser_e[i].src], last'[loser_e[i].src])
    BY <2>1, <2>3
  <2>6. Heard(cand, cand.src)' /\ \A i \in Nodes : Heard(loser_e[i], loser_e[i].src)'
    BY <1>2, <2>4, <2>5 DEF Heard
  <2> QED  BY <1>1, <1>2, <2>6 DEF Said, Kept
<1>10. Conservative'
  <2>1. safe_time \in Nat /\ t \in Nat
    BY <1>1, Sizes DEF Typed
  <2>2. \A p \in Queues : safe_time <= last[p]
    BY <1>1 DEF Conservative
  <2>3. ASSUME NEW p \in Queues  PROVE safe_time <= last'[p]
    BY <1>2, <1>4, <1>5, <2>1, <2>2
  <2> QED  BY <1>2, <2>3 DEF Conservative
<1> QED  BY <1>6, <1>7, <1>8, <1>9, <1>10 DEF IInv

LEMMA PopKeeps ==
  ASSUME Shape, IInv, Pop
  PROVE  IInv'
<1> DEFINE w == winner_q
           s == queues[w]
<1>1. Typed /\ Tree /\ Position /\ Order /\ Said /\ Conservative
  BY DEF IInv
<1>2. /\ pc = "pop" /\ pc' = "climb" /\ index' = paths[w]
      /\ last' = last /\ loser_e' = loser_e /\ winner_q' = w /\ safe_time' = safe_time /\ out' = out
  BY DEF Pop, treeVars
<1>3. /\ w = cand.src /\ safe_time = cand.time /\ w \in Queues /\ ~held[w] /\ Heard(cand, w)
  BY <1>1, <1>2 DEF Position, Said, Typed
<1>4. s \in Seq(QueueEvents) /\ safe_time \in Times
  BY <1>1, <1>3 DEF Typed
<1>5. \/ s = <<>> /\ cand' = Event(safe_time, "Stalled", w) /\ queues' = queues /\ held' = held
      \/ /\ s # <<>> /\ cand' = Event(Head(s).time, Head(s).kind, w)
         /\ queues' = [queues EXCEPT ![w] = Tail(s)] /\ held' = [held EXCEPT ![w] = TRUE]
  BY DEF Pop
<1>6. s # <<>> => Head(s) \in QueueEvents /\ Tail(s) \in Seq(QueueEvents) /\ Len(Tail(s)) = Len(s) - 1 /\ Len(s) \in Nat
  BY <1>4, HeadTailProperties, LenProperties
<1> HIDE DEF s, w
<1>7. cand' \in Events /\ cand'.src = w
  <2>1. CASE s = <<>>
    BY <1>3, <1>4, <1>5, <2>1 DEF Event, Events
  <2>2. CASE s # <<>>
    BY <1>3, <1>5, <1>6, <2>2 DEF Event, Events, QueueEvents
  <2> QED  BY <2>1, <2>2
<1>8. \A p \in Queues \ {w} : queues'[p] = queues[p] /\ held'[p] = held[p]
  BY <1>1, <1>3, <1>5 DEF Typed
<1>9. Typed'
  <2>1. paths[w] \in Nodes /\ Nodes \subseteq 0 .. N - 1
    BY <1>3, Sizes, Built DEF Nodes
  <2>2. held' \in [Queues -> BOOLEAN]
    BY <1>1, <1>5 DEF Typed
  <2>3. queues' \in [Queues -> Seq(QueueEvents)]
    BY <1>1, <1>5, <1>6 DEF Typed
  <2>4. Len(queues'[w]) <= Cap
    <3>1. Len(s) <= Cap
      BY <1>1, <1>3 DEF Typed, s
    <3>2. CASE s = <<>>
      BY <1>5, <3>1, <3>2 DEF s
    <3>3. CASE s # <<>>
      <4>1. queues'[w] = Tail(s)
        BY <1>1, <1>3, <1>5, <3>3 DEF Typed
      <4> QED  BY <1>6, <3>1, <3>3, <4>1, MergerAssumption
    <3> QED  BY <3>2, <3>3
  <2>5. \A p \in Queues : Len(queues'[p]) <= Cap
    BY <1>1, <1>8, <2>4 DEF Typed
  <2> QED  BY <1>1, <1>2, <1>3, <1>7, <2>1, <2>2, <2>3, <2>5 DEF Typed
<1>10. Tree'
  BY <1>1, <1>2, <1>3, <1>7 DEF Tree
<1>11. Position'
  BY <1>2, <1>3, <1>7, Ways DEF Position
<1>12. Order'
  <2>1. ASSUME NEW i \in Nodes, ~(i \in Above(w) /\ i <= paths[w])
        PROVE  \E j \in Nodes : j < i /\ i \in Above(loser_e[j].src) /\ Key(loser_e[j]) <= Key(loser_e[i])
    <3>1. i \notin Above(w)
      BY <1>3, <2>1, Ways
    <3>2. Beaten(i)
      BY <1>1, <1>2 DEF Order
    <3> QED  BY <1>3, <3>1, <3>2 DEF Beaten
  <2>2. \A i \in Nodes : (i \in Above(w) /\ i <= paths[w]) \/ Beaten(i)'
    BY <1>2, <2>1 DEF Beaten
  <2> QED  BY <1>2, <2>2 DEF Order, w
<1>13. Said'
  <2>1. ASSUME NEW i \in Nodes
        PROVE  /\ loser_e[i].src \in Queues \ {w}
               /\ Heard(loser_e[i], loser_e[i].src) /\ Kept(loser_e[i], loser_e[i].src)
    BY <1>1, <1>3, AboveDef DEF Said
  <2>2. \A i \in Nodes : Heard(loser_e[i], loser_e[i].src)' /\ Kept(loser_e[i], loser_e[i].src)'
    BY <1>2, <1>8, <2>1 DEF Heard, Kept
  <2>3. Saying(cand', queues'[w], last[w])
    <3>1. Saying(cand, s, last[w])
      BY <1>3 DEF Heard, s
    <3>2. CASE s = <<>>
      <4>1. cand'.time = cand.time
        BY <1>3, <1>5, <3>2 DEF Event
      <4>2. queues'[w] = s
        BY <1>5, <3>2 DEF s
      <4> QED  BY <3>1, <4>1, <4>2 DEF Saying
    <3>3. CASE s # <<>>
      <4>1. cand'.time = Head(s).time
        BY <1>5, <3>3 DEF Event
      <4>2. queues'[w] = Tail(s)
        BY <1>1, <1>3, <1>5, <3>3 DEF Typed
      <4> QED  BY <1>4, <3>1, <3>3, <4>1, <4>2, SaidFirst
    <3> QED  BY <3>2, <3>3
  <2>4. Heard(cand, cand.src)'
    BY <1>2, <1>7, <2>3 DEF Heard
  <2>5. (held'[w] => cand'.kind # "Stalled") /\ (cand'.kind \in Payloads => held'[w])
    <3>1. CASE s = <<>>
      <4>1. cand'.kind = "Stalled" /\ ~held'[w]
        BY <1>3, <1>5, <3>1 DEF Event
      <4> QED  BY <4>1, MergerAssumption
    <3>2. CASE s # <<>>
      <4>1. cand'.kind = Head(s).kind /\ held'[w]
        BY <1>1, <1>3, <1>5, <3>2 DEF Event, Typed
      <4>2. Head(s).kind \in Kinds
        BY <1>6, <3>2 DEF QueueEvents
      <4> QED  BY <4>1, <4>2, MergerAssumption DEF Kinds
    <3> QED  BY <3>1, <3>2
  <2>6. Kept(cand, cand.src)'
    BY <1>7, <2>5 DEF Kept
  <2> QED  BY <1>2, <2>2, <2>4, <2>6 DEF Said
<1>14. Conservative'
  BY <1>1, <1>2 DEF Conservative
<1> QED  BY <1>9, <1>10, <1>11, <1>12, <1>13, <1>14 DEF IInv

LEMMA ClimbKeeps ==
  ASSUME Shape, IInv, Climb
  PROVE  IInv'
<1> DEFINE c == index
<1>1. Typed /\ Tree /\ Position /\ Order /\ Said /\ Conservative
  BY DEF IInv
<1>2. /\ pc = "climb" /\ c # 0 /\ pc' = pc /\ index' = c \div 2
      /\ queues' = queues /\ last' = last /\ held' = held
      /\ winner_q' = winner_q /\ safe_time' = safe_time /\ out' = out
  BY DEF Climb
<1>3. c \in Above(cand.src) /\ c \in Above(winner_q) /\ cand.src \in Queues /\ winner_q \in Queues
  BY <1>1, <1>2 DEF Position, Typed, Events
<1>4. c \in Nodes /\ c \div 2 \in 0 .. N - 1
  <2>1. c \in Nodes
    BY <1>3, Ways
  <2> QED  BY <2>1, Sizes DEF Nodes
<1>5. cand \in Events /\ \A i \in Nodes : loser_e[i] \in Events
  BY <1>1 DEF Typed
<1>6. Key(cand) \in Nat /\ \A i \in Nodes : Key(loser_e[i]) \in Nat
  BY <1>5, Keys
<1>7. \A i \in Nodes : loser_e[i].src \in Queues
  BY <1>5 DEF Events
<1>8. \/ ~Beats(loser_e[c], cand) /\ loser_e' = loser_e /\ cand' = cand
      \/ Beats(loser_e[c], cand) /\ loser_e' = [loser_e EXCEPT ![c] = cand] /\ cand' = loser_e[c]
  BY DEF Climb
<1>9. \A q \in Queues : \A j \in Above(q) : j < c /\ c \in Above(q) => j <= c \div 2
  BY Ways
<1> HIDE DEF c
<1>10. Conservative'
  BY <1>1, <1>2 DEF Conservative
<1>11. CASE ~Beats(loser_e[c], cand) /\ loser_e' = loser_e /\ cand' = cand
  <2>1. Typed'
    BY <1>1, <1>2, <1>4, <1>11 DEF Typed
  <2>2. Tree' /\ Said'
    BY <1>1, <1>2, <1>11 DEF Tree, Said, Heard, Kept
  <2>3. Position'
    BY <1>1, <1>2, <1>3, <1>11, Ways DEF Position
  <2>4. Order'
    <3>1. Beaten(c)
      BY <1>3, <1>4, <1>5, <1>11, Keys DEF Beaten
    <3>2. ASSUME NEW i \in Nodes, ~(i \in Above(winner_q) /\ i <= c \div 2)  PROVE Beaten(i)
      <4>1. CASE i \in Above(winner_q) /\ i <= c
        <5>1. i = c
          BY <1>3, <1>4, <1>9, <3>2, <4>1, Sizes
        <5> QED  BY <3>1, <5>1
      <4>2. CASE ~(i \in Above(winner_q) /\ i <= c)
        BY <1>1, <4>2 DEF Order, c
      <4> QED  BY <4>1, <4>2
    <3>3. \A i \in Nodes : Beaten(i)' <=> Beaten(i)
      BY <1>11 DEF Beaten
    <3> QED  BY <1>2, <3>2, <3>3 DEF Order
  <2> QED  BY <1>10, <2>1, <2>2, <2>3, <2>4 DEF IInv
<1>12. CASE Beats(loser_e[c], cand) /\ loser_e' = [loser_e EXCEPT ![c] = cand] /\ cand' = loser_e[c]
  <2> DEFINE b == loser_e[c]
  <2>1. b \in Events /\ Key(b) \in Nat /\ b.src \in Queues /\ Key(b) <= Key(cand)
    BY <1>4, <1>5, <1>6, <1>7, <1>12, Keys
  <2>2. /\ b.src # cand.src /\ c \in Above(b.src)
        /\ \A i \in Nodes : i # c => loser_e[i].src # b.src
    BY <1>1, <1>4 DEF Tree
  <2>3. loser_e'[c] = cand /\ cand' = b /\ \A i \in Nodes : i # c => loser_e'[i] = loser_e[i]
    BY <1>1, <1>4, <1>12 DEF Typed
  <2>4. Typed'
    BY <1>1, <1>2, <1>4, <1>5, <1>12 DEF Typed
  <2> HIDE DEF b
  <2>5. Tree'
    <3>1. \A i \in Nodes : loser_e'[i].src # b.src /\ i \in Above(loser_e'[i].src)
      BY <1>1, <1>3, <2>2, <2>3 DEF Tree
    <3>2. \A i, j \in Nodes : loser_e'[i].src = loser_e'[j].src => i = j
      BY <1>1, <2>3 DEF Tree
    <3>3. ASSUME NEW q \in Queues \ {b.src}  PROVE \E i \in Nodes : loser_e'[i].src = q
      <4>1. CASE q = cand.src
        BY <1>4, <2>3, <4>1
      <4>2. CASE q # cand.src
        <5>1. PICK i \in Nodes : loser_e[i].src = q
          BY <1>1, <4>2 DEF Tree
        <5>2. i # c
          BY <3>3, <5>1 DEF b
        <5> QED  BY <2>3, <5>1, <5>2
      <4> QED  BY <4>1, <4>2
    <3> QED  BY <2>3, <3>1, <3>2, <3>3 DEF Tree
  <2>6. Position'
    <3>1. c \div 2 = 0 \/ (c \div 2 \in Above(b.src) /\ c \div 2 \in Above(winner_q))
      BY <1>3, <2>1, <2>2, Ways
    <3> QED  BY <1>2, <2>3, <3>1 DEF Position
  <2>7. Said'
    BY <1>1, <1>2, <1>4, <2>3 DEF Said, Heard, Kept, b
  <2>8. Order'
    <3> DEFINE Above1(i) == \E j \in Nodes : j < i /\ i \in Above(loser_e'[j].src) /\ Key(loser_e'[j]) <= Key(loser_e'[i])
               Here1(i)  == i \in Above(b.src) /\ Key(b) <= Key(loser_e'[i])
    <3>1. ASSUME NEW i \in Nodes, ~(i \in Above(winner_q) /\ i <= c \div 2)
          PROVE  Above1(i) \/ Here1(i)
      <4>1. CASE i = c
        BY <2>1, <2>2, <2>3, <4>1
      <4>2. CASE i # c
        <5>1. ~(i \in Above(winner_q) /\ i <= c)
          BY <1>3, <1>4, <1>9, <3>1, <4>2, Sizes
        <5>2. Beaten(i)
          BY <1>1, <5>1 DEF Order, c
        <5>3. loser_e'[i] = loser_e[i]
          BY <2>3, <4>2
        <5>4. ASSUME NEW j \in Nodes, j < i, i \in Above(loser_e[j].src), Key(loser_e[j]) <= Key(loser_e[i])
              PROVE  Above1(i) \/ Here1(i)
          <6>1. CASE j = c
            BY <5>3, <5>4, <6>1 DEF b
          <6>2. CASE j # c
            BY <2>3, <5>3, <5>4, <6>2
          <6> QED  BY <6>1, <6>2
        <5>5. ASSUME i \in Above(cand.src), Key(cand) <= Key(loser_e[i])
              PROVE  Above1(i) \/ Here1(i)
          <6>1. CASE c < i
            <7>1. Above1(i)
              BY <1>4, <2>3, <5>3, <5>5, <6>1
            <7> QED  BY <7>1
          <6>2. CASE i < c
            <7>1. i \in Above(winner_q)
              BY <1>3, <5>5, <6>2, Ways
            <7> QED  BY <1>4, <5>1, <6>2, <7>1, Sizes
          <6> QED  BY <1>4, <4>2, <6>1, <6>2, Sizes
        <5> HIDE DEF Above1, Here1
        <5> QED  BY <5>2, <5>4, <5>5 DEF Beaten
      <4> QED  BY <4>1, <4>2
    <3>2. ASSUME NEW i \in Nodes, Above1(i) \/ Here1(i)  PROVE Beaten(i)'
      BY <2>3, <3>2 DEF Beaten
    <3> HIDE DEF Above1, Here1
    <3> QED  BY <1>2, <3>1, <3>2 DEF Order
  <2> QED  BY <1>10, <2>4, <2>5, <2>6, <2>7, <2>8 DEF IInv
<1> QED  BY <1>8, <1>11, <1>12

LEMMA SettleKeeps ==
  ASSUME IInv, Settle
  PROVE  IInv'
<1>1. Typed /\ Tree /\ Position /\ Order /\ Said /\ Conservative
  BY DEF IInv
<1>2. /\ pc = "climb" /\ index = 0 /\ pc' \in {"pop", "check"} /\ (pc' = "check" => cand.kind = "Stalled")
      /\ winner_q' = cand.src /\ safe_time' = cand.time /\ held' = [held EXCEPT ![cand.src] = FALSE]
      /\ queues' = queues /\ last' = last /\ loser_e' = loser_e /\ cand' = cand /\ index' = index
      /\ (out' = out \/ out' = cand)
  BY DEF Settle
<1>3. cand \in Events /\ cand.src \in Queues /\ cand.time \in Times
  BY <1>1 DEF Typed, Events
<1>4. ~held'[cand.src] /\ \A q \in Queues \ {cand.src} : held'[q] = held[q]
  BY <1>1, <1>2, <1>3 DEF Typed
<1>5. Typed'
  BY <1>1, <1>2, <1>3 DEF Typed
<1>6. Tree' /\ Position'
  BY <1>1, <1>2 DEF Tree, Position
<1>7. Order'
  <2>1. ASSUME NEW i \in Nodes  PROVE Beaten(i)
    BY <1>1, <1>2, Sizes DEF Order
  <2>2. \A i \in Nodes : Beaten(i)' <=> Beaten(i)
    BY <1>2 DEF Beaten
  <2> QED  BY <2>1, <2>2 DEF Order
<1>8. Said'
  <2>1. \A i \in Nodes : loser_e[i].src \in Queues \ {cand.src}
    BY <1>1, AboveDef
  <2> QED  BY <1>1, <1>2, <1>4, <2>1 DEF Said, Heard, Kept
<1>9. Conservative'
  <2>1. ASSUME NEW e \in Events, Heard(e, e.src)  PROVE e.time <= last[e.src]
    <3>1. e.src \in Queues /\ e.time \in Nat
      BY Keys DEF Events
    <3>2. queues[e.src] \in Seq(QueueEvents) /\ last[e.src] \in Nat
      BY <1>1, <3>1, Sizes DEF Typed
    <3>3. Saying(e, queues[e.src], last[e.src])
      BY <2>1 DEF Heard
    <3> QED  BY <3>1, <3>2, <3>3, LastBounds
  <2>2. cand.time <= last[cand.src]
    BY <1>1, <1>3, <2>1 DEF Said
  <2>3. ASSUME NEW q \in Queues \ {cand.src}  PROVE cand.time <= last[q]
    <3>1. PICK i \in Nodes : loser_e[i].src = q
      BY <1>1 DEF Tree
    <3>2. loser_e[i] \in Events /\ Heard(loser_e[i], q)
      BY <1>1, <3>1 DEF Typed, Said
    <3>3. loser_e[i].time <= last[q]
      BY <2>1, <3>1, <3>2
    <3>4. Key(cand) <= Key(loser_e[i])
      BY <1>1, <1>2, Least
    <3>5. cand.time \in Nat /\ loser_e[i].time \in Nat /\ last[q] \in Nat
      BY <1>1, <1>3, <3>2, Keys, Sizes DEF Typed
    <3>6. cand.time <= loser_e[i].time
      BY <1>3, <3>2, <3>4, Keys
    <3> QED  BY <3>3, <3>5, <3>6
  <2> QED  BY <1>2, <2>2, <2>3 DEF Conservative
<1> QED  BY <1>5, <1>6, <1>7, <1>8, <1>9 DEF IInv

LEMMA CheckKeeps ==
  ASSUME IInv, Check
  PROVE  IInv'
<1>1. Typed /\ Tree /\ Position /\ Order /\ Said /\ Conservative
  BY DEF IInv
<1>2. /\ pc = "check" /\ pc' = "pop" /\ (out' = out \/ out' = cand)
      /\ queues' = queues /\ last' = last /\ held' = held /\ loser_e' = loser_e
      /\ winner_q' = winner_q /\ safe_time' = safe_time /\ cand' = cand /\ index' = index
  BY DEF Check, treeVars
<1>3. Typed' /\ Tree' /\ Position'
  BY <1>1, <1>2 DEF Typed, Tree, Position
<1>4. Order' /\ Conservative'
  BY <1>1, <1>2 DEF Order, Beaten, Conservative
<1>5. Said'
  BY <1>1, <1>2 DEF Said, Heard, Kept
<1> QED  BY <1>3, <1>4, <1>5 DEF IInv

LEMMA NextKeeps ==
  ASSUME Shape, IInv, [Next]_vars
  PROVE  IInv'
<1>1. CASE UNCHANGED vars
  BY <1>1 DEF vars, treeVars, callVars, IInv, Typed, Tree, Position, Order, Beaten, Said, Heard, Kept, Conservative
<1>2. CASE PushStep
  BY <1>2, PushKeeps DEF PushStep
<1>3. CASE MergerStep
  BY <1>3, PopKeeps, ClimbKeeps, SettleKeeps, CheckKeeps DEF MergerStep
<1> QED  BY <1>1, <1>2, <1>3 DEF Next
-----------------------------------------------------------------------------
(* The invariant holds of every Merger whose tree has the right shape, with *)
(* any number of queues.                                                    *)
THEOREM Invariant == ASSUME Shape PROVE Spec => []IInv
<1>1. Init => IInv
  BY InitKeeps
<1>2. IInv /\ [Next]_vars => IInv'
  BY NextKeeps
<1> QED  BY <1>1, <1>2, PTL DEF Spec

(* Every queue of the Merger keeps its capacity and its types, and the walk *)
(* up the tree stays inside it.                                             *)
THEOREM TypeCorrect == ASSUME Shape PROVE Spec => []TypeOK
<1>1. IInv => TypeOK
  BY DEF IInv, Typed, TypeOK, QueueEvents
<1> QED  BY <1>1, Invariant, PTL

(* No queue is forgotten by the tree or held in it twice, and every event   *)
(* stays on the way of its own queue, however next() is interleaved with    *)
(* the neighbours' pushes.                                                  *)
THEOREM SoundTree == ASSUME Shape PROVE Spec => []TreeSound
<1>1. ASSUME IInv  PROVE TreeSound
  <2>1. Typed /\ Tree /\ Position
    BY <1>1 DEF IInv
  <2>2. Absent = cand.src
    BY <2>1 DEF Absent, Position
  <2>3. \A i \in Nodes : loser_e[i].src \in Queues \ {cand.src}
    BY <2>1, AboveDef
  <2>4. \A q \in Queues \ {cand.src} : \E i \in Nodes : loser_e[i].src = q
    BY <2>1 DEF Tree
  <2>5. {loser_e[i].src : i \in Nodes} = Queues \ {cand.src}
    BY <2>3, <2>4
  <2>6. \A i \in Nodes : i \in Above(loser_e[i].src)
    BY <2>1 DEF Tree
  <2> QED  BY <2>2, <2>5, <2>6 DEF TreeSound
<1>2. IInv => TreeSound
  BY <1>1
<1> QED  BY <1>2, Invariant, PTL

(* What wins the climb of next() is the least event of the whole tree,      *)
(* although it was compared with the losers of one path only.               *)
THEOREM LeastWins == ASSUME Shape PROVE Spec => []WinnerIsLeast
<1>1. IInv => WinnerIsLeast
  BY Least DEF IInv, WinnerIsLeast
<1> QED  BY <1>1, Invariant, PTL

(* The Merger's time never passes what a neighbour has promised.            *)
THEOREM NeverAhead == ASSUME Shape PROVE Spec => []Conservative
<1>1. IInv => Conservative
  BY DEF IInv
<1> QED  BY <1>1, Invariant, PTL
-----------------------------------------------------------------------------
(* The loser tree is an ordered merge. *)
Items == [time : Times, kind : Kinds \cup {"Stalled"}]

Entry(e) == [time |-> e.time, kind |-> e.kind]

(* The events of a queue that are still to be returned. *)
Left(e, h, s) == IF h THEN <<Entry(e)>> \o s ELSE s

LEMMA Prefixed ==
  ASSUME NEW S, NEW a \in S, NEW s \in Seq(S)
  PROVE  /\ <<a>> \o s # <<>> /\ Head(<<a>> \o s) = a /\ Tail(<<a>> \o s) = s
         /\ \A x \in S : <<a>> \o Append(s, x) = Append(<<a>> \o s, x)
<1>1. <<a>> \in Seq(S) /\ Len(<<a>>) = 1 /\ <<a>>[1] = a
  OBVIOUS
<1> DEFINE p == <<a>> \o s
<1>2. /\ p \in Seq(S) /\ Len(p) = 1 + Len(s) /\ Len(s) \in Nat
      /\ p[1] = a /\ \A i \in 1 .. Len(s) : p[i + 1] = s[i]
  <2>1. Len(s) \in Nat
    BY LenProperties
  <2>2. p \in Seq(S) /\ Len(p) = 1 + Len(s)
    BY <1>1, ConcatProperties
  <2>3. \A i \in 1 .. 1 + Len(s) : p[i] = IF i <= 1 THEN <<a>>[i] ELSE s[i - 1]
    BY <1>1, ConcatProperties
  <2> HIDE DEF p
  <2>4. \A i \in 1 .. Len(s) : i + 1 \in 1 .. 1 + Len(s) /\ ~(i + 1 <= 1) /\ (i + 1) - 1 = i
    BY <2>1
  <2>5. 1 \in 1 .. 1 + Len(s)
    BY <2>1
  <2> QED  BY <1>1, <2>1, <2>2, <2>3, <2>4, <2>5
<1> HIDE DEF p
<1>3. p # <<>>
  BY <1>2, EmptySeq
<1>4. Head(p) = a /\ Tail(p) \in Seq(S) /\ Len(Tail(p)) = Len(s) /\ \A i \in 1 .. Len(s) : Tail(p)[i] = s[i]
  <2>1. Tail(p) \in Seq(S) /\ Len(Tail(p)) = Len(p) - 1 /\ \A i \in 1 .. Len(Tail(p)) : Tail(p)[i] = p[i + 1]
    BY <1>2, <1>3, HeadTailProperties
  <2>2. Head(p) = p[1]
    BY <1>2, <1>3
  <2> QED  BY <1>2, <2>1, <2>2
<1>5. Tail(p) = s
  BY <1>4, SeqEqual
<1>6. ASSUME NEW x \in S  PROVE <<a>> \o Append(s, x) = Append(p, x)
  <2>1. <<x>> \in Seq(S)
    OBVIOUS
  <2>2. Append(s, x) = s \o <<x>> /\ Append(p, x) = p \o <<x>>
    BY <1>2, AppendIsConcat
  <2>3. (<<a>> \o s) \o <<x>> = <<a>> \o (s \o <<x>>)
    BY <1>1, <2>1, ConcatAssociative
  <2> QED  BY <2>2, <2>3 DEF p
<1> QED  BY <1>3, <1>4, <1>5, <1>6 DEF p

LEMMA LeftFacts ==
  ASSUME NEW e \in Events, NEW s \in Seq(Items), NEW h \in BOOLEAN
  PROVE  /\ \A x \in Items : Left(e, h, Append(s, x)) = Append(Left(e, h, s), x)
         /\ Left(e, TRUE, s) # <<>> /\ Head(Left(e, TRUE, s)) = Entry(e) /\ Tail(Left(e, TRUE, s)) = s
         /\ Left(e, FALSE, s) = s
         /\ Entry(e).time = e.time /\ Entry(e).kind = e.kind
<1>1. Entry(e) \in Items
  BY DEF Entry, Items, Events
<1>2. Left(e, TRUE, s) = <<Entry(e)>> \o s /\ Left(e, FALSE, s) = s
  BY DEF Left
<1>3. \A x \in Items : Left(e, h, Append(s, x)) = Append(Left(e, h, s), x)
  BY <1>1, Prefixed DEF Left
<1>4. Entry(e).time = e.time /\ Entry(e).kind = e.kind
  BY DEF Entry
<1>5. /\ <<Entry(e)>> \o s # <<>> /\ Head(<<Entry(e)>> \o s) = Entry(e)
      /\ Tail(<<Entry(e)>> \o s) = s
  BY <1>1, Prefixed
<1> QED  BY <1>2, <1>3, <1>4, <1>5

LEMMA LeftWhole ==
  ASSUME NEW s \in Seq(Items), s # <<>>, NEW e, e.time = Head(s).time, e.kind = Head(s).kind
  PROVE  Left(e, TRUE, Tail(s)) = s
<1>1. Len(s) \in Nat \ {0} /\ Head(s) \in Items
  BY EmptySeq, HeadTailProperties
<1>2. Entry(e) = Head(s)
  BY <1>1 DEF Entry, Items
<1>3. Head(s) = s[1]
  OBVIOUS
<1>4. 1 \in 1 .. Len(s) /\ Len(s) \in 1 .. Len(s)
  BY <1>1
<1>5. SubSeq(s, 1, Len(s)) = <<s[1]>> \o SubSeq(s, 1 + 1, Len(s))
  BY <1>4, SubSeqRecursiveFirst
<1>6. Tail(s) = SubSeq(s, 2, Len(s)) /\ SubSeq(s, 1, Len(s)) = s
  BY TailIsSubSeq, SubSeqFull
<1> QED  BY <1>2, <1>3, <1>5, <1>6 DEF Left

(* Pending, by the events of the tree. *)
Shown(e) == Pending[e.src] = Left(e, held[e.src], queues[e.src])

AllShown == Shown(cand) /\ \A i \in Nodes : Shown(loser_e[i])

LEMMA PendingIs ==
  ASSUME IInv
  PROVE  AllShown
<1>1. Typed /\ Tree /\ Said /\ cand.src \in Queues
  BY DEF IInv, Typed, Events
<1>2. \A q \in Queues : Pending[q] = IF held[q] THEN <<InTree(q)>> \o queues[q] ELSE queues[q]
  BY DEF Pending
<1>4. Pending[cand.src] = Left(cand, held[cand.src], queues[cand.src])
  <2>1. CASE pc = "climb"
    <3>1. InTree(cand.src) = Entry(cand)
      BY <2>1 DEF InTree, Entry
    <3> QED  BY <1>1, <1>2, <3>1 DEF Left
  <2>2. CASE pc # "climb"
    <3>1. held[cand.src] = FALSE
      BY <1>1, <2>2 DEF Said, Typed
    <3> QED  BY <1>1, <1>2, <3>1 DEF Left
  <2> QED  BY <2>1, <2>2
<1>5. ASSUME NEW i \in Nodes
      PROVE  Pending[loser_e[i].src] = Left(loser_e[i], held[loser_e[i].src], queues[loser_e[i].src])
  <2> DEFINE q == loser_e[i].src
  <2>1. q \in Queues /\ q # cand.src
    BY <1>1, AboveDef
  <2>2. \A j \in Nodes : loser_e[j].src = q <=> j = i
    BY <1>1 DEF Tree
  <2>3. i = CHOOSE j \in Nodes : loser_e[j].src = q
    BY <2>2
  <2> HIDE DEF q
  <2>4. InTree(q) = Entry(loser_e[i])
    BY <2>1, <2>3 DEF InTree, Entry
  <2>5. Pending[q] = Left(loser_e[i], held[q], queues[q])
    BY <1>2, <2>1, <2>4 DEF Left
  <2> QED  BY <2>5 DEF q
<1> QED  BY <1>4, <1>5 DEF AllShown, Shown

LEMMA PendingIsNext == IInv' => AllShown'
<1>1. IInv => AllShown
  BY PendingIs
<1> QED  BY <1>1, PTL

(* What is in the tree bounds what its queue can still contribute. *)
LEMMA Bounds ==
  ASSUME IInv, NEW e \in Events, Heard(e, e.src), Shown(e)
  PROVE  Merge!Bound(e.src) \in Nat /\ e.time <= Merge!Bound(e.src)
<1> DEFINE q == e.src
           s == queues[q]
<1>1. q \in Queues /\ s \in Seq(QueueEvents) /\ held[q] \in BOOLEAN /\ e.time \in Nat
  BY Keys DEF IInv, Typed, Events
<1>2. s \in Seq(Items)
  <2>1. QueueEvents \subseteq Items
    BY DEF QueueEvents, Items
  <2> QED  BY <1>1, <2>1, SeqMonotonic
<1>3. Saying(e, s, last[q])
  BY DEF Heard
<1> HIDE DEF s, q
<1>4. CASE held[q]
  <2>1. held[q] = TRUE /\ Pending[q] = Left(e, TRUE, s)
    BY <1>1, <1>4 DEF Shown, q, s
  <2>2. Left(e, TRUE, s) # <<>> /\ Head(Left(e, TRUE, s)) = Entry(e)
    BY <1>2, LeftFacts
  <2>3. Entry(e).time = e.time
    BY DEF Entry
  <2>4. Pending[q] # <<>> /\ Head(Pending[q]).time = e.time
    BY <2>1, <2>2, <2>3
  <2>5. Merge!Bound(q) = e.time
    BY <2>4 DEF Merge!Bound
  <2> QED  BY <1>1, <2>5 DEF q
<1>5. CASE ~held[q] /\ s # <<>>
  <2>1. Pending[q] = s
    BY <1>1, <1>2, <1>5, LeftFacts DEF Shown, q, s
  <2>2. Head(s) = s[1] /\ 1 \in 1 .. Len(s)
    <3>1. Len(s) \in Nat \ {0}
      BY <1>1, <1>5, EmptySeq
    <3> QED  BY <3>1
  <2>3. e.time <= Head(s).time
    BY <1>3, <2>2 DEF Saying
  <2>4. Head(s).time \in Nat
    <3>1. Head(s) \in QueueEvents
      BY <1>1, <1>5, HeadTailProperties
    <3> QED  BY <3>1, Sizes DEF QueueEvents
  <2> QED  BY <1>5, <2>1, <2>3, <2>4 DEF Merge!Bound, q
<1>6. CASE ~held[q] /\ s = <<>>
  <2>1. Pending[q] = <<>>
    BY <1>1, <1>2, <1>6, LeftFacts DEF Shown, q, s
  <2>2. e.time = last[q]
    BY <1>3, <1>6 DEF Saying
  <2> QED  BY <1>1, <2>1, <2>2 DEF Merge!Bound, q
<1> QED  BY <1>4, <1>5, <1>6

(* Nothing earlier than what has won can still come. *)
LEMMA Safe ==
  ASSUME IInv, index = 0 \/ pc # "climb"
  PROVE  Merge!SafeAt(cand.time)
<1>1. Typed /\ Tree /\ Order /\ Said
  BY DEF IInv
<1>2. cand \in Events /\ \A i \in Nodes : loser_e[i] \in Events
  BY <1>1 DEF Typed
<1>3. cand.time <= Merge!Bound(cand.src)
  BY <1>1, <1>2, PendingIs, Bounds DEF Said, AllShown
<1>4. ASSUME NEW i \in Nodes  PROVE cand.time <= Merge!Bound(loser_e[i].src)
  <2>1. loser_e[i].time <= Merge!Bound(loser_e[i].src) /\ Merge!Bound(loser_e[i].src) \in Nat
    BY <1>1, <1>2, PendingIs, Bounds DEF Said, AllShown
  <2>2. cand.time <= loser_e[i].time
    BY <1>1, <1>2, Least, Keys
  <2>3. cand.time \in Nat /\ loser_e[i].time \in Nat
    BY <1>2, Keys
  <2> QED  BY <2>1, <2>2, <2>3
<1>5. \A q \in Queues \ {cand.src} : \E i \in Nodes : loser_e[i].src = q
  BY <1>1 DEF Tree
<1>6. \A q \in Queues : cand.time <= Merge!Bound(q)
  BY <1>3, <1>4, <1>5
<1> QED  BY <1>6 DEF Merge!SafeAt

(* The queues, their events in the tree, and what they still have, before   *)
(* and after a step.                                                        *)
LEMMA Domains ==
  ASSUME IInv
  PROVE  /\ cand \in Events /\ cand.src \in Queues
         /\ \A i \in Nodes : loser_e[i] \in Events /\ loser_e[i].src \in Queues \ {cand.src}
         /\ \A q \in Queues : q = cand.src \/ \E i \in Nodes : loser_e[i].src = q
         /\ \A q \in Queues : queues[q] \in Seq(Items) /\ held[q] \in BOOLEAN
<1>1. Typed /\ Tree
  BY DEF IInv
<1>2. cand \in Events /\ cand.src \in Queues /\ \A i \in Nodes : loser_e[i] \in Events
  BY <1>1 DEF Typed, Events
<1>3. \A i \in Nodes : loser_e[i].src \in Queues \ {cand.src}
  BY <1>1, AboveDef
<1>4. \A q \in Queues : q = cand.src \/ \E i \in Nodes : loser_e[i].src = q
  BY <1>1 DEF Tree
<1>5. QueueEvents \subseteq Items
  BY DEF QueueEvents, Items
<1>6. \A q \in Queues : queues[q] \in Seq(QueueEvents) /\ held[q] \in BOOLEAN
  BY <1>1 DEF Typed
<1>7. \A q \in Queues : queues[q] \in Seq(Items)
  BY <1>5, <1>6, SeqMonotonic
<1> QED  BY <1>2, <1>3, <1>4, <1>6, <1>7

LEMMA SamePending ==
  ASSUME \A q \in Queues : Pending'[q] = Pending[q]
  PROVE  Pending' = Pending
<1>1. /\ Pending = [q \in Queues |-> Pending[q]]
      /\ Pending' = [q \in Queues |-> Pending'[q]]
  BY DEF Pending
<1> HIDE DEF Pending
<1> QED  BY <1>1

LEMMA OnePending ==
  ASSUME NEW q \in Queues, NEW s, Pending'[q] = s,
         \A p \in Queues \ {q} : Pending'[p] = Pending[p]
  PROVE  Pending' = [Pending EXCEPT ![q] = s]
<1>1. /\ Pending = [p \in Queues |-> Pending[p]]
      /\ Pending' = [p \in Queues |-> Pending'[p]]
  BY DEF Pending
<1> HIDE DEF Pending
<1> QED  BY <1>1

LEMMA PushMerges ==
  ASSUME IInv, IInv', NEW q \in Queues, NEW t \in Times, NEW k \in Kinds, Push(q, t, k)
  PROVE  Merge!Push(q, t, k)
<1> DEFINE x == [time |-> t, kind |-> k]
<1>1. /\ queues' = [queues EXCEPT ![q] = Append(queues[q], x)]
      /\ last' = [last EXCEPT ![q] = t] /\ t >= last[q]
      /\ held' = held /\ loser_e' = loser_e /\ cand' = cand /\ out' = out
  BY DEF Push, treeVars, callVars
<1>2. x \in Items
  BY DEF Items, Kinds
<1> HIDE DEF x
<1>3. AllShown /\ AllShown'
  BY PendingIs, PendingIsNext
<1>4. queues'[q] = Append(queues[q], x) /\ \A p \in Queues \ {q} : queues'[p] = queues[p]
  BY <1>1 DEF IInv, Typed
<1>5. ASSUME NEW e \in Events, e.src \in Queues,
             Pending[e.src] = Left(e, held[e.src], queues[e.src]),
             Pending'[e.src] = Left(e, held[e.src], queues'[e.src])
      PROVE  Pending'[e.src] = IF e.src = q THEN Append(Pending[e.src], x) ELSE Pending[e.src]
  <2>1. queues[e.src] \in Seq(Items) /\ held[e.src] \in BOOLEAN
    BY <1>5, Domains
  <2>2. Left(e, held[e.src], Append(queues[e.src], x)) = Append(Left(e, held[e.src], queues[e.src]), x)
    BY <1>2, <2>1, LeftFacts
  <2> QED  BY <1>4, <1>5, <2>2
<1>6. Pending'[cand.src] = IF cand.src = q THEN Append(Pending[cand.src], x) ELSE Pending[cand.src]
  BY <1>1, <1>3, <1>5, Domains DEF AllShown, Shown
<1>7. \A i \in Nodes : Pending'[loser_e[i].src] = IF loser_e[i].src = q THEN Append(Pending[loser_e[i].src], x)
                                               ELSE Pending[loser_e[i].src]
  BY <1>1, <1>3, <1>5, Domains DEF AllShown, Shown
<1>8. \A p \in Queues : Pending'[p] = IF p = q THEN Append(Pending[p], x) ELSE Pending[p]
  BY <1>6, <1>7, Domains
<1>9. Pending' = [Pending EXCEPT ![q] = Append(Pending[q], x)]
  BY <1>8, OnePending
<1> QED  BY <1>1, <1>9 DEF Merge!Push, x

LEMMA PopStutters ==
  ASSUME IInv, IInv', Pop
  PROVE  UNCHANGED Merge!vars
<1> DEFINE w == winner_q
           s == queues[w]
<1>1. pc = "pop" /\ last' = last /\ loser_e' = loser_e /\ out' = out
  BY DEF Pop, treeVars
<1>2. w = cand.src /\ w \in Queues /\ held[w] = FALSE
  BY <1>1 DEF IInv, Typed, Position, Said
<1>3. \/ s = <<>> /\ cand' = Event(safe_time, "Stalled", w) /\ queues' = queues /\ held' = held
      \/ /\ s # <<>> /\ cand' = Event(Head(s).time, Head(s).kind, w)
         /\ queues' = [queues EXCEPT ![w] = Tail(s)] /\ held' = [held EXCEPT ![w] = TRUE]
  BY DEF Pop
<1>4. s \in Seq(Items) /\ cand'.src = w
  BY <1>2, <1>3, Domains DEF Event
<1> HIDE DEF w, s
<1>5. \A p \in Queues \ {w} : queues'[p] = queues[p] /\ held'[p] = held[p]
  BY <1>2, <1>3 DEF IInv, Typed
<1>6. AllShown /\ AllShown'
  BY PendingIs, PendingIsNext
<1>7. Pending'[w] = Pending[w]
  <2>1. Pending[w] = s
    <3>1. Pending[w] = Left(cand, FALSE, s)
      BY <1>2, <1>6 DEF AllShown, Shown, s
    <3> QED  BY <1>4, <3>1, Domains, LeftFacts
  <2>2. Pending'[w] = Left(cand', held'[w], queues'[w])
    BY <1>4, <1>6 DEF AllShown, Shown
  <2>3. CASE s = <<>>
    <3>1. held'[w] = FALSE /\ queues'[w] = s
      BY <1>2, <1>3, <2>3 DEF s
    <3> QED  BY <2>1, <2>2, <3>1 DEF Left
  <2>4. CASE s # <<>>
    <3>1. held'[w] = TRUE /\ queues'[w] = Tail(s)
      BY <1>2, <1>3, <2>4 DEF IInv, Typed
    <3>2. cand'.time = Head(s).time /\ cand'.kind = Head(s).kind
      BY <1>3, <2>4 DEF Event
    <3> QED  BY <1>4, <2>1, <2>2, <2>4, <3>1, <3>2, LeftWhole
  <2> QED  BY <2>3, <2>4
<1>8. ASSUME NEW i \in Nodes  PROVE Pending'[loser_e[i].src] = Pending[loser_e[i].src]
  <2>1. loser_e[i].src \in Queues \ {w}
    BY <1>2, Domains
  <2>2. /\ Pending[loser_e[i].src] = Left(loser_e[i], held[loser_e[i].src], queues[loser_e[i].src])
        /\ Pending'[loser_e[i].src] = Left(loser_e[i], held'[loser_e[i].src], queues'[loser_e[i].src])
    BY <1>1, <1>6 DEF AllShown, Shown
  <2> QED  BY <1>5, <2>1, <2>2
<1>9. \A p \in Queues : Pending'[p] = Pending[p]
  BY <1>2, <1>7, <1>8, Domains
<1> QED  BY <1>1, <1>9, SamePending DEF Merge!vars

LEMMA ClimbStutters ==
  ASSUME IInv, IInv', Climb
  PROVE  UNCHANGED Merge!vars
<1>1. /\ pc = "climb" /\ index # 0 /\ queues' = queues /\ last' = last /\ held' = held /\ out' = out
  BY DEF Climb
<1>2. \/ loser_e' = loser_e /\ cand' = cand
      \/ loser_e' = [loser_e EXCEPT ![index] = cand] /\ cand' = loser_e[index]
  BY DEF Climb
<1>3. AllShown /\ AllShown'
  BY PendingIs, PendingIsNext
<1>4. index \in Nodes
  BY <1>1, Sizes DEF IInv, Typed, Nodes
<1>5. \A i \in Nodes : loser_e'[i] = loser_e[i] \/ (i = index /\ loser_e[i] = cand')
  BY <1>2, <1>4 DEF IInv, Typed
<1>6. cand' = cand \/ loser_e'[index] = cand
  BY <1>2, <1>4 DEF IInv, Typed
<1>7. Pending'[cand.src] = Pending[cand.src]
  BY <1>1, <1>3, <1>4, <1>6 DEF AllShown, Shown
<1>8. ASSUME NEW i \in Nodes  PROVE Pending'[loser_e[i].src] = Pending[loser_e[i].src]
  BY <1>1, <1>3, <1>5 DEF AllShown, Shown
<1>9. \A p \in Queues : Pending'[p] = Pending[p]
  BY <1>7, <1>8, Domains
<1> QED  BY <1>1, <1>9, SamePending DEF Merge!vars

LEMMA SettleTakes ==
  ASSUME IInv, IInv', Settle
  PROVE  Merge!Next \/ UNCHANGED Merge!vars
<1> DEFINE q == cand.src
           s == queues[q]
<1>1. /\ pc = "climb" /\ index = 0 /\ held' = [held EXCEPT ![q] = FALSE]
      /\ queues' = queues /\ last' = last /\ loser_e' = loser_e /\ cand' = cand
  BY DEF Settle
<1>2. q \in Queues /\ cand \in Events /\ s \in Seq(Items) /\ held[q] \in BOOLEAN
  BY Domains
<1>3. held'[q] = FALSE /\ \A p \in Queues \ {q} : held'[p] = held[p]
  BY <1>1, <1>2 DEF IInv, Typed
<1>4. AllShown /\ AllShown'
  BY PendingIs, PendingIsNext
<1>5. Pending[q] = Left(cand, held[q], s) /\ Pending'[q] = s
  <2>1. Pending'[q] = Left(cand, FALSE, s)
    BY <1>1, <1>3, <1>4 DEF AllShown, Shown
  <2> QED  BY <1>2, <1>4, <2>1, LeftFacts DEF AllShown, Shown
<1>6. (held[q] => cand.kind # "Stalled") /\ (cand.kind \in Payloads => held[q])
  BY <1>1 DEF IInv, Said, Kept
<1> HIDE DEF q, s
<1>7. ASSUME NEW p \in Queues \ {q}  PROVE Pending'[p] = Pending[p]
  <2>1. PICK i \in Nodes : loser_e[i].src = p
    BY Domains DEF q
  <2>2. Pending[p] = Left(loser_e[i], held[p], queues[p])
    BY <1>4, <2>1 DEF AllShown, Shown
  <2>3. Pending'[p] = Left(loser_e[i], held'[p], queues[p])
    BY <1>1, <1>4, <2>1 DEF AllShown, Shown
  <2> QED  BY <1>3, <2>2, <2>3
<1>8. CASE held[q]
  <2>1. held[q] = TRUE /\ Pending[q] = Left(cand, TRUE, s)
    BY <1>2, <1>5, <1>8
  <2>2. Left(cand, TRUE, s) # <<>> /\ Head(Left(cand, TRUE, s)) = Entry(cand) /\ Tail(Left(cand, TRUE, s)) = s
    BY <1>2, LeftFacts
  <2>3. Entry(cand).time = cand.time /\ Entry(cand).kind = cand.kind
    BY DEF Entry
  <2>4. Pending[q] # <<>> /\ Head(Pending[q]).time = cand.time /\ Head(Pending[q]).kind = cand.kind
    BY <2>1, <2>2, <2>3
  <2>5. Pending' = [Pending EXCEPT ![q] = Tail(Pending[q])]
    BY <1>2, <1>5, <1>7, <2>1, <2>2, OnePending
  <2>6. Merge!SafeAt(cand.time)
    BY <1>1, Safe
  <2>7. out' = IF cand.kind = "Null" THEN out ELSE [time |-> cand.time, kind |-> cand.kind, src |-> q]
    <3>1. CASE cand.kind = "Null"
      BY <3>1, MergerAssumption DEF Settle
    <3>2. CASE cand.kind # "Null"
      <4>1. out' = cand
        BY <1>6, <1>8, <3>2 DEF Settle
      <4>2. cand = [time |-> cand.time, kind |-> cand.kind, src |-> q]
        BY <1>2 DEF Events, q
      <4> QED  BY <3>2, <4>1, <4>2
    <3> QED  BY <3>1, <3>2
  <2>8. Merge!Take(q)
    BY <1>1, <2>4, <2>5, <2>6, <2>7 DEF Merge!Take
  <2> QED  BY <1>2, <2>8 DEF Merge!Next
<1>9. CASE ~held[q]
  <2>1. Pending[q] = s
    BY <1>2, <1>5, <1>9, LeftFacts
  <2>2. \A p \in Queues : Pending'[p] = Pending[p]
    BY <1>5, <1>7, <2>1
  <2>3. out' = out
    BY <1>6, <1>9 DEF Settle
  <2> QED  BY <1>1, <2>2, <2>3, SamePending DEF Merge!vars
<1> QED  BY <1>8, <1>9

LEMMA CheckStalls ==
  ASSUME IInv, IInv', Check
  PROVE  Merge!Next \/ UNCHANGED Merge!vars
<1> DEFINE q == cand.src
<1>1. /\ pc = "check" /\ out' = (IF queues[q] = <<>> THEN cand ELSE out)
      /\ queues' = queues /\ last' = last /\ held' = held /\ loser_e' = loser_e /\ cand' = cand
  BY DEF Check, treeVars
<1>2. q \in Queues /\ cand \in Events /\ queues[q] \in Seq(Items)
  BY Domains
<1>3. AllShown /\ AllShown'
  BY PendingIs, PendingIsNext
<1>4. cand.kind = "Stalled" /\ held[q] = FALSE /\ Heard(cand, q)
  BY <1>1, <1>2 DEF IInv, Position, Said, Typed
<1>5. Pending[q] = queues[q]
  <2>1. Pending[q] = Left(cand, FALSE, queues[q])
    BY <1>3, <1>4 DEF AllShown, Shown
  <2> QED  BY <1>2, <2>1, LeftFacts
<1>6. \A i \in Nodes : Pending'[loser_e[i].src] = Pending[loser_e[i].src]
  BY <1>1, <1>3 DEF AllShown, Shown
<1>7. Pending'[q] = Pending[q]
  BY <1>1, <1>3 DEF AllShown, Shown
<1> HIDE DEF q
<1>8. Pending' = Pending
  <2>1. \A p \in Queues : Pending'[p] = Pending[p]
    BY <1>6, <1>7, Domains DEF q
  <2> QED  BY <2>1, SamePending
<1>9. CASE queues[q] = <<>>
  <2>1. cand.time = last[q]
    BY <1>4, <1>9 DEF Heard, Saying
  <2>2. Merge!SafeAt(cand.time)
    BY <1>1, Safe
  <2>3. cand = [time |-> cand.time, kind |-> cand.kind, src |-> q]
    BY <1>2 DEF Events, q
  <2>4. Merge!Stall(q)
    BY <1>1, <1>4, <1>5, <1>8, <1>9, <2>1, <2>2, <2>3 DEF Merge!Stall
  <2> QED  BY <1>2, <2>4 DEF Merge!Next
<1>10. CASE queues[q] # <<>>
  BY <1>1, <1>8, <1>10 DEF Merge!vars
<1> QED  BY <1>9, <1>10

(* next(), with its placeholders, climbs and second looks, is an ordered    *)
(* merge of the neighbours' pushes: no event is lost, repeated, reordered   *)
(* within its queue, or returned while an earlier one may still come.       *)
THEOREM IsOrderedMerge == ASSUME Shape PROVE Spec => RefinesMerge
<1>1. Init => Merge!Init
  <2>1. ASSUME Init  PROVE Merge!Init
    <3>1. \A q \in Queues : Pending[q] = <<>>
      BY <2>1 DEF Init, Pending
    <3>2. Pending = [q \in Queues |-> <<>>]
      BY <3>1 DEF Pending
    <3> QED  BY <2>1, <3>2 DEF Init, Merge!Init, Event
  <2> QED  BY <2>1
<1>2. IInv /\ IInv' /\ [Next]_vars => [Merge!Next]_Merge!vars
  <2> SUFFICES ASSUME IInv, IInv', [Next]_vars  PROVE Merge!Next \/ UNCHANGED Merge!vars
    OBVIOUS
  <2>1. CASE UNCHANGED vars
    BY <2>1 DEF vars, treeVars, callVars, Merge!vars, Pending, InTree
  <2>2. CASE PushStep
    <3>1. PICK q \in Queues, t \in Times, k \in Kinds : Push(q, t, k)
      BY <2>2 DEF PushStep
    <3>2. Merge!Push(q, t, k)
      BY <3>1, PushMerges
    <3> QED  BY <3>2 DEF Merge!Next, Merge!Kinds, Kinds
  <2>3. CASE MergerStep
    BY <2>3, PopStutters, ClimbStutters, SettleTakes, CheckStalls DEF MergerStep
  <2> QED  BY <2>1, <2>2, <2>3 DEF Next
<1>3. Spec => []IInv
  BY Invariant
<1> QED  BY <1>1, <1>2, <1>3, PTL DEF Spec, RefinesMerge, Merge!Spec
=============================================================================
