----------------------------- MODULE MergerTree -----------------------------
(***************************************************************************)
(* The shape of the loser tree of rustasim-engine/src/engine.rs, as pure    *)
(* functions of the number n of input queues: where a queue's event enters  *)
(* the tree (Merger::new, paths) and which queue each node's first          *)
(* placeholder stands for (ltr_walk).                                       *)
(*                                                                          *)
(* Nodes are 1 .. n-1, the parent of i is i \div 2.  Merger::new computes   *)
(* the logarithms in f32; they are exact for every n used here.             *)
(***************************************************************************)
EXTENDS Naturals, Sequences, SequencesExt, TLC

FloorLog2(n) == CHOOSE k \in 0 .. n : 2 ^ k <= n /\ n < 2 ^ (k + 1)
CeilLog2(n)  == CHOOSE k \in 0 .. n : n <= 2 ^ k /\ \A j \in 0 .. k - 1 : 2 ^ j < n

-----------------------------------------------------------------------------
(* ltr_walk *)

(* while visited[cur] { cur /= 2 } *)
FirstUnvisited(cur, visited) ==
  cur \div 2 ^ (CHOOSE k \in 0 .. cur + 1 :
                  /\ cur \div 2 ^ k \notin visited
                  /\ \A j \in 0 .. k - 1 : cur \div 2 ^ j \in visited)

(* while cur * 2 < n { cur *= 2 } *)
Leftmost(cur, n) ==
  cur * 2 ^ (CHOOSE k \in 0 .. n : cur * 2 ^ k < n /\ cur * 2 ^ (k + 1) >= n)

Visit(w, cur) ==
  [cur |-> cur, up |-> ~w.up, indices |-> Append(w.indices, cur),
   visited |-> w.visited \cup {cur}]

(* Mutant: goes to the right child instead of its leftmost descendant. *)
WalkStepRight(w, n) ==
  IF w.up
  THEN Visit(w, FirstUnvisited(w.cur, w.visited))
  ELSE IF 2 * w.cur + 1 >= n
       THEN [w EXCEPT !.up = TRUE]
       ELSE Visit(w, 2 * w.cur + 1)

(* One iteration of the for loop. *)
WalkStep(w, n) ==
  IF w.up
  THEN Visit(w, FirstUnvisited(w.cur, w.visited))
  ELSE IF 2 * w.cur + 1 >= n
       THEN [w EXCEPT !.up = TRUE]
       ELSE Visit(w, Leftmost(2 * w.cur + 1, n))

LtrWalk(n) ==
  LET first == 2 ^ (CeilLog2(n) - 1)
      walk[i \in 0 .. n - 1] ==
        IF i = 0
        THEN [cur |-> first, up |-> TRUE, indices |-> <<first>>, visited |-> {first}]
        ELSE WalkStep(walk[i - 1], n)
      end == walk[n - 1]
  IN  IF 0 \in end.visited THEN Front(end.indices) ELSE end.indices

(* Mutant: the enumeration starts with queue 0. *)
FirstSrcZero(n) ==
  LET walk == LtrWalk(n)
  IN  [node \in 1 .. n - 1 |-> (CHOOSE k \in DOMAIN walk : walk[k] = node) - 1]

(* loser_e[LtrWalk[k]].src = k.  A node the walk misses keeps its own       *)
(* number.                                                                  *)
FirstSrc(n) ==
  LET walk == LtrWalk(n)
  IN  [node \in 1 .. n - 1 |->
         IF \E k \in DOMAIN walk : walk[k] = node
         THEN CHOOSE k \in DOMAIN walk :
                walk[k] = node /\ \A j \in DOMAIN walk : walk[j] = node => j <= k
         ELSE node]

-----------------------------------------------------------------------------
(* Merger::new, paths: the first node of each queue's way up. *)

(* Mutant: the queues after the last layer are not shifted. *)
PathOfUnshifted(ix, n) ==
  LET layers  == CeilLog2(n)
      At(level) == 2 ^ level + ix \div 2 ^ (layers - level)
      level   == CHOOSE l \in 0 .. layers - 1 :
                   /\ At(l) < n
                   /\ \A k \in l + 1 .. layers - 1 : At(k) >= n
  IN  At(level)

(* Mutant: a node equal to the length counts as inside. *)
PathOfPast(ix, n) ==
  LET layers  == CeilLog2(n)
      At(level) == 2 ^ level + ix \div 2 ^ (layers - level)
      level   == CHOOSE l \in 0 .. layers - 1 :
                   /\ At(l) <= n
                   /\ \A k \in l + 1 .. layers - 1 : At(k) > n
  IN  At(level)

PathOf(ix, n) ==
  LET layers  == CeilLog2(n)
      full    == 2 ^ FloorLog2(n)
      lastMax == (((n + full - 1) % full) + 1) * 2
      vIx     == IF ix > lastMax THEN (ix - (lastMax + 1) \div 2) * 2 ELSE ix
      At(level) == 2 ^ level + vIx \div 2 ^ (layers - level)
      level   == CHOOSE l \in 0 .. layers - 1 :
                   /\ At(l) < n
                   /\ \A k \in l + 1 .. layers - 1 : At(k) >= n
  IN  At(level)

Paths(n) == [ix \in 0 .. n - 1 |-> PathOf(ix, n)]

-----------------------------------------------------------------------------
(* What both must be.  A tree with n - 1 internal nodes has its n leaves at *)
(* n .. 2n-1; from left to right these are first the ones of the last       *)
(* layer, which starts at the power of two not below n, then the others.    *)

LeafNode(ix, n) ==
  LET last == 2 ^ CeilLog2(n)
  IN  IF last + ix <= 2 * n - 1 THEN last + ix ELSE last + ix - n

(* The nodes from left to right: a node of depth d is the middle of one of  *)
(* 2^d equal intervals.                                                     *)
Middle(node, n) ==
  LET d == FloorLog2(node) IN (2 * (node - 2 ^ d) + 1) * 2 ^ (CeilLog2(n) - d)

InOrder(n) ==
  SortSeq([i \in 1 .. n - 1 |-> i], LAMBDA x, y : Middle(x, n) < Middle(y, n))

(* What next() relies on, way(i) being the nodes from i to the root: every  *)
(* queue's events enter at a node; every node starts with the placeholder   *)
(* of a queue that comes past it, one for each queue but queue 0; and one   *)
(* of the queues that come past a node starts above it, or is queue 0.      *)
ShapedBy(n, way(_)) ==
  LET first   == FirstSrc(n)
      path    == Paths(n)
      nodes   == 1 .. n - 1
      others  == 1 .. n - 1
      past(q) == way(path[q])
  IN  /\ \A q \in 0 .. n - 1 : path[q] \in nodes
      /\ \A i \in nodes : first[i] \in others /\ i \in past(first[i])
      /\ \A i, j \in nodes : first[i] = first[j] => i = j
      /\ \A q \in others : \E i \in nodes : first[i] = q
      /\ \A i \in nodes : i \in past(0) \/ \E j \in nodes : j < i /\ i \in past(first[j])
=============================================================================
