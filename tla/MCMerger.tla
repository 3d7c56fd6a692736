------------------------------ MODULE MCMerger ------------------------------
(* The Merger, and the shape a new one gets for every number of queues up   *)
(* to a little more than a power of two.                                    *)
EXTENDS Merger

Sizes == 2 .. 130

(* ltr_walk visits every inner node once, from left to right, although it   *)
(* only keeps the current node and a direction.                             *)
WalkInOrder == Init => \A n \in Sizes : LtrWalk(n) = InOrder(n)

Halvings(i) == {i \div 2 ^ k : k \in 0 .. 8} \ {0}

(* paths sends every queue to the parent of its own leaf, on both sides of  *)
(* the point where the last layer ends, so that paths and placeholders make *)
(* a tree next() can work with.                                             *)
PathsToParents ==
  Init => /\ \A n \in Sizes : Paths(n) = [ix \in 0 .. n - 1 |-> LeafNode(ix, n) \div 2]
          /\ \A n \in Sizes : ShapedBy(n, Halvings)
          /\ \A i \in Nodes : Up(i) = Halvings(i)
=============================================================================
