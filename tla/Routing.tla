------------------------------- MODULE Routing -------------------------------
(***************************************************************************)
(* route_all and route_id of rustasim-dcsim/src/routing.rs as the loop they *)
(* are: a queue of candidates <<node, first hop, cost>>, one action per     *)
(* turn.  Both keep for every node a cost and, route_all, all the first     *)
(* hops of that cost, route_id the last one found.                          *)
(***************************************************************************)
EXTENDS Topology

CONSTANT Networks   \* what the functions are called with

(* connect() links both ways, and every id is in the map before it links. *)
ASSUME NetworksAssumption ==
  \A net \in Networks : net \in Seq(Seq(Nat)) /\ TwoWay(net)

VARIABLES
  network, source,    \* the arguments
  all,                \* this is route_all, not route_id
  queue, route_cost

vars == <<network, source, all, queue, route_cost>>

(* HashMap::insert *)
Insert(map, key, value) ==
  [k \in DOMAIN map \cup {key} |-> IF k = key THEN value ELSE map[k]]

Candidates(net, id, hop, cost) == [i \in DOMAIN net[id] |-> <<net[id][i], hop, cost>>]

Init ==
  /\ network \in Networks
  /\ source \in DOMAIN network
  /\ all \in BOOLEAN
  /\ queue = [i \in DOMAIN network[source] |->
                <<network[source][i], network[source][i], 1>>]
  /\ route_cost = [id \in {source} |-> [hops |-> <<source>>, cost |-> 0]]

Seen(id) == id \in DOMAIN route_cost

(* Mutant: the candidate stays at the front of the queue. *)
SkipPeeks ==
  /\ queue # <<>>
  /\ LET id == Head(queue)[1] IN Seen(id) /\ route_cost[id].cost < Head(queue)[3]
  /\ UNCHANGED vars

(* The candidate is dearer than what is known. *)
Skip ==
  /\ queue # <<>>
  /\ LET id == Head(queue)[1] IN Seen(id) /\ route_cost[id].cost < Head(queue)[3]
  /\ queue' = Tail(queue)
  /\ UNCHANGED <<network, source, all, route_cost>>

(* Mutant: equal costs replace each other in route_all too. *)
HopsLast(id, hop, cost) == <<hop>>

(* The first hops of node id once hop is one at this cost. *)
Hops(id, hop, cost) ==
  IF all /\ Seen(id) /\ route_cost[id].cost = cost
  THEN IF hop \in ToSet(route_cost[id].hops)
       THEN route_cost[id].hops
       ELSE Append(route_cost[id].hops, hop)
  ELSE <<hop>>

(* Mutant: the newest candidate is taken first. *)
ExpandDepthFirst ==
  /\ queue # <<>>
  /\ LET id   == Head(queue)[1]
         hop  == Head(queue)[2]
         cost == Head(queue)[3]
     IN  /\ ~(Seen(id) /\ route_cost[id].cost < cost)
         /\ route_cost' = Insert(route_cost, id, [hops |-> Hops(id, hop, cost), cost |-> cost])
         /\ queue' = Candidates(network, id, hop, cost + 1) \o Tail(queue)
  /\ UNCHANGED <<network, source, all>>

(* It is not: it is entered and its neighbours become candidates.           *)
Expand ==
  /\ queue # <<>>
  /\ LET id   == Head(queue)[1]
         hop  == Head(queue)[2]
         cost == Head(queue)[3]
     IN  /\ ~(Seen(id) /\ route_cost[id].cost < cost)
         /\ route_cost' = Insert(route_cost, id, [hops |-> Hops(id, hop, cost), cost |-> cost])
         /\ queue' = Tail(queue) \o Candidates(network, id, hop, cost + 1)
  /\ UNCHANGED <<network, source, all>>

Returned == queue = <<>> /\ UNCHANGED vars

Next == Skip \/ Expand \/ Returned

Spec == Init /\ [][Next]_vars

FairSpec == Spec /\ WF_vars(Skip \/ Expand)

-----------------------------------------------------------------------------
(* Properties *)

(* Distances are the same in both directions in these networks. *)
AllDistances == [net \in Networks |-> [s \in DOMAIN net |-> Distances(net, s)]]

(* Costs are exact from the moment they are entered: breadth first search   *)
(* never has to correct one (the branch of route_all that replaces the      *)
(* routes of a node is never taken).                                        *)
CostsExact ==
  LET dist == AllDistances[network][source]
  IN  \A id \in DOMAIN route_cost : id \in DOMAIN dist /\ route_cost[id].cost = dist[id]

(* What the functions return: every reachable node has a route; route_all   *)
(* gives exactly the first hops of all shortest paths, once each, route_id  *)
(* one of them.                                                             *)
ShortestPaths ==
  queue = <<>> =>
    LET dist == AllDistances[network]
    IN  /\ DOMAIN route_cost = DOMAIN dist[source]
        /\ \A id \in DOMAIN route_cost \ {source} :
             LET hops == route_cost[id].hops
                 best == NextHops(network, source, dist[id])
             IN  /\ ToSet(hops) \subseteq best
                 /\ Len(hops) = IF all THEN Cardinality(best) ELSE 1
                 /\ all => ToSet(hops) = best

(* The search ends, although nodes reached by several shortest paths are    *)
(* expanded again for each of them.                                         *)
Ends == <>(queue = <<>>)
=============================================================================
