------------------------------- MODULE Router --------------------------------
(***************************************************************************)
(* Router::advance of rustasim-dcsim/src/router.rs, one action per event    *)
(* type and outcome.  out_times[r][n] is the time up to which the link from *)
(* r to n is busy, or known to n.                                           *)
(***************************************************************************)
EXTENDS Network

CONSTANT DropBytes   \* 1000 * 1500 in Router::advance

ASSUME RouterAssumption == DropBytes \in Nat

VARIABLE out_times

(* Mutant: any link will do. *)
RoutesFlood ==
  [r \in Routers |-> [dst \in 1 .. Len(Net) - 1 |-> Neighbours(r)]]

(* install_routes: entries are pushed for the ids 1, 2, ... except r's own, *)
(* so that those after it move one place down.                              *)
Routes ==
  [r \in Routers |->
     [dst \in 1 .. Len(Net) - 1 |->
        NextHops(Net, r, Distances(Net, IF dst < r THEN dst ELSE dst + 1))]]

RouterInit == out_times = [r \in Routers |-> [n \in Neighbours(r) |-> 0]]

(* The neighbours that do not know about time t yet. *)
Late(t, r) == {n \in Neighbours(r) : out_times[r][n] < t}

(* Stalled: they get a Null. *)
RouterStall(t, b, r) ==
  /\ StallsAt(t, b, r)
  /\ Late(t, r) # {}
  /\ out_times' = [out_times EXCEPT ![r] =
                     [n \in Neighbours(r) |-> IF n \in Late(t, r) THEN t ELSE @[n]]]
  /\ HandleStall(r, [n \in Late(t, r) |-> <<Null(t + Latency)>>], "running")
  /\ UNCHANGED count

RouterClose(b, r) ==
  /\ IsNext(b, r) /\ First(b, r).kind = "Close"
  /\ Handle(b, r, [n \in Neighbours(r) |-> <<Close(First(b, r).time + Latency)>>], "done")
  /\ UNCHANGED <<count, out_times>>

(* A packet to be sent on to neighbour n arrives. *)
Routed(b, r, n) ==
  /\ IsNext(b, r) /\ First(b, r).kind = "Packet"
  /\ n \in Routes[r][First(b, r).packet.dst]
  /\ Counted(r)

(* The link is busy for too long. *)
Drops(b, r, n) == First(b, r).time + 8 * DropBytes * Bandwidth < out_times[r][n]

RouterDrop(b, r, n) ==
  /\ Routed(b, r, n) /\ Drops(b, r, n)
  /\ Handle(b, r, Nothing, "running")
  /\ UNCHANGED out_times

RouterSend(b, r, n) ==
  LET txEnd == Max({First(b, r).time, out_times[r][n]}) + TxTime(SizeByte(First(b, r).packet))
  IN  /\ Routed(b, r, n) /\ ~Drops(b, r, n)
      /\ Len(queue[<<r, n>>]) < QSize
      /\ out_times' = [out_times EXCEPT ![r][n] = txEnd]
      /\ Handle(b, r, [m \in {n} |-> <<PacketAt(txEnd + Latency, First(b, r).packet)>>], "running")

(* The queue is full: the error is printed and the loop left, with Done. *)
RouterFull(b, r, n) ==
  /\ Routed(b, r, n) /\ ~Drops(b, r, n)
  /\ Len(queue[<<r, n>>]) >= QSize
  /\ Handle(b, r, Nothing, "broke")
  /\ UNCHANGED out_times

RouterStep(b, r) ==
  \/ RouterClose(b, r)
  \/ \E n \in Neighbours(r) : RouterDrop(b, r, n) \/ RouterSend(b, r, n) \/ RouterFull(b, r, n)
=============================================================================
