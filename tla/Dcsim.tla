-------------------------------- MODULE Dcsim --------------------------------
(***************************************************************************)
(* World of rustasim-dcsim/src/lib.rs: the servers and routers of a network *)
(* with the flows of a workload, run until the time limit.                  *)
(***************************************************************************)
EXTENDS Router, Server

CONSTANTS
  Workload,   \* for every host, the flows [time, src, dst, size_byte] it starts
  Limit       \* time limit

(* Flows go to their sources, come by time, as a flow file is expected to   *)
(* list them (nothing in the code sorts them), are read up to the limit,    *)
(* and fit into a queue with the Close: add_flows and start unwrap their    *)
(* pushes.                                                                  *)
ASSUME DcsimAssumption ==
  /\ Limit \in Nat
  /\ Workload \in [Hosts -> Seq([time : 0 .. Limit, src : Hosts, dst : Hosts, size_byte : Nat])]
  /\ \A h \in Hosts :
       /\ Len(Workload[h]) < QSize
       /\ \A i \in DOMAIN Workload[h] : Workload[h][i].src = h
       /\ \A i, j \in DOMAIN Workload[h] : i < j => Workload[h][i].time <= Workload[h][j].time

vars == <<netVars, out_times, serverVars>>

(* World::new_from_network, add_flows and start: every link starts with a   *)
(* Null, a server with its first Timeout, the World with everything it will *)
(* ever say.                                                                *)
FlowsOf(a) ==
  IF a \in Routers THEN <<>>
  ELSE [i \in DOMAIN Workload[a] |->
          LET f == Workload[a][i] IN FlowAt(f.time, f.src, f.dst, f.size_byte)]

Init ==
  /\ queue = [ch \in Chans |->
                IF ch[1] = World THEN FlowsOf(ch[2]) \o <<Close(Limit)>>
                ELSE IF ch[1] = ch[2] THEN <<TimeoutAt(MinRto)>>
                ELSE <<Null(Latency)>>]
  /\ heard = [ch \in Chans |-> 0]
  /\ status = [a \in Actors |-> "running"]
  /\ count = [a \in Actors |-> 0]
  /\ RouterInit
  /\ ServerInit

Take(b, a) ==
  \/ TakeNull(b, a) /\ UNCHANGED <<count, out_times, serverVars>>
  \/ a \in Routers /\ RouterStep(b, a) /\ UNCHANGED serverVars
  \/ a \in Hosts /\ ServerStep(b, a) /\ UNCHANGED out_times

Stall(b, a) ==
  \/ a \in Routers /\ RouterStall(heard[<<b, a>>], b, a) /\ UNCHANGED serverVars
  \/ a \in Hosts /\ ServerStall(heard[<<b, a>>], b, a) /\ UNCHANGED out_times

(* Nobody is running any more. *)
Over == (\A a \in Actors : status[a] # "running") /\ UNCHANGED vars

Next == Over \/ \E ch \in Chans : Take(ch[1], ch[2]) \/ Stall(ch[1], ch[2])

Spec == Init /\ [][Next]_vars

-----------------------------------------------------------------------------
(* Properties *)

Running(a) == status[a] = "running"

(* Queues stay within their size, and times, states and counts are such.   *)
TypeOK ==
  /\ \A ch \in Chans : Len(queue[ch]) <= QSize /\ heard[ch] \in Nat
  /\ status \in [Actors -> {"running", "done", "broke", "panicked"}]
  /\ count \in [Actors -> Nat]
  /\ \A r \in Routers : out_times[r] \in [Neighbours(r) -> Nat]
  /\ tor_time \in [Hosts -> Nat]
  /\ \A h \in Hosts : \A x \in timeouts[h] : x[1] \in Nat

(* Null messages and packets keep their promises: whatever is in a queue or *)
(* will ever be pushed to it, nothing reaches an actor in its past.         *)
NothingInThePast ==
  \A ch \in Chans : Running(ch[2]) =>
    \A e \in ToSet(queue[ch]), b \in Inputs(ch[2]) : e.time >= heard[<<b, ch[2]>>]

(* What an actor has still to take from a queue is in order, as its Merger  *)
(* assumes, until the Close.                                                *)
LinksInOrder ==
  \A ch \in Chans : Running(ch[2]) => InOrder(queue[ch])

(* A running server has exactly one Timeout ahead of it, and it comes in    *)
(* time for every timer: "should always be == or >" (Server::advance).      *)
TimersInTime ==
  \A h \in Hosts : Running(h) =>
    /\ Len(queue[<<h, h>>]) = 1
    /\ \A x \in timeouts[h] : First(h, h).time <= x[1]

(* A router returns Done only at the Close; a full queue costs a packet:   *)
(* "drop packet if our outgoing queue is full" (Router::advance).           *)
DropsWhenFull == \A r \in Routers : status[r] # "broke"

(* Actor a, stalled at t, has a neighbour that does not know about t yet.   *)
Tells(t, a) == IF a \in Routers THEN Late(t, a) # {} ELSE tor_time[a] < t

(* Null messages resolve the deadlock of neighbours that wait for each      *)
(* other (engine.rs), so that World::start, which waits for every actor,    *)
(* returns: until all are done some actor has an event to take, or sees     *)
(* nothing in a queue and has a neighbour to tell of it, unless a queue was *)
(* full.  As simulated time cannot stand still, this is termination.        *)
NoDeadlock ==
  \/ \A a \in Actors : status[a] = "done"
  \/ \E a \in Actors : status[a] \in {"panicked", "broke"}
  \/ \E ch \in Chans : IsNext(ch[1], ch[2])
  \/ \E ch \in Chans :
       queue[ch] = <<>> /\ StallsAt(heard[ch], ch[1], ch[2]) /\ Tells(heard[ch], ch[2])

(* A packet that gets to a host is for that host, and an ack tells it of a  *)
(* flow of its own: host numbers, routes and the exchange of addresses in   *)
(* an ack fit together.                                                     *)
RightHost ==
  \A h \in Hosts : \A e \in ToSet(queue[<<Tor(h), h>>]) :
    e.kind = "Packet" =>
      /\ e.packet.dst = h
      /\ e.packet.is_ack => /\ e.packet.flow_id \in DOMAIN flows[h]
                            /\ flows[h][e.packet.flow_id].dst = e.packet.src

(* The run is a simulation: every actor handles its packets, timeouts and   *)
(* flows by time, none is lost between two actors, and whoever returns      *)
(* Done at the Close has handled all that comes before the limit.  Null     *)
(* messages, stalls and the closing itself do not show.                     *)
Sim == INSTANCE Simulation WITH
  Horizon <- Limit,
  pending <- [a \in Actors |-> Coming(a)],
  clock   <- [a \in Actors |-> Now(a)],
  state   <- [a \in Actors |-> Stage(a)]

RefinesSimulation == Sim!SimSpec
=============================================================================
