----------------------------- MODULE DcsimProofs -----------------------------
(***************************************************************************)
(* The network simulator keeps its promises, for every topology, workload,  *)
(* latency, bandwidth, queue size and time limit: no packet, timeout, flow  *)
(* or null message reaches an actor in its past, the run is one of          *)
(* Simulation, and never do all the actors wait for each other.  Every      *)
(* server starts the flows it is given, packets get to the hosts they are   *)
(* for, and the windows, timers and completions of the flows are exact.     *)
(***************************************************************************)
EXTENDS Dcsim, CommonLemmas

Alive == {a \in Actors : Running(a)}

(* What the sender of a channel has promised: nothing earlier will come.    *)
(* The World has said all it will ever say; a server keeps its next Timeout *)
(* in the queue to itself.                                                  *)
PromiseOf(q, tor, out) ==
  [ch \in Chans |->
     IF ch[1] = World THEN Limit
     ELSE IF ch[1] = ch[2] THEN IF q[ch] = <<>> THEN 0 ELSE q[ch][1].time
     ELSE IF ch[1] \in Hosts THEN tor[ch[1]] + Latency
     ELSE out[ch[1]][ch[2]] + Latency]

Promise == PromiseOf(queue, tor_time, out_times)

TimesTyped ==
  /\ count \in [Actors -> Nat]
  /\ out_times = [r \in Routers |-> out_times[r]]
  /\ \A r \in Routers : out_times[r] \in [Neighbours(r) -> Nat]
  /\ tor_time \in [Hosts -> Nat]
  /\ timeouts = [h \in Hosts |-> timeouts[h]]
  /\ \A h \in Hosts : \A x \in timeouts[h] : x[1] \in Nat

Statuses == {"running", "done", "broke", "panicked"}

LinksTyped(Ev) ==
  /\ Timed(Ev)
  /\ queue \in Queues(Chans, Ev)
  /\ \A ch \in Chans : Len(queue[ch]) <= QSize
  /\ heard \in Times(Chans, Nat)
  /\ status \in [Actors -> Statuses]

(* Whatever else the World has for an actor, the Close at the limit is      *)
(* behind it.                                                               *)
FromWorld(s) ==
  /\ s # <<>> /\ s[Len(s)].kind = "Close"
  /\ \A i \in 1 .. Len(s) : s[i].time <= Limit

(* Timeouts come from a server itself. *)
OwnTimeouts(q) ==
  \A ch \in Chans : ch[1] # ch[2] => \A i \in 1 .. Len(q[ch]) : q[ch][i].kind # "Timeout"

(* One Timeout is ahead of a server, not far off and not after its timers.  *)
Clock(h) ==
  LET s == queue[<<h, h>>]
  IN  /\ Len(s) = 1 /\ s[1].kind = "Timeout"
      /\ s[1].time <= heard[<<h, h>>] + MinRto
      /\ \A x \in timeouts[h] : s[1].time <= x[1]

(* The inductive invariant. *)
IInv ==
  /\ TimesTyped
  /\ \E Ev : LinksTyped(Ev)
  /\ OwnTimeouts(queue)
  /\ Closed(Chans, queue, Alive, Limit - 1)
  /\ InTime(Chans, queue, heard, Alive, Promise)
  /\ \A ch \in Chans : ch[2] \in Alive => heard[ch] <= Limit
  /\ \A a \in Alive : FromWorld(queue[<<World, a>>])
  /\ \A h \in Hosts : h \in Alive => Clock(h)

-----------------------------------------------------------------------------
LEMMA ConstantsTyped ==
  /\ QSize \in Nat \ {0} /\ Latency \in Nat \ {0} /\ Bandwidth \in Nat \ {0}
  /\ AckBytes \in Nat /\ BytesPerPacket \in Nat \ {0} /\ Cwnd \in Nat \ {0}
  /\ Limit \in Nat /\ MinRto \in Nat \ {0} /\ DropBytes \in Nat
  BY NetworkAssumption, TcpAssumption, DcsimAssumption, ServerAssumption, RouterAssumption

LEMMA NetTyped ==
  /\ World \notin Actors /\ Hosts \subseteq Actors /\ Routers \subseteq Actors
  /\ Hosts \cap Routers = {}
  /\ \A a \in Actors : Neighbours(a) \subseteq Actors /\ a \notin Neighbours(a)
  /\ \A h \in Hosts : Neighbours(h) = {Tor(h)} /\ Tor(h) \in Actors /\ Tor(h) # h
<1>1. /\ Net \in Seq(Seq(1 .. Len(Net))) /\ NHosts \in 1 .. Len(Net)
      /\ \A h \in 1 .. NHosts : Len(Net[h]) = 1
      /\ \A a \in DOMAIN Net : a \notin ToSet(Net[a])
  BY NetworkAssumption
<1>2. Len(Net) \in Nat /\ DOMAIN Net = 1 .. Len(Net)
  BY <1>1
<1>3. Actors = 1 .. Len(Net) /\ Hosts \subseteq Actors /\ Routers \subseteq Actors
  BY <1>1, <1>2 DEF Actors, Hosts, Routers
<1>4. World \notin Actors
  BY <1>3 DEF World
<1>5. Hosts \cap Routers = {}
  BY <1>1, <1>2 DEF Hosts, Routers
<1>6. \A a \in Actors : Net[a] \in Seq(Actors)
  BY <1>1, <1>2, <1>3
<1>7. \A a \in Actors : Neighbours(a) \subseteq Actors /\ a \notin Neighbours(a)
  BY <1>1, <1>2, <1>3, <1>6 DEF Neighbours, ToSet
<1>8. \A h \in Hosts : Neighbours(h) = {Tor(h)}
  <2> TAKE h \in Hosts
  <2>1. DOMAIN Net[h] = 1 .. 1
    BY <1>1, <1>3, <1>6 DEF Hosts
  <2>2. \A i \in 1 .. 1 : i = 1
    OBVIOUS
  <2> QED  BY <2>1, <2>2 DEF Neighbours, ToSet, Tor
<1> QED  BY <1>3, <1>4, <1>5, <1>7, <1>8

LEMMA ChanKinds ==
  ASSUME NEW ch \in Chans
  PROVE  /\ ch = <<ch[1], ch[2]>> /\ ch[2] \in Actors
         /\ \/ ch[1] = World
            \/ ch[1] \in Hosts /\ ch[2] = ch[1]
            \/ ch[1] \in Hosts /\ ch[2] = Tor(ch[1]) /\ ch[2] # ch[1]
            \/ ch[1] \in Routers /\ ch[2] \in Neighbours(ch[1]) /\ ch[2] # ch[1]
<1>1. CASE ch \in Actors \X Actors /\ ch[2] \in Neighbours(ch[1])
  <2>1. ch[1] \in Hosts \/ ch[1] \in Routers
    BY <1>1 DEF Actors
  <2> QED  BY <1>1, <2>1, NetTyped
<1>2. CASE \E h \in Hosts : ch = <<h, h>>
  BY <1>2, NetTyped
<1>3. CASE \E a \in Actors : ch = <<World, a>>
  BY <1>3
<1> QED  BY <1>1, <1>2, <1>3 DEF Chans

LEMMA ChanNames ==
  /\ \A a \in Actors : <<World, a>> \in Chans
  /\ \A h \in Hosts : <<h, h>> \in Chans /\ <<h, Tor(h)>> \in Chans
  /\ \A r \in Routers : \A n \in Neighbours(r) : <<r, n>> \in Chans
  BY NetTyped DEF Chans, Actors

LEMMA PromiseIs ==
  ASSUME NEW q, NEW tor, NEW out, NEW P, P = PromiseOf(q, tor, out)
  PROVE  /\ \A a \in Actors : P[<<World, a>>] = Limit
         /\ \A h \in Hosts : /\ P[<<h, Tor(h)>>] = tor[h] + Latency
                             /\ P[<<h, h>>] = IF q[<<h, h>>] = <<>> THEN 0 ELSE q[<<h, h>>][1].time
         /\ \A r \in Routers : \A n \in Neighbours(r) : P[<<r, n>>] = out[r][n] + Latency
<1>1. \A a \in Actors : P[<<World, a>>] = Limit
  BY ChanNames DEF PromiseOf
<1>2. \A h \in Hosts : /\ P[<<h, Tor(h)>>] = tor[h] + Latency
                       /\ P[<<h, h>>] = IF q[<<h, h>>] = <<>> THEN 0 ELSE q[<<h, h>>][1].time
  BY NetTyped, ChanNames DEF PromiseOf
<1>3. \A r \in Routers : \A n \in Neighbours(r) : P[<<r, n>>] = out[r][n] + Latency
  <2> TAKE r \in Routers
  <2> TAKE n \in Neighbours(r)
  <2>1. r # World /\ r # n /\ r \notin Hosts
    BY NetTyped
  <2> QED  BY <2>1, ChanNames DEF PromiseOf
<1> QED  BY <1>1, <1>2, <1>3

(* The promises before and after a step. *)
LEMMA Promises ==
  /\ \A h \in Hosts :
       /\ Promise[<<h, Tor(h)>>] = tor_time[h] + Latency
       /\ Promise'[<<h, Tor(h)>>] = tor_time'[h] + Latency
       /\ Promise[<<h, h>>] = IF queue[<<h, h>>] = <<>> THEN 0 ELSE queue[<<h, h>>][1].time
       /\ Promise'[<<h, h>>] = IF queue'[<<h, h>>] = <<>> THEN 0 ELSE queue'[<<h, h>>][1].time
  /\ \A r \in Routers : \A n \in Neighbours(r) :
       /\ Promise[<<r, n>>] = out_times[r][n] + Latency
       /\ Promise'[<<r, n>>] = out_times'[r][n] + Latency
<1>1. Promise = PromiseOf(queue, tor_time, out_times)
  BY DEF Promise
<1>2. Promise' = PromiseOf(queue', tor_time', out_times')
  BY DEF Promise, PromiseOf
<1> HIDE DEF Promise
<1> QED  BY <1>1, <1>2, PromiseIs

LEMMA PromiseTyped ==
  ASSUME NEW Ev, Timed(Ev), NEW q \in Queues(Chans, Ev), NEW tor \in [Hosts -> Nat],
         NEW out, \A r \in Routers : out[r] \in [Neighbours(r) -> Nat],
         NEW P, P = PromiseOf(q, tor, out)
  PROVE  /\ P \in Times(Chans, Int)
         /\ \A a \in Actors : P[<<World, a>>] = Limit
         /\ \A h \in Hosts : /\ P[<<h, Tor(h)>>] = tor[h] + Latency
                             /\ P[<<h, h>>] = IF q[<<h, h>>] = <<>> THEN 0 ELSE q[<<h, h>>][1].time
         /\ \A r \in Routers : \A n \in Neighbours(r) : P[<<r, n>>] = out[r][n] + Latency
<1>0. P = [ch \in Chans |-> P[ch]]
  BY DEF PromiseOf
<1>1. ASSUME NEW ch \in Chans  PROVE P[ch] \in Int
  <2>1. CASE ch[1] = World
    BY <2>1, ConstantsTyped DEF PromiseOf
  <2>2. CASE ch[1] \in Hosts /\ ch[2] = ch[1]
    <3>1. q[ch] # <<>> => q[ch][1].time \in Nat
      <4>1. q[ch] \in Seq(Ev)
        BY DEF Queues
      <4>2. q[ch] # <<>> => 1 \in 1 .. Len(q[ch])
        BY <4>1, EmptySeq
      <4> QED  BY <4>1, <4>2, ElementOfSeq DEF Timed
    <3> QED  BY <2>2, <3>1, NetTyped DEF PromiseOf
  <2>3. CASE ch[1] \in Hosts /\ ch[2] # ch[1]
    <3>1. tor[ch[1]] \in Nat
      BY <2>3
    <3> QED  BY <2>3, <3>1, NetTyped, ConstantsTyped DEF PromiseOf
  <2>4. CASE ch[1] \in Routers /\ ch[2] \in Neighbours(ch[1]) /\ ch[2] # ch[1]
    <3>1. out[ch[1]][ch[2]] \in Nat
      BY <2>4
    <3>2. ch[1] \notin Hosts /\ ch[1] # World
      BY <2>4, NetTyped
    <3> QED  BY <2>4, <3>1, <3>2, ConstantsTyped DEF PromiseOf
  <2> QED  BY <2>1, <2>2, <2>3, <2>4, ChanKinds
<1>3. P \in Times(Chans, Int)
  BY <1>0, <1>1 DEF Times
<1> QED  BY <1>3, PromiseIs

-----------------------------------------------------------------------------
(* Steps of an actor *)

(* The actors that run when a's handler ends with after. *)
StillAlive(a, after) == IF after = "running" THEN Alive ELSE Alive \ {a}

(* The queues q and the times heard h as a's handler finds them are in      *)
(* order.                                                                   *)
Ready(q, h, a, after, Ev) ==
  /\ q \in Queues(Chans, Ev) /\ \A ch \in Chans : Len(q[ch]) <= QSize
  /\ h \in Times(Chans, Nat)
  /\ OwnTimeouts(q)
  /\ Closed(Chans, q, Alive, Limit - 1)
  /\ InTime(Chans, q, h, StillAlive(a, after), Promise)
  /\ \A ch \in Chans : ch[2] \in StillAlive(a, after) => h[ch] <= Limit
  /\ \A x \in StillAlive(a, after) : FromWorld(q[<<World, x>>])
  /\ \A g \in Hosts : g # a => q[<<g, g>>] = queue[<<g, g>>] /\ h[<<g, g>>] = heard[<<g, g>>]

(* What a handler of a must keep to when it pushes out, and to what clock.  *)
KeepsLink(a, n, s, after) ==
  /\ <<a, n>> \in Chans
  /\ CloseLast(s)
  /\ Between(s, Promise[<<a, n>>], Promise'[<<a, n>>])
  /\ \A i \in 1 .. Len(s) :
       /\ s[i].kind = "Close" => after # "running" /\ s[i].time > Limit - 1
       /\ s[i].kind = "Timeout" => n = a

KeepsPromise(a, out, after) == \A n \in DOMAIN out : KeepsLink(a, n, out[n], after)

(* The channels from a to N, and out as what is pushed to each of them. *)
From(a, N)       == {ch \in Chans : ch[1] = a /\ ch[2] \in N}
Along(a, N, out) == [ch \in From(a, N) |-> out[ch[2]]]

(* What a handler does to the status, and to the promises. *)
Ends(a, after) ==
  \E end \in {after, "panicked"} : status' = [status EXCEPT ![a] = end]

Grows(a, after) ==
  /\ Promise \in Times(Chans, Int) /\ Promise' \in Times(Chans, Int)
  /\ \A ch \in Chans : (ch = <<a, a>> => after = "running") => Promise[ch] <= Promise'[ch]

LEMMA DeliverShape ==
  ASSUME status \in [Actors -> Statuses], NEW a \in Actors, status[a] = "running", NEW after \in Statuses,
         NEW Ev, NEW q \in Queues(Chans, Ev), \A ch \in Chans : Len(q[ch]) <= QSize,
         NEW N, NEW out \in Queues(N, Ev), Deliver(q, a, out, after),
         NEW D, D = From(a, N), NEW o, o = Along(a, N, out)
  PROVE  /\ D \in SUBSET Chans /\ o \in Queues(D, Ev)
         /\ \A ch \in D : ch = <<a, ch[2]>> /\ ch[2] \in N /\ o[ch] = out[ch[2]]
         /\ IsPush(Chans, q, D, o, QSize, queue')
         /\ queue' \in Queues(Chans, Ev)
         /\ \A ch \in Chans : Len(queue'[ch]) <= QSize
         /\ status' \in [Actors -> Statuses]
         /\ Alive' \subseteq StillAlive(a, after) /\ Alive' \subseteq Alive
         /\ Ends(a, after)
<1> USE ConstantsTyped
<1>1. \A ch \in Chans : ch = <<ch[1], ch[2]>>
  BY ChanKinds
<1>2. DOMAIN out = N /\ out \in [N -> Seq(Ev)] /\ q \in [Chans -> Seq(Ev)]
  BY DEF Queues
<1>3. D \in SUBSET Chans /\ o \in Queues(D, Ev)
  BY <1>2 DEF Queues, From, Along
<1>4. \A ch \in D : ch = <<a, ch[2]>> /\ ch[2] \in N /\ o[ch] = out[ch[2]]
  BY <1>1 DEF From, Along
<1>5. \A ch \in Chans : ch \in D <=> ch[1] = a /\ ch[2] \in N
  BY DEF From
<1>6. queue' = [ch \in Chans |->
                  IF ch[1] = a /\ ch[2] \in N
                  THEN q[ch] \o SubSeq(out[ch[2]], 1, Min({Len(out[ch[2]]), QSize - Len(q[<<a, ch[2]>>])}))
                  ELSE q[ch]]
  BY <1>2 DEF Deliver
<1>7. status' = [status EXCEPT ![a] =
                   IF \A n \in N : Len(out[n]) <= QSize - Len(q[<<a, n>>]) THEN after ELSE "panicked"]
  BY <1>2 DEF Deliver
<1>8. \A ch \in Chans : queue'[ch] = IF ch \in D THEN Pushed(q[ch], o[ch], QSize) ELSE q[ch]
  <2> TAKE ch \in Chans
  <2>1. CASE ch \in D
    <3>1. <<a, ch[2]>> = ch /\ o[ch] = out[ch[2]] /\ ch[1] = a /\ ch[2] \in N
      BY <1>4, <1>5, <2>1
    <3>2. queue'[ch] = q[ch] \o SubSeq(o[ch], 1, Min({Len(o[ch]), QSize - Len(q[ch])}))
      BY <1>6, <3>1
    <3> QED  BY <2>1, <3>2 DEF Pushed, Fits
  <2>2. CASE ch \notin D
    BY <1>5, <1>6, <2>2
  <2> QED  BY <2>1, <2>2
<1>9. IsPush(Chans, q, D, o, QSize, queue')
  BY <1>8 DEF IsPush
<1>10. ASSUME NEW ch \in Chans
       PROVE  queue'[ch] \in Seq(Ev) /\ Len(queue'[ch]) <= QSize
  <2>1. q[ch] \in Seq(Ev) /\ Len(q[ch]) <= QSize
    BY <1>2
  <2>2. CASE ch \in D
    <3>1. o[ch] \in Seq(Ev)
      BY <1>3, <2>2 DEF Queues
    <3>2. QSize \in Nat /\ queue'[ch] = Pushed(q[ch], o[ch], QSize)
      BY <1>8, <2>2
    <3> QED  BY ONLY <2>1, <3>1, <3>2, PushedSeq
  <2>3. CASE ch \notin D
    BY <1>8, <2>1, <2>3
  <2> QED  BY <2>2, <2>3
<1>11. queue' \in Queues(Chans, Ev)
  <2>1. queue' = [ch \in Chans |-> queue'[ch]]
    BY <1>6
  <2> QED  BY <1>10, <2>1 DEF Queues
<1>12. status' \in [Actors -> Statuses]
  BY <1>7 DEF Statuses
<1>13. Alive' \subseteq StillAlive(a, after) /\ Alive' \subseteq Alive
  BY <1>7 DEF Alive, Running, StillAlive
<1>14. Ends(a, after)
  BY <1>7 DEF Ends
<1> QED  BY <1>3, <1>4, <1>9, <1>10, <1>11, <1>12, <1>13, <1>14

LEMMA StepKeeps ==
  ASSUME IInv, NEW Ev, Timed(Ev),
         NEW a \in Actors, status[a] = "running", NEW after \in Statuses,
         NEW q, NEW h, Ready(q, h, a, after, Ev),
         NEW N, NEW out \in Queues(N, Ev), KeepsPromise(a, out, after),
         Deliver(q, a, out, after), heard' = h,
         TimesTyped',
         \A g \in Hosts : tor_time[g] <= tor_time'[g] /\ (g # a => timeouts'[g] = timeouts[g]),
         \A r \in Routers : \A n \in Neighbours(r) : out_times[r][n] <= out_times'[r][n],
         a \in Hosts /\ after = "running" =>
            /\ Clock(a)'
            /\ queue'[<<a, a>>] # <<>>
            /\ Promise[<<a, a>>] <= queue'[<<a, a>>][1].time
  PROVE  IInv' /\ LinksTyped(Ev)' /\ Ends(a, after) /\ Grows(a, after)
<1> USE ConstantsTyped
<1> DEFINE D == From(a, N)
           o == Along(a, N, out)
           R == StillAlive(a, after)
<1>1. /\ q \in Queues(Chans, Ev) /\ \A ch \in Chans : Len(q[ch]) <= QSize
      /\ h \in Times(Chans, Nat)
      /\ OwnTimeouts(q)
      /\ Closed(Chans, q, Alive, Limit - 1)
      /\ InTime(Chans, q, h, R, Promise)
      /\ \A ch \in Chans : ch[2] \in R => h[ch] <= Limit
      /\ \A x \in R : FromWorld(q[<<World, x>>])
      /\ \A g \in Hosts : g # a => q[<<g, g>>] = queue[<<g, g>>] /\ h[<<g, g>>] = heard[<<g, g>>]
  BY DEF Ready
<1>2. PICK E : LinksTyped(E)
  BY DEF IInv
<1>3. TimesTyped /\ status \in [Actors -> Statuses]
  BY <1>2 DEF IInv, LinksTyped
<1>4. /\ D \in SUBSET Chans /\ o \in Queues(D, Ev)
      /\ \A ch \in D : ch = <<a, ch[2]>> /\ ch[2] \in N /\ o[ch] = out[ch[2]]
      /\ IsPush(Chans, q, D, o, QSize, queue')
      /\ queue' \in Queues(Chans, Ev)
      /\ \A ch \in Chans : Len(queue'[ch]) <= QSize
      /\ status' \in [Actors -> Statuses]
      /\ Alive' \subseteq R /\ Alive' \subseteq Alive
      /\ Ends(a, after)
  BY <1>1, <1>3, DeliverShape
<1>5. \A ch \in Chans : ch[1] # a => queue'[ch] = q[ch]
  BY <1>4 DEF IsPush
<1> HIDE DEF D, o, R
<1>6. DOMAIN out = N
  BY DEF Queues
<1>7. LinksTyped(Ev)'
  BY <1>1, <1>4 DEF LinksTyped
<1>8. /\ Promise \in Times(Chans, Int)
      /\ \A x \in Actors : Promise[<<World, x>>] = Limit
      /\ \A g \in Hosts : /\ Promise[<<g, Tor(g)>>] = tor_time[g] + Latency
                          /\ Promise[<<g, g>>] = IF queue[<<g, g>>] = <<>> THEN 0 ELSE queue[<<g, g>>][1].time
      /\ \A r \in Routers : \A n \in Neighbours(r) : Promise[<<r, n>>] = out_times[r][n] + Latency
  <2>1. Timed(E) /\ queue \in Queues(Chans, E)
    BY <1>2 DEF LinksTyped
  <2>2. tor_time \in [Hosts -> Nat] /\ \A r \in Routers : out_times[r] \in [Neighbours(r) -> Nat]
    BY <1>3 DEF TimesTyped
  <2>3. Promise = PromiseOf(queue, tor_time, out_times)
    BY DEF Promise
  <2> QED  BY ONLY <2>1, <2>2, <2>3, PromiseTyped
<1>9. /\ Promise' \in Times(Chans, Int)
      /\ \A x \in Actors : Promise'[<<World, x>>] = Limit
      /\ \A g \in Hosts : /\ Promise'[<<g, Tor(g)>>] = tor_time'[g] + Latency
                          /\ Promise'[<<g, g>>] = IF queue'[<<g, g>>] = <<>> THEN 0 ELSE queue'[<<g, g>>][1].time
      /\ \A r \in Routers : \A n \in Neighbours(r) : Promise'[<<r, n>>] = out_times'[r][n] + Latency
  <2>2. tor_time' \in [Hosts -> Nat] /\ \A r \in Routers : out_times'[r] \in [Neighbours(r) -> Nat]
    BY DEF TimesTyped
  <2>3. Promise' = PromiseOf(queue', tor_time', out_times')
    BY DEF Promise, PromiseOf
  <2>4. queue' \in Queues(Chans, Ev) /\ Timed(Ev)
    BY <1>4
  <2> QED  BY ONLY <2>2, <2>3, <2>4, PromiseTyped
<1>g. \A ch \in Chans : (ch = <<a, a>> => after = "running") => Promise[ch] <= Promise'[ch]
  <2> SUFFICES ASSUME NEW ch \in Chans, ch = <<a, a>> => after = "running"
               PROVE  Promise[ch] <= Promise'[ch]
    OBVIOUS
  <2>1. CASE ch[1] = World
    BY <1>8, <1>9, <2>1, ChanKinds
  <2>2. CASE ch[1] \in Hosts /\ ch[2] = ch[1]
    <3>1. PICK g \in Hosts : ch = <<g, g>>
      BY <2>2, ChanKinds
    <3>2. CASE g = a
      BY <1>9, <3>1, <3>2
    <3>3. CASE g # a
      <4>1. queue'[<<g, g>>] = queue[<<g, g>>]
        BY <1>1, <1>5, <3>1, <3>3
      <4>2. Promise'[<<g, g>>] = Promise[<<g, g>>] /\ Promise[<<g, g>>] \in Int
        BY <1>8, <1>9, <3>1, <4>1 DEF Times
      <4> QED  BY <3>1, <4>2
    <3> QED  BY <3>2, <3>3
  <2>3. CASE ch[1] \in Hosts /\ ch[2] = Tor(ch[1])
    <3>1. PICK g \in Hosts : ch = <<g, Tor(g)>>
      BY <2>3, ChanKinds
    <3>2. tor_time[g] \in Nat /\ tor_time'[g] \in Nat /\ tor_time[g] <= tor_time'[g]
      BY <1>3 DEF TimesTyped
    <3>3. Latency \in Int
      OBVIOUS
    <3>4. Promise[ch] = tor_time[g] + Latency /\ Promise'[ch] = tor_time'[g] + Latency
      BY ONLY <1>8, <1>9, <3>1
    <3> QED  BY ONLY <3>2, <3>3, <3>4
  <2>4. CASE ch[1] \in Routers /\ ch[2] \in Neighbours(ch[1])
    <3>1. PICK r \in Routers : \E n \in Neighbours(r) : ch = <<r, n>>
      BY <2>4, ChanKinds
    <3>2. PICK n \in Neighbours(r) : ch = <<r, n>>
      BY <3>1
    <3>3. out_times[r][n] \in Nat /\ out_times'[r][n] \in Nat /\ out_times[r][n] <= out_times'[r][n]
      BY <1>3 DEF TimesTyped
    <3>4. Latency \in Int
      OBVIOUS
    <3>5. Promise[ch] = out_times[r][n] + Latency /\ Promise'[ch] = out_times'[r][n] + Latency
      BY ONLY <1>8, <1>9, <3>2
    <3> QED  BY ONLY <3>3, <3>4, <3>5
  <2> QED  BY <2>1, <2>2, <2>3, <2>4, ChanKinds
<1>10. Later(Chans, R, Promise, Promise')
  BY <1>g DEF Later, R, StillAlive
<1>11. a \in Alive
  BY DEF Alive, Running
<1>12. Timely(D, R, q, o, Promise, Promise')
  <2> SUFFICES ASSUME NEW ch \in D, ch[2] \in R
               PROVE  /\ CloseLast(o[ch])
                      /\ Between(o[ch], Promise[ch], Promise'[ch])
                      /\ \A i \in 1 .. Len(q[ch]) : q[ch][i].kind # "Close"
    BY DEF Timely
  <2>1. ch = <<a, ch[2]>> /\ ch[2] \in N /\ o[ch] = out[ch[2]] /\ ch \in Chans /\ ch[1] = a
    BY <1>4
  <2>2. CloseLast(out[ch[2]]) /\ Between(out[ch[2]], Promise[<<a, ch[2]>>], Promise'[<<a, ch[2]>>])
    BY <1>6, <2>1 DEF KeepsPromise, KeepsLink, R
  <2>3. \A i \in 1 .. Len(q[ch]) : q[ch][i].kind # "Close"
    BY <1>1, <1>11, <2>1 DEF Closed
  <2> QED  BY <2>1, <2>2, <2>3
<1>13. InTime(Chans, queue', h, R, Promise')
  <2>1. QSize \in Nat
    OBVIOUS
  <2> QED  BY ONLY Timed(Ev), <1>1, <1>4, <1>8, <1>9, <1>10, <1>12, <2>1, PushInTime
<1>14. InTime(Chans, queue', h, Alive', Promise')
  BY <1>4, <1>13 DEF InTime
<1>15. Closed(Chans, queue', Alive', Limit - 1)
  <2>1. Closed(D, o, Alive', Limit - 1)
    <3> SUFFICES ASSUME NEW ch \in D, NEW i \in 1 .. Len(o[ch]), o[ch][i].kind = "Close"
                 PROVE  ch[1] \notin Alive' /\ o[ch][i].time > Limit - 1
      BY DEF Closed
    <3>1. ch[1] = a /\ ch[2] \in N /\ o[ch] = out[ch[2]]
      BY <1>4
    <3>2. after # "running" /\ o[ch][i].time > Limit - 1
      BY <1>6, <3>1 DEF KeepsPromise, KeepsLink
    <3>3. a \notin R
      BY <3>2 DEF R, StillAlive
    <3> QED  BY <1>4, <3>1, <3>2, <3>3
  <2>2. Alive' \in SUBSET Alive /\ QSize \in Nat /\ Limit - 1 \in Int
    BY <1>4
  <2> QED  BY ONLY <1>1, <1>4, <2>1, <2>2, PushClosed
<1>16. \A ch \in Chans : ch[2] \in Alive' => heard'[ch] <= Limit
  BY <1>1, <1>4
<1>17. \A x \in Alive' : FromWorld(queue'[<<World, x>>])
  <2> SUFFICES ASSUME NEW x \in Alive'  PROVE FromWorld(queue'[<<World, x>>])
    OBVIOUS
  <2>1. x \in R /\ x \in Actors
    BY <1>4 DEF Alive
  <2>2. <<World, x>> \in Chans /\ <<World, x>>[1] # a
    BY <2>1, ChanNames, NetTyped
  <2> QED  BY <1>1, <1>5, <2>1, <2>2
<1>18. \A g \in Hosts : g \in Alive' => Clock(g)'
  <2> SUFFICES ASSUME NEW g \in Hosts, g \in Alive'  PROVE Clock(g)'
    OBVIOUS
  <2>1. CASE g = a
    <3>1. after = "running"
      BY <1>4, <2>1 DEF R, StillAlive
    <3> QED  BY <2>1, <3>1
  <2>2. CASE g # a
    <3>1. <<g, g>> \in Chans /\ g \in Alive
      BY <1>4, ChanNames
    <3>2. queue'[<<g, g>>] = queue[<<g, g>>] /\ heard'[<<g, g>>] = heard[<<g, g>>] /\ timeouts'[g] = timeouts[g]
      BY <1>1, <1>5, <2>2, <3>1
    <3>3. Clock(g)
      BY <3>1 DEF IInv
    <3> QED  BY <3>2, <3>3 DEF Clock
  <2> QED  BY <2>1, <2>2
<1>19. OwnTimeouts(queue')
  <2> SUFFICES ASSUME NEW ch \in Chans, ch[1] # ch[2]
               PROVE  \A i \in 1 .. Len(queue'[ch]) : queue'[ch][i].kind # "Timeout"
    BY DEF OwnTimeouts
  <2>1. q[ch] \in Seq(Ev) /\ Len(q[ch]) <= QSize /\ \A i \in 1 .. Len(q[ch]) : q[ch][i].kind # "Timeout"
    BY <1>1 DEF Queues, OwnTimeouts
  <2>2. CASE ch \notin D
    BY <1>4, <2>1, <2>2 DEF IsPush
  <2>3. CASE ch \in D
    <3>1. ch = <<a, ch[2]>> /\ ch[2] \in N /\ o[ch] = out[ch[2]]
      BY <1>4, <2>3
    <3>2. o[ch] \in Seq(Ev) /\ queue'[ch] = Pushed(q[ch], o[ch], QSize) /\ QSize \in Nat
      BY <1>4, <2>3 DEF IsPush, Queues
    <3>3. \A i \in 1 .. Len(o[ch]) : o[ch][i].kind # "Timeout"
      BY <1>6, <2>3, <3>1 DEF KeepsPromise, KeepsLink
    <3> DEFINE Good == {e \in Ev : e.kind # "Timeout"}
    <3>4. /\ \A i \in 1 .. Len(q[ch]) : q[ch][i] \in Good
          /\ \A i \in 1 .. Len(o[ch]) : o[ch][i] \in Good
      BY <2>1, <3>2, <3>3, ElementOfSeq
    <3>5. \A e \in Good : e.kind # "Timeout"
      OBVIOUS
    <3> HIDE DEF Good
    <3>6. \A i \in 1 .. Len(queue'[ch]) : queue'[ch][i] \in Good
      BY ONLY <2>1, <3>2, <3>4, PushedWithin
    <3> QED  BY <3>5, <3>6
  <2> QED  BY <2>2, <2>3
<1> HIDE DEF Promise
<1>20. Grows(a, after)
  BY <1>8, <1>9, <1>g DEF Grows
<1> QED  BY <1>4, <1>7, <1>19, <1>14, <1>15, <1>16, <1>17, <1>18, <1>20 DEF IInv

(* What may be in queues grows. *)
LEMMA Wider ==
  ASSUME NEW N, NEW E, NEW F, E \subseteq F, NEW q \in Queues(N, E)
  PROVE  q \in Queues(N, F)
<1>1. Seq(E) \subseteq Seq(F)
  OBVIOUS
<1> QED  BY <1>1 DEF Queues

LEMMA StallReady ==
  ASSUME IInv, NEW a \in Actors, NEW Ev, LinksTyped(Ev), NEW F, Ev \subseteq F
  PROVE  \A after \in Statuses : Ready(queue, heard, a, after, F)
<1> TAKE after \in Statuses
<1>1. StillAlive(a, after) \subseteq Alive
  BY DEF StillAlive
<1>2. InTime(Chans, queue, heard, StillAlive(a, after), Promise)
  BY <1>1 DEF IInv, InTime
<1>3. queue \in Queues(Chans, F)
  BY Wider DEF LinksTyped
<1>4. /\ \A ch \in Chans : ch[2] \in StillAlive(a, after) => heard[ch] <= Limit
      /\ \A x \in StillAlive(a, after) : FromWorld(queue[<<World, x>>])
      /\ OwnTimeouts(queue) /\ Closed(Chans, queue, Alive, Limit - 1)
  BY <1>1 DEF IInv
<1> QED  BY <1>2, <1>3, <1>4 DEF Ready, LinksTyped

(* next() returns the first event from b: it is the earliest. *)
LEMMA NextEarliest ==
  ASSUME IInv, NEW a, NEW b, <<b, a>> \in Chans, IsNext(b, a), NEW Ev, LinksTyped(Ev),
         NEW c, c = <<b, a>>
  PROVE  /\ c \in Chans /\ c[1] = b /\ c[2] = a /\ a \in Actors /\ a \in Alive
         /\ queue \in [Chans -> Seq(Ev)] /\ heard \in [Chans -> Nat] /\ Timed(Ev)
         /\ \A ch \in Chans : Len(queue[ch]) <= QSize
         /\ Promise \in [Chans -> Int]
         /\ queue[c] \in Seq(Ev) /\ queue[c] # <<>> /\ First(b, a) = Head(queue[c])
         /\ First(b, a) \in Ev /\ First(b, a).time \in Nat
         /\ Earliest(Chans, queue, heard, c)
<1>1. c \in Chans /\ c[1] = b /\ c[2] = a /\ a \in Actors
  BY ChanKinds
<1>2. /\ queue \in [Chans -> Seq(Ev)] /\ heard \in [Chans -> Nat] /\ Timed(Ev)
      /\ \A ch \in Chans : Len(queue[ch]) <= QSize
      /\ Promise \in [Chans -> Int]
  <2>1. /\ queue \in Queues(Chans, Ev) /\ heard \in Times(Chans, Nat) /\ Timed(Ev)
        /\ \A ch \in Chans : Len(queue[ch]) <= QSize
    BY DEF LinksTyped
  <2>2. tor_time \in [Hosts -> Nat] /\ \A r \in Routers : out_times[r] \in [Neighbours(r) -> Nat]
    BY DEF IInv, TimesTyped
  <2>3. Promise = PromiseOf(queue, tor_time, out_times)
    BY DEF Promise
  <2>4. Promise \in Times(Chans, Int)
    BY ONLY <2>1, <2>2, <2>3, PromiseTyped
  <2> QED  BY <2>1, <2>4 DEF Queues, Times
<1>3. /\ queue[c] \in Seq(Ev) /\ queue[c] # <<>> /\ First(b, a) = Head(queue[c])
      /\ a \in Alive
  BY <1>1, <1>2 DEF IsNext, Shows, First, Alive, Running
<1>4. Earliest(Chans, queue, heard, c)
  <2> SUFFICES ASSUME NEW d \in Chans, d[2] = a
               PROVE  First(b, a).time <= IF queue[d] # <<>> THEN Head(queue[d]).time ELSE heard[d]
    BY <1>1, <1>3 DEF Earliest
  <2>1. d[1] \in Inputs(a) /\ d = <<d[1], a>>
    BY ChanKinds DEF Inputs
  <2>2. First(b, a).time <= Bound(d[1], a)
    BY <2>1 DEF IsNext
  <2> QED  BY <2>1, <2>2 DEF Bound, Shows, First
<1>5. First(b, a) \in Ev
  BY <1>3, HeadTailProperties
<1>6. First(b, a).time \in Nat
  BY <1>2, <1>5 DEF Timed
<1> QED  BY <1>1, <1>2, <1>3, <1>4, <1>5, <1>6

(* A handler takes the first event from b. *)
LEMMA TakeReady ==
  ASSUME IInv, NEW a, NEW b, <<b, a>> \in Chans, IsNext(b, a), NEW after,
         after = "running" => First(b, a).kind # "Close",
         NEW Ev, LinksTyped(Ev), NEW F, Ev \subseteq F
  PROVE  /\ a \in Actors /\ a \in Alive
         /\ queue[<<b, a>>] # <<>> /\ First(b, a) = queue[<<b, a>>][1]
         /\ First(b, a) \in Ev /\ First(b, a).time \in Nat
         /\ First(b, a).kind = "Close" => First(b, a).time > Limit - 1
         /\ First(b, a).kind # "Close" =>
              \A d \in Chans : d[2] = a => heard[d] <= First(b, a).time
         /\ Ready([queue EXCEPT ![<<b, a>>] = Tail(@)],
                  [heard EXCEPT ![<<b, a>>] = First(b, a).time], a, after, F)
<1> USE ConstantsTyped
<1> DEFINE c == <<b, a>>
           q == [queue EXCEPT ![c] = Tail(@)]
           h == [heard EXCEPT ![c] = First(b, a).time]
           R == StillAlive(a, after)
<1>0. R \subseteq Alive /\ (a \in R => First(b, a).kind # "Close")
  BY DEF StillAlive
<1> HIDE DEF R
<1>1. c \in Chans /\ c[1] = b /\ c[2] = a /\ a \in Actors
  BY NextEarliest
<1>2. /\ queue \in [Chans -> Seq(Ev)] /\ heard \in [Chans -> Nat] /\ Timed(Ev)
      /\ \A ch \in Chans : Len(queue[ch]) <= QSize
      /\ Promise \in [Chans -> Int]
  BY NextEarliest
<1>3. /\ queue[c] \in Seq(Ev) /\ queue[c] # <<>> /\ First(b, a) = Head(queue[c])
      /\ a \in Alive
  BY NextEarliest
<1>4. Earliest(Chans, queue, heard, c)
  BY NextEarliest
<1>5. /\ Tail(queue[c]) \in Seq(Ev) /\ First(b, a) \in Ev
      /\ First(b, a) = queue[c][1]
      /\ Len(queue[c]) \in Nat \ {0} /\ Len(Tail(queue[c])) = Len(queue[c]) - 1
      /\ \A i \in 1 .. Len(queue[c]) - 1 : Tail(queue[c])[i] = queue[c][i + 1]
  BY <1>3, HeadTailProperties, EmptySeq
<1>6. First(b, a).time \in Nat
  BY <1>2, <1>5 DEF Timed
<1>7. /\ q \in [Chans -> Seq(Ev)] /\ h \in [Chans -> Nat]
      /\ q[c] = Tail(queue[c]) /\ h[c] = First(b, a).time
      /\ \A ch \in Chans : ch # c => q[ch] = queue[ch] /\ h[ch] = heard[ch]
  BY <1>1, <1>2, <1>5, <1>6
<1>8. InTime(Chans, q, h, R, Promise)
  <2>1. c[2] \in R => Head(queue[c]).kind # "Close"
    BY <1>0, <1>1, <1>3
  <2>2. h = [heard EXCEPT ![c] = Head(queue[c]).time]
    BY <1>3
  <2>3. InTime(Chans, queue, heard, R, Promise)
    BY <1>0 DEF IInv, InTime
  <2>4. q = [queue EXCEPT ![c] = Tail(@)]
    OBVIOUS
  <2> QED  BY ONLY <1>1, <1>2, <1>3, <1>4, <2>1, <2>2, <2>3, <2>4, TakeInTime
<1>9. /\ Closed(Chans, q, Alive, Limit - 1)
      /\ First(b, a).kind = "Close" => First(b, a).time > Limit - 1
  <2>1. Closed(Chans, queue, Alive, Limit - 1) /\ Limit - 1 \in Int
    BY DEF IInv
  <2>2. q = [queue EXCEPT ![c] = Tail(@)]
    OBVIOUS
  <2> QED  BY ONLY <1>1, <1>2, <1>3, <2>1, <2>2, TakeClosed
<1> HIDE DEF q, h, c
<1>10. \A ch \in Chans : Len(q[ch]) <= QSize
  <2>1. Len(q[c]) <= QSize
    BY <1>1, <1>2, <1>5, <1>7
  <2> QED  BY <1>2, <1>7, <2>1
<1>11. ASSUME First(b, a).kind # "Close", NEW d \in Chans, d[2] = a
       PROVE  heard[d] <= First(b, a).time
  <2>1. Between(queue[c], heard[d], Promise[c])
    BY <1>1, <1>3, <1>11 DEF IInv, InTime
  <2>2. 1 \in 1 .. Len(queue[c])
    BY <1>5
  <2> QED  BY <1>5, <1>11, <2>1, <2>2 DEF Between
<1>12. OwnTimeouts(q)
  <2> SUFFICES ASSUME NEW ch \in Chans, ch[1] # ch[2], NEW i \in 1 .. Len(q[ch])
               PROVE  q[ch][i].kind # "Timeout"
    BY DEF OwnTimeouts
  <2>1. \A j \in 1 .. Len(queue[ch]) : queue[ch][j].kind # "Timeout"
    BY DEF IInv, OwnTimeouts
  <2>2. CASE ch = c
    <3>0. Len(queue[c]) \in Nat \ {0} /\ i \in 1 .. Len(queue[c]) - 1 /\ q[ch][i] = Tail(queue[c])[i]
      BY <1>5, <1>7, <2>2
    <3>1. i + 1 \in 1 .. Len(queue[c]) /\ q[ch][i] = queue[c][i + 1]
      BY ONLY <1>5, <3>0
    <3> QED  BY <2>1, <2>2, <3>1
  <2>3. CASE ch # c
    BY <1>7, <2>1, <2>3
  <2> QED  BY <2>2, <2>3
<1>13. <<World, a>> \in Chans /\ <<World, a>>[2] = a /\ FromWorld(queue[<<World, a>>])
  BY <1>1, <1>3, ChanNames DEF IInv
<1>14. First(b, a).time <= Limit
  <2>1. queue[<<World, a>>] \in Seq(Ev) /\ queue[<<World, a>>] # <<>>
    BY <1>2, <1>13 DEF FromWorld
  <2>2. 1 \in 1 .. Len(queue[<<World, a>>]) /\ Head(queue[<<World, a>>]) = queue[<<World, a>>][1]
    BY <2>1, EmptySeq, HeadTailProperties
  <2>3. Head(queue[<<World, a>>]).time <= Limit /\ Head(queue[<<World, a>>]).time \in Nat
    BY <1>2, <1>13, <2>1, <2>2, ElementOfSeq DEF FromWorld, Timed
  <2>4. First(b, a).time <= Head(queue[<<World, a>>]).time
    BY <1>1, <1>3, <1>4, <1>13, <2>1 DEF Earliest
  <2> QED  BY <1>6, <2>3, <2>4
<1>15. \A ch \in Chans : ch[2] \in R => h[ch] <= Limit
  BY <1>0, <1>7, <1>14 DEF IInv
<1>16. \A x \in R : FromWorld(q[<<World, x>>])
  <2> SUFFICES ASSUME NEW x \in R  PROVE FromWorld(q[<<World, x>>])
    OBVIOUS
  <2>1. <<World, x>> \in Chans /\ FromWorld(queue[<<World, x>>])
    BY <1>0, ChanNames DEF IInv, Alive
  <2>2. CASE <<World, x>> # c
    BY <1>7, <2>1, <2>2
  <2>3. CASE <<World, x>> = c
    <3>1. x = a
      BY <1>1, <2>3
    <3>2. First(b, a).kind # "Close"
      BY <1>0, <3>1
    <3>3. /\ queue[c][Len(queue[c])].kind = "Close"
          /\ \A i \in 1 .. Len(queue[c]) : queue[c][i].time <= Limit
      BY <2>1, <2>3 DEF FromWorld
    <3>4. Len(queue[c]) # 1
      BY <1>5, <3>2, <3>3
    <3>5. /\ Len(q[c]) = Len(queue[c]) - 1 /\ Len(q[c]) \in Nat \ {0}
          /\ \A i \in 1 .. Len(q[c]) : q[c][i] = queue[c][i + 1] /\ i + 1 \in 1 .. Len(queue[c])
      BY <1>5, <1>7, <3>4
    <3>6. Len(q[c]) = Len(queue[c]) - 1 /\ Len(q[c]) \in Nat \ {0} /\ Len(queue[c]) \in Nat
      BY <1>5, <3>5
    <3>7. Len(q[c]) \in 1 .. Len(q[c]) /\ Len(q[c]) + 1 = Len(queue[c])
      <4> DEFINE m == Len(q[c])
                 n == Len(queue[c])
      <4>1. m = n - 1 /\ m \in Nat \ {0} /\ n \in Nat
        BY <3>6
      <4> HIDE DEF m, n
      <4>2. m \in 1 .. m /\ m + 1 = n
        BY ONLY <4>1
      <4> QED  BY <4>2 DEF m, n
    <3>8. q[c] \in Seq(Ev)
      BY <1>1, <1>7
    <3>9. q[c] # <<>>
      BY ONLY <3>6, <3>8, EmptySeq
    <3> QED  BY <2>3, <3>3, <3>5, <3>7, <3>9 DEF FromWorld
  <2> QED  BY <2>2, <2>3
<1>17. \A g \in Hosts : g # a => q[<<g, g>>] = queue[<<g, g>>] /\ h[<<g, g>>] = heard[<<g, g>>]
  <2> SUFFICES ASSUME NEW g \in Hosts, g # a
               PROVE  q[<<g, g>>] = queue[<<g, g>>] /\ h[<<g, g>>] = heard[<<g, g>>]
    OBVIOUS
  <2>1. <<g, g>> \in Chans /\ <<g, g>>[2] = g
    BY ChanNames
  <2> QED  BY <1>1, <1>7, <2>1
<1>18. q \in Queues(Chans, F) /\ h \in Times(Chans, Nat)
  BY <1>7, Wider DEF Queues, Times
<1>19. Ready(q, h, a, after, F)
  BY <1>8, <1>9, <1>10, <1>12, <1>15, <1>16, <1>17, <1>18 DEF Ready, R
<1> QED  BY <1>1, <1>3, <1>5, <1>6, <1>9, <1>11, <1>19 DEF q, h, c

-----------------------------------------------------------------------------
(* What the neighbours have been told: a promise a running actor has made   *)
(* is the time of the last event it pushed, and who is done has pushed a    *)
(* Close.                                                                   *)

Finished == {a \in Actors : status[a] = "done"}

(* q, h: the queues and the times heard; W: who makes promises P; D: who is *)
(* done; R: who reads.                                                      *)
Tolds(q, h, W, D, R, P) ==
  \A ch \in Chans : ch[1] # ch[2] /\ ch[2] \in R =>
    /\ ch[1] \in W => P[ch] <= LastTime(q[ch], h[ch])
    /\ ch[1] \in D => EndsInClose(q[ch])

Told == Tolds(queue, heard, Alive, Finished, Alive, Promise)

(* A handler of a that pushes s to n, and ends with after, promises no more *)
(* than it says, or else as much as before; the last it says is a Close.    *)
SpeaksTo(a, n, s, after) ==
  /\ after = "running" =>
       IF s = <<>> THEN Promise'[<<a, n>>] = Promise[<<a, n>>]
       ELSE Promise'[<<a, n>>] <= s[Len(s)].time
  /\ after = "done" => EndsInClose(s)

Speaks(a, out, after) ==
  \A n \in Actors : n # a /\ <<a, n>> \in Chans =>
    SpeaksTo(a, n, IF n \in DOMAIN out THEN out[n] ELSE <<>>, after)

(* The promises of the others stand. *)
Stands(a) == \A ch \in Chans : ch[1] # a /\ ch[1] # ch[2] => Promise'[ch] = Promise[ch]

(* The first event from b is taken, by who leaves if it is a Close. *)
LEMMA TakeTold ==
  ASSUME Told, NEW Ev, NEW c \in Chans, queue \in [Chans -> Seq(Ev)], heard \in [Chans -> Nat],
         queue[c] # <<>>, NEW R, R \subseteq Alive, c[2] \in R => Head(queue[c]).kind # "Close"
  PROVE  Tolds([queue EXCEPT ![c] = Tail(@)], [heard EXCEPT ![c] = Head(queue[c]).time],
               Alive, Finished, R, Promise)
<1> DEFINE q == [queue EXCEPT ![c] = Tail(@)]
           h == [heard EXCEPT ![c] = Head(queue[c]).time]
<1>1. /\ q[c] = Tail(queue[c]) /\ h[c] = Head(queue[c]).time
      /\ \A ch \in Chans : ch # c => q[ch] = queue[ch] /\ h[ch] = heard[ch]
  OBVIOUS
<1>2. /\ LastTime(q[c], h[c]) = LastTime(queue[c], heard[c])
      /\ EndsInClose(queue[c]) /\ Head(queue[c]).kind # "Close" => EndsInClose(q[c])
  <2>1. queue[c] \in Seq(Ev) /\ queue[c] # <<>>
    OBVIOUS
  <2> HIDE DEF q, h
  <2> QED  BY ONLY <1>1, <2>1, LastOfTail
<1> HIDE DEF q, h
<1>3. ASSUME NEW ch \in Chans, ch[1] # ch[2], ch[2] \in R
      PROVE  /\ ch[1] \in Alive => Promise[ch] <= LastTime(q[ch], h[ch])
             /\ ch[1] \in Finished => EndsInClose(q[ch])
  <2>1. /\ ch[1] \in Alive => Promise[ch] <= LastTime(queue[ch], heard[ch])
        /\ ch[1] \in Finished => EndsInClose(queue[ch])
    BY <1>3 DEF Told, Tolds
  <2>2. CASE ch = c
    BY <1>2, <1>3, <2>1, <2>2
  <2>3. CASE ch # c
    BY <1>1, <2>1, <2>3
  <2> QED  BY <2>2, <2>3
<1> QED  BY <1>3 DEF Tolds, q, h

(* Of a push that does not panic nothing is lost. *)
LEMMA DeliverAll ==
  ASSUME status \in [Actors -> Statuses], NEW a \in Actors, NEW after, status'[a] # "panicked",
         NEW Ev, NEW q, NEW N, NEW out \in Queues(N, Ev), Deliver(q, a, out, after)
  PROVE  status'[a] = after /\ \A n \in N : Len(out[n]) <= QSize - Len(q[<<a, n>>])
<1>1. DOMAIN out = N
  BY DEF Queues
<1>2. status' = [status EXCEPT ![a] =
                   IF \A n \in N : Len(out[n]) <= QSize - Len(q[<<a, n>>]) THEN after ELSE "panicked"]
  BY <1>1 DEF Deliver
<1> QED  BY <1>2

(* The handler of a pushes what it promises, all of it or it panics.        *)
LEMMA StepTells ==
  ASSUME status \in [Actors -> Statuses], NEW a \in Actors, status[a] = "running", NEW after \in Statuses,
         NEW Ev, NEW q \in Queues(Chans, Ev), \A ch \in Chans : Len(q[ch]) <= QSize,
         NEW h, Tolds(q, h, Alive, Finished, StillAlive(a, after), Promise),
         NEW N, NEW out \in Queues(N, Ev), Deliver(q, a, out, after), heard' = h,
         Speaks(a, out, after), Stands(a)
  PROVE  Told'
<1> DEFINE R  == StillAlive(a, after)
           q2 == queue'
           P  == Promise
           P2 == Promise'
<1> DEFINE D  == From(a, N)
           o  == Along(a, N, out)
<1>0. D = From(a, N) /\ o = Along(a, N, out)
  OBVIOUS
<1> HIDE DEF D, o
<1>1. /\ IsPush(Chans, q, D, o, QSize, q2)
      /\ \A ch \in D : ch = <<a, ch[2]>> /\ ch[2] \in N /\ o[ch] = out[ch[2]]
      /\ Alive' \subseteq R /\ Alive' \subseteq Alive /\ Ends(a, after)
  BY <1>0, DeliverShape
<1>2. \A ch \in Chans : q2[ch] = IF ch \in D THEN Pushed(q[ch], out[ch[2]], QSize) ELSE q[ch]
  BY <1>1 DEF IsPush
<1>3. \A ch \in Chans : (ch \in D <=> ch[1] = a /\ ch[2] \in N) /\ ch = <<ch[1], ch[2]>> /\ ch[2] \in Actors
  BY <1>0, ChanKinds DEF From
<1>4. DOMAIN out = N /\ QSize \in Nat
  BY ConstantsTyped DEF Queues
<1>5. PICK end \in {after, "panicked"} : status' = [status EXCEPT ![a] = end]
  BY <1>1 DEF Ends
<1>6. \A x \in Finished' : x # a => x \in Finished
  BY <1>5 DEF Finished
<1> HIDE DEF q2, P, P2
<1>7. ASSUME NEW ch \in Chans, ch[1] # ch[2], ch[2] \in Alive', ch[1] # a
      PROVE  /\ ch[1] \in Alive' => P2[ch] <= LastTime(q2[ch], h[ch])
             /\ ch[1] \in Finished' => EndsInClose(q2[ch])
  <2>1. q2[ch] = q[ch] /\ P2[ch] = P[ch]
    BY <1>2, <1>3, <1>7 DEF Stands, P, P2
  <2>2. /\ ch[1] \in Alive => P[ch] <= LastTime(q[ch], h[ch])
        /\ ch[1] \in Finished => EndsInClose(q[ch])
    BY <1>1, <1>7 DEF Tolds, P
  <2> QED  BY <1>1, <1>6, <1>7, <2>1, <2>2
<1>8. ASSUME NEW ch \in Chans, ch[1] # ch[2], ch[2] \in Alive', ch[1] = a, a \in Alive' \/ a \in Finished'
      PROVE  /\ a \in Alive' => P2[ch] <= LastTime(q2[ch], h[ch])
             /\ a \in Finished' => EndsInClose(q2[ch])
  <2> DEFINE n == ch[2]
             s == IF n \in N THEN out[n] ELSE <<>>
  <2>1. ch = <<a, n>> /\ n \in Actors /\ n # a
    BY <1>3, <1>8
  <2>2. status'[a] # "panicked"
    BY <1>8 DEF Alive, Running, Finished
  <2>3. status'[a] = after /\ \A m \in N : Len(out[m]) <= QSize - Len(q[<<a, m>>])
    BY <2>2, DeliverAll
  <2>4. (a \in Alive' <=> after = "running") /\ (a \in Finished' <=> after = "done")
    BY <2>3 DEF Alive, Running, Finished
  <2>5. SpeaksTo(a, n, s, after)
    BY <1>4, <2>1 DEF Speaks
  <2>6. /\ after = "running" => IF s = <<>> THEN P2[ch] = P[ch] ELSE P2[ch] <= s[Len(s)].time
        /\ after = "done" => EndsInClose(s)
    BY <2>1, <2>5 DEF SpeaksTo, P, P2
  <2>7. /\ s = <<>> => q2[ch] = q[ch]
        /\ s # <<>> => LastTime(q2[ch], h[ch]) = s[Len(s)].time
        /\ EndsInClose(s) => EndsInClose(q2[ch])
    <3>1. CASE n \in N
      <4>1. q2[ch] = Pushed(q[ch], s, QSize) /\ Len(s) <= QSize - Len(q[ch])
        BY <1>2, <1>3, <2>1, <2>3, <3>1
      <4>2. q[ch] \in Seq(Ev) /\ s \in Seq(Ev) /\ Len(q[ch]) <= QSize
        BY <3>1 DEF Queues
      <4> DEFINE x == q[ch]
                 p == q2[ch]
                 t == h[ch]
      <4>3. x \in Seq(Ev) /\ s \in Seq(Ev) /\ QSize \in Nat /\ Len(s) <= QSize - Len(x) /\ p = Pushed(x, s, QSize)
        BY <1>4, <4>1, <4>2
      <4> HIDE DEF s, x, p, t
      <4>4. /\ s # <<>> => LastTime(p, t) = s[Len(s)].time
            /\ s = <<>> => p = x
            /\ EndsInClose(s) => EndsInClose(p)
        BY ONLY <4>3, LastPushed
      <4> QED  BY <4>4 DEF x, p, t
    <3>2. CASE n \notin N
      <4>1. q2[ch] = q[ch] /\ s = <<>>
        BY <1>2, <1>3, <3>2
      <4> QED  BY <4>1 DEF EndsInClose
    <3> QED  BY <3>1, <3>2
  <2>8. a \in Alive' => a \in R /\ P[ch] <= LastTime(q[ch], h[ch])
    <3>1. a \in Alive /\ n \in R
      BY <1>1, <1>8 DEF Alive, Running
    <3> QED  BY <1>1, <1>8, <3>1 DEF Tolds, P
  <2> HIDE DEF s
  <2> QED  BY <2>4, <2>6, <2>7, <2>8
<1>9. Tolds(q2, h, Alive', Finished', Alive', P2)
  BY <1>7, <1>8 DEF Tolds
<1>10. Told' = Tolds(queue', heard', Alive', Finished', Alive', Promise')
  BY DEF Told, Tolds
<1> QED  BY <1>9, <1>10 DEF q2, P2

-----------------------------------------------------------------------------
(* What is on its way to each actor, and the steps of Simulation. *)

LEMMA BagOps ==
  /\ \A x, y : Sim!(-)(x, y) = Bg!(-)(x, y) /\ (Sim!\sqsubseteq(x, y) <=> Bg!\sqsubseteq(x, y))
  /\ \A x : (Sim!IsABag(x) <=> Bg!IsABag(x)) /\ Sim!SetToBag(x) = Bg!SetToBag(x)
  BY DEF Sim!(-), Bg!(-), Sim!\sqsubseteq, Bg!\sqsubseteq,
         Sim!IsABag, Bg!IsABag, Sim!SetToBag, Bg!SetToBag

LEMMA BagRules ==
  ASSUME NEW k \in [Nat -> Nat], NEW k2 \in [Nat -> Nat]
  PROVE  /\ Sim!IsABag(Bag(k)) /\ DOMAIN Bag(k) \subseteq Nat
         /\ \A t : t \in DOMAIN Bag(k) <=> t \in Nat /\ k[t] # 0
         /\ (\A t \in Nat : k[t] <= k2[t]) => Sim!\sqsubseteq(Bag(k), Bag(k2))
         /\ \A t \in DOMAIN Sim!(-)(Bag(k2), Bag(k)) : t \in Nat /\ k2[t] > k[t]
<1>1. /\ Bg!IsABag(Bag(k)) /\ DOMAIN Bag(k) \subseteq Nat
      /\ \A t : t \in DOMAIN Bag(k) <=> t \in Nat /\ k[t] # 0
      /\ (\A t \in Nat : k[t] <= k2[t]) => Bg!\sqsubseteq(Bag(k), Bag(k2))
      /\ \A t \in DOMAIN Bg!(-)(Bag(k2), Bag(k)) : t \in Nat /\ k2[t] > k[t]
  BY BagsCompare
<1> QED  BY ONLY <1>1, BagOps

LEMMA BagLess ==
  ASSUME NEW k \in [Nat -> Nat], NEW t0 \in Nat, k[t0] # 0
  PROVE  /\ Less(k, t0) \in [Nat -> Nat]
         /\ Sim!(-)(Bag(k), Sim!SetToBag({t0})) = Bag(Less(k, t0))
<1>1. /\ Less(k, t0) \in [Nat -> Nat]
      /\ Bg!(-)(Bag(k), Bg!SetToBag({t0})) = Bag(Less(k, t0))
  BY BagWithout
<1> QED  BY ONLY <1>1, BagOps

(* Nobody has been told of a time before which a running actor may still    *)
(* push to him, and who is done has been told of the limit.                 *)
Forward ==
  /\ Past(Chans, heard, Alive, Promise)
  /\ \A a \in Actors : status[a] = "done" => \E ch \in Chans : ch[2] = a /\ heard[ch] >= Limit

(* Of the events F, those of the model. *)
ModelsOf(F) == {e \in F : e.kind \notin {"Null", "Close"}}

(* How many events of each time are on their way to a when the queues are q. *)
Ways(F, q, a) == On(Chans, q, QSize, ModelsOf(F), a)

LEMMA ComingIs ==
  /\ \A a : Coming(a) = WaysBag(Chans, queue, a) /\ Coming(a)' = WaysBag(Chans, queue', a)
  /\ \A a : Now(a) = Latest(Chans, heard, a) /\ Now(a)' = Latest(Chans, heard', a)
<1>1. \A a : Inputs(a) = In(Chans, a)
  BY DEF Inputs, In
<1> QED  BY <1>1 DEF Coming, ComingAt, ComingTimes, IsModel, WaysBag, WaysAt, WaysTimes, Now, Latest

LEMMA ChansCount ==
  /\ ArePairs(Chans)
  /\ \A a \in Actors : In(Chans, a) # {}
  /\ \A a : IsFiniteSet(In(Chans, a))
<1>1. ArePairs(Chans)
  BY ChanKinds DEF ArePairs
<1>2. \A a \in Actors : In(Chans, a) # {}
  <2> TAKE a \in Actors
  <2>1. <<World, a>> \in Chans /\ <<World, a>>[2] = a
    BY ChanNames
  <2> QED  BY <2>1 DEF In
<1>3. ASSUME NEW a  PROVE IsFiniteSet(In(Chans, a))
  <2>1. Len(Net) \in Nat /\ NHosts \in 1 .. Len(Net)
    BY NetworkAssumption
  <2>2. \A ch \in Chans : ch[1] \in 0 .. Len(Net)
    <3> TAKE ch \in Chans
    <3>1. ch[1] = World \/ ch[1] \in Hosts \/ ch[1] \in Routers
      BY ChanKinds
    <3> QED  BY <2>1, <3>1 DEF World, Hosts, Routers
  <2>3. In(Chans, a) \in SUBSET (0 .. Len(Net))
    BY <2>2 DEF In
  <2>4. IsFiniteSet(0 .. Len(Net))
    BY <2>1, FS_Interval
  <2> QED  BY <2>3, <2>4, FS_Subset
<1> QED  BY <1>1, <1>2, <1>3

LEMMA Counts ==
  ASSUME NEW F, Timed(F), NEW q \in Queues(Chans, F), \A ch \in Chans : Len(q[ch]) <= QSize
  PROVE  /\ Channels(Chans, q, QSize, F) /\ QSize \in Nat
         /\ \A a : /\ Ways(F, q, a) \in [Nat -> Nat]
                   /\ \A t \in Nat : Ways(F, q, a)[t] # 0 <=> Comes(Chans, q, ModelsOf(F), a, t)
                   /\ WaysBag(Chans, q, a) = Bag(Ways(F, q, a))
<1>1. Channels(Chans, q, QSize, F) /\ QSize \in Nat
  BY ChansCount, ChanKinds, ConstantsTyped DEF Channels, Queues
<1>2. AreModels(ModelsOf(F), F)
  BY DEF AreModels, ModelsOf
<1>3. ASSUME NEW a
      PROVE  /\ Ways(F, q, a) \in [Nat -> Nat]
             /\ \A t \in Nat : Ways(F, q, a)[t] # 0 <=> Comes(Chans, q, ModelsOf(F), a, t)
             /\ WaysBag(Chans, q, a) = Bag(Ways(F, q, a))
  <2> DEFINE M == ModelsOf(F)
  <2>1. Ways(F, q, a) = On(Chans, q, QSize, M, a) /\ AreModels(M, F) /\ Timed(F)
    BY <1>2 DEF Ways
  <2> HIDE DEF M
  <2>2. /\ On(Chans, q, QSize, M, a) \in [Nat -> Nat]
        /\ \A t \in Nat : On(Chans, q, QSize, M, a)[t] # 0 <=> Comes(Chans, q, M, a, t)
    BY ONLY <1>1, OnTyped
  <2>3. WaysBag(Chans, q, a) = Bag(On(Chans, q, QSize, M, a))
    BY ONLY <1>1, <2>1, BagOfWays
  <2> QED  BY <2>1, <2>2, <2>3 DEF M
<1> QED  BY ONLY <1>1, <1>3

LEMMA BagsAre ==
  ASSUME NEW F, LinksTyped(F), LinksTyped(F)', NEW d
  PROVE  /\ Ways(F, queue, d) \in [Nat -> Nat] /\ Ways(F, queue', d) \in [Nat -> Nat]
         /\ \A t \in Nat : Ways(F, queue, d)[t] # 0 <=> Comes(Chans, queue, ModelsOf(F), d, t)
         /\ Coming(d) = Bag(Ways(F, queue, d)) /\ Coming(d)' = Bag(Ways(F, queue', d))
<1>1. Timed(F) /\ queue \in Queues(Chans, F) /\ \A ch \in Chans : Len(queue[ch]) <= QSize
  BY DEF LinksTyped
<1> DEFINE q2 == queue'
<1>2. q2 \in Queues(Chans, F) /\ \A ch \in Chans : Len(q2[ch]) <= QSize
  BY DEF LinksTyped
<1> HIDE DEF q2
<1>3. /\ Ways(F, queue, d) \in [Nat -> Nat] /\ WaysBag(Chans, queue, d) = Bag(Ways(F, queue, d))
      /\ \A t \in Nat : Ways(F, queue, d)[t] # 0 <=> Comes(Chans, queue, ModelsOf(F), d, t)
  BY ONLY <1>1, Counts
<1>4. Ways(F, q2, d) \in [Nat -> Nat] /\ WaysBag(Chans, q2, d) = Bag(Ways(F, q2, d))
  BY ONLY <1>1, <1>2, Counts
<1> QED  BY <1>3, <1>4, ComingIs DEF q2

(* Nobody but a learns how far anybody is. *)
OnlyNow(a) == \A d \in Actors : d # a => Latest(Chans, heard', d) = Latest(Chans, heard, d)

LEMMA StageMoves ==
  ASSUME status \in [Actors -> Statuses], NEW a \in Actors, status[a] = "running", NEW after, Ends(a, after)
  PROVE  LET st == [d \in Actors |-> Stage(d)]
             st2 == [d \in Actors |-> Stage(d)']
         IN  /\ st[a] = "running"
             /\ after \in {"running", "broke"} => st2 \in {st, [st EXCEPT ![a] = "failed"]}
             /\ after = "done" => st2 \in {[st EXCEPT ![a] = s] : s \in {"finished", "failed"}}
<1> DEFINE st  == [d \in Actors |-> Stage(d)]
           st2 == [d \in Actors |-> Stage(d)']
<1>1. PICK end \in {after, "panicked"} : status' = [status EXCEPT ![a] = end]
  BY DEF Ends
<1>2. st2 = [st EXCEPT ![a] = IF end = "running" THEN "running" ELSE IF end = "done" THEN "finished" ELSE "failed"]
  BY <1>1 DEF Stage
<1>3. st[a] = "running"
  BY DEF Stage
<1>4. [st EXCEPT ![a] = "running"] = st
  BY <1>3
<1> HIDE DEF st, st2
<1> QED  BY <1>1, <1>2, <1>3, <1>4 DEF st, st2

LEMMA MovesRule ==
  ASSUME status \in [Actors -> Statuses], NEW a \in Actors, status[a] = "running",
         NEW after \in {"running", "broke"}, Ends(a, after),
         OnlyNow(a), Latest(Chans, heard', a) >= Latest(Chans, heard, a)
  PROVE  Sim!Moves(a)
<1> DEFINE ck  == [d \in Actors |-> Now(d)]
           ck2 == [d \in Actors |-> Now(d)']
<1>1. ck2[a] >= ck[a]
  BY ComingIs
<1>2. ck2 = [ck EXCEPT ![a] = ck2[a]]
  <2>1. \A d \in Actors : d # a => Now(d)' = Now(d)
    BY ComingIs DEF OnlyNow
  <2> QED  BY <2>1
<1> QED  BY <1>1, <1>2, StageMoves DEF Sim!Moves

(* Nothing comes or goes as far as the model is concerned. *)
LEMMA WaitsRule ==
  ASSUME NEW F, LinksTyped(F), LinksTyped(F)', NEW a \in Actors, status[a] = "running", Ends(a, "running"),
         OnlyNow(a), Latest(Chans, heard', a) >= Latest(Chans, heard, a),
         \A d \in Actors : Ways(F, queue', d) = Ways(F, queue, d)
  PROVE  Sim!Waits(a)
<1>1. \A d \in Actors : Coming(d)' = Coming(d)
  BY BagsAre
<1>2. status \in [Actors -> Statuses]
  BY DEF LinksTyped
<1> QED  BY <1>1, <1>2, MovesRule DEF Sim!Waits

LEMMA FinishesRule ==
  ASSUME NEW F, LinksTyped(F), LinksTyped(F)', NEW a \in Actors, status[a] = "running", Ends(a, "done"), OnlyNow(a),
         \A t \in Nat : Ways(F, queue, a)[t] # 0 => t >= Limit,
         \A d \in Actors : d # a => Ways(F, queue', d) = Ways(F, queue, d),
         \A t \in Nat : Ways(F, queue', a)[t] <= Ways(F, queue, a)[t]
  PROVE  Sim!Finishes(a)
<1> DEFINE ck  == [d \in Actors |-> Now(d)]
           ck2 == [d \in Actors |-> Now(d)']
           pe  == [d \in Actors |-> Coming(d)]
           pe2 == [d \in Actors |-> Coming(d)']
<1>1. ck2 = [ck EXCEPT ![a] = ck2[a]]
  <2>1. \A d \in Actors : d # a => Now(d)' = Now(d)
    BY ComingIs DEF OnlyNow
  <2> QED  BY <2>1
<1>2. \A d \in Actors : d # a => Coming(d)' = Coming(d)
  BY BagsAre
<1>3. pe2 = [pe EXCEPT ![a] = pe2[a]]
  BY <1>2
<1>4. /\ Coming(a) = Bag(Ways(F, queue, a)) /\ Coming(a)' = Bag(Ways(F, queue', a))
      /\ Ways(F, queue, a) \in [Nat -> Nat] /\ Ways(F, queue', a) \in [Nat -> Nat]
  BY BagsAre
<1>5. Sim!\sqsubseteq(pe2[a], pe[a])
  BY <1>4, BagRules
<1>6. \A t \in DOMAIN pe[a] : t >= Limit
  <2>1. \A t \in DOMAIN Bag(Ways(F, queue, a)) : t \in Nat /\ Ways(F, queue, a)[t] # 0
    BY <1>4, BagRules
  <2>2. \A t \in DOMAIN Bag(Ways(F, queue, a)) : t >= Limit
    BY <2>1
  <2> QED  BY <1>4, <2>2
<1>7. status \in [Actors -> Statuses]
  BY DEF LinksTyped
<1> QED  BY <1>1, <1>3, <1>5, <1>6, <1>7, StageMoves DEF Sim!Finishes

(* a handles an event of time t0: that one is gone, and what comes is late *)
(* enough.  k: what was on its way to whom once it was gone.                *)
HandlesAt(F, a, t0, k) ==
  /\ Latest(Chans, heard', a) = t0 /\ t0 \in Nat /\ Ways(F, queue, a)[t0] # 0
  /\ \A t \in Nat : Ways(F, queue, a)[t] # 0 => t0 <= t
  /\ k = [d \in Actors |-> IF d = a THEN Less(Ways(F, queue, a), t0) ELSE Ways(F, queue, d)]
  /\ \A d \in Actors, t \in Nat :
       /\ k[d][t] <= Ways(F, queue', d)[t]
       /\ k[d][t] # Ways(F, queue', d)[t] =>
            t >= Latest(Chans, heard', d) /\ (status[d] = "done" => t >= Limit)

(* The counts of events, after one of time t0 is gone to a, give Handles.   *)
LEMMA HandlesRule ==
  ASSUME NEW F, LinksTyped(F), LinksTyped(F)', NEW a \in Actors, status[a] = "running",
         NEW after \in {"running", "broke"}, Ends(a, after),
         OnlyNow(a), Latest(Chans, heard', a) >= Latest(Chans, heard, a), NEW t0, NEW k, HandlesAt(F, a, t0, k)
  PROVE  Sim!Handles(a)
<1> DEFINE pe   == [d \in Actors |-> Coming(d)]
           pe2  == [d \in Actors |-> Coming(d)']
           ck2  == [d \in Actors |-> Now(d)']
           left == [pe EXCEPT ![a] = Sim!(-)(@, Sim!SetToBag({ck2[a]}))]
<1>1. /\ ck2[a] = t0 /\ t0 \in Nat /\ Ways(F, queue, a)[t0] # 0
      /\ \A t \in Nat : Ways(F, queue, a)[t] # 0 => t0 <= t
      /\ k = [d \in Actors |-> IF d = a THEN Less(Ways(F, queue, a), t0) ELSE Ways(F, queue, d)]
  BY ComingIs DEF HandlesAt
<1>2. /\ Coming(a) = Bag(Ways(F, queue, a)) /\ Ways(F, queue, a) \in [Nat -> Nat]
      /\ \A t : t \in DOMAIN Bag(Ways(F, queue, a)) <=> t \in Nat /\ Ways(F, queue, a)[t] # 0
  BY BagsAre, BagRules
<1>3. ck2[a] \in DOMAIN pe[a] /\ \A t \in DOMAIN pe[a] : ck2[a] <= t
  BY <1>1, <1>2
<1>4. Sim!Moves(a)
  BY MovesRule DEF LinksTyped
<1>5. \A d \in Actors : left[d] = Bag(k[d]) /\ k[d] \in [Nat -> Nat]
  <2> SUFFICES ASSUME NEW d \in Actors  PROVE left[d] = Bag(k[d]) /\ k[d] \in [Nat -> Nat]
    OBVIOUS
  <2>1. CASE d = a
    <3>1. /\ Less(Ways(F, queue, a), t0) \in [Nat -> Nat]
          /\ Sim!(-)(Bag(Ways(F, queue, a)), Sim!SetToBag({t0})) = Bag(Less(Ways(F, queue, a), t0))
      BY <1>1, <1>2, BagLess
    <3>2. left[a] = Sim!(-)(pe[a], Sim!SetToBag({t0}))
      BY <1>1
    <3> QED  BY <1>1, <1>2, <2>1, <3>1, <3>2
  <2>2. CASE d # a
    <3>1. left[d] = Coming(d) /\ k[d] = Ways(F, queue, d)
      BY <1>1, <2>2
    <3> QED  BY <3>1, BagsAre
  <2> QED  BY <2>1, <2>2
<1>6. ASSUME NEW d \in Actors
      PROVE  /\ Sim!\sqsubseteq(left[d], pe2[d])
             /\ \A t \in DOMAIN Sim!(-)(pe2[d], left[d]) :
                  t >= ck2[d] /\ (Stage(d) = "finished" => t >= Limit)
  <2> DEFINE kd == k[d]
             k2 == Ways(F, queue', d)
  <2>1. left[d] = Bag(kd) /\ pe2[d] = Bag(k2) /\ kd \in [Nat -> Nat] /\ k2 \in [Nat -> Nat]
    BY <1>5, <1>6, BagsAre
  <2>2. \A t \in Nat : /\ kd[t] <= k2[t]
                       /\ kd[t] # k2[t] =>
                            t >= Latest(Chans, heard', d) /\ (status[d] = "done" => t >= Limit)
    BY DEF HandlesAt
  <2> HIDE DEF kd, k2, left, pe2
  <2>3. /\ Sim!\sqsubseteq(Bag(kd), Bag(k2))
        /\ \A t \in DOMAIN Sim!(-)(Bag(k2), Bag(kd)) : t \in Nat /\ k2[t] > kd[t]
    BY <2>1, <2>2, BagRules
  <2>4. ck2[d] = Latest(Chans, heard', d)
    BY ComingIs
  <2>5. Stage(d) = "finished" => status[d] = "done"
    BY DEF Stage
  <2>6. ASSUME NEW t \in DOMAIN Sim!(-)(Bag(k2), Bag(kd))
        PROVE  t >= Latest(Chans, heard', d) /\ (status[d] = "done" => t >= Limit)
    <3>1. t \in Nat /\ kd[t] \in Nat /\ k2[t] \in Nat /\ kd[t] # k2[t]
      BY <2>1, <2>3
    <3> QED  BY <2>2, <3>1
  <2> QED  BY <2>1, <2>3, <2>4, <2>5, <2>6
<1>7. Sim!Adds(left)
  <2>1. DOMAIN pe2 = Actors
    OBVIOUS
  <2> HIDE DEF left
  <2> QED  BY <1>6, <2>1 DEF Sim!Adds
<1> QED  BY <1>3, <1>4, <1>7 DEF Sim!Handles

-----------------------------------------------------------------------------
(* What a handler does to the times heard and to what is on its way. *)

(* The first event from b is taken. *)
Rest(b, a) == [queue EXCEPT ![<<b, a>>] = Tail(@)]

Quiet(out) == \A n \in DOMAIN out : \A i \in 1 .. Len(out[n]) : out[n][i].kind \in {"Null", "Close"}

(* How the handler of an event of this kind ends, and what it pushes. *)
Fitting(kind, out, after) ==
  /\ after \in {"running", "done", "broke"}
  /\ kind = "Close" <=> after = "done"
  /\ kind = "Null" => after = "running"
  /\ kind \in {"Null", "Close"} => Quiet(out)

(* The handler of the first event from b has pushed out, to N. *)
Takes(b, a, N, out, after, F) ==
  /\ LinksTyped(F) /\ LinksTyped(F)'
  /\ <<b, a>> \in Chans /\ IsNext(b, a) /\ Handle(b, a, out, after)
  /\ out \in Queues(N, F) /\ KeepsPromise(a, out, after)
  /\ Ends(a, after) /\ Grows(a, after)
  /\ Fitting(First(b, a).kind, out, after)

(* So has the one of Stalled. *)
Stalls(a, N, out, F) ==
  /\ LinksTyped(F) /\ LinksTyped(F)'
  /\ status[a] = "running" /\ HandleStall(a, out, "running")
  /\ out \in Queues(N, F)
  /\ Ends(a, "running") /\ Grows(a, "running") /\ Quiet(out)

(* Promises that only grow, of actors that only stop, keep what was heard   *)
(* behind them.                                                             *)
LEMMA PastGrows ==
  ASSUME NEW h \in [Chans -> Nat], status \in [Actors -> Statuses], Past(Chans, h, Alive, Promise),
         NEW a \in Actors, status[a] = "running", NEW after, Ends(a, after), Grows(a, after)
  PROVE  Past(Chans, h, Alive', Promise')
<1>1. PICK end \in {after, "panicked"} : status' = [status EXCEPT ![a] = end]
  BY DEF Ends
<1>2. Alive' \subseteq Alive /\ (a \in Alive' => after = "running")
  BY <1>1 DEF Alive, Running
<1> DEFINE P  == Promise
           P2 == Promise'
<1>3. /\ P \in Times(Chans, Int) /\ P2 \in Times(Chans, Int)
      /\ \A ch \in Chans : (ch = <<a, a>> => after = "running") => P[ch] <= P2[ch]
  BY DEF Grows
<1>4. Past(Chans, h, Alive, P)
  OBVIOUS
<1> HIDE DEF P, P2
<1>5. ASSUME NEW ch \in Chans, ch[1] \in Alive', NEW d \in Chans, d[2] = ch[2]
      PROVE  h[d] <= P2[ch]
  <2>1. h[d] <= P[ch] /\ h[d] \in Nat
    BY <1>2, <1>4, <1>5 DEF Past
  <2>2. P[ch] \in Int /\ P2[ch] \in Int /\ P[ch] <= P2[ch]
    BY <1>2, <1>3, <1>5 DEF Times
  <2> QED  BY ONLY <2>1, <2>2
<1> QED  BY <1>5 DEF Past, P2

(* Who a waits for has promised nothing that has passed. *)
LEMMA TakesForward ==
  ASSUME IInv, Forward, NEW a, NEW b, NEW N, NEW out, NEW after, NEW F, Takes(b, a, N, out, after, F)
  PROVE  Forward' /\ Past(Chans, heard', Alive, Promise)
<1> DEFINE c == <<b, a>>
           P == Promise
<1>1. /\ LinksTyped(F) /\ c \in Chans /\ IsNext(b, a)
      /\ heard' = [heard EXCEPT ![c] = First(b, a).time]
      /\ Ends(a, after) /\ Grows(a, after)
      /\ after = "done" => First(b, a).kind = "Close"
  BY DEF Takes, Handle, Fitting
<1>2. /\ c[2] = a /\ a \in Actors /\ c[2] \in Alive
      /\ queue \in [Chans -> Seq(F)] /\ heard \in [Chans -> Nat] /\ Timed(F)
      /\ P \in [Chans -> Int] /\ queue[c] # <<>>
      /\ First(b, a) = Head(queue[c]) /\ First(b, a).time \in Nat
      /\ Earliest(Chans, queue, heard, c)
  BY <1>1, NextEarliest
<1>3. status \in [Actors -> Statuses] /\ status[a] = "running"
  BY <1>1, <1>2 DEF LinksTyped, Alive, Running
<1>4. /\ InTime(Chans, queue, heard, Alive, P) /\ Closed(Chans, queue, Alive, Limit - 1)
      /\ Past(Chans, heard, Alive, P)
  BY DEF IInv, Forward
<1>5. First(b, a).kind = "Close" => First(b, a).time > Limit - 1
  <2>1. after = "done" => after # "running"
    OBVIOUS
  <2> DEFINE q == queue
             L == Limit - 1
  <2>2. q \in [Chans -> Seq(F)] /\ q[c] # <<>> /\ Closed(Chans, q, Alive, L) /\ L \in Int
    BY <1>2, <1>4, ConstantsTyped
  <2> HIDE DEF q, L, c
  <2>3. Head(q[c]).kind = "Close" => Head(q[c]).time > L
    BY ONLY <1>1, <2>2, TakeClosed
  <2> QED  BY <1>2, <2>3 DEF q, L
<1> HIDE DEF c, P
<1>6. Past(Chans, [heard EXCEPT ![c] = Head(queue[c]).time], Alive, P)
  BY ONLY <1>1, <1>2, <1>4, TakePast
<1>7. Past(Chans, heard', Alive, Promise)
  BY <1>1, <1>2, <1>6 DEF P
<1>8. heard' \in [Chans -> Nat] /\ heard'[c] = First(b, a).time
      /\ \A ch \in Chans : ch # c => heard'[ch] = heard[ch]
  BY <1>1, <1>2
<1>9. Past(Chans, heard', Alive', Promise')
  BY <1>1, <1>2, <1>3, <1>7, <1>8, PastGrows
<1>10. ASSUME NEW d \in Actors, status'[d] = "done"
       PROVE  \E ch \in Chans : ch[2] = d /\ heard'[ch] >= Limit
  <2>0. PICK end \in {after, "panicked"} : status' = [status EXCEPT ![a] = end]
    BY <1>1 DEF Ends
  <2>1. CASE d = a
    <3>1. after = "done"
      BY <1>3, <1>10, <2>0, <2>1
    <3>2. First(b, a).time >= Limit
      BY <1>1, <1>2, <1>5, <3>1, ConstantsTyped
    <3> QED  BY <1>1, <1>2, <1>8, <2>1, <3>2
  <2>2. CASE d # a
    <3>1. status[d] = "done"
      BY <1>3, <1>10, <2>0, <2>2
    <3>2. PICK ch \in Chans : ch[2] = d /\ heard[ch] >= Limit
      BY <3>1 DEF Forward
    <3> QED  BY <1>2, <1>8, <2>2, <3>2
  <2> QED  BY <2>1, <2>2
<1> QED  BY <1>7, <1>9, <1>10 DEF Forward

(* A stall tells nobody anything.                                           *)
LEMMA StallsForward ==
  ASSUME IInv, Forward, NEW a \in Actors, NEW N, NEW out, NEW F, Stalls(a, N, out, F)
  PROVE  Forward'
<1>1. /\ LinksTyped(F) /\ heard' = heard /\ status[a] = "running"
      /\ Ends(a, "running") /\ Grows(a, "running")
  BY DEF Stalls, HandleStall
<1>2. heard \in [Chans -> Nat] /\ status \in [Actors -> Statuses]
  BY <1>1 DEF LinksTyped, Times
<1>3. Past(Chans, heard, Alive', Promise')
  BY <1>1, <1>2, PastGrows DEF Forward
<1>4. ASSUME NEW d \in Actors, status'[d] = "done"  PROVE status[d] = "done"
  BY <1>1, <1>2, <1>4 DEF Ends
<1> QED  BY <1>1, <1>3, <1>4 DEF Forward

(* Nothing is lost when a handler pushes, and what comes in is from out. *)
LEMMA PushWays ==
  ASSUME NEW F, Timed(F), NEW q \in Queues(Chans, F), \A ch \in Chans : Len(q[ch]) <= QSize,
         status \in [Actors -> Statuses], NEW a \in Actors, status[a] = "running", NEW after \in Statuses,
         NEW N, NEW out \in Queues(N, F), Deliver(q, a, out, after)
  PROVE  /\ \A d : \A t \in Nat :
              /\ Ways(F, q, d)[t] <= Ways(F, queue', d)[t]
              /\ Ways(F, q, d)[t] # Ways(F, queue', d)[t] =>
                   d \in DOMAIN out /\ \E i \in 1 .. Len(out[d]) : out[d][i] \in ModelsOf(F) /\ out[d][i].time = t
         /\ Quiet(out) => \A d : Ways(F, queue', d) = Ways(F, q, d)
<1> DEFINE D  == From(a, N)
           o  == Along(a, N, out)
           q2 == queue'
           M  == ModelsOf(F)
<1>1. /\ D \in SUBSET Chans /\ o \in Queues(D, F)
      /\ \A ch \in D : ch[2] \in N /\ o[ch] = out[ch[2]]
      /\ IsPush(Chans, q, D, o, QSize, q2)
  <2>1. D = From(a, N) /\ o = Along(a, N, out)
    OBVIOUS
  <2> HIDE DEF D, o
  <2> QED  BY <2>1, DeliverShape
<1>2. DOMAIN out = N
  BY DEF Queues
<1>3. Channels(Chans, q, QSize, F) /\ QSize \in Nat
  BY Counts
<1> HIDE DEF D, o, q2, M
<1>4. ASSUME NEW d, NEW t \in Nat  PROVE Gains(Chans, q, q2, QSize, M, D, o, d, t)
  BY ONLY t \in Nat, <1>1, <1>3, OnPush
<1>5. ASSUME NEW d, NEW t \in Nat,
             NEW ch \in D, ch[2] = d, NEW i \in 1 .. Len(o[ch]), o[ch][i] \in M, o[ch][i].time = t
      PROVE  d \in DOMAIN out /\ \E j \in 1 .. Len(out[d]) : out[d][j] \in M /\ out[d][j].time = t
  BY <1>1, <1>2, <1>5
<1>6. ASSUME NEW d, NEW t \in Nat
      PROVE  /\ Ways(F, q, d)[t] <= Ways(F, q2, d)[t]
             /\ Ways(F, q, d)[t] # Ways(F, q2, d)[t] =>
                  d \in DOMAIN out /\ \E j \in 1 .. Len(out[d]) : out[d][j] \in M /\ out[d][j].time = t
  <2>1. Gains(Chans, q, q2, QSize, M, D, o, d, t)
    BY <1>4
  <2> QED  BY <1>5, <2>1 DEF Gains, Ways, M
<1>7. ASSUME Quiet(out), NEW d  PROVE Ways(F, q2, d) = Ways(F, q, d)
  <2>1. \A ch \in D : \A i \in 1 .. Len(o[ch]) : o[ch][i] \notin M
    BY <1>1, <1>2, <1>7 DEF Quiet, M, ModelsOf
  <2>2. On(Chans, q2, QSize, M, d) = On(Chans, q, QSize, M, d)
    BY ONLY <1>1, <1>3, <2>1, OnQuiet
  <2> QED  BY <2>2 DEF Ways, M
<1> QED  BY <1>6, <1>7 DEF q2, M

(* A pop takes one from the events of its time on the way to a, and none if *)
(* it was a null message or a Close.                                        *)
LEMMA TakeWays ==
  ASSUME IInv, NEW F, LinksTyped(F), NEW a, NEW b, <<b, a>> \in Chans, IsNext(b, a)
  PROVE  /\ Rest(b, a) \in Queues(Chans, F) /\ \A ch \in Chans : Len(Rest(b, a)[ch]) <= QSize
         /\ \A d : \A t \in Nat : Ways(F, Rest(b, a), d)[t] =
              IF d = a /\ First(b, a).kind \notin {"Null", "Close"} /\ First(b, a).time = t
              THEN Ways(F, queue, d)[t] - 1 ELSE Ways(F, queue, d)[t]
         /\ First(b, a).kind \in {"Null", "Close"} => \A d : Ways(F, Rest(b, a), d) = Ways(F, queue, d)
<1> DEFINE c == <<b, a>>
           q == Rest(b, a)
           M == ModelsOf(F)
<1>1. /\ c \in Chans /\ c[2] = a /\ queue[c] \in Seq(F) /\ queue[c] # <<>>
      /\ First(b, a) = Head(queue[c]) /\ First(b, a) \in F
      /\ queue \in [Chans -> Seq(F)] /\ \A ch \in Chans : Len(queue[ch]) <= QSize
  BY NextEarliest
<1>2. q[c] = Tail(queue[c]) /\ \A ch \in Chans : ch # c => q[ch] = queue[ch]
  BY <1>1 DEF Rest
<1>3. Tail(queue[c]) \in Seq(F) /\ Len(Tail(queue[c])) = Len(queue[c]) - 1 /\ Len(queue[c]) \in Nat
  BY <1>1, HeadTailProperties, LenProperties
<1>4. q \in Queues(Chans, F)
  BY <1>1, <1>3 DEF Rest, Queues
<1>5. \A ch \in Chans : Len(q[ch]) <= QSize
  <2>1. Len(q[c]) <= QSize
    BY <1>1, <1>2, <1>3, ConstantsTyped
  <2> QED  BY <1>1, <1>2, <2>1
<1>6. Channels(Chans, queue, QSize, F) /\ QSize \in Nat
  BY Counts DEF LinksTyped
<1>7. First(b, a) \in M <=> First(b, a).kind \notin {"Null", "Close"}
  BY <1>1 DEF ModelsOf
<1> HIDE DEF c, q, M
<1>8. ASSUME NEW d, NEW t \in Nat
      PROVE  On(Chans, q, QSize, M, d)[t] =
               IF c[2] = d /\ Head(queue[c]) \in M /\ Head(queue[c]).time = t
               THEN On(Chans, queue, QSize, M, d)[t] - 1 ELSE On(Chans, queue, QSize, M, d)[t]
  <2>1. c \in Chans /\ queue[c] # <<>>
    BY <1>1
  <2> QED  BY ONLY <1>2, <1>6, <2>1, t \in Nat, OnTake
<1>9. \A d : \A t \in Nat : Ways(F, q, d)[t] =
         IF d = a /\ First(b, a).kind \notin {"Null", "Close"} /\ First(b, a).time = t
         THEN Ways(F, queue, d)[t] - 1 ELSE Ways(F, queue, d)[t]
  BY <1>1, <1>7, <1>8 DEF Ways, M
<1>10. ASSUME First(b, a).kind \in {"Null", "Close"}, NEW d  PROVE Ways(F, q, d) = Ways(F, queue, d)
  <2>1. \A t \in Nat : On(Chans, q, QSize, M, d)[t] = On(Chans, queue, QSize, M, d)[t]
    BY <1>9, <1>10 DEF Ways, M
  <2>2. On(Chans, q, QSize, M, d) = On(Chans, queue, QSize, M, d)
    BY ONLY <2>1, SameOn
  <2> QED  BY <2>2 DEF Ways, M
<1> QED  BY <1>4, <1>5, <1>9, <1>10 DEF q

(* a is the only one who hears something, and it is the first of all that *)
(* is on its way to it.                                                   *)
LEMMA TakesHears ==
  ASSUME IInv, NEW F, LinksTyped(F), NEW a, NEW b, <<b, a>> \in Chans, IsNext(b, a),
         heard' = [heard EXCEPT ![<<b, a>>] = First(b, a).time]
  PROVE  /\ OnlyNow(a)
         /\ \A t \in Nat : Ways(F, queue, a)[t] # 0 => First(b, a).time <= t
         /\ First(b, a).kind # "Close" =>
              Latest(Chans, heard', a) = First(b, a).time /\ Latest(Chans, heard', a) >= Latest(Chans, heard, a)
         /\ First(b, a).kind \notin {"Null", "Close"} => Ways(F, queue, a)[First(b, a).time] # 0
<1> DEFINE c  == <<b, a>>
           t0 == First(b, a).time
           P  == Promise
           h2 == heard'
<1>1. /\ c \in Chans /\ c[2] = a /\ c[2] \in Alive /\ a \in Actors
      /\ queue \in [Chans -> Seq(F)] /\ heard \in [Chans -> Nat] /\ Timed(F)
      /\ P \in [Chans -> Int] /\ queue[c] \in Seq(F) /\ queue[c] # <<>>
      /\ First(b, a) = Head(queue[c]) /\ First(b, a) \in F /\ t0 \in Nat /\ t0 = Head(queue[c]).time
      /\ Earliest(Chans, queue, heard, c)
  BY NextEarliest
<1>2. ArePairs(Chans) /\ h2 = [heard EXCEPT ![c] = t0]
  BY ChansCount
<1>3. InTime(Chans, queue, heard, Alive, P)
  BY DEF IInv
<1>4. \A t \in Nat : Ways(F, queue, a)[t] # 0 <=> Comes(Chans, queue, ModelsOf(F), a, t)
  BY Counts DEF LinksTyped
<1> HIDE DEF c, t0, P, h2
<1>5. OnlyNow(a)
  <2> SUFFICES ASSUME NEW d \in Actors, d # a  PROVE Latest(Chans, h2, d) = Latest(Chans, heard, d)
    BY DEF OnlyNow, h2
  <2>1. \A ch \in Chans : ch[2] = d => h2[ch] = heard[ch]
    BY <1>1, <1>2
  <2> QED  BY ONLY <1>2, <2>1, SameHeard
<1>6. /\ \A d \in Chans : d[2] = c[2] =>
              \A i \in 1 .. Len(queue[d]) : queue[d][i].kind # "Close" => Head(queue[c]).time <= queue[d][i].time
      /\ Head(queue[c]).kind # "Close" => \A d \in Chans : d[2] = c[2] => heard[d] <= Head(queue[c]).time
  BY ONLY <1>1, <1>3, FromEarliest
<1>7. ASSUME NEW t \in Nat, Ways(F, queue, a)[t] # 0  PROVE t0 <= t
  <2>1. PICK ch \in Chans : ch[2] = a /\ \E i \in 1 .. Len(queue[ch]) :
          queue[ch][i] \in ModelsOf(F) /\ queue[ch][i].time = t
    BY <1>4, <1>7 DEF Comes
  <2>2. PICK i \in 1 .. Len(queue[ch]) : queue[ch][i] \in ModelsOf(F) /\ queue[ch][i].time = t
    BY <2>1
  <2>3. queue[ch][i].kind # "Close"
    BY <2>2 DEF ModelsOf
  <2> QED  BY <1>1, <1>6, <2>1, <2>2, <2>3
<1>8. ASSUME First(b, a).kind # "Close"
      PROVE  Latest(Chans, h2, a) = t0 /\ Latest(Chans, h2, a) >= Latest(Chans, heard, a)
  <2>1. \A ch \in Chans : ch[2] = c[2] => heard[ch] <= t0
    BY <1>1, <1>6, <1>8
  <2>2. /\ Latest(Chans, [heard EXCEPT ![c] = t0], c[2]) = t0
        /\ Latest(Chans, heard, c[2]) \in Nat /\ Latest(Chans, heard, c[2]) <= t0
    <3>1. c \in Chans /\ t0 \in Nat /\ heard \in [Chans -> Nat] /\ ArePairs(Chans)
      BY <1>1, <1>2
    <3> QED  BY ONLY <2>1, <3>1, HearsLatest
  <2> QED  BY <1>1, <1>2, <2>2
<1>9. ASSUME First(b, a).kind \notin {"Null", "Close"}  PROVE Ways(F, queue, a)[t0] # 0
  <2>1. 1 \in 1 .. Len(queue[c]) /\ Head(queue[c]) = queue[c][1]
    <3>1. Len(queue[c]) \in Nat \ {0}
      BY <1>1, EmptySeq
    <3> QED  BY <1>1, <3>1, HeadTailProperties
  <2>2. queue[c][1] \in ModelsOf(F) /\ queue[c][1].time = t0
    BY <1>1, <1>9, <2>1 DEF ModelsOf
  <2>3. Comes(Chans, queue, ModelsOf(F), a, t0)
    BY <1>1, <2>1, <2>2 DEF Comes
  <2> QED  BY <1>1, <1>4, <2>3
<1> QED  BY <1>5, <1>7, <1>8, <1>9 DEF t0, h2

Simulates(a) == Sim!Waits(a) \/ Sim!Handles(a) \/ Sim!Finishes(a)

(* A step of a keeps the invariants and is one of the simulation. *)
Sound(a) == IInv' /\ (Forward => Forward' /\ Simulates(a)) /\ (Told => Told')

(* What a pushes comes after all that anybody has been told, and not before *)
(* the limit to whom is done.                                               *)
LEMMA InNobodysPast ==
  ASSUME Forward, NEW F, LinksTyped(F), NEW a \in Actors, status[a] = "running",
         NEW h \in [Chans -> Nat], Past(Chans, h, Alive, Promise), Promise \in [Chans -> Int],
         NEW out, NEW after, KeepsPromise(a, out, after),
         NEW d \in DOMAIN out, NEW i \in 1 .. Len(out[d]), out[d][i] \in ModelsOf(F)
  PROVE  out[d][i].time >= Latest(Chans, h, d) /\ (status[d] = "done" => out[d][i].time >= Limit)
<1> DEFINE m == Promise[<<a, d>>]
           t == out[d][i].time
<1>1. <<a, d>> \in Chans /\ Between(out[d], m, Promise'[<<a, d>>])
  BY DEF KeepsPromise, KeepsLink
<1>2. a \in Alive /\ <<a, d>>[1] = a /\ <<a, d>>[2] = d /\ d \in Actors
  BY <1>1, ChanKinds DEF Alive, Running
<1>3. m <= t /\ t \in Nat
  <2>1. out[d][i].kind # "Close" /\ out[d][i] \in F /\ Timed(F)
    BY DEF ModelsOf, LinksTyped
  <2> QED  BY <1>1, <2>1 DEF Between, Timed
<1>4. \A ch \in Chans : ch[2] = d => h[ch] <= m /\ heard[ch] <= m
  BY <1>1, <1>2 DEF Past, Forward
<1>5. m \in Nat
  <2>1. <<World, d>> \in Chans /\ <<World, d>>[2] = d
    BY <1>2, ChanNames
  <2>2. h[<<World, d>>] <= m /\ h[<<World, d>>] \in Nat /\ m \in Int
    BY <1>1, <1>4, <2>1
  <2> HIDE DEF m
  <2> QED  BY ONLY <2>2
<1> HIDE DEF m, t
<1>6. Latest(Chans, h, d) \in Nat /\ Latest(Chans, h, d) <= m
  <2>1. ArePairs(Chans) /\ In(Chans, d) # {} /\ \A ch \in Chans : ch[2] = d => h[ch] <= m
    BY <1>2, <1>4, ChansCount
  <2> QED  BY ONLY <1>5, <2>1, h \in [Chans -> Nat], LatestBounds
<1>7. t >= Latest(Chans, h, d)
  BY <1>3, <1>5, <1>6
<1>8. ASSUME status[d] = "done"  PROVE t >= Limit
  <2>1. PICK ch \in Chans : ch[2] = d /\ heard[ch] >= Limit
    BY <1>2, <1>8 DEF Forward
  <2>2. heard[ch] \in Nat /\ heard[ch] <= m
    BY <1>4, <2>1 DEF LinksTyped, Times
  <2> QED  BY <1>3, <1>5, <2>1, <2>2, ConstantsTyped
<1> QED  BY <1>7, <1>8 DEF t

(* The cases of Fitting. *)
LEMMA TakeSimulates ==
  ASSUME IInv, Forward, NEW a, NEW b, NEW N, NEW out, NEW after, NEW F, Takes(b, a, N, out, after, F)
  PROVE  Simulates(a)
<1> DEFINE t0   == First(b, a).time
           kind == First(b, a).kind
           q    == Rest(b, a)
           q2   == queue'
           h2   == heard'
           k    == [d \in Actors |-> IF d = a THEN Less(Ways(F, queue, a), t0) ELSE Ways(F, queue, d)]
<1>1. /\ LinksTyped(F) /\ LinksTyped(F)' /\ <<b, a>> \in Chans /\ IsNext(b, a)
      /\ heard' = [heard EXCEPT ![<<b, a>>] = t0] /\ Deliver(q, a, out, after)
      /\ out \in Queues(N, F) /\ KeepsPromise(a, out, after)
      /\ Ends(a, after) /\ Fitting(kind, out, after)
  BY DEF Takes, Handle, Rest
<1>2. /\ a \in Actors /\ status[a] = "running" /\ status \in [Actors -> Statuses] /\ Timed(F)
      /\ t0 \in Nat /\ Promise \in [Chans -> Int]
  BY <1>1, NextEarliest DEF Alive, Running, LinksTyped
<1>3. /\ after \in {"running", "done", "broke"} /\ (kind = "Close" <=> after = "done")
      /\ (kind = "Null" => after = "running") /\ (kind \in {"Null", "Close"} => Quiet(out))
      /\ after \in Statuses
  BY <1>1 DEF Fitting, Statuses
<1>4. /\ OnlyNow(a)
      /\ \A t \in Nat : Ways(F, queue, a)[t] # 0 => t0 <= t
      /\ kind # "Close" => Latest(Chans, heard', a) = t0 /\ Latest(Chans, heard', a) >= Latest(Chans, heard, a)
      /\ kind \notin {"Null", "Close"} => Ways(F, queue, a)[t0] # 0
  BY <1>1, TakesHears
<1>5. /\ q \in Queues(Chans, F) /\ (\A ch \in Chans : Len(q[ch]) <= QSize)
      /\ \A d : \A t \in Nat : Ways(F, q, d)[t] =
           IF d = a /\ kind \notin {"Null", "Close"} /\ t0 = t
           THEN Ways(F, queue, d)[t] - 1 ELSE Ways(F, queue, d)[t]
      /\ kind \in {"Null", "Close"} => \A d : Ways(F, q, d) = Ways(F, queue, d)
  BY <1>1, TakeWays
<1> HIDE DEF q
<1>6. /\ \A d : \A t \in Nat :
           /\ Ways(F, q, d)[t] <= Ways(F, q2, d)[t]
           /\ Ways(F, q, d)[t] # Ways(F, q2, d)[t] =>
                d \in DOMAIN out /\ \E i \in 1 .. Len(out[d]) : out[d][i] \in ModelsOf(F) /\ out[d][i].time = t
      /\ Quiet(out) => \A d : Ways(F, q2, d) = Ways(F, q, d)
  BY <1>1, <1>2, <1>3, <1>5, PushWays
<1>7. ASSUME kind \in {"Null", "Close"}
      PROVE  \A d : Ways(F, queue', d) = Ways(F, queue, d)
  BY <1>3, <1>5, <1>6, <1>7
<1> HIDE DEF kind
<1>8. CASE kind = "Null"
  <2>1. /\ Ends(a, "running") /\ Latest(Chans, heard', a) >= Latest(Chans, heard, a)
        /\ \A d \in Actors : Ways(F, queue', d) = Ways(F, queue, d)
    BY <1>1, <1>3, <1>4, <1>7, <1>8
  <2> QED  BY <1>1, <1>2, <1>4, <2>1, WaitsRule DEF Simulates
<1>9. CASE kind = "Close"
  <2>1. Ends(a, "done") /\ \A d : Ways(F, queue', d) = Ways(F, queue, d)
    BY <1>1, <1>3, <1>7, <1>9
  <2>2. t0 > Limit - 1
    BY <1>1, <1>3, <1>9, TakeReady DEF kind
  <2>3. \A t \in Nat : Ways(F, queue, a)[t] # 0 => t >= Limit
    BY <1>2, <1>4, <2>2, ConstantsTyped
  <2>4. \A t \in Nat : Ways(F, queue, a)[t] \in Nat
    BY <1>1, BagsAre
  <2>5. \A t \in Nat : Ways(F, queue', a)[t] <= Ways(F, queue, a)[t]
    BY <2>1, <2>4
  <2> QED  BY <1>1, <1>2, <1>4, <2>1, <2>3, <2>5, FinishesRule DEF Simulates
<1>10. CASE kind \notin {"Null", "Close"}
  <2>1. after \in {"running", "broke"}
    BY <1>3, <1>10
  <2>2. h2 \in [Chans -> Nat] /\ Past(Chans, h2, Alive, Promise)
    BY <1>1, TakesForward DEF LinksTyped, Times
  <2>3. \A d \in Actors : \A t \in Nat : k[d][t] = Ways(F, q, d)[t]
    BY <1>5, <1>10 DEF Less
  <2> HIDE DEF h2
  <2>4. ASSUME NEW d \in Actors, NEW t \in Nat, k[d][t] # Ways(F, q2, d)[t]
        PROVE  t >= Latest(Chans, h2, d) /\ (status[d] = "done" => t >= Limit)
    <3>1. d \in DOMAIN out /\ \E i \in 1 .. Len(out[d]) : out[d][i] \in ModelsOf(F) /\ out[d][i].time = t
      BY <1>6, <2>3, <2>4
    <3>2. PICK i \in 1 .. Len(out[d]) : out[d][i] \in ModelsOf(F) /\ out[d][i].time = t
      BY <3>1
    <3> QED  BY <1>1, <1>2, <2>2, <3>1, <3>2, InNobodysPast
  <2>5. \A d \in Actors : \A t \in Nat : k[d][t] <= Ways(F, q2, d)[t]
    BY <1>6, <2>3
  <2>6. HandlesAt(F, a, t0, k)
    BY <1>2, <1>4, <1>10, <2>4, <2>5 DEF HandlesAt, q2, h2
  <2> HIDE DEF k
  <2> QED  BY <1>1, <1>2, <1>4, <1>10, <2>1, <2>6, HandlesRule DEF Simulates
<1> QED  BY <1>8, <1>9, <1>10

(* Null messages change no count: a stall is a Waits.                       *)
LEMMA StallSimulates ==
  ASSUME IInv, Forward, NEW a \in Actors, NEW N, NEW out, NEW F, Stalls(a, N, out, F)
  PROVE  Simulates(a)
<1>1. /\ LinksTyped(F) /\ LinksTyped(F)' /\ status[a] = "running"
      /\ heard' = heard /\ Deliver(queue, a, out, "running")
      /\ out \in Queues(N, F) /\ Ends(a, "running") /\ Quiet(out)
  BY DEF Stalls, HandleStall
<1>2. /\ status \in [Actors -> Statuses] /\ Timed(F) /\ "running" \in Statuses
      /\ queue \in Queues(Chans, F) /\ (\A ch \in Chans : Len(queue[ch]) <= QSize)
      /\ heard \in [Chans -> Nat]
  BY <1>1 DEF LinksTyped, Times, Statuses
<1>3. \A d \in Actors : Ways(F, queue', d) = Ways(F, queue, d)
  BY <1>1, <1>2, PushWays
<1>4. OnlyNow(a)
  BY <1>1 DEF OnlyNow
<1>5. Latest(Chans, heard', a) >= Latest(Chans, heard, a)
  <2>1. ArePairs(Chans) /\ In(Chans, a) # {} /\ \A ch \in Chans : ch[2] = a => heard[ch] <= Limit
    BY <1>1, ChansCount DEF IInv, Alive, Running
  <2>2. Limit \in Nat
    BY ConstantsTyped
  <2>3. Latest(Chans, heard, a) \in Nat
    BY ONLY <1>2, <2>1, <2>2, LatestBounds
  <2> QED  BY <1>1, <2>3
<1> QED  BY <1>1, <1>3, <1>4, <1>5, WaitsRule DEF Simulates

(* A handler that fits the event it took is sound.                          *)
LEMMA TakeSound ==
  ASSUME IInv, IInv', Told => Told',
         NEW a, NEW b, NEW N, NEW out, NEW after, NEW F, Takes(b, a, N, out, after, F)
  PROVE  Sound(a)
  BY TakesForward, TakeSimulates DEF Sound

(* So is what a stalled actor pushes.                                       *)
LEMMA StallSound ==
  ASSUME IInv, IInv', Told => Told', NEW a \in Actors, NEW N, NEW out, NEW F, Stalls(a, N, out, F)
  PROVE  Sound(a)
  BY StallsForward, StallSimulates DEF Sound

(* What a step of actor a does to the times it keeps. *)
StepsOn(a) ==
  /\ \A g \in Hosts : tor_time[g] <= tor_time'[g] /\ (g # a => timeouts'[g] = timeouts[g])
  /\ \A r \in Routers : \A n \in Neighbours(r) : out_times[r][n] <= out_times'[r][n]
  /\ \A g \in Hosts : g # a => tor_time'[g] = tor_time[g]
  /\ \A r \in Routers : r # a => out_times'[r] = out_times[r]

(* A promise is as old as the time it is made of. *)
LEMMA SamePromise ==
  ASSUME NEW ch \in Chans, ch[1] # ch[2],
         ch[1] \in Hosts => tor_time'[ch[1]] = tor_time[ch[1]],
         ch[1] \in Routers => out_times'[ch[1]][ch[2]] = out_times[ch[1]][ch[2]]
  PROVE  Promise'[ch] = Promise[ch]
<1>1. ch[1] = World \/ ch[1] \in Hosts \/ (ch[1] \in Routers /\ ch[1] \notin Hosts)
  BY ChanKinds, NetTyped
<1> QED  BY <1>1 DEF Promise, PromiseOf

LEMMA StepStands ==
  ASSUME NEW a, StepsOn(a)
  PROVE  Stands(a)
<1> SUFFICES ASSUME NEW ch \in Chans, ch[1] # a, ch[1] # ch[2]  PROVE Promise'[ch] = Promise[ch]
  BY DEF Stands
<1>1. /\ ch[1] \in Hosts => tor_time'[ch[1]] = tor_time[ch[1]]
      /\ ch[1] \in Routers => out_times'[ch[1]][ch[2]] = out_times[ch[1]][ch[2]]
  BY DEF StepsOn
<1> QED  BY <1>1, SamePromise

(* A handler that pushes nothing to a neighbour, and promises nothing.      *)
LEMMA SpeaksNone ==
  ASSUME NEW a \in Actors, NEW out, \A n \in DOMAIN out : n = a, NEW after, after # "done",
         UNCHANGED <<out_times, tor_time>>
  PROVE  Speaks(a, out, after)
<1>1. ASSUME NEW n \in Actors, n # a, <<a, n>> \in Chans
      PROVE  Promise'[<<a, n>>] = Promise[<<a, n>>]
  BY <1>1, SamePromise
<1> QED  BY <1>1 DEF Speaks, SpeaksTo

(* One that pushes e to everybody in S, and promises as much. *)
LEMMA SpeaksEach ==
  ASSUME NEW a \in Actors, NEW S, NEW e, NEW out, out = [n \in S |-> <<e>>],
         \A n \in Actors : n # a /\ <<a, n>> \in Chans =>
            IF n \in S THEN Promise'[<<a, n>>] <= e.time ELSE Promise'[<<a, n>>] = Promise[<<a, n>>]
  PROVE  Speaks(a, out, "running")
<1>1. Len(<<e>>) = 1 /\ <<e>>[1] = e /\ <<e>> # <<>>
  OBVIOUS
<1>2. ASSUME NEW n \in Actors, n # a, <<a, n>> \in Chans
      PROVE  SpeaksTo(a, n, IF n \in DOMAIN out THEN out[n] ELSE <<>>, "running")
  <2>1. CASE n \in S
    <3>1. Promise'[<<a, n>>] <= e.time
      BY <1>2, <2>1
    <3>2. SpeaksTo(a, n, <<e>>, "running")
      BY <1>1, <3>1 DEF SpeaksTo
    <3> QED  BY <2>1, <3>2
  <2>2. CASE n \notin S
    <3>1. Promise'[<<a, n>>] = Promise[<<a, n>>]
      BY <1>2, <2>2
    <3>2. SpeaksTo(a, n, <<>>, "running")
      BY <3>1 DEF SpeaksTo
    <3> QED  BY <2>2, <3>2
  <2> QED  BY <2>1, <2>2
<1> QED  BY <1>2 DEF Speaks

(* The Close goes to all. *)
LEMMA SpeaksClose ==
  ASSUME NEW a \in Actors, NEW S, NEW e, e.kind = "Close", NEW out, out = [n \in S |-> <<e>>],
         \A n \in Actors : n # a /\ <<a, n>> \in Chans => n \in S
  PROVE  Speaks(a, out, "done")
<1>1. EndsInClose(<<e>>)
  BY DEF EndsInClose
<1>2. \A n \in Actors : n # a /\ <<a, n>> \in Chans => n \in DOMAIN out /\ out[n] = <<e>>
  OBVIOUS
<1> HIDE DEF EndsInClose
<1> QED  BY <1>1, <1>2 DEF Speaks, SpeaksTo

(* Server a has a Timeout ahead of it, as late as it promised. *)
ClockRuns(a) ==
  /\ Clock(a)'
  /\ queue'[<<a, a>>] # <<>>
  /\ Promise[<<a, a>>] <= queue'[<<a, a>>][1].time

(* The handler of an event from b keeps the invariants, and is a step of the *)
(* simulation.                                                               *)
LEMMA HandleKeeps ==
  ASSUME IInv, NEW a, NEW b, <<b, a>> \in Chans, IsNext(b, a), NEW after,
         NEW M, Timed(M), NEW N, NEW out \in Queues(N, M), KeepsPromise(a, out, after),
         Fitting(First(b, a).kind, out, after),
         Handle(b, a, out, after), Speaks(a, out, after), TimesTyped', StepsOn(a),
         a \in Hosts /\ after = "running" => ClockRuns(a)
  PROVE  Sound(a)
<1>1. PICK E : LinksTyped(E)
  BY DEF IInv
<1> DEFINE F == E \cup M
           q == [queue EXCEPT ![<<b, a>>] = Tail(@)]
           h == [heard EXCEPT ![<<b, a>>] = First(b, a).time]
<1>2. E \subseteq F /\ M \subseteq F
  OBVIOUS
<1>3. Timed(F)
  BY <1>1 DEF LinksTyped, Timed
<1>0. after \in Statuses /\ (after = "running" => First(b, a).kind # "Close")
  BY DEF Fitting, Statuses
<1> HIDE DEF F
<1>4. a \in Actors /\ a \in Alive /\ Ready(q, h, a, after, F)
  BY <1>0, <1>1, <1>2, TakeReady
<1>5. out \in Queues(N, F)
  BY <1>2, Wider
<1>6. Deliver(q, a, out, after) /\ heard' = h
  BY DEF Handle
<1>7. status[a] = "running"
  BY <1>4 DEF Alive, Running
<1>t. ASSUME Told
      PROVE  Tolds(q, h, Alive, Finished, StillAlive(a, after), Promise)
  <2> DEFINE c == <<b, a>>
             R == StillAlive(a, after)
  <2>1. /\ c \in Chans /\ c[2] = a /\ queue \in [Chans -> Seq(E)] /\ heard \in [Chans -> Nat]
        /\ queue[c] # <<>> /\ First(b, a) = Head(queue[c])
    BY <1>1, NextEarliest
  <2>2. R \subseteq Alive /\ (a \in R => First(b, a).kind # "Close")
    BY <1>0 DEF StillAlive
  <2>3. q = [queue EXCEPT ![c] = Tail(@)] /\ h = [heard EXCEPT ![c] = Head(queue[c]).time]
    BY <2>1
  <2> HIDE DEF c, R, q, h
  <2>4. Tolds(q, h, Alive, Finished, R, Promise)
    BY ONLY <1>t, <2>1, <2>2, <2>3, TakeTold
  <2> QED  BY <2>4 DEF R
<1> HIDE DEF q, h
<1>8. IInv' /\ LinksTyped(F)' /\ Ends(a, after) /\ Grows(a, after)
  BY <1>0, <1>3, <1>4, <1>5, <1>6, <1>7, StepKeeps DEF StepsOn, ClockRuns
<1>9. LinksTyped(F)
  BY <1>1, <1>2, <1>3, Wider DEF LinksTyped
<1>10. Takes(b, a, N, out, after, F)
  BY <1>5, <1>8, <1>9 DEF Takes
<1>11. ASSUME Told  PROVE Told'
  <2>1. Stands(a)
    BY StepStands
  <2>2. q \in Queues(Chans, F) /\ (\A ch \in Chans : Len(q[ch]) <= QSize) /\ status \in [Actors -> Statuses]
    BY <1>1, <1>4 DEF Ready, LinksTyped
  <2>3. Speaks(a, out, after)
    OBVIOUS
  <2>4. Tolds(q, h, Alive, Finished, StillAlive(a, after), Promise)
    BY <1>11, <1>t
  <2> QED  BY ONLY <1>0, <1>4, <1>5, <1>6, <1>7, <2>1, <2>2, <2>3, <2>4, StepTells
<1> QED  BY <1>8, <1>10, <1>11, TakeSound

(* So does the handler of Stalled. *)
LEMMA HandleStallKeeps ==
  ASSUME IInv, NEW a \in Actors, status[a] = "running",
         NEW M, Timed(M), NEW N, NEW out \in Queues(N, M), KeepsPromise(a, out, "running"), Quiet(out),
         HandleStall(a, out, "running"), Speaks(a, out, "running"), TimesTyped', StepsOn(a),
         a \in Hosts => ClockRuns(a)
  PROVE  Sound(a)
<1>1. PICK E : LinksTyped(E)
  BY DEF IInv
<1> DEFINE F == E \cup M
<1>2. E \subseteq F /\ M \subseteq F
  OBVIOUS
<1>3. Timed(F)
  BY <1>1 DEF LinksTyped, Timed
<1> HIDE DEF F
<1>0. "running" \in Statuses
  BY DEF Statuses
<1>4. Ready(queue, heard, a, "running", F)
  BY <1>0, <1>1, <1>2, StallReady
<1>5. out \in Queues(N, F)
  BY <1>2, Wider
<1>6. Deliver(queue, a, out, "running") /\ heard' = heard
  BY DEF HandleStall
<1>7. IInv' /\ LinksTyped(F)' /\ Ends(a, "running") /\ Grows(a, "running")
  BY <1>0, <1>3, <1>4, <1>5, <1>6, StepKeeps DEF StepsOn, ClockRuns
<1>8. LinksTyped(F)
  BY <1>1, <1>2, <1>3, Wider DEF LinksTyped
<1>9. Stalls(a, N, out, F)
  BY <1>5, <1>7, <1>8 DEF Stalls
<1>10. ASSUME Told  PROVE Told'
  <2>1. Stands(a)
    BY StepStands
  <2>2. queue \in Queues(Chans, F) /\ (\A ch \in Chans : Len(queue[ch]) <= QSize) /\ status \in [Actors -> Statuses]
    BY <1>1, <1>4 DEF Ready, LinksTyped
  <2>3. Speaks(a, out, "running") /\ a \in Actors /\ status[a] = "running"
    OBVIOUS
  <2>4. Tolds(queue, heard, Alive, Finished, StillAlive(a, "running"), Promise)
    BY <1>10 DEF Told, StillAlive
  <2> QED  BY ONLY <1>0, <1>5, <1>6, <2>1, <2>2, <2>3, <2>4, StepTells
<1> QED  BY <1>7, <1>9, <1>10, StallSound

(* The queue of a server to itself after its handler. *)
LEMMA OwnQueue ==
  ASSUME status \in [Actors -> Statuses], NEW a \in Hosts, status[a] = "running", NEW after \in Statuses,
         NEW Ev, NEW q \in Queues(Chans, Ev), \A ch \in Chans : Len(q[ch]) <= QSize,
         NEW N, NEW out \in Queues(N, Ev), Deliver(q, a, out, after)
  PROVE  /\ queue' \in Queues(Chans, Ev)
         /\ a \notin N \/ Len(out[a]) = 0 =>
              /\ Len(queue'[<<a, a>>]) = Len(q[<<a, a>>])
              /\ \A i \in 1 .. Len(q[<<a, a>>]) : queue'[<<a, a>>][i] = q[<<a, a>>][i]
         /\ a \in N /\ Len(out[a]) = 1 /\ Len(q[<<a, a>>]) = 0 =>
              Len(queue'[<<a, a>>]) = 1 /\ queue'[<<a, a>>][1] = out[a][1]
<1> USE ConstantsTyped
<1> DEFINE D == From(a, N)
           o == Along(a, N, out)
           c == <<a, a>>
<1>1. a \in Actors /\ c \in Chans /\ (c \in D <=> a \in N) /\ (c \in D => o[c] = out[a])
  BY NetTyped, ChanNames DEF From, Along
<1>2. IsPush(Chans, q, D, o, QSize, queue') /\ queue' \in Queues(Chans, Ev)
  BY <1>1, DeliverShape
<1> HIDE DEF D, o, c
<1>3. Len(q[c]) <= QSize /\ queue'[c] = IF c \in D THEN Pushed(q[c], o[c], QSize) ELSE q[c]
  BY <1>1, <1>2 DEF IsPush
<1>4. q[c] \in Seq(Ev) /\ (c \in D => out[a] \in Seq(Ev)) /\ QSize \in Nat \ {0}
  BY <1>1 DEF Queues
<1>5. CASE c \notin D
  <2>1. a \notin N /\ queue'[c] = q[c]
    BY <1>1, <1>3, <1>5
  <2> QED  BY <1>2, <2>1 DEF c
<1>6. CASE c \in D
  <2> DEFINE p == Pushed(q[c], out[a], QSize)
             k == Fits(q[c], out[a], QSize)
  <2>2. queue'[c] = p
    BY <1>1, <1>3, <1>6
  <2>0. /\ q[c] \in Seq(Ev) /\ out[a] \in Seq(Ev) /\ QSize \in Nat \ {0} /\ Len(q[c]) <= QSize
        /\ p = Pushed(q[c], out[a], QSize) /\ k = Fits(q[c], out[a], QSize)
    BY <1>3, <1>4, <1>6
  <2> HIDE DEF p, k
  <2>1. /\ Len(out[a]) <= QSize - Len(q[c]) => k = Len(out[a])
        /\ IsPushed(p, k, q[c], out[a])
    BY ONLY <2>0, PushedSeq
  <2>3. /\ k \in 0 .. Len(out[a]) /\ Len(p) = Len(q[c]) + k
        /\ \A i \in 1 .. Len(q[c]) : p[i] = q[c][i]
        /\ \A i \in Len(q[c]) + 1 .. Len(q[c]) + k : p[i] = out[a][i - Len(q[c])]
    BY <2>1 DEF IsPushed
  <2>4. Len(q[c]) \in Nat /\ Len(out[a]) \in Nat
    BY <1>4, <1>6, LenProperties
  <2>5. ASSUME Len(out[a]) = 0
        PROVE  Len(p) = Len(q[c])
    BY ONLY <2>3, <2>4, <2>5
  <2>6. ASSUME Len(out[a]) = 1, Len(q[c]) = 0
        PROVE  Len(p) = 1 /\ p[1] = out[a][1]
    <3>1. k = 1
      BY ONLY <1>4, <2>1, <2>6
    <3>2. 1 \in Len(q[c]) + 1 .. Len(q[c]) + k /\ 1 - Len(q[c]) = 1 /\ Len(q[c]) + k = 1
      BY ONLY <2>6, <3>1
    <3> QED  BY <2>3, <3>2
  <2> QED  BY <1>1, <1>2, <1>6, <2>2, <2>3, <2>5, <2>6 DEF c
<1> QED  BY <1>5, <1>6

(* One event pushed between the old promise and the new one.                *)
LEMMA KeepsOne ==
  ASSUME NEW a, NEW n, NEW after, NEW e, e.time \in Nat, <<a, n>> \in Chans,
         e.kind # "Close" => Promise[<<a, n>>] <= e.time /\ e.time <= Promise'[<<a, n>>],
         e.kind = "Close" => after # "running" /\ e.time > Limit - 1,
         e.kind = "Timeout" => n = a
  PROVE  KeepsLink(a, n, <<e>>, after)
<1>1. \A i \in 1 .. 1 : i = 1
  OBVIOUS
<1>2. /\ Len(<<e>>) = 1 /\ <<e>>[1] = e /\ CloseLast(<<e>>)
      /\ \A lo, hi : (e.kind # "Close" => lo <= e.time /\ e.time <= hi) => Between(<<e>>, lo, hi)
  BY OneEvent
<1>3. Between(<<e>>, Promise[<<a, n>>], Promise'[<<a, n>>])
  BY <1>2
<1>4. \A i \in 1 .. Len(<<e>>) : <<e>>[i] = e
  BY <1>1, <1>2
<1> QED  BY <1>2, <1>3, <1>4 DEF KeepsLink

(* The same event to everybody in S. *)
LEMMA KeepsEach ==
  ASSUME NEW a, NEW S, NEW after, NEW e, e.time \in Nat,
         \A n \in S :
           /\ <<a, n>> \in Chans
           /\ e.kind # "Close" => Promise[<<a, n>>] <= e.time /\ e.time <= Promise'[<<a, n>>],
         e.kind = "Close" => after # "running" /\ e.time > Limit - 1,
         e.kind # "Timeout",
         NEW out, out = [n \in S |-> <<e>>]
  PROVE  out \in Queues(S, {e}) /\ Timed({e}) /\ KeepsPromise(a, out, after)
<1>1. <<e>> \in Seq({e}) /\ Timed({e})
  BY OneEvent
<1>2. out \in Queues(S, {e})
  BY <1>1 DEF Queues
<1>3. \A n \in S : KeepsLink(a, n, <<e>>, after)
  BY KeepsOne
<1> QED  BY <1>1, <1>2, <1>3 DEF KeepsPromise

(* The same null message or Close to everybody.                             *)
LEMMA QuietEach ==
  ASSUME NEW S, NEW e, NEW out, out = [n \in S |-> <<e>>], e.kind \in {"Null", "Close"}
  PROVE  Quiet(out)
<1>1. \A i \in 1 .. Len(<<e>>) : <<e>>[i] = e
  OBVIOUS
<1> QED  BY <1>1 DEF Quiet

(* A handler that pushes nothing.                                           *)
LEMMA KeepsNone ==
  ASSUME NEW a, NEW after
  PROVE  Nothing \in Queues({}, {}) /\ Timed({}) /\ KeepsPromise(a, Nothing, after) /\ Quiet(Nothing)
  BY DEF Nothing, Queues, Timed, KeepsPromise, Quiet

(* A server handles an event that is no Timeout and says nothing to itself. *)
LEMMA HostKeeps ==
  ASSUME IInv, NEW a \in Hosts, NEW b, <<b, a>> \in Chans, IsNext(b, a),
         First(b, a).kind \notin {"Close", "Timeout"},
         NEW M, Timed(M), NEW N, NEW out \in Queues(N, M), KeepsPromise(a, out, "running"),
         First(b, a).kind = "Null" => Quiet(out),
         a \notin N \/ Len(out[a]) = 0,
         Handle(b, a, out, "running"), Speaks(a, out, "running"), TimesTyped', StepsOn(a),
         \A x \in timeouts'[a] : x \in timeouts[a] \/ x[1] = First(b, a).time + MinRto
  PROVE  Sound(a)
<1> USE ConstantsTyped
<1> DEFINE q == [queue EXCEPT ![<<b, a>>] = Tail(@)]
           h == [heard EXCEPT ![<<b, a>>] = First(b, a).time]
           c == <<a, a>>
           now == First(b, a).time
<1>1. PICK E : LinksTyped(E)
  BY DEF IInv
<1> DEFINE F == E \cup M
<1>2. E \subseteq F /\ M \subseteq F
  OBVIOUS
<1> HIDE DEF F
<1>3. /\ a \in Alive /\ First(b, a) = queue[<<b, a>>][1] /\ now \in Nat
      /\ \A d \in Chans : d[2] = a => heard[d] <= now
      /\ Ready(q, h, a, "running", F)
  BY <1>1, <1>2, TakeReady
<1>4. c \in Chans /\ c[2] = a /\ a \in Actors
  BY ChanNames, NetTyped
<1>5. Clock(a)
  BY <1>3 DEF IInv
<1>6. /\ Len(queue[c]) = 1 /\ queue[c][1].kind = "Timeout"
      /\ queue[c][1].time <= heard[c] + MinRto
      /\ \A x \in timeouts[a] : queue[c][1].time <= x[1]
  BY <1>5 DEF Clock
<1>7. b # a
  BY <1>3, <1>6
<1>8. queue \in [Chans -> Seq(E)] /\ heard \in [Chans -> Nat] /\ Timed(E)
      /\ status \in [Actors -> Statuses]
  BY <1>1 DEF LinksTyped, Queues, Times
<1>9. q[c] = queue[c] /\ h[c] = heard[c]
  BY <1>4, <1>7, <1>8
<1>10. Handle(b, a, out, "running") => Deliver(q, a, out, "running") /\ heard' = h
  BY DEF Handle
<1> HIDE DEF q, h
<1>11. q \in Queues(Chans, F) /\ \A ch \in Chans : Len(q[ch]) <= QSize
  BY <1>3 DEF Ready
<1>12. out \in Queues(N, F) /\ "running" \in Statuses /\ status[a] = "running"
  BY <1>2, <1>3, Wider DEF Statuses, Alive, Running
<1>13. Len(queue'[c]) = Len(q[c]) /\ \A i \in 1 .. Len(q[c]) : queue'[c][i] = q[c][i]
  <2>1. /\ a \in Hosts /\ (a \notin N \/ Len(out[a]) = 0)
        /\ Deliver(q, a, out, "running") /\ status \in [Actors -> Statuses]
    BY <1>8, <1>10
  <2> QED  BY ONLY <1>11, <1>12, <2>1, OwnQueue
<1>14. Len(queue'[c]) = 1 /\ queue'[c][1] = queue[c][1] /\ heard'[c] = heard[c]
  <2>1. 1 \in 1 .. 1
    OBVIOUS
  <2> QED  BY <1>6, <1>9, <1>10, <1>13, <2>1
<1>15. /\ queue[c][1].time \in Nat /\ heard[c] \in Nat /\ heard[c] <= now
       /\ queue[c] # <<>>
  <2>1. queue[c] \in Seq(E) /\ 1 \in 1 .. Len(queue[c])
    BY <1>4, <1>6, <1>8
  <2>2. queue[c] # <<>>
    BY <1>6
  <2> QED  BY <1>3, <1>4, <1>8, <2>1, <2>2, ElementOfSeq DEF Timed
<1>16. queue[c][1].time <= now + MinRto
  <2>1. MinRto \in Nat /\ now \in Nat
    BY <1>3
  <2> HIDE DEF now
  <2> QED  BY ONLY <1>6, <1>15, <2>1
<1>17. \A x \in timeouts'[a] : queue[c][1].time <= x[1]
  BY <1>6, <1>16
<1>18. Clock(a)'
  BY <1>6, <1>14, <1>17 DEF Clock
<1>19. Promise[c] = queue[c][1].time
  BY <1>15, Promises
<1>20. queue'[c] # <<>> /\ Promise[c] <= queue'[c][1].time
  BY <1>14, <1>15, <1>19
<1>21. ClockRuns(a)
  BY <1>18, <1>20 DEF ClockRuns
<1>22. Fitting(First(b, a).kind, out, "running")
  BY DEF Fitting
<1> QED  BY <1>21, <1>22, HandleKeeps

(* A Timeout is the server's own, and no timer is earlier. *)
LEMMA OwnTimeout ==
  ASSUME IInv, NEW a \in Hosts, NEW b, <<b, a>> \in Chans, IsNext(b, a),
         First(b, a).kind = "Timeout"
  PROVE  /\ b = a /\ First(b, a).time \in Nat
         /\ \A x \in timeouts[a] : x[1] \in Nat /\ First(b, a).time <= x[1]
<1>1. PICK E : LinksTyped(E)
  BY DEF IInv
<1>2. /\ a \in Alive /\ queue[<<b, a>>] # <<>> /\ First(b, a) = queue[<<b, a>>][1]
      /\ First(b, a).time \in Nat
  BY <1>1, TakeReady
<1>3. b = a
  <2> SUFFICES ASSUME b # a  PROVE FALSE
    OBVIOUS
  <2>1. queue[<<b, a>>] \in Seq(E)
    BY <1>1 DEF LinksTyped, Queues
  <2>2. 1 \in 1 .. Len(queue[<<b, a>>])
    BY <1>2, <2>1, EmptySeq
  <2>3. <<b, a>>[1] # <<b, a>>[2]
    OBVIOUS
  <2> QED  BY <1>2, <2>2, <2>3 DEF IInv, OwnTimeouts
<1>4. \A x \in timeouts[a] : x[1] \in Nat
  BY DEF IInv, TimesTyped
<1>5. \A x \in timeouts[a] : First(b, a).time <= x[1]
  BY <1>2, <1>3 DEF IInv, Clock
<1> QED  BY <1>2, <1>3, <1>4, <1>5

(* A server handles a Timeout and sets the next one, at u. *)
LEMMA HostTimeoutKeeps ==
  ASSUME IInv, NEW a \in Hosts, NEW b, <<b, a>> \in Chans, IsNext(b, a),
         First(b, a).kind = "Timeout",
         NEW u \in Nat, First(b, a).time <= u, u <= First(b, a).time + MinRto,
         NEW M, Timed(M), NEW N, NEW out \in Queues(N, M),
         a \in N, out[a] = <<TimeoutAt(u)>>,
         \A n \in N : n # a => KeepsLink(a, n, out[n], "running"),
         Handle(b, a, out, "running"), Speaks(a, out, "running"), TimesTyped', StepsOn(a),
         \A x \in timeouts'[a] : u <= x[1]
  PROVE  Sound(a)
<1> USE ConstantsTyped
<1> DEFINE q == [queue EXCEPT ![<<b, a>>] = Tail(@)]
           h == [heard EXCEPT ![<<b, a>>] = First(b, a).time]
           c == <<a, a>>
           now == First(b, a).time
<1>1. PICK E : LinksTyped(E)
  BY DEF IInv
<1> DEFINE F == E \cup M
<1>2. E \subseteq F /\ M \subseteq F
  OBVIOUS
<1> HIDE DEF F
<1>3. /\ a \in Alive /\ queue[<<b, a>>] # <<>> /\ First(b, a) = queue[<<b, a>>][1] /\ now \in Nat
      /\ Ready(q, h, a, "running", F)
  BY <1>1, <1>2, TakeReady
<1>4. c \in Chans /\ c[2] = a /\ a \in Actors
  BY ChanNames, NetTyped
<1>5. queue \in [Chans -> Seq(E)] /\ heard \in [Chans -> Nat] /\ Timed(E)
      /\ status \in [Actors -> Statuses]
  BY <1>1 DEF LinksTyped, Queues, Times
<1>6. b = a
  BY OwnTimeout
<1>7. Len(queue[c]) = 1 /\ queue[c] # <<>> /\ queue[c] \in Seq(E)
  BY <1>3, <1>4, <1>5, <1>6 DEF IInv, Clock
<1>8. q[c] = Tail(queue[c]) /\ h[c] = now
  BY <1>4, <1>5, <1>6
<1>9. Len(q[c]) = 0
  <2>1. Len(Tail(queue[c])) = Len(queue[c]) - 1
    BY <1>7, HeadTailProperties
  <2>2. q[c] = Tail(queue[c]) /\ Len(queue[c]) = 1
    BY <1>7, <1>8
  <2> HIDE DEF q
  <2> QED  BY ONLY <2>1, <2>2
<1>10. Deliver(q, a, out, "running") /\ heard' = h
  BY DEF Handle
<1> HIDE DEF q, h
<1>11. q \in Queues(Chans, F) /\ \A ch \in Chans : Len(q[ch]) <= QSize
  BY <1>3 DEF Ready
<1>12. out \in Queues(N, F) /\ "running" \in Statuses /\ status[a] = "running"
  BY <1>2, <1>3, Wider DEF Statuses, Alive, Running
<1>13. /\ TimeoutAt(u).time = u /\ TimeoutAt(u).kind = "Timeout"
       /\ Len(out[a]) = 1 /\ out[a][1] = TimeoutAt(u)
  <2>1. TimeoutAt(u).time = u /\ TimeoutAt(u).kind = "Timeout"
    BY DEF TimeoutAt
  <2> QED  BY <2>1, OneEvent
<1>14. Len(queue'[c]) = 1 /\ queue'[c][1] = TimeoutAt(u) /\ queue' \in Queues(Chans, F)
  <2>1. a \in Hosts /\ a \in N /\ status \in [Actors -> Statuses]
    BY <1>5
  <2> QED  BY ONLY <1>9, <1>10, <1>11, <1>12, <1>13, <2>1, OwnQueue
<1>15. queue'[c] # <<>>
  BY <1>14
<1>16. Promise[c] = now /\ Promise'[c] = u
  BY <1>3, <1>6, <1>13, <1>14, <1>15, Promises
<1>17. KeepsLink(a, a, out[a], "running")
  BY <1>4, <1>13, <1>16, KeepsOne
<1>18. KeepsPromise(a, out, "running")
  BY <1>17 DEF KeepsPromise, Queues
<1>19. Clock(a)'
  <2>1. heard'[c] = now
    BY <1>8, <1>10
  <2> QED  BY <1>13, <1>14, <2>1 DEF Clock
<1>20. ClockRuns(a)
  BY <1>13, <1>14, <1>15, <1>16, <1>19 DEF ClockRuns
<1>21. Fitting(First(b, a).kind, out, "running")
  BY DEF Fitting
<1> QED  BY <1>18, <1>20, <1>21, HandleKeeps

-----------------------------------------------------------------------------
(* The times of actors that only their own handlers change *)

LEMMA SameTimes ==
  ASSUME TimesTyped, NEW a, count' \in [Actors -> Nat], UNCHANGED <<out_times, tor_time, timeouts>>
  PROVE  TimesTyped' /\ StepsOn(a)
<1>1. TimesTyped'
  BY DEF TimesTyped
<1>2. \A g \in Hosts : tor_time[g] \in Nat
  BY DEF TimesTyped
<1>3. \A r \in Routers : \A n \in Neighbours(r) : out_times[r][n] \in Nat
  BY DEF TimesTyped
<1> QED  BY <1>1, <1>2, <1>3 DEF StepsOn

LEMMA HostTimes ==
  ASSUME TimesTyped, NEW a \in Hosts, count' \in [Actors -> Nat], UNCHANGED out_times,
         NEW T \in Nat, tor_time' = [tor_time EXCEPT ![a] = T], tor_time[a] <= T,
         NEW S, timeouts' = [timeouts EXCEPT ![a] = S], \A x \in S : x[1] \in Nat
  PROVE  TimesTyped' /\ StepsOn(a) /\ tor_time'[a] = T /\ timeouts'[a] = S
<1>1. /\ tor_time \in [Hosts -> Nat] /\ timeouts = [h \in Hosts |-> timeouts[h]]
      /\ \A h \in Hosts : \A x \in timeouts[h] : x[1] \in Nat
      /\ out_times = [r \in Routers |-> out_times[r]]
      /\ \A r \in Routers : out_times[r] \in [Neighbours(r) -> Nat]
  BY DEF TimesTyped
<1>2. tor_time' \in [Hosts -> Nat] /\ tor_time'[a] = T /\ \A g \in Hosts : g # a => tor_time'[g] = tor_time[g]
  BY <1>1
<1>3. timeouts'[a] = S /\ \A g \in Hosts : g # a => timeouts'[g] = timeouts[g]
  BY <1>1
<1>4. DOMAIN timeouts' = Hosts /\ timeouts' = [h \in Hosts |-> timeouts'[h]]
  BY <1>1
<1>5. TimesTyped'
  BY <1>1, <1>2, <1>3, <1>4 DEF TimesTyped
<1>6. \A g \in Hosts : tor_time[g] <= tor_time'[g]
  <2> TAKE g \in Hosts
  <2>1. tor_time[g] \in Nat
    BY <1>1
  <2> QED  BY <1>2, <2>1
<1>7. \A r \in Routers : \A n \in Neighbours(r) : out_times[r][n] <= out_times'[r][n]
  <2> TAKE r \in Routers
  <2> TAKE n \in Neighbours(r)
  <2>1. out_times[r][n] \in Nat
    BY <1>1
  <2> QED  BY <2>1
<1> QED  BY <1>2, <1>3, <1>5, <1>6, <1>7 DEF StepsOn

LEMMA RouterTimes ==
  ASSUME TimesTyped, NEW r \in Routers, count' \in [Actors -> Nat], UNCHANGED <<tor_time, timeouts>>,
         NEW X \in [Neighbours(r) -> Nat], out_times' = [out_times EXCEPT ![r] = X],
         \A n \in Neighbours(r) : out_times[r][n] <= X[n]
  PROVE  TimesTyped' /\ StepsOn(r) /\ out_times'[r] = X
<1>1. /\ tor_time \in [Hosts -> Nat] /\ timeouts = [h \in Hosts |-> timeouts[h]]
      /\ \A h \in Hosts : \A x \in timeouts[h] : x[1] \in Nat
      /\ out_times = [g \in Routers |-> out_times[g]]
      /\ \A g \in Routers : out_times[g] \in [Neighbours(g) -> Nat]
  BY DEF TimesTyped
<1>2. out_times'[r] = X /\ \A g \in Routers : g # r => out_times'[g] = out_times[g]
  BY <1>1
<1>3. out_times' = [g \in Routers |-> out_times'[g]]
  BY <1>1
<1>4. TimesTyped'
  <2>1. \A g \in Routers : out_times'[g] \in [Neighbours(g) -> Nat]
    BY <1>1, <1>2
  <2> QED  BY <1>1, <1>3, <2>1 DEF TimesTyped
<1>5. \A g \in Hosts : tor_time[g] <= tor_time'[g] /\ timeouts'[g] = timeouts[g]
  <2> TAKE g \in Hosts
  <2>1. tor_time[g] \in Nat
    BY <1>1
  <2> QED  BY <2>1
<1>6. \A g \in Routers : \A n \in Neighbours(g) : out_times[g][n] <= out_times'[g][n]
  <2> TAKE g \in Routers
  <2> TAKE n \in Neighbours(g)
  <2>1. out_times[g][n] \in Nat
    BY <1>1
  <2> QED  BY <1>2, <2>1
<1> QED  BY <1>2, <1>4, <1>5, <1>6 DEF StepsOn

LEMMA CountTyped ==
  ASSUME TimesTyped, NEW a \in Actors, Counted(a) \/ UNCHANGED count
  PROVE  count' \in [Actors -> Nat]
  BY DEF TimesTyped, Counted

-----------------------------------------------------------------------------
(* One lemma per action *)

LEMMA TakeNullKeeps ==
  ASSUME IInv, NEW a, NEW b, <<b, a>> \in Chans, TakeNull(b, a),
         UNCHANGED <<count, out_times, serverVars>>
  PROVE  Sound(a)
<1>1. a \in Actors /\ IsNext(b, a) /\ First(b, a).kind = "Null" /\ Handle(b, a, Nothing, "running")
  BY ChanKinds DEF TakeNull
<1>2. Nothing \in Queues({}, {}) /\ Timed({}) /\ KeepsPromise(a, Nothing, "running") /\ Quiet(Nothing)
  BY KeepsNone
<1>3. TimesTyped /\ count' \in [Actors -> Nat] /\ UNCHANGED <<out_times, tor_time, timeouts>>
  BY DEF IInv, TimesTyped, serverVars
<1>4. TimesTyped' /\ StepsOn(a)
  BY <1>3, SameTimes
<1>5. Fitting(First(b, a).kind, Nothing, "running")
  BY <1>1, <1>2 DEF Fitting
<1>s. Speaks(a, Nothing, "running")
  BY <1>1, <1>3, SpeaksNone DEF Nothing
<1>6. CASE a \in Hosts
  <2>1. First(b, a).kind \notin {"Close", "Timeout"}
    BY <1>1
  <2>2. \A x \in timeouts'[a] : x \in timeouts[a]
    BY <1>3
  <2> QED  BY <1>1, <1>2, <1>4, <1>6, <1>s, <2>1, <2>2, HostKeeps
<1>7. CASE a \notin Hosts
  BY <1>1, <1>2, <1>4, <1>5, <1>7, <1>s, HandleKeeps
<1> QED  BY <1>6, <1>7

LEMMA TxTimes ==
  ASSUME NEW p
  PROVE  TxTime(SizeByte(p)) \in Nat /\ TxTime(BytesPerPacket) \in Nat /\ TxTime(AckBytes) \in Nat
<1>1. \A n \in Nat : TxTime(n) \in Nat
  <2> TAKE n \in Nat
  <2>1. 8 * n \in Nat /\ Bandwidth \in Nat \ {0}
    BY ConstantsTyped
  <2> QED  BY <2>1, DivNat DEF TxTime
<1>2. BytesPerPacket \in Nat /\ AckBytes \in Nat
  BY ConstantsTyped
<1>3. SizeByte(p) \in Nat
  BY <1>2 DEF SizeByte
<1> QED  BY <1>1, <1>2, <1>3

LEMMA RouterStallKeeps ==
  ASSUME IInv, NEW r \in Routers, NEW b, <<b, r>> \in Chans, NEW t \in Nat,
         RouterStall(t, b, r), UNCHANGED serverVars
  PROVE  Sound(r)
<1> USE ConstantsTyped
<1> DEFINE late == Late(t, r)
           X    == [n \in Neighbours(r) |-> IF n \in late THEN t ELSE out_times[r][n]]
           e    == Null(t + Latency)
           out  == [n \in late |-> <<e>>]
<1>0. late = {n \in Neighbours(r) : out_times[r][n] < t}
  BY DEF Late
<1>1. /\ status[r] = "running" /\ r \in Actors /\ r \notin Hosts
      /\ out_times' = [out_times EXCEPT ![r] = X]
      /\ HandleStall(r, out, "running")
      /\ UNCHANGED <<count, tor_time, timeouts>>
  BY NetTyped DEF RouterStall, StallsAt, serverVars
<1>2. TimesTyped /\ out_times[r] \in [Neighbours(r) -> Nat] /\ count' \in [Actors -> Nat]
  BY <1>1 DEF IInv, TimesTyped
<1>3. X \in [Neighbours(r) -> Nat] /\ \A n \in Neighbours(r) : out_times[r][n] <= X[n]
  <2>1. \A n \in Neighbours(r) : out_times[r][n] \in Nat
    BY <1>2
  <2> QED  BY <1>0, <2>1
<1>4. TimesTyped' /\ StepsOn(r) /\ out_times'[r] = X
  <2> HIDE DEF X
  <2> QED  BY <1>1, <1>2, <1>3, RouterTimes
<1>5. e.time = t + Latency /\ e.kind = "Null" /\ e.time \in Nat
  BY DEF Null
<1>s. ASSUME NEW n \in Actors, n # r, <<r, n>> \in Chans
      PROVE  IF n \in late THEN Promise'[<<r, n>>] <= e.time ELSE Promise'[<<r, n>>] = Promise[<<r, n>>]
  <2>1. n \in Neighbours(r) /\ r # World
    BY <1>1, <1>s, ChanKinds, NetTyped
  <2>2. Promise'[<<r, n>>] = out_times'[r][n] + Latency /\ Promise[<<r, n>>] = out_times[r][n] + Latency
    BY <2>1, Promises
  <2>3. out_times'[r][n] = IF n \in late THEN t ELSE out_times[r][n]
    BY <1>4, <2>1
  <2>4. t + Latency <= t + Latency
    OBVIOUS
  <2> HIDE DEF e, late
  <2> QED  BY ONLY <1>5, <2>2, <2>3, <2>4
<1>6. \A n \in late : /\ <<r, n>> \in Chans
                      /\ Promise[<<r, n>>] <= e.time /\ e.time <= Promise'[<<r, n>>]
  <2> TAKE n \in late
  <2>0. n \in Neighbours(r) /\ out_times[r][n] < t
    BY <1>0
  <2>1. /\ Promise[<<r, n>>] = out_times[r][n] + Latency
        /\ Promise'[<<r, n>>] = out_times'[r][n] + Latency
    BY <2>0, Promises
  <2>2. out_times[r][n] < t /\ out_times[r][n] \in Nat /\ out_times'[r][n] = t
    BY <1>2, <1>4, <2>0
  <2>3. Latency \in Nat /\ t \in Nat
    OBVIOUS
  <2>4. Promise[<<r, n>>] <= t + Latency /\ t + Latency <= Promise'[<<r, n>>]
    BY ONLY <2>1, <2>2, <2>3
  <2> QED  BY <1>5, <2>0, <2>4, ChanNames
<1> HIDE DEF e, late
<1>q. Quiet(out)
  <2> HIDE DEF e
  <2>1. e.kind \in {"Null", "Close"}
    BY <1>5
  <2>2. out = [n \in late |-> <<e>>]
    OBVIOUS
  <2> HIDE DEF out
  <2> QED  BY ONLY <2>1, <2>2, QuietEach
<1>7. out \in Queues(late, {e}) /\ Timed({e}) /\ KeepsPromise(r, out, "running")
  BY <1>5, <1>6, KeepsEach
<1>8. Speaks(r, out, "running")
  <2>1. r \in Actors /\ out = [n \in late |-> <<e>>]
    BY <1>1
  <2> HIDE DEF out
  <2> QED  BY ONLY <1>s, <2>1, SpeaksEach
<1> QED  BY <1>1, <1>4, <1>7, <1>8, <1>q, HandleStallKeeps

LEMMA RouterCloseKeeps ==
  ASSUME IInv, NEW r \in Routers, NEW b, <<b, r>> \in Chans, RouterClose(b, r), UNCHANGED serverVars
  PROVE  Sound(r)
<1> USE ConstantsTyped
<1> DEFINE e   == Close(First(b, r).time + Latency)
           out == [n \in Neighbours(r) |-> <<e>>]
<1>1. /\ IsNext(b, r) /\ First(b, r).kind = "Close" /\ r \in Actors /\ r \notin Hosts
      /\ Handle(b, r, out, "done")
      /\ UNCHANGED <<count, out_times, tor_time, timeouts>>
  BY NetTyped DEF RouterClose, serverVars
<1>2. TimesTyped' /\ StepsOn(r)
  <2>1. TimesTyped /\ count' \in [Actors -> Nat]
    BY <1>1 DEF IInv, TimesTyped
  <2> QED  BY <1>1, <2>1, SameTimes
<1>3. First(b, r).time \in Nat /\ First(b, r).time > Limit - 1
  <2>1. PICK E : LinksTyped(E)
    BY DEF IInv
  <2> QED  BY <1>1, <2>1, TakeReady
<1>4. e.time \in Nat /\ e.kind = "Close" /\ e.time > Limit - 1
  BY <1>3 DEF Close
<1>5. \A n \in Neighbours(r) : <<r, n>> \in Chans
  BY ChanNames
<1>q. Quiet(out)
  <2> HIDE DEF e
  <2>1. e.kind \in {"Null", "Close"}
    BY <1>4
  <2>2. out = [n \in Neighbours(r) |-> <<e>>]
    OBVIOUS
  <2> HIDE DEF out
  <2> QED  BY ONLY <2>1, <2>2, QuietEach
<1>6. out \in Queues(Neighbours(r), {e}) /\ Timed({e}) /\ KeepsPromise(r, out, "done")
  <2> HIDE DEF e
  <2> QED  BY <1>4, <1>5, KeepsEach
<1>7. Fitting(First(b, r).kind, out, "done")
  BY <1>1, <1>q DEF Fitting
<1>8. Speaks(r, out, "done")
  <2>1. \A n \in Actors : n # r /\ <<r, n>> \in Chans => n \in Neighbours(r)
    BY <1>1, ChanKinds, NetTyped
  <2>2. r \in Actors /\ e.kind = "Close" /\ out = [n \in Neighbours(r) |-> <<e>>]
    BY <1>1, <1>4
  <2> HIDE DEF e, out
  <2> QED  BY ONLY <2>1, <2>2, SpeaksClose
<1> HIDE DEF out, e
<1> QED  BY <1>1, <1>2, <1>6, <1>7, <1>8, HandleKeeps

(* A packet is dropped, or costs the router its queue. *)
LEMMA RouterDropKeeps ==
  ASSUME IInv, NEW r \in Routers, NEW b, <<b, r>> \in Chans, NEW n \in Neighbours(r),
         RouterDrop(b, r, n) \/ RouterFull(b, r, n), UNCHANGED serverVars
  PROVE  Sound(r)
<1>1. /\ IsNext(b, r) /\ First(b, r).kind = "Packet" /\ r \in Actors /\ r \notin Hosts /\ Counted(r)
      /\ Handle(b, r, Nothing, "running") \/ Handle(b, r, Nothing, "broke")
      /\ UNCHANGED <<out_times, tor_time, timeouts>>
  BY NetTyped DEF RouterDrop, RouterFull, Routed, serverVars
<1>2. TimesTyped' /\ StepsOn(r)
  <2>1. TimesTyped
    BY DEF IInv
  <2>2. count' \in [Actors -> Nat]
    BY <1>1, <2>1, CountTyped
  <2> QED  BY <1>1, <2>1, <2>2, SameTimes
<1>3. \A after : Nothing \in Queues({}, {}) /\ Timed({}) /\ KeepsPromise(r, Nothing, after)
  BY KeepsNone
<1>4. \A after \in {"running", "broke"} :
        Fitting(First(b, r).kind, Nothing, after) /\ Speaks(r, Nothing, after)
  <2>1. DOMAIN Nothing = {}
    BY DEF Nothing
  <2> QED  BY <1>1, <2>1, SpeaksNone DEF Fitting
<1>5. CASE Handle(b, r, Nothing, "running")
  BY <1>1, <1>2, <1>3, <1>4, <1>5, HandleKeeps
<1>6. CASE Handle(b, r, Nothing, "broke")
  BY <1>1, <1>2, <1>3, <1>4, <1>6, HandleKeeps
<1> QED  BY <1>1, <1>5, <1>6

LEMMA RouterSendKeeps ==
  ASSUME IInv, NEW r \in Routers, NEW b, <<b, r>> \in Chans, NEW n \in Neighbours(r),
         RouterSend(b, r, n), UNCHANGED serverVars
  PROVE  Sound(r)
<1> USE ConstantsTyped
<1> DEFINE p     == First(b, r).packet
           txEnd == Max({First(b, r).time, out_times[r][n]}) + TxTime(SizeByte(p))
           e     == PacketAt(txEnd + Latency, p)
           out   == [m \in {n} |-> <<e>>]
           X     == [out_times[r] EXCEPT ![n] = txEnd]
<1>1. /\ IsNext(b, r) /\ First(b, r).kind = "Packet" /\ r \in Actors /\ r \notin Hosts /\ Counted(r)
      /\ Handle(b, r, out, "running")
      /\ out_times' = [out_times EXCEPT ![r][n] = txEnd]
      /\ UNCHANGED <<tor_time, timeouts>>
  BY NetTyped DEF RouterSend, Routed, serverVars
<1>2. TimesTyped /\ out_times[r] \in [Neighbours(r) -> Nat] /\ out_times[r][n] \in Nat
  BY DEF IInv, TimesTyped
<1>3. First(b, r).time \in Nat
  <2>1. PICK E : LinksTyped(E)
    BY DEF IInv
  <2> QED  BY <1>1, <2>1, TakeReady
<1>4. txEnd \in Nat /\ out_times[r][n] <= txEnd
  <2> DEFINE m == Max({First(b, r).time, out_times[r][n]})
             x == TxTime(SizeByte(p))
  <2>1. m \in Nat /\ out_times[r][n] <= m
    BY <1>2, <1>3, MaxOfTwo
  <2>2. x \in Nat
    BY TxTimes
  <2>3. txEnd = m + x
    OBVIOUS
  <2> HIDE DEF m, x, txEnd
  <2> QED  BY ONLY <1>2, <2>1, <2>2, <2>3
<1> HIDE DEF txEnd
<1>5. out_times' = [out_times EXCEPT ![r] = X]
  BY <1>1
<1>6. X \in [Neighbours(r) -> Nat] /\ X[n] = txEnd /\ \A m \in Neighbours(r) : out_times[r][m] <= X[m]
  <2>1. \A m \in Neighbours(r) : out_times[r][m] \in Nat
    BY <1>2
  <2> QED  BY <1>2, <1>4, <2>1
<1>7. count' \in [Actors -> Nat]
  BY <1>1, <1>2, CountTyped
<1>8. TimesTyped' /\ StepsOn(r) /\ out_times'[r] = X
  <2> HIDE DEF X
  <2> QED  BY <1>1, <1>2, <1>5, <1>6, <1>7, RouterTimes
<1>9. e.time = txEnd + Latency /\ e.kind = "Packet" /\ e.time \in Nat
  BY <1>4 DEF PacketAt
<1>10. <<r, n>> \in Chans /\ Promise[<<r, n>>] <= e.time /\ e.time <= Promise'[<<r, n>>]
  <2>1. /\ Promise[<<r, n>>] = out_times[r][n] + Latency
        /\ Promise'[<<r, n>>] = out_times'[r][n] + Latency
    BY Promises
  <2>2. out_times'[r][n] = txEnd /\ Latency \in Nat
    BY <1>6, <1>8
  <2>3. Promise[<<r, n>>] <= txEnd + Latency /\ txEnd + Latency <= Promise'[<<r, n>>]
    BY ONLY <1>2, <1>4, <2>1, <2>2
  <2> QED  BY <1>9, <2>3, ChanNames
<1>11. out \in Queues({n}, {e}) /\ Timed({e}) /\ KeepsPromise(r, out, "running")
  <2> HIDE DEF e
  <2> QED  BY <1>9, <1>10, KeepsEach
<1>12. Fitting(First(b, r).kind, out, "running")
  BY <1>1 DEF Fitting
<1>13. ASSUME NEW m \in Actors, m # r, <<r, m>> \in Chans
       PROVE  IF m \in {n} THEN Promise'[<<r, m>>] <= e.time ELSE Promise'[<<r, m>>] = Promise[<<r, m>>]
  <2>1. m \in Neighbours(r)
    BY <1>1, <1>13, ChanKinds, NetTyped
  <2>2. Promise'[<<r, m>>] = out_times'[r][m] + Latency /\ Promise[<<r, m>>] = out_times[r][m] + Latency
    BY <2>1, Promises
  <2>3. out_times'[r][m] = IF m = n THEN txEnd ELSE out_times[r][m]
    BY <1>2, <1>8, <2>1
  <2>4. txEnd + Latency <= txEnd + Latency
    BY <1>4
  <2>5. Promise'[<<r, m>>] = IF m = n THEN e.time ELSE Promise[<<r, m>>]
    BY <1>9, <2>2, <2>3
  <2> QED  BY <1>9, <2>4, <2>5
<1>14. Speaks(r, out, "running")
  <2>1. r \in Actors /\ out = [m \in {n} |-> <<e>>]
    BY <1>1
  <2> HIDE DEF out, e
  <2> QED  BY ONLY <1>13, <2>1, SpeaksEach
<1> HIDE DEF out, e
<1> QED  BY <1>1, <1>8, <1>11, <1>12, <1>14, HandleKeeps

-----------------------------------------------------------------------------
(* A server speaks to its router only. *)
LEMMA HostSays ==
  ASSUME NEW h \in Hosts, NEW n \in Actors, n # h, <<h, n>> \in Chans
  PROVE  n = Tor(h)
<1>1. h # World /\ h \notin Routers
  BY NetTyped
<1> QED  BY <1>1, ChanKinds

LEMMA HostSpeaks ==
  ASSUME NEW h \in Hosts, h \in Actors, NEW e, Promise'[<<h, Tor(h)>>] <= e.time,
         NEW out, out = [n \in {Tor(h)} |-> <<e>>]
  PROVE  Speaks(h, out, "running")
<1>1. \A n \in Actors : n # h /\ <<h, n>> \in Chans => n = Tor(h)
  BY HostSays
<1>2. \A n \in Actors : n # h /\ <<h, n>> \in Chans =>
        IF n \in {Tor(h)} THEN Promise'[<<h, n>>] <= e.time ELSE Promise'[<<h, n>>] = Promise[<<h, n>>]
  BY <1>1
<1> QED  BY ONLY <1>2, h \in Actors, out = [n \in {Tor(h)} |-> <<e>>], SpeaksEach

(* What goes to the router is what is promised to it. *)
LEMMA HostSpeaksTo ==
  ASSUME NEW h \in Hosts, NEW out, DOMAIN out = {h, Tor(h)}, SpeaksTo(h, Tor(h), out[Tor(h)], "running")
  PROVE  Speaks(h, out, "running")
<1>1. \A n \in Actors : n # h /\ <<h, n>> \in Chans => n = Tor(h)
  BY HostSays
<1> QED  BY <1>1 DEF Speaks

LEMMA ServerStallKeeps ==
  ASSUME IInv, NEW h \in Hosts, NEW b, <<b, h>> \in Chans, NEW t \in Nat,
         ServerStall(t, b, h), UNCHANGED out_times
  PROVE  Sound(h)
<1> USE ConstantsTyped
<1> DEFINE e   == Null(t + Latency)
           out == [n \in {Tor(h)} |-> <<e>>]
           c   == <<h, h>>
<1>1. /\ status[h] = "running" /\ h \in Actors /\ tor_time[h] < t
      /\ tor_time' = [tor_time EXCEPT ![h] = t]
      /\ HandleStall(h, out, "running")
      /\ UNCHANGED <<count, out_times, timeouts>>
  BY NetTyped DEF ServerStall, StallsAt
<1>2. TimesTyped /\ tor_time[h] \in Nat /\ count' \in [Actors -> Nat]
  BY <1>1 DEF IInv, TimesTyped
<1>3. TimesTyped' /\ StepsOn(h) /\ tor_time'[h] = t
  <2>1. timeouts' = [timeouts EXCEPT ![h] = timeouts[h]] /\ \A x \in timeouts[h] : x[1] \in Nat
    BY <1>1 DEF IInv, TimesTyped
  <2>2. tor_time[h] <= t
    BY <1>1, <1>2
  <2> QED  BY <1>1, <1>2, <2>1, <2>2, HostTimes
<1>4. e.time = t + Latency /\ e.kind = "Null" /\ e.time \in Nat
  BY DEF Null
<1>5. <<h, Tor(h)>> \in Chans /\ Promise[<<h, Tor(h)>>] <= e.time /\ e.time <= Promise'[<<h, Tor(h)>>]
  <2>1. /\ Promise[<<h, Tor(h)>>] = tor_time[h] + Latency
        /\ Promise'[<<h, Tor(h)>>] = tor_time'[h] + Latency
    BY Promises
  <2>2. tor_time[h] < t /\ Latency \in Nat /\ t \in Nat
    BY <1>1
  <2>3. Promise[<<h, Tor(h)>>] <= t + Latency /\ t + Latency <= Promise'[<<h, Tor(h)>>]
    BY ONLY <1>2, <1>3, <2>1, <2>2
  <2> QED  BY <1>4, <2>3, ChanNames
<1> HIDE DEF e
<1>q. Quiet(out)
  <2> HIDE DEF e
  <2>1. e.kind \in {"Null", "Close"}
    BY <1>4
  <2>2. out = [n \in {Tor(h)} |-> <<e>>]
    OBVIOUS
  <2> HIDE DEF out
  <2> QED  BY ONLY <2>1, <2>2, QuietEach
<1>6. out \in Queues({Tor(h)}, {e}) /\ Timed({e}) /\ KeepsPromise(h, out, "running")
  BY <1>4, <1>5, KeepsEach
<1>7. "running" \in Statuses
  BY DEF Statuses
<1>8. PICK E : LinksTyped(E)
  BY DEF IInv
<1>9. /\ queue \in Queues(Chans, E \cup {e}) /\ out \in Queues({Tor(h)}, E \cup {e})
      /\ \A ch \in Chans : Len(queue[ch]) <= QSize
      /\ status \in [Actors -> Statuses]
  <2>1. E \subseteq E \cup {e} /\ {e} \subseteq E \cup {e}
    OBVIOUS
  <2> HIDE DEF out
  <2> QED  BY <1>6, <1>8, <2>1, Wider DEF LinksTyped
<1>10. Clock(h)
  BY <1>1 DEF IInv, Alive, Running
<1>11. h \notin {Tor(h)}
  BY NetTyped
<1> HIDE DEF out
<1>12. Len(queue'[c]) = Len(queue[c]) /\ \A i \in 1 .. Len(queue[c]) : queue'[c][i] = queue[c][i]
  <2>1. Deliver(queue, h, out, "running") /\ h \in Hosts /\ status[h] = "running"
    BY <1>1 DEF HandleStall
  <2> QED  BY ONLY <1>7, <1>9, <1>11, <2>1, OwnQueue
<1>13. Len(queue'[c]) = 1 /\ queue'[c][1] = queue[c][1] /\ heard'[c] = heard[c]
  <2>1. 1 \in 1 .. 1
    OBVIOUS
  <2> QED  BY <1>1, <1>10, <1>12, <2>1 DEF Clock, HandleStall
<1>14. Clock(h)'
  BY <1>1, <1>10, <1>13 DEF Clock
<1>15. queue[c] \in Seq(E \cup {e}) /\ Len(queue[c]) = 1 /\ c \in Chans
  BY <1>9, <1>10, ChanNames DEF Queues, Clock
<1>16. queue[c] # <<>> /\ queue[c][1].time \in Nat
  <2>1. queue[c] # <<>>
    BY ONLY <1>15, EmptySeq
  <2>3. 1 \in 1 .. Len(queue[c])
    BY ONLY <1>15
  <2>2. Timed(E \cup {e})
    BY <1>6, <1>8 DEF LinksTyped, Timed
  <2> QED  BY <1>15, <2>1, <2>2, <2>3, ElementOfSeq DEF Timed
<1>17. queue'[c] # <<>> /\ Promise[c] = queue[c][1].time
  <2>1. queue'[c] # <<>>
    BY <1>13
  <2>2. Promise[<<h, h>>] = IF queue[<<h, h>>] = <<>> THEN 0 ELSE queue[<<h, h>>][1].time
    BY Promises
  <2> QED  BY <1>16, <2>1, <2>2
<1>18. ClockRuns(h)
  BY <1>13, <1>14, <1>16, <1>17 DEF ClockRuns
<1>19. Speaks(h, out, "running")
  <2>1. Promise'[<<h, Tor(h)>>] = tor_time'[h] + Latency
    BY Promises
  <2>2. Promise'[<<h, Tor(h)>>] <= e.time
    BY <1>3, <1>4, <2>1
  <2>3. h \in Actors /\ out = [n \in {Tor(h)} |-> <<e>>]
    BY <1>1 DEF out
  <2> QED  BY ONLY <2>2, <2>3, HostSpeaks
<1> QED  BY <1>1, <1>3, <1>6, <1>q, <1>18, <1>19, HandleStallKeeps

LEMMA ServerCloseKeeps ==
  ASSUME IInv, NEW h \in Hosts, NEW b, <<b, h>> \in Chans, ServerClose(b, h), UNCHANGED out_times
  PROVE  Sound(h)
<1> USE ConstantsTyped
<1> DEFINE e   == Close(First(b, h).time + Latency)
           out == [n \in {h, Tor(h)} |-> <<e>>]
<1>1. /\ IsNext(b, h) /\ First(b, h).kind = "Close" /\ h \in Actors
      /\ Handle(b, h, out, "done")
      /\ UNCHANGED <<count, out_times, tor_time, timeouts>>
  BY NetTyped DEF ServerClose, serverVars
<1>2. TimesTyped' /\ StepsOn(h)
  <2>1. TimesTyped /\ count' \in [Actors -> Nat]
    BY <1>1 DEF IInv, TimesTyped
  <2> QED  BY <1>1, <2>1, SameTimes
<1>3. First(b, h).time \in Nat /\ First(b, h).time > Limit - 1
  <2>1. PICK E : LinksTyped(E)
    BY DEF IInv
  <2> QED  BY <1>1, <2>1, TakeReady
<1>4. e.time \in Nat /\ e.kind = "Close" /\ e.time > Limit - 1
  BY <1>3 DEF Close
<1>5. \A n \in {h, Tor(h)} : <<h, n>> \in Chans
  BY ChanNames
<1>q. Quiet(out)
  <2> HIDE DEF e
  <2>1. e.kind \in {"Null", "Close"}
    BY <1>4
  <2>2. out = [n \in {h, Tor(h)} |-> <<e>>]
    OBVIOUS
  <2> HIDE DEF out
  <2> QED  BY ONLY <2>1, <2>2, QuietEach
<1>6. out \in Queues({h, Tor(h)}, {e}) /\ Timed({e}) /\ KeepsPromise(h, out, "done")
  <2> HIDE DEF e
  <2> QED  BY <1>4, <1>5, KeepsEach
<1>7. Fitting(First(b, h).kind, out, "done")
  BY <1>1, <1>q DEF Fitting
<1>8. Speaks(h, out, "done")
  <2>1. \A n \in Actors : n # h /\ <<h, n>> \in Chans => n \in {h, Tor(h)}
    BY HostSays
  <2>2. h \in Actors /\ e.kind = "Close" /\ out = [n \in {h, Tor(h)} |-> <<e>>]
    BY <1>1, <1>4
  <2> HIDE DEF e, out
  <2> QED  BY ONLY <2>1, <2>2, SpeaksClose
<1> HIDE DEF out, e
<1> QED  BY <1>1, <1>2, <1>6, <1>7, <1>8, HandleKeeps

LEMMA ServerDataKeeps ==
  ASSUME IInv, NEW h \in Hosts, NEW b, <<b, h>> \in Chans, ServerData(b, h), UNCHANGED out_times
  PROVE  Sound(h)
<1> USE ConstantsTyped
<1> DEFINE p     == First(b, h).packet
           txEnd == tor_time[h] + TxTime(AckBytes)
           ack   == [p EXCEPT !.dst = p.src, !.src = h, !.is_ack = TRUE]
           e     == PacketAt(txEnd + Latency, ack)
           out   == [n \in {Tor(h)} |-> <<e>>]
<1>1. /\ IsNext(b, h) /\ First(b, h).kind = "Packet" /\ h \in Actors /\ Counted(h)
      /\ tor_time' = [tor_time EXCEPT ![h] = txEnd]
      /\ Handle(b, h, out, "running")
      /\ UNCHANGED <<out_times, timeouts>>
  BY NetTyped DEF ServerData
<1>2. TimesTyped /\ tor_time[h] \in Nat /\ TxTime(AckBytes) \in Nat
  BY TxTimes DEF IInv, TimesTyped
<1>3. txEnd \in Nat /\ tor_time[h] <= txEnd
  BY ONLY <1>2
<1> HIDE DEF txEnd
<1>4. TimesTyped' /\ StepsOn(h) /\ tor_time'[h] = txEnd
  <2>1. timeouts' = [timeouts EXCEPT ![h] = timeouts[h]] /\ \A x \in timeouts[h] : x[1] \in Nat
    BY <1>1 DEF IInv, TimesTyped
  <2>2. count' \in [Actors -> Nat]
    BY <1>1, <1>2, CountTyped
  <2> QED  BY <1>1, <1>3, <1>2, <2>1, <2>2, HostTimes
<1>5. e.time = txEnd + Latency /\ e.kind = "Packet" /\ e.time \in Nat
  BY <1>3 DEF PacketAt
<1>6. <<h, Tor(h)>> \in Chans /\ Promise[<<h, Tor(h)>>] <= e.time /\ e.time <= Promise'[<<h, Tor(h)>>]
  <2>1. /\ Promise[<<h, Tor(h)>>] = tor_time[h] + Latency
        /\ Promise'[<<h, Tor(h)>>] = tor_time'[h] + Latency /\ Latency \in Nat
    BY Promises
  <2>3. Promise[<<h, Tor(h)>>] <= txEnd + Latency /\ txEnd + Latency <= Promise'[<<h, Tor(h)>>]
    BY ONLY <1>2, <1>3, <1>4, <2>1
  <2> QED  BY <1>5, <2>3, ChanNames
<1> HIDE DEF e
<1>7. out \in Queues({Tor(h)}, {e}) /\ Timed({e}) /\ KeepsPromise(h, out, "running")
  BY <1>5, <1>6, KeepsEach
<1>8. h \notin {Tor(h)} /\ First(b, h).kind \notin {"Null", "Close", "Timeout"}
  BY <1>1, NetTyped
<1>9. \A x \in timeouts'[h] : x \in timeouts[h]
  BY <1>1
<1>10. Speaks(h, out, "running")
  <2>1. Promise'[<<h, Tor(h)>>] = tor_time'[h] + Latency
    BY Promises
  <2>2. txEnd + Latency <= txEnd + Latency
    BY <1>3
  <2>3. Promise'[<<h, Tor(h)>>] <= e.time
    BY <1>4, <1>5, <2>1, <2>2
  <2>4. h \in Actors /\ out = [n \in {Tor(h)} |-> <<e>>]
    BY <1>1
  <2> HIDE DEF out
  <2> QED  BY ONLY <2>3, <2>4, HostSpeaks
<1> HIDE DEF out
<1> QED  BY <1>1, <1>4, <1>7, <1>8, <1>9, <1>10, HostKeeps

(* What a flow sends is a sequence. *)
Burst(r) == \E n \in Nat : r.sent = [k \in 1 .. n |-> r.sent[k]]

LEMMA FillSends == \A f : Burst(Fill(f))
<1> TAKE f
<1> DEFINE S == {k \in 1 .. Cwnd : f.outstanding + k <= Cwnd /\ HasNext(f, k)}
           n == Cardinality(S)
<1>1. n \in Nat
  <2>1. Cwnd \in Nat /\ S \in SUBSET (1 .. Cwnd)
    BY ConstantsTyped
  <2> HIDE DEF S
  <2> QED  BY <2>1, SizeOfPositions
<1>2. Fill(f).sent = [k \in 1 .. n |-> NextSeq(f, k)]
  BY DEF Fill
<1> HIDE DEF n
<1>3. Fill(f).sent = [k \in 1 .. n |-> Fill(f).sent[k]]
  BY <1>2
<1> QED  BY <1>1, <1>3 DEF Burst

LEMMA FlowSends ==
  /\ \A f, t : Burst(Start(f, t))
  /\ \A f, s : Burst(SrcReceive(f, s)) /\ Burst(Timeout(f, s))
<1>1. \A f, t : Burst(Start(f, t))
  BY FillSends DEF Start
<1>2. \A f, s : Burst(SrcReceive(f, s))
  BY FillSends DEF SrcReceive
<1>3. \A f, s : Burst(Timeout(f, s))
  <2> SUFFICES ASSUME NEW f, NEW s  PROVE Burst(Timeout(f, s))
    OBVIOUS
  <2>1. CASE s \in f.acked
    <3>1. Timeout(f, s).sent = <<>>
      BY <2>1 DEF Timeout
    <3>2. <<>> = [k \in 1 .. 0 |-> <<>>[k]]
      OBVIOUS
    <3> QED  BY <3>1, <3>2 DEF Burst
  <2>2. CASE s \notin f.acked
    BY <2>2, FillSends DEF Timeout
  <2> QED  BY <2>1, <2>2
<1> QED  BY <1>1, <1>2, <1>3

(* Server h handles the event from b: it sends self to itself, and what it  *)
(* may to its router.                                                       *)
SendsBurst(b, h, self) ==
  \E M : \E out \in Queues({h, Tor(h)}, M) :
    /\ Timed(M) /\ out[h] = self
    /\ KeepsLink(h, Tor(h), out[Tor(h)], "running")
    /\ SpeaksTo(h, Tor(h), out[Tor(h)], "running")
    /\ Handle(b, h, out, "running")

(* The packets of a burst, and their timers. *)
LEMMA TransmitKeeps ==
  ASSUME TimesTyped, NEW h \in Hosts, NEW b, First(b, h).time \in Nat, NEW id,
         NEW r, Burst(r), NEW heap, \A x \in heap : x[1] \in Nat,
         NEW S, Timed(S), NEW self \in Seq(S),
         Transmit(b, h, id, r, heap, self), count' \in [Actors -> Nat], UNCHANGED out_times
  PROVE  /\ TimesTyped' /\ StepsOn(h)
         /\ \A x \in timeouts'[h] : x \in heap \/ x[1] = First(b, h).time + MinRto
         /\ SendsBurst(b, h, self)
<1> USE ConstantsTyped
<1>1. PICK n \in Nat : r.sent = [k \in 1 .. n |-> r.sent[k]]
  BY DEF Burst
<1> DEFINE c     == TxTime(BytesPerPacket)
           Data(k) == [src |-> r.flow.src, dst |-> r.flow.dst, seq_num |-> r.sent[k],
                       flow_id |-> id, is_ack |-> FALSE]
           burst == [k \in 1 .. n |-> PacketAt(tor_time[h] + k * c + Latency, Data(k))]
           out   == [m \in {h, Tor(h)} |-> IF m = h THEN self ELSE burst]
           new   == heap \cup {<<First(b, h).time + MinRto, id, s>> : s \in ToSet(r.sent)}
           T     == tor_time[h] + n * c
           P     == {burst[k] : k \in 1 .. n}
           M     == S \cup P
<1>2. DOMAIN r.sent = 1 .. n /\ Len(r.sent) = n
  <2> DEFINE V == {r.sent[k] : k \in 1 .. n}
  <2>1. \A k \in 1 .. n : r.sent[k] \in V
    OBVIOUS
  <2> HIDE DEF V
  <2> QED  BY <1>1, <2>1, IndexedSeq
<1>3. /\ tor_time' = [tor_time EXCEPT ![h] = T]
      /\ timeouts' = [timeouts EXCEPT ![h] = new]
      /\ Handle(b, h, out, "running")
  BY <1>2 DEF Transmit
<1>4. c \in Nat /\ tor_time[h] \in Nat /\ n * c \in Nat
  <2>1. c \in Nat
    BY TxTimes
  <2>2. n <= n
    OBVIOUS
  <2>3. tor_time[h] \in Nat
    BY DEF TimesTyped
  <2> HIDE DEF c
  <2> QED  BY <2>1, <2>2, <2>3, TimesGrow
<1>5. T \in Nat /\ tor_time[h] <= T
  <2> DEFINE y == n * c
  <2>1. T = tor_time[h] + y /\ y \in Nat /\ tor_time[h] \in Nat
    BY <1>4
  <2> HIDE DEF y, T
  <2> QED  BY ONLY <2>1
<1>6. \A x \in new : x[1] \in Nat /\ (x \in heap \/ x[1] = First(b, h).time + MinRto)
  OBVIOUS
<1>7. TimesTyped' /\ StepsOn(h) /\ tor_time'[h] = T /\ timeouts'[h] = new
  <2> HIDE DEF T, new
  <2> QED  BY <1>3, <1>5, <1>6, HostTimes
<1>8. /\ burst = [k \in 1 .. n |-> burst[k]]
      /\ \A k \in 1 .. n : burst[k] \in P
  OBVIOUS
<1>9. \A k \in 1 .. n : burst[k].kind = "Packet" /\ burst[k].time = tor_time[h] + k * c + Latency
  BY DEF PacketAt
<1>10. \A k \in 1 .. n : burst[k].time = (tor_time[h] + Latency) + k * c
  <2> TAKE k \in 1 .. n
  <2>1. k \in Nat /\ k <= n
    OBVIOUS
  <2> DEFINE y == k * c
  <2>2. y \in Nat
    <3> HIDE DEF c
    <3> QED  BY <1>4, <2>1, TimesGrow
  <2>3. burst[k].time = tor_time[h] + y + Latency
    BY <1>9
  <2>4. tor_time[h] \in Nat /\ Latency \in Nat
    BY <1>4
  <2>5. burst[k].time = (tor_time[h] + Latency) + y
    <3> HIDE DEF y, burst
    <3> QED  BY ONLY <2>2, <2>3, <2>4
  <2> QED  BY <2>5
<1>11. out[h] = self /\ out[Tor(h)] = burst /\ DOMAIN out = {h, Tor(h)}
  BY NetTyped
<1>12. \A p \in P : \E k \in 1 .. n : p = burst[k]
  OBVIOUS
<1>13. S \subseteq M /\ P \subseteq M
  OBVIOUS
<1>14. tor_time[h] + Latency \in Nat
  BY <1>4
<1>15. T + Latency = tor_time[h] + Latency + n * c
  <2> DEFINE y == n * c
  <2>1. T = tor_time[h] + y /\ y \in Nat /\ tor_time[h] \in Nat /\ Latency \in Nat
    BY <1>4
  <2>2. T + Latency = tor_time[h] + Latency + y
    <3> HIDE DEF y, T
    <3> QED  BY ONLY <2>1
  <2> QED  BY <2>2
<1> HIDE DEF c, burst, P, T
<1>16. burst \in Seq(P) /\ Len(burst) = n
  BY <1>8, IndexedSeq
<1>17. /\ CloseLast(burst) /\ Between(burst, tor_time[h] + Latency, tor_time[h] + Latency + n * c)
       /\ \A k \in 1 .. n : burst[k].time \in Nat
  <2> DEFINE t == tor_time[h] + Latency
  <2>1. n \in Nat /\ c \in Nat /\ t \in Nat
    BY <1>4, <1>14
  <2>2. \A k \in 1 .. n : burst[k].kind = "Packet" /\ burst[k].time = t + k * c
    BY <1>9, <1>10
  <2> HIDE DEF t
  <2>3. CloseLast(burst) /\ Between(burst, t, t + n * c) /\ \A k \in 1 .. n : burst[k].time \in Nat
    BY ONLY <1>16, <2>1, <2>2, Spaced
  <2> QED  BY <2>3 DEF t
<1>18. Timed(M)
  BY <1>12, <1>17 DEF Timed
<1> HIDE DEF M
<1>19. out \in Queues({h, Tor(h)}, M)
  <2>1. self \in Seq(M) /\ burst \in Seq(M)
    BY <1>13, <1>16
  <2> QED  BY <2>1 DEF Queues
<1>20. KeepsLink(h, Tor(h), burst, "running")
  <2>1. <<h, Tor(h)>> \in Chans
    BY ChanNames
  <2>2. Promise[<<h, Tor(h)>>] = tor_time[h] + Latency /\ Promise'[<<h, Tor(h)>>] = T + Latency
    BY <1>7, Promises
  <2>3. Between(burst, Promise[<<h, Tor(h)>>], Promise'[<<h, Tor(h)>>])
    BY <1>15, <1>17, <2>2
  <2>4. \A i \in 1 .. Len(burst) : burst[i].kind # "Close" /\ burst[i].kind # "Timeout"
    BY <1>9, <1>16
  <2> QED  BY <1>17, <2>1, <2>3, <2>4 DEF KeepsLink
<1>21. \A x \in timeouts'[h] : x \in heap \/ x[1] = First(b, h).time + MinRto
  BY <1>6, <1>7
<1>23. SpeaksTo(h, Tor(h), burst, "running")
  <2>1. Promise[<<h, Tor(h)>>] = tor_time[h] + Latency /\ Promise'[<<h, Tor(h)>>] = T + Latency
    BY <1>7, Promises
  <2>2. CASE n = 0
    <3>1. burst = <<>>
      BY <1>16, <2>2, EmptySeq
    <3>2. 0 * c = 0
      BY <1>4
    <3>3. T + Latency = tor_time[h] + Latency
      BY <1>14, <1>15, <2>2, <3>2
    <3> QED  BY <2>1, <3>1, <3>3 DEF SpeaksTo
  <2>3. CASE n # 0
    <3>1. n \in 1 .. n
      BY <2>3
    <3>2. burst[n].time = T + Latency /\ T + Latency <= T + Latency
      BY <1>5, <1>10, <1>15, <3>1
    <3>3. burst # <<>>
      BY <1>16, <2>3
    <3> QED  BY <1>16, <2>1, <3>2, <3>3 DEF SpeaksTo
  <2> QED  BY <2>2, <2>3
<1> HIDE DEF out, new
<1>22. SendsBurst(b, h, self)
  BY <1>3, <1>11, <1>18, <1>19, <1>20, <1>23 DEF SendsBurst
<1> QED  BY <1>7, <1>21, <1>22

(* The timers of the packets sent leave the Timeout ahead alone. *)
LEMMA BurstKeeps ==
  ASSUME IInv, NEW h \in Hosts, NEW b, <<b, h>> \in Chans, IsNext(b, h),
         First(b, h).kind \notin {"Null", "Close", "Timeout"},
         NEW id, NEW r, Burst(r), Transmit(b, h, id, r, timeouts[h], <<>>),
         Counted(h), UNCHANGED out_times
  PROVE  Sound(h)
<1>1. PICK E : LinksTyped(E)
  BY DEF IInv
<1>2. TimesTyped /\ h \in Actors /\ \A x \in timeouts[h] : x[1] \in Nat
  BY NetTyped DEF IInv, TimesTyped
<1>3. count' \in [Actors -> Nat]
  BY <1>2, CountTyped
<1>4. First(b, h).time \in Nat
  BY <1>1, TakeReady
<1>5. Timed({}) /\ <<>> \in Seq({})
  BY DEF Timed
<1>6. /\ TimesTyped' /\ StepsOn(h)
      /\ \A x \in timeouts'[h] : x \in timeouts[h] \/ x[1] = First(b, h).time + MinRto
      /\ SendsBurst(b, h, <<>>)
  <2>1. Burst(r) /\ Transmit(b, h, id, r, timeouts[h], <<>>) /\ UNCHANGED out_times /\ h \in Hosts
    OBVIOUS
  <2> QED  BY ONLY <1>2, <1>3, <1>4, <1>5, <2>1, TransmitKeeps
<1>7. PICK M : \E out \in Queues({h, Tor(h)}, M) :
           /\ Timed(M) /\ out[h] = <<>>
           /\ KeepsLink(h, Tor(h), out[Tor(h)], "running")
           /\ SpeaksTo(h, Tor(h), out[Tor(h)], "running")
           /\ Handle(b, h, out, "running")
  BY ONLY <1>6 DEF SendsBurst
<1>8. PICK out \in Queues({h, Tor(h)}, M) :
           /\ Timed(M) /\ out[h] = <<>>
           /\ KeepsLink(h, Tor(h), out[Tor(h)], "running")
           /\ SpeaksTo(h, Tor(h), out[Tor(h)], "running")
           /\ Handle(b, h, out, "running")
  BY ONLY <1>7
<1>9. KeepsLink(h, h, <<>>, "running") /\ Len(<<>>) = 0
  <2>1. Len(<<>>) = 0 /\ <<h, h>> \in Chans
    BY ChanNames
  <2>2. \A i \in 1 .. Len(<<>>) : FALSE
    BY ONLY <2>1
  <2>3. CloseLast(<<>>) /\ \A lo, hi : Between(<<>>, lo, hi)
    BY ONLY <2>2, Zenon DEF CloseLast, Between
  <2> QED  BY ONLY <2>1, <2>2, <2>3, Zenon DEF KeepsLink
<1>10. KeepsPromise(h, out, "running") /\ Len(out[h]) = 0
  BY <1>8, <1>9 DEF KeepsPromise, Queues
<1>11. /\ IInv /\ h \in Hosts /\ <<b, h>> \in Chans /\ IsNext(b, h)
       /\ First(b, h).kind \notin {"Null", "Close", "Timeout"}
  OBVIOUS
<1>12. Speaks(h, out, "running")
  BY <1>8, HostSpeaksTo DEF Queues
<1> QED  BY ONLY <1>6, <1>8, <1>10, <1>11, <1>12, HostKeeps

LEMMA ServerFlowKeeps ==
  ASSUME IInv, NEW h \in Hosts, NEW b, <<b, h>> \in Chans, ServerFlow(b, h), UNCHANGED out_times
  PROVE  Sound(h)
<1> DEFINE e  == First(b, h)
           id == Len(flows[h]) + 1
           r  == Start(NewFlow(e.src, e.dst, e.size_byte), e.time)
<1>1. IsNext(b, h) /\ e.kind = "Flow" /\ Counted(h) /\ Transmit(b, h, id, r, timeouts[h], <<>>)
  BY DEF ServerFlow
<1>2. Burst(r)
  BY FlowSends
<1>3. e.kind \notin {"Null", "Close", "Timeout"}
  BY <1>1
<1> HIDE DEF r, id
<1> QED  BY <1>1, <1>2, <1>3, BurstKeeps

LEMMA ServerAckKeeps ==
  ASSUME IInv, NEW h \in Hosts, NEW b, <<b, h>> \in Chans, ServerAck(b, h), UNCHANGED out_times
  PROVE  Sound(h)
<1> DEFINE p == First(b, h).packet
           r == SrcReceive(flows[h][p.flow_id], p.seq_num)
<1>1. IsNext(b, h) /\ First(b, h).kind = "Packet" /\ Counted(h) /\ Transmit(b, h, p.flow_id, r, timeouts[h], <<>>)
  BY DEF ServerAck
<1>2. Burst(r)
  BY FlowSends
<1>3. First(b, h).kind \notin {"Null", "Close", "Timeout"}
  BY <1>1
<1> HIDE DEF r
<1> QED  BY <1>1, <1>2, <1>3, BurstKeeps

LEMMA UpcomingIsNext ==
  ASSUME NEW now \in Nat, NEW heap, \A x \in heap : x[1] \in Nat /\ now <= x[1]
  PROVE  /\ Upcoming(heap, now) \in Nat
         /\ now <= Upcoming(heap, now) /\ Upcoming(heap, now) <= now + MinRto
         /\ \A x \in heap : Upcoming(heap, now) <= x[1]
<1> DEFINE S == {x[1] : x \in heap} \cup {now + MinRto}
<1>1. MinRto \in Nat /\ now + MinRto \in Nat
  BY ConstantsTyped
<1>2. /\ S \subseteq Nat /\ S # {} /\ now + MinRto \in S
      /\ \A x \in heap : x[1] \in S
      /\ \A y \in S : now <= y
  BY <1>1
<1>3. Upcoming(heap, now) = Min(S)
  BY DEF Upcoming
<1> HIDE DEF S
<1>4. Min(S) \in S /\ \A y \in S : Min(S) <= y
  BY <1>2, MinOfNats
<1> QED  BY <1>2, <1>3, <1>4

LEMMA ServerTimeoutKeeps ==
  ASSUME IInv, NEW h \in Hosts, NEW b, <<b, h>> \in Chans, ServerTimeout(b, h), UNCHANGED out_times
  PROVE  Sound(h)
<1> USE ConstantsTyped
<1> DEFINE now  == First(b, h).time
           top  == Top(timeouts[h])
           heap == timeouts[h] \ {top}
           r    == Timeout(flows[h][top[2]], top[3])
           u    == Upcoming(heap, now)
           v    == Upcoming(timeouts[h], now)
<1>1. /\ IsNext(b, h) /\ First(b, h).kind = "Timeout" /\ Counted(h)
      /\ \/ Transmit(b, h, top[2], r, heap, <<TimeoutAt(u)>>)
         \/ /\ Handle(b, h, [n \in {h} |-> <<TimeoutAt(v)>>], "running")
            /\ UNCHANGED <<tor_time, timeouts>>
  BY DEF ServerTimeout
<1>2. TimesTyped /\ h \in Actors
  BY NetTyped DEF IInv
<1>3. count' \in [Actors -> Nat]
  BY <1>1, <1>2, CountTyped
<1>4. now \in Nat /\ \A x \in timeouts[h] : x[1] \in Nat /\ now <= x[1]
  BY <1>1, OwnTimeout
<1>5. heap \subseteq timeouts[h]
  OBVIOUS
<1> HIDE DEF now, heap, r, top
<1>6. /\ u \in Nat /\ now <= u /\ u <= now + MinRto /\ \A x \in heap : u <= x[1]
      /\ v \in Nat /\ now <= v /\ v <= now + MinRto /\ \A x \in timeouts[h] : v <= x[1]
  BY <1>4, <1>5, UpcomingIsNext
<1> HIDE DEF u, v
<1>7. CASE Transmit(b, h, top[2], r, heap, <<TimeoutAt(u)>>)
  <2>1. Burst(r)
    BY FlowSends DEF r
  <2>2. TimeoutAt(u).time \in Nat
    BY <1>6 DEF TimeoutAt
  <2>3. Timed({TimeoutAt(u)}) /\ <<TimeoutAt(u)>> \in Seq({TimeoutAt(u)})
    BY <2>2, OneEvent
  <2>4. First(b, h).time \in Nat /\ \A x \in heap : x[1] \in Nat
    BY <1>4, <1>5 DEF now
  <2>5. /\ TimesTyped' /\ StepsOn(h)
        /\ \A x \in timeouts'[h] : x \in heap \/ x[1] = First(b, h).time + MinRto
        /\ SendsBurst(b, h, <<TimeoutAt(u)>>)
    <3>1. h \in Hosts /\ UNCHANGED out_times
      OBVIOUS
    <3> QED  BY ONLY <1>2, <1>3, <1>7, <2>1, <2>3, <2>4, <3>1, TransmitKeeps
  <2>6. PICK M : \E out \in Queues({h, Tor(h)}, M) :
             /\ Timed(M) /\ out[h] = <<TimeoutAt(u)>>
             /\ KeepsLink(h, Tor(h), out[Tor(h)], "running")
             /\ SpeaksTo(h, Tor(h), out[Tor(h)], "running")
             /\ Handle(b, h, out, "running")
    BY ONLY <2>5 DEF SendsBurst
  <2>7. PICK out \in Queues({h, Tor(h)}, M) :
             /\ Timed(M) /\ out[h] = <<TimeoutAt(u)>>
             /\ KeepsLink(h, Tor(h), out[Tor(h)], "running")
             /\ SpeaksTo(h, Tor(h), out[Tor(h)], "running")
             /\ Handle(b, h, out, "running")
    BY ONLY <2>6
  <2>8. \A x \in timeouts'[h] : u <= x[1]
    BY <1>6, <2>5 DEF now
  <2>9. u \in Nat /\ First(b, h).time <= u /\ u <= First(b, h).time + MinRto
    BY <1>6 DEF now
  <2>10. h \in {h, Tor(h)} /\ \A n \in {h, Tor(h)} : n # h => KeepsLink(h, n, out[n], "running")
    BY <2>7
  <2>11. IInv /\ h \in Hosts /\ <<b, h>> \in Chans
    OBVIOUS
  <2>12. Speaks(h, out, "running")
    BY <2>7, HostSpeaksTo DEF Queues
  <2> QED  BY ONLY <1>1, <2>5, <2>7, <2>8, <2>9, <2>10, <2>11, <2>12, HostTimeoutKeeps
<1>8. CASE /\ Handle(b, h, [n \in {h} |-> <<TimeoutAt(v)>>], "running")
           /\ UNCHANGED <<tor_time, timeouts>>
  <2> DEFINE out == [n \in {h} |-> <<TimeoutAt(v)>>]
             M   == {TimeoutAt(v)}
  <2>1. TimesTyped' /\ StepsOn(h)
    BY <1>2, <1>3, <1>8, SameTimes
  <2>2. TimeoutAt(v).time \in Nat
    BY <1>6 DEF TimeoutAt
  <2>3. Timed(M) /\ <<TimeoutAt(v)>> \in Seq(M)
    BY <2>2, OneEvent
  <2>4. out \in Queues({h}, M) /\ out[h] = <<TimeoutAt(v)>> /\ h \in {h}
    BY <2>3 DEF Queues
  <2>5. v \in Nat /\ First(b, h).time <= v /\ v <= First(b, h).time + MinRto
    BY <1>6 DEF now
  <2>6. \A x \in timeouts'[h] : v <= x[1]
    BY <1>6, <1>8
  <2>7. \A n \in {h} : n # h => KeepsLink(h, n, out[n], "running")
    OBVIOUS
  <2>8. Handle(b, h, out, "running")
    BY <1>8
  <2>9. Speaks(h, out, "running")
    BY <1>2, <1>8, SpeaksNone
  <2> HIDE DEF out, M
  <2> QED  BY <1>1, <2>1, <2>3, <2>4, <2>5, <2>6, <2>7, <2>8, <2>9, HostTimeoutKeeps
<1> QED  BY <1>1, <1>7, <1>8
-----------------------------------------------------------------------------
(* The initial state *)

(* A queue with one event, later than what is promised to come. *)
LEMMA StartsWith ==
  ASSUME NEW e, e.time \in Nat, e.kind \notin {"Close"}, NEW p, e.time <= p, p \in Nat
  PROVE  CloseLast(<<e>>) /\ Between(<<e>>, 0, p) /\ <<e>> # <<>>
         /\ \A i \in 1 .. Len(<<e>>) : <<e>>[i] = e
<1>1. \A i \in 1 .. 1 : i = 1
  OBVIOUS
<1>2. /\ Len(<<e>>) = 1 /\ <<e>>[1] = e /\ CloseLast(<<e>>)
      /\ (e.kind # "Close" => 0 <= e.time /\ e.time <= p) => Between(<<e>>, 0, p)
  BY OneEvent
<1> QED  BY <1>1, <1>2

(* The flows of a host, and the Close behind them. *)
LEMMA WorldSays ==
  ASSUME NEW a \in Actors, NEW s, s = FlowsOf(a) \o <<Close(Limit)>>
  PROVE  /\ s \in Seq([time : Nat, kind : {"Close"}] \cup [time : Nat, kind : {"Flow"}, src : Hosts, dst : Hosts, size_byte : Nat])
         /\ Len(s) <= QSize
         /\ s # <<>> /\ s[Len(s)].kind = "Close"
         /\ \A i \in 1 .. Len(s) : s[i].time <= Limit /\ s[i].kind # "Timeout"
         /\ \A i \in 1 .. Len(s) : s[i].kind = "Close" => i = Len(s) /\ s[i].time = Limit
         /\ \A i, j \in 1 .. Len(s) : i < j => s[i].time <= s[j].time
<1> USE ConstantsTyped
<1> DEFINE FE == [time : Nat, kind : {"Flow"}, src : Hosts, dst : Hosts, size_byte : Nat]
           CE == [time : Nat, kind : {"Close"}]
           fl == FlowsOf(a)
           n  == Len(fl)
           c  == Close(Limit)
<1>1. /\ fl \in Seq(FE) /\ n < QSize
      /\ \A i \in 1 .. n : fl[i].time \in 0 .. Limit /\ fl[i].kind = "Flow"
      /\ \A i, j \in 1 .. n : i < j => fl[i].time <= fl[j].time
  <2>1. CASE a \in Routers
    <3>1. fl = <<>>
      BY <2>1 DEF FlowsOf
    <3> QED  BY <3>1
  <2>2. CASE a \notin Routers
    <3>1. a \in Hosts
      BY <2>2 DEF Actors
    <3> DEFINE w == Workload[a]
               W == [time : 0 .. Limit, src : Hosts, dst : Hosts, size_byte : Nat]
    <3>2. /\ w \in Seq(W) /\ Len(w) < QSize
          /\ \A i, j \in DOMAIN w : i < j => w[i].time <= w[j].time
      BY <3>1, DcsimAssumption
    <3>3. fl = [i \in DOMAIN w |-> FlowAt(w[i].time, w[i].src, w[i].dst, w[i].size_byte)]
      BY <2>2 DEF FlowsOf
    <3> HIDE DEF w, fl
    <3>4. Len(w) \in Nat /\ DOMAIN w = 1 .. Len(w) /\ \A i \in 1 .. Len(w) : w[i] \in W
      BY <3>2, ElementOfSeq, LenProperties
    <3>5. \A i \in 1 .. Len(w) :
            /\ fl[i] = [time |-> w[i].time, kind |-> "Flow", src |-> w[i].src, dst |-> w[i].dst,
                        size_byte |-> w[i].size_byte]
            /\ w[i].time \in 0 .. Limit /\ w[i].src \in Hosts /\ w[i].dst \in Hosts /\ w[i].size_byte \in Nat
      BY <3>3, <3>4 DEF FlowAt
    <3>6. \A i \in 1 .. Len(w) : fl[i] \in FE /\ fl[i].time = w[i].time /\ fl[i].kind = "Flow"
      <4> TAKE i \in 1 .. Len(w)
      <4>1. /\ fl[i] = [time |-> w[i].time, kind |-> "Flow", src |-> w[i].src, dst |-> w[i].dst,
                        size_byte |-> w[i].size_byte]
            /\ w[i].time \in Nat /\ w[i].src \in Hosts /\ w[i].dst \in Hosts /\ w[i].size_byte \in Nat
        BY <3>5
      <4> QED  BY ONLY <4>1
    <3>7. fl = [i \in 1 .. Len(w) |-> fl[i]]
      BY <3>3, <3>4
    <3> HIDE DEF FE
    <3>8. fl \in Seq(FE) /\ Len(fl) = Len(w)
      BY ONLY <3>4, <3>6, <3>7, IndexedSeq
    <3> QED  BY <3>2, <3>4, <3>5, <3>6, <3>8
  <2> QED  BY <2>1, <2>2
<1>2. c \in CE /\ c.time = Limit /\ c.kind = "Close"
  BY DEF Close
<1> DEFINE All == CE \cup FE
<1>3. fl \in Seq(All) /\ <<c>> \in Seq(All) /\ s = fl \o <<c>> /\ n \in Nat
  <2>1. FE \subseteq All /\ c \in All
    BY <1>2
  <2> HIDE DEF All, FE, fl, c
  <2>2. fl \in Seq(All) /\ <<c>> \in Seq(All) /\ n \in Nat
    BY <1>1, <2>1
  <2> QED  BY <2>2 DEF fl, c
<1> HIDE DEF All, FE, CE, fl, c
<1>4. /\ s \in Seq(All) /\ Len(s) = n + 1
      /\ \A i \in 1 .. n : s[i] = fl[i]
      /\ s[n + 1] = c
  BY ONLY <1>3
<1>5. \A i \in 1 .. n + 1 : i \in 1 .. n \/ i = n + 1
  BY <1>3
<1> HIDE DEF n
<1>6. Len(s) <= QSize /\ s # <<>>
  <2>1. n + 1 <= QSize /\ n + 1 # 0
    BY <1>1, <1>3
  <2>2. s # <<>>
    BY ONLY <1>4, <2>1
  <2> QED  BY ONLY <1>4, <2>1, <2>2
<1>7. \A i \in 1 .. Len(s) : s[i].time <= Limit /\ s[i].kind # "Timeout"
  <2> TAKE i \in 1 .. Len(s)
  <2>1. CASE i \in 1 .. n
    <3>1. s[i] = fl[i] /\ fl[i].time \in 0 .. Limit /\ fl[i].kind = "Flow" /\ Limit \in Nat
      BY <1>1, <1>4, <2>1
    <3> QED  BY ONLY <3>1
  <2>2. CASE i = n + 1
    <3>1. s[i] = c /\ c.time = Limit /\ c.kind = "Close" /\ Limit \in Nat
      BY <1>2, <1>4, <2>2
    <3> QED  BY ONLY <3>1
  <2> QED  BY <1>4, <1>5, <2>1, <2>2
<1>8. \A i \in 1 .. Len(s) : s[i].kind = "Close" => i = Len(s) /\ s[i].time = Limit
  BY <1>1, <1>2, <1>4, <1>5
<1>9. \A i, j \in 1 .. Len(s) : i < j => s[i].time <= s[j].time
  <2> SUFFICES ASSUME NEW i \in 1 .. Len(s), NEW j \in 1 .. Len(s), i < j
               PROVE  s[i].time <= s[j].time
    OBVIOUS
  <2>1. i \in 1 .. n
    BY <1>3, <1>4
  <2>2. CASE j \in 1 .. n
    BY <1>1, <1>4, <2>1, <2>2
  <2>3. CASE j = n + 1
    BY <1>1, <1>2, <1>4, <2>1, <2>3
  <2> QED  BY <1>4, <1>5, <2>2, <2>3
<1>10. s[Len(s)].kind = "Close"
  BY <1>2, <1>4
<1> QED  BY <1>4, <1>6, <1>7, <1>8, <1>9, <1>10 DEF All, CE, FE
FirstEvents ==
  ([time : Nat, kind : {"Close"}]
     \cup [time : Nat, kind : {"Flow"}, src : Hosts, dst : Hosts, size_byte : Nat])
  \cup ({TimeoutAt(MinRto)} \cup {Null(Latency)})

StartsWell(ch) ==
  /\ queue[ch] \in Seq(FirstEvents) /\ Len(queue[ch]) <= QSize
  /\ CloseLast(queue[ch]) /\ Between(queue[ch], 0, Promise[ch]) /\ 0 <= Promise[ch]
  /\ \A i \in 1 .. Len(queue[ch]) :
       /\ queue[ch][i].kind = "Close" => ch[1] = World /\ queue[ch][i].time = Limit
       /\ queue[ch][i].kind = "Timeout" => ch[1] = ch[2]

LEMMA InitShape ==
  ASSUME Init
  PROVE  /\ \A a \in Actors : queue[<<World, a>>] = FlowsOf(a) \o <<Close(Limit)>>
         /\ \A h \in Hosts : /\ queue[<<h, h>>] = <<TimeoutAt(MinRto)>>
                             /\ queue[<<h, Tor(h)>>] = <<Null(Latency)>>
                             /\ tor_time[h] = 0 /\ timeouts[h] = {}
         /\ \A r \in Routers : \A n \in Neighbours(r) :
              queue[<<r, n>>] = <<Null(Latency)>> /\ out_times[r][n] = 0
<1>1. \A ch \in Chans :
        queue[ch] = IF ch[1] = World THEN FlowsOf(ch[2]) \o <<Close(Limit)>>
                    ELSE IF ch[1] = ch[2] THEN <<TimeoutAt(MinRto)>>
                    ELSE <<Null(Latency)>>
  BY DEF Init
<1>2. \A a \in Actors : queue[<<World, a>>] = FlowsOf(a) \o <<Close(Limit)>>
  BY <1>1, ChanNames
<1>3. \A h \in Hosts : /\ queue[<<h, h>>] = <<TimeoutAt(MinRto)>>
                      /\ queue[<<h, Tor(h)>>] = <<Null(Latency)>>
  BY <1>1, ChanNames, NetTyped
<1>4. \A r \in Routers : \A n \in Neighbours(r) : queue[<<r, n>>] = <<Null(Latency)>>
  <2> TAKE r \in Routers
  <2> TAKE n \in Neighbours(r)
  <2>1. r # World /\ r # n
    BY NetTyped
  <2> QED  BY <1>1, <2>1, ChanNames
<1>5. \A h \in Hosts : tor_time[h] = 0 /\ timeouts[h] = {}
  BY DEF Init, ServerInit
<1>6. \A r \in Routers : \A n \in Neighbours(r) : out_times[r][n] = 0
  BY DEF Init, RouterInit
<1> QED  BY <1>2, <1>3, <1>4, <1>5, <1>6

LEMMA InitChan ==
  ASSUME Init, NEW ch \in Chans
  PROVE  StartsWell(ch)
<1> USE ConstantsTyped
<1>1. /\ TimeoutAt(MinRto).time = MinRto /\ TimeoutAt(MinRto).kind = "Timeout"
      /\ Null(Latency).time = Latency /\ Null(Latency).kind = "Null"
  BY DEF TimeoutAt, Null
<1>2. \A e \in {TimeoutAt(MinRto)} \cup {Null(Latency)} : <<e>> \in Seq(FirstEvents) /\ Len(<<e>>) = 1
  <2> TAKE e \in {TimeoutAt(MinRto)} \cup {Null(Latency)}
  <2>1. e \in FirstEvents
    BY DEF FirstEvents
  <2> QED  BY ONLY <2>1
<1>3. 1 <= QSize /\ MinRto <= MinRto /\ Latency <= Latency /\ 0 + Latency = Latency
  OBVIOUS
<1>4. CASE ch[1] = World
  <2> DEFINE a == ch[2]
             s == queue[ch]
             All == [time : Nat, kind : {"Close"}]
                      \cup [time : Nat, kind : {"Flow"}, src : Hosts, dst : Hosts, size_byte : Nat]
  <2>1. a \in Actors /\ ch = <<World, a>> /\ s = FlowsOf(a) \o <<Close(Limit)>> /\ Promise[ch] = Limit
    <3>1. a \in Actors /\ ch = <<World, a>>
      BY <1>4, ChanKinds
    <3>2. Promise[<<World, a>>] = Limit
      BY <3>1, PromiseIs DEF Promise
    <3> QED  BY <3>1, <3>2, InitShape
  <2> HIDE DEF s, a
  <2>2. /\ s \in Seq(All)
        /\ Len(s) <= QSize
        /\ \A i \in 1 .. Len(s) : s[i].time <= Limit /\ s[i].kind # "Timeout"
        /\ \A i \in 1 .. Len(s) : s[i].kind = "Close" => i = Len(s) /\ s[i].time = Limit
        /\ \A i, j \in 1 .. Len(s) : i < j => s[i].time <= s[j].time
    <3>1. a \in Actors /\ s = FlowsOf(a) \o <<Close(Limit)>>
      BY <2>1
    <3> QED  BY ONLY <3>1, WorldSays DEF All
  <2>3. \A e \in All : e.time \in Nat
    OBVIOUS
  <2>4. s \in Seq(FirstEvents)
    <3>1. All \subseteq FirstEvents
      BY DEF FirstEvents
    <3> HIDE DEF All
    <3> QED  BY ONLY <2>2, <3>1
  <2> HIDE DEF All
  <2>5. \A i \in 1 .. Len(s) : s[i].time \in Nat
    BY <2>2, <2>3, ElementOfSeq
  <2>6. CloseLast(s) /\ Between(s, 0, Limit)
    BY <2>2, <2>5 DEF CloseLast, Between
  <2> QED  BY <1>4, <2>1, <2>2, <2>4, <2>6 DEF StartsWell, s
<1>5. CASE \E h \in Hosts : ch = <<h, h>>
  <2>1. PICK h \in Hosts : ch = <<h, h>>
    BY <1>5
  <2> DEFINE e == TimeoutAt(MinRto)
  <2>2. queue[<<h, h>>] = <<e>>
    BY InitShape
  <2>3. e.time = MinRto /\ e.kind = "Timeout" /\ MinRto \in Nat /\ <<e>> \in Seq(FirstEvents) /\ Len(<<e>>) = 1
    BY <1>1, <1>2
  <2>4. Promise[<<h, h>>] = IF queue[<<h, h>>] = <<>> THEN 0 ELSE queue[<<h, h>>][1].time
    BY Promises
  <2> HIDE DEF e
  <2>5. <<e>>[1] = e /\ <<e>> # <<>>
    OBVIOUS
  <2>6. Promise[ch] = MinRto /\ queue[ch] = <<e>> /\ ch[1] = ch[2]
    BY ONLY <2>1, <2>2, <2>3, <2>4, <2>5
  <2>7. /\ CloseLast(<<e>>) /\ Between(<<e>>, 0, MinRto)
        /\ \A i \in 1 .. Len(<<e>>) : <<e>>[i] = e
    BY <1>3, <2>3, StartsWith
  <2> QED  BY <1>3, <2>3, <2>6, <2>7 DEF StartsWell
<1>6. CASE ch[1] # World /\ ~(\E h \in Hosts : ch = <<h, h>>)
  <2> DEFINE e == Null(Latency)
  <2>1. queue[ch] = <<e>> /\ Promise[ch] = Latency
    <3>1. CASE \E h \in Hosts : ch = <<h, Tor(h)>>
      BY <1>3, <3>1, InitShape, Promises
    <3>2. CASE \E r \in Routers : \E n \in Neighbours(r) : ch = <<r, n>>
      <4>1. PICK r \in Routers : \E n \in Neighbours(r) : ch = <<r, n>>
        BY <3>2
      <4>2. PICK n \in Neighbours(r) : ch = <<r, n>>
        BY <4>1
      <4>3. queue[<<r, n>>] = <<e>> /\ out_times[r][n] = 0
        BY InitShape
      <4>4. Promise[<<r, n>>] = out_times[r][n] + Latency
        BY Promises
      <4> QED  BY ONLY <1>3, <4>2, <4>3, <4>4
    <3> QED  BY <1>6, <3>1, <3>2, ChanKinds
  <2>2. e.time = Latency /\ e.kind = "Null" /\ Latency \in Nat /\ <<e>> \in Seq(FirstEvents) /\ Len(<<e>>) = 1
    BY <1>1, <1>2
  <2> HIDE DEF e
  <2>3. /\ CloseLast(<<e>>) /\ Between(<<e>>, 0, Latency)
        /\ \A i \in 1 .. Len(<<e>>) : <<e>>[i] = e
    BY <1>3, <2>2, StartsWith
  <2> QED  BY <1>3, <2>1, <2>2, <2>3 DEF StartsWell
<1> QED  BY <1>4, <1>5, <1>6

LEMMA InitKeeps == Init => IInv
<1> SUFFICES ASSUME Init  PROVE IInv
  OBVIOUS
<1> USE ConstantsTyped
<1>1. \A ch \in Chans : StartsWell(ch) /\ heard[ch] = 0
  BY InitChan DEF Init
<1>2. Alive = Actors
  BY DEF Init, Alive, Running
<1>3. TimesTyped
  <2>1. /\ count \in [Actors -> Nat] /\ tor_time \in [Hosts -> Nat]
        /\ timeouts = [h \in Hosts |-> {}]
        /\ out_times = [r \in Routers |-> [n \in Neighbours(r) |-> 0]]
    BY DEF Init, RouterInit, ServerInit
  <2> QED  BY <2>1 DEF TimesTyped
<1>4. LinksTyped(FirstEvents)
  <2>1. Timed(FirstEvents)
    BY DEF Timed, FirstEvents, TimeoutAt, Null
  <2>2. queue = [ch \in Chans |-> queue[ch]]
    BY DEF Init
  <2>3. queue \in Queues(Chans, FirstEvents) /\ \A ch \in Chans : Len(queue[ch]) <= QSize
    BY <1>1, <2>2 DEF StartsWell, Queues
  <2>4. heard \in Times(Chans, Nat) /\ status \in [Actors -> Statuses]
    BY DEF Init, Times, Statuses
  <2> QED  BY <2>1, <2>3, <2>4 DEF LinksTyped
<1>5. OwnTimeouts(queue)
  BY <1>1 DEF OwnTimeouts, StartsWell
<1>6. Closed(Chans, queue, Alive, Limit - 1)
  <2>1. World \notin Alive /\ Limit > Limit - 1
    BY <1>2, NetTyped
  <2> QED  BY <1>1, <2>1 DEF Closed, StartsWell
<1>7. InTime(Chans, queue, heard, Alive, Promise)
  <2>1. \A ch \in Chans : CloseLast(queue[ch]) /\ Between(queue[ch], 0, Promise[ch]) /\ 0 <= Promise[ch]
    BY <1>1 DEF StartsWell
  <2>2. 0 <= 0 /\ \A ch \in Chans : heard[ch] = 0
    BY <1>1
  <2> QED  BY ONLY <2>1, <2>2 DEF InTime
<1>8. \A ch \in Chans : ch[2] \in Alive => heard[ch] <= Limit
  BY <1>1
<1>9. \A a \in Alive : FromWorld(queue[<<World, a>>])
  <2> SUFFICES ASSUME NEW a \in Actors  PROVE FromWorld(queue[<<World, a>>])
    BY <1>2
  <2> DEFINE s == queue[<<World, a>>]
  <2>1. s = FlowsOf(a) \o <<Close(Limit)>>
    BY InitShape
  <2> HIDE DEF s
  <2>2. s # <<>> /\ s[Len(s)].kind = "Close" /\ \A i \in 1 .. Len(s) : s[i].time <= Limit
    BY <2>1, WorldSays
  <2> QED  BY <2>2 DEF FromWorld, s
<1>10. \A h \in Hosts : h \in Alive => Clock(h)
  <2> TAKE h \in Hosts
  <2>1. queue[<<h, h>>] = <<TimeoutAt(MinRto)>> /\ timeouts[h] = {} /\ <<h, h>> \in Chans
    BY InitShape, ChanNames
  <2>2. TimeoutAt(MinRto).kind = "Timeout" /\ TimeoutAt(MinRto).time = MinRto
    BY DEF TimeoutAt
  <2>3. heard[<<h, h>>] = 0 /\ MinRto <= 0 + MinRto
    BY <1>1, <2>1
  <2> QED  BY <2>1, <2>2, <2>3 DEF Clock
<1> QED  BY <1>3, <1>4, <1>5, <1>6, <1>7, <1>8, <1>9, <1>10 DEF IInv

-----------------------------------------------------------------------------
LEMMA ServerStepKeeps ==
  ASSUME IInv, NEW h \in Hosts, NEW b, <<b, h>> \in Chans, ServerStep(b, h), UNCHANGED out_times
  PROVE  Sound(h)
<1>1. CASE ServerClose(b, h)
  BY <1>1, ServerCloseKeeps
<1>2. CASE ServerFlow(b, h)
  BY <1>2, ServerFlowKeeps
<1>3. CASE ServerAck(b, h)
  BY <1>3, ServerAckKeeps
<1>4. CASE ServerData(b, h)
  BY <1>4, ServerDataKeeps
<1>5. CASE ServerTimeout(b, h)
  BY <1>5, ServerTimeoutKeeps
<1> QED  BY <1>1, <1>2, <1>3, <1>4, <1>5 DEF ServerStep

LEMMA RouterStepKeeps ==
  ASSUME IInv, NEW r \in Routers, NEW b, <<b, r>> \in Chans, RouterStep(b, r), UNCHANGED serverVars
  PROVE  Sound(r)
<1>1. CASE RouterClose(b, r)
  BY <1>1, RouterCloseKeeps
<1>2. CASE \E n \in Neighbours(r) : RouterDrop(b, r, n) \/ RouterFull(b, r, n)
  BY <1>2, RouterDropKeeps
<1>3. CASE \E n \in Neighbours(r) : RouterSend(b, r, n)
  BY <1>3, RouterSendKeeps
<1> QED  BY <1>1, <1>2, <1>3 DEF RouterStep

(* Whoever takes an event or stalls. *)
LEMMA StepSound ==
  ASSUME IInv, NEW b, NEW a, <<b, a>> \in Chans, Take(b, a) \/ Stall(b, a)
  PROVE  a \in Actors /\ Sound(a)
<1>0. a \in Actors
  BY ChanKinds
<1>1. heard[<<b, a>>] \in Nat
  <2>1. PICK E : LinksTyped(E)
    BY DEF IInv
  <2> QED  BY <2>1 DEF LinksTyped, Times
<1>2. CASE TakeNull(b, a) /\ UNCHANGED <<count, out_times, serverVars>>
  BY <1>0, <1>2, TakeNullKeeps
<1>3. CASE a \in Routers /\ RouterStep(b, a) /\ UNCHANGED serverVars
  BY <1>0, <1>3, RouterStepKeeps
<1>4. CASE a \in Hosts /\ ServerStep(b, a) /\ UNCHANGED out_times
  BY <1>0, <1>4, ServerStepKeeps
<1>5. CASE a \in Routers /\ RouterStall(heard[<<b, a>>], b, a) /\ UNCHANGED serverVars
  BY <1>0, <1>1, <1>5, RouterStallKeeps
<1>6. CASE a \in Hosts /\ ServerStall(heard[<<b, a>>], b, a) /\ UNCHANGED out_times
  BY <1>0, <1>1, <1>6, ServerStallKeeps
<1> QED  BY <1>2, <1>3, <1>4, <1>5, <1>6 DEF Take, Stall

(* Next without a stutter is a step of one actor.                           *)
LEMMA NextStep ==
  ASSUME Next, ~UNCHANGED vars
  PROVE  \E b, a : <<b, a>> \in Chans /\ (Take(b, a) \/ Stall(b, a))
<1>1. PICK ch \in Chans : Take(ch[1], ch[2]) \/ Stall(ch[1], ch[2])
  BY DEF Next, Over
<1>2. <<ch[1], ch[2]>> \in Chans
  BY ChanKinds
<1> QED  BY <1>1, <1>2

(* The end of the run, and a stutter.                                       *)
LEMMA Stutters ==
  ASSUME IInv, UNCHANGED vars
  PROVE  IInv' /\ (Forward => Forward') /\ (Told => Told')
<1>1. /\ queue' = queue /\ heard' = heard /\ status' = status /\ count' = count
      /\ out_times' = out_times /\ tor_time' = tor_time /\ timeouts' = timeouts
  BY DEF vars, netVars, serverVars
<1>2. TimesTyped' /\ Alive' = Alive /\ Promise' = Promise /\ (\A h \in Hosts : Clock(h) => Clock(h)')
  BY <1>1 DEF IInv, TimesTyped, Alive, Running, Promise, PromiseOf, Clock
<1>3. PICK E : LinksTyped(E)
  BY DEF IInv
<1>4. LinksTyped(E)'
  BY <1>1, <1>3 DEF LinksTyped
<1>5. IInv'
  BY <1>1, <1>2, <1>4 DEF IInv
<1>6. Forward => Forward'
  BY <1>1, <1>2 DEF Forward
<1>7. Told => Told'
  <2>1. Finished' = Finished
    BY <1>1 DEF Finished
  <2>2. Told' = Tolds(queue', heard', Alive', Finished', Alive', Promise')
    BY DEF Told, Tolds
  <2>3. Told = Tolds(queue, heard, Alive, Finished, Alive, Promise)
    BY DEF Told
  <2> QED  BY ONLY <1>1, <1>2, <2>1, <2>2, <2>3
<1> QED  BY <1>5, <1>6, <1>7

(* Every step keeps the invariant and, once they hold, Forward and Told.    *)
LEMMA NextKeeps == IInv /\ [Next]_vars => IInv' /\ (Forward => Forward') /\ (Told => Told')
<1> SUFFICES ASSUME IInv, [Next]_vars  PROVE IInv' /\ (Forward => Forward') /\ (Told => Told')
  OBVIOUS
<1>1. CASE UNCHANGED vars
  BY <1>1, Stutters
<1>2. CASE Next /\ ~UNCHANGED vars
  <2>1. PICK b, a : <<b, a>> \in Chans /\ (Take(b, a) \/ Stall(b, a))
    BY <1>2, NextStep
  <2>2. Sound(a)
    BY <2>1, StepSound
  <2> QED  BY <2>2 DEF Sound
<1> QED  BY <1>1, <1>2

(* The inductive invariant holds throughout. *)
THEOREM Invariant == Spec => []IInv
<1>1. IInv /\ [Next]_vars => IInv'
  BY NextKeeps
<1> QED  BY <1>1, InitKeeps, PTL DEF Spec

(* Queues stay within their size, and times, states and counts are such. *)
THEOREM TypeCorrect == Spec => []TypeOK
<1>1. IInv => TypeOK
  BY DEF IInv, LinksTyped, TimesTyped, Times, Statuses, TypeOK
<1> QED  BY <1>1, Invariant, PTL

(* No event is taken in an actor's past: what is in a queue is no earlier   *)
(* than anything its reader has heard, the Close included.                  *)
THEOREM Prompt == Spec => []NothingInThePast
<1>1. ASSUME IInv  PROVE NothingInThePast
  <2> USE <1>1, ConstantsTyped
  <2> SUFFICES ASSUME NEW ch \in Chans, Running(ch[2]), NEW e \in ToSet(queue[ch]), NEW b \in Inputs(ch[2])
               PROVE  e.time >= heard[<<b, ch[2]>>]
    BY DEF NothingInThePast
  <2> DEFINE d == <<b, ch[2]>>
  <2>1. d \in Chans /\ d[2] = ch[2] /\ ch[2] \in Alive
    <3>1. PICK c \in Chans : c[2] = ch[2] /\ b = c[1]
      BY DEF Inputs
    <3> QED  BY <3>1, ChanKinds DEF Alive
  <2> HIDE DEF d
  <2>2. PICK E : LinksTyped(E)
    BY DEF IInv
  <2>3. queue[ch] \in Seq(E) /\ heard[d] \in Nat /\ Timed(E)
    BY <2>1, <2>2 DEF LinksTyped, Queues, Times
  <2>4. PICK i \in 1 .. Len(queue[ch]) : e = queue[ch][i]
    BY <2>3 DEF ToSet
  <2>5. e.time \in Nat
    BY <2>3, <2>4, ElementOfSeq DEF Timed
  <2>6. CASE e.kind = "Close"
    <3>1. e.time > Limit - 1
      BY <2>4, <2>6 DEF IInv, Closed
    <3>2. heard[d] <= Limit
      BY <2>1 DEF IInv
    <3>3. heard[d] <= e.time
      BY <2>3, <2>5, <3>1, <3>2
    <3> QED  BY <2>3, <2>5, <3>3 DEF d
  <2>7. CASE e.kind # "Close"
    <3>1. Between(queue[ch], heard[d], Promise[ch])
      BY <2>1 DEF IInv, InTime
    <3>2. heard[d] <= e.time
      BY <2>4, <2>7, <3>1 DEF Between
    <3> QED  BY <2>3, <2>5, <3>2 DEF d
  <2> QED  BY <2>6, <2>7
<1> QED  BY <1>1, Invariant, PTL

(* What an actor has still to take from a queue is by time, as its Merger   *)
(* assumes.                                                                 *)
THEOREM Ordered == Spec => []LinksInOrder
<1>1. ASSUME IInv  PROVE LinksInOrder
  <2> USE <1>1
  <2> SUFFICES ASSUME NEW ch \in Chans, Running(ch[2])  PROVE InOrder(queue[ch])
    BY DEF LinksInOrder
  <2>1. ch[2] \in Alive
    BY ChanKinds DEF Alive
  <2>2. Between(queue[ch], heard[ch], Promise[ch])
    BY <2>1 DEF IInv, InTime
  <2>3. PICK E : LinksTyped(E)
    BY DEF IInv
  <2>4. DOMAIN queue[ch] = 1 .. Len(queue[ch])
    BY <2>3 DEF LinksTyped, Queues
  <2> QED  BY <2>2, <2>4 DEF Between, InOrder
<1> QED  BY <1>1, Invariant, PTL

(* A running server has one Timeout ahead, in time for every timer.         *)
THEOREM Timers == Spec => []TimersInTime
<1>1. ASSUME IInv  PROVE TimersInTime
  <2> USE <1>1
  <2> SUFFICES ASSUME NEW h \in Hosts, Running(h)
               PROVE  /\ Len(queue[<<h, h>>]) = 1
                      /\ \A x \in timeouts[h] : First(h, h).time <= x[1]
    BY DEF TimersInTime
  <2>1. h \in Alive /\ <<h, h>> \in Chans
    BY NetTyped, ChanNames DEF Alive
  <2>2. PICK E : LinksTyped(E)
    BY DEF IInv
  <2>3. queue[<<h, h>>] \in Seq(E) /\ Clock(h)
    BY <2>1, <2>2 DEF IInv, LinksTyped, Queues
  <2>4. Len(queue[<<h, h>>]) = 1 /\ Head(queue[<<h, h>>]) = queue[<<h, h>>][1]
    BY <2>3, EmptySeq, HeadTailProperties DEF Clock
  <2> QED  BY <2>3, <2>4 DEF Clock, First
<1> QED  BY <1>1, Invariant, PTL

(* At first nobody has been told anything.                                  *)
LEMMA InitForward == Init => Forward
<1> SUFFICES ASSUME Init  PROVE Forward
  OBVIOUS
<1>1. \A ch \in Chans : 0 <= Promise[ch] /\ heard[ch] = 0
  BY InitChan DEF StartsWell, Init
<1>2. \A a \in Actors : status[a] # "done"
  BY DEF Init
<1> QED  BY <1>1, <1>2 DEF Forward, Past

(* What new_world pushed is a finite bag of events for each actor.          *)
LEMMA InitSimulates == Init => Sim!SimInit
<1> SUFFICES ASSUME Init  PROVE Sim!SimInit
  OBVIOUS
<1>1. PICK F : LinksTyped(F)
  BY InitKeeps DEF IInv
<1>2. \A a \in Actors : Now(a) = 0
  <2> SUFFICES ASSUME NEW a \in Actors  PROVE Latest(Chans, heard, a) = 0
    BY ComingIs
  <2>1. /\ ArePairs(Chans) /\ In(Chans, a) # {} /\ heard \in [Chans -> Nat]
        /\ \A ch \in Chans : ch[2] = a => heard[ch] <= 0
    BY <1>1, ChansCount DEF LinksTyped, Times, Init
  <2>2. 0 \in Nat
    OBVIOUS
  <2>3. Latest(Chans, heard, a) \in Nat /\ Latest(Chans, heard, a) <= 0
    BY ONLY <2>1, <2>2, LatestBounds
  <2> QED  BY <2>3
<1>3. \A a \in Actors : Stage(a) = "running"
  BY DEF Init, Stage
<1>4. \A a \in Actors : Sim!IsABag(Coming(a)) /\ DOMAIN Coming(a) \subseteq Nat
  <2> SUFFICES ASSUME NEW a \in Actors  PROVE Sim!IsABag(Coming(a)) /\ DOMAIN Coming(a) \subseteq Nat
    OBVIOUS
  <2>1. Ways(F, queue, a) \in [Nat -> Nat] /\ Coming(a) = Bag(Ways(F, queue, a))
    BY <1>1, Counts, ComingIs DEF LinksTyped
  <2> QED  BY <2>1, BagRules
<1> QED  BY <1>2, <1>3, <1>4 DEF Sim!SimInit

(* Every step of the network is a Waits, a Handles or a Finishes.           *)
LEMMA StepSimulates == IInv /\ Forward /\ [Next]_vars => [Sim!SimNext]_Sim!simVars
<1> SUFFICES ASSUME IInv, Forward, [Next]_vars  PROVE [Sim!SimNext]_Sim!simVars
  OBVIOUS
<1>1. CASE UNCHANGED vars
  BY <1>1 DEF vars, netVars, Sim!simVars, Coming, ComingAt, ComingTimes, Now, Stage
<1>2. CASE Next /\ ~UNCHANGED vars
  <2>1. PICK b, a : <<b, a>> \in Chans /\ (Take(b, a) \/ Stall(b, a))
    BY <1>2, NextStep
  <2>2. a \in Actors /\ Simulates(a)
    BY <2>1, StepSound DEF Sound
  <2> QED  BY <2>2 DEF Simulates, Sim!SimNext
<1> QED  BY <1>1, <1>2

(* Whatever the network, the queues, the null messages and the order of the *)
(* threads: what happens is a simulation up to the time limit.              *)
THEOREM Refines == Spec => RefinesSimulation
<1>1. Init => Sim!SimInit
  BY InitSimulates
<1>2. Init => IInv /\ Forward
  BY InitKeeps, InitForward
<1>3. (IInv /\ Forward) /\ [Next]_vars => (IInv /\ Forward)'
  BY NextKeeps
<1>4. (IInv /\ Forward) /\ [Next]_vars => [Sim!SimNext]_Sim!simVars
  BY StepSimulates
<1> QED  BY <1>1, <1>2, <1>3, <1>4, PTL DEF Spec, RefinesSimulation, Sim!SimSpec
(* At first a neighbour has pushed a Null up to the latency, and promised   *)
(* as much.                                                                 *)
LEMMA InitTold == Init => Told
<1> SUFFICES ASSUME Init, NEW ch \in Chans, ch[1] # ch[2], ch[2] \in Alive
             PROVE  /\ ch[1] \in Alive => Promise[ch] <= LastTime(queue[ch], heard[ch])
                    /\ ch[1] \in Finished => EndsInClose(queue[ch])
  BY DEF Told, Tolds
<1>1. ch[1] \notin Finished
  BY DEF Init, Finished
<1>2. ASSUME ch[1] \in Alive
      PROVE  Promise[ch] <= LastTime(queue[ch], heard[ch])
  <2>1. ch[1] # World
    BY <1>2, NetTyped DEF Alive
  <2>2. /\ ch[1] \in Hosts => tor_time[ch[1]] = 0
        /\ ch[1] \in Routers => out_times[ch[1]][ch[2]] = 0
    BY ChanKinds, NetTyped DEF Init, RouterInit, ServerInit
  <2>3. Promise[ch] = Latency
    <3>1. 0 + Latency = Latency
      BY ConstantsTyped
    <3>2. Promise[ch] = IF ch[1] \in Hosts THEN tor_time[ch[1]] + Latency
                        ELSE out_times[ch[1]][ch[2]] + Latency
      BY <2>1 DEF Promise, PromiseOf
    <3>3. ch[1] \in Hosts \/ ch[1] \in Routers
      BY <2>1, ChanKinds
    <3> QED  BY <2>2, <3>1, <3>2, <3>3
  <2>4. queue[ch] = <<Null(Latency)>>
    BY <2>1 DEF Init
  <2>5. LastTime(<<Null(Latency)>>, heard[ch]) = Latency
    BY DEF LastTime, Null
  <2>6. Latency <= Latency
    BY ConstantsTyped
  <2> QED  BY <2>3, <2>4, <2>5, <2>6
<1> QED  BY <1>1, <1>2

(* a waits for c: it sees nothing from it, and less than what it has heard  *)
(* from it from nobody.                                                     *)
WaitsFor(c, a) ==
  /\ <<c, a>> \in Chans /\ a \in Alive
  /\ queue[<<c, a>>] = <<>>
  /\ \A d \in Inputs(a) : heard[<<c, a>>] <= Bound(d, a)

LEMMA BoundTyped ==
  ASSUME IInv, NEW a \in Actors, NEW d \in Inputs(a)
  PROVE  <<d, a>> \in Chans /\ Bound(d, a) \in Nat /\ heard[<<d, a>>] \in Nat
<1>1. PICK E : LinksTyped(E)
  BY DEF IInv
<1>2. <<d, a>> \in Chans
  <2>1. PICK ch \in Chans : ch[2] = a /\ d = ch[1]
    BY DEF Inputs
  <2> QED  BY <2>1, ChanKinds
<1>3. queue[<<d, a>>] \in Seq(E) /\ heard[<<d, a>>] \in Nat /\ Timed(E)
  BY <1>1, <1>2 DEF LinksTyped, Queues, Times
<1>4. Shows(d, a) => First(d, a) \in E
  BY <1>3, HeadTailProperties DEF Shows, First
<1> QED  BY <1>2, <1>3, <1>4 DEF Bound, Timed

(* Who runs and has nothing to take waits, for an actor other than itself   *)
(* that it sees no end of, and stalls.                                      *)
LEMMA Waiting ==
  ASSUME IInv, NEW a \in Alive, \A b : <<b, a>> \in Chans => ~IsNext(b, a)
  PROVE  \E c \in Actors : c # a /\ WaitsFor(c, a) /\ StallsAt(heard[<<c, a>>], c, a)
<1>0. a \in Actors /\ status[a] = "running"
  BY DEF Alive, Running
<1> DEFINE B == {Bound(d, a) : d \in Inputs(a)}
<1>1. B \in SUBSET Nat /\ B # {}
  <2>1. \A d \in Inputs(a) : Bound(d, a) \in Nat
    BY <1>0, BoundTyped
  <2>2. World \in Inputs(a)
    <3>1. <<World, a>> \in Chans /\ <<World, a>>[1] = World /\ <<World, a>>[2] = a
      BY <1>0, ChanNames
    <3> QED  BY <3>1 DEF Inputs
  <2> QED  BY <2>1, <2>2
<1>2. PICK c \in Inputs(a) : \A d \in Inputs(a) : Bound(c, a) <= Bound(d, a)
  <2>1. Min(B) \in B /\ \A y \in B : Min(B) <= y
    <3> HIDE DEF B
    <3> QED  BY <1>1, MinOfNats
  <2> QED  BY <2>1
<1>3. <<c, a>> \in Chans
  BY <1>0, BoundTyped
<1>4. ~Shows(c, a)
  <2>1. ASSUME Shows(c, a)  PROVE IsNext(c, a)
    BY <1>0, <1>2, <2>1 DEF IsNext, Bound
  <2> QED  BY <1>3, <2>1
<1> DEFINE t == heard[<<c, a>>]
<1>5. queue[<<c, a>>] = <<>> /\ Bound(c, a) = t /\ \A d \in Inputs(a) : t <= Bound(d, a)
  BY <1>2, <1>4 DEF Shows, Bound
<1>6. c \in Actors /\ c # a
  <2>1. FromWorld(queue[<<World, a>>])
    BY DEF IInv
  <2>2. c # World
    BY <1>5, <2>1 DEF FromWorld
  <2>3. c # a
    <3> SUFFICES ASSUME c = a  PROVE FALSE
      OBVIOUS
    <3>1. a \in Hosts
      BY <1>3, <2>2, ChanKinds
    <3>2. Len(queue[<<a, a>>]) = 1
      BY <3>1 DEF IInv, Clock
    <3> QED  BY <1>5, <3>2
  <2> QED  BY <1>3, <2>2, <2>3, ChanKinds DEF Actors
<1> HIDE DEF t
<1>7. \A d \in Inputs(a) : SilentTo(d, a, t)
  <2> SUFFICES ASSUME NEW d \in Inputs(a)  PROVE SilentTo(d, a, t)
    OBVIOUS
  <2>1. <<d, a>> \in Chans /\ Bound(d, a) \in Nat /\ heard[<<d, a>>] \in Nat /\ t \in Nat
    BY <1>0, BoundTyped DEF t
  <2>2. CASE Shows(d, a)
    <3>1. First(d, a).time = Bound(d, a)
      BY <2>2 DEF Bound
    <3>2. First(d, a).time # t
      <4> SUFFICES ASSUME First(d, a).time = t  PROVE FALSE
        OBVIOUS
      <4>1. IsNext(d, a)
        BY <1>0, <1>5, <2>2 DEF IsNext
      <4> QED  BY <2>1, <4>1
    <3>3. First(d, a).time > t
      BY <1>5, <2>1, <3>1, <3>2
    <3> QED  BY <2>2, <3>3 DEF SilentTo
  <2>3. CASE ~Shows(d, a)
    <3>1. heard[<<d, a>>] = Bound(d, a)
      BY <2>3 DEF Bound
    <3>2. heard[<<d, a>>] >= t
      BY <1>5, <2>1, <3>1
    <3> QED  BY <2>3, <3>2 DEF SilentTo
  <2> QED  BY <2>2, <2>3
<1>8. StallsAt(t, c, a)
  BY <1>0, <1>4, <1>7 DEF StallsAt, t
<1>9. WaitsFor(c, a)
  BY <1>3, <1>5 DEF WaitsFor, t
<1> QED  BY <1>6, <1>8, <1>9 DEF t

(* Who has told its neighbours of the time it stalls at has promised them   *)
(* the time after it.                                                       *)
LEMMA ToldPromise ==
  ASSUME IInv, NEW c \in Actors, NEW a, <<c, a>> \in Chans, c # a, NEW t \in Nat, ~Tells(t, c)
  PROVE  Promise[<<c, a>>] >= t + Latency /\ Promise[<<c, a>>] \in Nat
<1>1. Latency \in Nat
  BY ConstantsTyped
<1>2. CASE c \in Hosts
  <2>1. a = Tor(c) /\ Promise[<<c, a>>] = tor_time[c] + Latency
    BY <1>2, Promises, NetTyped, ChanKinds
  <2>2. tor_time[c] \in Nat /\ ~(tor_time[c] < t)
    BY <1>2, NetTyped DEF Tells, IInv, TimesTyped
  <2> QED  BY ONLY <1>1, <2>1, <2>2, t \in Nat
<1>3. CASE c \in Routers
  <2>1. a \in Neighbours(c) /\ Promise[<<c, a>>] = out_times[c][a] + Latency
    BY <1>3, Promises, NetTyped, ChanKinds
  <2>2. out_times[c][a] \in Nat
    BY <1>3, <2>1 DEF IInv, TimesTyped
  <2>3. ~(out_times[c][a] < t)
    BY <1>3, <2>1 DEF Tells, Late
  <2> QED  BY ONLY <1>1, <2>1, <2>2, <2>3, t \in Nat
<1> QED  BY <1>2, <1>3 DEF Actors

(* World::start returns.  Of all that wait, one waits at the least time; it *)
(* waits for an actor that has promised, and told, of a later one.          *)
THEOREM DeadlockFree == Spec => []NoDeadlock
<1>1. ASSUME IInv, Told  PROVE NoDeadlock
  <2> SUFFICES ASSUME ~NoDeadlock  PROVE FALSE
    OBVIOUS
  <2>1. /\ \E a \in Actors : status[a] # "done"
        /\ \A a \in Actors : status[a] \notin {"panicked", "broke"}
        /\ \A b, a : <<b, a>> \in Chans => ~IsNext(b, a)
        /\ \A c, a : <<c, a>> \in Chans /\ queue[<<c, a>>] = <<>> /\ StallsAt(heard[<<c, a>>], c, a)
                        => ~Tells(heard[<<c, a>>], a)
    BY DEF NoDeadlock
  <2>2. \A a \in Actors : a \in Alive \/ a \in Finished
    <3>1. \A a \in Actors : status[a] \in Statuses
      BY <1>1 DEF IInv, LinksTyped
    <3> QED  BY <2>1, <3>1 DEF Alive, Running, Finished, Statuses
  <2>3. \A a \in Alive : \E c \in Actors : c # a /\ WaitsFor(c, a) /\ ~Tells(heard[<<c, a>>], a)
    <3> SUFFICES ASSUME NEW a \in Alive
                 PROVE  \E c \in Actors : c # a /\ WaitsFor(c, a) /\ ~Tells(heard[<<c, a>>], a)
      OBVIOUS
    <3>1. PICK c \in Actors : c # a /\ WaitsFor(c, a) /\ StallsAt(heard[<<c, a>>], c, a)
      BY <1>1, <2>1, Waiting
    <3>2. <<c, a>> \in Chans /\ queue[<<c, a>>] = <<>>
      BY <3>1 DEF WaitsFor
    <3> QED  BY <2>1, <3>1, <3>2
  <2> DEFINE B == {ch \in Chans : ch[1] \in Actors /\ ch[1] # ch[2] /\ WaitsFor(ch[1], ch[2])
                                    /\ ~Tells(heard[ch], ch[2])}
             T == {heard[ch] : ch \in B}
  <2>4. \A a \in Alive : \E ch \in B : ch[2] = a
    <3> SUFFICES ASSUME NEW a \in Alive  PROVE \E ch \in B : ch[2] = a
      OBVIOUS
    <3>1. PICK c \in Actors : c # a /\ WaitsFor(c, a) /\ ~Tells(heard[<<c, a>>], a)
      BY <2>3
    <3>2. <<c, a>> \in Chans /\ <<c, a>>[1] = c /\ <<c, a>>[2] = a
      BY <3>1 DEF WaitsFor
    <3> QED  BY <3>1, <3>2
  <2>5. T \in SUBSET Nat /\ T # {}
    <3>1. \A ch \in Chans : heard[ch] \in Nat
      BY <1>1 DEF IInv, LinksTyped, Times
    <3>2. \E a \in Actors : a \in Alive
      BY <2>1, <2>2 DEF Finished
    <3> QED  BY <2>4, <3>1, <3>2
  <2>6. PICK ch \in B : \A e \in B : heard[ch] <= heard[e]
    <3>1. Min(T) \in T /\ \A y \in T : Min(T) <= y
      <4> HIDE DEF T
      <4> QED  BY <2>5, MinOfNats
    <3> QED  BY <3>1
  <2>7. /\ ch \in Chans /\ ch[1] \in Actors /\ ch[1] # ch[2] /\ ch[2] \in Alive /\ queue[ch] = <<>>
        /\ ch = <<ch[1], ch[2]>>
    BY ChanKinds DEF WaitsFor
  <2>8. /\ ch[1] \in Alive => Promise[ch] <= LastTime(queue[ch], heard[ch])
        /\ ch[1] \in Finished => EndsInClose(queue[ch])
    BY <1>1, <2>7 DEF Told, Tolds
  <2>9. ch[1] \in Alive /\ Promise[ch] <= heard[ch]
    BY <2>2, <2>7, <2>8 DEF EndsInClose, LastTime
  <2>10. PICK e \in B : e[2] = ch[1]
    BY <2>4, <2>9
  <2>11. heard[ch] \in Nat /\ heard[e] \in Nat /\ heard[ch] <= heard[e]
    BY <2>5, <2>6
  <2>12. Promise[ch] >= heard[e] + Latency /\ Promise[ch] \in Nat
    BY <1>1, <2>7, <2>10, <2>11, ToldPromise
  <2>13. Latency \in Nat \ {0}
    BY ConstantsTyped
  <2> QED  BY ONLY <2>9, <2>11, <2>12, <2>13
<1>2. (IInv /\ Told) /\ [Next]_vars => (IInv /\ Told)'
  BY NextKeeps
<1>3. Init => IInv /\ Told
  BY InitKeeps, InitTold
<1>4. IInv /\ Told => NoDeadlock
  BY <1>1
<1> QED  BY <1>2, <1>3, <1>4, PTL DEF Spec
-----------------------------------------------------------------------------
(* The flows of the servers: what a server keeps of them is as in Flow, as  *)
(* no packet gets to the wrong host or tells of what was never sent.        *)

(* Flows of host h that wait for nothing but acks and timeouts. *)
FlowsFrom(h) ==
  {f \in UNION {FlowRecord(z) : z \in Nat} :
     Filled(f, f.size_byte) /\ f.src = h /\ f.dst \in Hosts}

(* T has one timer for each packet of the flows F that is not acked, and no *)
(* two for any.                                                             *)
TimersFor(F, T) ==
  /\ \A x \in T : x[1] \in Nat /\ x[2] \in DOMAIN F /\ x[3] \in SentOf(F[x[2]])
  /\ \A x, y \in T : x[2] = y[2] /\ x[3] = y[3] => x = y
  /\ \A i \in DOMAIN F : \A s \in Missing(F[i]) : \E x \in T : x[2] = i /\ x[3] = s

Keeping(h, F, T) == F \in Seq(FlowsFrom(h)) /\ TimersFor(F, T)

(* Flows F have become G: each is the flow it was, and what was sent stays  *)
(* sent.                                                                    *)
GoesOn(F, G) ==
  /\ DOMAIN F \subseteq DOMAIN G
  /\ \A i \in DOMAIN F : /\ SameFlow(F[i], G[i]) /\ G[i].size_byte = F[i].size_byte
                         /\ SentOf(F[i]) \subseteq SentOf(G[i])

LEMMA FlowFrom ==
  ASSUME NEW h, NEW f
  PROVE  f \in FlowsFrom(h) <=> /\ f.size_byte \in Nat /\ f \in FlowRecord(f.size_byte)
                                /\ Filled(f, f.size_byte) /\ f.src = h /\ f.dst \in Hosts
<1>1. \A z \in Nat : f \in FlowRecord(z) => f.size_byte = z
  BY DEF FlowRecord
<1> QED  BY <1>1 DEF FlowsFrom

LEMMA FlowSent ==
  ASSUME NEW z \in Nat, NEW f \in FlowRecord(z)
  PROVE  f.next_seq \in Nat /\ SentOf(f) \subseteq Nat
<1>1. f.next_seq \in Nat
  BY PacketCount DEF FlowRecord
<1> QED  BY <1>1 DEF SentOf

(* What new packets are numbered. *)
LEMMA SendsNew ==
  ASSUME NEW r, NEW q \in Nat, Sends(r, q)
  PROVE  /\ SentOf(r.flow) = 0 .. q - 1 \cup ToSet(r.sent)
         /\ \A s \in ToSet(r.sent) : s \notin 0 .. q - 1
<1>1. PICK n \in Nat : r.sent = [k \in 1 .. n |-> q + k - 1] /\ r.flow.next_seq = q + n
  BY DEF Sends
<1>2. ToSet(r.sent) = q .. q + n - 1
  <2>1. ToSet(r.sent) = {q + k - 1 : k \in 1 .. n}
    BY <1>1 DEF ToSet
  <2>2. ASSUME NEW s \in q .. q + n - 1  PROVE s \in {q + k - 1 : k \in 1 .. n}
    <3>1. s - q + 1 \in 1 .. n /\ s = q + (s - q + 1) - 1
      BY <1>1, <2>2
    <3> QED  BY <3>1
  <2>3. \A k \in 1 .. n : q + k - 1 \in q .. q + n - 1
    BY <1>1
  <2> QED  BY <2>1, <2>2, <2>3
<1>3. SentOf(r.flow) = 0 .. (q + n) - 1
  BY <1>1 DEF SentOf
<1> QED  BY <1>1, <1>2, <1>3

(* The timers set for packets S of flow i, at time t. *)
Set(t, i, S) == {<<t, i, s>> : s \in S}

(* The timers after flow i has become G[i] and S was sent at time t.        *)
LEMMA TimersSet ==
  ASSUME NEW F, NEW T, TimersFor(F, T), NEW G, NEW i,
         DOMAIN G = DOMAIN F \cup {i}, \A j \in DOMAIN F : j # i => G[j] = F[j],
         i \in DOMAIN F => SentOf(F[i]) \subseteq SentOf(G[i]),
         NEW heap \in SUBSET T, NEW S \in SUBSET SentOf(G[i]), NEW t \in Nat,
         \A x \in heap : x[2] = i => x[3] \notin S,
         \A x \in T : x \in heap \/ (x[2] = i /\ x[3] \notin Missing(G[i]) \ S),
         \A s \in Missing(G[i]) : s \in S \/ (i \in DOMAIN F /\ s \in Missing(F[i]))
  PROVE  TimersFor(G, heap \cup Set(t, i, S))
<1> DEFINE new == Set(t, i, S)
<1>1. \A x \in new : x[1] \in Nat /\ x[2] = i /\ x[3] \in S /\ x = <<t, i, x[3]>>
  BY DEF Set
<1>2. \A s \in S : <<t, i, s>> \in new /\ <<t, i, s>>[2] = i /\ <<t, i, s>>[3] = s
  BY DEF Set
<1>3. /\ \A x \in T : x[1] \in Nat /\ x[2] \in DOMAIN F /\ x[3] \in SentOf(F[x[2]])
      /\ \A x, y \in T : x[2] = y[2] /\ x[3] = y[3] => x = y
      /\ \A j \in DOMAIN F : \A s \in Missing(F[j]) : \E x \in T : x[2] = j /\ x[3] = s
  BY DEF TimersFor
<1> HIDE DEF new
<1>4. \A x \in heap \cup new : x[1] \in Nat /\ x[2] \in DOMAIN G /\ x[3] \in SentOf(G[x[2]])
  <2>1. \A x \in heap : x[1] \in Nat /\ x[2] \in DOMAIN G /\ x[3] \in SentOf(G[x[2]])
    <3> TAKE x \in heap
    <3>1. x[1] \in Nat /\ x[2] \in DOMAIN F /\ x[3] \in SentOf(F[x[2]])
      BY <1>3
    <3>2. CASE x[2] = i
      BY <3>1, <3>2
    <3>3. CASE x[2] # i
      BY <3>1, <3>3
    <3> QED  BY <3>2, <3>3
  <2> QED  BY <1>1, <2>1
<1>5. \A x, y \in heap \cup new : x[2] = y[2] /\ x[3] = y[3] => x = y
  BY <1>1, <1>3
<1>6. \A j \in DOMAIN G : \A s \in Missing(G[j]) : \E x \in heap \cup new : x[2] = j /\ x[3] = s
  <2> TAKE j \in DOMAIN G
  <2> TAKE s \in Missing(G[j])
  <2>1. CASE j = i /\ s \in S
    BY <1>2, <2>1
  <2>2. CASE j = i /\ s \notin S
    <3>1. PICK x \in T : x[2] = i /\ x[3] = s
      BY <1>3, <2>2
    <3> QED  BY <2>2, <3>1
  <2>3. CASE j # i
    <3>1. j \in DOMAIN F /\ s \in Missing(F[j])
      BY <2>3
    <3>2. PICK x \in T : x[2] = j /\ x[3] = s
      BY <1>3, <3>1
    <3> QED  BY <2>3, <3>2
  <2> QED  BY <2>1, <2>2, <2>3
<1>7. TimersFor(G, heap \cup new)
  BY <1>4, <1>5, <1>6 DEF TimersFor
<1> QED  BY <1>7 DEF new

(* The flow i of a host has been handled: r is what it returned, G the      *)
(* flows and heap, with timers at t for what is sent, the timers then.      *)
HandledFlow(h, F, G, i, r, heap, t) ==
  /\ Keeping(h, G, heap \cup Set(t, i, ToSet(r.sent)))
  /\ GoesOn(F, G)
  /\ i \in DOMAIN G /\ G[i] = r.flow /\ ToSet(r.sent) \subseteq SentOf(r.flow)

LEMMA KeptFlow ==
  ASSUME NEW h, NEW F \in Seq(FlowsFrom(h)), NEW i \in DOMAIN F, NEW g \in FlowsFrom(h)
  PROVE  /\ [F EXCEPT ![i] = g] \in Seq(FlowsFrom(h))
         /\ DOMAIN [F EXCEPT ![i] = g] = DOMAIN F /\ DOMAIN F = DOMAIN F \cup {i}
         /\ [F EXCEPT ![i] = g][i] = g
         /\ \A j \in DOMAIN F : j # i => [F EXCEPT ![i] = g][j] = F[j]
         /\ F[i] \in FlowsFrom(h)
         /\ i \in Nat
<1>1. i \in 1 .. Len(F) /\ F[i] \in FlowsFrom(h) /\ i \in Nat
  BY ElementOfSeq, LenProperties
<1> QED  BY <1>1, ExceptSeq

LEMMA StartHandled ==
  ASSUME NEW h \in Hosts, NEW F, NEW T, Keeping(h, F, T), NEW dst \in Hosts, NEW z \in Nat,
         NEW now \in Nat, NEW t \in Nat, NEW r, r = Start(NewFlow(h, dst, z), now)
  PROVE  HandledFlow(h, F, Append(F, r.flow), Len(F) + 1, r, T, t)
<1>2. h \in Nat /\ dst \in Nat
  BY NetworkAssumption DEF Hosts
<1>0. /\ r.flow \in FlowRecord(z) /\ Filled(r.flow, z) /\ r.flow.src = h /\ r.flow.dst = dst
      /\ r.flow.acked = {} /\ Sends(r, 0)
  BY ONLY <1>2, z \in Nat, now \in Nat, r = Start(NewFlow(h, dst, z), now), StartFills, Z3
<1> DEFINE f == r.flow
           i == Len(F) + 1
           G == Append(F, f)
           S == ToSet(r.sent)
<1>1. F \in Seq(FlowsFrom(h)) /\ TimersFor(F, T)
  BY DEF Keeping
<1>3. f \in FlowRecord(z) /\ Filled(f, z) /\ f.src = h /\ f.dst = dst /\ f.acked = {} /\ Sends(r, 0)
  BY <1>0
<1>4. f \in FlowsFrom(h)
  <2>1. f.size_byte = z
    BY <1>3 DEF FlowRecord
  <2> HIDE DEF f
  <2> QED  BY <1>3, <2>1, FlowFrom
<1>5. SentOf(f) = S
  <2>1. 0 \in Nat /\ 0 .. 0 - 1 = {}
    OBVIOUS
  <2> QED  BY <1>3, <2>1, SendsNew
<1> HIDE DEF f, S
<1>6. /\ G \in Seq(FlowsFrom(h)) /\ DOMAIN G = DOMAIN F \cup {i} /\ i \notin DOMAIN F
      /\ G[i] = f /\ \A j \in DOMAIN F : G[j] = F[j]
  <2>1. Len(F) \in Nat /\ DOMAIN F = 1 .. Len(F)
    BY <1>1, LenProperties
  <2>2. /\ G \in Seq(FlowsFrom(h)) /\ Len(G) = Len(F) + 1 /\ \A j \in 1 .. Len(F) : G[j] = F[j]
        /\ G[Len(F) + 1] = f
    BY <1>1, <1>4, AppendProperties
  <2>3. DOMAIN G = 1 .. Len(F) + 1
    BY <2>2, LenProperties
  <2> HIDE DEF G
  <2> QED  BY <2>1, <2>2, <2>3
<1> HIDE DEF G, i
<1>7. TimersFor(G, T \cup Set(t, i, S))
  <2>1. \A x \in T : x[2] \in DOMAIN F
    BY <1>1 DEF TimersFor
  <2>2. \A s \in Missing(G[i]) : s \in S
    BY <1>5, <1>6 DEF Missing
  <2>3. S \in SUBSET SentOf(G[i]) /\ T \in SUBSET T /\ \A x \in T : x[2] # i
    BY <1>5, <1>6, <2>1
  <2> QED  BY <1>1, <1>6, <2>2, <2>3, TimersSet
<1>8. GoesOn(F, G) /\ i \in DOMAIN G /\ G[i] = f /\ S \subseteq SentOf(f)
  BY <1>5, <1>6 DEF GoesOn, SameFlow
<1> QED  BY <1>6, <1>7, <1>8 DEF HandledFlow, Keeping, f, G, i, S

(* What a flow is, and when it starts.                                      *)
LEMMA StartsNew ==
  ASSUME NEW src \in Nat, NEW dst \in Nat, NEW z \in Nat, NEW t \in Nat,
         NEW r, r = Start(NewFlow(src, dst, z), t)
  PROVE  r.flow.src = src /\ r.flow.dst = dst /\ r.flow.size_byte = z /\ r.flow.start = t
<1> DEFINE f == [NewFlow(src, dst, z) EXCEPT !.start = t]
<1>1. f.src = src /\ f.dst = dst /\ f.size_byte = z /\ f.start = t
  BY DEF NewFlow
<1>2. \E n, q, s : r.flow = [f EXCEPT !.outstanding = n, !.rtx_queue = q, !.next_seq = s]
  BY DEF Start, Fill
<1>3. DOMAIN f = {"src", "dst", "size_byte", "start", "outstanding", "n_acked", "next_seq", "acked",
                  "rtx_queue"}
  BY DEF NewFlow
<1> HIDE DEF f
<1> QED  BY <1>1, <1>2, <1>3

LEMMA AckHandled ==
  ASSUME NEW h \in Hosts, NEW F, NEW T, Keeping(h, F, T),
         NEW i \in DOMAIN F, NEW a \in SentOf(F[i]), NEW t \in Nat,
         NEW r, r = SrcReceive(F[i], a)
  PROVE  HandledFlow(h, F, [F EXCEPT ![i] = r.flow], i, r, T, t)
<1> DEFINE f == F[i]
           g == r.flow
           G == [F EXCEPT ![i] = g]
           S == ToSet(r.sent)
           z == f.size_byte
           q == f.next_seq
<1>1. F \in Seq(FlowsFrom(h)) /\ TimersFor(F, T)
  BY DEF Keeping
<1>2. f \in FlowsFrom(h)
  BY <1>1, ElementOfSeq
<1>3. z \in Nat /\ f \in FlowRecord(z) /\ Filled(f, z) /\ f.src = h /\ f.dst \in Hosts
  BY <1>2, FlowFrom
<1>4. /\ g \in FlowRecord(z) /\ Filled(g, z) /\ SameFlow(f, g)
      /\ g.acked = f.acked \cup {a} /\ Sends(r, q)
  BY <1>3, ReceiveFills
<1>5. q \in Nat
  BY <1>3, FlowSent
<1>6. g \in FlowsFrom(h) /\ SameFlow(f, g) /\ g.size_byte = f.size_byte
  <2>1. g.size_byte = z
    BY <1>4 DEF FlowRecord
  <2>2. g.src = f.src /\ g.dst = f.dst
    BY <1>4 DEF SameFlow
  <2>3. g.size_byte = f.size_byte
    BY <2>1
  <2> HIDE DEF g, z
  <2>4. g \in FlowsFrom(h)
    BY <1>3, <1>4, <2>1, <2>2, FlowFrom
  <2> QED  BY <1>4, <2>3, <2>4
<1> HIDE DEF f, g, S, z
<1>7. SentOf(g) = SentOf(f) \cup S /\ \A s \in S : s \notin SentOf(f)
  <2>1. SentOf(r.flow) = 0 .. q - 1 \cup ToSet(r.sent) /\ \A s \in ToSet(r.sent) : s \notin 0 .. q - 1
    BY <1>4, <1>5, SendsNew
  <2> QED  BY <2>1 DEF SentOf, S, g
<1>8. /\ G \in Seq(FlowsFrom(h)) /\ DOMAIN G = DOMAIN F /\ DOMAIN F = DOMAIN F \cup {i}
      /\ G[i] = g /\ \A j \in DOMAIN F : j # i => G[j] = F[j]
  BY <1>1, <1>6, KeptFlow
<1> HIDE DEF G
<1>9. TimersFor(G, T \cup Set(t, i, S))
  <2>1. \A x \in T : x[3] \in SentOf(F[x[2]])
    BY <1>1 DEF TimersFor
  <2>2. \A x \in T : x[2] = i => x[3] \notin S
    BY <1>7, <2>1 DEF f
  <2>3. \A s \in Missing(g) : s \in S \/ s \in Missing(f)
    BY <1>4, <1>7 DEF Missing
  <2>4. S \in SUBSET SentOf(G[i]) /\ SentOf(F[i]) \subseteq SentOf(G[i]) /\ T \in SUBSET T
    BY <1>7, <1>8 DEF f
  <2>5. \A s \in Missing(G[i]) : s \in S \/ (i \in DOMAIN F /\ s \in Missing(F[i]))
    BY <1>8, <2>3 DEF f
  <2>6. /\ TimersFor(F, T) /\ DOMAIN G = DOMAIN F \cup {i} /\ \A j \in DOMAIN F : j # i => G[j] = F[j]
        /\ \A x \in T : x \in T \/ (x[2] = i /\ x[3] \notin Missing(G[i]) \ S)
    BY <1>1, <1>8
  <2> QED  BY ONLY t \in Nat, <2>2, <2>4, <2>5, <2>6, TimersSet
<1>10. GoesOn(F, G)
  BY <1>6, <1>7, <1>8 DEF GoesOn, SameFlow, f
<1>11. i \in DOMAIN G /\ S \subseteq SentOf(g)
  BY <1>7, <1>8
<1> QED  BY <1>8, <1>9, <1>10, <1>11 DEF HandledFlow, Keeping, G, g, S

(* A timer of the heap goes off. *)
LEMMA TimeoutHandled ==
  ASSUME NEW h \in Hosts, NEW F, NEW T, Keeping(h, F, T), NEW x \in T, NEW t \in Nat,
         NEW r, r = Timeout(F[x[2]], x[3])
  PROVE  HandledFlow(h, F, [F EXCEPT ![x[2]] = r.flow], x[2], r, T \ {x}, t)
<1> DEFINE i == x[2]
           a == x[3]
           f == F[i]
           G == [F EXCEPT ![i] = r.flow]
           S == ToSet(r.sent)
           z == f.size_byte
<1>1. F \in Seq(FlowsFrom(h)) /\ TimersFor(F, T)
  BY DEF Keeping
<1>2. i \in DOMAIN F /\ a \in SentOf(f)
  BY <1>1 DEF TimersFor
<1>3. f \in FlowsFrom(h)
  BY <1>1, <1>2, ElementOfSeq
<1>4. z \in Nat /\ f \in FlowRecord(z) /\ Filled(f, z)
  BY <1>3, FlowFrom
<1>5. r.flow = f /\ r.sent = IF a \in f.acked THEN <<>> ELSE <<a>>
  BY <1>2, <1>4, TimeoutRepeats
<1>6. S = IF a \in f.acked THEN {} ELSE {a}
  <2>1. CASE a \in f.acked
    <3>1. DOMAIN r.sent = {}
      BY <1>5, <2>1
    <3> QED  BY <2>1, <3>1 DEF ToSet
  <2>2. CASE a \notin f.acked
    <3>1. DOMAIN r.sent = {1} /\ r.sent[1] = a
      BY <1>5, <2>2
    <3> QED  BY <2>2, <3>1 DEF ToSet
  <2> QED  BY <2>1, <2>2
<1>7. /\ G \in Seq(FlowsFrom(h)) /\ DOMAIN G = DOMAIN F /\ DOMAIN F = DOMAIN F \cup {i}
      /\ G[i] = f /\ \A j \in DOMAIN F : j # i => G[j] = F[j]
  <2> HIDE DEF i, f
  <2>1. G = [F EXCEPT ![i] = f]
    BY <1>5
  <2> QED  BY <1>1, <1>2, <1>3, <2>1, KeptFlow
<1> HIDE DEF i, a, f, S, z, G
<1>8. TimersFor(G, (T \ {x}) \cup Set(t, i, S))
  <2>1. \A y \in T : y[2] = i /\ y[3] = a => y = x
    BY <1>1 DEF TimersFor, i, a
  <2>2. \A y \in T \ {x} : y[2] = i => y[3] \notin S
    BY <1>6, <2>1
  <2>3. \A y \in T : y \in T \ {x} \/ (y[2] = i /\ y[3] \notin Missing(G[i]) \ S)
    <3>1. a \notin Missing(f) \ S
      BY <1>6 DEF Missing
    <3> QED  BY <1>7, <3>1 DEF i, a
  <2>4. S \in SUBSET SentOf(G[i]) /\ SentOf(F[i]) \subseteq SentOf(G[i]) /\ T \ {x} \in SUBSET T
    BY <1>2, <1>6, <1>7 DEF f
  <2>5. \A s \in Missing(G[i]) : s \in S \/ (i \in DOMAIN F /\ s \in Missing(F[i]))
    BY <1>2, <1>7 DEF f
  <2>6. TimersFor(F, T) /\ DOMAIN G = DOMAIN F \cup {i} /\ \A j \in DOMAIN F : j # i => G[j] = F[j]
    BY <1>1, <1>7
  <2> QED  BY ONLY t \in Nat, <2>2, <2>3, <2>4, <2>5, <2>6, TimersSet
<1>9. GoesOn(F, G)
  BY <1>7 DEF GoesOn, SameFlow, f
<1>10. i \in DOMAIN G /\ S \subseteq SentOf(f)
  BY <1>2, <1>6, <1>7
<1> QED  BY <1>5, <1>7, <1>8, <1>9, <1>10 DEF HandledFlow, Keeping, G, i, S

(* The heap has a top. *)
LEMMA TopIs ==
  ASSUME NEW F, NEW T, TimersFor(F, T), T # {}, \A i \in DOMAIN F : SentOf(F[i]) \subseteq Nat,
         DOMAIN F \subseteq Nat
  PROVE  Top(T) \in T
<1>1. \A x \in T : x[1] \in Nat /\ x[2] \in Nat /\ x[3] \in Nat
  BY DEF TimersFor
<1>2. PICK x1 \in T : \A y \in T : x1[1] <= y[1]
  <2> DEFINE S == {x[1] : x \in T}
  <2>1. PICK m \in S : \A y \in S : m <= y
    BY <1>1, LeastOf
  <2> QED  BY <2>1
<1> DEFINE T1 == {x \in T : x[1] = x1[1]}
<1>3. PICK x2 \in T1 : \A y \in T1 : x2[2] <= y[2]
  <2> DEFINE S == {x[2] : x \in T1}
  <2>1. S # {} /\ S \in SUBSET Nat
    BY <1>1
  <2>2. PICK m \in S : \A y \in S : m <= y
    BY <2>1, LeastOf
  <2> QED  BY <2>2
<1> DEFINE T2 == {x \in T1 : x[2] = x2[2]}
<1>4. PICK x3 \in T2 : \A y \in T2 : x3[3] <= y[3]
  <2> DEFINE S == {x[3] : x \in T2}
  <2>1. S # {} /\ S \in SUBSET Nat
    BY <1>1
  <2>2. PICK m \in S : \A y \in S : m <= y
    BY <2>1, LeastOf
  <2> QED  BY <2>2
<1>5. x3 \in T /\ x3[1] = x1[1] /\ x3[2] = x2[2]
  OBVIOUS
<1>6. \A y \in T : Earlier(x3, y)
  <2> TAKE y \in T
  <2>1. /\ x3[1] \in Nat /\ x3[2] \in Nat /\ x3[3] \in Nat /\ y[1] \in Nat /\ y[2] \in Nat /\ y[3] \in Nat
    BY <1>1, <1>5
  <2>2. x3[1] <= y[1]
    BY <1>2, <1>5
  <2>3. x3[1] = y[1] => y \in T1 /\ x3[2] <= y[2]
    BY <1>3, <1>5
  <2>4. x3[1] = y[1] /\ x3[2] = y[2] => x3[3] <= y[3]
    BY <1>4, <1>5
  <2> QED  BY ONLY <2>1, <2>2, <2>3, <2>4 DEF Earlier
<1> QED  BY <1>5, <1>6 DEF Top

(* The last hop to a host is to the one the packet is for: a host is on no  *)
(* way to another.                                                          *)
LEMMA LastHop ==
  ASSUME NEW r \in Routers, NEW dst \in Hosts, NEW n \in Hosts, n \in Routes[r][dst]
  PROVE  n = dst
<1> DEFINE D == Distances(Net, dst)
<1>1. /\ Net \in Seq(Seq(1 .. Len(Net))) /\ TwoWay(Net) /\ NHosts \in 1 .. Len(Net)
  BY NetworkAssumption
<1>2. Len(Net) \in Nat /\ DOMAIN Net = 1 .. Len(Net)
  BY <1>1
<1>3. IsNetwork(Net)
  <2>1. Net \in Seq(Seq(Nat))
    <3>1. \A i \in 1 .. Len(Net) : Net[i] \in Seq(1 .. Len(Net))
      BY <1>1, <1>2, ElementOfSeq
    <3>2. 1 .. Len(Net) \subseteq Nat
      BY <1>2
    <3>3. \A i \in 1 .. Len(Net) : Net[i] \in Seq(Nat)
      BY ONLY <3>1, <3>2
    <3> QED  BY <1>1, <1>2, <3>3
  <2> QED  BY <1>1, <2>1 DEF IsNetwork
<1>4. /\ r \in DOMAIN Net /\ dst \in DOMAIN Net /\ n \in DOMAIN Net /\ dst < r
      /\ dst \in 1 .. Len(Net) - 1
  BY <1>1, <1>2 DEF Routers, Hosts
<1>5. Routes[r][dst] = NextHops(Net, r, D)
  BY <1>4 DEF Routes
<1>6. Metric(Net, dst, D)
  BY <1>3, <1>4, DistancesMetric
<1> HIDE DEF D
<1>7. n \in ToSet(Net[r]) /\ r \in DOMAIN D /\ D[n] + 1 = D[r]
  BY <1>5 DEF NextHops
<1>8. n \in DOMAIN D /\ D[n] \in Nat /\ D[r] \in Nat
  BY <1>6, <1>7 DEF Metric
<1>9. ASSUME n # dst  PROVE FALSE
  <2>1. PICK p \in DOMAIN D : n \in ToSet(Net[p]) /\ D[n] = D[p] + 1
    BY <1>6, <1>8, <1>9 DEF Metric
  <2>2. p \in DOMAIN Net
    BY <1>6 DEF Metric
  <2>3. p \in ToSet(Net[n]) /\ r \in ToSet(Net[n])
    BY <1>1, <1>4, <1>7, <2>1, <2>2 DEF TwoWay
  <2>4. p = r
    BY <2>3, NetTyped DEF Neighbours
  <2> QED  BY <1>7, <1>8, <2>1, <2>4
<1> QED  BY <1>9

-----------------------------------------------------------------------------
(* Flow i of host h, to d, has sent its packet s. *)
HasSent(fl, h, i, d, s) ==
  /\ h \in Hosts /\ i \in DOMAIN fl[h]
  /\ fl[h][i].dst = d /\ s \in SentOf(fl[h][i])

(* The packets that can be on their way to actor n when the flows are fl. *)
PacketsTo(fl, n) ==
  {p \in [src : Hosts, dst : Hosts, seq_num : Nat, flow_id : Nat, is_ack : BOOLEAN] :
     /\ IF p.is_ack THEN HasSent(fl, p.dst, p.flow_id, p.src, p.seq_num)
                    ELSE HasSent(fl, p.src, p.flow_id, p.dst, p.seq_num)
     /\ n \in Hosts => p.dst = n}

(* From actor m to n: only the World has flows, for the server they are of, *)
(* and a Close at the limit.                                                *)
EventsOn(fl, m, n) ==
  [time : Nat, kind : {"Null", "Timeout"}]
  \cup {e \in [time : Nat, kind : {"Close"}] : m # World => e.time > Limit}
  \cup (IF m = World
        THEN [time : Nat, kind : {"Flow"}, src : {n} \cap Hosts, dst : Hosts, size_byte : Nat]
        ELSE {})
  \cup [time : Nat, kind : {"Packet"}, packet : PacketsTo(fl, n)]

(* The inductive invariant of the flows, given IInv. *)
Flowing ==
  /\ flows = [h \in Hosts |-> flows[h]]
  /\ \A h \in Hosts : Keeping(h, flows[h], timeouts[h])
  /\ \A ch \in Chans : queue[ch] \in Seq(EventsOn(flows, ch[1], ch[2]))

LEMMA EventKinds ==
  ASSUME NEW fl, NEW m, NEW n, NEW e \in EventsOn(fl, m, n)
  PROVE  /\ e.time \in Nat
         /\ e.kind = "Close" => m = World \/ e.time > Limit
         /\ e.kind = "Flow" => /\ m = World /\ n \in Hosts
                              /\ e.src = n /\ e.dst \in Hosts /\ e.size_byte \in Nat
         /\ e.kind = "Packet" => e.packet \in PacketsTo(fl, n)
<1>1. CASE e \in [time : Nat, kind : {"Null", "Timeout"}]
  BY <1>1
<1>2. CASE e \in [time : Nat, kind : {"Close"}] /\ (m # World => e.time > Limit)
  BY <1>2
<1>3. CASE /\ m = World
           /\ e \in [time : Nat, kind : {"Flow"}, src : {n} \cap Hosts, dst : Hosts, size_byte : Nat]
  BY <1>3
<1>4. CASE e \in [time : Nat, kind : {"Packet"}, packet : PacketsTo(fl, n)]
  BY <1>4
<1> QED  BY <1>1, <1>2, <1>3, <1>4 DEF EventsOn

LEMMA EventsAre ==
  ASSUME NEW fl, NEW m, NEW n
  PROVE  /\ \A t \in Nat : Null(t) \in EventsOn(fl, m, n) /\ TimeoutAt(t) \in EventsOn(fl, m, n)
         /\ \A t \in Nat : (m # World => t > Limit) => Close(t) \in EventsOn(fl, m, n)
         /\ \A t \in Nat : \A p \in PacketsTo(fl, n) : PacketAt(t, p) \in EventsOn(fl, m, n)
         /\ m = World /\ n \in Hosts =>
              \A t \in Nat, d \in Hosts, z \in Nat : FlowAt(t, n, d, z) \in EventsOn(fl, m, n)
<1>1. \A t \in Nat : Null(t) \in EventsOn(fl, m, n) /\ TimeoutAt(t) \in EventsOn(fl, m, n)
  BY DEF EventsOn, Null, TimeoutAt
<1>2. \A t \in Nat : (m # World => t > Limit) => Close(t) \in EventsOn(fl, m, n)
  BY DEF EventsOn, Close
<1>3. \A t \in Nat : \A p \in PacketsTo(fl, n) : PacketAt(t, p) \in EventsOn(fl, m, n)
  BY DEF EventsOn, PacketAt
<1>4. m = World /\ n \in Hosts =>
        \A t \in Nat, d \in Hosts, z \in Nat : FlowAt(t, n, d, z) \in EventsOn(fl, m, n)
  BY DEF EventsOn, FlowAt
<1> QED  BY <1>1, <1>2, <1>3, <1>4

(* What can be on its way stays so as the flows go on. *)
LEMMA EventsStay ==
  ASSUME NEW fl, NEW fl2, \A h \in Hosts : GoesOn(fl[h], fl2[h]), NEW m, NEW n
  PROVE  EventsOn(fl, m, n) \subseteq EventsOn(fl2, m, n)
<1>1. ASSUME NEW h, NEW i, NEW d, NEW s, HasSent(fl, h, i, d, s)  PROVE HasSent(fl2, h, i, d, s)
  BY <1>1 DEF HasSent, GoesOn, SameFlow
<1>2. PacketsTo(fl, n) \subseteq PacketsTo(fl2, n)
  BY <1>1 DEF PacketsTo
<1>3. [time : Nat, kind : {"Packet"}, packet : PacketsTo(fl, n)]
        \subseteq [time : Nat, kind : {"Packet"}, packet : PacketsTo(fl2, n)]
  BY <1>2
<1> QED  BY <1>3 DEF EventsOn

(* What a step makes of the flows. *)
FlowsOn == Flowing' /\ \A h \in Hosts : GoesOn(flows[h], flows'[h])

(* A handler of a goes on with the flows, and pushes what it may.           *)
LEMMA StepFlows ==
  ASSUME NEW a \in Actors, NEW after, NEW q,
         \A ch \in Chans : q[ch] \in Seq(EventsOn(flows, ch[1], ch[2])) /\ Len(q[ch]) <= QSize,
         NEW out, \A n \in DOMAIN out : out[n] \in Seq(EventsOn(flows', a, n)),
         Deliver(q, a, out, after),
         flows' = [h \in Hosts |-> flows'[h]],
         \A h \in Hosts : Keeping(h, flows'[h], timeouts'[h]) /\ GoesOn(flows[h], flows'[h])
  PROVE  FlowsOn
<1>1. ASSUME NEW ch \in Chans  PROVE queue'[ch] \in Seq(EventsOn(flows', ch[1], ch[2]))
  <2> DEFINE E  == EventsOn(flows', ch[1], ch[2])
             n  == ch[2]
  <2>1. EventsOn(flows, ch[1], ch[2]) \subseteq E
    BY EventsStay
  <2> HIDE DEF E
  <2>2. q[ch] \in Seq(E) /\ Len(q[ch]) <= QSize
    BY <2>1
  <2>3. ch = <<ch[1], n>>
    BY ChanKinds
  <2>4. CASE ch[1] = a /\ n \in DOMAIN out
    <3>1. queue'[ch] = q[ch] \o SubSeq(out[n], 1, Min({Len(out[n]), QSize - Len(q[<<a, n>>])}))
      BY <2>4 DEF Deliver
    <3>2. queue'[ch] = Pushed(q[ch], out[n], QSize)
      BY <2>3, <2>4, <3>1 DEF Pushed, Fits
    <3>3. out[n] \in Seq(E) /\ QSize \in Nat
      BY <2>4, ConstantsTyped DEF E
    <3> QED  BY ONLY <2>2, <3>2, <3>3, PushedSeq DEF E
  <2>5. CASE ~(ch[1] = a /\ n \in DOMAIN out)
    <3>1. queue'[ch] = q[ch]
      BY <2>5 DEF Deliver
    <3> QED  BY <2>2, <3>1 DEF E
  <2> QED  BY <2>4, <2>5
<1> QED  BY <1>1 DEF Flowing, FlowsOn

(* A step that leaves the flows alone goes on with them. *)
LEMMA GoesOnSelf == \A F : GoesOn(F, F)
  BY DEF GoesOn, SameFlow

(* What the first event from b leaves to take, and what it is.              *)
LEMMA FlowingTake ==
  ASSUME IInv, Flowing, NEW a, NEW b, <<b, a>> \in Chans, IsNext(b, a)
  PROVE  /\ a \in Actors
         /\ First(b, a) \in EventsOn(flows, b, a) /\ First(b, a).time \in Nat
         /\ \A ch \in Chans : Rest(b, a)[ch] \in Seq(EventsOn(flows, ch[1], ch[2])) /\ Len(Rest(b, a)[ch]) <= QSize
<1> DEFINE c == <<b, a>>
           q == Rest(b, a)
<1>1. PICK E : LinksTyped(E)
  BY DEF IInv
<1>2. a \in Actors /\ queue[c] # <<>>
  BY ChanKinds DEF IsNext, Shows
<1>3. queue = [ch \in Chans |-> queue[ch]] /\ \A ch \in Chans : Len(queue[ch]) <= QSize
  BY <1>1 DEF LinksTyped, Queues
<1>4. \A ch \in Chans : q[ch] = IF ch = c THEN Tail(queue[c]) ELSE queue[ch]
  BY <1>3 DEF Rest
<1>5. c \in Chans /\ queue[c] \in Seq(EventsOn(flows, b, a))
  BY DEF Flowing
<1>6. /\ Head(queue[c]) \in EventsOn(flows, b, a) /\ Tail(queue[c]) \in Seq(EventsOn(flows, b, a))
      /\ Len(Tail(queue[c])) <= QSize
  <2> DEFINE s == queue[c]
             X == EventsOn(flows, b, a)
  <2>1. s \in Seq(X) /\ s # <<>> /\ Len(s) <= QSize /\ QSize \in Nat
    BY <1>2, <1>3, <1>5, ConstantsTyped
  <2> HIDE DEF s, X
  <2>2. Head(s) \in X /\ Tail(s) \in Seq(X) /\ Len(Tail(s)) = Len(s) - 1 /\ Len(s) \in Nat
    BY <2>1, HeadTailProperties, LenProperties
  <2> QED  BY <2>1, <2>2 DEF s, X
<1>7. First(b, a) \in EventsOn(flows, b, a)
  BY <1>6 DEF First
<1>8. ASSUME NEW ch \in Chans  PROVE q[ch] \in Seq(EventsOn(flows, ch[1], ch[2])) /\ Len(q[ch]) <= QSize
  <2>1. CASE ch = c
    BY <1>4, <1>6, <2>1
  <2>2. CASE ch # c
    BY <1>3, <1>4, <2>2 DEF Flowing
  <2> QED  BY <2>1, <2>2
<1> QED  BY <1>2, <1>7, <1>8, EventKinds

(* A step that leaves the flows and their timers alone.                     *)
LEMMA FlowingSame ==
  ASSUME IInv, Flowing, NEW a \in Actors, NEW q,
         \A ch \in Chans : q[ch] \in Seq(EventsOn(flows, ch[1], ch[2])) /\ Len(q[ch]) <= QSize,
         NEW out, \A n \in DOMAIN out : out[n] \in Seq(EventsOn(flows, a, n)),
         NEW after, Deliver(q, a, out, after), UNCHANGED <<timeouts, flows>>
  PROVE  FlowsOn
<1>1. flows' = flows /\ timeouts' = timeouts
  OBVIOUS
<1>2. flows' = [h \in Hosts |-> flows'[h]]
  BY <1>1 DEF Flowing
<1>3. \A h \in Hosts : Keeping(h, flows'[h], timeouts'[h]) /\ GoesOn(flows[h], flows'[h])
  BY <1>1, GoesOnSelf DEF Flowing
<1>4. \A n \in DOMAIN out : out[n] \in Seq(EventsOn(flows', a, n))
  BY <1>1
<1> QED  BY <1>2, <1>3, <1>4, StepFlows

LEMMA FlowingHandled ==
  ASSUME IInv, Flowing, NEW a, NEW b, <<b, a>> \in Chans, IsNext(b, a),
         NEW out, \A n \in DOMAIN out : out[n] \in Seq(EventsOn(flows, a, n)),
         NEW after, Handle(b, a, out, after), UNCHANGED <<timeouts, flows>>
  PROVE  FlowsOn
<1>1. Deliver(Rest(b, a), a, out, after)
  BY DEF Handle, Rest
<1> QED  BY <1>1, FlowingTake, FlowingSame

LEMMA FlowingStalled ==
  ASSUME IInv, Flowing, NEW a \in Actors,
         NEW out, \A n \in DOMAIN out : out[n] \in Seq(EventsOn(flows, a, n)),
         NEW after, HandleStall(a, out, after), UNCHANGED <<timeouts, flows>>
  PROVE  FlowsOn
<1>1. Deliver(queue, a, out, after)
  BY DEF HandleStall
<1>2. PICK E : LinksTyped(E)
  BY DEF IInv
<1>3. \A ch \in Chans : queue[ch] \in Seq(EventsOn(flows, ch[1], ch[2])) /\ Len(queue[ch]) <= QSize
  BY <1>2 DEF LinksTyped, Flowing
<1> QED  BY <1>1, <1>3, FlowingSame

(* One event to each of N. *)
LEMMA EachMay ==
  ASSUME NEW a, NEW N, NEW e, \A n \in N : e \in EventsOn(flows, a, n), NEW out, out = [n \in N |-> <<e>>]
  PROVE  \A n \in DOMAIN out : out[n] \in Seq(EventsOn(flows, a, n))
<1> TAKE n \in DOMAIN out
<1>1. n \in N /\ out[n] = <<e>>
  OBVIOUS
<1> DEFINE X == EventsOn(flows, a, n)
<1>2. e \in X
  BY <1>1
<1> HIDE DEF X
<1>3. <<e>> \in Seq(X)
  BY <1>2
<1> QED  BY <1>1, <1>3 DEF X

-----------------------------------------------------------------------------
LEMMA TakeNullFlows ==
  ASSUME IInv, Flowing, NEW a, NEW b, <<b, a>> \in Chans, TakeNull(b, a), UNCHANGED serverVars
  PROVE  FlowsOn
<1>1. IsNext(b, a) /\ Handle(b, a, Nothing, "running") /\ UNCHANGED <<timeouts, flows>>
  BY DEF TakeNull, serverVars
<1>2. \A n \in DOMAIN Nothing : Nothing[n] \in Seq(EventsOn(flows, a, n))
  BY DEF Nothing
<1> QED  BY <1>1, <1>2, FlowingHandled

LEMMA StallFlows ==
  ASSUME IInv, Flowing, NEW a \in Actors, NEW b, NEW t \in Nat,
         \/ a \in Routers /\ RouterStall(t, b, a) /\ UNCHANGED serverVars
         \/ a \in Hosts /\ ServerStall(t, b, a)
  PROVE  FlowsOn
<1> DEFINE e == Null(t + Latency)
<1>1. PICK N : HandleStall(a, [n \in N |-> <<e>>], "running") /\ UNCHANGED <<timeouts, flows>>
  <2>1. CASE RouterStall(t, b, a) /\ UNCHANGED serverVars
    BY <2>1 DEF RouterStall, serverVars
  <2>2. CASE ServerStall(t, b, a)
    BY <2>2 DEF ServerStall
  <2> QED  BY <2>1, <2>2
<1>2. t + Latency \in Nat
  BY ConstantsTyped
<1>3. \A n \in N : e \in EventsOn(flows, a, n)
  BY <1>2, EventsAre
<1> HIDE DEF e
<1> DEFINE out == [n \in N |-> <<e>>]
<1>4. out = [n \in N |-> <<e>>]
  OBVIOUS
<1>5. HandleStall(a, out, "running") /\ UNCHANGED <<timeouts, flows>>
  BY <1>1
<1> HIDE DEF out
<1>6. \A n \in DOMAIN out : out[n] \in Seq(EventsOn(flows, a, n))
  BY ONLY <1>3, <1>4, EachMay
<1> QED  BY <1>5, <1>6, FlowingStalled

LEMMA CloseFlows ==
  ASSUME IInv, Flowing, NEW a, NEW b, <<b, a>> \in Chans,
         (RouterClose(b, a) /\ UNCHANGED serverVars) \/ ServerClose(b, a)
  PROVE  FlowsOn
<1> DEFINE e == Close(First(b, a).time + Latency)
<1>1. PICK N : IsNext(b, a) /\ Handle(b, a, [n \in N |-> <<e>>], "done") /\ UNCHANGED <<timeouts, flows>>
  <2>1. CASE RouterClose(b, a) /\ UNCHANGED serverVars
    BY <2>1 DEF RouterClose, serverVars
  <2>2. CASE ServerClose(b, a)
    BY <2>2 DEF ServerClose, serverVars
  <2> QED  BY <2>1, <2>2
<1>2. First(b, a).time + Latency \in Nat /\ First(b, a).time + Latency > Limit
  <2>1. PICK E : LinksTyped(E)
    BY DEF IInv
  <2>2. First(b, a).kind = "Close"
    BY DEF RouterClose, ServerClose
  <2>3. First(b, a).time > Limit - 1 /\ First(b, a).time \in Nat
    BY <1>1, <2>1, <2>2, TakeReady
  <2> QED  BY <2>3, ConstantsTyped
<1>3. \A n \in N : e \in EventsOn(flows, a, n)
  BY <1>2, EventsAre
<1> HIDE DEF e
<1> DEFINE out == [n \in N |-> <<e>>]
<1>4. out = [n \in N |-> <<e>>]
  OBVIOUS
<1>5. IsNext(b, a) /\ Handle(b, a, out, "done") /\ UNCHANGED <<timeouts, flows>>
  BY <1>1
<1> HIDE DEF out
<1>6. \A n \in DOMAIN out : out[n] \in Seq(EventsOn(flows, a, n))
  BY ONLY <1>3, <1>4, EachMay
<1> QED  BY <1>5, <1>6, FlowingHandled

LEMMA RouterDropFlows ==
  ASSUME IInv, Flowing, NEW r \in Routers, NEW b, <<b, r>> \in Chans, NEW n \in Neighbours(r),
         RouterDrop(b, r, n) \/ RouterFull(b, r, n), UNCHANGED serverVars
  PROVE  FlowsOn
<1>1. PICK after : IsNext(b, r) /\ Handle(b, r, Nothing, after) /\ UNCHANGED <<timeouts, flows>>
  BY DEF RouterDrop, RouterFull, Routed, serverVars
<1>2. \A m \in DOMAIN Nothing : Nothing[m] \in Seq(EventsOn(flows, r, m))
  BY DEF Nothing
<1> QED  BY <1>1, <1>2, FlowingHandled

(* A router sends a packet on, to its host if the next actor is one.        *)
LEMMA RouterSendFlows ==
  ASSUME IInv, Flowing, NEW r \in Routers, NEW b, <<b, r>> \in Chans, NEW n \in Neighbours(r),
         RouterSend(b, r, n), UNCHANGED serverVars
  PROVE  FlowsOn
<1> USE ConstantsTyped
<1> DEFINE p     == First(b, r).packet
           txEnd == Max({First(b, r).time, out_times[r][n]}) + TxTime(SizeByte(p))
           e     == PacketAt(txEnd + Latency, p)
           out   == [m \in {n} |-> <<e>>]
<1>1. /\ IsNext(b, r) /\ First(b, r).kind = "Packet" /\ n \in Routes[r][p.dst]
      /\ Handle(b, r, out, "running") /\ UNCHANGED <<timeouts, flows>>
  BY DEF RouterSend, Routed, serverVars
<1>2. First(b, r).time \in Nat /\ p \in PacketsTo(flows, r)
  BY <1>1, FlowingTake, EventKinds
<1>3. txEnd + Latency \in Nat
  <2> DEFINE m == Max({First(b, r).time, out_times[r][n]})
             x == TxTime(SizeByte(p))
  <2>1. out_times[r][n] \in Nat
    BY DEF IInv, TimesTyped
  <2>2. m \in Nat /\ x \in Nat
    BY <1>2, <2>1, MaxOfTwo, TxTimes
  <2>3. txEnd = m + x
    OBVIOUS
  <2> HIDE DEF m, x, txEnd
  <2> QED  BY <2>2, <2>3
<1> HIDE DEF txEnd
<1>4. p.dst \in Hosts
  BY <1>2 DEF PacketsTo
<1>5. n \in Hosts => p.dst = n
  BY <1>1, <1>4, LastHop
<1>6. p \in PacketsTo(flows, n)
  BY <1>2, <1>5 DEF PacketsTo
<1> HIDE DEF p
<1>7. \A m \in {n} : e \in EventsOn(flows, r, m)
  BY <1>3, <1>6, EventsAre
<1> HIDE DEF e
<1>8. out = [m \in {n} |-> <<e>>]
  OBVIOUS
<1> HIDE DEF out
<1>9. \A m \in DOMAIN out : out[m] \in Seq(EventsOn(flows, r, m))
  BY ONLY <1>7, <1>8, EachMay
<1> QED  BY <1>1, <1>9, FlowingHandled

LEMMA TorIsRouter == \A h \in Hosts : Tor(h) \notin Hosts
<1>1. \A h \in 1 .. NHosts : Net[h][1] > NHosts
  BY NetworkAssumption
<1>2. NHosts \in Nat
  BY NetworkAssumption
<1> QED  BY <1>1, <1>2 DEF Tor, Hosts

LEMMA ServerDataFlows ==
  ASSUME IInv, Flowing, NEW h \in Hosts, NEW b, <<b, h>> \in Chans, ServerData(b, h)
  PROVE  FlowsOn
<1> USE ConstantsTyped
<1> DEFINE p     == First(b, h).packet
           txEnd == tor_time[h] + TxTime(AckBytes)
           ack   == [p EXCEPT !.dst = p.src, !.src = h, !.is_ack = TRUE]
           e     == PacketAt(txEnd + Latency, ack)
           out   == [n \in {Tor(h)} |-> <<e>>]
<1>1. /\ IsNext(b, h) /\ First(b, h).kind = "Packet" /\ ~p.is_ack
      /\ Handle(b, h, out, "running") /\ UNCHANGED <<timeouts, flows>>
  BY DEF ServerData
<1>2. p \in PacketsTo(flows, h)
  BY <1>1, FlowingTake, EventKinds
<1>3. txEnd + Latency \in Nat
  <2> DEFINE x == TxTime(AckBytes)
  <2>1. tor_time[h] \in Nat
    BY DEF IInv, TimesTyped
  <2>2. x \in Nat
    BY TxTimes
  <2>3. txEnd = tor_time[h] + x
    OBVIOUS
  <2> HIDE DEF x, txEnd
  <2> QED  BY <2>1, <2>2, <2>3
<1> HIDE DEF txEnd
<1>4. /\ p \in [src : Hosts, dst : Hosts, seq_num : Nat, flow_id : Nat, is_ack : BOOLEAN]
      /\ p.dst = h /\ HasSent(flows, p.src, p.flow_id, h, p.seq_num)
  BY <1>1, <1>2 DEF PacketsTo
<1> HIDE DEF p
<1>5. /\ ack \in [src : Hosts, dst : Hosts, seq_num : Nat, flow_id : Nat, is_ack : BOOLEAN]
      /\ ack.is_ack /\ ack.dst = p.src /\ ack.src = h /\ ack.flow_id = p.flow_id
      /\ ack.seq_num = p.seq_num
  BY <1>4
<1> HIDE DEF ack
<1>6. ack \in PacketsTo(flows, Tor(h))
  BY <1>4, <1>5, TorIsRouter DEF PacketsTo
<1>7. \A n \in {Tor(h)} : e \in EventsOn(flows, h, n)
  BY <1>3, <1>6, EventsAre
<1> HIDE DEF e
<1>8. out = [n \in {Tor(h)} |-> <<e>>]
  OBVIOUS
<1> HIDE DEF out
<1>9. \A n \in DOMAIN out : out[n] \in Seq(EventsOn(flows, h, n))
  BY ONLY <1>7, <1>8, EachMay
<1> QED  BY <1>1, <1>9, FlowingHandled

(* A server has handled its flow id, and sends what the flow returned.      *)
LEMMA TransmitFlows ==
  ASSUME IInv, Flowing, NEW h \in Hosts, NEW b, <<b, h>> \in Chans, IsNext(b, h),
         NEW id, NEW r, Burst(r), NEW heap, NEW G,
         HandledFlow(h, flows[h], G, id, r, heap, First(b, h).time + MinRto),
         NEW self, self \in Seq([time : Nat, kind : {"Timeout"}]),
         flows' = [flows EXCEPT ![h] = G],
         Transmit(b, h, id, r, heap, self)
  PROVE  FlowsOn
<1> USE ConstantsTyped
<1>1. PICK n \in Nat : r.sent = [k \in 1 .. n |-> r.sent[k]]
  BY DEF Burst
<1> DEFINE c     == TxTime(BytesPerPacket)
           Data(k) == [src |-> r.flow.src, dst |-> r.flow.dst, seq_num |-> r.sent[k],
                       flow_id |-> id, is_ack |-> FALSE]
           burst == [k \in 1 .. n |-> PacketAt(tor_time[h] + k * c + Latency, Data(k))]
           out   == [m \in {h, Tor(h)} |-> IF m = h THEN self ELSE burst]
           t     == First(b, h).time + MinRto
           S     == ToSet(r.sent)
<1>2. /\ DOMAIN r.sent = 1 .. n
      /\ \A k \in 1 .. n : r.sent[k] \in S
  <2>1. DOMAIN r.sent = 1 .. n
    BY <1>1
  <2> QED  BY <2>1 DEF ToSet
<1>3. timeouts' = [timeouts EXCEPT ![h] = heap \cup Set(t, id, S)] /\ Handle(b, h, out, "running")
  BY <1>2 DEF Transmit, Set
<1> HIDE DEF t
<1>4. Keeping(h, G, heap \cup Set(t, id, S)) /\ GoesOn(flows[h], G)
      /\ id \in DOMAIN G /\ G[id] = r.flow /\ S \subseteq SentOf(r.flow)
  BY DEF HandledFlow, t
<1> HIDE DEF S
<1>5. flows = [g \in Hosts |-> flows[g]] /\ timeouts = [g \in Hosts |-> timeouts[g]]
  BY DEF Flowing, IInv, TimesTyped
<1>6. /\ flows' = [g \in Hosts |-> flows'[g]]
      /\ flows'[h] = G /\ timeouts'[h] = heap \cup Set(t, id, S)
      /\ \A g \in Hosts : g # h => flows'[g] = flows[g] /\ timeouts'[g] = timeouts[g]
  <2>1. \A new : flows' = [flows EXCEPT ![h] = new] =>
                   /\ flows' = [g \in Hosts |-> flows'[g]] /\ flows'[h] = new
                   /\ \A g \in Hosts : g # h => flows'[g] = flows[g]
    BY ONLY <1>5, h \in Hosts
  <2>2. \A new : timeouts' = [timeouts EXCEPT ![h] = new] =>
                   /\ timeouts'[h] = new
                   /\ \A g \in Hosts : g # h => timeouts'[g] = timeouts[g]
    BY ONLY <1>5, h \in Hosts
  <2> QED  BY <1>3, <2>1, <2>2
<1>7. \A g \in Hosts : Keeping(g, flows'[g], timeouts'[g]) /\ GoesOn(flows[g], flows'[g])
  BY <1>4, <1>6, GoesOnSelf DEF Flowing
<1>8. id \in Nat /\ r.flow.src = h /\ r.flow.dst \in Hosts /\ SentOf(r.flow) \subseteq Nat
  <2>1. G \in Seq(FlowsFrom(h))
    BY <1>4 DEF Keeping
  <2>2. r.flow \in FlowsFrom(h) /\ id \in Nat
    BY <1>4, <2>1, ElementOfSeq, LenProperties
  <2> QED  BY <2>2, FlowFrom, FlowSent
<1>9. \A k \in 1 .. n : Data(k) \in PacketsTo(flows', Tor(h))
  <2> TAKE k \in 1 .. n
  <2>1. r.sent[k] \in SentOf(r.flow) /\ r.sent[k] \in Nat
    BY <1>2, <1>4, <1>8
  <2>2. HasSent(flows', h, id, r.flow.dst, r.sent[k])
    BY <1>4, <1>6, <2>1 DEF HasSent
  <2> QED  BY <1>8, <2>1, <2>2, TorIsRouter DEF PacketsTo
<1>10. \A k \in 1 .. n : tor_time[h] + k * c + Latency \in Nat
  <2> TAKE k \in 1 .. n
  <2> DEFINE y == k * c
  <2>1. c \in Nat
    BY TxTimes
  <2>2. y \in Nat
    <3>1. k \in Nat /\ k <= k
      OBVIOUS
    <3> HIDE DEF c
    <3> QED  BY <2>1, <3>1, TimesGrow
  <2>3. tor_time[h] \in Nat
    BY DEF IInv, TimesTyped
  <2>4. tor_time[h] + y + Latency \in Nat
    <3> HIDE DEF y
    <3> QED  BY <2>2, <2>3
  <2> QED  BY <2>4
<1> HIDE DEF c, Data
<1> DEFINE X == EventsOn(flows', h, Tor(h))
<1>11. \A k \in 1 .. n : burst[k] \in X
  BY <1>9, <1>10, EventsAre
<1>12. burst = [k \in 1 .. n |-> burst[k]]
  OBVIOUS
<1> HIDE DEF burst, X
<1>13. burst \in Seq(X)
  BY ONLY n \in Nat, <1>11, <1>12, IndexedSeq
<1>14. self \in Seq(EventsOn(flows', h, h))
  <2> DEFINE Y == EventsOn(flows', h, h)
             Z == [time : Nat, kind : {"Timeout"}]
  <2>1. Z \subseteq Y
    BY DEF EventsOn
  <2> HIDE DEF Y
  <2>2. self \in Seq(Z)
    OBVIOUS
  <2> HIDE DEF Z
  <2>3. self \in Seq(Y)
    BY ONLY <2>1, <2>2
  <2> QED  BY <2>3 DEF Y
<1>15. DOMAIN out = {h, Tor(h)} /\ out[h] = self /\ out[Tor(h)] = burst
  BY NetTyped
<1>16. \A m \in DOMAIN out : out[m] \in Seq(EventsOn(flows', h, m))
  BY <1>13, <1>14, <1>15 DEF X
<1>17. Deliver(Rest(b, h), h, out, "running")
  BY <1>3 DEF Handle, Rest
<1> HIDE DEF out
<1>18. /\ h \in Actors
       /\ \A ch \in Chans : Rest(b, h)[ch] \in Seq(EventsOn(flows, ch[1], ch[2])) /\ Len(Rest(b, h)[ch]) <= QSize
  BY FlowingTake
<1> QED  BY ONLY <1>6, <1>7, <1>16, <1>17, <1>18, StepFlows

LEMMA NoneToSelf == <<>> \in Seq([time : Nat, kind : {"Timeout"}])
  OBVIOUS

LEMMA ServerFlowFlows ==
  ASSUME IInv, Flowing, NEW h \in Hosts, NEW b, <<b, h>> \in Chans, ServerFlow(b, h)
  PROVE  FlowsOn
<1> DEFINE e  == First(b, h)
           id == Len(flows[h]) + 1
           r  == Start(NewFlow(e.src, e.dst, e.size_byte), e.time)
           G  == Append(flows[h], r.flow)
<1>1. /\ IsNext(b, h) /\ e.kind = "Flow" /\ Transmit(b, h, id, r, timeouts[h], <<>>)
      /\ flows' = [flows EXCEPT ![h] = G]
  BY DEF ServerFlow, Flowing
<1>2. e.src = h /\ e.dst \in Hosts /\ e.size_byte \in Nat /\ e.time \in Nat
  BY <1>1, FlowingTake, EventKinds
<1>3. Burst(r)
  BY FlowSends
<1>4. e.time + MinRto \in Nat
  BY <1>2, ConstantsTyped
<1>5. Keeping(h, flows[h], timeouts[h])
  BY DEF Flowing
<1>6. r = Start(NewFlow(h, e.dst, e.size_byte), e.time)
  BY <1>2
<1> HIDE DEF r, e
<1>7. HandledFlow(h, flows[h], G, id, r, timeouts[h], e.time + MinRto)
  BY ONLY h \in Hosts, <1>2, <1>4, <1>5, <1>6, StartHandled
<1> HIDE DEF G, id
<1>8. HandledFlow(h, flows[h], G, id, r, timeouts[h], First(b, h).time + MinRto)
  BY <1>7 DEF e
<1> QED  BY <1>1, <1>3, <1>8, NoneToSelf, TransmitFlows

LEMMA ServerAckFlows ==
  ASSUME IInv, Flowing, NEW h \in Hosts, NEW b, <<b, h>> \in Chans, ServerAck(b, h)
  PROVE  FlowsOn
<1> DEFINE e == First(b, h)
           p == e.packet
           i == p.flow_id
           r == SrcReceive(flows[h][i], p.seq_num)
           G == [flows[h] EXCEPT ![i] = r.flow]
<1>1. /\ IsNext(b, h) /\ e.kind = "Packet" /\ p.is_ack /\ Transmit(b, h, i, r, timeouts[h], <<>>)
      /\ flows' = [flows EXCEPT ![h] = G]
  BY DEF ServerAck
<1>2. p \in PacketsTo(flows, h) /\ e.time \in Nat
  BY <1>1, FlowingTake, EventKinds
<1>3. p.dst = h /\ HasSent(flows, h, i, p.src, p.seq_num)
  BY <1>1, <1>2 DEF PacketsTo
<1>4. i \in DOMAIN flows[h] /\ p.seq_num \in SentOf(flows[h][i])
  BY <1>3 DEF HasSent
<1>5. Burst(r)
  BY FlowSends
<1>6. e.time + MinRto \in Nat
  BY <1>2, ConstantsTyped
<1>7. Keeping(h, flows[h], timeouts[h])
  BY DEF Flowing
<1>8. r = SrcReceive(flows[h][i], p.seq_num)
  OBVIOUS
<1> HIDE DEF r, e, i, p
<1>9. HandledFlow(h, flows[h], G, i, r, timeouts[h], e.time + MinRto)
  BY ONLY h \in Hosts, <1>4, <1>6, <1>7, <1>8, AckHandled
<1> HIDE DEF G
<1>10. HandledFlow(h, flows[h], G, i, r, timeouts[h], First(b, h).time + MinRto)
  BY <1>9 DEF e
<1> QED  BY <1>1, <1>5, <1>10, NoneToSelf, TransmitFlows

LEMMA ServerTimeoutFlows ==
  ASSUME IInv, Flowing, NEW h \in Hosts, NEW b, <<b, h>> \in Chans, ServerTimeout(b, h)
  PROVE  FlowsOn
<1> USE ConstantsTyped
<1> DEFINE now  == First(b, h).time
           top  == Top(timeouts[h])
           heap == timeouts[h] \ {top}
           r    == Timeout(flows[h][top[2]], top[3])
           G    == [flows[h] EXCEPT ![top[2]] = r.flow]
           u    == Upcoming(heap, now)
           v    == Upcoming(timeouts[h], now)
           out  == [n \in {h} |-> <<TimeoutAt(v)>>]
<1>1. /\ IsNext(b, h) /\ First(b, h).kind = "Timeout"
      /\ \/ /\ Due(h, now) /\ flows' = [flows EXCEPT ![h] = G]
            /\ Transmit(b, h, top[2], r, heap, <<TimeoutAt(u)>>)
         \/ /\ Handle(b, h, out, "running")
            /\ UNCHANGED <<timeouts, flows>>
  BY DEF ServerTimeout
<1>2. now \in Nat /\ \A x \in timeouts[h] : x[1] \in Nat /\ now <= x[1]
  BY <1>1, OwnTimeout
<1>3. heap \subseteq timeouts[h]
  OBVIOUS
<1>4. Keeping(h, flows[h], timeouts[h])
  BY DEF Flowing
<1>5. flows[h] \in Seq(FlowsFrom(h)) /\ TimersFor(flows[h], timeouts[h])
  BY <1>4 DEF Keeping
<1> HIDE DEF now, heap
<1>6. u \in Nat /\ v \in Nat
  BY <1>2, <1>3, UpcomingIsNext
<1> HIDE DEF u, v, G
<1>7. CASE /\ Due(h, now) /\ flows' = [flows EXCEPT ![h] = G]
           /\ Transmit(b, h, top[2], r, heap, <<TimeoutAt(u)>>)
  <2>1. timeouts[h] # {}
    BY <1>7 DEF Due
  <2>2. DOMAIN flows[h] \subseteq Nat
    BY <1>5, LenProperties
  <2>3. \A i \in DOMAIN flows[h] : SentOf(flows[h][i]) \subseteq Nat
    <3> TAKE i \in DOMAIN flows[h]
    <3>1. flows[h][i] \in FlowsFrom(h)
      BY <1>5, ElementOfSeq
    <3> QED  BY <3>1, FlowFrom, FlowSent
  <2>4. top \in timeouts[h]
    BY <1>5, <2>1, <2>2, <2>3, TopIs
  <2> HIDE DEF top
  <2>5. Burst(r)
    BY FlowSends
  <2>6. r = Timeout(flows[h][top[2]], top[3])
    OBVIOUS
  <2> HIDE DEF r
  <2>7. now + MinRto \in Nat
    BY <1>2
  <2>8. HandledFlow(h, flows[h], G, top[2], r, heap, now + MinRto)
    BY ONLY h \in Hosts, <1>4, <2>4, <2>6, <2>7, TimeoutHandled DEF G, heap
  <2>9. HandledFlow(h, flows[h], G, top[2], r, heap, First(b, h).time + MinRto)
    BY <2>8 DEF now
  <2>10. <<TimeoutAt(u)>> \in Seq([time : Nat, kind : {"Timeout"}])
    <3>1. TimeoutAt(u) \in [time : Nat, kind : {"Timeout"}]
      BY <1>6 DEF TimeoutAt
    <3> DEFINE Z == [time : Nat, kind : {"Timeout"}]
    <3> HIDE DEF Z
    <3>2. TimeoutAt(u) \in Z
      BY <3>1 DEF Z
    <3>3. <<TimeoutAt(u)>> \in Seq(Z)
      BY <3>2
    <3> QED  BY <3>3 DEF Z
  <2> QED  BY <1>1, <1>7, <2>5, <2>9, <2>10, TransmitFlows
<1>8. CASE Handle(b, h, out, "running") /\ UNCHANGED <<timeouts, flows>>
  <2>1. \A n \in {h} : TimeoutAt(v) \in EventsOn(flows, h, n)
    BY <1>6, EventsAre
  <2>2. out = [n \in {h} |-> <<TimeoutAt(v)>>]
    OBVIOUS
  <2> HIDE DEF out
  <2>3. \A n \in DOMAIN out : out[n] \in Seq(EventsOn(flows, h, n))
    BY ONLY <2>1, <2>2, EachMay
  <2> QED  BY <1>1, <1>8, <2>3, FlowingHandled
<1> QED  BY <1>1, <1>7, <1>8

(* At first no flow has started, and the World has only flows for their     *)
(* sources.                                                                 *)
LEMMA InitFlows == Init => Flowing
<1> SUFFICES ASSUME Init  PROVE Flowing
  OBVIOUS
<1> USE ConstantsTyped
<1>1. flows = [h \in Hosts |-> <<>>] /\ timeouts = [h \in Hosts |-> {}]
  BY DEF Init, ServerInit
<1>2. flows = [h \in Hosts |-> flows[h]] /\ \A h \in Hosts : flows[h] = <<>> /\ timeouts[h] = {}
  BY <1>1
<1>3. \A h \in Hosts : Keeping(h, flows[h], timeouts[h])
  <2> TAKE h \in Hosts
  <2>1. <<>> \in Seq(FlowsFrom(h)) /\ DOMAIN <<>> = {}
    OBVIOUS
  <2>2. TimersFor(<<>>, {})
    BY <2>1 DEF TimersFor
  <2> QED  BY <1>2, <2>1, <2>2 DEF Keeping
<1>4. ASSUME NEW ch \in Chans  PROVE queue[ch] \in Seq(EventsOn(flows, ch[1], ch[2]))
  <2> DEFINE n == ch[2]
             X == EventsOn(flows, ch[1], n)
  <2>1. /\ \A t \in Nat : Null(t) \in X /\ TimeoutAt(t) \in X
        /\ ch[1] = World => Close(Limit) \in X
        /\ ch[1] = World /\ n \in Hosts =>
             \A t \in Nat, d \in Hosts, z \in Nat : FlowAt(t, n, d, z) \in X
    BY EventsAre
  <2> HIDE DEF X
  <2>2. queue[ch] = IF ch[1] = World THEN FlowsOf(n) \o <<Close(Limit)>>
                    ELSE IF ch[1] = ch[2] THEN <<TimeoutAt(MinRto)>>
                    ELSE <<Null(Latency)>>
    BY DEF Init
  <2>3. \A e \in X : <<e>> \in Seq(X)
    OBVIOUS
  <2>4. ch[1] = World => FlowsOf(n) \in Seq(X)
    <3> SUFFICES ASSUME ch[1] = World  PROVE FlowsOf(n) \in Seq(X)
      OBVIOUS
    <3>1. CASE n \in Routers
      BY <3>1 DEF FlowsOf
    <3>2. CASE n \notin Routers
      <4>1. n \in Hosts
        BY <3>2, ChanKinds DEF Actors
      <4> DEFINE w == Workload[n]
                 W == [time : 0 .. Limit, src : Hosts, dst : Hosts, size_byte : Nat]
                 s == FlowsOf(n)
      <4>2. w \in Seq(W) /\ \A i \in DOMAIN w : w[i].src = n
        BY <4>1, DcsimAssumption
      <4>3. s = [i \in DOMAIN w |-> FlowAt(w[i].time, w[i].src, w[i].dst, w[i].size_byte)]
        BY <3>2 DEF FlowsOf
      <4> HIDE DEF w, s, n
      <4>4. Len(w) \in Nat /\ DOMAIN w = 1 .. Len(w) /\ \A i \in 1 .. Len(w) : w[i] \in W
        BY <4>2, ElementOfSeq, LenProperties
      <4>5. \A i \in 1 .. Len(w) :
              s[i] = FlowAt(w[i].time, n, w[i].dst, w[i].size_byte)
                /\ w[i].time \in Nat /\ w[i].dst \in Hosts /\ w[i].size_byte \in Nat
        BY <4>2, <4>3, <4>4
      <4>6. \A i \in 1 .. Len(w) : s[i] \in X
        BY <2>1, <4>1, <4>5
      <4>7. s = [i \in 1 .. Len(w) |-> s[i]]
        BY <4>3, <4>4
      <4>8. s \in Seq(X)
        BY ONLY <4>4, <4>6, <4>7, IndexedSeq
      <4> QED  BY <4>8 DEF s
    <3> QED  BY <3>1, <3>2
  <2> HIDE DEF n
  <2>5. (ch[1] = World => Close(Limit) \in X) /\ TimeoutAt(MinRto) \in X /\ Null(Latency) \in X
    BY <2>1
  <2>6. ch[1] = World => FlowsOf(n) \o <<Close(Limit)>> \in Seq(X)
    BY <2>3, <2>4, <2>5, ConcatProperties
  <2>7. queue[ch] \in Seq(X)
    BY <2>2, <2>3, <2>5, <2>6
  <2> QED  BY <2>7 DEF X, n
<1> QED  BY <1>2, <1>3, <1>4 DEF Flowing

LEMMA StepKeepsFlows ==
  ASSUME IInv, Flowing, NEW b, NEW a, <<b, a>> \in Chans, Take(b, a) \/ Stall(b, a)
  PROVE  FlowsOn
<1>0. a \in Actors
  BY ChanKinds
<1>1. heard[<<b, a>>] \in Nat
  <2>1. PICK E : LinksTyped(E)
    BY DEF IInv
  <2> QED  BY <2>1 DEF LinksTyped, Times
<1>2. CASE TakeNull(b, a) /\ UNCHANGED <<count, out_times, serverVars>>
  BY <1>2, TakeNullFlows
<1>3. CASE a \in Routers /\ RouterStep(b, a) /\ UNCHANGED serverVars
  <2>1. CASE RouterClose(b, a)
    BY <1>3, <2>1, CloseFlows
  <2>2. CASE \E n \in Neighbours(a) : RouterDrop(b, a, n) \/ RouterFull(b, a, n)
    BY <1>3, <2>2, RouterDropFlows
  <2>3. CASE \E n \in Neighbours(a) : RouterSend(b, a, n)
    BY <1>3, <2>3, RouterSendFlows
  <2> QED  BY <1>3, <2>1, <2>2, <2>3 DEF RouterStep
<1>4. CASE a \in Hosts /\ ServerStep(b, a) /\ UNCHANGED out_times
  <2>1. CASE ServerClose(b, a)
    BY <2>1, CloseFlows
  <2>2. CASE ServerFlow(b, a)
    BY <1>4, <2>2, ServerFlowFlows
  <2>3. CASE ServerAck(b, a)
    BY <1>4, <2>3, ServerAckFlows
  <2>4. CASE ServerData(b, a)
    BY <1>4, <2>4, ServerDataFlows
  <2>5. CASE ServerTimeout(b, a)
    BY <1>4, <2>5, ServerTimeoutFlows
  <2> QED  BY <1>4, <2>1, <2>2, <2>3, <2>4, <2>5 DEF ServerStep
<1>5. CASE Stall(b, a)
  <2>1. \/ a \in Routers /\ RouterStall(heard[<<b, a>>], b, a) /\ UNCHANGED serverVars
        \/ a \in Hosts /\ ServerStall(heard[<<b, a>>], b, a)
    BY <1>5 DEF Stall
  <2> QED  BY ONLY IInv, Flowing, <1>0, <1>1, <2>1, StallFlows
<1> QED  BY <1>2, <1>3, <1>4, <1>5 DEF Take

LEMMA FlowsKept == IInv /\ Flowing /\ [Next]_vars => FlowsOn
<1> SUFFICES ASSUME IInv, Flowing, [Next]_vars  PROVE FlowsOn
  OBVIOUS
<1>1. CASE UNCHANGED vars
  <2>1. queue' = queue /\ flows' = flows /\ timeouts' = timeouts
    BY <1>1 DEF vars, netVars, serverVars
  <2> QED  BY <2>1, GoesOnSelf DEF Flowing, FlowsOn
<1>2. CASE Next /\ ~UNCHANGED vars
  <2>1. PICK b, a : <<b, a>> \in Chans /\ (Take(b, a) \/ Stall(b, a))
    BY <1>2, NextStep
  <2> QED  BY <2>1, StepKeepsFlows
<1> QED  BY <1>1, <1>2

(* The flows of every server are as in Flow at any time: the window is full *)
(* or all is sent, the timers are those of the missing packets, and what is *)
(* on its way tells of packets that were sent.                              *)
THEOREM FlowsInvariant == Spec => []Flowing
<1>1. IInv /\ Flowing /\ [Next]_vars => Flowing'
  BY FlowsKept DEF FlowsOn
<1> QED  BY <1>1, InitFlows, Invariant, PTL DEF Spec

(* A host is next to its router both ways. *)
LEMMA HostNeighbour ==
  ASSUME NEW h \in Hosts
  PROVE  <<Tor(h), h>> \in Chans
<1>1. /\ Net \in Seq(Seq(1 .. Len(Net))) /\ TwoWay(Net) /\ NHosts \in 1 .. Len(Net)
  BY NetworkAssumption
<1>2. /\ Tor(h) \in Neighbours(h) /\ Tor(h) \in Actors /\ h \in Actors
  BY NetTyped
<1>3. h \in DOMAIN Net /\ Tor(h) \in DOMAIN Net
  <2>1. Len(Net) \in Nat /\ DOMAIN Net = 1 .. Len(Net)
    BY <1>1
  <2>2. Actors \subseteq 1 .. Len(Net)
    BY <1>1, <2>1 DEF Actors, Hosts, Routers
  <2> QED  BY <1>2, <2>1, <2>2
<1>4. h \in Neighbours(Tor(h))
  BY <1>1, <1>2, <1>3 DEF TwoWay, Neighbours
<1> QED  BY <1>2, <1>4 DEF Chans

(* A packet that gets to a host is for it, and an ack is for a flow of its  *)
(* (server.rs unwraps the flow it looks up for an ack).                     *)
THEOREM Arrives == Spec => []RightHost
<1>1. Flowing => RightHost
  <2> SUFFICES ASSUME Flowing, NEW h \in Hosts, NEW e \in ToSet(queue[<<Tor(h), h>>]), e.kind = "Packet"
               PROVE  /\ e.packet.dst = h
                      /\ e.packet.is_ack => /\ e.packet.flow_id \in DOMAIN flows[h]
                                            /\ flows[h][e.packet.flow_id].dst = e.packet.src
    BY DEF RightHost
  <2> DEFINE s == queue[<<Tor(h), h>>]
  <2>1. <<Tor(h), h>> \in Chans
    BY HostNeighbour
  <2>2. s \in Seq(EventsOn(flows, Tor(h), h))
    BY <2>1 DEF Flowing
  <2>3. e \in EventsOn(flows, Tor(h), h)
    <3>1. PICK i \in DOMAIN s : e = s[i]
      BY DEF ToSet
    <3> QED  BY <2>2, <3>1, ElementOfSeq
  <2>4. e.packet \in PacketsTo(flows, h)
    BY <2>3, EventKinds
  <2> QED  BY <2>4 DEF PacketsTo, HasSent
<1> QED  BY <1>1, FlowsInvariant, PTL

-----------------------------------------------------------------------------
(* What a step makes of the World's queues *)

Stalling(a)         == \E out : HandleStall(a, out, "running")
Taking(b, a, after) == IsNext(b, a) /\ \E out : Handle(b, a, out, after)

(* A timeout sends a packet again, and leaves its flow as it is.            *)
LEMMA TimeoutSame ==
  ASSUME Flowing, NEW h \in Hosts, NEW b, ServerTimeout(b, h)
  PROVE  flows' = flows
<1> DEFINE top == Top(timeouts[h])
           F   == flows[h]
           r   == Timeout(F[top[2]], top[3])
<1>1. \/ Due(h, First(b, h).time) /\ flows' = [flows EXCEPT ![h] = [F EXCEPT ![top[2]] = r.flow]]
      \/ flows' = flows
  BY DEF ServerTimeout
<1>2. CASE Due(h, First(b, h).time) /\ flows' = [flows EXCEPT ![h] = [F EXCEPT ![top[2]] = r.flow]]
  <2>1. F \in Seq(FlowsFrom(h)) /\ TimersFor(F, timeouts[h]) /\ timeouts[h] # {}
    BY <1>2 DEF Flowing, Keeping, Due
  <2>2. DOMAIN F \subseteq Nat
    BY <2>1, LenProperties
  <2>3. \A i \in DOMAIN F : /\ F[i] \in FlowsFrom(h) /\ SentOf(F[i]) \subseteq Nat
    <3> TAKE i \in DOMAIN F
    <3>1. F[i] \in FlowsFrom(h)
      BY <2>1, ElementOfSeq
    <3> QED  BY <3>1, FlowFrom, FlowSent
  <2>4. top \in timeouts[h]
    BY <2>1, <2>2, <2>3, TopIs
  <2> HIDE DEF top
  <2>5. top[2] \in DOMAIN F /\ top[3] \in SentOf(F[top[2]])
    BY <2>1, <2>4 DEF TimersFor
  <2>6. r.flow = F[top[2]]
    <3> DEFINE f == F[top[2]]
    <3>1. f.size_byte \in Nat /\ f \in FlowRecord(f.size_byte) /\ Filled(f, f.size_byte)
      BY <2>3, <2>5, FlowFrom
    <3>2. top[3] \in SentOf(f)
      BY <2>5
    <3> HIDE DEF f
    <3>3. Timeout(f, top[3]).flow = f
      BY ONLY <3>1, <3>2, TimeoutRepeats
    <3> QED  BY <3>3 DEF f
  <2>7. [F EXCEPT ![top[2]] = r.flow] = F
    BY <2>1, <2>5, <2>6
  <2>8. flows = [g \in Hosts |-> flows[g]]
    BY DEF Flowing
  <2> QED  BY <1>2, <2>7, <2>8
<1> QED  BY <1>1, <1>2

(* Only a flow that is given and an ack change the flows.                   *)
LEMMA StepKinds ==
  ASSUME IInv, Flowing, NEW b, NEW a, <<b, a>> \in Chans, Take(b, a) \/ Stall(b, a)
  PROVE  \/ UNCHANGED <<flows, fcts>> /\ Stalling(a)
         \/ /\ UNCHANGED <<flows, fcts>> /\ First(b, a).kind # "Flow"
            /\ \E after : /\ Taking(b, a, after)
                          /\ IF First(b, a).kind = "Close" THEN after = "done" ELSE after \in {"running", "broke"}
         \/ a \in Hosts /\ ServerFlow(b, a)
         \/ a \in Hosts /\ ServerAck(b, a)
<1> DEFINE K == First(b, a).kind
           Quietly == /\ UNCHANGED <<flows, fcts>> /\ K # "Flow"
                      /\ \E after : /\ Taking(b, a, after)
                                    /\ IF K = "Close" THEN after = "done" ELSE after \in {"running", "broke"}
<1>0. ASSUME UNCHANGED <<flows, fcts>>, K # "Flow", IsNext(b, a), NEW out, NEW after, Handle(b, a, out, after),
             IF K = "Close" THEN after = "done" ELSE after \in {"running", "broke"}
      PROVE  Quietly
  BY <1>0 DEF Taking
<1>1. CASE TakeNull(b, a) /\ UNCHANGED <<count, out_times, serverVars>>
  BY <1>0, <1>1 DEF TakeNull, serverVars
<1>2. CASE a \in Routers /\ RouterStep(b, a) /\ UNCHANGED serverVars
  <2>0. UNCHANGED <<flows, fcts>>
    BY <1>2 DEF serverVars
  <2>1. CASE RouterClose(b, a)
    BY <1>0, <2>0, <2>1 DEF RouterClose
  <2>2. CASE \E n \in Neighbours(a) : RouterDrop(b, a, n) \/ RouterFull(b, a, n)
    BY <1>0, <2>0, <2>2 DEF RouterDrop, RouterFull, Routed
  <2>3. CASE \E n \in Neighbours(a) : RouterSend(b, a, n)
    BY <1>0, <2>0, <2>3 DEF RouterSend, Routed
  <2> QED  BY <1>2, <2>1, <2>2, <2>3 DEF RouterStep
<1>3. CASE a \in Hosts /\ ServerStep(b, a) /\ UNCHANGED out_times
  <2>1. CASE ServerClose(b, a)
    <3>1. Quietly
      BY <1>0, <2>1 DEF ServerClose, serverVars
    <3> QED  BY <3>1
  <2>2. CASE ServerData(b, a)
    <3>1. Quietly
      BY <1>0, <2>2 DEF ServerData
    <3> QED  BY <3>1
  <2>3. CASE ServerTimeout(b, a)
    <3>1. UNCHANGED <<flows, fcts>>
      BY <1>3, <2>3, TimeoutSame DEF ServerTimeout
    <3>2. Quietly
      BY <1>0, <2>3, <3>1 DEF ServerTimeout, Transmit
    <3> QED  BY <3>2
  <2> QED  BY <1>3, <2>1, <2>2, <2>3 DEF ServerStep
<1>4. CASE a \in Routers /\ RouterStall(heard[<<b, a>>], b, a) /\ UNCHANGED serverVars
  BY <1>4 DEF RouterStall, serverVars, Stalling
<1>5. CASE a \in Hosts /\ ServerStall(heard[<<b, a>>], b, a) /\ UNCHANGED out_times
  BY <1>5 DEF ServerStall, Stalling
<1> QED  BY <1>1, <1>2, <1>3, <1>4, <1>5 DEF Take, Stall

LEMMA WorldKept ==
  ASSUME IInv, NEW a \in Actors, NEW q, NEW out, NEW after, Deliver(q, a, out, after)
  PROVE  /\ \A g \in Actors : queue'[<<World, g>>] = q[<<World, g>>]
         /\ \A g \in Actors : g # a => status'[g] = status[g]
         /\ status'[a] \in {after, "panicked"}
<1>1. PICK E : LinksTyped(E)
  BY DEF IInv
<1>2. status \in [Actors -> Statuses]
  BY <1>1 DEF LinksTyped
<1>3. \E end \in {after, "panicked"} : status' = [status EXCEPT ![a] = end]
  BY DEF Deliver
<1>4. \A g \in Actors : <<World, g>> \in Chans /\ World # a
  BY ChanNames, NetTyped
<1>5. \A g \in Actors : queue'[<<World, g>>] = q[<<World, g>>]
  BY <1>4 DEF Deliver
<1> QED  BY <1>2, <1>3, <1>5

LEMMA WorldTaken ==
  ASSUME IInv, NEW a, NEW b, <<b, a>> \in Chans, NEW after, Taking(b, a, after)
  PROVE  /\ \A g \in Actors : queue'[<<World, g>>] =
              IF b = World /\ g = a THEN Tail(queue[<<World, g>>]) ELSE queue[<<World, g>>]
         /\ \A g \in Actors : g # a => status'[g] = status[g]
         /\ status'[a] \in {after, "panicked"}
<1>1. PICK E : LinksTyped(E)
  BY DEF IInv
<1>2. queue = [ch \in Chans |-> queue[ch]]
  BY <1>1 DEF LinksTyped, Queues
<1>3. \A ch \in Chans : Rest(b, a)[ch] = IF ch = <<b, a>> THEN Tail(queue[ch]) ELSE queue[ch]
  BY <1>2 DEF Rest
<1>4. a \in Actors /\ \A g \in Actors : <<World, g>> \in Chans
  BY ChanKinds, ChanNames
<1>5. PICK out : Deliver(Rest(b, a), a, out, after)
  BY DEF Taking, Handle, Rest
<1>6. /\ \A g \in Actors : queue'[<<World, g>>] = Rest(b, a)[<<World, g>>]
      /\ \A g \in Actors : g # a => status'[g] = status[g]
      /\ status'[a] \in {after, "panicked"}
  BY ONLY IInv, <1>4, <1>5, WorldKept
<1> QED  BY <1>3, <1>4, <1>6

LEMMA WorldStalled ==
  ASSUME IInv, NEW a \in Actors, Stalling(a)
  PROVE  /\ \A g \in Actors : queue'[<<World, g>>] = queue[<<World, g>>]
         /\ \A g \in Actors : g # a => status'[g] = status[g]
         /\ status'[a] \in {"running", "panicked"}
<1>1. PICK out : Deliver(queue, a, out, "running")
  BY DEF Stalling, HandleStall
<1> QED  BY <1>1, WorldKept

-----------------------------------------------------------------------------
(* Every flow that is given starts *)

(* What the World says to host h. *)
Given(h) == FlowsOf(h) \o <<Close(Limit)>>

LEMMA GivenIs ==
  ASSUME NEW h \in Hosts
  PROVE  /\ Len(Workload[h]) \in Nat
         /\ Given(h) \in Seq([time : Nat, kind : {"Close"}]
                \cup [time : Nat, kind : {"Flow"}, src : Hosts, dst : Hosts, size_byte : Nat])
         /\ Len(Given(h)) = Len(Workload[h]) + 1
         /\ Given(h)[Len(Workload[h]) + 1] = Close(Limit)
         /\ \A i \in 1 .. Len(Workload[h]) :
              /\ Workload[h][i].src = h /\ Workload[h][i].time \in Nat
              /\ Given(h)[i] = FlowAt(Workload[h][i].time, h, Workload[h][i].dst, Workload[h][i].size_byte)
<1> DEFINE w == Workload[h]
           W == [time : 0 .. Limit, src : Hosts, dst : Hosts, size_byte : Nat]
           fl == FlowsOf(h)
           V  == {fl[i] : i \in DOMAIN w}
           g  == Given(h)
<1>1. w \in Seq(W) /\ \A i \in DOMAIN w : w[i].src = h
  BY DcsimAssumption
<1>2. h \notin Routers /\ h \in Actors
  BY NetTyped
<1>3. fl = [i \in DOMAIN w |-> FlowAt(w[i].time, w[i].src, w[i].dst, w[i].size_byte)]
  BY <1>2 DEF FlowsOf
<1>4. \A i \in DOMAIN w : fl[i] \in V
  OBVIOUS
<1> HIDE DEF w, fl, V
<1>5. Len(w) \in Nat /\ DOMAIN w = 1 .. Len(w) /\ \A i \in 1 .. Len(w) : w[i] \in W
  BY <1>1, ElementOfSeq, LenProperties
<1>6. fl = [i \in 1 .. Len(w) |-> fl[i]]
  BY <1>3, <1>5
<1>7. \A i \in 1 .. Len(w) : fl[i] \in V
  BY <1>4, <1>5
<1>8. fl \in Seq(V) /\ Len(fl) = Len(w)
  BY ONLY <1>5, <1>6, <1>7, IndexedSeq
<1>9. g = fl \o <<Close(Limit)>>
  BY DEF Given, fl
<1> HIDE DEF g
<1>10. /\ Len(g) = Len(w) + 1 /\ g[Len(w) + 1] = Close(Limit)
       /\ \A i \in 1 .. Len(w) : g[i] = fl[i]
  <2> DEFINE c == Close(Limit)
             U == V \cup {c}
  <2>1. V \subseteq U /\ c \in U
    OBVIOUS
  <2> HIDE DEF U, c
  <2>2. fl \in Seq(U) /\ <<c>> \in Seq(U) /\ Len(<<c>>) = 1 /\ <<c>>[1] = c
    BY <1>8, <2>1
  <2>3. g = fl \o <<c>>
    BY <1>9 DEF c
  <2>4. /\ Len(g) = Len(fl) + Len(<<c>>)
        /\ \A i \in 1 .. Len(fl) + Len(<<c>>) :
             g[i] = IF i <= Len(fl) THEN fl[i] ELSE <<c>>[i - Len(fl)]
    BY ONLY <2>2, <2>3, ConcatProperties
  <2>5. Len(w) + 1 \in 1 .. Len(w) + 1 /\ ~(Len(w) + 1 <= Len(w)) /\ (Len(w) + 1) - Len(w) = 1
    BY <1>5
  <2>6. g[Len(w) + 1] = c /\ Len(g) = Len(w) + 1
    BY ONLY <1>8, <2>2, <2>4, <2>5
  <2>7. \A i \in 1 .. Len(w) : i \in 1 .. Len(w) + 1 /\ i <= Len(w)
    BY <1>5
  <2>8. \A i \in 1 .. Len(w) : g[i] = fl[i]
    BY ONLY <1>8, <2>2, <2>4, <2>7
  <2> QED  BY <2>6, <2>8 DEF c
<1>11. \A i \in 1 .. Len(w) : w[i].src = h /\ w[i].time \in Nat
                             /\ g[i] = FlowAt(w[i].time, h, w[i].dst, w[i].size_byte)
  BY <1>1, <1>3, <1>5, <1>10, ConstantsTyped
<1>12. g \in Seq([time : Nat, kind : {"Close"}]
                \cup [time : Nat, kind : {"Flow"}, src : Hosts, dst : Hosts, size_byte : Nat])
  BY <1>2, WorldSays DEF g, Given
<1> QED  BY <1>5, <1>10, <1>11, <1>12 DEF g, w

(* s is what is left of g after its first k. *)
Behind(s, g, k) == Len(s) = Len(g) - k /\ \A j \in 1 .. Len(s) : s[j] = g[k + j]

LEMMA BehindTail ==
  ASSUME NEW E, NEW s \in Seq(E), s # <<>>, NEW g, Len(g) \in Nat, NEW k \in Nat, Behind(s, g, k)
  PROVE  /\ Head(s) = g[k + 1] /\ k + 1 <= Len(g)
         /\ Behind(Tail(s), g, k + 1)
<1>1. /\ Len(s) \in Nat /\ Len(s) # 0 /\ Len(Tail(s)) = Len(s) - 1
      /\ Head(s) = s[1] /\ \A j \in 1 .. Len(s) - 1 : Tail(s)[j] = s[j + 1]
  BY HeadTailProperties, LenProperties, EmptySeq
<1>2. Len(s) = Len(g) - k /\ \A j \in 1 .. Len(s) : s[j] = g[k + j]
  BY DEF Behind
<1>3. Head(s) = g[k + 1] /\ k + 1 <= Len(g)
  BY <1>1, <1>2
<1>4. \A j \in 1 .. Len(s) - 1 : j + 1 \in 1 .. Len(s) /\ k + (j + 1) = (k + 1) + j
  BY <1>1
<1>5. \A j \in 1 .. Len(s) - 1 : Tail(s)[j] = g[(k + 1) + j]
  <2> TAKE j \in 1 .. Len(s) - 1
  <2>1. Tail(s)[j] = s[j + 1] /\ s[j + 1] = g[k + (j + 1)] /\ k + (j + 1) = (k + 1) + j
    BY <1>1, <1>2, <1>4
  <2> QED  BY ONLY <2>1
<1>6. Len(Tail(s)) = Len(g) - (k + 1)
  BY <1>1, <1>2
<1> QED  BY ONLY <1>1, <1>3, <1>5, <1>6 DEF Behind

(* f was started for the flow w of the workload. *)
StartsAs(f, w) == f.src = w.src /\ f.dst = w.dst /\ f.size_byte = w.size_byte /\ f.start = w.time

(* The flows of h are the first of its workload; the others are still on    *)
(* their way from the World, until it is done.                              *)
StartsFlows(h) ==
  /\ Len(flows[h]) \in 0 .. Len(Workload[h])
  /\ \A i \in 1 .. Len(flows[h]) : StartsAs(flows[h][i], Workload[h][i])
  /\ status[h] = "running" => Behind(queue[<<World, h>>], Given(h), Len(flows[h]))
  /\ status[h] = "done" => Len(flows[h]) = Len(Workload[h])

Starting == \A h \in Hosts : StartsFlows(h)

LEMMA WorldCloses ==
  ASSUME IInv, Flowing, NEW h \in Hosts, NEW b, <<b, h>> \in Chans, IsNext(b, h),
         First(b, h).kind = "Close"
  PROVE  b = World
<1> SUFFICES ASSUME b # World  PROVE FALSE
  OBVIOUS
<1>1. First(b, h).time \in Nat /\ First(b, h).time > Limit
  BY FlowingTake, EventKinds
<1>2. h \in Actors /\ h \in Alive
  BY NetTyped DEF IsNext, Alive, Running
<1> DEFINE s == queue[<<World, h>>]
<1>3. s # <<>> /\ \A i \in 1 .. Len(s) : s[i].time <= Limit
  BY <1>2 DEF IInv, FromWorld
<1>4. PICK E : LinksTyped(E)
  BY DEF IInv
<1>5. <<World, h>> \in Chans /\ World \in Inputs(h)
  BY <1>2, ChanNames DEF Inputs
<1>6. s \in Seq(E) /\ Timed(E)
  BY <1>4, <1>5 DEF LinksTyped, Queues
<1> HIDE DEF s
<1>7. Head(s) = s[1] /\ 1 \in 1 .. Len(s) /\ s[1] \in E
  BY <1>3, <1>6, HeadTailProperties, LenProperties, EmptySeq
<1>8. Bound(World, h) = s[1].time /\ s[1].time <= Limit /\ s[1].time \in Nat
  BY <1>3, <1>6, <1>7 DEF Bound, Shows, First, s, Timed
<1>9. First(b, h).time <= s[1].time
  BY <1>5, <1>8 DEF IsNext
<1> QED  BY <1>1, <1>8, <1>9, ConstantsTyped

LEMMA StartsKept ==
  ASSUME NEW h \in Hosts, StartsFlows(h), GoesOn(flows[h], flows'[h]),
         flows[h] \in Seq(FlowsFrom(h)),
         Len(flows'[h]) = Len(flows[h]),
         queue'[<<World, h>>] = queue[<<World, h>>],
         status'[h] \in {"running", "done"} => status'[h] = status[h]
  PROVE  StartsFlows(h)'
<1>1. ASSUME NEW i \in 1 .. Len(flows[h])  PROVE StartsAs(flows'[h][i], Workload[h][i])
  <2>1. i \in DOMAIN flows[h]
    BY LenProperties
  <2>2. StartsAs(flows[h][i], Workload[h][i])
    BY DEF StartsFlows
  <2> QED  BY <2>1, <2>2 DEF StartsAs, GoesOn, SameFlow
<1>2. \A i \in 1 .. Len(flows'[h]) : StartsAs(flows'[h][i], Workload[h][i])
  BY <1>1
<1> QED  BY <1>2 DEF StartsFlows

(* What the World says next to a running host. *)
LEMMA WorldNext ==
  ASSUME IInv, NEW h \in Hosts, StartsFlows(h), IsNext(World, h)
  PROVE  LET k == Len(flows[h])
             n == Len(Workload[h])
         IN  /\ k \in Nat /\ n \in Nat /\ k <= n
             /\ Behind(Tail(queue[<<World, h>>]), Given(h), k + 1)
             /\ First(World, h) = Given(h)[k + 1]
             /\ First(World, h).kind = "Close" => k = n
             /\ First(World, h).kind # "Close" =>
                  /\ First(World, h).kind = "Flow" /\ k + 1 <= n
                  /\ LET w == Workload[h][k + 1]
                     IN  First(World, h) = FlowAt(w.time, h, w.dst, w.size_byte) /\ w.src = h
<1> DEFINE k == Len(flows[h])
           n == Len(Workload[h])
           s == queue[<<World, h>>]
           g == Given(h)
<1>1. PICK E : LinksTyped(E)
  BY DEF IInv
<1>2. <<World, h>> \in Chans /\ s # <<>> /\ status[h] = "running"
  BY NetTyped, ChanNames DEF IsNext, Shows
<1>3. s \in Seq(E)
  BY <1>1, <1>2 DEF LinksTyped, Queues
<1>4. k \in 0 .. n /\ Behind(s, g, k)
  BY <1>2 DEF StartsFlows
<1>5. /\ n \in Nat /\ Len(g) = n + 1 /\ g[n + 1] = Close(Limit)
      /\ \A i \in 1 .. n : /\ Workload[h][i].src = h
                          /\ g[i] = FlowAt(Workload[h][i].time, h, Workload[h][i].dst, Workload[h][i].size_byte)
  BY GivenIs
<1>6. First(World, h) = Head(s)
  BY DEF First
<1> HIDE DEF k, n, s, g
<1>7. k \in Nat /\ k <= n
  BY <1>4, <1>5
<1>8. Head(s) = g[k + 1] /\ Behind(Tail(s), g, k + 1)
  <2>1. Len(g) \in Nat
    BY <1>5
  <2> QED  BY ONLY <1>2, <1>3, <1>4, <1>7, <2>1, BehindTail
<1>9. CASE k = n
  <2>1. First(World, h).kind = "Close"
    BY <1>5, <1>6, <1>8, <1>9 DEF Close
  <2> QED  BY <1>5, <1>6, <1>7, <1>8, <1>9, <2>1 DEF k, n, s, g
<1>10. CASE k # n
  <2>1. k + 1 \in 1 .. n /\ k + 1 <= n
    BY <1>5, <1>7, <1>10
  <2>2. First(World, h) = FlowAt(Workload[h][k + 1].time, h, Workload[h][k + 1].dst, Workload[h][k + 1].size_byte)
        /\ Workload[h][k + 1].src = h
    BY <1>5, <1>6, <1>8, <2>1
  <2>3. First(World, h).kind = "Flow"
    BY <2>2 DEF FlowAt
  <2> QED  BY <1>5, <1>6, <1>7, <1>8, <2>1, <2>2, <2>3 DEF k, n, s, g
<1> QED  BY <1>9, <1>10

(* Only a running actor steps. *)
LEMMA ActorRuns ==
  ASSUME NEW b, NEW a, Take(b, a) \/ Stall(b, a)
  PROVE  status[a] = "running"
<1>1. CASE Take(b, a)
  BY <1>1 DEF Take, TakeNull, RouterStep, RouterClose, RouterDrop, RouterSend, RouterFull, Routed,
              ServerStep, ServerClose, ServerFlow, ServerAck, ServerData, ServerTimeout, IsNext
<1>2. CASE Stall(b, a)
  BY <1>2 DEF Stall, RouterStall, ServerStall, StallsAt
<1> QED  BY <1>1, <1>2

(* The flow the World gives to h starts. *)
LEMMA FlowStarts ==
  ASSUME IInv, Flowing, NEW h \in Hosts, StartsFlows(h), NEW b, <<b, h>> \in Chans, ServerFlow(b, h)
  PROVE  /\ StartsFlows(h)'
         /\ \A g \in Actors : g # h => /\ queue'[<<World, g>>] = queue[<<World, g>>]
                                     /\ status'[g] = status[g]
         /\ \A g \in Hosts : g # h => flows'[g] = flows[g]
<1> DEFINE e == First(b, h)
           r == Start(NewFlow(e.src, e.dst, e.size_byte), e.time)
           F == flows[h]
           k == Len(F)
           n == Len(Workload[h])
           w == Workload[h][k + 1]
<1>1. /\ IsNext(b, h) /\ e.kind = "Flow"
      /\ flows' = [flows EXCEPT ![h] = Append(F, r.flow)]
      /\ Taking(b, h, "running")
  BY DEF ServerFlow, Transmit, Taking
<1>2. b = World
  BY <1>1, FlowingTake, EventKinds
<1>3. /\ k \in Nat /\ n \in Nat /\ k <= n /\ k + 1 <= n
      /\ Behind(Tail(queue[<<World, h>>]), Given(h), k + 1)
      /\ e = FlowAt(w.time, h, w.dst, w.size_byte) /\ w.src = h
  BY <1>1, <1>2, WorldNext
<1>4. e.src = w.src /\ e.dst = w.dst /\ e.size_byte = w.size_byte /\ e.time = w.time
  BY <1>3 DEF FlowAt
<1>5. e.src \in Nat /\ e.dst \in Nat /\ e.size_byte \in Nat /\ e.time \in Nat
  <2>1. e.src \in Hosts /\ e.dst \in Hosts /\ e.size_byte \in Nat /\ e.time \in Nat
    BY <1>1, FlowingTake, EventKinds
  <2>2. Hosts \subseteq Nat
    BY NetworkAssumption DEF Hosts
  <2> QED  BY <2>1, <2>2
<1>6. StartsAs(r.flow, w)
  <2>1. r = Start(NewFlow(e.src, e.dst, e.size_byte), e.time)
    OBVIOUS
  <2> HIDE DEF r, e, w
  <2>2. r.flow.src = e.src /\ r.flow.dst = e.dst /\ r.flow.size_byte = e.size_byte /\ r.flow.start = e.time
    BY ONLY <1>5, <2>1, StartsNew, Z3
  <2> QED  BY <1>4, <2>2 DEF StartsAs
<1>7. flows = [g \in Hosts |-> flows[g]] /\ F \in Seq(FlowsFrom(h))
  BY DEF Flowing, Keeping
<1>8. flows'[h] = Append(F, r.flow) /\ \A g \in Hosts : g # h => flows'[g] = flows[g]
  <2>1. \A new : flows' = [flows EXCEPT ![h] = new] =>
          flows'[h] = new /\ \A g \in Hosts : g # h => flows'[g] = flows[g]
    BY ONLY <1>7, h \in Hosts
  <2> QED  BY <1>1, <2>1
<1> HIDE DEF r, w
<1>9. /\ Len(flows'[h]) = k + 1 /\ flows'[h][k + 1] = r.flow
      /\ \A i \in 1 .. k : flows'[h][i] = F[i]
  <2> DEFINE f == r.flow
             V == FlowsFrom(h) \cup {f}
  <2>1. FlowsFrom(h) \subseteq V /\ f \in V
    OBVIOUS
  <2> HIDE DEF f, V
  <2>2. F \in Seq(V) /\ f \in V
    BY <1>7, <2>1
  <2>3. /\ Len(Append(F, f)) = Len(F) + 1 /\ Append(F, f)[Len(F) + 1] = f
        /\ \A i \in 1 .. Len(F) : Append(F, f)[i] = F[i]
    BY ONLY <2>2, AppendProperties
  <2> QED  BY <1>8, <2>3 DEF f
<1>10. h \in Actors /\ <<World, h>> \in Chans
  BY NetTyped, ChanNames
<1>11. /\ queue'[<<World, h>>] = Tail(queue[<<World, h>>])
       /\ \A g \in Actors : g # h => queue'[<<World, g>>] = queue[<<World, g>>]
       /\ \A g \in Actors : g # h => status'[g] = status[g]
       /\ status'[h] \in {"running", "panicked"}
  <2>1. <<b, h>> \in Chans
    OBVIOUS
  <2> QED  BY <1>1, <1>2, <1>10, <2>1, WorldTaken
<1>12. \A i \in 1 .. k + 1 : StartsAs(flows'[h][i], Workload[h][i])
  <2> TAKE i \in 1 .. k + 1
  <2>1. CASE i \in 1 .. k
    BY <1>9, <2>1 DEF StartsFlows
  <2>2. CASE i = k + 1
    BY <1>6, <1>9, <2>2 DEF w
  <2> QED  BY <1>3, <2>1, <2>2
<1>13. k + 1 \in 0 .. n
  BY <1>3
<1>14. StartsFlows(h)'
  BY <1>3, <1>9, <1>11, <1>12, <1>13 DEF StartsFlows
<1> QED  BY <1>8, <1>11, <1>14

(* An ack changes one flow of the server it gets to. *)
LEMMA AckChanges ==
  ASSUME IInv, Flowing, NEW h \in Hosts, NEW b, <<b, h>> \in Chans, ServerAck(b, h)
  PROVE  /\ Len(flows'[h]) = Len(flows[h])
         /\ \A g \in Hosts : g # h => flows'[g] = flows[g]
<1> DEFINE F == flows[h]
           i == First(b, h).packet.flow_id
           r == SrcReceive(F[i], First(b, h).packet.seq_num)
           G == [F EXCEPT ![i] = r.flow]
<1>1. flows' = [flows EXCEPT ![h] = G]
  BY DEF ServerAck
<1>2. flows = [g \in Hosts |-> flows[g]] /\ F \in Seq(FlowsFrom(h))
  BY DEF Flowing, Keeping
<1>3. \A new : flows' = [flows EXCEPT ![h] = new] =>
        flows'[h] = new /\ \A g \in Hosts : g # h => flows'[g] = flows[g]
  BY ONLY <1>2, h \in Hosts
<1>4. flows'[h] = G /\ \A g \in Hosts : g # h => flows'[g] = flows[g]
  BY <1>1, <1>3
<1>5. Len(G) = Len(F)
  <2> DEFINE x == r.flow
             V == FlowsFrom(h) \cup {x}
  <2>1. FlowsFrom(h) \subseteq V /\ x \in V
    OBVIOUS
  <2>2. G = [F EXCEPT ![i] = x]
    OBVIOUS
  <2> HIDE DEF x, V, G, i, F
  <2>3. F \in Seq(V)
    BY <1>2, <2>1
  <2>4. DOMAIN F = 1 .. Len(F) /\ Len(F) \in Nat
    BY <2>3, LenProperties
  <2>5. G = [j \in 1 .. Len(F) |-> G[j]]
    BY <2>2, <2>4
  <2>6. \A j \in 1 .. Len(F) : G[j] \in V
    <3> TAKE j \in 1 .. Len(F)
    <3>1. G[j] = IF j = i THEN x ELSE F[j]
      BY <2>2, <2>4
    <3>2. F[j] \in V
      BY <2>3, ElementOfSeq
    <3> QED  BY <2>1, <3>1, <3>2
  <2> QED  BY ONLY <2>4, <2>5, <2>6, IndexedSeq
<1> HIDE DEF G
<1> QED  BY <1>4, <1>5

LEMMA StepStarts ==
  ASSUME IInv, Flowing, Starting, NEW b, NEW a, <<b, a>> \in Chans, Take(b, a) \/ Stall(b, a)
  PROVE  Starting'
<1> SUFFICES ASSUME NEW h \in Hosts  PROVE StartsFlows(h)'
  BY DEF Starting
<1>1. StartsFlows(h) /\ flows[h] \in Seq(FlowsFrom(h)) /\ h \in Actors
  BY NetTyped DEF Starting, Flowing, Keeping
<1>2. GoesOn(flows[h], flows'[h])
  BY StepKeepsFlows DEF FlowsOn
<1>3. a \in Actors /\ status[a] = "running"
  BY ChanKinds, ActorRuns
<1>4. CASE UNCHANGED <<flows, fcts>> /\ Stalling(a)
  <2>1. /\ queue'[<<World, h>>] = queue[<<World, h>>]
        /\ h # a => status'[h] = status[h]
        /\ status'[a] \in {"running", "panicked"}
    BY <1>1, <1>3, <1>4, WorldStalled
  <2>2. status'[h] \in {"running", "done"} => status'[h] = status[h]
    BY <1>3, <2>1
  <2>3. Len(flows'[h]) = Len(flows[h])
    BY <1>4
  <2> QED  BY <1>1, <1>2, <2>1, <2>2, <2>3, StartsKept
<1>5. CASE /\ UNCHANGED <<flows, fcts>> /\ First(b, a).kind # "Flow"
           /\ \E after : /\ Taking(b, a, after)
                         /\ IF First(b, a).kind = "Close" THEN after = "done" ELSE after \in {"running", "broke"}
  <2>1. PICK after : /\ Taking(b, a, after)
                     /\ IF First(b, a).kind = "Close" THEN after = "done" ELSE after \in {"running", "broke"}
    BY <1>5
  <2>2. /\ queue'[<<World, h>>] =
             IF b = World /\ h = a THEN Tail(queue[<<World, h>>]) ELSE queue[<<World, h>>]
        /\ h # a => status'[h] = status[h]
        /\ status'[a] \in {after, "panicked"}
    BY <1>1, <2>1, WorldTaken
  <2>3. Len(flows'[h]) = Len(flows[h]) /\ IsNext(b, a)
    BY <1>5, <2>1 DEF Taking
  <2>4. CASE h # a
    BY <1>1, <1>2, <2>2, <2>3, <2>4, StartsKept
  <2>5. CASE h = a /\ First(b, a).kind # "Close"
    <3>1. b # World
      BY <1>1, <1>5, <2>3, <2>5, WorldNext
    <3>2. status'[h] \in {"running", "done"} => status'[h] = status[h]
      BY <1>3, <2>1, <2>2, <2>5
    <3> QED  BY <1>1, <1>2, <2>2, <2>3, <2>5, <3>1, <3>2, StartsKept
  <2>6. CASE h = a /\ First(b, a).kind = "Close"
    <3>1. b = World
      BY <2>3, <2>6, WorldCloses
    <3>2. Len(flows[h]) = Len(Workload[h])
      BY <1>1, <2>3, <2>6, <3>1, WorldNext
    <3>3. status'[h] \in {"done", "panicked"}
      BY <2>1, <2>2, <2>6
    <3>4. flows' = flows
      BY <1>5
    <3> QED  BY <1>1, <3>2, <3>3, <3>4 DEF StartsFlows
  <2> QED  BY <2>4, <2>5, <2>6
<1>6. CASE a \in Hosts /\ ServerFlow(b, a)
  <2>1. /\ StartsFlows(a)'
        /\ h # a => /\ queue'[<<World, h>>] = queue[<<World, h>>]
                    /\ status'[h] = status[h] /\ flows'[h] = flows[h]
    BY <1>1, <1>6, FlowStarts DEF Starting
  <2>2. CASE h = a
    BY <2>1, <2>2
  <2>3. CASE h # a
    BY <1>1, <1>2, <2>1, <2>3, StartsKept
  <2> QED  BY <2>2, <2>3
<1>7. CASE a \in Hosts /\ ServerAck(b, a)
  <2>1. Len(flows'[h]) = Len(flows[h])
    BY <1>7, AckChanges
  <2>2. IsNext(b, a) /\ First(b, a).kind = "Packet" /\ Taking(b, a, "running")
    BY <1>7 DEF ServerAck, Transmit, Taking
  <2>3. b = World => h # a
    BY <1>1, <2>2, WorldNext
  <2>4. /\ queue'[<<World, h>>] = queue[<<World, h>>]
        /\ h # a => status'[h] = status[h]
        /\ status'[a] \in {"running", "panicked"}
    BY <1>1, <2>2, <2>3, WorldTaken
  <2>5. status'[h] \in {"running", "done"} => status'[h] = status[h]
    BY <1>3, <2>4
  <2> QED  BY <1>1, <1>2, <2>1, <2>4, <2>5, StartsKept
<1>8. \/ UNCHANGED <<flows, fcts>> /\ Stalling(a)
      \/ /\ UNCHANGED <<flows, fcts>> /\ First(b, a).kind # "Flow"
         /\ \E after : /\ Taking(b, a, after)
                       /\ IF First(b, a).kind = "Close" THEN after = "done" ELSE after \in {"running", "broke"}
      \/ a \in Hosts /\ ServerFlow(b, a)
      \/ a \in Hosts /\ ServerAck(b, a)
  BY StepKinds
<1> QED  BY <1>4, <1>5, <1>6, <1>7, <1>8

(* At first every flow is still to come. *)
LEMMA InitStarts == Init => Starting
<1> SUFFICES ASSUME Init, NEW h \in Hosts  PROVE StartsFlows(h)
  BY DEF Starting
<1>1. flows[h] = <<>> /\ Len(<<>>) = 0
  BY DEF Init, ServerInit
<1>2. <<World, h>> \in Chans /\ h \in Actors
  BY NetTyped, ChanNames
<1>3. queue[<<World, h>>] = Given(h)
  BY <1>2 DEF Init, Given
<1>4. status[h] = "running"
  BY <1>2 DEF Init
<1>5. Len(Workload[h]) \in Nat /\ Len(Given(h)) \in Nat
  BY GivenIs
<1>6. Behind(Given(h), Given(h), 0)
  BY <1>5 DEF Behind
<1> QED  BY <1>1, <1>3, <1>4, <1>5, <1>6 DEF StartsFlows

LEMMA StartingKept == IInv /\ Flowing /\ Starting /\ [Next]_vars => Starting'
<1> SUFFICES ASSUME IInv, Flowing, Starting, [Next]_vars  PROVE Starting'
  OBVIOUS
<1>1. CASE UNCHANGED vars
  <2>1. queue' = queue /\ flows' = flows /\ status' = status
    BY <1>1 DEF vars, netVars, serverVars
  <2> QED  BY <2>1 DEF Starting, StartsFlows
<1>2. CASE Next /\ ~UNCHANGED vars
  <2>1. PICK b, a : <<b, a>> \in Chans /\ (Take(b, a) \/ Stall(b, a))
    BY <1>2, NextStep
  <2> QED  BY <2>1, StepStarts
<1> QED  BY <1>1, <1>2

(* The flows of a server are always the first ones of its workload, each    *)
(* started at its own time and with its own size, and a server that is done *)
(* has started them all: no flow is lost, repeated or started out of order  *)
(* between the World and the server (lib.rs, add_flows; server.rs, Flow).   *)
AllStarted ==
  \A h \in Hosts :
    /\ Len(flows[h]) <= Len(Workload[h])
    /\ \A i \in DOMAIN flows[h] : StartsAs(flows[h][i], Workload[h][i])
    /\ status[h] = "done" => Len(flows[h]) = Len(Workload[h])

(* The servers start the flows they are given, in order, and all of them.   *)
THEOREM FlowsAllStart == Spec => []AllStarted
<1>1. IInv /\ Flowing /\ Starting /\ [Next]_vars => Starting'
  BY StartingKept
<1>2. Flowing /\ Starting => AllStarted
  <2> SUFFICES ASSUME Flowing, Starting, NEW h \in Hosts
               PROVE  /\ Len(flows[h]) <= Len(Workload[h])
                      /\ \A i \in DOMAIN flows[h] : StartsAs(flows[h][i], Workload[h][i])
                      /\ status[h] = "done" => Len(flows[h]) = Len(Workload[h])
    BY DEF AllStarted
  <2> DEFINE F == flows[h]
  <2>0. F \in Seq(FlowsFrom(h))
    BY DEF Flowing, Keeping
  <2> HIDE DEF F
  <2>1. Len(F) \in Nat /\ DOMAIN F = 1 .. Len(F)
    BY <2>0, LenProperties
  <2>2. Len(Workload[h]) \in Nat
    BY GivenIs
  <2>3. StartsFlows(h)
    BY DEF Starting
  <2> QED  BY <2>1, <2>2, <2>3 DEF StartsFlows, F
<1> QED  BY <1>1, <1>2, InitStarts, FlowsInvariant, Invariant, PTL DEF Spec

-----------------------------------------------------------------------------
(* Every window is exact, and every completion is told *)

(* For every host, whatever the routers drop and however early the timers   *)
(* fire: a flow's window counts just the packets that are sent and not      *)
(* acked, it is full while there is more to send, and each packet the flow  *)
(* waits for has exactly one timer in its server's heap (tcp.rs,            *)
(* src_receive and timeout; server.rs, timeouts).                           *)
WindowsExact ==
  \A h \in Hosts : \A i \in DOMAIN flows[h] :
    LET f == flows[h][i]
    IN  /\ f.outstanding = Cardinality(Missing(f)) /\ f.outstanding <= Cwnd
        /\ f.n_acked = Cardinality(f.acked) /\ f.acked \subseteq SentOf(f)
        /\ f.rtx_queue = <<>>
        /\ f.outstanding < Cwnd => f.next_seq = PacketsOf(f.size_byte)
        /\ \A s \in Missing(f) : \E x \in timeouts[h] :
             /\ x[2] = i /\ x[3] = s
             /\ \A y \in timeouts[h] : y[2] = i /\ y[3] = s => y = x

LEMMA FlowExact ==
  ASSUME NEW h, NEW f \in FlowsFrom(h)
  PROVE  /\ f.outstanding = Cardinality(Missing(f)) /\ f.outstanding <= Cwnd
         /\ f.n_acked = Cardinality(f.acked) /\ f.acked \subseteq SentOf(f)
         /\ f.rtx_queue = <<>>
         /\ f.outstanding < Cwnd => f.next_seq = PacketsOf(f.size_byte)
<1>1. f.size_byte \in Nat /\ f \in FlowRecord(f.size_byte) /\ Filled(f, f.size_byte)
  BY FlowFrom
<1>2. f.next_seq \in Nat
  BY <1>1, FlowSent
<1>3. f.outstanding \in 0 .. Cwnd /\ Cwnd \in Nat
  BY <1>1, TcpAssumption DEF FlowRecord
<1>4. /\ f.acked \subseteq SentOf(f) /\ f.n_acked = Cardinality(f.acked)
      /\ f.outstanding = f.next_seq - f.n_acked /\ f.rtx_queue = <<>>
      /\ f.outstanding < Cwnd => f.next_seq = PacketsOf(f.size_byte)
  BY <1>1 DEF Filled, Counters
<1>5. Cardinality((0 .. f.next_seq - 1) \ f.acked) = f.next_seq - Cardinality(f.acked)
  BY <1>2, <1>4, SizeOfAcked DEF SentOf
<1>6. f.outstanding = Cardinality(Missing(f))
  BY <1>4, <1>5 DEF Missing, SentOf
<1> QED  BY <1>3, <1>4, <1>6

(* The windows and timers of all servers are exact in the whole simulator.  *)
THEOREM WindowsAreExact == Spec => []WindowsExact
<1>1. Flowing => WindowsExact
  <2> SUFFICES ASSUME Flowing, NEW h \in Hosts, NEW i \in DOMAIN flows[h]
               PROVE  LET f == flows[h][i]
                      IN  /\ f.outstanding = Cardinality(Missing(f)) /\ f.outstanding <= Cwnd
                          /\ f.n_acked = Cardinality(f.acked) /\ f.acked \subseteq SentOf(f)
                          /\ f.rtx_queue = <<>>
                          /\ f.outstanding < Cwnd => f.next_seq = PacketsOf(f.size_byte)
                          /\ \A s \in Missing(f) : \E x \in timeouts[h] :
                               /\ x[2] = i /\ x[3] = s
                               /\ \A y \in timeouts[h] : y[2] = i /\ y[3] = s => y = x
    BY DEF WindowsExact
  <2>1. flows[h] \in Seq(FlowsFrom(h)) /\ TimersFor(flows[h], timeouts[h])
    BY DEF Flowing, Keeping
  <2>2. flows[h][i] \in FlowsFrom(h)
    BY <2>1, ElementOfSeq
  <2>3. \A s \in Missing(flows[h][i]) : \E x \in timeouts[h] :
          /\ x[2] = i /\ x[3] = s
          /\ \A y \in timeouts[h] : y[2] = i /\ y[3] = s => y = x
    <3> TAKE s \in Missing(flows[h][i])
    <3>1. PICK x \in timeouts[h] : x[2] = i /\ x[3] = s
      BY <2>1 DEF TimersFor
    <3>2. \A y \in timeouts[h] : y[2] = i /\ y[3] = s => y = x
      BY <2>1, <3>1 DEF TimersFor
    <3> QED  BY <3>1, <3>2
  <2> QED  BY <2>2, <2>3, FlowExact
<1> QED  BY <1>1, FlowsInvariant, PTL

Complete(f) == f.size_byte > 0 /\ f.acked = 0 .. PacketsOf(f.size_byte) - 1

(* The line l is what is printed when f completes. *)
LineFor(l, f) == l.src = f.src /\ l.dst = f.dst /\ l.size_byte = f.size_byte /\ l.start = f.start

(* A completion is printed for a flow just when all of its packets are      *)
(* acked, be it by acks that come late, twice or out of order (tcp.rs,      *)
(* src_receive).                                                            *)
ReportsExact ==
  /\ \A l \in fcts : \E h \in Hosts : \E i \in DOMAIN flows[h] :
       Complete(flows[h][i]) /\ LineFor(l, flows[h][i])
  /\ \A h \in Hosts : \A i \in DOMAIN flows[h] :
       Complete(flows[h][i]) => \E l \in fcts : LineFor(l, flows[h][i])

LEMMA SomePackets ==
  ASSUME NEW z \in Nat, z > 0
  PROVE  PacketsOf(z) \in Nat /\ PacketsOf(z) > 0
<1>1. 0 * BytesPerPacket = 0
  BY TcpAssumption
<1> QED  BY <1>1, PacketCount

(* An ack completes the flow when it is the last. *)
LEMMA AckCompletes ==
  ASSUME NEW z \in Nat, NEW f \in FlowRecord(z), Filled(f, z), NEW s \in SentOf(f),
         NEW g, g.size_byte = z, g.acked = f.acked \cup {s}
  PROVE  Complete(g) <=> Complete(f) \/ Completes(f, s)
<1> DEFINE m == PacketsOf(z)
           A == f.acked
           a == f.n_acked
           q == f.next_seq
<1>1. q \in Nat /\ m \in Nat /\ q <= m /\ f.size_byte = z
  BY PacketCount DEF FlowRecord
<1>2. A \in SUBSET (0 .. q - 1) /\ s \in 0 .. q - 1 /\ a = Cardinality(A)
  BY DEF Filled, Counters, SentOf
<1>3. z > 0
  <2> SUFFICES ASSUME z = 0  PROVE FALSE
    OBVIOUS
  <2>1. ~(0 * BytesPerPacket < z)
    BY TcpAssumption
  <2>2. m = 0
    BY <1>1, <2>1, PacketCount
  <2> QED  BY <1>1, <1>2, <2>2
<1> HIDE DEF m, A, a, q
<1>4. Complete(f) <=> A = 0 .. m - 1
  BY <1>1, <1>3 DEF Complete, A, m
<1>5. Complete(g) <=> A \cup {s} = 0 .. m - 1
  BY <1>3 DEF Complete, A, m
<1>6. CASE s \in A
  <2>1. A \cup {s} = A /\ ~Completes(f, s)
    BY <1>6 DEF Completes, A
  <2> QED  BY <1>4, <1>5, <2>1
<1>7. CASE s \notin A
  <2>1. A \in SUBSET (0 .. m - 1) /\ s \in 0 .. m - 1 /\ A # 0 .. m - 1
    BY <1>1, <1>2, <1>7
  <2>2. Cardinality(A \cup {s}) = a + 1 /\ A \cup {s} \in SUBSET (0 .. m - 1)
    BY <1>1, <1>2, <1>7, <2>1, AckedMore
  <2>3. Cardinality(A \cup {s}) \in 0 .. m /\ (Cardinality(A \cup {s}) = m => A \cup {s} = 0 .. m - 1)
    BY <1>1, <2>2, SizeOfAcked
  <2>4. Cardinality(0 .. m - 1) = m
    BY <1>1, SizeOfSent
  <2>5. a \in Nat
    <3>1. Cardinality(A) \in 0 .. q
      BY <1>1, <1>2, SizeOfAcked
    <3> QED  BY <1>1, <1>2, <3>1
  <2>6. A \cup {s} = 0 .. m - 1 <=> a + 1 = m
    BY <2>2, <2>3, <2>4
  <2>7. (a + 1) * BytesPerPacket < z <=> a + 1 < m
    BY <2>5, PacketCount DEF m
  <2>8. (a + 1) * BytesPerPacket >= z <=> ~((a + 1) * BytesPerPacket < z)
    <3>1. (a + 1) * BytesPerPacket \in Nat
      BY <2>5, TcpAssumption
    <3> QED  BY <3>1
  <2>9. a + 1 <= m
    BY <1>1, <2>2, <2>3
  <2>10. Completes(f, s) <=> a + 1 = m
    BY <1>1, <1>7, <2>5, <2>7, <2>8, <2>9 DEF Completes, A, a
  <2> QED  BY <1>4, <1>5, <2>1, <2>6, <2>10
<1> QED  BY <1>6, <1>7

(* A flow that starts is not complete. *)
LEMMA StartIncomplete ==
  ASSUME NEW f, f.size_byte \in Nat, f.acked = {}
  PROVE  ~Complete(f)
<1> SUFFICES ASSUME Complete(f)  PROVE FALSE
  OBVIOUS
<1>1. f.size_byte > 0 /\ {} = 0 .. PacketsOf(f.size_byte) - 1
  BY DEF Complete
<1>2. PacketsOf(f.size_byte) \in Nat /\ PacketsOf(f.size_byte) > 0
  BY <1>1, SomePackets
<1>3. 0 \in 0 .. PacketsOf(f.size_byte) - 1
  BY <1>2
<1> QED  BY <1>1, <1>3

(* A step that prints what it completes keeps the lines exact. *)
LEMMA ReportsMove ==
  ASSUME ReportsExact, \A g \in Hosts : GoesOn(flows[g], flows'[g]),
         \A g \in Hosts : \A j \in DOMAIN flows[g] : Complete(flows[g][j]) => Complete(flows'[g][j]),
         \A g \in Hosts : \A j \in DOMAIN flows'[g] : Complete(flows'[g][j]) =>
           \/ j \in DOMAIN flows[g] /\ Complete(flows[g][j])
           \/ \E l \in fcts' : LineFor(l, flows'[g][j]),
         fcts \subseteq fcts',
         \A l \in fcts' \ fcts : \E g \in Hosts : \E j \in DOMAIN flows'[g] :
           Complete(flows'[g][j]) /\ LineFor(l, flows'[g][j])
  PROVE  ReportsExact'
<1>1. ASSUME NEW g \in Hosts, NEW j \in DOMAIN flows[g], NEW l
      PROVE  j \in DOMAIN flows'[g] /\ (LineFor(l, flows[g][j]) <=> LineFor(l, flows'[g][j]))
  BY DEF GoesOn, SameFlow, LineFor
<1>2. ASSUME NEW l \in fcts
      PROVE  \E g \in Hosts : \E j \in DOMAIN flows'[g] : Complete(flows'[g][j]) /\ LineFor(l, flows'[g][j])
  <2>1. PICK g \in Hosts : \E j \in DOMAIN flows[g] : Complete(flows[g][j]) /\ LineFor(l, flows[g][j])
    BY DEF ReportsExact
  <2>2. PICK j \in DOMAIN flows[g] : Complete(flows[g][j]) /\ LineFor(l, flows[g][j])
    BY <2>1
  <2> QED  BY <1>1, <2>2
<1>3. ASSUME NEW g \in Hosts, NEW j \in DOMAIN flows'[g], Complete(flows'[g][j])
      PROVE  \E l \in fcts' : LineFor(l, flows'[g][j])
  <2>1. CASE j \in DOMAIN flows[g] /\ Complete(flows[g][j])
    <3>1. PICK l \in fcts : LineFor(l, flows[g][j])
      BY <2>1 DEF ReportsExact
    <3> QED  BY <1>1, <2>1, <3>1
  <2> QED  BY <1>3, <2>1
<1>4. \A l \in fcts' : \E g \in Hosts : \E j \in DOMAIN flows'[g] : Complete(flows'[g][j]) /\ LineFor(l, flows'[g][j])
  BY <1>2
<1> QED  BY <1>3, <1>4 DEF ReportsExact

LEMMA FlowReports ==
  ASSUME IInv, Flowing, ReportsExact, NEW h \in Hosts, NEW b, <<b, h>> \in Chans, ServerFlow(b, h)
  PROVE  ReportsExact'
<1> DEFINE e == First(b, h)
           r == Start(NewFlow(e.src, e.dst, e.size_byte), e.time)
           F == flows[h]
           f == r.flow
<1>1. /\ IsNext(b, h) /\ e.kind = "Flow" /\ fcts' = fcts
      /\ flows' = [flows EXCEPT ![h] = Append(F, f)]
  BY DEF ServerFlow
<1>2. e.src \in Nat /\ e.dst \in Nat /\ e.size_byte \in Nat /\ e.time \in Nat
  <2>1. e.src \in Hosts /\ e.dst \in Hosts /\ e.size_byte \in Nat /\ e.time \in Nat
    BY <1>1, FlowingTake, EventKinds
  <2>2. Hosts \subseteq Nat
    BY NetworkAssumption DEF Hosts
  <2> QED  BY <2>1, <2>2
<1>3. ~Complete(f)
  <2>1. r = Start(NewFlow(e.src, e.dst, e.size_byte), e.time)
    OBVIOUS
  <2> HIDE DEF r, e
  <2>2. r.flow.size_byte = e.size_byte /\ r.flow.acked = {}
    <3>1. r.flow.size_byte = e.size_byte
      BY ONLY <1>2, <2>1, StartsNew, Z3
    <3>2. r.flow.acked = {}
      BY ONLY <1>2, <2>1, StartFills, Z3
    <3> QED  BY <3>1, <3>2
  <2> QED  BY <1>2, <2>2, StartIncomplete
<1>4. flows = [g \in Hosts |-> flows[g]] /\ F \in Seq(FlowsFrom(h))
  BY DEF Flowing, Keeping
<1>5. flows'[h] = Append(F, f) /\ \A g \in Hosts : g # h => flows'[g] = flows[g]
  <2>1. \A new : flows' = [flows EXCEPT ![h] = new] =>
          flows'[h] = new /\ \A g \in Hosts : g # h => flows'[g] = flows[g]
    BY ONLY <1>4, h \in Hosts
  <2> QED  BY <1>1, <2>1
<1> HIDE DEF f, r
<1>6. /\ DOMAIN flows'[h] = DOMAIN F \cup {Len(F) + 1} /\ flows'[h][Len(F) + 1] = f
      /\ \A j \in DOMAIN F : flows'[h][j] = F[j]
  <2> DEFINE V == FlowsFrom(h) \cup {f}
  <2>1. FlowsFrom(h) \subseteq V /\ f \in V
    OBVIOUS
  <2> HIDE DEF V, F
  <2>2. F \in Seq(V)
    BY <1>4, <2>1
  <2>3. /\ Append(F, f) \in Seq(V) /\ Len(Append(F, f)) = Len(F) + 1 /\ Append(F, f)[Len(F) + 1] = f
        /\ \A i \in 1 .. Len(F) : Append(F, f)[i] = F[i]
    BY ONLY <2>1, <2>2, AppendProperties
  <2>4. Len(F) \in Nat /\ DOMAIN F = 1 .. Len(F) /\ DOMAIN Append(F, f) = 1 .. Len(F) + 1
    BY <2>2, <2>3, LenProperties
  <2> QED  BY <1>5, <2>3, <2>4
<1>7. \A g \in Hosts : GoesOn(flows[g], flows'[g])
  BY ServerFlowFlows DEF FlowsOn
<1>8. \A g \in Hosts : \A j \in DOMAIN flows[g] : Complete(flows[g][j]) => Complete(flows'[g][j])
  BY <1>5, <1>6
<1>9. \A g \in Hosts : \A j \in DOMAIN flows'[g] : Complete(flows'[g][j]) =>
        j \in DOMAIN flows[g] /\ Complete(flows[g][j])
  BY <1>3, <1>5, <1>6
<1> QED  BY <1>1, <1>7, <1>8, <1>9, ReportsMove

LEMMA AckReports ==
  ASSUME IInv, Flowing, ReportsExact, NEW h \in Hosts, NEW b, <<b, h>> \in Chans, ServerAck(b, h)
  PROVE  ReportsExact'
<1> DEFINE e == First(b, h)
           i == e.packet.flow_id
           s == e.packet.seq_num
           F == flows[h]
           f == F[i]
           r == SrcReceive(f, s)
           g == r.flow
           line == [src |-> f.src, dst |-> f.dst, size_byte |-> f.size_byte, start |-> f.start, end |-> e.time]
<1>1. /\ IsNext(b, h) /\ e.kind = "Packet" /\ e.packet.is_ack
      /\ flows' = [flows EXCEPT ![h] = [F EXCEPT ![i] = g]]
      /\ fcts' = IF Completes(f, s) THEN fcts \cup {line} ELSE fcts
  BY DEF ServerAck
<1>2. i \in DOMAIN F /\ s \in SentOf(f)
  BY <1>1, FlowingTake, EventKinds DEF PacketsTo, HasSent
<1>3. flows = [x \in Hosts |-> flows[x]] /\ F \in Seq(FlowsFrom(h))
  BY DEF Flowing, Keeping
<1>4. f \in FlowsFrom(h)
  BY <1>2, <1>3, ElementOfSeq
<1>5. f.size_byte \in Nat /\ f \in FlowRecord(f.size_byte) /\ Filled(f, f.size_byte)
  BY <1>4, FlowFrom
<1>6. /\ g \in FlowRecord(f.size_byte) /\ SameFlow(f, g) /\ g.acked = f.acked \cup {s}
  BY <1>2, <1>5, ReceiveFills
<1>7. g.size_byte = f.size_byte
  BY <1>6 DEF FlowRecord
<1> HIDE DEF g, r, s, i, e
<1>8. Complete(g) <=> Complete(f) \/ Completes(f, s)
  BY <1>2, <1>5, <1>6, <1>7, AckCompletes
<1>9. LineFor(line, g)
  <2>1. LineFor(line, f)
    BY DEF LineFor
  <2> QED  BY <1>6, <1>7, <2>1 DEF LineFor, SameFlow
<1>10. /\ flows'[h] = [F EXCEPT ![i] = g] /\ \A x \in Hosts : x # h => flows'[x] = flows[x]
  <2>1. \A new : flows' = [flows EXCEPT ![h] = new] =>
          flows'[h] = new /\ \A x \in Hosts : x # h => flows'[x] = flows[x]
    BY ONLY <1>3, h \in Hosts
  <2> QED  BY <1>1, <2>1
<1>11. /\ DOMAIN flows'[h] = DOMAIN F /\ flows'[h][i] = g
       /\ \A j \in DOMAIN F : j # i => flows'[h][j] = F[j]
  <2> HIDE DEF F, f
  <2> QED  BY <1>2, <1>10
<1> HIDE DEF line
<1>12. /\ fcts \subseteq fcts' /\ fcts' \subseteq fcts \cup {line}
       /\ line \in fcts' \/ ~Completes(f, s)
       /\ line \in fcts \/ line \notin fcts' \/ Completes(f, s)
  BY <1>1
<1> HIDE DEF f
<1>13. \A x \in Hosts : GoesOn(flows[x], flows'[x])
  BY ServerAckFlows DEF FlowsOn
<1>14. ASSUME NEW x \in Hosts, NEW j \in DOMAIN flows[x], Complete(flows[x][j])
       PROVE  Complete(flows'[x][j])
  BY <1>8, <1>10, <1>11, <1>14 DEF f
<1>15. ASSUME NEW x \in Hosts, NEW j \in DOMAIN flows'[x], Complete(flows'[x][j])
       PROVE  \/ j \in DOMAIN flows[x] /\ Complete(flows[x][j])
              \/ \E l \in fcts' : LineFor(l, flows'[x][j])
  <2>1. CASE x = h /\ j = i
    <3>1. Complete(f) \/ Completes(f, s)
      BY <1>8, <1>11, <1>15, <2>1
    <3> QED  BY <1>2, <1>9, <1>11, <1>12, <2>1, <3>1 DEF f
  <2>2. CASE x = h /\ j # i
    BY <1>11, <1>15, <2>2
  <2>3. CASE x # h
    BY <1>10, <1>15, <2>3
  <2> QED  BY <2>1, <2>2, <2>3
<1>16. \A l \in fcts' \ fcts : \E x \in Hosts : \E j \in DOMAIN flows'[x] :
         Complete(flows'[x][j]) /\ LineFor(l, flows'[x][j])
  BY <1>2, <1>8, <1>9, <1>11, <1>12
<1> QED  BY <1>12, <1>13, <1>14, <1>15, <1>16, ReportsMove

LEMMA ReportsKept == IInv /\ Flowing /\ ReportsExact /\ [Next]_vars => ReportsExact'
<1> SUFFICES ASSUME IInv, Flowing, ReportsExact, [Next]_vars  PROVE ReportsExact'
  OBVIOUS
<1>1. CASE UNCHANGED <<flows, fcts>>
  BY <1>1 DEF ReportsExact
<1>2. CASE UNCHANGED vars
  <2>1. UNCHANGED <<flows, fcts>>
    BY <1>2 DEF vars, serverVars
  <2> QED  BY <1>1, <2>1
<1>3. CASE Next /\ ~UNCHANGED vars
  <2>1. PICK b, a : <<b, a>> \in Chans /\ (Take(b, a) \/ Stall(b, a))
    BY <1>3, NextStep
  <2>2. \/ UNCHANGED <<flows, fcts>>
        \/ a \in Hosts /\ ServerFlow(b, a)
        \/ a \in Hosts /\ ServerAck(b, a)
    BY ONLY <2>1, IInv, Flowing, StepKinds
  <2> QED  BY <1>1, <2>1, <2>2, FlowReports, AckReports
<1> QED  BY <1>2, <1>3

(* The completions printed are those of the flows that are complete.        *)
THEOREM ReportsAreExact == Spec => []ReportsExact
<1>1. Init => ReportsExact
  <2> SUFFICES ASSUME Init  PROVE ReportsExact
    OBVIOUS
  <2>1. fcts = {} /\ \A h \in Hosts : DOMAIN flows[h] = {}
    BY DEF Init, ServerInit
  <2> QED  BY <2>1 DEF ReportsExact
<1>2. IInv /\ Flowing /\ ReportsExact /\ [Next]_vars => ReportsExact'
  BY ReportsKept
<1> QED  BY <1>1, <1>2, FlowsInvariant, Invariant, PTL DEF Spec
=============================================================================
