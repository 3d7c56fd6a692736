----------------------------- MODULE PholdProofs -----------------------------
(***************************************************************************)
(* Phold for every number of actors, population, lookahead, set of delays,  *)
(* queue size and time limit: no event reaches an actor in its past, the    *)
(* population is constant, and what happens is a Simulation.                *)
(***************************************************************************)
EXTENDS Phold, CommonLemmas

Events == [time : Nat, kind : {"Event", "Null", "Close"}]

Alive == {a \in Actors : status[a] = "running"}

(* What a channel's sender has promised when its out_times are times. *)
Promise(times) == [ch \in Chans |-> times[ch[1]][ch[2]] + Lookahead]

Typed ==
  /\ queue \in [Chans -> Seq(Events)]
  /\ \A ch \in Chans : Len(queue[ch]) <= QSize
  /\ heard \in [Chans -> Nat]
  /\ status \in [Actors -> {"running", "done", "panicked"}]
  /\ out_times \in [Actors -> [Actors -> Nat]]
  /\ count \in [Actors -> Nat]

(* The inductive invariant. *)
IInv ==
  /\ Typed
  /\ Closed(Chans, queue, Alive, TimeLimit)
  /\ InTime(Chans, queue, heard, Alive, Promise(out_times))

LEMMA EventsTimed == Timed(Events)
  BY DEF Timed, Events

LEMMA ConstantsTyped ==
  /\ NActors \in Nat /\ NActors > 1 /\ QSize \in Nat \ {0} /\ Seeds \in 1 .. QSize
  /\ Lookahead \in Nat \ {0} /\ TimeLimit \in Nat /\ Delays \subseteq Nat
  /\ Chans = Actors \X Actors
  BY PholdAssumption DEF Chans

LEMMA PromiseTyped ==
  ASSUME NEW times \in [Actors -> [Actors -> Nat]]
  PROVE  /\ Promise(times) \in [Chans -> Int]
         /\ \A ch \in Chans : Promise(times)[ch] = times[ch[1]][ch[2]] + Lookahead
         /\ \A b, c \in Actors : Promise(times)[<<b, c>>] = times[b][c] + Lookahead
<1> USE ConstantsTyped
<1>1. \A ch \in Chans : ch[1] \in Actors /\ ch[2] \in Actors
  OBVIOUS
<1>2. \A ch \in Chans : times[ch[1]][ch[2]] + Lookahead \in Int
  BY <1>1
<1>3. \A b, c \in Actors : <<b, c>> \in Chans
  OBVIOUS
<1> QED  BY <1>2, <1>3 DEF Promise

LEMMA PromiseGrows ==
  ASSUME NEW t1 \in [Actors -> [Actors -> Nat]], NEW t2 \in [Actors -> [Actors -> Nat]],
         \A b, c \in Actors : t1[b][c] <= t2[b][c]
  PROVE  \A ch \in Chans : Promise(t1)[ch] <= Promise(t2)[ch]
<1> SUFFICES ASSUME NEW ch \in Chans  PROVE Promise(t1)[ch] <= Promise(t2)[ch]
  OBVIOUS
<1>1. ch[1] \in Actors /\ ch[2] \in Actors
  BY ConstantsTyped
<1>2. t1[ch[1]][ch[2]] \in Nat /\ t2[ch[1]][ch[2]] \in Nat /\ t1[ch[1]][ch[2]] <= t2[ch[1]][ch[2]]
  BY <1>1
<1>3. /\ Promise(t1)[ch] = t1[ch[1]][ch[2]] + Lookahead
      /\ Promise(t2)[ch] = t2[ch[1]][ch[2]] + Lookahead
  BY PromiseTyped
<1>4. Lookahead \in Int
  BY ConstantsTyped
<1> QED  BY ONLY <1>2, <1>3, <1>4

(* What a handler of a must keep to when it pushes out. *)
KeepsPromise(a, out, after) ==
  /\ \A b, c \in Actors : out_times[b][c] <= out_times'[b][c]
  /\ \A n \in DOMAIN out :
       /\ CloseLast(out[n])
       /\ Between(out[n], out_times[a][n] + Lookahead, out_times'[a][n] + Lookahead)
       /\ \A i \in 1 .. Len(out[n]) :
            out[n][i].kind = "Close" => after = "done" /\ out[n][i].time > TimeLimit

(* The actors that run when a's handler ends with after. *)
StillAlive(a, after) == IF after = "running" THEN Alive ELSE Alive \ {a}

(* The queues q and times heard h as a's handler finds them are in order. *)
Ready(q, h, a, after) ==
  /\ q \in Queues(Chans, Events) /\ \A ch \in Chans : Len(q[ch]) <= QSize
  /\ h \in Times(Chans, Nat)
  /\ Closed(Chans, q, Alive, TimeLimit)
  /\ InTime(Chans, q, h, StillAlive(a, after), Promise(out_times))

(* The channels from a to N, and what is pushed to each of them. *)
Sent(a, N)       == {ch \in Chans : ch[1] = a /\ ch[2] \in N}
Along(a, N, out) == [ch \in Sent(a, N) |-> out[ch[2]]]

Delivers(q, a, N, out, after) ==
  LET D == Sent(a, N)
      o == Along(a, N, out)
  IN  /\ D \in SUBSET Chans /\ o \in Queues(D, Events)
      /\ \A ch \in D : ch[1] = a /\ ch[2] \in N /\ ch = <<a, ch[2]>> /\ o[ch] = out[ch[2]]
      /\ queue' = [ch \in Chans |-> IF ch \in D THEN Pushed(q[ch], o[ch], QSize) ELSE q[ch]]
      /\ status' = [status EXCEPT ![a] =
                      IF \A n \in N : Len(out[n]) <= QSize - Len(q[<<a, n>>]) THEN after ELSE "panicked"]

LEMMA DeliverShape ==
  ASSUME NEW a \in Actors, NEW after, NEW q,
         NEW N \in SUBSET Actors, NEW out \in Queues(N, Events), Deliver(q, a, out, after)
  PROVE  Delivers(q, a, N, out, after)
<1> DEFINE D == Sent(a, N)
           o == Along(a, N, out)
<1>1. \A ch \in Chans : /\ ch[1] = a => <<a, ch[2]>> = ch
                        /\ ch[1] = a /\ ch[2] \in N <=> ch \in D
  BY ConstantsTyped DEF Sent
<1>2. DOMAIN out = N /\ \A n \in N : out[n] \in Seq(Events)
  BY DEF Queues
<1>3. D \in SUBSET Chans /\ \A ch \in D : ch[1] = a /\ ch[2] \in N /\ ch = <<a, ch[2]>> /\ o[ch] = out[ch[2]]
  BY <1>1 DEF Sent, Along
<1>4. o \in Queues(D, Events)
  BY <1>2, <1>3 DEF Queues, Along
<1>5. queue' = [ch \in Chans |->
                  IF ch[1] = a /\ ch[2] \in N
                  THEN q[ch] \o SubSeq(out[ch[2]], 1, Min({Len(out[ch[2]]), QSize - Len(q[<<a, ch[2]>>])}))
                  ELSE q[ch]]
  BY <1>2 DEF Deliver
<1>6. \A ch \in D : Min({Len(out[ch[2]]), QSize - Len(q[<<a, ch[2]>>])}) = Fits(q[ch], o[ch], QSize)
  BY <1>3 DEF Fits
<1> HIDE DEF D, o
<1>7. \A ch \in Chans :
         (IF ch[1] = a /\ ch[2] \in N
          THEN q[ch] \o SubSeq(out[ch[2]], 1, Min({Len(out[ch[2]]), QSize - Len(q[<<a, ch[2]>>])}))
          ELSE q[ch])
         = IF ch \in D THEN Pushed(q[ch], o[ch], QSize) ELSE q[ch]
  BY <1>1, <1>3, <1>6 DEF Pushed
<1>8. queue' = [ch \in Chans |-> IF ch \in D THEN Pushed(q[ch], o[ch], QSize) ELSE q[ch]]
  BY <1>5, <1>7
<1>9. status' = [status EXCEPT ![a] =
                   IF \A n \in N : Len(out[n]) <= QSize - Len(q[<<a, n>>]) THEN after ELSE "panicked"]
  BY <1>2 DEF Deliver
<1> QED  BY <1>3, <1>4, <1>8, <1>9 DEF D, o, Delivers

(* So they are when the handler has pushed out. *)
LEMMA DeliverKeeps ==
  ASSUME Typed, out_times' \in [Actors -> [Actors -> Nat]],
         NEW a \in Actors, status[a] = "running", NEW after \in {"running", "done"},
         NEW q, NEW h, Ready(q, h, a, after),
         NEW N \in SUBSET Actors, NEW out \in Queues(N, Events),
         KeepsPromise(a, out, after), Deliver(q, a, out, after)
  PROVE  /\ queue' \in [Chans -> Seq(Events)]
         /\ \A ch \in Chans : Len(queue'[ch]) <= QSize
         /\ status' \in [Actors -> {"running", "done", "panicked"}]
         /\ Closed(Chans, queue', Alive', TimeLimit)
         /\ InTime(Chans, queue', h, Alive', Promise(out_times'))
<1> DEFINE R == StillAlive(a, after)
<1>0. /\ q \in [Chans -> Seq(Events)] /\ \A ch \in Chans : Len(q[ch]) <= QSize
      /\ h \in [Chans -> Nat] /\ out \in [N -> Seq(Events)]
      /\ Closed(Chans, q, Alive, TimeLimit)
      /\ InTime(Chans, q, h, R, Promise(out_times))
      /\ \A b, c \in Actors : out_times[b][c] <= out_times'[b][c]
      /\ \A n \in N : /\ CloseLast(out[n])
                      /\ Between(out[n], out_times[a][n] + Lookahead, out_times'[a][n] + Lookahead)
                      /\ \A i \in 1 .. Len(out[n]) :
                           out[n][i].kind = "Close" => after = "done" /\ out[n][i].time > TimeLimit
  BY DEF Ready, Queues, Times, KeepsPromise
<1>a. R = IF after = "running" THEN Alive ELSE Alive \ {a}
  BY DEF StillAlive
<1> HIDE DEF R
<1> USE ConstantsTyped
<1>b. Delivers(q, a, N, out, after)
  BY DeliverShape
<1> DEFINE D == Sent(a, N)
           o == Along(a, N, out)
<1>3. /\ queue' = [ch \in Chans |-> IF ch \in D THEN Pushed(q[ch], o[ch], QSize) ELSE q[ch]]
      /\ status' = [status EXCEPT ![a] =
                      IF \A n \in N : Len(out[n]) <= QSize - Len(q[<<a, n>>]) THEN after ELSE "panicked"]
      /\ D \in SUBSET Chans /\ o \in Queues(D, Events)
      /\ \A ch \in D : ch[1] = a /\ ch[2] \in N /\ o[ch] = out[ch[2]]
  BY <1>b DEF Delivers
<1> HIDE DEF D, o
<1>4. /\ status' \in [Actors -> {"running", "done", "panicked"}]
      /\ Alive' \subseteq R /\ Alive' \subseteq Alive
      /\ after = "done" => a \notin Alive'
  BY <1>3, <1>a DEF Alive, Typed
<1>5. D \in SUBSET Chans /\ o \in [D -> Seq(Events)]
  BY <1>3 DEF Queues
<1>6. \A ch \in D : ch[1] = a /\ ch[2] \in N /\ o[ch] = out[ch[2]]
  BY <1>3
<1>7. \A ch \in Chans : /\ queue'[ch] = IF ch \in D THEN Pushed(q[ch], o[ch], QSize) ELSE q[ch]
                        /\ q[ch] \in Seq(Events) /\ Len(q[ch]) <= QSize
                        /\ ch \in D => /\ Pushed(q[ch], o[ch], QSize) \in Seq(Events)
                                       /\ Len(Pushed(q[ch], o[ch], QSize)) <= QSize
  BY <1>0, <1>3, <1>5, PushedSeq
<1>8. queue' \in [Chans -> Seq(Events)] /\ \A ch \in Chans : Len(queue'[ch]) <= QSize
  BY <1>3, <1>7
<1>9. a \in Alive
  BY DEF Alive
<1>10. \A ch \in D : \A i \in 1 .. Len(q[ch]) : q[ch][i].kind # "Close"
  BY <1>0, <1>5, <1>6, <1>9 DEF Closed
<1>11. /\ QSize \in Nat /\ TimeLimit \in Int
       /\ q \in Queues(Chans, Events) /\ h \in Times(Chans, Nat)
       /\ D \in SUBSET Chans /\ o \in Queues(D, Events)
       /\ IsPush(Chans, q, D, o, QSize, queue')
  BY <1>0, <1>5, <1>7 DEF Queues, Times, IsPush
<1>12. Closed(Chans, queue', Alive', TimeLimit)
  <2>1. Closed(D, o, Alive', TimeLimit)
    <3> SUFFICES ASSUME NEW ch \in D, NEW i \in 1 .. Len(o[ch]), o[ch][i].kind = "Close"
                 PROVE  ch[1] \notin Alive' /\ o[ch][i].time > TimeLimit
      BY DEF Closed
    <3>1. ch[1] = a /\ ch[2] \in N /\ o[ch] = out[ch[2]]
      BY <1>6
    <3>2. after = "done" /\ o[ch][i].time > TimeLimit
      BY <1>0, <3>1
    <3> QED  BY <1>4, <3>1, <3>2
  <2>2. Alive' \in SUBSET Alive /\ Closed(Chans, q, Alive, TimeLimit)
    BY <1>0, <1>4
  <2> QED  BY ONLY <1>11, <2>1, <2>2, PushClosed
<1>13. InTime(Chans, queue', h, R, Promise(out_times'))
  <2> DEFINE P  == Promise(out_times)
             P2 == Promise(out_times')
  <2>1. /\ P \in [Chans -> Int] /\ P2 \in [Chans -> Int]
        /\ \A ch \in Chans : /\ P[ch] = out_times[ch[1]][ch[2]] + Lookahead
                             /\ P2[ch] = out_times'[ch[1]][ch[2]] + Lookahead
    BY PromiseTyped DEF Typed
  <2>2. \A ch \in Chans : P[ch] <= P2[ch]
    BY <1>0, PromiseGrows DEF Typed
  <2>3. InTime(Chans, q, h, R, P)
    BY <1>0
  <2> HIDE DEF P, P2
  <2>4. \A ch \in D : /\ P[ch] = out_times[a][ch[2]] + Lookahead
                      /\ P2[ch] = out_times'[a][ch[2]] + Lookahead
    BY <1>5, <1>6, <2>1
  <2>5. Timely(D, R, q, o, P, P2)
    <3> SUFFICES ASSUME NEW ch \in D, ch[2] \in R
                 PROVE  /\ CloseLast(o[ch])
                        /\ Between(o[ch], P[ch], P2[ch])
                        /\ \A i \in 1 .. Len(q[ch]) : q[ch][i].kind # "Close"
      BY DEF Timely
    <3> QED  BY <1>0, <1>6, <1>10, <2>4
  <2>6. Later(Chans, R, P, P2) /\ P \in Times(Chans, Int) /\ P2 \in Times(Chans, Int)
    BY <2>1, <2>2 DEF Later, Times
  <2>7. InTime(Chans, queue', h, R, P2)
    BY ONLY <1>11, <2>3, <2>5, <2>6, EventsTimed, PushInTime
  <2> QED  BY <2>7 DEF P2
<1>14. InTime(Chans, queue', h, Alive', Promise(out_times'))
  BY <1>4, <1>13 DEF InTime
<1> QED  BY <1>4, <1>8, <1>12, <1>14

(* What next() returns is the first event of a queue, and the earliest. *)
LEMMA NextEarliest ==
  ASSUME Typed, NEW a \in Actors, NEW b \in Actors, IsNext(b, a)
  PROVE  /\ <<b, a>> \in Chans /\ <<b, a>>[1] = b /\ <<b, a>>[2] = a
         /\ queue[<<b, a>>] \in Seq(Events) /\ queue[<<b, a>>] # <<>>
         /\ First(b, a) = Head(queue[<<b, a>>]) /\ First(b, a) \in Events
         /\ status[a] = "running"
         /\ Earliest(Chans, queue, heard, <<b, a>>)
<1> USE ConstantsTyped
<1> DEFINE c == <<b, a>>
<1>1. c \in Chans /\ c[1] = b /\ c[2] = a
  OBVIOUS
<1>2. queue[c] \in Seq(Events) /\ queue[c] # <<>> /\ First(b, a) = Head(queue[c]) /\ status[a] = "running"
  BY <1>1 DEF IsNext, Shows, First, Typed
<1>3. Earliest(Chans, queue, heard, c)
  <2> SUFFICES ASSUME NEW d \in Chans, d[2] = a
               PROVE  First(b, a).time <= IF queue[d] # <<>> THEN Head(queue[d]).time ELSE heard[d]
    BY <1>2 DEF Earliest
  <2>1. d[1] \in Inputs(a) /\ d = <<d[1], a>>
    BY DEF Inputs
  <2>2. First(b, a).time <= Bound(d[1], a)
    BY <2>1 DEF IsNext
  <2> QED  BY <2>1, <2>2 DEF Bound, Shows, First
<1>4. First(b, a) \in Events
  BY <1>2, HeadTailProperties
<1> QED  BY <1>1, <1>2, <1>3, <1>4

(* A handler takes the first event of a. *)
LEMMA TakeKeeps ==
  ASSUME IInv, NEW a \in Actors, NEW b \in Actors, IsNext(b, a), NEW after,
         after = "running" => First(b, a).kind # "Close"
  PROVE  /\ status[a] = "running" /\ First(b, a) \in Events
         /\ First(b, a).kind = "Close" => First(b, a).time > TimeLimit
         /\ Ready([queue EXCEPT ![<<b, a>>] = Tail(@)],
                  [heard EXCEPT ![<<b, a>>] = First(b, a).time], a, after)
<1> USE ConstantsTyped
<1> DEFINE c == <<b, a>>
           q == [queue EXCEPT ![c] = Tail(@)]
           h == [heard EXCEPT ![c] = First(b, a).time]
           R == StillAlive(a, after)
<1>0. R \subseteq Alive /\ (a \in R => First(b, a).kind # "Close")
  BY DEF StillAlive
<1> HIDE DEF R
<1>1. c \in Chans /\ c[1] = b /\ c[2] = a
  OBVIOUS
<1>2. queue[c] \in Seq(Events) /\ queue[c] # <<>> /\ First(b, a) = Head(queue[c]) /\ status[a] = "running"
  BY NextEarliest DEF IInv
<1>3. Earliest(Chans, queue, heard, c)
  BY NextEarliest DEF IInv
<1>4. Promise(out_times) \in [Chans -> Int]
  BY PromiseTyped DEF IInv, Typed
<1>5. InTime(Chans, queue, heard, R, Promise(out_times))
  BY <1>0 DEF IInv, InTime
<1>6. /\ Tail(queue[c]) \in Seq(Events) /\ First(b, a) \in Events
      /\ First(b, a) = queue[c][1]
      /\ Len(queue[c]) \in Nat \ {0} /\ Len(Tail(queue[c])) = Len(queue[c]) - 1
      /\ \A i \in 1 .. Len(queue[c]) - 1 : Tail(queue[c])[i] = queue[c][i + 1]
  BY <1>2, HeadTailProperties, EmptySeq
<1>7. First(b, a).time \in Nat
  BY <1>6 DEF Events
<1>8. /\ queue \in [Chans -> Seq(Events)] /\ heard \in [Chans -> Nat]
      /\ \A ch \in Chans : Len(queue[ch]) <= QSize
  BY DEF IInv, Typed
<1>9. q \in [Chans -> Seq(Events)] /\ h \in [Chans -> Nat]
  BY <1>1, <1>6, <1>7, <1>8
<1>10. /\ q[c] = Tail(queue[c])
       /\ \A ch \in Chans : ch # c => q[ch] = queue[ch]
  BY <1>1, <1>8
<1>11. InTime(Chans, q, h, R, Promise(out_times))
  <2>1. c[2] \in R => Head(queue[c]).kind # "Close"
    BY <1>0, <1>1, <1>2
  <2>2. h = [heard EXCEPT ![c] = Head(queue[c]).time]
    BY <1>2
  <2> QED  BY <1>1, <1>2, <1>3, <1>4, <1>5, <1>8, <2>1, <2>2, TakeInTime, EventsTimed
<1> HIDE DEF q, h, c
<1>12. \A ch \in Chans : Len(q[ch]) <= QSize
  <2>1. Len(q[c]) <= QSize
    BY <1>1, <1>6, <1>8, <1>10
  <2> QED  BY <1>8, <1>10, <2>1
<1>13. /\ Closed(Chans, [queue EXCEPT ![c] = Tail(@)], Alive, TimeLimit)
       /\ Head(queue[c]).kind = "Close" => Head(queue[c]).time > TimeLimit
  <2>1. Closed(Chans, queue, Alive, TimeLimit) /\ TimeLimit \in Int
    BY DEF IInv
  <2> QED  BY ONLY <1>1, <1>2, <1>8, <2>1, TakeClosed
<1> QED  BY <1>2, <1>6, <1>9, <1>11, <1>12, <1>13 DEF q, h, c, R, Ready, Queues, Times

(* Every step of an actor takes an event or handles a stall; it pushes out  *)
(* and ends with status after.                                              *)
Pushes(a, N, out, after) ==
  /\ N \in SUBSET Actors /\ out \in Queues(N, Events)
  /\ after \in {"running", "done"} /\ KeepsPromise(a, out, after)
  /\ out_times' \in [Actors -> [Actors -> Nat]] /\ count' \in [Actors -> Nat]

Takes(b, a, N, out, after) ==
  /\ IsNext(b, a) /\ Handle(b, a, out, after) /\ Pushes(a, N, out, after)
  /\ after = "running" => First(b, a).kind # "Close"
  /\ after = "done" => First(b, a).time > TimeLimit

Stalls(t, b, a, N, out, after) ==
  /\ StallsAt(t, b, a) /\ HandleStall(a, out, after) /\ Pushes(a, N, out, after)
  /\ after = "done" => t > TimeLimit

LEMMA TakesKeeps ==
  ASSUME IInv, NEW a \in Actors, NEW b \in Actors, NEW N, NEW out, NEW after,
         Takes(b, a, N, out, after)
  PROVE  IInv'
<1>0. /\ IsNext(b, a) /\ Handle(b, a, out, after)
      /\ after = "running" => First(b, a).kind # "Close"
      /\ N \in SUBSET Actors /\ out \in Queues(N, Events)
      /\ after \in {"running", "done"} /\ KeepsPromise(a, out, after)
      /\ out_times' \in [Actors -> [Actors -> Nat]] /\ count' \in [Actors -> Nat]
  BY DEF Takes, Pushes
<1> DEFINE q == [queue EXCEPT ![<<b, a>>] = Tail(@)]
           h == [heard EXCEPT ![<<b, a>>] = First(b, a).time]
<1>1. status[a] = "running" /\ Ready(q, h, a, after)
  BY ONLY IInv, a \in Actors, b \in Actors, <1>0, TakeKeeps
<1>2. heard' = h /\ Deliver(q, a, out, after)
  BY <1>0 DEF Handle
<1>3. Typed /\ h \in [Chans -> Nat]
  BY <1>1 DEF IInv, Ready, Times
<1> HIDE DEF q, h
<1>4. /\ queue' \in [Chans -> Seq(Events)]
      /\ \A ch \in Chans : Len(queue'[ch]) <= QSize
      /\ status' \in [Actors -> {"running", "done", "panicked"}]
      /\ Closed(Chans, queue', Alive', TimeLimit)
      /\ InTime(Chans, queue', h, Alive', Promise(out_times'))
  BY <1>0, <1>1, <1>2, <1>3, DeliverKeeps
<1>5. Promise(out_times)' = Promise(out_times')
  BY DEF Promise
<1> QED  BY <1>0, <1>2, <1>3, <1>4, <1>5 DEF IInv, Typed

LEMMA StallsKeeps ==
  ASSUME IInv, NEW a \in Actors, NEW b, NEW t, NEW N, NEW out, NEW after,
         Stalls(t, b, a, N, out, after)
  PROVE  IInv'
<1>0. /\ status[a] = "running" /\ HandleStall(a, out, after)
      /\ N \in SUBSET Actors /\ out \in Queues(N, Events)
      /\ after \in {"running", "done"} /\ KeepsPromise(a, out, after)
      /\ out_times' \in [Actors -> [Actors -> Nat]] /\ count' \in [Actors -> Nat]
  BY DEF Stalls, Pushes, StallsAt
<1>1. Ready(queue, heard, a, after)
  <2>1. InTime(Chans, queue, heard, StillAlive(a, after), Promise(out_times))
    BY DEF IInv, InTime, StillAlive
  <2> QED  BY <2>1 DEF IInv, Typed, Ready, Queues, Times
<1>2. heard' = heard /\ Deliver(queue, a, out, after) /\ Typed
  BY <1>0 DEF HandleStall, IInv
<1>3. /\ queue' \in [Chans -> Seq(Events)]
      /\ \A ch \in Chans : Len(queue'[ch]) <= QSize
      /\ status' \in [Actors -> {"running", "done", "panicked"}]
      /\ Closed(Chans, queue', Alive', TimeLimit)
      /\ InTime(Chans, queue', heard, Alive', Promise(out_times'))
  BY <1>0, <1>1, <1>2, DeliverKeeps
<1>4. Promise(out_times)' = Promise(out_times')
  BY DEF Promise
<1> QED  BY <1>0, <1>2, <1>3, <1>4 DEF IInv, Typed

(* One event of this model by itself. *)
LEMMA OneOfEvents ==
  ASSUME NEW e \in Events, NEW lo \in Int, NEW hi \in Int,
         e.kind # "Close" => lo <= e.time /\ e.time <= hi
  PROVE  /\ <<e>> \in Seq(Events) /\ Len(<<e>>) = 1 /\ <<e>>[1] = e
         /\ CloseLast(<<e>>) /\ Between(<<e>>, lo, hi)
<1>1. \A i \in 1 .. 1 : i = 1
  OBVIOUS
<1>2. e.time <= e.time
  BY DEF Events
<1> QED  BY <1>1, <1>2 DEF CloseLast, Between

-----------------------------------------------------------------------------
LEMMA InitKeeps == Init => IInv
<1> SUFFICES ASSUME Init PROVE IInv
  OBVIOUS
<1> USE ConstantsTyped
<1>1. EventAt(Lookahead) \in Events /\ Null(Lookahead) \in Events
  BY DEF EventAt, Null, Events
<1>2. \A ch \in Chans : \E n \in 1 .. QSize :
        /\ queue[ch] \in Seq(Events) /\ Len(queue[ch]) = n
        /\ \A i \in 1 .. n : queue[ch][i].time = Lookahead /\ queue[ch][i].kind # "Close"
  <2> TAKE ch \in Chans
  <2>1. CASE ch[2] \in Seeded(ch[1])
    <3>1. queue[ch] = [k \in 1 .. Seeds |-> EventAt(Lookahead)]
      BY <2>1 DEF Init
    <3>2. /\ queue[ch] \in Seq(Events) /\ Len(queue[ch]) = Seeds
          /\ \A i \in 1 .. Seeds : queue[ch][i] = EventAt(Lookahead)
      BY <1>1, <3>1
    <3> QED  BY <3>2 DEF EventAt
  <2>2. CASE ch[2] \notin Seeded(ch[1])
    <3>1. queue[ch] = <<Null(Lookahead)>>
      BY <2>2 DEF Init
    <3>2. queue[ch] \in Seq(Events) /\ Len(queue[ch]) = 1 /\ queue[ch][1] = Null(Lookahead)
      BY <1>1, <3>1
    <3>3. 1 \in 1 .. QSize /\ \A i \in 1 .. 1 : i = 1
      OBVIOUS
    <3> QED  BY <3>2, <3>3 DEF Null
  <2> QED  BY <2>1, <2>2
<1>3. Typed
  <2>1. heard \in [Chans -> Nat] /\ status \in [Actors -> {"running", "done", "panicked"}]
    BY DEF Init
  <2>2. out_times \in [Actors -> [Actors -> Nat]] /\ count \in [Actors -> Nat]
    BY DEF Init
  <2>3. queue \in [Chans -> Seq(Events)]
    <3>1. DOMAIN queue = Chans /\ queue = [ch \in Chans |-> queue[ch]]
      BY DEF Init
    <3> QED  BY <1>2, <3>1
  <2>4. \A ch \in Chans : Len(queue[ch]) <= QSize
    BY <1>2
  <2> QED  BY <2>1, <2>2, <2>3, <2>4 DEF Typed
<1>4. Closed(Chans, queue, Alive, TimeLimit)
  BY <1>2 DEF Closed
<1>5. InTime(Chans, queue, heard, Alive, Promise(out_times))
  <2> SUFFICES ASSUME NEW ch \in Chans
               PROVE  /\ CloseLast(queue[ch])
                      /\ heard[ch] <= Promise(out_times)[ch]
                      /\ \A d \in Chans : /\ Between(queue[ch], heard[d], Promise(out_times)[ch])
                                          /\ heard[d] <= heard[ch]
    BY DEF InTime
  <2>1. \A d \in Chans : heard[d] = 0
    BY DEF Init
  <2>2. Promise(out_times)[ch] = Lookahead
    <3>1. ch[1] \in Actors /\ ch[2] \in Actors
      OBVIOUS
    <3>2. out_times[ch[1]][ch[2]] = 0
      BY <3>1 DEF Init
    <3> QED  BY <3>2 DEF Promise
  <2>3. \A i \in 1 .. Len(queue[ch]) : queue[ch][i].time = Lookahead /\ queue[ch][i].kind # "Close"
    BY <1>2
  <2>4. 0 <= Lookahead /\ Lookahead <= Lookahead /\ 0 <= 0
    OBVIOUS
  <2> QED  BY <2>1, <2>2, <2>3, <2>4 DEF CloseLast, Between
<1> QED  BY <1>3, <1>4, <1>5 DEF IInv

LEMMA SameTimes ==
  ASSUME Typed, UNCHANGED out_times
  PROVE  \A b, c \in Actors : out_times[b][c] <= out_times'[b][c] /\ out_times[b][c] \in Nat
<1>1. \A b, c \in Actors : out_times[b][c] \in Nat
  BY DEF Typed
<1> QED  BY <1>1

(* The Closes of a at t, past the limit. *)
LEMMA ClosesKeepPromise ==
  ASSUME Typed, UNCHANGED out_times, NEW a \in Actors, NEW t \in Nat, t > TimeLimit
  PROVE  Closes(t) \in Queues(Actors, Events) /\ KeepsPromise(a, Closes(t), "done")
<1>1. Close(t) \in Events /\ Close(t).kind = "Close" /\ Close(t).time = t
  BY DEF Close, Events
<1>2. \A lo, hi \in Int : /\ <<Close(t)>> \in Seq(Events) /\ Len(<<Close(t)>>) = 1 /\ <<Close(t)>>[1] = Close(t)
                          /\ CloseLast(<<Close(t)>>) /\ Between(<<Close(t)>>, lo, hi)
  BY <1>1, OneOfEvents
<1>3. Closes(t) \in Queues(Actors, Events)
  BY <1>2 DEF Closes, Queues
<1>4. DOMAIN Closes(t) = Actors /\ \A n \in Actors : Closes(t)[n] = <<Close(t)>>
  BY DEF Closes
<1>5. KeepsPromise(a, Closes(t), "done")
  <2> SUFFICES ASSUME NEW n \in Actors
               PROVE  /\ CloseLast(<<Close(t)>>)
                      /\ Between(<<Close(t)>>, out_times[a][n] + Lookahead, out_times'[a][n] + Lookahead)
                      /\ \A i \in 1 .. Len(<<Close(t)>>) :
                           <<Close(t)>>[i].kind = "Close" => <<Close(t)>>[i].time > TimeLimit
    BY <1>4, SameTimes DEF KeepsPromise
  <2>1. out_times[a][n] + Lookahead \in Int /\ out_times'[a][n] + Lookahead \in Int
    BY SameTimes, ConstantsTyped
  <2>2. \A i \in 1 .. 1 : i = 1
    OBVIOUS
  <2> QED  BY <1>1, <1>2, <2>1, <2>2
<1> QED  BY <1>3, <1>5

LEMMA SkipTakes ==
  ASSUME IInv, NEW a \in Actors, NEW b \in Actors, Skip(b, a)
  PROVE  Takes(b, a, {}, Nothing, "running") /\ First(b, a).kind = "Null"
<1>1. Typed /\ UNCHANGED out_times /\ UNCHANGED count
  BY DEF IInv, Skip
<1>2. Nothing \in Queues({}, Events) /\ DOMAIN Nothing = {}
  BY DEF Nothing, Queues
<1>3. KeepsPromise(a, Nothing, "running")
  BY <1>1, <1>2, SameTimes DEF KeepsPromise
<1>4. IsNext(b, a) /\ First(b, a).kind = "Null" /\ Handle(b, a, Nothing, "running")
  BY DEF Skip, TakeNull
<1>5. out_times' \in [Actors -> [Actors -> Nat]] /\ count' \in [Actors -> Nat]
  BY <1>1 DEF Typed
<1> QED  BY <1>2, <1>3, <1>4, <1>5 DEF Takes, Pushes

LEMMA TakeLateTakes ==
  ASSUME IInv, NEW a \in Actors, NEW b \in Actors, TakeLate(b, a)
  PROVE  Takes(b, a, Actors, Closes(First(b, a).time), "done")
<1>1. Typed /\ UNCHANGED out_times /\ UNCHANGED count
  BY DEF IInv, TakeLate
<1> DEFINE t == First(b, a).time
<1>2. IsNext(b, a) /\ t > TimeLimit /\ Handle(b, a, Closes(t), "done")
  BY DEF TakeLate
<1>3. t \in Nat
  <2>1. First(b, a) \in Events
    BY <1>1, <1>2, NextEarliest
  <2> QED  BY <2>1 DEF Events
<1> HIDE DEF t
<1>4. Closes(t) \in Queues(Actors, Events) /\ KeepsPromise(a, Closes(t), "done")
  BY <1>1, <1>2, <1>3, ClosesKeepPromise
<1>5. out_times' \in [Actors -> [Actors -> Nat]] /\ count' \in [Actors -> Nat]
  BY <1>1 DEF Typed
<1> QED  BY <1>2, <1>4, <1>5 DEF Takes, Pushes, t

LEMMA StallLateStalls ==
  ASSUME IInv, NEW a \in Actors, NEW b \in Actors, NEW t \in Nat, StallLate(t, b, a)
  PROVE  Stalls(t, b, a, Actors, Closes(t), "done")
<1>1. Typed /\ UNCHANGED out_times /\ UNCHANGED count
  BY DEF IInv, StallLate
<1>2. StallsAt(t, b, a) /\ t > TimeLimit /\ HandleStall(a, Closes(t), "done")
  BY DEF StallLate
<1>3. Closes(t) \in Queues(Actors, Events) /\ KeepsPromise(a, Closes(t), "done")
  BY <1>1, <1>2, ClosesKeepPromise
<1>4. out_times' \in [Actors -> [Actors -> Nat]] /\ count' \in [Actors -> Nat]
  BY <1>1 DEF Typed
<1> QED  BY <1>2, <1>3, <1>4 DEF Stalls, Pushes

(* Nothing but null messages and Closes. *)
Quiet(out) == \A n \in DOMAIN out : \A i \in 1 .. Len(out[n]) : out[n][i].kind # "Event"

LEMMA StallStalls ==
  ASSUME IInv, NEW a \in Actors, NEW b \in Actors, NEW t \in Nat, Stall(t, b, a)
  PROVE  \E N, out : Stalls(t, b, a, N, out, "running") /\ Quiet(out)
<1> DEFINE late == {c \in Actors : out_times[a][c] < t}
           e    == Null(t + Lookahead)
           out  == [c \in late |-> <<e>>]
<1>1. /\ Typed /\ StallsAt(t, b, a) /\ UNCHANGED count
      /\ out_times' = [out_times EXCEPT ![a] = [c \in Actors |-> IF c \in late THEN t ELSE @[c]]]
      /\ HandleStall(a, out, "running")
  BY DEF IInv, Stall
<1>2. late \in SUBSET Actors /\ Lookahead \in Nat /\ t + Lookahead \in Nat
  BY ConstantsTyped
<1>3. e \in Events /\ e.time = t + Lookahead /\ e.kind = "Null"
  BY <1>2 DEF Null, Events
<1>4. \A c, d \in Actors : out_times[c][d] \in Nat
  BY <1>1 DEF Typed
<1>5. \A c, d \in Actors : out_times'[c][d] = IF c = a /\ d \in late THEN t ELSE out_times[c][d]
  BY <1>1 DEF Typed
<1>6. \A c \in late : out_times[a][c] < t
  OBVIOUS
<1> HIDE DEF late, e
<1>7. \A c, d \in Actors : out_times[c][d] <= out_times'[c][d]
  BY <1>4, <1>5, <1>6
<1>8. <<e>> \in Seq(Events) /\ out \in Queues(late, Events) /\ DOMAIN out = late
  BY <1>3 DEF Queues
<1>9. ASSUME NEW n \in late
      PROVE  /\ CloseLast(out[n])
             /\ Between(out[n], out_times[a][n] + Lookahead, out_times'[a][n] + Lookahead)
             /\ \A i \in 1 .. Len(out[n]) : out[n][i].kind = "Null"
  <2>1. out[n] = <<e>>
    OBVIOUS
  <2>2. out_times'[a][n] = t /\ out_times[a][n] \in Nat /\ out_times[a][n] <= t
    BY <1>2, <1>4, <1>5, <1>6
  <2>3. /\ out_times[a][n] + Lookahead \in Int /\ out_times'[a][n] + Lookahead \in Int
        /\ out_times[a][n] + Lookahead <= e.time /\ e.time <= out_times'[a][n] + Lookahead
    BY <1>2, <1>3, <2>2
  <2>4. /\ Len(<<e>>) = 1 /\ <<e>>[1] = e /\ CloseLast(<<e>>)
        /\ Between(<<e>>, out_times[a][n] + Lookahead, out_times'[a][n] + Lookahead)
    BY <1>3, <2>3, OneOfEvents
  <2>5. \A i \in 1 .. 1 : i = 1
    OBVIOUS
  <2> QED  BY <1>3, <2>1, <2>4, <2>5
<1> HIDE DEF out
<1>10. KeepsPromise(a, out, "running")
  BY <1>7, <1>8, <1>9 DEF KeepsPromise
<1>11. out_times' \in [Actors -> [Actors -> Nat]] /\ count' \in [Actors -> Nat]
  BY <1>1, <1>2 DEF Typed
<1>12. Stalls(t, b, a, late, out, "running")
  BY <1>1, <1>2, <1>8, <1>10, <1>11 DEF Stalls, Pushes
<1>13. Quiet(out)
  BY <1>8, <1>9 DEF Quiet
<1> QED  BY <1>12, <1>13

LEMMA PassOnTakes ==
  ASSUME IInv, NEW a \in Actors, NEW b \in Actors, NEW dst \in Actors, NEW delay \in Delays,
         PassOn(b, a, dst, delay)
  PROVE  /\ First(b, a).kind = "Event"
         /\ \E e \in Events : e.kind = "Event" /\ Takes(b, a, {dst}, [n \in {dst} |-> <<e>>], "running")
<1> DEFINE t   == Max({out_times[a][dst], First(b, a).time}) + delay
           e   == EventAt(t + Lookahead)
           out == [n \in {dst} |-> <<e>>]
<1>1. /\ Typed /\ IsNext(b, a) /\ First(b, a).kind = "Event"
      /\ count' = [count EXCEPT ![a] = @ + 1]
      /\ out_times' = [out_times EXCEPT ![a][dst] = t]
      /\ Handle(b, a, out, "running")
  BY DEF IInv, PassOn
<1>2. \A c, d \in Actors : out_times[c][d] \in Nat
  BY <1>1 DEF Typed
<1>3. t \in Nat /\ out_times[a][dst] <= t
  <2>1. First(b, a).time \in Nat
    <3>1. First(b, a) \in Events
      BY <1>1, NextEarliest
    <3> QED  BY <3>1 DEF Events
  <2>2. delay \in Nat
    BY ConstantsTyped
  <2> DEFINE x == out_times[a][dst]
             y == First(b, a).time
  <2>3. x \in Nat /\ y \in Nat
    BY <1>2, <2>1
  <2> HIDE DEF x, y
  <2>4. Max({x, y}) \in Nat /\ x <= Max({x, y})
    BY <2>3, MaxOfTwo
  <2>5. t = Max({x, y}) + delay
    BY DEF x, y
  <2> HIDE DEF t
  <2>6. t \in Nat /\ x <= t
    BY <2>2, <2>3, <2>4, <2>5
  <2> QED  BY <2>6 DEF x
<1> HIDE DEF t
<1>4. Lookahead \in Nat /\ t + Lookahead \in Nat
  BY <1>3, ConstantsTyped
<1>5. e \in Events /\ e.time = t + Lookahead /\ e.kind = "Event"
  BY <1>4 DEF EventAt, Events
<1>6. \A c, d \in Actors : out_times'[c][d] = IF c = a /\ d = dst THEN t ELSE out_times[c][d]
  BY <1>1 DEF Typed
<1> HIDE DEF e
<1>7. \A c, d \in Actors : out_times[c][d] <= out_times'[c][d]
  BY <1>2, <1>3, <1>6
<1>8. /\ <<e>> \in Seq(Events) /\ out \in Queues({dst}, Events)
      /\ DOMAIN out = {dst} /\ out[dst] = <<e>>
  BY <1>5 DEF Queues
<1> HIDE DEF out
<1>9. /\ CloseLast(out[dst])
      /\ Between(out[dst], out_times[a][dst] + Lookahead, out_times'[a][dst] + Lookahead)
      /\ \A i \in 1 .. Len(out[dst]) : out[dst][i].kind # "Close"
  <2>1. out_times'[a][dst] = t /\ out_times[a][dst] \in Nat
    BY <1>2, <1>6
  <2>2. /\ out_times[a][dst] + Lookahead \in Int /\ out_times'[a][dst] + Lookahead \in Int
        /\ out_times[a][dst] + Lookahead <= e.time /\ e.time <= out_times'[a][dst] + Lookahead
    BY <1>3, <1>4, <1>5, <2>1
  <2>3. /\ Len(<<e>>) = 1 /\ <<e>>[1] = e /\ CloseLast(<<e>>)
        /\ Between(<<e>>, out_times[a][dst] + Lookahead, out_times'[a][dst] + Lookahead)
    BY <1>5, <2>2, OneOfEvents
  <2>4. \A i \in 1 .. 1 : i = 1
    OBVIOUS
  <2> QED  BY <1>5, <1>8, <2>3, <2>4
<1>10. KeepsPromise(a, out, "running")
  BY <1>7, <1>8, <1>9 DEF KeepsPromise
<1>11. out_times' \in [Actors -> [Actors -> Nat]] /\ count' \in [Actors -> Nat]
  BY <1>1, <1>3 DEF Typed
<1>12. {dst} \in SUBSET Actors
  OBVIOUS
<1>13. Takes(b, a, {dst}, out, "running")
  BY <1>1, <1>8, <1>10, <1>11, <1>12 DEF Takes, Pushes
<1> QED  BY <1>1, <1>5, <1>13 DEF out

LEMMA NextKeeps ==
  ASSUME IInv, [Next]_vars
  PROVE  IInv'
<1>1. CASE UNCHANGED vars
  BY <1>1 DEF vars, IInv, Typed, Alive, Promise, InTime, Closed
<1>2. ASSUME NEW a \in Actors, NEW b \in Actors,
             \/ Skip(b, a) \/ TakeLate(b, a)
             \/ StallLate(heard[<<b, a>>], b, a) \/ Stall(heard[<<b, a>>], b, a)
             \/ \E dst \in Actors, delay \in Delays : PassOn(b, a, dst, delay)
      PROVE  IInv'
  <2>1. heard[<<b, a>>] \in Nat
    BY ConstantsTyped DEF IInv, Typed
  <2>2. CASE Skip(b, a)
    BY <2>2, SkipTakes, TakesKeeps
  <2>3. CASE TakeLate(b, a)
    BY <2>3, TakeLateTakes, TakesKeeps
  <2>4. CASE StallLate(heard[<<b, a>>], b, a)
    BY <2>1, <2>4, StallLateStalls, StallsKeeps
  <2>5. CASE Stall(heard[<<b, a>>], b, a)
    BY <2>1, <2>5, StallStalls, StallsKeeps
  <2>6. CASE \E dst \in Actors, delay \in Delays : PassOn(b, a, dst, delay)
    BY <2>6, PassOnTakes, TakesKeeps
  <2> QED  BY <1>2, <2>2, <2>3, <2>4, <2>5, <2>6
<1> QED  BY <1>1, <1>2 DEF Next

(* The inductive invariant holds of every run. *)
THEOREM Invariant == Spec => []IInv
<1>1. Init => IInv
  BY InitKeeps
<1>2. IInv /\ [Next]_vars => IInv'
  BY NextKeeps
<1> QED  BY <1>1, <1>2, PTL DEF Spec

(* Everything has its type and no queue holds more than it can. *)
THEOREM TypeCorrect == Spec => []TypeOK
<1>1. IInv => TypeOK
  BY DEF IInv, Typed, TypeOK
<1> QED  BY <1>1, Invariant, PTL

(* Whatever the delays, and whoever lags behind: no event and no null       *)
(* message reaches an actor in its past.                                    *)
THEOREM Prompt == Spec => []NothingInThePast
<1>1. IInv => NothingInThePast
  <2> SUFFICES ASSUME IInv, NEW ch \in Chans, Running(ch[2]),
                      NEW e \in ToSet(queue[ch]), e.kind # "Close",
                      NEW b \in Inputs(ch[2])
               PROVE  e.time >= heard[<<b, ch[2]>>]
    BY DEF NothingInThePast
  <2>1. ch[2] \in Alive
    BY ConstantsTyped DEF Running, Alive
  <2>2. <<b, ch[2]>> \in Chans
    BY ConstantsTyped DEF Inputs
  <2>3. Between(queue[ch], heard[<<b, ch[2]>>], Promise(out_times)[ch])
    BY <2>1, <2>2 DEF IInv, InTime
  <2>4. queue[ch] \in Seq(Events) /\ heard[<<b, ch[2]>>] \in Nat
    BY <2>2 DEF IInv, Typed
  <2>5. PICK i \in 1 .. Len(queue[ch]) : e = queue[ch][i]
    BY <2>4 DEF ToSet
  <2>6. heard[<<b, ch[2]>>] <= e.time
    BY <2>3, <2>5 DEF Between
  <2>7. e.time \in Nat
    <3>1. e \in Events
      BY <2>4, <2>5, ElementOfSeq
    <3> QED  BY <3>1 DEF Events
  <2> QED  BY <2>4, <2>6, <2>7
<1> QED  BY <1>1, Invariant, PTL

LEMMA BagOps ==
  /\ \A x, y : Sim!(-)(x, y) = Bg!(-)(x, y) /\ (Sim!\sqsubseteq(x, y) <=> Bg!\sqsubseteq(x, y))
  /\ \A x : (Sim!IsABag(x) <=> Bg!IsABag(x)) /\ Sim!SetToBag(x) = Bg!SetToBag(x)
  BY DEF Sim!(-), Bg!(-), Sim!\sqsubseteq, Bg!\sqsubseteq,
         Sim!IsABag, Bg!IsABag, Sim!SetToBag, Bg!SetToBag

LEMMA BagRules ==
  ASSUME NEW k \in [Nat -> Nat], NEW k2 \in [Nat -> Nat]
  PROVE  /\ Sim!IsABag(Bag(k)) /\ DOMAIN Bag(k) \subseteq Nat
         /\ \A t : t \in DOMAIN Bag(k) <=> t \in Nat /\ k[t] # 0
         /\ (\A t \in Nat : k[t] <= k2[t]) => Sim!\sqsubseteq(Bag(k), Bag(k2))
         /\ \A t \in DOMAIN Sim!(-)(Bag(k2), Bag(k)) : t \in Nat /\ k2[t] > k[t]
<1>1. /\ Bg!IsABag(Bag(k)) /\ DOMAIN Bag(k) \subseteq Nat
      /\ \A t : t \in DOMAIN Bag(k) <=> t \in Nat /\ k[t] # 0
      /\ (\A t \in Nat : k[t] <= k2[t]) => Bg!\sqsubseteq(Bag(k), Bag(k2))
      /\ \A t \in DOMAIN Bg!(-)(Bag(k2), Bag(k)) : t \in Nat /\ k2[t] > k[t]
  BY BagsCompare
<1> QED  BY ONLY <1>1, BagOps

LEMMA BagLess ==
  ASSUME NEW k \in [Nat -> Nat], NEW t0 \in Nat, k[t0] # 0
  PROVE  /\ Less(k, t0) \in [Nat -> Nat]
         /\ Sim!(-)(Bag(k), Sim!SetToBag({t0})) = Bag(Less(k, t0))
<1>1. /\ Less(k, t0) \in [Nat -> Nat]
      /\ Bg!(-)(Bag(k), Bg!SetToBag({t0})) = Bag(Less(k, t0))
  BY BagWithout
<1> QED  BY ONLY <1>1, BagOps

-----------------------------------------------------------------------------
(* Nobody has been told of a time before which a running actor may still    *)
(* push to him, and who is done has been told of one past the limit.        *)
Forward ==
  /\ Past(Chans, heard, Alive, Promise(out_times))
  /\ \A a \in Actors : status[a] = "done" => \E b \in Actors : heard[<<b, a>>] > TimeLimit

(* What a handler does to the status. *)
Ends(a, after) ==
  \E end \in {after, "panicked"} : status' = [status EXCEPT ![a] = end]

LEMMA DeliverEnds ==
  ASSUME NEW a \in Actors, NEW b, NEW q, NEW h, NEW N, NEW out, NEW after,
         Deliver(q, a, out, after), Pushes(a, N, out, after)
  PROVE  Ends(a, after)
<1>1. N \in SUBSET Actors /\ out \in Queues(N, Events)
  BY DEF Pushes
<1>2. Delivers(q, a, N, out, after)
  BY <1>1, DeliverShape
<1> QED  BY <1>2 DEF Delivers, Ends

LEMMA PastGrows ==
  ASSUME NEW h \in [Chans -> Nat], Typed, Past(Chans, h, Alive, Promise(out_times)),
         NEW a \in Actors, NEW N, NEW out, NEW after,
         Pushes(a, N, out, after), Ends(a, after), status[a] = "running"
  PROVE  Past(Chans, h, Alive', Promise(out_times)')
<1>1. \A b, c \in Actors : out_times[b][c] <= out_times'[b][c]
  BY DEF Pushes, KeepsPromise
<1>2. out_times \in [Actors -> [Actors -> Nat]] /\ out_times' \in [Actors -> [Actors -> Nat]]
  BY DEF Typed, Pushes
<1>3. /\ \A ch \in Chans : Promise(out_times)[ch] <= Promise(out_times')[ch]
      /\ Promise(out_times) \in [Chans -> Int] /\ Promise(out_times') \in [Chans -> Int]
  BY <1>1, <1>2, PromiseGrows, PromiseTyped
<1>4. Alive' \subseteq Alive
  BY DEF Ends, Alive, Typed
<1>5. Promise(out_times)' = Promise(out_times')
  BY DEF Promise
<1>6. ASSUME NEW ch \in Chans, ch[1] \in Alive', NEW d \in Chans, d[2] = ch[2]
      PROVE  h[d] <= Promise(out_times')[ch]
  <2>1. h[d] <= Promise(out_times)[ch] /\ h[d] \in Nat
    BY <1>4, <1>6 DEF Past
  <2>2. /\ Promise(out_times)[ch] \in Int /\ Promise(out_times')[ch] \in Int
        /\ Promise(out_times)[ch] <= Promise(out_times')[ch]
    BY <1>3
  <2> QED  BY ONLY <2>1, <2>2
<1> QED  BY <1>5, <1>6 DEF Past

LEMMA TakesForward ==
  ASSUME IInv, Forward, NEW a \in Actors, NEW b \in Actors, NEW N, NEW out, NEW after,
         Takes(b, a, N, out, after)
  PROVE  Forward' /\ Past(Chans, heard', Alive, Promise(out_times))
<1> DEFINE c == <<b, a>>
<1>1. /\ Typed /\ IsNext(b, a) /\ heard' = [heard EXCEPT ![c] = First(b, a).time]
      /\ \E q : Deliver(q, a, out, after)
      /\ Pushes(a, N, out, after) /\ (after = "done" => First(b, a).time > TimeLimit)
      /\ after \in {"running", "done"}
  BY DEF Takes, Handle, Pushes, IInv
<1>2. /\ c \in Chans /\ c[2] = a /\ queue[c] # <<>>
      /\ First(b, a) = Head(queue[c]) /\ First(b, a) \in Events
      /\ status[a] = "running" /\ Earliest(Chans, queue, heard, c)
  BY <1>1, NextEarliest
<1>3. /\ queue \in [Chans -> Seq(Events)] /\ heard \in [Chans -> Nat]
      /\ status \in [Actors -> {"running", "done", "panicked"}]
      /\ Promise(out_times) \in [Chans -> Int]
  BY <1>1, PromiseTyped DEF Typed
<1>4. c[2] \in Alive
  BY <1>2 DEF Alive
<1>5. /\ InTime(Chans, queue, heard, Alive, Promise(out_times))
      /\ Closed(Chans, queue, Alive, TimeLimit)
      /\ Past(Chans, heard, Alive, Promise(out_times))
  BY DEF IInv, Forward
<1> HIDE DEF c
<1>6. Past(Chans, [heard EXCEPT ![c] = Head(queue[c]).time], Alive, Promise(out_times))
  BY ONLY <1>2, <1>3, <1>4, <1>5, EventsTimed, TakePast
<1>7. Past(Chans, heard', Alive, Promise(out_times))
  BY <1>1, <1>2, <1>6
<1>8. heard' \in [Chans -> Nat]
  <2>1. First(b, a).time \in Nat
    BY <1>2 DEF Events
  <2> QED  BY <1>1, <1>3, <2>1
<1>9. Ends(a, after)
  BY <1>1, DeliverEnds
<1>10. Past(Chans, heard', Alive', Promise(out_times)')
  BY <1>1, <1>2, <1>7, <1>8, <1>9, PastGrows
<1>11. ASSUME NEW d \in Actors, status'[d] = "done"
       PROVE  \E e \in Actors : heard'[<<e, d>>] > TimeLimit
  <2>1. CASE d = a
    <3>1. after = "done"
      BY <1>3, <1>9, <1>11, <2>1 DEF Ends
    <3>2. heard'[<<b, d>>] > TimeLimit
      BY <1>1, <1>2, <1>3, <2>1, <3>1 DEF c
    <3> QED  BY <3>2
  <2>2. CASE d # a
    <3>1. status[d] = "done"
      BY <1>3, <1>9, <1>11, <2>2 DEF Ends
    <3>2. PICK e \in Actors : heard[<<e, d>>] > TimeLimit
      BY <3>1 DEF Forward
    <3>3. <<e, d>> # c /\ <<e, d>> \in Chans
      BY <2>2, ConstantsTyped DEF c
    <3>4. heard'[<<e, d>>] = heard[<<e, d>>]
      BY <1>1, <1>3, <3>3
    <3> QED  BY <3>2, <3>4
  <2> QED  BY <2>1, <2>2
<1> QED  BY <1>7, <1>10, <1>11 DEF Forward

LEMMA StallsForward ==
  ASSUME IInv, Forward, NEW a \in Actors, NEW b \in Actors, NEW t, NEW N, NEW out, NEW after,
         Stalls(t, b, a, N, out, after)
  PROVE  Forward'
<1>1. /\ Typed /\ heard' = heard /\ status[a] = "running" /\ heard[<<b, a>>] = t
      /\ \E q : Deliver(q, a, out, after)
      /\ Pushes(a, N, out, after) /\ (after = "done" => t > TimeLimit)
      /\ after \in {"running", "done"}
  BY DEF Stalls, HandleStall, StallsAt, Pushes, IInv
<1>2. heard \in [Chans -> Nat] /\ status \in [Actors -> {"running", "done", "panicked"}]
  BY <1>1 DEF Typed
<1>3. Ends(a, after)
  BY <1>1, DeliverEnds
<1>4. Past(Chans, heard, Alive', Promise(out_times)')
  BY <1>1, <1>2, <1>3, PastGrows DEF Forward
<1>5. ASSUME NEW d \in Actors, status'[d] = "done"
       PROVE  \E e \in Actors : heard'[<<e, d>>] > TimeLimit
  <2>1. CASE d = a
    <3>1. after = "done"
      BY <1>2, <1>3, <1>5, <2>1 DEF Ends
    <3> QED  BY <1>1, <2>1, <3>1
  <2>2. CASE d # a
    <3>1. status[d] = "done"
      BY <1>2, <1>3, <1>5, <2>2 DEF Ends
    <3> QED  BY <1>1, <3>1 DEF Forward
  <2> QED  BY <2>1, <2>2
<1> QED  BY <1>1, <1>4, <1>5 DEF Forward

LEMMA InitForward == Init => Forward
<1> SUFFICES ASSUME Init  PROVE Forward
  OBVIOUS
<1>1. \A d \in Chans : heard[d] = 0
  BY DEF Init
<1>2. \A ch \in Chans : Promise(out_times)[ch] \in Int /\ Promise(out_times)[ch] >= 0
  <2> TAKE ch \in Chans
  <2>1. ch[1] \in Actors /\ ch[2] \in Actors
    BY ConstantsTyped
  <2>2. out_times[ch[1]][ch[2]] = 0
    BY <2>1 DEF Init
  <2>3. Promise(out_times)[ch] = 0 + Lookahead
    BY <2>2 DEF Promise
  <2> QED  BY <2>3, ConstantsTyped
<1>3. \A a \in Actors : status[a] # "done"
  BY DEF Init
<1> QED  BY <1>1, <1>2, <1>3 DEF Forward, Past

LEMMA NextForward ==
  ASSUME IInv, Forward, [Next]_vars
  PROVE  Forward'
<1>1. CASE UNCHANGED vars
  BY <1>1 DEF vars, Forward, Past, Alive, Promise
<1>2. ASSUME NEW a \in Actors, NEW b \in Actors,
             \/ Skip(b, a) \/ TakeLate(b, a)
             \/ StallLate(heard[<<b, a>>], b, a) \/ Stall(heard[<<b, a>>], b, a)
             \/ \E dst \in Actors, delay \in Delays : PassOn(b, a, dst, delay)
      PROVE  Forward'
  <2>1. heard[<<b, a>>] \in Nat
    BY ConstantsTyped DEF IInv, Typed
  <2>2. CASE Skip(b, a)
    BY <2>2, SkipTakes, TakesForward
  <2>3. CASE TakeLate(b, a)
    BY <2>3, TakeLateTakes, TakesForward
  <2>4. CASE StallLate(heard[<<b, a>>], b, a)
    BY <2>1, <2>4, StallLateStalls, StallsForward
  <2>5. CASE Stall(heard[<<b, a>>], b, a)
    BY <2>1, <2>5, StallStalls, StallsForward
  <2>6. CASE \E dst \in Actors, delay \in Delays : PassOn(b, a, dst, delay)
    BY <2>6, PassOnTakes, TakesForward
  <2> QED  BY <1>2, <2>2, <2>3, <2>4, <2>5, <2>6
<1> QED  BY <1>1, <1>2 DEF Next

-----------------------------------------------------------------------------
(* What is on its way to each actor. *)

Models == {e \in Events : e.kind = "Event"}

(* How many events of each time are on their way to a when the queues are q. *)
Ways(q, a) == On(Chans, q, QSize, Models, a)

LEMMA ComingIs ==
  /\ \A a : Coming(a) = WaysBag(Chans, queue, a) /\ Coming(a)' = WaysBag(Chans, queue', a)
  /\ \A a : Now(a) = Latest(Chans, heard, a) /\ Now(a)' = Latest(Chans, heard', a)
<1>1. \A a : Inputs(a) = In(Chans, a)
  BY DEF Inputs, In
<1> QED  BY <1>1 DEF Coming, ComingAt, ComingTimes, IsModel, WaysBag, WaysAt, WaysTimes, Now, Latest

LEMMA Counted ==
  ASSUME NEW q \in [Chans -> Seq(Events)], \A ch \in Chans : Len(q[ch]) <= QSize
  PROVE  Channels(Chans, q, QSize, Events)
<1>1. \A ch \in Chans : ch = <<ch[1], ch[2]>> /\ q[ch] \in Seq(Events) /\ Len(q[ch]) <= QSize
  BY ConstantsTyped
<1>2. ASSUME NEW a  PROVE IsFiniteSet(In(Chans, a))
  <2>1. In(Chans, a) \in SUBSET Actors
    BY ConstantsTyped DEF In
  <2>2. IsFiniteSet(Actors)
    BY FS_Interval, ConstantsTyped DEF Actors
  <2> QED  BY <2>1, <2>2, FS_Subset
<1> QED  BY <1>1, <1>2 DEF Channels

LEMMA WaysTyped ==
  ASSUME NEW q \in [Chans -> Seq(Events)], \A ch \in Chans : Len(q[ch]) <= QSize, NEW a
  PROVE  /\ Ways(q, a) \in [Nat -> Nat]
         /\ \A t \in Nat : Ways(q, a)[t] # 0 <=> Comes(Chans, q, Models, a, t)
<1>1. Channels(Chans, q, QSize, Events) /\ QSize \in Nat
  BY Counted, ConstantsTyped
<1>2. Ways(q, a) = On(Chans, q, QSize, Models, a)
  BY DEF Ways
<1> QED  BY ONLY <1>1, <1>2, OnTyped

LEMMA BagIs ==
  ASSUME NEW q \in [Chans -> Seq(Events)], \A ch \in Chans : Len(q[ch]) <= QSize, NEW a \in Actors
  PROVE  WaysBag(Chans, q, a) = Bag(Ways(q, a))
<1>1. Channels(Chans, q, QSize, Events) /\ QSize \in Nat
  BY Counted, ConstantsTyped
<1>2. AreModels(Models, Events)
  BY DEF AreModels, Models, Events
<1>3. Ways(q, a) = On(Chans, q, QSize, Models, a)
  BY DEF Ways
<1> QED  BY ONLY <1>1, <1>2, <1>3, EventsTimed, BagOfWays

LEMMA InputsAre ==
  ASSUME NEW a \in Actors
  PROVE  Inputs(a) = Actors
<1>1. \A b \in Actors : <<b, a>> \in Chans /\ <<b, a>>[2] = a /\ <<b, a>>[1] = b
  BY ConstantsTyped
<1>2. Inputs(a) \subseteq Actors
  BY ConstantsTyped DEF Inputs
<1>3. Actors \subseteq Inputs(a)
  BY <1>1 DEF Inputs
<1> QED  BY <1>2, <1>3

LEMMA LatestIs ==
  ASSUME NEW h \in [Chans -> Nat], NEW a \in Actors, NEW m \in Nat, \A b \in Actors : h[<<b, a>>] <= m
  PROVE  /\ Latest(Chans, h, a) \in Nat /\ Latest(Chans, h, a) <= m
         /\ \A b \in Actors : h[<<b, a>>] <= Latest(Chans, h, a)
<1>1. \A ch \in Chans : ch = <<ch[1], ch[2]>> /\ ch[1] \in Actors
  BY ConstantsTyped
<1>2. \A b \in Actors : <<b, a>> \in Chans /\ <<b, a>>[2] = a
  BY ConstantsTyped
<1>3. ArePairs(Chans) /\ \A ch \in Chans : ch[2] = a => h[ch] <= m
  BY <1>1 DEF ArePairs
<1>4. In(Chans, a) # {}
  BY <1>2 DEF In
<1>5. /\ Latest(Chans, h, a) \in Nat /\ Latest(Chans, h, a) <= m
      /\ \A ch \in Chans : ch[2] = a => h[ch] <= Latest(Chans, h, a)
  BY <1>3, <1>4, LatestBounds
<1> QED  BY <1>2, <1>5

(* As long as somebody runs, he has promised something to everybody. *)
LEMMA Promised ==
  ASSUME Typed, NEW h \in [Chans -> Nat], Past(Chans, h, Alive, Promise(out_times)),
         NEW a \in Actors, status[a] = "running", NEW d \in Actors
  PROVE  /\ out_times[a][d] + Lookahead \in Nat
         /\ \A b \in Actors : h[<<b, d>>] <= out_times[a][d] + Lookahead
         /\ Latest(Chans, h, d) \in Nat /\ Latest(Chans, h, d) <= out_times[a][d] + Lookahead
         /\ \A b \in Actors : h[<<b, d>>] <= Latest(Chans, h, d)
<1> DEFINE m == out_times[a][d] + Lookahead
<1>1. m \in Nat
  BY ConstantsTyped DEF Typed
<1>2. Promise(out_times)[<<a, d>>] = m
  BY PromiseTyped DEF Typed
<1>3. <<a, d>> \in Chans /\ <<a, d>>[1] = a /\ <<a, d>>[2] = d /\ a \in Alive
  BY ConstantsTyped DEF Alive
<1>4. \A b \in Actors : <<b, d>> \in Chans /\ <<b, d>>[2] = d
  BY ConstantsTyped
<1>5. \A b \in Actors : h[<<b, d>>] <= m
  BY <1>2, <1>3, <1>4 DEF Past
<1> HIDE DEF m
<1>6. /\ Latest(Chans, h, d) \in Nat /\ Latest(Chans, h, d) <= m
      /\ \A b \in Actors : h[<<b, d>>] <= Latest(Chans, h, d)
  BY <1>1, <1>5, LatestIs
<1> QED  BY <1>1, <1>5, <1>6 DEF m

(* Nothing is lost when a handler pushes, and what comes in is from out. *)
LEMMA PushWays ==
  ASSUME NEW q \in [Chans -> Seq(Events)], \A ch \in Chans : Len(q[ch]) <= QSize,
         NEW a \in Actors, NEW N, NEW out, NEW after, Deliver(q, a, out, after), Pushes(a, N, out, after),
         NEW d, NEW t \in Nat
  PROVE  /\ Ways(q, d)[t] <= Ways(queue', d)[t]
         /\ Ways(q, d)[t] # Ways(queue', d)[t] =>
              d \in DOMAIN out /\ \E i \in 1 .. Len(out[d]) : out[d][i] \in Models /\ out[d][i].time = t
<1>1. N \in SUBSET Actors /\ out \in Queues(N, Events) /\ DOMAIN out = N
  BY DEF Pushes, Queues
<1>2. Delivers(q, a, N, out, after)
  BY <1>1, DeliverShape
<1> DEFINE D == Sent(a, N)
           o == Along(a, N, out)
<1>3. /\ D \in SUBSET Chans /\ o \in Queues(D, Events)
      /\ \A ch \in D : ch[2] \in N /\ o[ch] = out[ch[2]]
      /\ queue' = [ch \in Chans |-> IF ch \in D THEN Pushed(q[ch], o[ch], QSize) ELSE q[ch]]
  BY <1>2 DEF Delivers
<1> HIDE DEF D, o
<1>4. IsPush(Chans, q, D, o, QSize, queue')
  BY <1>3 DEF IsPush
<1>5. Channels(Chans, q, QSize, Events) /\ QSize \in Nat
  BY Counted, ConstantsTyped
<1>6. D \in SUBSET Chans /\ o \in Queues(D, Events)
  BY <1>3
<1> DEFINE q2 == queue'
<1>7. IsPush(Chans, q, D, o, QSize, q2)
  BY <1>4
<1> HIDE DEF q2
<1>8. Gains(Chans, q, q2, QSize, Models, D, o, d, t)
  BY ONLY t \in Nat, <1>5, <1>6, <1>7, OnPush
<1>9. ASSUME NEW ch \in D, ch[2] = d, NEW i \in 1 .. Len(o[ch]), o[ch][i] \in Models, o[ch][i].time = t
      PROVE  d \in DOMAIN out /\ \E j \in 1 .. Len(out[d]) : out[d][j] \in Models /\ out[d][j].time = t
  <2>1. d \in N /\ o[ch] = out[d]
    BY <1>3, <1>9
  <2> QED  BY <1>1, <1>9, <2>1
<1> QED  BY <1>8, <1>9 DEF Gains, Ways, q2

LEMMA QuietWays ==
  ASSUME NEW q \in [Chans -> Seq(Events)], \A ch \in Chans : Len(q[ch]) <= QSize,
         NEW a \in Actors, NEW N, NEW out, NEW after, Deliver(q, a, out, after), Pushes(a, N, out, after),
         Quiet(out), NEW d
  PROVE  Ways(queue', d) = Ways(q, d)
<1>1. \A t \in Nat : Ways(queue', d)[t] = Ways(q, d)[t]
  <2> SUFFICES ASSUME NEW t \in Nat, Ways(q, d)[t] # Ways(queue', d)[t]  PROVE FALSE
    OBVIOUS
  <2>1. d \in DOMAIN out /\ \E i \in 1 .. Len(out[d]) : out[d][i] \in Models /\ out[d][i].time = t
    BY PushWays
  <2> QED  BY <2>1 DEF Quiet, Models
<1>2. /\ Ways(queue', d) = [t \in Nat |-> Ways(queue', d)[t]]
      /\ Ways(q, d) = [t \in Nat |-> Ways(q, d)[t]]
  BY DEF Ways, On
<1> QED  BY <1>1, <1>2

(* The first event from b is taken. *)
Rest(b, a) == [queue EXCEPT ![<<b, a>>] = Tail(@)]

LEMMA TakeWays ==
  ASSUME Typed, NEW a \in Actors, NEW b \in Actors, IsNext(b, a)
  PROVE  /\ Rest(b, a) \in [Chans -> Seq(Events)] /\ \A ch \in Chans : Len(Rest(b, a)[ch]) <= QSize
         /\ \A d : \A t \in Nat : Ways(Rest(b, a), d)[t] =
              IF d = a /\ First(b, a).kind = "Event" /\ First(b, a).time = t
              THEN Ways(queue, d)[t] - 1 ELSE Ways(queue, d)[t]
<1> DEFINE c == <<b, a>>
           q == Rest(b, a)
<1>1. /\ c \in Chans /\ c[2] = a /\ queue[c] \in Seq(Events) /\ queue[c] # <<>>
      /\ First(b, a) = Head(queue[c]) /\ First(b, a) \in Events
  BY NextEarliest
<1>2. queue \in [Chans -> Seq(Events)] /\ \A ch \in Chans : Len(queue[ch]) <= QSize
  BY DEF Typed
<1>3. q[c] = Tail(queue[c]) /\ \A ch \in Chans : ch # c => q[ch] = queue[ch]
  BY <1>1, <1>2 DEF Rest
<1>4. Tail(queue[c]) \in Seq(Events) /\ Len(Tail(queue[c])) = Len(queue[c]) - 1 /\ Len(queue[c]) \in Nat
  BY <1>1, HeadTailProperties, LenProperties
<1>5. q \in [Chans -> Seq(Events)]
  BY <1>1, <1>2, <1>4 DEF Rest
<1>6. \A ch \in Chans : Len(q[ch]) <= QSize
  <2>1. Len(q[c]) <= QSize
    BY <1>1, <1>2, <1>3, <1>4, ConstantsTyped
  <2> QED  BY <1>2, <1>3, <2>1
<1>7. Channels(Chans, queue, QSize, Events) /\ QSize \in Nat
  BY <1>2, Counted, ConstantsTyped
<1>8. First(b, a) \in Models <=> First(b, a).kind = "Event"
  BY <1>1 DEF Models
<1> HIDE DEF c, q
<1>9. ASSUME NEW d, NEW t \in Nat
      PROVE  On(Chans, q, QSize, Models, d)[t] =
               IF c[2] = d /\ Head(queue[c]) \in Models /\ Head(queue[c]).time = t
               THEN On(Chans, queue, QSize, Models, d)[t] - 1 ELSE On(Chans, queue, QSize, Models, d)[t]
  BY ONLY <1>1, <1>3, <1>7, t \in Nat, OnTake
<1>10. \A d : \A t \in Nat : Ways(q, d)[t] =
         IF d = a /\ First(b, a).kind = "Event" /\ First(b, a).time = t
         THEN Ways(queue, d)[t] - 1 ELSE Ways(queue, d)[t]
  BY <1>1, <1>8, <1>9 DEF Ways
<1> QED  BY <1>5, <1>6, <1>10 DEF q

-----------------------------------------------------------------------------
(* The steps of Simulation. *)

LEMMA BagsAre ==
  ASSUME Typed, Typed', NEW d \in Actors
  PROVE  /\ Ways(queue, d) \in [Nat -> Nat] /\ Ways(queue', d) \in [Nat -> Nat]
         /\ Coming(d) = Bag(Ways(queue, d)) /\ Coming(d)' = Bag(Ways(queue', d))
<1>1. queue \in [Chans -> Seq(Events)] /\ \A ch \in Chans : Len(queue[ch]) <= QSize
  BY DEF Typed
<1>2. queue' \in [Chans -> Seq(Events)] /\ \A ch \in Chans : Len(queue'[ch]) <= QSize
  BY DEF Typed
<1>3. Ways(queue, d) \in [Nat -> Nat] /\ WaysBag(Chans, queue, d) = Bag(Ways(queue, d))
  BY <1>1, WaysTyped, BagIs
<1> DEFINE q2 == queue'
<1>4. q2 \in [Chans -> Seq(Events)] /\ \A ch \in Chans : Len(q2[ch]) <= QSize
  BY <1>2
<1> HIDE DEF q2
<1>5. Ways(q2, d) \in [Nat -> Nat] /\ WaysBag(Chans, q2, d) = Bag(Ways(q2, d))
  BY <1>4, WaysTyped, BagIs
<1> QED  BY <1>3, <1>5, ComingIs DEF q2

(* Nobody but a learns how far anybody is. *)
OnlyNow(a) == \A d \in Actors : d # a => Latest(Chans, heard', d) = Latest(Chans, heard, d)

LEMMA StageMoves ==
  ASSUME Typed, NEW a \in Actors, status[a] = "running", NEW after, Ends(a, after),
         after \in {"running", "done"}
  PROVE  LET st == [d \in Actors |-> Stage(d)]
             st2 == [d \in Actors |-> Stage(d)']
         IN  /\ st[a] = "running"
             /\ after = "running" => st2 \in {st, [st EXCEPT ![a] = "failed"]}
             /\ after = "done" => st2 \in {[st EXCEPT ![a] = s] : s \in {"finished", "failed"}}
<1> DEFINE st  == [d \in Actors |-> Stage(d)]
           st2 == [d \in Actors |-> Stage(d)']
<1>1. status \in [Actors -> {"running", "done", "panicked"}]
  BY DEF Typed
<1>2. PICK end \in {after, "panicked"} : status' = [status EXCEPT ![a] = end]
  BY DEF Ends
<1>3. st2 = [st EXCEPT ![a] = IF end = "running" THEN "running" ELSE IF end = "done" THEN "finished" ELSE "failed"]
  BY <1>1, <1>2 DEF Stage
<1>4. st[a] = "running"
  BY DEF Stage
<1>5. [st EXCEPT ![a] = "running"] = st
  BY <1>4
<1> HIDE DEF st, st2
<1> QED  BY <1>2, <1>3, <1>4, <1>5 DEF st, st2

LEMMA MovesRule ==
  ASSUME Typed, NEW a \in Actors, status[a] = "running", Ends(a, "running"),
         OnlyNow(a), Latest(Chans, heard', a) >= Latest(Chans, heard, a)
  PROVE  Sim!Moves(a)
<1> DEFINE ck  == [d \in Actors |-> Now(d)]
           ck2 == [d \in Actors |-> Now(d)']
<1>1. ck2[a] >= ck[a]
  BY ComingIs
<1>2. ck2 = [ck EXCEPT ![a] = ck2[a]]
  <2>1. \A d \in Actors : d # a => Now(d)' = Now(d)
    BY ComingIs DEF OnlyNow
  <2> QED  BY <2>1
<1> QED  BY <1>1, <1>2, StageMoves DEF Sim!Moves

(* Nothing comes or goes as far as the model is concerned. *)
LEMMA WaitsRule ==
  ASSUME Typed, Typed', NEW a \in Actors, status[a] = "running", Ends(a, "running"),
         OnlyNow(a), Latest(Chans, heard', a) >= Latest(Chans, heard, a),
         \A d \in Actors : Ways(queue', d) = Ways(queue, d)
  PROVE  Sim!Waits(a)
<1>1. \A d \in Actors : Coming(d)' = Coming(d)
  BY BagsAre
<1> QED  BY <1>1, MovesRule DEF Sim!Waits

LEMMA FinishesRule ==
  ASSUME Typed, Typed', NEW a \in Actors, status[a] = "running", Ends(a, "done"), OnlyNow(a),
         \A t \in Nat : Ways(queue, a)[t] # 0 => t > TimeLimit,
         \A d \in Actors : d # a => Ways(queue', d) = Ways(queue, d),
         \A t \in Nat : Ways(queue', a)[t] <= Ways(queue, a)[t]
  PROVE  Sim!Finishes(a)
<1> DEFINE ck  == [d \in Actors |-> Now(d)]
           ck2 == [d \in Actors |-> Now(d)']
           pe  == [d \in Actors |-> Coming(d)]
           pe2 == [d \in Actors |-> Coming(d)']
<1>1. ck2 = [ck EXCEPT ![a] = ck2[a]]
  <2>1. \A d \in Actors : d # a => Now(d)' = Now(d)
    BY ComingIs DEF OnlyNow
  <2> QED  BY <2>1
<1>2. \A d \in Actors : d # a => Coming(d)' = Coming(d)
  BY BagsAre
<1>3. pe2 = [pe EXCEPT ![a] = pe2[a]]
  BY <1>2
<1>4. /\ Coming(a) = Bag(Ways(queue, a)) /\ Coming(a)' = Bag(Ways(queue', a))
      /\ Ways(queue, a) \in [Nat -> Nat] /\ Ways(queue', a) \in [Nat -> Nat]
  BY BagsAre
<1>5. Sim!\sqsubseteq(pe2[a], pe[a])
  BY <1>4, BagRules
<1>6. \A t \in DOMAIN pe[a] : t >= TimeLimit + 1
  <2>1. \A t \in DOMAIN Bag(Ways(queue, a)) : t \in Nat /\ Ways(queue, a)[t] # 0
    BY <1>4, BagRules
  <2>2. \A t \in DOMAIN Bag(Ways(queue, a)) : t >= TimeLimit + 1
    BY <2>1, ConstantsTyped
  <2> QED  BY <1>4, <2>2
<1> QED  BY <1>1, <1>3, <1>5, <1>6, StageMoves DEF Sim!Finishes

(* a handles an event of time t0: that one is gone, and what comes is late *)
(* enough.  k: what was on its way to whom once it was gone.                *)
HandlesAt(a, t0, k) ==
  /\ Latest(Chans, heard', a) = t0 /\ t0 \in Nat /\ Ways(queue, a)[t0] # 0
  /\ \A t \in Nat : Ways(queue, a)[t] # 0 => t0 <= t
  /\ k = [d \in Actors |-> IF d = a THEN Less(Ways(queue, a), t0) ELSE Ways(queue, d)]
  /\ \A d \in Actors, t \in Nat :
       /\ k[d][t] <= Ways(queue', d)[t]
       /\ k[d][t] # Ways(queue', d)[t] =>
            t >= Latest(Chans, heard', d) /\ (status[d] = "done" => t > TimeLimit)

LEMMA HandlesRule ==
  ASSUME Typed, Typed', NEW a \in Actors, status[a] = "running", Ends(a, "running"),
         OnlyNow(a), Latest(Chans, heard', a) >= Latest(Chans, heard, a), NEW t0, NEW k, HandlesAt(a, t0, k)
  PROVE  Sim!Handles(a)
<1> DEFINE pe   == [d \in Actors |-> Coming(d)]
           pe2  == [d \in Actors |-> Coming(d)']
           ck2  == [d \in Actors |-> Now(d)']
           left == [pe EXCEPT ![a] = Sim!(-)(@, Sim!SetToBag({ck2[a]}))]
<1>1. /\ ck2[a] = t0 /\ t0 \in Nat /\ Ways(queue, a)[t0] # 0
      /\ \A t \in Nat : Ways(queue, a)[t] # 0 => t0 <= t
      /\ k = [d \in Actors |-> IF d = a THEN Less(Ways(queue, a), t0) ELSE Ways(queue, d)]
  BY ComingIs DEF HandlesAt
<1>2. /\ Coming(a) = Bag(Ways(queue, a)) /\ Ways(queue, a) \in [Nat -> Nat]
      /\ \A t : t \in DOMAIN Bag(Ways(queue, a)) <=> t \in Nat /\ Ways(queue, a)[t] # 0
  BY BagsAre, BagRules
<1>3. ck2[a] \in DOMAIN pe[a] /\ \A t \in DOMAIN pe[a] : ck2[a] <= t
  BY <1>1, <1>2
<1>4. Sim!Moves(a)
  BY MovesRule
<1>5. \A d \in Actors : left[d] = Bag(k[d]) /\ k[d] \in [Nat -> Nat]
  <2> SUFFICES ASSUME NEW d \in Actors  PROVE left[d] = Bag(k[d]) /\ k[d] \in [Nat -> Nat]
    OBVIOUS
  <2>1. CASE d = a
    <3>1. /\ Less(Ways(queue, a), t0) \in [Nat -> Nat]
          /\ Sim!(-)(Bag(Ways(queue, a)), Sim!SetToBag({t0})) = Bag(Less(Ways(queue, a), t0))
      BY <1>1, <1>2, BagLess
    <3>2. left[a] = Sim!(-)(pe[a], Sim!SetToBag({t0}))
      BY <1>1
    <3> QED  BY <1>1, <1>2, <2>1, <3>1, <3>2
  <2>2. CASE d # a
    <3>1. left[d] = Coming(d) /\ k[d] = Ways(queue, d)
      BY <1>1, <2>2
    <3> QED  BY <3>1, BagsAre
  <2> QED  BY <2>1, <2>2
<1>6. ASSUME NEW d \in Actors
      PROVE  /\ Sim!\sqsubseteq(left[d], pe2[d])
             /\ \A t \in DOMAIN Sim!(-)(pe2[d], left[d]) :
                  t >= ck2[d] /\ (Stage(d) = "finished" => t >= TimeLimit + 1)
  <2> DEFINE kd == k[d]
             k2 == Ways(queue', d)
  <2>1. left[d] = Bag(kd) /\ pe2[d] = Bag(k2) /\ kd \in [Nat -> Nat] /\ k2 \in [Nat -> Nat]
    BY <1>5, <1>6, BagsAre
  <2>2. \A t \in Nat : /\ kd[t] <= k2[t]
                       /\ kd[t] # k2[t] =>
                            t >= Latest(Chans, heard', d) /\ (status[d] = "done" => t > TimeLimit)
    BY DEF HandlesAt
  <2> HIDE DEF kd, k2, left, pe2
  <2>3. /\ Sim!\sqsubseteq(Bag(kd), Bag(k2))
        /\ \A t \in DOMAIN Sim!(-)(Bag(k2), Bag(kd)) : t \in Nat /\ k2[t] > kd[t]
    BY <2>1, <2>2, BagRules
  <2>4. ck2[d] = Latest(Chans, heard', d)
    BY ComingIs
  <2>5. Stage(d) = "finished" => status[d] = "done"
    BY DEF Stage
  <2>6. ASSUME NEW t \in DOMAIN Sim!(-)(Bag(k2), Bag(kd))
        PROVE  t >= Latest(Chans, heard', d) /\ (status[d] = "done" => t >= TimeLimit + 1)
    <3>1. t \in Nat /\ kd[t] \in Nat /\ k2[t] \in Nat /\ kd[t] # k2[t]
      BY <2>1, <2>3
    <3>2. t >= Latest(Chans, heard', d) /\ (status[d] = "done" => t > TimeLimit)
      BY <2>2, <3>1
    <3> QED  BY <3>1, <3>2, ConstantsTyped
  <2> QED  BY <2>1, <2>3, <2>4, <2>5, <2>6
<1>7. Sim!Adds(left)
  <2>1. DOMAIN pe2 = Actors
    OBVIOUS
  <2> HIDE DEF left
  <2> QED  BY <1>6, <2>1 DEF Sim!Adds
<1> QED  BY <1>3, <1>4, <1>7 DEF Sim!Handles

-----------------------------------------------------------------------------
(* What a handler hears: nobody else hears anything. *)
LEMMA SameLatest ==
  ASSUME NEW h, NEW h2, NEW d, \A e \in Actors : h2[<<e, d>>] = h[<<e, d>>]
  PROVE  Latest(Chans, h2, d) = Latest(Chans, h, d)
<1>1. \A ch \in Chans : ch = <<ch[1], ch[2]>> /\ ch[1] \in Actors
  BY ConstantsTyped
<1>2. ArePairs(Chans) /\ \A ch \in Chans : ch[2] = d => h2[ch] = h[ch]
  BY <1>1 DEF ArePairs
<1> QED  BY <1>2, SameHeard

(* Some event of time t is on its way to a. *)
Expects(a, t) ==
  \E ch \in Chans : ch[2] = a /\ \E i \in 1 .. Len(queue[ch]) :
    queue[ch][i].kind = "Event" /\ queue[ch][i].time = t

LEMMA OnlyModels ==
  ASSUME Typed, NEW a \in Actors
  PROVE  \A t \in Nat : Ways(queue, a)[t] # 0 <=> Expects(a, t)
<1> DEFINE q == queue
<1>1. q \in [Chans -> Seq(Events)] /\ \A ch \in Chans : Len(q[ch]) <= QSize
  BY DEF Typed
<1>2. \A ch \in Chans : \A i \in 1 .. Len(q[ch]) : q[ch][i] \in Models <=> q[ch][i].kind = "Event"
  <2>1. \A ch \in Chans : \A i \in 1 .. Len(q[ch]) : q[ch][i] \in Events
    BY <1>1, ElementOfSeq
  <2> QED  BY <2>1 DEF Models
<1> HIDE DEF q
<1>3. \A t \in Nat : Ways(q, a)[t] # 0 <=> Comes(Chans, q, Models, a, t)
  BY ONLY <1>1, WaysTyped
<1> QED  BY <1>2, <1>3 DEF Comes, Expects, q

LEMMA TakesHears ==
  ASSUME IInv, NEW a \in Actors, NEW b \in Actors, IsNext(b, a),
         heard' = [heard EXCEPT ![<<b, a>>] = First(b, a).time]
  PROVE  /\ OnlyNow(a)
         /\ \A t \in Nat : Ways(queue, a)[t] # 0 => First(b, a).time <= t
         /\ First(b, a).kind # "Close" =>
              Latest(Chans, heard', a) = First(b, a).time /\ Latest(Chans, heard', a) >= Latest(Chans, heard, a)
<1> DEFINE c == <<b, a>>
           t0 == First(b, a).time
<1>0. Typed /\ queue \in [Chans -> Seq(Events)] /\ heard \in [Chans -> Nat]
      /\ (\A ch \in Chans : Len(queue[ch]) <= QSize) /\ Promise(out_times) \in [Chans -> Int]
  BY PromiseTyped DEF IInv, Typed
<1>1. /\ c \in Chans /\ c[2] = a /\ c[2] \in Alive /\ queue[c] # <<>>
      /\ t0 = Head(queue[c]).time /\ First(b, a) = Head(queue[c]) /\ t0 \in Nat
      /\ Earliest(Chans, queue, heard, c)
  BY <1>0, NextEarliest DEF Events, Alive
<1>2. \A d, e \in Actors : d # a => <<e, d>> # c /\ <<e, d>> \in Chans
  BY ConstantsTyped
<1>3. OnlyNow(a)
  <2> SUFFICES ASSUME NEW d \in Actors, d # a  PROVE Latest(Chans, heard', d) = Latest(Chans, heard, d)
    BY DEF OnlyNow
  <2>1. \A e \in Actors : heard'[<<e, d>>] = heard[<<e, d>>]
    BY <1>0, <1>2
  <2> QED  BY <2>1, SameLatest
<1> HIDE DEF c, t0
<1>4. /\ \A d \in Chans : d[2] = c[2] =>
              \A i \in 1 .. Len(queue[d]) : queue[d][i].kind # "Close" => Head(queue[c]).time <= queue[d][i].time
      /\ Head(queue[c]).kind # "Close" => \A d \in Chans : d[2] = c[2] => heard[d] <= Head(queue[c]).time
  <2>1. InTime(Chans, queue, heard, Alive, Promise(out_times))
    BY DEF IInv
  <2> QED  BY ONLY <1>0, <1>1, <2>1, EventsTimed, FromEarliest
<1>5. \A t \in Nat : Ways(queue, a)[t] # 0 => t0 <= t
  <2> SUFFICES ASSUME NEW t \in Nat, Ways(queue, a)[t] # 0  PROVE t0 <= t
    OBVIOUS
  <2>1. PICK ch \in Chans : ch[2] = a /\ \E i \in 1 .. Len(queue[ch]) :
          queue[ch][i].kind = "Event" /\ queue[ch][i].time = t
    <3>1. Expects(a, t)
      BY <1>0, OnlyModels
    <3> QED  BY <3>1 DEF Expects
  <2>2. PICK i \in 1 .. Len(queue[ch]) : queue[ch][i].kind = "Event" /\ queue[ch][i].time = t
    BY <2>1
  <2> QED  BY <1>1, <1>4, <2>1, <2>2
<1>6. ASSUME First(b, a).kind # "Close"
      PROVE  Latest(Chans, heard', a) = t0 /\ Latest(Chans, heard', a) >= Latest(Chans, heard, a)
  <2>1. \A e \in Actors : <<e, a>> \in Chans /\ <<e, a>>[2] = a
    BY ConstantsTyped
  <2>2. \A e \in Actors : heard[<<e, a>>] \in Nat /\ heard[<<e, a>>] <= t0
    BY <1>0, <1>1, <1>4, <1>6, <2>1
  <2>3. heard' \in [Chans -> Nat] /\ heard'[c] = t0 /\ \A ch \in Chans : ch # c => heard'[ch] = heard[ch]
    BY <1>0, <1>1 DEF c, t0
  <2>4. \A e \in Actors : heard'[<<e, a>>] <= t0
    BY <1>1, <2>1, <2>2, <2>3
  <2> DEFINE h2 == heard'
  <2>5. h2 \in [Chans -> Nat] /\ (\A e \in Actors : h2[<<e, a>>] <= t0) /\ t0 \in Nat /\ h2[<<b, a>>] = t0
    BY <1>1, <2>3, <2>4 DEF c
  <2> HIDE DEF h2
  <2>6. Latest(Chans, h2, a) \in Nat /\ Latest(Chans, h2, a) <= t0 /\ h2[<<b, a>>] <= Latest(Chans, h2, a)
    BY <2>5, LatestIs
  <2>7. Latest(Chans, heard, a) \in Nat /\ Latest(Chans, heard, a) <= t0
    BY <1>0, <1>1, <2>2, LatestIs
  <2>8. Latest(Chans, h2, a) = t0
    BY <2>5, <2>6
  <2> QED  BY <1>1, <2>7, <2>8 DEF h2
<1> QED  BY <1>3, <1>5, <1>6 DEF t0

(* What a handler takes and pushes, one step after the other. *)
LEMMA TakesSteps ==
  ASSUME IInv, NEW a \in Actors, NEW b \in Actors, NEW N, NEW out, NEW after,
         Takes(b, a, N, out, after)
  PROVE  /\ Typed /\ Typed' /\ status[a] = "running" /\ Ends(a, after)
         /\ IsNext(b, a) /\ heard' = [heard EXCEPT ![<<b, a>>] = First(b, a).time]
         /\ Deliver(Rest(b, a), a, out, after) /\ Pushes(a, N, out, after)
<1>1. /\ IsNext(b, a) /\ heard' = [heard EXCEPT ![<<b, a>>] = First(b, a).time]
      /\ Deliver(Rest(b, a), a, out, after) /\ Pushes(a, N, out, after)
  BY DEF Takes, Handle, Rest
<1>2. IInv'
  BY TakesKeeps
<1>3. Ends(a, after)
  BY <1>1, DeliverEnds
<1>4. status[a] = "running"
  BY <1>1 DEF IsNext
<1> QED  BY <1>1, <1>2, <1>3, <1>4 DEF IInv

LEMMA QuietTake ==
  ASSUME IInv, NEW a \in Actors, NEW b \in Actors, NEW N, NEW out, NEW after,
         Takes(b, a, N, out, after), Quiet(out)
  PROVE  \A d : Ways(queue', d) = Ways(Rest(b, a), d)
<1> DEFINE q == Rest(b, a)
<1>1. Typed /\ IsNext(b, a) /\ Deliver(q, a, out, after) /\ Pushes(a, N, out, after)
  BY TakesSteps
<1>2. q \in [Chans -> Seq(Events)] /\ \A ch \in Chans : Len(q[ch]) <= QSize
  BY <1>1, TakeWays
<1> HIDE DEF q
<1> QED  BY <1>1, <1>2, QuietWays DEF q

LEMMA WaysAreFunctions ==
  ASSUME NEW q1, NEW q2, NEW d, \A t \in Nat : Ways(q1, d)[t] = Ways(q2, d)[t]
  PROVE  Ways(q1, d) = Ways(q2, d)
<1>1. /\ Ways(q1, d) = [t \in Nat |-> Ways(q1, d)[t]]
      /\ Ways(q2, d) = [t \in Nat |-> Ways(q2, d)[t]]
  BY DEF Ways, On
<1> QED  BY <1>1

LEMMA SkipWaits ==
  ASSUME IInv, NEW a \in Actors, NEW b \in Actors, Skip(b, a)
  PROVE  Sim!Waits(a)
<1>1. Takes(b, a, {}, Nothing, "running") /\ First(b, a).kind = "Null" /\ Quiet(Nothing)
  BY SkipTakes DEF Quiet, Nothing
<1>2. /\ Typed /\ Typed' /\ status[a] = "running" /\ Ends(a, "running")
      /\ IsNext(b, a) /\ heard' = [heard EXCEPT ![<<b, a>>] = First(b, a).time]
  BY <1>1, TakesSteps
<1>3. OnlyNow(a) /\ Latest(Chans, heard', a) >= Latest(Chans, heard, a)
  BY <1>1, <1>2, TakesHears
<1>4. ASSUME NEW d \in Actors  PROVE Ways(queue', d) = Ways(queue, d)
  <2>1. Ways(queue', d) = Ways(Rest(b, a), d)
    BY <1>1, QuietTake
  <2>2. \A t \in Nat : Ways(Rest(b, a), d)[t] = Ways(queue, d)[t]
    BY <1>1, <1>2, TakeWays
  <2> QED  BY <2>1, <2>2, WaysAreFunctions
<1> QED  BY <1>2, <1>3, <1>4, WaitsRule

LEMMA TakeLateFinishes ==
  ASSUME IInv, NEW a \in Actors, NEW b \in Actors, TakeLate(b, a)
  PROVE  Sim!Finishes(a)
<1> DEFINE t0 == First(b, a).time
           out == Closes(t0)
<1>1. Takes(b, a, Actors, out, "done") /\ t0 > TimeLimit
  BY TakeLateTakes DEF TakeLate
<1>2. Quiet(out)
  <2>1. \A n \in Actors : Len(out[n]) = 1 /\ out[n][1].kind = "Close"
    BY DEF Closes, Close
  <2>2. DOMAIN out = Actors /\ \A i \in 1 .. 1 : i = 1
    BY DEF Closes
  <2> HIDE DEF out
  <2> QED  BY <2>1, <2>2 DEF Quiet
<1>3. /\ Typed /\ Typed' /\ status[a] = "running" /\ Ends(a, "done")
      /\ IsNext(b, a) /\ heard' = [heard EXCEPT ![<<b, a>>] = t0]
  BY <1>1, TakesSteps
<1>4. OnlyNow(a) /\ \A t \in Nat : Ways(queue, a)[t] # 0 => t0 <= t
  BY <1>3, TakesHears
<1>5. t0 \in Nat
  BY <1>3, NextEarliest DEF Events
<1>6. \A d \in Actors : Ways(queue', d) = Ways(Rest(b, a), d)
  BY <1>1, <1>2, QuietTake
<1>7. \A d \in Actors : \A t \in Nat : Ways(Rest(b, a), d)[t] =
         IF d = a /\ First(b, a).kind = "Event" /\ First(b, a).time = t
         THEN Ways(queue, d)[t] - 1 ELSE Ways(queue, d)[t]
  BY <1>3, TakeWays
<1>8. \A d \in Actors : \A t \in Nat : Ways(queue, d)[t] \in Nat
  BY <1>3, BagsAre
<1>9. \A d \in Actors : d # a => Ways(queue', d) = Ways(queue, d)
  BY <1>6, <1>7, WaysAreFunctions
<1>10. \A t \in Nat : Ways(queue', a)[t] <= Ways(queue, a)[t]
  BY <1>6, <1>7, <1>8
<1>11. \A t \in Nat : Ways(queue, a)[t] # 0 => t > TimeLimit
  BY <1>1, <1>4, <1>5, ConstantsTyped
<1> QED  BY <1>3, <1>4, <1>9, <1>10, <1>11, FinishesRule

(* Who stalls has heard nothing new. *)
LEMMA StallsSteps ==
  ASSUME IInv, Forward, NEW a \in Actors, NEW b \in Actors, NEW t, NEW N, NEW out, NEW after,
         Stalls(t, b, a, N, out, after), Quiet(out)
  PROVE  /\ Typed /\ Typed' /\ status[a] = "running" /\ Ends(a, after)
         /\ OnlyNow(a) /\ Latest(Chans, heard', a) >= Latest(Chans, heard, a)
         /\ \A d : Ways(queue', d) = Ways(queue, d)
<1>1. /\ StallsAt(t, b, a) /\ heard' = heard /\ Deliver(queue, a, out, after) /\ Pushes(a, N, out, after)
      /\ status[a] = "running"
  BY DEF Stalls, HandleStall, StallsAt
<1>2. IInv'
  BY StallsKeeps
<1>3. Ends(a, after)
  BY <1>1, DeliverEnds
<1>4. OnlyNow(a) /\ Latest(Chans, heard', a) = Latest(Chans, heard, a)
  BY <1>1 DEF OnlyNow
<1>5. Latest(Chans, heard, a) \in Nat
  <2>1. heard \in [Chans -> Nat] /\ Typed /\ Past(Chans, heard, Alive, Promise(out_times))
    BY DEF IInv, Typed, Forward
  <2> QED  BY <1>1, <2>1, Promised
<1>6. \A d : Ways(queue', d) = Ways(queue, d)
  <2>1. queue \in [Chans -> Seq(Events)] /\ \A ch \in Chans : Len(queue[ch]) <= QSize
    BY DEF IInv, Typed
  <2> QED  BY <1>1, <2>1, QuietWays
<1> QED  BY <1>1, <1>2, <1>3, <1>4, <1>5, <1>6 DEF IInv

LEMMA StallWaits ==
  ASSUME IInv, Forward, NEW a \in Actors, NEW b \in Actors, NEW t \in Nat, Stall(t, b, a)
  PROVE  Sim!Waits(a)
<1>1. PICK N, out : Stalls(t, b, a, N, out, "running") /\ Quiet(out)
  BY StallStalls
<1>2. /\ Typed /\ Typed' /\ status[a] = "running" /\ Ends(a, "running")
      /\ OnlyNow(a) /\ Latest(Chans, heard', a) >= Latest(Chans, heard, a)
      /\ \A d : Ways(queue', d) = Ways(queue, d)
  BY <1>1, StallsSteps
<1> QED  BY <1>2, WaitsRule

LEMMA StallLateFinishes ==
  ASSUME IInv, Forward, NEW a \in Actors, NEW b \in Actors, NEW t0 \in Nat, StallLate(t0, b, a)
  PROVE  Sim!Finishes(a)
<1> DEFINE out == Closes(t0)
<1>1. Stalls(t0, b, a, Actors, out, "done") /\ t0 > TimeLimit /\ heard[<<b, a>>] = t0
  BY StallLateStalls DEF StallLate, StallsAt
<1>2. Quiet(out)
  <2>1. \A n \in Actors : Len(out[n]) = 1 /\ out[n][1].kind = "Close"
    BY DEF Closes, Close
  <2>2. DOMAIN out = Actors /\ \A i \in 1 .. 1 : i = 1
    BY DEF Closes
  <2> HIDE DEF out
  <2> QED  BY <2>1, <2>2 DEF Quiet
<1>3. /\ Typed /\ Typed' /\ status[a] = "running" /\ Ends(a, "done") /\ OnlyNow(a)
      /\ \A d : Ways(queue', d) = Ways(queue, d)
  BY <1>1, <1>2, StallsSteps
<1>4. ASSUME NEW t \in Nat, Ways(queue, a)[t] # 0  PROVE t > TimeLimit
  <2>1. Expects(a, t)
    BY <1>3, <1>4, OnlyModels
  <2>2. PICK ch \in Chans : ch[2] = a /\ \E i \in 1 .. Len(queue[ch]) :
          queue[ch][i].kind = "Event" /\ queue[ch][i].time = t
    BY <2>1 DEF Expects
  <2>3. PICK i \in 1 .. Len(queue[ch]) : queue[ch][i].kind = "Event" /\ queue[ch][i].time = t
    BY <2>2
  <2>4. <<b, a>> \in Chans /\ <<b, a>>[2] = ch[2] /\ ch[2] \in Alive
    BY <1>3, <2>2, ConstantsTyped DEF Alive
  <2>5. Between(queue[ch], heard[<<b, a>>], Promise(out_times)[ch])
    BY <2>4 DEF IInv, InTime
  <2>6. t0 <= t
    BY <1>1, <2>3, <2>5 DEF Between
  <2> QED  BY <1>1, <2>6, ConstantsTyped
<1>5. \A t \in Nat : Ways(queue', a)[t] <= Ways(queue, a)[t]
  <2>1. \A t \in Nat : Ways(queue, a)[t] \in Nat
    BY <1>3, BagsAre
  <2>2. Ways(queue', a) = Ways(queue, a)
    BY <1>3
  <2> QED  BY <2>1, <2>2
<1>6. \A d \in Actors : d # a => Ways(queue', d) = Ways(queue, d)
  BY <1>3
<1> QED  BY <1>3, <1>4, <1>5, <1>6, FinishesRule

LEMMA PassOnHandles ==
  ASSUME IInv, Forward, NEW a \in Actors, NEW b \in Actors, NEW dst \in Actors, NEW delay \in Delays,
         PassOn(b, a, dst, delay)
  PROVE  Sim!Handles(a)
<1>1. PICK e \in Events : e.kind = "Event" /\ Takes(b, a, {dst}, [n \in {dst} |-> <<e>>], "running")
  BY PassOnTakes
<1> DEFINE t0  == First(b, a).time
           out == [n \in {dst} |-> <<e>>]
           q   == Rest(b, a)
           k   == [d \in Actors |-> IF d = a THEN Less(Ways(queue, a), t0) ELSE Ways(queue, d)]
<1>2. /\ Takes(b, a, {dst}, out, "running") /\ First(b, a).kind = "Event" /\ DOMAIN out = {dst}
  BY <1>1, PassOnTakes
<1> HIDE DEF out
<1>3. /\ Typed /\ Typed' /\ status[a] = "running" /\ Ends(a, "running")
      /\ IsNext(b, a) /\ heard' = [heard EXCEPT ![<<b, a>>] = t0]
      /\ Deliver(q, a, out, "running") /\ Pushes(a, {dst}, out, "running")
  BY <1>2, TakesSteps
<1>4. /\ OnlyNow(a) /\ Latest(Chans, heard', a) = t0 /\ Latest(Chans, heard', a) >= Latest(Chans, heard, a)
      /\ \A t \in Nat : Ways(queue, a)[t] # 0 => t0 <= t
  BY <1>2, <1>3, TakesHears
<1>5. t0 \in Nat /\ <<b, a>> \in Chans /\ queue[<<b, a>>] \in Seq(Events) /\ queue[<<b, a>>] # <<>>
      /\ First(b, a) = Head(queue[<<b, a>>]) /\ <<b, a>>[2] = a
  BY <1>3, NextEarliest DEF Events
<1>6. Ways(queue, a)[t0] # 0
  <2>1. 1 \in 1 .. Len(queue[<<b, a>>]) /\ First(b, a) = queue[<<b, a>>][1]
    <3>1. Len(queue[<<b, a>>]) \in Nat \ {0}
      BY <1>5, EmptySeq
    <3> QED  BY <1>5, <3>1
  <2>2. Expects(a, t0)
    BY <1>2, <1>5, <2>1 DEF Expects
  <2> QED  BY <1>3, <1>5, <2>2, OnlyModels
<1>7. /\ q \in [Chans -> Seq(Events)] /\ \A ch \in Chans : Len(q[ch]) <= QSize
      /\ \A d \in Actors : \A t \in Nat : Ways(q, d)[t] =
           IF d = a /\ t0 = t THEN Ways(queue, d)[t] - 1 ELSE Ways(queue, d)[t]
  BY <1>2, <1>3, TakeWays
<1>8. \A d \in Actors : \A t \in Nat : k[d][t] = Ways(q, d)[t]
  BY <1>7 DEF Less
<1> HIDE DEF q
<1>9. ASSUME NEW d \in Actors, NEW t \in Nat, k[d][t] # Ways(queue', d)[t]
      PROVE  t >= Latest(Chans, heard', d) /\ (status[d] = "done" => t > TimeLimit)
  <2>1. Ways(q, d)[t] # Ways(queue', d)[t]
    BY <1>8, <1>9
  <2>2. d \in DOMAIN out /\ \E i \in 1 .. Len(out[d]) : out[d][i] \in Models /\ out[d][i].time = t
    BY <1>3, <1>7, <2>1, PushWays
  <2>3. PICK i \in 1 .. Len(out[d]) : out[d][i] \in Models /\ out[d][i].time = t
    BY <2>2
  <2>4. Between(out[d], out_times[a][d] + Lookahead, out_times'[a][d] + Lookahead)
    BY <1>3, <2>2 DEF Pushes, KeepsPromise
  <2>5. out_times[a][d] + Lookahead <= t
    BY <2>3, <2>4 DEF Between, Models
  <2> DEFINE m == out_times[a][d] + Lookahead
             h2 == heard'
  <2>6. /\ h2 \in [Chans -> Nat] /\ Past(Chans, h2, Alive, Promise(out_times))
        /\ Past(Chans, heard, Alive, Promise(out_times)) /\ heard \in [Chans -> Nat]
    BY <1>2, <1>3, TakesForward DEF Typed, Forward
  <2> HIDE DEF h2
  <2>7. m \in Nat /\ Latest(Chans, h2, d) \in Nat /\ Latest(Chans, h2, d) <= m
    BY <1>3, <2>6, Promised
  <2>8. \A c \in Actors : heard[<<c, d>>] <= m
    BY <1>3, <2>6, Promised
  <2> HIDE DEF m
  <2>9. t >= Latest(Chans, h2, d)
    BY <2>5, <2>7 DEF m
  <2>10. ASSUME status[d] = "done"  PROVE t > TimeLimit
    <3>1. PICK c \in Actors : heard[<<c, d>>] > TimeLimit
      BY <2>10 DEF Forward
    <3>2. heard[<<c, d>>] \in Nat /\ heard[<<c, d>>] <= m
      BY <2>6, <2>8, ConstantsTyped
    <3>3. m <= t
      BY <2>5 DEF m
    <3> QED  BY <2>7, <3>1, <3>2, <3>3, ConstantsTyped
  <2> QED  BY <2>9, <2>10 DEF h2
<1>10. \A d \in Actors : \A t \in Nat : k[d][t] <= Ways(queue', d)[t]
  BY <1>3, <1>7, <1>8, PushWays
<1>11. HandlesAt(a, t0, k)
  BY <1>4, <1>5, <1>6, <1>9, <1>10 DEF HandlesAt
<1> HIDE DEF k
<1> QED  BY <1>3, <1>4, <1>11, HandlesRule

LEMMA InitSimulates ==
  ASSUME Init
  PROVE  Sim!SimInit
<1>1. Typed
  BY InitKeeps DEF IInv
<1>2. \A a \in Actors : Now(a) = 0
  <2> SUFFICES ASSUME NEW a \in Actors  PROVE Latest(Chans, heard, a) = 0
    BY ComingIs
  <2>1. \A b \in Actors : <<b, a>> \in Chans /\ heard[<<b, a>>] = 0
    BY ConstantsTyped DEF Init
  <2>2. heard \in [Chans -> Nat]
    BY <1>1 DEF Typed
  <2>3. Latest(Chans, heard, a) \in Nat /\ Latest(Chans, heard, a) <= 0
    BY <2>1, <2>2, LatestIs
  <2> QED  BY <2>3
<1>3. \A a \in Actors : Stage(a) = "running"
  BY DEF Init, Stage
<1>4. \A a \in Actors : Sim!IsABag(Coming(a)) /\ DOMAIN Coming(a) \subseteq Nat
  <2> SUFFICES ASSUME NEW a \in Actors  PROVE Sim!IsABag(Coming(a)) /\ DOMAIN Coming(a) \subseteq Nat
    OBVIOUS
  <2>1. queue \in [Chans -> Seq(Events)] /\ \A ch \in Chans : Len(queue[ch]) <= QSize
    BY <1>1 DEF Typed
  <2>2. Ways(queue, a) \in [Nat -> Nat] /\ Coming(a) = Bag(Ways(queue, a))
    BY <2>1, WaysTyped, BagIs, ComingIs
  <2> QED  BY <2>2, BagRules
<1> QED  BY <1>2, <1>3, <1>4 DEF Sim!SimInit

LEMMA StepSimulates ==
  ASSUME IInv, Forward, [Next]_vars
  PROVE  [Sim!SimNext]_Sim!simVars
<1>1. CASE UNCHANGED vars
  BY <1>1 DEF vars, Sim!simVars, Coming, ComingAt, ComingTimes, Now, Stage
<1>2. ASSUME NEW a \in Actors, NEW b \in Actors,
             \/ Skip(b, a) \/ TakeLate(b, a)
             \/ StallLate(heard[<<b, a>>], b, a) \/ Stall(heard[<<b, a>>], b, a)
             \/ \E dst \in Actors, delay \in Delays : PassOn(b, a, dst, delay)
      PROVE  Sim!SimNext
  <2>1. heard[<<b, a>>] \in Nat
    BY ConstantsTyped DEF IInv, Typed
  <2>2. Sim!Waits(a) \/ Sim!Handles(a) \/ Sim!Finishes(a)
    <3>1. CASE Skip(b, a)
      BY <3>1, SkipWaits
    <3>2. CASE TakeLate(b, a)
      BY <3>2, TakeLateFinishes
    <3>3. CASE StallLate(heard[<<b, a>>], b, a)
      BY <2>1, <3>3, StallLateFinishes
    <3>4. CASE Stall(heard[<<b, a>>], b, a)
      BY <2>1, <3>4, StallWaits
    <3>5. CASE \E dst \in Actors, delay \in Delays : PassOn(b, a, dst, delay)
      BY <3>5, PassOnHandles
    <3> QED  BY <1>2, <3>1, <3>2, <3>3, <3>4, <3>5
  <2> QED  BY <2>2 DEF Sim!SimNext
<1> QED  BY <1>1, <1>2 DEF Next

(* Whatever the queues, the null messages and the order of the threads: what *)
(* happens is a simulation up to and including the time limit.               *)
THEOREM Refines == Spec => RefinesSimulation
<1>1. Init => Sim!SimInit
  BY InitSimulates
<1>2. Init => IInv /\ Forward
  BY InitKeeps, InitForward
<1>3. (IInv /\ Forward) /\ [Next]_vars => (IInv /\ Forward)'
  BY NextKeeps, NextForward
<1>4. (IInv /\ Forward) /\ [Next]_vars => [Sim!SimNext]_Sim!simVars
  BY StepSimulates
<1> QED  BY <1>1, <1>2, <1>3, <1>4, PTL DEF Spec, RefinesSimulation, Sim!SimSpec

-----------------------------------------------------------------------------
(* The population. *)

(* As many model events are in the queues q. *)
Total(q) == Cardinality(Spots(Chans, q, QSize, Models))

AllRun == \A a \in Actors : status[a] = "running"

Constancy == AllRun => Total(queue) = Seeds * NActors

LEMMA ActorsFinite ==
  /\ IsFiniteSet(Actors) /\ Cardinality(Actors) = NActors /\ IsFiniteSet(Chans)
<1>1. NActors \in Nat /\ NActors > 1
  BY ConstantsTyped
<1>2. IsFiniteSet(0 .. NActors - 1) /\ Cardinality(0 .. NActors - 1) = NActors
  BY <1>1, FS_Interval
<1>3. IsFiniteSet(Actors \X Actors)
  BY <1>2, FS_Product DEF Actors
<1> QED  BY <1>2, <1>3 DEF Actors, Chans

(* What Population counts is in the queues. *)
LEMMA CountedInQueues ==
  ASSUME Typed
  PROVE  Cardinality(UNION {{<<a, x>> : x \in UNION {ComingAt(a, t) : t \in ComingTimes(a)}} :
                            a \in Actors}) = Total(queue)
<1> DEFINE Of(a) == {<<a, x>> : x \in UNION {ComingAt(a, t) : t \in ComingTimes(a)}}
           P == UNION {Of(a) : a \in Actors}
           S == Spots(Chans, queue, QSize, Models)
           f == [y \in P |-> <<<<y[2][1], y[1]>>, y[2][2]>>]
<1>1. \A ch \in Chans : /\ queue[ch] \in Seq(Events) /\ Len(queue[ch]) \in Nat /\ Len(queue[ch]) <= QSize
                        /\ DOMAIN queue[ch] = 1 .. Len(queue[ch])
  BY LenProperties DEF Typed
<1>2. \A a \in Actors : \A b : b \in Inputs(a) <=> b \in Actors
  BY InputsAre
<1>3. \A a, b \in Actors : <<b, a>> \in Chans
  BY ConstantsTyped
<1>4. \A ch \in Chans : \A i \in 1 .. Len(queue[ch]) :
        IsModel(queue[ch][i]) <=> queue[ch][i] \in Models
  <2>1. \A ch \in Chans : \A i \in 1 .. Len(queue[ch]) : queue[ch][i] \in Events
    BY <1>1, ElementOfSeq
  <2>2. \A e \in Events : IsModel(e) <=> e \in Models
    BY DEF IsModel, Models, Events
  <2> QED  BY <2>1, <2>2
<1>5. ASSUME NEW y \in P
      PROVE  \E a, b \in Actors : \E i \in 1 .. Len(queue[<<b, a>>]) :
               y = <<a, <<b, i>>>> /\ queue[<<b, a>>][i] \in Models
  <2>1. PICK a \in Actors : y \in Of(a)
    OBVIOUS
  <2>2. PICK x \in UNION {ComingAt(a, t) : t \in ComingTimes(a)} : y = <<a, x>>
    BY <2>1
  <2>3. PICK t \in ComingTimes(a) : x \in ComingAt(a, t)
    BY <2>2
  <2>4. PICK b \in Inputs(a) : x \in {<<b, i>> : i \in DOMAIN queue[<<b, a>>]}
    BY <2>3 DEF ComingAt
  <2>5. PICK i \in DOMAIN queue[<<b, a>>] : x = <<b, i>>
    BY <2>4
  <2>6. IsModel(queue[<<x[1], a>>][x[2]])
    BY <2>3 DEF ComingAt
  <2>7. b \in Actors /\ <<b, a>> \in Chans /\ i \in 1 .. Len(queue[<<b, a>>])
    BY <1>1, <1>2, <1>3, <2>1, <2>4, <2>5
  <2>8. queue[<<b, a>>][i] \in Models
    BY <1>4, <2>5, <2>6, <2>7
  <2> QED  BY <2>2, <2>5, <2>7, <2>8
<1>6. ASSUME NEW a \in Actors, NEW b \in Actors, NEW i \in 1 .. Len(queue[<<b, a>>]),
             queue[<<b, a>>][i] \in Models
      PROVE  <<a, <<b, i>>>> \in P
  <2> DEFINE e == queue[<<b, a>>][i]
             x == <<b, i>>
  <2>1. <<b, a>> \in Chans /\ b \in Inputs(a) /\ i \in DOMAIN queue[<<b, a>>] /\ IsModel(e)
    BY <1>1, <1>2, <1>3, <1>4, <1>6
  <2>2. e \in ToSet(queue[<<b, a>>])
    BY <2>1 DEF ToSet
  <2>3. e.time \in ComingTimes(a)
    <3>1. e.time \in {g.time : g \in {g \in ToSet(queue[<<b, a>>]) : IsModel(g)}}
      BY <2>1, <2>2
    <3> QED  BY <2>1, <3>1 DEF ComingTimes
  <2>4. x \in ComingAt(a, e.time)
    <3>1. x \in {<<b, j>> : j \in DOMAIN queue[<<b, a>>]}
      BY <2>1
    <3>2. x \in UNION {{<<c, j>> : j \in DOMAIN queue[<<c, a>>]} : c \in Inputs(a)}
      BY <2>1, <3>1
    <3>3. queue[<<x[1], a>>][x[2]] = e
      OBVIOUS
    <3> QED  BY <2>1, <3>2, <3>3 DEF ComingAt
  <2>5. x \in UNION {ComingAt(a, t) : t \in ComingTimes(a)}
    BY <2>3, <2>4
  <2>6. <<a, x>> \in Of(a)
    BY <2>5
  <2> HIDE DEF Of
  <2> QED  BY <2>6
<1> HIDE DEF P
<1>7. \A ch, i : <<ch, i>> \in S <=> ch \in Chans /\ i \in 1 .. Len(queue[ch]) /\ queue[ch][i] \in Models
  <2> SUFFICES ASSUME NEW ch, NEW i, ch \in Chans, i \in 1 .. Len(queue[ch])
               PROVE  i \in 1 .. QSize
    BY DEF Spots
  <2> DEFINE l == Len(queue[ch])
  <2>1. l \in Nat /\ l <= QSize /\ QSize \in Nat /\ i \in 1 .. l
    BY <1>1, ConstantsTyped
  <2> HIDE DEF l
  <2> QED  BY <2>1
<1>8. \A z \in S : z = <<z[1], z[2]>>
  BY DEF Spots
<1> HIDE DEF S
<1>9. \A y \in P : /\ f[y] \in S
                   /\ y = <<f[y][1][2], <<f[y][1][1], f[y][2]>>>>
  <2> SUFFICES ASSUME NEW y \in P
               PROVE  f[y] \in S /\ y = <<f[y][1][2], <<f[y][1][1], f[y][2]>>>>
    OBVIOUS
  <2>1. PICK a \in Actors : \E b \in Actors : \E i \in 1 .. Len(queue[<<b, a>>]) :
          y = <<a, <<b, i>>>> /\ queue[<<b, a>>][i] \in Models
    BY <1>5
  <2>2. PICK b \in Actors : \E i \in 1 .. Len(queue[<<b, a>>]) :
          y = <<a, <<b, i>>>> /\ queue[<<b, a>>][i] \in Models
    BY <2>1
  <2>3. PICK i \in 1 .. Len(queue[<<b, a>>]) : y = <<a, <<b, i>>>> /\ queue[<<b, a>>][i] \in Models
    BY <2>2
  <2>4. f[y] = <<<<b, a>>, i>>
    BY <2>3
  <2> QED  BY <1>3, <1>7, <2>3, <2>4
<1>10. \A z \in S : \E y \in P : f[y] = z
  <2> SUFFICES ASSUME NEW z \in S  PROVE \E y \in P : f[y] = z
    OBVIOUS
  <2>1. z = <<z[1], z[2]>> /\ z[1] \in Chans /\ z[2] \in 1 .. Len(queue[z[1]]) /\ queue[z[1]][z[2]] \in Models
    BY <1>7, <1>8
  <2>2. PICK b \in Actors, a \in Actors : z[1] = <<b, a>>
    BY <2>1, ConstantsTyped
  <2> DEFINE y == <<a, <<b, z[2]>>>>
  <2>3. y \in P
    BY <1>6, <2>1, <2>2
  <2>4. f[y] = <<<<b, a>>, z[2]>>
    BY <2>3
  <2> QED  BY <2>1, <2>2, <2>3, <2>4
<1>11. IsFiniteSet(S)
  BY ActorsFinite, SpotsFinite, ConstantsTyped DEF S
<1>12. f \in Bijection(P, S)
  <2>1. f \in [P -> S]
    BY <1>9
  <2>2. \A x, y \in P : f[x] = f[y] => x = y
    BY <1>9
  <2> HIDE DEF f
  <2> QED  BY <1>10, <2>1, <2>2, Fun_IsBij
<1>13. ExistsBijection(S, P)
  BY <1>12, Fun_ExistsBijSymmetric DEF ExistsBijection
<1>14. Cardinality(P) = Cardinality(S)
  BY <1>11, <1>13, FS_Bijection
<1> QED  BY <1>14 DEF Total, P, S

(* At first every actor has got Seeds events from one other. *)
LEMMA InitTotal ==
  ASSUME Init
  PROVE  Total(queue) = Seeds * NActors
<1> DEFINE S == Spots(Chans, queue, QSize, Models)
           T == Actors \X (1 .. Seeds)
           f == [x \in T |-> <<<<x[1], NActors - 1 - x[1]>>, x[2]>>]
<1> USE ConstantsTyped
<1>1. Typed
  BY InitKeeps DEF IInv
<1>2. \A a \in Actors : NActors - 1 - a \in Actors /\ <<a, NActors - 1 - a>> \in Chans
  BY DEF Actors
<1>3. EventAt(Lookahead) \in Models /\ Null(Lookahead) \notin Models
  BY DEF EventAt, Null, Models, Events
<1>4. \A ch \in Chans : \A i \in 1 .. Len(queue[ch]) :
        queue[ch][i] \in Models <=> ch[2] = NActors - 1 - ch[1]
  <2> SUFFICES ASSUME NEW ch \in Chans, NEW i \in 1 .. Len(queue[ch])
               PROVE  queue[ch][i] \in Models <=> ch[2] = NActors - 1 - ch[1]
    OBVIOUS
  <2>1. CASE ch[2] \in Seeded(ch[1])
    <3>1. queue[ch] = [k \in 1 .. Seeds |-> EventAt(Lookahead)]
      BY <2>1 DEF Init
    <3>2. queue[ch][i] = EventAt(Lookahead)
      BY <3>1
    <3> QED  BY <1>3, <2>1, <3>2 DEF Seeded
  <2>2. CASE ch[2] \notin Seeded(ch[1])
    <3>1. queue[ch] = <<Null(Lookahead)>>
      BY <2>2 DEF Init
    <3>2. queue[ch][i] = Null(Lookahead)
      BY <3>1
    <3> QED  BY <1>3, <2>2, <3>2 DEF Seeded
  <2> QED  BY <2>1, <2>2
<1>5. \A a \in Actors : Len(queue[<<a, NActors - 1 - a>>]) = Seeds
  <2> SUFFICES ASSUME NEW a \in Actors  PROVE Len(queue[<<a, NActors - 1 - a>>]) = Seeds
    OBVIOUS
  <2>1. queue[<<a, NActors - 1 - a>>] = [k \in 1 .. Seeds |-> EventAt(Lookahead)]
    BY <1>2 DEF Init, Seeded
  <2> QED  BY <2>1
<1>6. \A ch, i : <<ch, i>> \in S <=>
        ch \in Chans /\ i \in 1 .. QSize /\ i \in 1 .. Len(queue[ch]) /\ queue[ch][i] \in Models
  BY DEF Spots
<1>7. \A z \in S : z = <<z[1], z[2]>>
  BY DEF Spots
<1> HIDE DEF S
<1>8. \A x \in T : f[x] \in S
  <2> SUFFICES ASSUME NEW x \in T  PROVE f[x] \in S
    OBVIOUS
  <2> DEFINE ch == <<x[1], NActors - 1 - x[1]>>
  <2>1. ch \in Chans /\ Len(queue[ch]) = Seeds /\ x[2] \in 1 .. Seeds
    BY <1>2, <1>5
  <2>2. x[2] \in 1 .. QSize
    BY <2>1
  <2>3. queue[ch][x[2]] \in Models
    BY <1>4, <2>1
  <2> QED  BY <1>6, <2>1, <2>2, <2>3
<1>9. \A z \in S : \E x \in T : f[x] = z
  <2> SUFFICES ASSUME NEW z \in S  PROVE \E x \in T : f[x] = z
    OBVIOUS
  <2> DEFINE ch == z[1]
             x  == <<ch[1], z[2]>>
  <2>1. z = <<ch, z[2]>> /\ ch \in Chans /\ z[2] \in 1 .. Len(queue[ch]) /\ queue[ch][z[2]] \in Models
    BY <1>6, <1>7
  <2>2. ch[1] \in Actors /\ ch = <<ch[1], NActors - 1 - ch[1]>>
    <3>1. ch[2] = NActors - 1 - ch[1]
      BY <1>4, <2>1
    <3> QED  BY <2>1, <3>1
  <2>3. z[2] \in 1 .. Seeds
    BY <1>5, <2>1, <2>2
  <2>4. x \in T
    BY <2>2, <2>3
  <2>5. f[x] = <<<<ch[1], NActors - 1 - ch[1]>>, z[2]>>
    BY <2>4
  <2> QED  BY <2>1, <2>2, <2>4, <2>5
<1>10. \A x, y \in T : f[x] = f[y] => x = y
  <2> SUFFICES ASSUME NEW x \in T, NEW y \in T, f[x] = f[y]  PROVE x = y
    OBVIOUS
  <2>1. x = <<x[1], x[2]>> /\ y = <<y[1], y[2]>>
    OBVIOUS
  <2> QED  BY <2>1
<1>11. f \in Bijection(T, S)
  <2>1. f \in [T -> S]
    BY <1>8
  <2> HIDE DEF f, T
  <2> QED  BY <1>9, <1>10, <2>1, Fun_IsBij
<1>12. IsFiniteSet(T) /\ Cardinality(T) = NActors * Seeds
  <2>1. IsFiniteSet(1 .. Seeds) /\ Cardinality(1 .. Seeds) = Seeds
    BY FS_Interval
  <2> QED  BY <2>1, ActorsFinite, FS_Product
<1>13. Cardinality(S) = Cardinality(T)
  BY <1>11, <1>12, FS_Bijection DEF ExistsBijection
<1>14. NActors * Seeds = Seeds * NActors
  OBVIOUS
<1> QED  BY <1>12, <1>13, <1>14 DEF Total, S

(* A handler takes the first event from b. *)
LEMMA TakeTotal ==
  ASSUME Typed, NEW a \in Actors, NEW b \in Actors, IsNext(b, a)
  PROVE  /\ Total(queue) \in Nat /\ Total(Rest(b, a)) \in Nat
         /\ Total(Rest(b, a)) = IF First(b, a).kind = "Event" THEN Total(queue) - 1 ELSE Total(queue)
<1> DEFINE c == <<b, a>>
           q == Rest(b, a)
<1>1. /\ c \in Chans /\ queue[c] \in Seq(Events) /\ queue[c] # <<>>
      /\ First(b, a) = Head(queue[c]) /\ First(b, a) \in Events
  BY NextEarliest
<1>2. queue \in [Chans -> Seq(Events)] /\ \A ch \in Chans : Len(queue[ch]) <= QSize
  BY DEF Typed
<1>3. q[c] = Tail(queue[c]) /\ \A ch \in Chans : ch # c => q[ch] = queue[ch]
  BY <1>1, <1>2 DEF Rest
<1>4. First(b, a) \in Models <=> First(b, a).kind = "Event"
  BY <1>1 DEF Models
<1>5. IsFiniteSet(Chans) /\ QSize \in Nat
  BY ActorsFinite, ConstantsTyped
<1> HIDE DEF c, q
<1>6. Shortened(Events, Chans, queue, QSize, c, q)
  BY <1>1, <1>2, <1>3 DEF Shortened
<1>7. Cardinality(Spots(Chans, q, QSize, Models)) =
        IF Head(queue[c]) \in Models THEN Cardinality(Spots(Chans, queue, QSize, Models)) - 1
        ELSE Cardinality(Spots(Chans, queue, QSize, Models))
  BY ONLY <1>5, <1>6, SpotsTake
<1>8. /\ Cardinality(Spots(Chans, q, QSize, Models)) \in Nat
      /\ Cardinality(Spots(Chans, queue, QSize, Models)) \in Nat
  BY <1>5, SpotsFinite
<1> QED  BY <1>1, <1>4, <1>7, <1>8 DEF Total, q

(* What a push adds. *)
LEMMA PushAdds ==
  ASSUME NEW q \in [Chans -> Seq(Events)], \A ch \in Chans : Len(q[ch]) <= QSize,
         NEW a \in Actors, NEW N, NEW out, NEW after, Deliver(q, a, out, after), Pushes(a, N, out, after)
  PROVE  /\ DOMAIN out = N /\ Prolongs(Chans, q, queue')
         /\ \A ch \in Chans : ~(ch[1] = a /\ ch[2] \in N) => queue'[ch] = q[ch]
         /\ \A ch \in Chans : ch[1] = a /\ ch[2] \in N =>
              /\ queue'[ch] = Pushed(q[ch], out[ch[2]], QSize) /\ out[ch[2]] \in Seq(Events)
              /\ \A i \in Len(q[ch]) + 1 .. Len(queue'[ch]) :
                   /\ i - Len(q[ch]) \in 1 .. Len(out[ch[2]])
                   /\ queue'[ch][i] = out[ch[2]][i - Len(q[ch])]
<1>1. N \in SUBSET Actors /\ out \in Queues(N, Events) /\ DOMAIN out = N
  BY DEF Pushes, Queues
<1>2. Delivers(q, a, N, out, after)
  BY <1>1, DeliverShape
<1>3. \A ch \in Chans : queue'[ch] =
        IF ch[1] = a /\ ch[2] \in N THEN Pushed(q[ch], out[ch[2]], QSize) ELSE q[ch]
  BY <1>2 DEF Delivers, Sent, Along
<1>4. ASSUME NEW ch \in Chans, ch[1] = a, ch[2] \in N
      PROVE  /\ out[ch[2]] \in Seq(Events)
             /\ Len(queue'[ch]) \in Nat /\ Len(q[ch]) \in Nat /\ Len(q[ch]) <= Len(queue'[ch])
             /\ \A i \in 1 .. Len(q[ch]) : queue'[ch][i] = q[ch][i]
             /\ \A i \in Len(q[ch]) + 1 .. Len(queue'[ch]) :
                   /\ i - Len(q[ch]) \in 1 .. Len(out[ch[2]])
                   /\ queue'[ch][i] = out[ch[2]][i - Len(q[ch])]
  <2> DEFINE x == q[ch]
             y == queue'[ch]
             o == out[ch[2]]
  <2>1. x \in Seq(Events) /\ o \in Seq(Events) /\ QSize \in Nat /\ Len(x) <= QSize /\ y = Pushed(x, o, QSize)
    BY <1>1, <1>3, <1>4, ConstantsTyped DEF Queues
  <2> HIDE DEF x, y, o
  <2>2. /\ Len(y) \in Nat /\ Len(x) \in Nat /\ Len(x) <= Len(y)
        /\ \A i \in 1 .. Len(x) : y[i] = x[i]
        /\ \A i \in Len(x) + 1 .. Len(y) : i - Len(x) \in 1 .. Len(o) /\ y[i] = o[i - Len(x)]
    BY ONLY <2>1, PushProlongs
  <2> QED  BY <2>1, <2>2 DEF x, y, o
<1>5. \A ch \in Chans : Len(q[ch]) \in Nat /\ Len(q[ch]) <= Len(q[ch])
  BY LenProperties
<1>6. Prolongs(Chans, q, queue')
  BY <1>3, <1>4, <1>5 DEF Prolongs
<1> QED  BY <1>1, <1>3, <1>4, <1>6

LEMMA QuietTotal ==
  ASSUME NEW q \in [Chans -> Seq(Events)], \A ch \in Chans : Len(q[ch]) <= QSize,
         NEW a \in Actors, NEW N, NEW out, NEW after, Deliver(q, a, out, after), Pushes(a, N, out, after),
         Quiet(out)
  PROVE  Total(queue') = Total(q)
<1> DEFINE q2 == queue'
<1>1. /\ DOMAIN out = N /\ Prolongs(Chans, q, q2)
      /\ \A ch \in Chans : ~(ch[1] = a /\ ch[2] \in N) => q2[ch] = q[ch]
      /\ \A ch \in Chans : ch[1] = a /\ ch[2] \in N =>
           \A i \in Len(q[ch]) + 1 .. Len(q2[ch]) :
                   /\ i - Len(q[ch]) \in 1 .. Len(out[ch[2]])
                   /\ q2[ch][i] = out[ch[2]][i - Len(q[ch])]
  BY PushAdds
<1> HIDE DEF q2
<1>2. ASSUME NEW ch \in Chans, NEW i \in Len(q[ch]) + 1 .. Len(q2[ch])
      PROVE  q2[ch][i] \notin Models
  <2>1. CASE ch[1] = a /\ ch[2] \in N
    <3>1. i - Len(q[ch]) \in 1 .. Len(out[ch[2]]) /\ q2[ch][i] = out[ch[2]][i - Len(q[ch])]
      BY <1>1, <2>1
    <3> QED  BY <1>1, <2>1, <3>1 DEF Quiet, Models
  <2>2. CASE ~(ch[1] = a /\ ch[2] \in N)
    <3>1. q2[ch] = q[ch] /\ Len(q[ch]) \in Nat
      BY <1>1, <2>2, LenProperties
    <3> QED  BY <1>2, <3>1
  <2> QED  BY <2>1, <2>2
<1>3. IsFiniteSet(Chans) /\ QSize \in Nat
  BY ActorsFinite, ConstantsTyped
<1>4. Cardinality(Spots(Chans, q, QSize, Models)) # Cardinality(Spots(Chans, q2, QSize, Models)) =>
        \E ch \in Chans : \E i \in Len(q[ch]) + 1 .. Len(q2[ch]) : q2[ch][i] \in Models
  BY <1>1, <1>3, SpotsGrow
<1> QED  BY <1>2, <1>4 DEF Total, q2

(* One event e is pushed to dst, who has room for it. *)
LEMMA AddTotal ==
  ASSUME NEW q \in [Chans -> Seq(Events)], \A ch \in Chans : Len(q[ch]) <= QSize,
         NEW a \in Actors, NEW dst \in Actors, NEW e \in Models, NEW after,
         Deliver(q, a, [n \in {dst} |-> <<e>>], after), Pushes(a, {dst}, [n \in {dst} |-> <<e>>], after),
         Len(q[<<a, dst>>]) < QSize
  PROVE  Total(queue') = Total(q) + 1
<1> DEFINE q2  == queue'
           out == [n \in {dst} |-> <<e>>]
           c   == <<a, dst>>
<1>1. c \in Chans /\ c[1] = a /\ c[2] = dst /\ out[dst] = <<e>> /\ e \in Events
  BY ConstantsTyped DEF Models
<1> HIDE DEF c
<1>2. Prolongs(Chans, q, q2) /\ q2[c] = Pushed(q[c], <<e>>, QSize)
  BY <1>1, PushAdds
<1>3. \A ch \in Chans : ch # c => q2[ch] = q[ch]
  <2> SUFFICES ASSUME NEW ch \in Chans, ch # c  PROVE q2[ch] = q[ch]
    OBVIOUS
  <2>1. ~(ch[1] = a /\ ch[2] \in {dst})
    BY ConstantsTyped DEF c
  <2> QED  BY <2>1, PushAdds
<1> HIDE DEF q2, out
<1> DEFINE s == <<e>>
           x == q[c]
           p == Pushed(x, s, QSize)
<1>4. s \in Seq(Events) /\ Len(s) = 1 /\ s[1] = e /\ x \in Seq(Events) /\ Len(x) \in Nat /\ Len(x) < QSize /\ QSize \in Nat
  BY <1>1, ConstantsTyped, LenProperties DEF c
<1> HIDE DEF s, x
<1>5. Len(s) <= QSize - Len(x) /\ Len(x) <= QSize
  BY <1>4
<1>6. Fits(x, s, QSize) = Len(s) /\ IsPushed(p, Fits(x, s, QSize), x, s)
  BY ONLY <1>4, <1>5, PushedSeq
<1>7. Len(p) = Len(x) + 1 /\ p[Len(x) + 1] = e
  <2>1. Len(p) = Len(x) + 1 /\ \A i \in Len(x) + 1 .. Len(x) + 1 : p[i] = s[i - Len(x)]
    BY <1>4, <1>6 DEF IsPushed
  <2>2. Len(x) + 1 \in Len(x) + 1 .. Len(x) + 1 /\ (Len(x) + 1) - Len(x) = 1
    BY <1>4
  <2>3. p[Len(x) + 1] = s[(Len(x) + 1) - Len(x)]
    BY <2>1, <2>2
  <2> QED  BY <1>4, <2>1, <2>2, <2>3
<1>8. p = q2[c]
  BY <1>2 DEF x, s
<1> HIDE DEF p
<1>9. Len(q2[c]) = Len(q[c]) + 1 /\ Len(q2[c]) <= QSize /\ q2[c][Len(q2[c])] \in Models
  BY <1>4, <1>7, <1>8 DEF x
<1>10. IsFiniteSet(Chans) /\ QSize \in Nat
  BY ActorsFinite, ConstantsTyped
<1>11. Extended(Chans, q, QSize, c, q2, Models)
  BY <1>1, <1>2, <1>3, <1>9 DEF Extended
<1>12. Cardinality(Spots(Chans, q2, QSize, Models)) = Cardinality(Spots(Chans, q, QSize, Models)) + 1
  BY ONLY <1>10, <1>11, SpotsAdd
<1> QED  BY <1>12 DEF Total, q2

(* Who still runs has not failed to push anything. *)
LEMMA NobodyStopped ==
  ASSUME Typed, NEW a \in Actors, status[a] = "running", NEW q, NEW N, NEW out, NEW after,
         Deliver(q, a, out, after), Pushes(a, N, out, after), AllRun'
  PROVE  /\ AllRun /\ after = "running"
         /\ \A n \in N : Len(out[n]) <= QSize - Len(q[<<a, n>>])
<1>1. N \in SUBSET Actors /\ out \in Queues(N, Events) /\ after \in {"running", "done"}
  BY DEF Pushes
<1>2. Delivers(q, a, N, out, after)
  BY <1>1, DeliverShape
<1>3. status' = [status EXCEPT ![a] =
                   IF \A n \in N : Len(out[n]) <= QSize - Len(q[<<a, n>>]) THEN after ELSE "panicked"]
  BY <1>2 DEF Delivers
<1>4. status \in [Actors -> {"running", "done", "panicked"}] /\ \A d \in Actors : status'[d] = "running"
  BY DEF Typed, AllRun
<1>5. status'[a] = IF \A n \in N : Len(out[n]) <= QSize - Len(q[<<a, n>>]) THEN after ELSE "panicked"
  BY <1>3, <1>4
<1>6. \A d \in Actors : status[d] = "running"
  BY <1>3, <1>4
<1> QED  BY <1>4, <1>5, <1>6 DEF AllRun

LEMMA NextConstancy ==
  ASSUME IInv, Constancy, [Next]_vars
  PROVE  Constancy'
<1> SUFFICES ASSUME AllRun'  PROVE Total(queue') = Seeds * NActors
  BY DEF Constancy, Total
<1>1. CASE UNCHANGED vars
  BY <1>1 DEF vars, Constancy, AllRun
<1>2. ASSUME NEW a \in Actors, NEW b \in Actors, NEW N, NEW out, NEW after,
             Takes(b, a, N, out, after), Quiet(out), First(b, a).kind # "Event"
      PROVE  Total(queue') = Seeds * NActors
  <2>1. /\ Typed /\ status[a] = "running" /\ IsNext(b, a)
        /\ Deliver(Rest(b, a), a, out, after) /\ Pushes(a, N, out, after)
    BY <1>2, TakesSteps
  <2>2. AllRun
    BY <2>1, NobodyStopped
  <2>3. Rest(b, a) \in [Chans -> Seq(Events)] /\ \A ch \in Chans : Len(Rest(b, a)[ch]) <= QSize
    BY <2>1, TakeWays
  <2>4. Total(queue') = Total(Rest(b, a))
    BY <1>2, <2>1, <2>3, QuietTotal
  <2>5. Total(Rest(b, a)) = Total(queue)
    BY <1>2, <2>1, TakeTotal
  <2> QED  BY <2>2, <2>4, <2>5 DEF Constancy
<1>3. ASSUME NEW a \in Actors, NEW b \in Actors, NEW t, NEW N, NEW out, NEW after,
             Stalls(t, b, a, N, out, after), Quiet(out)
      PROVE  Total(queue') = Seeds * NActors
  <2>1. /\ Typed /\ status[a] = "running" /\ Deliver(queue, a, out, after) /\ Pushes(a, N, out, after)
    BY <1>3 DEF IInv, Stalls, StallsAt, HandleStall
  <2>2. AllRun
    BY <2>1, NobodyStopped
  <2>3. queue \in [Chans -> Seq(Events)] /\ \A ch \in Chans : Len(queue[ch]) <= QSize
    BY <2>1 DEF Typed
  <2>4. Total(queue') = Total(queue)
    BY <1>3, <2>1, <2>3, QuietTotal
  <2> QED  BY <2>2, <2>4 DEF Constancy
<1>4. ASSUME NEW a \in Actors, NEW b \in Actors, TakeLate(b, a)
      PROVE  Total(queue') = Seeds * NActors
  <2>1. Takes(b, a, Actors, Closes(First(b, a).time), "done")
    BY <1>4, TakeLateTakes
  <2>2. /\ Typed /\ status[a] = "running" /\ Deliver(Rest(b, a), a, Closes(First(b, a).time), "done")
        /\ Pushes(a, Actors, Closes(First(b, a).time), "done")
    BY <2>1, TakesSteps
  <2>3. "done" = "running"
    BY ONLY <2>2, a \in Actors, AllRun', NobodyStopped
  <2> QED  BY <2>3
<1>5. ASSUME NEW a \in Actors, NEW b \in Actors, NEW t \in Nat, StallLate(t, b, a)
      PROVE  Total(queue') = Seeds * NActors
  <2>1. Stalls(t, b, a, Actors, Closes(t), "done")
    BY <1>5, StallLateStalls
  <2>2. /\ Typed /\ status[a] = "running" /\ Deliver(queue, a, Closes(t), "done")
        /\ Pushes(a, Actors, Closes(t), "done")
    BY <2>1 DEF IInv, Stalls, StallsAt, HandleStall
  <2>3. "done" = "running"
    BY ONLY <2>2, a \in Actors, AllRun', NobodyStopped
  <2> QED  BY <2>3
<1>6. ASSUME NEW a \in Actors, NEW b \in Actors, NEW dst \in Actors, NEW delay \in Delays,
             PassOn(b, a, dst, delay)
      PROVE  Total(queue') = Seeds * NActors
  <2>1. PICK e \in Events : e.kind = "Event" /\ Takes(b, a, {dst}, [n \in {dst} |-> <<e>>], "running")
    BY <1>6, PassOnTakes
  <2> DEFINE out == [n \in {dst} |-> <<e>>]
             q   == Rest(b, a)
  <2>2. /\ Typed /\ status[a] = "running" /\ IsNext(b, a)
        /\ Deliver(q, a, out, "running") /\ Pushes(a, {dst}, out, "running")
    BY <2>1, TakesSteps
  <2>3. AllRun /\ \A n \in {dst} : Len(out[n]) <= QSize - Len(q[<<a, n>>])
    <3> HIDE DEF out, q
    <3> QED  BY <2>2, NobodyStopped
  <2>4. q \in [Chans -> Seq(Events)] /\ \A ch \in Chans : Len(q[ch]) <= QSize
    BY <2>2, TakeWays
  <2>5. e \in Models /\ Len(out[dst]) = 1
    BY <2>1 DEF Models
  <2>6. <<a, dst>> \in Chans
    BY ConstantsTyped
  <2>7. /\ Total(q) = Total(queue) - 1 /\ Total(queue) \in Nat
    <3>1. First(b, a).kind = "Event"
      BY <1>6 DEF PassOn
    <3> QED  BY <2>2, <3>1, TakeTotal
  <2> HIDE DEF q
  <2>8. Len(q[<<a, dst>>]) < QSize
    <3>1. Len(q[<<a, dst>>]) \in Nat /\ QSize \in Nat
      BY <2>4, <2>6, LenProperties, ConstantsTyped
    <3>2. 1 <= QSize - Len(q[<<a, dst>>])
      BY <2>3, <2>5
    <3> QED  BY <3>1, <3>2
  <2>9. Total(queue') = Total(q) + 1
    BY <2>2, <2>4, <2>5, <2>8, AddTotal
  <2>10. Total(queue) = Seeds * NActors
    BY <2>3 DEF Constancy
  <2> QED  BY <2>7, <2>9, <2>10
<1>7. ASSUME NEW a \in Actors, NEW b \in Actors,
             \/ Skip(b, a) \/ TakeLate(b, a)
             \/ StallLate(heard[<<b, a>>], b, a) \/ Stall(heard[<<b, a>>], b, a)
             \/ \E dst \in Actors, delay \in Delays : PassOn(b, a, dst, delay)
      PROVE  Total(queue') = Seeds * NActors
  <2>1. heard[<<b, a>>] \in Nat
    BY ConstantsTyped DEF IInv, Typed
  <2>2. CASE Skip(b, a)
    <3>1. Takes(b, a, {}, Nothing, "running") /\ First(b, a).kind = "Null" /\ Quiet(Nothing)
      BY <2>2, SkipTakes DEF Quiet, Nothing
    <3> QED  BY <1>2, <3>1
  <2>3. CASE TakeLate(b, a)
    BY <1>4, <2>3
  <2>4. CASE StallLate(heard[<<b, a>>], b, a)
    BY <1>5, <2>1, <2>4
  <2>5. CASE Stall(heard[<<b, a>>], b, a)
    BY <1>3, <2>1, <2>5, StallStalls
  <2>6. CASE \E dst \in Actors, delay \in Delays : PassOn(b, a, dst, delay)
    BY <1>6, <2>6
  <2> QED  BY <1>7, <2>2, <2>3, <2>4, <2>5, <2>6
<1> QED  BY <1>1, <1>7 DEF Next

(* The population is constant, whoever passes what to whom: nothing is lost *)
(* or doubled on the way as long as nobody has stopped.                     *)
THEOREM PopulationConstant == Spec => []Population
<1>1. Init => IInv /\ Constancy
  BY InitKeeps, InitTotal DEF Constancy
<1>2. (IInv /\ Constancy) /\ [Next]_vars => (IInv /\ Constancy)'
  BY NextKeeps, NextConstancy
<1>3. IInv /\ Constancy => Population
  BY CountedInQueues DEF IInv, Constancy, AllRun, Population, Running
<1> QED  BY <1>1, <1>2, <1>3, PTL DEF Spec
=============================================================================
