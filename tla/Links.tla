-------------------------------- MODULE Links --------------------------------
(***************************************************************************)
(* Actors of the engine and the queues between them, for any set of actors  *)
(* and channels: the order in which an actor's Merger hands it its events,  *)
(* and the pushes of its handlers.                                          *)
(*                                                                          *)
(* The Merger is taken for the ordered merge it implements (Merger,         *)
(* OrderedMerge): the least of the first events, a stall at the time last   *)
(* heard from a queue that shows nothing.  queue[<<a, b>>] is what a has    *)
(* pushed and b has not taken.  b may see its end late: an event in the     *)
(* queue may still be treated as absent, unless b itself, or somebody who   *)
(* is no actor and was done before the start, pushed it.  So a handler's    *)
(* pushes need no steps of their own: a reader sees any prefix of them.     *)
(***************************************************************************)
EXTENDS Integers, Sequences, FiniteSets, SequencesExt, FiniteSetsExt

CONSTANTS
  Actors,
  Chans,    \* the pairs <<from, to>> that have a queue
  QSize     \* Q_SIZE

VARIABLES
  queue,
  heard,    \* time of the last event taken from each queue
  status    \* of each actor: running, done (advance returned Done), broke
            \* (it did so after a push that failed), panicked

Inputs(a) == {ch[1] : ch \in {c \in Chans : c[2] = a}}

Null(t)  == [time |-> t, kind |-> "Null"]
Close(t) == [time |-> t, kind |-> "Close"]

-----------------------------------------------------------------------------
(* The Merger of actor a *)

Shows(b, a) == queue[<<b, a>>] # <<>>
First(b, a) == Head(queue[<<b, a>>])

(* b runs on a thread of its own, so a may see its pushes late. *)
Lags(b, a) == b \in Actors \ {a}

(* The earliest time at which b can still have something for a. *)
Bound(b, a) == IF Shows(b, a) THEN First(b, a).time ELSE heard[<<b, a>>]

(* Mutant: queues that show nothing are not waited for. *)
IsNextUnchecked(b, a) ==
  /\ status[a] = "running"
  /\ Shows(b, a)
  /\ \A c \in Inputs(a) : Shows(c, a) => First(b, a).time <= First(c, a).time

(* The first event from b is the one next() returns. *)
IsNext(b, a) ==
  /\ status[a] = "running"
  /\ Shows(b, a)
  /\ \A c \in Inputs(a) : First(b, a).time <= Bound(c, a)

(* c has nothing to say at or before t: a sees something later, or has      *)
(* heard from c up to t and sees nothing.                                   *)
SilentTo(c, a, t) ==
  \/ Shows(c, a) /\ First(c, a).time > t
  \/ heard[<<c, a>>] >= t /\ (Shows(c, a) => Lags(c, a))

(* next() returns Stalled at time t because of b. *)
StallsAt(t, b, a) ==
  /\ status[a] = "running"
  /\ heard[<<b, a>>] = t
  /\ Shows(b, a) => Lags(b, a)
  /\ \A c \in Inputs(a) : SilentTo(c, a, t)

-----------------------------------------------------------------------------
(* out: for some of the actors a has a queue to, the events pushed to it by *)
(* one call of the handler; after: a's status then.  A push to a full queue *)
(* fails; but for a router's packet the result is unwrapped.                *)
Deliver(before, a, out, after) ==
  LET Room(n) == QSize - Len(before[<<a, n>>])
  IN  /\ queue' = [ch \in Chans |->
                     IF ch[1] = a /\ ch[2] \in DOMAIN out
                     THEN before[ch] \o SubSeq(out[ch[2]], 1, Min({Len(out[ch[2]]), Room(ch[2])}))
                     ELSE before[ch]]
      /\ status' = [status EXCEPT ![a] =
                      IF \A n \in DOMAIN out : Len(out[n]) <= Room(n) THEN after ELSE "panicked"]

Nothing == [n \in {} |-> <<>>]

(* The handler of the first event from b: it is taken and out is pushed. *)
Handle(b, a, out, after) ==
  /\ heard' = [heard EXCEPT ![<<b, a>>] = First(b, a).time]
  /\ Deliver([queue EXCEPT ![<<b, a>>] = Tail(@)], a, out, after)

(* The handler of Stalled. *)
HandleStall(a, out, after) ==
  /\ Deliver(queue, a, out, after)
  /\ UNCHANGED heard

(* Mutant: the time a Null tells is not noted. *)
TakeNullForgets(b, a) ==
  /\ IsNext(b, a) /\ First(b, a).kind = "Null"
  /\ Deliver([queue EXCEPT ![<<b, a>>] = Tail(@)], a, Nothing, "running")
  /\ UNCHANGED heard

(* A Null is used up inside next(). *)
TakeNull(b, a) ==
  /\ IsNext(b, a) /\ First(b, a).kind = "Null"
  /\ Handle(b, a, Nothing, "running")

-----------------------------------------------------------------------------
(* For the properties: how far a is, and the times of the model's events    *)
(* that are on their way to it.                                             *)

Now(a) == Max({heard[<<b, a>>] : b \in Inputs(a)})

IsModel(e) == e.kind \notin {"Null", "Close"}

ComingAt(a, t) ==
  {x \in UNION {{<<b, i>> : i \in DOMAIN queue[<<b, a>>]} : b \in Inputs(a)} :
     LET e == queue[<<x[1], a>>][x[2]] IN IsModel(e) /\ e.time = t}

ComingTimes(a) ==
  UNION {{e.time : e \in {f \in ToSet(queue[<<b, a>>]) : IsModel(f)}} : b \in Inputs(a)}

Coming(a) == [t \in ComingTimes(a) |-> Cardinality(ComingAt(a, t))]

(* What a simulation would say of an actor of this status. *)
Stage(a) ==
  IF status[a] = "running" THEN "running"
  ELSE IF status[a] = "done" THEN "finished" ELSE "failed"

(* Events by time, the Close left out. *)
InOrder(s) ==
  \A i, j \in DOMAIN s :
    i < j /\ s[i].kind # "Close" /\ s[j].kind # "Close" => s[i].time <= s[j].time
=============================================================================
