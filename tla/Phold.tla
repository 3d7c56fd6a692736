-------------------------------- MODULE Phold --------------------------------
(***************************************************************************)
(* The PHOLD model of rustasim-engine/benches/phold.rs: actors that are all *)
(* linked to one another and to themselves and pass a fixed number of       *)
(* events around, each to an actor and after a delay drawn at random.       *)
(*                                                                          *)
(* out_times[a][b] is the time up to which b knows about a, less the        *)
(* lookahead.  Queues are named by the actors at their ends.                *)
(***************************************************************************)
EXTENDS Integers, Sequences, FiniteSets, SequencesExt, FiniteSetsExt

CONSTANTS
  NActors,
  Seeds,       \* 100 in Actor::new
  Lookahead,   \* LOOKAHEAD
  Delays,      \* what a sample of the exponential distribution comes to
  TimeLimit,
  QSize        \* Q_SIZE

ASSUME PholdAssumption ==
  /\ NActors \in Nat \ {0, 1}      \* a Merger needs two queues
  /\ Seeds \in 1 .. QSize /\ QSize \in Nat
  /\ Lookahead \in Nat \ {0}
  /\ Delays \subseteq Nat /\ TimeLimit \in Nat

Actors == 0 .. NActors - 1
Chans  == Actors \X Actors

VARIABLES queue, heard, status,
          out_times,
          count       \* events handled

vars == <<queue, heard, status, out_times, count>>

INSTANCE Links

EventAt(t) == [time |-> t, kind |-> "Event"]

(* Mutant: everybody gets the initial events from everybody. *)
SeededEverywhere(a) == Actors

(* run() takes the rows and columns of queues from the end, so the one with *)
(* index id, where Actor::new pushes the initial events, leads from actor   *)
(* id to the actor that is as far from the other end.                       *)
Seeded(a) == {NActors - 1 - a}

Init ==
  /\ queue = [ch \in Chans |->
                IF ch[2] \in Seeded(ch[1]) THEN [k \in 1 .. Seeds |-> EventAt(Lookahead)]
                ELSE <<Null(Lookahead)>>]
  /\ heard = [ch \in Chans |-> 0]
  /\ status = [a \in Actors |-> "running"]
  /\ out_times = [a \in Actors |-> [b \in Actors |-> 0]]
  /\ count = [a \in Actors |-> 0]

(* The first event past the limit, or a stall there, ends the loop. *)
Closes(t) == [b \in Actors |-> <<Close(t)>>]

TakeLate(b, a) ==
  /\ IsNext(b, a) /\ First(b, a).kind # "Null"
  /\ First(b, a).time > TimeLimit
  /\ Handle(b, a, Closes(First(b, a).time), "done")
  /\ UNCHANGED <<out_times, count>>

StallLate(t, b, a) ==
  /\ StallsAt(t, b, a) /\ t > TimeLimit
  /\ HandleStall(a, Closes(t), "done")
  /\ UNCHANGED <<out_times, count>>

(* Mutant: nobody jogs himself. *)
StallOthers(t, b, a) ==
  LET late == {c \in Actors \ {a} : out_times[a][c] < t}
  IN  /\ StallsAt(t, b, a) /\ t <= TimeLimit
      /\ late # {}
      /\ out_times' = [out_times EXCEPT ![a] = [c \in Actors |-> IF c \in late THEN t ELSE @[c]]]
      /\ HandleStall(a, [c \in late |-> <<Null(t + Lookahead)>>], "running")
      /\ UNCHANGED count

(* Stalled: those who do not know about this time yet get a Null. *)
Stall(t, b, a) ==
  LET late == {c \in Actors : out_times[a][c] < t}
  IN  /\ StallsAt(t, b, a) /\ t <= TimeLimit
      /\ late # {}
      /\ out_times' = [out_times EXCEPT ![a] = [c \in Actors |-> IF c \in late THEN t ELSE @[c]]]
      /\ HandleStall(a, [c \in late |-> <<Null(t + Lookahead)>>], "running")
      /\ UNCHANGED count

(* Mutant: what is already on the way to dst is not looked at. *)
PassOnAtOnce(b, a, dst, delay) ==
  LET dstTime == First(b, a).time + delay
  IN  /\ IsNext(b, a) /\ First(b, a).kind = "Event"
      /\ First(b, a).time <= TimeLimit
      /\ count' = [count EXCEPT ![a] = @ + 1]
      /\ out_times' = [out_times EXCEPT ![a][dst] = dstTime]
      /\ Handle(b, a, [n \in {dst} |-> <<EventAt(dstTime + Lookahead)>>], "running")

(* ModelEvent: it is passed on to dst. *)
PassOn(b, a, dst, delay) ==
  LET dstTime == Max({out_times[a][dst], First(b, a).time}) + delay
  IN  /\ IsNext(b, a) /\ First(b, a).kind = "Event"
      /\ First(b, a).time <= TimeLimit
      /\ count' = [count EXCEPT ![a] = @ + 1]
      /\ out_times' = [out_times EXCEPT ![a][dst] = dstTime]
      /\ Handle(b, a, [n \in {dst} |-> <<EventAt(dstTime + Lookahead)>>], "running")

Skip(b, a) == TakeNull(b, a) /\ UNCHANGED <<out_times, count>>

Next ==
  \E a, b \in Actors :
    \/ Skip(b, a) \/ TakeLate(b, a)
    \/ StallLate(heard[<<b, a>>], b, a) \/ Stall(heard[<<b, a>>], b, a)
    \/ \E dst \in Actors, delay \in Delays : PassOn(b, a, dst, delay)

Spec == Init /\ [][Next]_vars

-----------------------------------------------------------------------------
(* Properties *)

Running(a) == status[a] = "running"

TypeOK ==
  /\ \A ch \in Chans : Len(queue[ch]) <= QSize /\ heard[ch] \in Nat
  /\ status \in [Actors -> {"running", "done", "panicked"}]
  /\ out_times \in [Actors -> [Actors -> Nat]]
  /\ count \in [Actors -> Nat]

(* Null messages and events keep their promises: nothing but a Close        *)
(* reaches an actor in its past.                                            *)
NothingInThePast ==
  \A ch \in Chans : Running(ch[2]) =>
    \A e \in ToSet(queue[ch]), b \in Inputs(ch[2]) :
      e.kind # "Close" => e.time >= heard[<<b, ch[2]>>]

(* The population is constant: as long as nobody has stopped, as many       *)
(* events are on their way as there were at the start.                      *)
Population ==
  (\A a \in Actors : Running(a)) =>
    Cardinality(UNION {{<<a, x>> : x \in UNION {ComingAt(a, t) : t \in ComingTimes(a)}} :
                       a \in Actors}) = Seeds * NActors

(* The run is a simulation up to and including the time limit. *)
Sim == INSTANCE Simulation WITH
  Horizon <- TimeLimit + 1,
  pending <- [a \in Actors |-> Coming(a)],
  clock   <- [a \in Actors |-> Now(a)],
  state   <- [a \in Actors |-> Stage(a)]

RefinesSimulation == Sim!SimSpec

(* The pool keeps advancing actors: while some actor can go on, one does. *)
FairSpec == Spec /\ WF_vars(Next)

(* Stalled actors jog each other on with Nulls, to themselves too, until    *)
(* all are past the limit, unless a queue overflows.                        *)
Terminates ==
  <>((\A a \in Actors : status[a] = "done") \/ \E a \in Actors : status[a] = "panicked")
=============================================================================
