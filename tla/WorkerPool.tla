----------------------------- MODULE WorkerPool -----------------------------
(***************************************************************************)
(* start() of rustasim-engine/src/lib.rs and the worker loop run() of       *)
(* worker.rs: workers move frozen actors between shared heaps and advance   *)
(* them until all are done, the main thread joins the workers in order.     *)
(*                                                                          *)
(* A heap is only touched under its lock, so each critical section is one   *)
(* action.  Which heap rng picks is nondeterministic.  advance() is run by  *)
(* the one worker that owns the actor; what it does to the model is         *)
(* abstracted to level[a], how far actor a has come: it may run one level   *)
(* ahead of its slowest neighbour, as with null messages and a lookahead,   *)
(* returns Continue until then and Done at level Goal.                      *)
(***************************************************************************)
EXTENDS Naturals, Sequences, SequencesExt, FiniteSets

CONSTANTS
  NActors,    \* actors.len()
  NWorkers,   \* num_cpus
  MaxHeaps,   \* 16 in start()
  Goal,       \* level at which advance() returns Done
  MaxPanics   \* actors whose advance() may panic (an unwrap of a full queue)

ASSUME PoolAssumption ==
  /\ NActors \in Nat \ {0}     \* run() unwraps choose() of the heaps
  /\ NWorkers \in Nat
  /\ MaxHeaps \in Nat \ {0}
  /\ Goal \in Nat /\ MaxPanics \in Nat

Actors  == 0 .. NActors - 1
Workers == 1 .. NWorkers
NHeaps  == IF MaxHeaps < NActors THEN MaxHeaps ELSE NActors
Heaps   == 0 .. NHeaps - 1
NoActor == NActors

VARIABLES
  heaps, counter,     \* shared: task_heap, counter
  pc, task, counts,   \* run(): position, task and the results so far
  joined, results,    \* start(): workers joined, counts
  level, panics       \* the actors

vars == <<heaps, counter, pc, task, counts, joined, results, level, panics>>

-----------------------------------------------------------------------------
(* Actors *)

(* Where advance() takes actor a: one past the slowest of the others. *)
Reach(a) ==
  LET others == {level[b] : b \in Actors \ {a}}
      ahead  == {l \in 0 .. Goal : \A m \in others : l <= m + 1}
  IN  CHOOSE l \in ahead : \A k \in ahead : k <= l

-----------------------------------------------------------------------------
(* Workers *)

(* task_heap.choose().lock().pop_front() *)
Pull(w, h) ==
  /\ pc[w] = "pull"
  /\ \/ /\ heaps[h] # <<>>
        /\ task' = [task EXCEPT ![w] = Head(heaps[h])]
        /\ heaps' = [heaps EXCEPT ![h] = Tail(@)]
        /\ pc' = [pc EXCEPT ![w] = "advance"]
     \/ /\ heaps[h] = <<>>
        /\ pc' = [pc EXCEPT ![w] = "idle"]
        /\ UNCHANGED <<task, heaps>>
  /\ UNCHANGED <<counter, counts, joined, results, level, panics>>

(* Mutant: the actor is put back but kept as the task too. *)
RotateKeeps(w, h) ==
  /\ pc[w] = "advance"
  /\ Reach(task[w]) < Goal
  /\ level' = [level EXCEPT ![task[w]] = Reach(task[w])]
  /\ heaps' = [heaps EXCEPT ![h] = Append(@, task[w])]
  /\ UNCHANGED <<counter, pc, task, counts, joined, results, panics>>

(* Mutant: the actor goes to the front of the heap. *)
RotateFront(w, h) ==
  /\ pc[w] = "advance"
  /\ Reach(task[w]) < Goal
  /\ level' = [level EXCEPT ![task[w]] = Reach(task[w])]
  /\ UNCHANGED <<heaps, counter, pc, task, counts, joined, results, panics>>

(* advance() returned Continue: the actor goes to the back of heap h and    *)
(* the one at its front is next, in one critical section.                   *)
Rotate(w, h) ==
  /\ pc[w] = "advance"
  /\ Reach(task[w]) < Goal
  /\ level' = [level EXCEPT ![task[w]] = Reach(task[w])]
  /\ LET heap == Append(heaps[h], task[w])
     IN  /\ heaps' = [heaps EXCEPT ![h] = Tail(heap)]
         /\ task' = [task EXCEPT ![w] = Head(heap)]
  /\ UNCHANGED <<counter, pc, counts, joined, results, panics>>

(* advance() returned Done: the result is kept, the counter incremented. *)
Finish(w) ==
  /\ pc[w] = "advance"
  /\ Reach(task[w]) = Goal
  /\ level' = [level EXCEPT ![task[w]] = Goal]
  /\ counts' = [counts EXCEPT ![w] = Append(@, task[w])]
  /\ counter' = counter + 1
  /\ task' = [task EXCEPT ![w] = NoActor]
  /\ pc' = [pc EXCEPT ![w] = "pull"]
  /\ UNCHANGED <<heaps, joined, results, panics>>

(* advance() panics: the actor is dropped while the worker unwinds. *)
Panic(w) ==
  /\ pc[w] = "advance"
  /\ panics < MaxPanics
  /\ panics' = panics + 1
  /\ task' = [task EXCEPT ![w] = NoActor]
  /\ counts' = [counts EXCEPT ![w] = <<>>]
  /\ pc' = [pc EXCEPT ![w] = "panicked"]
  /\ UNCHANGED <<heaps, counter, joined, results, level>>

(* Mutant: one actor too few is waited for. *)
ReturnEarly(w) ==
  /\ pc[w] = "idle"
  /\ counter + 1 >= NActors
  /\ pc' = [pc EXCEPT ![w] = "returned"]
  /\ UNCHANGED <<heaps, counter, task, counts, joined, results, level, panics>>

(* No task: the relaxed load of counter shows the final value ... *)
Return(w) ==
  /\ pc[w] = "idle"
  /\ counter = NActors
  /\ pc' = [pc EXCEPT ![w] = "returned"]
  /\ UNCHANGED <<heaps, counter, task, counts, joined, results, level, panics>>

(* ... or a smaller one, the current one or (taking every worker for one    *)
(* that has not seen the last increment) one that is out of date.           *)
Retry(w) ==
  /\ pc[w] = "idle"
  /\ pc' = [pc EXCEPT ![w] = "pull"]
  /\ UNCHANGED <<heaps, counter, task, counts, joined, results, level, panics>>

-----------------------------------------------------------------------------
(* Main thread: h.join().unwrap() for every worker in turn. *)
(* Mutant: the results of the last worker replace the others. *)
JoinReplaces ==
  LET w == joined + 1
  IN  /\ joined < NWorkers
      /\ pc[w] = "returned"
      /\ results' = counts[w]
      /\ joined' = w
      /\ UNCHANGED <<heaps, counter, pc, task, counts, level, panics>>

Join ==
  LET w == joined + 1
  IN  /\ joined < NWorkers
      /\ pc[w] = "returned"
      /\ results' = results \o counts[w]
      /\ joined' = w
      /\ UNCHANGED <<heaps, counter, pc, task, counts, level, panics>>

(* start() has returned, or its unwrap has passed on a worker's panic. *)
Started == joined = NWorkers
Failed  == ~Started /\ pc[joined + 1] = "panicked"

-----------------------------------------------------------------------------
(* Actors are dealt out to the heaps in turn. *)
Dealt(h) ==
  [i \in 1 .. (NActors + NHeaps - 1 - h) \div NHeaps |-> h + (i - 1) * NHeaps]

Init ==
  /\ heaps = [h \in Heaps |-> Dealt(h)]
  /\ counter = 0
  /\ pc = [w \in Workers |-> "pull"]
  /\ task = [w \in Workers |-> NoActor]
  /\ counts = [w \in Workers |-> <<>>]
  /\ joined = 0 /\ results = <<>>
  /\ level = [a \in Actors |-> 0]
  /\ panics = 0

Visit(w, h) == Pull(w, h) \/ Rotate(w, h)

Worker(w) == (\E h \in Heaps : Visit(w, h)) \/ Finish(w) \/ Panic(w) \/ Return(w) \/ Retry(w)

Done == (Started \/ Failed) /\ UNCHANGED vars

Next == (\E w \in Workers : Worker(w)) \/ Join \/ Done

Spec == Init /\ [][Next]_vars

(* Threads run, a store to counter becomes visible, advance() returns, and  *)
(* a worker that draws a heap again and again draws each of them again and  *)
(* again (rng picks one with probability 1 / NHeaps, independently).        *)
FairSpec ==
  /\ Spec
  /\ \A w \in Workers :
       /\ \A h \in Heaps : SF_vars(Visit(w, h))
       /\ WF_vars(Finish(w)) /\ SF_vars(Return(w)) /\ WF_vars(Retry(w))
  /\ WF_vars(Join)

-----------------------------------------------------------------------------
(* Properties *)

(* Every heap holds actors; a worker has a task exactly when it advances. *)
TypeOK ==
  /\ heaps \in [Heaps -> Seq(Actors)]
  /\ counter \in 0 .. NActors
  /\ pc \in [Workers -> {"pull", "advance", "idle", "returned", "panicked"}]
  /\ task \in [Workers -> Actors \cup {NoActor}]
  /\ \A w \in Workers : pc[w] = "advance" <=> task[w] # NoActor
  /\ counts \in [Workers -> Seq(Actors)]
  /\ joined \in 0 .. NWorkers /\ results \in Seq(Actors)
  /\ level \in [Actors -> 0 .. Goal]
  /\ panics \in 0 .. MaxPanics

(* Where actor a, or its result, is: in a heap, in a worker's hands, or     *)
(* among a worker's results.                                                *)
InHeaps(a) ==
  UNION {{<<"heap", h, i>> : i \in {j \in DOMAIN heaps[h] : heaps[h][j] = a}} : h \in Heaps}
InTasks(a) == {<<"task", w, 0>> : w \in {v \in Workers : task[v] = a}}
InCounts(a) ==
  UNION {{<<"done", w, i>> : i \in {j \in DOMAIN counts[w] : counts[w][j] = a}} : w \in Workers}

Places(a) == InHeaps(a) \cup InTasks(a) \cup InCounts(a)

(* Whatever the workers take from and put into which heap, no two of them   *)
(* ever own the same actor, none is advanced after it was done, and none is *)
(* dropped unless a worker panics.                                          *)
OneOwner ==
  \A a \in Actors : /\ Cardinality(Places(a)) <= 1
                    /\ panics = 0 => Places(a) # {}

(* A worker only leaves when nothing is left to do: not while an actor is   *)
(* in a heap it did not look at or in another worker's hands, and not after *)
(* a panic made the work incomplete.                                        *)
NoEarlyReturn ==
  (\E w \in Workers : pc[w] = "returned") =>
    /\ \A h \in Heaps : heaps[h] = <<>>
    /\ \A w \in Workers : task[w] = NoActor
    /\ \A a \in Actors : level[a] = Goal
    /\ panics = 0

(* What start() returns is one result per actor. *)
AllResults ==
  Started => Len(results) = NActors /\ ToSet(results) = Actors

(* Without a panic every actor is advanced until it is done and start()     *)
(* returns, however the workers and actors are spread over the heaps.       *)
StartReturns == <>(Started \/ panics > 0)
=============================================================================
