------------------------------- MODULE Merger -------------------------------
(***************************************************************************)
(* Merger<T, U> of rustasim-engine/src/engine.rs: next() as a loop of       *)
(*   Pop    the winner's queue is popped, an empty one yields a Stalled;    *)
(*   Climb  one turn of the while loop, against the loser of one node;      *)
(*   Settle the winner of the climb becomes winner_q;                       *)
(*   Check  a Stalled winner's queue is looked at a second time.            *)
(* The neighbours push into the queues between any two of them.             *)
(*                                                                          *)
(* queues[q] is the content of in_queues[q] that the consumer can see (the  *)
(* queues are BoundedFifo, which Spsc implements; a push counts from the    *)
(* moment it is visible).  Event types other than Null and Stalled, Close   *)
(* included, are Payloads: next() treats them alike.                        *)
(*                                                                          *)
(* History variables: last[q] is the time of the last push into q; held[q]  *)
(* says that the event of q in the tree was popped from q and not passed on *)
(* yet (it is neither a placeholder nor a Stalled).                         *)
(***************************************************************************)
EXTENDS Naturals, Sequences, MergerTree

CONSTANTS
  N,         \* in_queues.len()
  Cap,       \* capacity of every queue
  Times,     \* simulated times
  Payloads   \* what a ModelEvent or Close carries

ASSUME MergerAssumption ==
  /\ N \in Nat /\ N >= 2          \* new() panics for fewer
  /\ Cap \in Nat \ {0}
  /\ Times \subseteq Nat /\ 0 \in Times
  /\ "Null" \notin Payloads /\ "Stalled" \notin Payloads

VARIABLES
  queues, last, held,
  loser_e, winner_q, safe_time,   \* Merger
  pc, cand, index,                \* next(): position, new_winner_e, index
  out                             \* what next() returned last

treeVars == <<loser_e, winner_q, safe_time>>
callVars == <<pc, cand, index, out>>
vars     == <<queues, last, held, treeVars, callVars>>

Queues == 0 .. N - 1
Nodes  == 1 .. N - 1
paths  == Paths(N)

Kinds  == Payloads \cup {"Null"}
Event(t, k, q) == [time |-> t, kind |-> k, src |-> q]

-----------------------------------------------------------------------------
(* A neighbour pushes; its events are in order (Router and Server send with *)
(* increasing out_times).                                                   *)
Push(q, t, k) ==
  /\ Len(queues[q]) < Cap
  /\ t >= last[q]
  /\ queues' = [queues EXCEPT ![q] = Append(@, [time |-> t, kind |-> k])]
  /\ last' = [last EXCEPT ![q] = t]
  /\ UNCHANGED <<held, treeVars, callVars>>

(* Mutant: a Stalled promises one tick more than was heard. *)
PopAhead ==
  /\ pc = "pop"
  /\ \/ /\ queues[winner_q] = <<>>
        /\ cand' = Event(safe_time + 1, "Stalled", winner_q)
        /\ UNCHANGED <<queues, held>>
     \/ /\ queues[winner_q] # <<>>
        /\ cand' = Event(Head(queues[winner_q]).time, Head(queues[winner_q]).kind, winner_q)
        /\ queues' = [queues EXCEPT ![winner_q] = Tail(@)]
        /\ held' = [held EXCEPT ![winner_q] = TRUE]
  /\ index' = paths[winner_q]
  /\ pc' = "climb"
  /\ UNCHANGED <<last, treeVars, out>>

Pop ==
  /\ pc = "pop"
  /\ \/ /\ queues[winner_q] = <<>>
        /\ cand' = Event(safe_time, "Stalled", winner_q)
        /\ UNCHANGED <<queues, held>>
     \/ /\ queues[winner_q] # <<>>
        /\ cand' = Event(Head(queues[winner_q]).time, Head(queues[winner_q]).kind, winner_q)
        /\ queues' = [queues EXCEPT ![winner_q] = Tail(@)]
        /\ held' = [held EXCEPT ![winner_q] = TRUE]
  /\ index' = paths[winner_q]
  /\ pc' = "climb"
  /\ UNCHANGED <<last, treeVars, out>>

(* Mutant: a Stalled does not give way to another Stalled. *)
BeatsNoRotation(l, c) ==
  \/ l.time < c.time
  \/ l.time = c.time /\ c.kind = "Stalled" /\ l.kind # "Stalled"

(* The loser of a node beats the candidate. *)
Beats(l, c) ==
  \/ l.time < c.time
  \/ l.time = c.time /\ c.kind = "Stalled"

(* Mutant: stops after the first swap. *)
ClimbBreak ==
  /\ pc = "climb" /\ index # 0
  /\ \/ /\ Beats(loser_e[index], cand)
        /\ loser_e' = [loser_e EXCEPT ![index] = cand]
        /\ cand' = loser_e[index]
        /\ index' = 0
     \/ /\ ~Beats(loser_e[index], cand)
        /\ index' = index \div 2
        /\ UNCHANGED <<loser_e, cand>>
  /\ UNCHANGED <<queues, last, held, winner_q, safe_time, pc, out>>

Climb ==
  /\ pc = "climb" /\ index # 0
  /\ \/ /\ Beats(loser_e[index], cand)
        /\ loser_e' = [loser_e EXCEPT ![index] = cand]
        /\ cand' = loser_e[index]
     \/ /\ ~Beats(loser_e[index], cand)
        /\ UNCHANGED <<loser_e, cand>>
  /\ index' = index \div 2
  /\ UNCHANGED <<queues, last, held, winner_q, safe_time, pc, out>>

Settle ==
  /\ pc = "climb" /\ index = 0
  /\ winner_q' = cand.src
  /\ safe_time' = cand.time
  /\ held' = [held EXCEPT ![cand.src] = FALSE]
  /\ \/ cand.kind = "Null" /\ pc' = "pop" /\ UNCHANGED out
     \/ cand.kind = "Stalled" /\ pc' = "check" /\ UNCHANGED out
     \/ cand.kind \in Payloads /\ pc' = "pop" /\ out' = cand
  /\ UNCHANGED <<queues, last, loser_e, cand, index>>

(* Mutant: the stalled queue is not looked at again. *)
CheckSkipped ==
  /\ pc = "check"
  /\ pc' = "pop"
  /\ out' = cand
  /\ UNCHANGED <<queues, last, held, treeVars, cand, index>>

(* is_empty() on the stalled queue: continue if something came meanwhile. *)
Check ==
  /\ pc = "check"
  /\ pc' = "pop"
  /\ out' = IF queues[cand.src] = <<>> THEN cand ELSE out
  /\ UNCHANGED <<queues, last, held, treeVars, cand, index>>

-----------------------------------------------------------------------------
(* Merger::new: every node starts with a placeholder. *)
Init ==
  /\ queues = [q \in Queues |-> <<>>]
  /\ last = [q \in Queues |-> 0]
  /\ held = [q \in Queues |-> FALSE]
  /\ loser_e = [i \in Nodes |-> Event(0, "Null", FirstSrc(N)[i])]
  /\ winner_q = 0
  /\ safe_time = 0
  /\ pc = "pop" /\ index = 0 /\ cand = Event(0, "Null", 0)
  /\ out = Event(0, "Null", 0)

MergerStep == Pop \/ Climb \/ Settle \/ Check
PushStep   == \E q \in Queues, t \in Times, k \in Kinds : Push(q, t, k)

Next == MergerStep \/ PushStep

Spec == Init /\ [][Next]_vars

(* The actor keeps calling next(): a worker advances it again and again     *)
(* until it is done.  Nothing makes a neighbour push.                       *)
FairSpec == Spec /\ WF_vars(MergerStep)

-----------------------------------------------------------------------------
(* Properties *)

Events == [time : Times, kind : Kinds \cup {"Stalled"}, src : Queues]

(* Queues respect their capacity, the walk up stays inside the tree, and    *)
(* every event names an input queue.                                        *)
TypeOK ==
  /\ \A q \in Queues : /\ queues[q] \in Seq([time : Times, kind : Kinds])
                       /\ Len(queues[q]) <= Cap
  /\ last \in [Queues -> Times]
  /\ held \in [Queues -> BOOLEAN]
  /\ loser_e \in [Nodes -> Events]
  /\ winner_q \in Queues /\ safe_time \in Times
  /\ pc \in {"pop", "climb", "check"}
  /\ cand \in Events /\ index \in 0 .. N - 1 /\ out \in Events

(* The nodes on the way from node i to the root, the least set that has i   *)
(* and every parent of its own, and the way of queue q's events.            *)
Rising(S) == \A i \in S : i \div 2 \in S \cup {0}
Up(i)     == {j \in Nodes : \A S \in SUBSET Nodes : i \in S /\ Rising(S) => j \in S}
Above(q)  == Up(paths[q])

(* The queue whose event is not in the tree. *)
Absent == IF pc = "climb" THEN cand.src ELSE winner_q

(* The tree of losers stays one: every queue but the one in hand has        *)
(* exactly one event in it, at a node on its own way to the root, so no     *)
(* queue is ever forgotten or served by another one's path.                 *)
TreeSound ==
  /\ {loser_e[i].src : i \in Nodes} = Queues \ {Absent}
  /\ \A i \in Nodes : i \in Above(loser_e[i].src)

(* Times order events; at equal times a Stalled comes after the others. *)
Key(e) == 2 * e.time + (IF e.kind = "Stalled" THEN 1 ELSE 0)

(* What wins the climb is the least event of the whole tree although it was *)
(* only compared along one path; in particular a Stalled never overtakes an *)
(* event of the same time that the Merger already has.                      *)
WinnerIsLeast ==
  pc = "climb" /\ index = 0 => \A i \in Nodes : Key(cand) <= Key(loser_e[i])

(* The conservative rule: the Merger's time never passes what every         *)
(* neighbour has promised, so no event that is still to come can be in its  *)
(* past.                                                                    *)
Conservative == \A q \in Queues : safe_time <= last[q]

(* The event of queue q the tree holds, if any, followed by the queue. *)
InTree(q) ==
  LET e == IF pc = "climb" /\ cand.src = q
           THEN cand
           ELSE loser_e[CHOOSE i \in Nodes : loser_e[i].src = q]
  IN  [time |-> e.time, kind |-> e.kind]

Pending == [q \in Queues |-> IF held[q] THEN <<InTree(q)>> \o queues[q] ELSE queues[q]]

Merge == INSTANCE OrderedMerge WITH pending <- Pending

(* Every behaviour of the loser tree is one of the ordered merge: no event  *)
(* is lost, duplicated, reordered within its queue or returned while an     *)
(* earlier one may still come, and Stalled is only returned for an empty    *)
(* queue that holds everyone back.                                          *)
RefinesMerge == Merge!Spec

(* Some event that could be returned now has not been. *)
Behind ==
  \E q \in Queues :
    /\ Pending[q] # <<>>
    /\ \A p \in Queues : Head(Pending[q]).time <= last[p]

(* Once the neighbours stop pushing, everything up to the earliest of their *)
(* last times is returned, whichever queues are stalled at that time.       *)
KeepsUp == <>[][MergerStep]_vars => []<>~Behind
=============================================================================
