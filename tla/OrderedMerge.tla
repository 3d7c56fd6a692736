---------------------------- MODULE OrderedMerge ----------------------------
(***************************************************************************)
(* What the Merger of rustasim-engine/src/engine.rs promises an actor, with *)
(* no tree, no placeholders and no intermediate steps: a merge of the input *)
(* queues that never returns an event while an earlier one may still come.  *)
(*                                                                          *)
(*   pending[q] : the events of queue q that were not returned yet;         *)
(*   last[q]    : the time of the last event pushed into q, which bounds    *)
(*                from below all that q will ever receive;                  *)
(*   out        : the event returned last.                                  *)
(***************************************************************************)
EXTENDS Naturals, Sequences

CONSTANTS Queues, Payloads, Times

VARIABLES pending, last, out

vars == <<pending, last, out>>

Kinds == Payloads \cup {"Null"}

(* The earliest time at which queue q can still contribute an event. *)
Bound(q) == IF pending[q] # <<>> THEN Head(pending[q]).time ELSE last[q]

(* Nothing earlier than t can still come. *)
SafeAt(t) == \A q \in Queues : t <= Bound(q)

Init ==
  /\ pending = [q \in Queues |-> <<>>]
  /\ last = [q \in Queues |-> 0]
  /\ out = [time |-> 0, kind |-> "Null", src |-> 0]

Push(q, t, k) ==
  /\ t >= last[q]
  /\ pending' = [pending EXCEPT ![q] = Append(@, [time |-> t, kind |-> k])]
  /\ last' = [last EXCEPT ![q] = t]
  /\ UNCHANGED out

(* The first event of q is returned; a Null is only used up. *)
Take(q) ==
  /\ pending[q] # <<>>
  /\ SafeAt(Head(pending[q]).time)
  /\ pending' = [pending EXCEPT ![q] = Tail(@)]
  /\ out' = IF Head(pending[q]).kind = "Null"
            THEN out
            ELSE [time |-> Head(pending[q]).time, kind |-> Head(pending[q]).kind, src |-> q]
  /\ UNCHANGED last

(* Queue q is empty and holds everyone back: the actor is told to stall. *)
Stall(q) ==
  /\ pending[q] = <<>>
  /\ SafeAt(last[q])
  /\ out' = [time |-> last[q], kind |-> "Stalled", src |-> q]
  /\ UNCHANGED <<pending, last>>

Next == \E q \in Queues :
          \/ \E t \in Times, k \in Kinds : Push(q, t, k)
          \/ Take(q)
          \/ Stall(q)

Spec == Init /\ [][Next]_vars
=============================================================================
