---------------------------- MODULE BoundedFifo ----------------------------
(***************************************************************************)
(* What a queue of rustasim-engine/src/spsc.rs promises its two users, with *)
(* no ring, no positions and no intermediate steps: a bounded FIFO with     *)
(* delayed knowledge.                                                       *)
(*                                                                          *)
(*   items : the elements in the queue, oldest first;                       *)
(*   freed : pops the producer has not learned of yet.  A push needs room   *)
(*           in the producer's own view, Len(items) + freed < Cap;          *)
(*   fresh : pushes the consumer has not learned of yet.  A pop needs an    *)
(*           element in the consumer's own view, Len(items) - fresh > 0.    *)
(*                                                                          *)
(* A side may learn more at every call that looks at the other side's       *)
(* position; an error is only returned when the caller's view after looking *)
(* justifies it.  pRes/pLen and cRes/cGot/cLen are what the last completed  *)
(* call of each side returned.                                              *)
(***************************************************************************)
EXTENDS Naturals, Sequences

CONSTANTS Values, Cap, NoVal

VARIABLES items, freed, fresh, pRes, pLen, cRes, cGot, cLen

vars == <<items, freed, fresh, pRes, pLen, cRes, cGot, cLen>>

Init ==
  /\ items = <<>>
  /\ freed = 0
  /\ fresh = 0
  /\ pRes = "none" /\ pLen = 0
  /\ cRes = "none" /\ cGot = NoVal /\ cLen = 0

(* The producer looks at the consumer's progress. *)
LearnPops == freed' \in 0 .. freed

(* The consumer looks at the producer's progress. *)
LearnPushes == fresh' \in 0 .. fresh

Push(v) ==
  /\ Len(items) + freed < Cap
  /\ items' = Append(items, v)
  /\ fresh' = fresh + 1
  /\ pRes' = "ok"
  /\ UNCHANGED <<freed, pLen, cRes, cGot, cLen>>

PushFull ==
  /\ LearnPops
  /\ Len(items) + freed' = Cap
  /\ pRes' = "full"
  /\ UNCHANGED <<items, fresh, pLen, cRes, cGot, cLen>>

(* A look that is not the end of a call: push goes on to write its value. *)
SeeRoom ==
  /\ LearnPops
  /\ UNCHANGED <<items, fresh, pRes, pLen, cRes, cGot, cLen>>

ProducerLen ==
  /\ LearnPops
  /\ pRes' = "len"
  /\ pLen' = Len(items) + freed'
  /\ UNCHANGED <<items, fresh, cRes, cGot, cLen>>

Pop ==
  /\ Len(items) > fresh
  /\ cRes' = "ok"
  /\ cGot' = Head(items)
  /\ items' = Tail(items)
  /\ freed' = freed + 1
  /\ UNCHANGED <<fresh, pRes, pLen, cLen>>

PopEmpty ==
  /\ LearnPushes
  /\ Len(items) = fresh'
  /\ cRes' = "empty"
  /\ UNCHANGED <<items, freed, pRes, pLen, cGot, cLen>>

SeeElement ==
  /\ LearnPushes
  /\ UNCHANGED <<items, freed, pRes, pLen, cRes, cGot, cLen>>

ConsumerLen ==
  /\ LearnPushes
  /\ cRes' = "len"
  /\ cLen' = Len(items) - fresh'
  /\ UNCHANGED <<items, freed, pRes, pLen, cGot>>

ConsumerIsEmpty ==
  /\ LearnPushes
  /\ cRes' = IF Len(items) > fresh' THEN "nonempty" ELSE "isempty"
  /\ UNCHANGED <<items, freed, pRes, pLen, cGot, cLen>>

Next ==
  \/ \E v \in Values : Push(v)
  \/ PushFull
  \/ SeeRoom
  \/ ProducerLen
  \/ Pop
  \/ PopEmpty
  \/ SeeElement
  \/ ConsumerLen
  \/ ConsumerIsEmpty

Spec == Init /\ [][Next]_vars
=============================================================================
