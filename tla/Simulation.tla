------------------------------ MODULE Simulation ------------------------------
(***************************************************************************)
(* What a parallel simulation promises, with no queues, null messages,      *)
(* stalls or Close: every actor handles its events in the order of their    *)
(* times, none is lost on the way, none comes when its time has passed, and *)
(* an actor only finishes when all before the horizon are handled.          *)
(*                                                                          *)
(* pending[a] is the bag of the times of the events that a still has to     *)
(* handle, clock[a] how far a is.  What a handler sends is up to the model. *)
(***************************************************************************)
EXTENDS Integers, Bags

CONSTANTS
  Actors,
  Horizon   \* events from this time on need not be handled

VARIABLES pending, clock, state

simVars == <<pending, clock, state>>

SimInit ==
  /\ clock = [a \in Actors |-> 0]
  /\ state = [a \in Actors |-> "running"]
  /\ DOMAIN pending = Actors
  /\ \A a \in Actors : IsABag(pending[a]) /\ DOMAIN pending[a] \subseteq Nat

(* a goes on to some later time, or stays.  It may fail as it does so. *)
Moves(a) ==
  /\ state[a] = "running"
  /\ state' \in {state, [state EXCEPT ![a] = "failed"]}
  /\ clock'[a] >= clock[a]
  /\ clock' = [clock EXCEPT ![a] = clock'[a]]

(* Of left nothing is lost, and what is added comes in time. *)
Adds(left) ==
  /\ DOMAIN pending' = Actors
  /\ \A d \in Actors :
       /\ left[d] \sqsubseteq pending'[d]
       /\ \A t \in DOMAIN (pending'[d] (-) left[d]) :
            t >= clock'[d] /\ (state[d] = "finished" => t >= Horizon)

(* a learns that nothing happens to it before some time. *)
Waits(a) == Moves(a) /\ UNCHANGED pending

(* a handles the first of its events. *)
Handles(a) ==
  /\ clock'[a] \in DOMAIN pending[a]
  /\ \A t \in DOMAIN pending[a] : clock'[a] <= t
  /\ Moves(a)
  /\ Adds([pending EXCEPT ![a] = @ (-) SetToBag({clock'[a]})])

(* Nothing is left for a before the horizon.  Its clock means nothing any  *)
(* more, and events beyond may get lost.                                    *)
Finishes(a) ==
  /\ state[a] = "running"
  /\ \A t \in DOMAIN pending[a] : t >= Horizon
  /\ state' \in {[state EXCEPT ![a] = s] : s \in {"finished", "failed"}}
  /\ clock' = [clock EXCEPT ![a] = clock'[a]]
  /\ pending'[a] \sqsubseteq pending[a]
  /\ pending' = [pending EXCEPT ![a] = pending'[a]]

SimNext == \E a \in Actors : Waits(a) \/ Handles(a) \/ Finishes(a)

SimSpec == SimInit /\ [][SimNext]_simVars
=============================================================================
