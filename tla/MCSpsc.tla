------------------------------- MODULE MCSpsc -------------------------------
(* Spsc with two distinguishable elements and a ring of two slots. *)
EXTENDS Spsc

CONSTANTS a, b
=============================================================================
