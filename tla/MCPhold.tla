------------------------------- MODULE MCPhold -------------------------------
(* Two actors and a few delays, shorter and longer than the lookahead. *)
EXTENDS Phold
=============================================================================
