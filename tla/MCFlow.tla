------------------------------- MODULE MCFlow -------------------------------
(* Flow with a window smaller than the flow and a last packet that is not   *)
(* full.                                                                    *)
EXTENDS Flow
=============================================================================
