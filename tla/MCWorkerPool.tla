---------------------------- MODULE MCWorkerPool ----------------------------
(* WorkerPool with more actors than workers and heaps. *)
EXTENDS WorkerPool
=============================================================================
