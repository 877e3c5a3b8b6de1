---------------------------- MODULE MCWorkerPool ----------------------------
(* WorkerPool with two threads, two callers and a few keys.                *)
EXTENDS WorkerPool
=============================================================================
