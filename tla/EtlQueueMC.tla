----------------------------- MODULE EtlQueueMC -----------------------------
(* A small instance of EtlQueue: two reports of two tenants, two workers. *)
EXTENDS EtlQueue, TLC

CONSTANTS j1, j2, u1, u2

MCUserOf == (j1 :> u1) @@ (j2 :> u2)
WorkerSymmetry == Permutations(Worker)
=============================================================================
