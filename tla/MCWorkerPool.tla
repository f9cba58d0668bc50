---------------------------- MODULE MCWorkerPool ----------------------------
(* A call of map with two coroutines and one with a single one, on a pool   *)
(* of two slots; for the retries one call with four coroutines is enough.   *)
EXTENDS WorkerPool, TLC

CONSTANTS m1, m2

MCMapSize == m1 :> 2 @@ m2 :> 1

MCBoundSize == m1 :> 4
=============================================================================
