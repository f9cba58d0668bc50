----------------------------- MODULE MCScheduler -----------------------------
(* Instances of the scheduler: three names and lists of up to two entries   *)
(* give every dependency graph on three stages, with self-loops, repeated   *)
(* entries, and names that are left unregistered.                           *)
EXTENDS Scheduler
=============================================================================
