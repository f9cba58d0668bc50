---------------------------- MODULE MCRateLimiter ----------------------------
(* Small rates, so that both buckets run dry within the bounds; the gains   *)
(* that five latencies lead to divide SubTicks, so every wait is exact.     *)
EXTENDS RateLimiter, TLC

HostSymmetry == Permutations(Hosts)
=============================================================================
