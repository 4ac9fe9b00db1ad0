---------------------------- MODULE MCCacheQueue ----------------------------
(* CacheQueue on small instances: one episode that is cached twice.       *)
EXTENDS CacheQueue, TLC

\* Replicas are interchangeable.
Symmetry == Permutations(Replicas)
=============================================================================
