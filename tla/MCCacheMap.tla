---------------------------- MODULE MCCacheMap ----------------------------
(* Small instances of CacheMap for TLC. *)
EXTENDS CacheMap, TLC

MCPow == [i \in 0..Levels |-> Buckets ^ i]

Symmetry == Permutations(Keys) \cup Permutations(Entries)
=============================================================================
