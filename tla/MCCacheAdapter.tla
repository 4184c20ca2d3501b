---------------------------- MODULE MCCacheAdapter -----------------------------
(* Model-checking instance of CacheAdapter. *)
EXTENDS CacheAdapter, TLC

\* No time to live, the default, and one that is longer than it.
MCTtls == {-1, 0, 2}

Symmetry == Permutations(Threads) \cup Permutations(Keys) \cup Permutations(Values)
================================================================================
