--------------------------- MODULE MCConnectionPool ----------------------------
(* Model-checking instances of ConnectionPool. *)
EXTENDS ConnectionPool, TLC

\* Threads and slots are interchangeable.
Symmetry == Permutations(Threads) \cup Permutations(Conns)
================================================================================
