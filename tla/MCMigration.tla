------------------------------ MODULE MCMigration ------------------------------
(* Model-checking instances of Migration. *)
EXTENDS Migration

\* Two versions of the program; the second has two migrations more.
TwoVersions == {{1}, {1, 2, 3}}
ThreeFiles == 1..3
================================================================================
