------------------------------- MODULE Migration -------------------------------
(***************************************************************************)
(* Migration::apply of src/src/infrastructure/database/migration.cpp, run  *)
(* by every instance of the program as it starts (main.cpp), against one   *)
(* PostgreSQL database.                                                    *)
(*                                                                         *)
(* Instances start at the same time, fail, crash and are started again,    *)
(* perhaps in another version.  Each repository call is a transaction; the *)
(* one that runs a migration file is three steps, because it can meet      *)
(* another instance's transaction on the same row of schema_migrations.    *)
(* Every call first takes a connection from the pool the instance has just *)
(* built, which may have none: its constructor opens what it can.          *)
(***************************************************************************)
EXTENDS Integers, FiniteSets

CONSTANTS
  Instances,   \* processes that start against the database
  Files,       \* names of migration files, by their rank in the sorted order
  Versions,    \* what the migrations directory of a version of the program holds
  MaxFaults    \* bound: crashes, calls that fail and outages as a pool is built

ASSUME FilesAssumption == Files \subseteq Nat
ASSUME VersionsAssumption == Versions \subseteq SUBSET Files /\ Versions # {}
ASSUME BoundsAssumption == MaxFaults \in Nat

VARIABLES
  table,      \* schema_migrations exists
  recorded,   \* its filenames
  ran,        \* history: how often each file's statements have been committed
  pc,         \* where each instance is
  pooled,     \* whether the constructor of an instance's pool opened a connection
  dir,        \* the files of the version an instance runs
  todo,       \* the files its loop has still to look at
  faults      \* what MaxFaults bounds

vars == <<table, recorded, ran, pc, pooled, dir, todo, faults>>

--------------------------------------------------------------------------------
At(i, place) == pc[i] = place
Go(i, place) == pc' = [pc EXCEPT ![i] = place]

\* The file the loop of apply is at: the first in the sorted order.
First_Any(i, f) == f \in todo[i]
First(i, f) == f \in todo[i] /\ \A g \in todo[i] : f <= g

Fault == faults < MaxFaults /\ faults' = faults + 1

Init ==
  /\ table = FALSE
  /\ recorded = {}
  /\ ran = [f \in Files |-> 0]
  /\ pc = [i \in Instances |-> "down"]
  /\ pooled = [i \in Instances |-> FALSE]
  /\ dir = [i \in Instances |-> {}]
  /\ todo = [i \in Instances |-> {}]
  /\ faults = 0

\* The process is started: it builds its pool, whose constructor leaves out each
\* connection that cannot be opened, and reaches Migration::apply even if an
\* outage has left the pool empty.
Start(i) ==
  /\ At(i, "down")
  /\ \E files \in Versions : dir' = [dir EXCEPT ![i] = files]
  /\ \/ pooled' = [pooled EXCEPT ![i] = TRUE] /\ UNCHANGED faults
     \/ pooled' = [pooled EXCEPT ![i] = FALSE] /\ Fault
  /\ Go(i, "ensure")
  /\ UNCHANGED <<table, recorded, ran, todo>>

\* The loop is alone with the pool and gives back what it takes, so an acquire
\* finds a connection if there ever was one and waits for ever otherwise.
Acquires(i) == pooled[i]

EnsureTable_NoCreate(i) ==
  /\ At(i, "ensure")
  /\ Acquires(i)
  /\ todo' = [todo EXCEPT ![i] = dir[i]]
  /\ Go(i, "loop")
  /\ UNCHANGED <<table, recorded, ran, pooled, dir, faults>>

\* CREATE TABLE IF NOT EXISTS schema_migrations, then migration_files.
EnsureTable(i) ==
  /\ At(i, "ensure")
  /\ Acquires(i)
  /\ table' = TRUE
  /\ todo' = [todo EXCEPT ![i] = dir[i]]
  /\ Go(i, "loop")
  /\ UNCHANGED <<recorded, ran, pooled, dir, faults>>

IsApplied_Never(f) == FALSE
IsApplied(f) == f \in recorded

Skip(i) ==
  /\ At(i, "loop")
  /\ Acquires(i)
  /\ \E f \in todo[i] :
       /\ First(i, f)
       /\ IsApplied(f)
       /\ todo' = [todo EXCEPT ![i] = @ \ {f}]
  /\ UNCHANGED <<table, recorded, ran, pc, pooled, dir, faults>>

\* is_applied says no; apply_migration opens its transaction and runs the file.
Execute(i) ==
  /\ At(i, "loop")
  /\ Acquires(i)
  /\ \E f \in todo[i] : First(i, f) /\ ~IsApplied(f)
  /\ Go(i, "executed")
  /\ UNCHANGED <<table, recorded, ran, pooled, dir, todo, faults>>

\* The row's key is taken by a transaction that has not committed: PostgreSQL
\* makes a second INSERT of the key wait for it.
KeyLocked(f) == \E j \in Instances : At(j, "inserted") /\ First(j, f)

\* INSERT INTO schema_migrations
Insert(i) ==
  /\ At(i, "executed")
  /\ \E f \in todo[i] : First(i, f) /\ ~KeyLocked(f) /\ f \notin recorded
  /\ Go(i, "inserted")
  /\ UNCHANGED <<table, recorded, ran, pooled, dir, todo, faults>>

\* The INSERT violates the primary key: apply fails, the process exits with 1
\* and its transaction is rolled back.
InsertRefused(i) ==
  /\ At(i, "executed")
  /\ \E f \in todo[i] : First(i, f) /\ f \in recorded
  /\ Go(i, "down")
  /\ todo' = [todo EXCEPT ![i] = {}]
  /\ UNCHANGED <<table, recorded, ran, pooled, dir, faults>>

\* What the commit of the transaction makes durable besides the statements.
NowRecorded_NoInsert(f) == recorded
NowRecorded(f) == recorded \cup {f}

CommitFile(f) ==
  /\ recorded' = NowRecorded(f)
  /\ ran' = [ran EXCEPT ![f] = @ + 1]

Commit(i) ==
  /\ At(i, "inserted")
  /\ \E f \in todo[i] :
       /\ First(i, f)
       /\ CommitFile(f)
       /\ todo' = [todo EXCEPT ![i] = @ \ {f}]
  /\ Go(i, "loop")
  /\ UNCHANGED <<table, pooled, dir, faults>>

\* The loop is through, and the server starts to listen.
AllApplied_Unchecked(i) == TRUE
AllApplied(i) == todo[i] = {}

Serve(i) ==
  /\ At(i, "loop")
  /\ AllApplied(i)
  /\ Go(i, "serving")
  /\ UNCHANGED <<table, recorded, ran, pooled, dir, todo, faults>>

\* A call fails or the process dies, wherever it is; the database rolls its
\* transaction back, or has received the COMMIT already.  A CREATE TABLE IF NOT
\* EXISTS that PostgreSQL refuses because another is under way fails this way.
Stop(i) ==
  /\ ~At(i, "down")
  /\ Fault
  /\ Go(i, "down")
  /\ todo' = [todo EXCEPT ![i] = {}]
  /\ \/ UNCHANGED <<recorded, ran>>
     \/ At(i, "inserted") /\ \E f \in todo[i] : First(i, f) /\ CommitFile(f)
  /\ \/ table' = table
     \/ At(i, "ensure") /\ table' = TRUE
  /\ UNCHANGED <<pooled, dir>>

\* An instance in its first acquire on an empty pool.
Stuck(i) == At(i, "ensure") /\ ~pooled[i]

Terminated == (\A i \in Instances : At(i, "serving") \/ Stuck(i)) /\ UNCHANGED vars

Apply(i) ==
  \/ EnsureTable(i) \/ Skip(i) \/ Execute(i) \/ Insert(i) \/ InsertRefused(i)
  \/ Commit(i) \/ Serve(i)

Next == (\E i \in Instances : Start(i) \/ Apply(i) \/ Stop(i)) \/ Terminated

Spec == Init /\ [][Next]_vars

\* A process that runs makes progress, and one that is down is started again.
Fairness == \A i \in Instances : WF_vars(Start(i)) /\ WF_vars(Apply(i))
FairSpec == Spec /\ Fairness

--------------------------------------------------------------------------------
(* Properties *)

\* Every variable keeps to its type; nothing is recorded before the table exists.
TypeOK ==
  /\ table \in BOOLEAN
  /\ recorded \in SUBSET Files
  /\ recorded # {} => table
  /\ ran \in [Files -> Nat]
  /\ pc \in [Instances -> {"down", "ensure", "loop", "executed", "inserted", "serving"}]
  /\ pooled \in [Instances -> BOOLEAN]
  /\ dir \in [Instances -> SUBSET Files]
  /\ todo \in [Instances -> SUBSET Files]
  /\ faults \in 0..MaxFaults

\* A migration's statements are committed at most once, and exactly if the file
\* is recorded, although the check and the migration are two transactions,
\* instances race, and a crash may hide a commit from the process that made it.
RanOnce == \A f \in Files : ran[f] = IF f \in recorded THEN 1 ELSE 0

\* Migrations take effect in the order of their names: a file is committed only
\* after every earlier file of the version that commits it.
InOrder ==
  [][\A f \in recorded' \ recorded :
       \E i \in Instances : f \in dir[i] /\ \A g \in dir[i] : g < f => g \in recorded]_vars

\* An instance serves requests only on the schema it was written for.
ServesMigratedSchema == \A i \in Instances : At(i, "serving") => dir[i] \subseteq recorded

\* Once faults stop, every instance ends up serving, however instances got into
\* each other's way and whatever a failed start left behind; the exception is one
\* whose pool was built in an outage: it waits in its first acquire for ever, with
\* the database back and the others served, and neither starts nor fails.
AllServe == \A i \in Instances : <>[]At(i, "serving") \/ <>[]Stuck(i)
================================================================================
