---------------------------- MODULE MigrationProofs ----------------------------
(***************************************************************************)
(* What module Migration claims, for any number of instances, files and    *)
(* faults.  The invariant says what an instance may rely on between two of *)
(* its transactions, while others commit theirs.                           *)
(***************************************************************************)
EXTENDS Migration, TLAPS

InLoop == {"loop", "executed", "inserted", "serving"}

\* The files an instance has passed are recorded.
Passed == \A i \in Instances : pc[i] \in InLoop => dir[i] \ todo[i] \subseteq recorded

\* A transaction that has inserted its row is the only one with that row, and
\* the row is not in the table yet.
KeysHeld ==
  /\ \A i \in Instances : At(i, "inserted") => \A f \in todo[i] : First(i, f) => f \notin recorded
  /\ \A i, j \in Instances : At(i, "inserted") /\ At(j, "inserted") =>
       \A f \in Files : First(i, f) /\ First(j, f) => i = j

Served ==
  \A i \in Instances : /\ pc[i] \in {"down", "ensure", "serving"} => todo[i] = {}
                       /\ todo[i] \subseteq dir[i]

\* The table is there for every instance that is past its first call.
Created == \A i \in Instances : pc[i] \in InLoop => table

LoopInv == Passed /\ Served /\ Created

\* The first file of a loop is unique: names of files are ordered.
LEMMA FirstIsUnique ==
  ASSUME TypeOK, NEW i \in Instances, NEW f, NEW g, First(i, f), First(i, g)
  PROVE  f = g
<1>1. f \in Nat /\ g \in Nat
  BY FilesAssumption DEF TypeOK, First
<1>2. f <= g /\ g <= f
  BY DEF First
<1> QED
  BY <1>1, <1>2

\* Init starts with everything empty.
LEMMA InitInv == Init => TypeOK /\ LoopInv /\ KeysHeld /\ RanOnce
<1> SUFFICES ASSUME Init PROVE TypeOK /\ LoopInv /\ KeysHeld /\ RanOnce
  OBVIOUS
<1>1. TypeOK
  <2>1. faults \in 0..MaxFaults
    BY BoundsAssumption DEF Init
  <2>2. /\ ran \in [Files -> Nat]
        /\ pooled \in [Instances -> BOOLEAN]
        /\ dir \in [Instances -> SUBSET Files]
        /\ todo \in [Instances -> SUBSET Files]
    BY DEF Init
  <2> QED
    BY <2>1, <2>2 DEF Init, TypeOK
<1>2. LoopInv
  BY DEF Init, LoopInv, Passed, Served, Created, At, InLoop
<1>3. KeysHeld
  BY DEF Init, KeysHeld, At
<1>4. RanOnce
  BY DEF Init, RanOnce
<1> QED
  BY <1>1, <1>2, <1>3, <1>4

\* Every action keeps to the types.
LEMMA TypeStep ==
  ASSUME TypeOK, LoopInv, [Next]_vars
  PROVE  TypeOK'
<1>1. CASE UNCHANGED vars
  BY <1>1 DEF vars, TypeOK, LoopInv, Created, InLoop
<1>2. ASSUME NEW i \in Instances, Start(i)
      PROVE  TypeOK'
  <2>1. /\ pooled' \in [Instances -> BOOLEAN]
        /\ faults' \in 0..MaxFaults
    <3>1. CASE pooled' = [pooled EXCEPT ![i] = TRUE] /\ UNCHANGED faults
      BY <3>1 DEF TypeOK
    <3>2. CASE pooled' = [pooled EXCEPT ![i] = FALSE] /\ Fault
      BY <3>2, BoundsAssumption DEF Fault, TypeOK
    <3> QED
      BY <1>2, <3>1, <3>2 DEF Start
  <2>2. /\ dir' \in [Instances -> SUBSET Files]
        /\ pc' = [pc EXCEPT ![i] = "ensure"]
        /\ UNCHANGED <<table, recorded, ran, todo>>
    BY <1>2, VersionsAssumption DEF Start, Go, TypeOK
  <2> QED
    BY <2>1, <2>2 DEF TypeOK
<1>3. ASSUME NEW i \in Instances, EnsureTable(i)
      PROVE  TypeOK'
  BY <1>3 DEF EnsureTable, Go, At, First, TypeOK, LoopInv, Created, InLoop
<1>4. ASSUME NEW i \in Instances, Skip(i)
      PROVE  TypeOK'
  BY <1>4 DEF Skip, IsApplied, Go, At, First, TypeOK, LoopInv, Created, InLoop
<1>5. ASSUME NEW i \in Instances, Execute(i)
      PROVE  TypeOK'
  BY <1>5 DEF Execute, IsApplied, Go, At, First, TypeOK, LoopInv, Created, InLoop
<1>6. ASSUME NEW i \in Instances, Insert(i)
      PROVE  TypeOK'
  BY <1>6 DEF Insert, Go, At, First, TypeOK, LoopInv, Created, InLoop
<1>7. ASSUME NEW i \in Instances, InsertRefused(i)
      PROVE  TypeOK'
  BY <1>7 DEF InsertRefused, Go, At, First, TypeOK, LoopInv, Created, InLoop
<1>8. ASSUME NEW i \in Instances, Commit(i)
      PROVE  TypeOK'
  BY <1>8 DEF Commit, CommitFile, NowRecorded, Go, At, First, TypeOK, LoopInv, Created, InLoop
<1>9. ASSUME NEW i \in Instances, Serve(i)
      PROVE  TypeOK'
  BY <1>9 DEF Serve, AllApplied, Go, At, First, TypeOK, LoopInv, Created, InLoop
<1>10. ASSUME NEW i \in Instances, Stop(i)
      PROVE  TypeOK'
  <2>1. /\ recorded' \in SUBSET Files
        /\ ran' \in [Files -> Nat]
    BY <1>10 DEF Stop, CommitFile, NowRecorded, TypeOK
  <2>2. /\ table' \in BOOLEAN
        /\ table => table'
    <3>1. (table' = table) \/ (table' = TRUE)
      BY <1>10 DEF Stop
    <3> QED
      BY <3>1 DEF TypeOK
  <2>3. recorded' # {} => table'
    <3>1. recorded' = recorded \/ At(i, "inserted")
      BY <1>10 DEF Stop
    <3>2. At(i, "inserted") => table
      BY DEF At, LoopInv, Created, InLoop
    <3> QED
      BY <2>2, <3>1, <3>2 DEF TypeOK
  <2>4. /\ pc' = [pc EXCEPT ![i] = "down"]
        /\ todo' = [todo EXCEPT ![i] = {}]
        /\ dir' = dir /\ pooled' = pooled
        /\ faults' \in 0..MaxFaults
    BY <1>10, BoundsAssumption DEF Stop, Go, Fault, TypeOK
  <2> QED
    BY <2>1, <2>2, <2>3, <2>4 DEF TypeOK
<1> QED
  BY <1>1, <1>2, <1>3, <1>4, <1>5, <1>6, <1>7, <1>8, <1>9, <1>10 DEF Next, Apply, Terminated

\* Every action keeps what the loop relies on: recorded files stay recorded.
LEMMA LoopStep ==
  ASSUME TypeOK, LoopInv, [Next]_vars
  PROVE  LoopInv'
<1>1. CASE UNCHANGED vars
  BY <1>1 DEF vars, At, LoopInv, Passed, Served, Created, InLoop, TypeOK
<1>2. ASSUME NEW i \in Instances, Start(i)
      PROVE  LoopInv'
  BY <1>2, VersionsAssumption DEF Start, Fault, Go, At, First, LoopInv, Passed, Served, Created, InLoop, TypeOK
<1>3. ASSUME NEW i \in Instances, EnsureTable(i)
      PROVE  LoopInv'
  BY <1>3 DEF EnsureTable, Go, At, First, LoopInv, Passed, Served, Created, InLoop, TypeOK
<1>4. ASSUME NEW i \in Instances, Skip(i)
      PROVE  LoopInv'
  BY <1>4 DEF Skip, IsApplied, Go, At, First, LoopInv, Passed, Served, Created, InLoop, TypeOK
<1>5. ASSUME NEW i \in Instances, Execute(i)
      PROVE  LoopInv'
  BY <1>5 DEF Execute, IsApplied, Go, At, First, LoopInv, Passed, Served, Created, InLoop, TypeOK
<1>6. ASSUME NEW i \in Instances, Insert(i)
      PROVE  LoopInv'
  BY <1>6 DEF Insert, Go, At, First, LoopInv, Passed, Served, Created, InLoop, TypeOK
<1>7. ASSUME NEW i \in Instances, InsertRefused(i)
      PROVE  LoopInv'
  BY <1>7 DEF InsertRefused, Go, At, First, LoopInv, Passed, Served, Created, InLoop, TypeOK
<1>8. ASSUME NEW i \in Instances, Commit(i)
      PROVE  LoopInv'
  BY <1>8 DEF Commit, CommitFile, NowRecorded, Go, At, First, LoopInv, Passed, Served, Created, InLoop, TypeOK
<1>9. ASSUME NEW i \in Instances, Serve(i)
      PROVE  LoopInv'
  BY <1>9 DEF Serve, AllApplied, Go, At, First, LoopInv, Passed, Served, Created, InLoop, TypeOK
<1>10. ASSUME NEW i \in Instances, Stop(i)
      PROVE  LoopInv'
  BY <1>10 DEF Stop, Fault, CommitFile, NowRecorded, Go, At, First, LoopInv, Passed, Served, Created, InLoop, TypeOK
<1> QED
  BY <1>1, <1>2, <1>3, <1>4, <1>5, <1>6, <1>7, <1>8, <1>9, <1>10 DEF Next, Apply, Terminated

\* Every action keeps uncommitted rows apart from each other and from the table.
LEMMA KeysStep ==
  ASSUME TypeOK, LoopInv, KeysHeld, [Next]_vars
  PROVE  KeysHeld'
<1>1. CASE UNCHANGED vars
  BY <1>1 DEF vars, At, First, KeysHeld, TypeOK
<1>2. ASSUME NEW i \in Instances, Start(i)
      PROVE  KeysHeld'
  BY <1>2, VersionsAssumption DEF Start, Fault, Go, At, First, KeysHeld, TypeOK
<1>3. ASSUME NEW i \in Instances, EnsureTable(i)
      PROVE  KeysHeld'
  BY <1>3 DEF EnsureTable, Go, At, First, KeysHeld, TypeOK
<1>4. ASSUME NEW i \in Instances, Skip(i)
      PROVE  KeysHeld'
  BY <1>4 DEF Skip, IsApplied, Go, At, First, KeysHeld, TypeOK
<1>5. ASSUME NEW i \in Instances, Execute(i)
      PROVE  KeysHeld'
  BY <1>5 DEF Execute, IsApplied, Go, At, First, KeysHeld, TypeOK
<1>6. ASSUME NEW i \in Instances, Insert(i)
      PROVE  KeysHeld'
  <2>1. PICK f \in todo[i] : First(i, f) /\ ~KeyLocked(f) /\ f \notin recorded
    BY <1>6 DEF Insert
  <2>2. \A g \in todo[i] : First(i, g) => g = f
    BY <2>1, FirstIsUnique
  <2>3. /\ pc' = [pc EXCEPT ![i] = "inserted"]
        /\ todo' = todo /\ recorded' = recorded
    BY <1>6 DEF Insert, Go
  <2>4. \A j \in Instances, g \in Files : First(j, g)' <=> First(j, g)
    BY <2>3 DEF First
  <2>5. \A j \in Instances : At(j, "inserted")' => j = i \/ At(j, "inserted")
    BY <2>3 DEF At, TypeOK
  <2>6. \A j \in Instances : At(j, "inserted") => ~First(j, f)
    BY <2>1 DEF KeyLocked
  <2>7. \A j \in Instances : \A g : First(j, g) => g \in todo[j]
    BY DEF First
  <2>8. \A j \in Instances : todo[j] \subseteq Files
    BY DEF TypeOK
  <2> QED
    BY <2>1, <2>2, <2>3, <2>4, <2>5, <2>6, <2>7, <2>8 DEF KeysHeld
<1>7. ASSUME NEW i \in Instances, InsertRefused(i)
      PROVE  KeysHeld'
  BY <1>7 DEF InsertRefused, Go, At, First, KeysHeld, TypeOK
<1>8. ASSUME NEW i \in Instances, Commit(i)
      PROVE  KeysHeld'
  BY <1>8 DEF Commit, CommitFile, NowRecorded, Go, At, First, KeysHeld, TypeOK
<1>9. ASSUME NEW i \in Instances, Serve(i)
      PROVE  KeysHeld'
  BY <1>9 DEF Serve, AllApplied, Go, At, First, KeysHeld, TypeOK
<1>10. ASSUME NEW i \in Instances, Stop(i)
      PROVE  KeysHeld'
  BY <1>10 DEF Stop, Fault, CommitFile, NowRecorded, Go, At, First, KeysHeld, TypeOK
<1> QED
  BY <1>1, <1>2, <1>3, <1>4, <1>5, <1>6, <1>7, <1>8, <1>9, <1>10 DEF Next, Apply, Terminated

\* Every action keeps what has run in step with what is recorded.
LEMMA RanStep ==
  ASSUME TypeOK, LoopInv, KeysHeld, RanOnce, [Next]_vars
  PROVE  RanOnce'
<1>1. CASE UNCHANGED vars
  BY <1>1 DEF vars, RanOnce, KeysHeld, TypeOK
<1>2. ASSUME NEW i \in Instances, Start(i)
      PROVE  RanOnce'
  BY <1>2, VersionsAssumption DEF Start, Fault, Go, At, First, RanOnce, KeysHeld, TypeOK
<1>3. ASSUME NEW i \in Instances, EnsureTable(i)
      PROVE  RanOnce'
  BY <1>3 DEF EnsureTable, Go, At, First, RanOnce, KeysHeld, TypeOK
<1>4. ASSUME NEW i \in Instances, Skip(i)
      PROVE  RanOnce'
  BY <1>4 DEF Skip, IsApplied, Go, At, First, RanOnce, KeysHeld, TypeOK
<1>5. ASSUME NEW i \in Instances, Execute(i)
      PROVE  RanOnce'
  BY <1>5 DEF Execute, IsApplied, Go, At, First, RanOnce, KeysHeld, TypeOK
<1>6. ASSUME NEW i \in Instances, Insert(i)
      PROVE  RanOnce'
  BY <1>6 DEF Insert, Go, At, First, RanOnce, KeysHeld, TypeOK
<1>7. ASSUME NEW i \in Instances, InsertRefused(i)
      PROVE  RanOnce'
  BY <1>7 DEF InsertRefused, Go, At, First, RanOnce, KeysHeld, TypeOK
<1>8. ASSUME NEW i \in Instances, Commit(i)
      PROVE  RanOnce'
  BY <1>8 DEF Commit, CommitFile, NowRecorded, Go, At, First, RanOnce, KeysHeld, TypeOK
<1>9. ASSUME NEW i \in Instances, Serve(i)
      PROVE  RanOnce'
  BY <1>9 DEF Serve, AllApplied, Go, At, First, RanOnce, KeysHeld, TypeOK
<1>10. ASSUME NEW i \in Instances, Stop(i)
      PROVE  RanOnce'
  BY <1>10 DEF Stop, Fault, CommitFile, NowRecorded, Go, At, First, RanOnce, KeysHeld, TypeOK
<1> QED
  BY <1>1, <1>2, <1>3, <1>4, <1>5, <1>6, <1>7, <1>8, <1>9, <1>10 DEF Next, Apply, Terminated

--------------------------------------------------------------------------------
(* Theorems *)

IInv == TypeOK /\ LoopInv /\ KeysHeld /\ RanOnce

LEMMA Invariant == Spec => []IInv
<1>1. Init => IInv
  BY InitInv DEF IInv
<1>2. IInv /\ [Next]_vars => IInv'
  BY TypeStep, LoopStep, KeysStep, RanStep DEF IInv
<1> QED
  BY <1>1, <1>2, PTL DEF Spec

\* Every variable keeps to its type, for any set of instances and files.
THEOREM TypeCorrect == Spec => []TypeOK
BY Invariant, PTL DEF IInv

\* The statements of a migration file are committed once if it is recorded and
\* never otherwise, however many instances race and crash.
THEOREM EachRunsOnce == Spec => []RanOnce
BY Invariant, PTL DEF IInv

\* No instance serves requests before all the files of its version are recorded.
THEOREM ServedSchema == Spec => []ServesMigratedSchema
<1>1. IInv => ServesMigratedSchema
  BY DEF IInv, LoopInv, Passed, Served, ServesMigratedSchema, At, InLoop
<1> QED
  BY <1>1, Invariant, PTL

\* A file is recorded only after every earlier file of the version that runs it.
THEOREM RunsInOrder == Spec => InOrder
<1> DEFINE Ordered ==
      \A f \in recorded' \ recorded :
        \E i \in Instances : f \in dir[i] /\ \A g \in dir[i] : g < f => g \in recorded
<1>1. ASSUME IInv, [Next]_vars
      PROVE  [Ordered]_vars
  <2>1. ASSUME NEW f \in recorded' \ recorded
        PROVE  \E i \in Instances : First(i, f) /\ At(i, "inserted")
    <3>1. ASSUME NEW i \in Instances, Commit(i)
          PROVE  \E j \in Instances : First(j, f) /\ At(j, "inserted")
      BY <2>1, <3>1 DEF Commit, CommitFile, NowRecorded
    <3>2. ASSUME NEW i \in Instances, Stop(i)
          PROVE  \E j \in Instances : First(j, f) /\ At(j, "inserted")
      BY <2>1, <3>2 DEF Stop, CommitFile, NowRecorded
    <3>3. recorded' # recorded
      BY <2>1
    <3> QED
      BY <1>1, <3>1, <3>2, <3>3
        DEF Next, Apply, Terminated, vars, Start, EnsureTable, Skip, Execute, Insert,
            InsertRefused, Serve
  <2>2. ASSUME NEW f \in recorded' \ recorded, NEW i \in Instances,
               First(i, f), At(i, "inserted")
        PROVE  f \in dir[i] /\ \A g \in dir[i] : g < f => g \in recorded
    <3>1. /\ f \in todo[i] /\ \A g \in todo[i] : f <= g
          /\ todo[i] \subseteq dir[i] /\ dir[i] \ todo[i] \subseteq recorded
          /\ dir[i] \subseteq Nat
      BY <1>1, <2>2, FilesAssumption
        DEF IInv, TypeOK, LoopInv, Served, Passed, At, InLoop, First
    <3>2. \A g \in todo[i] : ~(g < f)
      BY <3>1
    <3> QED
      BY <3>1, <3>2
  <2> QED
    BY <2>1, <2>2
<1> QED
  BY <1>1, Invariant, PTL DEF Spec, InOrder
================================================================================
