-------------------------- MODULE LifecycleProofs --------------------------
(***************************************************************************)
(* Proofs about Lifecycle, for any number of processes, any build and any  *)
(* project it finds.                                                       *)
(*                                                                         *)
(* The argument: at most one process is between the commit of a script and *)
(* the version row, because the commit makes every other process that is   *)
(* still before it fail.  So the process that records a version records    *)
(* the successor of the one that is there.  Of the identity rows it says   *)
(* which of them each process has written: nobody ever takes one away.     *)
(***************************************************************************)
EXTENDS Lifecycle, TLAPS

\* A process before a script is not ahead of the recorded version, and one
\* after it holds the only script the version row does not tell of.
MigratorsInv ==
    \A p \in Procs :
        /\ pc[p] = "script" => at[p] <= version /\ at[p] < SchemaVersion
        /\ pc[p] = "record" =>
            /\ at[p] = version /\ at[p] < SchemaVersion
            /\ applied = version + 1
            /\ \A q \in Procs : pc[q] = "record" => q = p

\* Tables that the version row does not tell of belong to a migration of
\* this build.
TablesInv == applied > version => version < SchemaVersion

\* Past the migration the schema is complete and stays so.
MigratedInv ==
    \A p \in Procs :
        pc[p] \in {"identity", "naming", "open"} =>
            version = SchemaVersion /\ applied = SchemaVersion

\* The rows a process has written are there, whoever wrote over them since;
\* the id is of a process that has written rows or of a whole identity; and
\* a process that returns has written none of them or all.
NamingInv ==
    /\ meta[1] = Before => \A i \in 1..4 : meta[i] # None
    /\ \A p \in Procs :
        /\ meta[1] = p => named[p] > 0
        /\ pc[p] \notin {"naming", "gone", "open"} => named[p] = 0
        /\ pc[p] = "naming" => named[p] < 4
        /\ pc[p] = "open" => named[p] \in {0, 4}
        /\ \A i \in 1..4 : i <= named[p] => meta[i] # None

\* Only calls that may name a project look for its name.
ModeInv ==
    \A p \in Procs :
        pc[p] \in {"identity", "naming"} => mode[p] \in {"create", "force"}

IInv ==
    /\ TypeOK
    /\ VersionTellsTables
    /\ MigratorsInv
    /\ TablesInv
    /\ MigratedInv
    /\ NamingInv
    /\ ModeInv
    /\ CreatedHasIdentity

LEMMA FourKeys == Len(IdentityKeys) = 4
  BY DEF IdentityKeys

\* The invariant holds initially.
LEMMA InitInv == Init => IInv
  <1> SUFFICES ASSUME Init PROVE IInv
    OBVIOUS
  <1> USE LifecycleAssumption, FourKeys
  <1>1. TypeOK
    <2>1. version \in 0..MaxVersion /\ applied \in 0..MaxVersion /\ file \in BOOLEAN
      BY DEF Init
    <2>2. meta \in [1..4 -> Procs \cup {Before, None}]
      BY DEF Init
    <2>3. pc \in [Procs -> Places] /\ mode \in [Procs -> AllModes]
      BY DEF Init, Places, AllModes
    <2>4. at \in [Procs -> 0..MaxVersion] /\ named \in [Procs -> 0..4]
      BY DEF Init
    <2> QED
      BY <2>1, <2>2, <2>3, <2>4 DEF TypeOK
  <1>2. VersionTellsTables /\ TablesInv
    BY DEF Init, VersionTellsTables, TablesInv
  <1>3. MigratorsInv /\ MigratedInv /\ ModeInv /\ CreatedHasIdentity
    BY DEF Init, MigratorsInv, MigratedInv, ModeInv, CreatedHasIdentity
  <1>4. NamingInv
    BY DEF Init, NamingInv
  <1> QED
    BY <1>1, <1>2, <1>3, <1>4 DEF IInv

-----------------------------------------------------------------------------
(* Each action preserves it *)

LEMMA StartInv == ASSUME IInv, NEW p \in Procs, Start(p) PROVE IInv'
  <1> USE LifecycleAssumption, FourKeys
  <1> DEFINE l == pc'[p]
  <1>1. /\ l \in {"starting", "refused"}
        /\ pc[p] = "outside"
        /\ pc' = [pc EXCEPT ![p] = l]
        /\ UNCHANGED <<file, applied, version, meta, mode, at, named>>
    BY DEF Start, Goto, disk, IInv, TypeOK
  <1> HIDE DEF l
  <1>2. TypeOK'
    BY <1>1 DEF IInv, TypeOK, Places
  <1>3. VersionTellsTables' /\ MigratorsInv' /\ TablesInv'
    BY <1>1 DEF IInv, TypeOK, VersionTellsTables, MigratorsInv, TablesInv
  <1>4. MigratedInv' /\ NamingInv' /\ ModeInv' /\ CreatedHasIdentity'
    BY <1>1 DEF IInv, TypeOK, MigratedInv, NamingInv, ModeInv, CreatedHasIdentity
  <1> QED
    BY <1>2, <1>3, <1>4 DEF IInv

LEMMA ConnectInv == ASSUME IInv, NEW p \in Procs, Connect(p) PROVE IInv'
  <1> USE LifecycleAssumption, FourKeys
  <1>1. /\ pc[p] = "starting"
        /\ pc' = [pc EXCEPT ![p] = "reading"]
        /\ file' = TRUE
        /\ UNCHANGED <<applied, version, meta, mode, at, named>>
    BY DEF Connect, Goto
  <1>2. TypeOK'
    BY <1>1 DEF IInv, TypeOK, Places
  <1>3. VersionTellsTables' /\ MigratorsInv' /\ TablesInv'
    BY <1>1 DEF IInv, TypeOK, VersionTellsTables, MigratorsInv, TablesInv
  <1>4. MigratedInv' /\ NamingInv' /\ ModeInv' /\ CreatedHasIdentity'
    BY <1>1 DEF IInv, TypeOK, MigratedInv, NamingInv, ModeInv, CreatedHasIdentity
  <1> QED
    BY <1>2, <1>3, <1>4 DEF IInv

LEMMA VanishInv == ASSUME IInv, NEW p \in Procs, Vanish(p) PROVE IInv'
  <1> USE LifecycleAssumption, FourKeys
  <1>1. /\ pc' = [pc EXCEPT ![p] = "gone"]
        /\ UNCHANGED <<file, applied, version, meta, mode, at, named>>
    BY DEF Vanish, Goto, disk
  <1>2. TypeOK'
    BY <1>1 DEF IInv, TypeOK, Places
  <1>3. VersionTellsTables' /\ MigratorsInv' /\ TablesInv'
    BY <1>1 DEF IInv, TypeOK, VersionTellsTables, MigratorsInv, TablesInv
  <1>4. MigratedInv' /\ NamingInv' /\ ModeInv' /\ CreatedHasIdentity'
    BY <1>1 DEF IInv, TypeOK, MigratedInv, NamingInv, ModeInv, CreatedHasIdentity
  <1> QED
    BY <1>2, <1>3, <1>4 DEF IInv

LEMMA ReadInv == ASSUME IInv, NEW p \in Procs, Read(p) PROVE IInv'
  <1> USE LifecycleAssumption, FourKeys
  <1> DEFINE l == pc'[p]
  <1>1. /\ pc[p] = "reading"
        /\ pc' = [pc EXCEPT ![p] = l]
        /\ at' = [at EXCEPT ![p] = version]
        /\ UNCHANGED <<file, applied, version, meta, mode, named>>
    BY DEF Read, Goto, disk, IInv, TypeOK
  <1>2. \/ version = SchemaVersion /\ l = Migrated(p)
        \/ l = "refused"
        \/ version < SchemaVersion /\ l = "script"
    BY DEF Read, Goto, IInv, TypeOK
  <1> HIDE DEF l
  <1>3. /\ l \in {"identity", "open", "refused", "script"}
        /\ l = "script" => version < SchemaVersion
        /\ l \in {"identity", "open"} =>
             version = SchemaVersion /\ applied = SchemaVersion
        /\ l = "identity" => mode[p] \in {"create", "force"}
        /\ l = "open" => mode[p] \notin {"create", "force"}
    BY <1>2 DEF Migrated, IInv, TypeOK, VersionTellsTables, TablesInv
  <1>4. TypeOK'
    BY <1>1, <1>3 DEF IInv, TypeOK, Places
  <1>5. VersionTellsTables' /\ TablesInv'
    BY <1>1 DEF IInv, TypeOK, VersionTellsTables, TablesInv
  <1>6. MigratorsInv'
    BY <1>1, <1>3 DEF IInv, TypeOK, MigratorsInv
  <1>7. MigratedInv' /\ NamingInv' /\ ModeInv' /\ CreatedHasIdentity'
    BY <1>1, <1>3 DEF IInv, TypeOK, MigratedInv, NamingInv, ModeInv, CreatedHasIdentity
  <1> QED
    BY <1>4, <1>5, <1>6, <1>7 DEF IInv

\* Only the process whose version is the recorded one gets its script done,
\* and then it is the only one.
LEMMA ScriptInv == ASSUME IInv, NEW p \in Procs, Script(p) PROVE IInv'
  <1> USE LifecycleAssumption, FourKeys
  <1>1. UNCHANGED <<file, version, meta, mode, at, named>> /\ pc[p] = "script"
    BY DEF Script
  <1>2. at[p] <= version /\ at[p] < SchemaVersion
    BY <1>1 DEF IInv, MigratorsInv
  <1>3. CASE applied > at[p]
    <2>1. pc' = [pc EXCEPT ![p] = "broken"] /\ applied' = applied
      BY <1>3 DEF Script, Goto
    <2>2. TypeOK'
      BY <1>1, <2>1 DEF IInv, TypeOK, Places
    <2>3. VersionTellsTables' /\ MigratorsInv' /\ TablesInv'
      BY <1>1, <2>1 DEF IInv, TypeOK, VersionTellsTables, MigratorsInv, TablesInv
    <2>4. MigratedInv' /\ NamingInv' /\ ModeInv' /\ CreatedHasIdentity'
      BY <1>1, <2>1 DEF IInv, TypeOK, MigratedInv, NamingInv, ModeInv, CreatedHasIdentity
    <2> QED
      BY <2>2, <2>3, <2>4 DEF IInv
  <1>4. CASE ~(applied > at[p])
    <2>1. pc' = [pc EXCEPT ![p] = "record"] /\ applied' = at[p] + 1
      BY <1>4 DEF Script, Goto
    <2>2. at[p] = version /\ applied = version /\ version < SchemaVersion
      BY <1>2, <1>4 DEF IInv, TypeOK, VersionTellsTables
    <2>3. \A q \in Procs : pc[q] \notin {"record", "identity", "naming", "open"}
      BY <2>2 DEF IInv, TypeOK, MigratorsInv, MigratedInv
    <2>4. TypeOK'
      BY <1>1, <2>1, <2>2 DEF IInv, TypeOK, Places
    <2>5. VersionTellsTables' /\ TablesInv'
      BY <1>1, <2>1, <2>2 DEF IInv, TypeOK, VersionTellsTables, TablesInv
    <2>6. MigratorsInv'
      BY <1>1, <2>1, <2>2, <2>3 DEF IInv, TypeOK, MigratorsInv
    <2>7. MigratedInv' /\ NamingInv' /\ ModeInv' /\ CreatedHasIdentity'
      BY <1>1, <2>1, <2>3 DEF IInv, TypeOK, MigratedInv, NamingInv, ModeInv, CreatedHasIdentity
    <2> QED
      BY <2>4, <2>5, <2>6, <2>7 DEF IInv
  <1> QED
    BY <1>3, <1>4

\* The one process past its script records the successor of the version.
LEMMA RecordInv == ASSUME IInv, NEW p \in Procs, Record(p)
                   PROVE IInv' /\ version' = version + 1
  <1> USE LifecycleAssumption, FourKeys
  <1> DEFINE l == pc'[p]
  <1>1. /\ pc[p] = "record"
        /\ version' = at[p] + 1
        /\ at' = [at EXCEPT ![p] = at[p] + 1]
        /\ pc' = [pc EXCEPT ![p] = l]
        /\ UNCHANGED <<file, applied, meta, mode, named>>
    BY DEF Record, Goto, IInv, TypeOK
  <1>2. /\ at[p] = version /\ version < SchemaVersion /\ applied = version + 1
        /\ \A q \in Procs \ {p} : pc[q] # "record"
    BY <1>1 DEF IInv, MigratorsInv
  <1>3. /\ l \in {"identity", "open", "script"}
        /\ l = "script" => at[p] + 1 < SchemaVersion
        /\ l \in {"identity", "open"} => at[p] + 1 = SchemaVersion
        /\ l = "identity" => mode[p] \in {"create", "force"}
        /\ l = "open" => mode[p] \notin {"create", "force"}
    BY <1>1, <1>2 DEF Record, Goto, Migrated, IInv, TypeOK
  <1> HIDE DEF l
  <1>4. \A q \in Procs : pc[q] \notin {"identity", "naming", "open"}
    <2>1. version # SchemaVersion
      BY <1>2 DEF IInv, TypeOK
    <2> QED
      BY <2>1 DEF IInv, MigratedInv
  <1>5. TypeOK'
    BY <1>1, <1>2, <1>3 DEF IInv, TypeOK, Places
  <1>6. VersionTellsTables' /\ TablesInv'
    BY <1>1, <1>2 DEF IInv, TypeOK, VersionTellsTables, TablesInv
  <1>7. MigratorsInv'
    BY <1>1, <1>2, <1>3 DEF IInv, TypeOK, MigratorsInv
  <1>8. MigratedInv' /\ NamingInv' /\ ModeInv' /\ CreatedHasIdentity'
    BY <1>1, <1>2, <1>3, <1>4 DEF IInv, TypeOK, MigratedInv, NamingInv, ModeInv, CreatedHasIdentity
  <1> QED
    BY <1>1, <1>2, <1>5, <1>6, <1>7, <1>8 DEF IInv

LEMMA LookInv == ASSUME IInv, NEW p \in Procs, Look(p) PROVE IInv'
  <1> USE LifecycleAssumption, FourKeys
  <1> DEFINE l == pc'[p]
  <1>1. /\ pc[p] = "identity"
        /\ pc' = [pc EXCEPT ![p] = l]
        /\ l = IF meta[1] = None THEN "naming" ELSE "open"
        /\ UNCHANGED <<file, applied, version, meta, mode, at, named>>
    BY DEF Look, Goto, disk, IInv, TypeOK
  <1> HIDE DEF l
  <1>2. TypeOK'
    BY <1>1 DEF IInv, TypeOK, Places
  <1>3. VersionTellsTables' /\ MigratorsInv' /\ TablesInv'
    BY <1>1 DEF IInv, TypeOK, VersionTellsTables, MigratorsInv, TablesInv
  <1>4. MigratedInv' /\ ModeInv' /\ CreatedHasIdentity'
    BY <1>1 DEF IInv, TypeOK, MigratedInv, ModeInv, CreatedHasIdentity
  <1>5. NamingInv'
    BY <1>1 DEF IInv, TypeOK, NamingInv
  <1> QED
    BY <1>2, <1>3, <1>4, <1>5 DEF IInv

LEMMA NameInv == ASSUME IInv, NEW p \in Procs, Name(p) PROVE IInv'
  <1> USE LifecycleAssumption, FourKeys
  <1> DEFINE n == named[p] + 1
             l == IF n = 4 THEN "open" ELSE "naming"
  <1>1. /\ pc[p] = "naming"
        /\ named' = [named EXCEPT ![p] = n]
        /\ named'[p] = n
        /\ meta' = [meta EXCEPT ![n] = p]
        /\ pc' = [pc EXCEPT ![p] = l]
        /\ UNCHANGED <<file, applied, version, mode, at>>
    BY DEF Name, Goto, IInv, TypeOK
  <1>2. n \in 1..4 /\ meta \in [1..4 -> Procs \cup {Before, None}]
    BY <1>1 DEF IInv, TypeOK, NamingInv
  <1>3. \A i \in 1..4 : meta[i] # None \/ i <= n => meta'[i] # None
    <2>1. \A i \in 1..4 : i <= named[p] => meta[i] # None
      BY DEF IInv, NamingInv
    <2>2. p # None /\ named[p] \in 0..4
      BY DEF IInv, TypeOK
    <2> QED
      BY <1>1, <1>2, <2>1, <2>2
  <1>4. meta'[1] = IF n = 1 THEN p ELSE meta[1]
    BY <1>1, <1>2
  <1>5. meta'[1] # None
    BY <1>2, <1>3
  <1>6. /\ l \in {"open", "naming"}
        /\ l = "naming" => n < 4
        /\ l = "open" => n = 4
    BY <1>2
  <1> HIDE DEF n, l
  <1>7. TypeOK'
    BY <1>1, <1>2, <1>6 DEF IInv, TypeOK, Places
  <1>8. VersionTellsTables' /\ MigratorsInv' /\ TablesInv'
    BY <1>1, <1>6 DEF IInv, TypeOK, VersionTellsTables, MigratorsInv, TablesInv
  <1>9. MigratedInv' /\ ModeInv'
    BY <1>1, <1>6 DEF IInv, TypeOK, MigratedInv, ModeInv
  <1>10. NamingInv'
    <2>1. meta'[1] = Before => \A i \in 1..4 : meta'[i] # None
      <3>1. p # Before
        BY DEF IInv, TypeOK
      <3> QED
        BY <1>3, <1>4, <3>1 DEF IInv, NamingInv
    <2>2. ASSUME NEW q \in Procs
          PROVE  /\ meta'[1] = q => named'[q] > 0
                 /\ pc'[q] \notin {"naming", "gone", "open"} => named'[q] = 0
                 /\ pc'[q] = "naming" => named'[q] < 4
                 /\ pc'[q] = "open" => named'[q] \in {0, 4}
                 /\ \A i \in 1..4 : i <= named'[q] => meta'[i] # None
      <3>1. CASE q = p
        BY <1>1, <1>2, <1>3, <1>6, <3>1 DEF IInv, TypeOK
      <3>2. CASE q # p
        <4>1. named'[q] = named[q] /\ pc'[q] = pc[q]
          BY <1>1, <3>2 DEF IInv, TypeOK
        <4>2. meta'[1] = q => meta[1] = q
          BY <1>4, <3>2
        <4> QED
          BY <1>3, <4>1, <4>2 DEF IInv, NamingInv
      <3> QED
        BY <3>1, <3>2
    <2> QED
      BY <2>1, <2>2 DEF NamingInv
  <1>11. CreatedHasIdentity'
    BY <1>5 DEF CreatedHasIdentity
  <1> QED
    BY <1>7, <1>8, <1>9, <1>10, <1>11 DEF IInv

LEMMA StutterInv == ASSUME IInv, UNCHANGED vars PROVE IInv'
  <1>1. UNCHANGED <<file, applied, version, meta, pc, mode, at, named>>
    BY DEF vars, disk, procs
  <1> QED
    BY <1>1 DEF IInv, TypeOK, VersionTellsTables, MigratorsInv, TablesInv,
        MigratedInv, NamingInv, ModeInv, CreatedHasIdentity

\* Every step preserves the invariant and never takes the version back.
LEMMA StepInv == ASSUME IInv, [Next]_vars PROVE IInv' /\ version' >= version
  <1> USE FourKeys
  <1>0. version \in Nat
    BY LifecycleAssumption DEF IInv, TypeOK
  <1>1. CASE UNCHANGED vars
    BY <1>0, <1>1, StutterInv DEF vars, disk
  <1>2. ASSUME NEW p \in Procs,
               Start(p) \/ Vanish(p) \/ Connect(p) \/ Read(p) \/ Look(p)
        PROVE  IInv' /\ version' = version
    <2>1. IInv'
      BY <1>2, StartInv, VanishInv, ConnectInv, ReadInv, LookInv
    <2>2. version' = version
      BY <1>2 DEF Start, Vanish, Connect, Read, Look, disk
    <2> QED
      BY <2>1, <2>2
  <1>3. ASSUME NEW p \in Procs, Script(p) PROVE IInv' /\ version' = version
    BY <1>3, ScriptInv DEF Script
  <1>4. ASSUME NEW p \in Procs, Record(p) PROVE IInv' /\ version' = version + 1
    BY <1>4, RecordInv DEF Record
  <1>5. ASSUME NEW p \in Procs, Name(p) PROVE IInv' /\ version' = version
    BY <1>5, NameInv DEF Name
  <1> QED
    BY <1>0, <1>1, <1>2, <1>3, <1>4, <1>5 DEF Next, Step

-----------------------------------------------------------------------------

\* The invariant holds for ever.
THEOREM Invariance == Spec => []IInv
  <1>1. IInv /\ [Next]_vars => IInv'
    BY StepInv
  <1> QED
    BY <1>1, InitInv, PTL DEF Spec

\* Type correctness of Lifecycle.
THEOREM LifecycleTypeCorrect == Spec => []TypeOK
  <1>1. IInv => TypeOK
    BY DEF IInv
  <1> QED
    BY <1>1, Invariance, PTL

\* A project that create or open returned has the whole schema of the build,
\* and the version row never tells of tables that are not there.
THEOREM OpenProjectsAreMigrated == Spec => [](OpenMeansMigrated /\ VersionTellsTables)
  <1>1. IInv => OpenMeansMigrated /\ VersionTellsTables
    BY DEF IInv, MigratedInv, OpenMeansMigrated
  <1> QED
    BY <1>1, Invariance, PTL

\* The recorded schema version never goes back, however migrations overlap.
THEOREM VersionIsMonotone == Spec => VersionNeverGoesBack
  <1>1. IInv /\ [Next]_vars => [version' >= version]_version
    BY StepInv
  <1> QED
    BY <1>1, Invariance, PTL DEF Spec, VersionNeverGoesBack

\* A project that create returned has an id.  A project with an id lacks
\* another identity row only while the call that wrote the id is at it, or
\* when that call died before the row; and a call that named the project does
\* not return before all four rows are there (store.py, create), whatever
\* other calls name it at the same time.
THEOREM IdentityIsWritten == Spec => [](CreatedHasIdentity /\ IdentityIsWhole)
  <1>1. ASSUME IInv PROVE IdentityIsWhole
    <2> USE FourKeys
    <2>1. ASSUME NEW i \in 1..4, meta[1] # None, meta[i] = None
          PROVE  /\ meta[1] \in Procs
                 /\ pc[meta[1]] \in {"naming", "gone"}
                 /\ named[meta[1]] \in 1..(i - 1)
      <3>1. meta[1] \in Procs
        BY <1>1, <2>1 DEF IInv, TypeOK, NamingInv
      <3>2. PICK p \in Procs : p = meta[1]
        BY <3>1
      <3>3. named[p] \in 0..4 /\ named[p] > 0 /\ ~(i <= named[p])
        BY <1>1, <2>1, <3>2 DEF IInv, TypeOK, NamingInv
      <3>4. pc[p] \in {"naming", "gone"}
        BY <1>1, <3>3 DEF IInv, NamingInv
      <3> QED
        BY <3>2, <3>3, <3>4
    <2>2. ASSUME NEW p \in Procs, pc[p] = "open", named[p] > 0
          PROVE  \A i \in 1..4 : meta[i] # None
      <3>1. named[p] = 4
        BY <1>1, <2>2 DEF IInv, NamingInv
      <3> QED
        BY <1>1, <3>1 DEF IInv, NamingInv
    <2> QED
      BY <2>1, <2>2 DEF IdentityIsWhole
  <1>2. IInv => CreatedHasIdentity /\ IdentityIsWhole
    BY <1>1 DEF IInv
  <1> QED
    BY <1>2, Invariance, PTL
=============================================================================
