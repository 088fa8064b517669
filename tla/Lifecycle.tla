----------------------------- MODULE Lifecycle -----------------------------
(***************************************************************************)
(* Creating, opening and migrating a project: Project.create and           *)
(* Project.open of ultron/project/store.py, connect, current_version and   *)
(* migrate of ultron/project/db.py, run by several processes of the same   *)
(* build on the same directory.                                            *)
(*                                                                         *)
(* Every statement commits by itself, except that a migration's script is  *)
(* one transaction.  The script and the row that records its version are   *)
(* two commits, and the four rows that name a project are four more.       *)
(*                                                                         *)
(* pc[p] says where process p is:                                          *)
(*   outside    not started                                                *)
(*   starting   its test for the database file is passed                   *)
(*   reading    connected, about to read the schema version                *)
(*   script     about to run migration at[p] + 1                           *)
(*   record     its script is committed, the version row is not written    *)
(*   identity   migrated, create is about to look for the project id       *)
(*   naming     create is writing the identity rows, named[p] are done     *)
(*   open       the Project was returned                                   *)
(*   refused    create or open raised a ProjectError                       *)
(*   broken     SQLite raised: the script's tables are there already       *)
(*   gone       killed, or a busy database made a statement raise          *)
(***************************************************************************)
EXTENDS Naturals, Sequences

CONSTANTS
    Procs,          \* processes, each of which creates or opens once
    Modes,          \* the calls they make: a subset of AllModes
    SchemaVersion,  \* the schema of this build, one for each migration
    MaxVersion,     \* a newer build may have left a project up to this one
    Before,         \* who created a project that is there at the start
    None

AllModes == {"create", "force", "open", "readonly"}

ASSUME LifecycleAssumption ==
    /\ Modes \subseteq AllModes
    /\ SchemaVersion \in Nat \ {0}
    /\ MaxVersion \in Nat /\ MaxVersion >= SchemaVersion
    /\ {None, Before} \cap Procs = {} /\ None # Before

\* The rows create writes, in order.
IdentityKeys == <<"project_id", "project_name", "created_at", "ultron_version">>

VARIABLES
    file,     \* whether ultron.db exists
    applied,  \* how many migrations' tables the database has
    version,  \* the schema_version row of meta, 0 when there is none
    meta,     \* identity row -> the process whose value it has, or None
    pc,       \* where each process is
    mode,     \* what it was called for
    at,       \* the version its loop has come to
    named     \* how many identity rows it has written

disk == <<file, applied, version, meta>>
procs == <<pc, mode, at, named>>
vars == <<disk, procs>>

Places == {"outside", "starting", "reading", "script", "record", "identity",
           "naming", "open", "refused", "broken", "gone"}

TypeOK ==
    /\ file \in BOOLEAN
    /\ applied \in 0..MaxVersion
    /\ version \in 0..MaxVersion
    /\ meta \in [1..Len(IdentityKeys) -> Procs \cup {Before, None}]
    /\ pc \in [Procs -> Places]
    /\ mode \in [Procs -> AllModes]
    /\ at \in [Procs -> 0..MaxVersion]
    /\ named \in [Procs -> 0..Len(IdentityKeys)]

\* There is no project yet, or one that this build, an older or a newer one
\* has left, with the rows that name it.
Init ==
    /\ version \in 0..MaxVersion
    /\ applied = version
    /\ file = (version > 0)
    /\ meta = [i \in 1..Len(IdentityKeys) |-> IF version > 0 THEN Before ELSE None]
    /\ pc = [p \in Procs |-> "outside"]
    /\ mode \in [Procs -> Modes]
    /\ at = [p \in Procs |-> 0]
    /\ named = [p \in Procs |-> 0]

Goto(p, l) == pc' = [pc EXCEPT ![p] = l]

\* Where a process goes once the schema is up to date.
Migrated(p) == IF mode[p] \in {"create", "force"} THEN "identity" ELSE "open"
-----------------------------------------------------------------------------
(* Project.create and Project.open *)

\* The test for the database file.
Start(p) ==
    /\ pc[p] = "outside"
    /\ Goto(p, CASE mode[p] = "create" -> IF file THEN "refused" ELSE "starting"
                 [] mode[p] = "force" -> "starting"
                 [] OTHER -> IF file THEN "starting" ELSE "refused")
    /\ UNCHANGED <<disk, mode, at, named>>

\* sqlite3.connect creates an empty file where there is none.
Connect(p) ==
    /\ pc[p] = "starting"
    /\ file' = TRUE
    /\ Goto(p, "reading")
    /\ UNCHANGED <<applied, version, meta, mode, at, named>>

\* A read-only open that does not look at the version.
ReadUnchecked(p) ==
    /\ pc[p] = "reading"
    /\ at' = [at EXCEPT ![p] = version]
    /\ Goto(p, IF mode[p] = "readonly" THEN "open"
               ELSE CASE version > SchemaVersion -> "refused"
                      [] version = SchemaVersion -> Migrated(p)
                      [] version < SchemaVersion -> "script")
    /\ UNCHANGED <<disk, mode, named>>

\* current_version, which reads 0 when the table or the row is missing, and
\* what open and migrate decide from it.
Read(p) ==
    /\ pc[p] = "reading"
    /\ at' = [at EXCEPT ![p] = version]
    /\ Goto(p, CASE version = SchemaVersion -> Migrated(p)
                 [] version > SchemaVersion \/ mode[p] = "readonly" -> "refused"
                 [] OTHER -> "script")
    /\ UNCHANGED <<disk, mode, named>>

\* CREATE TABLE IF NOT EXISTS: a script that runs twice without complaint.
ScriptIdempotent(p) ==
    /\ pc[p] = "script"
    /\ applied' = IF applied > at[p] THEN applied ELSE at[p] + 1
    /\ Goto(p, "record")
    /\ UNCHANGED <<file, version, meta, mode, at, named>>

\* BEGIN; CREATE TABLE ...; COMMIT: one transaction, which raises when
\* another process, or one that died, has created the tables before.
Script(p) ==
    /\ pc[p] = "script"
    /\ IF applied > at[p]
       THEN Goto(p, "broken") /\ UNCHANGED applied
       ELSE Goto(p, "record") /\ applied' = at[p] + 1
    /\ UNCHANGED <<file, version, meta, mode, at, named>>

\* The version row, in autocommit; then the next turn of the loop.
Record(p) ==
    /\ pc[p] = "record"
    /\ version' = at[p] + 1
    /\ at' = [at EXCEPT ![p] = @ + 1]
    /\ Goto(p, IF at'[p] = SchemaVersion THEN Migrated(p) ELSE "script")
    /\ UNCHANGED <<file, applied, meta, mode, named>>

\* Only a missing project_id is looked for.
Look(p) ==
    /\ pc[p] = "identity"
    /\ Goto(p, IF meta[1] = None THEN "naming" ELSE "open")
    /\ UNCHANGED <<disk, mode, at, named>>

\* create returns before the last of its rows is written.
NameShort(p) ==
    /\ pc[p] = "naming"
    /\ named' = [named EXCEPT ![p] = @ + 1]
    /\ meta' = [meta EXCEPT ![named'[p]] = p]
    /\ Goto(p, IF named'[p] >= Len(IdentityKeys) - 1 THEN "open" ELSE "naming")
    /\ UNCHANGED <<file, applied, version, mode, at>>

\* _set_meta, an upsert of its own for each row.  Nothing looks at the rows
\* again: of two calls that both found no id, each writes its four over the
\* other's, in any order.
Name(p) ==
    /\ pc[p] = "naming"
    /\ named' = [named EXCEPT ![p] = @ + 1]
    /\ meta' = [meta EXCEPT ![named'[p]] = p]
    /\ Goto(p, IF named'[p] = Len(IdentityKeys) THEN "open" ELSE "naming")
    /\ UNCHANGED <<file, applied, version, mode, at>>

Working(p) == pc[p] \notin {"outside", "open", "refused", "broken", "gone"}

\* The process is killed, or a statement raises because a writer holds the
\* database past the busy timeout.  What it committed stays.
Vanish(p) ==
    /\ Working(p)
    /\ Goto(p, "gone")
    /\ UNCHANGED <<disk, mode, at, named>>

Step(p) ==
    \/ Connect(p) \/ Read(p) \/ Script(p) \/ Record(p) \/ Look(p) \/ Name(p)

Next == \E p \in Procs : Start(p) \/ Step(p) \/ Vanish(p)

Spec == Init /\ [][Next]_vars

-----------------------------------------------------------------------------
(* Safety *)

\* Whoever got a Project has the schema this build understands, all of it,
\* whatever other processes were migrating the same file (open, migrate).
OpenMeansMigrated ==
    \A p \in Procs :
        pc[p] = "open" => version = SchemaVersion /\ applied = SchemaVersion

\* The recorded version never claims tables that are not there, and lags one
\* migration behind them at most, over crashes and concurrent migrations.
VersionTellsTables == version <= applied /\ applied <= version + 1

\* A slow process never records an older version over a newer one: its
\* script fails on the tables of the process that overtook it.
VersionNeverGoesBack == [][version' >= version]_version

\* A project that create returned has an id, whoever wrote it.
CreatedHasIdentity ==
    \A p \in Procs :
        pc[p] = "open" /\ mode[p] \in {"create", "force"} => meta[1] # None

\* What was left of an identity says who is to blame: a project that has an
\* id lacks another of the rows only while the call whose id it has is still
\* writing them, or because that call died in between, and a call that wrote
\* rows never returns a project that lacks one.  Not promised: that the rows
\* are of one call, or that they stay, when two calls named the project at
\* once (create, which looks for the id alone before it writes four rows).
IdentityIsWhole ==
    /\ \A i \in 1..Len(IdentityKeys) :
        meta[1] # None /\ meta[i] = None =>
            /\ meta[1] \in Procs
            /\ pc[meta[1]] \in {"naming", "gone"}
            /\ named[meta[1]] \in 1..(i - 1)
    /\ \A p \in Procs :
        pc[p] = "open" /\ named[p] > 0 =>
            \A i \in 1..Len(IdentityKeys) : meta[i] # None

-----------------------------------------------------------------------------
(* What the documentation says and the code does not do *)

\* current_version: "Schema version recorded in meta; 0 for a fresh
\* database".  A database at version 0 that nobody is migrating is fresh.
VersionZeroIsFresh ==
    version = 0 /\ (\A p \in Procs : pc[p] # "record") => applied = 0
=============================================================================
