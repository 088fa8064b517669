----------------------------- MODULE Execution -----------------------------
(***************************************************************************)
(* A file runs under QEMU, is loaded somewhere, and its trace is imported: *)
(* QemuAdapter.analyze, or import_trace of a log that an earlier call or   *)
(* another machine left (ultron/adapters/qemu/__init__.py).  The code of   *)
(* the file is a set of functions; it is entered block by block, the first *)
(* block of a function before the others.  The user may know where the     *)
(* file was loaded.                                                        *)
(***************************************************************************)
EXTENDS Tracing

CONSTANTS
    None,
    Functions,   \* the functions of the file that the project knows
    Blocks,      \* the addresses at which blocks of it begin
    LoadedAt,    \* where the file may be loaded
    MaxEntered   \* bound: blocks entered in a run of the file

VARIABLES
    pc,        \* "idle", "running", "ended", "returned" or "raised"
    loaded,    \* where the file was loaded
    ran,       \* the functions that were entered
    log,       \* the addresses in the log on disk; None: there is no log
    reached    \* the function_reached claims, with hits and confidence

vars == <<pc, loaded, ran, log, reached>>

Init ==
    /\ pc = "idle"
    /\ loaded \in LoadedAt
    /\ ran = {} /\ log = None /\ reached = {}

\* Execution was not allowed, there is no emulator, or no such file.
Refuse ==
    /\ pc = "idle"
    /\ pc' = "raised"
    /\ UNCHANGED <<loaded, ran, log, reached>>

\* The emulator starts; some builds have no logging.
StartProcess ==
    /\ pc = "idle"
    /\ pc' = "running"
    /\ log' \in {None, << >>}
    /\ UNCHANGED <<loaded, ran, reached>>

\* The emulated process enters a block.
Enter(b) ==
    /\ pc = "running"
    /\ log # None => Len(log) < MaxEntered
    /\ \A f \in Holder(Functions, b) : b = f.start \/ f \in ran
    /\ ran' = ran \cup Holder(Functions, b)
    /\ log' = IF log = None THEN None ELSE Append(log, loaded + b)
    /\ UNCHANGED <<pc, loaded, reached>>

\* The process exits, whatever its code; without a log the call fails.
EndProcess ==
    /\ pc = "running"
    /\ pc' = IF log = None THEN "raised" ELSE "ended"
    /\ UNCHANGED <<loaded, ran, log, reached>>

\* The process is killed, and what it logged is left on disk.
Timeout ==
    /\ pc = "running"
    /\ pc' = "raised"
    /\ UNCHANGED <<loaded, ran, log, reached>>

\* What _import claims of a log.
Claims(given, base, counts) ==
    LET In(f) == Inside(counts, Functions, Offset(base, None), f)
    IN  {[function |-> f, hits |-> HitsIn(counts, In(f)),
          confidence |-> ReachConfidence(given, base, None)] :
            f \in {g \in Functions : In(g) # {}}}

\* The end of analyze: the log is imported, and removed unless it is kept.
Import(given) ==
    /\ pc = "ended"
    /\ LET counts == Hottest(log)
       IN  \E base \in BasesFor(given, counts, Functions, None) :
                reached' = reached \cup Claims(given, base, counts)
    /\ pc' = "returned"
    /\ log' \in {None, log}
    /\ UNCHANGED <<loaded, ran>>

\* import_trace: a log that is on disk, of a call that failed or kept it.
ImportTrace(given) ==
    /\ pc \in {"returned", "raised"} /\ log # None
    /\ LET counts == Hottest(log)
       IN  \E base \in BasesFor(given, counts, Functions, None) :
                reached' = reached \cup Claims(given, base, counts)
    /\ UNCHANGED <<pc, loaded, ran, log>>

\* The run of the import fails; the log stays.
FailImport ==
    /\ pc = "ended"
    /\ pc' = "raised"
    /\ UNCHANGED <<loaded, ran, log, reached>>

Next ==
    \/ Refuse \/ StartProcess \/ EndProcess \/ Timeout \/ FailImport
    \/ \E b \in Blocks : Enter(b)
    \/ \E given \in {None, loaded} : Import(given) \/ ImportTrace(given)

Spec == Init /\ [][Next]_vars

-----------------------------------------------------------------------------
(* Properties *)

\* A function that is said to be reached was entered: a trace that cannot be
\* aligned gives no claims rather than wrong ones.
NothingReachedUnrun == \A k \in reached : k.function \in ran
=============================================================================
