------------------------------- MODULE Store -------------------------------
(***************************************************************************)
(* The project store: Project.run, RunContext and set_claim_status of      *)
(* ultron/project/store.py, executed by several processes that each hold   *)
(* one connection to the same SQLite database (WAL, busy timeout, manual   *)
(* transactions: ultron/project/db.py, connect).                           *)
(*                                                                         *)
(* SQLite admits one writer.  A connection becomes the writer at its first *)
(* write after BEGIN, the INSERT INTO runs; until it commits, its changes  *)
(* are in pend, which nobody else sees.  A connection that waits longer    *)
(* than the busy timeout gets an error instead of the lock.                *)
(*                                                                         *)
(* pc[c] says where connection c is:                                       *)
(*   closed     no process has it open                                     *)
(*   idle       open, in no run                                            *)
(*   begun      BEGIN is done, INSERT INTO runs waits for the write lock   *)
(*   body       inside "with project.run() as rc"                          *)
(*   raising    the body raised and the except clause has not run yet      *)
(*   recording  ROLLBACK is done, the failed row waits for the write lock  *)
(*   wedged     run() raised before its try block: BEGIN is still in force *)
(*                                                                         *)
(* A server (ultron mcp) answers an exception and goes on with the same    *)
(* connection; every other process is a command that ends with it.         *)
(***************************************************************************)
EXTENDS EvidenceGraph

CONSTANTS
    Conns,    \* connections, one for each process
    Servers,  \* those of long-lived MCP servers
    None

ASSUME StoreAssumption ==
    /\ Servers \subseteq Conns
    /\ None \notin Conns
    /\ None \notin Runs

VARIABLES
    db,      \* the committed graph
    pend,    \* the graph as the lock holder sees it; db when nobody holds it
    lock,    \* the connection that holds SQLite's write lock, or None
    pc,      \* where each connection is
    cur,     \* the run id each connection minted last
    raised   \* runs whose body's exception has reached the caller of run()

vars == <<db, pend, lock, pc, cur, raised>>

Locations ==
    {"closed", "idle", "begun", "body", "raising", "recording", "wedged"}

TypeOK ==
    /\ db \in Graphs
    /\ pend \in Graphs
    /\ lock \in Conns \cup {None}
    /\ pc \in [Conns -> Locations]
    /\ cur \in [Conns -> Runs \cup {None}]
    /\ raised \subseteq Runs

Init ==
    /\ db = EmptyGraph
    /\ pend = EmptyGraph
    /\ lock = None
    /\ pc = [c \in Conns |-> "closed"]
    /\ cur = [c \in Conns |-> None]
    /\ raised = {}

Goto(c, l) == pc' = [pc EXCEPT ![c] = l]

Minted ==
    {cur[c] : c \in Conns} \cup {r \in Runs : db.runs[r] # "absent"} \cup raised

\* Where a process is once an exception has left run(): a server reports it
\* and serves the next message, a command exits and closes its connection.
AfterError(c) == IF c \in Servers THEN "idle" ELSE "closed"

-----------------------------------------------------------------------------
(* Processes *)

Open(c) ==
    /\ pc[c] = "closed"
    /\ Goto(c, "idle")
    /\ UNCHANGED <<db, pend, lock, cur, raised>>

\* The process closes its connection, or is killed: whatever transaction it
\* had open is discarded and its lock released.
Stop(c) ==
    /\ pc[c] # "closed"
    /\ Goto(c, "closed")
    /\ lock' = IF lock = c THEN None ELSE lock
    /\ pend' = IF lock = c THEN db ELSE pend
    /\ UNCHANGED <<db, cur, raised>>

-----------------------------------------------------------------------------
(* Project.run: opening *)

\* A new run id and BEGIN.  The transaction is deferred: no lock yet.
Begin(c) ==
    /\ pc[c] = "idle"
    /\ \E r \in Runs \ Minted : cur' = [cur EXCEPT ![c] = r]
    /\ Goto(c, "begun")
    /\ UNCHANGED <<db, pend, lock, raised>>

\* The opening without its BEGIN: the running row commits at once.
InsertRunAutocommit(c) ==
    /\ pc[c] = "begun"
    /\ lock = None
    /\ lock' = c
    /\ db' = SetRun(db, cur[c], "running")
    /\ pend' = db'
    /\ Goto(c, "body")
    /\ UNCHANGED <<cur, raised>>

\* INSERT INTO runs takes the lock, and with it the latest committed graph.
InsertRun(c) ==
    /\ pc[c] = "begun"
    /\ lock = None
    /\ lock' = c
    /\ pend' = SetRun(db, cur[c], "running")
    /\ Goto(c, "body")
    /\ UNCHANGED <<db, cur, raised>>

\* The busy timeout passes first.  The INSERT raises outside the try block,
\* so nothing rolls the BEGIN back.
InsertRunBusy(c) ==
    /\ pc[c] = "begun"
    /\ lock \notin {None, c}
    /\ Goto(c, IF c \in Servers THEN "wedged" ELSE "closed")
    /\ UNCHANGED <<db, pend, lock, cur, raised>>

-----------------------------------------------------------------------------
(* RunContext: the writes of the body *)

InBody(c) ==
    /\ pc[c] = "body"
    /\ UNCHANGED <<db, lock, cur, raised>>

\* add_artifact with the foreign keys of the row checked.  The MCP tools
\* write no artifacts.
AddArtifact(c, a) ==
    /\ InBody(c)
    /\ c \notin Servers
    /\ OwnersPresent(pend, a)
    /\ pend' = PutArtifact(pend, a, cur[c])
    /\ UNCHANGED pc

AddClaim(c, k) ==
    /\ InBody(c)
    /\ Citable(pend, k)
    /\ pend' = PutClaim(pend, k, cur[c])
    /\ UNCHANGED pc

\* A body that swallows the refusal of an attestation and goes on.
AddClaimSwallowed(c, k) ==
    /\ InBody(c)
    /\ Citable(pend, k)
    /\ pend' = PutClaimRow(pend, k)
    /\ UNCHANGED pc

\* add_claim whose attestation is refused (a confidence outside [0, 1]): the
\* claim row is already written when Attestation.create raises.
AddClaimUnattested(c, k) ==
    /\ InBody(c)
    /\ Citable(pend, k)
    /\ pend' = PutClaimRow(pend, k)
    /\ Goto(c, "raising")

LinkClaims(c, j, k) ==
    /\ InBody(c)
    /\ c \notin Servers
    /\ Linkable(pend, j, k)
    /\ pend' = PutLink(pend, j, k)
    /\ UNCHANGED pc

Annotate(c, n) ==
    /\ InBody(c)
    /\ pend' = PutNote(pend, n)
    /\ UNCHANGED pc

\* Any other exception in the body: an engine that fails, a schema error, a
\* claim that cites what is not there, Ctrl-C.
Raise(c) ==
    /\ InBody(c)
    /\ Goto(c, "raising")
    /\ UNCHANGED pend

-----------------------------------------------------------------------------
(* Project.run: closing *)

\* UPDATE runs SET status = 'ok' and COMMIT.
Commit(c) ==
    /\ pc[c] = "body"
    /\ db' = SetRun(pend, cur[c], "ok")
    /\ pend' = db'
    /\ lock' = None
    /\ Goto(c, "idle")
    /\ UNCHANGED <<cur, raised>>

\* The except clause with its ROLLBACK replaced by a COMMIT.
RollbackCommits(c) ==
    /\ pc[c] = "raising"
    /\ db' = pend
    /\ pend' = db'
    /\ lock' = None
    /\ Goto(c, "recording")
    /\ UNCHANGED <<cur, raised>>

\* The except clause catching Exception only: Ctrl-C leaves the run open.
RollbackSkipped(c) ==
    /\ pc[c] = "raising"
    /\ Goto(c, "idle")
    /\ UNCHANGED <<db, pend, lock, cur, raised>>

Rollback(c) ==
    /\ pc[c] = "raising"
    /\ pend' = db
    /\ lock' = None
    /\ Goto(c, "recording")
    /\ UNCHANGED <<db, cur, raised>>

\* INSERT OR REPLACE of the failed row, a transaction of its own.
RecordFailure(c) ==
    /\ pc[c] = "recording"
    /\ lock = None
    /\ db' = SetRun(db, cur[c], "failed")
    /\ pend' = db'
    /\ raised' = raised \cup {cur[c]}
    /\ Goto(c, AfterError(c))
    /\ UNCHANGED <<lock, cur>>

\* Another writer has taken the lock since the ROLLBACK and keeps it past
\* the busy timeout: the INSERT raises in the except clause.
RecordFailureBusy(c) ==
    /\ pc[c] = "recording"
    /\ lock \notin {None, c}
    /\ raised' = raised \cup {cur[c]}
    /\ Goto(c, AfterError(c))
    /\ UNCHANGED <<db, pend, lock, cur>>

-----------------------------------------------------------------------------
(* Project.set_claim_status: one UPDATE in autocommit, outside any run.    *)
(* Its only caller is the review command, which checks the status in a     *)
(* separate read (module Review), so any known claim may be the target.    *)

SetClaimStatus(c, k, s) ==
    /\ pc[c] = "idle"
    /\ c \notin Servers
    /\ lock = None
    /\ k \in Known(db)
    /\ db' = SetStatus(db, k, s)
    /\ pend' = db'
    /\ UNCHANGED <<lock, pc, cur, raised>>

-----------------------------------------------------------------------------

OpenRun(c) == Begin(c) \/ InsertRun(c) \/ InsertRunBusy(c)

Body(c) ==
    \/ \E a \in Artifacts : AddArtifact(c, a)
    \/ \E k \in Claims : AddClaim(c, k) \/ AddClaimUnattested(c, k)
    \/ \E j, k \in Claims : LinkClaims(c, j, k)
    \/ \E n \in Notes : Annotate(c, n)
    \/ Raise(c)

CloseRun(c) ==
    Commit(c) \/ Rollback(c) \/ RecordFailure(c) \/ RecordFailureBusy(c)

\* set_claim_status without its test of the status, called with a word of
\* the command line.
CurateUnchecked(c) ==
    \E k \in Claims : SetClaimStatus(c, k, "approved")

Curate(c) ==
    \E k \in Claims, s \in {"accepted", "rejected"} : SetClaimStatus(c, k, s)

Next ==
    \E c \in Conns :
        \/ Open(c) \/ Stop(c)
        \/ OpenRun(c) \/ Body(c) \/ CloseRun(c)
        \/ Curate(c)

Spec == Init /\ [][Next]_vars

\* A body is a finite program with a timeout on every engine it starts, and
\* SQLite answers a waiting connection within the busy timeout: a run that is
\* under way proceeds.  Nobody is obliged to start or to stop a process.
Fairness ==
    \A c \in Conns :
        WF_vars(InsertRun(c) \/ InsertRunBusy(c) \/ CloseRun(c))

FairSpec == Spec /\ Fairness

-----------------------------------------------------------------------------
(* Safety *)

\* "ultron check" finds nothing: every committed claim has evidence, an
\* attestation and a subject that exists, every artifact was observed by a
\* run, and no row refers to a row that is not there (store.py add_artifact,
\* add_claim, link_claims under every interleaving and crash).
GraphSound == Sound(db)

\* Only a run that ended well has left artifacts or claims: a run that
\* failed, was killed or is still going has no observation and no
\* attestation in the committed graph (store.py Project.run: the body is one
\* transaction).
OnlyFinishedRunsLeaveRows ==
    \A p \in db.observed \cup db.attested : db.runs[p[2]] = "ok"

\* The ledger a reader sees is settled: it says that a run ended, ok or failed,
\* and what it says of a run never changes again.
LedgerFinal ==
    [][\A r \in Runs :
         /\ db'.runs[r] # "running"
         /\ db.runs[r] # "absent" => db'.runs[r] = db.runs[r]]_db

\* A human decision survives: a claim that was accepted or rejected is never
\* proposed again, however often a later run asserts it (add_claim inserts a
\* claim only when its id is new).
DecisionsSurvive ==
    [][\A k \in Claims :
         db.claims[k] \in {"accepted", "rejected"} =>
             db'.claims[k] \in {"accepted", "rejected"}]_db

\* Runs are atomic and isolated: whatever the interleaving, readers of the
\* committed graph see what EvidenceLedger allows, in particular every run at
\* once, on top of the graph as it is when the run becomes visible.
Ledger == INSTANCE EvidenceLedger WITH graph <- db

ImplementsLedger == Ledger!Spec

-----------------------------------------------------------------------------
(* Liveness, under Fairness *)

\* The write lock always comes free: a run that wrote ends in a COMMIT or a
\* ROLLBACK, so no process keeps every other one out of the project.
LockComesFree == \A c \in Conns : lock = c ~> lock # c

-----------------------------------------------------------------------------
(* What the documentation says and the code does not do *)

\* "A crashed adapter leaves no half-imported artifacts, only a run row
\* marked failed" (store.py, Project.run): a run whose body raised is in the
\* ledger once the exception has reached the caller.
EveryFailureRecorded == \A r \in raised : db.runs[r] = "failed"

\* "Open a run, yield a write handle, and close the run atomically" (store.py,
\* Project.run): a transaction that run() opened does not stay open for ever.
InTransaction(c) == pc[c] \in {"begun", "body", "raising", "wedged"}

RunsAreClosed == \A c \in Conns : InTransaction(c) ~> ~InTransaction(c)
=============================================================================
