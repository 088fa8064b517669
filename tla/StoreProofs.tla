---------------------------- MODULE StoreProofs ----------------------------
(***************************************************************************)
(* The store's type invariant, its safety invariants and the refinement of *)
(* EvidenceLedger, for any number of connections, runs, artifacts, claims. *)
(*                                                                         *)
(* None of the safety invariants is inductive alone: what a COMMIT         *)
(* publishes is pend, so IInv says what pend is at each place a writer can *)
(* be.  While nobody holds the lock pend is db; in a body it is db and the *)
(* rows of that run alone (Extends), sound, with the run still running.    *)
(* The run ids in use are pairwise different and not yet in the ledger,    *)
(* so no run can settle, or attest in the name of, another one.            *)
(*                                                                         *)
(* The second part is about Review, each of whose steps is a step of the   *)
(* store.                                                                  *)
(***************************************************************************)
EXTENDS Review, TLAPS

Active == {"begun", "body", "raising", "recording"}

LockInv == \A c \in Conns : (lock = c) <=> (pc[c] \in {"body", "raising"})

PendInv == lock = None => pend = db

CurInv ==
    /\ \A c \in Conns :
        pc[c] \in Active => cur[c] \in Runs /\ db.runs[cur[c]] = "absent"
    /\ \A c, d \in Conns : c # d /\ cur[c] \in Runs => cur[c] # cur[d]

SettledInv == \A r \in Runs : db.runs[r] # "running"

BodyInv ==
    \A c \in Conns :
        pc[c] = "body" =>
            /\ Extends(db, pend, cur[c])
            /\ pend.runs[cur[c]] = "running"
            /\ Sound(pend)

IInv ==
    /\ TypeOK
    /\ LockInv
    /\ PendInv
    /\ CurInv
    /\ SettledInv
    /\ BodyInv
    /\ GraphSound
    /\ OnlyFinishedRunsLeaveRows

-----------------------------------------------------------------------------
(* The operators of EvidenceGraph: what each write returns *)

\* Every write of a run, applied to a graph, gives a graph.
LEMMA WritesKeepType ==
    ASSUME NEW g \in Graphs, NEW r \in Runs
    PROVE  /\ \A s \in RunStates : SetRun(g, r, s) \in Graphs
           /\ \A a \in Artifacts : PutArtifact(g, a, r) \in Graphs
           /\ \A k \in Claims : PutClaimRow(g, k) \in Graphs
           /\ \A k \in Claims : PutClaim(g, k, r) \in Graphs
           /\ \A j, k \in Claims : PutLink(g, j, k) \in Graphs
           /\ \A n \in Notes : PutNote(g, n) \in Graphs
           /\ \A k \in Claims, s \in ClaimStates : SetStatus(g, k, s) \in Graphs
<1> USE DEF Graphs
<1>1. ASSUME NEW s \in RunStates PROVE SetRun(g, r, s) \in Graphs
  BY <1>1 DEF SetRun
<1>2. ASSUME NEW a \in Artifacts PROVE PutArtifact(g, a, r) \in Graphs
  <2>1. g.artifacts \cup {a} \in SUBSET Artifacts
    OBVIOUS
  <2>2. g.observed \cup {<<a, r>>} \in SUBSET (Artifacts \X Runs)
    OBVIOUS
  <2>. QED BY <2>1, <2>2 DEF PutArtifact
<1>3. ASSUME NEW k \in Claims PROVE PutClaimRow(g, k) \in Graphs
  BY DEF PutClaimRow, ClaimStates
<1>4. ASSUME NEW k \in Claims PROVE PutClaim(g, k, r) \in Graphs
  <2>1. PutClaimRow(g, k) \in Graphs
    BY <1>3
  <2>2. PutClaimRow(g, k).attested \cup {<<k, r>>} \in SUBSET (Claims \X Runs)
    BY <2>1
  <2>. QED BY <2>1, <2>2 DEF PutClaim
<1>5. ASSUME NEW j \in Claims, NEW k \in Claims PROVE PutLink(g, j, k) \in Graphs
  BY DEF PutLink
<1>6. ASSUME NEW n \in Notes PROVE PutNote(g, n) \in Graphs
  BY DEF PutNote
<1>7. ASSUME NEW k \in Claims, NEW s \in ClaimStates
      PROVE SetStatus(g, k, s) \in Graphs
  BY DEF SetStatus
<1>. QED BY <1>1, <1>2, <1>3, <1>4, <1>5, <1>6, <1>7

\* A run that starts extends the graph it starts from.
LEMMA StartExtends ==
    ASSUME NEW g \in Graphs, NEW r \in Runs, g.runs[r] = "absent", Sound(g)
    PROVE  /\ Extends(g, SetRun(g, r, "running"), r)
           /\ Sound(SetRun(g, r, "running"))
           /\ SetRun(g, r, "running").runs[r] = "running"
<1>1. Extends(g, SetRun(g, r, "running"), r)
  BY DEF Extends, SetRun, Graphs
<1>2. Sound(SetRun(g, r, "running"))
  BY DEF Sound, Evidenced, Attested, Provenanced, ForeignKeys, Known, SetRun, Graphs
<1>. QED BY <1>1, <1>2 DEF SetRun, Graphs

\* Each write of the body keeps the graph sound and adds only rows of its run.
LEMMA PutArtifactExtends ==
    ASSUME NEW g \in Graphs, NEW h \in Graphs, NEW r \in Runs, NEW a \in Artifacts,
           Extends(g, h, r), Sound(h), h.runs[r] = "running", OwnersPresent(h, a)
    PROVE  /\ Extends(g, PutArtifact(h, a, r), r)
           /\ Sound(PutArtifact(h, a, r))
           /\ PutArtifact(h, a, r).runs[r] = "running"
<1> DEFINE h1 == PutArtifact(h, a, r)
<1>1. /\ h1.runs = h.runs /\ h1.claims = h.claims /\ h1.attested = h.attested
      /\ h1.links = h.links /\ h1.notes = h.notes
      /\ h1.artifacts = h.artifacts \cup {a}
      /\ h1.observed = h.observed \cup {<<a, r>>}
  BY DEF PutArtifact, Graphs
<1> HIDE DEF h1
<1>2. Extends(g, h1, r)
  BY <1>1 DEF Extends, Graphs
<1>3. Evidenced(h1) /\ Attested(h1)
  BY <1>1 DEF Sound, Evidenced, Attested, Known
<1>4. Provenanced(h1)
  BY <1>1 DEF Sound, Provenanced, OwnersPresent
<1>5. ForeignKeys(h1)
  BY <1>1 DEF Sound, ForeignKeys, Known, Graphs
<1>. QED BY <1>1, <1>2, <1>3, <1>4, <1>5 DEF Sound, h1

LEMMA PutClaimExtends ==
    ASSUME NEW g \in Graphs, NEW h \in Graphs, NEW r \in Runs, NEW k \in Claims,
           Extends(g, h, r), Sound(h), h.runs[r] = "running", Citable(h, k)
    PROVE  /\ Extends(g, PutClaim(h, k, r), r)
           /\ Sound(PutClaim(h, k, r))
           /\ PutClaim(h, k, r).runs[r] = "running"
<1> DEFINE h1 == PutClaim(h, k, r)
<1>1. /\ h1.runs = h.runs /\ h1.artifacts = h.artifacts /\ h1.observed = h.observed
      /\ h1.links = h.links /\ h1.notes = h.notes
      /\ h1.attested = h.attested \cup {<<k, r>>}
      /\ h1.claims = [h.claims EXCEPT ![k] = IF @ = "absent" THEN "proposed" ELSE @]
  BY DEF PutClaim, PutClaimRow, Graphs
<1> HIDE DEF h1
<1>2. Known(h1) = Known(h) \cup {k}
  BY <1>1 DEF Known, Graphs
<1>3. Extends(g, h1, r)
  <2>1. ASSUME NEW j \in Claims
        PROVE  IF g.claims[j] # "absent" THEN h1.claims[j] = g.claims[j]
               ELSE h1.claims[j] # "absent" =>
                       h1.claims[j] = "proposed" /\ <<j, r>> \in h1.attested
    BY <1>1 DEF Extends, Graphs
  <2>. QED BY <1>1, <2>1 DEF Extends, Graphs
<1>4. Evidenced(h1)
  BY <1>1, <1>2 DEF Sound, Evidenced, Citable
<1>5. Attested(h1)
  BY <1>1, <1>2 DEF Sound, Attested
<1>6. Provenanced(h1)
  BY <1>1 DEF Sound, Provenanced
<1>7. ForeignKeys(h1)
  BY <1>1, <1>2 DEF Sound, ForeignKeys, Graphs
<1>. QED BY <1>1, <1>3, <1>4, <1>5, <1>6, <1>7 DEF Sound, h1

LEMMA PutLinkExtends ==
    ASSUME NEW g \in Graphs, NEW h \in Graphs, NEW r \in Runs,
           NEW j \in Claims, NEW k \in Claims,
           Extends(g, h, r), Sound(h), h.runs[r] = "running", Linkable(h, j, k)
    PROVE  /\ Extends(g, PutLink(h, j, k), r)
           /\ Sound(PutLink(h, j, k))
           /\ PutLink(h, j, k).runs[r] = "running"
<1> DEFINE h1 == PutLink(h, j, k)
<1>1. /\ h1.runs = h.runs /\ h1.artifacts = h.artifacts /\ h1.observed = h.observed
      /\ h1.claims = h.claims /\ h1.attested = h.attested /\ h1.notes = h.notes
      /\ h1.links = h.links \cup {<<j, k>>}
  BY DEF PutLink, Graphs
<1> HIDE DEF h1
<1>2. Extends(g, h1, r)
  BY <1>1 DEF Extends
<1>3. Sound(h1)
  BY <1>1 DEF Sound, Evidenced, Attested, Provenanced, ForeignKeys, Known, Linkable
<1>. QED BY <1>1, <1>2, <1>3 DEF h1

LEMMA PutNoteExtends ==
    ASSUME NEW g \in Graphs, NEW h \in Graphs, NEW r \in Runs, NEW n \in Notes,
           Extends(g, h, r), Sound(h), h.runs[r] = "running"
    PROVE  /\ Extends(g, PutNote(h, n), r)
           /\ Sound(PutNote(h, n))
           /\ PutNote(h, n).runs[r] = "running"
<1> DEFINE h1 == PutNote(h, n)
<1>1. /\ h1.runs = h.runs /\ h1.artifacts = h.artifacts /\ h1.observed = h.observed
      /\ h1.claims = h.claims /\ h1.attested = h.attested /\ h1.links = h.links
      /\ h1.notes = h.notes \cup {n}
  BY DEF PutNote, Graphs
<1> HIDE DEF h1
<1>2. Extends(g, h1, r)
  BY <1>1 DEF Extends
<1>3. Sound(h1)
  BY <1>1 DEF Sound, Evidenced, Attested, Provenanced, ForeignKeys, Known
<1>. QED BY <1>1, <1>2, <1>3 DEF h1

\* The status of a run or of a known claim has no part in soundness, as long
\* as it does not become absent.
LEMMA SetRunSound ==
    ASSUME NEW g \in Graphs, NEW r \in Runs, NEW s \in RunStates \ {"absent"}, Sound(g)
    PROVE  Sound(SetRun(g, r, s))
BY DEF Sound, Evidenced, Attested, Provenanced, ForeignKeys, Known, SetRun, Graphs

LEMMA SetStatusSound ==
    ASSUME NEW g \in Graphs, NEW k \in Known(g),
           NEW s \in ClaimStates \ {"absent"}, Sound(g)
    PROVE  Sound(SetStatus(g, k, s))
BY DEF Sound, Evidenced, Attested, Provenanced, ForeignKeys, Known, SetStatus, Graphs

-----------------------------------------------------------------------------
(* The inductive invariant *)

LEMMA EmptyGraphSound == EmptyGraph \in Graphs /\ Sound(EmptyGraph)
BY DEF EmptyGraph, Graphs, RunStates, ClaimStates, Sound, Evidenced, Attested,
       Provenanced, ForeignKeys, Known

LEMMA InitIInv == Init => IInv
<1> SUFFICES ASSUME Init PROVE IInv
  OBVIOUS
<1> USE DEF Init
<1>1. TypeOK
  BY EmptyGraphSound DEF TypeOK, Locations
<1>2. LockInv /\ PendInv
  BY StoreAssumption DEF LockInv, PendInv
<1>3. CurInv
  BY StoreAssumption DEF CurInv, Active
<1>4. BodyInv
  BY DEF BodyInv
<1>5. GraphSound /\ OnlyFinishedRunsLeaveRows /\ SettledInv
  BY EmptyGraphSound DEF SettledInv, GraphSound, OnlyFinishedRunsLeaveRows, EmptyGraph
<1>. QED BY <1>1, <1>2, <1>3, <1>4, <1>5 DEF IInv

\* A write of the body that keeps pend sound and an extension of db keeps
\* the whole invariant: nothing else moves.
LEMMA BodyWrite ==
    ASSUME IInv, NEW c \in Conns, InBody(c), pc' = pc,
           pend' \in Graphs, Extends(db, pend', cur[c]),
           pend'.runs[cur[c]] = "running", Sound(pend')
    PROVE  IInv'
<1> USE DEF IInv, InBody
<1>1. TypeOK'
  BY DEF TypeOK
<1>2. LockInv' /\ PendInv'
  BY StoreAssumption DEF LockInv, PendInv
<1>3. CurInv'
  BY DEF CurInv
<1>4. BodyInv'
  <2> SUFFICES ASSUME NEW d \in Conns, pc[d] = "body"
               PROVE  d = c
    BY DEF BodyInv
  <2>. QED BY DEF LockInv
<1>5. GraphSound' /\ OnlyFinishedRunsLeaveRows' /\ SettledInv'
  BY DEF SettledInv, GraphSound, OnlyFinishedRunsLeaveRows
<1>. QED BY <1>1, <1>2, <1>3, <1>4, <1>5

\* A step that leaves every graph and the lock alone, and moves one
\* connection between two places of the same kind, keeps the invariant.
LEMMA QuietStep ==
    ASSUME IInv, NEW c \in Conns, NEW l \in Locations,
           UNCHANGED <<db, pend, lock, cur>>, Goto(c, l),
           raised' \subseteq Runs,
           pc[c] \in {"body", "raising"} <=> l \in {"body", "raising"},
           l # "body",
           l \in Active => pc[c] \in Active
    PROVE  IInv'
<1> USE DEF IInv, Goto
<1>1. TypeOK'
  BY DEF TypeOK
<1>2. LockInv' /\ PendInv'
  BY DEF LockInv, PendInv, TypeOK
<1>3. CurInv'
  BY DEF CurInv, TypeOK
<1>4. BodyInv'
  BY DEF BodyInv, TypeOK
<1>5. GraphSound' /\ OnlyFinishedRunsLeaveRows' /\ SettledInv'
  BY DEF SettledInv, GraphSound, OnlyFinishedRunsLeaveRows
<1>. QED BY <1>1, <1>2, <1>3, <1>4, <1>5

\* A commit is the only step that publishes rows: it keeps the invariant
\* because pend is sound and extends db by rows of the committing run only.
LEMMA CommitStep ==
    ASSUME IInv, NEW c \in Conns, Commit(c)
    PROVE  IInv'
<1> USE DEF IInv, Commit, Goto
<1>1. cur[c] \in Runs
  BY DEF CurInv, Active
<1>2. /\ Extends(db, pend, cur[c]) /\ Sound(pend)
      /\ pend.runs[cur[c]] = "running"
  BY DEF BodyInv
<1>3. db' \in Graphs /\ pend' \in Graphs /\ Sound(db')
  BY <1>1, <1>2, WritesKeepType, SetRunSound DEF TypeOK, RunStates
<1>4. /\ db'.runs = [pend.runs EXCEPT ![cur[c]] = "ok"]
      /\ db'.observed = pend.observed /\ db'.attested = pend.attested
  BY DEF SetRun, TypeOK, Graphs
<1>5. \A d \in Conns \ {c} : pc[d] \notin {"body", "raising"}
  BY DEF LockInv
<1>6. TypeOK'
  BY <1>3 DEF TypeOK, Locations
<1>7. LockInv' /\ PendInv'
  BY <1>5, StoreAssumption DEF LockInv, PendInv, TypeOK
<1>8. CurInv'
  <2>1. ASSUME NEW d \in Conns, pc'[d] \in Active
        PROVE  cur[d] \in Runs /\ db'.runs[cur[d]] = "absent"
    <3>1. d # c /\ pc[d] \in Active
      BY <2>1 DEF Active, TypeOK
    <3>2. cur[d] \in Runs /\ db.runs[cur[d]] = "absent" /\ cur[d] # cur[c]
      BY <3>1 DEF CurInv
    <3>. QED BY <1>1, <1>2, <1>4, <3>2 DEF Extends, TypeOK, Graphs
  <2>. QED BY <2>1 DEF CurInv
<1>9. BodyInv'
  BY <1>5 DEF BodyInv, TypeOK
<1>10. OnlyFinishedRunsLeaveRows'
  <2> SUFFICES ASSUME NEW p \in pend.observed \cup pend.attested
               PROVE  db'.runs[p[2]] = "ok"
    BY <1>4 DEF OnlyFinishedRunsLeaveRows
  <2>1. CASE p \in db.observed \cup db.attested
    <3>1. db.runs[p[2]] = "ok" /\ p[2] \in Runs
      BY <2>1 DEF OnlyFinishedRunsLeaveRows, TypeOK, Graphs
    <3>. QED BY <1>1, <1>2, <1>4, <3>1 DEF Extends, TypeOK, Graphs
  <2>2. CASE p \notin db.observed \cup db.attested
    <3>1. p[2] = cur[c]
      BY <1>2, <2>2 DEF Extends
    <3>. QED BY <1>1, <1>4, <3>1 DEF TypeOK, Graphs
  <2>. QED BY <2>1, <2>2
<1>11. SettledInv'
  BY <1>1, <1>2, <1>4 DEF SettledInv, Extends, TypeOK, Graphs
<1>. QED BY <1>3, <1>6, <1>7, <1>8, <1>9, <1>10, <1>11 DEF GraphSound

\* The failed row of a run adds nothing to the graph but that row.
LEMMA RecordFailureStep ==
    ASSUME IInv, NEW c \in Conns, RecordFailure(c)
    PROVE  IInv'
<1> USE DEF IInv, RecordFailure, Goto
<1>1. cur[c] \in Runs /\ db.runs[cur[c]] = "absent"
  BY DEF CurInv, Active
<1>2. db' \in Graphs /\ pend' \in Graphs /\ Sound(db')
  BY <1>1, WritesKeepType, SetRunSound DEF TypeOK, RunStates, GraphSound
<1>3. /\ db'.runs = [db.runs EXCEPT ![cur[c]] = "failed"]
      /\ db'.observed = db.observed /\ db'.attested = db.attested
  BY DEF SetRun, TypeOK, Graphs
<1>4. \A d \in Conns : pc[d] \notin {"body", "raising"}
  BY StoreAssumption DEF LockInv
<1>5. AfterError(c) \in {"idle", "closed"}
  BY DEF AfterError
<1>6. TypeOK'
  BY <1>1, <1>2, <1>5 DEF TypeOK, Locations
<1>7. LockInv' /\ PendInv'
  BY <1>4, <1>5, StoreAssumption DEF LockInv, PendInv, TypeOK
<1>8. CurInv'
  <2>1. ASSUME NEW d \in Conns, pc'[d] \in Active
        PROVE  cur[d] \in Runs /\ db'.runs[cur[d]] = "absent"
    <3>1. d # c /\ pc[d] \in Active
      BY <1>5, <2>1 DEF Active, TypeOK
    <3>2. cur[d] \in Runs /\ db.runs[cur[d]] = "absent" /\ cur[d] # cur[c]
      BY <1>1, <3>1 DEF CurInv
    <3>. QED BY <1>3, <3>2 DEF TypeOK, Graphs
  <2>. QED BY <2>1 DEF CurInv
<1>9. BodyInv'
  BY <1>4, <1>5 DEF BodyInv, TypeOK
<1>10. OnlyFinishedRunsLeaveRows'
  <2> SUFFICES ASSUME NEW p \in db.observed \cup db.attested
               PROVE  db'.runs[p[2]] = "ok"
    BY <1>3 DEF OnlyFinishedRunsLeaveRows
  <2>1. db.runs[p[2]] = "ok"
    BY DEF OnlyFinishedRunsLeaveRows
  <2>. QED BY <1>1, <1>3, <2>1 DEF TypeOK, Graphs
<1>11. SettledInv'
  BY <1>1, <1>3 DEF SettledInv, TypeOK, Graphs
<1>. QED BY <1>2, <1>6, <1>7, <1>8, <1>9, <1>10, <1>11 DEF GraphSound

LEMMA SetClaimStatusStep ==
    ASSUME IInv, NEW c \in Conns, NEW k \in Claims,
           NEW s \in {"accepted", "rejected"}, SetClaimStatus(c, k, s)
    PROVE  IInv'
<1> USE DEF IInv, SetClaimStatus
<1>1. db' \in Graphs /\ pend' \in Graphs /\ Sound(db')
  <2>1. db \in Graphs /\ Sound(db)
    BY DEF TypeOK, GraphSound
  <2>2. s \in ClaimStates \ {"absent"}
    BY DEF ClaimStates
  <2>3. Sound(SetStatus(db, k, s))
    BY <2>1, <2>2, SetStatusSound
  <2>4. SetStatus(db, k, s) \in Graphs
    BY <2>1, <2>2 DEF SetStatus, Graphs
  <2>. QED BY <2>3, <2>4
<1>2. /\ db'.runs = db.runs /\ db'.observed = db.observed
      /\ db'.attested = db.attested
  BY DEF SetStatus, TypeOK, Graphs
<1>3. TypeOK'
  BY <1>1 DEF TypeOK
<1>4. LockInv' /\ PendInv' /\ CurInv' /\ SettledInv'
  BY <1>2 DEF LockInv, PendInv, CurInv, SettledInv
<1>5. BodyInv'
  BY StoreAssumption DEF BodyInv, LockInv
<1>6. GraphSound' /\ OnlyFinishedRunsLeaveRows'
  BY <1>1, <1>2 DEF GraphSound, OnlyFinishedRunsLeaveRows
<1>. QED BY <1>3, <1>4, <1>5, <1>6

\* A process that ends, or a ROLLBACK, takes pend back to db.
LEMMA StopStep ==
    ASSUME IInv, NEW c \in Conns, Stop(c)
    PROVE  IInv'
<1> USE DEF IInv, Stop, Goto
<1>1. TypeOK'
  BY DEF TypeOK, Locations
<1>2. LockInv' /\ PendInv'
  BY StoreAssumption DEF LockInv, PendInv, TypeOK
<1>3. CurInv'
  BY DEF CurInv, TypeOK, Active
<1>4. BodyInv'
  BY DEF BodyInv, LockInv, TypeOK
<1>5. GraphSound' /\ OnlyFinishedRunsLeaveRows' /\ SettledInv'
  BY DEF SettledInv, GraphSound, OnlyFinishedRunsLeaveRows
<1>. QED BY <1>1, <1>2, <1>3, <1>4, <1>5

LEMMA RollbackStep ==
    ASSUME IInv, NEW c \in Conns, Rollback(c)
    PROVE  IInv'
<1> USE DEF IInv, Rollback, Goto
<1>1. TypeOK'
  BY DEF TypeOK, Locations
<1>2. LockInv' /\ PendInv'
  BY StoreAssumption DEF LockInv, PendInv, TypeOK
<1>3. CurInv'
  BY DEF CurInv, TypeOK, Active
<1>4. BodyInv'
  BY DEF BodyInv, LockInv, TypeOK
<1>5. GraphSound' /\ OnlyFinishedRunsLeaveRows' /\ SettledInv'
  BY DEF SettledInv, GraphSound, OnlyFinishedRunsLeaveRows
<1>. QED BY <1>1, <1>2, <1>3, <1>4, <1>5

\* The run id is new: no other connection has it and no ledger row does.
LEMMA BeginStep ==
    ASSUME IInv, NEW c \in Conns, Begin(c)
    PROVE  IInv'
<1> USE DEF IInv, Begin, Goto
<1>1. PICK r \in Runs \ Minted : cur' = [cur EXCEPT ![c] = r]
  OBVIOUS
<1>2. db.runs[r] = "absent" /\ \A d \in Conns : cur[d] # r
  BY <1>1 DEF Minted
<1>3. TypeOK'
  BY <1>1 DEF TypeOK, Locations
<1>4. LockInv' /\ PendInv'
  BY DEF LockInv, PendInv, TypeOK
<1>5. CurInv'
  BY <1>1, <1>2 DEF CurInv, TypeOK, Active
<1>6. BodyInv'
  BY <1>1 DEF BodyInv, TypeOK
<1>7. GraphSound' /\ OnlyFinishedRunsLeaveRows' /\ SettledInv'
  BY DEF SettledInv, GraphSound, OnlyFinishedRunsLeaveRows
<1>. QED BY <1>3, <1>4, <1>5, <1>6, <1>7

\* The new writer starts from the committed graph of that moment.
LEMMA InsertRunStep ==
    ASSUME IInv, NEW c \in Conns, InsertRun(c)
    PROVE  IInv'
<1> USE DEF IInv, InsertRun, Goto
<1>1. cur[c] \in Runs /\ db.runs[cur[c]] = "absent" /\ db \in Graphs /\ Sound(db)
  BY DEF CurInv, Active, TypeOK, GraphSound
<1>2. pend' \in Graphs
  BY <1>1, WritesKeepType DEF RunStates
<1>3. /\ Extends(db, pend', cur[c]) /\ Sound(pend')
      /\ pend'.runs[cur[c]] = "running"
  BY <1>1, StartExtends
<1>4. \A d \in Conns : pc[d] \notin {"body", "raising"}
  BY StoreAssumption DEF LockInv
<1>5. TypeOK'
  BY <1>2 DEF TypeOK, Locations
<1>6. LockInv' /\ PendInv'
  BY <1>4, StoreAssumption DEF LockInv, PendInv, TypeOK
<1>7. CurInv'
  BY DEF CurInv, TypeOK, Active
<1>8. BodyInv'
  BY <1>3, <1>4 DEF BodyInv, TypeOK
<1>9. GraphSound' /\ OnlyFinishedRunsLeaveRows' /\ SettledInv'
  BY DEF SettledInv, GraphSound, OnlyFinishedRunsLeaveRows
<1>. QED BY <1>5, <1>6, <1>7, <1>8, <1>9

\* The half-written claim sits in pend, but its connection is on its way to
\* the ROLLBACK.
LEMMA AddClaimUnattestedStep ==
    ASSUME IInv, NEW c \in Conns, NEW k \in Claims, AddClaimUnattested(c, k)
    PROVE  IInv'
<1> USE DEF IInv, AddClaimUnattested, InBody, Goto
<1>1. cur[c] \in Runs
  BY DEF CurInv, Active
<1>2. TypeOK'
  BY <1>1, WritesKeepType DEF TypeOK, Locations
<1>3. LockInv' /\ PendInv'
  BY StoreAssumption DEF LockInv, PendInv, TypeOK
<1>4. CurInv'
  BY DEF CurInv, TypeOK, Active
<1>5. BodyInv'
  BY DEF BodyInv, LockInv, TypeOK
<1>6. GraphSound' /\ OnlyFinishedRunsLeaveRows' /\ SettledInv'
  BY DEF SettledInv, GraphSound, OnlyFinishedRunsLeaveRows
<1>. QED BY <1>2, <1>3, <1>4, <1>5, <1>6

LEMMA BodyStep ==
    ASSUME IInv, NEW c \in Conns, Body(c)
    PROVE  IInv'
<1> USE DEF IInv
<1>1. ASSUME InBody(c)
      PROVE  /\ cur[c] \in Runs /\ db \in Graphs /\ pend \in Graphs
             /\ Extends(db, pend, cur[c]) /\ Sound(pend)
             /\ pend.runs[cur[c]] = "running"
  BY <1>1 DEF InBody, CurInv, Active, TypeOK, BodyInv
<1>2. ASSUME NEW a \in Artifacts, AddArtifact(c, a) PROVE IInv'
  <2>1. InBody(c) /\ OwnersPresent(pend, a) /\ pc' = pc
    BY <1>2 DEF AddArtifact
  <2>2. pend' = PutArtifact(pend, a, cur[c])
    BY <1>2 DEF AddArtifact
  <2>3. pend' \in Graphs
    BY <1>1, <2>1, <2>2, WritesKeepType
  <2>4. /\ Extends(db, pend', cur[c]) /\ Sound(pend')
        /\ pend'.runs[cur[c]] = "running"
    BY <1>1, <2>1, <2>2, PutArtifactExtends
  <2>. QED BY <2>1, <2>3, <2>4, BodyWrite
<1>3. ASSUME NEW k \in Claims, AddClaim(c, k) PROVE IInv'
  <2>1. InBody(c) /\ Citable(pend, k) /\ pc' = pc
    BY <1>3 DEF AddClaim
  <2>2. pend' = PutClaim(pend, k, cur[c])
    BY <1>3 DEF AddClaim
  <2>3. pend' \in Graphs
    BY <1>1, <2>1, <2>2, WritesKeepType
  <2>4. /\ Extends(db, pend', cur[c]) /\ Sound(pend')
        /\ pend'.runs[cur[c]] = "running"
    BY <1>1, <2>1, <2>2, PutClaimExtends
  <2>. QED BY <2>1, <2>3, <2>4, BodyWrite
<1>4. ASSUME NEW k \in Claims, AddClaimUnattested(c, k) PROVE IInv'
  BY <1>4, AddClaimUnattestedStep
<1>5. ASSUME NEW j \in Claims, NEW k \in Claims, LinkClaims(c, j, k) PROVE IInv'
  <2>1. InBody(c) /\ Linkable(pend, j, k) /\ pc' = pc
    BY <1>5 DEF LinkClaims
  <2>2. pend' = PutLink(pend, j, k)
    BY <1>5 DEF LinkClaims
  <2>3. pend' \in Graphs
    BY <1>1, <2>1, <2>2, WritesKeepType
  <2>4. /\ Extends(db, pend', cur[c]) /\ Sound(pend')
        /\ pend'.runs[cur[c]] = "running"
    BY <1>1, <2>1, <2>2, PutLinkExtends
  <2>. QED BY <2>1, <2>3, <2>4, BodyWrite
<1>6. ASSUME NEW n \in Notes, Annotate(c, n) PROVE IInv'
  <2>1. InBody(c) /\ pc' = pc
    BY <1>6 DEF Annotate
  <2>2. pend' = PutNote(pend, n)
    BY <1>6 DEF Annotate
  <2>3. pend' \in Graphs
    BY <1>1, <2>1, <2>2, WritesKeepType
  <2>4. /\ Extends(db, pend', cur[c]) /\ Sound(pend')
        /\ pend'.runs[cur[c]] = "running"
    BY <1>1, <2>1, <2>2, PutNoteExtends
  <2>. QED BY <2>1, <2>3, <2>4, BodyWrite
<1>7. ASSUME Raise(c) PROVE IInv'
  <2>1. pc[c] = "body" /\ Goto(c, "raising") /\ raised' = raised
    BY <1>7 DEF Raise, InBody
  <2>2. UNCHANGED <<db, pend, lock, cur>>
    BY <1>7 DEF Raise, InBody
  <2>. QED BY <2>1, <2>2, QuietStep DEF Locations, Active, TypeOK
<1>. QED BY <1>2, <1>3, <1>4, <1>5, <1>6, <1>7 DEF Body

LEMMA NextIInv == IInv /\ [Next]_vars => IInv'
<1> SUFFICES ASSUME IInv, [Next]_vars PROVE IInv'
  OBVIOUS
<1>1. ASSUME NEW c \in Conns, Open(c) PROVE IInv'
  BY <1>1, QuietStep DEF Open, Locations, Active, IInv, TypeOK
<1>2. ASSUME NEW c \in Conns, Stop(c) PROVE IInv'
  BY <1>2, StopStep
<1>3. ASSUME NEW c \in Conns, OpenRun(c) PROVE IInv'
  <2>1. CASE Begin(c)
    BY <2>1, BeginStep
  <2>2. CASE InsertRun(c)
    BY <2>2, InsertRunStep
  <2>3. CASE InsertRunBusy(c)
    BY <2>3, QuietStep DEF InsertRunBusy, Locations, Active, IInv, TypeOK
  <2>. QED BY <1>3, <2>1, <2>2, <2>3 DEF OpenRun
<1>4. ASSUME NEW c \in Conns, Body(c) PROVE IInv'
  BY <1>4, BodyStep
<1>5. ASSUME NEW c \in Conns, CloseRun(c) PROVE IInv'
  <2>1. CASE Commit(c)
    BY <2>1, CommitStep
  <2>2. CASE Rollback(c)
    BY <2>2, RollbackStep
  <2>3. CASE RecordFailure(c)
    BY <2>3, RecordFailureStep
  <2>4. CASE RecordFailureBusy(c)
    <3>1. cur[c] \in Runs
      BY <2>4 DEF RecordFailureBusy, IInv, CurInv, Active
    <3>. QED BY <2>4, <3>1, QuietStep
             DEF RecordFailureBusy, AfterError, Locations, Active, IInv, TypeOK
  <2>. QED BY <1>5, <2>1, <2>2, <2>3, <2>4 DEF CloseRun
<1>6. ASSUME NEW c \in Conns, Curate(c) PROVE IInv'
  BY <1>6, SetClaimStatusStep DEF Curate
<1>7. CASE UNCHANGED vars
  BY <1>7 DEF vars, IInv, TypeOK, LockInv, PendInv, CurInv, SettledInv, BodyInv,
              GraphSound, OnlyFinishedRunsLeaveRows
<1>. QED BY <1>1, <1>2, <1>3, <1>4, <1>5, <1>6, <1>7 DEF Next

\* The inductive invariant holds in every reachable state.
THEOREM Invariance == Spec => []IInv
BY InitIInv, NextIInv, PTL DEF Spec

-----------------------------------------------------------------------------
(* The theorems *)

\* Every variable keeps its type, for any number of connections and runs.
THEOREM TypeCorrect == Spec => []TypeOK
BY Invariance, PTL DEF IInv

\* "ultron check" finds nothing in any committed graph, whatever the
\* interleaving of runs, failures, crashes and decisions.
THEOREM GraphAlwaysSound == Spec => []GraphSound
BY Invariance, PTL DEF IInv

\* A run that failed, was killed or is still going has left no observation
\* and no attestation in the committed graph.
THEOREM PartialRunsLeaveNothing == Spec => []OnlyFinishedRunsLeaveRows
BY Invariance, PTL DEF IInv

\* The operators of EvidenceGraph mean the same in the instance.
LEMMA LedgerOperators ==
    /\ Ledger!EmptyGraph = EmptyGraph
    /\ \A g : Ledger!Known(g) = Known(g)
    /\ \A g : Ledger!Sound(g) <=> Sound(g)
    /\ \A g, r, st : Ledger!SetRun(g, r, st) = SetRun(g, r, st)
    /\ \A g, k, st : Ledger!SetStatus(g, k, st) = SetStatus(g, k, st)
    /\ \A g, h, r : Ledger!Extends(g, h, r) <=> Extends(g, h, r)
BY DEF Ledger!EmptyGraph, EmptyGraph, Ledger!Known, Known, Ledger!SetRun, SetRun,
       Ledger!SetStatus, SetStatus, Ledger!Extends, Extends, Ledger!Sound, Sound,
       Ledger!Evidenced, Evidenced, Ledger!Attested, Attested,
       Ledger!Provenanced, Provenanced, Ledger!ForeignKeys, ForeignKeys

\* The steps of EvidenceLedger, in the terms of this module.
LEMMA LedgerNext ==
    Ledger!Next <=>
        \/ \E r \in Runs :
            \/ Extends(db, db', r) /\ db'.runs[r] = "ok" /\ Sound(db')
            \/ db.runs[r] = "absent" /\ db' = SetRun(db, r, "failed")
        \/ \E k \in Known(db), st \in {"accepted", "rejected"} :
            db' = SetStatus(db, k, st)
BY LedgerOperators
   DEF Ledger!Next, Ledger!PublishRun, Ledger!NoteFailure, Ledger!Decide, Known

\* Every step of the store is, for a reader of the committed graph, a step
\* of EvidenceLedger or no step at all.
LEMMA LedgerStep == IInv /\ [Next]_vars => [Ledger!Next]_db
<1> SUFFICES ASSUME IInv, [Next]_vars, db' # db PROVE Ledger!Next
  OBVIOUS
<1> USE DEF IInv
<1>1. ASSUME NEW c \in Conns, Commit(c) PROVE Ledger!Next
  <2>1. cur[c] \in Runs /\ db \in Graphs /\ pend \in Graphs
    BY <1>1 DEF Commit, CurInv, Active, TypeOK
  <2>2. Extends(db, pend, cur[c]) /\ Sound(pend)
    BY <1>1 DEF Commit, BodyInv
  <2>3. db' = SetRun(pend, cur[c], "ok")
    BY <1>1 DEF Commit
  <2>4. Extends(db, db', cur[c]) /\ db'.runs[cur[c]] = "ok"
    BY <2>1, <2>2, <2>3 DEF Extends, SetRun, Graphs
  <2>5. Sound(db')
    BY <2>1, <2>2, <2>3, SetRunSound DEF RunStates
  <2>. QED BY <2>1, <2>4, <2>5, LedgerNext
<1>2. ASSUME NEW c \in Conns, RecordFailure(c) PROVE Ledger!Next
  <2>1. cur[c] \in Runs /\ db.runs[cur[c]] = "absent"
    BY <1>2 DEF RecordFailure, CurInv, Active
  <2>. QED BY <1>2, <2>1, LedgerNext DEF RecordFailure
<1>3. ASSUME NEW c \in Conns, Curate(c) PROVE Ledger!Next
  BY <1>3, LedgerNext DEF Curate, SetClaimStatus
<1>4. ASSUME NEW c \in Conns, Open(c) \/ Stop(c) \/ OpenRun(c) \/ Body(c)
      PROVE  FALSE
  BY <1>4 DEF Open, Stop, OpenRun, Begin, InsertRun, InsertRunBusy, Body, InBody,
              AddArtifact, AddClaim, AddClaimUnattested, LinkClaims, Annotate, Raise
<1>5. ASSUME NEW c \in Conns, Rollback(c) \/ RecordFailureBusy(c) PROVE FALSE
  BY <1>5 DEF Rollback, RecordFailureBusy
<1>6. CASE UNCHANGED vars
  BY <1>6 DEF vars
<1>. QED BY <1>1, <1>2, <1>3, <1>4, <1>5, <1>6 DEF Next, CloseRun

\* The store implements the ledger: runs are atomic and isolated.
THEOREM StoreImplementsLedger == Spec => ImplementsLedger
<1>1. Init => Ledger!Init
  BY LedgerOperators DEF Init, Ledger!Init
<1>. QED BY <1>1, LedgerStep, Invariance, PTL DEF Spec, ImplementsLedger, Ledger!Spec

\* The ledger only says how runs ended and never changes its mind.
THEOREM LedgerIsFinal == Spec => LedgerFinal
<1>1. ASSUME IInv, [Next]_vars
      PROVE  [\A r \in Runs :
                /\ db'.runs[r] # "running"
                /\ db.runs[r] # "absent" => db'.runs[r] = db.runs[r]]_db
  <2> SUFFICES ASSUME Ledger!Next, NEW r \in Runs
               PROVE  /\ db'.runs[r] # "running"
                      /\ db.runs[r] # "absent" => db'.runs[r] = db.runs[r]
    BY <1>1, LedgerStep
  <2>1. db \in Graphs /\ db.runs[r] # "running"
    BY <1>1 DEF IInv, TypeOK, SettledInv
  <2>. QED BY <2>1, LedgerNext DEF Extends, SetRun, SetStatus, Graphs
<1>. QED BY <1>1, Invariance, PTL DEF Spec, LedgerFinal

\* An accepted or rejected claim is never proposed again.
THEOREM DecisionsAreKept == Spec => DecisionsSurvive
<1>1. ASSUME IInv, [Next]_vars
      PROVE  [\A k \in Claims :
                db.claims[k] \in {"accepted", "rejected"} =>
                    db'.claims[k] \in {"accepted", "rejected"}]_db
  <2> SUFFICES ASSUME Ledger!Next, NEW k \in Claims,
                      db.claims[k] \in {"accepted", "rejected"}
               PROVE  db'.claims[k] \in {"accepted", "rejected"}
    BY <1>1, LedgerStep
  <2>1. db \in Graphs
    BY <1>1 DEF IInv, TypeOK
  <2>. QED BY <2>1, LedgerNext DEF Extends, SetRun, SetStatus, Graphs, Known
<1>. QED BY <1>1, Invariance, PTL DEF Spec, DecisionsSurvive

-----------------------------------------------------------------------------
(***************************************************************************)
(* The audit trail of the approval workflow, for any number of reviewers,  *)
(* MCP servers and claims: the safety invariants of Review.                *)
(*                                                                         *)
(* Every step of the workflow is a step of Store, so the store's invariant *)
(* holds here too (Conservative).  What is added says where the store has  *)
(* each reviewer while _decide is under way, and follows an annotation     *)
(* from the decision it names through pend into the committed graph.       *)
(***************************************************************************)

Steps == {"ready", "checked", "curated", "auditing", "annotated", "failing"}
Decisions == Reviewers \X Claims \X Outcomes

\* Where the store has a reviewer's connection at each point of _decide.
Placed(s, l) ==
    /\ s = "ready" => l \in {"closed", "idle"}
    /\ s \in {"checked", "curated"} => l = "idle"
    /\ s = "auditing" => l \in {"begun", "body"}
    /\ s = "annotated" => l = "body"
    /\ s = "failing" => l \in {"raising", "recording"}

ReviewTypeOK ==
    /\ step \in [Reviewers -> Steps]
    /\ decision \in [Reviewers -> Decisions \cup {None}]
    /\ returned \subseteq Decisions
    /\ db.notes \subseteq Decisions

PlaceInv == \A c \in Reviewers : Placed(step[c], pc[c])

OwnInv ==
    \A c \in Reviewers : step[c] # "ready" => decision[c] \in {c} \X Claims \X Outcomes

\* After set_claim_status the claim stays decided, whoever curates it next.
CuratedInv ==
    \A c \in Reviewers :
        step[c] \notin {"ready", "checked"} => db.claims[Target(c)] \in Outcomes

\* What the writer's view has and the committed graph has not is the one
\* annotation of the decision that is being recorded.
UncommittedInv ==
    \A n \in pend.notes \ db.notes :
        /\ lock \in Reviewers
        /\ step[lock] \in {"annotated", "failing"}
        /\ n = decision[lock]

AnnotatedInv == \A c \in Reviewers : At(c, "annotated") => decision[c] \in pend.notes

\* A reviewer under way has never annotated the claim it is deciding.
FirstTimeInv ==
    \A c \in Reviewers :
        step[c] # "ready" => \A n \in db.notes : n[1] = c => n[2] # Target(c)

ReviewInv ==
    /\ ReviewTypeOK
    /\ PlaceInv
    /\ OwnInv
    /\ CuratedInv
    /\ UncommittedInv
    /\ AnnotatedInv
    /\ FirstTimeInv
    /\ NotesFollowDecisions
    /\ ReportedMeansRecorded
    /\ NoReviewerContradictsItself

-----------------------------------------------------------------------------
(* The workflow is a user of the store *)

LEMMA ReviewInitIInv == ReviewInit => IInv /\ ReviewInv
<1> SUFFICES ASSUME ReviewInit PROVE IInv /\ ReviewInv
  OBVIOUS
<1> USE DEF ReviewInit
<1>1. /\ db.runs = [r \in Runs |-> IF r = ToolRun THEN "ok" ELSE "absent"]
      /\ db.artifacts = Artifacts /\ db.observed = Artifacts \X {ToolRun}
      /\ db.claims = [k \in Claims |->
                         IF k \in ToolClaims THEN "proposed" ELSE "absent"]
      /\ db.attested = ToolClaims \X {ToolRun}
      /\ db.links = {} /\ db.notes = {}
  BY DEF Imported, EmptyGraph
<1>2. db \in Graphs
  <2>1. db.runs \in [Runs -> RunStates] /\ db.claims \in [Claims -> ClaimStates]
    BY <1>1 DEF RunStates, ClaimStates
  <2>2. db = [runs |-> db.runs, artifacts |-> db.artifacts,
              observed |-> db.observed, claims |-> db.claims,
              attested |-> db.attested, links |-> db.links, notes |-> db.notes]
    BY DEF Imported, EmptyGraph
  <2>3. db.observed \subseteq Artifacts \X Runs /\ db.attested \subseteq Claims \X Runs
    BY <1>1, ReviewAssumption
  <2>. QED BY <1>1, <2>1, <2>2, <2>3 DEF Graphs
<1>3. Known(db) = ToolClaims
  BY <1>1, ReviewAssumption DEF Known
<1>4. Sound(db)
  <2>1. Evidenced(db)
    BY <1>1, <1>3, ReviewAssumption, GraphAssumption DEF Evidenced
  <2>2. Attested(db)
    BY <1>1, <1>3, ReviewAssumption DEF Attested
  <2>3. Provenanced(db)
    BY <1>1, ReviewAssumption, GraphAssumption DEF Provenanced
  <2>4. ForeignKeys(db)
    BY <1>1, <1>3, ReviewAssumption DEF ForeignKeys
  <2>. QED BY <2>1, <2>2, <2>3, <2>4 DEF Sound
<1>5. TypeOK
  BY <1>2 DEF TypeOK, Locations
<1>6. LockInv /\ PendInv /\ CurInv /\ BodyInv
  BY StoreAssumption DEF LockInv, PendInv, CurInv, BodyInv, Active
<1>7. GraphSound /\ OnlyFinishedRunsLeaveRows /\ SettledInv
  BY <1>1, <1>4, ReviewAssumption DEF SettledInv, GraphSound, OnlyFinishedRunsLeaveRows
<1>8. ReviewInv
  BY <1>1, ReviewAssumption, StoreAssumption
     DEF ReviewInv, ReviewTypeOK, Steps, PlaceInv, Placed, OwnInv, CuratedInv,
         UncommittedInv, AnnotatedInv, At, FirstTimeInv, NotesFollowDecisions,
         ReportedMeansRecorded, NoReviewerContradictsItself
<1>. QED BY <1>5, <1>6, <1>7, <1>8 DEF IInv

\* What a reviewer asks of the store is what any command may ask of it.
LEMMA Conservative ==
    ASSUME ReviewInv, [ReviewNext]_allVars
    PROVE  [Next]_vars
<1>1. ASSUME NEW c \in Reviewers, Reviewer(c), ~UNCHANGED vars PROVE Next
  <2>1. c \in Conns
    BY ReviewAssumption
  <2>2. ASSUME step[c] # "ready"
        PROVE  decision[c] \in Notes /\ Target(c) \in Claims /\ Outcome(c) \in Outcomes
    BY <2>2, ReviewAssumption DEF ReviewInv, OwnInv, Target, Outcome
  <2>3. CASE Decide(c)
    <3>1. CASE Apply(c)
      BY <2>1, <2>2, <3>1 DEF Apply, At, Outcomes, Curate, Next
    <3>2. CASE ApplyBusy(c)
      <4>1. Stop(c)
        BY <3>2 DEF ApplyBusy, ReviewInv, PlaceInv, Placed, At, Stop
      <4>. QED BY <2>1, <4>1 DEF Next
    <3>3. CASE OpenAudit(c) \/ EnterAudit(c) \/ AuditBusy(c)
      BY <2>1, <3>3 DEF OpenAudit, EnterAudit, AuditBusy, OpenRun, Next
    <3>4. CASE WriteNote(c)
      BY <2>1, <2>2, <3>4 DEF WriteNote, At, Body, Next
    <3>5. CASE Return(c) \/ Unwind(c)
      BY <2>1, <3>5 DEF Return, Unwind, CloseRun, Next
    <3>. QED BY <2>3, <3>1, <3>2, <3>3, <3>4, <3>5 DEF Decide
  <2>4. CASE Interrupt(c) \/ Leave(c) \/ Open(c)
    BY <2>1, <2>4 DEF Interrupt, Leave, Body, Next
  <2>. QED BY <1>1, <2>3, <2>4 DEF Reviewer, Check
<1>2. ASSUME NEW c \in Servers, Submit(c) PROVE Next
  BY <1>2, StoreAssumption DEF Submit, OpenRun, Body, CloseRun, Next
<1>. QED BY <1>1, <1>2 DEF ReviewNext, allVars, vars

\* A decision, once made, is not unmade, and no annotation is taken back.
LEMMA DecidedStays ==
    ASSUME IInv, [Next]_vars
    PROVE  \A k \in Claims : db.claims[k] \in Outcomes => db'.claims[k] \in Outcomes
<1> SUFFICES ASSUME Ledger!Next, NEW k \in Claims, db.claims[k] \in Outcomes
             PROVE  db'.claims[k] \in Outcomes
  BY LedgerStep
<1>1. db \in Graphs
  BY DEF IInv, TypeOK
<1>. QED BY <1>1, LedgerNext DEF Extends, SetRun, SetStatus, Graphs, Known, Outcomes

-----------------------------------------------------------------------------
(* The steps *)

\* A reviewer moves to place s with decision e while the committed
\* annotations stay as they are: what such a move must respect.
LEMMA ReviewerMoves ==
    ASSUME IInv, ReviewInv, [Next]_vars, NEW c \in Reviewers, NEW s \in Steps,
           NEW e \in Decisions \cup {None},
           step' = [step EXCEPT ![c] = s], decision' = [decision EXCEPT ![c] = e],
           returned' = returned, db'.notes = db.notes,
           \A d \in Reviewers \ {c} : pc'[d] = pc[d],
           Placed(s, pc'[c]),
           s # "ready" => e \in {c} \X Claims \X Outcomes,
           s \notin {"ready", "checked"} => db'.claims[e[2]] \in Outcomes,
           s = "annotated" => e \in pend'.notes,
           s # "ready" => \A n \in db.notes : n[1] = c => n[2] # e[2],
           \/ pend' = pend /\ lock' = lock /\ lock # c
           \/ pend'.notes = db.notes /\ lock \in {None, c}
           \/ /\ lock = c /\ lock' = c /\ s \in {"annotated", "failing"}
              /\ e = decision[c] /\ pend'.notes \subseteq pend.notes \cup {e}
    PROVE  ReviewInv'
<1> USE DEF ReviewInv
<1>1. \A k \in Claims : db.claims[k] \in Outcomes => db'.claims[k] \in Outcomes
  BY DecidedStays
<1>2. /\ step'[c] = s /\ decision'[c] = e
      /\ \A d \in Reviewers \ {c} : step'[d] = step[d] /\ decision'[d] = decision[d]
  BY DEF ReviewTypeOK
<1>3. ReviewTypeOK'
  BY DEF ReviewTypeOK
<1>4. PlaceInv'
  BY <1>2 DEF PlaceInv
<1>5. OwnInv'
  BY <1>2 DEF OwnInv
<1>6. CuratedInv'
  <2> SUFFICES ASSUME NEW d \in Reviewers, step'[d] \notin {"ready", "checked"}
               PROVE  db'.claims[decision'[d][2]] \in Outcomes
    BY DEF CuratedInv, Target
  <2>1. CASE d = c
    BY <1>2, <2>1
  <2>2. CASE d # c
    <3>1. decision[d] \in {d} \X Claims \X Outcomes
          /\ db.claims[decision[d][2]] \in Outcomes
      BY <1>2, <2>2 DEF CuratedInv, OwnInv, Target
    <3>. QED BY <1>1, <1>2, <2>2, <3>1
  <2>. QED BY <2>1, <2>2
<1>7. UncommittedInv'
  BY <1>2, ReviewAssumption, StoreAssumption DEF UncommittedInv
<1>8. AnnotatedInv'
  <2> SUFFICES ASSUME NEW d \in Reviewers \ {c}, step[d] = "annotated"
               PROVE  decision[d] \in pend'.notes
    BY <1>2 DEF AnnotatedInv, At
  <2>1. lock = d /\ lock # None
    BY ReviewAssumption, StoreAssumption DEF PlaceInv, Placed, IInv, LockInv
  <2>. QED BY <2>1 DEF AnnotatedInv, At
<1>9. FirstTimeInv'
  BY <1>2 DEF FirstTimeInv, Target
<1>10. NotesFollowDecisions'
  BY <1>1 DEF NotesFollowDecisions, ReviewTypeOK, Decisions
<1>11. ReportedMeansRecorded' /\ NoReviewerContradictsItself'
  BY DEF ReportedMeansRecorded, NoReviewerContradictsItself
<1>. QED BY <1>3, <1>4, <1>5, <1>6, <1>7, <1>8, <1>9, <1>10, <1>11

\* A step of the store on behalf of an MCP server moves no reviewer, and
\* publishes no annotation.
LEMMA ServerMoves ==
    ASSUME IInv, ReviewInv, [Next]_vars, UNCHANGED reviewVars, db'.notes = db.notes,
           \A d \in Reviewers : pc'[d] = pc[d],
           \/ pend'.notes = pend.notes /\ lock' = lock
           \/ pend'.notes = db.notes /\ lock \notin Reviewers
    PROVE  ReviewInv'
<1> USE DEF ReviewInv, reviewVars
<1>1. \A k \in Claims : db.claims[k] \in Outcomes => db'.claims[k] \in Outcomes
  BY DecidedStays
<1>2. ReviewTypeOK' /\ PlaceInv' /\ OwnInv'
  BY DEF ReviewTypeOK, PlaceInv, OwnInv
<1>3. CuratedInv'
  <2> SUFFICES ASSUME NEW d \in Reviewers, step[d] \notin {"ready", "checked"}
               PROVE  db'.claims[decision[d][2]] \in Outcomes
    BY DEF CuratedInv, Target
  <2>. QED BY <1>1 DEF CuratedInv, OwnInv, Target
<1>4. UncommittedInv'
  BY DEF UncommittedInv
<1>5. AnnotatedInv'
  BY ReviewAssumption DEF AnnotatedInv, At, PlaceInv, Placed, IInv, LockInv
<1>6. FirstTimeInv'
  BY DEF FirstTimeInv, Target
<1>7. NotesFollowDecisions'
  BY <1>1 DEF NotesFollowDecisions, ReviewTypeOK, Decisions
<1>8. ReportedMeansRecorded' /\ NoReviewerContradictsItself'
  BY DEF ReportedMeansRecorded, NoReviewerContradictsItself
<1>. QED BY <1>2, <1>3, <1>4, <1>5, <1>6, <1>7, <1>8

\* The agents' side of the workflow.
LEMMA SubmitStep ==
    ASSUME IInv, ReviewInv, [Next]_vars, NEW c \in Servers, Submit(c)
    PROVE  ReviewInv'
<1>1. UNCHANGED reviewVars /\ c \in Conns /\ c \notin Reviewers /\ None \notin Reviewers
  BY StoreAssumption, ReviewAssumption DEF Submit
<1>2. \A d \in Reviewers : pc'[d] = pc[d]
  <2>1. pc \in [Conns -> Locations] /\ \A d \in Reviewers : d \in Conns /\ d # c
    BY <1>1, ReviewAssumption DEF IInv, TypeOK
  <2>. QED BY <2>1 DEF Submit, Open, Stop, Begin, InsertRun, InsertRunBusy, AddClaim,
               InBody, Commit, Raise, Rollback, RecordFailure, RecordFailureBusy, Goto
<1>3. db \in Graphs /\ pend \in Graphs
  BY DEF IInv, TypeOK
<1> SUFFICES /\ db'.notes = db.notes
             /\ \/ pend'.notes = pend.notes /\ lock' = lock
                \/ pend'.notes = db.notes /\ lock \notin Reviewers
  BY <1>1, <1>2, ServerMoves
<1>4. CASE Open(c) \/ Begin(c) \/ InsertRunBusy(c) \/ Raise(c) \/ RecordFailureBusy(c)
  BY <1>4 DEF Open, Begin, InsertRunBusy, Raise, InBody, RecordFailureBusy
<1>5. CASE Stop(c)
  BY <1>1, <1>5 DEF Stop
<1>6. CASE InsertRun(c)
  BY <1>1, <1>3, <1>6 DEF InsertRun, SetRun, Graphs
<1>7. ASSUME NEW k \in Claims, AddClaim(c, k)
      PROVE  db' = db /\ pend'.notes = pend.notes /\ lock' = lock
  BY <1>3, <1>7 DEF AddClaim, InBody, PutClaim, PutClaimRow, Graphs
<1>8. CASE Commit(c)
  <2>1. lock = c /\ db.notes \subseteq pend.notes
    BY <1>1, <1>8 DEF Commit, IInv, LockInv, BodyInv, Extends
  <2>2. pend.notes = db.notes
    BY <1>1, <2>1 DEF ReviewInv, UncommittedInv
  <2>. QED BY <1>1, <1>3, <1>8, <2>1, <2>2 DEF Commit, SetRun, Graphs
<1>9. CASE Rollback(c)
  BY <1>1, <1>9 DEF Rollback, IInv, LockInv
<1>10. CASE RecordFailure(c)
  BY <1>1, <1>3, <1>10 DEF RecordFailure, SetRun, Graphs
<1>. QED BY <1>4, <1>5, <1>6, <1>7, <1>8, <1>9, <1>10 DEF Submit

\* Every step of a reviewer but the commit of its annotation.
LEMMA DecideStep ==
    ASSUME IInv, ReviewInv, [Next]_vars, NEW c \in Reviewers, Reviewer(c), ~Return(c)
    PROVE  ReviewInv'
<1>1. c \in Conns /\ c \notin Servers /\ \A d \in Reviewers : d \in Conns
  BY ReviewAssumption
<1>2. /\ step \in [Reviewers -> Steps] /\ decision \in [Reviewers -> Decisions \cup {None}]
      /\ pc \in [Conns -> Locations] /\ db \in Graphs /\ pend \in Graphs
  BY DEF IInv, TypeOK, ReviewInv, ReviewTypeOK
<1>3. /\ step[c] = "ready" => pc[c] \in {"closed", "idle"}
      /\ step[c] \in {"checked", "curated"} => pc[c] = "idle"
      /\ step[c] = "auditing" => pc[c] \in {"begun", "body"}
      /\ step[c] = "annotated" => pc[c] = "body"
      /\ step[c] = "failing" => pc[c] \in {"raising", "recording"}
      /\ lock = c <=> pc[c] \in {"body", "raising"}
  BY <1>1 DEF ReviewInv, PlaceInv, Placed, IInv, LockInv
<1>4. step[c] # "ready" =>
          /\ decision[c] \in {c} \X Claims \X Outcomes /\ decision[c] \in Decisions
          /\ \A n \in db.notes : n[1] = c => n[2] # decision[c][2]
  BY DEF ReviewInv, OwnInv, FirstTimeInv, Target, Decisions
<1>5. step[c] \notin {"ready", "checked"} => db.claims[decision[c][2]] \in Outcomes
  BY DEF ReviewInv, CuratedInv, Target
<1>6. /\ UNCHANGED step => step' = [step EXCEPT ![c] = step[c]]
      /\ UNCHANGED decision => decision' = [decision EXCEPT ![c] = decision[c]]
      /\ step[c] \in Steps /\ decision[c] \in Decisions \cup {None}
  BY <1>2
<1> USE DEF Steps
<1>7. CASE Open(c) /\ UNCHANGED reviewVars
  <2>1. step[c] = "ready"
    BY <1>3, <1>6, <1>7 DEF Open
  <2>. QED BY <1>1, <1>2, <1>3, <1>6, <1>7, <2>1, ReviewerMoves
           DEF Open, reviewVars, Goto, Placed
<1>8. ASSUME NEW k \in Claims, NEW s \in Outcomes, Check(c, k, s) PROVE ReviewInv'
  <2>1. <<c, k, s>> \in Decisions /\ db' = db
    BY <1>8 DEF Decisions, Check, vars
  <2>2. \A n \in db.notes : n[1] = c => n[2] # k
    BY <1>8 DEF Check, ReviewInv, NotesFollowDecisions, Outcomes
  <2>3. UNCHANGED <<pend, lock, pc>> /\ pc[c] = "idle" /\ returned' = returned
    BY <1>8 DEF Check, vars
  <2>4. step' = [step EXCEPT ![c] = "checked"]
        /\ decision' = [decision EXCEPT ![c] = <<c, k, s>>]
    BY <1>8 DEF Check, Become
  <2>. QED BY <1>1, <1>3, <2>1, <2>2, <2>3, <2>4, ReviewerMoves DEF Placed
<1>9. CASE Apply(c)
  <2>1. /\ db' = SetStatus(db, decision[c][2], decision[c][3]) /\ pend' = db'
        /\ UNCHANGED <<lock, pc, returned>> /\ lock = None
        /\ step[c] = "checked" /\ step' = [step EXCEPT ![c] = "curated"]
        /\ decision' = [decision EXCEPT ![c] = decision[c]]
    BY <1>6, <1>9 DEF Apply, SetClaimStatus, At, Become, Target, Outcome
  <2>2. db'.notes = db.notes /\ db'.claims[decision[c][2]] \in Outcomes
    BY <1>2, <1>4, <2>1 DEF SetStatus, Graphs
  <2>. QED BY <1>1, <1>3, <1>4, <2>1, <2>2, ReviewerMoves DEF Placed
<1>10. CASE ApplyBusy(c) \/ AuditBusy(c)
  BY <1>1, <1>2, <1>3, <1>10, ReviewerMoves
     DEF ApplyBusy, AuditBusy, InsertRunBusy, At, Goto, Done, Become, Placed
<1>11. CASE OpenAudit(c)
  <2>1. step[c] = "curated" /\ step' = [step EXCEPT ![c] = "auditing"]
        /\ UNCHANGED <<db, pend, lock, returned>> /\ pc' = [pc EXCEPT ![c] = "begun"]
        /\ decision' = [decision EXCEPT ![c] = decision[c]]
    BY <1>6, <1>11 DEF OpenAudit, Begin, At, Become, Goto
  <2>. QED BY <1>1, <1>2, <1>3, <1>4, <1>5, <2>1, ReviewerMoves DEF Placed
<1>12. CASE EnterAudit(c)
  <2>1. step[c] = "auditing" /\ step' = [step EXCEPT ![c] = "auditing"]
        /\ UNCHANGED <<db, returned>> /\ pc' = [pc EXCEPT ![c] = "body"] /\ lock = None
        /\ decision' = [decision EXCEPT ![c] = decision[c]]
        /\ pend'.notes = db.notes
    BY <1>2, <1>6, <1>12 DEF EnterAudit, InsertRun, reviewVars, At, Goto, SetRun, Graphs
  <2>. QED BY <1>1, <1>2, <1>3, <1>4, <1>5, <2>1, ReviewerMoves DEF Placed
<1>13. CASE WriteNote(c)
  <2>1. step[c] = "auditing" /\ step' = [step EXCEPT ![c] = "annotated"]
        /\ UNCHANGED <<db, lock, pc, returned>> /\ pc[c] = "body"
        /\ decision' = [decision EXCEPT ![c] = decision[c]]
        /\ pend'.notes = pend.notes \cup {decision[c]}
    BY <1>2, <1>6, <1>13 DEF WriteNote, Annotate, InBody, At, Become, PutNote, Graphs
  <2>. QED BY <1>1, <1>2, <1>3, <1>4, <1>5, <2>1, ReviewerMoves DEF Placed
<1>14. CASE Interrupt(c)
  <2>1. step[c] \in {"auditing", "annotated"} /\ step' = [step EXCEPT ![c] = "failing"]
        /\ UNCHANGED <<db, pend, lock, returned>> /\ pc[c] = "body"
        /\ pc' = [pc EXCEPT ![c] = "raising"]
        /\ decision' = [decision EXCEPT ![c] = decision[c]]
    BY <1>6, <1>14 DEF Interrupt, Raise, InBody, Become, Goto
  <2>. QED BY <1>1, <1>2, <1>3, <1>4, <1>5, <2>1, ReviewerMoves DEF Placed
<1>15. CASE Unwind(c)
  <2>1. CASE Rollback(c) /\ UNCHANGED <<step, decision>>
    <3>1. step[c] = "failing" /\ step' = [step EXCEPT ![c] = "failing"]
          /\ UNCHANGED <<db, returned>> /\ pend' = db /\ pc[c] = "raising"
          /\ pc' = [pc EXCEPT ![c] = "recording"]
          /\ decision' = [decision EXCEPT ![c] = decision[c]]
      BY <1>6, <1>15, <2>1 DEF Unwind, Rollback, At, Goto
    <3>. QED BY <1>1, <1>2, <1>3, <1>4, <1>5, <3>1, ReviewerMoves DEF Placed
  <2>2. CASE RecordFailure(c) /\ Done(c)
    <3>1. /\ step' = [step EXCEPT ![c] = "ready"] /\ pend' = db' /\ lock = None
          /\ decision' = [decision EXCEPT ![c] = None] /\ returned' = returned
          /\ pc' = [pc EXCEPT ![c] = "closed"] /\ db'.notes = db.notes
      BY <1>1, <1>2, <1>15, <2>2
         DEF Unwind, RecordFailure, Done, Become, Goto, AfterError, SetRun, Graphs
    <3>. QED BY <1>1, <1>2, <3>1, ReviewerMoves DEF Placed
  <2>3. CASE RecordFailureBusy(c) /\ Done(c)
    <3>1. /\ step' = [step EXCEPT ![c] = "ready"] /\ lock # c
          /\ decision' = [decision EXCEPT ![c] = None] /\ returned' = returned
          /\ pc' = [pc EXCEPT ![c] = "closed"] /\ UNCHANGED <<db, pend, lock>>
      BY <1>1, <1>15, <2>3
         DEF Unwind, RecordFailureBusy, Done, Become, Goto, AfterError
    <3>. QED BY <1>1, <1>2, <3>1, ReviewerMoves DEF Placed
  <2>. QED BY <1>15, <2>1, <2>2, <2>3 DEF Unwind
<1>16. CASE Leave(c)
  <2>1. /\ step' = [step EXCEPT ![c] = "ready"] /\ db' = db
        /\ decision' = [decision EXCEPT ![c] = None] /\ returned' = returned
        /\ pc' = [pc EXCEPT ![c] = "closed"]
        /\ \/ lock = c /\ pend' = db
           \/ lock # c /\ lock' = lock /\ pend' = pend
    BY <1>16 DEF Leave, Stop, Done, Become, Goto
  <2>. QED BY <1>1, <1>2, <2>1, ReviewerMoves DEF Placed
<1>. QED BY <1>7, <1>8, <1>9, <1>10, <1>11, <1>12, <1>13, <1>14, <1>15, <1>16
         DEF Reviewer, Decide

\* The annotation becomes visible, and the decision is reported.
LEMMA ReturnStep ==
    ASSUME IInv, ReviewInv, [Next]_vars, NEW c \in Reviewers, Return(c)
    PROVE  ReviewInv'
<1> USE DEF ReviewInv
<1> DEFINE e == decision[c]
<1>1. /\ c \in Conns /\ lock = c /\ step[c] = "annotated" /\ e \in pend.notes
      /\ e \in {c} \X Claims \X Outcomes /\ db.notes \subseteq pend.notes
  BY ReviewAssumption DEF Return, Commit, At, OwnInv, AnnotatedInv, IInv, LockInv,
                          BodyInv, Extends
<1>2. /\ pend.notes = db.notes \cup {e} /\ e \in Decisions
  BY <1>1 DEF UncommittedInv, Decisions
<1>3. /\ db'.notes = db.notes \cup {e} /\ db'.claims = pend.claims /\ pend' = db'
      /\ lock' = None /\ pc' = [pc EXCEPT ![c] = "idle"]
      /\ step' = [step EXCEPT ![c] = "ready"]
      /\ decision' = [decision EXCEPT ![c] = None]
      /\ returned' = returned \cup {e}
  BY <1>2 DEF Return, Commit, Goto, Done, Become, SetRun, IInv, TypeOK, Graphs
<1> HIDE DEF e
<1>4. \A k \in Claims : db.claims[k] \in Outcomes => db'.claims[k] \in Outcomes
  BY DecidedStays
<1>5. \A d \in Reviewers \ {c} : step[d] # "annotated"
  BY <1>1, ReviewAssumption DEF PlaceInv, Placed, IInv, LockInv
<1>6. e[1] = c /\ db.claims[e[2]] \in Outcomes
      /\ \A n \in db.notes : n[1] = c => n[2] # e[2]
  BY <1>1 DEF e, CuratedInv, FirstTimeInv, Target
<1>7. /\ step'[c] = "ready" /\ pc'[c] = "idle"
      /\ \A d \in Reviewers \ {c} :
            step'[d] = step[d] /\ decision'[d] = decision[d] /\ pc'[d] = pc[d]
  BY <1>1, <1>3, ReviewAssumption DEF ReviewTypeOK, IInv, TypeOK
<1>8. ReviewTypeOK'
  BY <1>2, <1>3 DEF ReviewTypeOK, Steps
<1>9. PlaceInv' /\ OwnInv'
  BY <1>7 DEF PlaceInv, Placed, OwnInv
<1>10. CuratedInv'
  <2> SUFFICES ASSUME NEW d \in Reviewers \ {c}, step[d] \notin {"ready", "checked"}
               PROVE  db'.claims[decision[d][2]] \in Outcomes
    BY <1>7 DEF CuratedInv, Target
  <2>. QED BY <1>4 DEF CuratedInv, OwnInv, Target
<1>11. UncommittedInv' /\ AnnotatedInv'
  BY <1>3, <1>5, <1>7 DEF UncommittedInv, AnnotatedInv, At
<1>12. FirstTimeInv'
  <2> SUFFICES ASSUME NEW d \in Reviewers \ {c}, step[d] # "ready",
                      NEW n \in db'.notes, n[1] = d
               PROVE  n[2] # decision[d][2]
    BY <1>7 DEF FirstTimeInv, Target
  <2>. QED BY <1>3, <1>6 DEF FirstTimeInv, Target
<1>13. NotesFollowDecisions'
  BY <1>1, <1>3, <1>4, <1>6 DEF NotesFollowDecisions, ReviewTypeOK, Decisions
<1>14. ReportedMeansRecorded' /\ NoReviewerContradictsItself'
  BY <1>3, <1>6 DEF ReportedMeansRecorded, NoReviewerContradictsItself
<1>. QED BY <1>8, <1>9, <1>10, <1>11, <1>12, <1>13, <1>14

\* The inductive invariant of the workflow, with the store's beneath it.
THEOREM ReviewInvariance == ReviewSpec => [](IInv /\ ReviewInv)
<1>1. ReviewInit => IInv /\ ReviewInv
  BY ReviewInitIInv
<1>2. ASSUME IInv, ReviewInv, [ReviewNext]_allVars PROVE IInv' /\ ReviewInv'
  <2>1. [Next]_vars
    BY <1>2, Conservative
  <2>2. IInv'
    BY <1>2, <2>1, NextIInv
  <2>3. ASSUME NEW c \in Reviewers, Reviewer(c) PROVE ReviewInv'
    BY <1>2, <2>1, <2>3, DecideStep, ReturnStep
  <2>4. ASSUME NEW c \in Servers, Submit(c) PROVE ReviewInv'
    BY <1>2, <2>1, <2>4, SubmitStep
  <2>5. CASE UNCHANGED allVars
    BY <1>2, <2>2, <2>5
       DEF allVars, vars, reviewVars, ReviewInv, ReviewTypeOK, PlaceInv, OwnInv,
           CuratedInv, UncommittedInv, AnnotatedInv, At, Target, FirstTimeInv,
           NotesFollowDecisions, ReportedMeansRecorded, NoReviewerContradictsItself
  <2>. QED BY <1>2, <2>2, <2>3, <2>4, <2>5 DEF ReviewNext
<1>. QED BY <1>1, <1>2, PTL DEF ReviewSpec

-----------------------------------------------------------------------------
(* The theorems *)

\* A reviewer who was told that the decision is made finds its annotation in
\* the project for ever, for any number of reviewers, servers and claims.
THEOREM ReportsAreTrue == ReviewSpec => []ReportedMeansRecorded
BY ReviewInvariance, PTL DEF ReviewInv

\* A claim that an annotation calls accepted or rejected is not proposed.
THEOREM NotesAreFounded == ReviewSpec => []NotesFollowDecisions
BY ReviewInvariance, PTL DEF ReviewInv

\* Nobody decides a claim a second time, however often agents assert it again.
THEOREM ReviewersAreConsistent == ReviewSpec => []NoReviewerContradictsItself
BY ReviewInvariance, PTL DEF ReviewInv

\* Under the workflow the graph is sound in every state, as under the store.
THEOREM ReviewKeepsGraphSound == ReviewSpec => []GraphSound
BY ReviewInvariance, PTL DEF IInv
=============================================================================
