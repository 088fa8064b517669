---------------------------- MODULE ExportProofs ----------------------------
(***************************************************************************)
(* What a finished export and a diff promise, for any number of projects,  *)
(* runs, rows and exports: the safety invariants of Export.                *)
(*                                                                         *)
(* An export has no snapshot to read from.  What holds its streams         *)
(* together is that rows are never deleted, so what was read early is      *)
(* still there when the ledger is read, and that graph/ is written before  *)
(* ledger/, so the ledger can only know more: Ordered says both of a       *)
(* stream of the graph and the stream of the ledger that accounts for it.  *)
(***************************************************************************)
EXTENDS Export, TLAPS

Files == Streams \cup {"manifest"}

\* A stream of the graph, and the stream of the ledger that says which run
\* each of its rows is from.
Accounts == {<<"artifacts", "observations">>, <<"claims", "attestations">>}

\* The ids a stream of graph g would have.
IdsOf(g, stream) ==
    CASE stream = "artifacts" -> g.artifacts
      [] stream = "claims" -> Known(g)
      [] stream = "claim_links" -> Ids(g.links)
      [] stream = "runs" -> {r \in Runs : g.runs[r] # "absent"}
      [] stream = "attestations" -> Ids(g.attested)
      [] stream = "observations" -> Ids(g.observed)
      [] stream = "annotations" -> g.notes

GraphsInv == db \in [Projects -> Graphs] /\ \A p \in Projects : Sound(db[p])

FilesInv ==
    /\ DOMAIN out = Projects
    /\ \A p \in Projects : DOMAIN out[p] = Files
    /\ whole \subseteq Projects

ExportTypeOK ==
    export # Nothing =>
        /\ export = [project |-> export.project, stable |-> export.stable,
                     todo |-> export.todo, written |-> export.written,
                     begun |-> export.begun]
        /\ export.project \in Projects \ whole
        /\ export.todo \in Seq(Streams)
        /\ DOMAIN export.written \subseteq Streams

Left(e, s) == \E i \in 1 .. Len(e.todo) : e.todo[i] = s

\* The stream s of the graph is read before the stream t of the ledger.
Ordered(e, s, t) ==
    /\ \A i, j \in 1 .. Len(e.todo) : e.todo[i] = s /\ e.todo[j] = t => i < j
    /\ t \in DOMAIN e.written => ~Left(e, s)
    /\ {s, t} \subseteq DOMAIN e.written => Ids(e.written[s]) \subseteq Ids(e.written[t])
    /\ ~e.stable => \A u \in {s, t} : u \in DOMAIN e.written \/ Left(e, u)

OrderInv == export # Nothing => \A a \in Accounts : Ordered(export, a[1], a[2])

\* What is written is on the disk, was in the project, and still is.
WrittenInv ==
    export # Nothing =>
        /\ \A s \in Streams : export.begun[s] \subseteq IdsOf(db[export.project], s)
        /\ \A s \in DOMAIN export.written :
            /\ out[export.project][s] = export.written[s]
            /\ Ids(export.written[s]) \subseteq IdsOf(db[export.project], s)

\* Whatever a file holds, the project has it.
OldFilesInv ==
    \A p \in Projects, s \in Streams :
        out[p][s] # Nothing => Ids(out[p][s]) \subseteq IdsOf(db[p], s)

LoadingInv ==
    loading # Nothing =>
        /\ loading.project \in Projects
        /\ loading.artifacts \subseteq IdsOf(db[loading.project], "artifacts")
        /\ ~loading.live =>
            Ids(out[loading.project]["claims"]) \subseteq IdsOf(db[loading.project], "claims")

BaselineInv ==
    baseline # Nothing =>
        /\ baseline.project \in Projects
        /\ baseline.artifacts \subseteq IdsOf(db[baseline.project], "artifacts")
        /\ baseline.claims \subseteq IdsOf(db[baseline.project], "claims")

\* The target is read after the baseline.
TargetInv ==
    loading # Nothing /\ baseline # Nothing
        /\ loading.live /\ loading.project = baseline.project
    => baseline.artifacts \subseteq loading.artifacts

ExportInv ==
    /\ GraphsInv
    /\ FilesInv
    /\ ExportTypeOK
    /\ OrderInv
    /\ WrittenInv
    /\ OldFilesInv
    /\ LoadingInv
    /\ BaselineInv
    /\ TargetInv
    /\ ProvenanceComplete
    /\ NothingMissing
    /\ ManifestHonest
    /\ NothingIsRemoved

-----------------------------------------------------------------------------
(* The streams *)

\* A row is its id and what goes with it.
LEMMA IdsOfPairs ==
    ASSUME NEW S, NEW rows,
           \A x \in S : \E row \in rows : row[1] = x,
           \A row \in rows : row[1] \in S
    PROVE  Ids(rows) = S
BY DEF Ids

LEMMA RowIds ==
    ASSUME NEW p \in Projects, NEW s \in Streams
    PROVE  Ids(Rows(p, s)) = IdsOf(db[p], s)
<1>1. CASE s = "artifacts"
  <2>1. Rows(p, s) = {<<a, first[p][a]>> : a \in db[p].artifacts}
    BY <1>1 DEF Rows
  <2>2. \A a \in db[p].artifacts :
            <<a, first[p][a]>> \in Rows(p, s) /\ <<a, first[p][a]>>[1] = a
    BY <2>1
  <2>3. \A row \in Rows(p, s) : row[1] \in db[p].artifacts
    BY <2>1
  <2>4. Ids(Rows(p, s)) = db[p].artifacts
    BY <2>2, <2>3, IdsOfPairs
  <2>. QED BY <1>1, <2>4 DEF IdsOf
<1>2. CASE s = "claims"
  <2>1. Rows(p, s) = {<<k, db[p].claims[k]>> : k \in Known(db[p])}
    BY <1>2 DEF Rows
  <2>2. \A k \in Known(db[p]) :
            <<k, db[p].claims[k]>> \in Rows(p, s) /\ <<k, db[p].claims[k]>>[1] = k
    BY <2>1
  <2>3. \A row \in Rows(p, s) : row[1] \in Known(db[p])
    BY <2>1
  <2>. QED BY <1>2, <2>2, <2>3, IdsOfPairs DEF IdsOf
<1>3. CASE s = "runs"
  <2> DEFINE R == {r \in Runs : db[p].runs[r] # "absent"}
  <2>1. Rows(p, s) = {<<r, db[p].runs[r]>> : r \in R}
    BY <1>3 DEF Rows
  <2> HIDE DEF R
  <2>2. \A r \in R : <<r, db[p].runs[r]>> \in Rows(p, s) /\ <<r, db[p].runs[r]>>[1] = r
    BY <2>1
  <2>3. \A row \in Rows(p, s) : row[1] \in R
    BY <2>1
  <2>4. Ids(Rows(p, s)) = R
    BY <2>2, <2>3, IdsOfPairs
  <2>. QED BY <1>3, <2>4 DEF IdsOf, R
<1>4. CASE s = "annotations"
  <2>1. Rows(p, s) = {<<n>> : n \in db[p].notes}
    BY <1>4 DEF Rows
  <2>2. \A n \in db[p].notes : <<n>> \in Rows(p, s) /\ <<n>>[1] = n
    BY <2>1
  <2>3. \A row \in Rows(p, s) : row[1] \in db[p].notes
    BY <2>1
  <2>4. Ids(Rows(p, s)) = db[p].notes
    BY <2>2, <2>3, IdsOfPairs
  <2>. QED BY <1>4, <2>4 DEF IdsOf
<1>5. CASE s \in {"claim_links", "attestations", "observations"}
  BY <1>5 DEF Rows, IdsOf
<1>. QED BY <1>1, <1>2, <1>3, <1>4, <1>5 DEF Streams

\* Each stream lists an artifact, a claim and a run once.
LEMMA RowsAreUnique ==
    ASSUME NEW p \in Projects, NEW s \in {"artifacts", "claims", "runs"},
           NEW x \in Rows(p, s), NEW y \in Rows(p, s), x[1] = y[1]
    PROVE  x = y
<1>1. CASE s = "artifacts"
  <2>1. Rows(p, s) = {<<a, first[p][a]>> : a \in db[p].artifacts}
    BY <1>1 DEF Rows
  <2>. QED BY <2>1
<1>2. CASE s = "claims"
  <2>1. Rows(p, s) = {<<k, db[p].claims[k]>> : k \in Known(db[p])}
    BY <1>2 DEF Rows
  <2>. QED BY <2>1
<1>3. CASE s = "runs"
  <2>1. Rows(p, s) =
            {<<r, db[p].runs[r]>> : r \in {q \in Runs : db[p].runs[q] # "absent"}}
    BY <1>3 DEF Rows
  <2>. QED BY <2>1
<1>. QED BY <1>1, <1>2, <1>3

\* The ledger of a sound graph accounts for the rows of the graph.
LEMMA LedgerAccounts ==
    ASSUME NEW g \in Graphs, Sound(g), NEW a \in Accounts
    PROVE  IdsOf(g, a[1]) \subseteq IdsOf(g, a[2])
<1>1. g.artifacts \subseteq Ids(g.observed)
  <2> SUFFICES ASSUME NEW x \in g.artifacts PROVE x \in Ids(g.observed)
    OBVIOUS
  <2>1. PICK r \in Runs : <<x, r>> \in g.observed
    BY DEF Sound, Provenanced
  <2>. QED BY <2>1, <<x, r>>[1] = x DEF Ids
<1>2. Known(g) \subseteq Ids(g.attested)
  <2> SUFFICES ASSUME NEW k \in Known(g) PROVE k \in Ids(g.attested)
    OBVIOUS
  <2>1. PICK r \in Runs : <<k, r>> \in g.attested
    BY DEF Sound, Attested
  <2>. QED BY <2>1, <<k, r>>[1] = k DEF Ids
<1>. QED BY <1>1, <1>2 DEF Accounts, IdsOf

\* Nothing a project has goes away when a run or a decision becomes visible.
LEMMA GraphsGrow ==
    ASSUME NEW g \in Graphs, NEW h \in Graphs,
           g.artifacts \subseteq h.artifacts, Known(g) \subseteq Known(h),
           g.links \subseteq h.links, g.attested \subseteq h.attested,
           g.observed \subseteq h.observed, g.notes \subseteq h.notes,
           \A r \in Runs : g.runs[r] # "absent" => h.runs[r] # "absent",
           NEW s \in Streams
    PROVE  IdsOf(g, s) \subseteq IdsOf(h, s)
<1>1. /\ Ids(g.links) \subseteq Ids(h.links) /\ Ids(g.attested) \subseteq Ids(h.attested)
      /\ Ids(g.observed) \subseteq Ids(h.observed)
  BY DEF Ids
<1>. QED BY <1>1 DEF IdsOf, Streams

\* Neither the end of a run nor a decision about a claim bears on soundness.
LEMMA StatusSound ==
    ASSUME NEW g \in Graphs, Sound(g)
    PROVE  /\ \A r \in Runs : Sound(SetRun(g, r, "failed"))
           /\ \A k \in Known(g), s \in {"accepted", "rejected"} : Sound(SetStatus(g, k, s))
<1>1. ASSUME NEW r \in Runs PROVE Sound(SetRun(g, r, "failed"))
  BY DEF Sound, Evidenced, Attested, Provenanced, ForeignKeys, Known, SetRun, Graphs
<1>2. ASSUME NEW k \in Known(g), NEW s \in {"accepted", "rejected"}
      PROVE  Sound(SetStatus(g, k, s))
  <2> DEFINE h == SetStatus(g, k, s)
  <2>1. /\ Known(h) = Known(g) /\ h.artifacts = g.artifacts /\ h.observed = g.observed
        /\ h.runs = g.runs /\ h.attested = g.attested /\ h.links = g.links
    BY <1>2 DEF SetStatus, Known, Graphs
  <2> HIDE DEF h
  <2>2. Sound(h)
    BY <2>1 DEF Sound, Evidenced, Attested, Provenanced, ForeignKeys
  <2>. QED BY <2>2 DEF h
<1>. QED BY <1>1, <1>2

\* What the writers do to the graphs: each grows, and stays sound.
LEMMA WritersGrow ==
    ASSUME GraphsInv, Writers
    PROVE  /\ GraphsInv' /\ UNCHANGED <<exporting, diffing>>
           /\ \A p \in Projects, s \in Streams : IdsOf(db[p], s) \subseteq IdsOf(db'[p], s)
<1> DEFINE Grows(p, h) ==
        /\ h \in Graphs /\ Sound(h) /\ db' = [db EXCEPT ![p] = h]
        /\ UNCHANGED <<exporting, diffing>>
        /\ \A s \in Streams : IdsOf(db[p], s) \subseteq IdsOf(h, s)
<1> SUFFICES \E p \in Projects, h \in Graphs : Grows(p, h)
  <2>1. PICK p \in Projects, h \in Graphs : Grows(p, h)
    OBVIOUS
  <2>2. \A q \in Projects : db'[q] = IF q = p THEN h ELSE db[q]
    BY <2>1 DEF GraphsInv
  <2>. QED BY <2>1, <2>2 DEF GraphsInv
<1>1. ASSUME NEW p \in Projects, NEW r \in Runs, Analyse(p, r)
      PROVE  Grows(p, Analysed(db[p], r))
  <2> DEFINE g == db[p]
             h == Analysed(g, r)
             f == Finds[r]
  <2>1. g \in Graphs /\ Sound(h) /\ db' = [db EXCEPT ![p] = h]
    BY <1>1 DEF Analyse, GraphsInv
  <2>2. f \in [artifacts : SUBSET Artifacts, claims : SUBSET Claims,
               links : SUBSET (Claims \X Claims), notes : SUBSET Notes]
    BY ExportAssumption
  <2> HIDE DEF f, g
  <2>3. /\ h.runs = [g.runs EXCEPT ![r] = "ok"]
        /\ h.artifacts = g.artifacts \cup f.artifacts
        /\ h.observed = g.observed \cup (f.artifacts \X {r})
        /\ h.claims = [k \in Claims |->
               IF k \in f.claims /\ g.claims[k] = "absent" THEN "proposed" ELSE g.claims[k]]
        /\ h.attested = g.attested \cup (f.claims \X {r})
        /\ h.links = g.links \cup f.links
        /\ h.notes = g.notes \cup f.notes
    BY <2>1 DEF f, Analysed, SetRun, Graphs
  <2>4. /\ h.runs \in [Runs -> RunStates] /\ h.artifacts \in SUBSET Artifacts
        /\ h.claims \in [Claims -> ClaimStates]
        /\ h.links \in SUBSET (Claims \X Claims) /\ h.notes \in SUBSET Notes
    BY <2>1, <2>2, <2>3 DEF Graphs, RunStates, ClaimStates
  <2>5. /\ h.observed \in SUBSET (Artifacts \X Runs)
        /\ h.attested \in SUBSET (Claims \X Runs)
    BY <2>1, <2>2, <2>3 DEF Graphs
  <2>7. h \in Graphs
    BY <2>1, <2>3, <2>4, <2>5 DEF f, Analysed, SetRun, Graphs
  <2> HIDE DEF h
  <2>8. \A s \in Streams : IdsOf(g, s) \subseteq IdsOf(h, s)
    <3>1. Known(g) \subseteq Known(h)
      BY <2>3 DEF Known
    <3>2. \A q \in Runs : g.runs[q] # "absent" => h.runs[q] # "absent"
      BY <2>1, <2>3 DEF Graphs
    <3>. QED BY <2>1, <2>3, <2>7, <3>1, <3>2, GraphsGrow
  <2>. QED BY <1>1, <2>1, <2>7, <2>8 DEF Analyse, g, h
<1>2. ASSUME NEW p \in Projects, NEW r \in Runs, NoteFailure(p, r)
      PROVE  Grows(p, SetRun(db[p], r, "failed"))
  <2> DEFINE g == db[p]
             h == SetRun(g, r, "failed")
  <2>1. g \in Graphs /\ Sound(g) /\ g.runs[r] = "absent"
    BY <1>2 DEF NoteFailure, GraphsInv
  <2> HIDE DEF g
  <2>2. h \in Graphs
    BY <2>1 DEF SetRun, Graphs, RunStates
  <2>3. /\ h.runs = [g.runs EXCEPT ![r] = "failed"]
        /\ h.artifacts = g.artifacts /\ h.observed = g.observed /\ h.claims = g.claims
        /\ h.attested = g.attested /\ h.links = g.links /\ h.notes = g.notes
    BY <2>1 DEF SetRun, Graphs
  <2>4. Sound(h)
    BY <2>1, StatusSound
  <2> HIDE DEF h
  <2>5. Known(g) \subseteq Known(h) /\ \A q \in Runs : g.runs[q] # "absent" => h.runs[q] # "absent"
    BY <2>1, <2>3 DEF Known, Graphs
  <2>6. \A s \in Streams : IdsOf(g, s) \subseteq IdsOf(h, s)
    BY <2>1, <2>2, <2>3, <2>5, GraphsGrow
  <2>. QED BY <1>2, <2>2, <2>4, <2>6 DEF NoteFailure, g, h
<1>3. ASSUME NEW p \in Projects, NEW k \in Claims, NEW s \in Decisions, Decide(p, k, s)
      PROVE  Grows(p, SetStatus(db[p], k, s))
  <2> DEFINE g == db[p]
             h == SetStatus(g, k, s)
  <2>1. g \in Graphs /\ Sound(g) /\ g.claims[k] = "proposed"
    BY <1>3 DEF Decide, GraphsInv
  <2>2. s \in ClaimStates /\ s # "absent"
    BY ExportAssumption DEF ClaimStates
  <2> HIDE DEF g
  <2>3. h \in Graphs
    BY <2>1, <2>2 DEF SetStatus, Graphs
  <2>4. /\ h.claims = [g.claims EXCEPT ![k] = s]
        /\ h.artifacts = g.artifacts /\ h.observed = g.observed /\ h.runs = g.runs
        /\ h.attested = g.attested /\ h.links = g.links /\ h.notes = g.notes
    BY <2>1 DEF SetStatus, Graphs
  <2>5. Known(h) = Known(g)
    BY <2>1, <2>2, <2>4 DEF Known, Graphs
  <2>6. Sound(h)
    BY <2>1, StatusSound, ExportAssumption DEF Known
  <2> HIDE DEF h
  <2>7. \A t \in Streams : IdsOf(g, t) \subseteq IdsOf(h, t)
    BY <2>1, <2>3, <2>4, <2>5, GraphsGrow
  <2>. QED BY <1>3, <2>3, <2>6, <2>7 DEF Decide, g, h
<1> HIDE DEF Grows
<1>4. PICK p \in Projects : \/ \E r \in Runs : Analyse(p, r) \/ NoteFailure(p, r)
                            \/ \E k \in Claims, s \in Decisions : Decide(p, k, s)
  BY DEF Writers
<1>5. \E h : Grows(p, h)
  BY <1>1, <1>2, <1>3, <1>4
<1>. QED BY <1>5 DEF Grows

-----------------------------------------------------------------------------
(* The order of the streams *)

\* The streams of an export, spelled out.
LEMMA SixStreams ==
    ASSUME NEW u, u = <<"artifacts", "claims", "claim_links">>,
           NEW v, v = <<"runs", "attestations", "observations">>
    PROVE  u \o v = <<"artifacts", "claims", "claim_links",
                      "runs", "attestations", "observations">>
<1>1. u \in Seq(Streams) /\ v \in Seq(Streams) /\ Len(u) = 3 /\ Len(v) = 3
  BY DEF Streams
<1> DEFINE six == u \o v
<1>2. six \in Seq(Streams) /\ Len(six) = 6
  BY <1>1
<1>3. /\ six[1] = u[1] /\ six[2] = u[2] /\ six[3] = u[3]
      /\ six[4] = v[1] /\ six[5] = v[2] /\ six[6] = v[3]
  BY <1>1
<1>4. /\ u[1] = "artifacts" /\ u[2] = "claims" /\ u[3] = "claim_links"
      /\ v[1] = "runs" /\ v[2] = "attestations" /\ v[3] = "observations"
  OBVIOUS
<1> HIDE DEF six
<1>5. six = <<"artifacts", "claims", "claim_links",
              "runs", "attestations", "observations">>
  BY <1>2, <1>3, <1>4
<1>. QED BY <1>5 DEF six

LEMMA SevenStreams ==
    ASSUME NEW u, u = <<"artifacts", "claims", "claim_links",
                        "runs", "attestations", "observations">>,
           NEW v, v = <<"annotations">>
    PROVE  u \o v = <<"artifacts", "claims", "claim_links",
                      "runs", "attestations", "observations", "annotations">>
<1>1. u \in Seq(Streams) /\ v \in Seq(Streams) /\ Len(u) = 6 /\ Len(v) = 1
  BY DEF Streams
<1> DEFINE seven == u \o v
<1>2. seven \in Seq(Streams) /\ Len(seven) = 7
  BY <1>1
<1>3. /\ seven[1] = u[1] /\ seven[2] = u[2] /\ seven[3] = u[3] /\ seven[4] = u[4]
      /\ seven[5] = u[5] /\ seven[6] = u[6] /\ seven[7] = v[1]
  BY <1>1
<1>4. /\ u[1] = "artifacts" /\ u[2] = "claims" /\ u[3] = "claim_links" /\ u[4] = "runs"
      /\ u[5] = "attestations" /\ u[6] = "observations" /\ v[1] = "annotations"
  OBVIOUS
<1> HIDE DEF seven
<1>5. seven = <<"artifacts", "claims", "claim_links",
                "runs", "attestations", "observations", "annotations">>
  BY <1>2, <1>3, <1>4
<1>. QED BY <1>5 DEF seven

LEMMA TodoValues ==
    ASSUME NEW o \in Options
    PROVE  /\ o.stable => Todo(o) = <<"artifacts", "claims", "claim_links">>
           /\ ~o.stable /\ ~o.annotations => Todo(o) =
                <<"artifacts", "claims", "claim_links",
                  "runs", "attestations", "observations">>
           /\ ~o.stable /\ o.annotations => Todo(o) =
                <<"artifacts", "claims", "claim_links",
                  "runs", "attestations", "observations", "annotations">>
<1> DEFINE six == GraphStreams \o LedgerStreams
<1>1. six = <<"artifacts", "claims", "claim_links",
              "runs", "attestations", "observations">>
  BY SixStreams DEF GraphStreams, LedgerStreams
<1>2. /\ o.stable => Todo(o) = GraphStreams
      /\ ~o.stable /\ ~o.annotations => Todo(o) = six \o <<>>
      /\ ~o.stable /\ o.annotations => Todo(o) = six \o <<"annotations">>
  BY ExportAssumption DEF Todo
<1> HIDE DEF six
<1>3. six \in Seq(Streams)
  BY <1>1 DEF Streams
<1>4. six \o <<>> = six
  BY <1>3
<1>5. six \o <<"annotations">> =
        <<"artifacts", "claims", "claim_links",
          "runs", "attestations", "observations", "annotations">>
  BY <1>1, SevenStreams
<1>. QED BY <1>1, <1>2, <1>4, <1>5 DEF GraphStreams

\* An export starts with every stream ahead of it, the graph's first.
LEMMA TodoOrdered ==
    ASSUME NEW o \in Options, NEW e, e.todo = Todo(o), e.stable = o.stable,
           DOMAIN e.written = {}
    PROVE  e.todo \in Seq(Streams) /\ \A a \in Accounts : Ordered(e, a[1], a[2])
<1>1. CASE o.stable
  <2>1. e.todo = <<"artifacts", "claims", "claim_links">>
    BY <1>1, TodoValues
  <2>. QED BY <1>1, <2>1 DEF Ordered, Accounts, Streams
<1>2. CASE ~o.stable /\ ~o.annotations
  <2>1. e.todo = <<"artifacts", "claims", "claim_links",
                   "runs", "attestations", "observations">>
    BY <1>2, TodoValues
  <2>2. /\ e.todo \in Seq(Streams) /\ Len(e.todo) = 6 /\ e.todo[1] = "artifacts"
        /\ e.todo[2] = "claims" /\ e.todo[3] = "claim_links" /\ e.todo[4] = "runs"
        /\ e.todo[5] = "attestations" /\ e.todo[6] = "observations"
    BY <2>1 DEF Streams
  <2>. QED BY <2>2 DEF Ordered, Accounts, Left
<1>3. CASE ~o.stable /\ o.annotations
  <2>1. e.todo = <<"artifacts", "claims", "claim_links",
                   "runs", "attestations", "observations", "annotations">>
    BY <1>3, TodoValues
  <2>2. /\ e.todo \in Seq(Streams) /\ Len(e.todo) = 7 /\ e.todo[1] = "artifacts"
        /\ e.todo[2] = "claims" /\ e.todo[3] = "claim_links" /\ e.todo[4] = "runs"
        /\ e.todo[5] = "attestations" /\ e.todo[6] = "observations"
        /\ e.todo[7] = "annotations"
    BY <2>1 DEF Streams
  <2>. QED BY <2>2 DEF Ordered, Accounts, Left
<1>. QED BY <1>1, <1>2, <1>3, ExportAssumption

-----------------------------------------------------------------------------
(* The inductive invariant *)

LEMMA InitExportInv == Init => ExportInv
<1> SUFFICES ASSUME Init PROVE ExportInv
  OBVIOUS
<1> USE DEF Init
<1>1. EmptyGraph \in Graphs /\ Sound(EmptyGraph)
  BY DEF EmptyGraph, Graphs, RunStates, ClaimStates, Sound, Evidenced, Attested,
         Provenanced, ForeignKeys, Known
<1>2. GraphsInv
  BY <1>1 DEF GraphsInv
<1>3. FilesInv
  BY DEF FilesInv, Files
<1>4. ExportTypeOK /\ OrderInv /\ WrittenInv /\ OldFilesInv
  BY DEF ExportTypeOK, OrderInv, WrittenInv, OldFilesInv
<1>5. LoadingInv /\ BaselineInv /\ TargetInv
  BY DEF LoadingInv, BaselineInv, TargetInv
<1>6. ProvenanceComplete /\ NothingMissing /\ ManifestHonest /\ NothingIsRemoved
  BY DEF ProvenanceComplete, NothingMissing, ManifestHonest, NothingIsRemoved
<1>. QED BY <1>2, <1>3, <1>4, <1>5, <1>6 DEF ExportInv

\* The writers go on at any moment: what was read stays in the project.
LEMMA WritersStep == ExportInv /\ Writers => ExportInv'
<1> SUFFICES ASSUME ExportInv, Writers PROVE ExportInv'
  OBVIOUS
<1> USE DEF ExportInv
<1>1. GraphsInv' /\ UNCHANGED <<exporting, diffing>>
  BY WritersGrow
<1>2. \A p \in Projects, s \in Streams : IdsOf(db[p], s) \subseteq IdsOf(db'[p], s)
  BY WritersGrow
<1> USE <1>1 DEF exporting, diffing
<1>3. FilesInv' /\ ExportTypeOK' /\ OrderInv'
  BY DEF FilesInv, ExportTypeOK, OrderInv
<1>4. WrittenInv'
  <2> SUFFICES ASSUME export # Nothing PROVE WrittenInv'
    BY DEF WrittenInv
  <2>1. export.project \in Projects /\ DOMAIN export.written \subseteq Streams
    BY DEF ExportTypeOK
  <2>. QED BY <1>2, <2>1 DEF WrittenInv
<1>5. OldFilesInv'
  BY <1>2 DEF OldFilesInv
<1>6. "artifacts" \in Streams /\ "claims" \in Streams
  BY DEF Streams
<1>7. LoadingInv' /\ BaselineInv' /\ TargetInv'
  BY <1>2, <1>6 DEF LoadingInv, BaselineInv, TargetInv
<1>8. ProvenanceComplete' /\ NothingMissing' /\ ManifestHonest' /\ NothingIsRemoved'
  BY DEF ProvenanceComplete, NothingMissing, ManifestHonest, NothingIsRemoved
<1>. QED BY <1>3, <1>4, <1>5, <1>7, <1>8

LEMMA StartExportStep ==
    ASSUME ExportInv, NEW p \in Projects, NEW o \in Options, StartExport(p, o)
    PROVE  ExportInv'
<1> USE DEF ExportInv
<1>1. /\ whole' = whole \ {p} /\ UNCHANGED <<db, first, out, loading, baseline, removed>>
      /\ export' = [project |-> p, stable |-> o.stable, todo |-> Todo(o),
                    written |-> [s \in {} |-> {}],
                    begun |-> [s \in Streams |-> Ids(Rows(p, s))]]
  BY DEF StartExport, writing, diffing
<1>2. /\ export'.project = p /\ export'.stable = o.stable /\ export'.todo = Todo(o)
      /\ DOMAIN export'.written = {}
      /\ export'.begun = [s \in Streams |-> Ids(Rows(p, s))]
  BY <1>1
<1>3. GraphsInv' /\ FilesInv' /\ OldFilesInv' /\ LoadingInv' /\ BaselineInv' /\ TargetInv'
  BY <1>1 DEF GraphsInv, FilesInv, OldFilesInv, LoadingInv, BaselineInv, TargetInv
<1>4. export'.todo \in Seq(Streams) /\ \A a \in Accounts : Ordered(export', a[1], a[2])
  BY <1>2, TodoOrdered
<1>5. ExportTypeOK' /\ OrderInv'
  BY <1>1, <1>2, <1>4 DEF ExportTypeOK, OrderInv
<1>6. WrittenInv'
  BY <1>1, <1>2, RowIds DEF WrittenInv
<1>7. ProvenanceComplete' /\ NothingMissing' /\ ManifestHonest' /\ NothingIsRemoved'
  BY <1>1, <1>2 DEF ProvenanceComplete, NothingMissing, ManifestHonest, NothingIsRemoved
<1>. QED BY <1>3, <1>5, <1>6, <1>7

\* One stream is read and written.
LEMMA WriteStreamStep == ExportInv /\ WriteStream => ExportInv'
<1> SUFFICES ASSUME ExportInv, WriteStream PROVE ExportInv'
  OBVIOUS
<1> USE DEF ExportInv
<1> DEFINE p == export.project
           s == Head(export.todo)
           e == export'
<1>1. /\ export # Nothing /\ export.todo \in Seq(Streams) /\ export.todo # <<>>
      /\ p \in Projects \ whole /\ DOMAIN export.written \subseteq Streams
      /\ export = [project |-> p, stable |-> export.stable, todo |-> export.todo,
                   written |-> export.written, begun |-> export.begun]
  BY DEF WriteStream, ExportTypeOK
<1>2. s \in Streams /\ s \in Files /\ s # "manifest"
  BY <1>1 DEF Files, Streams
<1>3. /\ out' = [out EXCEPT ![p][s] = Rows(p, s)]
      /\ export' = [export EXCEPT
            !.todo = Tail(@),
            !.written = [t \in DOMAIN @ \cup {s} |-> IF t = s THEN Rows(p, s) ELSE @[t]]]
      /\ UNCHANGED <<db, first, whole, loading, baseline, removed>>
  BY DEF WriteStream, FileOf, writing, diffing
<1>4. /\ e.project = p /\ e.stable = export.stable /\ e.todo = Tail(export.todo)
      /\ e.written = [t \in DOMAIN export.written \cup {s} |->
                         IF t = s THEN Rows(p, s) ELSE export.written[t]]
      /\ e.begun = export.begun
      /\ e = [project |-> e.project, stable |-> e.stable, todo |-> e.todo,
              written |-> e.written, begun |-> e.begun]
  BY <1>1, <1>3
<1>5. /\ DOMAIN out' = Projects /\ \A q \in Projects : DOMAIN out'[q] = Files
      /\ out'[p][s] = Rows(p, s)
      /\ \A q \in Projects, f \in Files : q # p \/ f # s => out'[q][f] = out[q][f]
  BY <1>1, <1>2, <1>3 DEF FilesInv
<1>6. Ids(Rows(p, s)) = IdsOf(db[p], s)
  BY <1>1, <1>2, RowIds
<1> HIDE DEF p, s, e
<1>7. GraphsInv' /\ FilesInv' /\ BaselineInv' /\ TargetInv'
  BY <1>3, <1>5 DEF GraphsInv, FilesInv, BaselineInv, TargetInv
<1>8. ExportTypeOK'
  BY <1>1, <1>2, <1>3, <1>4 DEF ExportTypeOK, e
<1>9. OldFilesInv'
  BY <1>1, <1>3, <1>5, <1>6 DEF OldFilesInv, Files
<1>10. LoadingInv'
  <2>1. "claims" \in Files
    BY DEF Files, Streams
  <2>. QED BY <1>1, <1>3, <1>5, <1>6, <2>1 DEF LoadingInv
<1>11. WrittenInv'
  <2>1. \A t \in Streams : e.begun[t] \subseteq IdsOf(db[p], t)
    BY <1>1, <1>4 DEF WrittenInv, p
  <2>2. ASSUME NEW t \in DOMAIN e.written
        PROVE  out'[p][t] = e.written[t] /\ Ids(e.written[t]) \subseteq IdsOf(db[p], t)
    <3>1. CASE t = s
      BY <1>4, <1>5, <1>6, <3>1
    <3>2. CASE t # s
      <4>1. t \in DOMAIN export.written /\ t \in Files /\ e.written[t] = export.written[t]
        BY <1>1, <1>4, <3>2 DEF Files
      <4>. QED BY <1>1, <1>5, <3>2, <4>1 DEF WrittenInv, p
    <3>. QED BY <3>1, <3>2
  <2>3. db' = db /\ export'.project = p
    BY <1>3, <1>4 DEF e
  <2>. QED BY <2>1, <2>2, <2>3 DEF WrittenInv, e
<1>12. ASSUME NEW a \in Accounts PROVE Ordered(e, a[1], a[2])
  <2> DEFINE x == a[1]
             y == a[2]
  <2>1. Ordered(export, x, y) /\ IdsOf(db[p], x) \subseteq IdsOf(db[p], y) /\ x # y
    BY <1>1, LedgerAccounts DEF OrderInv, GraphsInv, Accounts
  <2> HIDE DEF x, y
  <2>2. /\ \A i \in 1 .. Len(e.todo) : i + 1 \in 1 .. Len(export.todo)
                                       /\ e.todo[i] = export.todo[i + 1]
        /\ 1 \in 1 .. Len(export.todo) /\ export.todo[1] = s
        /\ \A i \in 1 .. Len(export.todo) : i = 1 \/ i - 1 \in 1 .. Len(e.todo)
    BY <1>1, <1>4 DEF s
  <2>3. \A u : Left(e, u) => Left(export, u)
    BY <2>2 DEF Left
  <2>4. \A u : Left(export, u) => u = s \/ Left(e, u)
    <3> SUFFICES ASSUME NEW u, NEW i \in 1 .. Len(export.todo), export.todo[i] = u, u # s
                 PROVE  Left(e, u)
      BY DEF Left
    <3>1. i - 1 \in 1 .. Len(e.todo) /\ i \in Nat
      BY <2>2
    <3>2. e.todo[i - 1] = export.todo[(i - 1) + 1]
      BY <2>2, <3>1
    <3>. QED BY <3>1, <3>2 DEF Left
  <2>5. \A i, j \in 1 .. Len(e.todo) : e.todo[i] = x /\ e.todo[j] = y => i < j
    <3> SUFFICES ASSUME NEW i \in 1 .. Len(e.todo), NEW j \in 1 .. Len(e.todo),
                        e.todo[i] = x, e.todo[j] = y
                 PROVE  i < j
      OBVIOUS
    <3>1. i + 1 < j + 1
      BY <2>1, <2>2 DEF Ordered
    <3>. QED BY <3>1
  <2>6. y \in DOMAIN e.written => ~Left(e, x)
    <3>1. CASE y = s
      <4> SUFFICES ASSUME NEW i \in 1 .. Len(e.todo), e.todo[i] = x PROVE FALSE
        BY DEF Left
      <4>1. i + 1 < 1
        BY <2>1, <2>2, <3>1 DEF Ordered
      <4>. QED BY <4>1
    <3>2. CASE y # s
      BY <1>4, <2>1, <2>3, <3>2 DEF Ordered
    <3>. QED BY <3>1, <3>2
  <2>7. {x, y} \subseteq DOMAIN e.written =>
            Ids(e.written[x]) \subseteq Ids(e.written[y])
    <3> SUFFICES ASSUME x \in DOMAIN e.written, y \in DOMAIN e.written
                 PROVE  Ids(e.written[x]) \subseteq Ids(e.written[y])
      OBVIOUS
    <3>1. CASE y = s
      <4>1. x \in DOMAIN export.written /\ e.written[x] = export.written[x]
            /\ e.written[y] = Rows(p, y)
        BY <1>4, <2>1, <3>1
      <4>2. Ids(export.written[x]) \subseteq IdsOf(db[p], x)
        BY <1>1, <4>1 DEF WrittenInv, p
      <4>. QED BY <1>6, <2>1, <3>1, <4>1, <4>2
    <3>2. CASE x = s
      <4>1. Left(export, x)
        BY <2>2, <3>2 DEF Left
      <4>. QED BY <1>4, <2>1, <3>2, <4>1 DEF Ordered
    <3>3. CASE x # s /\ y # s
      BY <1>4, <2>1, <3>3 DEF Ordered
    <3>. QED BY <3>1, <3>2, <3>3
  <2>8. ~e.stable => \A u \in {x, y} : u \in DOMAIN e.written \/ Left(e, u)
    BY <1>4, <2>1, <2>4 DEF Ordered
  <2>. QED BY <2>5, <2>6, <2>7, <2>8 DEF Ordered, x, y
<1>13. OrderInv'
  BY <1>12 DEF OrderInv, e
<1>14. ProvenanceComplete'
  BY <1>1, <1>3, <1>5 DEF ProvenanceComplete, FilesInv, Files
<1>15. ManifestHonest'
  <2> SUFFICES ASSUME NEW q \in whole,
                      NEW f \in DOMAIN out[q]["manifest"].files
               PROVE  out'[q][f] = out[q]["manifest"].files[f]
                      /\ out'[q]["manifest"] = out[q]["manifest"]
    BY <1>1, <1>3, <1>5 DEF ManifestHonest, FilesInv, Files
  <2>1. q \in Projects /\ q # p
    BY <1>1 DEF FilesInv
  <2>2. out'[q] = out[q]
    BY <1>1, <1>3, <2>1 DEF FilesInv
  <2>. QED BY <2>2 DEF ManifestHonest
<1>16. NothingMissing'
  <2> SUFFICES ASSUME NEW t \in DOMAIN e.written
               PROVE  /\ e.begun[t] \subseteq Ids(out'[p][t])
                      /\ t \in {"artifacts", "claims", "runs"} =>
                            \A x, y \in out'[p][t] : x[1] = y[1] => x = y
    BY <1>4 DEF NothingMissing, e
  <2>1. CASE t = s
    <3>1. e.begun[s] \subseteq IdsOf(db[p], s)
      BY <1>1, <1>2, <1>4 DEF WrittenInv, p
    <3>. QED BY <1>1, <1>5, <1>6, <2>1, <3>1, RowsAreUnique
  <2>2. CASE t # s
    <3>1. t \in DOMAIN export.written /\ t \in Files
      BY <1>1, <1>4, <2>2 DEF Files
    <3>2. out'[p][t] = out[p][t]
      BY <1>1, <1>5, <2>2, <3>1
    <3>. QED BY <1>1, <1>4, <3>1, <3>2 DEF NothingMissing, p
  <2>. QED BY <2>1, <2>2
<1>17. NothingIsRemoved'
  BY <1>3 DEF NothingIsRemoved
<1>. QED BY <1>7, <1>8, <1>9, <1>10, <1>11, <1>13, <1>14, <1>15, <1>16, <1>17

LEMMA FinishExportStep == ExportInv /\ FinishExport => ExportInv'
<1> SUFFICES ASSUME ExportInv, FinishExport PROVE ExportInv'
  OBVIOUS
<1> USE DEF ExportInv
<1> DEFINE p == export.project
           m == Manifest(export)
<1>1. /\ export # Nothing /\ export.todo = <<>> /\ p \in Projects \ whole
      /\ DOMAIN export.written \subseteq Streams
      /\ out' = [out EXCEPT ![p]["manifest"] = m] /\ whole' = whole \cup {p}
      /\ export' = Nothing /\ UNCHANGED <<db, first, loading, baseline, removed>>
  BY DEF FinishExport, ExportTypeOK, writing, diffing
<1>2. m.stable = export.stable /\ m.files = export.written
  BY DEF Manifest
<1> HIDE DEF p, m
<1>3. "manifest" \in Files /\ \A s \in Streams : s \in Files /\ s # "manifest"
  BY DEF Files, Streams
<1>4. /\ DOMAIN out' = Projects /\ \A q \in Projects : DOMAIN out'[q] = Files
      /\ out'[p]["manifest"] = m
      /\ \A q \in Projects, f \in Files : q # p \/ f # "manifest" => out'[q][f] = out[q][f]
      /\ \A q \in whole : out'[q] = out[q]
  BY <1>1, <1>3 DEF FilesInv
<1>5. GraphsInv' /\ FilesInv' /\ BaselineInv' /\ TargetInv'
  BY <1>1, <1>4 DEF GraphsInv, FilesInv, BaselineInv, TargetInv
<1>6. ExportTypeOK' /\ OrderInv' /\ WrittenInv' /\ NothingMissing'
  BY <1>1 DEF ExportTypeOK, OrderInv, WrittenInv, NothingMissing
<1>7. OldFilesInv' /\ LoadingInv'
  <2>1. "claims" \in Streams
    BY DEF Streams
  <2>2. \A q \in Projects, s \in Streams : out'[q][s] = out[q][s]
    BY <1>3, <1>4
  <2>. QED BY <1>1, <2>1, <2>2 DEF OldFilesInv, LoadingInv
<1>8. ProvenanceComplete'
  <2>1. ASSUME NEW a \in Accounts, ~m.stable
        PROVE  Ids(m.files[a[1]]) \subseteq Ids(m.files[a[2]])
    <3>1. Ordered(export, a[1], a[2]) /\ \A u : ~Left(export, u)
      BY <1>1 DEF OrderInv, Left
    <3>. QED BY <1>2, <2>1, <3>1 DEF Ordered
  <2>2. ~m.stable => /\ Ids(m.files["artifacts"]) \subseteq Ids(m.files["observations"])
                     /\ Ids(m.files["claims"]) \subseteq Ids(m.files["attestations"])
    <3>1. <<"artifacts", "observations">> \in Accounts
          /\ <<"claims", "attestations">> \in Accounts
      BY DEF Accounts
    <3>. QED BY <2>1, <3>1
  <2>. QED
    <3> SUFFICES ASSUME NEW q \in whole'
                 PROVE  LET n == out'[q]["manifest"]
                        IN  ~n.stable =>
                              /\ Ids(n.files["artifacts"]) \subseteq Ids(n.files["observations"])
                              /\ Ids(n.files["claims"]) \subseteq Ids(n.files["attestations"])
      BY DEF ProvenanceComplete
    <3>1. CASE q = p
      BY <1>4, <2>2, <3>1
    <3>2. CASE q # p
      BY <1>1, <1>4, <3>2 DEF ProvenanceComplete
    <3>. QED BY <3>1, <3>2
<1>9. ManifestHonest'
  <2>1. ASSUME NEW s \in DOMAIN m.files PROVE out'[p][s] = m.files[s]
    BY <1>1, <1>2, <1>3, <1>4 DEF WrittenInv, p
  <2>. QED BY <1>1, <1>4, <2>1 DEF ManifestHonest
<1>10. NothingIsRemoved'
  BY <1>1 DEF NothingIsRemoved
<1>. QED BY <1>5, <1>6, <1>7, <1>8, <1>9, <1>10

\* A dead export leaves a file with some of its lines, in a directory whose
\* last export is not whole.
LEMMA DeathStep == ExportInv /\ (Die \/ DieWriting) => ExportInv'
<1> SUFFICES ASSUME ExportInv, Die \/ DieWriting PROVE ExportInv'
  OBVIOUS
<1> USE DEF ExportInv
<1>1. CASE Die
  BY <1>1 DEF Die, writing, diffing, GraphsInv, FilesInv, ExportTypeOK, OrderInv,
              WrittenInv, OldFilesInv, LoadingInv, BaselineInv, TargetInv,
              ProvenanceComplete, NothingMissing, ManifestHonest, NothingIsRemoved
<1>2. CASE DieWriting
  <2> DEFINE p == export.project
             s == Head(export.todo)
  <2>1. PICK lines \in SUBSET Rows(p, s) : out' = [out EXCEPT ![p][s] = lines]
    BY <1>2 DEF DieWriting
  <2>2. /\ p \in Projects \ whole /\ s \in Streams
        /\ export' = Nothing /\ UNCHANGED <<db, first, whole, loading, baseline, removed>>
    BY <1>2 DEF DieWriting, ExportTypeOK, writing, diffing
  <2> HIDE DEF p, s
  <2>3. Ids(lines) \subseteq IdsOf(db[p], s)
    <3>1. Ids(Rows(p, s)) = IdsOf(db[p], s)
      BY <2>2, RowIds
    <3>. QED BY <3>1 DEF Ids
  <2>4. "claims" \in Streams /\ \A t \in Streams : t \in Files
    BY DEF Streams, Files
  <2>5. /\ DOMAIN out' = Projects /\ \A q \in Projects : DOMAIN out'[q] = Files
        /\ out'[p][s] = lines
        /\ \A q \in Projects, f \in Files : q # p \/ f # s => out'[q][f] = out[q][f]
        /\ \A q \in whole : out'[q] = out[q]
    BY <2>1, <2>2, <2>4 DEF FilesInv
  <2>6. GraphsInv' /\ FilesInv' /\ BaselineInv' /\ TargetInv'
    BY <2>2, <2>5 DEF GraphsInv, FilesInv, BaselineInv, TargetInv
  <2>7. ExportTypeOK' /\ OrderInv' /\ WrittenInv' /\ NothingMissing'
    BY <2>2 DEF ExportTypeOK, OrderInv, WrittenInv, NothingMissing
  <2>8. OldFilesInv' /\ LoadingInv'
    BY <2>2, <2>3, <2>4, <2>5 DEF OldFilesInv, LoadingInv
  <2>9. ProvenanceComplete' /\ ManifestHonest' /\ NothingIsRemoved'
    BY <2>2, <2>5 DEF ProvenanceComplete, ManifestHonest, NothingIsRemoved
  <2>. QED BY <2>6, <2>7, <2>8, <2>9
<1>. QED BY <1>1, <1>2

\* The two reads of a snapshot, of a project or of the files of an export.
LEMMA SnapshotStep ==
    ASSUME ExportInv,
           \/ \E p \in Projects, live \in BOOLEAN : LoadArtifacts(p, live)
           \/ LoadBaseline
           \/ LoadTarget
    PROVE  ExportInv'
<1> USE DEF ExportInv
<1>1. UNCHANGED <<writing, exporting>>
  BY DEF LoadArtifacts, LoadBaseline, LoadTarget
<1> USE <1>1 DEF writing, exporting
<1>2. GraphsInv' /\ FilesInv' /\ ExportTypeOK' /\ OrderInv' /\ WrittenInv' /\ OldFilesInv'
  BY DEF GraphsInv, FilesInv, ExportTypeOK, OrderInv, WrittenInv, OldFilesInv
<1>3. ProvenanceComplete' /\ NothingMissing' /\ ManifestHonest'
  BY DEF ProvenanceComplete, NothingMissing, ManifestHonest
<1>4. "artifacts" \in Streams /\ "claims" \in Streams
  BY DEF Streams
<1>5. ASSUME NEW p \in Projects, NEW live \in BOOLEAN, LoadArtifacts(p, live)
      PROVE  LoadingInv' /\ BaselineInv' /\ TargetInv' /\ NothingIsRemoved'
  <2>1. /\ loading'.project = p /\ loading'.live = live
        /\ loading'.artifacts =
              Ids(IF live THEN Rows(p, "artifacts") ELSE out[p]["artifacts"])
        /\ ~live => out[p]["artifacts"] # Nothing /\ out[p]["claims"] # Nothing
        /\ UNCHANGED <<baseline, removed>>
    BY <1>5 DEF LoadArtifacts
  <2>2. Ids(Rows(p, "artifacts")) = IdsOf(db[p], "artifacts")
    BY <1>4, RowIds
  <2>3. LoadingInv'
    BY <1>4, <2>1, <2>2 DEF LoadingInv, OldFilesInv
  <2>4. BaselineInv' /\ NothingIsRemoved'
    BY <2>1 DEF BaselineInv, NothingIsRemoved
  <2>5. TargetInv'
    BY <2>1, <2>2 DEF TargetInv, BaselineInv
  <2>. QED BY <2>3, <2>4, <2>5
<1>6. ASSUME loading # Nothing
      PROVE  /\ SnapshotRead.project = loading.project
             /\ SnapshotRead.artifacts = loading.artifacts
             /\ SnapshotRead.claims \subseteq IdsOf(db[loading.project], "claims")
             /\ loading.live => SnapshotRead.claims = IdsOf(db[loading.project], "claims")
  <2>1. Ids(Rows(loading.project, "claims")) = IdsOf(db[loading.project], "claims")
    BY <1>4, <1>6, RowIds DEF LoadingInv
  <2>. QED BY <1>6, <2>1 DEF SnapshotRead, LoadingInv
<1>7. ASSUME LoadBaseline
      PROVE  LoadingInv' /\ BaselineInv' /\ TargetInv' /\ NothingIsRemoved'
  <2>1. /\ loading # Nothing /\ loading' = Nothing /\ removed' = removed
        /\ baseline' = SnapshotRead
    BY <1>7 DEF LoadBaseline
  <2>. QED BY <1>6, <2>1 DEF LoadingInv, BaselineInv, TargetInv, NothingIsRemoved
<1>8. ASSUME LoadTarget
      PROVE  LoadingInv' /\ BaselineInv' /\ TargetInv' /\ NothingIsRemoved'
  <2>1. /\ loading # Nothing /\ baseline # Nothing
        /\ loading' = Nothing /\ baseline' = Nothing
        /\ removed' = IF loading.live /\ baseline.project = loading.project
                      THEN Diff(baseline, SnapshotRead).removed ELSE removed
    BY <1>8 DEF LoadTarget
  <2>2. LoadingInv' /\ BaselineInv' /\ TargetInv'
    BY <2>1 DEF LoadingInv, BaselineInv, TargetInv
  <2>3. CASE loading.live /\ baseline.project = loading.project
    <3>1. baseline.artifacts \subseteq SnapshotRead.artifacts
          /\ baseline.claims \subseteq SnapshotRead.claims
      BY <1>6, <2>1, <2>3 DEF TargetInv, BaselineInv
    <3>2. removed' = (baseline.artifacts \ SnapshotRead.artifacts)
                     \cup (baseline.claims \ SnapshotRead.claims)
      BY <2>1, <2>3 DEF Diff
    <3>. QED BY <2>2, <3>1, <3>2 DEF NothingIsRemoved
  <2>4. CASE ~(loading.live /\ baseline.project = loading.project)
    BY <2>1, <2>2, <2>4 DEF NothingIsRemoved
  <2>. QED BY <2>3, <2>4
<1>. QED BY <1>2, <1>3, <1>5, <1>7, <1>8

THEOREM ExportInvariance == Spec => []ExportInv
<1>1. ExportInv /\ [Next]_vars => ExportInv'
  <2> SUFFICES ASSUME ExportInv, [Next]_vars PROVE ExportInv'
    OBVIOUS
  <2>1. CASE Exporter
    <3>1. ASSUME NEW p \in Exported, NEW o \in Options, StartExport(p, o)
          PROVE  ExportInv'
      BY <3>1, StartExportStep, ExportAssumption
    <3>. QED BY <2>1, <3>1, WriteStreamStep, FinishExportStep, DeathStep DEF Exporter
  <2>2. CASE Differ
    BY <2>2, SnapshotStep, ExportAssumption DEF Differ
  <2>3. CASE UNCHANGED vars
    <3> USE <2>3 DEF vars, ExportInv
    <3>1. GraphsInv' /\ FilesInv' /\ ExportTypeOK' /\ OrderInv' /\ WrittenInv'
      BY DEF GraphsInv, FilesInv, ExportTypeOK, OrderInv, WrittenInv
    <3>2. OldFilesInv' /\ LoadingInv' /\ BaselineInv' /\ TargetInv'
      BY DEF OldFilesInv, LoadingInv, BaselineInv, TargetInv
    <3>3. ProvenanceComplete' /\ NothingMissing' /\ ManifestHonest' /\ NothingIsRemoved'
      BY DEF ProvenanceComplete, NothingMissing, ManifestHonest, NothingIsRemoved
    <3>. QED BY <3>1, <3>2, <3>3
  <2>. QED BY <2>1, <2>2, <2>3, WritersStep DEF Next
<1>. QED BY <1>1, InitExportInv, PTL DEF Spec

-----------------------------------------------------------------------------
(* The theorems *)

\* Every artifact of a finished export comes with an observation in it and
\* every claim with an attestation, although nothing ties its reads together.
THEOREM ExportsAreProvenanced == Spec => []ProvenanceComplete
BY ExportInvariance, PTL DEF ExportInv

\* A file of an export has every row that was committed when it was called,
\* each of them once.
THEOREM ExportsAreComplete == Spec => []NothingMissing
BY ExportInvariance, PTL DEF ExportInv

\* Every digest in the manifest of a finished export is that of the file it
\* names, whatever died in the directory before.
THEOREM ManifestsAreHonest == Spec => []ManifestHonest
BY ExportInvariance, PTL DEF ExportInv

\* A diff against the live project reports nothing of an older snapshot of it
\* as removed, not even against the files of an export that died.
THEOREM LiveDiffsRemoveNothing == Spec => []NothingIsRemoved
BY ExportInvariance, PTL DEF ExportInv
=============================================================================
