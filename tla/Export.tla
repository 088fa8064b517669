------------------------------- MODULE Export -------------------------------
(***************************************************************************)
(* The export of a project and the diff of two snapshots:                  *)
(* ultron/export/__init__.py and ultron/export/diff.py, while analyses and *)
(* reviewers go on writing to the same projects.                           *)
(*                                                                         *)
(* An export is a walk over streams.  Each stream is one SELECT outside    *)
(* any transaction and one file that is truncated and written; nothing     *)
(* ties two streams together, and the process may die between and inside   *)
(* them.  A snapshot is two such reads, from a live project or from the    *)
(* files of an export directory.                                           *)
(*                                                                         *)
(* The writers are those of EvidenceLedger, which Store implements: a run  *)
(* becomes visible as a whole or leaves a failed row.  Beside the graph a  *)
(* row has fields that the first run to report them fills in (Convergence),*)
(* named here by that run.                                                 *)
(***************************************************************************)
EXTENDS EvidenceGraph, Integers, Sequences

CONSTANTS
    Projects,     \* project directories, each with its export directory
    Exported,     \* those that are exported
    Diffed,       \* those that are compared with diff-graph
    Decisions,    \* what reviewers decide: "accepted", "rejected"
    Finds,        \* run -> what its analysis finds
    Options,      \* the options export_project is called with
    MaxExports,   \* bound: exports started
    Nothing       \* no file, no export, no first reporter

GraphStreams == <<"artifacts", "claims", "claim_links">>
LedgerStreams == <<"runs", "attestations", "observations">>

Streams ==
    {"artifacts", "claims", "claim_links", "runs", "attestations",
     "observations", "annotations"}

ASSUME ExportAssumption ==
    /\ Finds \in [Runs -> [artifacts : SUBSET Artifacts, claims : SUBSET Claims,
                           links : SUBSET (Claims \X Claims), notes : SUBSET Notes]]
    /\ Options \subseteq [stable : BOOLEAN, annotations : BOOLEAN]
    /\ Exported \cup Diffed \subseteq Projects
    /\ Decisions \subseteq {"accepted", "rejected"}
    /\ MaxExports \in Nat
    /\ Nothing \notin Runs

VARIABLES
    db,        \* project -> its committed graph
    first,     \* project -> artifact -> the run that filled its fields first
    out,       \* project -> file of its export directory -> content
    whole,     \* projects whose last export came to its end
    export,    \* the export under way, or Nothing
    exports,   \* exports started
    loading,   \* the snapshot being read, or Nothing
    baseline,  \* the first snapshot of the diff under way, or Nothing
    removed    \* what the last diff against a live project reported as removed

vars == <<db, first, out, whole, export, exports, loading, baseline, removed>>
writing == <<db, first>>
exporting == <<out, whole, export, exports>>
diffing == <<loading, baseline, removed>>

\* The rows of a stream.  The claims cursor reads the evidence of each claim
\* in the same read transaction; evidence never changes.
Rows(p, stream) ==
    CASE stream = "artifacts" -> {<<a, first[p][a]>> : a \in db[p].artifacts}
      [] stream = "claims" -> {<<k, db[p].claims[k]>> : k \in Known(db[p])}
      [] stream = "claim_links" -> db[p].links
      [] stream = "runs" -> {<<r, db[p].runs[r]>> : r \in {q \in Runs : db[p].runs[q] # "absent"}}
      [] stream = "attestations" -> db[p].attested
      [] stream = "observations" -> db[p].observed
      [] stream = "annotations" -> {<<n>> : n \in db[p].notes}

Ids(rows) == {row[1] : row \in rows}

Init ==
    /\ db = [p \in Projects |-> EmptyGraph]
    /\ first = [p \in Projects |-> [a \in Artifacts |-> Nothing]]
    /\ out = [p \in Projects |-> [f \in Streams \cup {"manifest"} |-> Nothing]]
    /\ whole = {}
    /\ export = Nothing
    /\ exports = 0
    /\ loading = Nothing
    /\ baseline = Nothing
    /\ removed = {}

-----------------------------------------------------------------------------
(* The writers *)

\* What run r adds to graph g when it commits.
Analysed(g, r) ==
    [SetRun(g, r, "ok") EXCEPT
        !.artifacts = @ \cup Finds[r].artifacts,
        !.observed = @ \cup (Finds[r].artifacts \X {r}),
        !.claims = [k \in Claims |->
            IF k \in Finds[r].claims /\ @[k] = "absent" THEN "proposed" ELSE @[k]],
        !.attested = @ \cup (Finds[r].claims \X {r}),
        !.links = @ \cup Finds[r].links,
        !.notes = @ \cup Finds[r].notes]

Analyse(p, r) ==
    /\ db[p].runs[r] = "absent"
    /\ Sound(Analysed(db[p], r))
    /\ db' = [db EXCEPT ![p] = Analysed(@, r)]
    /\ first' = [first EXCEPT ![p] =
            [a \in Artifacts |->
                IF a \in Finds[r].artifacts /\ @[a] = Nothing THEN r ELSE @[a]]]
    /\ UNCHANGED <<exporting, diffing>>

NoteFailure(p, r) ==
    /\ db[p].runs[r] = "absent"
    /\ db' = [db EXCEPT ![p] = SetRun(@, r, "failed")]
    /\ UNCHANGED <<first, exporting, diffing>>

Decide(p, k, s) ==
    /\ db[p].claims[k] = "proposed"
    /\ db' = [db EXCEPT ![p] = SetStatus(@, k, s)]
    /\ UNCHANGED <<first, exporting, diffing>>

-----------------------------------------------------------------------------
(* export_project *)

\* The ledger before the graph it is about.
TodoLedgerFirst(o) ==
    IF o.stable THEN GraphStreams
    ELSE LedgerStreams \o GraphStreams \o IF o.annotations THEN <<"annotations">> ELSE <<>>

\* The streams of an export, in order.
Todo(o) ==
    IF o.stable THEN GraphStreams
    ELSE GraphStreams \o LedgerStreams \o IF o.annotations THEN <<"annotations">> ELSE <<>>

StartExport(p, o) ==
    /\ export = Nothing
    /\ exports < MaxExports
    /\ exports' = exports + 1
    /\ whole' = whole \ {p}
    /\ export' = [project |-> p, stable |-> o.stable, todo |-> Todo(o),
                  written |-> [s \in {} |-> {}], begun |-> [s \in Streams |-> Ids(Rows(p, s))]]
    /\ UNCHANGED <<writing, out, diffing>>

\* Files opened for appending: what an earlier export left stays in front.
FileAppended(old, rows) == IF old = Nothing THEN rows ELSE old \cup rows

\* Files that are there already are left alone.
FileKept(old, rows) == IF old = Nothing THEN rows ELSE old

\* _write_jsonl opens the file with "w".
FileOf(old, rows) == rows

\* One stream: its SELECT, its file, and its digest, which is the content.
WriteStream ==
    /\ export # Nothing
    /\ export.todo # <<>>
    /\ LET p == export.project
           s == Head(export.todo)
           content == FileOf(out[p][s], Rows(p, s))
       IN  /\ out' = [out EXCEPT ![p][s] = content]
           /\ export' = [export EXCEPT
                !.todo = Tail(@),
                !.written = [t \in DOMAIN @ \cup {s} |-> IF t = s THEN Rows(p, s) ELSE @[t]]]
    /\ UNCHANGED <<writing, whole, exports, diffing>>

\* The manifest: the digests of this export's files.  The graph digest is the
\* digest of those under graph/.
Manifest(e) == [stable |-> e.stable, files |-> e.written]

GraphDigest(manifest) ==
    [s \in {"artifacts", "claims", "claim_links"} |-> manifest.files[s]]

\* project.json, which says who the project is, and the manifest.
FinishExport ==
    /\ export # Nothing
    /\ export.todo = <<>>
    /\ out' = [out EXCEPT ![export.project]["manifest"] = Manifest(export)]
    /\ whole' = whole \cup {export.project}
    /\ export' = Nothing
    /\ UNCHANGED <<writing, exports, diffing>>

\* The process dies between two files,
Die ==
    /\ export # Nothing
    /\ export' = Nothing
    /\ UNCHANGED <<writing, out, whole, exports, diffing>>

\* or in one, which is left with some of its lines.
DieWriting ==
    /\ export # Nothing
    /\ export.todo # <<>>
    /\ LET p == export.project
           s == Head(export.todo)
       IN  \E lines \in SUBSET Rows(p, s) : out' = [out EXCEPT ![p][s] = lines]
    /\ export' = Nothing
    /\ UNCHANGED <<writing, whole, exports, diffing>>

-----------------------------------------------------------------------------
(* load_snapshot and diff_snapshots *)

\* snapshot_from_project and snapshot_from_export both read the artifacts
\* first.  An export is refused when one of its two files is missing.
LoadArtifacts(p, live) ==
    /\ loading = Nothing
    /\ live \/ Nothing \notin {out[p]["artifacts"], out[p]["claims"]}
    /\ loading' = [project |-> p, live |-> live,
                   artifacts |-> Ids(IF live THEN Rows(p, "artifacts") ELSE out[p]["artifacts"])]
    /\ UNCHANGED <<writing, exporting, baseline, removed>>

SnapshotRead ==
    LET p == loading.project
        rows == IF loading.live THEN Rows(p, "claims") ELSE out[p]["claims"]
    IN  [project |-> p, live |-> loading.live,
         artifacts |-> loading.artifacts, claims |-> Ids(rows)]

\* The two snapshots taken for each other.
DiffSwapped(old, new) ==
    [added   |-> (old.artifacts \ new.artifacts) \cup (old.claims \ new.claims),
     removed |-> (new.artifacts \ old.artifacts) \cup (new.claims \ old.claims)]

\* diff_snapshots; the grouping by kind and predicate is presentation.
Diff(old, new) ==
    [added   |-> (new.artifacts \ old.artifacts) \cup (new.claims \ old.claims),
     removed |-> (old.artifacts \ new.artifacts) \cup (old.claims \ new.claims)]

LoadBaseline ==
    /\ loading # Nothing
    /\ baseline = Nothing
    /\ baseline' = SnapshotRead
    /\ loading' = Nothing
    /\ UNCHANGED <<writing, exporting, removed>>

\* diff_paths: the target is loaded and compared.
LoadTarget ==
    /\ loading # Nothing
    /\ baseline # Nothing
    /\ removed' = IF loading.live /\ baseline.project = loading.project
                  THEN Diff(baseline, SnapshotRead).removed ELSE removed
    /\ baseline' = Nothing
    /\ loading' = Nothing
    /\ UNCHANGED <<writing, exporting>>

-----------------------------------------------------------------------------

Writers ==
    \E p \in Projects :
        \/ \E r \in Runs : Analyse(p, r) \/ NoteFailure(p, r)
        \/ \E k \in Claims, s \in Decisions : Decide(p, k, s)

Exporter ==
    \/ \E p \in Exported, o \in Options : StartExport(p, o)
    \/ WriteStream
    \/ FinishExport
    \/ Die
    \/ DieWriting

Differ ==
    \/ \E p \in Diffed, live \in BOOLEAN : LoadArtifacts(p, live)
    \/ LoadBaseline
    \/ LoadTarget

Next == Writers \/ Exporter \/ Differ

Spec == Init /\ [][Next]_vars

-----------------------------------------------------------------------------
(* Safety *)

\* A finished export is closed under provenance although its streams are
\* read one by one: every artifact in it comes with an observation in it and
\* every claim with an attestation (export_project writes graph/ before
\* ledger/, and rows are never deleted).
ProvenanceComplete ==
    \A p \in whole :
        LET m == out[p]["manifest"]
        IN  ~m.stable =>
                /\ Ids(m.files["artifacts"]) \subseteq Ids(m.files["observations"])
                /\ Ids(m.files["claims"]) \subseteq Ids(m.files["attestations"])

\* A finished export has what the project had when it was called: each of
\* its files holds every row that was committed at the start, each row once
\* and in one state (_write_jsonl truncates what an earlier or a dead export
\* left).
NothingMissing ==
    export # Nothing =>
        \A s \in DOMAIN export.written :
            /\ export.begun[s] \subseteq Ids(out[export.project][s])
            /\ s \in {"artifacts", "claims", "runs"} =>
                \A x, y \in out[export.project][s] : x[1] = y[1] => x = y

\* After an export that came to its end every digest in the manifest is that
\* of the file it names, whatever died in this directory before.
ManifestHonest ==
    \A p \in whole :
        LET m == out[p]["manifest"]
        IN  \A s \in DOMAIN m.files : out[p][s] = m.files[s]

\* A live project never loses anything against an older snapshot of it: no
\* diff whose target is the live project reports a removal, wherever commits
\* fall between the reads, even against the files of an export that died.
NothingIsRemoved == removed = {}

-----------------------------------------------------------------------------
(* What the documentation says and the code does not do *)

\* "Insertion order would make the export depend on which adapter happened to
\* run first" (export/__init__.py, _iter_stream): exports of two projects in
\* which the same analyses succeeded and nobody decided anything have the
\* same graph digest.
Undecided(p) == \A k \in Known(db[p]) : db[p].claims[k] = "proposed"

OkRuns(p) == {r \in Runs : db[p].runs[r] = "ok"}

Current(p) ==
    p \in whole /\ \A s \in DOMAIN out[p]["manifest"].files : out[p][s] = Rows(p, s)

SameFindingsSameDigest ==
    \A p, q \in Projects :
        Current(p) /\ Current(q) /\ Undecided(p) /\ Undecided(q) /\ OkRuns(p) = OkRuns(q)
            => GraphDigest(out[p]["manifest"]) = GraphDigest(out[q]["manifest"])
=============================================================================
