--------------------------- MODULE EvidenceGraph ---------------------------
(***************************************************************************)
(* The evidence graph: what the tables of ultron.db hold, and the writes   *)
(* RunContext makes to them (ultron/project/store.py, tables and guards in *)
(* ultron/project/db.py).  A graph is a value, so that the same operators  *)
(* describe the committed database, the uncommitted view of the connection *)
(* that holds SQLite's write lock, and the abstract ledger they implement. *)
(*                                                                         *)
(* Ids are content-addressed: an artifact id fixes the rows it refers to   *)
(* and a claim id fixes the evidence and the subject it cites, which is    *)
(* why Owner, Evidence and Subject are constants and not columns.          *)
(***************************************************************************)
CONSTANTS
    Runs,       \* run ids; the nonce in mint_id makes each of them unique
    Artifacts,  \* artifact ids
    Claims,     \* claim ids
    Notes,      \* annotation ids
    Owner,      \* artifact -> the artifacts its object_id and parent_id name
    Evidence,   \* claim -> the artifacts its EvidenceRefs name
    Subject     \* claim -> its subject_id: {} or a singleton

ASSUME GraphAssumption ==
    /\ Owner \in [Artifacts -> SUBSET Artifacts]
    /\ Evidence \in [Claims -> SUBSET Artifacts]
    /\ Subject \in [Claims -> SUBSET Artifacts]

RunStates == {"absent", "running", "ok", "failed"}

\* "superseded" is a legal status that no code path in the package ever sets.
ClaimStates == {"absent", "proposed", "accepted", "rejected"}

\* Rows that are absent from a table are outside the set or map to "absent".
Graphs ==
    [runs      : [Runs -> RunStates],
     artifacts : SUBSET Artifacts,
     observed  : SUBSET (Artifacts \X Runs),   \* artifact_observations
     claims    : [Claims -> ClaimStates],
     attested  : SUBSET (Claims \X Runs),      \* attestations
     links     : SUBSET (Claims \X Claims),    \* claim_links
     notes     : SUBSET Notes]                 \* annotations

EmptyGraph ==
    [runs      |-> [r \in Runs |-> "absent"],
     artifacts |-> {},
     observed  |-> {},
     claims    |-> [k \in Claims |-> "absent"],
     attested  |-> {},
     links     |-> {},
     notes     |-> {}]

Known(g) == {k \in Claims : g.claims[k] # "absent"}

-----------------------------------------------------------------------------
(* The writes of a run *)

SetRun(g, r, s) == [g EXCEPT !.runs[r] = s]

\* add_artifact: the row is inserted unless it is there, the observation of
\* the run is recorded either way.
PutArtifact(g, a, r) ==
    [g EXCEPT !.artifacts = @ \cup {a}, !.observed = @ \cup {<<a, r>>}]

\* The foreign keys of a new row: object_id and parent_id must exist.
OwnersPresent(g, a) == a \in g.artifacts \/ Owner[a] \subseteq g.artifacts

\* The checks add_claim makes before it writes anything: some evidence, all
\* of it in the project, and a subject that is in the project.
Citable(g, k) ==
    /\ Evidence[k] # {}
    /\ Evidence[k] \subseteq g.artifacts
    /\ Subject[k] \subseteq g.artifacts

\* An upsert in place of the insert: a decided claim is proposed again.
PutClaimRowUpsert(g, k) == [g EXCEPT !.claims[k] = "proposed"]

\* The claim row, inserted only when the id is new: a claim that was already
\* decided keeps its status.
PutClaimRow(g, k) ==
    [g EXCEPT !.claims[k] = IF @ = "absent" THEN "proposed" ELSE @]

PutClaim(g, k, r) ==
    [PutClaimRow(g, k) EXCEPT !.attested = @ \cup {<<k, r>>}]

Linkable(g, j, k) == j # k /\ {j, k} \subseteq Known(g)

PutLink(g, j, k) == [g EXCEPT !.links = @ \cup {<<j, k>>}]

PutNote(g, n) == [g EXCEPT !.notes = @ \cup {n}]

SetStatus(g, k, s) == [g EXCEPT !.claims[k] = s]

-----------------------------------------------------------------------------
(* What integrity_problems looks for ("ultron check"), with the foreign    *)
(* keys of the schema                                                      *)

Evidenced(g) ==
    \A k \in Known(g) :
        Evidence[k] # {} /\ Evidence[k] \cup Subject[k] \subseteq g.artifacts

Attested(g) == \A k \in Known(g) : \E r \in Runs : <<k, r>> \in g.attested

Provenanced(g) ==
    \A a \in g.artifacts :
        /\ \E r \in Runs : <<a, r>> \in g.observed
        /\ Owner[a] \subseteq g.artifacts

\* Rows that refer to runs, artifacts and claims refer to rows that exist.
ForeignKeys(g) ==
    /\ \A p \in g.observed : p[1] \in g.artifacts /\ g.runs[p[2]] # "absent"
    /\ \A p \in g.attested : p[1] \in Known(g) /\ g.runs[p[2]] # "absent"
    /\ \A p \in g.links : {p[1], p[2]} \subseteq Known(g)

Sound(g) == Evidenced(g) /\ Attested(g) /\ Provenanced(g) /\ ForeignKeys(g)

-----------------------------------------------------------------------------
(* h is g and what run r wrote on top of it: rows are only added, each new *)
(* row of an artifact, claim, observation or attestation carries r, and    *)
(* neither another run nor the status of an existing claim is touched.     *)

Extends(g, h, r) ==
    /\ g.runs[r] = "absent"
    /\ \A q \in Runs \ {r} : h.runs[q] = g.runs[q]
    /\ g.artifacts \subseteq h.artifacts
    /\ g.observed \subseteq h.observed
    /\ g.attested \subseteq h.attested
    /\ g.links \subseteq h.links
    /\ g.notes \subseteq h.notes
    /\ \A p \in h.observed \ g.observed : p[2] = r
    /\ \A p \in h.attested \ g.attested : p[2] = r
    /\ \A a \in h.artifacts \ g.artifacts : <<a, r>> \in h.observed
    /\ \A k \in Claims :
        IF g.claims[k] # "absent" THEN h.claims[k] = g.claims[k]
        ELSE h.claims[k] # "absent" =>
                h.claims[k] = "proposed" /\ <<k, r>> \in h.attested
=============================================================================
