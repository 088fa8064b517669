---------------------------- MODULE Convergence ----------------------------
(***************************************************************************)
(* What the writes of a run do to rows that are there already: the columns *)
(* and fields of an artifact that another engine has seen                  *)
(* (RunContext.add_artifact), the attestations of a claim that another     *)
(* producer makes (add_claim) and the confidence reported for it           *)
(* (combine_confidence).  Store tells how runs begin and end among several *)
(* processes; here they follow one another, as its write lock makes them,  *)
(* and may end at any statement.                                           *)
(*                                                                         *)
(* A run is given by its statements, which Script derives from a job and   *)
(* the graph it reads.  A statement is a record:                           *)
(*   do = "observe"   kind, object, data                                   *)
(*   do = "assert"    claim, confidence, producer, method                  *)
(*   do = "refine"    claim, the specific one of _link_refinement          *)
(* A claim is the record its id is the hash of: predicate, subject,        *)
(* statement and evidence.  Confidences are in percent.                    *)
(***************************************************************************)
EXTENDS Schemas, SequencesExt

CONSTANTS
    None,
    Producers,
    Jobs,             \* the analyses and submissions anybody may start
    Script(_, _),     \* the statements of a job on a graph
    Startable(_, _),  \* whether the caller has what the job needs
    MaxRuns           \* bound: runs begun

ASSUME ConvergenceAssumption ==
    /\ MaxRuns \in Nat /\ None \notin 1..MaxRuns
    /\ IsFiniteSet(Producers)

VARIABLES
    db,      \* the committed graph
    view,    \* the graph as the open run sees it
    run,     \* the open run, or None
    begun,   \* runs begun so far, whose ids are 1..begun
    todo,    \* the statements the open run still has to make
    told,    \* history: the observations of the runs that ended well, in order
    heard    \* history: those, and the open run's so far

vars == <<db, view, run, begun, todo, told, heard>>

-----------------------------------------------------------------------------
(* Artifacts *)

\* Artifact.addr_start: the first of these fields.
AddressFields == <<"addr_start", "addr", "from_addr", "function_addr", "file_offset">>

AddressOf(data) ==
    LET there == {i \in DOMAIN AddressFields : AddressFields[i] \in DOMAIN data}
    IN  IF there = {} THEN None
        ELSE data[AddressFields[CHOOSE i \in there : \A j \in there : i <= j]]

EndOf(data) == IF "addr_end" \in DOMAIN data THEN data.addr_end ELSE None

Coalesce(x, y) == IF x # None THEN x ELSE y

\* The newer engine is believed.
FilledByNewer(old, new) ==
    [f \in DOMAIN old \cup DOMAIN new |->
        IF f \in DOMAIN new THEN new[f] ELSE old[f]]

\* Fields are filled in and never overwritten.
Filled(old, new) ==
    [f \in DOMAIN old \cup DOMAIN new |->
        IF f \in DOMAIN old THEN old[f] ELSE new[f]]

\* The columns name and parent_id, which nothing here reads, are left out.
NewRow(data) ==
    [data |-> data, addr_start |-> AddressOf(data), addr_end |-> EndOf(data)]

\* The UPDATE of a row that is there sets the data and the end, and leaves
\* the start of its address alone.
FilledRow(row, data) ==
    LET merged == Filled(row.data, data)
    IN  [row EXCEPT !.data = merged,
                    !.addr_end = Coalesce(@, EndOf(merged))]

\* Artifact.create raises unless the data satisfy a group of the kind and the
\* file they were observed in is named, which only a file itself does without.
Valid(s) ==
    /\ s.kind \in Kinds
    /\ s.object = None <=> s.kind = "file"
    /\ Satisfied(s.kind, s.data) # {}

PutArtifact(g, s) ==
    LET id == ArtifactId(s.kind, s.object, s.data)
        row == IF id \in DOMAIN g.rows THEN FilledRow(g.rows[id], s.data)
               ELSE NewRow(s.data)
    IN  [g EXCEPT !.rows =
            [i \in DOMAIN @ \cup {id} |-> IF i = id THEN row ELSE @[i]]]

-----------------------------------------------------------------------------
(* Claims *)

\* The checks without those of the predicate's schema.
CitableUnchecked(g, claim) ==
    /\ claim.evidence # {}
    /\ {e.id : e \in claim.evidence} \subseteq DOMAIN g.rows
    /\ claim.subject \in DOMAIN g.rows \cup {None}

\* add_claim raises unless there is evidence, all of it and the subject, if
\* there is one, are in the project, and the evidence is of the kinds the predicate requires.
Citable(g, claim) ==
    /\ claim.evidence # {}
    /\ \A e \in claim.evidence : e.role \in EvidenceRoles
    /\ {e.id : e \in claim.evidence} \subseteq DOMAIN g.rows
    /\ claim.subject \in DOMAIN g.rows \cup {None}
    /\ EvidenceFits(claim.predicate, claim.evidence)

\* The identity of an attestation without its run: one opinion for each
\* producer and method, the latest.
AttestationKeyRunless(a) == <<a.claim, a.producer, a.method>>

\* Attestation.create: what the id of an attestation is minted from.
AttestationKey(a) == <<a.claim, a.producer, a.run, a.method>>

\* INSERT OR REPLACE
Attest(g, a) ==
    [g EXCEPT !.attested =
        {b \in @ : AttestationKey(b) # AttestationKey(a)} \cup {a}]

PutClaim(g, s, r) ==
    Attest([g EXCEPT !.claims = @ \cup {s.claim}],
           [claim |-> s.claim, producer |-> s.producer, run |-> r,
            method |-> s.method, confidence |-> s.confidence])

\* What a producer thinks of a claim: the highest confidence it attested.
Best(g, k, p) ==
    Max({0} \cup {a.confidence : a \in {b \in g.attested : b.claim = k /\ b.producer = p}})

\* combine_confidence: noisy-OR over the producers' best, of which this is
\* the complement, scaled by a factor of 100 for each producer.
Residual(g, k) ==
    LET order == SetToSeq(Producers)
        after[n \in 0..Cardinality(Producers)] ==
            IF n = 0 THEN 1 ELSE after[n - 1] * (100 - Best(g, k, order[n]))
    IN  after[Cardinality(Producers)]

-----------------------------------------------------------------------------
(* Links *)

\* The refinement looked up before the run's own claims are visible.
RefineEarlier(g, claim) ==
    [g EXCEPT !.links = @ \cup
        {[src |-> claim, dst |-> k] :
            k \in {c \in g.claims : \E a \in g.attested :
                       /\ a.claim = c /\ a.run # run
                       /\ c.predicate = claim.predicate /\ c.subject = claim.subject
                       /\ c.statement.api = claim.statement.api
                       /\ "call_site_count" \notin DOMAIN c.statement}}]

\* _link_refinement: the claims on the same subject and API that name no call
\* sites.  (It looks at the first 200 claims of the predicate on the subject;
\* that page is not exceeded here.)
Refine(g, claim) ==
    [g EXCEPT !.links = @ \cup
        {[src |-> claim, dst |-> k] :
            k \in {c \in g.claims \ {claim} :
                       /\ c.predicate = claim.predicate /\ c.subject = claim.subject
                       /\ c.statement.api = claim.statement.api
                       /\ "call_site_count" \notin DOMAIN c.statement}}]
-----------------------------------------------------------------------------
(* Runs *)

EmptyEvidence == [rows |-> << >>, claims |-> {}, attested |-> {}, links |-> {}]

Init ==
    /\ db = EmptyEvidence
    /\ view = EmptyEvidence
    /\ run = None
    /\ begun = 0
    /\ todo = << >>
    /\ told = << >>
    /\ heard = << >>

Begin(job) ==
    /\ run = None
    /\ begun < MaxRuns
    /\ Startable(job, db)
    /\ begun' = begun + 1
    /\ run' = begun'
    /\ todo' = Script(job, db)
    /\ UNCHANGED <<db, view, told, heard>>

NextIs(what) == run # None /\ todo # << >> /\ Head(todo).do = what

Advance ==
    /\ todo' = Tail(todo)
    /\ UNCHANGED <<db, run, begun, told>>

AddArtifact ==
    /\ NextIs("observe")
    /\ Valid(Head(todo))
    /\ view' = PutArtifact(view, Head(todo))
    /\ heard' = Append(heard, Head(todo))
    /\ Advance

AddClaim ==
    /\ NextIs("assert")
    /\ Citable(view, Head(todo).claim)
    /\ Head(todo).confidence \in 0..100
    /\ view' = PutClaim(view, Head(todo), run)
    /\ UNCHANGED heard
    /\ Advance

LinkClaims ==
    /\ NextIs("refine")
    /\ Head(todo).claim \in view.claims
    /\ view' = Refine(view, Head(todo).claim)
    /\ UNCHANGED heard
    /\ Advance

Commit ==
    /\ run # None
    /\ todo = << >>
    /\ db' = view
    /\ told' = heard
    /\ run' = None
    /\ UNCHANGED <<view, begun, todo, heard>>

Close ==
    /\ run' = None
    /\ todo' = << >>
    /\ heard' = told
    /\ UNCHANGED <<db, begun, told>>

\* The run ends and what it wrote stays in the connection's view.
FailKeeping == run # None /\ Close /\ UNCHANGED view

\* The engine fails, a claim is refused, the process is interrupted: the
\* transaction is rolled back.
Fail ==
    /\ run # None
    /\ view' = db
    /\ Close

Next ==
    \/ \E job \in Jobs : Begin(job)
    \/ AddArtifact \/ AddClaim \/ LinkClaims
    \/ Commit \/ Fail

Spec == Init /\ [][Next]_vars

-----------------------------------------------------------------------------
(* Properties *)

\* What a graph is made of: a row's id is the identity of its data, which
\* filling in other fields must not change; columns are there; claims cite rows.
WellFormed(g) ==
    /\ \A id \in DOMAIN g.rows :
        /\ DOMAIN g.rows[id] = {"data", "addr_start", "addr_end"}
        /\ id = ArtifactId(id.kind, id.object, g.rows[id].data)
    /\ \A a \in g.attested : a.claim \in g.claims /\ a.confidence \in 0..100
    /\ \A l \in g.links : {l.src, l.dst} \subseteq g.claims

\* The type invariant of the committed graph and of an open run's view.
EvidenceTypeOK ==
    /\ WellFormed(db) /\ WellFormed(view)
    /\ begun \in 0..MaxRuns
    /\ run \in {None, begun}
    /\ run = None => todo = << >> /\ view = db

\* The committed rows are what the runs that ended well observed, and each
\* field has the value of the first of these runs that observed it: a later
\* engine fills in and never overwrites, and a run that failed leaves nothing
\* that a later one would take for a first observation.
FirstObservationWins ==
    LET Id(i) == ArtifactId(told[i].kind, told[i].object, told[i].data)
    IN  /\ DOMAIN db.rows = {Id(i) : i \in DOMAIN told}
        /\ \A id \in DOMAIN db.rows :
            LET mine == {i \in DOMAIN told : Id(i) = id}
                data == db.rows[id].data
            IN  /\ DOMAIN data = UNION {DOMAIN told[i].data : i \in mine}
                /\ \A f \in DOMAIN data :
                    data[f] = told[Min({i \in mine : f \in DOMAIN told[i].data})].data[f]

\* Two observations that agree on all fields of a group of their kind.
SameThing(kind, d, e) ==
    \E i \in DOMAIN IdentityGroups[kind] :
        LET group == IdentityGroups[kind][i]
        IN  /\ group \subseteq DOMAIN d \cap DOMAIN e
            /\ \A f \in group : d[f] = e[f]

\* Engines converge: what two engines see of one thing ends in one row, also
\* when one of them knows more about it (its address, its library) than the other.
EnginesConverge ==
    \A i, j \in DOMAIN db.rows :
        /\ i.kind = j.kind /\ i.object = j.object
        /\ SameThing(i.kind, db.rows[i].data, db.rows[j].data)
        => i = j

\* No claim is in the graph, not even in an open run's view, whose evidence its
\* predicate does not admit, whoever submitted it.
NothingUnbacked ==
    \A k \in db.claims \cup view.claims : EvidenceFits(k.predicate, k.evidence)

\* Later runs, of the same producer with less conviction too, never lower the
\* confidence that is reported for a claim.
ConfidenceNeverDrops ==
    [][\A k \in db.claims : k \in db'.claims /\ Residual(db', k) <= Residual(db, k)]_db

\* "What is at this address?" finds an artifact by the column addr_start: the
\* column says what the data say.
AddressIsIndexed ==
    \A id \in DOMAIN db.rows : db.rows[id].addr_start = AddressOf(db.rows[id].data)
=============================================================================
