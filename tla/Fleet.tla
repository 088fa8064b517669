------------------------------- MODULE Fleet -------------------------------
(***************************************************************************)
(* What is read across several projects: correlate_projects groups them    *)
(* into campaigns with a union-find (ultron/cartography/campaign.py);      *)
(* diff_components compares the components of two and                      *)
(* record_version_changes writes what changed into the second              *)
(* (ultron/cartography/diff.py).                                           *)
(*                                                                         *)
(* Each project is a database of its own: it is read by one query at a     *)
(* time, while runs of other processes commit to it, and nothing makes the *)
(* reads of several projects one snapshot.  One job runs at a time; the    *)
(* projects are what the jobs share.  Query limits are not reached.        *)
(***************************************************************************)
EXTENDS Naturals, SequencesExt

CONSTANTS
    Labels,       \* the projects, in the order in which they are given
    Finds,        \* what a run may commit: [file |-> ..] or [component |-> .., version |-> .., artifact |-> ..]
    Unknown,      \* an embeds_component claim that names no version
    MinShared,    \* min_shared_components
    MaxFinds,     \* bound: runs committed
    MaxJobs       \* bound: jobs begun

Projects == Range(Labels)

ASSUME FleetAssumption ==
    /\ Labels \in Seq(Projects) /\ IsInjective(Labels)
    /\ MinShared \in Nat \ {0} /\ MaxFinds \in Nat /\ MaxJobs \in Nat

VARIABLES
    files,       \* project -> the digests of its files
    embeds,      \* project -> its embeds_component claims
    changes,     \* project -> its component_version_changed claims
    found,       \* runs committed so far
    job,         \* what is being computed, and what it has read
    begun,       \* jobs begun so far
    parent,      \* the union-find of the correlation
    walk         \* the calls of find that are still to be made

fleet == <<files, embeds, changes, found>>
fleetVars == <<files, embeds, changes, found, job, begun, parent, walk>>

-----------------------------------------------------------------------------
(* The projects *)

NoJob == [at |-> "idle"]

FleetInit ==
    /\ files = [p \in Projects |-> {}]
    /\ embeds = [p \in Projects |-> {}]
    /\ changes = [p \in Projects |-> {}]
    /\ found = 0
    /\ job = NoJob
    /\ begun = 0
    /\ parent = [p \in Projects |-> p]
    /\ walk = << >>

\* Another process commits the run of an analysis.
AnalyseProject(p, f) ==
    /\ found < MaxFinds
    /\ found' = found + 1
    /\ IF "file" \in DOMAIN f
       THEN /\ f.file \notin files[p]
            /\ files' = [files EXCEPT ![p] = @ \cup {f.file}]
            /\ UNCHANGED embeds
       ELSE /\ f \notin embeds[p]
            /\ embeds' = [embeds EXCEPT ![p] = @ \cup {f}]
            /\ UNCHANGED files
    /\ UNCHANGED <<changes, job, begun, parent, walk>>

Versions(claims, component) ==
    {k.version : k \in {c \in claims : c.component = component}} \ {Unknown}

Fingerprint(claims) ==
    {<<k.component, k.version>> : k \in {c \in claims : c.version # Unknown}}

-----------------------------------------------------------------------------
(* correlate_projects *)

StartCorrelation ==
    /\ job = NoJob /\ begun < MaxJobs
    /\ begun' = begun + 1
    /\ job' = [at |-> "load", read |-> 0,
               digests |-> [p \in Projects |-> {}], fingerprints |-> [p \in Projects |-> {}]]
    /\ parent' = [p \in Projects |-> p]
    /\ walk' = << >>
    /\ UNCHANGED fleet

\* The digests of all projects in their order, then the fingerprints of all.
ReadProject ==
    /\ job.at = "load"
    /\ job.read < 2 * Len(Labels)
    /\ IF job.read < Len(Labels)
       THEN LET p == Labels[job.read + 1]
            IN  job' = [job EXCEPT !.read = @ + 1, !.digests[p] = files[p]]
       ELSE LET p == Labels[job.read - Len(Labels) + 1]
            IN  job' = [job EXCEPT !.read = @ + 1, !.fingerprints[p] = Fingerprint(embeds[p])]
    /\ UNCHANGED <<fleet, begun, parent, walk>>

\* The pairs (i, j) with i < j, row by row.
FirstPair == <<1, 2>>

PairLeft == job.pair[2] <= Len(Labels)

NextPair(pair) ==
    IF pair[2] < Len(Labels) THEN <<pair[1], pair[2] + 1>> ELSE <<pair[1] + 1, pair[1] + 2>>

StartComparing ==
    /\ job.at = "load"
    /\ job.read = 2 * Len(Labels)
    /\ job' = [at |-> "compare", digests |-> job.digests,
               fingerprints |-> job.fingerprints, pair |-> FirstPair, edges |-> {}]
    /\ UNCHANGED <<fleet, begun, parent, walk>>

SharedFiles(l, r) == job.digests[l] \cap job.digests[r]
SharedComponents(l, r) == job.fingerprints[l] \cap job.fingerprints[r]

\* A component in common is not required to be the same version.
RelatedByName(l, r) ==
    \/ SharedFiles(l, r) # {}
    \/ Cardinality({c[1] : c \in job.fingerprints[l]} \cap {c[1] : c \in job.fingerprints[r]}) >= MinShared

Related(l, r) ==
    SharedFiles(l, r) # {} \/ Cardinality(SharedComponents(l, r)) >= MinShared

\* One pair: an identical file is conclusive, else enough component versions;
\* an edge makes union look for the roots of both.
Compare ==
    /\ job.at = "compare"
    /\ walk = << >>
    /\ PairLeft
    /\ LET l == Labels[job.pair[1]]
           r == Labels[job.pair[2]]
       IN  IF Related(l, r)
           THEN /\ job' = [job EXCEPT !.pair = NextPair(@), !.edges = @ \cup {<<l, r>>}]
                /\ walk' = <<l, r>>
           ELSE /\ job' = [job EXCEPT !.pair = NextPair(@)]
                /\ UNCHANGED walk
    /\ UNCHANGED <<fleet, begun, parent>>

\* union hangs the labels themselves: only groups looks for roots.
WalkingInGroups == IF job.at = "group" THEN {i \in DOMAIN walk : parent[walk[i]] # walk[i]} ELSE {}

\* The calls of find that have not met a root yet; the first of them runs.
Walking == {i \in DOMAIN walk : parent[walk[i]] # walk[i]}

Walker == CHOOSE i \in Walking : \A j \in Walking : i <= j

\* The label is not replaced by its parent.
Stay(par, l) == l

\* Where the walk goes on after the label's parent was changed.
Up(par, l) == par[l]

\* One turn of the loop of find, with path halving: the label's parent becomes
\* its grandparent, and the walk goes on there.
FindStep ==
    /\ walk # << >> /\ Walking # {}
    /\ LET l == walk[Walker]
       IN  /\ parent' = [parent EXCEPT ![l] = parent[parent[l]]]
           /\ walk' = [walk EXCEPT ![Walker] = Up(parent', l)]
    /\ UNCHANGED <<fleet, job, begun>>

\* union: both roots are known; the second is hung below the first.
Unite ==
    /\ job.at = "compare"
    /\ walk # << >> /\ Walking = {}
    /\ parent' = IF walk[1] = walk[2] THEN parent
                 ELSE [parent EXCEPT ![walk[2]] = walk[1]]
    /\ walk' = << >>
    /\ UNCHANGED <<fleet, job, begun>>

\* groups: find is called for every label, in their order.
StartGrouping ==
    /\ job.at = "compare"
    /\ walk = << >> /\ ~ PairLeft
    /\ job' = [at |-> "group", edges |-> job.edges]
    /\ walk' = Labels
    /\ UNCHANGED <<fleet, begun, parent>>

\* The report: the groups of more than one project are campaigns.
Report ==
    /\ job.at = "group" /\ Walking = {}
    /\ job' = [at |-> "grouped", edges |-> job.edges,
               root |-> [p \in Projects |-> walk[CHOOSE i \in DOMAIN Labels : Labels[i] = p]]]
    /\ walk' = << >>
    /\ UNCHANGED <<fleet, begun, parent>>

-----------------------------------------------------------------------------
(* diff_components and record_version_changes *)

StartDiff ==
    /\ job = NoJob /\ begun < MaxJobs
    /\ begun' = begun + 1
    /\ \E b, t \in Projects :
        job' = [at |-> "diff", baseline |-> b, target |-> t, before |-> embeds[b]]
    /\ UNCHANGED <<fleet, parent, walk>>

Components(claims) == {k.component : k \in claims}

\* The entries of the report that are a change of version; the added and
\* removed components are in the report only.
Changed(before, after) ==
    {[component |-> c, from |-> Versions(before, c), to |-> Versions(after, c)] :
        c \in {d \in Components(before) \cap Components(after) :
                Versions(before, d) # Versions(after, d)}}

ReadTarget ==
    /\ job.at = "diff"
    /\ job' = [at |-> "record", baseline |-> job.baseline, target |-> job.target,
               changed |-> Changed(job.before, embeds[job.target])]
    /\ UNCHANGED <<fleet, begun, parent, walk>>

\* Evidence is looked for where the old version was.
SourcesInBaseline(c) == {k \in embeds[job.baseline] : k.component = c.component}

\* The claims of the target on the component, whatever version they name.
Sources(c) == {k \in embeds[job.target] : k.component = c.component}

\* The run reads the target's claims again, and cites an artifact of one of them.
Record ==
    /\ job.at = "record"
    /\ \E cited \in [job.changed -> Finds] :
        /\ \A c \in job.changed : cited[c] \in Sources(c)
        /\ changes' = [changes EXCEPT ![job.target] = @ \cup
                {[component |-> c.component, from |-> c.from, to |-> c.to,
                  artifact |-> cited[c].artifact, baseline |-> job.baseline] : c \in job.changed}]
    /\ job' = NoJob
    /\ UNCHANGED <<files, embeds, found, begun, parent, walk>>

\* A job returns, or is ended by an exception; a run it had opened is rolled
\* back.
Return ==
    /\ job.at \in {"grouped", "record"}
    /\ job' = NoJob
    /\ UNCHANGED <<fleet, begun, parent, walk>>

FleetNext ==
    \/ \E p \in Projects, f \in Finds : AnalyseProject(p, f)
    \/ StartCorrelation \/ ReadProject \/ StartComparing
    \/ Compare \/ FindStep \/ Unite \/ StartGrouping \/ Report
    \/ StartDiff \/ ReadTarget \/ Record \/ Return

FleetSpec == FleetInit /\ [][FleetNext]_fleetVars

\* The process that runs a job is scheduled.
FairSpec == FleetSpec /\ WF_fleetVars(ReadProject \/ StartComparing \/ Compare \/ FindStep \/ Unite
                            \/ StartGrouping \/ Report \/ ReadTarget \/ Record \/ Return)

-----------------------------------------------------------------------------
(* Properties *)

\* The projects that a chain of edges connects: no set of projects that the
\* edges do not leave parts them.
Closed(edges, S) == \A e \in edges : e[1] \in S <=> e[2] \in S

Connected(edges) ==
    [p \in Projects |-> {q \in Projects :
        \A S \in SUBSET Projects : Closed(edges, S) /\ p \in S => q \in S}]

\* The campaigns reported are the connected components of the edges, whatever
\* the order in which pairs were united and paths halved.
CampaignsAreComponents ==
    job.at = "grouped" =>
        \A p, q \in Projects : job.root[p] = job.root[q] <=> q \in Connected(job.edges)[p]

\* Two projects are joined for a reason that still stands when the report is
\* made: a file, or enough component versions, that both of them hold.
EdgesStand ==
    job.at = "grouped" =>
        \A e \in job.edges :
            \/ files[e[1]] \cap files[e[2]] # {}
            \/ Cardinality(Fingerprint(embeds[e[1]]) \cap Fingerprint(embeds[e[2]])) >= MinShared

\* A recorded change of version names versions that its two projects embed,
\* cites an artifact of the target that shows the component, and changes
\* something.
ChangesAreFounded ==
    \A t \in Projects : \A c \in changes[t] :
        /\ c.from \subseteq Versions(embeds[c.baseline], c.component)
        /\ c.to \subseteq Versions(embeds[t], c.component)
        /\ c.from # c.to
        /\ \E k \in embeds[t] : k.component = c.component /\ k.artifact = c.artifact

\* A job ends: no walk to a root runs in a circle.
JobsEnd == job # NoJob ~> job = NoJob
=============================================================================
