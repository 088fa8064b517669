# Ultron in TLA+

This directory is a verification development of Ultron, the evidence-first
reverse-engineering platform in `src/`. It holds TLA+ modules for its components,
TLC configurations that check them on small instances, and theorems with proofs
that the TLA+ proof system (TLAPS) checks.

    tlasany Store.tla
    tlc -workers 2 -config MCStore.cfg MCStore
    tlapm StoreProofs.tla

Contents: [1 the system](#1-the-system), [2 the modules](#2-the-modules),
[3 the runs](#3-the-runs), [4 the proofs](#4-the-proofs),
[5 what the code does that its documents do not say](#5-divergences),
[6 what is not modelled](#6-what-is-not-modelled), [7 the plan](#7-the-plan).

## 1 The system

Engines produce *artifacts* (files, functions, strings ...). Whoever wants to
assert something writes a *claim* that cites artifacts in named roles; a producer
that stands behind a claim adds an *attestation* with a confidence. All of it
lives in one SQLite database for each project, `ultron.db`, which is written only inside
`with project.run(...) as rc`. Ids of artifacts and claims are hashes of their
identity fields, so two engines that see the same thing converge on one row.

There are no threads. Concurrency is between *processes*: commands (`ultron
analyze`, `ultron review approve` ...) that make one call or a few and exit, and MCP
servers (`ultron mcp`) that answer requests until their input ends. They share the
database, the blob directory and the vault directory and nothing else.

| component | source | state | operations | what makes it correct |
|---|---|---|---|---|
| Project store | `project/store.py`, `project/db.py` (`connect`, DDL) | tables `runs`, `artifacts`, `artifact_observations`, `claims`, `attestations`, `claim_links`, `annotations`; one connection for each process, with its transaction | `Project.run`; `RunContext.add_artifact`, `add_claim`, `link_claims`, `annotate`; `set_claim_status` | runs are atomic and isolated; no claim without evidence, no artifact without a run; the ledger is final; decisions survive later assertions; the write lock comes free |
| Lifecycle | `project/store.py` (`create`, `open`), `project/db.py` (`current_version`, `migrate`) | the file, its tables, `meta` | create, `init --force`, open, read-only open, migrate | who gets a project gets the whole schema; versions never go back; who named a project leaves no identity row out |
| Review | `review/__init__.py` | claim statuses, annotations | `pending`, `approve`, `reject` | a reported decision is recorded; no note without a decision; nobody decides a claim twice |
| Convergence | `store.py` `add_artifact`, `add_claim`, `evidence/models.py`, `evidence/schemas.py` | the non-identity columns of a row, attestations | field merge, `combine_confidence`, identity groups | the first observation wins; the aggregate depends on what was attested and not on the order |
| Ingest | `adapters/ingest.py` | blobs under their digests | `store_blob`, `ingest_file` | a blob has the digest in its name; rows and blobs agree after a failure |
| Binwalk adapter | `adapters/binwalk/` | queue of containers, seen paths, budget, consumed ranges | scan, carve, extract, recurse | bounded; every extracted file has its parent; nothing is lost silently |
| Triage, Ghidra, QEMU adapters | `adapters/triage/`, `adapters/ghidra/`, `adapters/qemu/` | none between calls | parse an engine's output, import it in one run | imports are attached to the right object; addresses agree between engines |
| Cartography | `cartography/` | none; claims | `link_imports`, `dependency_graph`, `reach`, `diff_components` | links are justified by both sides; reachability is the closure of call edges and links |
| Campaign | `cartography/campaign.py` | none | `correlate_projects` | groups are the connected components |
| Export and diff | `export/` | none | streams, `graph_digest`, snapshots, diff | an export is one state of the project; equal graphs have equal digests |
| Secrets agent | `agents/` | run statistics, budget | ask a model for each batch, claim what it says | claims cite strings that exist; budgets hold |
| MCP server | `mcp/` | one project, the line being answered | tools that read, `submit_claim`, `annotate` | an exception does not end the server or leave it unusable |
| Questions | `nl/` | none | classify, answer, validate | every line of an answer cites claims that exist |
| Vault | `vault.py` | notes in `pending/` and `approved/` | write, list, approve | approval loses no note |
| Evaluation, command line, health, network policy | `eval/`, `cli.py`, ... | none | drive the others | - |

How they interact: every component writes through `Project.run`; the review command
and the MCP server share claim statuses; the agents, cartography and the
questions read claims with `find_claims`, whose limit and filters they inherit; Ingest
writes blobs from inside a run that may still be rolled back; the binwalk adapter calls
Ingest; export reads every table with no transaction around the reads.

What is hard about it:

* **Interleaving and crashes.** A run holds SQLite's only write lock from its `INSERT
  INTO runs` to its `COMMIT`. A waiting connection gives up after 5 s, and where
  it gives up decides what is left behind. Processes die anywhere.
* **Decisions and operations spread over several transactions**: the failed row of a run,
  the version row of a migration, the identity rows of a project, a review decision.
* **State read before the run opens** and used inside it: review, cartography, agents.
* **Content-addressed convergence**: what depends on the order of observations, what
  must not reopen a decided claim.
* **Limits**: pages cut before a filter, extraction budgets, reachability caps.

`PROJECT.json` lists these hazards one by one, at the line where each bites, with
the properties that would catch it.

## 2 The modules

| module | what it is | code |
|---|---|---|
| `EvidenceGraph` | the tables as one record, the writes as operators from graph to graph, `Sound` (what `ultron check` looks for, with the foreign keys), `Extends` (what one run may have added) | `db.py` DDL, `store.py` `RunContext`, `integrity_problems` |
| `EvidenceLedger` | the abstract specification of the store: whole runs appear, failures are noted, decisions are made | promised by `Project.run` |
| `Store` | connections, the write lock, transactions, busy timeouts, crashes | `Project.run`, `RunContext`, `set_claim_status` |
| `StoreProofs` | theorems about `Store`, among them that it implements `EvidenceLedger`, and about `Review` | |
| `Lifecycle` | create, open and migrate by several processes | `create`, `open`, `connect`, `current_version`, `migrate` |
| `LifecycleProofs` | theorems about `Lifecycle` | |
| `Review` | EXTENDS `Store`: reviewers whose decision is several steps made of `Store`'s actions, agents that propose claims over MCP, the queue | `review/__init__.py`, `_submit_claim` |
| `Schemas` | identity groups of each kind, evidence requirements of each predicate, ids | `evidence/schemas.py`, `models.py` |
| `Convergence` | EXTENDS `Schemas`: what the writes of a run do to rows that are there, for any scripts of statements | `add_artifact`, `add_claim`, `combine_confidence`, `_link_refinement` |
| `ConvergenceProofs` | theorems about `Convergence`, and about `Adapters` (the lineage) | |
| `Adapters` | EXTENDS `Convergence`, `Tracing`: the scripts of triage, a Ghidra import, a QEMU trace and an agent's submission | `adapters/triage`, `adapters/ghidra`, `adapters/qemu`, `ingest_file` |
| `Tracing` | pure: counts of a log, load bases, attribution of addresses to functions | `adapters/qemu/trace.py`, `adapters/qemu/__init__.py` |
| `Execution` | EXTENDS `Tracing`: a file that runs at an unknown address, its log, its import | `QemuAdapter.analyze`, `import_trace` |
| `Export` | EXTENDS `EvidenceGraph`: exports, snapshots and diffs read stream by stream while runs commit | `export/__init__.py`, `export/diff.py` |
| `ExportProofs` | theorems about `Export` | |
| `Extraction` | the walk of an image with its carver, stage directories and the blob store | `adapters/binwalk/`, `adapters/ingest.py` |
| `ExtractionProofs` | theorems about `Extraction` | |
| `Linking` | `link_imports` and the chaining of reachability by several processes | `cartography/__init__.py`, `cartography/reachability.py` |
| `Fleet` | correlation and component diff over several databases | `cartography/campaign.py`, `cartography/diff.py` |
| `CartographyProofs` | theorems about `Linking` and `Fleet` | |
| `Queries` | pure: pages of claims and artifacts, resolution of names, the edges of the evidence graph and the rows a limited query of them returns | the reading half of `store.py` |
| `Questions` | EXTENDS `Queries`, pure: classification of a question, what each summary cites, validation | `nl/` |
| `Session` | EXTENDS `Questions`: a client, the MCP server's loop and its tools, query by query | `mcp/server.py`, `mcp/tools.py`, `nl/__init__.py` |
| `SessionProofs` | theorems about `Queries`, `Questions` and `Session` | |
| `SecretsAgent` | agents that show strings to a language model and propose claims | `agents/` |
| `SecretsAgentProofs` | theorems about `SecretsAgent` | |
| `MC...` | the instances TLC checks | |

### Store

`db` is the committed database. SQLite in WAL mode has one writer, so one variable,
`pend`, holds the view of the connection that has the lock; it equals `db` when nobody
has it. `lock` names that connection. `pc[c]` is the place of a connection in
`Project.run`:

    closed -> idle -> begun -> body -> idle                    (ok)
                        |        \-> raising -> recording -> idle or closed
                        \-> wedged (server) or closed          (busy)

* `Begin` is `mint_id` and `BEGIN`; the transaction is deferred, so it takes no lock.
  `InsertRun` takes it; `InsertRunBusy` is the busy timeout, which raises *before* the `try`
  block: nothing rolls back. A command dies of it, a server survives it
  (`mcp/server.py` answers every exception) with its transaction open.
* The body's writes are `AddArtifact`, `AddClaim`, `LinkClaims`, `Annotate`, in any order and
  number. Their guards are the checks the code makes in the open transaction.
  `AddClaimUnattested` is `add_claim` raising in `Attestation.create` after the claim
  row is written. `Raise` is every other exception, `KeyboardInterrupt` included. That
  a body may go on after catching such an exception is not modelled: no caller in the
  package does.
* `Commit`, `Rollback`, `RecordFailure` and `RecordFailureBusy` are the `else` and
  `except` clauses. Between `Rollback` and `RecordFailure` the lock is free.
* `SetClaimStatus` is one autocommitted `UPDATE`. `Stop` is an exit or a kill anywhere.

A claim's evidence and subject and an artifact's owners are constants (`Evidence`,
`Subject`, `Owner`): they are part of the content from which the id is computed, so equal
ids have equal references. Columns no property reads are left out.

### Lifecycle

Everything is autocommit except a migration script, which is one transaction. The model
has `applied` (tables that exist) apart from `version` (what `meta` says), since the
code commits them one after the other, and the four identity rows one by one.
`Init` is any project that a build of any version up to `MaxVersion` has left, or none. `Vanish`
stands for a kill and for a statement that raises because the database is busy: both end the
call with what was committed before. `Look` asks for the first identity row only, and nothing looks again before the four are written: of two
calls that both found none, `Name` writes each one's rows over the other's. `IdentityIsWhole` says what is left of an identity then.

### Review

A decision is `Check` (read the status), `Apply` (`set_claim_status`), `OpenAudit`,
`EnterAudit`, `WriteNote`, `Return` (the run with its annotation), each conjoined with the
action of `Store` it executes. `ApplyBusy`, `AuditBusy`, `Interrupt`, `Unwind` and
`Leave` are the ways it can fail. `Submit` is the whole `ultron_submit_claim`. `Pending` is the
queue with its default arguments: the page is cut first, the agents' claims are picked from
it afterwards. An annotation is the triple of its reviewer, claim and outcome.

### Convergence and Adapters

`Store` treats the content of a row as its id and interleaves processes; `Convergence` takes
its result (runs are whole and follow one another) and looks into the rows. A graph is a
record of `rows` (id to data and address columns), `claims`, `attested` and `links`. An id is
the record `mint_id` hashes, so equal ids are equal content. A run is the sequence of its
statements, `Script(job, db)`; one statement is one step, and the run may fail before any of
them. `view` is the graph as the open transaction sees it: `_link_refinement` reads it, so the run's own claims
are there. `told` is history: the observations of the runs that were committed, in their order, with
which `FirstObservationWins` compares the rows. `heard` continues it with those of the open run.

`Adapters` defines the scripts. Each operator is one importing function and keeps its order,
its guards and its limits; what a parser or an engine answers is a constant, records with the
fields the engine reported. `TriageInto` is also the prefix of a Ghidra or QEMU import that
is given the file itself. A statement that the code would refuse (a claim with the wrong
evidence, a confidence outside 0..1) has no enabled write, so that the run can only `Fail`.

Confidences are percentages. `Residual` is the complement of the noisy-OR as an integer,
scaled by 100 for each producer, whether or not it has attested: a product over the producers, taken one by one.

### Tracing and Execution

A trace is a log of block addresses. `Tracing` is what the code computes from one: `Hottest`
keeps the most frequent `MaxAddresses`, `InferredBases` is the set of deltas that align at least
`MinimumHits` entries and as many as any other. Which of several best deltas the code takes depends on the
order of a set, so the operators return all of them and the actions choose. `Adapters` uses them in its
trace scripts; `Execution` puts a program in front: `StartProcess` loads the file at one of `LoadedAt`,
`Enter` runs a block, and the call ends in `EndProcess` (the process exits), `Timeout` (it raises and leaves the
log on disk), `Import`, or `FailImport`. `ImportTrace` is the call that takes a log an earlier
one left. The variable `ran` is what really happened; the claims are compared with it.

### Export

A stream is one `SELECT` in autocommit and one file that is truncated and written; nothing ties two of them together.
`WriteStream` is both, `Die` and `DieWriting` are a death between and inside files,
`FinishExport` writes the manifest, whose digests are modelled by the rows they are digests of.
A diff takes two snapshots of two reads each (`LoadBaseline`, `LoadTarget`) from a live project or from an export
directory. `Analyse`, `NoteFailure` and `Decide` are the writers, with the three steps of
`EvidenceLedger`; since `Store` implements that specification, nothing else can happen between the reads.

### Extraction

A position of the program in `analyze`: copy a file to its blob (`CopyBlob` to the `.partial` file, `ReplaceBlob`), `Record` it,
take the next container off the queue (`StartUnpack`), carve its hits (`TakeHit`; `WriteMember` puts one file into the stage directory; `LeaveHit`), `FinishUnpack`,
look at one member after the other (`NextEntry`), `Finish`. `Fail` is an exception or a death anywhere; the run rolls back,
the blobs stay. What a scan of some bytes finds is the constant `layout`. Members live in stage directories
named after the depth and the number of paths seen, which two containers of one depth can share when the first yields nothing new; that and the reading of a container's bytes
a second time, after it has waited in the queue, is what `UnpackedAsRecorded` is about.

### Linking, Fleet

Both read with single queries and write in a run of their own, as the code does. In `Linking` the exporters are
read before the run opens and the importers inside it; reached functions and links are read before the run that chains them. `since`
and `sinceClaims` are history: what was committed when the pass began. `Fleet` reads project after project; `FindStep` is one turn of the loop of
`find` with its path halving, so that the union-find is checked step by step with forests that are not yet flat. Pairs of projects are taken in the order of the two nested loops (`NextPair`).

### Queries, Questions, Session

`Queries` and `Questions` are operators on a graph, which is the committed state one query sees. `Session` turns a tool
into the sequence of its queries: between any two another process may commit or decide. A line of input is garbage, a
scalar, a message or a batch; `Handle` answers what needs no tool, `StartCall` begins one, `FailCall` is an exception in it,
`Flush` writes the answers of the line. `StartPaging`, `RequestPage` and `ReceivePage` are a client that pages until a page is not full.

The walk of the graph is a call of many queries. `WalkQuery` is one of the three that `_edges_of` makes for a node (`EdgeQueries`), `WalkRound` goes on to the next
frontier, `WalkNode` reads one node that was seen, `WalkAnswer` answers. A frontier is a set, whose nodes may be taken in any order, as SQLite may return rows
without `ORDER BY`; so any `EdgeLimit` rows may be the page of the two queries that have a limit (`store.py:905`, `:912`), and any ends may be those that still fit the
limit of the walk. `had` is history: the graph when the walk began. The first query reads both columns of a row, `object_id` and `parent_id`, as `Holder`. A claim that
cites an artifact in two roles is two rows of the 200, and the model counts one. `resolve_id`, which completes a prefix of an id, is left out.

### SecretsAgent

`Start` reads one page of strings (`FirstPage`, the first `PageLimit` in the order of the query, 5000 in the code, `secrets.py:127`), which is cut before anybody asks what
was claimed. `todo` holds their places in `Texts`, the least of which is next. `Look` asks for each whether something was claimed about
it (two queries), `SendPrompt` and `Receive` are a call to the model; `Receive` parses the answer, and `items` are the places of what
`_parse_items` lets pass. `Propose` is one run for one item, `SkipItem` what the threshold drops, `Unavailable`
the exception of the backend, `FailRun` a busy database. Other agents and analyses commit between any two of them.

## 3 The runs

| run | instance | shows |
|---|---|---|
| `store` | one server, one command, two run ids, two artifacts, three claims | the committed graph is sound; only finished runs leave rows; decisions survive; the store implements `EvidenceLedger`; the lock comes free |
| `lifecycle` | three processes, any mix of calls, two migrations | whoever gets a project gets its whole schema; versions never go back; no call that named a project leaves an identity row out, however many name it at once |
| `lifecycle-stranded` | same | violation: version 0 with tables there |
| `review` | an agent's server, two reviewers, four runs, one claim of a tool and one of an agent, a page of one | reported decisions are recorded; notes follow decisions; nobody contradicts himself |
| `adapters` | three runs, any of triage, Ghidra (with the file or attached), two traces, four submissions | fields keep their first value; engines end in one row; unfit claims stay out; refinements are linked; confidences never drop |
| `execution-aligned` | four stubs of one size and one function with blocks inside; a file loaded where it was linked or elsewhere; traces of up to five blocks | violation: a function is reached that never ran |
| `export` | two exports and diffs, two analyses, decisions | what was finished is closed under provenance and misses nothing that was there; its manifest fits its files; a live project loses nothing |
| `extraction` | 180 layouts of an image, three files, depth two, two analyses | every file has its bytes; containers are unpacked from the bytes recorded; no path is lost; analyses end |
| `linking` | two processes, three passes, five analyses of a program and two libraries | a pass misses nothing that was there before it; chains are no surer than their links; ambiguous links are hedged |
| `fleet` | four projects, four finds, one job | campaigns are the connected components; edges and changes are founded; jobs end |
| `session` | a client that pages and sends one of ten lines; ten graphs to begin on; one commit or decision anywhere | answers come as owed and in order; pages miss no claim; answers are founded; the walk of the graph, query by query, finds what is near |
| `secrets-agent` | two agents, four strings of which three fit a page, batches of two, a budget of two | proposals are about what was meant and was unclaimed when the agent began; no string of the page is overlooked; agents end |

**Bounds.** Two connections are enough for every conflict of the store, because a
conflict is between the holder of the lock and one other. Two run ids let each of
them run, or one of them fail and run again. The claims are one for each outcome of
`Citable`: evidence and no subject, both, no evidence. The artifacts are a file and something inside it, so
that an order of insertion matters. In `Lifecycle` three processes let one overtake two;
two migrations make the loop of `migrate` turn twice (today's schema has one). In
`Review` two reviewers can read the same status; four run ids are the import, one agent
run and a run for each reviewer; `RunIdLeft` is the guard that keeps a decision from
starting when no id is left for it, a bound of the model and not of the code. Run ids
are never reused (`Minted`), as the nonce in `mint_id` guarantees.

In `adapters` three runs let one engine come before, between and after two others, and the
three together reach every pair of writers of one row. The file has what makes the
scripts branch: a risky import with and without a recorded call site (`MaxXrefs` cuts the list), a section
that is mapped and one that is not, two indicators of one category with a budget of one, more plain strings than
`StringLimit` keeps, a secret that both engines detect, an import whose library and address
only Ghidra knows, an end of a section the engines disagree about. Ghidra strings have addresses and no file
offsets, as `UltronExport.py` writes them: with both, a string that triage could not place would be a second row, which
`tests/test_evidence_model.py` expects and `EnginesConverge` excludes.

`MCExport` makes two exports, so that one can overwrite what another that died has left; its second analysis
sees the artifact of the first and refines its claim, so that every stream can be split from the one it refers to. The
layouts of `MCExtraction` have an archive that may hold itself, one reached twice, members of one path in two containers, members that
escape the directory, a handler that raises, a signature nobody handles and a second hit inside a range that the first has consumed; `MaxFiles` and `MaxDepth`
are each reached. In `MCLinking` the name is exported by one, two or three files, under its own and a decorated name, and one
function has no recorded end. Three passes are a linking and a chaining that a third overlaps.
Four projects are the fewest whose trees can be two levels deep, which path halving needs. `MinShared` is 1: a pair is below it if it shares no component. `MCSession` changes the project
once: two reads of a tool differ if one commit falls between them. A page has two rows of four claims. `EdgeLimit` is two: one file is cited by three claims, so that
the page of its edges may leave any of them out; another walk has room for three nodes and none for the rest. `MCSecretsAgent` answers with a text that is no list, an index outside
the batch, an unsure item, one with a confidence that is not a number, and one string named twice; its budget of two is spent within a batch of
two or by the second. `MaxRuns`, `MaxExports`, `MaxAnalyses`, `MaxPasses`, `MaxFinds`, `MaxJobs`, `MaxLines`, `MaxChanges`,
`MaxStarts` and `MaxEntered` bound the environment; `MaxFiles`, `MaxDepth`, `PageLimit`, `EdgeLimit`, `MaxRows`, `AskLimit`, `MinimumHits`,
`MaxAddresses`, `MaxClaims` and `BatchSize` are limits of the code, given smaller values.

**Deadlock** is checked in `store` and `review`, where processes can always start and
stop. The other instances come to an end when each process has made its calls or a bound of the environment is used up:
`CHECK_DEADLOCK FALSE`.

**Fairness.** `Store`: weak fairness of what a connection with a run under way does
next, where a wait for the lock may end either way. A body is a finite program, every engine
it starts has a timeout, and SQLite answers a waiter within the busy timeout. `Extraction` and `Fleet`: weak
fairness of the steps of the one process at work, which is straight-line code and waits for nobody. `SecretsAgent`: weak fairness of
an agent's next step; a call to the model ends by an answer or by its timeout, a run by a commit or by the busy timeout. Opening, stopping,
raising, failing, beginning a run, a call or a job, and killing are
never fair: nobody is obliged to do them. The other modules state no liveness.

Every property has a mutant in `PROJECT.json`: a definition of the model, changed the way a
plausible bug would change the code, under which TLC finds the property violated. The
mutated forms stand in the modules just before the definitions they replace and are used
by nothing else.

## 4 The proofs

`StoreProofs` proves, for any sets of connections, runs, artifacts, claims and notes and any
references between them:

* `TypeCorrect`, `GraphAlwaysSound`, `PartialRunsLeaveNothing`: the invariants of the run `store`;
* `DecisionsAreKept`: its action property; and `LedgerIsFinal`, that a finished run stays as it is (no run lists it: `ImplementsLedger` implies it);
* `StoreImplementsLedger`: `Store` implements `EvidenceLedger` under `graph <- db`.

The invariants of the run are not inductive. Committed rows are sound because what a run commits
is, and that is because of what it *adds* to a graph that nobody else can change meanwhile. The
inductive invariant `IInv` says so. `LockInv`: a connection is in `body` or `raising` exactly if it
holds the lock. `PendInv`: `pend` is `db` unless somebody does. `CurInv`: the run ids in use are
distinct and absent from `db`. `SettledInv`: `db` holds no running run. `BodyInv`: in `body`,
`pend` is `Sound`, holds the run as running and is `Extends(db, pend, cur[c])`. It says nothing of
`pend` in `raising`, where a claim may lack its attestation: from there the connection can only
roll back. `Extends` is also exactly what
`EvidenceLedger` allows a run to publish, so the refinement follows from it: `Commit` is
`PublishRun`, `RecordFailure` is `NoteFailure`, `SetClaimStatus` is `Decide`, and every other
action leaves `db` alone.

`LifecycleProofs` proves, for any number of processes, any schema version and any later one:
`OpenProjectsAreMigrated`, `VersionIsMonotone` and `IdentityIsWritten` (the properties `OpenMeansMigrated`, `VersionNeverGoesBack` and
`IdentityIsWhole` of the run `lifecycle`; the last also says that a created project has an id), and on the way `LifecycleTypeCorrect` and `VersionTellsTables`, which no run
repeats. Its inductive invariant: at most one process is
between its script and its version row, and then `applied = version + 1` and its position is
`version` (`MigratorsInv`); tables ahead of the row belong to a migration of this build
(`TablesInv`); a process past the loop has seen the row at `SchemaVersion` (`MigratedInv`); only a
`create` that found no identity names the project, it has written the rows up to `named` and these are never empty again, whoever
writes over them, and a call returns after none of the four or after all (`NamingInv`); only creating modes get there (`ModeInv`).

`ConvergenceProofs` proves, for any jobs, any scripts and any number of runs:

* `FillingKeepsIdentity`: merging two observations with the same identity keeps it, although
  the merged data may have fields neither had alone. It holds because of how the groups of a
  kind are chosen: an earlier group has exactly one field that a later one lacks (`GroupsNest`,
  proved of the registry by `GroupsAreNested`). Neither observation has that field, so their merge has not either;
* `EvidenceTypeCorrect` and `ClaimsAreBacked`: the invariants of the run `adapters`. `IInv`
  adds that the data of a row satisfy some group, without which its identity would be a
  choice from the empty set;
* `NothingOverwritten`: no commit changes or removes a committed field, claim or link. Its
  invariant is that the view of the open run grows from `db`;
* `FirstObserverIsBelieved` (`FirstObservationWins`): the invariant describes the rows of a graph by a list of
  observations, that of `db` by `told` and that of the open view by `heard`; one more observation changes a field only if none
  before it had that field (`PutArtifactTells`);
* `OpinionsStand`, `BestNeverDrops` and `ReportsNeverDrop` (`ConfidenceNeverDrops`): attestations of committed runs stay, because
  the run is part of their key; so the best of each producer stays or rises; so no factor of the product in
  `combine_confidence` rises. `Residual` is a recursive function of a finite set, and `ProductExists` shows that the
  recursion defines something: of the numbers of producers for which it would not, there would be a least;
* `AgreementConverges`: as long as `Agree(told)`, `EnginesConverge`. Engines agree if no two observations of runs that ended well have
  all fields of a group of their kind in common and yet different ids. TLC finds `Agree(told)` true in every state of `adapters`; of
  scripts at large it is not, so it is a condition of the theorem. What is to prove is that *merging* adds no collision: a row may have fields of
  several engines, and a group that no engine had alone. The fields of a group that a row has complete were observed by one engine
  together (`ObservedTogether`): of two groups of a kind none has more than one field that the other has not, and the engine that
  observed that field observed the row's identity with it.
* `LineageIsRecorded` (`LineageRecorded`) is about the scripts of `Adapters`, whatever the engines report (the constants) and whatever the order
  of the runs, and needs two conditions. `AdaptersRun`: jobs and scripts are those of `Adapters`, as the cfg says. `NoImpostors`: no agent submits a
  claim on a risky API under the name of triage or Ghidra. The code does not prevent it (`_submit_claim` takes the producer from its caller,
  `mcp/tools.py:535`), and such a claim would have no link. Two things can go wrong. A link goes only to claims that are there when it is made, so
  triage's have to be: `LineageInv` says that each of them (`Coarse`) is there or asserted by the statements left, as soon as the
  file is (`Due`), since the run that records the file is one that triages it. And a finding of Ghidra stands for one statement without
  its link: then the next statement makes the link (`Attributed`). The scripts are shown to keep to this (`Proper`), those of triage and QEMU and
  of agents because they say nothing of risky APIs under Ghidra's name (`Tame`). `FlattenSeq`, of which the scripts are made, is a recursive
  function: that a concatenation of lists is the list of their members is shown by a least counterexample (`FlattenedHolds`).

The second part of `StoreProofs` is about `Review`, for any reviewers, agents and queues: `ReportsAreTrue`, `NotesAreFounded` and `ReviewersAreConsistent` (`ReportedMeansRecorded`,
`NotesFollowDecisions`, `NoReviewerContradictsItself`). Every step of a reviewer is a step of `Store`, so `IInv` comes for
free. `ReviewInv` adds: where a reviewer is in its decision fits where its connection is in `Project.run` (`PlaceInv`); once its status is set the claim stays
decided, whoever decides it next (`CuratedInv`); the only annotation that the writer's view has and the database has not is that of the decision
being recorded (`UncommittedInv`, `AnnotatedInv`); and a reviewer under way has never annotated its claim, since only a claim that is still
proposed is begun with (`FirstTimeInv`).

`ExportProofs` proves the four invariants of the run `export`, for any projects, writers and streams read at any time:
`ExportsAreProvenanced`, `ExportsAreComplete`, `ManifestsAreHonest`, `LiveDiffsRemoveNothing`. Graphs only grow and stay sound (`GraphsGrow`), so
whatever was read is a subset of the project of now (`WrittenInv`, `OldFilesInv`). The point is the order: artifacts and claims are read
before the observations and attestations that account for them, and a sound graph accounts for all of its rows at the later read (`OrderInv`).

`CartographyProofs` proves, about `Linking`, `PassesMissNothing`, `ChainsAreNoStronger` (the invariants of the run `linking`) and `AmbiguityIsHedged` (its action property), for any
processes, passes and analyses. What a pass remembers of the claims it has read are all of those which were there when it
began, none surer than it is now (`Remembers`); the exporters it has read and the files it has not cover what was committed at its
start (`Exporters`). Confidences only rise, so a chain that takes the weaker of two remembered ones stays below both.

About `Fleet` it proves `UnionFindIsRight`, `ReasonsStand` and `VersionChangesAreFounded` (the three invariants of the run `fleet`), for any number of
projects. The invariant of the union-find has two witnesses that are not in the code: `top`, the root of each project, and
`rank`, which rises towards the roots. `top` is constant along parents, path halving leaves it as it is
(`HalvingKeepsForest`), a union moves one tree below another (`UnitingKeepsForest`), and the edges never leave a tree and span each one (`Spans`); an edge whose
ends are in two trees is the one being united (`Pending`). `EdgesStand` and `ChangesAreFounded` hold because what was read stays true.

`ExtractionProofs` proves `RowsHaveBytes`, `WaitingMembersStay` and `NoPathIsLost` (`FilesHaveBytes`, `UnpackedAsRecorded`, `PathsAccountedFor`), for any images,
contents and limits. A row is recorded after its blob was renamed into place, and a copy that is renamed holds
the bytes whose digest it is named after (`BlobsInv`). The stage directory of a member that was new when it was looked at carries a number below the number
of paths seen by now, and extraction writes only into the directory with exactly that number: shared stages never
touch a container that waits (`StagesInv`). Every path handed out belongs to a row, the file being ingested or a member still in the list (`PathsInv`).

`SecretsAgentProofs` proves `ProposalsAreFounded` and `NobodyIsForgotten` (the two invariants of the run `secrets-agent`), for any agents,
strings, answers, batch sizes and budgets. Every string an agent found is still to be looked at, a candidate or skipped
(`LookInv`); what the model was shown are the candidates up to the index, and the batch is the end of that, so
an index of the answer names the string that was meant (`AskInv`). Other agents only add claims (`MoreClaims`). `NobodyIsForgotten` is about the strings of the page: an
agent with budget left has dealt with `PageLimit` strings, or with all that there were, and what it left out comes after them in the order of the query.

`SessionProofs` proves the four invariants of the run `session`, for any project, lines, tools called and number of changes by other
processes. `SessionInv` (`SessionInvariance`): every row refers to rows that are there (`GraphInv`); the messages that are left are the last ones of the line
read last (`SentInv`, `ItemsInv`); the call under way is that of the message before them, with its arguments until the tool has used them (`CallInv`).

* `AnswersComeInOrder` (`AnsweredInOrder`). `OrderInv`: the ids of what is written and of what waits to be written, with that of the call
  under way, are what is owed for the lines before and for the messages taken up. `FlattenSeq` is a recursive function, of
  which `FlattenOn` shows that one more sequence goes to the end.
* `WalksStayNear` (`NeighborsAreNear`). What is near are the layers of a recursive function (`Within`, `WithinIs`), which grow with the graph (`WithinGrows`). `WalkInv` has two
  halves. Whatever a query returns was an edge then and is one now, so what a round finds lies in the next layer of the graph of now (`InRound`). And of the graph the
  walk began with, `had`, every edge at a node that the walk is done with ends at a node it has seen, and the last frontier holds the layer as it was (`KeptUp`), unless the walk
  was cut (`Cut`): the layer is beyond its limit, or a node before it has more rows than `EdgeLimit`. Both only become more true as the graph grows (`CutKept`), so a walk that is cut at
  one query is cut when it answers.
* `AnswersFounded` (`AnswersAreFounded`). Rows are never removed (`Grown`), so what a tool has read stays true; `ProgressInv` says what a call
  knows between two queries: of a predicate that was asked for, every claim that was there is a finding, unless a page was full. A summary cites findings only,
  and all of them or those that a stronger one answers for (`Summarized`).
* `PagingMissesNothing` (`PagesMissNothing`). A page is given by the ranks of its claims in the order of identifiers, not by `SelectSeq`
  (`PageOfClaims`). A new claim moves others only further back (`RanksRise`), so what lies after the offset stays there (`AheadKept`). `PagerInv`: the claims
  wanted are among those seen or lie after the offset, and an answer on its way to the client says the same of the next offset.

Their definitions of existence (`IteratesExist`) are shown by a least counterexample, since induction over data is out of reach.

**Assumptions.** The proofs use the named assumptions on the constants, which TLC evaluates in the runs, and nothing else. `GraphAssumption` and
`StoreAssumption`: references go to artifacts, and `None` is no connection and no run id. `LifecycleAssumption`: the version is a positive number. `ReviewAssumption`:
reviewers are commands; claims of tools have evidence, as `add_claim` requires of every claim; the queue
lists each claim once. `ConvergenceAssumption`: there are finitely many producers. `AdaptersAssumption`: engines
report lists, the detectors use three predicates, and the limit on xrefs is a number. `ExportAssumption`, `LinkingAssumption`, `FleetAssumption`:
what an analysis finds is made of artifacts and claims of the right shape, with confidences from 0 to 100 and a finite number of rows; a fleet has each
project once. `ExtractionAssumption`: contents are blobs and limits are numbers. `AgentAssumption`: an answer
of the model is garbage or a list whose items name one of the two predicates or are unusable, and a batch holds at least one string.
`QueriesAssumption`: claims and artifacts are listed once each, are disjoint, and refer to artifacts. `QuestionsAssumption`: vocabularies are finite. `SessionAssumption`:
a project to begin on is closed under references, lines are sequences of messages, and the numbers among the arguments are numbers (`WellTyped`; `int()` raises for others, which is `FailCall`).

**Only model-checked.** Liveness (`LockComesFree`, `AnalysesEnd`, `JobsEnd`, `AgentsEnd`): fairness and `ENABLED` are out of the prover's reach.
That `Agree(told)` holds of the scripts of `Adapters` is checked by TLC only: it depends on what the engines report, and
two engines that name one address differently would break it. The operators of `Tracing` are checked through `adapters` and
`execution-aligned`. No module uses a `RECURSIVE` operator.

## 5 Divergences

Two runs end in a counterexample to a sentence of the repository; `PROJECT.json` quotes the
sentences under "findings".

1. `lifecycle-stranded`. *Version 0 is a fresh database.* A process that dies between a migration's script and its
   version row leaves a database that no later `create` or `open` accepts.
2. `execution-aligned`. *An unaligned trace produces no reachability claims rather than wrong ones.* Functions of one size in a row align
   with a log at several bases equally well; the code takes the first, and claims that functions were reached which never ran.

Eight more have a configuration of their own, which ends in a counterexample:

| command | the sentence | what the code does |
|---|---|---|
| `tlc -config MCStoreUnrecorded.cfg MCStore` | a failed run is recorded as failed | the failed row is written after the `ROLLBACK` has freed the lock, so it may itself time out |
| `tlc -config MCStoreWedged.cfg MCStore` | a run is closed atomically | `BEGIN` and the first `INSERT` stand before the `try` block: a busy timeout there leaves the connection of a server in a transaction for good |
| `tlc -config MCReviewUnaudited.cfg MCReview` | a claim is promoted with an audit trail | status and annotation are two transactions |
| `tlc -config MCReviewHidden.cfg MCReview` | the queue lists the proposed claims of agents | the limit is applied before the filter for agents |
| `tlc -config MCAdaptersLookup.cfg MCAdapters` | what is at this address? | the column that answers is set when a row is inserted and not when another engine fills the address in |
| `tlc -config MCAdaptersTrace.cfg MCAdapters` | the runtime observation that justifies the claim | hits of two traces converge on one row, which keeps the count of the first; the claim of the second cites it all the same |
| `tlc -config MCExportOrder.cfg MCExport` | exports do not depend on which adapter ran first (`export/__init__.py:125-127`, `:95-96`) | a field that two engines fill in keeps the value of the first (`Convergence`), and rows of `graph/` hold it |
| `tlc -config MCExtractionLocated.cfg MCExtraction` | the offset at which a file was found (`carver.py`, `ExtractedEntry`) | two hits of one container that extract to one path share a file on disk (`carver.py:179-186`): the later bytes are ingested under the offset of the earlier |

Read in the code while modelling, with no run of their own:

* QEMU: with no base at hand, addresses are attributed at offset 0 with confidence 0.95, more than the 0.85 of an inferred one. A trace that
  times out raises out of `analyze`, so its log is not imported by that call, though partial traces are called usable.
* `record_version_changes` says that its evidence is the claim which asserted the new version (`diff.py:119-121`); it cites the first claim on the component, of whatever version.
* `ultron_campaign`, given the path of its own project, correlates that project with itself.
* `_UBIQUITOUS_SYMBOLS` contains names with leading underscores; names are stripped of them before they are looked up, so these never match.
* A link's ambiguity counts artifacts; the architecture document speaks of files that export the name (`docs/architecture.md:392-395`): an export and a
  symbol of one file hedge each other. A link recorded at full confidence keeps it when a second provider is analysed later.
* `resolve_object` promises a unique path suffix (`store.py:642`) and takes the shortest of several.
* `find_claims` with `min_confidence` looks at four times `limit` rows only: claims beyond are not found. Paging with a `status` filter while
  claims are decided skips rows, since decided ones leave the list the offset counts in; `PagesMissNothing` pages without one.
* Rejected claims still answer questions and still chain reachability.
* `neighbors` stops collecting nodes at its limit and still returns the edges that lead out of it. Of a node with more than 200 claims or 200 artifacts it reads 200 of each, in no
  order (`store.py:905`, `:912`), and does not say so, although a caller over MCP may ask for 500 nodes (`mcp/tools.py:35`).
* Two calls of `create` that both find no `project_id` each write four identity rows, over each other's (`store.py:344-348`): the one that returned first may find its project
  renamed, or named by rows of both. A call that dies after the first row leaves an id without a name, and every later `create` finds the id and returns the project so.
* A decision is written by id alone: a reviewer who read a claim as proposed overturns what another has decided, and reported, since (`review/__init__.py:127-133`).
* `ultron_submit_claim` answers `"status": "proposed"` of a claim that may have been accepted or rejected before (`mcp/tools.py:562`).
* `SecretsAgent`: a confidence of `NaN` in the answer becomes 1.0; a `batch_size` of 0 or less never ends; candidates are looked up once, so two
  agents at work propose for the same string (`secrets.py:106-115` excludes earlier runs only). The page of 5000 strings is cut before those already claimed are
  left out of it (`secrets.py:127`), and is the same in every run: strings behind the first 5000 are neither counted as skipped nor ever shown to a model.
* `vault.approve_note`, given a note in `approved/`, writes it over itself and removes it (`vault.py:186-194`); a death before the removal leaves the note in both directories.
* Carver and binwalk: a container's covered range is that of its handler, and a zip or tar covers one byte, so that signatures of members are extracted
  again; files beyond the budget are refused and only counted; members that lead out of the directory are dropped; two files of one path in two containers are one.
* Two Ghidra analyses of files of the same name within one second share an export directory.

## 6 What is not modelled

* `vault.py`: two functions on files of two directories that share nothing with the project; see section 5.
* The evaluation harness, the command line, the health checks: drivers that make one call each into what is modelled, and print.
* The parsers of file formats, archives, ELF, PE and Mach-O headers, regular expressions over
  bytes, and the Ghidra script: functions of bytes without state. What they answer is a constant.
* Text: rendering of answers, notes and tables, argument parsing, logging, the wording of prompts.
* Field validation of kinds and predicates (types, ranges, enumerations): it raises, and an exception in a
  run's body is an action of `Store` and of `Convergence`. What evidence a predicate requires is modelled.
* `Adapters` has one image base: Ghidra reports addresses at its own, triage those the file was linked for, and
  the importer subtracts none. A project with two bases is outside the instance.
* `Extraction`: unpacking with an installed binwalk, whose output is a directory tree, and the budget of bytes, which refuses a file as
  the budget of files does. `Linking` and `Fleet`: the limits of their queries (2000 claims and more) are not reached.
* `Session`: the read-only tools that are one query and answer with its rows; sequences of more than one line beside paging, which the
  server treats as independent of each other.
* SQLite itself: one writer, snapshot of the last commit at the first write, rollback on close, are
  taken as its contract. Power loss and `synchronous=NORMAL` are left out.
* The processes of Ghidra and binwalk and the model behind an LLM backend: what they answer is input.
* `superseded`, a legal claim status that nothing sets.

## 7 The plan

Modelled and checked: `Store`, `Lifecycle`, `Review`, `Convergence` with `Adapters`, `Execution`, `Export`, `Extraction`, `Linking`, `Fleet`, `Session`,
`SecretsAgent`. Proved about: all of them but `Execution`. Next, in this order:

1. `Lifecycle`: an abstract specification of a project's life (none, named, migrated step by step) that it implements.
2. A module for the vault, and instances of `Session` with two lines and two changes.
