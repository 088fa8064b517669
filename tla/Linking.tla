------------------------------ MODULE Linking ------------------------------
(***************************************************************************)
(* Links between the files of a firmware: link_imports, which resolves     *)
(* each import against the exports of every other file                     *)
(* (ultron/cartography/__init__.py), and trace_cross_binary_reachability,  *)
(* which chains an observed execution, a call and such a link              *)
(* (ultron/cartography/reachability.py).                                   *)
(*                                                                         *)
(* Both passes read a part of what they join before their run opens, in    *)
(* queries of their own, and the rest inside the run.  Store shows that a  *)
(* run is one change of the committed graph, made under the write lock, so *)
(* the body of a run is one step here; the reads before it are steps among *)
(* which the analyses of other processes commit.  The limits of the        *)
(* queries (5000 rows, 2000 claims) are not reached.                       *)
(*                                                                         *)
(* An artifact is a record with its kind, the object it was observed in    *)
(* and the fields its kind has:                                            *)
(*   file, and import, export, symbol with a name                          *)
(*   function with a name and the start, end and size of its code          *)
(*   xref with the type of the reference, from where and to which symbol   *)
(***************************************************************************)
EXTENDS Naturals, FiniteSets, FiniteSetsExt

CONSTANTS
    Processes,
    Analyses,      \* what importers may commit: [rows |-> .., reached |-> ..]
    Ubiquitous,    \* _UBIQUITOUS_SYMBOLS
    Stem(_),       \* name.lstrip("_")
    None,
    MaxPasses      \* bound: passes started

(* Claims.  Each of the predicates has one producer here, whose best       *)
(* attestation is the combined confidence.                                 *)

Reached(f, hit) == [predicate |-> "function_reached", function |-> f, hit |-> hit]

Link(import, provider) ==
    [predicate |-> "imports_resolved_by", import |-> import, provider |-> provider]

Reachable(r, link, call) ==
    [predicate |-> "cross_binary_reachable", function |-> r.function, hit |-> r.hit,
     import |-> link.import, sink |-> link.provider, call |-> call]

\* Rows without a name or an address are skipped by both passes and left out.
WellFormed(row) ==
    /\ row.kind = "import" => row.name # None
    /\ row.kind = "function" => row.start \in Nat
    /\ row.kind = "xref" => row.from \in Nat

ASSUME LinkingAssumption ==
    /\ MaxPasses \in Nat
    /\ \A a \in Analyses :
        /\ DOMAIN a = {"rows", "reached"}
        /\ IsFiniteSet(a.rows) /\ \A row \in a.rows : WellFormed(row)
        /\ \A k \in DOMAIN a.reached :
            /\ k = Reached(k.function, k.hit) /\ k.function.kind = "function"
            /\ a.reached[k] \in 0 .. 100

VARIABLES
    facts,    \* the committed artifacts
    conf,     \* the committed claims -> their combined confidence in percent
    passes,   \* process -> the pass it is in
    started   \* passes started so far

vars == <<facts, conf, passes, started>>

-----------------------------------------------------------------------------
(* The committed claims and artifacts                                      *)

\* The latest attestation counts.
AttestedLast(new) ==
    [k \in DOMAIN conf \cup DOMAIN new |-> IF k \in DOMAIN new THEN new[k] ELSE conf[k]]

Attested(new) ==
    [k \in DOMAIN conf \cup DOMAIN new |->
        Max({m[k] : m \in {n \in {conf, new} : k \in DOMAIN n}})]

ClaimsOf(predicate) == {k \in DOMAIN conf : k.predicate = predicate}

Rows(kind, object) == {a \in facts : a.kind = kind /\ a.object = object}

Objects == {a.object : a \in {b \in facts : b.kind = "file"}}

-----------------------------------------------------------------------------
(* The passes *)

Idle == [at |-> "idle"]

Init ==
    /\ facts = {}
    /\ conf = << >>
    /\ passes = [p \in Processes |-> Idle]
    /\ started = 0

Goto(p, pass) == passes' = [passes EXCEPT ![p] = pass]

\* Another process's run: an importer adds artifacts of files that are there,
\* and a QEMU trace attests that functions were reached.
Analyse(a) ==
    /\ \A row \in a.rows : row.object \in Objects \cup {f.object : f \in {b \in a.rows : b.kind = "file"}}
    /\ \A k \in DOMAIN a.reached : k.function \in facts
    /\ ~ (a.rows \subseteq facts /\ Attested(a.reached) = conf)
    /\ facts' = facts \cup a.rows
    /\ conf' = Attested(a.reached)
    /\ UNCHANGED <<passes, started>>

Start(p, pass) ==
    /\ passes[p] = Idle
    /\ started < MaxPasses
    /\ started' = started + 1
    /\ Goto(p, pass)
    /\ UNCHANGED <<facts, conf>>

\* link_imports reads the list of files; "since" remembers what was committed
\* when it began, for the properties.
StartLinking(p) ==
    \E ignore \in BOOLEAN :
        Start(p, [at |-> "exporters", objects |-> Objects,
                  unread |-> Objects \X {"export", "symbol"},
                  exporters |-> {}, ignore |-> ignore, since |-> facts])

\* An exported name or a defined symbol makes a file a provider; one query
\* for each file and kind, in a fixed order.
ReadExporters(p) ==
    /\ passes[p].at = "exporters"
    /\ passes[p].unread # {}
    /\ LET q == CHOOSE q \in passes[p].unread : TRUE
       IN  Goto(p, [passes[p] EXCEPT !.unread = @ \ {q},
                                     !.exporters = @ \cup Rows(q[2], q[1])])
    /\ UNCHANGED <<facts, conf, started>>

\* The stem of a name never begins with an underscore, so the entries of the
\* list that do are never met.
Ignored(pass, name) == pass.ignore /\ Stem(name) \in Ubiquitous

Candidates(pass, import) ==
    {e \in pass.exporters : e.name = import.name /\ e.object # import.object}

\* Ambiguous from the third candidate on.
ConfidenceOfMany(candidates) == IF Cardinality(candidates) <= 2 THEN 60 ELSE 48

\* min_confidence, reduced when several rows export the name.
Confidence(candidates) == IF Cardinality(candidates) = 1 THEN 60 ELSE 48

\* Only the first provider that is found is recorded.
ResolvedFirst(pass) ==
    LET imports == {i \in UNION {Rows("import", o) : o \in pass.objects} : ~ Ignored(pass, i.name)}
        links == {Link(i, CHOOSE e \in Candidates(pass, i) : TRUE) :
                    i \in {j \in imports : Candidates(pass, j) # {}}}
    IN  [k \in links |-> Confidence(Candidates(pass, k.import))]

\* The claims of the run: every import of every listed file against every
\* candidate.
Resolved(pass) ==
    LET imports == {i \in UNION {Rows("import", o) : o \in pass.objects} : ~ Ignored(pass, i.name)}
        links == UNION {{Link(i, e) : e \in Candidates(pass, i)} : i \in imports}
    IN  [k \in links |-> Confidence(Candidates(pass, k.import))]

\* The run reads the imports, under the write lock, and commits.
LinkRun(p) ==
    /\ passes[p].at = "exporters"
    /\ passes[p].unread = {}
    /\ conf' = Attested(Resolved(passes[p]))
    /\ Goto(p, [at |-> "linked", ignore |-> passes[p].ignore, since |-> passes[p].since])
    /\ UNCHANGED <<facts, started>>

-----------------------------------------------------------------------------
(* Reachability *)

StartReaching(p) ==
    Start(p, [at |-> "links", reached |-> [k \in ClaimsOf("function_reached") |-> conf[k]],
              since |-> facts, sinceClaims |-> DOMAIN conf])

ReadLinks(p) ==
    /\ passes[p].at = "links"
    /\ Goto(p, [at |-> "reach", reached |-> passes[p].reached,
                links |-> [k \in ClaimsOf("imports_resolved_by") |-> conf[k]],
                since |-> passes[p].since, sinceClaims |-> passes[p].sinceClaims])
    /\ UNCHANGED <<facts, conf, started>>

\* Where the code of a function ends: the recorded end, or its start and its
\* size, which is taken for one.  An end or a size of 0 counts as missing.
EndOf(f) == IF f.end \notin {None, 0} THEN f.end
            ELSE f.start + (IF f.size \notin {None, 0} THEN f.size ELSE 1)

\* The calls that leave the function.
Calls(f) ==
    {x \in Rows("xref", f.object) :
        x.type = "call" /\ x.to # None /\ f.start <= x.from /\ x.from < EndOf(f)}

\* call_xrefs: of several calls to a symbol, the last by address is cited.
LastCall(f, symbol) ==
    CHOOSE x \in Calls(f) : x.to = symbol /\ \A y \in Calls(f) : y.to = symbol => y.from <= x.from

\* links_by_import joined with the calls of every function that was reached.
Chains(reached, links) ==
    UNION {{<<r, k>> : k \in {l \in links :
                l.import.object = r.function.object
                /\ l.import.name \in {x.to : x \in Calls(r.function)}}} : r \in reached}

\* A chain is as sound as its weakest link.
Weakest(conf1, conf2) == Min({conf1, conf2})

ClaimOf(c) == Reachable(c[1], c[2], LastCall(c[1].function, c[2].import.name))

ReachRun(p) ==
    /\ passes[p].at = "reach"
    /\ LET pass == passes[p]
           chains == Chains(DOMAIN pass.reached, DOMAIN pass.links)
       IN  conf' = Attested([k \in {ClaimOf(c) : c \in chains} |->
                        Max({Weakest(pass.reached[c[1]], pass.links[c[2]]) :
                                c \in {d \in chains : ClaimOf(d) = k}})])
    /\ Goto(p, [at |-> "chained", since |-> passes[p].since,
                sinceClaims |-> passes[p].sinceClaims])
    /\ UNCHANGED <<facts, started>>

\* A pass returns its result, or is ended by an exception or a kill at any
\* point; what its run had written is rolled back.
End(p) ==
    /\ passes[p] # Idle
    /\ Goto(p, Idle)
    /\ UNCHANGED <<facts, conf, started>>

Next ==
    \/ \E a \in Analyses : Analyse(a)
    \/ \E p \in Processes :
        \/ StartLinking(p) \/ ReadExporters(p) \/ LinkRun(p)
        \/ StartReaching(p) \/ ReadLinks(p) \/ ReachRun(p)
        \/ End(p)

Spec == Init /\ [][Next]_vars

-----------------------------------------------------------------------------
(* Properties *)

\* The links that the artifacts of a set call for, by definition.
Join(rows) ==
    {Link(i, e) : i \in {a \in rows : a.kind = "import"},
                  e \in {a \in rows : a.kind \in {"export", "symbol"}}}

Holds(k) == k.import.name = k.provider.name /\ k.import.object # k.provider.object

\* When a pass has ended, everything that was committed before it began is
\* linked or chained, whatever runs came between its reads.
PassesComplete ==
    \A p \in Processes :
        /\ passes[p].at = "linked" =>
            {k \in Join(passes[p].since) : Holds(k) /\ ~ Ignored(passes[p], k.import.name)}
                \subseteq DOMAIN conf
        /\ passes[p].at = "chained" =>
            \A r, l \in passes[p].sinceClaims, x \in passes[p].since :
                /\ r.predicate = "function_reached" /\ l.predicate = "imports_resolved_by"
                /\ x.kind = "xref" /\ x.type = "call" /\ x.object = r.function.object
                /\ x.object = l.import.object /\ x.to = l.import.name
                /\ x.from >= r.function.start /\ x.from < EndOf(r.function)
                => \E k \in ClaimsOf("cross_binary_reachable") :
                    k.function = r.function /\ k.hit = r.hit /\ k.sink = l.provider

\* Nobody is told that a boundary is reached more surely than that the
\* function ran or that its import is resolved, as these are believed now.
NoStrongerThanItsLinks ==
    \A k \in ClaimsOf("cross_binary_reachable") :
        /\ Reached(k.function, k.hit) \in DOMAIN conf
        /\ Link(k.import, k.sink) \in DOMAIN conf
        /\ conf[k] <= conf[Reached(k.function, k.hit)]
        /\ conf[k] <= conf[Link(k.import, k.sink)]

Providers(rows, import) ==
    {e.object : e \in {a \in rows : a.kind \in {"export", "symbol"} /\ a.name = import.name}}
        \ {import.object}

\* A link that is recorded for the first time, by a pass that could see that
\* several files export the name, is less certain than a lone match.
AmbiguousLinksAreHedged ==
    [][\A p \in Processes :
        passes[p].at = "exporters" /\ passes'[p].at = "linked" =>
            \A k \in DOMAIN conf' \ DOMAIN conf :
                Cardinality(Providers(passes[p].since, k.import)) > 1 => conf'[k] < 60]_vars
=============================================================================
