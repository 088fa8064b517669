------------------------------ MODULE Adapters ------------------------------
(***************************************************************************)
(* What the engines say about one file: the statements that the triage     *)
(* adapter, the Ghidra importer, the QEMU adapter and ultron_submit_claim   *)
(* make in their runs, in their order.  What an engine found is a constant *)
(* (its parsers and Ghidra itself are outside): records that have the      *)
(* fields the engine reported and no others.                               *)
(***************************************************************************)
EXTENDS Convergence, Tracing

CONSTANTS
    Headers,      \* formats.identify_file and the strings of the file
    Disassembly,  \* the streams of a Ghidra export of it
    Traces,       \* label -> the addresses a QEMU log of it lists, and the
                  \* load base that was given or None
    Submissions,  \* the claims agents submit over MCP
    Detections,   \* text -> what the detectors say of it
    RiskyApis,    \* API -> its category and confidence
    AutoNamed,    \* names Ghidra made up
    Stripped,     \* name -> the name without leading underscores
    StringLimit,      \* bound of the code: plain strings stored for a file
    SuspiciousLimit,  \* bound of the code: indicators of one category
    MaxXrefs,         \* bound of the code: xrefs imported
    MaxXrefEvidence   \* bound of the code: call sites cited

IsList(s) == s \in Seq(ToSet(s))

\* Engines report lists; what a detector says is one of three things.
ASSUME AdaptersAssumption ==
    /\ \A f \in {"sections", "imports", "exports", "symbols", "hardening", "strings"} :
        IsList(Headers[f])
    /\ \A f \in {"sections", "functions", "strings", "symbols", "xrefs", "decompilation",
                 "imports", "exports"} : IsList(Disassembly[f])
    /\ \A text \in DOMAIN Detections :
        /\ IsList(Detections[text])
        /\ \A d \in ToSet(Detections[text]) :
            d.predicate \in {"contains_hardcoded_secret", "embeds_component", "suspicious_string"}
    /\ MaxXrefs \in Nat

Each(Op(_), s) == FlattenSeq([i \in DOMAIN s |-> Op(s[i])])

FileId == ArtifactId("file", None, Headers.file)

Observe(kind, data) ==
    <<[do |-> "observe", kind |-> kind, object |-> FileId, data |-> data]>>

IdIn(kind, data) == ArtifactId(kind, FileId, data)

Locus(id) == [role |-> "locus", id |-> id]
Support(id) == [role |-> "support", id |-> id]

ClaimOf(predicate, statement, evidence) ==
    [predicate |-> predicate, subject |-> FileId,
     statement |-> statement, evidence |-> evidence]

Says(claim, confidence, producer, method) ==
    <<[do |-> "assert", claim |-> claim, confidence |-> confidence,
       producer |-> producer, method |-> method]>>

-----------------------------------------------------------------------------
(* Triage *)

Triage == "ultron-triage"

\* ingest_file
Ingested ==
    <<[do |-> "observe", kind |-> "file", object |-> None, data |-> Headers.file]>>
    \o Says(ClaimOf("file_format_identified",
                    [f \in {"format", "arch", "bits", "endian"} \cap DOMAIN Headers.file |->
                        Headers.file[f]],
                    {Locus(FileId)}),
            IF Headers.file.format \in {"unknown", "data"} THEN 70 ELSE 99,
            Triage, "header-magic")

\* Exports and symbols without an address get the address 0.
Addressed(r) == r @@ [addr |-> 0]

\* The artifacts that stand for a symbol, of which the first is cited.
RecordedAs(name) ==
    Each(LAMBDA r : IF r.name = name THEN <<IdIn("import", r)>> ELSE << >>, Headers.imports)
    \o Each(LAMBDA r : IF r.name = name THEN <<IdIn("export", Addressed(r))>> ELSE << >>,
            Headers.exports)

RiskyNames ==
    {r.name : r \in ToSet(Headers.imports) \cup ToSet(Headers.symbols)} \cap DOMAIN RiskyApis

Symbols ==
    Each(LAMBDA r : Observe("import", r), Headers.imports)
    \o Each(LAMBDA r : Observe("export", Addressed(r)), Headers.exports)
    \o Each(LAMBDA r : Observe("symbol", Addressed(r) @@ [symbol_type |-> "unknown"]),
            Headers.symbols)

Hardening ==
    Each(LAMBDA r : Says(ClaimOf("binary_hardening", r, {Locus(FileId)}),
                         90, Triage, "header-flags"),
         Headers.hardening)

RiskyClaims ==
    Each(LAMBDA n : Says(ClaimOf("uses_risky_api",
                                 [api |-> n, category |-> RiskyApis[n].category],
                                 {Locus(Head(RecordedAs(n)))}),
                         RiskyApis[n].confidence, Triage, "symbol-table-rule"),
         SetToSeq({n \in RiskyNames : RecordedAs(n) # << >>}))

\* _section_lookup: the initialized section that holds an offset, the one
\* that starts first if they overlap.
Around(offset) ==
    {s \in ToSet(Headers.sections) :
        /\ s.initialized /\ s.addr_end > s.addr_start
        /\ offset \in s.file_offset .. (s.file_offset + s.addr_end - s.addr_start - 1)}

\* A string with the name of its section and its virtual address, which a
\* section that is mapped at no address does not give.
Placed(r) ==
    IF Around(r.file_offset) = {} THEN r
    ELSE LET s == CHOOSE x \in Around(r.file_offset) :
                    \A y \in Around(r.file_offset) : x.file_offset <= y.file_offset
         IN  r @@ [section |-> s.name]
             @@ (IF s.addr_start = 0 THEN << >>
                 ELSE [addr |-> s.addr_start + r.file_offset - s.file_offset])

DetectedIn(text) == IF text \in DOMAIN Detections THEN Detections[text] ELSE << >>

Suspicious(d) == d.predicate = "suspicious_string"

\* Indicators of a category seen in the strings before the i-th.
SeenBefore(i, category) ==
    Len(SelectSeq(Each(LAMBDA r : DetectedIn(r.text), SubSeq(Headers.strings, 1, i - 1)),
                  LAMBDA d : Suspicious(d) /\ d.statement.category = category))

\* What triage keeps of the detections in the i-th string: indicators only
\* while the budget of their category lasts.
Kept(i) ==
    Each(LAMBDA d : IF Suspicious(d) => SeenBefore(i, d.statement.category) < SuspiciousLimit
                    THEN <<d>> ELSE << >>,
         DetectedIn(Headers.strings[i].text))

Detected(d, id, producer) ==
    Says(ClaimOf(d.predicate, d.statement, {Locus(id)}), d.confidence, producer, d.method)

\* _record_strings: those a detector fires on, then plain ones up to a limit.
Strings ==
    LET all == [i \in DOMAIN Headers.strings |-> i]
        plain == {i \in DOMAIN Headers.strings : Kept(i) = << >>}
        room == StringLimit - (Len(Headers.strings) - Cardinality(plain))
        Store(i) == Observe("string", Placed(Headers.strings[i]))
        Id(i) == IdIn("string", Placed(Headers.strings[i]))
    IN  Each(LAMBDA i : IF i \in plain THEN << >>
                        ELSE Store(i) \o Each(LAMBDA d : Detected(d, Id(i), Triage), Kept(i)),
             all)
        \o Each(LAMBDA i : IF i \in plain /\ Cardinality({j \in plain : j < i}) < room
                           THEN Store(i) ELSE << >>,
                all)

\* triage_into
TriageInto(emitStrings) ==
    Ingested
    \o Each(LAMBDA r : Observe("section", r), Headers.sections)
    \o Symbols
    \o Hardening
    \o RiskyClaims
    \o (IF emitStrings /\ Headers.file.format # "compressed" THEN Strings ELSE << >>)
-----------------------------------------------------------------------------
(* Ghidra *)

Ghidra == "ultron-ghidra"

Bare(name) == IF name \in DOMAIN Stripped THEN Stripped[name] ELSE name

Field(r, f, default) == IF f \in DOMAIN r THEN r[f] ELSE default

Functions ==
    Each(LAMBDA r :
            Observe("function", r)
            \o (IF r.name \in AutoNamed \/ r.is_thunk \/ r.is_external THEN << >>
               ELSE Says(ClaimOf("defines_function", [name |-> r.name, addr |-> r.addr_start],
                                 {Locus(IdIn("function", r))}),
                         95, Ghidra, "ghidra-function-recovery")),
         Disassembly.functions)

\* The detectors again, but for indicators, on strings Ghidra has located.
GhidraStrings ==
    Each(LAMBDA r :
            IF {"addr", "file_offset"} \cap DOMAIN r = {} THEN << >>
            ELSE Observe("string", r)
                 \o Each(LAMBDA d : IF Suspicious(d) THEN << >>
                                    ELSE Detected(d, IdIn("string", r), Ghidra),
                         DetectedIn(r.text)),
         Disassembly.strings)

ImportedXrefs ==
    SubSeq(Disassembly.xrefs, 1,
           IF Len(Disassembly.xrefs) < MaxXrefs THEN Len(Disassembly.xrefs) ELSE MaxXrefs)

ToTarget(r, name) == "to_function" \in DOMAIN r /\ Bare(r.to_function) = Bare(name)

\* The call sites of an API among the imported xrefs.
Sites(name) ==
    LET calls == SelectSeq(ImportedXrefs, LAMBDA r : ToTarget(r, name) /\ r.ref_type = "call")
    IN  SubSeq(calls, 1, IF Len(calls) < MaxXrefEvidence THEN Len(calls) ELSE MaxXrefEvidence)

\* The decompiled bodies of its callers; of two bodies of one name the last.
CallerBodies(name) ==
    LET bodies == Disassembly.decompilation
        callers == {Field(r, "from_function", "") :
                        r \in {x \in ToSet(Disassembly.xrefs) : ToTarget(x, name)}}
        last == {i \in DOMAIN bodies :
                    /\ bodies[i].function_name \in callers
                    /\ \A j \in (i + 1) .. Len(bodies) :
                        bodies[j].function_name # bodies[i].function_name}
    IN  {IdIn("decompilation", bodies[i]) : i \in last}

\* "uses_risky_api" with its call sites.
SitedClaim(r) ==
    LET sites == Sites(r.name)
        category == RiskyApis[r.name].category
    IN  ClaimOf("uses_risky_api",
                IF sites = << >> THEN [api |-> r.name, category |-> category]
                ELSE [api |-> r.name, category |-> category, call_site_count |-> Len(sites)],
                {Locus(IdIn("import", r))}
                \cup {Support(IdIn("xref", x)) : x \in ToSet(sites)}
                \cup {Support(id) : id \in CallerBodies(r.name)})

\* A risky import: the claim, with more confidence when there are call sites,
\* and then the lineage.
RiskyImport(r) ==
    IF r.name \notin DOMAIN RiskyApis THEN << >>
    ELSE LET bonus == IF Sites(r.name) = << >> THEN 0 ELSE 5
         IN  Says(SitedClaim(r), Min({99, RiskyApis[r.name].confidence + bonus}),
                  Ghidra, "ghidra-xref")
             \o (IF bonus = 0 THEN << >>
                ELSE <<[do |-> "refine", claim |-> SitedClaim(r)]>>)

Imports ==
    Each(LAMBDA r :
            Observe("import", r)
            \o Says(ClaimOf("imports_symbol",
                            [symbol |-> r.name]
                            @@ (IF "library" \in DOMAIN r THEN [library |-> r.library] ELSE << >>),
                            {Locus(IdIn("import", r))}),
                    95, Ghidra, "ghidra-symbol-table")
            \o RiskyImport(r),
         Disassembly.imports)

Exports ==
    Each(LAMBDA r :
            IF "addr" \notin DOMAIN r THEN << >>
            ELSE Observe("export", r)
                 \o (IF r.name \in AutoNamed THEN << >>
                    ELSE Says(ClaimOf("exports_symbol", [symbol |-> r.name],
                                      {Locus(IdIn("export", r))}),
                              95, Ghidra, "ghidra-symbol-table")),
         Disassembly.exports)

\* import_export
ImportExport ==
    Each(LAMBDA r : Observe("section", r), Disassembly.sections)
    \o Functions
    \o GhidraStrings
    \o Each(LAMBDA r : Observe("symbol", r), Disassembly.symbols)
    \o Each(LAMBDA r : Observe("xref", r), ImportedXrefs)
    \o Each(LAMBDA r : Observe("decompilation", r), Disassembly.decompilation)
    \o Imports
    \o Exports

-----------------------------------------------------------------------------
(* QEMU *)

\* _function_ranges: the functions of the file that the graph knows.
Ranges(g) ==
    {LET data == g.rows[id].data
         end == Field(data, "addr_end", data.addr_start + Field(data, "size", 1))
     IN  [start |-> data.addr_start, name |-> data.name, id |-> id,
          end |-> Max({end, data.addr_start + 1})] :
        id \in {i \in DOMAIN g.rows : i.kind = "function" /\ i.object = FileId}}

\* Functions by their ranges, of which no two have the same here.
Before(q, r) == q.start < r.start \/ (q.start = r.start /\ q.end < r.end)

InOrder(S) ==
    [n \in 1..Cardinality(S) |->
        CHOOSE r \in S : Cardinality({q \in S : Before(q, r)}) = n - 1]

\* _import of a trace.  Of several bases that explain as much, one is taken;
\* the module Execution looks at all of them.  (The limits of 5000 functions
\* and 5000 hits are not exceeded here.)
TraceScript(g, label) ==
    LET trace == Traces[label]
        functions == Ranges(g)
        counts == Hottest(trace.log)
        base == CHOOSE b \in BasesFor(trace.given, counts, functions, None) : TRUE
        offset == Offset(base, None)
        In(r) == Inside(counts, functions, offset, r)
        Hit(r) == [addr |-> Min(In(r)) - offset, tool |-> "qemu-user",
                   hit_count |-> HitsIn(counts, In(r)), function_name |-> r.name,
                   run_label |-> label]
    IN  Each(LAMBDA r :
                Observe("trace_hit", Hit(r))
                \o Says(ClaimOf("function_reached",
                                [name |-> r.name, addr |-> r.start, observed_by |-> "qemu_user",
                                 hit_count |-> Hit(r).hit_count],
                                {Locus(r.id), Support(IdIn("trace_hit", Hit(r)))}),
                        ReachConfidence(trace.given, base, None), "ultron-qemu", "qemu-exec"),
             InOrder({r \in functions : In(r) # {}}))

-----------------------------------------------------------------------------
(* Jobs *)

AdapterJobs ==
    [engine : {"triage"}]
    \cup [engine : {"ghidra"}, target : BOOLEAN]
    \cup [engine : {"qemu"}, target : BOOLEAN, trace : DOMAIN Traces]
    \cup [engine : {"mcp"}, submission : Submissions]

\* A Ghidra export or a trace is attached to the file it comes with (target),
\* which is triaged first, without its strings, or to one in the project.
Subject(job) == IF job.target THEN TriageInto(FALSE) ELSE << >>

AdapterScript(job, g) ==
    CASE job.engine = "triage" -> TriageInto(TRUE)
      [] job.engine = "ghidra" -> Subject(job) \o ImportExport
      [] job.engine = "qemu" -> Subject(job) \o TraceScript(g, job.trace)
      [] job.engine = "mcp" ->
            Says(job.submission.claim, job.submission.confidence,
                 job.submission.producer, "agent-reasoning")

\* The command line resolves the object in the project first; an agent names
\* whatever it likes.
AdapterStartable(job, g) ==
    "target" \in DOMAIN job => job.target \/ FileId \in DOMAIN g.rows

-----------------------------------------------------------------------------
(* Properties *)

AttestedBy(k, p) == \E a \in db.attested : a.claim = k /\ a.producer = p

\* One lineage instead of two findings: a risky API that Ghidra found with its
\* call sites is linked to the claim on the same API that the headers gave,
\* whichever of several runs made either.
LineageRecorded ==
    \A j, k \in {c \in db.claims : c.predicate = "uses_risky_api"} :
        /\ AttestedBy(j, Ghidra) /\ "call_site_count" \in DOMAIN j.statement
        /\ AttestedBy(k, Triage) /\ k.statement.api = j.statement.api
        => [src |-> j, dst |-> k] \in db.links

\* The runtime observation a claim cites says what the claim says.
TraceJustifies ==
    \A k \in {c \in db.claims : c.predicate = "function_reached"} :
        \A e \in {x \in k.evidence : x.role = "support"} :
            db.rows[e.id].data.hit_count = k.statement.hit_count
=============================================================================
