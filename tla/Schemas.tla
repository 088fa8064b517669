------------------------------ MODULE Schemas ------------------------------
(***************************************************************************)
(* The two registries of ultron/evidence/schemas.py, as far as they decide *)
(* anything across components: which fields of an observation are its      *)
(* identity, and which evidence a claim must cite.  The hash that turns an *)
(* identity into an id (ultron/canonical.py, mint_id) has no collisions    *)
(* here: an id is what is hashed.                                          *)
(***************************************************************************)
EXTENDS Naturals, Sequences, FiniteSets

\* For each kind of artifact its groups of identity fields, first choice first.
IdentityGroups ==
    [file          |-> <<{"path", "sha256"}>>,
     section       |-> <<{"name", "addr_start"}>>,
     function      |-> <<{"name", "addr_start"}>>,
     string        |-> <<{"text", "encoding", "addr"},
                         {"text", "encoding", "file_offset"}>>,
     xref          |-> <<{"from_addr", "to_addr", "ref_type"}>>,
     symbol        |-> <<{"name", "addr"}>>,
     import        |-> <<{"name"}>>,
     export        |-> <<{"name", "addr"}, {"name"}>>,
     decompilation |-> <<{"function_addr", "code", "decompiler"}>>,
     byte_span     |-> <<{"file_offset", "length", "label"},
                         {"file_offset", "length"}>>,
     trace_hit     |-> <<{"addr", "tool"}>>,
     signature_hit |-> <<{"signature", "file_offset"}>>]

Kinds == DOMAIN IdentityGroups

\* Of two groups of a kind the earlier has exactly one field of its own, so
\* that an observation misses the earlier group by that field alone.
GroupsNest ==
    \A k \in Kinds : \A j \in DOMAIN IdentityGroups[k] : \A i \in 1..(j - 1) :
        \E f \in IdentityGroups[k][i] :
            IdentityGroups[k][i] \ IdentityGroups[k][j] = {f}

Satisfied(kind, data) ==
    {i \in DOMAIN IdentityGroups[kind] :
        IdentityGroups[kind][i] \subseteq DOMAIN data}

\* Every identity field an observation has, in place of the first group it
\* satisfies: an engine that knows more mints another id.
IdentityOfAll(kind, data) ==
    [f \in (UNION {IdentityGroups[kind][i] : i \in DOMAIN IdentityGroups[kind]})
            \cap DOMAIN data |-> data[f]]

\* ArtifactKind.identity_of: the first group all of whose fields are there.
IdentityOf(kind, data) ==
    LET first == CHOOSE i \in Satisfied(kind, data) :
                    \A j \in Satisfied(kind, data) : i <= j
    IN  [f \in IdentityGroups[kind][first] |-> data[f]]

ArtifactId(kind, object, data) ==
    [kind |-> kind, object |-> object, identity |-> IdentityOf(kind, data)]

-----------------------------------------------------------------------------
(* Evidence *)

EvidenceRoles == {"locus", "support", "context", "counter"}

Needs(role, kinds) == [role |-> role, kinds |-> kinds, minimum |-> 1]
Allows(role, kinds) == [role |-> role, kinds |-> kinds, minimum |-> 0]

\* CLAIM_PREDICATES: what each predicate requires of the evidence.
Requirements ==
    [file_format_identified    |-> {Needs("locus", {"file"})},
     contains_string           |-> {Needs("locus", {"string"})},
     defines_function          |-> {Needs("locus", {"function"})},
     imports_symbol            |-> {Needs("locus", {"import", "symbol"})},
     exports_symbol            |-> {Needs("locus", {"export", "symbol"})},
     uses_risky_api            |->
        {Needs("locus", {"import", "symbol", "function"}),
         Allows("support", {"xref", "decompilation", "string"})},
     contains_hardcoded_secret |-> {Needs("locus", {"string", "byte_span", "file"})},
     embeds_component          |->
        {Needs("locus", {"string", "symbol", "file", "import"})},
     firmware_contains_file    |->
        {Needs("locus", {"file"}), Allows("context", {"signature_hit", "byte_span"})},
     suspicious_string         |-> {Needs("locus", {"string"})},
     function_reached          |->
        {Needs("locus", {"function"}), Needs("support", {"trace_hit"})},
     imports_resolved_by       |->
        {Needs("locus", {"import"}), Needs("support", {"export", "symbol"})},
     cross_binary_reachable    |->
        {Needs("locus", {"export", "symbol"}),
         Needs("support", {"trace_hit", "xref", "import"})},
     component_version_changed |->
        {Needs("locus", {"string", "symbol", "file", "import"})},
     binary_hardening          |->
        {Needs("locus", {"file", "section", "symbol", "import"})}]

\* check_evidence_requirements: in a role that the predicate speaks of, only
\* artifacts of its kinds, and as many as it demands; other roles are free.
EvidenceFits(predicate, evidence) ==
    \A q \in Requirements[predicate] :
        LET attached == {e \in evidence : e.role = q.role}
        IN  /\ \A e \in attached : e.id.kind \in q.kinds
            /\ Cardinality(attached) >= q.minimum
=============================================================================
