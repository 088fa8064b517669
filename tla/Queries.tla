------------------------------ MODULE Queries ------------------------------
(***************************************************************************)
(* The read side of the project (ultron/project/store.py): pages of        *)
(* claims, names that resolve to files, and the edges of the evidence      *)
(* graph.  A graph is a value, the committed state a query sees:           *)
(*   artifacts   the artifacts that are there                              *)
(*   claims      the claims that are there -> [status, confidence]         *)
(*   links       pairs of claims                                           *)
(* A claim is a record: predicate, subject (a file or None), about (the    *)
(* field of its statement that answers are grouped by), marked (the one    *)
(* they filter by) and evidence, the artifacts it cites.                   *)
(***************************************************************************)
EXTENDS Naturals, SequencesExt

CONSTANTS
    None,
    ClaimOrder,   \* all claims, by predicate and id
    ArtifactOrder,  \* all artifacts, in the order of a query
    KindOf,       \* artifact -> its kind
    Holder,       \* artifact -> the artifacts its object_id and parent_id name
    Matches,      \* a name a user types -> the files it is or is a suffix of,
                  \* the shortest path first
    MaxRows,      \* what a caller gets at most
    EdgeLimit     \* rows of a query for what leads to an artifact, 200

Artifacts == ToSet(ArtifactOrder)
Claims == ToSet(ClaimOrder)

ASSUME QueriesAssumption ==
    /\ ClaimOrder \in Seq(Claims) /\ IsInjective(ClaimOrder)
    /\ ArtifactOrder \in Seq(Artifacts) /\ IsInjective(ArtifactOrder)
    /\ Claims \cap Artifacts = {}
    /\ DOMAIN KindOf = Artifacts
    /\ Holder \in [Artifacts -> SUBSET Artifacts]
    /\ \A k \in Claims : k.evidence \subseteq Artifacts
    /\ {MaxRows, EdgeLimit} \subseteq Nat \ {0}

-----------------------------------------------------------------------------
(* Pages of claims *)

Clamp(limit) == Max({1, Min({limit, MaxRows})})

\* The members of a sequence at the given places, in their order.
Pick(s, places) ==
    [n \in 1..Cardinality(places) |->
        s[CHOOSE i \in places : Cardinality({j \in places : j <= i}) = n]]

\* LIMIT and OFFSET
Slice(rows, offset, limit) == SubSeq(rows, offset + 1, Min({offset + limit, Len(rows)}))

\* What the filters of a query let through; one that is None is off.
Asked(g, q, k) ==
    /\ k \in DOMAIN g.claims
    /\ q.predicate \in {None, k.predicate}
    /\ q.subject \in {None, k.subject}
    /\ q.status \in {None, g.claims[k].status}

\* The surest claims first.
SelectedByConfidence(g, q) ==
    SortSeq(SelectSeq(ClaimOrder, LAMBDA k : Asked(g, q, k)),
            LAMBDA j, k : g.claims[j].confidence > g.claims[k].confidence)

\* The claims a query asks for, in their order.
Selected(g, q) == Pick(ClaimOrder, {i \in DOMAIN ClaimOrder : Asked(g, q, ClaimOrder[i])})

\* find_claims.  A floor for the confidence is applied to four pages of rows,
\* of which the first that pass make the page.
FindClaims(g, q) ==
    IF q.floor = None THEN Slice(Selected(g, q), q.offset, Clamp(q.limit))
    ELSE LET rows == Slice(Selected(g, q), q.offset, 4 * Clamp(q.limit))
         IN  Slice(Pick(rows, {i \in DOMAIN rows : g.claims[rows[i]].confidence >= q.floor}),
                   0, Clamp(q.limit))

AllClaims == [predicate |-> None, subject |-> None, status |-> None, floor |-> None,
              offset |-> 0, limit |-> MaxRows]

-----------------------------------------------------------------------------
(* Pages of artifacts *)

\* Of this kind, and observed in this file: object_id is None for a file.
InQuestion(g, q, a) ==
    /\ a \in g.artifacts
    /\ q.kind \in {None, KindOf[a]}
    /\ q.object = None \/ (KindOf[a] # "file" /\ q.object \in Holder[a])

\* find_artifacts; q.named are those whose name and address match.
FindArtifacts(g, q) ==
    Slice(Pick(ArtifactOrder, {i \in DOMAIN ArtifactOrder :
                                  /\ InQuestion(g, q, ArtifactOrder[i])
                                  /\ ArtifactOrder[i] \in q.named}),
          q.offset, Clamp(q.limit))

\* count_artifacts
CountArtifacts(g, q) == Cardinality({a \in Artifacts : InQuestion(g, q, a)})

\* claim_links
LinksOf(g, k) == {l \in g.links : k \in {l[1], l[2]}}

-----------------------------------------------------------------------------
(* Names *)

\* resolve_object: of the files that are there and have the name, the one with
\* the shortest path; nobody asks whether there is another.
ResolveObject(g, name) ==
    LET there == {i \in DOMAIN Matches[name] : Matches[name][i] \in g.artifacts}
    IN  IF there = {} THEN None ELSE Matches[name][Min(there)]

-----------------------------------------------------------------------------
(* The edges of the evidence graph *)

Nodes(g) == g.artifacts \cup DOMAIN g.claims

\* The three queries of _edges_of.  Of an artifact: what holds it, which its
\* row says, the claims that cite it, and what it holds; of a claim: what it
\* cites and its links from it and to it.
EdgeQueries(g, node) ==
    IF node \in Artifacts
    THEN <<{<<node, h>> : h \in {a \in Holder[node] : node \in g.artifacts}},
           {<<k, node>> : k \in {c \in DOMAIN g.claims : node \in c.evidence}},
           {<<a, node>> : a \in {b \in g.artifacts : node \in Holder[b]}}>>
    ELSE <<{<<node, a>> : a \in UNION {k.evidence : k \in DOMAIN g.claims \cap {node}}},
           {l \in g.links : l[1] = node},
           {l \in g.links : l[2] = node}>>

\* As many members of a set as that, or all.
AtMost(n, S) == kSubset(Min({n, Cardinality(S)}), S)

\* The rows the i-th query may return.  Those for what leads to an artifact
\* have a limit, and no order.
RowsOf(g, node, i) ==
    LET rows == EdgeQueries(g, node)[i]
    IN  IF node \in Artifacts /\ i # 1 THEN AtMost(EdgeLimit, rows) ELSE {rows}

Ends(edges) == UNION {{e[1], e[2]} : e \in edges}

\* One round more than was asked for.
RoundsInclusive(depth) == depth + 1

Rounds(depth) == Max({1, depth})

-----------------------------------------------------------------------------
(* A definition to check the walk against *)

EdgesOf(g, node) == UNION {EdgeQueries(g, node)[i] : i \in 1..3}

Adjacent(g, m, n) == {<<m, n>>, <<n, m>>} \cap (EdgesOf(g, m) \cup EdgesOf(g, n)) # {}

\* The nodes at most so many edges away, for each number up to the depth.
Within(g, root, depth) ==
    LET within[n \in 0..depth] ==
            IF n = 0 THEN {root}
            ELSE within[n - 1] \cup {m \in Nodes(g) : \E k \in within[n - 1] : Adjacent(g, m, k)}
    IN  within

\* Whether a query for the edges of a node leaves some out.
Crowded(g, node) == \E i \in 2..3 : Cardinality(EdgeQueries(g, node)[i]) > EdgeLimit
=============================================================================
