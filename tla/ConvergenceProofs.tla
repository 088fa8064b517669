-------------------------- MODULE ConvergenceProofs --------------------------
(***************************************************************************)
(* Theorems about Convergence, for any jobs, scripts and number of runs,   *)
(* and then about the scripts that Adapters gives it.                      *)
(***************************************************************************)
EXTENDS Adapters, SequenceTheorems, FiniteSetTheorems, WellFoundedInduction, TLAPS

-----------------------------------------------------------------------------
(* Identity *)

\* Every kind has one group of identity fields or two.
LEMMA GroupsFew ==
    \A k \in Kinds : /\ DOMAIN IdentityGroups[k] \in {1..1, 1..2}
  BY SMTT(60) DEF Kinds, IdentityGroups

\* Of two groups of a kind the earlier has exactly one field of its own.
LEMMA GroupsAreNested == GroupsNest
  BY SMTT(60) DEF GroupsNest, Kinds, IdentityGroups
\* The first of a set of positions.
First(S) == CHOOSE i \in S : \A j \in S : i <= j

LEMMA FirstExists ==
    ASSUME NEW S, S # {}, S \subseteq 1..2
    PROVE  First(S) \in S /\ \A j \in S : First(S) <= j
  <1>1. \E i \in S : \A j \in S : i <= j
    <2>1. CASE 1 \in S
      <3>1. \A j \in S : 1 <= j
        OBVIOUS
      <3>2. QED
        BY <2>1, <3>1
    <2>2. CASE 1 \notin S
      <3>1. \A j \in S : j = 2
        BY <2>2
      <3>2. PICK x \in S : TRUE
        OBVIOUS
      <3>3. x = 2
        BY <3>1
      <3>4. \A j \in S : x <= j
        BY <3>1, <3>3
      <3>5. QED
        BY <3>4
    <2>3. QED
      BY <2>1, <2>2
  <1>2. QED
    BY <1>1 DEF First

LEMMA SatisfiedFirst ==
    ASSUME NEW kind \in Kinds, NEW data, Satisfied(kind, data) # {}
    PROVE  LET i == First(Satisfied(kind, data)) IN
           /\ i \in DOMAIN IdentityGroups[kind]
           /\ i \in 1..2
           /\ IdentityGroups[kind][i] \subseteq DOMAIN data
           /\ \A j \in Satisfied(kind, data) : i <= j
           /\ IdentityOf(kind, data) = [f \in IdentityGroups[kind][i] |-> data[f]]
  <1>1. Satisfied(kind, data) \subseteq 1..2
    BY GroupsFew DEF Satisfied
  <1>2. /\ First(Satisfied(kind, data)) \in Satisfied(kind, data)
        /\ \A j \in Satisfied(kind, data) : First(Satisfied(kind, data)) <= j
    BY <1>1, FirstExists
  <1>3. IdentityOf(kind, data) =
          [f \in IdentityGroups[kind][First(Satisfied(kind, data))] |-> data[f]]
    BY DEF IdentityOf, First
  <1>4. QED
    BY <1>1, <1>2, <1>3 DEF Satisfied

\* Filling the fields of one observation in from another of the same identity
\* leaves the identity what it was, although the two together may have fields
\* of a group that neither has: an earlier group is missing by one field, the
\* same one in both.
THEOREM FillingKeepsIdentity ==
    ASSUME NEW kind \in Kinds, NEW old, NEW new,
           Satisfied(kind, old) # {}, Satisfied(kind, new) # {},
           IdentityOf(kind, old) = IdentityOf(kind, new)
    PROVE  /\ Satisfied(kind, Filled(old, new)) # {}
           /\ IdentityOf(kind, Filled(old, new)) = IdentityOf(kind, old)
  <1> DEFINE G == IdentityGroups[kind]
             a == First(Satisfied(kind, old))
             b == First(Satisfied(kind, new))
             m == Filled(old, new)
             c == First(Satisfied(kind, m))
  <1>1. /\ a \in DOMAIN G /\ a \in 1..2 /\ G[a] \subseteq DOMAIN old
        /\ \A j \in Satisfied(kind, old) : a <= j
        /\ IdentityOf(kind, old) = [f \in G[a] |-> old[f]]
    BY SatisfiedFirst
  <1>2. /\ b \in DOMAIN G /\ b \in 1..2 /\ G[b] \subseteq DOMAIN new
        /\ \A j \in Satisfied(kind, new) : b <= j
        /\ IdentityOf(kind, new) = [f \in G[b] |-> new[f]]
    BY SatisfiedFirst
  <1>3. DOMAIN m = DOMAIN old \cup DOMAIN new
    BY DEF Filled
  <1>4. G[a] = G[b]
    BY <1>1, <1>2
  <1>5. \A j \in DOMAIN G : \A i \in 1..(j - 1) : \E f \in G[i] : G[i] \ G[j] = {f}
    BY GroupsAreNested DEF GroupsNest
  <1>6. a = b
    <2>1. ~(a < b)
      <3>1. a < b => a \in 1..(b - 1)
        BY <1>1, <1>2
      <3>2. QED
        BY <3>1, <1>2, <1>4, <1>5
    <2>2. ~(b < a)
      <3>1. b < a => b \in 1..(a - 1)
        BY <1>1, <1>2
      <3>2. QED
        BY <3>1, <1>1, <1>4, <1>5
    <2>3. QED
      BY <1>1, <1>2, <2>1, <2>2
  <1>7. a \in Satisfied(kind, m)
    BY <1>1, <1>3 DEF Satisfied
  <1>8. /\ c \in DOMAIN G /\ c \in 1..2 /\ G[c] \subseteq DOMAIN m
        /\ c <= a
        /\ IdentityOf(kind, m) = [f \in G[c] |-> m[f]]
    BY <1>7, SatisfiedFirst
  <1>9. c = a
    <2> SUFFICES ASSUME c < a PROVE FALSE
      BY <1>1, <1>8
    <2>1. PICK f \in G[c] : G[c] \ G[a] = {f}
      <3>1. c \in 1..(a - 1)
        BY <1>1, <1>8
      <3>2. QED
        BY <3>1, <1>1, <1>5
    <2>2. c \notin Satisfied(kind, old) /\ c \notin Satisfied(kind, new)
      BY <1>1, <1>2, <1>6, <1>8
    <2>3. f \notin DOMAIN old
      BY <2>1, <2>2, <1>1, <1>8 DEF Satisfied
    <2>4. f \notin DOMAIN new
      BY <2>1, <2>2, <1>2, <1>4, <1>8 DEF Satisfied
    <2>5. QED
      BY <2>1, <2>3, <2>4, <1>3, <1>8
  <1>10. \A f \in G[a] : m[f] = old[f]
    BY <1>1 DEF Filled
  <1>11. QED
    BY <1>1, <1>7, <1>8, <1>9, <1>10

-----------------------------------------------------------------------------
(* The invariant.  Beside what EvidenceTypeOK says it needs that the data  *)
(* of a row still satisfy a group of its kind, or the identity of the row  *)
(* would be a CHOOSE from nothing, and the fields a graph has.             *)

Shaped(g) == DOMAIN g = {"rows", "claims", "attested", "links"}

Identified(g) ==
    \A id \in DOMAIN g.rows :
        id.kind \in Kinds /\ Satisfied(id.kind, g.rows[id].data) # {}

Backed(g) == \A k \in g.claims : EvidenceFits(k.predicate, k.evidence)

Sound(g) == Shaped(g) /\ WellFormed(g) /\ Identified(g) /\ Backed(g)

IInv ==
    /\ Sound(db) /\ Sound(view)
    /\ begun \in 0..MaxRuns
    /\ run \in {None, begun}
    /\ run = None => todo = << >> /\ view = db

LEMMA EmptySound == Sound(EmptyEvidence)
  BY DEF Sound, Shaped, WellFormed, Identified, Backed, EmptyEvidence

\* An observation adds a row that has its identity, or fills in the one that
\* has it already.
LEMMA PutArtifactSound ==
    ASSUME NEW g, Sound(g), NEW s, Valid(s)
    PROVE  Sound(PutArtifact(g, s))
  <1> DEFINE id == ArtifactId(s.kind, s.object, s.data)
             row == IF id \in DOMAIN g.rows THEN FilledRow(g.rows[id], s.data)
                    ELSE NewRow(s.data)
             h == PutArtifact(g, s)
  <1>1. id.kind = s.kind /\ id.object = s.object /\ id.identity = IdentityOf(s.kind, s.data)
    BY DEF ArtifactId
  <1>2. /\ DOMAIN row = {"data", "addr_start", "addr_end"}
        /\ Satisfied(s.kind, row.data) # {}
        /\ id = ArtifactId(s.kind, s.object, row.data)
    <2>1. CASE id \notin DOMAIN g.rows
      BY <2>1 DEF NewRow, Valid
    <2>2. CASE id \in DOMAIN g.rows
      <3> DEFINE old == g.rows[id].data
      <3>1. /\ DOMAIN g.rows[id] = {"data", "addr_start", "addr_end"}
            /\ id = ArtifactId(s.kind, s.object, old)
            /\ Satisfied(s.kind, old) # {}
        BY <2>2, <1>1 DEF Sound, WellFormed, Identified
      <3>2. IdentityOf(s.kind, old) = IdentityOf(s.kind, s.data)
        BY <3>1 DEF ArtifactId
      <3>3. /\ Satisfied(s.kind, Filled(old, s.data)) # {}
            /\ IdentityOf(s.kind, Filled(old, s.data)) = IdentityOf(s.kind, old)
        BY <3>1, <3>2, FillingKeepsIdentity DEF Valid
      <3>4. row = FilledRow(g.rows[id], s.data)
        BY <2>2
      <3>5. /\ DOMAIN row = {"data", "addr_start", "addr_end"}
            /\ row.data = Filled(old, s.data)
        BY <3>1, <3>4 DEF FilledRow
      <3>6. QED
        BY <3>1, <3>3, <3>5 DEF ArtifactId
    <2>3. QED
      BY <2>1, <2>2
  <1>3. h = [g EXCEPT !.rows = [i \in DOMAIN g.rows \cup {id} |->
                                    IF i = id THEN row ELSE g.rows[i]]]
    BY DEF PutArtifact
  <1> HIDE DEF row, id
  <1>4. /\ h.rows = [i \in DOMAIN g.rows \cup {id} |-> IF i = id THEN row ELSE g.rows[i]]
        /\ Shaped(h)
        /\ h.claims = g.claims /\ h.attested = g.attested /\ h.links = g.links
    BY <1>3 DEF Sound, Shaped
  <1> HIDE DEF h
  <1>5. \A i \in DOMAIN h.rows :
            /\ DOMAIN h.rows[i] = {"data", "addr_start", "addr_end"}
            /\ i = ArtifactId(i.kind, i.object, h.rows[i].data)
            /\ i.kind \in Kinds
            /\ Satisfied(i.kind, h.rows[i].data) # {}
    <2> SUFFICES ASSUME NEW i \in DOMAIN h.rows
                 PROVE  /\ DOMAIN h.rows[i] = {"data", "addr_start", "addr_end"}
                        /\ i = ArtifactId(i.kind, i.object, h.rows[i].data)
                        /\ i.kind \in Kinds
                        /\ Satisfied(i.kind, h.rows[i].data) # {}
      OBVIOUS
    <2>1. CASE i = id
      BY <2>1, <1>1, <1>2, <1>4 DEF Valid
    <2>2. CASE i # id
      <3>1. i \in DOMAIN g.rows /\ h.rows[i] = g.rows[i]
        BY <2>2, <1>4
      <3>2. QED
        BY <3>1 DEF Sound, WellFormed, Identified
    <2>3. QED
      BY <2>1, <2>2
  <1>6. Sound(h)
    BY <1>4, <1>5 DEF Sound, WellFormed, Identified, Backed
  <1>7. QED
    BY <1>6 DEF h

\* A claim that is let in has the evidence its predicate requires, and its
\* attestation replaces at most another one of the same claim.
LEMMA PutClaimSound ==
    ASSUME NEW g, Sound(g), NEW s, NEW r,
           Citable(g, s.claim), s.confidence \in 0..100
    PROVE  Sound(PutClaim(g, s, r))
  <1> DEFINE a == [claim |-> s.claim, producer |-> s.producer, run |-> r,
                   method |-> s.method, confidence |-> s.confidence]
             h == PutClaim(g, s, r)
  <1>1. /\ h.rows = g.rows /\ h.links = g.links
        /\ h.claims = g.claims \cup {s.claim}
        /\ h.attested \subseteq g.attested \cup {a}
        /\ Shaped(h)
    BY DEF PutClaim, Attest, Sound, Shaped
  <1>2. EvidenceFits(s.claim.predicate, s.claim.evidence)
    BY DEF Citable
  <1>3. a.claim = s.claim /\ a.confidence \in 0..100
    OBVIOUS
  <1> HIDE DEF h, a
  <1>4. WellFormed(h)
    BY <1>1, <1>3 DEF Sound, WellFormed
  <1>5. Identified(h)
    BY <1>1 DEF Sound, Identified
  <1>6. Backed(h)
    BY <1>1, <1>2 DEF Sound, Backed
  <1>7. Sound(h)
    BY <1>1, <1>4, <1>5, <1>6 DEF Sound
  <1>8. QED
    BY <1>7 DEF h

LEMMA RefineSound ==
    ASSUME NEW g, Sound(g), NEW claim \in g.claims
    PROVE  Sound(Refine(g, claim))
  <1> DEFINE coarse == {c \in g.claims \ {claim} :
                          /\ c.predicate = claim.predicate /\ c.subject = claim.subject
                          /\ c.statement.api = claim.statement.api
                          /\ "call_site_count" \notin DOMAIN c.statement}
             h == Refine(g, claim)
  <1>1. /\ h.rows = g.rows /\ h.claims = g.claims /\ h.attested = g.attested
        /\ h.links = g.links \cup {[src |-> claim, dst |-> k] : k \in coarse}
        /\ Shaped(h)
    BY DEF Refine, Sound, Shaped
  <1>2. coarse \subseteq g.claims
    OBVIOUS
  <1> HIDE DEF h, coarse
  <1>3. \A l \in h.links : {l.src, l.dst} \subseteq h.claims
    BY <1>1, <1>2 DEF Sound, WellFormed
  <1>4. Sound(h)
    BY <1>1, <1>3 DEF Sound, WellFormed, Identified, Backed
  <1>5. QED
    BY <1>4 DEF h

\* The inductive invariant of Convergence.
THEOREM Invariance == Spec => []IInv
  <1>1. Init => IInv
    BY EmptySound, ConvergenceAssumption DEF Init, IInv
  <1>2. IInv /\ [Next]_vars => IInv'
    <2> SUFFICES ASSUME IInv, [Next]_vars
                 PROVE  IInv'
      OBVIOUS
    <2>1. ASSUME NEW job \in Jobs, Begin(job) PROVE IInv'
      BY <2>1, ConvergenceAssumption DEF Begin, IInv, Sound, Shaped, WellFormed, Identified, Backed
    <2>2. CASE AddArtifact
      <3>1. Sound(view') /\ run # None
        BY <2>2, PutArtifactSound DEF AddArtifact, NextIs, IInv
      <3>2. QED
        BY <2>2, <3>1 DEF AddArtifact, Advance, IInv, Sound, Shaped, WellFormed, Identified, Backed
    <2>3. CASE AddClaim
      <3>1. Sound(view') /\ run # None
        BY <2>3, PutClaimSound DEF AddClaim, NextIs, IInv
      <3>2. QED
        BY <2>3, <3>1 DEF AddClaim, Advance, IInv, Sound, Shaped, WellFormed, Identified, Backed
    <2>4. CASE LinkClaims
      <3>1. Sound(view') /\ run # None
        BY <2>4, RefineSound DEF LinkClaims, NextIs, IInv
      <3>2. QED
        BY <2>4, <3>1 DEF LinkClaims, Advance, IInv, Sound, Shaped, WellFormed, Identified, Backed
    <2>5. CASE Commit
      BY <2>5 DEF Commit, IInv
    <2>6. CASE Fail
      BY <2>6 DEF Fail, Close, IInv
    <2>7. CASE UNCHANGED vars
      BY <2>7 DEF vars, IInv
    <2>8. QED
      BY <2>1, <2>2, <2>3, <2>4, <2>5, <2>6, <2>7 DEF Next
  <1>3. QED
    BY <1>1, <1>2, PTL DEF Spec

\* Type correctness: ids go on being the identities of their rows whatever
\* engines fill in, and no attestation or link is of a claim that is not there.
THEOREM EvidenceTypeCorrect == Spec => []EvidenceTypeOK
  <1>1. IInv => EvidenceTypeOK
    BY DEF IInv, Sound, EvidenceTypeOK
  <1>2. QED
    BY <1>1, Invariance, PTL

\* No claim is in the graph with evidence that its predicate does not admit.
THEOREM ClaimsAreBacked == Spec => []NothingUnbacked
  <1>1. IInv => NothingUnbacked
    BY DEF IInv, Sound, Backed, NothingUnbacked
  <1>2. QED
    BY <1>1, Invariance, PTL

-----------------------------------------------------------------------------
(* What is recorded stays as it was recorded.                              *)

\* Graph h has the rows of g, with the fields these have, and its claims and
\* links.
Grows(g, h) ==
    /\ DOMAIN g.rows \subseteq DOMAIN h.rows
    /\ \A id \in DOMAIN g.rows : \A f \in DOMAIN g.rows[id].data :
        f \in DOMAIN h.rows[id].data /\ h.rows[id].data[f] = g.rows[id].data[f]
    /\ g.claims \subseteq h.claims
    /\ g.links \subseteq h.links

LEMMA GrowsTransitive ==
    ASSUME NEW g, NEW h, NEW i, Grows(g, h), Grows(h, i)
    PROVE  Grows(g, i)
  BY DEF Grows

LEMMA PutArtifactGrows ==
    ASSUME NEW g, Sound(g), NEW s
    PROVE  Grows(g, PutArtifact(g, s))
  <1> DEFINE id == ArtifactId(s.kind, s.object, s.data)
             row == IF id \in DOMAIN g.rows THEN FilledRow(g.rows[id], s.data)
                    ELSE NewRow(s.data)
             h == PutArtifact(g, s)
  <1>1. id \in DOMAIN g.rows => row.data = Filled(g.rows[id].data, s.data)
    <2> SUFFICES ASSUME id \in DOMAIN g.rows
                 PROVE  row.data = Filled(g.rows[id].data, s.data)
      OBVIOUS
    <2>1. DOMAIN g.rows[id] = {"data", "addr_start", "addr_end"}
      BY DEF Sound, WellFormed
    <2>2. QED
      BY <2>1 DEF FilledRow
  <1>2. h = [g EXCEPT !.rows = [i \in DOMAIN g.rows \cup {id} |->
                                    IF i = id THEN row ELSE g.rows[i]]]
    BY DEF PutArtifact
  <1> HIDE DEF row, id
  <1>3. /\ h.rows = [i \in DOMAIN g.rows \cup {id} |-> IF i = id THEN row ELSE g.rows[i]]
        /\ h.claims = g.claims /\ h.links = g.links
    BY <1>2 DEF Sound, Shaped
  <1> HIDE DEF h
  <1>4. ASSUME NEW i \in DOMAIN g.rows, NEW f \in DOMAIN g.rows[i].data
        PROVE  f \in DOMAIN h.rows[i].data /\ h.rows[i].data[f] = g.rows[i].data[f]
    <2>1. CASE i = id
      BY <1>1, <1>3, <2>1 DEF Filled
    <2>2. CASE i # id
      BY <1>3, <2>2
    <2>3. QED
      BY <2>1, <2>2
  <1>5. Grows(g, h)
    BY <1>3, <1>4 DEF Grows
  <1>6. QED
    BY <1>5 DEF h

\* Whatever engines observe and in whatever order, a run that commits leaves
\* every committed field, claim and link as it found it.
THEOREM NothingOverwritten == Spec => [][Grows(db, db')]_db
  <1> DEFINE GInv == Grows(db, view)
  <1>1. Init => GInv
    BY DEF Init, Grows
  <1>2. IInv /\ GInv /\ [Next]_vars => GInv'
    <2> SUFFICES ASSUME IInv, GInv, [Next]_vars
                 PROVE  GInv'
      OBVIOUS
    <2>1. ASSUME NEW job \in Jobs, Begin(job) PROVE GInv'
      BY <2>1 DEF Begin, Grows
    <2>2. CASE AddArtifact
      <3>1. view' = PutArtifact(view, Head(todo)) /\ db' = db
        BY <2>2 DEF AddArtifact, Advance
      <3>2. Grows(view, view')
        BY <3>1, PutArtifactGrows DEF IInv
      <3>3. Grows(db, view')
        BY <3>2, GrowsTransitive
      <3>4. QED
        BY <3>1, <3>3
    <2>3. CASE AddClaim
      <3>1. view' = PutClaim(view, Head(todo), run) /\ db' = db /\ Sound(view)
        BY <2>3 DEF AddClaim, Advance, IInv
      <3>2. /\ view'.rows = view.rows /\ view'.links = view.links
            /\ view'.claims = view.claims \cup {Head(todo).claim}
        BY <3>1 DEF PutClaim, Attest, Sound, Shaped
      <3>3. QED
        BY <3>1, <3>2 DEF Grows
    <2>4. CASE LinkClaims
      <3>1. view' = Refine(view, Head(todo).claim) /\ db' = db /\ Sound(view)
        BY <2>4 DEF LinkClaims, Advance, IInv
      <3>2. /\ view'.rows = view.rows /\ view'.claims = view.claims
            /\ view.links \subseteq view'.links
        BY <3>1 DEF Refine, Sound, Shaped
      <3>3. QED
        BY <3>1, <3>2 DEF Grows
    <2>5. CASE Commit
      BY <2>5 DEF Commit, Grows
    <2>6. CASE Fail
      BY <2>6 DEF Fail, Close, Grows
    <2>7. CASE UNCHANGED vars
      BY <2>7 DEF vars, Grows
    <2>8. QED
      BY <2>1, <2>2, <2>3, <2>4, <2>5, <2>6, <2>7 DEF Next
  <1>3. GInv /\ [Next]_vars => [Grows(db, db')]_db
    <2> SUFFICES ASSUME GInv, [Next]_vars, db' # db
                 PROVE  Grows(db, db')
      OBVIOUS
    <2>1. db' = view
      BY DEF Next, vars, Begin, AddArtifact, AddClaim, LinkClaims, Advance,
             Commit, Fail, Close
    <2>2. QED
      BY <2>1
  <1>4. QED
    BY <1>1, <1>2, <1>3, Invariance, PTL DEF Spec

-----------------------------------------------------------------------------
(* The first observation wins *)

IsHistory(seen) == seen \in Seq(Range(seen))

IdOf(s) == ArtifactId(s.kind, s.object, s.data)

\* Observation i is the first of those of row id that has field f.
IsFirst(seen, i, id, f) ==
    /\ i \in DOMAIN seen /\ IdOf(seen[i]) = id /\ f \in DOMAIN seen[i].data
    /\ \A j \in DOMAIN seen : IdOf(seen[j]) = id /\ f \in DOMAIN seen[j].data => i <= j

\* The rows of a graph, by the observations they were made of.
TellsRows(g, seen) ==
    \A id : id \in DOMAIN g.rows <=> \E i \in DOMAIN seen : IdOf(seen[i]) = id

TellsFields(g, seen) ==
    \A id \in DOMAIN g.rows :
        /\ \A i \in DOMAIN seen :
            IdOf(seen[i]) = id => DOMAIN seen[i].data \subseteq DOMAIN g.rows[id].data
        /\ \A f \in DOMAIN g.rows[id].data :
            \E i \in DOMAIN seen : IsFirst(seen, i, id, f) /\ g.rows[id].data[f] = seen[i].data[f]

Tells(g, seen) == IsHistory(seen) /\ TellsRows(g, seen) /\ TellsFields(g, seen)

LEMMA OneMore ==
    ASSUME NEW seen, IsHistory(seen), NEW s
    PROVE  LET more == Append(seen, s) IN
           /\ IsHistory(more)
           /\ Len(seen) \in Nat /\ DOMAIN seen = 1 .. Len(seen)
           /\ DOMAIN more = 1 .. Len(seen) + 1
           /\ \A i \in DOMAIN seen : more[i] = seen[i]
           /\ more[Len(seen) + 1] = s
<1>. DEFINE S == Range(seen) \cup {s}  more == Append(seen, s)
<1>1. Len(seen) \in Nat /\ DOMAIN seen = 1 .. Len(seen) /\ seen \in [1 .. Len(seen) -> Range(seen)]
  BY LenProperties DEF IsHistory
<1>2. seen \in Seq(S) /\ s \in S
  BY <1>1
<1>3. /\ more \in Seq(S)
      /\ Len(more) = Len(seen) + 1
      /\ \A i \in 1 .. Len(seen) : more[i] = seen[i]
      /\ more[Len(seen) + 1] = s
  BY <1>2, AppendProperties
<1>4. more \in [1 .. Len(more) -> S] /\ DOMAIN more = 1 .. Len(more)
  BY <1>3, LenProperties
<1>5. more \in Seq(Range(more))
  <2>. HIDE DEF more
  <2>1. more \in [1 .. Len(more) -> Range(more)] /\ Len(more) \in Nat
    BY <1>1, <1>3, <1>4 DEF Range
  <2>. QED BY <2>1
<1>. QED BY <1>1, <1>3, <1>4, <1>5 DEF IsHistory

\* The rows that an observation leaves.
LEMMA RowsAfter ==
    ASSUME NEW g, Sound(g), NEW s
    PROVE  LET h == PutArtifact(g, s)  id == IdOf(s) IN
           /\ DOMAIN h.rows = DOMAIN g.rows \cup {id}
           /\ \A i \in DOMAIN g.rows : i # id => h.rows[i] = g.rows[i]
           /\ id \notin DOMAIN g.rows => h.rows[id].data = s.data
           /\ id \in DOMAIN g.rows => h.rows[id].data = Filled(g.rows[id].data, s.data)
<1> DEFINE id == IdOf(s)
           row == IF id \in DOMAIN g.rows THEN FilledRow(g.rows[id], s.data)
                  ELSE NewRow(s.data)
           h == PutArtifact(g, s)
<1>1. id \in DOMAIN g.rows => row.data = Filled(g.rows[id].data, s.data)
  <2> SUFFICES ASSUME id \in DOMAIN g.rows
               PROVE  row.data = Filled(g.rows[id].data, s.data)
    OBVIOUS
  <2>1. DOMAIN g.rows[id] = {"data", "addr_start", "addr_end"}
    BY DEF Sound, WellFormed
  <2>. QED BY <2>1 DEF FilledRow
<1>2. id \notin DOMAIN g.rows => row.data = s.data
  BY DEF NewRow
<1>3. h = [g EXCEPT !.rows = [i \in DOMAIN g.rows \cup {id} |->
                                  IF i = id THEN row ELSE g.rows[i]]]
  BY DEF PutArtifact, IdOf
<1> HIDE DEF row, id
<1>4. h.rows = [i \in DOMAIN g.rows \cup {id} |-> IF i = id THEN row ELSE g.rows[i]]
  BY <1>3 DEF Sound, Shaped
<1> HIDE DEF h
<1>5. /\ DOMAIN h.rows = DOMAIN g.rows \cup {id}
      /\ \A i \in DOMAIN g.rows : i # id => h.rows[i] = g.rows[i]
      /\ id \notin DOMAIN g.rows => h.rows[id].data = s.data
      /\ id \in DOMAIN g.rows => h.rows[id].data = Filled(g.rows[id].data, s.data)
  BY <1>1, <1>2, <1>4
<1>. QED BY <1>5 DEF h, id

\* A new observation adds the fields that nobody observed before, and is the
\* first to have them.
LEMMA PutArtifactTells ==
    ASSUME NEW g, Sound(g), NEW seen, Tells(g, seen), NEW s
    PROVE  Tells(PutArtifact(g, s), Append(seen, s))
<1> DEFINE h == PutArtifact(g, s)  id == IdOf(s)  more == Append(seen, s)  n == Len(seen) + 1
<1>1. /\ IsHistory(more) /\ n \in Nat /\ DOMAIN seen = 1 .. n - 1 /\ DOMAIN more = 1 .. n
      /\ \A i \in DOMAIN seen : more[i] = seen[i]
      /\ more[n] = s
  BY OneMore DEF Tells
<1>2. /\ DOMAIN h.rows = DOMAIN g.rows \cup {id}
      /\ \A i \in DOMAIN g.rows : i # id => h.rows[i] = g.rows[i]
      /\ id \notin DOMAIN g.rows => h.rows[id].data = s.data
      /\ id \in DOMAIN g.rows => h.rows[id].data = Filled(g.rows[id].data, s.data)
  BY RowsAfter
<1>3. TellsRows(g, seen) /\ TellsFields(g, seen)
  BY DEF Tells
<1> HIDE DEF h, id, more, n
<1>4. IdOf(s) = id
  BY DEF id
<1>5. /\ n \in DOMAIN more /\ IdOf(more[n]) = id /\ more[n].data = s.data
      /\ \A i \in DOMAIN seen : i \in DOMAIN more /\ IdOf(more[i]) = IdOf(seen[i])
      /\ \A i \in DOMAIN more : i = n \/ i \in DOMAIN seen
      /\ \A i \in DOMAIN more : i <= n
      /\ n <= n
  <2>1. /\ n \in 1 .. n /\ n <= n
        /\ \A i \in 1 .. n - 1 : i \in 1 .. n
        /\ \A i \in 1 .. n : i = n \/ i \in 1 .. n - 1
        /\ \A i \in 1 .. n : i <= n
    <3>1. n >= 1
      BY <1>1 DEF n
    <3>. QED BY <1>1, <3>1
  <2>. QED BY <1>1, <1>4, <2>1
<1>6. TellsRows(h, more)
  <2>. SUFFICES ASSUME NEW k
                PROVE  k \in DOMAIN h.rows <=> \E i \in DOMAIN more : IdOf(more[i]) = k
    BY DEF TellsRows
  <2>1. k \in DOMAIN g.rows <=> \E i \in DOMAIN seen : IdOf(seen[i]) = k
    BY <1>3 DEF TellsRows
  <2>2. (\E i \in DOMAIN more : IdOf(more[i]) = k)
           <=> k = id \/ \E i \in DOMAIN seen : IdOf(seen[i]) = k
    BY <1>5
  <2>. QED BY <1>2, <2>1, <2>2
<1>7. ASSUME NEW i \in DOMAIN seen, NEW k, NEW f, IsFirst(seen, i, k, f)
      PROVE  IsFirst(more, i, k, f) /\ more[i] = seen[i]
  BY <1>1, <1>7 DEF IsFirst
<1>8. ASSUME NEW k \in DOMAIN h.rows
      PROVE  /\ \A i \in DOMAIN more :
                IdOf(more[i]) = k => DOMAIN more[i].data \subseteq DOMAIN h.rows[k].data
             /\ \A f \in DOMAIN h.rows[k].data :
                \E i \in DOMAIN more : IsFirst(more, i, k, f) /\ h.rows[k].data[f] = more[i].data[f]
  <2>1. CASE k # id
    <3>1. k \in DOMAIN g.rows /\ h.rows[k] = g.rows[k]
      BY <1>2, <2>1
    <3>2. \A i \in DOMAIN more : IdOf(more[i]) = k => i \in DOMAIN seen
      BY <1>1, <1>4, <2>1
    <3>3. ASSUME NEW f \in DOMAIN h.rows[k].data
          PROVE  \E i \in DOMAIN more :
                    IsFirst(more, i, k, f) /\ h.rows[k].data[f] = more[i].data[f]
      <4>1. PICK i \in DOMAIN seen : IsFirst(seen, i, k, f) /\ g.rows[k].data[f] = seen[i].data[f]
        BY <1>3, <3>1 DEF TellsFields
      <4>. QED BY <1>1, <1>7, <3>1, <4>1
    <3>. QED BY <1>1, <1>3, <3>1, <3>2, <3>3 DEF TellsFields
  <2>2. CASE k = id /\ id \notin DOMAIN g.rows
    <3>1. h.rows[k].data = s.data
      BY <1>2, <2>2
    <3>2. \A i \in DOMAIN more : IdOf(more[i]) = k => i = n
      BY <1>1, <1>3, <2>2 DEF TellsRows
    <3>3. ASSUME NEW f \in DOMAIN s.data
          PROVE  IsFirst(more, n, k, f)
      BY <1>5, <2>2, <3>2 DEF IsFirst
    <3>. QED BY <1>5, <3>1, <3>2, <3>3
  <2>3. CASE k = id /\ id \in DOMAIN g.rows
    <3> DEFINE old == g.rows[id].data
    <3>1. h.rows[k].data = Filled(old, s.data)
      BY <1>2, <2>3
    <3>2. /\ DOMAIN h.rows[k].data = DOMAIN old \cup DOMAIN s.data
          /\ \A f \in DOMAIN old : h.rows[k].data[f] = old[f]
          /\ \A f \in DOMAIN s.data \ DOMAIN old : h.rows[k].data[f] = s.data[f]
      BY <3>1 DEF Filled
    <3>3. \A i \in DOMAIN seen : IdOf(seen[i]) = id => DOMAIN seen[i].data \subseteq DOMAIN old
      BY <1>3, <2>3 DEF TellsFields
    <3>4. ASSUME NEW f \in DOMAIN old
          PROVE  \E i \in DOMAIN more :
                    IsFirst(more, i, k, f) /\ h.rows[k].data[f] = more[i].data[f]
      <4>1. PICK i \in DOMAIN seen : IsFirst(seen, i, id, f) /\ old[f] = seen[i].data[f]
        BY <1>3, <2>3 DEF TellsFields
      <4>. QED BY <1>1, <1>7, <2>3, <3>2, <4>1
    <3>5. ASSUME NEW f \in DOMAIN s.data \ DOMAIN old
          PROVE  IsFirst(more, n, k, f) /\ h.rows[k].data[f] = more[n].data[f]
      <4>1. IdOf(more[n]) = k /\ f \in DOMAIN more[n].data
        BY <1>5, <2>3
      <4>2. ASSUME NEW j \in DOMAIN more, IdOf(more[j]) = k, f \in DOMAIN more[j].data
            PROVE  n <= j
        <5>1. CASE j = n
          BY <5>1, <1>5
        <5>2. CASE j \in DOMAIN seen
          BY <1>5, <1>1, <2>3, <3>3, <4>2, <5>2
        <5>. QED BY <1>5, <5>1, <5>2
      <4>3. IsFirst(more, n, k, f)
        BY <1>5, <4>1, <4>2 DEF IsFirst
      <4>. QED BY <1>5, <3>2, <4>3
    <3> HIDE DEF old
    <3>6. \A i \in DOMAIN more : IdOf(more[i]) = k => DOMAIN more[i].data \subseteq DOMAIN h.rows[k].data
      BY <1>5, <1>1, <2>3, <3>2, <3>3
    <3>. QED BY <1>5, <3>2, <3>4, <3>5, <3>6
  <2>. QED BY <2>1, <2>2, <2>3
<1>9. TellsFields(h, more)
  BY <1>8 DEF TellsFields
<1>10. Tells(h, more)
  BY <1>1, <1>6, <1>9 DEF Tells
<1>. QED BY <1>10 DEF h, more

\* Claims and links leave the rows alone.
LEMMA SameRowsTell ==
    ASSUME NEW g, NEW h, NEW seen, Tells(g, seen), h.rows = g.rows
    PROVE  Tells(h, seen)
BY DEF Tells, TellsRows, TellsFields

\* The committed rows tell of the runs that ended well, and the view of those
\* and the open run's observations so far.
TellingInv ==
    /\ Tells(db, told) /\ Tells(view, heard)
    /\ run = None => heard = told

LEMMA Telling == IInv /\ TellingInv /\ [Next]_vars => TellingInv'
<1>. SUFFICES ASSUME IInv, TellingInv, [Next]_vars PROVE TellingInv'
  OBVIOUS
<1>a. UNCHANGED <<db, told>> => Tells(db', told')
  BY DEF TellingInv
<1>b. UNCHANGED heard /\ view'.rows = view.rows => Tells(view', heard')
  BY SameRowsTell DEF TellingInv
<1>1. ASSUME NEW job \in Jobs, Begin(job) PROVE TellingInv'
  <2>1. UNCHANGED <<db, told, view, heard>> /\ run' # None
    BY <1>1, ConvergenceAssumption DEF Begin, IInv
  <2>. QED BY <2>1, <1>a, <1>b DEF TellingInv
<1>2. CASE AddArtifact
  <2>1. /\ view' = PutArtifact(view, Head(todo)) /\ heard' = Append(heard, Head(todo))
        /\ run # None /\ UNCHANGED <<db, told, run>>
    BY <1>2 DEF AddArtifact, Advance, NextIs
  <2>2. Tells(PutArtifact(view, Head(todo)), Append(heard, Head(todo)))
    BY PutArtifactTells DEF TellingInv, IInv
  <2>. QED BY <2>1, <2>2, <1>a DEF TellingInv
<1>3. CASE AddClaim \/ LinkClaims
  <2>1. UNCHANGED <<db, told, run, heard>>
    BY <1>3 DEF AddClaim, LinkClaims, Advance
  <2>2. view'.rows = view.rows
    BY <1>3 DEF AddClaim, LinkClaims, PutClaim, Attest, Refine, IInv, Sound, Shaped
  <2>. QED BY <2>1, <2>2, <1>a, <1>b DEF TellingInv
<1>4. CASE Commit
  BY <1>4 DEF Commit, TellingInv
<1>5. CASE Fail
  BY <1>5 DEF Fail, Close, TellingInv
<1>6. CASE UNCHANGED vars
  BY <1>6, <1>a, <1>b DEF vars, TellingInv
<1>. QED BY <1>1, <1>2, <1>3, <1>4, <1>5, <1>6 DEF Next

LEMMA TellingAlways == Spec => []TellingInv
<1>1. Init => TellingInv
  <2>1. IsHistory(<< >>) /\ DOMAIN << >> = {}
    BY EmptySeq DEF IsHistory
  <2>. QED BY <2>1 DEF Init, TellingInv, Tells, TellsRows, TellsFields, EmptyEvidence
<1>. QED BY <1>1, Telling, Invariance, PTL DEF Spec

\* Every committed field has the value of the first of the runs that ended
\* well to observe it, for any engines and however many runs fail between.
THEOREM FirstObserverIsBelieved == Spec => []FirstObservationWins
<1>1. TellingInv => FirstObservationWins
  <2>. SUFFICES ASSUME TellingInv PROVE FirstObservationWins
    OBVIOUS
  <2> DEFINE Id(i) == ArtifactId(told[i].kind, told[i].object, told[i].data)
             Mine(id) == {i \in DOMAIN told : Id(i) = id}
             Observing(id, f) == {i \in Mine(id) : f \in DOMAIN told[i].data}
  <2>1. TellsRows(db, told) /\ TellsFields(db, told) /\ IsHistory(told)
    BY DEF TellingInv, Tells
  <2>2. \A i \in DOMAIN told : IdOf(told[i]) = Id(i)
    BY DEF IdOf
  <2>3. DOMAIN db.rows = {Id(i) : i \in DOMAIN told}
    BY <2>1, <2>2 DEF TellsRows
  <2>4. ASSUME NEW id \in DOMAIN db.rows
        PROVE  DOMAIN db.rows[id].data = UNION {DOMAIN told[i].data : i \in Mine(id)}
    BY <2>1, <2>2 DEF TellsFields, IsFirst
  <2>5. ASSUME NEW id \in DOMAIN db.rows, NEW f \in DOMAIN db.rows[id].data
        PROVE  db.rows[id].data[f] = told[Min(Observing(id, f))].data[f]
    <3>1. PICK i \in DOMAIN told :
            IsFirst(told, i, id, f) /\ db.rows[id].data[f] = told[i].data[f]
      BY <2>1 DEF TellsFields
    <3>2. DOMAIN told \subseteq Nat
      BY <2>1, LenProperties DEF IsHistory
    <3>3. i \in Observing(id, f) /\ \A j \in Observing(id, f) : i <= j
      BY <2>2, <3>1 DEF IsFirst
    <3>4. Min(Observing(id, f)) = i
      <4>1. \A j \in Observing(id, f) : (\A k \in Observing(id, f) : j <= k) => j = i
        BY <3>2, <3>3
      <4>. HIDE DEF Observing
      <4>. QED BY <3>3, <4>1 DEF Min
    <3>. QED BY <3>1, <3>4
  <2>. QED BY <2>3, <2>4, <2>5 DEF FirstObservationWins
<1>. QED BY <1>1, TellingAlways, PTL

-----------------------------------------------------------------------------
(* One thing, one row.  Rows hold more than any observation of them does:  *)
(* the fields of several engines.  Nothing new follows for their identity, *)
(* since a group has at most one field outside another, and the engine     *)
(* that observed this field observed the row's identity too.               *)

\* Of two groups of a kind none has more than one field of its own.
LEMMA OneFieldApart ==
    \A k \in Kinds : \A i, j \in DOMAIN IdentityGroups[k] :
        \E f : IdentityGroups[k][i] \ IdentityGroups[k][j] \subseteq {f}
  BY SMTT(60) DEF Kinds, IdentityGroups

\* Every observation was let in by Artifact.create.
Observed(seen) ==
    \A i \in DOMAIN seen :
        seen[i].kind \in Kinds /\ Satisfied(seen[i].kind, seen[i].data) # {}

\* The observations do not contradict each other about what is one thing:
\* two of them that have a group of their kind in common have the same id.
Agree(seen) ==
    \A i, j \in DOMAIN seen :
        /\ seen[i].kind = seen[j].kind /\ seen[i].object = seen[j].object
        /\ SameThing(seen[i].kind, seen[i].data, seen[j].data)
        => IdOf(seen[i]) = IdOf(seen[j])

\* A group that a row has complete was observed by one engine.
LEMMA ObservedTogether ==
    ASSUME NEW g, Sound(g), NEW seen, Tells(g, seen), Observed(seen),
           NEW id \in DOMAIN g.rows, NEW n \in DOMAIN IdentityGroups[id.kind],
           IdentityGroups[id.kind][n] \subseteq DOMAIN g.rows[id].data
    PROVE  \E i \in DOMAIN seen :
              /\ IdOf(seen[i]) = id
              /\ seen[i].kind = id.kind /\ seen[i].object = id.object
              /\ IdentityGroups[id.kind][n] \subseteq DOMAIN seen[i].data
              /\ \A f \in IdentityGroups[id.kind][n] : seen[i].data[f] = g.rows[id].data[f]
<1> DEFINE groups == IdentityGroups[id.kind]
           data == g.rows[id].data
           own == First(Satisfied(id.kind, data))
           Has(i) == /\ IdOf(seen[i]) = id
                     /\ seen[i].kind = id.kind /\ seen[i].object = id.object
                     /\ groups[n] \subseteq DOMAIN seen[i].data
                     /\ \A f \in groups[n] : seen[i].data[f] = data[f]
<1>1. /\ id.kind \in Kinds /\ own \in DOMAIN groups
      /\ id = ArtifactId(id.kind, id.object, data)
      /\ IdentityOf(id.kind, data) = [f \in groups[own] |-> data[f]]
  BY SatisfiedFirst DEF Sound, WellFormed, Identified
<1>2. id.identity = [f \in groups[own] |-> data[f]]
  BY <1>1 DEF ArtifactId
<1>3. ASSUME NEW i \in DOMAIN seen, IdOf(seen[i]) = id
      PROVE  /\ seen[i].kind = id.kind /\ seen[i].object = id.object
             /\ groups[own] \subseteq DOMAIN seen[i].data
             /\ \A f \in groups[own] : seen[i].data[f] = data[f]
  <2> DEFINE s == seen[i]  m == First(Satisfied(s.kind, s.data))
  <2>1. id = ArtifactId(s.kind, s.object, s.data)
    BY <1>3 DEF IdOf
  <2>2. s.kind = id.kind /\ s.object = id.object /\ id.identity = IdentityOf(s.kind, s.data)
    BY <2>1 DEF ArtifactId
  <2>3. /\ IdentityGroups[s.kind][m] \subseteq DOMAIN s.data
        /\ IdentityOf(s.kind, s.data) = [f \in IdentityGroups[s.kind][m] |-> s.data[f]]
    BY SatisfiedFirst DEF Observed
  <2> HIDE DEF m, s, own
  <2>4. IdentityGroups[s.kind][m] = groups[own]
    BY <1>2, <2>2, <2>3
  <2>5. \A f \in groups[own] : s.data[f] = data[f]
    BY <1>2, <2>2, <2>3, <2>4
  <2>. QED BY <2>2, <2>3, <2>4, <2>5 DEF s
<1>4. PICK f : groups[n] \ groups[own] \subseteq {f}
  BY <1>1, OneFieldApart
<1> HIDE DEF own
<1>5. CASE f \in groups[n] \ groups[own]
  <2>1. f \in DOMAIN data
    BY <1>5
  <2>2. PICK i \in DOMAIN seen : IsFirst(seen, i, id, f) /\ data[f] = seen[i].data[f]
    BY <2>1 DEF Tells, TellsFields
  <2>3. IdOf(seen[i]) = id /\ f \in DOMAIN seen[i].data
    BY <2>2 DEF IsFirst
  <2>4. \A e \in groups[n] : e = f \/ e \in groups[own]
    BY <1>4
  <2>. QED BY <1>3, <2>2, <2>3, <2>4
<1>6. CASE f \notin groups[n] \ groups[own]
  <2>1. groups[n] \subseteq groups[own]
    BY <1>4, <1>6
  <2>2. PICK i \in DOMAIN seen : IdOf(seen[i]) = id
    BY DEF Tells, TellsRows
  <2>. QED BY <1>3, <2>1, <2>2
<1>. QED BY <1>5, <1>6

ObservedInv == Observed(told) /\ Observed(heard)

LEMMA Observing == TellingInv /\ ObservedInv /\ [Next]_vars => ObservedInv'
<1>. SUFFICES ASSUME TellingInv, ObservedInv, [Next]_vars PROVE ObservedInv'
  OBVIOUS
<1>1. CASE AddArtifact
  <2>1. heard' = Append(heard, Head(todo)) /\ Valid(Head(todo)) /\ UNCHANGED told
    BY <1>1 DEF AddArtifact, Advance
  <2>2. LET more == Append(heard, Head(todo)) IN
        /\ Len(heard) \in Nat /\ DOMAIN heard = 1 .. Len(heard)
        /\ DOMAIN more = 1 .. Len(heard) + 1
        /\ \A i \in DOMAIN heard : more[i] = heard[i]
        /\ more[Len(heard) + 1] = Head(todo)
    BY OneMore DEF TellingInv, Tells
  <2>3. \A i \in DOMAIN heard' : heard'[i] = Head(todo) \/ (i \in DOMAIN heard /\ heard'[i] = heard[i])
    BY <2>1, <2>2
  <2>. QED BY <2>1, <2>3 DEF ObservedInv, Observed, Valid
<1>2. CASE ~AddArtifact
  <2>1. heard' \in {heard, told} /\ told' \in {heard, told}
    BY <1>2 DEF Next, vars, Begin, AddClaim, LinkClaims, Advance, Commit, Fail, Close
  <2>. QED BY <2>1 DEF ObservedInv
<1>. QED BY <1>1, <1>2

\* Rows converge whenever the observations they were made of agree with each
\* other: that engines fill in each other's fields, in any order, with any
\* number of runs that fail between, never leaves two rows of one thing.
THEOREM AgreementConverges == Spec => [](Agree(told) => EnginesConverge)
<1>1. Init => ObservedInv
  BY DEF Init, ObservedInv, Observed
<1>2. IInv /\ TellingInv /\ ObservedInv => (Agree(told) => EnginesConverge)
  <2>. SUFFICES ASSUME IInv, TellingInv, ObservedInv, Agree(told),
                       NEW i \in DOMAIN db.rows, NEW j \in DOMAIN db.rows,
                       i.kind = j.kind, i.object = j.object,
                       SameThing(i.kind, db.rows[i].data, db.rows[j].data)
                PROVE  i = j
    BY DEF EnginesConverge
  <2>1. Sound(db) /\ Tells(db, told) /\ Observed(told)
    BY DEF IInv, TellingInv, ObservedInv
  <2>2. PICK n \in DOMAIN IdentityGroups[i.kind] :
          /\ IdentityGroups[i.kind][n] \subseteq DOMAIN db.rows[i].data \cap DOMAIN db.rows[j].data
          /\ \A f \in IdentityGroups[i.kind][n] : db.rows[i].data[f] = db.rows[j].data[f]
    BY DEF SameThing
  <2>3. PICK p \in DOMAIN told :
          /\ IdOf(told[p]) = i
          /\ told[p].kind = i.kind /\ told[p].object = i.object
          /\ IdentityGroups[i.kind][n] \subseteq DOMAIN told[p].data
          /\ \A f \in IdentityGroups[i.kind][n] : told[p].data[f] = db.rows[i].data[f]
    BY <2>1, <2>2, ObservedTogether
  <2>4. PICK q \in DOMAIN told :
          /\ IdOf(told[q]) = j
          /\ told[q].kind = j.kind /\ told[q].object = j.object
          /\ IdentityGroups[j.kind][n] \subseteq DOMAIN told[q].data
          /\ \A f \in IdentityGroups[j.kind][n] : told[q].data[f] = db.rows[j].data[f]
    BY <2>1, <2>2, ObservedTogether
  <2>5. SameThing(told[p].kind, told[p].data, told[q].data)
    BY <2>2, <2>3, <2>4 DEF SameThing
  <2>. QED BY <2>3, <2>4, <2>5 DEF Agree
<1>. QED BY <1>1, <1>2, Observing, TellingAlways, Invariance, PTL DEF Spec

-----------------------------------------------------------------------------
(* Opinions.  What INSERT OR REPLACE replaces is of the run that writes,   *)
(* since the run is part of the key; so what was committed before stands.  *)

OpinionInv ==
    /\ run # None => begun >= 1
    /\ db.attested \subseteq view.attested
    /\ \A a \in view.attested : a.run \in 1 .. begun
    /\ \A a \in db.attested : a.run # run

LEMMA Opinions == IInv /\ OpinionInv /\ [Next]_vars => OpinionInv'
<1>. SUFFICES ASSUME IInv, OpinionInv, [Next]_vars PROVE OpinionInv'
  OBVIOUS
<1>. USE ConvergenceAssumption
<1>1. ASSUME NEW job \in Jobs, Begin(job) PROVE OpinionInv'
  <2>1. /\ UNCHANGED <<db, view>> /\ begun' = begun + 1 /\ run' = begun + 1
        /\ begun \in 0 .. MaxRuns
    BY <1>1 DEF Begin, IInv
  <2>2. \A n \in 1 .. begun : n \in 1 .. begun + 1 /\ n # begun + 1
    BY <2>1
  <2>. QED BY <2>1, <2>2 DEF OpinionInv
<1>2. CASE AddArtifact
  <2>1. view'.attested = view.attested /\ UNCHANGED <<db, run, begun>>
    BY <1>2 DEF AddArtifact, Advance, PutArtifact, IInv, Sound, Shaped
  <2>. QED BY <2>1 DEF OpinionInv
<1>3. CASE AddClaim
  <2> DEFINE s == Head(todo)
             a == [claim |-> s.claim, producer |-> s.producer, run |-> run,
                   method |-> s.method, confidence |-> s.confidence]
  <2>1. /\ view' = PutClaim(view, s, run) /\ UNCHANGED <<db, run, begun>>
        /\ run # None /\ run = begun /\ begun \in 1 .. begun
    <3>1. run # None /\ run = begun /\ begun \in Nat
      BY <1>3 DEF AddClaim, NextIs, IInv
    <3>. QED BY <1>3, <3>1 DEF AddClaim, Advance, OpinionInv
  <2>2. view'.attested =
          {b \in view.attested : AttestationKey(b) # AttestationKey(a)} \cup {a}
    BY <2>1 DEF PutClaim, Attest, IInv, Sound, Shaped
  <2>3. \A b : b.run # run => AttestationKey(b) # AttestationKey(a)
    BY DEF AttestationKey
  <2>4. a.run = run
    OBVIOUS
  <2> HIDE DEF a
  <2>. QED BY <2>1, <2>2, <2>3, <2>4 DEF OpinionInv
<1>4. CASE LinkClaims
  <2>1. view'.attested = view.attested /\ UNCHANGED <<db, run, begun>>
    BY <1>4 DEF LinkClaims, Advance, Refine, IInv, Sound, Shaped
  <2>. QED BY <2>1 DEF OpinionInv
<1>5. CASE Commit
  <2>1. None \notin 1 .. begun
    BY DEF IInv
  <2>. QED BY <1>5, <2>1 DEF Commit, OpinionInv
<1>6. CASE Fail
  <2>1. None \notin 1 .. begun
    BY DEF IInv
  <2>. QED BY <1>6, <2>1 DEF Fail, Close, OpinionInv
<1>7. CASE UNCHANGED vars
  BY <1>7 DEF vars, OpinionInv
<1>. QED BY <1>1, <1>2, <1>3, <1>4, <1>5, <1>6, <1>7 DEF Next

\* No commit takes an attestation away, whoever attests again and to what.
THEOREM OpinionsStand == Spec => [][db.attested \subseteq db'.attested]_db
<1>1. Init => OpinionInv
  BY DEF Init, OpinionInv, EmptyEvidence
<1>2. OpinionInv /\ [Next]_vars => [db.attested \subseteq db'.attested]_db
  <2>. SUFFICES ASSUME OpinionInv, [Next]_vars, db' # db
                PROVE  db.attested \subseteq db'.attested
    OBVIOUS
  <2>1. db' = view
    BY DEF Next, vars, Begin, AddArtifact, AddClaim, LinkClaims, Advance,
           Commit, Fail, Close
  <2>. QED BY <2>1 DEF OpinionInv
<1>. QED BY <1>1, <1>2, Opinions, Invariance, PTL DEF Spec

\* The greatest of some percentages is one of them, and none is greater.
LEMMA MaxOfPercents ==
    ASSUME NEW S, S \subseteq 0 .. 100, S # {}
    PROVE  Max(S) \in S /\ \A x \in S : x <= Max(S)
<1> DEFINE Less == {ij \in Nat \X Nat : ij[1] < ij[2]}
           Short == {n \in Nat : n <= 100 /\ 100 - n \in S}
<1>1. IsWellFoundedOn(Less, Nat)
  BY NatLessThanWellFounded DEF OpToRel
<1>2. Short \subseteq Nat /\ Short # {}
  <2>1. PICK x \in S : TRUE
    OBVIOUS
  <2>2. 100 - x \in Short
    BY <2>1
  <2>. QED BY <2>2
<1>3. PICK n \in Short : \A m \in Short : <<m, n>> \notin Less
  <2>. HIDE DEF Less, Short
  <2>. QED BY <1>1, <1>2, WFMin
<1>4. ASSUME NEW y \in S
      PROVE  100 - n >= y
  <2>1. 100 - y \in Short
    OBVIOUS
  <2>2. ~ (100 - y < n)
    BY <1>3, <2>1
  <2>. QED BY <1>3, <2>1, <2>2
<1>. QED BY <1>3, <1>4 DEF Max

LEMMA BestIsPercent ==
    ASSUME NEW g, Sound(g), NEW k, NEW p
    PROVE  LET S == {0} \cup {a.confidence : a \in {b \in g.attested : b.claim = k /\ b.producer = p}}
           IN  /\ S \subseteq 0 .. 100 /\ 0 \in S
               /\ Best(g, k, p) \in S /\ \A x \in S : x <= Best(g, k, p)
               /\ Best(g, k, p) \in 0 .. 100
<1> DEFINE S == {0} \cup {a.confidence : a \in {b \in g.attested : b.claim = k /\ b.producer = p}}
<1>1. S \subseteq 0 .. 100 /\ 0 \in S
  BY DEF Sound, WellFormed
<1>2. Best(g, k, p) = Max(S)
  BY DEF Best
<1> HIDE DEF S
<1>3. Max(S) \in S /\ \A x \in S : x <= Max(S)
  BY <1>1, MaxOfPercents
<1>4. /\ S \subseteq 0 .. 100 /\ 0 \in S
      /\ Best(g, k, p) \in S /\ \A x \in S : x <= Best(g, k, p)
      /\ Best(g, k, p) \in 0 .. 100
  BY <1>1, <1>2, <1>3
<1>. QED BY <1>4 DEF S

\* What a producer is taken to think of a claim never drops by a commit: the
\* confidences that are combined for the report only grow, each of them.
THEOREM BestNeverDrops ==
    Spec => [][\A k, p : Best(db, k, p) <= Best(db', k, p)]_db
<1>1. IInv /\ IInv' /\ [db.attested \subseteq db'.attested]_db
         => [\A k, p : Best(db, k, p) <= Best(db', k, p)]_db
  <2>. SUFFICES ASSUME IInv, IInv', db.attested \subseteq db'.attested, NEW k, NEW p
                PROVE  Best(db, k, p) <= Best(db', k, p)
    OBVIOUS
  <2> DEFINE Of(g) == {0} \cup
               {a.confidence : a \in {b \in g.attested : b.claim = k /\ b.producer = p}}
  <2>1. Of(db) \subseteq Of(db')
    OBVIOUS
  <2>2. Sound(db) /\ Sound(db')
    BY DEF IInv
  <2>3. Best(db, k, p) \in Of(db)
    BY <2>2, BestIsPercent
  <2>4. \A x \in Of(db') : x <= Best(db', k, p)
    BY <2>2, BestIsPercent
  <2> HIDE DEF Of
  <2>. QED BY <2>1, <2>3, <2>4
<1>. QED BY <1>1, Invariance, OpinionsStand, PTL

-----------------------------------------------------------------------------
(* The confidence that is reported                                         *)

\* The products of the first factors of f, one after the other.
IsProduct(p, f, N) ==
    p = [n \in 0 .. N |-> IF n = 0 THEN 1 ELSE p[n - 1] * f[n]]

\* The recursion of combine_confidence defines something: of the lengths for
\* which it would not, the least is the next after one for which it does.
LEMMA ProductExists ==
    ASSUME NEW N \in Nat, NEW f
    PROVE  \E p : IsProduct(p, f, N)
<1> DEFINE Less == {ij \in Nat \X Nat : ij[1] < ij[2]}
           Bad == {n \in Nat : ~ \E p : IsProduct(p, f, n)}
<1>1. IsWellFoundedOn(Less, Nat)
  BY NatLessThanWellFounded DEF OpToRel
<1>2. SUFFICES ASSUME Bad # {} PROVE FALSE
  OBVIOUS
<1>3. PICK n \in Bad : \A m \in Bad : <<m, n>> \notin Less
  <2>1. Bad \subseteq Nat
    OBVIOUS
  <2>. HIDE DEF Less, Bad
  <2>. QED BY <1>1, <1>2, <2>1, WFMin
<1>4. n # 0
  <2>1. SUFFICES ASSUME n = 0 PROVE FALSE
    OBVIOUS
  <2> DEFINE p == [i \in 0 .. 0 |-> 1]
  <2>2. \A i \in 0 .. 0 : i = 0
    OBVIOUS
  <2>3. IsProduct(p, f, 0)
    BY <2>2 DEF IsProduct
  <2>. QED BY <2>1, <2>3
<1>5. n \in Nat /\ n - 1 \in Nat /\ <<n - 1, n>> \in Less
  BY <1>3, <1>4
<1>6. PICK q : IsProduct(q, f, n - 1)
  BY <1>3, <1>5
<1> DEFINE p == [i \in 0 .. n |-> IF i = n THEN q[n - 1] * f[n] ELSE q[i]]
<1>7. \A i \in 0 .. n : i # n => i \in 0 .. n - 1 /\ (i # 0 => i - 1 \in 0 .. n - 1 /\ i - 1 # n)
  BY <1>5
<1>8. \A i \in 0 .. n : p[i] = IF i = 0 THEN 1 ELSE p[i - 1] * f[i]
  <2>1. ASSUME NEW i \in 0 .. n PROVE p[i] = IF i = 0 THEN 1 ELSE p[i - 1] * f[i]
    <3>1. CASE i = n
      <4>1. n - 1 \in 0 .. n /\ n - 1 # n
        BY <1>5
      <4>. QED BY <3>1, <4>1, <1>4
    <3>2. CASE i # n
      <4>1. i \in 0 .. n - 1 /\ p[i] = q[i]
        BY <3>2, <1>7
      <4>2. q[i] = IF i = 0 THEN 1 ELSE q[i - 1] * f[i]
        BY <1>6, <4>1 DEF IsProduct
      <4>3. i # 0 => i - 1 \in 0 .. n /\ p[i - 1] = q[i - 1]
        BY <3>2, <1>7, <1>5
      <4>. QED BY <4>1, <4>2, <4>3
    <3>. QED BY <3>1, <3>2
  <2>. QED BY <2>1
<1>9. IsProduct(p, f, n)
  BY <1>8 DEF IsProduct
<1>. QED BY <1>3, <1>9

LEMMA ProductMonotone ==
    ASSUME NEW a \in Nat, NEW b \in Nat, NEW c \in Nat, NEW d \in Nat, a <= b, c <= d
    PROVE  a * c \in Nat /\ b * d \in Nat /\ a * c <= b * d
<1>1. a * c \in Nat /\ b * d \in Nat
  OBVIOUS
<1>2. a * c <= b * c
  OBVIOUS
<1>3. b * c <= b * d
  OBVIOUS
<1>. QED BY <1>1, <1>2, <1>3

\* Smaller factors make no greater product.
LEMMA ProductsCompare ==
    ASSUME NEW N \in Nat, NEW f, NEW g, NEW p, NEW q,
           IsProduct(p, f, N), IsProduct(q, g, N),
           \A n \in 1 .. N : f[n] \in Nat /\ g[n] \in Nat /\ f[n] <= g[n]
    PROVE  p[N] \in Nat /\ q[N] \in Nat /\ p[N] <= q[N]
<1> DEFINE Less == {ij \in Nat \X Nat : ij[1] < ij[2]}
           Fine(n) == p[n] \in Nat /\ q[n] \in Nat /\ p[n] <= q[n]
           Bad == {n \in 0 .. N : ~ Fine(n)}
<1>1. IsWellFoundedOn(Less, Nat)
  BY NatLessThanWellFounded DEF OpToRel
<1>2. SUFFICES ASSUME Bad # {} PROVE FALSE
  BY N \in 0 .. N
<1>3. PICK n \in Bad : \A m \in Bad : <<m, n>> \notin Less
  <2>1. Bad \subseteq Nat
    OBVIOUS
  <2>. HIDE DEF Less, Bad
  <2>. QED BY <1>1, <1>2, <2>1, WFMin
<1>4. \A i \in 0 .. N : /\ p[i] = IF i = 0 THEN 1 ELSE p[i - 1] * f[i]
                        /\ q[i] = IF i = 0 THEN 1 ELSE q[i - 1] * g[i]
  BY DEF IsProduct
<1>5. n \in 0 .. N /\ ~ Fine(n)
  BY <1>3
<1>6. n # 0
  <2>. SUFFICES ASSUME n = 0 PROVE FALSE
    OBVIOUS
  <2>1. p[0] = 1 /\ q[0] = 1
    BY <1>4, <1>5
  <2>. QED BY <1>5, <2>1
<1>7. n - 1 \in 0 .. N /\ n \in 1 .. N /\ <<n - 1, n>> \in Less
  BY <1>5, <1>6
<1>8. Fine(n - 1)
  BY <1>3, <1>7
<1>9. p[n] = p[n - 1] * f[n] /\ q[n] = q[n - 1] * g[n]
  BY <1>4, <1>5, <1>6
<1>10. f[n] \in Nat /\ g[n] \in Nat /\ f[n] <= g[n]
  BY <1>7
<1>11. /\ p[n - 1] * f[n] \in Nat /\ q[n - 1] * g[n] \in Nat
       /\ p[n - 1] * f[n] <= q[n - 1] * g[n]
  BY <1>8, <1>10, ProductMonotone
<1>. QED BY <1>5, <1>9, <1>11

Factors(g, k) == [n \in 1 .. Cardinality(Producers) |-> 100 - Best(g, k, SetToSeq(Producers)[n])]

LEMMA ResidualIsProduct ==
    ASSUME NEW g, NEW k
    PROVE  \E p : /\ IsProduct(p, Factors(g, k), Cardinality(Producers))
                  /\ Residual(g, k) = p[Cardinality(Producers)]
<1> DEFINE N == Cardinality(Producers)
           order == SetToSeq(Producers)
           Is(p) == p = [n \in 0 .. N |-> IF n = 0 THEN 1
                              ELSE p[n - 1] * (100 - Best(g, k, order[n]))]
           after == CHOOSE p : Is(p)
<1>1. N \in Nat
  BY ConvergenceAssumption, FS_CardinalityType
<1>2. Residual(g, k) = after[N]
  BY DEF Residual
<1>3. ASSUME NEW p
      PROVE  Is(p) <=> IsProduct(p, Factors(g, k), N)
  <2>1. \A n \in 0 .. N : n # 0 => Factors(g, k)[n] = 100 - Best(g, k, order[n])
    <3>1. \A n \in 0 .. N : n # 0 => n \in 1 .. N
      BY <1>1
    <3>. QED BY <3>1 DEF Factors
  <2>2. [n \in 0 .. N |-> IF n = 0 THEN 1 ELSE p[n - 1] * (100 - Best(g, k, order[n]))]
          = [n \in 0 .. N |-> IF n = 0 THEN 1 ELSE p[n - 1] * Factors(g, k)[n]]
    BY <2>1
  <2>. QED BY <2>2 DEF IsProduct
<1>4. \E p : Is(p)
  BY <1>1, <1>3, ProductExists
<1> HIDE DEF Is
<1>5. Is(after)
  BY <1>4
<1>. QED BY <1>2, <1>3, <1>5

\* Whoever attests what, and in however many runs: what is reported for a
\* committed claim never drops.
THEOREM ReportsNeverDrop == Spec => ConfidenceNeverDrops
<1> DEFINE BestStands == \A k, p : Best(db, k, p) <= Best(db', k, p)
           Stands == \A k \in db.claims : k \in db'.claims /\ Residual(db', k) <= Residual(db, k)
<1>1. IInv /\ IInv' /\ BestStands /\ Grows(db, db') => Stands
  <2>. SUFFICES ASSUME IInv, IInv', BestStands, Grows(db, db'), NEW k \in db.claims
                PROVE  k \in db'.claims /\ Residual(db', k) <= Residual(db, k)
    OBVIOUS
  <2> DEFINE N == Cardinality(Producers)
             order == SetToSeq(Producers)
             f == Factors(db', k)
             g == Factors(db, k)
  <2>1. N \in Nat
    BY ConvergenceAssumption, FS_CardinalityType
  <2>2. \A p : /\ Best(db, k, p) \in 0 .. 100 /\ Best(db', k, p) \in 0 .. 100
               /\ Best(db, k, p) <= Best(db', k, p)
    <3>1. Sound(db) /\ Sound(db')
      BY DEF IInv
    <3>. QED BY <3>1, BestIsPercent
  <2>3. ASSUME NEW n \in 1 .. N
        PROVE  f[n] \in Nat /\ g[n] \in Nat /\ f[n] <= g[n]
    <3>1. f[n] = 100 - Best(db', k, order[n]) /\ g[n] = 100 - Best(db, k, order[n])
      BY DEF Factors
    <3>2. /\ Best(db, k, order[n]) \in 0 .. 100 /\ Best(db', k, order[n]) \in 0 .. 100
          /\ Best(db, k, order[n]) <= Best(db', k, order[n])
      BY <2>2
    <3> HIDE DEF f, g, order
    <3>. QED BY <3>1, <3>2
  <2>4. PICK p : IsProduct(p, f, N) /\ Residual(db', k) = p[N]
    BY ResidualIsProduct
  <2>5. PICK q : IsProduct(q, g, N) /\ Residual(db, k) = q[N]
    BY ResidualIsProduct
  <2> HIDE DEF f, g
  <2>6. p[N] <= q[N]
    BY <2>1, <2>3, <2>4, <2>5, ProductsCompare
  <2>. QED BY <2>4, <2>5, <2>6 DEF Grows
<1>2. [BestStands]_db /\ [Grows(db, db')]_db /\ IInv /\ IInv' => [Stands]_db
  BY <1>1
<1>. QED BY <1>2, Invariance, BestNeverDrops, NothingOverwritten, PTL DEF ConfidenceNeverDrops

-----------------------------------------------------------------------------
(* Scripts.  They are put together by Each, end to end. *)

\* A set of numbers that has 0 and every successor of its members has them
\* all: this takes the place of induction.
LEMMA Counting ==
    ASSUME NEW T, 0 \in T, \A n \in Nat : n \in T => n + 1 \in T
    PROVE  \A n \in Nat : n \in T
<1> DEFINE Less == {ij \in Nat \X Nat : ij[1] < ij[2]}  Out == {n \in Nat : n \notin T}
<1>1. IsWellFoundedOn(Less, Nat)
  BY NatLessThanWellFounded DEF OpToRel
<1>. SUFFICES ASSUME Out # {} PROVE FALSE
  OBVIOUS
<1>2. PICK n \in Out : \A m \in Out : <<m, n>> \notin Less
  <2>1. Out \subseteq Nat
    OBVIOUS
  <2>. HIDE DEF Less, Out
  <2>. QED BY <1>1, <2>1, WFMin
<1>3. n \in Nat /\ n # 0 /\ n - 1 \in Nat /\ <<n - 1, n>> \in Less
  BY <1>2
<1>4. n - 1 \in T /\ (n - 1) + 1 = n
  BY <1>2, <1>3
<1>. QED BY <1>2, <1>3, <1>4

\* The first i lists of ss end to end, for each i up to n.
Joins(f, ss, n) == f = [i \in 1 .. n |-> IF i = 1 THEN ss[1] ELSE f[i - 1] \o ss[i]]

\* There is such a function for every n.
LEMMA JoinsExist == \A ss : \A n \in Nat : \E f : Joins(f, ss, n)
<1>. SUFFICES ASSUME NEW ss PROVE \A n \in Nat : \E f : Joins(f, ss, n)
  OBVIOUS
<1> DEFINE T == {n \in Nat : \E f : Joins(f, ss, n)}
<1>1. 0 \in T
  <2> DEFINE f == [i \in 1 .. 0 |-> ss[1]]
  <2>1. \A i \in 1 .. 0 : FALSE
    OBVIOUS
  <2>2. Joins(f, ss, 0)
    BY <2>1 DEF Joins
  <2>. QED BY <2>2
<1>2. ASSUME NEW n \in Nat, n \in T PROVE n + 1 \in T
  <2>1. PICK f : Joins(f, ss, n)
    BY <1>2
  <2> DEFINE g == [i \in 1 .. n + 1 |-> IF i = 1 THEN ss[1]
                                        ELSE IF i = n + 1 THEN f[n] \o ss[n + 1] ELSE f[i]]
  <2>2. ASSUME NEW i \in 1 .. n + 1 PROVE g[i] = IF i = 1 THEN ss[1] ELSE g[i - 1] \o ss[i]
    <3>1. CASE i = 1
      BY <3>1
    <3>2. CASE i # 1 /\ i = n + 1
      <4>1. n \in 1 .. n + 1 /\ i - 1 = n /\ n # n + 1 /\ n \in 1 .. n
        BY <3>2
      <4>2. g[n] = f[n]
        BY <2>1, <4>1 DEF Joins
      <4>. QED BY <3>2, <4>1, <4>2
    <3>3. CASE i # 1 /\ i # n + 1
      <4>1. i \in 1 .. n /\ i - 1 \in 1 .. n /\ i - 1 \in 1 .. n + 1 /\ i - 1 # n + 1
        BY <3>3
      <4>2. f[i] = f[i - 1] \o ss[i] /\ (i - 1 = 1 => f[i - 1] = ss[1])
        BY <2>1, <3>3, <4>1 DEF Joins
      <4>. QED BY <3>3, <4>1, <4>2
    <3>. QED BY <3>1, <3>2, <3>3
  <2>3. Joins(g, ss, n + 1)
    BY <2>2 DEF Joins
  <2>. QED BY <2>3
<1> HIDE DEF T
<1>3. \A n \in Nat : n \in T
  BY <1>1, <1>2, Counting
<1>. QED BY <1>3 DEF T

\* What FlattenSeq does to a sequence that is not empty.
LEMMA FlattenJoins ==
    ASSUME NEW U, NEW ss \in Seq(U), ss # << >>
    PROVE  \E f : Joins(f, ss, Len(ss)) /\ FlattenSeq(ss) = f[Len(ss)]
<1> DEFINE N == Len(ss)
           Is(f) == f = [i \in 1 .. N |-> IF i = 1 THEN ss[i] ELSE f[i - 1] \o ss[i]]
           flatten == CHOOSE f : Is(f)
<1>1. N \in Nat \ {0}
  BY EmptySeq
<1>2. FlattenSeq(ss) = flatten[N]
  BY <1>1 DEF FlattenSeq
<1>3. \A f : Joins(f, ss, N) <=> Is(f)
  BY DEF Joins
<1>4. \E f : Is(f)
  BY <1>1, <1>3, JoinsExist
<1>5. Is(flatten)
  <2>. HIDE DEF Is
  <2>. QED BY <1>4
<1> HIDE DEF Is
<1>6. Joins(flatten, ss, N)
  BY <1>3, <1>5
<1>. QED BY <1>2, <1>6

\* Whatever holds of the parts and is kept by concatenation holds of them all
\* end to end.
LEMMA Flattened ==
    ASSUME NEW P, << >> \in P, \A s, t \in P : s \o t \in P, NEW ss \in Seq(P)
    PROVE  FlattenSeq(ss) \in P
<1>1. CASE ss = << >>
  BY <1>1, EmptySeq DEF FlattenSeq
<1>2. CASE ss # << >>
  <2>1. PICK f : Joins(f, ss, Len(ss)) /\ FlattenSeq(ss) = f[Len(ss)]
    BY <1>2, FlattenJoins
  <2>2. Len(ss) \in Nat \ {0} /\ \A i \in 1 .. Len(ss) : ss[i] \in P
    BY <1>2, EmptySeq, ElementOfSeq
  <2> DEFINE N == Len(ss)  T == {n \in Nat : n + 1 <= N => f[n + 1] \in P}
  <2>3. \A i \in 1 .. N : f[i] = IF i = 1 THEN ss[1] ELSE f[i - 1] \o ss[i]
    BY <2>1 DEF Joins
  <2>. HIDE DEF N
  <2>4. 0 \in T
    <3>1. 1 \in 1 .. N /\ 0 + 1 = 1
      BY <2>2 DEF N
    <3>. QED BY <2>2, <2>3, <3>1 DEF N
  <2>5. ASSUME NEW n \in Nat, n \in T PROVE n + 1 \in T
    <3>. SUFFICES ASSUME (n + 1) + 1 <= N PROVE f[(n + 1) + 1] \in P
      OBVIOUS
    <3>1. /\ (n + 1) + 1 \in 1 .. N /\ (n + 1) + 1 # 1 /\ ((n + 1) + 1) - 1 = n + 1
          /\ n + 1 <= N
      BY <2>2 DEF N
    <3>2. f[n + 1] \in P /\ ss[(n + 1) + 1] \in P
      BY <2>2, <2>5, <3>1 DEF N
    <3>. QED BY <2>3, <3>1, <3>2
  <2> HIDE DEF T
  <2>6. \A n \in Nat : n \in T
    BY <2>4, <2>5, Counting
  <2>7. N - 1 \in T /\ (N - 1) + 1 = N /\ N - 1 \in Nat
    BY <2>2, <2>6 DEF N
  <2>. QED BY <2>1, <2>7 DEF T, N
<1>. QED BY <1>1, <1>2

\* Nothing of any part is lost.
LEMMA FlattenedHolds ==
    ASSUME NEW U, NEW ss \in Seq(Seq(U)), NEW m \in DOMAIN ss, NEW x \in ToSet(ss[m])
    PROVE  x \in ToSet(FlattenSeq(ss))
<1> DEFINE N == Len(ss)
<1>1. N \in Nat /\ DOMAIN ss = 1 .. N /\ \A i \in 1 .. N : ss[i] \in Seq(U)
  BY LenProperties, ElementOfSeq
<1>2. ss # << >>
  BY <1>1, EmptySeq
<1>3. PICK f : Joins(f, ss, N) /\ FlattenSeq(ss) = f[N]
  BY <1>2, FlattenJoins
<1>. HIDE DEF N
<1>4. \A i \in 1 .. N : f[i] = IF i = 1 THEN ss[1] ELSE f[i - 1] \o ss[i]
  BY <1>3 DEF Joins
<1> DEFINE T == {n \in Nat : n + 1 <= N =>
                    f[n + 1] \in Seq(U) /\ (m <= n + 1 => x \in ToSet(f[n + 1]))}
<1>5. 0 \in T
  <2>1. 1 \in 1 .. N /\ 0 + 1 = 1
    BY <1>1
  <2>2. m <= 1 => m = 1
    BY <1>1
  <2>. QED BY <1>1, <1>4, <2>1, <2>2
<1>6. ASSUME NEW n \in Nat, n \in T PROVE n + 1 \in T
  <2> DEFINE k == n + 1
  <2>. SUFFICES ASSUME k + 1 <= N
                PROVE  f[k + 1] \in Seq(U) /\ (m <= k + 1 => x \in ToSet(f[k + 1]))
    OBVIOUS
  <2>1. k \in Nat /\ k <= N /\ k + 1 \in 1 .. N /\ k + 1 # 1 /\ (k + 1) - 1 = k
    BY <1>1
  <2>2. f[k] \in Seq(U) /\ (m <= k => x \in ToSet(f[k]))
    BY <1>6, <2>1
  <2>. HIDE DEF k
  <2>3. f[k + 1] = f[k] \o ss[k + 1] /\ ss[k + 1] \in Seq(U)
    BY <1>1, <1>4, <2>1
  <2>4. f[k + 1] \in Seq(U) /\ ToSet(f[k + 1]) = ToSet(f[k]) \cup ToSet(ss[k + 1])
    <3>1. \A s : ToSet(s) = Range(s)
      BY DEF ToSet, Range
    <3>2. f[k] \o ss[k + 1] \in Seq(U)
      BY <2>2, <2>3, ConcatProperties
    <3>3. Range(f[k] \o ss[k + 1]) = Range(f[k]) \cup Range(ss[k + 1])
      BY <2>2, <2>3, RangeConcatenation
    <3>. QED BY <2>3, <3>1, <3>2, <3>3
  <2>5. m <= k + 1 => m <= k \/ m = k + 1
    BY <1>1, <2>1
  <2>. QED BY <2>2, <2>4, <2>5
<1> HIDE DEF T
<1>7. \A n \in Nat : n \in T
  BY <1>5, <1>6, Counting
<1>8. N - 1 \in T /\ (N - 1) + 1 = N /\ N - 1 \in Nat /\ m <= N
  BY <1>1, <1>7
<1>. QED BY <1>3, <1>8 DEF T

\* What every sequence is.
LEMMA Listed ==
    ASSUME NEW S, NEW s \in Seq(S)
    PROVE  /\ IsList(s) /\ ToSet(s) \subseteq S
           /\ Len(s) \in Nat /\ DOMAIN s = 1 .. Len(s)
           /\ s = << >> <=> Len(s) = 0
<1>1. Len(s) \in Nat /\ DOMAIN s = 1 .. Len(s) /\ s \in [1 .. Len(s) -> S]
  BY LenProperties
<1>2. s \in [1 .. Len(s) -> ToSet(s)]
  BY <1>1 DEF ToSet
<1>3. IsList(s)
  BY <1>1, <1>2 DEF IsList
<1>4. s = << >> <=> Len(s) = 0
  BY EmptySeq
<1>. QED BY <1>1, <1>3, <1>4 DEF ToSet

\* What the concatenation of two lists is.
LEMMA Joined ==
    ASSUME NEW s, IsList(s), NEW t, IsList(t)
    PROVE  /\ IsList(s \o t) /\ ToSet(s \o t) = ToSet(s) \cup ToSet(t)
           /\ Len(s) \in Nat /\ Len(t) \in Nat
           /\ DOMAIN s = 1 .. Len(s) /\ DOMAIN t = 1 .. Len(t)
           /\ DOMAIN (s \o t) = 1 .. Len(s) + Len(t)
           /\ \A i \in 1 .. Len(s) : (s \o t)[i] = s[i]
           /\ \A i \in 1 .. Len(t) : (s \o t)[Len(s) + i] = t[i]
<1> DEFINE S == ToSet(s) \cup ToSet(t)  u == s \o t
<1>1. /\ s \in Seq(S) /\ Len(s) \in Nat /\ DOMAIN s = 1 .. Len(s)
      /\ t \in Seq(S) /\ Len(t) \in Nat /\ DOMAIN t = 1 .. Len(t)
  BY Listed DEF IsList
<1>2. /\ u \in Seq(S) /\ Len(u) = Len(s) + Len(t)
      /\ \A i \in 1 .. Len(s) + Len(t) : u[i] = IF i <= Len(s) THEN s[i] ELSE t[i - Len(s)]
  <2>. HIDE DEF S
  <2>. QED BY <1>1, ConcatProperties
<1> HIDE DEF u
<1>3. /\ \A i \in 1 .. Len(s) : u[i] = s[i]
      /\ \A i \in 1 .. Len(t) : u[Len(s) + i] = t[i]
  <2>1. \A i \in 1 .. Len(t) : /\ Len(s) + i \in 1 .. Len(s) + Len(t)
                               /\ ~ Len(s) + i <= Len(s) /\ (Len(s) + i) - Len(s) = i
    BY <1>1
  <2>2. \A i \in 1 .. Len(s) : i \in 1 .. Len(s) + Len(t) /\ i <= Len(s)
    BY <1>1
  <2>. QED BY <1>2, <2>1, <2>2
<1>4. IsList(u) /\ DOMAIN u = 1 .. Len(u)
  BY <1>2, Listed
<1>5. ToSet(u) = S
  <2>1. ToSet(u) \subseteq S
    BY <1>2, Listed
  <2>2. \A i \in 1 .. Len(s) : i \in 1 .. Len(u)
    BY <1>1, <1>2
  <2>3. \A i \in 1 .. Len(t) : Len(s) + i \in 1 .. Len(u)
    BY <1>1, <1>2
  <2>4. ToSet(s) \subseteq ToSet(u) /\ ToSet(t) \subseteq ToSet(u)
    BY <1>1, <1>3, <1>4, <2>2, <2>3 DEF ToSet
  <2>. QED BY <2>1, <2>4
<1>. QED BY <1>1, <1>2, <1>3, <1>4, <1>5 DEF u

-----------------------------------------------------------------------------
(* What scripts say about risky APIs *)

\* The names for which the headers give an artifact, and what triage says of them.
Recorded == {n \in RiskyNames : RecordedAs(n) # << >>}

CoarseClaim(n) ==
    ClaimOf("uses_risky_api", [api |-> n, category |-> RiskyApis[n].category],
            {Locus(Head(RecordedAs(n)))})

Coarse == {CoarseClaim(n) : n \in Recorded}

\* A statement that links nothing and that says nothing of a risky API in
\* the name of triage or Ghidra but what triage says.
Harmless(x) ==
    \/ x.do = "observe"
    \/ /\ x.do = "assert"
       /\ x.claim.predicate = "uses_risky_api" /\ x.producer \in {Triage, Ghidra}
          => x.producer = Triage /\ x.claim \in Coarse

\* What Ghidra says of a risky import: the next statement is its lineage if it
\* has call sites.
Sited(s, i) ==
    /\ s[i].do = "assert" /\ s[i].producer = Ghidra
    /\ s[i].claim.predicate = "uses_risky_api" /\ s[i].claim.subject = FileId
    /\ "call_site_count" \in DOMAIN s[i].claim.statement =>
        i + 1 \in DOMAIN s /\ s[i + 1].do = "refine" /\ s[i + 1].claim = s[i].claim

Tame(s) == IsList(s) /\ \A x \in ToSet(s) : Harmless(x)

Proper(s) ==
    IsList(s) /\ \A i \in DOMAIN s : Harmless(s[i]) \/ s[i].do = "refine" \/ Sited(s, i)

\* Tame scripts are proper ones, that of nothing is tame, and end to end both
\* stay what they are.
LEMMA TameIsProper == \A s : Tame(s) => Proper(s)
BY DEF Tame, Proper, ToSet

LEMMA TameNothing == Tame(<< >>)
<1> DEFINE S == {}
<1>1. << >> \in Seq(S)
  BY EmptySeq
<1>. HIDE DEF S
<1>2. IsList(<< >>) /\ ToSet(<< >>) \subseteq S
  BY <1>1, Listed
<1>. QED BY <1>2 DEF Tame, S

LEMMA TameJoined ==
    ASSUME NEW s, NEW t, Tame(s), Tame(t) PROVE Tame(s \o t)
BY Joined DEF Tame

LEMMA ProperJoined ==
    ASSUME NEW s, NEW t, Proper(s), Proper(t) PROVE Proper(s \o t)
<1> DEFINE u == s \o t
<1>1. /\ IsList(u) /\ Len(s) \in Nat /\ Len(t) \in Nat
      /\ DOMAIN s = 1 .. Len(s) /\ DOMAIN t = 1 .. Len(t) /\ DOMAIN u = 1 .. Len(s) + Len(t)
      /\ \A i \in 1 .. Len(s) : u[i] = s[i]
      /\ \A i \in 1 .. Len(t) : u[Len(s) + i] = t[i]
  BY Joined DEF Proper
<1>. HIDE DEF u
<1>2. ASSUME NEW i \in DOMAIN u PROVE Harmless(u[i]) \/ u[i].do = "refine" \/ Sited(u, i)
  <2>1. CASE i <= Len(s)
    <3>1. i \in DOMAIN s /\ u[i] = s[i]
      BY <1>1, <2>1
    <3>2. i + 1 \in DOMAIN s => i + 1 \in DOMAIN u /\ u[i + 1] = s[i + 1]
      BY <1>1, <2>1
    <3>. QED BY <3>1, <3>2 DEF Proper, Sited
  <2>2. CASE i > Len(s)
    <3> DEFINE j == i - Len(s)
    <3>1. j \in DOMAIN t /\ u[i] = t[j] /\ i = Len(s) + j
      <4>1. j \in 1 .. Len(t) /\ i = Len(s) + j
        BY <1>1, <2>2
      <4>. QED BY <1>1, <4>1
    <3>2. j + 1 \in DOMAIN t => i + 1 \in DOMAIN u /\ u[i + 1] = t[j + 1]
      <4>1. j + 1 \in 1 .. Len(t) => i + 1 \in 1 .. Len(s) + Len(t) /\ i + 1 = Len(s) + (j + 1)
        BY <1>1, <2>2
      <4>. QED BY <1>1, <4>1
    <3>. HIDE DEF j
    <3>. QED BY <3>1, <3>2 DEF Proper, Sited
  <2>. QED BY <1>1, <2>1, <2>2
<1>. QED BY <1>1, <1>2 DEF Proper, u

\* What Each makes of a list.
LEMMA EachListed ==
    ASSUME NEW list, IsList(list), NEW ss, ss = [i \in DOMAIN list |-> ss[i]]
    PROVE  /\ IsList(ss) /\ DOMAIN ss = DOMAIN list
           /\ Len(list) \in Nat /\ DOMAIN list = 1 .. Len(list) /\ Len(ss) = Len(list)
<1>1. Len(list) \in Nat /\ DOMAIN list = 1 .. Len(list)
  BY Listed DEF IsList
<1> DEFINE S == {ss[i] : i \in DOMAIN list}
<1>2. ss \in [1 .. Len(list) -> S]
  BY <1>1
<1>3. ss \in Seq(S)
  BY <1>1, <1>2
<1>4. IsList(ss) /\ DOMAIN ss = 1 .. Len(ss) /\ Len(ss) \in Nat
  BY <1>3, Listed
<1>5. DOMAIN ss = 1 .. Len(list)
  BY <1>2
<1>6. Len(ss) = Len(list)
  BY <1>1, <1>3, <1>5, LenProperties
<1>. QED BY <1>1, <1>4, <1>5, <1>6

\* So they do for any number of them, as Each puts them together.
LEMMA EachTame ==
    ASSUME NEW list, IsList(list), NEW ss, ss = [i \in DOMAIN list |-> ss[i]],
           \A i \in DOMAIN list : Tame(ss[i])
    PROVE  Tame(FlattenSeq(ss))
<1> DEFINE S == UNION {ToSet(ss[i]) : i \in DOMAIN ss}  P == {s \in Seq(S) : Tame(s)}
<1>1. IsList(ss) /\ DOMAIN ss = DOMAIN list
  BY EachListed
<1>2. \A i \in DOMAIN ss : ss[i] \in P
  <2>1. ASSUME NEW i \in DOMAIN ss PROVE ss[i] \in Seq(S)
    <3>1. ss[i] \in Seq(ToSet(ss[i])) /\ ToSet(ss[i]) \subseteq S
      BY <1>1 DEF Tame, IsList
    <3>. HIDE DEF S
    <3>. QED BY <3>1
  <2>. QED BY <1>1, <2>1
<1>. HIDE DEF S
<1>3. << >> \in P /\ \A s, t \in P : s \o t \in P
  BY EmptySeq, ConcatProperties, TameNothing, TameJoined
<1>4. ss \in Seq(P)
  <2>1. ss \in [1 .. Len(ss) -> ToSet(ss)] /\ Len(ss) \in Nat
    BY <1>1, LenProperties DEF IsList
  <2>2. ss \in [1 .. Len(ss) -> P]
    BY <1>2, <2>1
  <2>. QED BY <2>1, <2>2
<1>. HIDE DEF P
<1>5. FlattenSeq(ss) \in P
  BY <1>3, <1>4, Flattened
<1>. QED BY <1>5 DEF P

LEMMA EachProper ==
    ASSUME NEW list, IsList(list), NEW ss, ss = [i \in DOMAIN list |-> ss[i]],
           \A i \in DOMAIN list : Proper(ss[i])
    PROVE  Proper(FlattenSeq(ss))
<1> DEFINE S == UNION {ToSet(ss[i]) : i \in DOMAIN ss}  P == {s \in Seq(S) : Proper(s)}
<1>1. IsList(ss) /\ DOMAIN ss = DOMAIN list
  BY EachListed
<1>2. \A i \in DOMAIN ss : ss[i] \in P
  <2>1. ASSUME NEW i \in DOMAIN ss PROVE ss[i] \in Seq(S)
    <3>1. ss[i] \in Seq(ToSet(ss[i])) /\ ToSet(ss[i]) \subseteq S
      BY <1>1 DEF Proper, IsList
    <3>. HIDE DEF S
    <3>. QED BY <3>1
  <2>. QED BY <1>1, <2>1
<1>. HIDE DEF S
<1>3. << >> \in P /\ \A s, t \in P : s \o t \in P
  BY EmptySeq, ConcatProperties, TameNothing, TameIsProper, ProperJoined
<1>4. ss \in Seq(P)
  <2>1. ss \in [1 .. Len(ss) -> ToSet(ss)] /\ Len(ss) \in Nat
    BY <1>1, LenProperties DEF IsList
  <2>2. ss \in [1 .. Len(ss) -> P]
    BY <1>2, <2>1
  <2>. QED BY <2>1, <2>2
<1>. HIDE DEF P
<1>5. FlattenSeq(ss) \in P
  BY <1>3, <1>4, Flattened
<1>. QED BY <1>5 DEF P

\* Scripts of one statement.
LEMMA One == \A x : IsList(<<x>>) /\ ToSet(<<x>>) = {x} /\ DOMAIN <<x>> = 1 .. 1 /\ <<x>>[1] = x
<1>1. ASSUME NEW x PROVE IsList(<<x>>) /\ ToSet(<<x>>) = {x} /\ DOMAIN <<x>> = 1 .. 1 /\ <<x>>[1] = x
  <2>1. <<x>> \in Seq({x}) /\ <<x>>[1] = x /\ Len(<<x>>) = 1
    OBVIOUS
  <2>2. IsList(<<x>>) /\ DOMAIN <<x>> = 1 .. 1
    BY <2>1, Listed
  <2>3. \A i \in 1 .. 1 : i = 1
    OBVIOUS
  <2>. QED BY <2>1, <2>2, <2>3 DEF ToSet
<1>. QED BY <1>1

LEMMA TameObservation == \A kind, data : Tame(Observe(kind, data))
BY One DEF Tame, Observe, Harmless

LEMMA TameSaying ==
    ASSUME NEW claim, NEW c, NEW p, NEW m,
           claim.predicate = "uses_risky_api" /\ p \in {Triage, Ghidra}
              => p = Triage /\ claim \in Coarse
    PROVE  Tame(Says(claim, c, p, m))
<1> DEFINE x == [do |-> "assert", claim |-> claim, confidence |-> c, producer |-> p, method |-> m]
<1>1. Harmless(x)
  BY DEF Harmless
<1>. HIDE DEF x
<1>. QED BY <1>1, One DEF Tame, Says, x

-----------------------------------------------------------------------------
(* The scripts of triage *)

\* What is assumed of the constants.
LEMMA HeadersListed ==
    /\ IsList(Headers.sections) /\ IsList(Headers.imports) /\ IsList(Headers.exports)
    /\ IsList(Headers.symbols) /\ IsList(Headers.hardening) /\ IsList(Headers.strings)
BY AdaptersAssumption

LEMMA DisassemblyListed ==
    /\ IsList(Disassembly.sections) /\ IsList(Disassembly.functions)
    /\ IsList(Disassembly.strings) /\ IsList(Disassembly.symbols)
    /\ IsList(Disassembly.xrefs) /\ IsList(Disassembly.decompilation)
    /\ IsList(Disassembly.imports) /\ IsList(Disassembly.exports)
BY AdaptersAssumption

\* No detector speaks of risky APIs.
LEMMA DetectionsKnown ==
    ASSUME NEW text
    PROVE  /\ IsList(DetectedIn(text))
           /\ \A d \in ToSet(DetectedIn(text)) : d.predicate # "uses_risky_api"
<1>1. CASE text \in DOMAIN Detections
  <2>1. DetectedIn(text) = Detections[text]
    BY <1>1 DEF DetectedIn
  <2>. QED BY <1>1, <2>1, AdaptersAssumption
<1>2. CASE text \notin DOMAIN Detections
  <2>1. DetectedIn(text) = << >>
    BY <1>2 DEF DetectedIn
  <2> DEFINE S == {}
  <2>2. << >> \in Seq(S)
    BY EmptySeq
  <2>. HIDE DEF S
  <2>3. IsList(<< >>) /\ ToSet(<< >>) \subseteq S
    BY <2>2, Listed
  <2>. QED BY <2>1, <2>3 DEF S
<1>. QED BY <1>1, <1>2

\* Claims of other predicates do no harm.
LEMMA TameOther ==
    ASSUME NEW predicate, predicate # "uses_risky_api", NEW statement, NEW evidence,
           NEW c, NEW p, NEW m
    PROVE  Tame(Says(ClaimOf(predicate, statement, evidence), c, p, m))
BY TameSaying DEF ClaimOf

LEMMA TameDetected ==
    ASSUME NEW d, d.predicate # "uses_risky_api", NEW id, NEW p
    PROVE  Tame(Detected(d, id, p))
BY TameOther DEF Detected

\* The parts of triage.
LEMMA ObservedEach ==
    ASSUME NEW list, IsList(list), NEW kind
    PROVE  Tame(FlattenSeq([i \in DOMAIN list |-> Observe(kind, list[i])]))
<1> DEFINE ss == [i \in DOMAIN list |-> Observe(kind, list[i])]
<1>1. \A i \in DOMAIN list : Tame(ss[i])
  BY TameObservation
<1>2. ss = [i \in DOMAIN list |-> ss[i]]
  OBVIOUS
<1>. HIDE DEF ss
<1>3. Tame(FlattenSeq(ss))
  BY <1>1, <1>2, EachTame
<1>. QED BY <1>3 DEF ss

LEMMA TameIngested == Tame(Ingested)
<1>1. Tame(<<[do |-> "observe", kind |-> "file", object |-> None, data |-> Headers.file]>>)
  BY One DEF Tame, Harmless
<1>. QED BY <1>1, TameOther, TameJoined DEF Ingested

LEMMA TameSymbols == Tame(Symbols)
<1>1. Tame(Each(LAMBDA r : Observe("import", r), Headers.imports))
  BY ObservedEach, HeadersListed DEF Each
<1>2. Tame(Each(LAMBDA r : Observe("export", Addressed(r)), Headers.exports))
  <2> DEFINE list == Headers.exports
             ss == [i \in DOMAIN list |-> Observe("export", Addressed(list[i]))]
  <2>1. \A i \in DOMAIN list : Tame(ss[i])
    BY TameObservation
  <2>2. ss = [i \in DOMAIN list |-> ss[i]]
    OBVIOUS
  <2>. HIDE DEF ss
  <2>3. Tame(FlattenSeq(ss))
    BY <2>1, <2>2, EachTame, HeadersListed
  <2>. QED BY <2>3 DEF Each, ss
<1>3. Tame(Each(LAMBDA r : Observe("symbol", Addressed(r) @@ [symbol_type |-> "unknown"]),
                Headers.symbols))
  <2> DEFINE list == Headers.symbols
             ss == [i \in DOMAIN list |->
                        Observe("symbol", Addressed(list[i]) @@ [symbol_type |-> "unknown"])]
  <2>1. \A i \in DOMAIN list : Tame(ss[i])
    BY TameObservation
  <2>2. ss = [i \in DOMAIN list |-> ss[i]]
    OBVIOUS
  <2>. HIDE DEF ss
  <2>3. Tame(FlattenSeq(ss))
    BY <2>1, <2>2, EachTame, HeadersListed
  <2>. QED BY <2>3 DEF Each, ss
<1>. QED BY <1>1, <1>2, <1>3, TameJoined DEF Symbols

LEMMA TameHardening == Tame(Hardening)
<1> DEFINE list == Headers.hardening
           ss == [i \in DOMAIN list |->
                    Says(ClaimOf("binary_hardening", list[i], {Locus(FileId)}),
                         90, Triage, "header-flags")]
<1>1. \A i \in DOMAIN list : Tame(ss[i])
  BY TameOther
<1>2. ss = [i \in DOMAIN list |-> ss[i]]
  OBVIOUS
<1>. HIDE DEF ss
<1>3. Tame(FlattenSeq(ss))
  BY <1>1, <1>2, EachTame, HeadersListed
<1>. QED BY <1>3 DEF Each, Hardening, ss

\* The places of what triage found are those of a list.
LEMMA PlacesListed ==
    LET all == [i \in DOMAIN Headers.strings |-> i] IN
    IsList(all) /\ DOMAIN all = DOMAIN Headers.strings /\ \A i \in DOMAIN all : all[i] = i
<1> DEFINE all == [i \in DOMAIN Headers.strings |-> i]
<1>1. IsList(Headers.strings) /\ all = [i \in DOMAIN Headers.strings |-> all[i]]
  BY HeadersListed
<1>. HIDE DEF all
<1>2. IsList(all)
  BY <1>1, EachListed
<1>. QED BY <1>2 DEF all

\* What triage keeps is what its detectors said.
LEMMA KeptKnown ==
    ASSUME NEW i
    PROVE  /\ IsList(Kept(i))
           /\ \A d \in ToSet(Kept(i)) : d.predicate # "uses_risky_api"
<1> DEFINE text == Headers.strings[i].text
           list == DetectedIn(text)
           D == {d \in ToSet(list) : d.predicate # "uses_risky_api"}
           ss == [n \in DOMAIN list |->
                    IF Suspicious(list[n]) => SeenBefore(i, list[n].statement.category) < SuspiciousLimit
                    THEN <<list[n]>> ELSE << >>]
<1>1. IsList(list) /\ \A n \in DOMAIN list : list[n] \in D
  BY DetectionsKnown DEF ToSet
<1>2. \A n \in DOMAIN list : ss[n] \in Seq(D)
  <2>1. \A d \in D : <<d>> \in Seq(D)
    <3>. HIDE DEF D
    <3>. QED OBVIOUS
  <2>2. << >> \in Seq(D)
    BY EmptySeq
  <2>. HIDE DEF D, list
  <2>. QED BY <1>1, <2>1, <2>2
<1>3. ss = [n \in DOMAIN list |-> ss[n]]
  OBVIOUS
<1>4. Kept(i) = FlattenSeq(ss)
  BY DEF Kept, Each
<1>. HIDE DEF ss, D, list
<1>5. ss \in Seq(Seq(D))
  <2>1. IsList(ss) /\ DOMAIN ss = DOMAIN list
    BY <1>1, <1>3, EachListed
  <2>2. ss \in [1 .. Len(ss) -> ToSet(ss)] /\ Len(ss) \in Nat
    BY <2>1, LenProperties DEF IsList
  <2>3. ss \in [1 .. Len(ss) -> Seq(D)]
    BY <1>2, <2>1, <2>2
  <2>. QED BY <2>2, <2>3
<1>6. FlattenSeq(ss) \in Seq(D)
  <2> DEFINE P == Seq(D)
  <2>1. << >> \in P /\ \A s, t \in P : s \o t \in P
    BY EmptySeq, ConcatProperties
  <2>. HIDE DEF P
  <2>. QED BY <1>5, <2>1, Flattened DEF P
<1>7. IsList(Kept(i)) /\ ToSet(Kept(i)) \subseteq D
  BY <1>4, <1>6, Listed
<1>. QED BY <1>7 DEF D

LEMMA TameStrings == Tame(Strings)
<1> DEFINE all == [i \in DOMAIN Headers.strings |-> i]
           plain == {i \in DOMAIN Headers.strings : Kept(i) = << >>}
           room == StringLimit - (Len(Headers.strings) - Cardinality(plain))
           Store(i) == Observe("string", Placed(Headers.strings[i]))
           Id(i) == IdIn("string", Placed(Headers.strings[i]))
           Says1(i) == FlattenSeq([n \in DOMAIN Kept(i) |-> Detected(Kept(i)[n], Id(i), Triage)])
           ss == [i \in DOMAIN all |-> IF all[i] \in plain THEN << >> ELSE Store(all[i]) \o Says1(all[i])]
           tt == [i \in DOMAIN all |-> IF all[i] \in plain /\ Cardinality({j \in plain : j < all[i]}) < room
                                     THEN Store(all[i]) ELSE << >>]
<1>1. Strings = FlattenSeq(ss) \o FlattenSeq(tt)
  BY DEF Strings, Each
<1>2. IsList(all)
  BY PlacesListed
<1>3. \A i : Tame(Store(i))
  BY TameObservation
<1>4. \A i : Tame(Says1(i))
  <2>. SUFFICES ASSUME NEW i PROVE Tame(Says1(i))
    OBVIOUS
  <2> DEFINE list == Kept(i)  dd == [n \in DOMAIN list |-> Detected(list[n], Id(i), Triage)]
  <2>1. IsList(list) /\ \A n \in DOMAIN list : list[n].predicate # "uses_risky_api"
    BY KeptKnown DEF ToSet
  <2>2. dd = [n \in DOMAIN list |-> dd[n]] /\ \A n \in DOMAIN list : Tame(dd[n])
    BY <2>1, TameDetected
  <2>3. Says1(i) = FlattenSeq(dd)
    OBVIOUS
  <2>. HIDE DEF dd, list, Says1
  <2>4. Tame(FlattenSeq(dd))
    BY <2>1, <2>2, EachTame
  <2>. QED BY <2>3, <2>4
<1>. HIDE DEF Store, Says1, plain, room
<1>5. \A i \in DOMAIN all : Tame(ss[i]) /\ Tame(tt[i])
  BY <1>3, <1>4, TameNothing, TameJoined
<1>6. ss = [i \in DOMAIN all |-> ss[i]] /\ tt = [i \in DOMAIN all |-> tt[i]]
  OBVIOUS
<1>. HIDE DEF ss, tt, all
<1>7. Tame(FlattenSeq(ss)) /\ Tame(FlattenSeq(tt))
  BY <1>2, <1>5, <1>6, EachTame
<1>. QED BY <1>1, <1>7, TameJoined

\* Lists have finitely many members.
LEMMA RangeFinite == ASSUME NEW s, IsList(s) PROVE IsFiniteSet(ToSet(s))
<1>1. Len(s) \in Nat /\ DOMAIN s = 1 .. Len(s) /\ IsFiniteSet(1 .. Len(s))
  BY Listed, FS_Interval DEF IsList
<1>2. s \in [1 .. Len(s) -> ToSet(s)]
  BY LenProperties DEF IsList
<1>3. s \in Surjection(1 .. Len(s), ToSet(s))
  BY <1>1, <1>2 DEF Surjection, ToSet
<1>. QED BY <1>1, <1>3, FS_Surjection

\* SetToSeq lists a finite set.
LEMMA SetListed ==
    ASSUME NEW S, IsFiniteSet(S)
    PROVE  IsList(SetToSeq(S)) /\ ToSet(SetToSeq(S)) = S
<1> DEFINE N == Cardinality(S)  s == SetToSeq(S)
<1>1. N \in Nat /\ ExistsBijection(1 .. N, S)
  BY FS_CardinalityType
<1>2. PICK f : f \in Bijection(1 .. N, S)
  BY <1>1 DEF ExistsBijection
<1>3. f \in [1 .. N -> S] /\ IsInjective(f)
  BY <1>2 DEF Bijection, Injection, IsInjective
<1>4. s \in [1 .. N -> S] /\ IsInjective(s)
  BY <1>3 DEF SetToSeq
<1>. HIDE DEF s
<1>5. s \in Injection(1 .. N, S)
  BY <1>4 DEF Injection, IsInjective
<1>6. Cardinality(1 .. N) = N
  BY <1>1, FS_Interval
<1>7. s \in Surjection(1 .. N, S)
  BY <1>5, <1>6, FS_Injection
<1>8. s \in Seq(S) /\ DOMAIN s = 1 .. N
  BY <1>1, <1>4
<1>9. IsList(s) /\ ToSet(s) \subseteq S
  BY <1>8, Listed
<1>10. S \subseteq ToSet(s)
  BY <1>7, <1>8 DEF Surjection, ToSet
<1>. QED BY <1>9, <1>10 DEF s

\* The claims a script makes.
Asserted(s) == {x.claim : x \in {y \in ToSet(s) : y.do = "assert"}}

\* Few names are risky.
LEMMA RecordedFinite == IsFiniteSet(Recorded)
<1> DEFINE R == ToSet(Headers.imports) \cup ToSet(Headers.symbols)
           f == [r \in R |-> r.name]  N == {f[r] : r \in R}
<1>1. IsFiniteSet(R)
  BY RangeFinite, HeadersListed, FS_Union
<1>2. f \in Surjection(R, N)
  BY DEF Surjection
<1>. HIDE DEF f
<1>3. IsFiniteSet(N)
  BY <1>1, <1>2, FS_Surjection
<1>4. Recorded \subseteq N
  BY DEF Recorded, RiskyNames, f
<1>. QED BY <1>3, <1>4, FS_Subset

\* Triage makes all of its claims on risky APIs, and no others of this predicate.
LEMMA RiskyClaimsMade == Tame(RiskyClaims) /\ Coarse \subseteq Asserted(RiskyClaims)
<1> DEFINE list == SetToSeq(Recorded)
           Said(n) == Says(CoarseClaim(n), RiskyApis[n].confidence, Triage, "symbol-table-rule")
           ss == [i \in DOMAIN list |-> Said(list[i])]
<1>1. IsList(list) /\ ToSet(list) = Recorded
  BY RecordedFinite, SetListed
<1>2. RiskyClaims = FlattenSeq(ss)
  BY DEF RiskyClaims, Recorded, CoarseClaim, Each
<1>. HIDE DEF list
<1>3. \A i \in DOMAIN list : list[i] \in Recorded /\ CoarseClaim(list[i]) \in Coarse
  BY <1>1 DEF ToSet, Coarse
<1>4. \A i \in DOMAIN list : Tame(ss[i])
  <2>1. ASSUME NEW i \in DOMAIN list PROVE Tame(Said(list[i]))
    BY <1>3, TameSaying
  <2>. QED BY <2>1
<1>5. ss = [i \in DOMAIN list |-> ss[i]]
  OBVIOUS
<1>6. ASSUME NEW n \in Recorded
      PROVE  \E x \in ToSet(FlattenSeq(ss)) : x.do = "assert" /\ x.claim = CoarseClaim(n)
  <2>1. PICK i \in DOMAIN list : list[i] = n
    BY <1>1 DEF ToSet
  <2> DEFINE x == [do |-> "assert", claim |-> CoarseClaim(n),
                   confidence |-> RiskyApis[n].confidence,
                   producer |-> Triage, method |-> "symbol-table-rule"]
             U == UNION {ToSet(ss[j]) : j \in DOMAIN ss}
  <2>2. ss[i] = <<x>>
    BY <2>1 DEF Says
  <2>3. x.do = "assert" /\ x.claim = CoarseClaim(n)
    OBVIOUS
  <2>. HIDE DEF x, Said
  <2>4. i \in DOMAIN ss /\ x \in ToSet(ss[i])
    BY <2>2, One
  <2>5. ss \in Seq(Seq(U))
    <3>. HIDE DEF ss
    <3>1. IsList(ss) /\ DOMAIN ss = DOMAIN list
      BY <1>1, <1>5, EachListed
    <3>2. \A j \in DOMAIN ss : ss[j] \in Seq(U)
      <4>. SUFFICES ASSUME NEW j \in DOMAIN ss PROVE ss[j] \in Seq(U)
        OBVIOUS
      <4>1. ss[j] \in Seq(ToSet(ss[j])) /\ ToSet(ss[j]) \subseteq U
        BY <1>4, <3>1 DEF Tame, IsList
      <4>. HIDE DEF U
      <4>. QED BY <4>1
    <3>3. ss \in [1 .. Len(ss) -> ToSet(ss)] /\ Len(ss) \in Nat
      BY <3>1, LenProperties DEF IsList
    <3>. HIDE DEF U
    <3>4. ss \in [1 .. Len(ss) -> Seq(U)]
      BY <3>2, <3>3
    <3>. QED BY <3>3, <3>4
  <2>. HIDE DEF ss, U
  <2>6. x \in ToSet(FlattenSeq(ss))
    BY <2>4, <2>5, FlattenedHolds
  <2>. QED BY <2>3, <2>6
<1>. HIDE DEF ss, Said
<1>7. Tame(FlattenSeq(ss))
  BY <1>1, <1>4, <1>5, EachTame
<1>8. Coarse \subseteq Asserted(FlattenSeq(ss))
  BY <1>6 DEF Coarse, Asserted
<1>. QED BY <1>2, <1>7, <1>8

\* Two scripts make the claims of each.
LEMMA AssertedJoined ==
    ASSUME NEW s, NEW t, IsList(s), IsList(t)
    PROVE  Asserted(s \o t) = Asserted(s) \cup Asserted(t)
<1>1. ToSet(s \o t) = ToSet(s) \cup ToSet(t)
  BY Joined
<1>. QED BY <1>1 DEF Asserted

\* So whatever else triage says, it says all of that.
LEMMA TriageTells ==
    ASSUME NEW emit
    PROVE  Tame(TriageInto(emit)) /\ Coarse \subseteq Asserted(TriageInto(emit))
<1> DEFINE sections == FlattenSeq([i \in DOMAIN Headers.sections |->
                                    Observe("section", Headers.sections[i])])
           strings == IF emit /\ Headers.file.format # "compressed" THEN Strings ELSE << >>
           a == Ingested \o sections
           b == a \o Symbols
           c == b \o Hardening
           d == c \o RiskyClaims
<1>1. TriageInto(emit) = d \o strings
  BY DEF TriageInto, Each
<1>2. Tame(sections)
  BY ObservedEach, HeadersListed
<1>3. Tame(strings)
  BY TameStrings, TameNothing
<1>. HIDE DEF sections, strings
<1>4. Tame(a)
  BY <1>2, TameIngested, TameJoined
<1>5. Tame(b)
  BY <1>4, TameSymbols, TameJoined
<1>6. Tame(c)
  BY <1>5, TameHardening, TameJoined
<1>. HIDE DEF a, b, c
<1>7. Tame(d) /\ Coarse \subseteq Asserted(d)
  BY <1>6, RiskyClaimsMade, TameJoined, AssertedJoined DEF Tame
<1>. HIDE DEF d
<1>. QED BY <1>1, <1>3, <1>7, TameJoined, AssertedJoined DEF Tame

-----------------------------------------------------------------------------
(* The scripts of Ghidra, QEMU and agents *)

\* The parts of a Ghidra import, of which the imports are not tame.
LEMMA TameFunctions == Tame(Functions)
<1> DEFINE list == Disassembly.functions
           Said(r) == IF r.name \in AutoNamed \/ r.is_thunk \/ r.is_external THEN << >>
                      ELSE Says(ClaimOf("defines_function", [name |-> r.name, addr |-> r.addr_start],
                                        {Locus(IdIn("function", r))}),
                                95, Ghidra, "ghidra-function-recovery")
           ss == [i \in DOMAIN list |-> Observe("function", list[i]) \o Said(list[i])]
<1>1. Functions = FlattenSeq(ss)
  BY DEF Functions, Each
<1>2. \A r : Tame(Said(r))
  BY TameOther, TameNothing
<1>. HIDE DEF Said
<1>3. \A i \in DOMAIN list : Tame(ss[i])
  BY <1>2, TameObservation, TameJoined
<1>4. ss = [i \in DOMAIN list |-> ss[i]]
  OBVIOUS
<1>. HIDE DEF ss
<1>. QED BY <1>1, <1>3, <1>4, EachTame, DisassemblyListed

LEMMA TameGhidraStrings == Tame(GhidraStrings)
<1> DEFINE list == Disassembly.strings
           Found(r) == DetectedIn(r.text)
           dd(r) == [n \in DOMAIN Found(r) |->
                        IF Suspicious(Found(r)[n]) THEN << >>
                        ELSE Detected(Found(r)[n], IdIn("string", r), Ghidra)]
           ss == [i \in DOMAIN list |->
                    IF {"addr", "file_offset"} \cap DOMAIN list[i] = {} THEN << >>
                    ELSE Observe("string", list[i]) \o FlattenSeq(dd(list[i]))]
<1>1. GhidraStrings = FlattenSeq(ss)
  BY DEF GhidraStrings, Each
<1>2. ASSUME NEW r PROVE Tame(FlattenSeq(dd(r)))
  <2> DEFINE found == Found(r)  d == dd(r)
  <2>1. IsList(found) /\ \A n \in DOMAIN found : found[n].predicate # "uses_risky_api"
    BY DetectionsKnown DEF ToSet
  <2>2. d = [n \in DOMAIN found |-> d[n]] /\ \A n \in DOMAIN found : Tame(d[n])
    BY <2>1, TameDetected, TameNothing
  <2>. HIDE DEF found, d
  <2>3. Tame(FlattenSeq(d))
    BY <2>1, <2>2, EachTame
  <2>. QED BY <2>3 DEF d
<1>. HIDE DEF dd
<1>3. \A i \in DOMAIN list : Tame(ss[i])
  BY <1>2, TameNothing, TameObservation, TameJoined
<1>4. ss = [i \in DOMAIN list |-> ss[i]]
  OBVIOUS
<1>. HIDE DEF ss
<1>. QED BY <1>1, <1>3, <1>4, EachTame, DisassemblyListed

LEMMA TameExports == Tame(Exports)
<1> DEFINE list == Disassembly.exports
           Said(r) == IF r.name \in AutoNamed THEN << >>
                      ELSE Says(ClaimOf("exports_symbol", [symbol |-> r.name],
                                        {Locus(IdIn("export", r))}),
                                95, Ghidra, "ghidra-symbol-table")
           ss == [i \in DOMAIN list |->
                    IF "addr" \notin DOMAIN list[i] THEN << >>
                    ELSE Observe("export", list[i]) \o Said(list[i])]
<1>1. Exports = FlattenSeq(ss)
  BY DEF Exports, Each
<1>2. \A r : Tame(Said(r))
  BY TameOther, TameNothing
<1>. HIDE DEF Said
<1>3. \A i \in DOMAIN list : Tame(ss[i])
  BY <1>2, TameNothing, TameObservation, TameJoined
<1>4. ss = [i \in DOMAIN list |-> ss[i]]
  OBVIOUS
<1>. HIDE DEF ss
<1>. QED BY <1>1, <1>3, <1>4, EachTame, DisassemblyListed

\* A claim with call sites is followed by its lineage.
LEMMA ProperRiskyImport == ASSUME NEW r PROVE Proper(RiskyImport(r))
<1>1. CASE r.name \notin DOMAIN RiskyApis
  BY <1>1, TameNothing, TameIsProper DEF RiskyImport
<1>2. CASE r.name \in DOMAIN RiskyApis
  <2> DEFINE claim == SitedClaim(r)
             bonus == IF Sites(r.name) = << >> THEN 0 ELSE 5
             c == Min({99, RiskyApis[r.name].confidence + bonus})
             x == [do |-> "assert", claim |-> claim, confidence |-> c,
                   producer |-> Ghidra, method |-> "ghidra-xref"]
             y == [do |-> "refine", claim |-> claim]
  <2>1. /\ claim.predicate = "uses_risky_api" /\ claim.subject = FileId
        /\ Sites(r.name) = << >> => "call_site_count" \notin DOMAIN claim.statement
    BY DEF SitedClaim, ClaimOf
  <2>2. RiskyImport(r) = <<x>> \o (IF bonus = 0 THEN << >> ELSE <<y>>)
    BY <1>2 DEF RiskyImport, Says
  <2>3. x.do = "assert" /\ x.producer = Ghidra /\ x.claim = claim /\ y.do = "refine" /\ y.claim = claim
    OBVIOUS
  <2>. HIDE DEF x, y, claim
  <2>4. CASE Sites(r.name) = << >>
    <3> DEFINE s == <<x>>
    <3>1. RiskyImport(r) = s
      <4>1. <<x>> \in Seq({x})
        OBVIOUS
      <4>. QED BY <2>2, <2>4, <4>1, ConcatEmptySeq
    <3>2. IsList(s) /\ DOMAIN s = 1 .. 1 /\ s[1] = x
      BY One
    <3>3. \A i \in DOMAIN s : Sited(s, i)
      <4>1. \A i \in 1 .. 1 : i = 1
        OBVIOUS
      <4>. QED BY <2>1, <2>3, <2>4, <3>2, <4>1 DEF Sited
    <3>. QED BY <3>1, <3>2, <3>3 DEF Proper
  <2>5. CASE Sites(r.name) # << >>
    <3> DEFINE s == <<x>> \o <<y>>
    <3>1. RiskyImport(r) = s
      BY <2>2, <2>5
    <3>2. IsList(s) /\ DOMAIN s = 1 .. 2 /\ s[1] = x /\ s[2] = y
      <4>1. Len(<<x>>) = 1 /\ Len(<<y>>) = 1
        OBVIOUS
      <4>2. \A i \in 1 .. 1 : (s)[i] = <<x>>[i] /\ (s)[1 + i] = <<y>>[i]
        BY <4>1, One, Joined
      <4>3. IsList(s) /\ DOMAIN s = 1 .. 1 + 1
        BY <4>1, One, Joined
      <4>4. 1 \in 1 .. 1 /\ 1 + 1 = 2
        OBVIOUS
      <4>. QED BY <4>2, <4>3, <4>4, One
    <3>. HIDE DEF s
    <3>3. Sited(s, 1) /\ s[2].do = "refine"
      <4>1. 1 + 1 \in DOMAIN s /\ 1 + 1 = 2
        BY <3>2
      <4>. QED BY <2>1, <2>3, <3>2, <4>1 DEF Sited
    <3>4. \A i \in DOMAIN s : i = 1 \/ i = 2
      BY <3>2
    <3>. QED BY <3>1, <3>2, <3>3, <3>4 DEF Proper
  <2>. QED BY <2>4, <2>5
<1>. QED BY <1>1, <1>2

LEMMA ProperImports == Proper(Imports)
<1> DEFINE list == Disassembly.imports
           Said(r) == Says(ClaimOf("imports_symbol",
                                   [symbol |-> r.name]
                                   @@ (IF "library" \in DOMAIN r THEN [library |-> r.library] ELSE << >>),
                                   {Locus(IdIn("import", r))}),
                           95, Ghidra, "ghidra-symbol-table")
           ss == [i \in DOMAIN list |->
                    Observe("import", list[i]) \o Said(list[i]) \o RiskyImport(list[i])]
<1>1. Imports = FlattenSeq(ss)
  BY DEF Imports, Each
<1>2. \A r : Tame(Said(r))
  BY TameOther
<1>. HIDE DEF Said
<1>3. \A i \in DOMAIN list : Proper(ss[i])
  BY <1>2, TameObservation, TameJoined, TameIsProper, ProperRiskyImport, ProperJoined
<1>4. ss = [i \in DOMAIN list |-> ss[i]]
  OBVIOUS
<1>. HIDE DEF ss
<1>. QED BY <1>1, <1>3, <1>4, EachProper, DisassemblyListed

\* The xrefs up to their limit are a list.
LEMMA ImportedListed == IsList(ImportedXrefs)
<1> DEFINE xrefs == Disassembly.xrefs  S == ToSet(xrefs)
           n == IF Len(xrefs) < MaxXrefs THEN Len(xrefs) ELSE MaxXrefs
<1>1. Len(xrefs) \in Nat /\ \A i \in 1 .. Len(xrefs) : xrefs[i] \in S
  BY DisassemblyListed, Listed DEF IsList, ToSet
<1>2. n \in Int /\ \A i \in 1 .. n : xrefs[i] \in S
  BY <1>1, AdaptersAssumption
<1>. HIDE DEF xrefs, n, S
<1>3. SubSeq(xrefs, 1, n) \in Seq(S)
  BY <1>2, SubSeqProperties
<1>. QED BY <1>3, Listed DEF ImportedXrefs, xrefs, n

\* The whole import.
LEMMA ProperImportExport == Proper(ImportExport)
<1> DEFINE Seen(kind, list) == FlattenSeq([i \in DOMAIN list |-> Observe(kind, list[i])])
           a == Seen("section", Disassembly.sections) \o Functions
           b == a \o GhidraStrings
           c == b \o Seen("symbol", Disassembly.symbols)
           d == c \o Seen("xref", ImportedXrefs)
           e == d \o Seen("decompilation", Disassembly.decompilation)
           f == e \o Imports
<1>1. ImportExport = f \o Exports
  BY DEF ImportExport, Each
<1>2. \A kind, list : IsList(list) => Tame(Seen(kind, list))
  BY ObservedEach
<1>. HIDE DEF Seen
<1>3. Tame(c)
  BY <1>2, DisassemblyListed, TameFunctions, TameGhidraStrings, TameJoined
<1>4. Tame(e)
  <2>. HIDE DEF c
  <2>. QED BY <1>2, <1>3, DisassemblyListed, ImportedListed, TameJoined
<1>. HIDE DEF e
<1>. QED BY <1>1, <1>4, TameIsProper, ProperImports, TameExports, ProperJoined

\* A trace, of the functions that a graph has.
LEMMA TameTrace ==
    ASSUME NEW g, IsFiniteSet(DOMAIN g.rows), NEW label
    PROVE  Tame(TraceScript(g, label))
<1> DEFINE trace == Traces[label]
           functions == Ranges(g)
           counts == Hottest(trace.log)
           base == CHOOSE b \in BasesFor(trace.given, counts, functions, None) : TRUE
           offset == Offset(base, None)
           In(r) == Inside(counts, functions, offset, r)
           Hit(r) == [addr |-> Min(In(r)) - offset, tool |-> "qemu-user",
                      hit_count |-> HitsIn(counts, In(r)), function_name |-> r.name,
                      run_label |-> label]
           Said(r) == Says(ClaimOf("function_reached",
                                   [name |-> r.name, addr |-> r.start, observed_by |-> "qemu_user",
                                    hit_count |-> Hit(r).hit_count],
                                   {Locus(r.id), Support(IdIn("trace_hit", Hit(r)))}),
                           ReachConfidence(trace.given, base, None), "ultron-qemu", "qemu-exec")
           reached == {r \in functions : In(r) # {}}
           list == InOrder(reached)
           ss == [i \in DOMAIN list |-> Observe("trace_hit", Hit(list[i])) \o Said(list[i])]
<1>1. TraceScript(g, label) = FlattenSeq(ss)
  BY DEF TraceScript, Each
<1>2. \A r : Tame(Said(r))
  BY TameOther
<1>3. IsFiniteSet(functions)
  <2> DEFINE I == {i \in DOMAIN g.rows : i.kind = "function" /\ i.object = FileId}
             RangeOf(id) == LET data == g.rows[id].data
                                end == Field(data, "addr_end", data.addr_start + Field(data, "size", 1))
                            IN  [start |-> data.addr_start, name |-> data.name, id |-> id,
                                 end |-> Max({end, data.addr_start + 1})]
             f == [id \in I |-> RangeOf(id)]
  <2>1. IsFiniteSet(I)
    BY FS_Subset
  <2>2. functions = {RangeOf(id) : id \in I}
    BY DEF Ranges
  <2>. HIDE DEF RangeOf, functions, I
  <2>3. f \in Surjection(I, functions)
    BY <2>2 DEF Surjection
  <2>. QED BY <2>1, <2>3, FS_Surjection
<1>. HIDE DEF Said, Hit, In, functions
<1>4. IsFiniteSet(reached)
  BY <1>3, FS_Subset
<1>. HIDE DEF reached
<1>5. IsList(list)
  <2> DEFINE Nth(n) == CHOOSE r \in reached : Cardinality({q \in reached : Before(q, r)}) = n - 1
             N == Cardinality(reached)
             S == {Nth(n) : n \in 1 .. N}
  <2>1. N \in Nat
    BY <1>4, FS_CardinalityType
  <2>2. list = [n \in 1 .. N |-> Nth(n)]
    BY DEF InOrder
  <2>. HIDE DEF Nth, list, N
  <2>3. list \in Seq(S)
    BY <2>1, <2>2
  <2>. QED BY <2>3, Listed
<1>. HIDE DEF list
<1>6. \A i \in DOMAIN list : Tame(ss[i])
  BY <1>2, TameObservation, TameJoined
<1>7. ss = [i \in DOMAIN list |-> ss[i]]
  OBVIOUS
<1>. HIDE DEF ss
<1>. QED BY <1>1, <1>5, <1>6, <1>7, EachTame

-----------------------------------------------------------------------------
(* The invariant *)

\* The constants of Convergence are those that Adapters gives.
AdaptersRun ==
    /\ Jobs = AdapterJobs
    /\ \A job, g : Script(job, g) = AdapterScript(job, g)
    /\ \A job, g : Startable(job, g) <=> AdapterStartable(job, g)

\* No agent calls itself triage or Ghidra when it speaks of a risky API.
NoImpostors ==
    \A s \in Submissions :
        s.claim.predicate = "uses_risky_api" => s.producer \notin {Triage, Ghidra}

\* Before a script links anything the claims of triage are there or have been
\* made, and no file is without them when it has ended.
Due(g, s) ==
    /\ Proper(s)
    /\ \A i \in DOMAIN s : s[i].do = "refine" =>
        \A k \in Coarse : k \in g.claims \/ \E j \in 1 .. i - 1 : s[j].do = "assert" /\ s[j].claim = k
    /\ FileId \in DOMAIN g.rows \/ (\E i \in DOMAIN s : s[i].do = "observe" /\ s[i].kind = "file")
       => Coarse \subseteq g.claims \cup Asserted(s)

Linked(g, j) ==
    \A k \in Coarse : k.statement.api = j.statement.api => [src |-> j, dst |-> k] \in g.links

\* What is attested of risky APIs: triage's claims, and Ghidra's with call
\* sites, each of which is linked, or about to be.
Attributed(g, s) ==
    \A a \in g.attested : a.claim.predicate = "uses_risky_api" =>
        /\ a.producer = Triage => a.claim \in Coarse
        /\ a.producer = Ghidra /\ "call_site_count" \in DOMAIN a.claim.statement =>
            /\ a.claim.subject = FileId
            /\ \/ Linked(g, a.claim)
               \/ s # << >> /\ Head(s).do = "refine" /\ Head(s).claim = a.claim

LineageInv ==
    /\ Due(db, << >>) /\ Attributed(db, << >>)
    /\ Due(view, todo) /\ Attributed(view, todo)

\* What is due when nothing is left to say.
LEMMA NothingDue ==
    ASSUME NEW g
    PROVE  Due(g, << >>) <=> (FileId \in DOMAIN g.rows => Coarse \subseteq g.claims)
<1>1. Proper(<< >>) /\ IsList(<< >>)
  BY TameNothing, TameIsProper DEF Proper
<1>2. DOMAIN << >> = {}
  OBVIOUS
<1>3. Asserted(<< >>) = {}
  BY <1>2 DEF Asserted, ToSet
<1>. QED BY <1>1, <1>2, <1>3 DEF Due

\* Scripts without links.
LEMMA TameDue ==
    ASSUME NEW g, NEW s, Tame(s),
           FileId \in DOMAIN g.rows \/ (\E i \in DOMAIN s : s[i].do = "observe" /\ s[i].kind = "file")
           => Coarse \subseteq g.claims \cup Asserted(s)
    PROVE  Due(g, s)
<1>1. Proper(s)
  BY TameIsProper
<1>2. \A i \in DOMAIN s : s[i].do # "refine"
  BY DEF Tame, Harmless, ToSet
<1>. QED BY <1>1, <1>2 DEF Due

\* After triage anything may be said.
LEMMA TriagedDue ==
    ASSUME NEW g, NEW s, Tame(s), Coarse \subseteq Asserted(s), NEW t, Proper(t)
    PROVE  Due(g, s \o t)
<1> DEFINE u == s \o t
<1>1. /\ IsList(s) /\ IsList(t) /\ Len(s) \in Nat /\ DOMAIN s = 1 .. Len(s)
      /\ Len(t) \in Nat /\ DOMAIN u = 1 .. Len(s) + Len(t)
      /\ \A i \in 1 .. Len(s) : u[i] = s[i]
      /\ Asserted(u) = Asserted(s) \cup Asserted(t)
  BY Joined, AssertedJoined DEF Tame, Proper
<1>2. Proper(u)
  BY TameIsProper, ProperJoined
<1>. HIDE DEF u
<1>3. ASSUME NEW i \in DOMAIN u, u[i].do = "refine", NEW k \in Coarse
      PROVE  \E j \in 1 .. i - 1 : u[j].do = "assert" /\ u[j].claim = k
  <2>1. i \notin 1 .. Len(s)
    <3>1. \A j \in DOMAIN s : s[j].do # "refine"
      BY DEF Tame, Harmless, ToSet
    <3>. QED BY <1>1, <1>3, <3>1
  <2>2. PICK x \in ToSet(s) : x.do = "assert" /\ x.claim = k
    BY <1>3 DEF Asserted
  <2>3. PICK j \in DOMAIN s : s[j] = x
    BY DEF ToSet
  <2>4. j \in 1 .. i - 1 /\ u[j] = x
    BY <1>1, <2>1, <2>3
  <2>. QED BY <2>2, <2>4
<1>. QED BY <1>1, <1>2, <1>3 DEF Due, u

\* Every script of the adapters, on a graph in which files have been triaged.
LEMMA ScriptsDue ==
    ASSUME NoImpostors, NEW g, IsFiniteSet(DOMAIN g.rows), Due(g, << >>),
           NEW job \in AdapterJobs, AdapterStartable(job, g)
    PROVE  Due(g, AdapterScript(job, g))
<1> DEFINE s == AdapterScript(job, g)
<1>0. FileId \in DOMAIN g.rows => Coarse \subseteq g.claims
  BY NothingDue
<1>1. \/ job \in [engine : {"triage"}] \/ job \in [engine : {"ghidra"}, target : BOOLEAN]
      \/ job \in [engine : {"qemu"}, target : BOOLEAN, trace : DOMAIN Traces]
      \/ job \in [engine : {"mcp"}, submission : Submissions]
  BY DEF AdapterJobs
\* What is attached to a file, triaged just before or in the project.
<1>2. ASSUME NEW t, Proper(t), "target" \in DOMAIN job, job.target \in BOOLEAN
      PROVE  Due(g, Subject(job) \o t)
  <2>1. CASE job.target
    <3>1. Subject(job) = TriageInto(FALSE)
      BY <2>1 DEF Subject
    <3>. QED BY <1>2, <3>1, TriageTells, TriagedDue
  <2>2. CASE ~ job.target
    <3>1. FileId \in DOMAIN g.rows
      BY <1>2, <2>2 DEF AdapterStartable
    <3>2. Subject(job) \o t = t
      <4>1. t \in Seq(ToSet(t)) /\ Subject(job) = << >>
        BY <1>2, <2>2 DEF Proper, IsList, Subject
      <4>. QED BY <4>1, ConcatEmptySeq
    <3>. QED BY <1>0, <1>2, <3>1, <3>2 DEF Due
  <2>. QED BY <1>2, <2>1, <2>2
<1>3. CASE job \in [engine : {"triage"}]
  <2>1. s = TriageInto(TRUE)
    BY <1>3 DEF AdapterScript
  <2>. QED BY <2>1, TriageTells, TameDue
<1>4. CASE job \in [engine : {"ghidra"}, target : BOOLEAN]
  <2>1. s = Subject(job) \o ImportExport
    BY <1>4 DEF AdapterScript
  <2>2. "target" \in DOMAIN job /\ job.target \in BOOLEAN
    BY <1>4
  <2>. QED BY <1>2, <2>1, <2>2, ProperImportExport
<1>5. CASE job \in [engine : {"qemu"}, target : BOOLEAN, trace : DOMAIN Traces]
  <2>1. s = Subject(job) \o TraceScript(g, job.trace)
    BY <1>5 DEF AdapterScript
  <2>2. "target" \in DOMAIN job /\ job.target \in BOOLEAN
    BY <1>5
  <2>3. Proper(TraceScript(g, job.trace))
    BY TameTrace, TameIsProper
  <2>. QED BY <1>2, <2>1, <2>2, <2>3
<1>6. CASE job \in [engine : {"mcp"}, submission : Submissions]
  <2> DEFINE m == job.submission
             x == [do |-> "assert", claim |-> m.claim, confidence |-> m.confidence,
                   producer |-> m.producer, method |-> "agent-reasoning"]
  <2>1. s = Says(m.claim, m.confidence, m.producer, "agent-reasoning") /\ m \in Submissions
    BY <1>6 DEF AdapterScript
  <2>2. Tame(s)
    BY <2>1, TameSaying DEF NoImpostors
  <2>3. s = <<x>>
    BY <2>1 DEF Says
  <2>4. \A i \in DOMAIN s : s[i].do = "assert"
    <3>1. \A i \in 1 .. 1 : i = 1
      OBVIOUS
    <3>2. x.do = "assert"
      OBVIOUS
    <3>. HIDE DEF x, s
    <3>. QED BY <2>3, <3>1, <3>2, One
  <2>5. Due(g, s)
    <3>. HIDE DEF s
    <3>. QED BY <1>0, <2>2, <2>4, TameDue
  <2>. QED BY <2>5
<1>7. Due(g, s)
  BY ONLY <1>1, <1>3, <1>4, <1>5, <1>6
<1>. QED BY <1>7

\* What is left of a script after its first statement.
LEMMA NextStatement ==
    ASSUME NEW s, Proper(s), s # << >>
    PROVE  LET t == Tail(s) IN
           /\ Proper(t) /\ 1 \in DOMAIN s /\ Head(s) = s[1]
           /\ \A i \in DOMAIN t : i \in Nat \ {0} /\ i + 1 \in DOMAIN s /\ t[i] = s[i + 1]
           /\ \A i \in DOMAIN s : i # 1 => i - 1 \in DOMAIN t /\ t[i - 1] = s[i]
           /\ Asserted(s) = Asserted(t) \cup {x.claim : x \in {y \in {Head(s)} : y.do = "assert"}}
<1> DEFINE S == ToSet(s)  t == Tail(s)
<1>1. s \in Seq(S) /\ Len(s) \in Nat \ {0} /\ DOMAIN s = 1 .. Len(s)
  BY EmptySeq, LenProperties DEF Proper, IsList
<1>. HIDE DEF S
<1>2. /\ t \in Seq(S) /\ Len(t) = Len(s) - 1
      /\ \A i \in 1 .. Len(t) : t[i] = s[i + 1]
  BY <1>1, HeadTailProperties
<1>3. IsList(t) /\ DOMAIN t = 1 .. Len(t)
  BY <1>2, Listed
<1>4. Head(s) = s[1] /\ 1 \in DOMAIN s
  BY <1>1
<1>. HIDE DEF t
<1>5. \A i \in DOMAIN t : i \in Nat \ {0} /\ i + 1 \in DOMAIN s /\ t[i] = s[i + 1]
  BY <1>1, <1>2, <1>3
<1>6. \A i \in DOMAIN s : i # 1 => i - 1 \in DOMAIN t /\ t[i - 1] = s[i]
  <2>1. \A i \in DOMAIN s : i # 1 => i - 1 \in DOMAIN t /\ (i - 1) + 1 = i
    BY <1>1, <1>2, <1>3
  <2>. QED BY <1>5, <2>1
<1>7. ASSUME NEW i \in DOMAIN t PROVE Harmless(t[i]) \/ t[i].do = "refine" \/ Sited(t, i)
  <2>1. Harmless(s[i + 1]) \/ s[i + 1].do = "refine" \/ Sited(s, i + 1)
    BY <1>5 DEF Proper
  <2>2. (i + 1) + 1 \in DOMAIN s => i + 1 \in DOMAIN t /\ t[i + 1] = s[(i + 1) + 1]
    <3>1. (i + 1) + 1 # 1 /\ ((i + 1) + 1) - 1 = i + 1
      BY <1>5
    <3>. QED BY <1>6, <3>1
  <2>. QED BY <1>5, <2>1, <2>2 DEF Sited
<1>8. ToSet(s) = ToSet(t) \cup {Head(s)}
  BY <1>4, <1>5, <1>6 DEF ToSet
<1>. QED BY <1>3, <1>4, <1>5, <1>6, <1>7, <1>8 DEF Proper, Asserted, t

\* One statement made: observed, asserted or linked.
LEMMA DueNext ==
    ASSUME NEW g, NEW h, NEW s, s # << >>, Due(g, s),
           g.claims \subseteq h.claims,
           FileId \in DOMAIN h.rows =>
              FileId \in DOMAIN g.rows \/ (Head(s).do = "observe" /\ Head(s).kind = "file"),
           Head(s).do = "assert" => Head(s).claim \in h.claims
    PROVE  Due(h, Tail(s))
<1> DEFINE t == Tail(s)
<1>1. /\ Proper(t) /\ 1 \in DOMAIN s /\ Head(s) = s[1]
      /\ \A i \in DOMAIN t : i \in Nat \ {0} /\ i + 1 \in DOMAIN s /\ t[i] = s[i + 1]
      /\ \A i \in DOMAIN s : i # 1 => i - 1 \in DOMAIN t /\ t[i - 1] = s[i]
      /\ Asserted(s) = Asserted(t) \cup {x.claim : x \in {y \in {Head(s)} : y.do = "assert"}}
  BY NextStatement DEF Due
<1>. HIDE DEF t
<1>2. DOMAIN s \subseteq Nat
  BY Listed DEF Due, Proper, IsList
<1>3. ASSUME NEW i \in DOMAIN t, t[i].do = "refine", NEW k \in Coarse
      PROVE  k \in h.claims \/ \E j \in 1 .. i - 1 : t[j].do = "assert" /\ t[j].claim = k
  <2>1. k \in g.claims \/ \E j \in 1 .. (i + 1) - 1 : s[j].do = "assert" /\ s[j].claim = k
    BY <1>1, <1>3 DEF Due
  <2>2. CASE \E j \in 1 .. (i + 1) - 1 : s[j].do = "assert" /\ s[j].claim = k
    <3>1. PICK j \in 1 .. (i + 1) - 1 : s[j].do = "assert" /\ s[j].claim = k
      BY <2>2
    <3>2. CASE j = 1
      BY <1>1, <3>1, <3>2
    <3>3. CASE j # 1
      <4>1. DOMAIN s = 1 .. Len(s) /\ Len(s) \in Nat
        BY Listed DEF Due, Proper, IsList
      <4>2. j \in DOMAIN s /\ j - 1 \in 1 .. i - 1
        BY <1>1, <3>1, <3>3, <4>1
      <4>. QED BY <1>1, <3>1, <3>3, <4>2
    <3>. QED BY <3>2, <3>3
  <2>. QED BY <2>1, <2>2
<1>4. ASSUME FileId \in DOMAIN h.rows \/ \E i \in DOMAIN t : t[i].do = "observe" /\ t[i].kind = "file"
      PROVE  Coarse \subseteq h.claims \cup Asserted(t)
  <2>1. FileId \in DOMAIN g.rows \/ \E i \in DOMAIN s : s[i].do = "observe" /\ s[i].kind = "file"
    BY <1>1, <1>4
  <2>2. Coarse \subseteq g.claims \cup Asserted(s)
    BY <2>1 DEF Due
  <2>3. Asserted(s) \subseteq Asserted(t) \cup h.claims
    BY <1>1
  <2>. QED BY <2>2, <2>3
<1>. QED BY <1>1, <1>3, <1>4 DEF Due, t

\* Nothing but a file has the id of the file.
LEMMA FileIsFile == FileId.kind = "file"
BY DEF FileId, ArtifactId

\* Coarse claims name no call sites.
LEMMA CoarseIs ==
    ASSUME NEW k \in Coarse
    PROVE  /\ k.predicate = "uses_risky_api" /\ k.subject = FileId
           /\ "call_site_count" \notin DOMAIN k.statement
BY DEF Coarse, CoarseClaim, ClaimOf

\* The empty project.
LEMMA LineageStarts == Init => LineageInv
<1>1. DOMAIN EmptyEvidence.rows = {} /\ EmptyEvidence.attested = {}
  BY DEF EmptyEvidence
<1>2. Due(EmptyEvidence, << >>) /\ Attributed(EmptyEvidence, << >>)
  BY <1>1, NothingDue DEF Attributed
<1>. QED BY <1>2 DEF Init, LineageInv

\* An attribution holds in any script if no claim is about to be linked.
LEMMA AttributedAnyhow ==
    ASSUME NEW g, Attributed(g, << >>), NEW s PROVE Attributed(g, s)
BY DEF Attributed

\* Every step: a claim with call sites is attested, and then linked to what
\* triage has said by then.
LEMMA LineageSteps ==
    AdaptersRun /\ NoImpostors /\ IInv /\ TellingInv /\ LineageInv /\ [Next]_vars => LineageInv'
<1>. SUFFICES ASSUME AdaptersRun, NoImpostors, IInv, TellingInv, LineageInv, [Next]_vars
              PROVE  LineageInv'
  OBVIOUS
<1>a. UNCHANGED db => Due(db', << >>) /\ Attributed(db', << >>)
  BY DEF LineageInv
<1>b. DOMAIN view = {"rows", "claims", "attested", "links"}
  BY DEF IInv, Sound, Shaped
<1>1. ASSUME NEW job \in Jobs, Begin(job) PROVE LineageInv'
  <2>1. UNCHANGED <<db, view>> /\ todo' = AdapterScript(job, db) /\ view = db
        /\ job \in AdapterJobs /\ AdapterStartable(job, db)
    BY <1>1 DEF Begin, AdaptersRun, IInv
  <2>2. IsFiniteSet(DOMAIN db.rows)
    <3> DEFINE f == [i \in DOMAIN told |-> IdOf(told[i])]
    <3>1. IsFiniteSet(DOMAIN told)
      <4>1. told \in Seq(Range(told))
        BY DEF TellingInv, Tells, IsHistory
      <4>. QED BY <4>1, LenProperties, FS_Interval
    <3>2. f \in Surjection(DOMAIN told, DOMAIN db.rows)
      BY DEF TellingInv, Tells, TellsRows, Surjection
    <3>. QED BY <3>1, <3>2, FS_Surjection
  <2>3. Due(db, todo')
    BY <2>1, <2>2, ScriptsDue DEF LineageInv
  <2>4. Attributed(db, todo')
    BY AttributedAnyhow DEF LineageInv
  <2>. QED BY <1>a, <2>1, <2>3, <2>4 DEF LineageInv
<1>2. CASE AddArtifact
  <2>1. /\ todo # << >> /\ Head(todo).do = "observe" /\ todo' = Tail(todo) /\ UNCHANGED db
        /\ view' = PutArtifact(view, Head(todo))
    BY <1>2 DEF AddArtifact, Advance, NextIs
  <2>2. /\ view'.claims = view.claims /\ view'.attested = view.attested /\ view'.links = view.links
        /\ DOMAIN view'.rows = DOMAIN view.rows \cup {IdOf(Head(todo))}
    BY <1>b, <2>1 DEF PutArtifact, IdOf
  <2>3. IdOf(Head(todo)) = FileId => Head(todo).kind = "file"
    BY FileIsFile DEF IdOf, ArtifactId
  <2>4. Due(view', todo')
    BY <2>1, <2>2, <2>3, DueNext DEF LineageInv
  <2>5. Attributed(view', todo')
    BY <2>1, <2>2 DEF LineageInv, Attributed, Linked
  <2>. QED BY <1>a, <2>1, <2>4, <2>5 DEF LineageInv
<1>3. CASE AddClaim
  <2> DEFINE x == Head(todo)
             b == [claim |-> x.claim, producer |-> x.producer, run |-> run,
                   method |-> x.method, confidence |-> x.confidence]
  <2>1. /\ todo # << >> /\ x.do = "assert" /\ todo' = Tail(todo) /\ UNCHANGED db
        /\ view' = PutClaim(view, x, run)
    BY <1>3 DEF AddClaim, Advance, NextIs
  <2>2. /\ view'.claims = view.claims \cup {x.claim} /\ view'.links = view.links
        /\ view'.rows = view.rows /\ view'.attested \subseteq view.attested \cup {b}
    BY <1>b, <2>1 DEF PutClaim, Attest
  <2>3. b.claim = x.claim /\ b.producer = x.producer
    OBVIOUS
  <2>. HIDE DEF b
  <2>4. Due(view', todo')
    BY <2>1, <2>2, DueNext DEF LineageInv
  <2>5. /\ Proper(todo) /\ 1 \in DOMAIN todo /\ x = todo[1]
        /\ \A i \in DOMAIN todo : i # 1 => i - 1 \in DOMAIN todo' /\ todo'[i - 1] = todo[i]
        /\ Proper(todo')
    BY <2>1, NextStatement DEF LineageInv, Due
  <2>6. Harmless(x) \/ Sited(todo, 1)
    BY <2>1, <2>5 DEF Proper
  <2>7. ASSUME NEW a \in view'.attested, a.claim.predicate = "uses_risky_api"
        PROVE  /\ a.producer = Triage => a.claim \in Coarse
               /\ a.producer = Ghidra /\ "call_site_count" \in DOMAIN a.claim.statement =>
                    /\ a.claim.subject = FileId
                    /\ \/ Linked(view', a.claim)
                       \/ todo' # << >> /\ Head(todo').do = "refine" /\ Head(todo').claim = a.claim
    <3>1. CASE a \in view.attested
      BY <2>1, <2>2, <2>7, <3>1 DEF LineageInv, Attributed, Linked
    <3>2. CASE a = b /\ Harmless(x)
      <4>1. x.producer \in {Triage, Ghidra} => x.producer = Triage /\ x.claim \in Coarse
        BY <2>1, <2>3, <2>7, <3>2 DEF Harmless
      <4>. QED BY <2>3, <3>2, <4>1 DEF Triage, Ghidra
    <3>3. CASE a = b /\ Sited(todo, 1)
      <4>1. x.producer = Ghidra /\ x.claim.subject = FileId
        BY <2>5, <3>3 DEF Sited
      <4>2. "call_site_count" \in DOMAIN x.claim.statement =>
              1 + 1 \in DOMAIN todo /\ todo[1 + 1].do = "refine" /\ todo[1 + 1].claim = x.claim
        BY <2>5, <3>3 DEF Sited
      <4>3. 1 + 1 \in DOMAIN todo => 1 \in DOMAIN todo' /\ todo'[1] = todo[1 + 1]
        <5>1. 1 + 1 # 1 /\ (1 + 1) - 1 = 1
          OBVIOUS
        <5>. QED BY <2>5, <5>1
      <4>4. 1 \in DOMAIN todo' => todo' # << >> /\ Head(todo') = todo'[1]
        <5>1. todo' \in Seq(ToSet(todo'))
          BY <2>5 DEF Proper, IsList
        <5>. QED BY <5>1
      <4>. QED BY <2>3, <3>3, <4>1, <4>2, <4>3, <4>4 DEF Triage, Ghidra
    <3>. QED BY <2>2, <2>6, <3>1, <3>2, <3>3
  <2>8. Attributed(view', todo')
    BY <2>7 DEF Attributed
  <2>. QED BY <1>a, <2>1, <2>4, <2>8 DEF LineageInv
<1>4. CASE LinkClaims
  <2> DEFINE j == Head(todo).claim
  <2>1. /\ todo # << >> /\ Head(todo).do = "refine" /\ todo' = Tail(todo) /\ UNCHANGED db
        /\ view' = Refine(view, j)
    BY <1>4 DEF LinkClaims, Advance, NextIs
  <2>2. /\ view'.claims = view.claims /\ view'.rows = view.rows /\ view'.attested = view.attested
        /\ view.links \subseteq view'.links
        /\ \A k \in view.claims \ {j} :
            /\ k.predicate = j.predicate /\ k.subject = j.subject
            /\ k.statement.api = j.statement.api /\ "call_site_count" \notin DOMAIN k.statement
            => [src |-> j, dst |-> k] \in view'.links
    BY <1>b, <2>1 DEF Refine
  <2>3. Due(view', todo')
    BY <2>1, <2>2, DueNext DEF LineageInv
  <2>4. Coarse \subseteq view.claims
    <3>1. 1 \in DOMAIN todo /\ todo[1].do = "refine"
      BY <2>1, NextStatement DEF LineageInv, Due
    <3>2. \A i \in 1 .. 1 - 1 : FALSE
      OBVIOUS
    <3>. QED BY <3>1, <3>2 DEF LineageInv, Due
  <2>5. ASSUME NEW a \in view.attested, a.claim.predicate = "uses_risky_api",
               a.producer = Ghidra, "call_site_count" \in DOMAIN a.claim.statement
        PROVE  a.claim.subject = FileId /\ Linked(view', a.claim)
    <3>1. a.claim.subject = FileId /\ (Linked(view, a.claim) \/ a.claim = j)
      BY <2>1, <2>5 DEF LineageInv, Attributed
    <3>2. CASE Linked(view, a.claim)
      BY <2>2, <3>1, <3>2 DEF Linked
    <3>3. CASE a.claim = j
      <4>1. \A k \in Coarse : k.statement.api = j.statement.api => [src |-> j, dst |-> k] \in view'.links
        BY <2>2, <2>4, <2>5, <3>1, <3>3, CoarseIs
      <4>. HIDE DEF j
      <4>. QED BY <3>1, <3>3, <4>1 DEF Linked
    <3>. QED BY <3>1, <3>2, <3>3
  <2>6. Attributed(view', todo')
    BY <2>2, <2>5 DEF LineageInv, Attributed
  <2>. QED BY <1>a, <2>1, <2>3, <2>6 DEF LineageInv
<1>5. CASE Commit
  <2>1. todo = << >> /\ todo' = << >> /\ db' = view /\ view' = view
    BY <1>5 DEF Commit
  <2>. QED BY <2>1 DEF LineageInv
<1>6. CASE Fail
  <2>1. todo' = << >> /\ db' = db /\ view' = db
    BY <1>6 DEF Fail, Close
  <2>. QED BY <2>1 DEF LineageInv
<1>7. CASE UNCHANGED vars
  BY <1>7 DEF vars, LineageInv
<1>. QED BY <1>1, <1>2, <1>3, <1>4, <1>5, <1>6, <1>7 DEF Next

\* Whatever the headers and Ghidra say of a file, and in whatever order and
\* however often triage, Ghidra, QEMU and agents look at it: no finding of
\* Ghidra with call sites stays beside triage's on the same API, unlinked.
THEOREM LineageIsRecorded ==
    ASSUME AdaptersRun, NoImpostors
    PROVE  Spec => []LineageRecorded
<1>1. IInv /\ TellingInv /\ LineageInv /\ [Next]_vars => LineageInv'
  BY LineageSteps
<1>2. LineageInv => LineageRecorded
  <2>. SUFFICES ASSUME LineageInv,
                       NEW j \in db.claims, NEW k \in db.claims, j.predicate = "uses_risky_api",
                       k.predicate = "uses_risky_api", AttestedBy(j, Ghidra),
                       "call_site_count" \in DOMAIN j.statement,
                       AttestedBy(k, Triage), k.statement.api = j.statement.api
                PROVE  [src |-> j, dst |-> k] \in db.links
    BY DEF LineageRecorded
  <2>1. PICK a \in db.attested : a.claim = j /\ a.producer = Ghidra
    BY DEF AttestedBy
  <2>2. PICK b \in db.attested : b.claim = k /\ b.producer = Triage
    BY DEF AttestedBy
  <2>3. k \in Coarse
    BY <2>2 DEF LineageInv, Attributed
  <2>4. Linked(db, j)
    BY <2>1 DEF LineageInv, Attributed
  <2>. QED BY <2>3, <2>4 DEF Linked
<1>3. Spec => []TellingInv
  BY TellingAlways
<1>. QED BY <1>1, <1>2, <1>3, LineageStarts, Invariance, PTL DEF Spec
=============================================================================
