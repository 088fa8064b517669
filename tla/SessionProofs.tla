---------------------------- MODULE SessionProofs ----------------------------
(***************************************************************************)
(* Theorems about Session, and the lemmas about the queries of Queries and *)
(* the sentences of Questions that they rest on, for any project, lines,   *)
(* tools called and number of changes by other processes.                  *)
(***************************************************************************)
EXTENDS Session, SequenceTheorems, FiniteSetTheorems, WellFoundedInduction, TLAPS

-----------------------------------------------------------------------------
(* Places in a sequence *)

LEMMA MaxOfTwo ==
    ASSUME NEW a \in Int, NEW b \in Int
    PROVE  Max({a, b}) = IF a >= b THEN a ELSE b
BY DEF Max

LEMMA MinOfTwo ==
    ASSUME NEW a \in Int, NEW b \in Int
    PROVE  Min({a, b}) = IF a <= b THEN a ELSE b
BY DEF Min

\* The place of i among those of a set of numbers.
Rank(I, i) == Cardinality({j \in I : j <= i})

LEMMA RankOf ==
    ASSUME NEW I, I \subseteq Nat, IsFiniteSet(I), NEW i \in I
    PROVE  Rank(I, i) \in 1 .. Cardinality(I)
<1> DEFINE upTo == {j \in I : j <= i}
<1>1. upTo \in SUBSET I /\ i \in upTo
  OBVIOUS
<1>2. IsFiniteSet(upTo) /\ Cardinality(upTo) <= Cardinality(I)
  BY <1>1, FS_Subset
<1>3. Cardinality(upTo) \in Nat /\ Cardinality(upTo) # 0 /\ Cardinality(I) \in Nat
  BY <1>1, <1>2, FS_CardinalityType, FS_EmptySet
<1>. QED BY <1>2, <1>3 DEF Rank

LEMMA RanksGrow ==
    ASSUME NEW I, I \subseteq Nat, IsFiniteSet(I), NEW i \in I, NEW k \in I, i < k
    PROVE  Rank(I, i) < Rank(I, k)
<1> DEFINE S == {j \in I : j <= i}  T == {j \in I : j <= k}
<1>1. S \in SUBSET T /\ T \in SUBSET I /\ k \in T /\ k \notin S
  <2>1. i \in Nat /\ k \in Nat /\ ~ k <= i /\ k <= k
    OBVIOUS
  <2>2. \A j \in I : j \in Nat /\ (j <= i => j <= k)
    BY <2>1
  <2>. QED BY <2>1, <2>2
<1> HIDE DEF S, T
<1>2. IsFiniteSet(T)
  BY <1>1, FS_Subset
<1>3. IsFiniteSet(S) /\ Cardinality(S) <= Cardinality(T) /\ Cardinality(S) # Cardinality(T)
  BY <1>1, <1>2, FS_Subset
<1>4. Cardinality(S) \in Nat /\ Cardinality(T) \in Nat
  BY <1>2, <1>3, FS_CardinalityType
<1>. QED BY <1>3, <1>4 DEF S, T, Rank

\* Every rank is that of one member.
LEMMA RanksOnto ==
    ASSUME NEW I, I \subseteq Nat, IsFiniteSet(I), NEW n \in 1 .. Cardinality(I)
    PROVE  \E i \in I : Rank(I, i) = n /\ \A k \in I : Rank(I, k) = n => k = i
<1> DEFINE f == [i \in I |-> Rank(I, i)]  c == Cardinality(I)
<1>1. c \in Nat /\ IsFiniteSet(1 .. c) /\ Cardinality(1 .. c) = c
  BY FS_CardinalityType, FS_Interval
<1>2. \A i, k \in I : Rank(I, i) = Rank(I, k) => i = k
  <2>. SUFFICES ASSUME NEW i \in I, NEW k \in I, Rank(I, i) = Rank(I, k), i # k PROVE FALSE
    OBVIOUS
  <2>1. Rank(I, i) \in 1 .. c /\ Rank(I, k) \in 1 .. c
    BY RankOf
  <2>2. Rank(I, i) \in Nat
    BY <1>1, <2>1
  <2>3. i < k \/ k < i
    OBVIOUS
  <2>4. i < k => Rank(I, i) < Rank(I, k)
    BY RanksGrow
  <2>5. k < i => Rank(I, k) < Rank(I, i)
    BY RanksGrow
  <2>. QED BY <2>2, <2>3, <2>4, <2>5
<1>3. f \in Injection(I, 1 .. c)
  BY <1>2, RankOf DEF Injection, IsInjective
<1>4. f \in Surjection(I, 1 .. c)
  BY <1>1, <1>3, FS_Injection
<1>5. PICK i \in I : f[i] = n
  BY <1>4 DEF Surjection
<1>. QED BY <1>2, <1>5

\* Pick takes the members at the places, each at its rank.
LEMMA Picked ==
    ASSUME NEW S, NEW s \in Seq(S), NEW I, I \subseteq DOMAIN s
    PROVE  /\ IsFiniteSet(I) /\ Cardinality(I) \in Nat
           /\ Pick(s, I) \in Seq(S)
           /\ Len(Pick(s, I)) = Cardinality(I)
           /\ \A n \in 1 .. Cardinality(I) :
                \E i \in I : Rank(I, i) = n /\ Pick(s, I)[n] = s[i]
           /\ \A i \in I : Rank(I, i) \in 1 .. Cardinality(I) /\ Pick(s, I)[Rank(I, i)] = s[i]
<1> DEFINE c == Cardinality(I)  t == Pick(s, I)  at(n) == CHOOSE i \in I : Rank(I, i) = n
<1>1. Len(s) \in Nat /\ DOMAIN s = 1 .. Len(s) /\ s \in [1 .. Len(s) -> S]
  BY LenProperties
<1>2. IsFiniteSet(I) /\ c \in Nat
  <2>1. IsFiniteSet(1 .. Len(s)) /\ I \in SUBSET (1 .. Len(s))
    BY <1>1, FS_Interval
  <2>2. IsFiniteSet(I)
    BY <2>1, FS_Subset
  <2>. QED BY <2>2, FS_CardinalityType
<1>3. t = [n \in 1 .. c |-> s[at(n)]]
  BY DEF Pick, Rank
<1>4. ASSUME NEW n \in 1 .. c
      PROVE  at(n) \in I /\ Rank(I, at(n)) = n /\ \A k \in I : Rank(I, k) = n => k = at(n)
  <2>1. PICK i \in I : Rank(I, i) = n /\ \A k \in I : Rank(I, k) = n => k = i
    BY <1>1, <1>2, RanksOnto
  <2>. QED BY <2>1
<1>5. ASSUME NEW i \in I PROVE Rank(I, i) \in 1 .. c /\ at(Rank(I, i)) = i
  BY <1>1, <1>2, <1>4, RankOf
<1> HIDE DEF at, t
<1>6. t \in [1 .. c -> S]
  BY <1>1, <1>3, <1>4
<1>7. t \in Seq(S) /\ Len(t) = c
  BY <1>2, <1>6
<1>. QED BY <1>2, <1>3, <1>4, <1>5, <1>7 DEF t

LEMMA Clamped ==
    ASSUME NEW limit \in Nat
    PROVE  Clamp(limit) \in 1 .. MaxRows /\ (limit \in 1 .. MaxRows => Clamp(limit) = limit)
<1>1. MaxRows \in Nat /\ MaxRows >= 1
  BY QueriesAssumption
<1>2. Min({limit, MaxRows}) = IF limit <= MaxRows THEN limit ELSE MaxRows
  BY <1>1, MinOfTwo
<1>3. Max({1, Min({limit, MaxRows})}) =
        IF 1 >= Min({limit, MaxRows}) THEN 1 ELSE Min({limit, MaxRows})
  BY <1>1, <1>2, MaxOfTwo
<1>. QED BY <1>1, <1>2, <1>3 DEF Clamp

\* A page has the rows after the offset, up to the limit, and all of them when
\* it is not full.
LEMMA Sliced ==
    ASSUME NEW S, NEW rows \in Seq(S), NEW offset \in Nat, NEW limit \in Nat
    PROVE  LET page == Slice(rows, offset, limit) IN
           /\ page \in Seq(S) /\ Len(page) \in Nat
           /\ Len(page) <= Len(rows) /\ Len(page) <= limit
           /\ \A n \in 1 .. Len(page) : n + offset \in 1 .. Len(rows) /\ page[n] = rows[n + offset]
           /\ \A n \in 1 .. Len(rows) :
                n > offset /\ (n <= offset + limit \/ Len(page) < limit)
                    => n - offset \in 1 .. Len(page)
<1> DEFINE last == Min({offset + limit, Len(rows)})  page == SubSeq(rows, offset + 1, last)
<1>1. Len(rows) \in Nat /\ \A i \in 1 .. Len(rows) : rows[i] \in S
  BY LenProperties
<1>2. last = IF offset + limit <= Len(rows) THEN offset + limit ELSE Len(rows)
  BY <1>1, MinOfTwo
<1> HIDE DEF last
<1>3. last \in Nat /\ last <= Len(rows) /\ last <= offset + limit
  BY <1>1, <1>2
<1>4. \A i \in (offset + 1) .. last : rows[i] \in S
  BY <1>1, <1>3
<1>5. /\ page \in Seq(S)
      /\ Len(page) = IF offset + 1 <= last THEN last - (offset + 1) + 1 ELSE 0
      /\ \A i \in 1 .. last - (offset + 1) + 1 : page[i] = rows[(offset + 1) + i - 1]
  BY <1>3, <1>4, SubSeqProperties
<1> HIDE DEF page
<1>6. Len(page) = IF offset < last THEN last - offset ELSE 0
  BY <1>3, <1>5
<1>7. \A n \in 1 .. Len(page) : n + offset \in 1 .. Len(rows) /\ page[n] = rows[n + offset]
  <2>. SUFFICES ASSUME NEW n \in 1 .. Len(page)
                PROVE  n + offset \in 1 .. Len(rows) /\ page[n] = rows[n + offset]
    OBVIOUS
  <2>1. n \in 1 .. last - offset /\ n + offset \in 1 .. Len(rows)
    BY <1>1, <1>3, <1>6
  <2>2. last - (offset + 1) + 1 = last - offset /\ (offset + 1) + n - 1 = n + offset
    BY <1>3
  <2>. QED BY <1>5, <2>1, <2>2
<1>8. \A n \in 1 .. Len(rows) :
        n > offset /\ (n <= offset + limit \/ Len(page) < limit) => n - offset \in 1 .. Len(page)
  BY <1>1, <1>2, <1>6
<1>9. page = Slice(rows, offset, limit)
  BY DEF page, last, Slice
<1>. QED BY <1>1, <1>3, <1>5, <1>6, <1>7, <1>8, <1>9

-----------------------------------------------------------------------------
(* Recursive functions.  A set of numbers that has 0 and every successor   *)
(* of its members has them all; this takes the place of induction.         *)

LEMMA Counting ==
    ASSUME NEW T, 0 \in T, \A n \in Nat : n \in T => n + 1 \in T
    PROVE  \A n \in Nat : n \in T
<1> DEFINE Less == {ij \in Nat \X Nat : ij[1] < ij[2]}  Out == {n \in Nat : n \notin T}
<1>1. IsWellFoundedOn(Less, Nat)
  BY NatLessThanWellFounded DEF OpToRel
<1>. SUFFICES ASSUME Out # {} PROVE FALSE
  OBVIOUS
<1>2. PICK n \in Out : \A m \in Out : <<m, n>> \notin Less
  <2>1. Out \subseteq Nat
    OBVIOUS
  <2>. HIDE DEF Less, Out
  <2>. QED BY <1>1, <2>1, WFMin
<1>3. n \in Nat /\ n # 0 /\ n - 1 \in Nat /\ <<n - 1, n>> \in Less
  BY <1>2
<1>4. n - 1 \in T
  BY <1>2, <1>3
<1>5. (n - 1) + 1 = n
  BY <1>3
<1>. QED BY <1>2, <1>3, <1>4, <1>5

Iterates(p, start, step, N) ==
    p = [n \in 0 .. N |-> IF n = 0 THEN start ELSE step[<<n, p[n - 1]>>]]

\* What is computed from the value before is a function.
LEMMA IteratesExist ==
    ASSUME NEW W, NEW start \in W, NEW step, step \in [Nat \X W -> W], NEW N \in Nat
    PROVE  \E p \in [0 .. N -> W] : Iterates(p, start, step, N)
<1> DEFINE T == {n \in Nat : \E p \in [0 .. n -> W] : Iterates(p, start, step, n)}
<1>1. 0 \in T
  <2> DEFINE p == [i \in 0 .. 0 |-> start]
  <2>1. \A i \in 0 .. 0 : i = 0
    OBVIOUS
  <2>2. p \in [0 .. 0 -> W] /\ Iterates(p, start, step, 0)
    BY <2>1 DEF Iterates
  <2>. QED BY <2>2
<1>2. ASSUME NEW n \in Nat, n \in T PROVE n + 1 \in T
  <2>1. PICK q \in [0 .. n -> W] : Iterates(q, start, step, n)
    BY <1>2
  <2> DEFINE p == [i \in 0 .. n + 1 |-> IF i = n + 1 THEN step[<<n + 1, q[n]>>] ELSE q[i]]
  <2>2. n \in 0 .. n /\ n + 1 \in Nat /\ q[n] \in W /\ step[<<n + 1, q[n]>>] \in W
    BY <2>1
  <2>3. \A i \in 0 .. n + 1 : i # n + 1 =>
          i \in 0 .. n /\ (i # 0 => i - 1 \in 0 .. n /\ i - 1 # n + 1)
    OBVIOUS
  <2>4. p \in [0 .. n + 1 -> W]
    BY <2>2, <2>3
  <2>5. ASSUME NEW i \in 0 .. n + 1
        PROVE  p[i] = IF i = 0 THEN start ELSE step[<<i, p[i - 1]>>]
    <3>1. CASE i = n + 1
      <4>1. i # 0 /\ i - 1 = n /\ n \in 0 .. n + 1 /\ n # n + 1
        BY <3>1
      <4>2. p[n] = q[n] /\ p[i] = step[<<n + 1, q[n]>>]
        BY <3>1, <4>1
      <4>. QED BY <3>1, <4>1, <4>2
    <3>2. CASE i # n + 1
      <4>1. i \in 0 .. n /\ p[i] = q[i]
        BY <3>2, <2>3
      <4>2. q[i] = IF i = 0 THEN start ELSE step[<<i, q[i - 1]>>]
        BY <2>1, <4>1 DEF Iterates
      <4>3. i # 0 => i - 1 \in 0 .. n + 1 /\ p[i - 1] = q[i - 1]
        BY <3>2, <2>3
      <4>. QED BY <4>1, <4>2, <4>3
    <3>. QED BY <3>1, <3>2
  <2>6. Iterates(p, start, step, n + 1)
    BY <2>5 DEF Iterates
  <2>. QED BY <2>2, <2>4, <2>6
<1>3. \A n \in Nat : n \in T
  <2>. HIDE DEF T
  <2>. QED BY <1>1, <1>2, Counting
<1>. QED BY <1>3

-----------------------------------------------------------------------------
(* The project that queries see *)

\* Rows refer to rows that are there.
Whole(g) ==
    /\ g.artifacts \subseteq Artifacts
    /\ \A a \in g.artifacts : Holder[a] \subseteq g.artifacts
    /\ DOMAIN g.claims \subseteq Claims
    /\ \A k \in DOMAIN g.claims :
        /\ k.evidence \subseteq g.artifacts
        /\ k.subject \in g.artifacts \cup {None}
        /\ g.claims[k].confidence \in 0 .. 100
    /\ g.links \subseteq (DOMAIN g.claims) \X (DOMAIN g.claims)

\* Rows are never removed.
Grown(g, h) ==
    /\ g.artifacts \subseteq h.artifacts
    /\ DOMAIN g.claims \subseteq DOMAIN h.claims
    /\ g.links \subseteq h.links

LEMMA AllFinite == IsFiniteSet(Artifacts) /\ IsFiniteSet(Claims)
<1>1. ASSUME NEW S, NEW s \in Seq(S) PROVE IsFiniteSet(ToSet(s))
  <2>1. DOMAIN s = 1 .. Len(s) /\ Len(s) \in Nat
    BY LenProperties
  <2>2. IsFiniteSet(DOMAIN s)
    BY <2>1, FS_Interval
  <2>3. s \in Surjection(DOMAIN s, ToSet(s))
    BY <2>1, LenProperties DEF Surjection, ToSet
  <2>. QED BY <2>2, <2>3, FS_Surjection
<1>. QED BY <1>1, QueriesAssumption DEF Artifacts, Claims

LEMMA NodesFinite == ASSUME NEW g, Whole(g) PROVE IsFiniteSet(Nodes(g))
<1>1. Nodes(g) \in SUBSET (Artifacts \cup Claims)
  BY DEF Whole, Nodes
<1>2. IsFiniteSet(Artifacts \cup Claims)
  BY AllFinite, FS_Union
<1>. QED BY <1>1, <1>2, FS_Subset

-----------------------------------------------------------------------------
(* The edges of the evidence graph *)

\* The edges of a node lead from it or to it, among what is there.
LEMMA EdgesHold ==
    ASSUME NEW g, Whole(g), NEW n, NEW i \in 1 .. 3, NEW e \in EdgeQueries(g, n)[i]
    PROVE  e \in Nodes(g) \X Nodes(g) /\ n \in {e[1], e[2]}
<1>. USE QueriesAssumption DEF Whole, Nodes, EdgeQueries
<1>1. CASE n \in Artifacts
  <2>1. CASE i = 1
    <3>1. e \in {<<n, h>> : h \in {a \in Holder[n] : n \in g.artifacts}}
      BY <1>1, <2>1
    <3>. QED BY <3>1
  <2>2. CASE i = 2
    <3>1. e \in {<<k, n>> : k \in {c \in DOMAIN g.claims : n \in c.evidence}}
      BY <1>1, <2>2
    <3>. QED BY <3>1
  <2>3. CASE i = 3
    <3>1. e \in {<<a, n>> : a \in {b \in g.artifacts : n \in Holder[b]}}
      BY <1>1, <2>3
    <3>. QED BY <3>1
  <2>. QED BY <2>1, <2>2, <2>3
<1>2. CASE n \notin Artifacts
  <2>1. CASE i = 1
    <3>1. e \in {<<n, a>> : a \in UNION {k.evidence : k \in DOMAIN g.claims \cap {n}}}
      BY <1>2, <2>1
    <3>2. PICK k \in DOMAIN g.claims : k = n /\ \E a \in k.evidence : e = <<n, a>>
      BY <3>1
    <3>. QED BY <3>2
  <2>2. CASE i \in {2, 3}
    <3>1. e \in g.links /\ n \in {e[1], e[2]}
      BY <1>2, <2>2
    <3>2. e \in (DOMAIN g.claims) \X (DOMAIN g.claims)
      BY <3>1
    <3>. QED BY <3>1, <3>2
  <2>. QED BY <2>1, <2>2
<1>. QED BY <1>1, <1>2

LEMMA EdgesAre ==
    ASSUME NEW g, NEW n, NEW e
    PROVE  e \in EdgesOf(g, n) <=> \E i \in 1 .. 3 : e \in EdgeQueries(g, n)[i]
BY DEF EdgesOf

\* Both ends of an edge have it.
LEMMA EdgesShared ==
    ASSUME NEW g, Whole(g), NEW m, NEW k,
           NEW e \in EdgesOf(g, m), e \in {<<m, k>>, <<k, m>>}
    PROVE  e \in EdgesOf(g, k)
<1>1. PICK i \in 1 .. 3 : e \in EdgeQueries(g, m)[i]
  BY EdgesAre
<1>2. m \in Nodes(g) /\ k \in Nodes(g)
  <2>1. e \in Nodes(g) \X Nodes(g)
    BY <1>1, EdgesHold
  <2>. QED BY <2>1
<1>3. ASSUME NEW j \in 1 .. 3, e \in EdgeQueries(g, k)[j] PROVE e \in EdgesOf(g, k)
  BY <1>3, EdgesAre
<1>4. 1 \in 1 .. 3 /\ 2 \in 1 .. 3 /\ 3 \in 1 .. 3
  OBVIOUS
<1>. USE QueriesAssumption DEF Whole, Nodes
<1>5. ASSUME NEW x \in DOMAIN g.claims PROVE x \notin Artifacts
  OBVIOUS
<1>6. CASE m \in Artifacts
  <2>1. m \in g.artifacts
    BY <1>2, <1>5, <1>6
  <2>2. CASE i = 1
    <3>1. e \in {<<m, h>> : h \in {a \in Holder[m] : m \in g.artifacts}}
      BY <1>1, <1>6, <2>2 DEF EdgeQueries
    <3>2. k \in Holder[m] /\ e = <<m, k>>
      BY <3>1
    <3>3. k \in Artifacts /\ k \in g.artifacts
      BY <2>1, <3>2
    <3>4. e \in {<<a, k>> : a \in {b \in g.artifacts : k \in Holder[b]}}
      BY <2>1, <3>2
    <3>5. e \in EdgeQueries(g, k)[3]
      BY <3>3, <3>4 DEF EdgeQueries
    <3>. QED BY <1>3, <1>4, <3>5
  <2>3. CASE i = 2
    <3>1. e \in {<<c, m>> : c \in {d \in DOMAIN g.claims : m \in d.evidence}}
      BY <1>1, <1>6, <2>3 DEF EdgeQueries
    <3>2. PICK c \in DOMAIN g.claims : m \in c.evidence /\ e = <<c, m>>
      BY <3>1
    <3>3. c # m
      BY <1>5, <1>6, <3>2
    <3>4. k \in DOMAIN g.claims /\ m \in k.evidence /\ e = <<k, m>>
      BY <3>2, <3>3
    <3>5. k \notin Artifacts
      BY <1>5, <3>4
    <3>6. e \in {<<k, a>> : a \in UNION {j.evidence : j \in DOMAIN g.claims \cap {k}}}
      BY <3>4
    <3>7. e \in EdgeQueries(g, k)[1]
      BY <3>5, <3>6 DEF EdgeQueries
    <3>. QED BY <1>3, <1>4, <3>7
  <2>4. CASE i = 3
    <3>1. e \in {<<a, m>> : a \in {b \in g.artifacts : m \in Holder[b]}}
      BY <1>1, <1>6, <2>4 DEF EdgeQueries
    <3>2. k \in g.artifacts /\ m \in Holder[k] /\ e = <<k, m>>
      BY <3>1
    <3>3. k \in Artifacts
      BY <3>2
    <3>4. e \in {<<k, h>> : h \in {a \in Holder[k] : k \in g.artifacts}}
      BY <3>2
    <3>5. e \in EdgeQueries(g, k)[1]
      BY <3>3, <3>4 DEF EdgeQueries
    <3>. QED BY <1>3, <1>4, <3>5
  <2>. QED BY <2>2, <2>3, <2>4
<1>7. CASE m \notin Artifacts
  <2>1. m \in DOMAIN g.claims
    BY <1>2, <1>7
  <2>2. CASE i = 1
    <3>1. e \in {<<m, a>> : a \in UNION {j.evidence : j \in DOMAIN g.claims \cap {m}}}
      BY <1>1, <1>7, <2>2 DEF EdgeQueries
    <3>2. PICK a \in m.evidence : e = <<m, a>>
      BY <3>1
    <3>3. a \in Artifacts /\ a # m
      BY <1>7, <2>1, <3>2
    <3>4. k = a
      BY <3>2, <3>3
    <3>5. e \in {<<j, k>> : j \in {c \in DOMAIN g.claims : k \in c.evidence}}
      BY <2>1, <3>2, <3>4
    <3>6. e \in EdgeQueries(g, k)[2]
      BY <3>3, <3>4, <3>5 DEF EdgeQueries
    <3>. QED BY <1>3, <1>4, <3>6
  <2>3. CASE i \in {2, 3}
    <3>1. e \in g.links
      BY <1>1, <1>7, <2>3 DEF EdgeQueries
    <3>2. e \in (DOMAIN g.claims) \X (DOMAIN g.claims)
      BY <3>1
    <3>3. k \in DOMAIN g.claims /\ k \in {e[1], e[2]}
      BY <3>2
    <3>4. k \notin Artifacts
      BY <1>5, <3>3
    <3>5. e \in EdgeQueries(g, k)[2] \/ e \in EdgeQueries(g, k)[3]
      BY <3>1, <3>3, <3>4 DEF EdgeQueries
    <3>. QED BY <1>3, <1>4, <3>5
  <2>. QED BY <2>2, <2>3
<1>. QED BY <1>6, <1>7

\* A query for edges sees all it saw before, and more.
LEMMA EdgesGrow ==
    ASSUME NEW g, NEW h, Grown(g, h), NEW n, NEW i \in 1 .. 3
    PROVE  EdgeQueries(g, n)[i] \subseteq EdgeQueries(h, n)[i]
<1>. SUFFICES ASSUME NEW e \in EdgeQueries(g, n)[i] PROVE e \in EdgeQueries(h, n)[i]
  OBVIOUS
<1>1. CASE n \in Artifacts
  <2>1. CASE i = 1
    BY <1>1, <2>1 DEF EdgeQueries, Grown
  <2>2. CASE i = 2
    BY <1>1, <2>2 DEF EdgeQueries, Grown
  <2>3. CASE i = 3
    BY <1>1, <2>3 DEF EdgeQueries, Grown
  <2>. QED BY <2>1, <2>2, <2>3
<1>2. CASE n \notin Artifacts
  <2>1. CASE i = 1
    BY <1>2, <2>1 DEF EdgeQueries, Grown
  <2>2. CASE i \in {2, 3}
    BY <1>2, <2>2 DEF EdgeQueries, Grown
  <2>. QED BY <2>1, <2>2
<1>. QED BY <1>1, <1>2

LEMMA EdgesFinite ==
    ASSUME NEW g, Whole(g), NEW n, NEW i \in 1 .. 3
    PROVE  /\ IsFiniteSet(EdgeQueries(g, n)[i])
           /\ Cardinality(EdgeQueries(g, n)[i]) \in Nat
<1>1. EdgeQueries(g, n)[i] \in SUBSET (Nodes(g) \X Nodes(g))
  BY EdgesHold
<1>2. IsFiniteSet(Nodes(g) \X Nodes(g))
  BY NodesFinite, FS_Product
<1>3. IsFiniteSet(EdgeQueries(g, n)[i])
  BY <1>1, <1>2, FS_Subset
<1>. QED BY <1>3, FS_CardinalityType

\* Taking some members of a set, all of them when there is room.
LEMMA AtMostOf ==
    ASSUME NEW S, IsFiniteSet(S), NEW room \in Nat, NEW T \in AtMost(room, S)
    PROVE  /\ T \subseteq S
           /\ IsFiniteSet(T) /\ Cardinality(T) \in Nat
           /\ Cardinality(T) <= room
           /\ Cardinality(S) <= room => T = S
<1> DEFINE m == Min({room, Cardinality(S)})
<1>1. Cardinality(S) \in Nat
  BY FS_CardinalityType
<1>2. m = IF room <= Cardinality(S) THEN room ELSE Cardinality(S)
  BY <1>1, MinOfTwo
<1>3. T \in SUBSET S /\ Cardinality(T) = m
  BY DEF AtMost, kSubset
<1> HIDE DEF m
<1>4. IsFiniteSet(T) /\ (m = Cardinality(S) => S = T)
  BY <1>3, FS_Subset
<1>. QED BY <1>1, <1>2, <1>3, <1>4

\* A query that leaves nothing out has all the edges.
LEMMA RowsAre ==
    ASSUME NEW g, Whole(g), NEW n, NEW i \in 1 .. 3, NEW rows \in RowsOf(g, n, i)
    PROVE  /\ rows \subseteq EdgeQueries(g, n)[i]
           /\ ~ Crowded(g, n) => rows = EdgeQueries(g, n)[i]
<1> DEFINE all == EdgeQueries(g, n)[i]
<1>1. IsFiniteSet(all) /\ Cardinality(all) \in Nat /\ EdgeLimit \in Nat
  BY EdgesFinite, QueriesAssumption
<1>2. CASE n \in Artifacts /\ i # 1
  <2>1. rows \in AtMost(EdgeLimit, all)
    BY <1>2 DEF RowsOf
  <2>2. ~ Crowded(g, n) => Cardinality(all) <= EdgeLimit
    <3>1. i \in 2 .. 3
      BY <1>2
    <3>. QED BY <1>1, <3>1 DEF Crowded
  <2> HIDE DEF all
  <2>. QED BY <1>1, <2>1, <2>2, AtMostOf DEF all
<1>3. CASE ~ (n \in Artifacts /\ i # 1)
  BY <1>3 DEF RowsOf
<1>. QED BY <1>2, <1>3

LEMMA CrowdedKept ==
    ASSUME NEW g, NEW h, Whole(g), Whole(h), Grown(g, h), NEW n, Crowded(g, n)
    PROVE  Crowded(h, n)
<1>1. PICK i \in 2 .. 3 : Cardinality(EdgeQueries(g, n)[i]) > EdgeLimit
  BY DEF Crowded
<1> DEFINE S == EdgeQueries(h, n)[i]  T == EdgeQueries(g, n)[i]
<1>2. i \in 1 .. 3
  OBVIOUS
<1>3. IsFiniteSet(S) /\ Cardinality(S) \in Nat /\ Cardinality(T) \in Nat /\ T \in SUBSET S
  BY <1>2, EdgesFinite, EdgesGrow
<1>4. EdgeLimit \in Nat
  BY QueriesAssumption
<1> HIDE DEF S, T
<1>5. Cardinality(T) <= Cardinality(S)
  BY <1>3, FS_Subset
<1>6. Cardinality(S) > EdgeLimit
  BY <1>1, <1>3, <1>4, <1>5 DEF T
<1>. QED BY <1>6 DEF S, Crowded

-----------------------------------------------------------------------------
(* What is near a node *)

\* A neighbour is the end of an edge, whichever of the two has the edge.
LEMMA NeighboursAre ==
    ASSUME NEW g, Whole(g), NEW k, NEW m
    PROVE  /\ Adjacent(g, m, k) => m \in Ends(EdgesOf(g, k))
           /\ m \in Ends(EdgesOf(g, k)) => m = k \/ (m \in Nodes(g) /\ Adjacent(g, m, k))
<1>1. ASSUME Adjacent(g, m, k) PROVE m \in Ends(EdgesOf(g, k))
  <2>1. PICK e \in EdgesOf(g, m) \cup EdgesOf(g, k) : e \in {<<m, k>>, <<k, m>>}
    BY <1>1 DEF Adjacent
  <2>2. e \in EdgesOf(g, k)
    BY <2>1, EdgesShared
  <2>. QED BY <2>1, <2>2 DEF Ends
<1>2. ASSUME m \in Ends(EdgesOf(g, k)), m # k PROVE m \in Nodes(g) /\ Adjacent(g, m, k)
  <2>1. PICK e \in EdgesOf(g, k) : m \in {e[1], e[2]}
    BY <1>2 DEF Ends
  <2>2. PICK i \in 1 .. 3 : e \in EdgeQueries(g, k)[i]
    BY <2>1, EdgesAre
  <2>3. e \in Nodes(g) \X Nodes(g) /\ k \in {e[1], e[2]}
    BY <2>2, EdgesHold
  <2>4. e = <<m, k>> \/ e = <<k, m>>
    BY <1>2, <2>1, <2>3
  <2>. QED BY <2>1, <2>3, <2>4 DEF Adjacent
<1>. QED BY <1>1, <1>2

LEMMA AdjacentGrows ==
    ASSUME NEW g, NEW h, Grown(g, h), NEW m, NEW k, Adjacent(g, m, k)
    PROVE  Adjacent(h, m, k)
<1>1. \A n : EdgesOf(g, n) \subseteq EdgesOf(h, n)
  BY EdgesAre, EdgesGrow
<1>. QED BY <1>1 DEF Adjacent

\* The layers around a node are computed one from the other.
LEMMA WithinIs ==
    ASSUME NEW g, NEW root, NEW R \in Nat
    PROVE  LET W == Within(g, root, R)
           IN  /\ W \in [0 .. R -> SUBSET (Nodes(g) \cup {root})]
               /\ W[0] = {root}
               /\ \A n \in 1 .. R : W[n] = W[n - 1]
                     \cup {m \in Nodes(g) : \E k \in W[n - 1] : Adjacent(g, m, k)}
<1> DEFINE V == SUBSET (Nodes(g) \cup {root})
           More(S) == S \cup {m \in Nodes(g) : \E k \in S : Adjacent(g, m, k)}
           step == [x \in Nat \X V |-> More(x[2])]
           Is(p) == p = [n \in 0 .. R |-> IF n = 0 THEN {root} ELSE p[n - 1]
                            \cup {m \in Nodes(g) : \E k \in p[n - 1] : Adjacent(g, m, k)}]
           W == CHOOSE p : Is(p)
<1>1. {root} \in V /\ step \in [Nat \X V -> V]
  OBVIOUS
<1>2. \A p \in [0 .. R -> V] : \A n \in 0 .. R : n # 0 =>
        step[<<n, p[n - 1]>>] = More(p[n - 1])
  <2>1. \A n \in 0 .. R : n # 0 => n - 1 \in 0 .. R /\ n \in Nat
    OBVIOUS
  <2>. QED BY <2>1
<1> HIDE DEF V, step, More
<1>3. PICK p \in [0 .. R -> V] : Iterates(p, {root}, step, R)
  BY <1>1, IteratesExist
<1>4. [n \in 0 .. R |-> IF n = 0 THEN {root} ELSE step[<<n, p[n - 1]>>]]
        = [n \in 0 .. R |-> IF n = 0 THEN {root} ELSE More(p[n - 1])]
  BY <1>2
<1>5. Is(p)
  BY <1>3, <1>4 DEF Iterates, More
<1>6. Within(g, root, R) = W
  BY DEF Within
<1>7. Is(W)
  <2>. HIDE DEF Is
  <2>. QED BY <1>5
<1> HIDE DEF W
<1>8. 0 \in 0 .. R /\ \A n \in 1 .. R : n \in 0 .. R /\ n # 0
  OBVIOUS
<1>9. W[0] = {root} /\ \A n \in 1 .. R : W[n] = More(W[n - 1])
  BY <1>7, <1>8 DEF More
<1>10. \A n \in Nat : n \in {i \in Nat : i <= R => W[i] \in V}
  <2> DEFINE T == {i \in Nat : i <= R => W[i] \in V}
  <2>1. 0 \in T
    BY <1>1, <1>9
  <2>2. ASSUME NEW n \in Nat, n \in T PROVE n + 1 \in T
    <3>1. n + 1 <= R => W[n] \in V /\ n + 1 \in 1 .. R /\ (n + 1) - 1 = n
      BY <2>2
    <3>2. n + 1 <= R => W[n + 1] = More(W[n])
      BY <3>1, <1>9
    <3>. QED BY <3>1, <3>2 DEF V, More
  <2> HIDE DEF T
  <2>3. \A n \in Nat : n \in T
    BY <2>1, <2>2, Counting
  <2>. QED BY <2>3 DEF T
<1>11. W \in [0 .. R -> V]
  <2>1. \A n \in 0 .. R : W[n] \in V
    BY <1>10
  <2>. QED BY <1>7, <2>1
<1>. QED BY <1>6, <1>9, <1>11 DEF V, More

\* A layer has those before it.
LEMMA LayersRise ==
    ASSUME NEW g, NEW root, NEW R \in Nat, NEW n \in 0 .. R, NEW i \in 0 .. n
    PROVE  Within(g, root, R)[i] \subseteq Within(g, root, R)[n]
<1> DEFINE W == Within(g, root, R)
           T == {j \in Nat : j <= n - i => W[i] \subseteq W[i + j]}
<1>1. \A j \in 1 .. R : W[j - 1] \subseteq W[j]
  BY WithinIs
<1> HIDE DEF W
<1>2. i \in Nat /\ n \in Nat /\ i + 0 = i /\ i + (n - i) = n /\ n - i \in Nat /\ n - i <= n - i
  OBVIOUS
<1>3. 0 \in T
  BY <1>2
<1>4. ASSUME NEW j \in Nat, j \in T PROVE j + 1 \in T
  <2>1. j + 1 <= n - i => i + (j + 1) \in 1 .. R /\ (i + (j + 1)) - 1 = i + j
    BY <1>2
  <2>2. j + 1 <= n - i => W[i + j] \subseteq W[i + (j + 1)]
    BY <1>1, <2>1
  <2>. QED BY <1>2, <1>4, <2>2
<1> HIDE DEF T
<1>5. \A j \in Nat : j \in T
  BY <1>3, <1>4, Counting
<1>6. n - i \in T
  BY <1>2, <1>5
<1>7. W[i] \subseteq W[i + (n - i)]
  BY <1>2, <1>6 DEF T
<1>. QED BY <1>2, <1>7 DEF W

\* The layer after a node has the ends of its edges.
LEMMA WithinReaches ==
    ASSUME NEW g, Whole(g), NEW root, NEW R \in Nat, NEW n \in Nat, n < R
    PROVE  LET W == Within(g, root, R)
           IN  /\ W[n] \subseteq W[n + 1] /\ W[n] \subseteq W[R]
               /\ \A k \in W[n] : Ends(EdgesOf(g, k)) \subseteq W[n + 1]
<1> DEFINE W == Within(g, root, R)
<1>1. \A i \in 1 .. R : W[i] = W[i - 1]
          \cup {m \in Nodes(g) : \E k \in W[i - 1] : Adjacent(g, m, k)}
  BY WithinIs
<1> HIDE DEF W
<1>2. n + 1 \in 1 .. R /\ (n + 1) - 1 = n
  OBVIOUS
<1>3. W[n + 1] = W[n] \cup {m \in Nodes(g) : \E k \in W[n] : Adjacent(g, m, k)}
  BY <1>1, <1>2
<1>4. ASSUME NEW k \in W[n], NEW m \in Ends(EdgesOf(g, k)) PROVE m \in W[n + 1]
  <2>1. m = k \/ (m \in Nodes(g) /\ Adjacent(g, m, k))
    BY <1>4, NeighboursAre
  <2>. QED BY <1>3, <1>4, <2>1
<1>5. W[n] \subseteq W[R]
  <2>1. R \in 0 .. R /\ n \in 0 .. R
    OBVIOUS
  <2>. QED BY <2>1, LayersRise DEF W
<1>. QED BY <1>3, <1>4, <1>5 DEF W

\* The layers around a node grow with the graph.
LEMMA WithinGrows ==
    ASSUME NEW g, NEW h, Grown(g, h), NEW root, NEW R \in Nat, NEW n \in 0 .. R
    PROVE  Within(g, root, R)[n] \subseteq Within(h, root, R)[n]
<1> DEFINE V == Within(g, root, R)  W == Within(h, root, R)
           T == {i \in Nat : i <= R => V[i] \subseteq W[i]}
<1>1. /\ V[0] = {root} /\ W[0] = {root}
      /\ \A i \in 1 .. R : V[i] = V[i - 1]
            \cup {m \in Nodes(g) : \E k \in V[i - 1] : Adjacent(g, m, k)}
      /\ \A i \in 1 .. R : W[i] = W[i - 1]
            \cup {m \in Nodes(h) : \E k \in W[i - 1] : Adjacent(h, m, k)}
  BY WithinIs
<1> HIDE DEF V, W
<1>2. Nodes(g) \subseteq Nodes(h) /\ \A m, k : Adjacent(g, m, k) => Adjacent(h, m, k)
  BY AdjacentGrows DEF Nodes, Grown
<1>3. 0 \in T
  BY <1>1
<1>4. ASSUME NEW i \in Nat, i \in T PROVE i + 1 \in T
  <2>1. i + 1 <= R => i + 1 \in 1 .. R /\ (i + 1) - 1 = i
    OBVIOUS
  <2>2. i + 1 <= R => V[i + 1] \subseteq W[i + 1]
    BY <1>1, <1>2, <1>4, <2>1
  <2>. QED BY <2>2
<1> HIDE DEF T
<1>5. \A i \in Nat : i \in T
  BY <1>3, <1>4, Counting
<1>. QED BY <1>5 DEF T, V, W

\* What has the root and the ends of all of its edges has every layer.
LEMMA WithinClosed ==
    ASSUME NEW g, Whole(g), NEW root, NEW R \in Nat, NEW n \in 0 .. R,
           NEW S, root \in S, \A k \in S : Ends(EdgesOf(g, k)) \subseteq S
    PROVE  Within(g, root, R)[n] \subseteq S
<1> DEFINE W == Within(g, root, R)  T == {i \in Nat : i <= R => W[i] \subseteq S}
<1>1. /\ W[0] = {root}
      /\ \A i \in 1 .. R : W[i] = W[i - 1]
            \cup {m \in Nodes(g) : \E k \in W[i - 1] : Adjacent(g, m, k)}
  BY WithinIs
<1> HIDE DEF W
<1>2. 0 \in T
  BY <1>1
<1>3. ASSUME NEW i \in Nat, i \in T PROVE i + 1 \in T
  <2>1. i + 1 <= R => i + 1 \in 1 .. R /\ (i + 1) - 1 = i
    OBVIOUS
  <2>2. i + 1 <= R => W[i + 1] \subseteq S
    BY <1>1, <1>3, <2>1, NeighboursAre
  <2>. QED BY <2>2
<1> HIDE DEF T
<1>4. \A i \in Nat : i \in T
  BY <1>2, <1>3, Counting
<1>. QED BY <1>4 DEF T, W

LEMMA WithinFinite ==
    ASSUME NEW g, Whole(g), NEW root, NEW R \in Nat, NEW n \in 0 .. R
    PROVE  /\ Within(g, root, R)[n] \subseteq Nodes(g) \cup {root}
           /\ IsFiniteSet(Within(g, root, R)[n]) /\ Cardinality(Within(g, root, R)[n]) \in Nat
<1> DEFINE W == Within(g, root, R)
<1>1. W[n] \in SUBSET (Nodes(g) \cup {root})
  BY WithinIs
<1>2. IsFiniteSet(Nodes(g) \cup {root})
  BY NodesFinite, FS_Singleton, FS_Union
<1>3. IsFiniteSet(W[n])
  BY <1>1, <1>2, FS_Subset
<1>. QED BY <1>1, <1>3, FS_CardinalityType

-----------------------------------------------------------------------------
(* Sequences end to end *)

\* FlattenSeq computes what any function computes that joins one at a time.
LEMMA FlattenIs ==
    ASSUME NEW U, NEW L \in Nat, NEW s \in [1 .. L -> Seq(U)], NEW f \in [0 .. L -> Seq(U)],
           f[0] = << >>, \A n \in 1 .. L : f[n] = f[n - 1] \o s[n]
    PROVE  FlattenSeq(s) = f[L]
<1> DEFINE Is(h) == h = [i \in 1 .. L |-> IF i = 1 THEN s[i] ELSE h[i - 1] \o s[i]]
           flatten == CHOOSE h : Is(h)
<1>1. s \in Seq(Seq(U)) /\ Len(s) = L
  OBVIOUS
<1>2. CASE L = 0
  <2>1. s = << >>
    BY <1>1, <1>2, EmptySeq
  <2>. QED BY <1>1, <1>2, <2>1 DEF FlattenSeq
<1>3. CASE L # 0
  <2>1. FlattenSeq(s) = flatten[L]
    BY <1>1, <1>3 DEF FlattenSeq
  <2> DEFINE p == [i \in 1 .. L |-> f[i]]
  <2>2. ASSUME NEW i \in 1 .. L PROVE p[i] = IF i = 1 THEN s[i] ELSE p[i - 1] \o s[i]
    <3>1. CASE i = 1
      <4>1. f[1] = f[0] \o s[1] /\ s[1] \in Seq(U)
        <5>1. 1 \in 1 .. L /\ 1 - 1 = 0
          BY <3>1
        <5>. QED BY <5>1
      <4>2. f[1] = s[1]
        BY <4>1, ConcatEmptySeq
      <4>. QED BY <3>1, <4>2
    <3>2. CASE i # 1
      <4>1. i - 1 \in 1 .. L
        BY <3>2
      <4>. QED BY <3>2, <4>1
    <3>. QED BY <3>1, <3>2
  <2>3. Is(p)
    BY <2>2
  <2>4. Is(flatten)
    <3>. HIDE DEF Is
    <3>. QED BY <2>3
  <2> HIDE DEF flatten, p
  <2>5. \A i \in 1 .. L : flatten[i] = IF i = 1 THEN s[i] ELSE flatten[i - 1] \o s[i]
    BY <2>4
  <2> DEFINE T == {n \in Nat : n + 1 <= L => flatten[n + 1] = f[n + 1]}
  <2>6. 0 \in T
    <3>1. 0 + 1 = 1 /\ 1 \in 1 .. L /\ 1 - 1 = 0
      BY <1>3
    <3>2. flatten[1] = s[1] /\ f[1] = f[0] \o s[1] /\ s[1] \in Seq(U)
      BY <2>5, <3>1
    <3>3. f[1] = s[1]
      BY <3>2, ConcatEmptySeq
    <3>. QED BY <3>1, <3>2, <3>3
  <2>7. ASSUME NEW n \in Nat, n \in T PROVE n + 1 \in T
    <3>. SUFFICES ASSUME (n + 1) + 1 <= L PROVE flatten[(n + 1) + 1] = f[(n + 1) + 1]
      OBVIOUS
    <3>1. /\ (n + 1) + 1 \in 1 .. L /\ (n + 1) + 1 # 1 /\ ((n + 1) + 1) - 1 = n + 1
          /\ n + 1 <= L
      OBVIOUS
    <3>2. flatten[n + 1] = f[n + 1]
      BY <2>7, <3>1
    <3>3. flatten[(n + 1) + 1] = flatten[n + 1] \o s[(n + 1) + 1]
      BY <2>5, <3>1
    <3>. QED BY <3>1, <3>2, <3>3
  <2> HIDE DEF T
  <2>8. \A n \in Nat : n \in T
    BY <2>6, <2>7, Counting
  <2>9. L - 1 \in T /\ (L - 1) + 1 = L /\ L - 1 \in Nat
    BY <1>3, <2>8
  <2>. QED BY <2>1, <2>9 DEF T
<1>. QED BY <1>2, <1>3

\* A function that joins one sequence at a time.
Joins(U, L, s, f) ==
    /\ f \in [0 .. L -> Seq(U)] /\ f[0] = << >>
    /\ \A n \in 1 .. L : f[n] = f[n - 1] \o s[n]

LEMMA JoiningExists ==
    ASSUME NEW U, NEW L \in Nat, NEW s \in [1 .. L -> Seq(U)]
    PROVE  \E f : Joins(U, L, s, f)
<1> DEFINE W == Seq(U)
           step == [x \in Nat \X W |-> IF x[1] \in 1 .. L THEN x[2] \o s[x[1]] ELSE x[2]]
<1>1. << >> \in W
  BY EmptySeq
<1>2. step \in [Nat \X W -> W]
  BY ConcatProperties
<1>3. ASSUME NEW n \in 1 .. L, NEW t \in W PROVE step[<<n, t>>] = t \o s[n]
  <2>1. <<n, t>> \in Nat \X W /\ <<n, t>>[1] = n /\ <<n, t>>[2] = t
    OBVIOUS
  <2>. QED BY <2>1
<1> HIDE DEF W, step
<1>4. PICK f \in [0 .. L -> W] : Iterates(f, << >>, step, L)
  BY <1>1, <1>2, IteratesExist
<1>5. 0 \in 0 .. L /\ \A n \in 1 .. L : n \in 0 .. L /\ n - 1 \in 0 .. L /\ n # 0
  OBVIOUS
<1>6. f[0] = << >> /\ \A n \in 1 .. L : f[n] = f[n - 1] \o s[n]
  BY <1>3, <1>4, <1>5 DEF Iterates
<1>7. Joins(U, L, s, f)
  BY <1>4, <1>6 DEF W, Joins
<1>. QED BY <1>7

\* The first n sequences end to end.
Flat(s, n) == FlattenSeq([i \in 1 .. n |-> s[i]])

\* The sequence s goes on after r.
GoesOn(U, r, s) == \E t \in Seq(U) : s = r \o t

\* One more at the end.
LEMMA FlattenOn ==
    ASSUME NEW U, NEW L \in Nat, NEW s \in [1 .. L -> Seq(U)], NEW m \in 0 .. L
    PROVE  /\ Flat(s, m) \in Seq(U)
           /\ Flat(s, L) \in Seq(U)
           /\ m + 1 <= L => Flat(s, m + 1) = Flat(s, m) \o s[m + 1]
           /\ GoesOn(U, Flat(s, m), Flat(s, L))
<1>f. PICK f : Joins(U, L, s, f)
  BY JoiningExists
<1>1. /\ f \in [0 .. L -> Seq(U)] /\ f[0] = << >>
      /\ \A n \in 1 .. L : f[n] = f[n - 1] \o s[n]
  BY <1>f DEF Joins
<1>2. ASSUME NEW n \in 0 .. L PROVE Flat(s, n) = f[n]
  <2> DEFINE part == [i \in 1 .. n |-> s[i]]  g == [i \in 0 .. n |-> f[i]]
  <2>1. n \in Nat /\ \A i \in 1 .. n : i \in 1 .. L /\ i \in 0 .. n /\ i - 1 \in 0 .. n
    OBVIOUS
  <2>2. \A i \in 0 .. n : i \in 0 .. L
    OBVIOUS
  <2>3. part \in [1 .. n -> Seq(U)]
    BY <2>1
  <2>4. g \in [0 .. n -> Seq(U)] /\ g[0] = << >>
    BY <1>1, <2>2
  <2>5. \A i \in 1 .. n : g[i] = g[i - 1] \o part[i]
    BY <1>1, <2>1
  <2>6. n \in 0 .. n /\ g[n] = f[n]
    BY <2>1
  <2> HIDE DEF part, g
  <2>7. FlattenSeq(part) = g[n]
    BY <2>1, <2>3, <2>4, <2>5, FlattenIs
  <2>. QED BY <2>6, <2>7 DEF part, Flat
<1>3. Flat(s, m) \in Seq(U) /\ Flat(s, L) \in Seq(U)
  BY <1>1, <1>2
<1>4. m + 1 <= L => Flat(s, m + 1) = Flat(s, m) \o s[m + 1]
  <2>1. m + 1 <= L => m + 1 \in 1 .. L /\ m + 1 \in 0 .. L /\ (m + 1) - 1 = m
    OBVIOUS
  <2>. QED BY <1>1, <1>2, <2>1
<1> DEFINE from == f[m]
           T == {n \in Nat : m + n <= L => GoesOn(U, from, f[m + n])}
<1>5. from \in Seq(U)
  BY <1>1
<1>6. 0 \in T
  <2>1. << >> \in Seq(U) /\ from = from \o << >>
    BY <1>5, EmptySeq, ConcatEmptySeq
  <2>2. m + 0 = m
    OBVIOUS
  <2>. QED BY <2>1, <2>2 DEF GoesOn
<1>7. ASSUME NEW n \in Nat, n \in T PROVE n + 1 \in T
  <2>1. ASSUME m + (n + 1) <= L PROVE GoesOn(U, from, f[m + (n + 1)])
    <3>1. m + (n + 1) \in 1 .. L /\ (m + (n + 1)) - 1 = m + n /\ m + n <= L
      BY <2>1
    <3> HIDE DEF from
    <3>2. PICK t \in Seq(U) : f[m + n] = from \o t
      BY <1>7, <3>1 DEF GoesOn
    <3> DEFINE x == s[m + (n + 1)]
    <3>3. f[m + (n + 1)] = (from \o t) \o x /\ x \in Seq(U)
      BY <1>1, <3>1, <3>2
    <3> HIDE DEF x
    <3>4. (from \o t) \o x = from \o (t \o x) /\ t \o x \in Seq(U)
      <4>1. from \in Seq(U) /\ x \in Seq(U) /\ t \in Seq(U)
        BY <1>5, <3>3 DEF from
      <4>. QED BY ONLY <4>1, ConcatAssociative, ConcatProperties
    <3>. QED BY <3>3, <3>4 DEF GoesOn
  <2>2. n + 1 \in Nat
    OBVIOUS
  <2>. HIDE DEF from
  <2>. QED BY <2>1, <2>2
<1> HIDE DEF T, from
<1>8. \A n \in Nat : n \in T
  BY <1>6, <1>7, Counting
<1>9. GoesOn(U, f[m], f[L])
  <2>1. L - m \in Nat /\ m + (L - m) = L /\ m + (L - m) <= L
    OBVIOUS
  <2>. QED BY <1>8, <2>1 DEF T, from
<1>10. Flat(s, m) = f[m] /\ Flat(s, L) = f[L]
  BY <1>2
<1>. QED BY <1>3, <1>4, <1>9, <1>10

LEMMA PrefixOf ==
    ASSUME NEW U, NEW s \in Seq(U), NEW t \in Seq(U)
    PROVE  IsPrefix(s, s \o t)
<1> DEFINE u == s \o t
<1>1. /\ u \in Seq(U) /\ Len(u) = Len(s) + Len(t)
      /\ \A i \in 1 .. Len(s) + Len(t) : u[i] = IF i <= Len(s) THEN s[i] ELSE t[i - Len(s)]
  BY ConcatProperties
<1>2. Len(s) \in Nat /\ Len(t) \in Nat /\ \A i \in 1 .. Len(s) : s[i] \in U /\ u[i] = s[i]
  BY <1>1, LenProperties
<1> HIDE DEF u
<1>3. /\ SubSeq(s, 1, Len(s)) \in Seq(U) /\ Len(SubSeq(s, 1, Len(s))) = Len(s)
      /\ \A i \in 1 .. Len(s) : SubSeq(s, 1, Len(s))[i] = s[i]
  <2>1. SubSeq(s, 1, Len(s)) = s
    BY SubSeqFull
  <2>. QED BY <2>1
<1>4. /\ SubSeq(u, 1, Len(s)) \in Seq(U)
      /\ Len(SubSeq(u, 1, Len(s))) = IF 1 <= Len(s) THEN Len(s) - 1 + 1 ELSE 0
      /\ \A i \in 1 .. Len(s) - 1 + 1 : SubSeq(u, 1, Len(s))[i] = u[1 + i - 1]
  <2>1. \A i \in 1 .. Len(s) : u[i] \in U
    BY <1>2
  <2>. QED BY <1>2, <2>1, SubSeqProperties
<1>5. Len(SubSeq(u, 1, Len(s))) = Len(s) /\ \A i \in 1 .. Len(s) : SubSeq(u, 1, Len(s))[i] = s[i]
  BY <1>2, <1>4
<1>6. SubSeq(s, 1, Len(s)) = SubSeq(u, 1, Len(s))
  BY <1>3, <1>4, <1>5, SeqEqual
<1>. QED BY <1>1, <1>2, <1>6 DEF IsPrefix, u

-----------------------------------------------------------------------------
(* Pages *)

\* The places of the claims a query asks for.
Places(g, q) == {i \in DOMAIN ClaimOrder : Asked(g, q, ClaimOrder[i])}

LEMMA OrderOfClaims ==
    /\ ClaimOrder \in Seq(Claims) /\ Len(ClaimOrder) \in Nat
    /\ DOMAIN ClaimOrder = 1 .. Len(ClaimOrder)
    /\ \A k \in Claims : \E i \in DOMAIN ClaimOrder : ClaimOrder[i] = k
BY QueriesAssumption, LenProperties DEF Claims, ToSet

LEMMA PlacesFinite ==
    ASSUME NEW g, NEW q
    PROVE  Places(g, q) \subseteq Nat /\ IsFiniteSet(Places(g, q)) /\ Places(g, q) \subseteq DOMAIN ClaimOrder
<1>1. IsFiniteSet(DOMAIN ClaimOrder) /\ DOMAIN ClaimOrder \subseteq Nat
  BY OrderOfClaims, FS_Interval
<1>2. Places(g, q) \in SUBSET DOMAIN ClaimOrder
  BY DEF Places
<1>. QED BY <1>1, <1>2, FS_Subset

\* What a page without a floor has: claims that were asked for, each that
\* comes after the offset if the page is not full, and only what lies behind
\* the page is missing from a full one.
LEMMA PageOfClaims ==
    ASSUME NEW g, NEW q, q.floor = None, q.offset \in Nat, q.limit \in 1 .. MaxRows
    PROVE  LET page == FindClaims(g, q) IN
           /\ page \in Seq(Claims) /\ Len(page) \in Nat /\ Len(page) <= q.limit
           /\ \A k \in ToSet(page) : Asked(g, q, k)
           /\ \A i \in Places(g, q) : Rank(Places(g, q), i) > q.offset =>
                \/ ClaimOrder[i] \in ToSet(page)
                \/ Len(page) = q.limit /\ Rank(Places(g, q), i) > q.offset + Len(page)
<1> DEFINE I == Places(g, q)  rows == Pick(ClaimOrder, I)  page == FindClaims(g, q)
<1>1. q.limit \in Nat /\ Clamp(q.limit) = q.limit
  BY Clamped, QueriesAssumption
<1>2. page = Slice(rows, q.offset, q.limit)
  BY <1>1 DEF FindClaims, Selected, Places
<1>3. /\ rows \in Seq(Claims) /\ Len(rows) = Cardinality(I) /\ Cardinality(I) \in Nat
      /\ \A n \in 1 .. Cardinality(I) : \E i \in I : Rank(I, i) = n /\ rows[n] = ClaimOrder[i]
      /\ \A i \in I : Rank(I, i) \in 1 .. Cardinality(I) /\ rows[Rank(I, i)] = ClaimOrder[i]
  BY OrderOfClaims, PlacesFinite, Picked
<1> HIDE DEF rows, I, page
<1>4. /\ page \in Seq(Claims) /\ Len(page) \in Nat
      /\ Len(page) <= Len(rows) /\ Len(page) <= q.limit
      /\ \A n \in 1 .. Len(page) : n + q.offset \in 1 .. Len(rows) /\ page[n] = rows[n + q.offset]
      /\ \A n \in 1 .. Len(rows) :
            n > q.offset /\ (n <= q.offset + q.limit \/ Len(page) < q.limit)
                => n - q.offset \in 1 .. Len(page)
  BY <1>1, <1>2, <1>3, Sliced
<1>5. DOMAIN page = 1 .. Len(page)
  BY <1>4, LenProperties
<1>6. \A k \in ToSet(page) : Asked(g, q, k)
  <2>1. ASSUME NEW n \in 1 .. Len(page) PROVE Asked(g, q, page[n])
    <3>1. PICK i \in I : page[n] = ClaimOrder[i]
      BY <1>3, <1>4
    <3>. QED BY <3>1 DEF I, Places
  <2>. QED BY <1>5, <2>1 DEF ToSet
<1>7. ASSUME NEW i \in I, Rank(I, i) > q.offset
      PROVE  \/ ClaimOrder[i] \in ToSet(page)
             \/ Len(page) = q.limit /\ Rank(I, i) > q.offset + Len(page)
  <2> DEFINE n == Rank(I, i)
  <2>1. n \in 1 .. Len(rows) /\ rows[n] = ClaimOrder[i] /\ n \in Nat
    BY <1>3
  <2>2. CASE n <= q.offset + q.limit \/ Len(page) < q.limit
    <3>1. n - q.offset \in 1 .. Len(page) /\ (n - q.offset) + q.offset = n
      BY <1>4, <1>7, <2>1, <2>2
    <3>2. page[n - q.offset] = ClaimOrder[i]
      BY <1>4, <2>1, <3>1
    <3>. QED BY <1>5, <3>1, <3>2 DEF ToSet
  <2>3. CASE ~ (n <= q.offset + q.limit \/ Len(page) < q.limit)
    <3>. HIDE DEF n
    <3>1. Len(page) = q.limit
      BY <1>1, <1>4, <2>3
    <3>. QED BY <1>1, <2>1, <2>3, <3>1 DEF n
  <2>. QED BY <2>2, <2>3
<1>. QED BY <1>4, <1>6, <1>7 DEF I, page

\* A rank does not fall when members are added.
LEMMA RanksRise ==
    ASSUME NEW I, NEW J, I \subseteq J, J \subseteq Nat, IsFiniteSet(J), NEW i \in I
    PROVE  Rank(I, i) \in Nat /\ Rank(J, i) \in Nat /\ Rank(I, i) <= Rank(J, i)
<1>1. {j \in I : j <= i} \in SUBSET {j \in J : j <= i} /\ {j \in J : j <= i} \in SUBSET J
  OBVIOUS
<1>. QED BY <1>1, FS_Subset, FS_CardinalityType DEF Rank

\* A page of artifacts is part of what is counted.
LEMMA PageIsCounted ==
    ASSUME NEW g, NEW q, q.offset \in Nat, q.limit \in Nat
    PROVE  /\ Len(FindArtifacts(g, q)) \in Nat /\ CountArtifacts(g, q) \in Nat
           /\ Len(FindArtifacts(g, q)) <= CountArtifacts(g, q)
<1> DEFINE I == {i \in DOMAIN ArtifactOrder :
                    InQuestion(g, q, ArtifactOrder[i]) /\ ArtifactOrder[i] \in q.named}
           A == {a \in Artifacts : InQuestion(g, q, a)}
           rows == Pick(ArtifactOrder, I)
           f == [i \in I |-> ArtifactOrder[i]]
<1>1. ArtifactOrder \in Seq(Artifacts) /\ IsInjective(ArtifactOrder)
  BY QueriesAssumption
<1>2. I \subseteq DOMAIN ArtifactOrder
  OBVIOUS
<1>3. f \in Injection(I, A)
  <2>1. \A i \in I : ArtifactOrder[i] \in A
    BY DEF Artifacts, ToSet
  <2>. QED BY <1>1, <2>1 DEF Injection, IsInjective
<1>4. IsFiniteSet(A) /\ Cardinality(A) \in Nat
  <2>1. A \in SUBSET Artifacts
    OBVIOUS
  <2>. QED BY <2>1, AllFinite, FS_Subset, FS_CardinalityType
<1> HIDE DEF I, A, f
<1>5. Cardinality(I) <= Cardinality(A)
  BY <1>3, <1>4, FS_Injection
<1>6. rows \in Seq(Artifacts) /\ Len(rows) = Cardinality(I) /\ Cardinality(I) \in Nat
  BY <1>1, <1>2, Picked
<1>7. Clamp(q.limit) \in Nat
  BY Clamped, QueriesAssumption
<1> HIDE DEF rows
<1>8. /\ Len(Slice(rows, q.offset, Clamp(q.limit))) \in Nat
      /\ Len(Slice(rows, q.offset, Clamp(q.limit))) <= Len(rows)
  BY <1>6, <1>7, Sliced
<1>9. FindArtifacts(g, q) = Slice(rows, q.offset, Clamp(q.limit)) /\ CountArtifacts(g, q) = Cardinality(A)
  BY DEF FindArtifacts, CountArtifacts, rows, I, A
<1>. QED BY <1>4, <1>5, <1>6, <1>8, <1>9

\* The count does not fall when artifacts are added.
LEMMA CountsRise ==
    ASSUME NEW g, NEW h, NEW q, g.artifacts \subseteq h.artifacts
    PROVE  /\ CountArtifacts(g, q) \in Nat /\ CountArtifacts(h, q) \in Nat
           /\ CountArtifacts(g, q) <= CountArtifacts(h, q)
<1>1. /\ {a \in Artifacts : InQuestion(g, q, a)} \in SUBSET {a \in Artifacts : InQuestion(h, q, a)}
      /\ {a \in Artifacts : InQuestion(h, q, a)} \in SUBSET Artifacts
  BY DEF InQuestion
<1>. QED BY <1>1, AllFinite, FS_Subset, FS_CardinalityType DEF CountArtifacts

-----------------------------------------------------------------------------
(* Sequences and their members *)

LEMMA SeqOfMembers ==
    ASSUME NEW S, NEW s \in Seq(S)
    PROVE  /\ s \in Seq(ToSet(s)) /\ ToSet(s) \subseteq S
           /\ Len(s) \in Nat /\ DOMAIN s = 1 .. Len(s)
           /\ s = << >> <=> Len(s) = 0
<1>1. Len(s) \in Nat /\ DOMAIN s = 1 .. Len(s) /\ s \in [1 .. Len(s) -> S]
  BY LenProperties
<1>2. s \in [1 .. Len(s) -> ToSet(s)]
  BY <1>1 DEF ToSet
<1>3. s \in Seq(ToSet(s))
  BY <1>1, <1>2
<1>4. s = << >> <=> Len(s) = 0
  BY EmptySeq
<1>. QED BY <1>1, <1>3, <1>4 DEF ToSet

LEMMA Appended ==
    ASSUME NEW s, s \in Seq(ToSet(s)), NEW x
    PROVE  LET t == Append(s, x) IN
           /\ t \in Seq(ToSet(t)) /\ ToSet(t) = ToSet(s) \cup {x}
           /\ Len(s) \in Nat /\ Len(t) = Len(s) + 1
           /\ \A i \in 1 .. Len(s) : t[i] = s[i]
           /\ t[Len(s) + 1] = x
<1> DEFINE S == ToSet(s) \cup {x}  t == Append(s, x)
<1>1. s \in Seq(S) /\ Len(s) \in Nat /\ DOMAIN s = 1 .. Len(s)
  BY SeqOfMembers
<1>2. /\ t \in Seq(S) /\ Len(t) = Len(s) + 1
      /\ \A i \in 1 .. Len(s) : t[i] = s[i] /\ t[Len(s) + 1] = x
  <2>. HIDE DEF S
  <2>1. x \in S
    BY DEF S
  <2>. QED BY <1>1, <2>1, AppendProperties
<1> HIDE DEF t
<1>3. t[Len(s) + 1] = x
  BY <1>1, <1>2, AppendProperties DEF t
<1>4. t \in Seq(ToSet(t)) /\ DOMAIN t = 1 .. Len(t)
  BY <1>2, SeqOfMembers
<1>5. 1 .. Len(t) = (1 .. Len(s)) \cup {Len(s) + 1}
  BY <1>1, <1>2
<1>6. ToSet(t) = ToSet(s) \cup {x}
  BY <1>1, <1>2, <1>3, <1>4, <1>5 DEF ToSet
<1>. QED BY <1>1, <1>2, <1>3, <1>4, <1>6 DEF t

LEMMA Joined ==
    ASSUME NEW s, s \in Seq(ToSet(s)), NEW t, t \in Seq(ToSet(t))
    PROVE  /\ s \o t \in Seq(ToSet(s \o t)) /\ ToSet(s \o t) = ToSet(s) \cup ToSet(t)
           /\ Len(s) \in Nat /\ Len(t) \in Nat /\ Len(s \o t) = Len(s) + Len(t)
           /\ \A i \in 1 .. Len(s) : (s \o t)[i] = s[i]
           /\ \A i \in 1 .. Len(t) : (s \o t)[Len(s) + i] = t[i]
<1> DEFINE S == ToSet(s) \cup ToSet(t)  u == s \o t
<1>1. /\ s \in Seq(S) /\ Len(s) \in Nat /\ DOMAIN s = 1 .. Len(s)
      /\ t \in Seq(S) /\ Len(t) \in Nat /\ DOMAIN t = 1 .. Len(t)
  BY SeqOfMembers
<1>2. /\ u \in Seq(S) /\ Len(u) = Len(s) + Len(t)
      /\ \A i \in 1 .. Len(s) + Len(t) : u[i] = IF i <= Len(s) THEN s[i] ELSE t[i - Len(s)]
  <2>. HIDE DEF S
  <2>. QED BY <1>1, ConcatProperties
<1> HIDE DEF u
<1>3. /\ \A i \in 1 .. Len(s) : u[i] = s[i]
      /\ \A i \in 1 .. Len(t) : u[Len(s) + i] = t[i]
  <2>1. \A i \in 1 .. Len(t) : /\ Len(s) + i \in 1 .. Len(s) + Len(t)
                               /\ ~ Len(s) + i <= Len(s) /\ (Len(s) + i) - Len(s) = i
    BY <1>1
  <2>2. \A i \in 1 .. Len(s) : i \in 1 .. Len(s) + Len(t) /\ i <= Len(s)
    BY <1>1
  <2>. QED BY <1>2, <2>1, <2>2
<1>4. u \in Seq(ToSet(u)) /\ DOMAIN u = 1 .. Len(u)
  BY <1>2, SeqOfMembers
<1>5. ToSet(u) = S
  <2>1. ToSet(u) \subseteq S
    BY <1>2, SeqOfMembers
  <2>2. \A i \in 1 .. Len(s) : i \in 1 .. Len(u)
    BY <1>1, <1>2
  <2>3. \A i \in 1 .. Len(t) : Len(s) + i \in 1 .. Len(u)
    BY <1>1, <1>2
  <2>4. ToSet(s) \subseteq ToSet(u) /\ ToSet(t) \subseteq ToSet(u)
    BY <1>1, <1>3, <1>4, <2>2, <2>3 DEF ToSet
  <2>. QED BY <2>1, <2>4
<1>. QED BY <1>1, <1>2, <1>3, <1>4, <1>5 DEF u

LEMMA Tailed ==
    ASSUME NEW s, s \in Seq(ToSet(s)), s # << >>
    PROVE  /\ Len(s) \in Nat \ {0} /\ Head(s) = s[1]
           /\ Tail(s) \in Seq(ToSet(Tail(s))) /\ Len(Tail(s)) = Len(s) - 1
           /\ \A i \in 1 .. Len(s) - 1 : Tail(s)[i] = s[i + 1]
           /\ ToSet(s) = {Head(s)} \cup ToSet(Tail(s))
<1> DEFINE t == Tail(s)
<1>1. Len(s) \in Nat \ {0} /\ DOMAIN s = 1 .. Len(s)
  BY SeqOfMembers
<1>2. /\ Head(s) = s[1] /\ t \in Seq(ToSet(s)) /\ Len(t) = Len(s) - 1
      /\ \A i \in 1 .. Len(s) - 1 : t[i] = s[i + 1]
  BY <1>1, HeadTailProperties
<1> HIDE DEF t
<1>3. t \in Seq(ToSet(t)) /\ DOMAIN t = 1 .. Len(t)
  BY <1>2, SeqOfMembers
<1>4. ToSet(s) = {Head(s)} \cup ToSet(t)
  <2>1. ASSUME NEW i \in 1 .. Len(s), i # 1 PROVE s[i] \in ToSet(t)
    <3>1. i - 1 \in 1 .. Len(t) /\ (i - 1) + 1 = i
      BY <1>1, <1>2, <2>1
    <3>. QED BY <1>2, <1>3, <3>1 DEF ToSet
  <2>2. s[1] \in ToSet(s) /\ ToSet(t) \subseteq ToSet(s)
    BY <1>1, <1>2, SeqOfMembers DEF ToSet
  <2>. QED BY <1>1, <1>2, <2>1, <2>2 DEF ToSet
<1>. QED BY <1>1, <1>2, <1>3, <1>4 DEF t

-----------------------------------------------------------------------------
(* The invariant *)

\* The fields of the rows are there.
Shaped(g) ==
    /\ DOMAIN g = {"artifacts", "claims", "links"}
    /\ \A k \in DOMAIN g.claims : DOMAIN g.claims[k] = {"status", "confidence"}

GraphInv == Whole(db) /\ Shaped(db)

\* What the server can read.
Fits(line) ==
    /\ line.items \in Seq(ToSet(line.items))
    /\ \A m \in ToSet(line.items) \ {None} : WellTyped(m)

Scrapped(n) == sent[n].form \in {"garbage", "scalar"}

\* How many messages of the current line were taken up.
Done == Len(sent[taken].items) - Len(items)

SentInv ==
    /\ sent \in Seq(ToSet(sent)) /\ \A line \in ToSet(sent) : Fits(line)
    /\ taken \in 0 .. Len(sent)

\* The messages that are left are the last ones of the current line.
ItemsInv ==
    /\ items \in Seq(ToSet(items))
    /\ items # << >> \/ call # Idle => taken >= 1 /\ ~ Scrapped(taken)
    /\ taken >= 1 =>
        /\ Done \in 0 .. Len(sent[taken].items)
        /\ \A j \in 1 .. Len(items) :
            items[j] = [msg |-> sent[taken].items[Done + j], id |-> <<taken, Done + j>>]

\* How far a call is.
Stages == {"start", "count", "evidence", "round", "nodes", "stored", "collect"}

WalkFields == {"id", "tool", "args", "at", "round", "todo", "node", "query", "next", "seen",
               "edges", "nodes", "had"}

\* The call under way is that of the message last taken up.
CallInv ==
    call # Idle =>
        /\ call.at \in Stages
        /\ Done >= 1 /\ call.id = <<taken, Done>>
        /\ LET m == sent[taken].items[Done]
           IN  /\ m # None /\ m.current /\ m.named /\ m.method = "tools/call"
               /\ m.tool = call.tool
               /\ call.at = "start" =>
                    call = [id |-> call.id, tool |-> m.tool, args |-> m.args, at |-> "start"]
        /\ call.at \in {"round", "nodes"} => DOMAIN call = WalkFields
        /\ call.at = "collect" =>
            DOMAIN call = {"id", "tool", "at", "type", "scope", "todo", "findings", "full", "had"}

SessionInv == GraphInv /\ SentInv /\ ItemsInv /\ CallInv

\* The names of answers.
Names == {None} \cup (Nat \X Nat)

\* What answers the lines before the current one, and some of its messages.
Before == FlattenSeq([n \in 1 .. taken - 1 |-> Owed(n)])

SoFar(d) == IF taken = 0 THEN << >>
            ELSE IF Scrapped(taken) THEN <<None>>
            ELSE FlattenSeq([i \in 1 .. d |-> OwedFor(taken, i)])

Ids(answers) == [i \in DOMAIN answers |-> answers[i].id]

Pending == IF call = Idle THEN << >> ELSE <<call.id>>

\* What was answered, and the call under way, is what is owed so far.
OrderInv ==
    /\ out \in Seq(ToSet(out)) /\ replies \in Seq(ToSet(replies))
    /\ \A r \in ToSet(replies) \cup ToSet(out) : r.id \in Names
    /\ (Ids(replies) \o Ids(out)) \o Pending = Before \o SoFar(Done)

\* What a call knows holds when it goes on.
ProgressInv ==
    /\ call.at = "count" => /\ Len(call.page) \in Nat
                            /\ Len(call.page) <= CountArtifacts(db, call.args)
    /\ call.at = "evidence" => call.args \in DOMAIN db.claims
    /\ call.at = "collect" =>
        /\ call.type \in ToSet(QuestionTypes)
        /\ call.todo \in Seq(ToSet(call.todo))
        /\ ToSet(call.todo) \subseteq ToSet(Predicates[call.type])
        /\ call.full \in BOOLEAN
        /\ \A k \in DOMAIN call.findings :
            k \in DOMAIN db.claims /\ InScope(k, call) /\ call.findings[k] \in 0 .. 100
        /\ call.had \subseteq DOMAIN db.claims
        /\ \A k \in call.had :
            InScope(k, call) /\ k.predicate \notin ToSet(call.todo) =>
                \/ k \in DOMAIN call.findings
                \/ call.full /\ \E j \in DOMAIN call.findings : j.predicate = k.predicate

\* An answer that AnswersAreFounded admits.
Founded(r) ==
    /\ r.kind # "uncited"
    /\ r.kind = "artifacts" => /\ {Len(r.body.page), r.body.total} \subseteq Nat
                               /\ Len(r.body.page) <= r.body.total
    /\ r.kind = "claim" => r.body.missing = {}
    /\ r.kind = "answer" =>
        LET a == r.body
            cited == UNION {l.cites : l \in a.lines}
        IN  /\ \A k \in cited : k \in DOMAIN db.claims /\ InScope(k, a)
            /\ IF \E l \in a.lines : l.caveat
               THEN \A k \in a.had : InScope(k, a) => k.predicate # Predicates[a.type][1]
               ELSE a.full \/ \A k \in a.had : InScope(k, a) => k \in cited

FoundedInv == \A r \in ToSet(replies) \cup ToSet(out) : Founded(r)

\* The places of the claims that are there.
Present == {i \in DOMAIN ClaimOrder : ClaimOrder[i] \in DOMAIN db.claims}

\* The claims wanted are among those got or come after the offset.
Ahead(places, want, got, offset) ==
    \A i \in DOMAIN ClaimOrder :
        ClaimOrder[i] \in want => ClaimOrder[i] \in got \/ Rank(places, i) > offset

\* A page names a line that was read.
PageNamed(r) == r.kind = "page" => \E n \in 1 .. taken : \E i \in Nat : r.id = <<n, i>>

\* What the client makes of a page.
Turns(p, page) ==
    /\ Len(page) \in Nat
    /\ IF Len(page) < PageSize THEN p.want \subseteq p.got \cup ToSet(page)
       ELSE Ahead(Present, p.want, p.got \cup ToSet(page), p.offset + Len(page))

\* A client that waits has asked for the rest of the claims, and an answer it
\* has not read yet takes it on.
PagerInv ==
    /\ \A r \in ToSet(replies) \cup ToSet(out) : PageNamed(r)
    /\ pager.at \in {"off", "ready", "waiting", "failed", "done"}
    /\ pager.at = "done" => pager.want \subseteq pager.got
    /\ pager.at \in {"ready", "waiting"} =>
        /\ pager.want \subseteq DOMAIN db.claims /\ pager.offset \in Nat
        /\ Ahead(Present, pager.want, pager.got, pager.offset)
    /\ pager.at = "waiting" =>
        /\ \E n \in 1 .. Len(sent) : pager.id = <<n, 1>> /\ sent[n] = PageRequest(pager.offset)
        /\ \A r \in ToSet(replies) \cup ToSet(out) :
            r.id = pager.id /\ r.kind = "page" => Turns(pager, r.body)

-----------------------------------------------------------------------------
(* The graph grows *)

LEMMA PutHolds ==
    ASSUME NEW g, Whole(g), Shaped(g), NEW k \in Claims, NEW c \in 0 .. 100,
           k.evidence \subseteq g.artifacts, k.subject \in g.artifacts \cup {None}
    PROVE  Whole(Put(g, k, c)) /\ Shaped(Put(g, k, c)) /\ Grown(g, Put(g, k, c))
<1> DEFINE old == IF k \in DOMAIN g.claims THEN g.claims[k]
                  ELSE [status |-> "proposed", confidence |-> 0]
           row == [old EXCEPT !.confidence = Max({@, c})]
           rows == [j \in DOMAIN g.claims \cup {k} |-> IF j = k THEN row ELSE g.claims[j]]
           h == [g EXCEPT !.claims = rows]
<1>1. h = Put(g, k, c)
  BY DEF Put
<1>2. DOMAIN old = {"status", "confidence"} /\ old.confidence \in 0 .. 100
  BY DEF Whole, Shaped
<1> HIDE DEF old
<1>3. DOMAIN row = {"status", "confidence"} /\ row.confidence = Max({old.confidence, c})
  BY <1>2
<1> HIDE DEF row
<1>4. row.confidence \in 0 .. 100
  <2>1. old.confidence \in Int /\ c \in Int
    BY <1>2
  <2>2. Max({old.confidence, c}) = IF old.confidence >= c THEN old.confidence ELSE c
    BY <2>1, MaxOfTwo
  <2>. QED BY <1>2, <1>3, <2>2
<1>5. DOMAIN h = {"artifacts", "claims", "links"} /\ h.artifacts = g.artifacts
      /\ h.links = g.links /\ h.claims = rows
  BY DEF Shaped
<1>6. DOMAIN rows = DOMAIN g.claims \cup {k}
      /\ \A j \in DOMAIN rows : rows[j] = IF j = k THEN row ELSE g.claims[j]
  OBVIOUS
<1> HIDE DEF rows, h
<1>7. Shaped(h)
  BY <1>3, <1>5, <1>6 DEF Shaped
<1>8. /\ h.artifacts \subseteq Artifacts
      /\ \A a \in h.artifacts : Holder[a] \subseteq h.artifacts
      /\ DOMAIN h.claims \subseteq Claims
  BY <1>5, <1>6 DEF Whole
<1>9. ASSUME NEW j \in DOMAIN h.claims
      PROVE  /\ j.evidence \subseteq h.artifacts
             /\ j.subject \in h.artifacts \cup {None}
             /\ h.claims[j].confidence \in 0 .. 100
  BY <1>4, <1>5, <1>6 DEF Whole
<1>10. h.links \subseteq (DOMAIN h.claims) \X (DOMAIN h.claims)
  BY <1>5, <1>6 DEF Whole
<1>11. Grown(g, h)
  BY <1>5, <1>6 DEF Grown
<1>. QED BY <1>1, <1>7, <1>8, <1>9, <1>10, <1>11 DEF Whole

LEMMA GraphStarts == Init => GraphInv
<1>. SUFFICES ASSUME Init PROVE GraphInv
  OBVIOUS
<1>1. PICK g \in Started :
        db = [artifacts |-> g.artifacts, links |-> {},
              claims |-> [k \in g.claims |-> [status |-> "proposed", confidence |-> 30]]]
  BY DEF Init
<1>. QED BY <1>1, SessionAssumption DEF GraphInv, Whole, Shaped

LEMMA GraphSteps ==
    ASSUME GraphInv, [Next]_vars
    PROVE  GraphInv' /\ Grown(db, db')
<1>1. CASE UNCHANGED db
  BY <1>1 DEF GraphInv, Whole, Shaped, Grown
<1>2. ASSUME NEW a \in Artifacts, AddArtifact(a) PROVE GraphInv' /\ Grown(db, db')
  <2>1. Holder[a] \subseteq db.artifacts /\ db' = [db EXCEPT !.artifacts = @ \cup {a}]
    BY <1>2 DEF AddArtifact, Change
  <2>2. DOMAIN db' = {"artifacts", "claims", "links"} /\ db'.artifacts = db.artifacts \cup {a}
        /\ db'.claims = db.claims /\ db'.links = db.links
    BY <2>1 DEF GraphInv, Shaped
  <2>3. Shaped(db')
    BY <2>2 DEF GraphInv, Shaped
  <2>4. Whole(db')
    <3>1. \A b \in db'.artifacts : Holder[b] \subseteq db'.artifacts
      BY <2>1, <2>2 DEF GraphInv, Whole
    <3>. QED BY <2>2, <3>1 DEF GraphInv, Whole
  <2>. QED BY <2>2, <2>3, <2>4 DEF GraphInv, Grown
<1>3. ASSUME NEW k \in Claims, AddClaim(k, 90) PROVE GraphInv' /\ Grown(db, db')
  <2>1. db' = Put(db, k, 90) /\ k.evidence \subseteq db.artifacts
        /\ k.subject \in db.artifacts \cup {None}
    BY <1>3 DEF AddClaim, Change, Citable
  <2>. QED BY <2>1, PutHolds DEF GraphInv
<1>4. ASSUME NEW l \in Refinements, LinkClaims(l) PROVE GraphInv' /\ Grown(db, db')
  <2>1. {l[1], l[2]} \subseteq DOMAIN db.claims /\ db' = [db EXCEPT !.links = @ \cup {l}]
        /\ l \in Claims \X Claims
    BY <1>4, SessionAssumption DEF LinkClaims, Change
  <2>2. DOMAIN db' = {"artifacts", "claims", "links"} /\ db'.links = db.links \cup {l}
        /\ db'.claims = db.claims /\ db'.artifacts = db.artifacts
    BY <2>1 DEF GraphInv, Shaped
  <2>3. l \in (DOMAIN db.claims) \X (DOMAIN db.claims)
    BY <2>1
  <2>. QED BY <2>2, <2>3 DEF GraphInv, Shaped, Whole, Grown
<1>5. ASSUME NEW k \in Claims, Decide(k) PROVE GraphInv' /\ Grown(db, db')
  <2>1. k \in DOMAIN db.claims /\ db' = [db EXCEPT !.claims[k].status = "rejected"]
    BY <1>5 DEF Decide, Change
  <2>2. DOMAIN db' = {"artifacts", "claims", "links"} /\ db'.links = db.links
        /\ db'.artifacts = db.artifacts
        /\ db'.claims = [db.claims EXCEPT ![k].status = "rejected"]
    BY <2>1 DEF GraphInv, Shaped
  <2>3. DOMAIN db'.claims = DOMAIN db.claims
        /\ \A j \in DOMAIN db.claims :
            /\ DOMAIN db'.claims[j] = DOMAIN db.claims[j]
            /\ db'.claims[j].confidence = db.claims[j].confidence
    BY <2>1, <2>2 DEF GraphInv, Shaped
  <2>. QED BY <2>2, <2>3 DEF GraphInv, Shaped, Whole, Grown
<1>6. CASE SubmitTool
  <2>1. db' = Put(db, call.args, 50) /\ call.args \in Claims
        /\ call.args.evidence \subseteq db.artifacts
        /\ call.args.subject \in db.artifacts \cup {None}
    BY <1>6, SessionAssumption DEF SubmitTool, Citable
  <2>. QED BY <2>1, PutHolds DEF GraphInv
<1>7. CASE UNCHANGED vars
  BY <1>1, <1>7 DEF vars
<1>8. CASE Send \/ StartPaging \/ RequestPage \/ ReceivePage
  BY <1>1, <1>8 DEF Send, StartPaging, RequestPage, ReceivePage, Write
<1>9. CASE ReadLine \/ Handle \/ StartCall \/ FailCall \/ Flush
  BY <1>1, <1>9 DEF ReadLine, Handle, StartCall, FailCall, Flush
<1>10. CASE FindTool \/ ArtifactsTool \/ ArtifactsAnswer \/ ClaimTool \/ ClaimAnswer
  BY <1>1, <1>10 DEF FindTool, ArtifactsTool, ArtifactsAnswer, ClaimTool, ClaimAnswer
<1>11. CASE NeighborsTool \/ WalkQuery \/ WalkRound \/ WalkNode \/ WalkAnswer
  BY <1>1, <1>11 DEF NeighborsTool, WalkQuery, WalkRound, WalkNode, WalkAnswer
<1>12. CASE SubmitAnswer \/ AskTool \/ AskCollect \/ AskAnswer
  BY <1>1, <1>12 DEF SubmitAnswer, AskTool, AskCollect, AskAnswer
<1>. QED BY <1>2, <1>3, <1>4, <1>5, <1>6, <1>7, <1>8, <1>9, <1>10, <1>11, <1>12 DEF Next

-----------------------------------------------------------------------------
(* The steps of the session, by what they do to the line and the call *)

Written(line) == Fits(line) /\ sent' = Append(sent, line) /\ UNCHANGED server

Finished == call # Idle /\ \E kind, body : Finish(kind, body)

Moved ==
    /\ call # Idle
    /\ call'.at \in Stages \ {"start"}
    /\ call'.id = call.id /\ call'.tool = call.tool
    /\ call'.at \in {"round", "nodes"} => DOMAIN call' = WalkFields
    /\ call'.at = "collect" =>
        DOMAIN call' = {"id", "tool", "at", "type", "scope", "todo", "findings", "full", "had"}
    /\ UNCHANGED <<sent, taken, items, out, replies, pager>>

LEMMA RequestsFit == ASSUME NEW o PROVE Fits(PageRequest(o)) /\ PageRequest(o).form = "object"
<1> DEFINE args == [AllClaims EXCEPT !.offset = o, !.limit = PageSize]
           m == [current |-> TRUE, named |-> TRUE, method |-> "tools/call", tool |-> "find",
                 args |-> args]
           s == <<m>>
<1> HIDE DEF args
<1>1. m.current = TRUE /\ m.named = TRUE /\ m.tool = "find"
  OBVIOUS
<1>2. WellTyped(m)
  BY <1>1 DEF WellTyped
<1>3. s \in Seq({m}) /\ ToSet(s) = {m}
  <2>. HIDE DEF m
  <2>1. s \in Seq({m}) /\ DOMAIN s = {1} /\ s[1] = m
    OBVIOUS
  <2>. QED BY <2>1 DEF ToSet
<1>4. PageRequest(o).items = s /\ PageRequest(o).form = "object"
  BY DEF PageRequest, args
<1> HIDE DEF m, s
<1>. QED BY <1>2, <1>3, <1>4 DEF Fits

\* A step of a walk goes on with the call.
LEMMA WalkMoves ==
    ASSUME CallInv, WalkQuery \/ WalkRound \/ WalkNode
    PROVE  Moved /\ call'.at \in {"round", "nodes"} /\ call'.args = call.args /\ call'.had = call.had
<1>1. CASE WalkQuery
  <2>1. call.at = "round" /\ call # Idle
    <3>1. call.at = "round"
      BY <1>1 DEF WalkQuery, InCall
    <3>. QED BY <3>1 DEF Idle
  <2>2. DOMAIN call = WalkFields
    BY <2>1 DEF CallInv
  <2>3. PICK n, rows, added :
            call' = [call EXCEPT !.node = n,
                                 !.query = IF @ = 3 THEN 1 ELSE @ + 1,
                                 !.todo = IF call.query = 3 THEN @ \ {n} ELSE @,
                                 !.next = @ \cup added,
                                 !.seen = @ \cup added,
                                 !.edges = @ \cup rows]
    BY <1>1, Zenon DEF WalkQuery
  <2>4. DOMAIN call' = WalkFields /\ call'.at = "round" /\ call'.id = call.id
        /\ call'.tool = call.tool /\ call'.args = call.args /\ call'.had = call.had
    BY <2>1, <2>2, <2>3 DEF WalkFields
  <2>. QED BY <1>1, <2>1, <2>4 DEF WalkQuery, Moved, Stages
<1>2. CASE WalkRound
  <2>1. call.at = "round" /\ call # Idle
    BY <1>2 DEF WalkRound, InCall, Idle
  <2>2. DOMAIN call = WalkFields
    BY <2>1 DEF CallInv
  <2>3. \/ call' = [call EXCEPT !.at = "nodes", !.todo = call.seen, !.next = {}]
        \/ call' = [call EXCEPT !.round = @ + 1, !.todo = call.next, !.next = {}]
    BY <1>2 DEF WalkRound
  <2>4. DOMAIN call' = WalkFields /\ call'.at \in {"round", "nodes"} /\ call'.id = call.id
        /\ call'.tool = call.tool /\ call'.args = call.args /\ call'.had = call.had
    BY <2>1, <2>2, <2>3 DEF WalkFields
  <2>. QED BY <1>2, <2>1, <2>4 DEF WalkRound, Moved, Stages
<1>3. CASE WalkNode
  <2>1. call.at = "nodes" /\ call # Idle
    BY <1>3 DEF WalkNode, InCall, Idle
  <2>2. DOMAIN call = WalkFields
    BY <2>1 DEF CallInv
  <2>3. \E todo, nodes : call' = [call EXCEPT !.todo = todo, !.nodes = nodes]
    BY <1>3 DEF WalkNode
  <2>4. DOMAIN call' = WalkFields /\ call'.at = "nodes" /\ call'.id = call.id
        /\ call'.tool = call.tool /\ call'.args = call.args /\ call'.had = call.had
    BY <2>1, <2>2, <2>3 DEF WalkFields
  <2>. QED BY <1>3, <2>1, <2>4 DEF WalkNode, Moved, Stages
<1>. QED BY <1>1, <1>2, <1>3

LEMMA StepKinds ==
    ASSUME CallInv, [Next]_vars
    PROVE  \/ UNCHANGED <<sent, server>>
           \/ \E line : Written(line)
           \/ ReadLine \/ Handle \/ StartCall \/ Flush
           \/ Finished \/ Moved
<1>1. ASSUME call.at \in Stages PROVE call # Idle
  BY <1>1 DEF Idle, Stages
<1>2. ASSUME NEW kind, NEW body, Finish(kind, body), call.at \in Stages
      PROVE  Finished
  BY <1>1, <1>2 DEF Finished
<1>3. CASE UNCHANGED vars
  BY <1>3 DEF vars, server
<1>4. ASSUME \/ \E a \in Artifacts : AddArtifact(a)
             \/ \E k \in Claims : AddClaim(k, 90)
             \/ \E l \in Refinements : LinkClaims(l)
             \/ \E k \in Claims : Decide(k)
      PROVE  UNCHANGED <<sent, server>>
  BY <1>4 DEF AddArtifact, AddClaim, LinkClaims, Decide, Change
<1>5. CASE Send
  <2>1. PICK line \in Lines : Write(line)
    BY <1>5 DEF Send
  <2>. QED BY <2>1, SessionAssumption DEF Write, Written, Fits
<1>6. CASE RequestPage
  BY <1>6, RequestsFit DEF RequestPage, Write, Written
<1>7. CASE StartPaging \/ ReceivePage
  BY <1>7 DEF StartPaging, ReceivePage
<1>8. CASE ReadLine \/ Handle \/ StartCall \/ Flush
  BY <1>8
<1>9. CASE FailCall
  BY <1>9 DEF FailCall, Finished
<1>10. CASE FindTool \/ ArtifactsAnswer \/ ClaimAnswer \/ WalkAnswer \/ SubmitAnswer
  BY <1>2, <1>10 DEF FindTool, ArtifactsAnswer, ClaimAnswer, WalkAnswer, SubmitAnswer, InCall, Stages
<1>11. CASE ArtifactsTool
  <2>1. call.at = "start" /\ call.tool = "artifacts"
    BY <1>11 DEF ArtifactsTool, InCall, Stages
  <2>2. \/ Finish("toolerror", None)
        \/ \E q, page : /\ call' = [id |-> call.id, tool |-> "artifacts", args |-> q,
                                    at |-> "count", page |-> page]
                        /\ UNCHANGED <<changed, sent, taken, items, out, replies, pager>>
    BY <1>11 DEF ArtifactsTool
  <2>. QED BY <1>1, <1>2, <2>1, <2>2 DEF Moved, Stages
<1>12. CASE ClaimTool
  <2>1. call.at = "start" /\ call.tool = "claim" /\ call # Idle
    BY <1>1, <1>12 DEF ClaimTool, InCall, Stages
  <2>2. DOMAIN call = {"id", "tool", "args", "at"}
    BY <2>1 DEF CallInv
  <2>3. \/ Finish("toolerror", None)
        \/ /\ call' = [call EXCEPT !.at = "evidence"]
           /\ UNCHANGED <<changed, sent, taken, items, out, replies, pager>>
    BY <1>12 DEF ClaimTool
  <2>. QED BY <1>2, <2>1, <2>2, <2>3 DEF Moved, Stages
<1>13. CASE SubmitTool
  <2>1. call.at = "start" /\ call # Idle
    BY <1>1, <1>13 DEF SubmitTool, InCall, Stages
  <2>2. DOMAIN call = {"id", "tool", "args", "at"}
    BY <2>1 DEF CallInv
  <2>. QED BY <1>13, <2>1, <2>2 DEF SubmitTool, Moved, Stages
<1>14. CASE AskTool
  <2>1. call.at = "start" /\ call.tool = "ask" /\ call # Idle
    BY <1>1, <1>14 DEF AskTool, InCall, Stages
  <2>2. \/ \E kind : Finish(kind, None)
        \/ \E type, scope, todo, had :
            /\ call' = [id |-> call.id, tool |-> "ask", at |-> "collect", type |-> type,
                        scope |-> scope, todo |-> todo, findings |-> << >>,
                        full |-> FALSE, had |-> had]
            /\ UNCHANGED <<changed, sent, taken, items, out, replies, pager>>
    BY <1>14 DEF AskTool
  <2>. QED BY <1>2, <2>1, <2>2 DEF Moved, Stages
<1>15. CASE AskCollect
  <2>1. call.at = "collect" /\ call # Idle
    BY <1>1, <1>15 DEF AskCollect, InCall, Stages
  <2>2. DOMAIN call = {"id", "tool", "at", "type", "scope", "todo", "findings", "full", "had"}
    BY <2>1 DEF CallInv
  <2>3. \E todo, findings, full :
            /\ call' = [call EXCEPT !.todo = todo, !.findings = findings, !.full = full]
            /\ UNCHANGED <<changed, sent, taken, items, out, replies, pager>>
    BY <1>15 DEF AskCollect
  <2>. QED BY <2>1, <2>2, <2>3 DEF Moved, Stages
<1>16. CASE AskAnswer
  BY <1>2, <1>16 DEF AskAnswer, InCall, Stages
<1>17. CASE NeighborsTool
  <2>1. call.at = "start" /\ call.tool = "neighbors" /\ call # Idle
    BY <1>1, <1>17 DEF NeighborsTool, InCall, Stages
  <2>2. \E root, args, had :
            call' = [id |-> call.id, tool |-> "neighbors", args |-> args, at |-> "round",
                     round |-> 1, todo |-> {root}, node |-> root, query |-> 1, next |-> {},
                     seen |-> {root}, edges |-> {}, nodes |-> {}, had |-> had]
    BY <1>17 DEF NeighborsTool
  <2>3. call'.at = "round" /\ call'.id = call.id /\ call'.tool = call.tool
        /\ DOMAIN call' = WalkFields
    BY <2>1, <2>2 DEF WalkFields
  <2>. QED BY <1>17, <2>1, <2>3 DEF NeighborsTool, Moved, Stages
<1>18. CASE WalkQuery \/ WalkRound \/ WalkNode
  BY <1>18, WalkMoves
<1>. QED BY <1>3, <1>4, <1>5, <1>6, <1>7, <1>8, <1>9, <1>10, <1>11, <1>12, <1>13, <1>14,
            <1>15, <1>16, <1>17, <1>18 DEF Next

LEMMA LinesStart == Init => SentInv /\ ItemsInv /\ CallInv
<1>. SUFFICES ASSUME Init PROVE SentInv /\ ItemsInv /\ CallInv
  OBVIOUS
<1>1. sent = << >> /\ taken = 0 /\ items = << >> /\ call = Idle
  BY DEF Init
<1>2. << >> \in Seq({}) /\ Len(<< >>) = 0 /\ ToSet(<< >>) = {}
  BY EmptySeq DEF ToSet
<1>. QED BY <1>1, <1>2 DEF SentInv, ItemsInv, CallInv

\* A line that was written stays as it is.
LEMMA SentOn ==
    ASSUME SentInv, NEW line, Written(line)
    PROVE  /\ SentInv' /\ Len(sent) \in Nat /\ Len(sent') = Len(sent) + 1
           /\ sent'[Len(sent) + 1] = line
           /\ \A n \in 1 .. Len(sent) : sent'[n] = sent[n]
<1>1. sent' = Append(sent, line) /\ taken' = taken /\ Fits(line)
  BY DEF Written, server
<1>2. /\ sent' \in Seq(ToSet(sent')) /\ ToSet(sent') = ToSet(sent) \cup {line}
      /\ Len(sent) \in Nat /\ Len(sent') = Len(sent) + 1
      /\ \A i \in 1 .. Len(sent) : sent'[i] = sent[i]
      /\ sent'[Len(sent) + 1] = line
  BY <1>1, Appended DEF SentInv
<1>3. \A l \in ToSet(sent') : Fits(l)
  BY <1>1, <1>2 DEF SentInv
<1>4. taken' \in 0 .. Len(sent')
  BY <1>1, <1>2 DEF SentInv
<1>. QED BY <1>2, <1>3, <1>4 DEF SentInv

\* The messages of a line that was written.
LEMMA LineFits ==
    ASSUME SentInv, NEW n \in 1 .. Len(sent)
    PROVE  /\ Fits(sent[n]) /\ Len(sent[n].items) \in Nat
           /\ DOMAIN sent[n].items = 1 .. Len(sent[n].items)
           /\ \A i \in 1 .. Len(sent[n].items) :
                sent[n].items[i] # None => WellTyped(sent[n].items[i])
<1>1. sent[n] \in ToSet(sent)
  BY SeqOfMembers DEF SentInv, ToSet
<1>2. Fits(sent[n])
  BY <1>1 DEF SentInv
<1> DEFINE s == sent[n].items
<1>3. s \in Seq(ToSet(s)) /\ \A m \in ToSet(s) \ {None} : WellTyped(m)
  BY <1>2 DEF Fits
<1> HIDE DEF s
<1>4. Len(s) \in Nat /\ DOMAIN s = 1 .. Len(s)
  BY <1>3, SeqOfMembers
<1>5. \A i \in 1 .. Len(s) : s[i] \in ToSet(s)
  BY <1>4 DEF ToSet
<1>. QED BY <1>2, <1>3, <1>4, <1>5 DEF s

\* The first message that is left is the next one of the line.
LEMMA NextMessage ==
    ASSUME SentInv, ItemsInv, items # << >>
    PROVE  /\ taken \in 1 .. Len(sent) /\ ~ Scrapped(taken)
           /\ Done \in Nat /\ Done + 1 \in 1 .. Len(sent[taken].items)
           /\ Head(items) = [msg |-> sent[taken].items[Done + 1], id |-> <<taken, Done + 1>>]
           /\ Tail(items) \in Seq(ToSet(Tail(items)))
           /\ Len(Tail(items)) = Len(items) - 1
           /\ Len(sent[taken].items) - Len(Tail(items)) = Done + 1
           /\ \A j \in 1 .. Len(Tail(items)) :
                Tail(items)[j] = [msg |-> sent[taken].items[(Done + 1) + j],
                                  id |-> <<taken, (Done + 1) + j>>]
<1>1. /\ Len(items) \in Nat \ {0} /\ Head(items) = items[1]
      /\ Tail(items) \in Seq(ToSet(Tail(items))) /\ Len(Tail(items)) = Len(items) - 1
      /\ \A i \in 1 .. Len(items) - 1 : Tail(items)[i] = items[i + 1]
  BY Tailed DEF ItemsInv
<1>2. taken \in 1 .. Len(sent) /\ ~ Scrapped(taken)
  BY SeqOfMembers DEF SentInv, ItemsInv
<1> DEFINE d == Done  len == Len(sent[taken].items)
<1>3. len \in Nat
  BY <1>2, LineFits
<1>4. d = len - Len(items)
  BY DEF Done
<1>5. /\ d \in 0 .. len
      /\ \A j \in 1 .. Len(items) :
            items[j] = [msg |-> sent[taken].items[d + j], id |-> <<taken, d + j>>]
  BY <1>2 DEF ItemsInv
<1> HIDE DEF d, len
<1>6. d \in Nat /\ d + 1 \in 1 .. len /\ len - Len(Tail(items)) = d + 1
  BY <1>1, <1>3, <1>4, <1>5
<1>7. Head(items) = [msg |-> sent[taken].items[d + 1], id |-> <<taken, d + 1>>]
  BY <1>1, <1>5
<1>8. ASSUME NEW j \in 1 .. Len(items) - 1
      PROVE  Tail(items)[j] = [msg |-> sent[taken].items[(d + 1) + j], id |-> <<taken, (d + 1) + j>>]
  <2>1. j + 1 \in 1 .. Len(items) /\ d + (j + 1) = (d + 1) + j
    BY <1>1, <1>6
  <2>2. items[j + 1] = [msg |-> sent[taken].items[d + (j + 1)], id |-> <<taken, d + (j + 1)>>]
    BY <1>5, <2>1
  <2>. QED BY <1>1, <2>1, <2>2
<1>. QED BY <1>1, <1>2, <1>6, <1>7, <1>8 DEF d, len

\* What ReadLine leaves to be handled.
LEMMA LineRead ==
    ASSUME SentInv, ReadLine
    PROVE  /\ SentInv' /\ ItemsInv' /\ CallInv'
           /\ taken' = taken + 1 /\ taken \in Nat /\ taken' \in 1 .. Len(sent) /\ sent' = sent
           /\ items = << >> /\ out = << >> /\ call = Idle /\ call' = Idle /\ replies' = replies
           /\ IF Scrapped(taken') THEN out' = <<Answer(None, "error", None)>>
              ELSE out' = out /\ Done' = 0
<1>1. /\ taken' = taken + 1 /\ taken < Len(sent) /\ sent' = sent
      /\ items = << >> /\ out = << >> /\ call = Idle /\ call' = Idle /\ replies' = replies
  BY DEF ReadLine, Ready
<1>2. Len(sent) \in Nat /\ taken' \in 1 .. Len(sent) /\ taken' >= 1 /\ taken' \in 0 .. Len(sent')
      /\ taken \in Nat
  BY <1>1, SeqOfMembers DEF SentInv
<1>3. SentInv'
  BY <1>1, <1>2 DEF SentInv
<1>4. CallInv'
  BY <1>1 DEF CallInv
<1> DEFINE s == sent[taken'].items
           numbered == [i \in DOMAIN s |-> [msg |-> s[i], id |-> <<taken', i>>]]
<1>5. Len(s) \in Nat /\ DOMAIN s = 1 .. Len(s)
  BY <1>2, LineFits
<1>6. CASE Scrapped(taken')
  <2>1. items' = items /\ out' = <<Answer(None, "error", None)>>
    BY <1>6 DEF ReadLine, Scrapped
  <2>2. Len(<< >>) = 0 /\ items' = << >> /\ << >> \in Seq(ToSet(<< >>))
    BY <1>1, <2>1, EmptySeq
  <2>3. Done' = Len(s)
    BY <1>1, <1>5, <2>2 DEF Done
  <2>4. ItemsInv'
    BY <1>1, <1>5, <2>2, <2>3 DEF ItemsInv
  <2>. QED BY <1>1, <1>2, <1>3, <1>4, <1>6, <2>1, <2>4
<1>7. CASE ~ Scrapped(taken')
  <2>1. items' = numbered /\ out' = out
    BY <1>7 DEF ReadLine, Scrapped
  <2>2. numbered \in Seq(ToSet(numbered)) /\ Len(numbered) = Len(s)
        /\ \A j \in 1 .. Len(s) : numbered[j] = [msg |-> s[j], id |-> <<taken', j>>]
    <3>1. \A j \in DOMAIN s : numbered[j] \in ToSet(numbered)
      BY DEF ToSet
    <3>2. numbered \in [1 .. Len(s) -> ToSet(numbered)]
      <4>. HIDE DEF s
      <4>. QED BY <1>5, <3>1
    <3>3. numbered \in Seq(ToSet(numbered))
      BY <1>5, <3>2
    <3>4. DOMAIN numbered = 1 .. Len(s)
      BY <1>5
    <3>5. Len(numbered) = Len(s)
      <4>. HIDE DEF numbered, s
      <4>. QED BY <1>5, <3>3, <3>4, LenProperties
    <3>. QED BY <1>5, <3>3, <3>5
  <2> HIDE DEF numbered
  <2>3. Done' = 0
    BY <1>1, <1>5, <2>1, <2>2 DEF Done
  <2>4. ASSUME NEW j \in 1 .. Len(s)
        PROVE  items'[j] = [msg |-> sent'[taken'].items[Done' + j], id |-> <<taken', Done' + j>>]
    <3>1. Done' + j = j
      BY <2>3
    <3>. QED BY <1>1, <2>1, <2>2, <3>1
  <2>5. (Scrapped(taken))' = Scrapped(taken')
    BY <1>1 DEF Scrapped
  <2>6. ItemsInv'
    <3>1. Done' \in 0 .. Len(sent'[taken'].items)
      BY <1>1, <1>5, <2>3
    <3>. QED BY <1>1, <1>2, <1>7, <2>1, <2>2, <2>4, <2>5, <3>1 DEF ItemsInv
  <2>. QED BY <1>1, <1>2, <1>3, <1>4, <1>7, <2>1, <2>3, <2>6
<1>. QED BY <1>6, <1>7

LEMMA LineSteps ==
    ASSUME SentInv, ItemsInv, CallInv, [Next]_vars
    PROVE  SentInv' /\ ItemsInv' /\ CallInv'
<1>1. CASE UNCHANGED <<sent, server>>
  BY <1>1 DEF server, SentInv, ItemsInv, CallInv, Done, Scrapped
<1>2. ASSUME NEW line, Written(line) PROVE SentInv' /\ ItemsInv' /\ CallInv'
  <2>1. /\ SentInv' /\ taken' = taken /\ items' = items /\ call' = call
        /\ taken \in 0 .. Len(sent) /\ Len(sent) \in Nat
        /\ \A n \in 1 .. Len(sent) : sent'[n] = sent[n]
    BY <1>2, SentOn DEF Written, server, SentInv
  <2>2. CASE taken = 0
    BY <2>1, <2>2 DEF ItemsInv, CallInv
  <2>3. CASE taken # 0
    <3>1. taken \in 1 .. Len(sent) /\ sent'[taken'] = sent[taken]
      BY <2>1, <2>3
    <3>2. Done' = Done /\ (Scrapped(taken))' = Scrapped(taken)
      BY <2>1, <3>1 DEF Done, Scrapped
    <3>3. ItemsInv'
      BY <2>1, <3>1, <3>2 DEF ItemsInv
    <3>4. CallInv'
      BY <2>1, <3>1, <3>2 DEF CallInv
    <3>. QED BY <2>1, <3>3, <3>4
  <2>. QED BY <2>2, <2>3
<1>3. CASE ReadLine
  BY <1>3, LineRead
<1>4. CASE Handle \/ StartCall
  <2>1. /\ items # << >> /\ items' = Tail(items) /\ sent' = sent /\ taken' = taken /\ call = Idle
    BY <1>4 DEF Handle, StartCall
  <2>2. /\ Done' = Done + 1
        /\ (Scrapped(taken))' = Scrapped(taken)
    BY <2>1, NextMessage DEF Done, Scrapped
  <2>3. SentInv'
    BY <2>1 DEF SentInv
  <2>4. ItemsInv'
    <3>1. taken \in 1 .. Len(sent) /\ taken >= 1 /\ ~ Scrapped(taken)
          /\ Done + 1 \in 0 .. Len(sent[taken].items)
      BY <2>1, NextMessage
    <3>2. \A j \in 1 .. Len(items') :
            items'[j] = [msg |-> sent'[taken'].items[Done' + j], id |-> <<taken', Done' + j>>]
      BY <2>1, <2>2, NextMessage
    <3>. QED BY <2>1, <2>2, <3>1, <3>2, NextMessage DEF ItemsInv
  <2>5. CallInv'
    <3>1. CASE Handle
      BY <2>1, <3>1 DEF Handle, CallInv
    <3>2. CASE StartCall
      <4> DEFINE m == Head(items)
      <4>1. /\ IsCall(m)
            /\ call' = [id |-> m.id, tool |-> m.msg.tool, args |-> m.msg.args, at |-> "start"]
        BY <3>2 DEF StartCall
      <4>2. /\ m.msg = sent'[taken'].items[Done'] /\ m.id = <<taken', Done'>>
            /\ Done' \in Nat /\ Done' >= 1
        BY <2>1, <2>2, NextMessage
      <4> HIDE DEF m
      <4>. QED BY <4>1, <4>2 DEF CallInv, IsCall, Stages
    <3>. QED BY <1>4, <3>1, <3>2
  <2>. QED BY <2>3, <2>4, <2>5
<1>5. CASE Flush
  BY <1>5 DEF Flush, SentInv, ItemsInv, CallInv, Done, Scrapped
<1>6. CASE Finished
  BY <1>6 DEF Finished, Finish, SentInv, ItemsInv, CallInv, Done, Scrapped
<1>7. CASE Moved
  <2>1. /\ call' # Idle /\ call # Idle
        /\ sent' = sent /\ taken' = taken /\ items' = items /\ Done' = Done
        /\ (Scrapped(taken))' = Scrapped(taken)
    BY <1>7 DEF Moved, Stages, Idle, Done, Scrapped
  <2>. QED BY <1>7, <2>1 DEF Moved, SentInv, ItemsInv, CallInv
<1>. QED BY <1>1, <1>2, <1>3, <1>4, <1>5, <1>6, <1>7, StepKinds

THEOREM SessionInvariance == Spec => []SessionInv
<1>1. Init => SessionInv
  BY GraphStarts, LinesStart DEF SessionInv
<1>2. SessionInv /\ [Next]_vars => SessionInv'
  BY GraphSteps, LineSteps DEF SessionInv
<1>. QED BY <1>1, <1>2, PTL DEF Spec

\* The arguments of a call that starts.
LEMMA ArgumentsTyped ==
    ASSUME SentInv, ItemsInv, CallInv, call.at = "start"
    PROVE  /\ call.tool = "neighbors" => {call.args.depth, call.args.limit} \subseteq Nat
           /\ call.tool = "artifacts" => {call.args.offset, call.args.limit} \subseteq Nat
<1>1. call # Idle
  BY DEF Idle
<1>2. taken \in 1 .. Len(sent) /\ Done \in 1 .. Len(sent[taken].items)
  <2>1. taken \in 1 .. Len(sent) /\ Done \in 0 .. Len(sent[taken].items) /\ Done >= 1
    BY <1>1, SeqOfMembers DEF SentInv, ItemsInv, CallInv
  <2>. QED BY <2>1, LineFits
<1> DEFINE m == sent[taken].items[Done]
<1>3. m # None /\ m.tool = call.tool /\ call.args = m.args
  BY <1>1 DEF CallInv
<1>4. WellTyped(m)
  BY <1>2, <1>3, LineFits
<1> HIDE DEF m
<1>. QED BY <1>3, <1>4 DEF WellTyped

-----------------------------------------------------------------------------
(* The order of the answers *)

LEMMA IdsOf ==
    ASSUME NEW s, s \in Seq(ToSet(s)), \A r \in ToSet(s) : r.id \in Names
    PROVE  /\ Ids(s) \in Seq(Names) /\ Len(Ids(s)) = Len(s) /\ Len(s) \in Nat
           /\ \A i \in 1 .. Len(s) : Ids(s)[i] = s[i].id
<1>1. Len(s) \in Nat /\ DOMAIN s = 1 .. Len(s)
  BY SeqOfMembers
<1>2. \A i \in 1 .. Len(s) : s[i].id \in Names
  BY <1>1 DEF ToSet
<1>3. Ids(s) \in [1 .. Len(s) -> Names] /\ \A i \in 1 .. Len(s) : Ids(s)[i] = s[i].id
  BY <1>1, <1>2 DEF Ids
<1>4. Ids(s) \in Seq(Names) /\ Len(Ids(s)) = Len(s)
  <2> DEFINE t == Ids(s)
  <2>1. t \in [1 .. Len(s) -> Names]
    BY <1>3
  <2>. HIDE DEF t
  <2>2. t \in Seq(Names) /\ Len(t) = Len(s)
    BY <1>1, <2>1
  <2>. QED BY <2>2 DEF t
<1>. QED BY <1>1, <1>3, <1>4

LEMMA IdsJoined ==
    ASSUME NEW s, s \in Seq(ToSet(s)), \A r \in ToSet(s) : r.id \in Names,
           NEW t, t \in Seq(ToSet(t)), \A r \in ToSet(t) : r.id \in Names
    PROVE  Ids(s \o t) = Ids(s) \o Ids(t)
<1> DEFINE u == s \o t  a == Ids(s)  b == Ids(t)  c == Ids(s \o t)
<1>1. /\ u \in Seq(ToSet(u)) /\ ToSet(u) = ToSet(s) \cup ToSet(t)
      /\ Len(u) = Len(s) + Len(t)
      /\ \A i \in 1 .. Len(s) : u[i] = s[i]
      /\ \A i \in 1 .. Len(t) : u[Len(s) + i] = t[i]
  BY Joined
<1>2. /\ a \in Seq(Names) /\ Len(a) = Len(s) /\ Len(s) \in Nat
      /\ \A i \in 1 .. Len(s) : a[i] = s[i].id
  BY IdsOf
<1>3. /\ b \in Seq(Names) /\ Len(b) = Len(t) /\ Len(t) \in Nat
      /\ \A i \in 1 .. Len(t) : b[i] = t[i].id
  BY IdsOf
<1>4. /\ c \in Seq(Names) /\ Len(c) = Len(u)
      /\ \A i \in 1 .. Len(u) : c[i] = u[i].id
  <2>. HIDE DEF u
  <2>1. Ids(u) \in Seq(Names) /\ Len(Ids(u)) = Len(u)
        /\ \A i \in 1 .. Len(u) : Ids(u)[i] = u[i].id
    BY <1>1, IdsOf
  <2>. QED BY <2>1 DEF u
<1> HIDE DEF a, b, c, u
<1>5. /\ a \o b \in Seq(Names) /\ Len(a \o b) = Len(s) + Len(t)
      /\ \A i \in 1 .. Len(a) + Len(b) :
            (a \o b)[i] = IF i <= Len(a) THEN a[i] ELSE b[i - Len(a)]
  <2>1. a \in Seq(Names) /\ b \in Seq(Names) /\ Len(a) = Len(s) /\ Len(b) = Len(t)
    BY <1>2, <1>3
  <2>2. /\ a \o b \in Seq(Names) /\ Len(a \o b) = Len(a) + Len(b)
        /\ \A i \in 1 .. Len(a) + Len(b) :
            (a \o b)[i] = IF i <= Len(a) THEN a[i] ELSE b[i - Len(a)]
    BY <2>1, ConcatProperties
  <2>. QED BY <2>1, <2>2
<1>6. ASSUME NEW i \in 1 .. Len(s) + Len(t) PROVE c[i] = (a \o b)[i]
  <2>1. CASE i <= Len(s)
    <3>1. i \in 1 .. Len(s) /\ i \in 1 .. Len(u)
      BY <1>1, <1>2, <2>1
    <3>. QED BY <1>1, <1>2, <1>3, <1>4, <1>5, <2>1, <3>1
  <2>2. CASE ~ i <= Len(s)
    <3>1. i - Len(s) \in 1 .. Len(t) /\ Len(s) + (i - Len(s)) = i /\ i \in 1 .. Len(u)
      BY <1>1, <1>2, <1>3, <2>2
    <3>2. u[i] = t[i - Len(s)]
      BY <1>1, <3>1
    <3>. QED BY <1>1, <1>2, <1>3, <1>4, <1>5, <2>2, <3>1, <3>2
  <2>. QED BY <2>1, <2>2
<1>7. c = a \o b
  BY <1>1, <1>4, <1>5, <1>6, SeqEqual
<1>. QED BY <1>7 DEF a, b, c, u

LEMMA IdOfOne ==
    ASSUME NEW x, x.id \in Names
    PROVE  /\ Ids(<<x>>) = <<x.id>> /\ <<x>> \in Seq(ToSet(<<x>>)) /\ ToSet(<<x>>) = {x}
           /\ <<x.id>> \in Seq(Names)
<1> DEFINE s == <<x>>
<1>1. DOMAIN s = {1} /\ s[1] = x /\ s \in Seq({x}) /\ Len(s) = 1
  OBVIOUS
<1>2. Ids(s) = [i \in {1} |-> x.id] /\ ToSet(s) = {x}
  BY <1>1 DEF Ids, ToSet
<1>3. <<x.id>> = [i \in {1} |-> x.id]
  OBVIOUS
<1>. QED BY <1>1, <1>2, <1>3

LEMMA IdsOfNone == Ids(<< >>) = << >> /\ << >> \in Seq(ToSet(<< >>)) /\ ToSet(<< >>) = {}
                   /\ << >> \in Seq(Names)
<1>1. DOMAIN << >> = {}
  OBVIOUS
<1>2. << >> \in Seq(ToSet(<< >>)) /\ << >> \in Seq(Names)
  BY EmptySeq
<1>3. Ids(<< >>) = << >>
  <2> DEFINE t == Ids(<< >>)
  <2>1. t = [i \in {} |-> t[i]]
    BY <1>1 DEF Ids
  <2>2. t \in [1 .. 0 -> Names]
    BY <1>1 DEF Ids
  <2>. HIDE DEF t
  <2>3. t \in Seq(Names) /\ Len(t) = 0
    BY <2>2
  <2>4. t = << >>
    BY <2>3, EmptySeq
  <2>. QED BY <2>4 DEF t
<1>. QED BY <1>1, <1>2, <1>3 DEF ToSet

LEMMA OwedTyped ==
    ASSUME SentInv, NEW n \in 1 .. Len(sent)
    PROVE  /\ n \in Nat
           /\ \A i \in 1 .. Len(sent[n].items) : OwedFor(n, i) \in Seq(Names)
<1>1. n \in Nat
  BY SeqOfMembers DEF SentInv
<1>2. ASSUME NEW i \in 1 .. Len(sent[n].items) PROVE OwedFor(n, i) \in Seq(Names)
  <2>1. i \in Nat
    BY LineFits
  <2>2. <<n, i>> \in Names /\ None \in Names
    BY <1>1, <2>1 DEF Names
  <2>3. /\ << >> \in Seq(Names)
        /\ \A x \in Names : <<x>> \in Seq(Names)
    BY EmptySeq
  <2>. QED BY <2>2, <2>3 DEF OwedFor
<1>. QED BY <1>1, <1>2

\* What is owed for the first messages of the current line, one more at a time.
LEMMA SoFarOn ==
    ASSUME SentInv, taken \in 1 .. Len(sent), ~ Scrapped(taken),
           NEW d \in 0 .. Len(sent[taken].items)
    PROVE  /\ SoFar(d) \in Seq(Names) /\ SoFar(0) = << >>
           /\ d + 1 <= Len(sent[taken].items) => SoFar(d + 1) = SoFar(d) \o OwedFor(taken, d + 1)
           /\ SoFar(Len(sent[taken].items)) = Owed(taken)
           /\ \E t \in Seq(Names) : Owed(taken) = SoFar(d) \o t
<1> DEFINE L == Len(sent[taken].items)  s == [i \in 1 .. L |-> OwedFor(taken, i)]
<1>1. L \in Nat /\ DOMAIN sent[taken].items = 1 .. L /\ taken # 0 /\ taken \in Nat
  BY LineFits, OwedTyped
<1>2. s \in [1 .. L -> Seq(Names)] /\ \A i \in 1 .. L : s[i] = OwedFor(taken, i)
  BY OwedTyped
<1>3. ASSUME NEW n \in 0 .. L PROVE SoFar(n) = Flat(s, n)
  <2>1. [i \in 1 .. n |-> OwedFor(taken, i)] = [i \in 1 .. n |-> s[i]]
    <3>1. \A i \in 1 .. n : i \in 1 .. L
      BY <1>1
    <3>. HIDE DEF s, L
    <3>. QED BY <1>2, <3>1
  <2>. HIDE DEF s, L
  <2>. QED BY <1>1, <2>1 DEF SoFar, Flat
<1>4. SoFar(L) = Owed(taken)
  BY <1>1 DEF SoFar, Owed, Scrapped
<1>5. SoFar(0) = << >>
  <2>1. FlattenSeq([i \in 1 .. 0 |-> OwedFor(taken, i)]) = << >>
    <3> DEFINE e == [i \in 1 .. 0 |-> OwedFor(taken, i)]
    <3>1. e \in [1 .. 0 -> Seq(Names)]
      OBVIOUS
    <3>. HIDE DEF e
    <3>2. e \in Seq(Seq(Names)) /\ Len(e) = 0
      BY <3>1
    <3>3. e = << >>
      BY <3>2, EmptySeq
    <3>. QED BY <3>2, <3>3 DEF e, FlattenSeq
  <2>. QED BY <1>1, <2>1 DEF SoFar
<1> HIDE DEF s
<1>6. /\ Flat(s, d) \in Seq(Names)
      /\ d + 1 <= L => Flat(s, d + 1) = Flat(s, d) \o s[d + 1]
      /\ \E t \in Seq(Names) : Flat(s, L) = Flat(s, d) \o t
  <2>1. d \in 0 .. L /\ L \in Nat /\ s \in [1 .. L -> Seq(Names)]
    BY <1>1, <1>2
  <2>. HIDE DEF L
  <2>2. Flat(s, d) \in Seq(Names) /\ (d + 1 <= L => Flat(s, d + 1) = Flat(s, d) \o s[d + 1])
    BY ONLY <2>1, FlattenOn
  <2>3. GoesOn(Names, Flat(s, d), Flat(s, L))
    BY <2>1, FlattenOn
  <2>. QED BY <2>2, <2>3 DEF GoesOn
<1>7. d + 1 <= L => d + 1 \in 1 .. L /\ d + 1 \in 0 .. L
  BY <1>1
<1>8. L \in 0 .. L /\ d \in 0 .. L
  BY <1>1
<1>. QED BY <1>2, <1>3, <1>4, <1>5, <1>6, <1>7, <1>8

LEMMA OwedIsNames ==
    ASSUME SentInv, NEW n \in 1 .. Len(sent)
    PROVE  Owed(n) \in Seq(Names)
<1> DEFINE L == Len(sent[n].items)  s == [i \in 1 .. L |-> OwedFor(n, i)]
<1>1. L \in Nat /\ DOMAIN sent[n].items = 1 .. L
  BY LineFits
<1>2. s \in [1 .. L -> Seq(Names)]
  BY OwedTyped
<1>3. FlattenSeq(s) \in Seq(Names)
  <2>1. L \in 0 .. L /\ [i \in 1 .. L |-> s[i]] = s
    BY <1>1
  <2>. HIDE DEF s, L
  <2>2. Flat(s, L) = FlattenSeq(s)
    BY <2>1 DEF Flat
  <2>3. L \in Nat /\ L \in 0 .. L /\ s \in [1 .. L -> Seq(Names)]
    BY <1>1, <1>2, <2>1
  <2>4. Flat(s, L) \in Seq(Names)
    BY ONLY <2>3, FlattenOn
  <2>. QED BY <2>2, <2>4
<1>4. <<None>> \in Seq(Names)
  BY DEF Names
<1>. QED BY <1>1, <1>3, <1>4 DEF Owed

UpTo(n) == FlattenSeq([i \in 1 .. n |-> Owed(i)])

LEMMA UpToOn ==
    ASSUME SentInv, NEW n \in 0 .. Len(sent)
    PROVE  /\ UpTo(n) \in Seq(Names)
           /\ n + 1 <= Len(sent) => UpTo(n + 1) = UpTo(n) \o Owed(n + 1)
           /\ UpTo(0) = << >>
<1> DEFINE L == Len(sent)  s == [i \in 1 .. L |-> Owed(i)]
<1>1. L \in Nat
  BY SeqOfMembers DEF SentInv
<1>2. s \in [1 .. L -> Seq(Names)] /\ \A i \in 1 .. L : s[i] = Owed(i)
  BY OwedIsNames
<1>3. ASSUME NEW m \in 0 .. L PROVE UpTo(m) = Flat(s, m)
  <2>1. [i \in 1 .. m |-> Owed(i)] = [i \in 1 .. m |-> s[i]]
    <3>1. \A i \in 1 .. m : i \in 1 .. L
      BY <1>1
    <3>. HIDE DEF s, L
    <3>. QED BY <1>2, <3>1
  <2>. HIDE DEF s, L
  <2>. QED BY <2>1 DEF UpTo, Flat
<1>4. UpTo(0) = << >>
  <2> DEFINE e == [i \in 1 .. 0 |-> Owed(i)]
  <2>1. e \in [1 .. 0 -> Seq(Names)]
    OBVIOUS
  <2>. HIDE DEF e
  <2>2. e \in Seq(Seq(Names)) /\ Len(e) = 0
    BY <2>1
  <2>3. e = << >>
    BY <2>2, EmptySeq
  <2>. QED BY <2>2, <2>3 DEF e, FlattenSeq, UpTo
<1> HIDE DEF s
<1>5. /\ Flat(s, n) \in Seq(Names)
      /\ n + 1 <= L => Flat(s, n + 1) = Flat(s, n) \o s[n + 1]
  <2>. HIDE DEF L
  <2>1. n \in 0 .. L
    BY DEF L
  <2>2. L \in Nat /\ s \in [1 .. L -> Seq(Names)]
    BY <1>1, <1>2
  <2>. QED BY ONLY <2>1, <2>2, FlattenOn
<1>6. n + 1 <= L => n + 1 \in 1 .. L /\ n + 1 \in 0 .. L
  BY <1>1
<1>. QED BY <1>2, <1>3, <1>4, <1>5, <1>6

\* What comes before the current line and all of that line.
LEMMA BeforeOn ==
    ASSUME SentInv
    PROVE  /\ Before \in Seq(Names)
           /\ taken = 0 => Before = << >>
           /\ taken >= 1 => UpTo(taken) = Before \o Owed(taken) /\ Before = UpTo(taken - 1)
<1>1. Len(sent) \in Nat /\ taken \in 0 .. Len(sent)
  BY SeqOfMembers DEF SentInv
<1>2. CASE taken = 0
  <2> DEFINE e == [i \in 1 .. taken - 1 |-> Owed(i)]
  <2>1. 1 .. taken - 1 = 1 .. 0
    BY <1>2
  <2>2. e \in [1 .. 0 -> Seq(Names)]
    BY <2>1
  <2>. HIDE DEF e
  <2>3. e \in Seq(Seq(Names)) /\ Len(e) = 0
    BY <2>2
  <2>4. e = << >>
    BY <2>3, EmptySeq
  <2>5. Before = << >>
    BY <2>3, <2>4 DEF e, FlattenSeq, Before
  <2>. QED BY <1>2, <2>5, EmptySeq
<1>3. CASE taken # 0
  <2> DEFINE p == taken - 1
  <2>1. p \in 0 .. Len(sent) /\ p + 1 <= Len(sent) /\ p + 1 = taken
    BY <1>1, <1>3
  <2>2. Before = UpTo(p)
    BY DEF Before, UpTo
  <2>. HIDE DEF p
  <2>3. UpTo(p) \in Seq(Names) /\ UpTo(p + 1) = UpTo(p) \o Owed(p + 1)
    BY <2>1, UpToOn
  <2>. QED BY <1>3, <2>1, <2>2, <2>3 DEF p
<1>. QED BY <1>2, <1>3

LEMMA SoFarTyped ==
    ASSUME SentInv, ItemsInv
    PROVE  /\ SoFar(Done) \in Seq(Names)
           /\ items = << >> /\ taken >= 1 => SoFar(Done) = Owed(taken)
           /\ items = << >> => UpTo(taken) = Before \o SoFar(Done)
           /\ \E t \in Seq(Names) : UpTo(taken) = (Before \o SoFar(Done)) \o t
<1>1. /\ taken \in 0 .. Len(sent) /\ Len(sent) \in Nat /\ Before \in Seq(Names)
      /\ << >> \in Seq(Names)
  BY SeqOfMembers, BeforeOn, EmptySeq DEF SentInv
<1>2. /\ SoFar(Done) \in Seq(Names)
      /\ items = << >> /\ taken >= 1 => SoFar(Done) = Owed(taken)
      /\ taken >= 1 => \E t \in Seq(Names) : Owed(taken) = SoFar(Done) \o t
  <2>1. CASE taken = 0
    BY <1>1, <2>1 DEF SoFar
  <2>2. CASE taken # 0 /\ Scrapped(taken)
    <3>1. SoFar(Done) = <<None>> /\ Owed(taken) = <<None>>
      BY <2>2 DEF SoFar, Owed, Scrapped
    <3>2. <<None>> \in Seq(Names) /\ <<None>> \o << >> = <<None>>
      BY DEF Names
    <3>. QED BY <1>1, <3>1, <3>2
  <2>3. CASE taken # 0 /\ ~ Scrapped(taken)
    <3>1. /\ taken \in 1 .. Len(sent) /\ Done \in 0 .. Len(sent[taken].items)
      BY <1>1, <2>3 DEF ItemsInv
    <3>2. items = << >> => Done = Len(sent[taken].items)
      <4>1. Len(<< >>) = 0 /\ Len(sent[taken].items) \in Nat
        BY <3>1, LineFits
      <4>. QED BY <4>1 DEF Done
    <3> DEFINE d == Done
    <3>3. /\ SoFar(d) \in Seq(Names)
          /\ SoFar(Len(sent[taken].items)) = Owed(taken)
          /\ \E t \in Seq(Names) : Owed(taken) = SoFar(d) \o t
      <4>. HIDE DEF d
      <4>1. d \in 0 .. Len(sent[taken].items)
        BY <3>1 DEF d
      <4>. QED BY <2>3, <3>1, <4>1, SoFarOn
    <3>. QED BY <3>2, <3>3
  <2>. QED BY <2>1, <2>2, <2>3
<1> DEFINE s == SoFar(Done)  b == Before
<1>3. CASE taken = 0
  <2>1. b = << >> /\ s = << >> /\ UpTo(taken) = << >>
    BY <1>1, <1>3, BeforeOn, UpToOn DEF SoFar
  <2>2. << >> \o << >> = << >>
    OBVIOUS
  <2>. QED BY <1>1, <1>2, <1>3, <2>1, <2>2
<1>4. CASE taken # 0
  <2>1. taken >= 1 /\ UpTo(taken) = b \o Owed(taken)
    BY <1>1, <1>4, BeforeOn
  <2>2. PICK t \in Seq(Names) : Owed(taken) = s \o t
    BY <1>2, <2>1
  <2> HIDE DEF s, b
  <2>3. b \o (s \o t) = (b \o s) \o t
    <3>1. b \in Seq(Names) /\ s \in Seq(Names) /\ t \in Seq(Names)
      BY <1>1, <1>2 DEF b, s
    <3>. QED BY ONLY <3>1, ConcatAssociative
  <2>. QED BY <1>2, <2>1, <2>2, <2>3 DEF b, s
<1>. QED BY <1>3, <1>4

\* Writing a line changes nothing about what was owed.
LEMMA OwedKept ==
    ASSUME SentInv, ItemsInv, NEW line, Written(line)
    PROVE  Before' = Before /\ (SoFar(Done))' = SoFar(Done)
<1>1. /\ taken' = taken /\ items' = items /\ taken \in 0 .. Len(sent) /\ Len(sent) \in Nat
      /\ \A n \in 1 .. Len(sent) : sent'[n] = sent[n]
  BY SentOn DEF Written, server, SentInv
<1>2. ASSUME NEW n \in 1 .. Len(sent)
      PROVE  /\ (Owed(n))' = Owed(n) /\ (Scrapped(n))' = Scrapped(n)
             /\ \A i \in Nat : (OwedFor(n, i))' = OwedFor(n, i)
  BY <1>1 DEF Owed, OwedFor, Scrapped
<1>3. Before' = Before
  <2>1. \A n \in 1 .. taken - 1 : n \in 1 .. Len(sent)
    BY <1>1
  <2>2. [n \in 1 .. taken - 1 |-> (Owed(n))'] = [n \in 1 .. taken - 1 |-> Owed(n)]
    BY <1>2, <2>1
  <2>3. Before' = FlattenSeq([n \in 1 .. taken - 1 |-> (Owed(n))'])
    BY <1>1 DEF Before
  <2>. QED BY <2>2, <2>3 DEF Before
<1>4. (SoFar(Done))' = SoFar(Done)
  <2>1. CASE taken = 0
    BY <1>1, <2>1 DEF SoFar
  <2>2. CASE taken # 0
    <3>1. taken \in 1 .. Len(sent) /\ sent'[taken'] = sent[taken]
      BY <1>1, <2>2
    <3>2. Done' = Done /\ sent'[taken].form = sent[taken].form
          /\ \A i : sent'[taken].items[i] = sent[taken].items[i]
      BY <1>1, <3>1 DEF Done
    <3>. QED BY <1>1, <2>2, <3>2 DEF SoFar, Scrapped, OwedFor
  <2>. QED BY <2>1, <2>2
<1>. QED BY <1>3, <1>4

\* When the server waits for input, it owes nothing.
LEMMA AllAnswered ==
    ASSUME SentInv, ItemsInv, OrderInv, Ready
    PROVE  Ids(replies) = UpTo(taken)
<1>1. Ids(out) = << >> /\ Pending = << >> /\ items = << >>
  BY IdsOfNone DEF Ready, Pending
<1>2. Ids(replies) \in Seq(Names)
  BY IdsOf DEF OrderInv
<1> DEFINE a == Ids(replies)
<1>3. (a \o << >>) \o << >> = a
  <2>. HIDE DEF a
  <2>1. a \in Seq(Names)
    BY <1>2 DEF a
  <2>. QED BY <2>1, ConcatEmptySeq
<1>4. a = Before \o SoFar(Done)
  BY <1>1, <1>3 DEF OrderInv
<1>. QED BY <1>1, <1>4, SoFarTyped

LEMMA OrderStarts == Init => OrderInv
<1>. SUFFICES ASSUME Init PROVE OrderInv
  OBVIOUS
<1>1. taken = 0 /\ items = << >> /\ out = << >> /\ replies = << >> /\ call = Idle /\ sent = << >>
  BY DEF Init
<1>2. SentInv /\ ItemsInv
  BY LinesStart
<1>3. Before = << >> /\ SoFar(Done) = << >> /\ Pending = << >>
  BY <1>1, <1>2, BeforeOn DEF SoFar, Pending
<1>4. (<< >> \o << >>) \o << >> = << >> \o << >>
  OBVIOUS
<1>. QED BY <1>1, <1>3, <1>4, IdsOfNone DEF OrderInv

\* What a message that is no call is answered with is what is owed for it.
LEMMA Responds ==
    ASSUME SentInv, ItemsInv, items # << >>
    PROVE  LET m == Head(items)
               r == Respond(m)
           IN  /\ m.id = <<taken, Done + 1>> /\ m.id \in Names
               /\ ~ IsCall(m) => /\ r \in Seq(ToSet(r)) /\ \A x \in ToSet(r) : x.id \in Names
                                 /\ Ids(r) = OwedFor(taken, Done + 1)
                                 /\ \A x \in ToSet(r) : x.kind \in {"error", "result"}
               /\ IsCall(m) => OwedFor(taken, Done + 1) = <<m.id>>
<1> DEFINE m == Head(items)  d == Done + 1  r == Respond(m)
<1>1. /\ m = [msg |-> sent[taken].items[d], id |-> <<taken, d>>]
      /\ taken \in Nat /\ d \in Nat
  BY NextMessage, OwedTyped
<1> HIDE DEF m, d
<1>2. m.msg = sent[taken].items[d] /\ m.id = <<taken, d>> /\ m.id \in Names /\ None \in Names
  BY <1>1 DEF Names
<1>3. OwedFor(taken, d) =
        IF m.msg = None THEN << >>
        ELSE IF ~ m.msg.current THEN <<IF m.msg.named THEN m.id ELSE None>>
        ELSE IF m.msg.method # None /\ m.msg.named THEN <<m.id>> ELSE << >>
  BY <1>2 DEF OwedFor
<1>4. ASSUME NEW id \in Names, NEW kind \in {"error", "result"}
      PROVE  LET a == <<Answer(id, kind, None)>>
             IN  /\ a \in Seq(ToSet(a)) /\ \A x \in ToSet(a) : x.id \in Names
                 /\ Ids(a) = <<id>> /\ \A x \in ToSet(a) : x.kind \in {"error", "result"}
  <2> DEFINE x == Answer(id, kind, None)
  <2>1. x.id = id /\ x.kind = kind
    BY DEF Answer
  <2> HIDE DEF x
  <2>2. Ids(<<x>>) = <<x.id>> /\ <<x>> \in Seq(ToSet(<<x>>)) /\ ToSet(<<x>>) = {x}
    BY <2>1, IdOfOne
  <2>. QED BY <2>1, <2>2 DEF x
<1>5. ASSUME ~ IsCall(m)
      PROVE  /\ r \in Seq(ToSet(r)) /\ \A x \in ToSet(r) : x.id \in Names
             /\ Ids(r) = OwedFor(taken, d) /\ \A x \in ToSet(r) : x.kind \in {"error", "result"}
  <2>1. CASE m.msg = None
    BY <1>3, <2>1, IdsOfNone DEF Respond
  <2>2. CASE m.msg # None /\ ~ m.msg.current
    BY <1>2, <1>3, <1>4, <2>2 DEF Respond
  <2>3. CASE m.msg # None /\ m.msg.current /\ (m.msg.method = None \/ ~ m.msg.named)
    BY <1>3, <2>3, IdsOfNone DEF Respond
  <2>4. CASE m.msg # None /\ m.msg.current /\ ~ (m.msg.method = None \/ ~ m.msg.named)
    BY <1>2, <1>3, <1>4, <2>4 DEF Respond
  <2>. QED BY <2>1, <2>2, <2>3, <2>4
<1>6. IsCall(m) => OwedFor(taken, d) = <<m.id>>
  BY <1>3, SessionAssumption DEF IsCall
<1>. QED BY <1>2, <1>5, <1>6 DEF m, d

LEMMA OrderSteps ==
    ASSUME SentInv, ItemsInv, CallInv, OrderInv, [Next]_vars
    PROVE  OrderInv'
<1> DEFINE a == Ids(replies)  b == Ids(out)  c == Before  e == SoFar(Done)
<1>1. /\ out \in Seq(ToSet(out)) /\ replies \in Seq(ToSet(replies))
      /\ \A r \in ToSet(replies) \cup ToSet(out) : r.id \in Names
      /\ (a \o b) \o Pending = c \o e
  BY DEF OrderInv
<1>2. a \in Seq(Names) /\ b \in Seq(Names) /\ c \in Seq(Names) /\ e \in Seq(Names)
      /\ << >> \in Seq(Names)
  BY <1>1, IdsOf, BeforeOn, SoFarTyped, EmptySeq
<1>3. CASE UNCHANGED <<sent, server>>
  BY <1>3 DEF server, OrderInv, Ids, Pending, Before, SoFar, Owed, OwedFor, Scrapped, Done
<1>4. ASSUME NEW line, Written(line) PROVE OrderInv'
  <2>1. Before' = Before /\ (SoFar(Done))' = SoFar(Done)
    BY <1>4, OwedKept
  <2>2. out' = out /\ replies' = replies /\ call' = call
    BY <1>4 DEF Written, server
  <2>. QED BY <2>1, <2>2 DEF OrderInv, Ids, Pending
<1>5. CASE ReadLine
  <2>1. /\ taken' = taken + 1 /\ taken \in Nat /\ taken' \in 1 .. Len(sent) /\ sent' = sent
        /\ items = << >> /\ out = << >> /\ call = Idle /\ call' = Idle /\ replies' = replies
        /\ SentInv' /\ ItemsInv'
    BY <1>5, LineRead
  <2>2. a = UpTo(taken)
    BY <2>1, AllAnswered DEF Ready
  <2>4. Before' = UpTo(taken)
    <3>1. taken' - 1 = taken
      BY <2>1
    <3>2. Before' = FlattenSeq([n \in 1 .. taken' - 1 |-> Owed(n)])
      BY <2>1 DEF Before, Owed, OwedFor
    <3>. QED BY <3>1, <3>2 DEF UpTo
  <2>5. Pending' = << >>
    BY <2>1 DEF Pending
  <2>6. CASE Scrapped(taken')
    <3>1. out' = <<Answer(None, "error", None)>>
      BY <1>5, <2>6, LineRead
    <3> DEFINE x == Answer(None, "error", None)
    <3>2. x.id = None /\ None \in Names
      BY DEF Answer, Names
    <3> HIDE DEF x
    <3>3. /\ out' \in Seq(ToSet(out')) /\ ToSet(out') = {x}
          /\ Ids(out') = <<None>> /\ <<None>> \in Seq(Names)
      BY <3>1, <3>2, IdOfOne DEF x
    <3>4. (SoFar(Done))' = <<None>>
      BY <2>1, <2>6 DEF SoFar, Scrapped
    <3>5. (a \o <<None>>) \o << >> = UpTo(taken) \o <<None>>
      <4>. HIDE DEF a
      <4>1. a \o <<None>> \in Seq(Names)
        BY <1>2, <3>3, ConcatProperties
      <4>. QED BY <2>2, <4>1, ConcatEmptySeq
    <3>6. (Ids(replies))' = a /\ (Ids(out))' = <<None>>
      BY <2>1, <3>3 DEF Ids
    <3>. QED BY <1>1, <2>1, <2>4, <2>5, <3>2, <3>3, <3>4, <3>5, <3>6 DEF OrderInv
  <2>7. CASE ~ Scrapped(taken')
    <3>1. out' = << >> /\ Done' = 0
      BY <1>5, <2>1, <2>7, LineRead
    <3>2. (SoFar(Done))' = << >>
      <4> DEFINE none == [i \in 1 .. 0 |-> (OwedFor(taken, i))']
      <4>1. (SoFar(0))' = FlattenSeq(none)
        BY <2>1, <2>7 DEF SoFar, Scrapped
      <4>2. none \in [1 .. 0 -> Seq(Names)]
        OBVIOUS
      <4> HIDE DEF none
      <4>3. none \in Seq(Seq(Names)) /\ Len(none) = 0
        BY <4>2
      <4>4. none = << >>
        BY <4>3, EmptySeq
      <4>5. FlattenSeq(none) = << >>
        BY <4>3, <4>4 DEF FlattenSeq
      <4>6. (SoFar(0))' = << >>
        BY <4>1, <4>5
      <4>. QED BY <3>1, <4>6 DEF SoFar
    <3>3. (a \o << >>) \o << >> = UpTo(taken) \o << >>
      <4>. HIDE DEF a
      <4>. QED BY <1>2, <2>2, ConcatEmptySeq
    <3>4. (Ids(replies))' = a /\ (Ids(out))' = << >> /\ out' \in Seq(ToSet(out')) /\ ToSet(out') = {}
      BY <2>1, <3>1, IdsOfNone DEF Ids
    <3>. QED BY <1>1, <2>1, <2>4, <2>5, <3>2, <3>3, <3>4 DEF OrderInv
  <2>. QED BY <2>6, <2>7
<1>6. CASE Handle \/ StartCall
  <2>1. /\ items # << >> /\ items' = Tail(items) /\ sent' = sent /\ taken' = taken /\ call = Idle
        /\ replies' = replies
    BY <1>6 DEF Handle, StartCall
  <2> DEFINE d == Done  q == OwedFor(taken, d + 1)  m == Head(items)  r == Respond(m)
  <2>2. /\ taken \in 1 .. Len(sent) /\ ~ Scrapped(taken) /\ d \in 0 .. Len(sent[taken].items)
        /\ d + 1 \in 1 .. Len(sent[taken].items) /\ Done' = d + 1
        /\ d + 1 <= Len(sent[taken].items) /\ Len(sent[taken].items) \in Nat
    <3>1. /\ taken \in 1 .. Len(sent) /\ ~ Scrapped(taken) /\ Done \in Nat
          /\ Done + 1 \in 1 .. Len(sent[taken].items)
          /\ Len(sent[taken].items) - Len(Tail(items)) = Done + 1
      BY <2>1, NextMessage
    <3>2. Len(sent[taken].items) \in Nat
      BY <3>1, LineFits
    <3>3. Done' = Done + 1
      BY <2>1, <3>1 DEF Done
    <3>. QED BY <3>1, <3>2, <3>3
  <2>3. q \in Seq(Names)
    BY <2>2, OwedTyped
  <2>4. SoFar(d + 1) = SoFar(d) \o q
    <3>. HIDE DEF d
    <3>. QED BY <2>2, SoFarOn
  <2>5. Before' = Before /\ (SoFar(Done))' = e \o q
    <3>1. (SoFar(Done))' = SoFar(Done')
      BY <2>1 DEF SoFar, Scrapped, OwedFor, Done
    <3>2. Before' = Before
      BY <2>1 DEF Before, Owed, OwedFor
    <3>. QED BY <2>2, <2>4, <3>1, <3>2
  <2>6. Pending = << >>
    BY <2>1 DEF Pending
  <2>7. /\ (a \o (b \o q)) \o << >> = c \o (e \o q)
        /\ (a \o b) \o q = c \o (e \o q)
    <3>1. (a \o b) \o << >> = c \o e
      BY <1>1, <2>6
    <3>. HIDE DEF a, b, c, e, q
    <3>2. a \in Seq(Names) /\ b \in Seq(Names) /\ c \in Seq(Names) /\ e \in Seq(Names)
          /\ q \in Seq(Names)
      BY <1>2, <2>3
    <3>3. a \o b \in Seq(Names) /\ b \o q \in Seq(Names) /\ e \o q \in Seq(Names)
      BY ONLY <3>2, ConcatProperties
    <3>4. (a \o b) \o << >> = a \o b
      BY ONLY <3>3, ConcatEmptySeq
    <3>5. (c \o e) \o q = c \o (e \o q)
      BY ONLY <3>2, ConcatAssociative
    <3>6. (a \o b) \o q = a \o (b \o q)
      BY ONLY <3>2, ConcatAssociative
    <3>7. a \o (b \o q) \in Seq(Names)
      BY ONLY <3>2, <3>3, ConcatProperties
    <3>8. (a \o (b \o q)) \o << >> = a \o (b \o q)
      BY ONLY <3>7, ConcatEmptySeq
    <3>. QED BY ONLY <3>1, <3>4, <3>5, <3>6, <3>8
  <2>8. CASE Handle
    <3>1. ~ IsCall(m) /\ out' = out \o r /\ call' = Idle
      BY <2>8 DEF Handle
    <3>2. r \in Seq(ToSet(r)) /\ (\A x \in ToSet(r) : x.id \in Names) /\ Ids(r) = q
      BY <2>1, <3>1, Responds
    <3> HIDE DEF r, q
    <3>3. Ids(out') = b \o q /\ out' \in Seq(ToSet(out')) /\ ToSet(out') = ToSet(out) \cup ToSet(r)
      BY <1>1, <3>1, <3>2, IdsJoined, Joined
    <3>4. (Ids(replies))' = a /\ (Ids(out))' = b \o q /\ Pending' = << >>
      BY <2>1, <3>1, <3>3 DEF Ids, Pending
    <3>. QED BY <1>1, <2>1, <2>5, <2>7, <3>2, <3>3, <3>4 DEF OrderInv
  <2>9. CASE StartCall
    <3>1. IsCall(m) /\ out' = out /\ call'.id = m.id /\ call'.at = "start"
      BY <2>9 DEF StartCall
    <3>2. q = <<m.id>>
      BY <2>1, <3>1, Responds
    <3>3. Pending' = q /\ (Ids(replies))' = a /\ (Ids(out))' = b
      BY <2>1, <3>1, <3>2 DEF Pending, Idle, Ids
    <3> HIDE DEF q
    <3>. QED BY <1>1, <2>1, <2>5, <2>7, <3>1, <3>3 DEF OrderInv
  <2>. QED BY <1>6, <2>8, <2>9
<1>7. CASE Flush
  <2>1. /\ items = << >> /\ call = Idle /\ replies' = replies \o out /\ out' = << >>
        /\ sent' = sent /\ taken' = taken /\ items' = items /\ call' = call
    BY <1>7 DEF Flush
  <2>2. Pending = << >> /\ Pending' = << >> /\ Before' = Before /\ (SoFar(Done))' = SoFar(Done)
    BY <2>1 DEF Pending, Before, SoFar, Owed, OwedFor, Scrapped, Done
  <2>3. /\ Ids(replies') = a \o b /\ replies' \in Seq(ToSet(replies'))
        /\ ToSet(replies') = ToSet(replies) \cup ToSet(out)
    BY <1>1, <2>1, IdsJoined, Joined
  <2>4. Ids(out') = << >> /\ out' \in Seq(ToSet(out')) /\ ToSet(out') = {}
    BY <2>1, IdsOfNone
  <2>5. ((a \o b) \o << >>) \o << >> = c \o e
    <3>. HIDE DEF a, b, c, e
    <3>1. a \o b \in Seq(Names)
      BY <1>2, ConcatProperties
    <3>2. (a \o b) \o << >> = a \o b
      BY <3>1, ConcatEmptySeq
    <3>. QED BY <1>1, <2>2, <3>2
  <2>6. (Ids(replies))' = a \o b /\ (Ids(out))' = << >>
    BY <2>3, <2>4 DEF Ids
  <2>. QED BY <1>1, <2>2, <2>3, <2>4, <2>5, <2>6 DEF OrderInv
<1>8. CASE Finished
  <2>1. PICK kind, body : Finish(kind, body)
    BY <1>8 DEF Finished
  <2> DEFINE x == Answer(call.id, kind, body)
  <2>2. /\ call # Idle /\ call' = Idle /\ out' = Append(out, x) /\ replies' = replies
        /\ sent' = sent /\ taken' = taken /\ items' = items
    BY <1>8, <2>1 DEF Finished, Finish
  <2>3. x.id = call.id /\ call.id \in Names
    <3>1. taken >= 1 /\ Done >= 1 /\ call.id = <<taken, Done>>
      BY <2>2 DEF ItemsInv, CallInv
    <3>2. taken \in 1 .. Len(sent) /\ Done \in 0 .. Len(sent[taken].items)
      BY <3>1, SeqOfMembers DEF SentInv, ItemsInv
    <3>3. taken \in Nat /\ Done \in Nat
      BY <3>2, OwedTyped, LineFits
    <3>. QED BY <3>1, <3>3 DEF Answer, Names
  <2> HIDE DEF x
  <2>4. Append(out, x) = out \o <<x>>
    <3> DEFINE S == ToSet(out) \cup {x}
    <3>1. out \in Seq(S) /\ x \in S
      BY <1>1, SeqOfMembers
    <3>. HIDE DEF S
    <3>. QED BY <3>1, AppendIsConcat
  <2>5. /\ Ids(<<x>>) = <<call.id>> /\ <<x>> \in Seq(ToSet(<<x>>)) /\ ToSet(<<x>>) = {x}
        /\ <<call.id>> \in Seq(Names)
    BY <2>3, IdOfOne
  <2>6. Ids(out') = b \o <<call.id>> /\ out' \in Seq(ToSet(out')) /\ ToSet(out') = ToSet(out) \cup {x}
    <3> DEFINE y == <<x>>
    <3>1. /\ Ids(y) = <<call.id>> /\ y \in Seq(ToSet(y)) /\ ToSet(y) = {x} /\ out' = out \o y
          /\ \A z \in ToSet(y) : z.id \in Names
      BY <2>2, <2>3, <2>4, <2>5
    <3> HIDE DEF y
    <3>2. Ids(out \o y) = Ids(out) \o Ids(y)
      BY <1>1, <3>1, IdsJoined
    <3>3. out \o y \in Seq(ToSet(out \o y)) /\ ToSet(out \o y) = ToSet(out) \cup ToSet(y)
      BY <1>1, <3>1, Joined
    <3>. QED BY <3>1, <3>2, <3>3
  <2>7. Pending = <<call.id>> /\ Pending' = << >> /\ Before' = Before /\ (SoFar(Done))' = SoFar(Done)
    BY <2>2 DEF Pending, Before, SoFar, Owed, OwedFor, Scrapped, Done
  <2>8. (a \o (b \o <<call.id>>)) \o << >> = c \o e
    <3> DEFINE p == <<call.id>>
    <3>1. p \in Seq(Names) /\ (a \o b) \o p = c \o e
      BY <1>1, <2>5, <2>7
    <3>. HIDE DEF a, b, c, e, p
    <3>2. a \o (b \o p) = (a \o b) \o p /\ a \o (b \o p) \in Seq(Names)
      <4>1. b \o p \in Seq(Names)
        BY <1>2, <3>1, ConcatProperties
      <4>2. a \o (b \o p) \in Seq(Names)
        BY <1>2, <4>1, ConcatProperties
      <4>3. a \in Seq(Names) /\ b \in Seq(Names) /\ p \in Seq(Names)
        BY <1>2, <3>1
      <4>4. (a \o b) \o p = a \o (b \o p)
        BY ONLY <4>3, ConcatAssociative
      <4>. QED BY <4>2, <4>4
    <3>3. (a \o (b \o p)) \o << >> = a \o (b \o p)
      BY <3>2, ConcatEmptySeq
    <3>. QED BY <3>1, <3>2, <3>3 DEF p
  <2>9. (Ids(replies))' = a /\ (Ids(out))' = b \o <<call.id>>
    BY <2>2, <2>6 DEF Ids
  <2>. QED BY <1>1, <2>2, <2>3, <2>6, <2>7, <2>8, <2>9 DEF OrderInv
<1>9. CASE Moved
  <2>1. /\ sent' = sent /\ taken' = taken /\ items' = items /\ out' = out /\ replies' = replies
        /\ call # Idle /\ call' # Idle /\ call'.id = call.id
    BY <1>9 DEF Moved, Stages, Idle
  <2>. QED BY <2>1 DEF OrderInv, Ids, Pending, Before, SoFar, Owed, OwedFor, Scrapped, Done
<1>. QED BY <1>3, <1>4, <1>5, <1>6, <1>7, <1>8, <1>9, StepKinds

\* Requests are answered in their order, each once, and when the server waits
\* for input all of them are.
THEOREM AnswersComeInOrder == Spec => []AnsweredInOrder
<1>1. SessionInv /\ OrderInv => AnsweredInOrder
  <2>. SUFFICES ASSUME SessionInv, OrderInv PROVE AnsweredInOrder
    OBVIOUS
  <2>1. SentInv /\ ItemsInv /\ CallInv
    BY DEF SessionInv
  <2> DEFINE a == Ids(replies)  b == Ids(out)  p == Pending  o == Before \o SoFar(Done)
  <2>2. a \in Seq(Names) /\ b \in Seq(Names) /\ (a \o b) \o p = o
    BY IdsOf DEF OrderInv
  <2>3. p \in Seq(Names)
    <3>1. CASE call = Idle
      BY <3>1, EmptySeq DEF Pending
    <3>2. CASE call # Idle
      <4>1. taken >= 1 /\ Done >= 1 /\ call.id = <<taken, Done>>
        BY <2>1, <3>2 DEF ItemsInv, CallInv
      <4>2. taken \in 1 .. Len(sent) /\ Done \in 0 .. Len(sent[taken].items)
        BY <2>1, <4>1, SeqOfMembers DEF SentInv, ItemsInv
      <4>3. taken \in Nat /\ Done \in Nat
        BY <2>1, <4>2, OwedTyped, LineFits
      <4>4. call.id \in Names /\ p = <<call.id>>
        BY <3>2, <4>1, <4>3 DEF Names, Pending
      <4>. QED BY <4>4
    <3>. QED BY <3>1, <3>2
  <2>4. PICK t \in Seq(Names) : UpTo(taken) = o \o t
    BY <2>1, SoFarTyped
  <2>5. Ready => a = UpTo(taken)
    BY <2>1, AllAnswered
  <2> HIDE DEF a, b, p, o
  <2>6. a \o b \in Seq(Names) /\ p \o t \in Seq(Names)
    BY ONLY <2>2, <2>3, <2>4, ConcatProperties
  <2>7. b \o (p \o t) \in Seq(Names)
    BY ONLY <2>2, <2>6, ConcatProperties
  <2>8. ((a \o b) \o p) \o t = (a \o b) \o (p \o t)
    BY ONLY <2>3, <2>4, <2>6, ConcatAssociative
  <2>9. (a \o b) \o (p \o t) = a \o (b \o (p \o t))
    <3> DEFINE w == p \o t
    <3>1. a \in Seq(Names) /\ b \in Seq(Names) /\ w \in Seq(Names)
      BY <2>2, <2>6
    <3> HIDE DEF w
    <3>2. (a \o b) \o w = a \o (b \o w)
      BY ONLY <3>1, ConcatAssociative
    <3>. QED BY <3>2 DEF w
  <2>10. UpTo(taken) = a \o (b \o (p \o t))
    BY <2>2, <2>4, <2>8, <2>9
  <2>11. IsPrefix(a, a \o (b \o (p \o t)))
    <3> DEFINE u == b \o (p \o t)
    <3>1. a \in Seq(Names) /\ u \in Seq(Names)
      BY <2>2, <2>7
    <3>. HIDE DEF u
    <3>2. IsPrefix(a, a \o u)
      BY ONLY <3>1, PrefixOf
    <3>. QED BY <3>2 DEF u
  <2>12. IsPrefix(a, UpTo(taken)) /\ (Ready => a = UpTo(taken))
    BY <2>5, <2>10, <2>11
  <2>. QED BY <2>12 DEF a, Ids, UpTo, AnsweredInOrder
<1>2. Init => OrderInv
  BY OrderStarts
<1>3. SessionInv /\ OrderInv /\ [Next]_vars => OrderInv'
  BY OrderSteps DEF SessionInv
<1>. QED BY <1>1, <1>2, <1>3, SessionInvariance, PTL DEF Spec

-----------------------------------------------------------------------------
(* Answers in sentences *)

\* One of finitely many numbers is the greatest, the first of those.
LEMMA FirstBest ==
    ASSUME NEW N \in Nat, NEW f \in [1 .. N + 1 -> Int]
    PROVE  \E i \in 1 .. N + 1 : \A j \in 1 .. N + 1 : f[i] > f[j] \/ (f[i] = f[j] /\ i <= j)
<1> DEFINE Best(i, n) == \A j \in 1 .. n : f[i] > f[j] \/ (f[i] = f[j] /\ i <= j)
           T == {n \in Nat : n <= N => \E i \in 1 .. n + 1 : Best(i, n + 1)}
<1>1. 0 \in T
  <2>1. 1 \in 1 .. 0 + 1 /\ \A j \in 1 .. 0 + 1 : j = 1
    OBVIOUS
  <2>2. Best(1, 0 + 1)
    BY <2>1
  <2>. QED BY <2>1, <2>2
<1>2. ASSUME NEW n \in Nat, n \in T PROVE n + 1 \in T
  <2>. SUFFICES ASSUME n + 1 <= N
                PROVE  \E i \in 1 .. (n + 1) + 1 : Best(i, (n + 1) + 1)
    OBVIOUS
  <2>1. PICK i \in 1 .. n + 1 : Best(i, n + 1)
    BY <1>2
  <2> DEFINE m == (n + 1) + 1
  <2>2. /\ m \in 1 .. m /\ i \in 1 .. m /\ i < m /\ m \in 1 .. N + 1 /\ i \in 1 .. N + 1
        /\ \A j \in 1 .. m : j \in 1 .. N + 1 /\ (j # m => j \in 1 .. n + 1)
    OBVIOUS
  <2>3. f[m] \in Int /\ f[i] \in Int /\ \A j \in 1 .. m : f[j] \in Int
    BY <2>2
  <2>4. CASE f[m] > f[i]
    <3>1. ASSUME NEW j \in 1 .. m PROVE f[m] > f[j] \/ (f[m] = f[j] /\ m <= j)
      <4>1. CASE j = m
        BY <2>2, <2>3, <4>1
      <4>2. CASE j # m
        <5>1. f[i] > f[j] \/ (f[i] = f[j] /\ i <= j)
          BY <2>1, <2>2, <4>2
        <5>. HIDE DEF m
        <5>. QED BY <2>3, <2>4, <5>1
      <4>. QED BY <4>1, <4>2
    <3>. QED BY <2>2, <3>1
  <2>5. CASE ~ f[m] > f[i]
    <3>1. ASSUME NEW j \in 1 .. m PROVE f[i] > f[j] \/ (f[i] = f[j] /\ i <= j)
      <4>1. CASE j = m
        <5>. HIDE DEF m
        <5>. QED BY <2>2, <2>3, <2>5, <4>1
      <4>2. CASE j # m
        BY <2>1, <2>2, <4>2
      <4>. QED BY <4>1, <4>2
    <3>. QED BY <2>2, <3>1
  <2>. QED BY <2>4, <2>5
<1> HIDE DEF T
<1>3. \A n \in Nat : n \in T
  BY <1>1, <1>2, Counting
<1>4. \E i \in 1 .. N + 1 : Best(i, N + 1)
  <2>1. N \in T /\ N <= N
    BY <1>3
  <2>. QED BY <2>1 DEF T
<1>. QED BY <1>4

LEMMA Classified == ASSUME NEW question PROVE Classify(question) \in ToSet(QuestionTypes) \cup {None}
<1> DEFINE scores == [i \in DOMAIN QuestionTypes |-> Score(QuestionTypes[i], question)]
           IsBest(i) == \A j \in DOMAIN scores :
                            scores[i] > scores[j] \/ (scores[i] = scores[j] /\ i <= j)
           best == CHOOSE i \in DOMAIN scores : IsBest(i)
<1>1. DOMAIN QuestionTypes = 1 .. 4 + 1
  BY DEF QuestionTypes
<1>2. ASSUME NEW i \in 1 .. 4 + 1 PROVE Score(QuestionTypes[i], question) \in Int
  <2> DEFINE type == QuestionTypes[i]  v == Vocabulary[type]
  <2>1. type \in ToSet(QuestionTypes)
    BY <1>1 DEF ToSet
  <2>2. ASSUME NEW S \in {v.anchors, v.terms, v.weak, v.negatives}
        PROVE  Cardinality(S \cap question) \in Nat
    <3>1. IsFiniteSet(S)
      BY <2>1, QuestionsAssumption
    <3>2. S \cap question \in SUBSET S
      OBVIOUS
    <3>. QED BY <3>1, <3>2, FS_Subset, FS_CardinalityType
  <2>3. /\ Cardinality(v.anchors \cap question) \in Nat /\ Cardinality(v.terms \cap question) \in Nat
        /\ Cardinality(v.weak \cap question) \in Nat /\ Cardinality(v.negatives \cap question) \in Nat
    BY <2>2
  <2>. QED BY <2>3 DEF Score
<1>3. scores \in [1 .. 4 + 1 -> Int]
  BY <1>1, <1>2
<1> HIDE DEF scores
<1>4. \E i \in 1 .. 4 + 1 : \A j \in 1 .. 4 + 1 :
        scores[i] > scores[j] \/ (scores[i] = scores[j] /\ i <= j)
  BY <1>3, FirstBest
<1>5. DOMAIN scores = 1 .. 4 + 1
  BY <1>3
<1>6. \E i \in DOMAIN scores : IsBest(i)
  BY <1>4, <1>5
<1> HIDE DEF IsBest
<1>7. best \in 1 .. 4 + 1
  BY <1>5, <1>6
<1>8. Classify(question) = IF scores[best] >= Threshold THEN QuestionTypes[best] ELSE None
  BY DEF Classify, scores, IsBest
<1>9. QuestionTypes[best] \in ToSet(QuestionTypes)
  BY <1>1, <1>7 DEF ToSet
<1>. QED BY <1>8, <1>9

\* Among percentages there is a greatest.
LEMMA Strongest ==
    ASSUME NEW F, F # {}, NEW c, \A k \in F : c[k] \in 0 .. 100
    PROVE  \E k \in F : \A j \in F : c[j] <= c[k]
<1> DEFINE Less == {ij \in Nat \X Nat : ij[1] < ij[2]}  V == {100 - c[k] : k \in F}
<1>1. IsWellFoundedOn(Less, Nat)
  BY NatLessThanWellFounded DEF OpToRel
<1>2. V \subseteq Nat /\ V # {}
  OBVIOUS
<1>3. PICK v \in V : \A w \in V : <<w, v>> \notin Less
  <2>. HIDE DEF Less, V
  <2>. QED BY <1>1, <1>2, WFMin
<1>4. PICK k \in F : v = 100 - c[k]
  BY <1>3
<1>5. ASSUME NEW j \in F PROVE c[j] <= c[k]
  <2>1. 100 - c[j] \in V /\ 100 - c[j] \in Nat /\ v \in Nat
    BY <1>2
  <2>2. ~ (100 - c[j] < v)
    BY <1>3, <2>1
  <2>3. c[j] \in Int /\ c[k] \in Int
    OBVIOUS
  <2>4. ~ (100 - c[j] < 100 - c[k])
    BY <1>4, <2>2
  <2>. HIDE DEF V, Less
  <2>. QED BY <2>3, <2>4
<1>. QED BY <1>5

\* Every sentence cites some of what was found, all of it is cited, and the
\* caveat is made only when the claims the question is about are missing.
LEMMA Summarized ==
    ASSUME NEW type \in ToSet(QuestionTypes), NEW F, NEW s, F # {} => s \in F,
           \A k \in F : k.predicate \in ToSet(Predicates[type])
    PROVE  LET lines == Summarize(type, F, s) IN
           /\ ValidAnswer(lines, F)
           /\ UNION {l.cites : l \in lines} \subseteq F
           /\ IF \E l \in lines : l.caveat
              THEN \A k \in F : k.predicate # Predicates[type][1]
              ELSE F \subseteq UNION {l.cites : l \in lines}
<1> DEFINE lines == Summarize(type, F, s)
           Sound(L) == \A l \in L : \E S : l = Line(S) /\ S # {} /\ S \subseteq F
           Good(L) ==
            /\ ValidAnswer(L, F)
            /\ UNION {l.cites : l \in L} \subseteq F
            /\ IF \E l \in L : l.caveat
               THEN \A k \in F : k.predicate # Predicates[type][1]
               ELSE F \subseteq UNION {l.cites : l \in L}
<1>1. ASSUME \A k \in F : k.predicate # Predicates[type][1] PROVE Good(NothingFound)
  BY <1>1 DEF NothingFound, ValidAnswer
<1>2. ASSUME NEW L, Sound(L), F \subseteq UNION {l.cites : l \in L} PROVE Good(L)
  <2>1. \A l \in L : l.caveat = FALSE /\ l.cites # {} /\ l.cites \subseteq F
    BY <1>2 DEF Line
  <2>. QED BY <1>2, <2>1 DEF ValidAnswer
<1>3. \A S : Line(S).cites = S
  BY DEF Line
<1>4. ASSUME NEW G, G \subseteq F PROVE Sound(ByFile(G)) /\ Sound(ByAbout(G))
  BY <1>4 DEF ByFile, ByAbout
<1>5. ASSUME NEW G, G \subseteq F PROVE Sound(Optional(G)) /\ (G # {} => Sound({Line(G)}))
  BY <1>5 DEF Optional
<1>6. ASSUME NEW L, NEW M, Sound(L), Sound(M) PROVE Sound(L \cup M)
  BY <1>6
<1>7. CASE type = "hardcoded_secrets"
  <2>1. lines = SummarizeSecrets(F, s)
    BY <1>7 DEF Summarize
  <2>2. CASE F = {}
    BY <1>1, <2>1, <2>2 DEF SummarizeSecrets
  <2>3. CASE F # {}
    <3>1. lines = ({Line(F)} \cup {Line({s})}) \cup ByFile(F)
      BY <2>1, <2>3 DEF SummarizeSecrets
    <3>2. Sound({Line(F)}) /\ Sound({Line({s})}) /\ Sound(ByFile(F))
      BY <1>4, <1>5, <2>3
    <3>3. Sound(lines)
      <4>. HIDE DEF Sound, lines
      <4>. QED BY <1>6, <3>1, <3>2
    <3>4. F \subseteq UNION {l.cites : l \in lines}
      <4>1. Line(F) \in lines
        BY <3>1
      <4>. HIDE DEF lines
      <4>. QED BY <1>3, <4>1
    <3>. QED BY <1>2, <3>3, <3>4
  <2>. QED BY <2>2, <2>3
<1>8. CASE type = "attack_surface"
  <2> DEFINE risky == Of(F, "uses_risky_api")
  <2>1. lines = SummarizeAttackSurface(F)
    BY <1>8 DEF Summarize
  <2>2. Predicates[type][1] = "uses_risky_api"
        /\ ToSet(Predicates[type]) = {"uses_risky_api", "function_reached"}
    BY <1>8 DEF Predicates, ToSet
  <2>3. CASE risky = {}
    <3>1. \A k \in F : k.predicate # Predicates[type][1]
      BY <2>2, <2>3 DEF Of
    <3>. QED BY <1>1, <2>1, <2>3, <3>1 DEF SummarizeAttackSurface
  <2>4. CASE risky # {}
    <3> DEFINE M == Optional(Marked(risky))  R == Optional(Of(F, "function_reached"))
    <3>1. lines = (({Line(risky)} \cup ByAbout(risky)) \cup M) \cup R
      BY <2>1, <2>4 DEF SummarizeAttackSurface
    <3>2. Sound({Line(risky)}) /\ Sound(ByAbout(risky)) /\ Sound(M) /\ Sound(R)
      BY <1>4, <1>5, <2>4 DEF Of, Marked
    <3>3. Sound(lines)
      <4>. HIDE DEF Sound, lines, M, R, risky
      <4>. QED BY <1>6, <3>1, <3>2
    <3>4. F \subseteq UNION {l.cites : l \in lines}
      <4>. SUFFICES ASSUME NEW k \in F PROVE \E l \in lines : k \in l.cites
        OBVIOUS
      <4>1. CASE k.predicate = "uses_risky_api"
        <5>1. Line(risky) \in lines /\ k \in risky
          BY <3>1, <4>1 DEF Of
        <5>. HIDE DEF lines
        <5>. QED BY <1>3, <5>1
      <4>2. CASE k.predicate = "function_reached"
        <5>1. k \in Of(F, "function_reached")
          BY <4>2 DEF Of
        <5>2. Line(Of(F, "function_reached")) \in lines
          BY <3>1, <5>1 DEF Optional
        <5>. HIDE DEF lines
        <5>. QED BY <1>3, <5>1, <5>2
      <4>. QED BY <2>2, <4>1, <4>2
    <3>. QED BY <1>2, <3>3, <3>4
  <2>. QED BY <2>3, <2>4
<1>9. CASE type = "binary_hardening"
  <2>1. lines = SummarizeHardening(F)
    BY <1>9 DEF Summarize
  <2>2. CASE F = {}
    BY <1>1, <2>1, <2>2 DEF SummarizeHardening
  <2>3. CASE F # {}
    <3>1. lines = ByFile(F) \cup Optional(Marked(F))
      BY <2>1, <2>3 DEF SummarizeHardening
    <3>2. Sound(ByFile(F)) /\ Sound(Optional(Marked(F)))
      BY <1>4, <1>5 DEF Marked
    <3>3. Sound(lines)
      <4>. HIDE DEF Sound, lines
      <4>. QED BY <1>6, <3>1, <3>2
    <3>4. F \subseteq UNION {l.cites : l \in lines}
      <4>. SUFFICES ASSUME NEW k \in F PROVE \E l \in lines : k \in l.cites
        OBVIOUS
      <4>1. Line({f \in F : f.subject = k.subject}) \in lines
        BY <3>1 DEF ByFile
      <4>2. k \in Line({f \in F : f.subject = k.subject}).cites
        BY <1>3
      <4>. QED BY <4>1, <4>2
    <3>. QED BY <1>2, <3>3, <3>4
  <2>. QED BY <2>2, <2>3
<1>10. CASE type \notin {"hardcoded_secrets", "attack_surface", "binary_hardening"}
  <2>1. lines = SummarizeGroups(F)
    BY <1>10 DEF Summarize
  <2>2. CASE F = {}
    BY <1>1, <2>1, <2>2 DEF SummarizeGroups
  <2>3. CASE F # {}
    <3>1. lines = {Line(F)} \cup ByAbout(F)
      BY <2>1, <2>3 DEF SummarizeGroups
    <3>2. Sound({Line(F)}) /\ Sound(ByAbout(F))
      BY <1>4, <1>5, <2>3
    <3>3. Sound(lines)
      <4>. HIDE DEF Sound, lines
      <4>. QED BY <1>6, <3>1, <3>2
    <3>4. F \subseteq UNION {l.cites : l \in lines}
      <4>1. Line(F) \in lines
        BY <3>1
      <4>. HIDE DEF lines
      <4>. QED BY <1>3, <4>1
    <3>. QED BY <1>2, <3>3, <3>4
  <2>. QED BY <2>2, <2>3
<1>. QED BY <1>7, <1>8, <1>9, <1>10

-----------------------------------------------------------------------------
(* What calls know, and what they answer *)

LEMMA ProgressStarts == Init => ProgressInv
BY DEF Init, ProgressInv, Idle

\* What a call knows holds in a graph that grew.
LEMMA ProgressKept ==
    ASSUME ProgressInv, GraphInv, Grown(db, db'), call' = call
    PROVE  ProgressInv'
<1>1. CASE call.at = "count"
  <2>1. CountArtifacts(db, call.args) \in Nat /\ CountArtifacts(db', call.args) \in Nat
        /\ CountArtifacts(db, call.args) <= CountArtifacts(db', call.args)
    BY CountsRise DEF Grown
  <2>2. Len(call.page) \in Nat /\ Len(call.page) <= CountArtifacts(db', call.args)
    BY <1>1, <2>1 DEF ProgressInv
  <2>. QED BY <1>1, <2>2 DEF ProgressInv
<1>2. CASE call.at = "evidence"
  BY <1>2 DEF ProgressInv, Grown
<1>3. CASE call.at = "collect"
  BY <1>3 DEF ProgressInv, Grown, InScope
<1>4. CASE call.at \notin {"count", "evidence", "collect"}
  BY <1>4 DEF ProgressInv
<1>. QED BY <1>1, <1>2, <1>3, <1>4

\* The types that are classified have predicates, which are none that is off.
LEMMA PredicatesTyped ==
    ASSUME NEW type \in ToSet(QuestionTypes)
    PROVE  /\ Predicates[type] \in Seq(ToSet(Predicates[type]))
           /\ None \notin ToSet(Predicates[type])
<1>1. type \in {"attack_surface", "binary_hardening", "embedded_components",
                "hardcoded_secrets", "suspicious_indicators"}
  BY DEF QuestionTypes, ToSet
<1>2. \E x, y : Predicates[type] = <<x, y>> \/ Predicates[type] = <<x>>
  <2>1. CASE type = "attack_surface"
    BY <2>1 DEF Predicates
  <2>2. CASE type = "binary_hardening"
    BY <2>2 DEF Predicates
  <2>3. CASE type = "embedded_components"
    BY <2>3 DEF Predicates
  <2>4. CASE type = "hardcoded_secrets"
    BY <2>4 DEF Predicates
  <2>5. CASE type = "suspicious_indicators"
    BY <2>5 DEF Predicates
  <2>. QED BY <1>1, <2>1, <2>2, <2>3, <2>4, <2>5
<1>3. ASSUME NEW x, NEW y
      PROVE  <<x, y>> \in Seq(ToSet(<<x, y>>)) /\ <<x>> \in Seq(ToSet(<<x>>))
  <2>1. <<x, y>> \in Seq({x, y}) /\ <<x>> \in Seq({x})
    OBVIOUS
  <2>. QED BY <2>1, SeqOfMembers
<1>4. Predicates[type] \in Seq(ToSet(Predicates[type]))
  BY <1>2, <1>3
<1>. QED BY <1>4, QuestionsAssumption

LEMMA CollectingStarts ==
    ASSUME GraphInv, AskTool, call' # Idle
    PROVE  ProgressInv'
<1> DEFINE type == Classify(call.args.question)
           scope == IF call.args.object = None THEN None ELSE ResolveObject(db, call.args.object)
<1>1. /\ type # None
      /\ call' = [id |-> call.id, tool |-> "ask", at |-> "collect", type |-> type,
                  scope |-> scope, todo |-> Predicates[type], findings |-> << >>,
                  full |-> FALSE, had |-> DOMAIN db.claims]
      /\ db' = db
  BY DEF AskTool, Finish
<1>2. type \in ToSet(QuestionTypes)
  BY <1>1, Classified
<1> HIDE DEF type, scope
<1>3. Predicates[type] \in Seq(ToSet(Predicates[type])) /\ DOMAIN << >> = {}
  BY <1>2, PredicatesTyped
<1>. QED BY <1>1, <1>2, <1>3 DEF ProgressInv, InScope

LEMMA Collects ==
    ASSUME GraphInv, CallInv, ProgressInv, AskCollect
    PROVE  ProgressInv'
<1> DEFINE p == Head(call.todo)
           q == [AllClaims EXCEPT !.predicate = p, !.subject = call.scope, !.limit = AskLimit]
           page == FindClaims(db, q)
           read == [k \in DOMAIN call.findings \cup ToSet(page) |->
                       IF k \in DOMAIN call.findings THEN call.findings[k]
                       ELSE db.claims[k].confidence]
<1>1. /\ call.at = "collect" /\ call.todo # << >> /\ db' = db
      /\ call' = [call EXCEPT !.todo = Tail(call.todo), !.findings = read,
                              !.full = call.full \/ Len(page) = AskLimit]
  BY DEF AskCollect, InCall, Rest
<1>2. DOMAIN call = {"id", "tool", "at", "type", "scope", "todo", "findings", "full", "had"}
  BY <1>1 DEF CallInv, Idle
<1>3. /\ call'.at = "collect" /\ call'.type = call.type /\ call'.scope = call.scope
      /\ call'.had = call.had /\ call'.todo = Tail(call.todo) /\ call'.findings = read
      /\ call'.full = (call.full \/ Len(page) = AskLimit)
  <2>. HIDE DEF read, page
  <2>. QED BY <1>1, <1>2
<1>4. /\ call.type \in ToSet(QuestionTypes)
      /\ call.todo \in Seq(ToSet(call.todo))
      /\ ToSet(call.todo) \subseteq ToSet(Predicates[call.type])
      /\ call.full \in BOOLEAN
      /\ \A k \in DOMAIN call.findings :
            k \in DOMAIN db.claims /\ InScope(k, call) /\ call.findings[k] \in 0 .. 100
      /\ call.had \subseteq DOMAIN db.claims
      /\ \A k \in call.had :
            InScope(k, call) /\ k.predicate \notin ToSet(call.todo) =>
                \/ k \in DOMAIN call.findings
                \/ call.full /\ \E j \in DOMAIN call.findings : j.predicate = k.predicate
  BY <1>1 DEF ProgressInv
<1>5. /\ Tail(call.todo) \in Seq(ToSet(Tail(call.todo)))
      /\ ToSet(call.todo) = {p} \cup ToSet(Tail(call.todo))
  BY <1>1, <1>4, Tailed
<1>6. p \in ToSet(Predicates[call.type]) /\ p # None
  BY <1>4, <1>5, PredicatesTyped
<1>7. /\ q.floor = None /\ q.offset = 0 /\ q.limit = AskLimit /\ q.status = None
      /\ q.predicate = p /\ q.subject = call.scope
      /\ AskLimit \in 1 .. MaxRows /\ MaxRows \in Nat
  <2>. HIDE DEF p
  <2>. QED BY QuestionsAssumption, QueriesAssumption DEF AllClaims
<1> HIDE DEF p, q
<1>8. /\ page \in Seq(Claims) /\ Len(page) \in Nat
      /\ \A k \in ToSet(page) : Asked(db, q, k)
      /\ \A i \in Places(db, q) : Rank(Places(db, q), i) > q.offset =>
            \/ ClaimOrder[i] \in ToSet(page)
            \/ Len(page) = q.limit /\ Rank(Places(db, q), i) > q.offset + Len(page)
  BY <1>7, PageOfClaims
<1> HIDE DEF page
<1>9. ASSUME NEW k \in ToSet(page)
      PROVE  k \in DOMAIN db.claims /\ k.predicate = p /\ call.scope \in {None, k.subject}
  BY <1>6, <1>7, <1>8, <1>9 DEF Asked
<1>10. ASSUME NEW k \in DOMAIN read
       PROVE  k \in DOMAIN db.claims /\ InScope(k, call) /\ read[k] \in 0 .. 100
  <2>1. CASE k \in DOMAIN call.findings
    BY <1>4, <2>1
  <2>2. CASE k \notin DOMAIN call.findings
    <3>1. k \in ToSet(page) /\ read[k] = db.claims[k].confidence
      BY <2>2
    <3>2. InScope(k, call)
      BY <1>6, <1>9, <3>1 DEF InScope
    <3>. QED BY <1>9, <3>1, <3>2 DEF GraphInv, Whole
  <2>. QED BY <2>1, <2>2
<1>11. DOMAIN read = DOMAIN call.findings \cup ToSet(page)
  OBVIOUS
<1> HIDE DEF read
<1>12. ASSUME NEW k \in call.had, InScope(k, call), k.predicate \notin ToSet(Tail(call.todo))
       PROVE  \/ k \in DOMAIN read
              \/ (call.full \/ Len(page) = AskLimit) /\ \E j \in DOMAIN read : j.predicate = k.predicate
  <2>1. CASE k.predicate # p
    BY <1>4, <1>5, <1>11, <1>12, <2>1
  <2>2. CASE k.predicate = p
    <3>1. k \in DOMAIN db.claims /\ k \in Claims /\ call.scope \in {None, k.subject}
      BY <1>4, <1>12 DEF GraphInv, Whole, InScope
    <3>2. Asked(db, q, k)
      BY <1>7, <2>2, <3>1 DEF Asked
    <3>3. PICK i \in DOMAIN ClaimOrder : ClaimOrder[i] = k
      BY <3>1, OrderOfClaims
    <3>4. i \in Places(db, q)
      BY <3>2, <3>3 DEF Places
    <3>5. Rank(Places(db, q), i) \in 1 .. Cardinality(Places(db, q))
      BY <3>4, RankOf, PlacesFinite
    <3>6. Rank(Places(db, q), i) > q.offset
      <4>1. Cardinality(Places(db, q)) \in Nat
        BY PlacesFinite, FS_CardinalityType
      <4>. QED BY <1>7, <3>5, <4>1
    <3>7. k \in ToSet(page) \/ Len(page) = AskLimit
      BY <1>7, <1>8, <3>3, <3>4, <3>6
    <3>8. Len(page) = AskLimit => \E j \in ToSet(page) : j.predicate = p
      <4>1. Len(page) = AskLimit => 1 \in DOMAIN page
        BY <1>7, <1>8, LenProperties
      <4>2. 1 \in DOMAIN page => page[1] \in ToSet(page)
        BY DEF ToSet
      <4>. QED BY <1>9, <4>1, <4>2
    <3>. QED BY <1>11, <2>2, <3>7, <3>8
  <2>. QED BY <2>1, <2>2
<1>13. \A k : (InScope(k, call))' = InScope(k, call)
  BY <1>3 DEF InScope
<1>14. ToSet(call'.todo) \subseteq ToSet(Predicates[call'.type]) /\ call'.full \in BOOLEAN
  BY <1>3, <1>4, <1>5
<1>15. \A k \in DOMAIN call'.findings :
          k \in DOMAIN db'.claims /\ (InScope(k, call))' /\ call'.findings[k] \in 0 .. 100
  BY <1>1, <1>3, <1>10, <1>13
<1>16. \A k \in call'.had :
          (InScope(k, call))' /\ k.predicate \notin ToSet(call'.todo) =>
                \/ k \in DOMAIN call'.findings
                \/ call'.full /\ \E j \in DOMAIN call'.findings : j.predicate = k.predicate
  BY <1>3, <1>12, <1>13
<1>. QED BY <1>1, <1>3, <1>4, <1>5, <1>14, <1>15, <1>16 DEF ProgressInv

LEMMA ProgressSteps ==
    ASSUME SessionInv, ProgressInv, [Next]_vars
    PROVE  ProgressInv'
<1>1. GraphInv /\ SentInv /\ ItemsInv /\ CallInv /\ Grown(db, db')
  BY GraphSteps DEF SessionInv
<1>2. ASSUME call' = call PROVE ProgressInv'
  BY <1>1, <1>2, ProgressKept
<1>3. ASSUME call'.at \in {"idle", "start", "round", "nodes", "stored"} PROVE ProgressInv'
  BY <1>3 DEF ProgressInv
<1>4. ASSUME call' = Idle PROVE ProgressInv'
  BY <1>3, <1>4 DEF Idle
<1>5. ASSUME NEW kind, NEW body, Finish(kind, body) PROVE ProgressInv'
  BY <1>4, <1>5 DEF Finish
<1>6. CASE UNCHANGED vars
  BY <1>2, <1>6 DEF vars, server
<1>7. ASSUME \/ \E a \in Artifacts : AddArtifact(a)
             \/ \E k \in Claims : AddClaim(k, 90)
             \/ \E l \in Refinements : LinkClaims(l)
             \/ \E k \in Claims : Decide(k)
      PROVE  ProgressInv'
  BY <1>2, <1>7 DEF AddArtifact, AddClaim, LinkClaims, Decide, Change, server
<1>8. CASE Send \/ StartPaging \/ RequestPage \/ ReceivePage
  BY <1>2, <1>8 DEF Send, StartPaging, RequestPage, ReceivePage, Write, server
<1>9. CASE ReadLine \/ Handle \/ Flush
  BY <1>2, <1>9 DEF ReadLine, Handle, Flush
<1>10. CASE StartCall
  BY <1>3, <1>10 DEF StartCall
<1>11. CASE FailCall \/ FindTool \/ ArtifactsAnswer \/ ClaimAnswer \/ WalkAnswer \/ SubmitAnswer
            \/ AskAnswer
  BY <1>5, <1>11 DEF FailCall, FindTool, ArtifactsAnswer, ClaimAnswer, WalkAnswer,
                     SubmitAnswer, AskAnswer
<1>12. CASE ArtifactsTool
  <2> DEFINE scope == IF call.args.object = None THEN None ELSE ResolveObject(db, call.args.object)
             q == [kind |-> call.args.kind, object |-> scope, named |-> call.args.named,
                   offset |-> call.args.offset, limit |-> call.args.limit]
  <2>1. /\ call.at = "start" /\ call.tool = "artifacts" /\ db' = db
        /\ \/ Finish("toolerror", None)
           \/ call' = [id |-> call.id, tool |-> "artifacts", args |-> q, at |-> "count",
                       page |-> FindArtifacts(db, q)]
    BY <1>12 DEF ArtifactsTool, InCall
  <2>2. call.args.offset \in Nat /\ call.args.limit \in Nat
    BY <1>1, <2>1, ArgumentsTyped
  <2>3. q.offset \in Nat /\ q.limit \in Nat
    BY <2>2
  <2> HIDE DEF scope, q
  <2>4. /\ Len(FindArtifacts(db, q)) \in Nat
        /\ Len(FindArtifacts(db, q)) <= CountArtifacts(db, q)
    BY <2>3, PageIsCounted
  <2>. QED BY <1>5, <2>1, <2>4 DEF ProgressInv
<1>13. CASE ClaimTool
  <2>1. call.at = "start" /\ db' = db
        /\ \/ Finish("toolerror", None)
           \/ call.args \in DOMAIN db.claims /\ call' = [call EXCEPT !.at = "evidence"]
    BY <1>13 DEF ClaimTool, InCall
  <2>2. DOMAIN call = {"id", "tool", "args", "at"}
    BY <1>1, <2>1 DEF CallInv, Idle
  <2>. QED BY <1>5, <2>1, <2>2 DEF ProgressInv
<1>14. CASE SubmitTool
  <2>1. call.at = "start" /\ call' = [call EXCEPT !.at = "stored"]
    BY <1>14 DEF SubmitTool, InCall
  <2>2. DOMAIN call = {"id", "tool", "args", "at"}
    BY <1>1, <2>1 DEF CallInv, Idle
  <2>. QED BY <1>3, <2>1, <2>2
<1>15. CASE AskTool
  BY <1>1, <1>4, <1>15, CollectingStarts
<1>16. CASE AskCollect
  BY <1>1, <1>16, Collects
<1>17. CASE NeighborsTool
  BY <1>3, <1>17 DEF NeighborsTool
<1>18. CASE WalkQuery \/ WalkRound \/ WalkNode
  BY <1>1, <1>3, <1>18, WalkMoves
<1>. QED BY <1>6, <1>7, <1>8, <1>9, <1>10, <1>11, <1>12, <1>13, <1>14, <1>15, <1>16, <1>17,
            <1>18 DEF Next

\* An answer that a step of the server adds.
NewAnswer(r) ==
    \/ r.kind \in {"error", "result", "toolerror", "declined", "stored"}
    \/ /\ InCall("find", "start")
       /\ r = Answer(call.id, "page", FindClaims(db, call.args))
    \/ /\ InCall("artifacts", "count")
       /\ r = Answer(call.id, "artifacts",
                     [page |-> call.page, total |-> CountArtifacts(db, call.args)])
    \/ /\ InCall("claim", "evidence")
       /\ r = Answer(call.id, "claim", [missing |-> call.args.evidence \ db.artifacts,
                                        links |-> LinksOf(db, call.args)])
    \/ /\ InCall("neighbors", "nodes") /\ call.todo = {}
       /\ r = Answer(call.id, "walk", [args |-> call.args, nodes |-> call.nodes,
                                       edges |-> call.edges, had |-> call.had])
    \/ /\ InCall("ask", "collect") /\ call.todo = << >>
       /\ LET findings == DOMAIN call.findings
              strongest == CHOOSE k \in findings :
                               \A j \in findings : call.findings[j] <= call.findings[k]
              lines == Summarize(call.type, findings, strongest)
          IN  r = IF ValidAnswer(lines, findings)
                  THEN Answer(call.id, "answer", [type |-> call.type, scope |-> call.scope,
                                 lines |-> lines, full |-> call.full, had |-> call.had])
                  ELSE Answer(call.id, "uncited", None)

LEMMA AnswersAdded ==
    ASSUME SessionInv, OrderInv, [Next]_vars,
           NEW r \in (ToSet(replies) \cup ToSet(out))'
    PROVE  r \in ToSet(replies) \cup ToSet(out) \/ NewAnswer(r)
<1>1. /\ out \in Seq(ToSet(out)) /\ replies \in Seq(ToSet(replies))
      /\ SentInv /\ ItemsInv /\ CallInv
  BY DEF OrderInv, SessionInv
<1>2. ASSUME out' = out, replies' = replies PROVE r \in ToSet(replies) \cup ToSet(out)
  BY <1>2
<1>3. ASSUME NEW kind, NEW body, Finish(kind, body)
      PROVE  r \in ToSet(replies) \cup ToSet(out) \/ r = Answer(call.id, kind, body)
  <2> DEFINE x == Answer(call.id, kind, body)
  <2>1. out' = Append(out, x) /\ replies' = replies
    BY <1>3 DEF Finish
  <2> HIDE DEF x
  <2>2. ToSet(out') = ToSet(out) \cup {x}
    BY <1>1, <2>1, Appended
  <2>. QED BY <2>1, <2>2 DEF x
<1>4. \A id, body, kind : Answer(id, kind, body).kind = kind
  BY DEF Answer
<1>5. ASSUME NEW kind \in {"error", "toolerror", "declined", "stored"}, NEW body,
             Finish(kind, body)
      PROVE  r \in ToSet(replies) \cup ToSet(out) \/ NewAnswer(r)
  BY <1>3, <1>4, <1>5 DEF NewAnswer
<1>6. CASE UNCHANGED <<sent, server>> \/ (\E line : Written(line)) \/ StartCall \/ Moved
  BY <1>2, <1>6 DEF server, Written, StartCall, Moved
<1>7. CASE ReadLine
  <2>1. replies' = replies /\ (out' = out \/ out' = <<Answer(None, "error", None)>>)
    BY <1>1, <1>7, LineRead
  <2> DEFINE x == Answer(None, "error", None)
  <2>2. x.kind = "error" /\ x.id \in Names
    BY DEF Answer, Names
  <2> HIDE DEF x
  <2>3. ToSet(<<x>>) = {x}
    BY <2>2, IdOfOne
  <2>. QED BY <1>2, <2>1, <2>2, <2>3 DEF x, NewAnswer
<1>8. CASE Handle
  <2> DEFINE a == Respond(Head(items))
  <2>1. items # << >> /\ ~ IsCall(Head(items)) /\ out' = out \o a /\ replies' = replies
    BY <1>8 DEF Handle
  <2>2. a \in Seq(ToSet(a)) /\ \A x \in ToSet(a) : x.kind \in {"error", "result"}
    BY <1>1, <2>1, Responds
  <2> HIDE DEF a
  <2>3. ToSet(out') = ToSet(out) \cup ToSet(a)
    BY <1>1, <2>1, <2>2, Joined
  <2>. QED BY <2>1, <2>2, <2>3 DEF NewAnswer
<1>9. CASE Flush
  <2>1. replies' = replies \o out /\ out' = << >>
    BY <1>9 DEF Flush
  <2>2. ToSet(replies') = ToSet(replies) \cup ToSet(out) /\ ToSet(out') = {}
    BY <1>1, <2>1, Joined, IdsOfNone
  <2>. QED BY <2>2
<1>10. CASE Finished
  <2>1. call # Idle /\ call' = Idle
    BY <1>10 DEF Finished, Finish
  <2>2. CASE FailCall
    BY <1>5, <2>2 DEF FailCall
  <2>3. CASE FindTool
    BY <1>3, <2>3 DEF FindTool, NewAnswer
  <2>4. CASE ArtifactsTool
    <3>1. call'.at = "idle"
      BY <2>1 DEF Idle
    <3>. QED BY <1>5, <2>4, <3>1 DEF ArtifactsTool
  <2>5. CASE ArtifactsAnswer
    BY <1>3, <2>5 DEF ArtifactsAnswer, NewAnswer
  <2>6. CASE ClaimTool
    <3>1. call.at = "start"
      BY <2>6 DEF ClaimTool, InCall
    <3>2. DOMAIN call = {"id", "tool", "args", "at"}
      BY <1>1, <2>1, <3>1 DEF CallInv
    <3>3. call' # [call EXCEPT !.at = "evidence"]
      BY <2>1, <3>2 DEF Idle
    <3>. QED BY <1>5, <2>6, <3>3 DEF ClaimTool
  <2>7. CASE ClaimAnswer
    BY <1>3, <2>7 DEF ClaimAnswer, NewAnswer
  <2>8. CASE WalkAnswer
    BY <1>3, <2>8 DEF WalkAnswer, NewAnswer
  <2>9. CASE SubmitTool
    BY <1>2, <2>9 DEF SubmitTool
  <2>10. CASE SubmitAnswer
    BY <1>5, <2>10 DEF SubmitAnswer
  <2>11. CASE AskTool
    <3>1. call'.at = "idle"
      BY <2>1 DEF Idle
    <3>. QED BY <1>5, <2>11, <3>1 DEF AskTool
  <2>12. CASE AskCollect
    BY <1>2, <2>12 DEF AskCollect
  <2>13. CASE AskAnswer
    <3> DEFINE findings == DOMAIN call.findings
               strongest == CHOOSE k \in findings :
                                \A j \in findings : call.findings[j] <= call.findings[k]
               lines == Summarize(call.type, findings, strongest)
    <3>1. InCall("ask", "collect") /\ call.todo = << >>
      BY <2>13 DEF AskAnswer
    <3>2. IF ValidAnswer(lines, findings)
          THEN Finish("answer", [type |-> call.type, scope |-> call.scope, lines |-> lines,
                                 full |-> call.full, had |-> call.had])
          ELSE Finish("uncited", None)
      BY <2>13 DEF AskAnswer
    <3> HIDE DEF findings, strongest, lines
    <3>3. r \in ToSet(replies) \cup ToSet(out)
          \/ r = IF ValidAnswer(lines, findings)
                 THEN Answer(call.id, "answer", [type |-> call.type, scope |-> call.scope,
                                 lines |-> lines, full |-> call.full, had |-> call.had])
                 ELSE Answer(call.id, "uncited", None)
      BY <1>3, <3>2
    <3>. QED BY <3>1, <3>3 DEF NewAnswer, findings, strongest, lines
  <2>14. CASE UNCHANGED vars
    BY <1>2, <2>14 DEF vars, server
  <2>15. ASSUME \/ \E a \in Artifacts : AddArtifact(a)
                \/ \E k \in Claims : AddClaim(k, 90)
                \/ \E l \in Refinements : LinkClaims(l)
                \/ \E k \in Claims : Decide(k)
         PROVE  r \in ToSet(replies) \cup ToSet(out)
    BY <1>2, <2>15 DEF AddArtifact, AddClaim, LinkClaims, Decide, Change, server
  <2>16. CASE Send \/ StartPaging \/ RequestPage \/ ReceivePage
    BY <1>2, <2>16 DEF Send, StartPaging, RequestPage, ReceivePage, Write, server
  <2>17. CASE NeighborsTool \/ WalkQuery \/ WalkRound \/ WalkNode
    BY <1>2, <2>17 DEF NeighborsTool, WalkQuery, WalkRound, WalkNode
  <2>. QED BY <1>6, <1>7, <1>8, <1>9, <2>2, <2>3, <2>4, <2>5, <2>6, <2>7, <2>8, <2>9, <2>10, <2>11,
              <2>12, <2>13, <2>14, <2>15, <2>16, <2>17 DEF Next
<1>. QED BY <1>1, <1>6, <1>7, <1>8, <1>9, <1>10, StepKinds

LEMMA NewAnswersFounded ==
    ASSUME SessionInv, ProgressInv, NEW r, NewAnswer(r)
    PROVE  Founded(r)
<1>1. GraphInv
  BY DEF SessionInv
<1>2. \A id, kind, body : /\ Answer(id, kind, body).id = id /\ Answer(id, kind, body).kind = kind
                          /\ Answer(id, kind, body).body = body
  BY DEF Answer
<1>3. ASSUME r.kind \notin {"artifacts", "claim", "answer", "uncited"} PROVE Founded(r)
  BY <1>3 DEF Founded
<1>4. CASE \/ r.kind \in {"error", "result", "toolerror", "declined", "stored"}
           \/ r = Answer(call.id, "walk", [args |-> call.args, nodes |-> call.nodes,
                                           edges |-> call.edges, had |-> call.had])
  BY <1>2, <1>3, <1>4
<1>5. CASE r = Answer(call.id, "page", FindClaims(db, call.args))
  BY <1>2, <1>3, <1>5
<1>6. CASE /\ InCall("artifacts", "count")
           /\ r = Answer(call.id, "artifacts",
                         [page |-> call.page, total |-> CountArtifacts(db, call.args)])
  <2>1. /\ Len(call.page) \in Nat /\ Len(call.page) <= CountArtifacts(db, call.args)
    BY <1>6 DEF ProgressInv, InCall
  <2>2. CountArtifacts(db, call.args) \in Nat
    BY CountsRise
  <2>3. r.kind = "artifacts" /\ r.body.page = call.page
        /\ r.body.total = CountArtifacts(db, call.args)
    BY <1>2, <1>6
  <2>. QED BY <2>1, <2>2, <2>3 DEF Founded
<1>7. CASE /\ InCall("claim", "evidence")
           /\ r = Answer(call.id, "claim", [missing |-> call.args.evidence \ db.artifacts,
                                            links |-> LinksOf(db, call.args)])
  <2>1. call.args \in DOMAIN db.claims
    BY <1>7 DEF ProgressInv, InCall
  <2>2. call.args.evidence \ db.artifacts = {}
    BY <1>1, <2>1 DEF GraphInv, Whole
  <2>3. r.kind = "claim" /\ r.body.missing = {}
    BY <1>2, <1>7, <2>2
  <2>. QED BY <2>3 DEF Founded
<1>8. ASSUME InCall("ask", "collect"), call.todo = << >>,
             NEW strongest, DOMAIN call.findings # {} => strongest \in DOMAIN call.findings,
             LET findings == DOMAIN call.findings
                 lines == Summarize(call.type, findings, strongest)
             IN  r = IF ValidAnswer(lines, findings)
                     THEN Answer(call.id, "answer", [type |-> call.type, scope |-> call.scope,
                                    lines |-> lines, full |-> call.full, had |-> call.had])
                     ELSE Answer(call.id, "uncited", None)
      PROVE  Founded(r)
  <2> DEFINE F == DOMAIN call.findings  lines == Summarize(call.type, F, strongest)
             cited == UNION {l.cites : l \in lines}  P == Predicates[call.type]
  <2>1. /\ call.type \in ToSet(QuestionTypes)
        /\ \A k \in F : k \in DOMAIN db.claims /\ InScope(k, call)
        /\ \A k \in call.had :
            InScope(k, call) /\ k.predicate \notin ToSet(call.todo) =>
                k \in F \/ (call.full /\ \E j \in F : j.predicate = k.predicate)
    BY <1>8 DEF ProgressInv, InCall
  <2>2. ToSet(call.todo) = {}
    BY <1>8, IdsOfNone
  <2>3. \A k \in F : k.predicate \in ToSet(P)
    BY <2>1 DEF InScope
  <2>4. /\ ValidAnswer(lines, F) /\ cited \subseteq F
        /\ IF \E l \in lines : l.caveat THEN \A k \in F : k.predicate # P[1] ELSE F \subseteq cited
    <3> DEFINE type == call.type
    <3>1. type \in ToSet(QuestionTypes) /\ (F # {} => strongest \in F)
          /\ \A k \in F : k.predicate \in ToSet(Predicates[type])
      BY <1>8, <2>1, <2>3
    <3> HIDE DEF type, F
    <3>2. /\ ValidAnswer(Summarize(type, F, strongest), F)
          /\ UNION {l.cites : l \in Summarize(type, F, strongest)} \subseteq F
          /\ IF \E l \in Summarize(type, F, strongest) : l.caveat
             THEN \A k \in F : k.predicate # Predicates[type][1]
             ELSE F \subseteq UNION {l.cites : l \in Summarize(type, F, strongest)}
      BY <3>1, Summarized
    <3>. QED BY <3>2 DEF type
  <2>5. r = Answer(call.id, "answer", [type |-> call.type, scope |-> call.scope,
                                       lines |-> lines, full |-> call.full, had |-> call.had])
    BY <1>8, <2>4
  <2> HIDE DEF lines, F
  <2>6. /\ r.kind = "answer" /\ r.body.type = call.type /\ r.body.scope = call.scope
        /\ r.body.lines = lines /\ r.body.full = call.full /\ r.body.had = call.had
    BY <1>2, <2>5
  <2>7. \A k : InScope(k, r.body) <=> InScope(k, call)
    BY <2>6 DEF InScope
  <2> HIDE DEF cited, P
  <2>8. \A k \in cited : k \in DOMAIN db.claims /\ InScope(k, r.body)
    BY <2>1, <2>4, <2>7
  <2>9. IF \E l \in lines : l.caveat
        THEN \A k \in call.had : InScope(k, r.body) => k.predicate # P[1]
        ELSE call.full \/ \A k \in call.had : InScope(k, r.body) => k \in cited
    <3>1. CASE \E l \in lines : l.caveat
      BY <2>1, <2>2, <2>4, <2>7, <3>1
    <3>2. CASE ~ \E l \in lines : l.caveat
      BY <2>1, <2>2, <2>4, <2>7, <3>2
    <3>. QED BY <3>1, <3>2
  <2>. QED BY <2>6, <2>8, <2>9 DEF Founded, cited, P
<1>9. CASE /\ InCall("ask", "collect") /\ call.todo = << >>
           /\ LET findings == DOMAIN call.findings
                  strongest == CHOOSE k \in findings :
                                   \A j \in findings : call.findings[j] <= call.findings[k]
                  lines == Summarize(call.type, findings, strongest)
              IN  r = IF ValidAnswer(lines, findings)
                      THEN Answer(call.id, "answer", [type |-> call.type, scope |-> call.scope,
                                     lines |-> lines, full |-> call.full, had |-> call.had])
                      ELSE Answer(call.id, "uncited", None)
  <2> DEFINE F == DOMAIN call.findings
             strongest == CHOOSE k \in F : \A j \in F : call.findings[j] <= call.findings[k]
  <2>1. F # {} => strongest \in F
    <3>1. \A k \in F : call.findings[k] \in 0 .. 100
      BY <1>9 DEF ProgressInv, InCall
    <3>2. F # {} => \E k \in F : \A j \in F : call.findings[j] <= call.findings[k]
      BY <3>1, Strongest
    <3>. QED BY <3>2
  <2> HIDE DEF strongest
  <2>2. LET lines == Summarize(call.type, F, strongest)
        IN  r = IF ValidAnswer(lines, F)
                THEN Answer(call.id, "answer", [type |-> call.type, scope |-> call.scope,
                               lines |-> lines, full |-> call.full, had |-> call.had])
                ELSE Answer(call.id, "uncited", None)
    BY <1>9 DEF strongest
  <2>. QED BY <1>8, <1>9, <2>1, <2>2
<1>. QED BY <1>4, <1>5, <1>6, <1>7, <1>9 DEF NewAnswer

\* An answer stays founded when the graph grows.
LEMMA FoundedKept ==
    ASSUME Grown(db, db'), NEW r, Founded(r)
    PROVE  (Founded(r))'
BY DEF Grown, Founded, InScope

FoundationInv == SessionInv /\ OrderInv /\ ProgressInv /\ FoundedInv

LEMMA FoundationStarts == Init => FoundationInv
<1>. SUFFICES ASSUME Init PROVE FoundationInv
  OBVIOUS
<1>1. replies = << >> /\ out = << >>
  BY DEF Init
<1>2. FoundedInv
  BY <1>1, IdsOfNone DEF FoundedInv
<1>. QED BY <1>2, GraphStarts, LinesStart, OrderStarts, ProgressStarts DEF FoundationInv, SessionInv

LEMMA FoundationSteps ==
    ASSUME FoundationInv, [Next]_vars
    PROVE  FoundationInv'
<1>1. SessionInv /\ OrderInv /\ ProgressInv /\ FoundedInv /\ Grown(db, db')
  BY GraphSteps DEF FoundationInv, SessionInv
<1>2. SessionInv' /\ OrderInv' /\ ProgressInv'
  BY <1>1, GraphSteps, LineSteps, OrderSteps, ProgressSteps DEF SessionInv
<1>3. ASSUME NEW r \in (ToSet(replies) \cup ToSet(out))' PROVE (Founded(r))'
  <2>1. r \in ToSet(replies) \cup ToSet(out) \/ NewAnswer(r)
    BY <1>1, <1>3, AnswersAdded
  <2>2. Founded(r)
    BY <1>1, <2>1, NewAnswersFounded DEF FoundedInv
  <2>. QED BY <1>1, <2>2, FoundedKept
<1>. QED BY <1>2, <1>3 DEF FoundationInv, FoundedInv

\* Answers say only what the graph holds, and all that was there to be said
\* unless a page was full, whatever is committed between the queries of a tool.
THEOREM AnswersFounded == Spec => []AnswersAreFounded
<1>1. FoundationInv => AnswersAreFounded
  BY DEF FoundationInv, FoundedInv, Founded, AnswersAreFounded
<1>. QED BY <1>1, FoundationStarts, FoundationSteps, PTL DEF Spec

-----------------------------------------------------------------------------
(* Walks *)

\* What is around the node that a walk starts at, layer by layer.
Zone(args, g) == Within(g, args.node, Rounds(args.depth))

\* The limit of the walk, or that of a query, may have left something out.
Cut(args, g) ==
    \/ Cardinality(Zone(args, g)[Rounds(args.depth)]) > Clamp(args.limit)
    \/ \E n \in Zone(args, g)[Rounds(args.depth) - 1] : Crowded(g, n)

\* A walk has room for what it found, and its edges end there.
Walking(c, g) ==
    /\ {c.args.depth, c.args.limit} \subseteq Nat
    /\ Whole(c.had) /\ Grown(c.had, g)
    /\ c.args.node \in c.seen /\ c.todo \subseteq c.seen
    /\ IsFiniteSet(c.seen) /\ Cardinality(c.seen) <= Clamp(c.args.limit)
    /\ \A e \in c.edges : {e[1], e[2]} \cap c.seen # {}

\* A round goes from a layer to the next.
InRound(c, g) ==
    /\ c.round \in 1 .. Rounds(c.args.depth) /\ c.query \in 1 .. 3
    /\ c.query > 1 => c.node \in c.todo
    /\ c.next \subseteq c.seen /\ c.todo \cap c.next = {}
    /\ c.seen \ c.next \subseteq Zone(c.args, g)[c.round - 1]
    /\ c.next \subseteq Zone(c.args, g)[c.round]
    /\ c.nodes = {}

\* It has the layer as it was, and misses no end of an edge that was there but
\* for those it has still to ask for.
KeptUp(c) ==
    /\ Zone(c.args, c.had)[c.round - 1] \subseteq c.seen \ c.next
    /\ \A k \in c.seen : k \in c.todo \cup c.next \/ Ends(EdgesOf(c.had, k)) \subseteq c.seen
    /\ \A i \in 1 .. 3 : i < c.query => Ends(EdgeQueries(c.had, c.node)[i]) \subseteq c.seen

\* What was found is read.
InNodes(c, g) ==
    /\ c.seen \subseteq Zone(c.args, g)[Rounds(c.args.depth)]
    /\ c.nodes \subseteq c.seen
    /\ \A k \in c.seen \ c.todo : k \in c.nodes \/ (k = c.args.node /\ k \notin Nodes(c.had))
    /\ Cut(c.args, g) \/ Zone(c.args, c.had)[Rounds(c.args.depth)] \subseteq c.seen

WalkInv ==
    call.at \in {"round", "nodes"} =>
        /\ Walking(call, db)
        /\ call.at = "round" => InRound(call, db) /\ (Cut(call.args, db) \/ KeptUp(call))
        /\ call.at = "nodes" => InNodes(call, db)

\* A walk that NeighborsAreNear admits.
Walked(r, g) ==
    r.kind = "walk" =>
        LET a == r.body
            R == Rounds(a.args.depth)
        IN  /\ {a.args.depth, a.args.limit} \subseteq Nat
            /\ a.nodes \subseteq Zone(a.args, g)[R]
            /\ \A e \in a.edges : {e[1], e[2]} \cap (a.nodes \cup {a.args.node}) # {}
            /\ Cut(a.args, g) \/ Zone(a.args, a.had)[R] \cap Nodes(a.had) \subseteq a.nodes

WalkedInv == \A r \in ToSet(replies) \cup ToSet(out) : Walked(r, db)

LEMMA RoundsAre == ASSUME NEW depth \in Nat PROVE Rounds(depth) \in Nat /\ Rounds(depth) >= 1
BY MaxOfTwo DEF Rounds

LEMMA GrownOn ==
    ASSUME NEW f, NEW g, NEW h, Grown(f, g), Grown(g, h)
    PROVE  Grown(f, h) /\ Nodes(f) \subseteq Nodes(g)
BY DEF Grown, Nodes

\* A walk that is cut short stays so when the graph grows.
LEMMA CutKept ==
    ASSUME NEW args, {args.depth, args.limit} \subseteq Nat,
           NEW g, NEW h, Whole(g), Whole(h), Grown(g, h), Cut(args, g)
    PROVE  Cut(args, h)
<1> DEFINE R == Rounds(args.depth)  V == Zone(args, g)  W == Zone(args, h)  limit == Clamp(args.limit)
<1>1. R \in Nat /\ R >= 1 /\ R \in 0 .. R /\ R - 1 \in 0 .. R
  <2>1. args.depth \in Nat
    OBVIOUS
  <2>2. R \in Nat /\ R >= 1
    BY <2>1, RoundsAre
  <2>. HIDE DEF R
  <2>. QED BY <2>2
<1>2. limit \in Nat
  <2>1. args.limit \in Nat /\ MaxRows \in Nat
    BY QueriesAssumption
  <2>. QED BY <2>1, Clamped
<1>3. V = Within(g, args.node, R) /\ W = Within(h, args.node, R)
  BY DEF Zone
<1>4. /\ Cardinality(V[R]) > limit \/ \E n \in V[R - 1] : Crowded(g, n)
      /\ (Cardinality(W[R]) > limit \/ \E n \in W[R - 1] : Crowded(h, n)) => Cut(args, h)
  BY DEF Cut
<1> HIDE DEF R, V, W, limit
<1>5. V[R] \subseteq W[R] /\ V[R - 1] \subseteq W[R - 1]
  BY <1>1, <1>3, WithinGrows
<1>6. IsFiniteSet(W[R]) /\ Cardinality(W[R]) \in Nat /\ Cardinality(V[R]) \in Nat
  BY <1>1, <1>3, WithinFinite
<1>7. Cardinality(V[R]) <= Cardinality(W[R])
  BY <1>5, <1>6, FS_Subset
<1>8. \A n : Crowded(g, n) => Crowded(h, n)
  BY CrowdedKept
<1>9. Cardinality(V[R]) > limit => Cardinality(W[R]) > limit
  BY <1>2, <1>6, <1>7
<1>. QED BY <1>4, <1>5, <1>8, <1>9

\* What a walk found holds in a graph that grew.
LEMMA WalkKept ==
    ASSUME NEW c, NEW g, NEW h, Whole(g), Whole(h), Grown(g, h), Walking(c, g)
    PROVE  /\ Walking(c, h)
           /\ Cut(c.args, g) => Cut(c.args, h)
           /\ InRound(c, g) => InRound(c, h)
           /\ InNodes(c, g) => InNodes(c, h)
<1> DEFINE R == Rounds(c.args.depth)  V == Zone(c.args, g)  W == Zone(c.args, h)
<1>1. R \in Nat /\ R >= 1
  <2>1. c.args.depth \in Nat
    BY DEF Walking
  <2>. QED BY <2>1, RoundsAre
<1>2. \A n \in 0 .. R : V[n] \subseteq W[n]
  BY <1>1, WithinGrows DEF Zone
<1>3. Walking(c, h)
  BY GrownOn DEF Walking
<1>4. Cut(c.args, g) => Cut(c.args, h)
  BY CutKept DEF Walking
<1>5. ASSUME InRound(c, g) PROVE InRound(c, h)
  <2>1. c.round \in 1 .. R
    BY <1>5 DEF InRound
  <2> HIDE DEF R
  <2>2. c.round - 1 \in 0 .. R /\ c.round \in 0 .. R
    BY <1>1, <2>1
  <2>. QED BY <1>2, <1>5, <2>2 DEF InRound
<1>6. ASSUME InNodes(c, g) PROVE InNodes(c, h)
  <2>1. R \in 0 .. R
    BY <1>1
  <2>. QED BY <1>2, <1>4, <1>6, <2>1 DEF InNodes
<1>. QED BY <1>3, <1>4, <1>5, <1>6

LEMMA WalkedKept ==
    ASSUME NEW r, NEW g, NEW h, Whole(g), Whole(h), Grown(g, h), Walked(r, g)
    PROVE  Walked(r, h)
<1>. SUFFICES ASSUME r.kind = "walk" PROVE Walked(r, h)
  BY DEF Walked
<1> DEFINE a == r.body  R == Rounds(a.args.depth)
<1>1. /\ {a.args.depth, a.args.limit} \subseteq Nat
      /\ a.nodes \subseteq Zone(a.args, g)[R]
      /\ \A e \in a.edges : {e[1], e[2]} \cap (a.nodes \cup {a.args.node}) # {}
      /\ Cut(a.args, g) \/ Zone(a.args, a.had)[R] \cap Nodes(a.had) \subseteq a.nodes
  BY DEF Walked
<1>2. R \in Nat /\ R \in 0 .. R
  <2>1. a.args.depth \in Nat
    BY <1>1
  <2>2. R \in Nat
    BY <2>1, RoundsAre
  <2>. QED BY <2>2
<1>3. Zone(a.args, g)[R] \subseteq Zone(a.args, h)[R]
  BY <1>2, WithinGrows DEF Zone
<1>4. Cut(a.args, g) => Cut(a.args, h)
  BY <1>1, CutKept
<1>. QED BY <1>1, <1>3, <1>4 DEF Walked

\* A query finds what is one edge further, and all that was unless it is cut.
LEMMA QueryKept ==
    ASSUME NEW g, Whole(g), NEW c, Walking(c, g), InRound(c, g), Cut(c.args, g) \/ KeptUp(c),
           NEW n \in c.todo, c.query = 1 \/ n = c.node,
           NEW rows \in RowsOf(g, n, c.query),
           NEW added \in AtMost(Clamp(c.args.limit) - Cardinality(c.seen), Ends(rows) \ c.seen),
           NEW d, d.args = c.args, d.had = c.had, d.round = c.round, d.nodes = c.nodes,
           d.node = n, d.query = IF c.query = 3 THEN 1 ELSE c.query + 1,
           d.todo = IF c.query = 3 THEN c.todo \ {n} ELSE c.todo,
           d.next = c.next \cup added, d.seen = c.seen \cup added, d.edges = c.edges \cup rows
    PROVE  Walking(d, g) /\ InRound(d, g) /\ (Cut(d.args, g) \/ KeptUp(d))
<1> DEFINE R == Rounds(c.args.depth)  W == Zone(c.args, g)  limit == Clamp(c.args.limit)
           q == c.query  fresh == Ends(rows) \ c.seen  room == limit - Cardinality(c.seen)
<1>1. /\ R \in Nat /\ R >= 1 /\ limit \in Nat
  <2>1. c.args.depth \in Nat /\ c.args.limit \in Nat /\ MaxRows \in Nat
    BY QueriesAssumption DEF Walking
  <2>. QED BY <2>1, RoundsAre, Clamped
<1>2. /\ c.round \in 1 .. R /\ q \in 1 .. 3 /\ (q > 1 => c.node \in c.todo)
      /\ c.next \subseteq c.seen /\ c.todo \cap c.next = {} /\ c.todo \subseteq c.seen
      /\ c.seen \ c.next \subseteq W[c.round - 1] /\ c.next \subseteq W[c.round] /\ c.nodes = {}
  BY DEF InRound, Walking
<1>3. n \in c.seen \ c.next /\ n \in W[c.round - 1]
  BY <1>2
<1>4. /\ c.round - 1 \in Nat /\ c.round - 1 < R /\ (c.round - 1) + 1 = c.round
      /\ c.round - 1 \in 0 .. R - 1
  <2>. HIDE DEF R
  <2>. QED BY <1>1, <1>2
<1>5. /\ rows \subseteq EdgeQueries(g, n)[q]
      /\ ~ Crowded(g, n) => rows = EdgeQueries(g, n)[q]
  BY <1>2, RowsAre
<1>6. Ends(rows) \subseteq W[c.round]
  <2>1. Ends(EdgesOf(g, n)) \subseteq W[c.round]
    <3>. HIDE DEF R
    <3>. QED BY <1>1, <1>3, <1>4, WithinReaches DEF Zone, R
  <2>2. rows \subseteq EdgesOf(g, n)
    BY <1>2, <1>5, EdgesAre
  <2>. QED BY <2>1, <2>2 DEF Ends
<1>7. /\ IsFiniteSet(W[R]) /\ Cardinality(W[R]) \in Nat
      /\ W[c.round - 1] \subseteq W[c.round] /\ W[c.round] \subseteq W[R] /\ W[c.round - 1] \subseteq W[R]
      /\ W[c.round - 1] \subseteq W[R - 1]
  <2>. HIDE DEF R
  <2>1. R \in 0 .. R
    BY <1>1
  <2>2. IsFiniteSet(W[R]) /\ Cardinality(W[R]) \in Nat
    BY <1>1, <2>1, WithinFinite DEF Zone, R
  <2>3. \A i \in Nat : i < R => W[i] \subseteq W[i + 1] /\ W[i] \subseteq W[R]
    BY <1>1, WithinReaches DEF Zone, R
  <2>4. W[c.round] \subseteq W[R]
    <3>1. c.round \in Nat /\ (c.round < R \/ c.round = R)
      BY <1>1, <1>2
    <3>. QED BY <2>3, <3>1
  <2>5. W[c.round - 1] \subseteq W[R - 1]
    BY <1>1, <1>2, <1>4, LayersRise DEF Zone, R
  <2>. QED BY <1>4, <2>2, <2>3, <2>4, <2>5
<1>8. /\ IsFiniteSet(c.seen) /\ Cardinality(c.seen) \in Nat /\ Cardinality(c.seen) <= limit
      /\ IsFiniteSet(fresh) /\ Cardinality(fresh) \in Nat
  <2>1. IsFiniteSet(c.seen) /\ Cardinality(c.seen) <= limit
    BY DEF Walking
  <2>2. fresh \in SUBSET W[R]
    BY <1>6, <1>7
  <2>. QED BY <1>7, <2>1, <2>2, FS_Subset, FS_CardinalityType
<1>9. /\ added \subseteq fresh /\ IsFiniteSet(added) /\ Cardinality(added) \in Nat
      /\ Cardinality(added) <= room
      /\ Cardinality(fresh) <= room => added = fresh
  <2>1. room \in Nat
    BY <1>1, <1>8
  <2>2. added \in AtMost(room, fresh)
    OBVIOUS
  <2>. HIDE DEF room, fresh
  <2>. QED BY <1>8, <2>1, <2>2, AtMostOf
<1>10. fresh \cap c.seen = {} /\ fresh \subseteq W[c.round]
  BY <1>6
<1>11. IsFiniteSet(d.seen) /\ Cardinality(d.seen) <= limit
  <2>1. c.seen \cap added = {} /\ Cardinality({}) = 0
    BY <1>9, <1>10, FS_EmptySet
  <2> HIDE DEF fresh, limit
  <2>2. IsFiniteSet(c.seen \cup added)
        /\ Cardinality(c.seen \cup added)
              = Cardinality(c.seen) + Cardinality(added) - Cardinality(c.seen \cap added)
    BY <1>8, <1>9, FS_Union
  <2>3. Cardinality(c.seen \cap added) = 0
    BY <2>1
  <2>4. Cardinality(c.seen \cup added) <= limit
    <3>. HIDE DEF W, R
    <3>. QED BY <1>1, <1>8, <1>9, <2>2, <2>3
  <2>5. d.seen = c.seen \cup added
    OBVIOUS
  <2>. QED BY <2>2, <2>4, <2>5
<1>12. Walking(d, g)
  <2>1. ASSUME NEW e \in d.edges PROVE {e[1], e[2]} \cap d.seen # {}
    <3>1. CASE e \in c.edges
      BY <3>1 DEF Walking
    <3>2. CASE e \in rows
      <4>1. n \in {e[1], e[2]}
        BY <1>2, <1>5, <3>2, EdgesHold
      <4>. QED BY <1>3, <4>1
    <3>. QED BY <2>1, <3>1, <3>2
  <2>2. d.todo \subseteq d.seen
    BY <1>2
  <2>. QED BY <1>11, <2>1, <2>2 DEF Walking
<1>13. InRound(d, g)
  <2>1. d.query \in 1 .. 3 /\ (d.query > 1 => d.node \in d.todo)
    BY <1>2
  <2>2. d.next \subseteq d.seen /\ d.todo \cap d.next = {}
    BY <1>2, <1>9, <1>10
  <2>3. d.seen \ d.next = c.seen \ c.next
    BY <1>9, <1>10
  <2>4. d.next \subseteq W[c.round]
    BY <1>2, <1>9, <1>10
  <2>. QED BY <1>2, <2>1, <2>2, <2>3, <2>4 DEF InRound
<1>14. ASSUME ~ Cut(c.args, g) PROVE KeptUp(d)
  <2>1. KeptUp(c) /\ ~ Crowded(g, n) /\ ~ (Cardinality(W[R]) > limit)
    BY <1>3, <1>7, <1>14 DEF Cut
  <2>2. rows = EdgeQueries(g, n)[q]
    BY <1>5, <2>1
  <2>3. added = fresh
    <3>1. c.seen \cup fresh \in SUBSET W[R]
      BY <1>2, <1>7, <1>10
    <3>2. Cardinality(c.seen \cup fresh) <= Cardinality(W[R])
      BY <1>7, <3>1, FS_Subset
    <3>3. c.seen \cap fresh = {}
      BY <1>10
    <3> HIDE DEF fresh
    <3>4. Cardinality(c.seen \cup fresh) = Cardinality(c.seen) + Cardinality(fresh) - 0
      BY <1>8, <3>3, FS_Union, FS_EmptySet
    <3> HIDE DEF limit, W, R
    <3>5. Cardinality(fresh) <= room
      BY <1>1, <1>7, <1>8, <2>1, <3>2, <3>4
    <3>. QED BY <1>9, <3>5
  <2>4. Ends(EdgeQueries(c.had, n)[q]) \subseteq d.seen
    <3>1. EdgeQueries(c.had, n)[q] \subseteq rows
      BY <1>2, <2>2, EdgesGrow DEF Walking
    <3>2. Ends(rows) \subseteq d.seen
      BY <2>3
    <3>. QED BY <3>1, <3>2 DEF Ends
  <2>5. ASSUME NEW i \in 1 .. 3, i <= q PROVE Ends(EdgeQueries(c.had, n)[i]) \subseteq d.seen
    <3>1. CASE i = q
      BY <2>4, <3>1
    <3>2. CASE i # q
      <4>1. i < q /\ q # 1
        BY <1>2, <2>5, <3>2
      <4>2. n = c.node
        BY <4>1
      <4>. QED BY <2>1, <2>5, <4>1, <4>2 DEF KeptUp
    <3>. QED BY <3>1, <3>2
  <2>6. ASSUME NEW i \in 1 .. 3, i < d.query
        PROVE  Ends(EdgeQueries(d.had, d.node)[i]) \subseteq d.seen
    <3>1. i <= q
      BY <1>2, <2>6
    <3>. QED BY <2>5, <3>1
  <2>7. ASSUME NEW k \in d.seen
        PROVE  k \in d.todo \cup d.next \/ Ends(EdgesOf(d.had, k)) \subseteq d.seen
    <3>1. CASE k \in added \cup c.next
      BY <3>1
    <3>2. CASE k = n /\ q = 3
      <4>1. \A i \in 1 .. 3 : i <= q
        BY <3>2
      <4>2. \A i \in 1 .. 3 : Ends(EdgeQueries(c.had, n)[i]) \subseteq d.seen
        BY <2>5, <4>1
      <4>3. Ends(EdgesOf(c.had, n)) \subseteq d.seen
        BY <4>2, EdgesAre DEF Ends
      <4>. QED BY <3>2, <4>3
    <3>3. CASE k \in c.todo /\ ~ (k = n /\ q = 3)
      BY <3>3
    <3>4. CASE k \in c.seen /\ k \notin c.todo \cup c.next
      <4>1. Ends(EdgesOf(c.had, k)) \subseteq c.seen
        BY <2>1, <3>4 DEF KeptUp
      <4>. QED BY <4>1
    <3>. QED BY <2>7, <3>1, <3>2, <3>3, <3>4
  <2>8. Zone(d.args, d.had)[d.round - 1] \subseteq d.seen \ d.next
    <3>1. d.seen \ d.next = c.seen \ c.next
      BY <1>9, <1>10
    <3>. QED BY <2>1, <3>1 DEF KeptUp
  <2>. QED BY <2>6, <2>7, <2>8 DEF KeptUp
<1>. QED BY <1>12, <1>13, <1>14

\* When a round is over the layer after it is found, and every layer when it
\* found nothing.
LEMMA RoundKept ==
    ASSUME NEW g, Whole(g), NEW c, Walking(c, g), InRound(c, g), Cut(c.args, g) \/ KeptUp(c),
           c.todo = {},
           NEW d, d.args = c.args, d.had = c.had, d.nodes = c.nodes, d.node = c.node,
           d.query = c.query, d.next = {}, d.seen = c.seen, d.edges = c.edges
    PROVE  /\ d.todo = c.next /\ d.round = c.round + 1 /\ c.round # Rounds(c.args.depth) =>
                Walking(d, g) /\ InRound(d, g) /\ (Cut(d.args, g) \/ KeptUp(d))
           /\ d.todo = c.seen /\ (c.next = {} \/ c.round = Rounds(c.args.depth)) =>
                Walking(d, g) /\ InNodes(d, g)
<1> DEFINE R == Rounds(c.args.depth)  W == Zone(c.args, g)  V == Zone(c.args, c.had)
<1>1. R \in Nat /\ R >= 1
  <2>1. c.args.depth \in Nat
    BY DEF Walking
  <2>. QED BY <2>1, RoundsAre
<1>2. /\ c.round \in 1 .. R /\ c.query = 1
      /\ c.next \subseteq c.seen
      /\ c.seen \ c.next \subseteq W[c.round - 1] /\ c.next \subseteq W[c.round] /\ c.nodes = {}
  BY DEF InRound
<1>3. /\ c.round - 1 \in Nat /\ c.round - 1 < R /\ (c.round - 1) + 1 = c.round
      /\ c.round \in 0 .. R /\ R \in 0 .. R /\ c.round \in 0 .. c.round /\ c.round - 1 \in 0 .. c.round
      /\ c.round \in Nat
  <2>. HIDE DEF R
  <2>. QED BY <1>1, <1>2
<1>4. c.seen \subseteq W[c.round]
  <2>1. W[c.round - 1] \subseteq W[c.round]
    <3>. HIDE DEF R
    <3>. QED BY <1>1, <1>3, LayersRise DEF Zone, R
  <2>. QED BY <1>2, <2>1
<1>5. ASSUME ~ Cut(c.args, g) PROVE V[c.round] \subseteq c.seen
  <2>1. /\ V[c.round - 1] \subseteq c.seen \ c.next
        /\ \A k \in c.seen \ c.next : Ends(EdgesOf(c.had, k)) \subseteq c.seen
    BY <1>5 DEF KeptUp
  <2>2. V[c.round] = V[c.round - 1]
          \cup {m \in Nodes(c.had) : \E k \in V[c.round - 1] : Adjacent(c.had, m, k)}
    <3>. HIDE DEF R
    <3>. QED BY <1>1, <1>2, WithinIs DEF Zone, R
  <2>3. \A m, k : Adjacent(c.had, m, k) => m \in Ends(EdgesOf(c.had, k))
    BY NeighboursAre DEF Walking
  <2>. QED BY <2>1, <2>2, <2>3
<1>6. ASSUME d.todo = c.next, d.round = c.round + 1, c.round # R
      PROVE  Walking(d, g) /\ InRound(d, g) /\ (Cut(d.args, g) \/ KeptUp(d))
  <2>1. d.round \in 1 .. R /\ d.round - 1 = c.round
    <3>. HIDE DEF R
    <3>. QED BY <1>1, <1>2, <1>6
  <2>2. Walking(d, g)
    BY <1>2, <1>6 DEF Walking
  <2>3. InRound(d, g)
    BY <1>2, <1>4, <2>1 DEF InRound
  <2>4. ASSUME ~ Cut(c.args, g) PROVE KeptUp(d)
    <3>1. \A k \in d.seen : k \in d.todo \/ Ends(EdgesOf(d.had, k)) \subseteq d.seen
      BY <1>6, <2>4 DEF KeptUp
    <3>2. Zone(d.args, d.had)[d.round - 1] \subseteq d.seen \ d.next
      BY <1>5, <2>1, <2>4
    <3>3. \A i \in 1 .. 3 : ~ i < d.query
      BY <1>2
    <3>. QED BY <3>1, <3>2, <3>3 DEF KeptUp
  <2>. QED BY <2>2, <2>3, <2>4
<1>7. ASSUME d.todo = c.seen, c.next = {} \/ c.round = R
      PROVE  Walking(d, g) /\ InNodes(d, g)
  <2>1. Walking(d, g)
    BY <1>7 DEF Walking
  <2>2. d.seen \subseteq W[R]
    <3>1. W[c.round] \subseteq W[R]
      <4>. HIDE DEF R
      <4>. QED BY <1>1, <1>3, LayersRise DEF Zone, R
    <3>. QED BY <1>4, <3>1
  <2>3. ASSUME ~ Cut(c.args, g) PROVE V[R] \subseteq c.seen
    <3>1. CASE c.round = R
      BY <1>5, <2>3, <3>1
    <3>2. CASE c.next = {}
      <4>1. c.args.node \in c.seen /\ Whole(c.had)
        BY DEF Walking
      <4>2. \A k \in c.seen : Ends(EdgesOf(c.had, k)) \subseteq c.seen
        BY <2>3, <3>2 DEF KeptUp
      <4>. HIDE DEF R
      <4>. QED BY <1>1, <1>3, <4>1, <4>2, WithinClosed DEF Zone, R
    <3>. QED BY <1>7, <3>1, <3>2
  <2>. QED BY <1>2, <1>7, <2>1, <2>2, <2>3 DEF InNodes
<1>. QED BY <1>6, <1>7

\* What is near but the node the walk started at is there to be read.
LEMMA NodeKept ==
    ASSUME NEW g, Whole(g), NEW c, Walking(c, g), InNodes(c, g), NEW n \in c.todo,
           NEW d, d.args = c.args, d.had = c.had, d.seen = c.seen, d.edges = c.edges,
           d.todo = c.todo \ {n}, d.nodes = c.nodes \cup ({n} \cap Nodes(g))
    PROVE  Walking(d, g) /\ InNodes(d, g)
<1>1. Walking(d, g)
  BY DEF Walking
<1>2. n \in c.seen
  BY DEF Walking
<1>3. n \in Nodes(g) \cup {c.args.node}
  <2> DEFINE R == Rounds(c.args.depth)
  <2>1. c.args.depth \in Nat
    BY DEF Walking
  <2>2. R \in Nat /\ R >= 1
    BY <2>1, RoundsAre
  <2>3. n \in Within(g, c.args.node, R)[R]
    BY <1>2 DEF InNodes, Zone
  <2> HIDE DEF R
  <2>4. R \in 0 .. R
    BY <2>2
  <2>. QED BY <2>2, <2>3, <2>4, WithinFinite
<1>4. n \in d.nodes \/ (n = d.args.node /\ n \notin Nodes(d.had))
  <2>1. Nodes(c.had) \subseteq Nodes(g)
    BY DEF Walking, Grown, Nodes
  <2>. QED BY <1>3, <2>1
<1>5. \A k \in d.seen \ d.todo : k \in d.nodes \/ (k = d.args.node /\ k \notin Nodes(d.had))
  BY <1>4 DEF InNodes
<1>. QED BY <1>1, <1>2, <1>5 DEF InNodes

\* A walk starts in the layer of its node alone.
LEMMA WalkStarts ==
    ASSUME SessionInv, NeighborsTool
    PROVE  WalkInv'
<1> DEFINE root == call.args.node
<1>1. /\ call.at = "start" /\ call.tool = "neighbors" /\ db' = db
      /\ call' = [id |-> call.id, tool |-> "neighbors", args |-> call.args, at |-> "round",
                  round |-> 1, todo |-> {root}, node |-> root, query |-> 1, next |-> {},
                  seen |-> {root}, edges |-> {}, nodes |-> {}, had |-> db]
  BY DEF NeighborsTool, InCall
<1>2. {call.args.depth, call.args.limit} \subseteq Nat
  BY <1>1, ArgumentsTyped DEF SessionInv
<1>3. Clamp(call.args.limit) \in Nat /\ 1 <= Clamp(call.args.limit)
  <2>1. call.args.limit \in Nat /\ MaxRows \in Nat
    BY <1>2, QueriesAssumption
  <2>. QED BY <2>1, Clamped
<1>4. Whole(db) /\ Grown(db, db)
  BY DEF SessionInv, GraphInv, Grown
<1>5. Rounds(call.args.depth) \in Nat /\ Rounds(call.args.depth) >= 1
  <2>1. call.args.depth \in Nat
    BY <1>2
  <2>. QED BY <2>1, RoundsAre
<1>6. /\ call'.args = call.args /\ call'.at = "round" /\ call'.round = 1 /\ call'.todo = {root}
      /\ call'.query = 1 /\ call'.next = {} /\ call'.seen = {root} /\ call'.edges = {}
      /\ call'.nodes = {} /\ call'.had = db /\ call'.node = root
  BY <1>1
<1>7. Zone(call.args, db)[0] = {root} /\ 1 - 1 = 0
  BY <1>5, WithinIs DEF Zone
<1>8. IsFiniteSet({root}) /\ Cardinality({root}) = 1
  BY FS_Singleton
<1> DEFINE c == call'
<1>9. Walking(c, db)
  BY <1>2, <1>3, <1>4, <1>6, <1>8 DEF Walking
<1>10. InRound(c, db)
  <2>1. 1 \in 1 .. Rounds(call.args.depth)
    BY <1>5
  <2>. QED BY <1>6, <1>7, <2>1 DEF InRound
<1>11. KeptUp(c)
  BY <1>6, <1>7 DEF KeptUp
<1>. QED BY <1>1, <1>6, <1>9, <1>10, <1>11 DEF WalkInv

LEMMA WalkSteps ==
    ASSUME SessionInv, WalkInv, [Next]_vars
    PROVE  WalkInv'
<1>1. /\ GraphInv /\ GraphInv' /\ Grown(db, db') /\ CallInv
      /\ Whole(db) /\ Whole(db')
  BY GraphSteps DEF SessionInv, GraphInv
<1>2. ASSUME call' = call PROVE WalkInv'
  <2>. SUFFICES ASSUME call.at \in {"round", "nodes"} PROVE WalkInv'
    BY <1>2 DEF WalkInv
  <2>1. /\ Walking(call, db')
        /\ Cut(call.args, db) => Cut(call.args, db')
        /\ InRound(call, db) => InRound(call, db')
        /\ InNodes(call, db) => InNodes(call, db')
    BY <1>1, WalkKept DEF WalkInv
  <2>. QED BY <1>2, <2>1 DEF WalkInv
<1>3. ASSUME call'.at \notin {"round", "nodes"} PROVE WalkInv'
  BY <1>3 DEF WalkInv
<1>4. ASSUME NEW kind, NEW body, Finish(kind, body) PROVE WalkInv'
  <2>1. call'.at = "idle"
    BY <1>4 DEF Finish, Idle
  <2>. QED BY <1>3, <2>1
<1>5. CASE UNCHANGED vars
  BY <1>2, <1>5 DEF vars, server
<1>6. ASSUME \/ \E a \in Artifacts : AddArtifact(a)
             \/ \E k \in Claims : AddClaim(k, 90)
             \/ \E l \in Refinements : LinkClaims(l)
             \/ \E k \in Claims : Decide(k)
      PROVE  WalkInv'
  BY <1>2, <1>6 DEF AddArtifact, AddClaim, LinkClaims, Decide, Change, server
<1>7. CASE Send \/ StartPaging \/ RequestPage \/ ReceivePage \/ ReadLine \/ Handle \/ Flush
  BY <1>2, <1>7 DEF Send, StartPaging, RequestPage, ReceivePage, Write, server, ReadLine, Handle, Flush
<1>8. CASE StartCall
  BY <1>3, <1>8 DEF StartCall
<1>9. CASE FailCall \/ FindTool \/ ArtifactsAnswer \/ ClaimAnswer \/ WalkAnswer \/ SubmitAnswer
           \/ AskAnswer
  BY <1>4, <1>9 DEF FailCall, FindTool, ArtifactsAnswer, ClaimAnswer, WalkAnswer, SubmitAnswer,
                    AskAnswer
<1>10. CASE ArtifactsTool
  <2>1. Finish("toolerror", None) \/ call'.at = "count"
    BY <1>10 DEF ArtifactsTool
  <2>. QED BY <1>3, <1>4, <2>1
<1>11. CASE ClaimTool \/ SubmitTool
  <2>1. call.at = "start"
    BY <1>11 DEF ClaimTool, SubmitTool, InCall
  <2>2. DOMAIN call = {"id", "tool", "args", "at"}
    BY <1>1, <2>1 DEF CallInv, Idle
  <2>3. \/ Finish("toolerror", None)
        \/ call' = [call EXCEPT !.at = "evidence"] \/ call' = [call EXCEPT !.at = "stored"]
    BY <1>11 DEF ClaimTool, SubmitTool
  <2>. QED BY <1>3, <1>4, <2>2, <2>3
<1>12. CASE AskTool
  <2>1. call'.at = "collect" \/ \E kind : Finish(kind, None)
    BY <1>12 DEF AskTool
  <2>. QED BY <1>3, <1>4, <2>1
<1>13. CASE AskCollect
  <2>1. call.at = "collect"
    BY <1>13 DEF AskCollect, InCall
  <2>2. DOMAIN call = {"id", "tool", "at", "type", "scope", "todo", "findings", "full", "had"}
    BY <1>1, <2>1 DEF CallInv, Idle
  <2>3. \E todo, findings, full :
            call' = [call EXCEPT !.todo = todo, !.findings = findings, !.full = full]
    BY <1>13 DEF AskCollect
  <2>4. call'.at = "collect"
    BY <2>1, <2>2, <2>3
  <2>. QED BY <1>3, <2>4
<1>14. CASE NeighborsTool
  BY <1>14, WalkStarts
<1>15. CASE WalkQuery
  <2>1. call.at = "round" /\ db' = db
    BY <1>15 DEF WalkQuery, InCall
  <2>2. DOMAIN call = WalkFields
    BY <1>1, <2>1 DEF CallInv, Idle
  <2>3. PICK n, rows, added :
            /\ n \in call.todo
            /\ call.query = 1 \/ n = call.node
            /\ rows \in RowsOf(db, n, call.query)
            /\ added \in AtMost(Clamp(call.args.limit) - Cardinality(call.seen),
                                Ends(rows) \ call.seen)
            /\ call' = [call EXCEPT !.node = n,
                                    !.query = IF @ = 3 THEN 1 ELSE @ + 1,
                                    !.todo = IF call.query = 3 THEN @ \ {n} ELSE @,
                                    !.next = @ \cup added,
                                    !.seen = @ \cup added,
                                    !.edges = @ \cup rows]
    BY <1>15, Zenon DEF WalkQuery
  <2> DEFINE c == call  d == call'
  <2>4. /\ d.args = c.args /\ d.had = c.had /\ d.round = c.round /\ d.nodes = c.nodes
        /\ d.node = n /\ d.query = IF c.query = 3 THEN 1 ELSE c.query + 1
        /\ d.todo = IF c.query = 3 THEN c.todo \ {n} ELSE c.todo
        /\ d.next = c.next \cup added /\ d.seen = c.seen \cup added /\ d.edges = c.edges \cup rows
        /\ d.at = "round"
    BY <2>1, <2>2, <2>3 DEF WalkFields
  <2>5. Walking(c, db) /\ InRound(c, db) /\ (Cut(c.args, db) \/ KeptUp(c))
    BY <2>1 DEF WalkInv
  <2> HIDE DEF d
  <2>6. Walking(d, db) /\ InRound(d, db) /\ (Cut(d.args, db) \/ KeptUp(d))
    BY <1>1, <2>3, <2>4, <2>5, QueryKept
  <2>. QED BY <2>1, <2>4, <2>6 DEF WalkInv, d
<1>16. CASE WalkRound
  <2>1. call.at = "round" /\ db' = db /\ call.todo = {}
    BY <1>16 DEF WalkRound, InCall
  <2>2. DOMAIN call = WalkFields
    BY <1>1, <2>1 DEF CallInv, Idle
  <2>3. call' = IF call.next = {} \/ call.round = Rounds(call.args.depth)
                THEN [call EXCEPT !.at = "nodes", !.todo = call.seen, !.next = {}]
                ELSE [call EXCEPT !.round = @ + 1, !.todo = call.next, !.next = {}]
    BY <1>16 DEF WalkRound
  <2> DEFINE c == call  d == call'
  <2>4. /\ d.args = c.args /\ d.had = c.had /\ d.nodes = c.nodes /\ d.node = c.node
        /\ d.query = c.query /\ d.next = {} /\ d.seen = c.seen /\ d.edges = c.edges
        /\ IF c.next = {} \/ c.round = Rounds(c.args.depth)
           THEN d.at = "nodes" /\ d.todo = c.seen
           ELSE d.at = "round" /\ d.todo = c.next /\ d.round = c.round + 1
    BY <2>1, <2>2, <2>3 DEF WalkFields
  <2>5. Walking(c, db) /\ InRound(c, db) /\ (Cut(c.args, db) \/ KeptUp(c))
    BY <2>1 DEF WalkInv
  <2> HIDE DEF d
  <2>6. /\ d.todo = c.next /\ d.round = c.round + 1 /\ c.round # Rounds(c.args.depth) =>
                Walking(d, db) /\ InRound(d, db) /\ (Cut(d.args, db) \/ KeptUp(d))
        /\ d.todo = c.seen /\ (c.next = {} \/ c.round = Rounds(c.args.depth)) =>
                Walking(d, db) /\ InNodes(d, db)
    BY <1>1, <2>1, <2>4, <2>5, RoundKept
  <2>. QED BY <2>1, <2>4, <2>6 DEF WalkInv, d
<1>17. CASE WalkNode
  <2>1. call.at = "nodes" /\ db' = db /\ call.todo # {}
    BY <1>17 DEF WalkNode, InCall
  <2>2. DOMAIN call = WalkFields
    BY <1>1, <2>1 DEF CallInv, Idle
  <2>3. PICK n \in call.todo :
            call' = [call EXCEPT !.todo = @ \ {n}, !.nodes = @ \cup ({n} \cap Nodes(db))]
    BY <1>17, <2>1 DEF WalkNode
  <2> DEFINE c == call  d == call'
  <2>4. /\ d.args = c.args /\ d.had = c.had /\ d.seen = c.seen /\ d.edges = c.edges
        /\ d.todo = c.todo \ {n} /\ d.nodes = c.nodes \cup ({n} \cap Nodes(db)) /\ d.at = "nodes"
    BY <2>1, <2>2, <2>3 DEF WalkFields
  <2>5. Walking(c, db) /\ InNodes(c, db)
    BY <2>1 DEF WalkInv
  <2> HIDE DEF d
  <2>6. Walking(d, db) /\ InNodes(d, db)
    BY <1>1, <2>4, <2>5, NodeKept
  <2>. QED BY <2>1, <2>4, <2>6 DEF WalkInv, d
<1>. QED BY <1>5, <1>6, <1>7, <1>8, <1>9, <1>10, <1>11, <1>12, <1>13, <1>14, <1>15, <1>16,
            <1>17 DEF Next

\* The answer of a walk that has read what it found.
LEMMA WalkEnds ==
    ASSUME SessionInv, WalkInv, NEW r, NewAnswer(r)
    PROVE  Walked(r, db)
<1>1. \A id, kind, body : /\ Answer(id, kind, body).kind = kind
                          /\ Answer(id, kind, body).body = body
  BY DEF Answer
<1>2. CASE r.kind # "walk"
  BY <1>2 DEF Walked
<1>3. CASE /\ InCall("neighbors", "nodes") /\ call.todo = {}
           /\ r = Answer(call.id, "walk", [args |-> call.args, nodes |-> call.nodes,
                                           edges |-> call.edges, had |-> call.had])
  <2> DEFINE root == call.args.node  R == Rounds(call.args.depth)
  <2>1. Walking(call, db) /\ InNodes(call, db)
    BY <1>3 DEF WalkInv, InCall
  <2>2. /\ r.kind = "walk" /\ r.body.args = call.args /\ r.body.nodes = call.nodes
        /\ r.body.edges = call.edges /\ r.body.had = call.had
    BY <1>1, <1>3
  <2>3. call.nodes \subseteq Zone(call.args, db)[R]
    BY <2>1 DEF InNodes
  <2>4. call.seen \subseteq call.nodes \cup {root}
    BY <1>3, <2>1 DEF InNodes
  <2>5. \A e \in call.edges : {e[1], e[2]} \cap (call.nodes \cup {root}) # {}
    <3>1. \A e \in call.edges : {e[1], e[2]} \cap call.seen # {}
      BY <2>1 DEF Walking
    <3>. QED BY <2>4, <3>1
  <2>6. Cut(call.args, db) \/ Zone(call.args, call.had)[R] \cap Nodes(call.had) \subseteq call.nodes
    BY <1>3, <2>1 DEF InNodes
  <2>7. {call.args.depth, call.args.limit} \subseteq Nat
    BY <2>1 DEF Walking
  <2>. QED BY <2>2, <2>3, <2>5, <2>6, <2>7 DEF Walked
<1>4. r.kind = "walk" => r = Answer(call.id, "walk", [args |-> call.args, nodes |-> call.nodes,
                                           edges |-> call.edges, had |-> call.had])
                         /\ InCall("neighbors", "nodes") /\ call.todo = {}
  BY <1>1 DEF NewAnswer
<1>. QED BY <1>2, <1>3, <1>4

\* The walk that a call makes finds what is near, whatever is committed between
\* its queries: no further than what was asked for, and all that was there when
\* it began unless a limit cut it.
THEOREM WalksStayNear == Spec => []NeighborsAreNear
<1> DEFINE I == SessionInv /\ OrderInv /\ WalkInv /\ WalkedInv
<1>1. Init => I
  <2>. SUFFICES ASSUME Init PROVE I
    OBVIOUS
  <2>1. replies = << >> /\ out = << >> /\ call = Idle
    BY DEF Init
  <2>2. WalkInv /\ WalkedInv
    BY <2>1, IdsOfNone DEF WalkInv, WalkedInv, Idle
  <2>. QED BY <2>2, GraphStarts, LinesStart, OrderStarts DEF SessionInv
<1>2. I /\ [Next]_vars => I'
  <2>. SUFFICES ASSUME I, [Next]_vars PROVE I'
    OBVIOUS
  <2>1. SessionInv' /\ OrderInv' /\ WalkInv'
    BY GraphSteps, LineSteps, OrderSteps, WalkSteps DEF SessionInv
  <2>2. Whole(db) /\ Whole(db') /\ Grown(db, db')
    BY GraphSteps DEF SessionInv, GraphInv
  <2>3. ASSUME NEW r \in (ToSet(replies) \cup ToSet(out))' PROVE Walked(r, db')
    <3>1. Walked(r, db)
      BY <2>3, AnswersAdded, WalkEnds DEF WalkedInv
    <3>. QED BY <2>2, <3>1, WalkedKept
  <2>. QED BY <2>1, <2>3 DEF WalkedInv
<1>3. I => NeighborsAreNear
  BY DEF WalkedInv, Walked, Zone, Cut, Rounds, NeighborsAreNear
<1>. QED BY <1>1, <1>2, <1>3, PTL DEF Spec

-----------------------------------------------------------------------------
(* Paging *)

LEMMA PagerMoves ==
    ASSUME [Next]_vars
    PROVE  pager' = pager \/ StartPaging \/ RequestPage \/ ReceivePage
<1>1. \A kind, body : Finish(kind, body) => pager' = pager
  BY DEF Finish
<1>2. CASE UNCHANGED vars
  BY <1>2 DEF vars
<1>3. ASSUME \/ \E a \in Artifacts : AddArtifact(a)
             \/ \E k \in Claims : AddClaim(k, 90)
             \/ \E l \in Refinements : LinkClaims(l)
             \/ \E k \in Claims : Decide(k)
      PROVE  pager' = pager
  BY <1>3 DEF AddArtifact, AddClaim, LinkClaims, Decide, Change
<1>4. CASE Send \/ ReadLine \/ Handle \/ StartCall \/ Flush
  BY <1>4 DEF Send, ReadLine, Handle, StartCall, Flush
<1>5. CASE FailCall \/ FindTool \/ ArtifactsTool \/ ArtifactsAnswer \/ ClaimTool \/ ClaimAnswer
  BY <1>1, <1>5 DEF FailCall, FindTool, ArtifactsTool, ArtifactsAnswer, ClaimTool, ClaimAnswer
<1>6. CASE SubmitTool \/ SubmitAnswer \/ AskTool \/ AskCollect \/ AskAnswer
  BY <1>1, <1>6 DEF SubmitTool, SubmitAnswer, AskTool, AskCollect, AskAnswer
<1>7. CASE NeighborsTool \/ WalkQuery \/ WalkRound \/ WalkNode \/ WalkAnswer
  BY <1>1, <1>7 DEF NeighborsTool, WalkQuery, WalkRound, WalkNode, WalkAnswer
<1>. QED BY <1>2, <1>3, <1>4, <1>5, <1>6, <1>7 DEF Next

\* Lines stay, and lines are only read forward.
LEMMA LinesStay ==
    ASSUME SessionInv, [Next]_vars
    PROVE  /\ taken \in Nat /\ taken' \in Nat /\ taken <= taken'
           /\ Len(sent) \in Nat /\ Len(sent') \in Nat /\ Len(sent) <= Len(sent')
           /\ \A n \in 1 .. Len(sent) : sent'[n] = sent[n]
<1>1. SentInv /\ CallInv /\ Len(sent) \in Nat /\ taken \in Nat
  BY SeqOfMembers DEF SessionInv, SentInv
<1>2. CASE ReadLine
  BY <1>1, <1>2, LineRead
<1>3. ASSUME NEW line, Written(line)
      PROVE  /\ taken' = taken /\ Len(sent') = Len(sent) + 1
             /\ \A n \in 1 .. Len(sent) : sent'[n] = sent[n]
  BY <1>1, <1>3, SentOn DEF Written, server
<1>4. CASE UNCHANGED <<sent, server>> \/ Handle \/ StartCall \/ Flush \/ Finished \/ Moved
  <2>1. sent' = sent /\ taken' = taken
    BY <1>4 DEF server, Handle, StartCall, Flush, Finished, Finish, Moved
  <2>. QED BY <1>1, <2>1
<1>. QED BY <1>1, <1>2, <1>3, <1>4, StepKinds

LEMMA PresentFinite ==
    ASSUME GraphInv
    PROVE  /\ Present \subseteq Nat /\ IsFiniteSet(Present)
           /\ \A i \in Present : Rank(Present, i) \in Nat /\ Rank(Present, i) > 0
<1>1. IsFiniteSet(DOMAIN ClaimOrder) /\ DOMAIN ClaimOrder \subseteq Nat
  BY OrderOfClaims, FS_Interval
<1>2. Present \in SUBSET DOMAIN ClaimOrder
  BY DEF Present
<1>3. Present \subseteq Nat /\ IsFiniteSet(Present)
  BY <1>1, <1>2, FS_Subset
<1>4. ASSUME NEW i \in Present PROVE Rank(Present, i) \in Nat /\ Rank(Present, i) > 0
  <2>1. Rank(Present, i) \in 1 .. Cardinality(Present) /\ Cardinality(Present) \in Nat
    BY <1>3, RankOf, FS_CardinalityType
  <2>. QED BY <2>1
<1>. QED BY <1>3, <1>4

\* What is ahead stays ahead when the graph grows.
LEMMA AheadKept ==
    ASSUME GraphInv, GraphInv', Grown(db, db'),
           NEW want, want \subseteq DOMAIN db.claims, NEW got, NEW offset \in Nat,
           Ahead(Present, want, got, offset)
    PROVE  Ahead(Present', want, got, offset)
<1>1. Present \subseteq Present' /\ Present' \subseteq Nat /\ IsFiniteSet(Present')
  <2>1. Present \subseteq Present'
    BY DEF Present, Grown
  <2>2. IsFiniteSet(DOMAIN ClaimOrder) /\ DOMAIN ClaimOrder \subseteq Nat
    BY OrderOfClaims, FS_Interval
  <2>3. Present' \in SUBSET DOMAIN ClaimOrder
    BY DEF Present
  <2>4. Present' \subseteq Nat /\ IsFiniteSet(Present')
    BY <2>2, <2>3, FS_Subset
  <2>. QED BY <2>1, <2>4
<1>2. ASSUME NEW i \in DOMAIN ClaimOrder, ClaimOrder[i] \in want
      PROVE  ClaimOrder[i] \in got \/ Rank(Present', i) > offset
  <2>1. i \in Present
    BY <1>2 DEF Present
  <2> DEFINE P == Present  Q == Present'
  <2>2. Rank(P, i) \in Nat /\ Rank(Q, i) \in Nat /\ Rank(P, i) <= Rank(Q, i)
    <3>1. P \subseteq Q /\ Q \subseteq Nat /\ IsFiniteSet(Q) /\ i \in P
      BY <1>1, <2>1
    <3>. HIDE DEF P, Q
    <3>. QED BY <3>1, RanksRise
  <2>3. ClaimOrder[i] \in got \/ Rank(P, i) > offset
    BY <1>2 DEF Ahead
  <2> HIDE DEF P, Q
  <2>4. ClaimOrder[i] \in got \/ Rank(Q, i) > offset
    BY <2>2, <2>3
  <2>. QED BY <2>4 DEF Q
<1>. QED BY <1>2 DEF Ahead

\* The page that answers a request.
LEMMA PageAnswers ==
    ASSUME GraphInv, NEW want, want \subseteq DOMAIN db.claims, NEW got, NEW offset \in Nat,
           Ahead(Present, want, got, offset)
    PROVE  LET page == FindClaims(db, [AllClaims EXCEPT !.offset = offset, !.limit = PageSize])
           IN  /\ Len(page) \in Nat
               /\ IF Len(page) < PageSize THEN want \subseteq got \cup ToSet(page)
                  ELSE Ahead(Present, want, got \cup ToSet(page), offset + Len(page))
<1> DEFINE q == [AllClaims EXCEPT !.offset = offset, !.limit = PageSize]  page == FindClaims(db, q)
<1>1. /\ q.floor = None /\ q.offset = offset /\ q.limit = PageSize /\ q.status = None
      /\ q.predicate = None /\ q.subject = None /\ PageSize \in 1 .. MaxRows /\ MaxRows \in Nat
  BY SessionAssumption, QueriesAssumption DEF AllClaims
<1> HIDE DEF q
<1>2. Places(db, q) = Present
  BY <1>1 DEF Places, Present, Asked
<1>3. /\ page \in Seq(Claims) /\ Len(page) \in Nat
      /\ \A i \in Places(db, q) : Rank(Places(db, q), i) > q.offset =>
            \/ ClaimOrder[i] \in ToSet(page)
            \/ Len(page) = q.limit /\ Rank(Places(db, q), i) > q.offset + Len(page)
  BY <1>1, PageOfClaims
<1> HIDE DEF page
<1>4. ASSUME NEW i \in DOMAIN ClaimOrder, ClaimOrder[i] \in want
      PROVE  \/ ClaimOrder[i] \in got \cup ToSet(page)
             \/ Len(page) = PageSize /\ Rank(Present, i) > offset + Len(page)
  <2>1. i \in Present
    BY <1>4 DEF Present
  <2>2. ClaimOrder[i] \in got \/ Rank(Present, i) > offset
    BY <1>4 DEF Ahead
  <2>. QED BY <1>1, <1>2, <1>3, <2>1, <2>2
<1>5. CASE Len(page) < PageSize
  <2>1. Len(page) # PageSize
    BY <1>1, <1>3, <1>5
  <2>2. ASSUME NEW k \in want PROVE k \in got \cup ToSet(page)
    <3>1. k \in Claims
      BY <2>2 DEF GraphInv, Whole
    <3>2. PICK i \in DOMAIN ClaimOrder : ClaimOrder[i] = k
      BY <3>1, OrderOfClaims
    <3>. QED BY <1>4, <2>1, <3>2
  <2>. QED BY <1>3, <1>5, <2>2 DEF page, q
<1>6. CASE ~ Len(page) < PageSize
  BY <1>3, <1>4, <1>6 DEF page, q, Ahead
<1>. QED BY <1>5, <1>6


\* A page that is new answers the call under way.
LEMMA NewPage ==
    ASSUME SessionInv, NEW r, NewAnswer(r), r.kind = "page"
    PROVE  /\ taken \in Nat /\ taken >= 1 /\ Done \in Nat /\ r.id = <<taken, Done>>
           /\ r.body = FindClaims(db, sent[taken].items[Done].args)
<1>1. \A id, kind, body : /\ Answer(id, kind, body).id = id /\ Answer(id, kind, body).kind = kind
                          /\ Answer(id, kind, body).body = body
  BY DEF Answer
<1>2. InCall("find", "start") /\ r = Answer(call.id, "page", FindClaims(db, call.args))
  BY <1>1 DEF NewAnswer
<1>3. call # Idle /\ call.at = "start"
  BY <1>2 DEF InCall, Idle
<1>4. taken \in Nat /\ taken >= 1 /\ Done \in Nat /\ call.id = <<taken, Done>>
  BY <1>3, SeqOfMembers DEF SessionInv, SentInv, ItemsInv, CallInv
<1>5. call.args = sent[taken].items[Done].args
  <2> DEFINE m == sent[taken].items[Done]
  <2>1. call = [id |-> call.id, tool |-> m.tool, args |-> m.args, at |-> "start"]
    BY <1>3 DEF SessionInv, CallInv
  <2>. QED BY <2>1
<1>. QED BY <1>1, <1>2, <1>4, <1>5

LEMMA PagesNamed ==
    ASSUME SessionInv, OrderInv, PagerInv, [Next]_vars,
           NEW r \in (ToSet(replies) \cup ToSet(out))'
    PROVE  (PageNamed(r))'
<1>1. taken \in Nat /\ taken' \in Nat /\ taken <= taken'
  BY LinesStay
<1>2. CASE r \in ToSet(replies) \cup ToSet(out)
  BY <1>1, <1>2 DEF PagerInv, PageNamed
<1>3. CASE NewAnswer(r) /\ r.kind = "page"
  BY <1>1, <1>3, NewPage DEF PageNamed
<1>. QED BY <1>2, <1>3, AnswersAdded DEF PageNamed

\* What takes the client on does so when the graph grows.
LEMMA TurnsKept ==
    ASSUME GraphInv, GraphInv', Grown(db, db'), NEW p, p.want \subseteq DOMAIN db.claims,
           p.offset \in Nat, NEW page, Turns(p, page)
    PROVE  /\ Len(page) \in Nat
           /\ IF Len(page) < PageSize THEN p.want \subseteq p.got \cup ToSet(page)
              ELSE Ahead(Present', p.want, p.got \cup ToSet(page), p.offset + Len(page))
<1>1. Len(page) \in Nat /\ p.offset + Len(page) \in Nat
  BY DEF Turns
<1>2. ASSUME ~ Len(page) < PageSize
      PROVE  Ahead(Present', p.want, p.got \cup ToSet(page), p.offset + Len(page))
  <2> DEFINE want == p.want  got == p.got \cup ToSet(page)  offset == p.offset + Len(page)
  <2>1. want \subseteq DOMAIN db.claims /\ offset \in Nat /\ Ahead(Present, want, got, offset)
    BY <1>1, <1>2 DEF Turns
  <2> HIDE DEF want, got, offset
  <2>2. Ahead(Present', want, got, offset)
    BY <2>1, AheadKept
  <2>. QED BY <2>2 DEF want, got, offset
<1>. QED BY <1>1, <1>2 DEF Turns

\* The page that answers the request takes the client on.
LEMMA RequestAnswered ==
    ASSUME GraphInv, NEW p, p.want \subseteq DOMAIN db.claims, p.offset \in Nat,
           Ahead(Present, p.want, p.got, p.offset),
           NEW args, args = PageRequest(p.offset).items[1].args
    PROVE  Turns(p, FindClaims(db, args))
<1>1. args = [AllClaims EXCEPT !.offset = p.offset, !.limit = PageSize]
  BY DEF PageRequest
<1> DEFINE want == p.want  got == p.got  offset == p.offset
<1>2. want \subseteq DOMAIN db.claims /\ offset \in Nat /\ Ahead(Present, want, got, offset)
  OBVIOUS
<1> HIDE DEF want, got, offset
<1>3. LET page == FindClaims(db, [AllClaims EXCEPT !.offset = offset, !.limit = PageSize])
      IN  /\ Len(page) \in Nat
          /\ IF Len(page) < PageSize THEN want \subseteq got \cup ToSet(page)
             ELSE Ahead(Present, want, got \cup ToSet(page), offset + Len(page))
  BY <1>2, PageAnswers
<1>4. FindClaims(db, args) = FindClaims(db, [AllClaims EXCEPT !.offset = offset, !.limit = PageSize])
  BY <1>1 DEF offset
<1> DEFINE page == FindClaims(db, args)
<1>5. /\ Len(page) \in Nat
      /\ IF Len(page) < PageSize THEN want \subseteq got \cup ToSet(page)
         ELSE Ahead(Present, want, got \cup ToSet(page), offset + Len(page))
  BY <1>3, <1>4
<1> HIDE DEF page
<1>6. Turns(p, page)
  BY <1>5 DEF Turns, want, got, offset
<1>. QED BY <1>6 DEF page


LEMMA PagerStarts == Init => PagerInv
<1>. SUFFICES ASSUME Init PROVE PagerInv
  OBVIOUS
<1>1. replies = << >> /\ out = << >> /\ pager.at = "off"
  BY DEF Init
<1>. QED BY <1>1, IdsOfNone DEF PagerInv

\* A step that is not the client's leaves what it waits for, and what it knows.
LEMMA PagerKept ==
    ASSUME SessionInv, GraphInv', OrderInv, PagerInv, [Next]_vars, pager' = pager
    PROVE  PagerInv'
<1>1. GraphInv /\ Grown(db, db')
  BY GraphSteps DEF SessionInv
<1>2. \A r \in (ToSet(replies) \cup ToSet(out))' : (PageNamed(r))'
  BY PagesNamed
<1>3. DOMAIN db.claims \subseteq DOMAIN db'.claims
  BY <1>1 DEF Grown
<1>4. ASSUME pager.at \in {"ready", "waiting"}
      PROVE  /\ pager.want \subseteq DOMAIN db.claims /\ pager.offset \in Nat
             /\ Ahead(Present, pager.want, pager.got, pager.offset)
             /\ Ahead(Present', pager.want, pager.got, pager.offset)
  <2> DEFINE want == pager.want  got == pager.got  offset == pager.offset
  <2>1. want \subseteq DOMAIN db.claims /\ offset \in Nat /\ Ahead(Present, want, got, offset)
    BY <1>4 DEF PagerInv
  <2> HIDE DEF want, got, offset
  <2>2. Ahead(Present', want, got, offset)
    BY <1>1, <2>1, AheadKept
  <2>. QED BY <2>1, <2>2 DEF want, got, offset
<1>5. ASSUME pager.at = "waiting"
      PROVE  \E n \in 1 .. Len(sent') : pager.id = <<n, 1>> /\ sent'[n] = PageRequest(pager.offset)
  <2>1. PICK n \in 1 .. Len(sent) : pager.id = <<n, 1>> /\ sent[n] = PageRequest(pager.offset)
    BY <1>5 DEF PagerInv
  <2>2. n \in 1 .. Len(sent') /\ sent'[n] = sent[n]
    BY LinesStay
  <2>. QED BY <2>1, <2>2
<1>6. ASSUME pager.at = "waiting", NEW r \in (ToSet(replies) \cup ToSet(out))',
             r.id = pager.id, r.kind = "page"
      PROVE  Turns(pager, r.body)
  <2>1. CASE r \in ToSet(replies) \cup ToSet(out)
    BY <1>6, <2>1 DEF PagerInv
  <2>2. CASE NewAnswer(r)
    <3>1. PICK n \in 1 .. Len(sent) : pager.id = <<n, 1>> /\ sent[n] = PageRequest(pager.offset)
      BY <1>6 DEF PagerInv
    <3>2. r.id = <<taken, Done>> /\ r.body = FindClaims(db, sent[taken].items[Done].args)
      BY <1>6, <2>2, NewPage
    <3>3. taken = n /\ Done = 1
      BY <1>6, <3>1, <3>2
    <3> DEFINE args == sent[taken].items[Done].args
    <3>4. args = PageRequest(pager.offset).items[1].args
      BY <3>1, <3>3
    <3> HIDE DEF args
    <3>5. Turns(pager, FindClaims(db, args))
      BY <1>1, <1>4, <1>6, <3>4, RequestAnswered
    <3>. QED BY <3>2, <3>5 DEF args
  <2>. QED BY <1>6, <2>1, <2>2, AnswersAdded
<1>7. ASSUME pager.at = "waiting", NEW r \in (ToSet(replies) \cup ToSet(out))',
             r.id = pager.id, r.kind = "page"
      PROVE  /\ Len(r.body) \in Nat
             /\ IF Len(r.body) < PageSize THEN pager.want \subseteq pager.got \cup ToSet(r.body)
                ELSE Ahead(Present', pager.want, pager.got \cup ToSet(r.body),
                           pager.offset + Len(r.body))
  <2> DEFINE page == r.body
  <2>1. Turns(pager, page)
    BY <1>6, <1>7
  <2> HIDE DEF page
  <2>2. /\ Len(page) \in Nat
        /\ IF Len(page) < PageSize THEN pager.want \subseteq pager.got \cup ToSet(page)
           ELSE Ahead(Present', pager.want, pager.got \cup ToSet(page), pager.offset + Len(page))
    BY <1>1, <1>4, <1>7, <2>1, TurnsKept
  <2>. QED BY <2>2 DEF page
<1>8. pager.at = "waiting" =>
        \A r \in (ToSet(replies) \cup ToSet(out))' :
            r.id = pager.id /\ r.kind = "page" => (Turns(pager, r.body))'
  BY <1>7 DEF Turns
<1>9. pager.at \in {"off", "ready", "waiting", "failed", "done"}
      /\ (pager.at = "done" => pager.want \subseteq pager.got)
  BY DEF PagerInv
<1>. QED BY <1>2, <1>3, <1>4, <1>5, <1>8, <1>9 DEF PagerInv

\* The steps of the client.
LEMMA PagerTurns ==
    ASSUME SessionInv, OrderInv, PagerInv, [Next]_vars, StartPaging \/ RequestPage \/ ReceivePage
    PROVE  PagerInv'
<1>1. GraphInv /\ \A r \in (ToSet(replies) \cup ToSet(out))' : (PageNamed(r))'
  BY PagesNamed DEF SessionInv
<1>2. db' = db /\ replies' = replies /\ out' = out /\ taken' = taken /\ Present' = Present
  BY DEF StartPaging, RequestPage, ReceivePage, Write, server, Present
<1>3. CASE StartPaging
  <2>1. pager' = [at |-> "ready", want |-> DOMAIN db.claims, got |-> {}, offset |-> 0]
    BY <1>3 DEF StartPaging
  <2>2. Ahead(Present, DOMAIN db.claims, {}, 0)
    BY <1>1, PresentFinite DEF Ahead, Present
  <2>. QED BY <1>1, <1>2, <2>1, <2>2 DEF PagerInv
<1>4. CASE RequestPage
  <2>1. /\ pager.at = "ready" /\ Write(PageRequest(pager.offset))
        /\ pager' = [at |-> "waiting", id |-> <<Len(sent'), 1>>, want |-> pager.want,
                     got |-> pager.got, offset |-> pager.offset]
    BY <1>4 DEF RequestPage
  <2> DEFINE line == PageRequest(pager.offset)
  <2>2. Written(line)
    BY <2>1, RequestsFit DEF Written, Write
  <2>3. /\ Len(sent) \in Nat /\ Len(sent') = Len(sent) + 1 /\ sent'[Len(sent) + 1] = line
    BY <2>2, SentOn DEF SessionInv
  <2>4. \E n \in 1 .. Len(sent') : pager'.id = <<n, 1>> /\ sent'[n] = PageRequest(pager'.offset)
    BY <2>1, <2>3
  <2>5. ASSUME NEW r \in ToSet(replies) \cup ToSet(out), r.kind = "page" PROVE r.id # pager'.id
    <3>1. PICK n \in 1 .. taken : \E i \in Nat : r.id = <<n, i>>
      BY <2>5 DEF PagerInv, PageNamed
    <3>2. taken \in 0 .. Len(sent)
      BY DEF SessionInv, SentInv
    <3>3. n # Len(sent')
      BY <2>3, <3>1, <3>2
    <3>. QED BY <2>1, <3>1, <3>3
  <2>6. /\ pager.want \subseteq DOMAIN db.claims /\ pager.offset \in Nat
        /\ Ahead(Present, pager.want, pager.got, pager.offset)
    BY <2>1 DEF PagerInv
  <2>7. /\ pager'.at = "waiting" /\ pager'.want = pager.want /\ pager'.got = pager.got
        /\ pager'.offset = pager.offset
    BY <2>1
  <2>. QED BY <1>1, <1>2, <2>4, <2>5, <2>6, <2>7 DEF PagerInv
<1>5. CASE ReceivePage
  <2>1. PICK r \in Range(replies) :
            /\ r.id = pager.id
            /\ pager' = IF r.kind # "page" THEN [at |-> "failed"]
                        ELSE [at |-> IF Len(r.body) < PageSize THEN "done" ELSE "ready",
                              want |-> pager.want, got |-> pager.got \cup ToSet(r.body),
                              offset |-> pager.offset + Len(r.body)]
    BY <1>5 DEF ReceivePage
  <2>2. pager.at = "waiting" /\ r \in ToSet(replies)
    BY <1>5, <2>1 DEF ReceivePage, Range, ToSet
  <2>3. CASE r.kind # "page"
    BY <1>1, <2>1, <2>3 DEF PagerInv
  <2>4. CASE r.kind = "page"
    <3>1. Turns(pager, r.body) /\ pager.want \subseteq DOMAIN db.claims /\ pager.offset \in Nat
      BY <2>1, <2>2, <2>4 DEF PagerInv
    <3>2. /\ pager'.at = IF Len(r.body) < PageSize THEN "done" ELSE "ready"
          /\ pager'.want = pager.want /\ pager'.got = pager.got \cup ToSet(r.body)
          /\ pager'.offset = pager.offset + Len(r.body)
      BY <2>1, <2>4
    <3>3. CASE Len(r.body) < PageSize
      BY <1>1, <3>1, <3>2, <3>3 DEF PagerInv, Turns
    <3>4. CASE ~ Len(r.body) < PageSize
      BY <1>1, <1>2, <3>1, <3>2, <3>4 DEF PagerInv, Turns
    <3>. QED BY <3>3, <3>4
  <2>. QED BY <2>3, <2>4
<1>. QED BY <1>3, <1>4, <1>5

\* A client that pages until a page is not full has seen every claim that was
\* there when it began, whatever others commit, decide or believe meanwhile.
THEOREM PagingMissesNothing == Spec => []PagesMissNothing
<1> DEFINE Inv == SessionInv /\ OrderInv /\ PagerInv
<1>1. Init => Inv
  BY GraphStarts, LinesStart, OrderStarts, PagerStarts DEF SessionInv
<1>2. Inv /\ [Next]_vars => Inv'
  <2>. SUFFICES ASSUME Inv, [Next]_vars PROVE Inv'
    OBVIOUS
  <2>1. SessionInv' /\ OrderInv'
    BY GraphSteps, LineSteps, OrderSteps DEF SessionInv
  <2>2. PagerInv'
    BY <2>1, PagerMoves, PagerKept, PagerTurns DEF SessionInv
  <2>. QED BY <2>1, <2>2
<1>3. Inv => PagesMissNothing
  BY DEF PagerInv, PagesMissNothing
<1>. QED BY <1>1, <1>2, <1>3, PTL DEF Spec
=============================================================================
