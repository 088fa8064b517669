------------------------- MODULE CartographyProofs -------------------------
(***************************************************************************)
(* Cartography: the passes that link the binaries of one project, and the  *)
(* comparison of several projects, for any files, analyses, projects and   *)
(* numbers of passes and jobs.  The safety properties of Linking and of    *)
(* Fleet, which share no variable.                                         *)
(*                                                                         *)
(* A pass of Linking joins what it read before its run with what it reads  *)
(* in it, and analyses commit in between.  The invariant says what a pass  *)
(* holds at each point: it has read at least what was committed when it    *)
(* began, and the confidence it remembers of a claim is at most the one    *)
(* committed now, because attestations are only added and the best one     *)
(* counts.                                                                 *)
(*                                                                         *)
(* In Fleet the parents of the union-find form a forest: there is a        *)
(* function top that names the root of every project, and a rank that      *)
(* grows towards the roots.  Halving a path changes neither; uniting two   *)
(* trees makes the root of one the top of both.  The edges connect every   *)
(* project with its top, and two projects that an edge joins have the same *)
(* top, but for the one edge whose roots are still being looked for.       *)
(***************************************************************************)
EXTENDS Linking, Fleet, FiniteSetTheorems, WellFoundedInduction, TLAPS

-----------------------------------------------------------------------------
(* LINKING *)

FactsInv ==
    /\ IsFiniteSet(facts)
    /\ \A row \in facts : WellFormed(row) /\ row.object \in Objects

IsClaim(k) ==
    \/ /\ k.predicate = "function_reached"
       /\ k = Reached(k.function, k.hit)
       /\ k.function \in facts /\ k.function.kind = "function"
    \/ /\ k.predicate = "imports_resolved_by"
       /\ k = Link(k.import, k.provider)
       /\ k.import \in facts /\ k.import.kind = "import"
    \/ k.predicate = "cross_binary_reachable"

ClaimsInv == \A k \in DOMAIN conf : IsClaim(k) /\ conf[k] \in 0 .. 100

\* The files that were listed, and what has been read of their providers.
Exporters(pass) ==
    /\ pass = [at |-> "exporters", objects |-> pass.objects, unread |-> pass.unread,
               exporters |-> pass.exporters, ignore |-> pass.ignore, since |-> pass.since]
    /\ pass.since \subseteq facts
    /\ \A row \in pass.since : row.object \in pass.objects
    /\ pass.unread \subseteq pass.objects \X {"export", "symbol"}
    /\ pass.exporters \subseteq facts
    /\ \A row \in pass.since :
        row.kind \in {"export", "symbol"} =>
            <<row.object, row.kind>> \in pass.unread \/ row \in pass.exporters

\* What a pass remembers of the claims of a predicate: all of those there
\* were when it began, none more sure than it is now.
Remembers(pass, claims, predicate) ==
    /\ DOMAIN claims \subseteq ClaimsOf(predicate)
    /\ \A k \in DOMAIN claims : claims[k] \in 0 .. 100 /\ claims[k] <= conf[k]
    /\ \A k \in pass.sinceClaims : k.predicate = predicate => k \in DOMAIN claims

PassInv(pass) ==
    /\ pass.at \in {"idle", "exporters", "linked", "links", "reach", "chained"}
    /\ pass.at = "exporters" => Exporters(pass)
    /\ pass.at \in {"links", "reach"} =>
        /\ pass.since \subseteq facts
        /\ pass.sinceClaims \subseteq DOMAIN conf
        /\ Remembers(pass, pass.reached, "function_reached")
    /\ pass.at = "reach" => Remembers(pass, pass.links, "imports_resolved_by")

PassesInv == DOMAIN passes = Processes /\ \A p \in Processes : PassInv(passes[p])

\* What PassesComplete says of one pass.
Complete(pass) ==
    /\ pass.at = "linked" =>
        {k \in Join(pass.since) : Holds(k) /\ ~ Ignored(pass, k.import.name)} \subseteq DOMAIN conf
    /\ pass.at = "chained" =>
        \A r, l \in pass.sinceClaims, x \in pass.since :
            /\ r.predicate = "function_reached" /\ l.predicate = "imports_resolved_by"
            /\ x.kind = "xref" /\ x.type = "call" /\ x.object = r.function.object
            /\ x.object = l.import.object /\ x.to = l.import.name
            /\ x.from >= r.function.start /\ x.from < EndOf(r.function)
            => \E k \in ClaimsOf("cross_binary_reachable") :
                k.function = r.function /\ k.hit = r.hit /\ k.sink = l.provider

LinkingInv ==
    /\ FactsInv
    /\ ClaimsInv
    /\ PassesInv
    /\ PassesComplete
    /\ NoStrongerThanItsLinks

\* Nothing that was committed is lost, and no claim gets less sure.
Grows ==
    /\ facts \subseteq facts'
    /\ \A k \in DOMAIN conf : k \in DOMAIN conf' /\ conf[k] <= conf'[k]

-----------------------------------------------------------------------------
(* The best attestation *)

\* The best of some percentages is one of them, and none is better.
LEMMA MaxOfPercents ==
    ASSUME NEW S, S \subseteq 0 .. 100, S # {}
    PROVE  Max(S) \in S /\ \A x \in S : x <= Max(S)
<1> DEFINE R == {ij \in Nat \X Nat : ij[1] < ij[2]}
           T == {n \in Nat : n <= 100 /\ 100 - n \in S}
<1>1. IsWellFoundedOn(R, Nat)
  BY NatLessThanWellFounded DEF OpToRel
<1>2. T \subseteq Nat
  OBVIOUS
<1>3. T # {}
  <2>1. PICK x \in S : TRUE
    OBVIOUS
  <2>2. 100 - x \in T
    BY <2>1
  <2>. QED BY <2>2
<1>4. PICK n \in T : \A m \in T : <<m, n>> \notin R
  <2>. HIDE DEF T, R
  <2>. QED BY <1>1, <1>2, <1>3, WFMin
<1>5. 100 - n \in S /\ \A y \in S : 100 - n >= y
  <2>1. SUFFICES ASSUME NEW y \in S
                 PROVE  100 - n >= y
    BY <1>4
  <2>2. 100 - y \in T
    BY <2>1
  <2>3. ~ (100 - y < n)
    BY <1>4, <2>2
  <2>. QED BY <2>1, <2>3, <1>4
<1>6. Max(S) \in S /\ \A y \in S : Max(S) >= y
  BY <1>5 DEF Max
<1>. QED BY <1>6

LEMMA PercentsTransitive ==
    \A x, y, z \in 0 .. 100 : x <= y /\ y <= z => x <= z
OBVIOUS

\* A run adds its claims; of a claim that was there, the better confidence
\* counts.
LEMMA AttestedGrows ==
    ASSUME \A k \in DOMAIN conf : conf[k] \in 0 .. 100,
           NEW new, \A k \in DOMAIN new : new[k] \in 0 .. 100
    PROVE  /\ DOMAIN Attested(new) = DOMAIN conf \cup DOMAIN new
           /\ \A k \in DOMAIN Attested(new) :
                /\ Attested(new)[k] \in 0 .. 100
                /\ k \in DOMAIN conf => conf[k] <= Attested(new)[k]
                /\ \/ k \in DOMAIN conf /\ Attested(new)[k] = conf[k]
                   \/ k \in DOMAIN new /\ Attested(new)[k] = new[k]
<1>1. DOMAIN Attested(new) = DOMAIN conf \cup DOMAIN new
  BY DEF Attested
<1>2. SUFFICES ASSUME NEW k \in DOMAIN conf \cup DOMAIN new
               PROVE  /\ Attested(new)[k] \in 0 .. 100
                      /\ k \in DOMAIN conf => conf[k] <= Attested(new)[k]
                      /\ \/ k \in DOMAIN conf /\ Attested(new)[k] = conf[k]
                         \/ k \in DOMAIN new /\ Attested(new)[k] = new[k]
  BY <1>1
<1> DEFINE S == {m[k] : m \in {n \in {conf, new} : k \in DOMAIN n}}
<1>3. Attested(new)[k] = Max(S)
  BY <1>2 DEF Attested
<1>4. \A x \in S :
        \/ k \in DOMAIN conf /\ x = conf[k]
        \/ k \in DOMAIN new /\ x = new[k]
  OBVIOUS
<1>5. S \subseteq 0 .. 100
  BY <1>4
<1>6. k \in DOMAIN conf => conf[k] \in S
  OBVIOUS
<1>7. k \in DOMAIN new => new[k] \in S
  OBVIOUS
<1>8. S # {}
  BY <1>2, <1>6, <1>7
<1>9. Max(S) \in S /\ \A x \in S : x <= Max(S)
  <2>. HIDE DEF S
  <2>. QED BY <1>5, <1>8, MaxOfPercents
<1>. QED BY <1>3, <1>4, <1>5, <1>6, <1>9

\* A run whose claims are as their producers make them, and no chain of which
\* is surer than its links, keeps what is known of the claims.
LEMMA RunKeepsClaims ==
    ASSUME LinkingInv, facts \subseteq facts',
           NEW new, conf' = Attested(new),
           \A k \in DOMAIN new :
            /\ new[k] \in 0 .. 100 /\ IsClaim(k)'
            /\ k.predicate = "cross_binary_reachable" =>
                /\ Reached(k.function, k.hit) \in DOMAIN conf
                /\ Link(k.import, k.sink) \in DOMAIN conf
                /\ new[k] <= conf[Reached(k.function, k.hit)]
                /\ new[k] <= conf[Link(k.import, k.sink)]
    PROVE  Grows /\ ClaimsInv' /\ NoStrongerThanItsLinks'
<1>1. \A k \in DOMAIN conf : conf[k] \in 0 .. 100 /\ IsClaim(k)
  BY DEF LinkingInv, ClaimsInv
<1>2. /\ DOMAIN conf' = DOMAIN conf \cup DOMAIN new
      /\ \A k \in DOMAIN conf' :
            /\ conf'[k] \in 0 .. 100
            /\ k \in DOMAIN conf => conf[k] <= conf'[k]
            /\ \/ k \in DOMAIN conf /\ conf'[k] = conf[k]
               \/ k \in DOMAIN new /\ conf'[k] = new[k]
  BY <1>1, AttestedGrows
<1>3. Grows
  BY <1>2 DEF Grows
<1>4. ClaimsInv'
  BY <1>1, <1>2 DEF ClaimsInv, IsClaim
<1>5. ASSUME NEW k \in DOMAIN conf', k.predicate = "cross_binary_reachable"
      PROVE  /\ Reached(k.function, k.hit) \in DOMAIN conf'
             /\ Link(k.import, k.sink) \in DOMAIN conf'
             /\ conf'[k] <= conf'[Reached(k.function, k.hit)]
             /\ conf'[k] <= conf'[Link(k.import, k.sink)]
  <2> DEFINE f == Reached(k.function, k.hit)
             l == Link(k.import, k.sink)
  <2>1. f \in DOMAIN conf /\ l \in DOMAIN conf
        /\ conf'[k] <= conf[f] /\ conf'[k] <= conf[l]
    <3>1. CASE k \in DOMAIN conf /\ conf'[k] = conf[k]
      BY <1>5, <3>1 DEF LinkingInv, NoStrongerThanItsLinks, ClaimsOf
    <3>2. CASE k \in DOMAIN new /\ conf'[k] = new[k]
      BY <1>5, <3>2
    <3>. QED BY <1>2, <3>1, <3>2
  <2>2. conf[f] <= conf'[f] /\ conf[l] <= conf'[l]
    BY <1>2, <2>1
  <2>3. conf'[k] \in 0 .. 100 /\ conf'[f] \in 0 .. 100 /\ conf'[l] \in 0 .. 100
        /\ conf[f] \in 0 .. 100 /\ conf[l] \in 0 .. 100
    BY <1>1, <1>2, <2>1
  <2>. HIDE DEF f, l
  <2>4. f \in DOMAIN conf' /\ l \in DOMAIN conf' /\ conf'[k] <= conf'[f] /\ conf'[k] <= conf'[l]
    BY <1>2, <2>1, <2>2, <2>3, PercentsTransitive
  <2>. QED BY <2>4 DEF f, l
<1>6. NoStrongerThanItsLinks'
  BY <1>5 DEF NoStrongerThanItsLinks, ClaimsOf
<1>. QED BY <1>3, <1>4, <1>6

-----------------------------------------------------------------------------
(* The passes *)

\* What the other processes commit takes nothing from a pass.
LEMMA PassKept ==
    ASSUME LinkingInv, Grows, ClaimsInv', NEW p \in Processes, passes'[p] = passes[p]
    PROVE  PassInv(passes[p])' /\ Complete(passes[p])'
<1> DEFINE pass == passes[p]
<1>1. PassInv(pass) /\ Complete(pass)
  BY DEF LinkingInv, PassesInv, PassesComplete, Complete
<1>2. /\ facts \subseteq facts' /\ DOMAIN conf \subseteq DOMAIN conf'
      /\ \A predicate : ClaimsOf(predicate) \subseteq ClaimsOf(predicate)'
  BY DEF Grows, ClaimsOf
<1>3. ASSUME NEW claims, NEW predicate, Remembers(pass, claims, predicate)
      PROVE  /\ DOMAIN claims \subseteq ClaimsOf(predicate)'
             /\ \A k \in DOMAIN claims : claims[k] \in 0 .. 100 /\ claims[k] <= conf'[k]
             /\ \A k \in pass.sinceClaims : k.predicate = predicate => k \in DOMAIN claims
  <2>1. SUFFICES ASSUME NEW k \in DOMAIN claims
                 PROVE  claims[k] <= conf'[k]
    BY <1>2, <1>3 DEF Remembers
  <2>2. /\ k \in DOMAIN conf /\ claims[k] <= conf[k] /\ claims[k] \in 0 .. 100
    BY <1>3 DEF Remembers, ClaimsOf
  <2>3. conf[k] \in 0 .. 100 /\ conf'[k] \in 0 .. 100 /\ conf[k] <= conf'[k]
    BY <2>2 DEF LinkingInv, ClaimsInv, Grows
  <2>. QED BY <2>2, <2>3, PercentsTransitive
<1>4. pass.at = "exporters" => Exporters(passes[p])'
  BY <1>1, <1>2 DEF PassInv, Exporters
<1>5. pass.at \in {"links", "reach"} =>
        /\ pass.since \subseteq facts'
        /\ pass.sinceClaims \subseteq DOMAIN conf'
        /\ Remembers(pass, pass.reached, "function_reached")'
  BY <1>1, <1>2, <1>3 DEF PassInv, Remembers
<1>6. pass.at = "reach" => Remembers(pass, pass.links, "imports_resolved_by")'
  BY <1>1, <1>3 DEF PassInv, Remembers
<1>7. PassInv(passes[p])'
  BY <1>1, <1>4, <1>5, <1>6 DEF PassInv
<1>8. Complete(passes[p])'
  <2>1. pass.at = "linked" => 
            {k \in Join(pass.since) : Holds(k) /\ ~ Ignored(pass, k.import.name)} \subseteq DOMAIN conf'
    BY <1>1, <1>2 DEF Complete
  <2>2. ASSUME pass.at = "chained",
               NEW r \in pass.sinceClaims, NEW l \in pass.sinceClaims, NEW x \in pass.since,
               /\ r.predicate = "function_reached" /\ l.predicate = "imports_resolved_by"
               /\ x.kind = "xref" /\ x.type = "call" /\ x.object = r.function.object
               /\ x.object = l.import.object /\ x.to = l.import.name
               /\ x.from >= r.function.start /\ x.from < EndOf(r.function)
        PROVE  \E k \in ClaimsOf("cross_binary_reachable")' :
                k.function = r.function /\ k.hit = r.hit /\ k.sink = l.provider
    BY <1>1, <1>2, <2>2 DEF Complete
  <2>. QED BY <2>1, <2>2 DEF Complete
<1>. QED BY <1>7, <1>8

LEMMA QuietStep ==
    ASSUME LinkingInv, UNCHANGED <<facts, conf>>
    PROVE  Grows /\ FactsInv' /\ ClaimsInv' /\ NoStrongerThanItsLinks'
<1>1. Grows
  BY DEF LinkingInv, ClaimsInv, Grows
<1>2. FactsInv'
  BY DEF LinkingInv, FactsInv, Objects
<1>3. ClaimsInv'
  BY DEF LinkingInv, ClaimsInv, IsClaim
<1>4. NoStrongerThanItsLinks'
  BY DEF LinkingInv, NoStrongerThanItsLinks, ClaimsOf
<1>. QED BY <1>1, <1>2, <1>3, <1>4

\* A step of one pass keeps the invariant if that pass is in order after it.
LEMMA OnePassMoves ==
    ASSUME LinkingInv, Grows, FactsInv', ClaimsInv', NoStrongerThanItsLinks',
           NEW p \in Processes, NEW pass, Goto(p, pass),
           PassInv(passes[p])', Complete(passes[p])'
    PROVE  LinkingInv'
<1>1. /\ DOMAIN passes' = Processes
      /\ \A q \in Processes \ {p} : passes'[q] = passes[q]
  BY DEF LinkingInv, PassesInv, Goto
<1>2. \A q \in Processes : PassInv(passes[q])' /\ Complete(passes[q])'
  <2>1. ASSUME NEW q \in Processes
        PROVE  PassInv(passes[q])' /\ Complete(passes[q])'
    <3>1. CASE q = p
      BY <3>1
    <3>2. CASE q # p
      BY <1>1, <3>2, PassKept
    <3>. QED BY <3>1, <3>2
  <2>. QED BY <2>1
<1>. QED BY <1>1, <1>2 DEF LinkingInv, PassesInv, PassesComplete, Complete

LEMMA InitLinking == Init => LinkingInv
<1>. SUFFICES ASSUME Init
              PROVE  LinkingInv
  OBVIOUS
<1>1. DOMAIN conf = {}
  BY DEF Init
<1>2. FactsInv
  BY FS_EmptySet DEF Init, FactsInv
<1>3. ClaimsInv /\ NoStrongerThanItsLinks
  BY <1>1 DEF ClaimsInv, NoStrongerThanItsLinks, ClaimsOf
<1>4. PassesInv /\ PassesComplete
  BY DEF Init, PassesInv, PassInv, PassesComplete, Idle
<1>. QED BY <1>2, <1>3, <1>4 DEF LinkingInv

LEMMA AnalyseKeepsLinking ==
    ASSUME LinkingInv, NEW a \in Analyses, Analyse(a)
    PROVE  LinkingInv'
<1>1. /\ facts' = facts \cup a.rows /\ conf' = Attested(a.reached) /\ passes' = passes
      /\ \A k \in DOMAIN a.reached : k.function \in facts
  BY DEF Analyse
<1>2. FactsInv'
  <2>1. IsFiniteSet(facts')
    BY <1>1, FS_Union, LinkingAssumption DEF LinkingInv, FactsInv
  <2>2. \A row \in facts' : WellFormed(row)
    BY <1>1, LinkingAssumption DEF LinkingInv, FactsInv, WellFormed
  <2>3. Objects' = Objects \cup {f.object : f \in {b \in a.rows : b.kind = "file"}}
    BY <1>1 DEF Objects
  <2>4. \A row \in facts' : row.object \in Objects'
    BY <1>1, <2>3 DEF LinkingInv, FactsInv, Analyse
  <2>. QED BY <2>1, <2>2, <2>4 DEF FactsInv, WellFormed
<1>3. \A k \in DOMAIN a.reached :
        /\ k = Reached(k.function, k.hit) /\ k.function.kind = "function"
        /\ a.reached[k] \in 0 .. 100
  BY LinkingAssumption
<1>4. \A k \in DOMAIN a.reached : k.predicate = "function_reached" /\ k.function \in facts'
  BY <1>1, <1>3 DEF Reached
<1>5. Grows /\ ClaimsInv' /\ NoStrongerThanItsLinks'
  <2>1. \A k \in DOMAIN a.reached : 
            a.reached[k] \in 0 .. 100 /\ IsClaim(k)' /\ k.predicate # "cross_binary_reachable"
    BY <1>3, <1>4 DEF IsClaim
  <2>. QED BY <1>1, <2>1, RunKeepsClaims
<1>6. \A p \in Processes : PassInv(passes[p])' /\ Complete(passes[p])'
  BY <1>1, <1>5, PassKept
<1>. QED BY <1>1, <1>2, <1>5, <1>6 DEF LinkingInv, PassesInv, PassesComplete, Complete

LEMMA StartLinkingKeeps ==
    ASSUME LinkingInv, NEW p \in Processes, StartLinking(p)
    PROVE  LinkingInv'
<1> PICK ignore \in BOOLEAN :
        Start(p, [at |-> "exporters", objects |-> Objects,
                  unread |-> Objects \X {"export", "symbol"},
                  exporters |-> {}, ignore |-> ignore, since |-> facts])
  BY DEF StartLinking
<1> DEFINE pass == [at |-> "exporters", objects |-> Objects,
                    unread |-> Objects \X {"export", "symbol"},
                    exporters |-> {}, ignore |-> ignore, since |-> facts]
<1>1. Goto(p, pass) /\ UNCHANGED <<facts, conf>>
  BY DEF Start
<1>2. Grows /\ FactsInv' /\ ClaimsInv' /\ NoStrongerThanItsLinks'
  BY <1>1, QuietStep
<1>3. passes'[p] = pass
  BY <1>1 DEF Goto, LinkingInv, PassesInv
<1>4. \A row \in facts : row.object \in Objects
  BY DEF LinkingInv, FactsInv
<1>5. Exporters(passes[p])'
  BY <1>1, <1>3, <1>4 DEF Exporters
<1>6. PassInv(passes[p])' /\ Complete(passes[p])'
  BY <1>3, <1>5 DEF PassInv, Complete
<1>. QED BY <1>1, <1>2, <1>6, OnePassMoves

LEMMA ExceptExporters ==
    ASSUME NEW old, NEW u, NEW e,
           old = [at |-> "exporters", objects |-> old.objects, unread |-> old.unread,
                  exporters |-> old.exporters, ignore |-> old.ignore, since |-> old.since]
    PROVE  [old EXCEPT !.unread = u, !.exporters = e]
            = [at |-> "exporters", objects |-> old.objects, unread |-> u,
               exporters |-> e, ignore |-> old.ignore, since |-> old.since]
<1> DEFINE mid == [at |-> "exporters", objects |-> old.objects, unread |-> u,
               exporters |-> old.exporters, ignore |-> old.ignore, since |-> old.since]
<1>1. [old EXCEPT !.unread = u] = mid
  OBVIOUS
<1>2. [mid EXCEPT !.exporters = e] = [at |-> "exporters", objects |-> old.objects, unread |-> u,
               exporters |-> e, ignore |-> old.ignore, since |-> old.since]
  OBVIOUS
<1>3. [old EXCEPT !.unread = u, !.exporters = e] = [[old EXCEPT !.unread = u] EXCEPT !.exporters = e]
  OBVIOUS
<1>. QED BY <1>1, <1>2, <1>3

LEMMA ReadExportersKeeps ==
    ASSUME LinkingInv, NEW p \in Processes, ReadExporters(p)
    PROVE  LinkingInv'
<1> DEFINE old == passes[p]
           q == CHOOSE q \in old.unread : TRUE
           pass == [old EXCEPT !.unread = @ \ {q}, !.exporters = @ \cup Rows(q[2], q[1])]
<1>1. Goto(p, pass) /\ UNCHANGED <<facts, conf>>
  BY DEF ReadExporters
<1>2. Grows /\ FactsInv' /\ ClaimsInv' /\ NoStrongerThanItsLinks'
  BY <1>1, QuietStep
<1>3. passes'[p] = pass
  BY <1>1 DEF Goto, LinkingInv, PassesInv
<1>4. old.at = "exporters" /\ Exporters(old)
  BY DEF ReadExporters, LinkingInv, PassesInv, PassInv
<1>5. q \in old.unread
  BY DEF ReadExporters
<1>6. pass = [at |-> "exporters", objects |-> old.objects, unread |-> old.unread \ {q},
              exporters |-> old.exporters \cup Rows(q[2], q[1]),
              ignore |-> old.ignore, since |-> old.since]
  <2>1. old = [at |-> "exporters", objects |-> old.objects, unread |-> old.unread,
               exporters |-> old.exporters, ignore |-> old.ignore, since |-> old.since]
    BY <1>4 DEF Exporters
  <2> DEFINE unread == old.unread \ {q}
             exporters == old.exporters \cup Rows(q[2], q[1])
  <2>2. pass = [old EXCEPT !.unread = unread, !.exporters = exporters]
    OBVIOUS
  <2>. HIDE DEF q, old, unread, exporters
  <2>3. [old EXCEPT !.unread = unread, !.exporters = exporters]
            = [at |-> "exporters", objects |-> old.objects, unread |-> unread,
               exporters |-> exporters, ignore |-> old.ignore, since |-> old.since]
    BY <2>1, ExceptExporters
  <2>. QED BY <2>2, <2>3 DEF unread, exporters
<1>7. Rows(q[2], q[1]) \subseteq facts
  BY DEF Rows
<1>8. ASSUME NEW row \in old.since, row.kind \in {"export", "symbol"}
      PROVE  <<row.object, row.kind>> \in pass.unread \/ row \in pass.exporters
  <2>1. row \in facts
    BY <1>4 DEF Exporters
  <2>2. CASE <<row.object, row.kind>> = q
    <3>1. q[1] = row.object /\ q[2] = row.kind
      <4>. HIDE DEF q
      <4>. QED BY <2>2
    <3>2. row \in Rows(q[2], q[1])
      BY <2>1, <3>1 DEF Rows
    <3>. HIDE DEF q, pass
    <3>. QED BY <3>2, <1>6
  <2>3. CASE <<row.object, row.kind>> # q
    <3>. HIDE DEF q, pass
    <3>. QED BY <2>3, <1>4, <1>6, <1>8 DEF Exporters
  <2>. QED BY <2>2, <2>3
<1>9. Exporters(passes[p])'
  <2>1. /\ pass.since \subseteq facts /\ pass.exporters \subseteq facts
        /\ \A row \in pass.since : row.object \in pass.objects
        /\ pass.unread \subseteq pass.objects \X {"export", "symbol"}
    <3>1. /\ pass.since = old.since /\ pass.objects = old.objects
          /\ pass.unread = old.unread \ {q}
          /\ pass.exporters = old.exporters \cup Rows(q[2], q[1])
      <4>. HIDE DEF pass, q
      <4>. QED BY <1>6
    <3>. HIDE DEF pass, q
    <3>. QED BY <1>4, <1>7, <3>1 DEF Exporters
  <2>. HIDE DEF pass, q
  <2>. QED BY <1>1, <1>3, <1>6, <1>8, <2>1 DEF Exporters
<1>10. PassInv(passes[p])' /\ Complete(passes[p])'
  <2>. HIDE DEF pass, q
  <2>. QED BY <1>3, <1>6, <1>9 DEF PassInv, Complete
<1>. QED
  <2>. HIDE DEF pass, q
  <2>. QED BY <1>1, <1>2, <1>10, OnePassMoves

\* The exporters a pass has read are all that were there when it began.
LEMMA ExportersAreRead ==
    ASSUME LinkingInv, NEW p \in Processes,
           passes[p].at = "exporters", passes[p].unread = {}
    PROVE  /\ passes[p].since \subseteq facts
           /\ \A row \in passes[p].since : 
                /\ row.object \in passes[p].objects
                /\ row.kind \in {"export", "symbol"} => row \in passes[p].exporters
           /\ passes[p].exporters \subseteq facts
BY DEF LinkingInv, PassesInv, PassInv, Exporters

\* What link_imports finds: a link for every pair, as sure as there are
\* candidates.
LEMMA ResolvedLinks ==
    ASSUME NEW pass
    PROVE  /\ \A k \in DOMAIN Resolved(pass) :
                /\ k = Link(k.import, k.provider)
                /\ k.import \in facts /\ k.import.kind = "import"
                /\ Resolved(pass)[k] = Confidence(Candidates(pass, k.import))
           /\ \A i \in facts : \A e :
                /\ i.kind = "import" /\ i.object \in pass.objects
                /\ ~ Ignored(pass, i.name) /\ e \in Candidates(pass, i)
                => Link(i, e) \in DOMAIN Resolved(pass)
<1> DEFINE imports == {i \in UNION {Rows("import", o) : o \in pass.objects} : ~ Ignored(pass, i.name)}
           links == UNION {{Link(i, e) : e \in Candidates(pass, i)} : i \in imports}
<1>1. /\ DOMAIN Resolved(pass) = links
      /\ \A k \in links : Resolved(pass)[k] = Confidence(Candidates(pass, k.import))
  BY DEF Resolved
<1>2. ASSUME NEW k \in links
      PROVE  /\ k = Link(k.import, k.provider)
             /\ k.import \in facts /\ k.import.kind = "import"
  <2>1. PICK i \in imports : k \in {Link(i, e) : e \in Candidates(pass, i)}
    BY <1>2
  <2>2. i \in facts /\ i.kind = "import"
    BY <2>1 DEF Rows
  <2>3. k = Link(k.import, k.provider) /\ k.import = i
    BY <2>1 DEF Link
  <2>. QED BY <2>1, <2>2, <2>3
<1>3. ASSUME NEW i \in facts, NEW e,
             i.kind = "import", i.object \in pass.objects,
             ~ Ignored(pass, i.name), e \in Candidates(pass, i)
      PROVE  Link(i, e) \in links
  <2>1. i \in Rows("import", i.object)
    BY <1>3 DEF Rows
  <2>2. i \in imports
    BY <1>3, <2>1
  <2>3. Link(i, e) \in {Link(i, f) : f \in Candidates(pass, i)}
    BY <1>3
  <2>. QED BY <2>2, <2>3
<1>. QED
  <2>. HIDE DEF links, imports
  <2>. QED BY <1>1, <1>2, <1>3

LEMMA LinkRunKeeps ==
    ASSUME LinkingInv, NEW p \in Processes, LinkRun(p)
    PROVE  LinkingInv'
<1> DEFINE old == passes[p]
           pass == [at |-> "linked", ignore |-> old.ignore, since |-> old.since]
           new == Resolved(old)
<1>1. /\ old.at = "exporters" /\ old.unread = {}
      /\ conf' = Attested(new) /\ facts' = facts /\ Goto(p, pass)
  BY DEF LinkRun
<1>2. passes'[p] = pass
  BY <1>1 DEF Goto, LinkingInv, PassesInv
<1>3. FactsInv'
  BY <1>1 DEF LinkingInv, FactsInv, Objects
<1>4. Grows /\ ClaimsInv' /\ NoStrongerThanItsLinks'
  <2>1. ASSUME NEW k \in DOMAIN new
        PROVE  new[k] \in 0 .. 100 /\ IsClaim(k)' /\ k.predicate # "cross_binary_reachable"
    <3>1. /\ k = Link(k.import, k.provider)
          /\ k.import \in facts' /\ k.import.kind = "import"
          /\ new[k] = Confidence(Candidates(old, k.import))
      BY <1>1, ResolvedLinks
    <3>2. k.predicate = "imports_resolved_by"
      BY <3>1 DEF Link
    <3>3. new[k] \in 0 .. 100
      BY <3>1 DEF Confidence
    <3>. QED BY <3>1, <3>2, <3>3 DEF IsClaim
  <2>. HIDE DEF new
  <2>. QED BY <1>1, <2>1, RunKeepsClaims
<1>5. ASSUME NEW k \in Join(old.since), Holds(k), ~ Ignored(pass, k.import.name)
      PROVE  k \in DOMAIN conf'
  <2>1. PICK i \in {a \in old.since : a.kind = "import"},
             e \in {a \in old.since : a.kind \in {"export", "symbol"}} : k = Link(i, e)
    BY DEF Join
  <2>2. /\ i \in facts /\ i.object \in old.objects /\ e \in old.exporters
    BY <1>1, <2>1, ExportersAreRead
  <2>3. i.name = e.name /\ i.object # e.object /\ ~ Ignored(old, i.name)
    BY <1>5, <2>1 DEF Holds, Link, Ignored
  <2>4. e \in Candidates(old, i)
    BY <2>2, <2>3 DEF Candidates
  <2>5. k \in DOMAIN new
    BY <2>1, <2>2, <2>3, <2>4, ResolvedLinks
  <2>. QED BY <1>1, <2>5 DEF Attested
<1>6. PassInv(passes[p])' /\ Complete(passes[p])'
  BY <1>2, <1>5 DEF PassInv, Complete
<1>. QED BY <1>1, <1>3, <1>4, <1>6, OnePassMoves

LEMMA StartReachingKeeps ==
    ASSUME LinkingInv, NEW p \in Processes, StartReaching(p)
    PROVE  LinkingInv'
<1> DEFINE claims == [k \in ClaimsOf("function_reached") |-> conf[k]]
           pass == [at |-> "links", reached |-> claims, since |-> facts, sinceClaims |-> DOMAIN conf]
<1>1. Goto(p, pass) /\ UNCHANGED <<facts, conf>>
  BY DEF StartReaching, Start
<1>2. Grows /\ FactsInv' /\ ClaimsInv' /\ NoStrongerThanItsLinks'
  BY <1>1, QuietStep
<1>3. passes'[p] = pass
  BY <1>1 DEF Goto, LinkingInv, PassesInv
<1>4. Remembers(passes[p], passes[p].reached, "function_reached")'
  <2>1. \A k \in DOMAIN conf' : conf'[k] \in 0 .. 100
    BY <1>2 DEF ClaimsInv
  <2>. QED BY <1>1, <1>3, <2>1 DEF Remembers, ClaimsOf
<1>5. PassInv(passes[p])' /\ Complete(passes[p])'
  BY <1>1, <1>3, <1>4 DEF PassInv, Complete
<1>. QED BY <1>1, <1>2, <1>5, OnePassMoves

LEMMA ReadLinksKeeps ==
    ASSUME LinkingInv, NEW p \in Processes, ReadLinks(p)
    PROVE  LinkingInv'
<1> DEFINE old == passes[p]
           claims == [k \in ClaimsOf("imports_resolved_by") |-> conf[k]]
           pass == [at |-> "reach", reached |-> old.reached, links |-> claims,
                    since |-> old.since, sinceClaims |-> old.sinceClaims]
<1>1. Goto(p, pass) /\ UNCHANGED <<facts, conf>> /\ old.at = "links"
  BY DEF ReadLinks
<1>2. Grows /\ FactsInv' /\ ClaimsInv' /\ NoStrongerThanItsLinks'
  BY <1>1, QuietStep
<1>3. passes'[p] = pass
  BY <1>1 DEF Goto, LinkingInv, PassesInv
<1>4. /\ old.since \subseteq facts /\ old.sinceClaims \subseteq DOMAIN conf
      /\ Remembers(old, old.reached, "function_reached")
  BY <1>1 DEF LinkingInv, PassesInv, PassInv
<1>5. Remembers(passes[p], passes[p].reached, "function_reached")'
  BY <1>1, <1>3, <1>4 DEF Remembers, ClaimsOf
<1>6. Remembers(passes[p], passes[p].links, "imports_resolved_by")'
  <2>1. \A k \in DOMAIN conf' : conf'[k] \in 0 .. 100
    BY <1>2 DEF ClaimsInv
  <2>. QED BY <1>1, <1>3, <1>4, <2>1 DEF Remembers, ClaimsOf
<1>7. PassInv(passes[p])' /\ Complete(passes[p])'
  BY <1>1, <1>3, <1>4, <1>5, <1>6 DEF PassInv, Complete
<1>. QED BY <1>1, <1>2, <1>7, OnePassMoves

LEMMA EndKeeps ==
    ASSUME LinkingInv, NEW p \in Processes, End(p)
    PROVE  LinkingInv'
<1>1. Goto(p, Idle) /\ UNCHANGED <<facts, conf>>
  BY DEF End
<1>2. Grows /\ FactsInv' /\ ClaimsInv' /\ NoStrongerThanItsLinks'
  BY <1>1, QuietStep
<1>3. passes'[p] = Idle
  BY <1>1 DEF Goto, LinkingInv, PassesInv
<1>4. PassInv(passes[p])' /\ Complete(passes[p])'
  BY <1>3 DEF PassInv, Complete, Idle
<1>. QED BY <1>1, <1>2, <1>4, OnePassMoves

LEMMA WeakestOfTwo ==
    ASSUME NEW a \in 0 .. 100, NEW b \in 0 .. 100
    PROVE  Weakest(a, b) \in 0 .. 100 /\ Weakest(a, b) <= a /\ Weakest(a, b) <= b
<1>1. \E x \in {a, b} : \A y \in {a, b} : x <= y
  OBVIOUS
<1>2. Min({a, b}) \in {a, b} /\ \A y \in {a, b} : Min({a, b}) <= y
  BY <1>1 DEF Min
<1>. QED BY <1>2 DEF Weakest

\* A chain joins an observed execution with a link: both are claims now, and
\* the chain names them.
LEMMA ChainedClaims ==
    ASSUME LinkingInv, NEW pass, NEW c,
           Remembers(pass, pass.reached, "function_reached"),
           Remembers(pass, pass.links, "imports_resolved_by"),
           c \in Chains(DOMAIN pass.reached, DOMAIN pass.links)
    PROVE  LET w == Weakest(pass.reached[c[1]], pass.links[c[2]])
           IN  /\ c[1] = Reached(ClaimOf(c).function, ClaimOf(c).hit)
               /\ c[2] = Link(ClaimOf(c).import, ClaimOf(c).sink)
               /\ c[1] \in DOMAIN conf /\ c[2] \in DOMAIN conf
               /\ w \in 0 .. 100 /\ w <= conf[c[1]] /\ w <= conf[c[2]]
<1>1. PICK r \in DOMAIN pass.reached :
            c \in {<<r, k>> : k \in {l \in DOMAIN pass.links :
                        l.import.object = r.function.object
                        /\ l.import.name \in {x.to : x \in Calls(r.function)}}}
  BY DEF Chains
<1>2. PICK l \in DOMAIN pass.links : c = <<r, l>>
  BY <1>1
<1>3. c[1] = r /\ c[2] = l
  BY <1>2
<1>4. /\ r \in DOMAIN conf /\ r.predicate = "function_reached"
      /\ l \in DOMAIN conf /\ l.predicate = "imports_resolved_by"
  BY DEF Remembers, ClaimsOf
<1>5. r = Reached(r.function, r.hit) /\ l = Link(l.import, l.provider)
  BY <1>4 DEF LinkingInv, ClaimsInv, IsClaim
<1>6. /\ ClaimOf(c).function = r.function /\ ClaimOf(c).hit = r.hit
      /\ ClaimOf(c).import = l.import /\ ClaimOf(c).sink = l.provider
  BY <1>3 DEF ClaimOf, Reachable
<1>7. /\ pass.reached[r] \in 0 .. 100 /\ pass.reached[r] <= conf[r] /\ conf[r] \in 0 .. 100
      /\ pass.links[l] \in 0 .. 100 /\ pass.links[l] <= conf[l] /\ conf[l] \in 0 .. 100
  BY <1>4 DEF Remembers, LinkingInv, ClaimsInv
<1> DEFINE w == Weakest(pass.reached[r], pass.links[l])
<1>8. w \in 0 .. 100 /\ w <= pass.reached[r] /\ w <= pass.links[l]
  BY <1>7, WeakestOfTwo
<1>9. w <= conf[r] /\ w <= conf[l]
  <2>. HIDE DEF w
  <2>. QED BY <1>7, <1>8, PercentsTransitive
<1>. QED BY <1>3, <1>4, <1>5, <1>6, <1>8, <1>9

LEMMA ReachRunKeeps ==
    ASSUME LinkingInv, NEW p \in Processes, ReachRun(p)
    PROVE  LinkingInv'
<1> DEFINE old == passes[p]
           chains == Chains(DOMAIN old.reached, DOMAIN old.links)
           W(c) == Weakest(old.reached[c[1]], old.links[c[2]])
           Sure(k) == {W(c) : c \in {d \in chains : ClaimOf(d) = k}}
           new == [k \in {ClaimOf(c) : c \in chains} |-> Max(Sure(k))]
           pass == [at |-> "chained", since |-> old.since, sinceClaims |-> old.sinceClaims]
<1>1. /\ old.at = "reach" /\ conf' = Attested(new) /\ facts' = facts /\ Goto(p, pass)
  BY DEF ReachRun
<1>2. passes'[p] = pass
  BY <1>1 DEF Goto, LinkingInv, PassesInv
<1>3. FactsInv'
  BY <1>1 DEF LinkingInv, FactsInv, Objects
<1>4. /\ old.since \subseteq facts /\ old.sinceClaims \subseteq DOMAIN conf
      /\ Remembers(old, old.reached, "function_reached")
      /\ Remembers(old, old.links, "imports_resolved_by")
  BY <1>1 DEF LinkingInv, PassesInv, PassInv
<1>5. ASSUME NEW c \in chains
      PROVE  /\ c[1] = Reached(ClaimOf(c).function, ClaimOf(c).hit)
             /\ c[2] = Link(ClaimOf(c).import, ClaimOf(c).sink)
             /\ c[1] \in DOMAIN conf /\ c[2] \in DOMAIN conf
             /\ W(c) \in 0 .. 100 /\ W(c) <= conf[c[1]] /\ W(c) <= conf[c[2]]
  BY <1>4, ChainedClaims
<1>6. ASSUME NEW k \in DOMAIN new
      PROVE  \E c \in chains : k = ClaimOf(c) /\ new[k] = W(c)
  <2>1. PICK c \in chains : k = ClaimOf(c)
    OBVIOUS
  <2>2. Sure(k) # {} 
    BY <2>1
  <2>3. Sure(k) \subseteq 0 .. 100
    <3>. HIDE DEF chains, W
    <3>. QED BY <1>5
  <2>4. Max(Sure(k)) \in Sure(k)
    <3>. HIDE DEF Sure
    <3>. QED BY <2>2, <2>3, MaxOfPercents
  <2>5. new[k] = Max(Sure(k))
    OBVIOUS
  <2>. HIDE DEF new, chains, W
  <2>. QED BY <2>4, <2>5
<1>7. Grows /\ ClaimsInv' /\ NoStrongerThanItsLinks'
  <2>1. ASSUME NEW k \in DOMAIN new
        PROVE  /\ new[k] \in 0 .. 100 /\ IsClaim(k)'
               /\ Reached(k.function, k.hit) \in DOMAIN conf
               /\ Link(k.import, k.sink) \in DOMAIN conf
               /\ new[k] <= conf[Reached(k.function, k.hit)]
               /\ new[k] <= conf[Link(k.import, k.sink)]
    <3>1. PICK c \in chains : k = ClaimOf(c) /\ new[k] = W(c)
      BY <1>6
    <3>2. k.predicate = "cross_binary_reachable"
      BY <3>1 DEF ClaimOf, Reachable
    <3>. HIDE DEF new, chains, W
    <3>. QED BY <1>5, <3>1, <3>2 DEF IsClaim
  <2>. HIDE DEF new
  <2>. QED BY <1>1, <2>1, RunKeepsClaims
<1>8. ASSUME NEW r \in pass.sinceClaims, NEW l \in pass.sinceClaims, NEW x \in pass.since,
             /\ r.predicate = "function_reached" /\ l.predicate = "imports_resolved_by"
             /\ x.kind = "xref" /\ x.type = "call" /\ x.object = r.function.object
             /\ x.object = l.import.object /\ x.to = l.import.name
             /\ x.from >= r.function.start /\ x.from < EndOf(r.function)
      PROVE  \E k \in ClaimsOf("cross_binary_reachable")' :
                k.function = r.function /\ k.hit = r.hit /\ k.sink = l.provider
  <2>1. r \in DOMAIN old.reached /\ l \in DOMAIN old.links /\ r \in DOMAIN conf /\ l \in DOMAIN conf
    BY <1>4, <1>8 DEF Remembers
  <2>2. /\ r.function \in facts /\ r.function.kind = "function"
        /\ l.import \in facts /\ l.import.kind = "import"
    BY <1>8, <2>1 DEF LinkingInv, ClaimsInv, IsClaim
  <2>3. x \in facts
    BY <1>4
  <2>4. r.function.start \in Nat /\ x.from \in Nat /\ l.import.name # None
    BY <1>8, <2>2, <2>3 DEF LinkingInv, FactsInv, WellFormed
  <2>5. x \in Calls(r.function)
    BY <1>8, <2>3, <2>4 DEF Calls, Rows
  <2>6. <<r, l>> \in chains
    <3> DEFINE called == {y.to : y \in Calls(r.function)}
               met == {m \in DOMAIN old.links :
                        m.import.object = r.function.object /\ m.import.name \in called}
               of(s) == {<<s, m>> : m \in {n \in DOMAIN old.links :
                            n.import.object = s.function.object
                            /\ n.import.name \in {y.to : y \in Calls(s.function)}}}
    <3>1. l.import.name \in called
      BY <1>8, <2>5
    <3>2. l \in met
      BY <1>8, <2>1, <3>1
    <3>3. <<r, l>> \in of(r)
      BY <3>2
    <3>4. chains = UNION {of(s) : s \in DOMAIN old.reached}
      BY DEF Chains
    <3>. HIDE DEF of, chains
    <3>. QED BY <2>1, <3>3, <3>4
  <2> DEFINE k == ClaimOf(<<r, l>>)
  <2>7. /\ k.predicate = "cross_binary_reachable"
        /\ k.function = r.function /\ k.hit = r.hit /\ k.sink = l.provider
    BY DEF ClaimOf, Reachable
  <2>8. k \in DOMAIN new
    BY <2>6
  <2>9. k \in DOMAIN conf'
    BY <1>1, <2>8 DEF Attested
  <2>. HIDE DEF k
  <2>. QED BY <2>7, <2>9 DEF ClaimsOf
<1>9. PassInv(passes[p])' /\ Complete(passes[p])'
  BY <1>2, <1>8 DEF PassInv, Complete
<1>. QED
  <2>. HIDE DEF pass
  <2>. QED BY <1>1, <1>3, <1>7, <1>9, OnePassMoves

-----------------------------------------------------------------------------
(* The theorems *)

LEMMA LinkingStep == LinkingInv /\ [Next]_vars => LinkingInv'
<1>. SUFFICES ASSUME LinkingInv, [Next]_vars
              PROVE  LinkingInv'
  OBVIOUS
<1>1. CASE \E a \in Analyses : Analyse(a)
  BY <1>1, AnalyseKeepsLinking
<1>2. ASSUME NEW p \in Processes, StartLinking(p)
      PROVE  LinkingInv'
  BY <1>2, StartLinkingKeeps
<1>3. ASSUME NEW p \in Processes, ReadExporters(p)
      PROVE  LinkingInv'
  BY <1>3, ReadExportersKeeps
<1>4. ASSUME NEW p \in Processes, LinkRun(p)
      PROVE  LinkingInv'
  BY <1>4, LinkRunKeeps
<1>5. ASSUME NEW p \in Processes, StartReaching(p)
      PROVE  LinkingInv'
  BY <1>5, StartReachingKeeps
<1>6. ASSUME NEW p \in Processes, ReadLinks(p)
      PROVE  LinkingInv'
  BY <1>6, ReadLinksKeeps
<1>7. ASSUME NEW p \in Processes, ReachRun(p)
      PROVE  LinkingInv'
  BY <1>7, ReachRunKeeps
<1>8. ASSUME NEW p \in Processes, End(p)
      PROVE  LinkingInv'
  BY <1>8, EndKeeps
<1>9. CASE UNCHANGED vars
  <2>1. UNCHANGED <<facts, conf, passes>>
    BY <1>9 DEF vars
  <2>2. Grows /\ FactsInv' /\ ClaimsInv' /\ NoStrongerThanItsLinks'
    BY <2>1, QuietStep
  <2>3. \A p \in Processes : PassInv(passes[p])' /\ Complete(passes[p])'
    BY <2>1, <2>2, PassKept
  <2>. QED BY <2>1, <2>2, <2>3 DEF LinkingInv, PassesInv, PassesComplete, Complete
<1>. QED BY <1>1, <1>2, <1>3, <1>4, <1>5, <1>6, <1>7, <1>8, <1>9 DEF Next

\* The invariant above holds of every run of the two passes, whatever the
\* importers and tracers of other processes commit between their reads.
THEOREM LinkingInvariance == Spec => []LinkingInv
<1>1. Init => LinkingInv
  BY InitLinking
<1>2. LinkingInv /\ [Next]_vars => LinkingInv'
  BY LinkingStep
<1>. QED BY <1>1, <1>2, PTL DEF Spec

\* A boundary is never believed to be reached more surely than the function
\* on this side was seen to run, nor than its import is resolved: confidence
\* only grows, and a chain takes the weakest of what its pass remembers.
THEOREM ChainsAreNoStronger == Spec => []NoStrongerThanItsLinks
<1>1. LinkingInv => NoStrongerThanItsLinks
  BY DEF LinkingInv
<1>. QED BY <1>1, LinkingInvariance, PTL

\* link_imports links, and trace_cross_binary_reachability chains, all that
\* was committed before they began, whatever is committed while they run.
THEOREM PassesMissNothing == Spec => []PassesComplete
<1>1. LinkingInv => PassesComplete
  BY DEF LinkingInv
<1>. QED BY <1>1, LinkingInvariance, PTL

\* If several files provide what is imported, one candidate is not all.
LEMMA ManyProvidersManyCandidates ==
    ASSUME LinkingInv, NEW p \in Processes, NEW i,
           passes[p].at = "exporters", passes[p].unread = {},
           Cardinality(Providers(passes[p].since, i)) > 1
    PROVE  Cardinality(Candidates(passes[p], i)) # 1
<1> DEFINE pass == passes[p]
           C == Candidates(pass, i)
           P == Providers(pass.since, i)
<1>. SUFFICES ASSUME Cardinality(C) = 1
              PROVE  FALSE
  OBVIOUS
<1>1. C \subseteq facts /\ IsFiniteSet(facts)
  BY ExportersAreRead DEF Candidates, LinkingInv, FactsInv
<1>2. IsFiniteSet(C)
  BY <1>1, FS_Subset
<1>3. PICK e : C = {e}
  BY <1>2, FS_Singleton
<1>4. P \subseteq {e.object}
  <2>1. ASSUME NEW o \in P
        PROVE  o = e.object
    <3>1. PICK a \in {b \in pass.since : b.kind \in {"export", "symbol"} /\ b.name = i.name} :
                o = a.object /\ o # i.object
      BY DEF Providers
    <3>2. a \in C
      BY <3>1, ExportersAreRead DEF Candidates
    <3>. QED BY <1>3, <3>1, <3>2
  <2>. QED BY <2>1
<1>5. IsFiniteSet({e.object}) /\ Cardinality({e.object}) = 1
  BY FS_Singleton
<1>6. Cardinality(P) <= 1
  BY <1>4, <1>5, FS_Subset
<1>7. Cardinality(P) \in Nat
  BY <1>4, <1>5, FS_Subset, FS_CardinalityType
<1>. QED BY <1>6, <1>7

\* When several files export a name, a link that link_imports records for the
\* first time is hedged below the confidence of a lone match.
THEOREM AmbiguityIsHedged == Spec => AmbiguousLinksAreHedged
<1>1. ASSUME LinkingInv, [Next]_vars, NEW p \in Processes,
             passes[p].at = "exporters", passes'[p].at = "linked",
             NEW k \in DOMAIN conf' \ DOMAIN conf,
             Cardinality(Providers(passes[p].since, k.import)) > 1
      PROVE  conf'[k] < 60
  <2>1. DOMAIN passes = Processes
    BY <1>1 DEF LinkingInv, PassesInv
  <2>2. LinkRun(p)
    <3>1. ASSUME NEW q \in Processes, NEW pass, Goto(q, pass)
          PROVE  q = p /\ pass.at = "linked"
      BY <1>1, <2>1, <3>1 DEF Goto
    <3>2. passes' # passes
      BY <1>1
    <3>3. PICK q \in Processes :
            \/ StartLinking(q) \/ ReadExporters(q) \/ LinkRun(q)
            \/ StartReaching(q) \/ ReadLinks(q) \/ ReachRun(q)
            \/ End(q)
      BY <1>1, <3>2 DEF Next, vars, Analyse
    <3>4. ~ StartLinking(q) /\ ~ StartReaching(q)
      BY <3>1 DEF StartLinking, StartReaching, Start
    <3>5. ~ ReadExporters(q)
      <4>. SUFFICES ASSUME ReadExporters(q)
                    PROVE  FALSE
        OBVIOUS
      <4> DEFINE r == CHOOSE r \in passes[q].unread : TRUE
                 u == passes[q].unread \ {r}
                 e == passes[q].exporters \cup Rows(r[2], r[1])
      <4>1. Goto(q, [passes[q] EXCEPT !.unread = u, !.exporters = e]) /\ passes[q].at = "exporters"
        BY DEF ReadExporters
      <4>2. [passes[q] EXCEPT !.unread = u, !.exporters = e].at = "exporters"
        <5>1. Exporters(passes[q])
          BY <1>1, <4>1 DEF LinkingInv, PassesInv, PassInv
        <5>. HIDE DEF u, e
        <5>. QED BY <5>1, ExceptExporters DEF Exporters
      <4>. HIDE DEF u, e
      <4>. QED BY <3>1, <4>1, <4>2
    <3>6. ~ ReadLinks(q) /\ ~ ReachRun(q) /\ ~ End(q)
      BY <3>1 DEF ReadLinks, ReachRun, End, Idle
    <3>7. LinkRun(q)
      BY <3>3, <3>4, <3>5, <3>6
    <3>8. q = p
      BY <3>1, <3>7 DEF LinkRun
    <3>. QED BY <3>7, <3>8
  <2> DEFINE new == Resolved(passes[p])
  <2>3. conf' = Attested(new) /\ passes[p].unread = {}
    BY <2>2 DEF LinkRun
  <2>4. \A j \in DOMAIN conf : conf[j] \in 0 .. 100
    BY <1>1 DEF LinkingInv, ClaimsInv
  <2>5. \A j \in DOMAIN new : new[j] = Confidence(Candidates(passes[p], j.import))
    BY ResolvedLinks
  <2>6. \A j \in DOMAIN new : new[j] \in 0 .. 100
    BY <2>5 DEF Confidence
  <2>7. k \in DOMAIN new /\ conf'[k] = new[k]
    <3>. HIDE DEF new
    <3>1. /\ k \in DOMAIN Attested(new) /\ k \notin DOMAIN conf
          /\ conf'[k] = Attested(new)[k]
      BY <1>1, <2>3
    <3>2. \/ k \in DOMAIN conf /\ Attested(new)[k] = conf[k]
          \/ k \in DOMAIN new /\ Attested(new)[k] = new[k]
      BY <2>4, <2>6, <3>1, AttestedGrows
    <3>. QED BY <3>1, <3>2
  <2>8. Cardinality(Candidates(passes[p], k.import)) # 1
    BY <1>1, <2>3, ManyProvidersManyCandidates
  <2>9. new[k] = 48
    BY <2>5, <2>7, <2>8 DEF Confidence
  <2>. QED BY <2>7, <2>9
<1>2. LinkingInv /\ [Next]_vars =>
        [\A p \in Processes :
            passes[p].at = "exporters" /\ passes'[p].at = "linked" =>
                \A k \in DOMAIN conf' \ DOMAIN conf :
                    Cardinality(Providers(passes[p].since, k.import)) > 1 => conf'[k] < 60]_vars
  BY <1>1
<1>. QED BY <1>2, LinkingInvariance, PTL DEF AmbiguousLinksAreHedged, Spec

-----------------------------------------------------------------------------
(* CAMPAIGNS AND COMPONENT DIFFS *)

\* No set of projects that the edges do not leave parts them.
Same(edges, p, q) ==
    \A S \in SUBSET Projects : Closed(edges, S) => (p \in S <=> q \in S)

IsForest(top, rank) ==
    /\ top \in [Projects -> Projects] /\ rank \in [Projects -> Nat]
    /\ \A p \in Projects :
        /\ top[parent[p]] = top[p]
        /\ parent[top[p]] = top[p]
        /\ parent[p] = p => top[p] = p
        /\ parent[p] # p => rank[p] < rank[parent[p]]

Spans(edges, top) == \A p \in Projects : Same(edges, top[p], p)

Pending(e, top) ==
    walk # << >> /\ top[walk[1]] = top[e[1]] /\ top[walk[2]] = top[e[2]]

\* While pairs are compared, at most one edge waits for its roots.
ComparingInv ==
    /\ walk = << >> \/ walk \in [1 .. 2 -> Projects]
    /\ \E top \in [Projects -> Projects], rank \in [Projects -> Nat] :
        /\ IsForest(top, rank)
        /\ Spans(job.edges, top)
        /\ \A e \in job.edges : top[e[1]] = top[e[2]] \/ Pending(e, top)
        /\ walk # << >> => \E e \in job.edges : Pending(e, top)

\* The walks of groups stay in the trees of the labels they began at.
GroupingInv ==
    /\ walk \in [DOMAIN Labels -> Projects]
    /\ \E top \in [Projects -> Projects], rank \in [Projects -> Nat] :
        /\ IsForest(top, rank)
        /\ Spans(job.edges, top)
        /\ \A e \in job.edges : top[e[1]] = top[e[2]]
        /\ \A i \in DOMAIN Labels : top[walk[i]] = top[Labels[i]]

\* The reason for an edge.
Stands(e) ==
    \/ files[e[1]] \cap files[e[2]] # {}
    \/ Cardinality(Fingerprint(embeds[e[1]]) \cap Fingerprint(embeds[e[2]])) >= MinShared

EdgesInv == job.edges \subseteq Projects \X Projects /\ \A e \in job.edges : Stands(e)

\* What was read is still there.
ReadInv ==
    /\ DOMAIN job.digests = Projects /\ DOMAIN job.fingerprints = Projects
    /\ \A p \in Projects :
        job.digests[p] \subseteq files[p] /\ job.fingerprints[p] \subseteq Fingerprint(embeds[p])

ChangeFounded(c, baseline, target) ==
    /\ c.from \subseteq Versions(embeds[baseline], c.component)
    /\ c.to \subseteq Versions(embeds[target], c.component)
    /\ c.from # c.to

JobInv ==
    /\ job.at \in {"idle", "load", "compare", "group", "grouped", "diff", "record"}
    /\ job.at \notin {"compare", "group"} => walk = << >>
    /\ job.at = "load" =>
        /\ DOMAIN job = {"at", "read", "digests", "fingerprints"}
        /\ job.read \in Nat /\ ReadInv
        /\ parent = [p \in Projects |-> p]
    /\ job.at = "compare" =>
        /\ DOMAIN job = {"at", "digests", "fingerprints", "pair", "edges"}
        /\ job.pair \in Nat \X Nat /\ 0 < job.pair[1] /\ job.pair[1] < job.pair[2]
        /\ ReadInv /\ EdgesInv /\ ComparingInv
    /\ job.at = "group" => EdgesInv /\ GroupingInv
    /\ job.at = "grouped" => EdgesInv
    /\ job.at = "diff" =>
        /\ {job.baseline, job.target} \subseteq Projects
        /\ job.before \subseteq embeds[job.baseline]
    /\ job.at = "record" =>
        /\ {job.baseline, job.target} \subseteq Projects
        /\ \A c \in job.changed : ChangeFounded(c, job.baseline, job.target)

ProjectsInv ==
    /\ DOMAIN files = Projects /\ DOMAIN embeds = Projects /\ DOMAIN changes = Projects
    /\ \A p \in Projects : IsFiniteSet(embeds[p])
    /\ \A t \in Projects : \A c \in changes[t] : c.baseline \in Projects

FleetInv ==
    /\ parent \in [Projects -> Projects]
    /\ ProjectsInv
    /\ JobInv
    /\ CampaignsAreComponents
    /\ ChangesAreFounded

-----------------------------------------------------------------------------
(* Sets that the edges do not leave *)

LEMMA SameIsEquivalence ==
    ASSUME NEW edges
    PROVE  /\ \A p : Same(edges, p, p)
           /\ \A p, q : Same(edges, p, q) => Same(edges, q, p)
           /\ \A p, q, r : Same(edges, p, q) /\ Same(edges, q, r) => Same(edges, p, r)
BY DEF Same

\* What more edges connect, they leave connected.
LEMMA SameOfMore ==
    ASSUME NEW edges, NEW e, NEW p, NEW q, Same(edges, p, q)
    PROVE  Same(edges \cup {e}, p, q)
BY DEF Same, Closed

LEMMA SameOfEdge ==
    ASSUME NEW edges, NEW e \in edges
    PROVE  Same(edges, e[1], e[2])
BY DEF Same, Closed

\* The set of what is not in it is not left either, so a chain of edges can be
\* followed both ways.
LEMMA ConnectedIsSame ==
    ASSUME NEW edges \in SUBSET (Projects \X Projects), NEW p \in Projects, NEW q \in Projects
    PROVE  q \in Connected(edges)[p] <=> Same(edges, p, q)
<1>1. ASSUME q \in Connected(edges)[p], NEW S \in SUBSET Projects, Closed(edges, S)
      PROVE  p \in S <=> q \in S
  <2>1. p \in S => q \in S
    BY <1>1 DEF Connected
  <2>2. Closed(edges, Projects \ S)
    <3>1. \A e \in edges : e[1] \in Projects /\ e[2] \in Projects
      OBVIOUS
    <3>. QED BY <1>1, <3>1 DEF Closed
  <2>3. p \in Projects \ S => q \in Projects \ S
    BY <1>1, <2>2 DEF Connected
  <2>. QED BY <2>1, <2>3
<1>2. Same(edges, p, q) => q \in Connected(edges)[p]
  BY DEF Same, Connected
<1>. QED BY <1>1, <1>2 DEF Same

-----------------------------------------------------------------------------
(* The forest *)

LEMMA EveryoneARoot ==
    ASSUME parent = [p \in Projects |-> p]
    PROVE  IsForest([p \in Projects |-> p], [p \in Projects |-> 0])
BY DEF IsForest

\* Path halving leaves every project in its tree.
LEMMA HalvingKeepsForest ==
    ASSUME parent \in [Projects -> Projects], NEW top, NEW rank, IsForest(top, rank),
           NEW l \in Projects, parent[l] # l,
           parent' = [parent EXCEPT ![l] = parent[parent[l]]]
    PROVE  IsForest(top, rank)'
<1> DEFINE g == parent[parent[l]]
<1>1. /\ parent[l] \in Projects /\ g \in Projects
      /\ parent'[l] = g /\ \A p \in Projects \ {l} : parent'[p] = parent[p]
  OBVIOUS
<1>2. top[g] = top[l]
  BY <1>1 DEF IsForest
<1>3. rank[l] < rank[g]
  <2>1. /\ rank[l] \in Nat /\ rank[parent[l]] \in Nat /\ rank[g] \in Nat
        /\ rank[l] < rank[parent[l]]
        /\ g # parent[l] => rank[parent[l]] < rank[g]
    BY <1>1 DEF IsForest
  <2>. HIDE DEF g
  <2>. QED BY <2>1
<1>4. g # l
  BY <1>3, <1>1 DEF IsForest
<1>5. \A p \in Projects : top[p] # l
  BY DEF IsForest
<1>. HIDE DEF g
<1>6. ASSUME NEW p \in Projects
      PROVE  /\ top[parent'[p]] = top[p]
             /\ parent'[top[p]] = top[p]
             /\ parent'[p] = p => top[p] = p
             /\ parent'[p] # p => rank[p] < rank[parent'[p]]
  BY <1>1, <1>2, <1>3, <1>4, <1>5 DEF IsForest
<1>. QED BY <1>6 DEF IsForest

\* union hangs one root below another: the other's tree is raised above it.
LEMMA UnitingKeepsForest ==
    ASSUME parent \in [Projects -> Projects], NEW top, NEW rank, IsForest(top, rank),
           NEW a \in Projects, NEW b \in Projects, a # b, parent[a] = a, parent[b] = b,
           parent' = [parent EXCEPT ![b] = a]
    PROVE  \E rank2 : IsForest([p \in Projects |-> IF top[p] = b THEN a ELSE top[p]], rank2)'
<1> DEFINE top2 == [p \in Projects |-> IF top[p] = b THEN a ELSE top[p]]
           rank2 == [p \in Projects |-> IF top[p] = a THEN rank[p] + rank[b] + 1 ELSE rank[p]]
<1>1. top[a] = a /\ top[b] = b
  BY DEF IsForest
<1>2. top2 \in [Projects -> Projects] /\ rank2 \in [Projects -> Nat]
  BY DEF IsForest
<1>3. parent'[b] = a /\ \A p \in Projects \ {b} : parent'[p] = parent[p]
  OBVIOUS
<1>4. ASSUME NEW p \in Projects
      PROVE  /\ top2[parent'[p]] = top2[p]
             /\ parent'[top2[p]] = top2[p]
             /\ parent'[p] = p => top2[p] = p
             /\ parent'[p] # p => rank2[p] < rank2[parent'[p]]
  <2>1. top[p] \in Projects /\ parent[p] \in Projects
    BY DEF IsForest
  <2>2. top2[parent'[p]] = top2[p]
    BY <1>1, <1>3, <2>1 DEF IsForest
  <2>3. parent'[top2[p]] = top2[p]
    BY <1>1, <1>3, <2>1 DEF IsForest
  <2>4. parent'[p] = p => top2[p] = p
    BY <1>1, <1>3, <2>1 DEF IsForest
  <2>5. ASSUME parent'[p] # p
        PROVE  rank2[p] < rank2[parent'[p]]
    <3>1. CASE p = b
      BY <1>1, <1>3, <3>1 DEF IsForest
    <3>2. CASE p # b
      <4>1. top[parent[p]] = top[p] /\ rank[p] < rank[parent[p]] /\ parent'[p] = parent[p]
        BY <1>3, <2>5, <3>2 DEF IsForest
      <4>2. rank[p] \in Nat /\ rank[parent[p]] \in Nat /\ rank[b] \in Nat
        BY <2>1 DEF IsForest
      <4>. QED BY <2>1, <4>1, <4>2
    <3>. QED BY <3>1, <3>2
  <2>. QED BY <2>2, <2>3, <2>4, <2>5
<1>. HIDE DEF top2, rank2
<1>5. IsForest(top2, rank2)'
  BY <1>2, <1>4 DEF IsForest
<1>. QED BY <1>5 DEF top2

\* When no edge waits, the trees are what the edges connect.
LEMMA TreesAreComponents ==
    ASSUME NEW top, NEW rank, IsForest(top, rank), NEW edges \in SUBSET (Projects \X Projects),
           Spans(edges, top), \A e \in edges : top[e[1]] = top[e[2]],
           NEW p \in Projects, NEW q \in Projects
    PROVE  top[p] = top[q] <=> Same(edges, p, q)
<1>1. top[p] = top[q] => Same(edges, p, q)
  BY SameIsEquivalence DEF Spans
<1>2. ASSUME Same(edges, p, q)
      PROVE  top[p] = top[q]
  <2> DEFINE S == {x \in Projects : top[x] = top[p]}
  <2>1. Closed(edges, S)
    <3>1. \A e \in edges : e[1] \in Projects /\ e[2] \in Projects
      OBVIOUS
    <3>. QED BY <3>1 DEF Closed
  <2>2. S \in SUBSET Projects /\ p \in S
    OBVIOUS
  <2>. QED BY <1>2, <2>1, <2>2 DEF Same
<1>. QED BY <1>1, <1>2

-----------------------------------------------------------------------------
(* The projects *)

LEMMA InitFleet == FleetInit => FleetInv
<1>. SUFFICES ASSUME FleetInit
              PROVE  FleetInv
  OBVIOUS
<1>1. parent \in [Projects -> Projects]
  BY DEF FleetInit
<1>2. ProjectsInv
  BY FS_EmptySet DEF FleetInit, ProjectsInv
<1>3. job.at = "idle" /\ walk = << >>
  BY DEF FleetInit, NoJob
<1>4. JobInv /\ CampaignsAreComponents
  BY <1>3 DEF JobInv, CampaignsAreComponents
<1>5. ChangesAreFounded
  BY DEF FleetInit, ChangesAreFounded
<1>. QED BY <1>1, <1>2, <1>4, <1>5 DEF FleetInv

LEMMA MoreIsThere ==
    ASSUME NEW old, NEW new, old \subseteq new, IsFiniteSet(new)
    PROVE  /\ Fingerprint(old) \subseteq Fingerprint(new)
           /\ IsFiniteSet(Fingerprint(new))
           /\ \A c : Versions(old, c) \subseteq Versions(new, c)
<1>1. Fingerprint(old) \subseteq Fingerprint(new)
  BY DEF Fingerprint
<1>2. IsFiniteSet(Fingerprint(new))
  <2> DEFINE known == {c \in new : c.version # Unknown}
  <2>1. IsFiniteSet(known)
    BY FS_Subset
  <2>2. IsFiniteSet({<<k.component, k.version>> : k \in known})
    <3> DEFINE pairs == {<<k.component, k.version>> : k \in known}
               f == [k \in known |-> <<k.component, k.version>>]
    <3>. HIDE DEF known
    <3>1. f \in Surjection(known, pairs)
      BY DEF Surjection
    <3>. QED BY <2>1, <3>1, FS_Surjection
  <2>. QED BY <2>2 DEF Fingerprint
<1>3. \A c : Versions(old, c) \subseteq Versions(new, c)
  BY DEF Versions
<1>. QED BY <1>1, <1>2, <1>3

\* What other processes commit takes nothing away.
Grown ==
    /\ DOMAIN files' = Projects /\ DOMAIN embeds' = Projects
    /\ \A p \in Projects :
        /\ files[p] \subseteq files'[p] /\ embeds[p] \subseteq embeds'[p]
        /\ IsFiniteSet(embeds'[p])

LEMMA StandsStill ==
    ASSUME Grown, NEW e \in Projects \X Projects, Stands(e)
    PROVE  Stands(e)'
<1>1. e[1] \in Projects /\ e[2] \in Projects
  OBVIOUS
<1>2. files[e[1]] \cap files[e[2]] # {} => files'[e[1]] \cap files'[e[2]] # {}
  BY <1>1 DEF Grown
<1> DEFINE F(m, n) == Fingerprint(m) \cap Fingerprint(n)
           old == F(embeds[e[1]], embeds[e[2]])
           new == F(embeds'[e[1]], embeds'[e[2]])
<1>3. old \subseteq new
  BY <1>1, MoreIsThere DEF Grown
<1>4. IsFiniteSet(new)
  <2>1. IsFiniteSet(Fingerprint(embeds'[e[1]]))
    BY <1>1, MoreIsThere DEF Grown
  <2>. QED BY <2>1, FS_Subset
<1>5. Cardinality(old) <= Cardinality(new) /\ Cardinality(old) \in Nat /\ Cardinality(new) \in Nat
  BY <1>3, <1>4, FS_Subset, FS_CardinalityType
<1>6. Cardinality(old) >= MinShared => Cardinality(new) >= MinShared
  <2>. HIDE DEF old, new
  <2>. QED BY <1>5, FleetAssumption
<1>. QED BY <1>2, <1>6 DEF Stands

\* The forest is that of the job.
LEMMA TreesStand ==
    ASSUME UNCHANGED <<job, parent, walk>>
    PROVE  (ComparingInv => ComparingInv') /\ (GroupingInv => GroupingInv')
<1>1. \A top \in [Projects -> Projects], rank \in [Projects -> Nat] :
        IsForest(top, rank) => IsForest(top, rank)'
  BY DEF IsForest
<1>2. \A top, e : Pending(e, top) => Pending(e, top)'
  BY DEF Pending
<1>3. ComparingInv => ComparingInv'
  BY <1>1, <1>2 DEF ComparingInv
<1>4. GroupingInv => GroupingInv'
  BY <1>1 DEF GroupingInv
<1>. QED BY <1>3, <1>4

LEMMA AnalyseKeepsFleet ==
    ASSUME FleetInv, NEW p \in Projects, NEW f \in Finds, AnalyseProject(p, f)
    PROVE  FleetInv'
<1>1. UNCHANGED <<changes, job, parent, walk>>
  BY DEF AnalyseProject
<1>2. Grown
  <2>1. CASE "file" \in DOMAIN f
    BY <2>1 DEF AnalyseProject, FleetInv, ProjectsInv, Grown
  <2>2. CASE "file" \notin DOMAIN f
    <3>1. embeds' = [embeds EXCEPT ![p] = @ \cup {f}] /\ files' = files
      BY <2>2 DEF AnalyseProject
    <3>2. IsFiniteSet(embeds[p] \cup {f})
      BY FS_AddElement DEF FleetInv, ProjectsInv
    <3>. QED BY <3>1, <3>2 DEF FleetInv, ProjectsInv, Grown
  <2>. QED BY <2>1, <2>2
<1>3. ProjectsInv'
  BY <1>1, <1>2 DEF FleetInv, ProjectsInv, Grown
<1>4. \A q \in Projects :
        /\ Fingerprint(embeds[q]) \subseteq Fingerprint(embeds'[q])
        /\ \A c : Versions(embeds[q], c) \subseteq Versions(embeds'[q], c)
  BY <1>2, MoreIsThere DEF Grown
<1>5. ReadInv => ReadInv'
  BY <1>1, <1>2, <1>4 DEF ReadInv, Grown
<1>6. EdgesInv => EdgesInv'
  BY <1>1, <1>2, StandsStill DEF EdgesInv
<1>7. (ComparingInv => ComparingInv') /\ (GroupingInv => GroupingInv')
  BY <1>1, TreesStand
<1>8. ASSUME NEW c, NEW b \in Projects, NEW t \in Projects, ChangeFounded(c, b, t)
      PROVE  ChangeFounded(c, b, t)'
  BY <1>4, <1>8 DEF ChangeFounded
<1>9. JobInv'
  <2>. USE <1>1 DEF FleetInv, JobInv
  <2>1. job.at = "load" => (job.read \in Nat /\ ReadInv /\ parent = [q \in Projects |-> q])'
    BY <1>5
  <2>2. job.at = "compare" => (ReadInv /\ EdgesInv /\ ComparingInv)'
    BY <1>5, <1>6, <1>7
  <2>3. job.at = "group" => (EdgesInv /\ GroupingInv)'
    BY <1>6, <1>7
  <2>4. job.at = "grouped" => EdgesInv'
    BY <1>6
  <2>5. job.at = "diff" => job.before \subseteq embeds'[job.baseline]
    BY <1>2 DEF Grown
  <2>6. job.at = "record" => \A c \in job.changed : ChangeFounded(c, job.baseline, job.target)'
    BY <1>8
  <2>. QED BY <2>1, <2>2, <2>3, <2>4, <2>5, <2>6
<1>10. CampaignsAreComponents'
  BY <1>1 DEF FleetInv, CampaignsAreComponents
<1>11. ChangesAreFounded'
  <2>1. ASSUME NEW t \in Projects, NEW c \in changes[t]
        PROVE  /\ c.from \subseteq Versions(embeds'[c.baseline], c.component)
               /\ c.to \subseteq Versions(embeds'[t], c.component)
               /\ c.from # c.to
               /\ \E k \in embeds'[t] : k.component = c.component /\ k.artifact = c.artifact
    <3>1. c.baseline \in Projects
      BY DEF FleetInv, ProjectsInv
    <3>. QED BY <1>2, <1>4, <3>1 DEF Grown, FleetInv, ChangesAreFounded
  <2>. QED BY <1>1, <2>1 DEF ChangesAreFounded
<1>. QED BY <1>1, <1>3, <1>9, <1>10, <1>11 DEF FleetInv

\* A step of a job that writes to no project.
LEMMA JobMoves ==
    ASSUME FleetInv, UNCHANGED fleet, parent' \in [Projects -> Projects],
           JobInv', CampaignsAreComponents'
    PROVE  FleetInv'
BY DEF FleetInv, fleet, ProjectsInv, ChangesAreFounded

-----------------------------------------------------------------------------
(* The correlation *)

LEMMA StartCorrelationKeeps ==
    ASSUME FleetInv, StartCorrelation
    PROVE  FleetInv'
<1>1. /\ job' = [at |-> "load", read |-> 0,
                 digests |-> [p \in Projects |-> {}], fingerprints |-> [p \in Projects |-> {}]]
      /\ parent' = [p \in Projects |-> p] /\ walk' = << >> /\ UNCHANGED fleet
  BY DEF StartCorrelation
<1>2. job'.at = "load" /\ DOMAIN job' = {"at", "read", "digests", "fingerprints"}
      /\ job'.read = 0 /\ ReadInv'
  BY <1>1 DEF ReadInv
<1>3. JobInv' /\ CampaignsAreComponents'
  BY <1>1, <1>2 DEF JobInv, CampaignsAreComponents
<1>. QED BY <1>1, <1>3, JobMoves

LEMMA ReadProjectKeeps ==
    ASSUME FleetInv, ReadProject
    PROVE  FleetInv'
<1>1. /\ job.at = "load" /\ job.read \in Nat /\ ReadInv
      /\ DOMAIN job = {"at", "read", "digests", "fingerprints"}
      /\ parent = [p \in Projects |-> p] /\ walk = << >>
      /\ UNCHANGED <<parent, walk>> /\ UNCHANGED fleet
  BY DEF ReadProject, FleetInv, JobInv
<1>2. /\ job'.at = "load" /\ DOMAIN job' = {"at", "read", "digests", "fingerprints"}
      /\ job'.read \in Nat /\ ReadInv'
  <2> DEFINE read == job.read + 1
  <2>1. CASE job.read < Len(Labels)
    <3> DEFINE p == Labels[job.read + 1]
               digests == [job.digests EXCEPT ![p] = files[p]]
    <3>1. job' = [job EXCEPT !.read = read, !.digests = digests]
      BY <2>1 DEF ReadProject
    <3>2. DOMAIN digests = Projects /\ \A q \in Projects : digests[q] \subseteq files[q]
      BY <1>1 DEF ReadInv
    <3>3. read \in Nat
      BY <1>1
    <3>. HIDE DEF digests, read
    <3>4. /\ DOMAIN job' = DOMAIN job /\ job'.at = job.at /\ job'.read = read
          /\ job'.digests = digests /\ job'.fingerprints = job.fingerprints
      BY <1>1, <3>1
    <3>. QED BY <1>1, <3>2, <3>3, <3>4 DEF ReadInv, fleet
  <2>2. CASE ~ (job.read < Len(Labels))
    <3> DEFINE p == Labels[job.read - Len(Labels) + 1]
               fingerprints == [job.fingerprints EXCEPT ![p] = Fingerprint(embeds[p])]
    <3>1. job' = [job EXCEPT !.read = read, !.fingerprints = fingerprints]
      BY <2>2 DEF ReadProject
    <3>2. DOMAIN fingerprints = Projects
          /\ \A q \in Projects : fingerprints[q] \subseteq Fingerprint(embeds[q])
      BY <1>1 DEF ReadInv
    <3>3. read \in Nat
      BY <1>1
    <3>. HIDE DEF fingerprints, read
    <3>4. /\ DOMAIN job' = DOMAIN job /\ job'.at = job.at /\ job'.read = read
          /\ job'.fingerprints = fingerprints /\ job'.digests = job.digests
      BY <1>1, <3>1
    <3>. QED BY <1>1, <3>2, <3>3, <3>4 DEF ReadInv, fleet
  <2>. QED BY <2>1, <2>2
<1>3. JobInv' /\ CampaignsAreComponents'
  BY <1>1, <1>2 DEF JobInv, CampaignsAreComponents
<1>. QED BY <1>1, <1>3, JobMoves DEF FleetInv

LEMMA StartComparingKeeps ==
    ASSUME FleetInv, StartComparing
    PROVE  FleetInv'
<1>1. /\ job.at = "load" /\ ReadInv /\ parent = [p \in Projects |-> p] /\ walk = << >>
      /\ job' = [at |-> "compare", digests |-> job.digests,
                 fingerprints |-> job.fingerprints, pair |-> <<1, 2>>, edges |-> {}]
      /\ UNCHANGED <<parent, walk>> /\ UNCHANGED fleet
  BY DEF StartComparing, FirstPair, FleetInv, JobInv
<1>2. /\ job'.at = "compare" /\ job'.pair = <<1, 2>> /\ job'.edges = {}
      /\ DOMAIN job' = {"at", "digests", "fingerprints", "pair", "edges"}
      /\ job'.digests = job.digests /\ job'.fingerprints = job.fingerprints
  BY <1>1
<1>3. ReadInv' /\ EdgesInv'
  BY <1>1, <1>2 DEF ReadInv, EdgesInv, fleet
<1>4. ComparingInv'
  <2> DEFINE top == [p \in Projects |-> p]
             rank == [p \in Projects |-> 0]
  <2>1. IsForest(top, rank)'
    BY <1>1, EveryoneARoot DEF IsForest
  <2>2. Spans({}, top)
    BY SameIsEquivalence DEF Spans
  <2>3. top \in [Projects -> Projects] /\ rank \in [Projects -> Nat]
    OBVIOUS
  <2>. HIDE DEF top, rank
  <2>. QED BY <1>1, <1>2, <2>1, <2>2, <2>3 DEF ComparingInv
<1>5. JobInv' /\ CampaignsAreComponents'
  BY <1>1, <1>2, <1>3, <1>4 DEF JobInv, CampaignsAreComponents
<1>. QED BY <1>1, <1>5, JobMoves DEF FleetInv

\* What two projects share of what was read, they share now.
LEMMA RelatedStands ==
    ASSUME FleetInv, ReadInv, NEW l \in Projects, NEW r \in Projects, Related(l, r)
    PROVE  Stands(<<l, r>>)
<1>1. SharedFiles(l, r) \subseteq files[l] \cap files[r]
  BY DEF ReadInv, SharedFiles
<1> DEFINE old == SharedComponents(l, r)
           new == Fingerprint(embeds[l]) \cap Fingerprint(embeds[r])
<1>2. old \subseteq new
  BY DEF ReadInv, SharedComponents
<1>3. IsFiniteSet(new)
  <2>1. IsFiniteSet(Fingerprint(embeds[l]))
    BY MoreIsThere DEF FleetInv, ProjectsInv
  <2>. QED BY <2>1, FS_Subset
<1>4. Cardinality(old) <= Cardinality(new) /\ Cardinality(old) \in Nat /\ Cardinality(new) \in Nat
  BY <1>2, <1>3, FS_Subset, FS_CardinalityType
<1>5. Cardinality(old) >= MinShared => Cardinality(new) >= MinShared
  <2>. HIDE DEF old, new
  <2>. QED BY <1>4, FleetAssumption
<1> DEFINE e == <<l, r>>
<1>6. e[1] = l /\ e[2] = r
  OBVIOUS
<1>7. \/ files[l] \cap files[r] # {}
      \/ Cardinality(new) >= MinShared
  BY <1>1, <1>5 DEF Related
<1>. HIDE DEF e
<1>8. Stands(e)
  BY <1>6, <1>7 DEF Stands
<1>. QED BY <1>8 DEF e

LEMMA NextPairInOrder ==
    ASSUME NEW pair \in Nat \X Nat, 0 < pair[1], pair[1] < pair[2]
    PROVE  /\ NextPair(pair) \in Nat \X Nat
           /\ 0 < NextPair(pair)[1] /\ NextPair(pair)[1] < NextPair(pair)[2]
<1>1. pair[1] \in Nat /\ pair[2] \in Nat /\ Len(Labels) \in Nat
  BY FleetAssumption
<1>. QED BY <1>1 DEF NextPair

LEMMA CompareKeeps ==
    ASSUME FleetInv, Compare
    PROVE  FleetInv'
<1>1. /\ job.at = "compare" /\ walk = << >> /\ PairLeft
      /\ DOMAIN job = {"at", "digests", "fingerprints", "pair", "edges"}
      /\ job.pair \in Nat \X Nat /\ 0 < job.pair[1] /\ job.pair[1] < job.pair[2]
      /\ ReadInv /\ EdgesInv /\ ComparingInv
      /\ UNCHANGED parent /\ UNCHANGED fleet
  BY DEF Compare, FleetInv, JobInv
<1> PICK l, r : l = Labels[job.pair[1]] /\ r = Labels[job.pair[2]]
  OBVIOUS
<1> DEFINE pair == NextPair(job.pair)
           edges == job.edges \cup {<<l, r>>}
<1>2. l \in Projects /\ r \in Projects
  <2>1. job.pair[1] \in 1 .. Len(Labels) /\ job.pair[2] \in 1 .. Len(Labels)
    BY <1>1, FleetAssumption DEF PairLeft
  <2>. QED BY <2>1, FleetAssumption
<1>3. pair \in Nat \X Nat /\ 0 < pair[1] /\ pair[1] < pair[2]
  BY <1>1, NextPairInOrder
<1>4. PICK top \in [Projects -> Projects], rank \in [Projects -> Nat] :
        /\ IsForest(top, rank) /\ Spans(job.edges, top)
        /\ \A e \in job.edges : top[e[1]] = top[e[2]] \/ Pending(e, top)
  BY <1>1 DEF ComparingInv
<1>5. /\ IsForest(top, rank)'
      /\ \A e \in job.edges : top[e[1]] = top[e[2]]
  BY <1>1, <1>4 DEF IsForest, Pending
<1>6. CASE Related(l, r)
  <2>1. job' = [job EXCEPT !.pair = pair, !.edges = edges] /\ walk' = <<l, r>>
    BY <1>6 DEF Compare
  <2>2. Stands(<<l, r>>)
    BY <1>1, <1>2, <1>6, RelatedStands
  <2>. HIDE DEF pair
  <2>3. /\ DOMAIN job' = DOMAIN job /\ job'.at = job.at /\ job'.pair = pair /\ job'.edges = edges
        /\ job'.digests = job.digests /\ job'.fingerprints = job.fingerprints
    <3>. HIDE DEF edges
    <3>. QED BY <1>1, <2>1
  <2>4. ReadInv'
    BY <1>1, <2>3 DEF ReadInv, fleet
  <2>5. EdgesInv'
    <3>1. edges \subseteq Projects \X Projects
      BY <1>1, <1>2 DEF EdgesInv
    <3>2. \A e \in edges : Stands(e)
      BY <1>1, <2>2 DEF EdgesInv
    <3>. HIDE DEF edges
    <3>. QED BY <1>1, <2>3, <3>1, <3>2 DEF EdgesInv, Stands, fleet
  <2>6. ComparingInv'
    <3> DEFINE e0 == <<l, r>>
    <3>1. walk'[1] = l /\ walk'[2] = r /\ walk' \in [1 .. 2 -> Projects] /\ walk' # << >>
      BY <1>2, <2>1
    <3>2. e0[1] = l /\ e0[2] = r
      OBVIOUS
    <3>3. edges = job.edges \cup {e0}
      OBVIOUS
    <3>. HIDE DEF e0, edges
    <3>4. Spans(edges, top)
      BY <1>4, <3>3, SameOfMore DEF Spans
    <3>5. Pending(e0, top)'
      BY <3>1, <3>2 DEF Pending
    <3>6. \A e \in edges : top[e[1]] = top[e[2]] \/ Pending(e, top)'
      BY <1>5, <3>3, <3>5
    <3>7. \E e \in edges : Pending(e, top)'
      BY <3>3, <3>5
    <3>8. /\ IsForest(top, rank)' /\ Spans(job'.edges, top)
          /\ \A e \in job'.edges : top[e[1]] = top[e[2]] \/ Pending(e, top)'
          /\ walk' # << >> => \E e \in job'.edges : Pending(e, top)'
      BY <1>5, <2>3, <3>4, <3>6, <3>7
    <3>. QED BY <3>1, <3>8 DEF ComparingInv, IsForest
  <2>7. JobInv' /\ CampaignsAreComponents'
    BY <1>1, <1>3, <2>3, <2>4, <2>5, <2>6 DEF JobInv, CampaignsAreComponents
  <2>. QED BY <1>1, <2>7, JobMoves DEF FleetInv
<1>7. CASE ~ Related(l, r)
  <2>1. job' = [job EXCEPT !.pair = pair] /\ UNCHANGED walk
    BY <1>7 DEF Compare
  <2>. HIDE DEF pair
  <2>2. /\ DOMAIN job' = DOMAIN job /\ job'.at = job.at /\ job'.pair = pair /\ job'.edges = job.edges
        /\ job'.digests = job.digests /\ job'.fingerprints = job.fingerprints
    BY <1>1, <2>1
  <2>3. ReadInv' /\ EdgesInv'
    BY <1>1, <2>2 DEF ReadInv, EdgesInv, Stands, fleet
  <2>4. ComparingInv'
    BY <1>1, <1>4, <1>5, <2>1, <2>2 DEF ComparingInv, Pending
  <2>5. JobInv' /\ CampaignsAreComponents'
    BY <1>1, <1>3, <2>2, <2>3, <2>4 DEF JobInv, CampaignsAreComponents
  <2>. QED BY <1>1, <2>5, JobMoves DEF FleetInv
<1>. QED BY <1>6, <1>7

LEMMA FirstOfNaturals ==
    ASSUME NEW S, S \subseteq Nat, S # {}
    PROVE  \E i \in S : \A j \in S : i <= j
<1> DEFINE R == {ij \in Nat \X Nat : ij[1] < ij[2]}
<1>1. IsWellFoundedOn(R, Nat)
  BY NatLessThanWellFounded DEF OpToRel
<1>2. PICK i \in S : \A j \in S : <<j, i>> \notin R
  <2>. HIDE DEF R
  <2>. QED BY <1>1, WFMin
<1>3. ASSUME NEW j \in S
      PROVE  i <= j
  <2>1. i \in Nat /\ j \in Nat
    OBVIOUS
  <2>2. j < i => <<j, i>> \in R
    BY <2>1
  <2>3. ~ (j < i)
    BY <1>2, <2>2
  <2>. QED BY <2>1, <2>3
<1>. QED BY <1>3

LEMMA OneWalkMoves ==
    ASSUME NEW D, NEW f \in [D -> Projects], NEW i \in D, NEW p \in Projects
    PROVE  [f EXCEPT ![i] = p] \in [D -> Projects]
OBVIOUS

LEMMA FindStepKeeps ==
    ASSUME FleetInv, FindStep
    PROVE  FleetInv'
<1>1. /\ job.at \in {"compare", "group"} /\ walk # << >> /\ Walking # {}
      /\ parent \in [Projects -> Projects] /\ UNCHANGED job /\ UNCHANGED fleet
  BY DEF FindStep, FleetInv, JobInv
<1>2. /\ job.at = "compare" => walk \in [1 .. 2 -> Projects]
      /\ job.at = "group" => walk \in [DOMAIN Labels -> Projects]
  BY <1>1 DEF FleetInv, JobInv, ComparingInv, GroupingInv
<1>3. DOMAIN Labels \subseteq Nat
  BY FleetAssumption
<1>4. PICK w : w = Walker
  OBVIOUS
<1>5. w \in DOMAIN walk /\ parent[walk[w]] # walk[w]
  <2>1. Walking \subseteq Nat
    BY <1>1, <1>2, <1>3 DEF Walking
  <2>2. \E i \in Walking : \A j \in Walking : i <= j
    BY <1>1, <2>1, FirstOfNaturals
  <2>3. w \in Walking
    BY <1>4, <2>2 DEF Walker
  <2>. QED BY <2>3 DEF Walking
<1>6. PICK l \in Projects : l = walk[w]
  BY <1>1, <1>2, <1>5
<1>7. /\ parent' = [parent EXCEPT ![l] = parent[parent[l]]]
      /\ walk' = [walk EXCEPT ![w] = parent'[l]]
  BY <1>4, <1>6 DEF FindStep, Up
<1>8. /\ parent' \in [Projects -> Projects] /\ parent'[l] = parent[parent[l]]
      /\ DOMAIN walk' = DOMAIN walk /\ parent'[l] \in Projects
      /\ \A i \in DOMAIN walk : walk'[i] = IF i = w THEN parent'[l] ELSE walk[i]
  BY <1>1, <1>5, <1>7
<1>9. ASSUME NEW top, NEW rank, IsForest(top, rank)
      PROVE  /\ IsForest(top, rank)'
             /\ \A i \in DOMAIN walk : top[walk'[i]] = top[walk[i]]
  <2>1. IsForest(top, rank)'
    BY <1>1, <1>5, <1>6, <1>7, <1>9, HalvingKeepsForest
  <2>2. top[parent[parent[l]]] = top[l]
    BY <1>1, <1>9 DEF IsForest
  <2>3. ASSUME NEW i \in DOMAIN walk
        PROVE  top[walk'[i]] = top[walk[i]]
    BY <1>6, <1>8, <2>2
  <2>. QED BY <2>1, <2>3
<1>10. job.at = "compare" => ComparingInv'
  <2>. SUFFICES ASSUME job.at = "compare"
                PROVE  ComparingInv'
    OBVIOUS
  <2>1. PICK top \in [Projects -> Projects], rank \in [Projects -> Nat] :
          /\ IsForest(top, rank) /\ Spans(job.edges, top)
          /\ \A e \in job.edges : top[e[1]] = top[e[2]] \/ Pending(e, top)
          /\ \E e \in job.edges : Pending(e, top)
    BY <1>1 DEF FleetInv, JobInv, ComparingInv
  <2>2. walk' \in [1 .. 2 -> Projects]
    <3>1. walk \in [1 .. 2 -> Projects] /\ w \in 1 .. 2
      BY <1>2, <1>5
    <3>. QED BY <1>7, <1>8, <3>1, OneWalkMoves
  <2>3. walk' # << >>
    <3>1. 1 \in DOMAIN walk'
      BY <2>2
    <3>. QED BY <3>1
  <2>4. top[walk'[1]] = top[walk[1]] /\ top[walk'[2]] = top[walk[2]]
    BY <1>2, <1>9, <2>1
  <2>5. \A e \in job.edges : Pending(e, top) => Pending(e, top)'
    BY <2>3, <2>4 DEF Pending
  <2>. QED BY <1>1, <1>9, <2>1, <2>2, <2>5 DEF ComparingInv
<1>11. job.at = "group" => GroupingInv'
  <2>. SUFFICES ASSUME job.at = "group"
                PROVE  GroupingInv'
    OBVIOUS
  <2>1. PICK top \in [Projects -> Projects], rank \in [Projects -> Nat] :
          /\ IsForest(top, rank) /\ Spans(job.edges, top)
          /\ \A e \in job.edges : top[e[1]] = top[e[2]]
          /\ \A i \in DOMAIN Labels : top[walk[i]] = top[Labels[i]]
    BY <1>1 DEF FleetInv, JobInv, GroupingInv
  <2>2. walk' \in [DOMAIN Labels -> Projects]
    <3>1. walk \in [DOMAIN Labels -> Projects] /\ w \in DOMAIN Labels
      BY <1>2, <1>5
    <3>. QED BY <1>7, <1>8, <3>1, OneWalkMoves
  <2>3. \A i \in DOMAIN Labels : top[walk'[i]] = top[Labels[i]]
    BY <1>2, <1>9, <2>1
  <2>. QED BY <1>1, <1>9, <2>1, <2>2, <2>3 DEF GroupingInv
<1>12. /\ ReadInv => ReadInv'
       /\ EdgesInv => EdgesInv'
  BY <1>1 DEF ReadInv, EdgesInv, Stands, fleet
<1>13. JobInv' /\ CampaignsAreComponents'
  BY <1>1, <1>10, <1>11, <1>12 DEF FleetInv, JobInv, CampaignsAreComponents
<1>. QED BY <1>1, <1>8, <1>13, JobMoves

LEMMA UniteKeeps ==
    ASSUME FleetInv, Unite
    PROVE  FleetInv'
<1>1. /\ job.at = "compare" /\ walk # << >> /\ Walking = {} /\ walk' = << >>
      /\ parent \in [Projects -> Projects] /\ UNCHANGED job /\ UNCHANGED fleet
      /\ ReadInv /\ EdgesInv
  BY DEF Unite, FleetInv, JobInv
<1>2. PICK top \in [Projects -> Projects], rank \in [Projects -> Nat] :
        /\ IsForest(top, rank) /\ Spans(job.edges, top)
        /\ \A e \in job.edges : top[e[1]] = top[e[2]] \/ Pending(e, top)
        /\ \E e \in job.edges : Pending(e, top)
  BY <1>1 DEF FleetInv, JobInv, ComparingInv
<1>3. walk \in [1 .. 2 -> Projects]
  BY <1>1 DEF FleetInv, JobInv, ComparingInv
<1>4. PICK a \in Projects, b \in Projects : a = walk[1] /\ b = walk[2]
  BY <1>3
<1>5. parent[a] = a /\ parent[b] = b
  BY <1>1, <1>3, <1>4 DEF Walking
<1>6. top[a] = a /\ top[b] = b
  BY <1>2, <1>5 DEF IsForest
<1>7. \A e \in job.edges : top[e[1]] = top[e[2]] \/ (top[e[1]] = a /\ top[e[2]] = b)
  BY <1>2, <1>4, <1>6 DEF Pending
<1>8. \A e \in job.edges : e[1] \in Projects /\ e[2] \in Projects
  BY <1>1 DEF EdgesInv
<1>9. parent' \in [Projects -> Projects] /\ ComparingInv'
  <2>1. CASE a = b
    <3>1. parent' = parent
      BY <1>4, <2>1 DEF Unite
    <3>2. IsForest(top, rank)'
      BY <1>2, <3>1 DEF IsForest
    <3>. QED BY <1>1, <1>2, <1>7, <2>1, <3>1, <3>2 DEF ComparingInv
  <2>2. CASE a # b
    <3> DEFINE top2 == [p \in Projects |-> IF top[p] = b THEN a ELSE top[p]]
    <3>1. parent' = [parent EXCEPT ![b] = a]
      BY <1>4, <2>2 DEF Unite
    <3>2. PICK rank2 : IsForest(top2, rank2)'
      BY <1>1, <1>2, <1>5, <2>2, <3>1, UnitingKeepsForest
    <3>3. \A e \in job.edges : top2[e[1]] = top2[e[2]]
      BY <1>7, <1>8, <2>2
    <3>4. Same(job.edges, a, b)
      <4>1. PICK e \in job.edges : Pending(e, top)
        BY <1>2
      <4>2. top[e[1]] = a /\ top[e[2]] = b
        BY <1>4, <1>6, <4>1 DEF Pending
      <4>3. Same(job.edges, a, e[1]) /\ Same(job.edges, b, e[2])
        BY <1>2, <1>8, <4>2 DEF Spans
      <4>4. Same(job.edges, e[1], e[2])
        BY SameOfEdge
      <4>. QED BY <4>3, <4>4, SameIsEquivalence
    <3>5. Spans(job.edges, top2)
      <4>1. ASSUME NEW p \in Projects
            PROVE  Same(job.edges, top2[p], p)
        <5>1. Same(job.edges, top[p], p)
          BY <1>2 DEF Spans
        <5>2. CASE top[p] = b
          BY <3>4, <5>1, <5>2, SameIsEquivalence
        <5>3. CASE top[p] # b
          BY <5>1, <5>3
        <5>. QED BY <5>2, <5>3
      <4>. HIDE DEF top2
      <4>. QED BY <4>1 DEF Spans
    <3>6. top2 \in [Projects -> Projects] /\ rank2 \in [Projects -> Nat]
      BY <3>2 DEF IsForest
    <3>7. parent' \in [Projects -> Projects]
      BY <1>1, <3>1
    <3>. HIDE DEF top2
    <3>. QED BY <1>1, <3>2, <3>3, <3>5, <3>6, <3>7 DEF ComparingInv
  <2>. QED BY <2>1, <2>2
<1>10. ReadInv' /\ EdgesInv'
  BY <1>1 DEF ReadInv, EdgesInv, Stands, fleet
<1>11. JobInv' /\ CampaignsAreComponents'
  BY <1>1, <1>9, <1>10 DEF FleetInv, JobInv, CampaignsAreComponents
<1>. QED BY <1>1, <1>9, <1>11, JobMoves

LEMMA StartGroupingKeeps ==
    ASSUME FleetInv, StartGrouping
    PROVE  FleetInv'
<1>1. /\ job.at = "compare" /\ walk = << >> /\ EdgesInv /\ ComparingInv
      /\ job' = [at |-> "group", edges |-> job.edges] /\ walk' = Labels
      /\ UNCHANGED parent /\ UNCHANGED fleet
  BY DEF StartGrouping, FleetInv, JobInv
<1>2. PICK top \in [Projects -> Projects], rank \in [Projects -> Nat] :
        /\ IsForest(top, rank) /\ Spans(job.edges, top)
        /\ \A e \in job.edges : top[e[1]] = top[e[2]]
  BY <1>1 DEF ComparingInv, Pending
<1>3. Labels \in [DOMAIN Labels -> Projects]
  BY FleetAssumption
<1>4. job'.at = "group" /\ job'.edges = job.edges
  BY <1>1
<1>5. IsForest(top, rank)'
  BY <1>1, <1>2 DEF IsForest
<1>6. GroupingInv'
  BY <1>1, <1>2, <1>3, <1>4, <1>5 DEF GroupingInv
<1>7. EdgesInv'
  BY <1>1, <1>4 DEF EdgesInv, Stands, fleet
<1>8. JobInv' /\ CampaignsAreComponents'
  BY <1>1, <1>4, <1>6, <1>7 DEF JobInv, CampaignsAreComponents
<1>. QED BY <1>1, <1>8, JobMoves DEF FleetInv

LEMMA ReportKeeps ==
    ASSUME FleetInv, Report
    PROVE  FleetInv'
<1> DEFINE root == [p \in Projects |-> walk[CHOOSE i \in DOMAIN Labels : Labels[i] = p]]
<1>1. /\ job.at = "group" /\ Walking = {} /\ EdgesInv /\ GroupingInv
      /\ job' = [at |-> "grouped", edges |-> job.edges, root |-> root] /\ walk' = << >>
      /\ UNCHANGED parent /\ UNCHANGED fleet
  BY DEF Report, FleetInv, JobInv
<1>2. PICK top \in [Projects -> Projects], rank \in [Projects -> Nat] :
        /\ IsForest(top, rank) /\ Spans(job.edges, top)
        /\ \A e \in job.edges : top[e[1]] = top[e[2]]
        /\ \A i \in DOMAIN Labels : top[walk[i]] = top[Labels[i]]
  BY <1>1 DEF GroupingInv
<1>3. ASSUME NEW p \in Projects
      PROVE  root[p] = top[p]
  <2> DEFINE i == CHOOSE i \in DOMAIN Labels : Labels[i] = p
  <2>1. \E j \in DOMAIN Labels : Labels[j] = p
    BY DEF Projects, Range
  <2>2. i \in DOMAIN Labels /\ Labels[i] = p
    BY <2>1
  <2>3. root[p] = walk[i]
    OBVIOUS
  <2>. HIDE DEF i, root
  <2>4. walk[i] \in Projects /\ parent[walk[i]] = walk[i]
    BY <1>1, <2>2 DEF GroupingInv, Walking
  <2>5. top[walk[i]] = walk[i]
    BY <1>2, <2>4 DEF IsForest
  <2>. QED BY <1>2, <2>2, <2>3, <2>5
<1>. HIDE DEF root
<1>4. job'.at = "grouped" /\ job'.edges = job.edges /\ job'.root = root
  BY <1>1
<1>5. CampaignsAreComponents'
  <2>1. job.edges \in SUBSET (Projects \X Projects)
    BY <1>1 DEF EdgesInv
  <2>2. ASSUME NEW p \in Projects, NEW q \in Projects
        PROVE  root[p] = root[q] <=> q \in Connected(job.edges)[p]
    <3>1. top[p] = top[q] <=> Same(job.edges, p, q)
      BY <1>2, <2>1, TreesAreComponents
    <3>2. q \in Connected(job.edges)[p] <=> Same(job.edges, p, q)
      BY <2>1, ConnectedIsSame
    <3>. QED BY <1>3, <3>1, <3>2
  <2>. QED BY <1>4, <2>2 DEF CampaignsAreComponents
<1>6. EdgesInv'
  BY <1>1, <1>4 DEF EdgesInv, Stands, fleet
<1>7. JobInv'
  BY <1>1, <1>4, <1>6 DEF JobInv
<1>. QED BY <1>1, <1>5, <1>7, JobMoves DEF FleetInv

-----------------------------------------------------------------------------
(* The diff *)

LEMMA StartDiffKeeps ==
    ASSUME FleetInv, StartDiff
    PROVE  FleetInv'
<1>1. PICK b \in Projects, t \in Projects :
        job' = [at |-> "diff", baseline |-> b, target |-> t, before |-> embeds[b]]
  BY DEF StartDiff
<1>2. job = NoJob /\ UNCHANGED <<parent, walk>> /\ UNCHANGED fleet
  BY DEF StartDiff
<1>3. walk = << >>
  BY <1>2 DEF FleetInv, JobInv, NoJob
<1>4. JobInv' /\ CampaignsAreComponents'
  BY <1>1, <1>2, <1>3 DEF JobInv, CampaignsAreComponents, fleet
<1>. QED BY <1>2, <1>4, JobMoves DEF FleetInv

LEMMA ReadTargetKeeps ==
    ASSUME FleetInv, ReadTarget
    PROVE  FleetInv'
<1>1. /\ job.at = "diff" /\ walk = << >> /\ {job.baseline, job.target} \subseteq Projects
      /\ job.before \subseteq embeds[job.baseline]
      /\ job' = [at |-> "record", baseline |-> job.baseline, target |-> job.target,
                 changed |-> Changed(job.before, embeds[job.target])]
      /\ UNCHANGED <<parent, walk>> /\ UNCHANGED fleet
  BY DEF ReadTarget, FleetInv, JobInv
<1>2. ASSUME NEW c \in Changed(job.before, embeds[job.target])
      PROVE  ChangeFounded(c, job.baseline, job.target)
  <2>1. /\ c.from = Versions(job.before, c.component)
        /\ c.to = Versions(embeds[job.target], c.component)
        /\ c.from # c.to
    BY DEF Changed
  <2>2. Versions(job.before, c.component) \subseteq Versions(embeds[job.baseline], c.component)
    BY <1>1 DEF Versions
  <2>. QED BY <2>1, <2>2 DEF ChangeFounded
<1>3. \A c \in job'.changed : ChangeFounded(c, job.baseline, job.target)'
  BY <1>1, <1>2 DEF ChangeFounded, fleet
<1>4. JobInv' /\ CampaignsAreComponents'
  BY <1>1, <1>3 DEF JobInv, CampaignsAreComponents
<1>. QED BY <1>1, <1>4, JobMoves DEF FleetInv

LEMMA RecordKeeps ==
    ASSUME FleetInv, Record
    PROVE  FleetInv'
<1>1. PICK cited \in [job.changed -> Finds] :
        /\ \A c \in job.changed : cited[c] \in Sources(c)
        /\ changes' = [changes EXCEPT ![job.target] = @ \cup
                {[component |-> c.component, from |-> c.from, to |-> c.to,
                  artifact |-> cited[c].artifact, baseline |-> job.baseline] : c \in job.changed}]
  BY DEF Record
<1> DEFINE new == {[component |-> c.component, from |-> c.from, to |-> c.to,
                    artifact |-> cited[c].artifact, baseline |-> job.baseline] : c \in job.changed}
<1>2. /\ job.at = "record" /\ job' = NoJob /\ UNCHANGED <<files, embeds, parent, walk>>
      /\ walk = << >> /\ job.baseline \in Projects /\ job.target \in Projects
      /\ \A c \in job.changed : ChangeFounded(c, job.baseline, job.target)
  BY DEF Record, FleetInv, JobInv
<1>3. ASSUME NEW k \in new
      PROVE  /\ k.baseline \in Projects
             /\ k.from \subseteq Versions(embeds[k.baseline], k.component)
             /\ k.to \subseteq Versions(embeds[job.target], k.component)
             /\ k.from # k.to
             /\ \E s \in embeds[job.target] : s.component = k.component /\ s.artifact = k.artifact
  <2>1. PICK c \in job.changed :
            k = [component |-> c.component, from |-> c.from, to |-> c.to,
                 artifact |-> cited[c].artifact, baseline |-> job.baseline]
    OBVIOUS
  <2>2. /\ k.component = c.component /\ k.from = c.from /\ k.to = c.to
        /\ k.artifact = cited[c].artifact /\ k.baseline = job.baseline
    BY <2>1
  <2>3. cited[c] \in embeds[job.target] /\ cited[c].component = c.component
    BY <1>1 DEF Sources
  <2>. QED BY <1>2, <2>2, <2>3 DEF ChangeFounded
<1>4. /\ DOMAIN changes' = Projects
      /\ \A t \in Projects : changes'[t] = IF t = job.target THEN changes[t] \cup new ELSE changes[t]
  BY <1>1 DEF FleetInv, ProjectsInv
<1>. HIDE DEF new
<1>5. ProjectsInv'
  BY <1>2, <1>3, <1>4 DEF FleetInv, ProjectsInv
<1>6. ChangesAreFounded'
  <2>1. ASSUME NEW t \in Projects, NEW c \in changes'[t]
        PROVE  /\ c.from \subseteq Versions(embeds[c.baseline], c.component)
               /\ c.to \subseteq Versions(embeds[t], c.component)
               /\ c.from # c.to
               /\ \E k \in embeds[t] : k.component = c.component /\ k.artifact = c.artifact
    <3>1. CASE c \in changes[t]
      BY <3>1 DEF FleetInv, ChangesAreFounded
    <3>2. CASE c \in new /\ t = job.target
      BY <1>3, <3>2
    <3>. QED BY <1>4, <3>1, <3>2
  <2>. QED BY <1>2, <2>1 DEF ChangesAreFounded
<1>7. JobInv' /\ CampaignsAreComponents'
  BY <1>2 DEF JobInv, CampaignsAreComponents, NoJob
<1>. QED BY <1>2, <1>5, <1>6, <1>7 DEF FleetInv

LEMMA ReturnKeeps ==
    ASSUME FleetInv, Return
    PROVE  FleetInv'
<1>1. walk = << >> /\ job' = NoJob /\ UNCHANGED <<parent, walk>> /\ UNCHANGED fleet
  BY DEF Return, FleetInv, JobInv
<1>2. JobInv' /\ CampaignsAreComponents'
  BY <1>1 DEF JobInv, CampaignsAreComponents, NoJob
<1>. QED BY <1>1, <1>2, JobMoves DEF FleetInv

-----------------------------------------------------------------------------
(* The theorems *)

LEMMA FleetStep == FleetInv /\ [FleetNext]_fleetVars => FleetInv'
<1>. SUFFICES ASSUME FleetInv, [FleetNext]_fleetVars
              PROVE  FleetInv'
  OBVIOUS
<1>1. CASE \E p \in Projects, f \in Finds : AnalyseProject(p, f)
  BY <1>1, AnalyseKeepsFleet
<1>2. CASE StartCorrelation \/ ReadProject \/ StartComparing
  BY <1>2, StartCorrelationKeeps, ReadProjectKeeps, StartComparingKeeps
<1>3. CASE Compare \/ FindStep \/ Unite
  BY <1>3, CompareKeeps, FindStepKeeps, UniteKeeps
<1>4. CASE StartGrouping \/ Report
  BY <1>4, StartGroupingKeeps, ReportKeeps
<1>5. CASE StartDiff \/ ReadTarget \/ Record \/ Return
  BY <1>5, StartDiffKeeps, ReadTargetKeeps, RecordKeeps, ReturnKeeps
<1>6. CASE UNCHANGED fleetVars
  <2>1. UNCHANGED fleet /\ UNCHANGED <<job, parent, walk>>
    BY <1>6 DEF fleetVars, fleet
  <2>2. /\ ReadInv => ReadInv'
        /\ EdgesInv => EdgesInv'
        /\ ComparingInv => ComparingInv'
        /\ GroupingInv => GroupingInv'
    BY <2>1, TreesStand DEF ReadInv, EdgesInv, Stands, fleet
  <2>3. JobInv'
    BY <2>1, <2>2 DEF FleetInv, JobInv, ChangeFounded, fleet
  <2>4. CampaignsAreComponents'
    BY <2>1 DEF FleetInv, CampaignsAreComponents
  <2>. QED BY <2>1, <2>3, <2>4, JobMoves DEF FleetInv
<1>. QED BY <1>1, <1>2, <1>3, <1>4, <1>5, <1>6 DEF FleetNext

\* The invariant above holds whatever is committed to the projects while they
\* are read one by one, and at every turn of the loop of find.
THEOREM FleetInvariance == FleetSpec => []FleetInv
<1>1. FleetInit => FleetInv
  BY InitFleet
<1>2. FleetInv /\ [FleetNext]_fleetVars => FleetInv'
  BY FleetStep
<1>. QED BY <1>1, <1>2, PTL DEF FleetSpec

\* The union-find of correlate_projects is right: two projects get the same
\* root exactly when a chain of edges connects them, for any number of
\* projects, any edges and any order of unions and halvings.
THEOREM UnionFindIsRight == FleetSpec => []CampaignsAreComponents
<1>1. FleetInv => CampaignsAreComponents
  BY DEF FleetInv
<1>. QED BY <1>1, FleetInvariance, PTL

\* What two projects were joined for is still in both when the report is made.
THEOREM ReasonsStand == FleetSpec => []EdgesStand
<1>1. FleetInv => EdgesStand
  BY DEF FleetInv, JobInv, EdgesInv, Stands, EdgesStand
<1>. QED BY <1>1, FleetInvariance, PTL

\* A change of version that record_version_changes writes names versions both
\* projects embed and cites evidence of the one it is written to.
THEOREM VersionChangesAreFounded == FleetSpec => []ChangesAreFounded
<1>1. FleetInv => ChangesAreFounded
  BY DEF FleetInv
<1>. QED BY <1>1, FleetInvariance, PTL
=============================================================================
