------------------------- MODULE SecretsAgentProofs -------------------------
(***************************************************************************)
(* The secrets agent proposes what is new and overlooks nothing on its     *)
(* page, for any number of agents and strings, any budget, batch and page  *)
(* and any answers.                                                        *)
(*                                                                         *)
(* The invariant is about one agent at a time.  While it looks for its     *)
(* candidates, each string of its page is either still to be looked at, or a  *)
(* candidate, or skipped; and what it learned about the string it looks at *)
(* (that no claim of the first predicate was there) is about a later state *)
(* than the one it began in.  While it asks, the strings it has shown are  *)
(* the candidates up to its index, and the batch is the end of them, which *)
(* is why an index in a batch names the string the model was shown.        *)
(***************************************************************************)
EXTENDS SecretsAgent, SequenceTheorems, FiniteSetTheorems, WellFoundedInduction, TLAPS

T == ToSet(Texts)
Predicates == ToSet(SecretsPredicates)

-----------------------------------------------------------------------------
(* Lemmas about positions and sequences *)

\* The least of some positions is one of them, and no other is less.
LEMMA LeastPosition ==
    ASSUME NEW S, S \subseteq Nat, S # {}
    PROVE  Min(S) \in S /\ \A x \in S : Min(S) <= x
<1> DEFINE Less == {ij \in Nat \X Nat : ij[1] < ij[2]}
<1>1. IsWellFoundedOn(Less, Nat)
  BY NatLessThanWellFounded DEF OpToRel
<1>2. PICK n \in S : \A m \in S : <<m, n>> \notin Less
  <2>. HIDE DEF Less
  <2>. QED BY <1>1, WFMin
<1>3. ASSUME NEW m \in S
      PROVE  n <= m
  <2>1. m \in Nat /\ n \in Nat /\ ~ (m < n)
    BY <1>2
  <2>. QED BY <2>1
<1>. QED BY <1>2, <1>3 DEF Min

LEMMA LesserOfTwo ==
    ASSUME NEW a \in Nat, NEW b \in Nat
    PROVE  Min({a, b}) = IF a <= b THEN a ELSE b
<1>1. \E x \in {a, b} : \A y \in {a, b} : x <= y
  OBVIOUS
<1>2. Min({a, b}) \in {a, b} /\ \A y \in {a, b} : Min({a, b}) <= y
  BY <1>1 DEF Min
<1>. QED BY <1>2

\* Sequence s is a prefix of c.
Begins(s, c) == Len(s) <= Len(c) /\ \A i \in 1 .. Len(s) : s[i] = c[i]

\* Sequence b is a suffix of s.
Ends(b, s) == Len(b) <= Len(s) /\ \A i \in 1 .. Len(b) : b[i] = s[Len(s) - Len(b) + i]

LEMMA TheTwoPredicates ==
    /\ Predicates = {SecretsPredicates[1], SecretsPredicates[2]}
    /\ \A n \in 1 .. 2 : Looked(n) <=> n = 2
<1>1. Len(SecretsPredicates) = 2 /\ DOMAIN SecretsPredicates = 1 .. 2
  BY DEF SecretsPredicates
<1>2. 1 .. 2 = {1, 2}
  OBVIOUS
<1>. QED BY <1>1, <1>2 DEF Predicates, ToSet, Looked

-----------------------------------------------------------------------------
(* One agent *)

\* The strings of a page.
Page(S) == {Texts[i] : i \in FirstPage(S)}

\* While it looks for candidates.
LookInv(state, K) ==
    /\ DOMAIN state = {"at", "todo", "predicate", "candidates", "skipped", "there", "had"}
    /\ state.todo \subseteq DOMAIN Texts
    /\ state.predicate \in 1 .. 2
    /\ state.candidates \in Seq(T) /\ IsInjective(state.candidates)
    /\ \A i \in DOMAIN state.candidates :
        /\ state.candidates[i] \notin state.skipped
        /\ ~ Claimed(state.candidates[i], state.had)
        /\ \A j \in state.todo : Texts[j] # state.candidates[i]
    /\ \A j \in state.todo : Texts[j] \notin state.skipped
    /\ state.there \subseteq T
    /\ Page(state.there) =
        state.skipped \cup ToSet(state.candidates) \cup {Texts[j] : j \in state.todo}
    /\ \A s \in state.skipped : Claimed(s, K)
    /\ state.had \subseteq K
    /\ state.predicate = 2 => \A k \in state.had :
        ~ (k.string = Texts[Min(state.todo)] /\ k.predicate = SecretsPredicates[1])

Proposal == [claim : [string : T, predicate : Predicates, by : {"agent"}], meant : T]

\* What it has proposed.
ProposedInv(state, K) ==
    /\ state.proposed \in Seq(Proposal)
    /\ \A i \in DOMAIN state.proposed :
        /\ state.proposed[i].claim \in K
        /\ state.proposed[i].claim.string = state.proposed[i].meant
        /\ ~ Claimed(state.proposed[i].meant, state.had)

\* While it asks about them.
AskInv(state, K) ==
    /\ DOMAIN state = {"at", "candidates", "skipped", "there", "had", "index", "batch",
                       "response", "items", "shown", "proposed"}
    /\ state.candidates \in Seq(T) /\ IsInjective(state.candidates)
    /\ \A i \in DOMAIN state.candidates :
        /\ state.candidates[i] \notin state.skipped
        /\ ~ Claimed(state.candidates[i], state.had)
    /\ state.there \subseteq T
    /\ Page(state.there) = state.skipped \cup ToSet(state.candidates)
    /\ \A s \in state.skipped : Claimed(s, K)
    /\ state.had \subseteq K
    /\ state.index \in Nat
    /\ state.shown \in Seq(T) /\ Begins(state.shown, state.candidates)
    /\ IF state.index <= Len(state.candidates) THEN Len(state.shown) = state.index
       ELSE Len(state.shown) = Len(state.candidates)
    /\ state.at \in {"wait", "items"} =>
        state.batch \in Seq(T) /\ Ends(state.batch, state.shown)
    /\ state.at = "items" =>
        /\ state.items \subseteq Nat
        /\ \A i \in state.items :
            /\ state.response[i].index \in 0 .. (Len(state.batch) - 1)
            /\ state.response[i].predicate \in Predicates
    /\ ProposedInv(state, K)

\* When it has returned.
DoneInv(state, K) ==
    /\ DOMAIN state = {"at", "there", "had", "skipped", "shown", "proposed"}
    /\ state.shown \in Seq(T) /\ IsInjective(state.shown)
    /\ \A i \in DOMAIN state.shown : state.shown[i] \notin state.skipped
    /\ \A s \in state.skipped : Claimed(s, K)
    /\ state.there \subseteq T
    /\ state.skipped \cup ToSet(state.shown) \subseteq Page(state.there)
    /\ Len(state.proposed) < MaxClaims =>
        Page(state.there) = state.skipped \cup ToSet(state.shown)
    /\ ProposedInv(state, K)

StateInv(state, K) ==
    \/ state.at \in {"idle", "raised"} /\ DOMAIN state = {"at"}
    \/ state.at = "look" /\ LookInv(state, K)
    \/ state.at \in {"batch", "wait", "items"} /\ AskInv(state, K)
    \/ state.at = "returned" /\ DoneInv(state, K)

SecretsInv ==
    /\ strings \subseteq T
    /\ DOMAIN agent = Agents
    /\ \A k \in claims : k.predicate \in Predicates
    /\ \A a \in Agents : StateInv(agent[a], claims)

\* Claims that others make take nothing away.
LEMMA MoreClaims ==
    ASSUME NEW state, NEW K, NEW K2, K \subseteq K2, StateInv(state, K)
    PROVE  StateInv(state, K2)
<1>1. \A s : Claimed(s, K) => Claimed(s, K2)
  BY DEF Claimed
<1>2. ProposedInv(state, K) => ProposedInv(state, K2)
  BY DEF ProposedInv
<1>3. LookInv(state, K) => LookInv(state, K2)
  BY <1>1 DEF LookInv
<1>4. AskInv(state, K) => AskInv(state, K2)
  BY <1>1, <1>2 DEF AskInv
<1>5. DoneInv(state, K) => DoneInv(state, K2)
  BY <1>1, <1>2 DEF DoneInv
<1>. QED BY <1>3, <1>4, <1>5 DEF StateInv

\* A step of one agent that makes claims or none.
LEMMA OneAgentMoves ==
    ASSUME SecretsInv, NEW a \in Agents, NEW state,
           Goto(a, state), claims \subseteq claims', strings' \subseteq T,
           \A k \in claims' : k.predicate \in Predicates,
           StateInv(state, claims')
    PROVE  SecretsInv'
<1>1. /\ DOMAIN agent' = Agents
      /\ \A b \in Agents : agent'[b] = IF b = a THEN state ELSE agent[b]
  BY DEF Goto, SecretsInv
<1>2. \A b \in Agents : StateInv(agent[b], claims')
  BY MoreClaims DEF SecretsInv
<1>3. \A b \in Agents : StateInv(agent'[b], claims')
  BY <1>1, <1>2
<1>. QED BY <1>1, <1>3 DEF SecretsInv

-----------------------------------------------------------------------------
(* The actions *)

LEMMA TextsAre ==
    /\ Texts \in Seq(T) /\ DOMAIN Texts = 1 .. Len(Texts) /\ Len(Texts) \in Nat
    /\ \A i, j \in DOMAIN Texts : Texts[i] = Texts[j] => i = j
    /\ \A i \in DOMAIN Texts : Texts[i] \in T
<1>1. Texts \in Seq(T) /\ IsInjective(Texts)
  BY AgentAssumption DEF T
<1>2. Texts \in [1 .. Len(Texts) -> T] /\ Len(Texts) \in Nat /\ DOMAIN Texts = 1 .. Len(Texts)
  BY <1>1, LenProperties
<1>. QED BY <1>1, <1>2 DEF IsInjective

LEMMA TriageKeeps ==
    ASSUME SecretsInv, NEW s \in T, Triage(s)
    PROVE  SecretsInv'
<1>1. claims \subseteq claims' /\ strings' \subseteq T /\ agent' = agent
  BY DEF Triage, SecretsInv
<1>2. \A k \in claims' : k.predicate \in Predicates
  <2>1. Rules[s] \subseteq Predicates
    BY AgentAssumption DEF T, Predicates
  <2>. QED BY <2>1 DEF Triage, SecretsInv
<1>3. \A a \in Agents : StateInv(agent[a], claims')
  BY <1>1, MoreClaims DEF SecretsInv
<1>. QED BY <1>1, <1>2, <1>3 DEF SecretsInv

LEMMA StartKeeps ==
    ASSUME SecretsInv, NEW a \in Agents, Start(a)
    PROVE  SecretsInv'
<1> DEFINE state == [at |-> "look", todo |-> FirstPage(strings),
                     predicate |-> 1, candidates |-> << >>, skipped |-> {},
                     there |-> strings, had |-> claims]
<1>1. Goto(a, state) /\ UNCHANGED <<strings, claims>>
  BY DEF Start
<1>2. << >> \in Seq(T) /\ IsInjective(<< >>) /\ DOMAIN << >> = {} /\ ToSet(<< >>) = {}
  <2>1. << >> \in Seq(T) /\ DOMAIN << >> = {}
    BY EmptySeq
  <2>. QED BY <2>1 DEF IsInjective, ToSet
<1>3. /\ Page(strings) = {Texts[j] : j \in FirstPage(strings)}
      /\ FirstPage(strings) \subseteq DOMAIN Texts
  BY DEF Page, FirstPage
<1>4. LookInv(state, claims)
  BY <1>2, <1>3 DEF LookInv, SecretsInv
<1>5. StateInv(state, claims)
  BY <1>4 DEF StateInv
<1>. QED BY <1>1, <1>5, OneAgentMoves DEF SecretsInv

\* What is learned about the string looked at holds of the claims that were
\* there when the agent began, since none has gone.
LEMMA LookKeeps ==
    ASSUME SecretsInv, NEW a \in Agents, Look(a)
    PROVE  SecretsInv'
<1> DEFINE old == agent[a]
           i == Min(old.todo)
           s == Texts[i]
           n == old.predicate
           rest == old.todo \ {i}
           There(m) == \E k \in claims : k.string = s /\ k.predicate = SecretsPredicates[m]
           skipping == [old EXCEPT !.todo = rest, !.predicate = 1, !.skipped = @ \cup {s}]
           finding == [old EXCEPT !.todo = rest, !.predicate = 1, !.candidates = Append(@, s)]
           going == [old EXCEPT !.predicate = n + 1]
<1>1. old.at = "look" /\ old.todo # {} /\ LookInv(old, claims) /\ UNCHANGED <<strings, claims>>
  BY DEF Look, SecretsInv, StateInv
<1>2. i \in old.todo /\ i \in DOMAIN Texts /\ s \in T
  BY <1>1, TextsAre, LeastPosition DEF LookInv
<1>3. \A j \in rest : Texts[j] # s
  BY <1>1, <1>2, TextsAre DEF LookInv
<1>4. {Texts[j] : j \in old.todo} = {Texts[j] : j \in rest} \cup {s}
  BY <1>2
<1>5. /\ old.candidates \in Seq(T) /\ DOMAIN old.candidates = 1 .. Len(old.candidates)
      /\ Len(old.candidates) \in Nat
  BY <1>1, LenProperties DEF LookInv
<1>a. /\ rest \subseteq old.todo /\ rest \subseteq DOMAIN Texts
      /\ \A j \in DOMAIN old.candidates :
            old.candidates[j] # s /\ \A l \in rest : Texts[l] # old.candidates[j]
      /\ \A j \in rest : Texts[j] \notin old.skipped
      /\ s \notin old.skipped
      /\ Page(old.there) = old.skipped \cup ToSet(old.candidates) \cup ({Texts[j] : j \in rest} \cup {s})
  BY <1>1, <1>2, <1>4 DEF LookInv
<1>6. CASE There(n)
  <2>1. Goto(a, skipping)
    BY <1>1, <1>6 DEF Look
  <2>2. /\ DOMAIN skipping = DOMAIN old /\ skipping.at = "look" /\ skipping.todo = rest
        /\ skipping.predicate = 1 /\ skipping.skipped = old.skipped \cup {s}
        /\ skipping.candidates = old.candidates /\ skipping.there = old.there
        /\ skipping.had = old.had
    BY <1>1 DEF LookInv
  <2>3. Claimed(s, claims)
    BY <1>6 DEF Claimed
  <2> HIDE DEF skipping, rest, i, s
  <2>4. Page(skipping.there) = skipping.skipped \cup ToSet(skipping.candidates)
                           \cup {Texts[j] : j \in skipping.todo}
    BY <1>a, <2>2
  <2>5. LookInv(skipping, claims)
    BY <1>1, <1>3, <1>a, <2>2, <2>3, <2>4 DEF LookInv
  <2>6. StateInv(skipping, claims)
    BY <2>2, <2>5 DEF StateInv
  <2>. QED BY <1>1, <2>1, <2>6, OneAgentMoves DEF SecretsInv
<1>7. CASE ~ There(n) /\ n = 2
  <2>1. Goto(a, finding)
    BY <1>1, <1>7, TheTwoPredicates DEF Look
  <2>2. /\ DOMAIN finding = DOMAIN old /\ finding.at = "look" /\ finding.todo = rest
        /\ finding.predicate = 1 /\ finding.skipped = old.skipped
        /\ finding.candidates = Append(old.candidates, s) /\ finding.there = old.there
        /\ finding.had = old.had
    BY <1>1 DEF LookInv
  <2>3. ~ Claimed(s, old.had)
    <3>1. \A k \in old.had : k.predicate \in {SecretsPredicates[1], SecretsPredicates[2]}
      BY <1>1, TheTwoPredicates DEF LookInv, SecretsInv
    <3>. QED BY <1>1, <1>7, <3>1 DEF LookInv, Claimed
  <2> DEFINE more == Append(old.candidates, s)
  <2> HIDE DEF finding, rest, i, s
  <2>4. /\ more \in Seq(T) /\ Len(more) = Len(old.candidates) + 1
        /\ \A j \in 1 .. Len(old.candidates) : more[j] = old.candidates[j]
        /\ more[Len(old.candidates) + 1] = s
    BY <1>2, <1>5, AppendProperties
  <2> HIDE DEF more
  <2>5. DOMAIN more = 1 .. Len(old.candidates) + 1
    BY <2>4, LenProperties
  <2>6. /\ \A j \in DOMAIN old.candidates : j \in DOMAIN more /\ more[j] = old.candidates[j]
        /\ \A j \in DOMAIN more : j = Len(old.candidates) + 1 \/ j \in DOMAIN old.candidates
        /\ Len(old.candidates) + 1 \in DOMAIN more
    BY <1>5, <2>4, <2>5
  <2>7. IsInjective(old.candidates) /\ old.predicate = 2
    BY <1>1, <1>7 DEF LookInv
  <2>8. IsInjective(more)
    BY <1>a, <2>4, <2>6, <2>7 DEF IsInjective
  <2>9. ToSet(more) = ToSet(old.candidates) \cup {s}
    BY <2>4, <2>6 DEF ToSet
  <2>10. Page(finding.there) = finding.skipped \cup ToSet(more) \cup {Texts[j] : j \in finding.todo}
    BY <1>a, <2>2, <2>9
  <2>11. \A j \in DOMAIN more :
            /\ more[j] \notin finding.skipped
            /\ ~ Claimed(more[j], finding.had)
            /\ \A l \in finding.todo : Texts[l] # more[j]
    <3>1. \A j \in DOMAIN old.candidates :
            old.candidates[j] \notin old.skipped /\ ~ Claimed(old.candidates[j], old.had)
      BY <1>1 DEF LookInv
    <3>. QED BY <1>3, <1>a, <2>2, <2>3, <2>4, <2>6, <3>1
  <2>12. finding.candidates = more
    BY <2>2 DEF more
  <2>13. LookInv(finding, claims)
    BY <1>1, <1>a, <2>2, <2>4, <2>8, <2>10, <2>11, <2>12 DEF LookInv
  <2>14. StateInv(finding, claims)
    BY <2>2, <2>13 DEF StateInv
  <2>. QED BY <1>1, <2>1, <2>14, OneAgentMoves DEF SecretsInv
<1>8. CASE ~ There(n) /\ n = 1
  <2>1. Goto(a, going)
    BY <1>1, <1>8, TheTwoPredicates DEF Look
  <2>2. /\ DOMAIN going = DOMAIN old /\ going.at = "look" /\ going.todo = old.todo
        /\ going.predicate = 2 /\ going.skipped = old.skipped
        /\ going.candidates = old.candidates /\ going.there = old.there
        /\ going.had = old.had
    BY <1>1, <1>8 DEF LookInv
  <2> HIDE DEF going
  <2>3. \A k \in old.had : ~ (k.string = Texts[Min(old.todo)] /\ k.predicate = SecretsPredicates[1])
    BY <1>1, <1>8 DEF LookInv
  <2>4. LookInv(going, claims)
    BY <1>1, <2>2, <2>3 DEF LookInv
  <2>5. StateInv(going, claims)
    BY <2>2, <2>4 DEF StateInv
  <2>. QED BY <1>1, <2>1, <2>5, OneAgentMoves DEF SecretsInv
<1>9. n = 1 \/ n = 2
  BY <1>1 DEF LookInv
<1>. QED BY <1>6, <1>7, <1>8, <1>9

LEMMA StartAskingKeeps ==
    ASSUME SecretsInv, NEW a \in Agents, StartAsking(a)
    PROVE  SecretsInv'
<1> DEFINE old == agent[a]
           state == [at |-> "batch", candidates |-> old.candidates, skipped |-> old.skipped,
                     there |-> old.there, had |-> old.had, index |-> 0, batch |-> << >>,
                     response |-> << >>, items |-> {}, shown |-> << >>, proposed |-> << >>]
<1>1. Goto(a, state) /\ LookInv(old, claims) /\ old.todo = {} /\ UNCHANGED <<strings, claims>>
  BY DEF StartAsking, SecretsInv, StateInv
<1>2. << >> \in Seq(T) /\ << >> \in Seq(Proposal) /\ Len(<< >>) = 0 /\ DOMAIN << >> = {}
  BY EmptySeq
<1>3. Len(old.candidates) \in Nat
  BY <1>1, LenProperties DEF LookInv
<1>4. Begins(<< >>, old.candidates)
  BY <1>2, <1>3 DEF Begins
<1>5. ProposedInv(state, claims)
  BY <1>2 DEF ProposedInv
<1>6. Page(old.there) = old.skipped \cup ToSet(old.candidates)
  BY <1>1 DEF LookInv
<1>7. AskInv(state, claims)
  BY <1>1, <1>2, <1>3, <1>4, <1>5, <1>6 DEF AskInv, LookInv
<1>8. StateInv(state, claims)
  BY <1>7 DEF StateInv
<1>. QED BY <1>1, <1>8, OneAgentMoves DEF SecretsInv

\* A batch is what of the candidates comes after the index.
LEMMA BatchIs ==
    ASSUME NEW state, state.candidates \in Seq(T), state.index \in Nat,
           state.index < Len(state.candidates)
    PROVE  LET b == Batch(state)
               n == Len(state.candidates)
               m == IF state.index + BatchSize <= n THEN state.index + BatchSize ELSE n
           IN  /\ b \in Seq(T) /\ Len(b) = m - state.index
               /\ \A i \in 1 .. Len(b) : b[i] = state.candidates[state.index + i]
<1> DEFINE c == state.candidates
           x == state.index
           n == Len(c)
           m == IF x + BatchSize <= n THEN x + BatchSize ELSE n
           b == SubSeq(c, x + 1, m)
<1>1. n \in Nat /\ BatchSize \in Nat \ {0} /\ \A i \in 1 .. n : c[i] \in T
  BY AgentAssumption, LenProperties
<1>2. Batch(state) = b
  <2>1. Min({x + BatchSize, n}) = m
    BY <1>1, LesserOfTwo
  <2>. QED BY <2>1 DEF Batch
<1>3. m \in Nat /\ x < m /\ m <= n
  BY <1>1
<1> HIDE DEF m
<1>4. /\ b \in Seq(T) /\ Len(b) = m - x
      /\ \A i \in 1 .. m - x : b[i] = c[x + i]
  <2> DEFINE lo == x + 1
  <2>1. \A i \in lo .. m : c[i] \in T
    BY <1>1, <1>3
  <2>2. lo \in Int /\ m \in Int /\ lo <= m
    BY <1>3
  <2>3. /\ SubSeq(c, lo, m) \in Seq(T)
        /\ Len(SubSeq(c, lo, m)) = m - lo + 1
        /\ \A i \in 1 .. m - lo + 1 : SubSeq(c, lo, m)[i] = c[lo + i - 1]
    <3> HIDE DEF lo
    <3>. QED BY <2>1, <2>2, SubSeqProperties
  <2> HIDE DEF b
  <2>4. m - lo + 1 = m - x /\ \A i \in 1 .. m - x : lo + i - 1 = x + i
    BY <1>3
  <2>. QED BY <2>3, <2>4 DEF b, lo
<1>. QED BY <1>2, <1>4 DEF m

LEMMA SendPromptKeeps ==
    ASSUME SecretsInv, NEW a \in Agents, SendPrompt(a)
    PROVE  SecretsInv'
<1> DEFINE old == agent[a]
           c == old.candidates
           x == old.index
           n == Len(c)
           m == IF x + BatchSize <= n THEN x + BatchSize ELSE n
           b == Batch(old)
           more == old.shown \o b
           state == [old EXCEPT !.at = "wait", !.batch = b, !.index = NextIndex(old),
                                !.shown = more]
<1>1. /\ Goto(a, state) /\ AskInv(old, claims) /\ UNCHANGED <<strings, claims>>
      /\ x < n
  BY DEF SendPrompt, SecretsInv, StateInv
<1>2. /\ c \in Seq(T) /\ n \in Nat /\ x \in Nat /\ BatchSize \in Nat \ {0}
      /\ old.shown \in Seq(T) /\ Len(old.shown) = x
      /\ \A i \in 1 .. x : old.shown[i] = c[i]
  BY <1>1, AgentAssumption, LenProperties DEF AskInv, Begins
<1>3. /\ b \in Seq(T) /\ Len(b) = m - x
      /\ \A i \in 1 .. m - x : b[i] = c[x + i]
  BY <1>1, <1>2, BatchIs
<1>4. m \in Nat /\ x < m /\ m <= n /\ m <= x + BatchSize
  BY <1>1, <1>2
<1>5. /\ DOMAIN state = DOMAIN old /\ state.at = "wait" /\ state.batch = b
      /\ state.index = x + BatchSize /\ state.shown = more
      /\ state.candidates = c /\ state.skipped = old.skipped /\ state.there = old.there
      /\ state.had = old.had /\ state.proposed = old.proposed
  BY <1>1 DEF AskInv, NextIndex
<1> HIDE DEF b, state, m
<1>6. /\ more \in Seq(T) /\ Len(more) = x + (m - x)
      /\ \A i \in 1 .. x + (m - x) : more[i] = IF i <= x THEN old.shown[i] ELSE b[i - x]
  <2>1. /\ more \in Seq(T) /\ Len(more) = Len(old.shown) + Len(b)
        /\ \A i \in 1 .. Len(old.shown) + Len(b) :
              more[i] = IF i <= Len(old.shown) THEN old.shown[i] ELSE b[i - Len(old.shown)]
    <3> DEFINE s1 == old.shown
    <3>1. s1 \in Seq(T) /\ b \in Seq(T)
      BY <1>2, <1>3
    <3> HIDE DEF s1
    <3>2. /\ s1 \o b \in Seq(T) /\ Len(s1 \o b) = Len(s1) + Len(b)
          /\ \A i \in 1 .. Len(s1) + Len(b) :
                (s1 \o b)[i] = IF i <= Len(s1) THEN s1[i] ELSE b[i - Len(s1)]
      BY <3>1, ConcatProperties
    <3>. QED BY <3>2 DEF s1
  <2> HIDE DEF more
  <2>. QED BY <2>1, <1>2, <1>3
<1>7. x + (m - x) = m
  BY <1>2, <1>4
<1>8. Begins(more, c)
  <2>1. ASSUME NEW i \in 1 .. m
        PROVE  more[i] = c[i]
    <3>1. CASE i <= x
      <4>1. i \in 1 .. x
        BY <3>1, <1>2
      <4>. QED BY <3>1, <4>1, <1>2, <1>6, <1>7
    <3>2. CASE ~ (i <= x)
      <4>1. i - x \in 1 .. m - x /\ x + (i - x) = i
        BY <3>2, <1>2, <1>4
      <4>2. more[i] = b[i - x]
        BY <3>2, <1>6, <1>7
      <4>3. b[i - x] = c[x + (i - x)]
        BY <4>1, <1>3
      <4>. QED BY <4>1, <4>2, <4>3
    <3>. QED BY <3>1, <3>2
  <2>. QED BY <2>1, <1>4, <1>6, <1>7 DEF Begins
<1>9. Ends(b, more)
  <2>1. ASSUME NEW i \in 1 .. m - x
        PROVE  b[i] = more[m - (m - x) + i]
    <3>1. /\ m - (m - x) + i = x + i /\ x + i \in 1 .. m /\ ~ (x + i <= x)
          /\ (x + i) - x = i
      <4>1. x \in Nat /\ m \in Nat /\ i \in Nat /\ 1 <= i /\ i <= m - x
        BY <1>2, <1>4
      <4> HIDE DEF x
      <4>. QED BY <4>1
    <3>. QED BY <3>1, <1>6, <1>7
  <2>2. m - x <= m
    BY <1>2, <1>4
  <2>. QED BY <2>1, <2>2, <1>3, <1>6, <1>7 DEF Ends
<1>10. IF state.index <= n THEN Len(state.shown) = state.index ELSE Len(state.shown) = n
  BY <1>2, <1>4, <1>5, <1>6, <1>7 DEF m
<1>11. ProposedInv(state, claims)
  BY <1>1, <1>5 DEF AskInv, ProposedInv
<1>12. state.index \in Nat
  BY <1>2, <1>5
<1> HIDE DEF more
<1>13. AskInv(state, claims)
  BY <1>1, <1>3, <1>5, <1>6, <1>8, <1>9, <1>10, <1>11, <1>12 DEF AskInv
<1>14. StateInv(state, claims)
  BY <1>5, <1>13 DEF StateInv
<1>. QED BY <1>1, <1>14, OneAgentMoves DEF SecretsInv

LEMMA ReceiveKeeps ==
    ASSUME SecretsInv, NEW a \in Agents, Receive(a)
    PROVE  SecretsInv'
<1> DEFINE old == agent[a]
           After(r) == [old EXCEPT !.at = "items", !.response = r,
                                   !.items = Parsed(r, old.batch)]
<1>1. /\ old.at = "wait" /\ AskInv(old, claims) /\ UNCHANGED <<strings, claims>>
      /\ \E r \in Responses : Goto(a, After(r))
  BY DEF Receive, SecretsInv, StateInv
<1>2. PICK r \in Responses : Goto(a, After(r))
  BY <1>1
<1> DEFINE state == After(r)
<1>3. /\ DOMAIN state = DOMAIN old /\ state.at = "items" /\ state.response = r
      /\ state.items = Parsed(r, old.batch) /\ state.batch = old.batch
      /\ state.index = old.index /\ state.shown = old.shown
      /\ state.candidates = old.candidates /\ state.skipped = old.skipped
      /\ state.there = old.there /\ state.had = old.had /\ state.proposed = old.proposed
  BY <1>1 DEF AskInv
<1>4. /\ Parsed(r, old.batch) \subseteq Nat
      /\ \A i \in Parsed(r, old.batch) :
            /\ r[i].index \in 0 .. (Len(old.batch) - 1)
            /\ r[i].predicate \in Predicates
  <2>1. CASE r = Garbage
    BY <2>1 DEF Parsed
  <2>2. CASE r # Garbage
    <3>1. /\ r \in Seq(ToSet(r))
          /\ \A i \in DOMAIN r : r[i] # Odd => r[i].predicate \in Predicates
      BY <2>2, AgentAssumption DEF Predicates
    <3>2. DOMAIN r \subseteq Nat
      <4>1. DOMAIN r = 1 .. Len(r) /\ Len(r) \in Nat
        BY <3>1, LenProperties
      <4>. QED BY <4>1
    <3>. QED BY <2>2, <3>1, <3>2 DEF Parsed, Valid
  <2>. QED BY <2>1, <2>2
<1> HIDE DEF state
<1>5. ProposedInv(state, claims)
  BY <1>1, <1>3 DEF AskInv, ProposedInv
<1>6. AskInv(state, claims)
  BY <1>1, <1>3, <1>4, <1>5 DEF AskInv
<1>7. StateInv(state, claims)
  BY <1>3, <1>6 DEF StateInv
<1>. QED BY <1>1, <1>2, <1>7, OneAgentMoves DEF SecretsInv, state

LEMMA RaisingKeeps ==
    ASSUME SecretsInv, NEW a \in Agents, Unavailable(a) \/ FailRun(a)
    PROVE  SecretsInv'
<1> DEFINE state == [at |-> "raised"]
<1>1. Goto(a, state) /\ UNCHANGED <<strings, claims>>
  BY DEF Unavailable, FailRun
<1>2. StateInv(state, claims)
  BY DEF StateInv
<1>. QED BY <1>1, <1>2, OneAgentMoves DEF SecretsInv

LEMMA PassingItemsKeeps ==
    ASSUME SecretsInv, NEW a \in Agents, SkipItem(a) \/ EndBatch(a)
    PROVE  SecretsInv'
<1> DEFINE old == agent[a]
           skipping == [old EXCEPT !.items = OtherItems(old)]
           ending == [old EXCEPT !.at = "batch", !.response = << >>, !.items = {}]
<1>1. /\ old.at = "items" /\ AskInv(old, claims) /\ UNCHANGED <<strings, claims>>
      /\ Goto(a, skipping) \/ Goto(a, ending)
  BY DEF SkipItem, EndBatch, Considered, SecretsInv, StateInv
<1>2. ASSUME NEW state, state \in {skipping, ending}
      PROVE  StateInv(state, claims)
  <2>1. /\ DOMAIN state = DOMAIN old /\ state.at \in {"items", "batch"}
        /\ state.at = "items" => state.items \subseteq old.items /\ state.response = old.response
        /\ state.batch = old.batch /\ state.index = old.index /\ state.shown = old.shown
        /\ state.candidates = old.candidates /\ state.skipped = old.skipped
        /\ state.there = old.there /\ state.had = old.had /\ state.proposed = old.proposed
    BY <1>1, <1>2 DEF AskInv, OtherItems
  <2>2. ProposedInv(state, claims)
    BY <1>1, <2>1 DEF AskInv, ProposedInv
  <2>3. AskInv(state, claims)
    BY <1>1, <2>1, <2>2 DEF AskInv
  <2>. QED BY <2>1, <2>3 DEF StateInv
<1> HIDE DEF skipping, ending
<1>. QED BY <1>1, <1>2, OneAgentMoves DEF SecretsInv

\* The batch is the end of what was shown, so that the string an index of the
\* batch names is the one the model was shown under it; and it is a candidate.
LEMMA ProposeKeeps ==
    ASSUME SecretsInv, NEW a \in Agents, Propose(a)
    PROVE  SecretsInv'
<1> DEFINE old == agent[a]
           item == NextItem(old)
           x == item.index
           k == [string |-> Cited(old, item), predicate |-> item.predicate, by |-> "agent"]
           meant == old.shown[Len(old.shown) - Len(old.batch) + x + 1]
           p == [claim |-> k, meant |-> meant]
           more == Append(old.proposed, p)
           state == [old EXCEPT !.items = OtherItems(old), !.proposed = more]
<1>1. /\ old.at = "items" /\ old.items # {} /\ AskInv(old, claims) /\ UNCHANGED strings
      /\ claims' = claims \cup {k} /\ Goto(a, state)
  BY DEF Propose, Considered, SecretsInv, StateInv
<1>2. x \in 0 .. (Len(old.batch) - 1) /\ item.predicate \in Predicates
  <2>1. Min(old.items) \in old.items
    BY <1>1, LeastPosition DEF AskInv
  <2>. QED BY <1>1, <2>1 DEF AskInv, NextItem
<1>3. /\ Len(old.batch) \in Nat /\ Len(old.shown) \in Nat /\ Len(old.candidates) \in Nat
      /\ DOMAIN old.candidates = 1 .. Len(old.candidates)
      /\ old.candidates \in [1 .. Len(old.candidates) -> T]
      /\ Len(old.batch) <= Len(old.shown) /\ Len(old.shown) <= Len(old.candidates)
      /\ \A i \in 1 .. Len(old.batch) : old.batch[i] = old.shown[Len(old.shown) - Len(old.batch) + i]
      /\ \A i \in 1 .. Len(old.shown) : old.shown[i] = old.candidates[i]
  BY <1>1, LenProperties DEF AskInv, Begins, Ends
<1>4. PICK j \in DOMAIN old.candidates : meant = old.candidates[j] /\ Cited(old, item) = meant
  <2> DEFINE j == Len(old.shown) - Len(old.batch) + x + 1
  <2>1. /\ x + 1 \in 1 .. Len(old.batch) /\ j = Len(old.shown) - Len(old.batch) + (x + 1)
        /\ j \in 1 .. Len(old.shown) /\ j \in 1 .. Len(old.candidates)
    <3> DEFINE lb == Len(old.batch)  ls == Len(old.shown)  lc == Len(old.candidates)
    <3>1. /\ lb \in Nat /\ ls \in Nat /\ lc \in Nat /\ lb <= ls /\ ls <= lc
          /\ x \in Int /\ 0 <= x /\ x <= lb - 1
      BY <1>2, <1>3
    <3> HIDE DEF lb, ls, lc, item
    <3>2. /\ x + 1 \in 1 .. lb
          /\ ls - lb + x + 1 = ls - lb + (x + 1)
          /\ ls - lb + x + 1 \in 1 .. ls
          /\ ls - lb + x + 1 \in 1 .. lc
      BY <3>1
    <3>. QED BY <3>2 DEF lb, ls, lc
  <2> HIDE DEF j, item
  <2>2. old.batch[x + 1] = old.shown[j] /\ old.shown[j] = old.candidates[j]
    <3>1. old.batch[x + 1] = old.shown[Len(old.shown) - Len(old.batch) + (x + 1)]
      BY <1>3, <2>1
    <3>. QED BY <1>3, <2>1, <3>1
  <2>3. meant = old.shown[j] /\ Cited(old, item) = old.batch[x + 1]
    BY DEF j, Cited
  <2>. QED BY <1>3, <2>1, <2>2, <2>3
<1>5. /\ meant \in T /\ k.string = meant /\ ~ Claimed(meant, old.had)
      /\ k = [string |-> meant, predicate |-> item.predicate, by |-> "agent"]
  BY <1>1, <1>3, <1>4 DEF AskInv
<1> HIDE DEF meant, item
<1>6. p \in Proposal
  BY <1>2, <1>5 DEF Proposal
<1>7. \A c \in claims' : c.predicate \in Predicates
  BY <1>1, <1>2 DEF SecretsInv
<1>8. /\ DOMAIN state = DOMAIN old /\ state.at = "items" /\ state.items \subseteq old.items
      /\ state.response = old.response /\ state.proposed = more
      /\ state.batch = old.batch /\ state.index = old.index /\ state.shown = old.shown
      /\ state.candidates = old.candidates /\ state.skipped = old.skipped
      /\ state.there = old.there /\ state.had = old.had
  BY <1>1 DEF AskInv, OtherItems
<1>9. p.claim = k /\ p.meant = meant /\ k \in claims' /\ claims \subseteq claims'
  BY <1>1
<1> HIDE DEF p, k, state
<1>10. ProposedInv(state, claims')
  <2>1. old.proposed \in Seq(Proposal) /\ ProposedInv(old, claims)
    BY <1>1 DEF AskInv, ProposedInv
  <2>2. Len(old.proposed) \in Nat /\ DOMAIN old.proposed = 1 .. Len(old.proposed)
    BY <2>1, LenProperties
  <2>3. /\ more \in Seq(Proposal) /\ Len(more) = Len(old.proposed) + 1
        /\ \A i \in 1 .. Len(old.proposed) : more[i] = old.proposed[i]
        /\ more[Len(old.proposed) + 1] = p
    BY <2>1, <1>6, AppendProperties
  <2> HIDE DEF more
  <2>4. DOMAIN more = 1 .. Len(old.proposed) + 1
    BY <2>3, LenProperties
  <2>5. \A i \in DOMAIN more :
          (i \in DOMAIN old.proposed /\ more[i] = old.proposed[i]) \/ more[i] = p
    BY <2>2, <2>3, <2>4
  <2>6. \A i \in DOMAIN more :
          /\ more[i].claim \in claims'
          /\ more[i].claim.string = more[i].meant
          /\ ~ Claimed(more[i].meant, old.had)
    BY <1>5, <1>9, <2>1, <2>5 DEF ProposedInv
  <2>. QED BY <1>8, <2>3, <2>6 DEF ProposedInv
<1>11. \A s : Claimed(s, claims) => Claimed(s, claims')
  BY <1>9 DEF Claimed
<1>12. AskInv(state, claims')
  BY <1>1, <1>8, <1>9, <1>10, <1>11 DEF AskInv
<1>13. StateInv(state, claims')
  BY <1>8, <1>12 DEF StateInv
<1>14. strings' \subseteq T
  BY <1>1 DEF SecretsInv
<1>. QED BY <1>1, <1>7, <1>9, <1>13, <1>14, OneAgentMoves

\* With no budget left out, the agent has shown what was there: its index is
\* beyond the last candidate.
LEMMA ReturnKeeps ==
    ASSUME SecretsInv, NEW a \in Agents, Return(a)
    PROVE  SecretsInv'
<1> DEFINE old == agent[a]
           c == old.candidates
           s == old.shown
           state == [at |-> "returned", there |-> old.there, had |-> old.had,
                     skipped |-> old.skipped, shown |-> s, proposed |-> old.proposed]
<1>1. /\ Goto(a, state) /\ AskInv(old, claims) /\ UNCHANGED <<strings, claims>>
      /\ old.index >= Len(c) \/ Spent(old)
  BY DEF Return, SecretsInv, StateInv
<1>2. /\ s \in Seq(T) /\ DOMAIN s = 1 .. Len(s) /\ Len(s) \in Nat
      /\ DOMAIN c = 1 .. Len(c) /\ Len(c) \in Nat /\ Len(s) <= Len(c)
      /\ \A i \in DOMAIN s : s[i] = c[i]
      /\ old.index \in Nat
      /\ IF old.index <= Len(c) THEN Len(s) = old.index ELSE Len(s) = Len(c)
      /\ Len(old.proposed) \in Nat /\ MaxClaims \in Nat
  BY <1>1, AgentAssumption, LenProperties DEF AskInv, Begins, ProposedInv
<1>3. DOMAIN s \subseteq DOMAIN c
  BY <1>2
<1>4. IsInjective(s) /\ \A i \in DOMAIN s : s[i] \notin old.skipped
  BY <1>1, <1>2, <1>3 DEF AskInv, IsInjective
<1>5. Len(old.proposed) < MaxClaims => Page(old.there) = old.skipped \cup ToSet(s)
  <2>1. SUFFICES ASSUME Len(old.proposed) < MaxClaims
                 PROVE  Page(old.there) = old.skipped \cup ToSet(s)
    OBVIOUS
  <2>2. Len(s) = Len(c)
    BY <1>1, <1>2, <2>1 DEF Spent
  <2>3. ToSet(s) = ToSet(c)
    BY <1>2, <2>2 DEF ToSet
  <2>. QED BY <1>1, <2>3 DEF AskInv
<1>6. ProposedInv(state, claims)
  BY <1>1 DEF AskInv, ProposedInv
<1>a. old.skipped \cup ToSet(s) \subseteq Page(old.there)
  <2>1. ToSet(s) \subseteq ToSet(c)
    BY <1>2, <1>3 DEF ToSet
  <2>. QED BY <1>1, <2>1 DEF AskInv
<1>7. DoneInv(state, claims)
  BY <1>1, <1>2, <1>4, <1>5, <1>6, <1>a DEF DoneInv, AskInv
<1>8. StateInv(state, claims)
  BY <1>7 DEF StateInv
<1>. QED BY <1>1, <1>8, OneAgentMoves DEF SecretsInv

-----------------------------------------------------------------------------
(* What a page leaves out *)

\* Some positions have a greatest.
LEMMA GreatestPosition ==
    ASSUME NEW n \in Nat, NEW S, S \subseteq 1 .. n, S # {}
    PROVE  \E m \in S : \A x \in S : x <= m
<1> DEFINE D == {n - x : x \in S}
<1>1. D \subseteq Nat /\ D # {}
  <2>1. \A x \in S : n - x \in Nat
    OBVIOUS
  <2>. QED BY <2>1
<1>2. PICK d \in D : \A e \in D : d <= e
  <2> HIDE DEF D
  <2>. QED BY <1>1, LeastPosition
<1>3. PICK m \in S : d = n - m
  BY <1>2
<1>4. ASSUME NEW x \in S PROVE x <= m
  <2>1. n - x \in D /\ x \in 1 .. n /\ m \in 1 .. n
    BY <1>4, <1>3
  <2>2. n - m <= n - x
    BY <1>2, <1>3, <2>1
  <2>. QED BY <2>1, <2>2
<1>. QED BY <1>4

LEMMA PlacesFinite ==
    ASSUME NEW P, P \subseteq DOMAIN Texts
    PROVE  IsFiniteSet(P) /\ Cardinality(P) \in Nat
<1>1. IsFiniteSet(DOMAIN Texts)
  <2>1. IsFiniteSet(1 .. Len(Texts))
    BY TextsAre, FS_Interval
  <2>. QED BY <2>1, TextsAre
<1>. QED BY <1>1, FS_Subset, FS_CardinalityType

\* As many strings as places.
LEMMA AsManyTexts ==
    ASSUME NEW P, P \subseteq DOMAIN Texts
    PROVE  Cardinality({Texts[i] : i \in P}) = Cardinality(P)
<1> DEFINE D == {Texts[i] : i \in P}
           f == [i \in P |-> Texts[i]]
<1>1. f \in Bijection(P, D)
  <2>1. f \in [P -> D] /\ \A x, y \in P : f[x] = f[y] => x = y
    BY TextsAre
  <2>2. \A d \in D : \E x \in P : f[x] = d
    OBVIOUS
  <2>. QED BY <2>1, <2>2 DEF Bijection, Injection, Surjection, IsInjective
<1>2. ExistsBijection(P, D)
  BY <1>1 DEF ExistsBijection
<1>. QED BY <1>2, PlacesFinite, FS_Bijection

\* A page is a beginning of what is there, and all of it or a full page.
LEMMA PageIs ==
    ASSUME NEW S, S \subseteq T
    PROVE  LET P == FirstPage(S)
               All == {i \in DOMAIN Texts : Texts[i] \in S}
           IN  /\ P \subseteq All
               /\ \A i \in P, j \in All \ P : i < j
               /\ Cardinality(P) = Min({PageLimit, Cardinality(All)})
<1> DEFINE P == FirstPage(S)
           All == {i \in DOMAIN Texts : Texts[i] \in S}
<1>1. /\ P \subseteq All /\ All \subseteq DOMAIN Texts
      /\ \A i \in All : i \in P <=> Cardinality(Earlier(i, S)) < PageLimit
      /\ \A i \in DOMAIN Texts : Earlier(i, S) = {j \in All : j < i}
  BY DEF FirstPage, Earlier
<1>2. /\ DOMAIN Texts = 1 .. Len(Texts) /\ Len(Texts) \in Nat /\ PageLimit \in Nat \ {0}
      /\ DOMAIN Texts \subseteq Nat
  BY TextsAre, AgentAssumption
<1>3. Cardinality(P) \in Nat /\ Cardinality(All) \in Nat /\ Cardinality(P) <= Cardinality(All)
  BY <1>1, PlacesFinite, FS_Subset
<1> HIDE DEF P, All
<1>4. ASSUME NEW i \in P, NEW j \in All \ P PROVE i < j
  <2>1. SUFFICES ASSUME ~ (i < j) PROVE FALSE
    OBVIOUS
  <2>2. i \in Nat /\ j \in Nat /\ i \in DOMAIN Texts /\ j \in DOMAIN Texts
    BY <1>1, <1>2
  <2>3. Earlier(j, S) \subseteq Earlier(i, S) /\ Earlier(i, S) \subseteq DOMAIN Texts
    BY <1>1, <1>2, <2>1, <2>2
  <2>4. Cardinality(Earlier(j, S)) <= Cardinality(Earlier(i, S))
    BY <2>3, PlacesFinite, FS_Subset
  <2>5. Cardinality(Earlier(j, S)) \in Nat /\ Cardinality(Earlier(i, S)) \in Nat
    BY <2>3, PlacesFinite
  <2>. QED BY <1>1, <1>2, <2>4, <2>5
<1>5. Cardinality(P) <= PageLimit
  <2>1. CASE P = {}
    BY <2>1, <1>2, FS_EmptySet
  <2>2. CASE P # {}
    <3>1. PICK m \in P : \A x \in P : x <= m
      BY <1>1, <1>2, <2>2, GreatestPosition
    <3>2. m \in DOMAIN Texts /\ m \in All /\ Cardinality(Earlier(m, S)) < PageLimit
      BY <1>1, <3>1
    <3>3. Earlier(m, S) = P \ {m}
      <4>1. \A x \in All : x < m => x \in P
        BY <1>1, <1>2, <1>4, <3>1
      <4>. QED BY <1>1, <1>2, <3>1, <3>2, <4>1
    <3>4. Cardinality(P \ {m}) = Cardinality(P) - 1
      BY <1>1, <3>1, PlacesFinite, FS_RemoveElement
    <3>. QED BY <1>2, <1>3, <3>2, <3>3, <3>4
  <2>. QED BY <2>1, <2>2
<1>6. Cardinality(P) = Min({PageLimit, Cardinality(All)})
  <2>1. CASE P = All
    BY <1>2, <1>3, <1>5, <2>1, LesserOfTwo
  <2>2. CASE P # All
    <3>1. All \ P # {} /\ All \ P \subseteq Nat
      BY <1>1, <1>2, <2>2
    <3>2. PICK j \in All \ P : \A x \in All \ P : j <= x
      BY <3>1, LeastPosition
    <3>3. Earlier(j, S) = P
      <4>1. \A x \in All : x < j => x \in P
        BY <1>1, <1>2, <3>1, <3>2
      <4>. QED BY <1>1, <1>2, <1>4, <3>2, <4>1
    <3>4. ~ (Cardinality(P) < PageLimit)
      BY <1>1, <3>2, <3>3
    <3>. QED BY <1>2, <1>3, <1>5, <3>4, LesserOfTwo
  <2>. QED BY <2>1, <2>2
<1>. QED BY <1>1, <1>4, <1>6 DEF P, All

-----------------------------------------------------------------------------
(* The theorems *)

THEOREM SecretsInvariance == Spec => []SecretsInv
<1>1. Init => SecretsInv
  BY DEF Init, SecretsInv, StateInv, Idle
<1>2. SecretsInv /\ [Next]_vars => SecretsInv'
  <2>. SUFFICES ASSUME SecretsInv, [Next]_vars PROVE SecretsInv'
    OBVIOUS
  <2>1. ASSUME NEW s \in ToSet(Texts), Triage(s) PROVE SecretsInv'
    BY <2>1, TriageKeeps DEF T
  <2>2. ASSUME NEW a \in Agents, Start(a) PROVE SecretsInv'
    BY <2>2, StartKeeps
  <2>3. ASSUME NEW a \in Agents, Step(a) PROVE SecretsInv'
    BY <2>3, LookKeeps, StartAskingKeeps, SendPromptKeeps, ReceiveKeeps, RaisingKeeps,
       PassingItemsKeeps, ProposeKeeps, ReturnKeeps DEF Step
  <2>4. CASE UNCHANGED vars
    BY <2>4 DEF vars, SecretsInv
  <2>. QED BY <2>1, <2>2, <2>3, <2>4 DEF Next
<1>. QED BY <1>1, <1>2, PTL DEF Spec

\* A proposal is about the string that the model was shown, under the index it
\* answered, and nothing had been claimed about it when the agent began.
THEOREM ProposalsAreFounded == Spec => []ProposalsAreNew
<1>1. SecretsInv => ProposalsAreNew
  <2>. SUFFICES ASSUME SecretsInv, NEW a \in Agents, NEW p \in Proposals(a)
                PROVE  /\ p.claim \in claims
                       /\ p.claim.string = p.meant
                       /\ ~ Claimed(p.meant, agent[a].had)
    BY DEF ProposalsAreNew
  <2>1. "proposed" \in DOMAIN agent[a] /\ p \in ToSet(agent[a].proposed)
    BY DEF Proposals
  <2>2. ProposedInv(agent[a], claims)
    BY <2>1 DEF SecretsInv, StateInv, LookInv, AskInv, DoneInv
  <2>. QED BY <2>1, <2>2 DEF ProposedInv, ToSet
<1>. QED BY <1>1, SecretsInvariance, PTL

\* An agent that returns with budget left has dealt with all that was there
\* when it began, or with the first PageLimit strings of it, and shows none
\* twice.
THEOREM NobodyIsForgotten == Spec => []NobodyIsOverlooked
<1>1. SecretsInv => NobodyIsOverlooked
  <2>. SUFFICES ASSUME SecretsInv, NEW a \in Agents, agent[a].at = "returned"
                PROVE  LET state == agent[a]
                           dealt == state.skipped \cup ToSet(state.shown)
                       IN
                       /\ IsInjective(state.shown)
                       /\ ToSet(state.shown) \cap state.skipped = {}
                       /\ \A s \in state.skipped : Claimed(s, claims)
                       /\ dealt \subseteq state.there
                       /\ Len(state.proposed) < MaxClaims =>
                          /\ Cardinality(dealt) = Min({PageLimit, Cardinality(state.there)})
                          /\ \A i, j \in DOMAIN Texts :
                              Texts[i] \in dealt /\ Texts[j] \in state.there \ dealt => i < j
    BY DEF NobodyIsOverlooked
  <2> DEFINE state == agent[a]
             there == state.there
             P == FirstPage(there)
             All == {i \in DOMAIN Texts : Texts[i] \in there}
             dealt == state.skipped \cup ToSet(state.shown)
  <2>1. DoneInv(state, claims)
    BY DEF SecretsInv, StateInv
  <2>2. /\ there \subseteq T /\ dealt \subseteq Page(there)
        /\ Len(state.proposed) < MaxClaims => dealt = Page(there)
    BY <2>1 DEF DoneInv
  <2>3. /\ P \subseteq All /\ All \subseteq DOMAIN Texts
        /\ \A i \in P, j \in All \ P : i < j
        /\ Cardinality(P) = Min({PageLimit, Cardinality(All)})
    BY <2>2, PageIs
  <2>4. {Texts[i] : i \in All} = there
    BY <2>2 DEF T, ToSet
  <2>5. /\ Cardinality(Page(there)) = Cardinality(P)
        /\ Cardinality(there) = Cardinality(All)
    BY <2>3, <2>4, AsManyTexts DEF Page
  <2>6. Page(there) \subseteq there
    BY <2>3, <2>4 DEF Page
  <2>7. \A i, j \in DOMAIN Texts :
          Texts[i] \in Page(there) /\ Texts[j] \in there \ Page(there) => i < j
    <3>1. \A i \in DOMAIN Texts : Texts[i] \in Page(there) => i \in P
      BY <2>3, TextsAre DEF Page
    <3>2. \A i \in P : Texts[i] \in Page(there)
      BY DEF Page
    <3>. QED BY <2>3, <3>1, <3>2
  <2> HIDE DEF P, All
  <2>8. Len(state.proposed) < MaxClaims =>
          /\ Cardinality(dealt) = Min({PageLimit, Cardinality(there)})
          /\ \A i, j \in DOMAIN Texts :
              Texts[i] \in dealt /\ Texts[j] \in there \ dealt => i < j
    BY <2>2, <2>3, <2>5, <2>7
  <2>. QED BY <2>1, <2>2, <2>6, <2>8 DEF DoneInv, ToSet
<1>. QED BY <1>1, SecretsInvariance, PTL
=============================================================================
