---------------------------- MODULE SecretsAgent ----------------------------
(***************************************************************************)
(* The secrets triage agent (ultron/agents/secrets.py): it takes the first *)
(* PageLimit strings of a query, picks those nothing was claimed about,    *)
(* shows them in batches to a language model, and proposes a claim for     *)
(* each answer it understands, in a run of its own, until its budget is    *)
(* spent.  Several agents and analyses work   *)
(* on one project; a call to the model takes minutes.                      *)
(*                                                                         *)
(* The model is a local server (ultron/agents/backend.py): it answers with *)
(* anything, or the call raises AdapterUnavailable.  A response is Garbage *)
(* (no JSON list) or a sequence of items; an item that a type test refuses *)
(* is Odd.  Confidences are in percent; NaN is the JSON number of that     *)
(* name, which Python accepts.                                             *)
(***************************************************************************)
EXTENDS Integers, SequencesExt

CONSTANTS
    Agents,       \* processes that run the agent
    Texts,        \* the strings a file may have, in the order of a query
    Rules,        \* string -> the predicates the rules of triage flag it with
    Responses,    \* what the model may answer
    Garbage, Odd, NaN,
    MaxClaims, MinConfidence, BatchSize,  \* the arguments of the agent
    PageLimit,    \* rows of its one query for strings, 5000
    MaxStarts     \* bound: how often agents are started

SecretsPredicates == <<"contains_hardcoded_secret", "suspicious_string">>

ASSUME AgentAssumption ==
    /\ Texts \in Seq(ToSet(Texts)) /\ IsInjective(Texts)
    /\ Rules \in [ToSet(Texts) -> SUBSET ToSet(SecretsPredicates)]
    /\ MaxClaims \in Nat /\ MaxStarts \in Nat
    /\ MinConfidence \in 0..100
    \* A list of items, each of which names one of the two predicates or is Odd.
    /\ \A r \in Responses : r # Garbage =>
        /\ r \in Seq(ToSet(r))
        /\ \A i \in DOMAIN r : r[i] # Odd => r[i].predicate \in ToSet(SecretsPredicates)
    \* With 0, or less, the loop over the candidates would not advance.
    /\ BatchSize \in Nat \ {0}
    /\ PageLimit \in Nat \ {0}

VARIABLES
    strings,   \* the string artifacts that are committed
    claims,    \* the committed claims: [string, predicate, by]
    agent,     \* agent -> its local state
    starts     \* calls of run_secrets_triage so far

vars == <<strings, claims, agent, starts>>

-----------------------------------------------------------------------------
Idle == [at |-> "idle"]

Init ==
    /\ strings = {}
    /\ claims = {}
    /\ agent = [a \in Agents |-> Idle]
    /\ starts = 0

\* An analysis commits a string, with what the rules say of it.
Triage(s) ==
    /\ s \notin strings
    /\ strings' = strings \cup {s}
    /\ claims' = claims \cup {[string |-> s, predicate |-> p, by |-> "rules"] : p \in Rules[s]}
    /\ UNCHANGED <<agent, starts>>

Goto(a, state) == agent' = [agent EXCEPT ![a] = state]

Earlier(i, S) == {j \in DOMAIN Texts : j < i /\ Texts[j] \in S}

\* The page is cut off at the PageLimit-th string, whether or not something
\* was claimed about those on it: a later run has the same page.
FirstPage(S) ==
    {i \in DOMAIN Texts : Texts[i] \in S /\ Cardinality(Earlier(i, S)) < PageLimit}

\* The candidates are among the strings of one query, given by their places in
\* its order.  What was there and what had been claimed then is remembered for
\* the properties.
Start(a) ==
    /\ agent[a].at \in {"idle", "returned", "raised"}
    /\ starts < MaxStarts
    /\ starts' = starts + 1
    /\ Goto(a, [at |-> "look", todo |-> FirstPage(strings),
                predicate |-> 1, candidates |-> << >>, skipped |-> {},
                there |-> strings, had |-> claims])
    /\ UNCHANGED <<strings, claims>>

Looked(n) == n = Len(SecretsPredicates)

\* _already_claimed: one query for each predicate, until one finds a claim.
Look(a) ==
    /\ agent[a].at = "look" /\ agent[a].todo # {}
    /\ LET i == Min(agent[a].todo)
           s == Texts[i]
           n == agent[a].predicate
           Advanced == [agent[a] EXCEPT !.todo = @ \ {i}, !.predicate = 1]
       IN  IF \E k \in claims : k.string = s /\ k.predicate = SecretsPredicates[n]
           THEN Goto(a, [Advanced EXCEPT !.skipped = @ \cup {s}])
           ELSE IF Looked(n) THEN Goto(a, [Advanced EXCEPT !.candidates = Append(@, s)])
           ELSE Goto(a, [agent[a] EXCEPT !.predicate = n + 1])
    /\ UNCHANGED <<strings, claims, starts>>

StartAsking(a) ==
    /\ agent[a].at = "look" /\ agent[a].todo = {}
    /\ Goto(a, [at |-> "batch", candidates |-> agent[a].candidates, skipped |-> agent[a].skipped,
                there |-> agent[a].there, had |-> agent[a].had, index |-> 0, batch |-> << >>,
                response |-> << >>, items |-> {}, shown |-> << >>, proposed |-> << >>])
    /\ UNCHANGED <<strings, claims, starts>>

Spent(state) == Len(state.proposed) >= MaxClaims

\* A batch begins one string after its index.
BatchFromNext(state) ==
    SubSeq(state.candidates, state.index + 2,
           Min({state.index + BatchSize, Len(state.candidates)}))

Batch(state) ==
    SubSeq(state.candidates, state.index + 1,
           Min({state.index + BatchSize, Len(state.candidates)}))

NextIndex(state) == state.index + BatchSize

\* The next batch is put into a prompt and sent.
SendPrompt(a) ==
    LET state == agent[a]
    IN  /\ state.at = "batch"
        /\ state.index < Len(state.candidates) /\ ~ Spent(state)
        /\ Goto(a, [state EXCEPT !.at = "wait", !.batch = Batch(state),
                                 !.index = NextIndex(state), !.shown = @ \o Batch(state)])
        /\ UNCHANGED <<strings, claims, starts>>

\* _parse_items: an item needs an index of the batch, a predicate with one of
\* its kinds, and a number.
Valid(item, batch) == item # Odd /\ item.index \in 0..(Len(batch) - 1)

\* The places of the items that are left.
Parsed(response, batch) ==
    IF response = Garbage THEN {}
    ELSE {i \in DOMAIN response : Valid(response[i], batch)}

Receive(a) ==
    /\ agent[a].at = "wait"
    /\ \E r \in Responses :
        Goto(a, [agent[a] EXCEPT !.at = "items", !.response = r,
                                 !.items = Parsed(r, agent[a].batch)])
    /\ UNCHANGED <<strings, claims, starts>>

\* The batch is sent again until the model answers.
UnavailableRetried(a) ==
    LET state == agent[a]
    IN  /\ state.at = "wait"
        /\ Goto(a, [state EXCEPT !.at = "batch", !.index = @ - BatchSize,
                                 !.shown = SubSeq(@, 1, Len(@) - Len(state.batch))])
        /\ UNCHANGED <<strings, claims, starts>>

\* complete times out or is refused: the exception ends the agent, and what
\* it had proposed stays.
Unavailable(a) ==
    /\ agent[a].at = "wait"
    /\ Goto(a, [at |-> "raised"])
    /\ UNCHANGED <<strings, claims, starts>>

\* max(0.0, min(1.0, c)): a comparison with NaN is false, so it is a 1.0.
Clamped(c) == IF c = NaN THEN 100 ELSE Max({0, Min({100, c})})

\* The index is taken for one of all candidates.
CitedOfAll(state, item) == state.candidates[item.index + 1]

Cited(state, item) == state.batch[item.index + 1]

Considered(state) == state.at = "items" /\ state.items # {} /\ ~ Spent(state)

NextItem(state) == state.response[Min(state.items)]

OtherItems(state) == state.items \ {Min(state.items)}

Below(state) == Clamped(NextItem(state).confidence) < MinConfidence

SkipItem(a) ==
    /\ Considered(agent[a]) /\ Below(agent[a])
    /\ Goto(a, [agent[a] EXCEPT !.items = OtherItems(agent[a])])
    /\ UNCHANGED <<strings, claims, starts>>

\* _submit_claim: one run, which commits the claim.  An index is that of the
\* prompt it answers; "meant" is the string the model was shown under it.
Propose(a) ==
    LET state == agent[a]
        item == NextItem(state)
        k == [string |-> Cited(state, item), predicate |-> item.predicate, by |-> "agent"]
        meant == state.shown[Len(state.shown) - Len(state.batch) + item.index + 1]
    IN  /\ Considered(state) /\ ~ Below(state)
        /\ claims' = claims \cup {k}
        /\ Goto(a, [state EXCEPT !.items = OtherItems(state),
                                 !.proposed = Append(@, [claim |-> k, meant |-> meant])])
        /\ UNCHANGED <<strings, starts>>

\* The run cannot begin or commit (a busy database), or the process ends.
FailRun(a) ==
    /\ Considered(agent[a]) /\ ~ Below(agent[a])
    /\ Goto(a, [at |-> "raised"])
    /\ UNCHANGED <<strings, claims, starts>>

\* The items are used up, or the budget is.
EndBatch(a) ==
    /\ agent[a].at = "items"
    /\ agent[a].items = {} \/ Spent(agent[a])
    /\ Goto(a, [agent[a] EXCEPT !.at = "batch", !.response = << >>, !.items = {}])
    /\ UNCHANGED <<strings, claims, starts>>

Return(a) ==
    LET state == agent[a]
    IN  /\ state.at = "batch"
        /\ state.index >= Len(state.candidates) \/ Spent(state)
        /\ Goto(a, [at |-> "returned", there |-> state.there, had |-> state.had,
                    skipped |-> state.skipped, shown |-> state.shown, proposed |-> state.proposed])
        /\ UNCHANGED <<strings, claims, starts>>

Step(a) ==
    \/ Look(a) \/ StartAsking(a) \/ SendPrompt(a)
    \/ Receive(a) \/ Unavailable(a)
    \/ SkipItem(a) \/ Propose(a) \/ FailRun(a)
    \/ EndBatch(a) \/ Return(a)

Next ==
    \/ \E s \in ToSet(Texts) : Triage(s)
    \/ \E a \in Agents : Start(a) \/ Step(a)

Spec == Init /\ [][Next]_vars

\* A call to the model ends by its timeout, a run by the busy timeout.
FairSpec == Spec /\ \A a \in Agents : WF_vars(Step(a))

-----------------------------------------------------------------------------
(* Properties *)

Working(a) == agent[a].at \notin {"idle", "returned", "raised"}

Proposals(a) == IF "proposed" \in DOMAIN agent[a] THEN ToSet(agent[a].proposed) ELSE {}

Claimed(s, K) == \E k \in K : k.string = s

\* What an agent proposes is about the string the model answered for, is
\* committed, and nobody had claimed anything about that string, under either
\* predicate, when the agent began.
ProposalsAreNew ==
    \A a \in Agents : \A p \in Proposals(a) :
        /\ p.claim \in claims
        /\ p.claim.string = p.meant
        /\ ~ Claimed(p.meant, agent[a].had)

\* An agent that returns before its budget is spent has dealt with every
\* string of its page: somebody had claimed something about it, or the model
\* was shown it, once.  What it leaves out of the strings that were there when
\* it began comes after a full page of others.
NobodyIsOverlooked ==
    \A a \in Agents : agent[a].at = "returned" =>
        LET state == agent[a]
            dealt == state.skipped \cup ToSet(state.shown)
        IN  /\ IsInjective(state.shown)
            /\ ToSet(state.shown) \cap state.skipped = {}
            /\ \A s \in state.skipped : Claimed(s, claims)
            /\ dealt \subseteq state.there
            /\ Len(state.proposed) < MaxClaims =>
                /\ Cardinality(dealt) = Min({PageLimit, Cardinality(state.there)})
                /\ \A i, j \in DOMAIN Texts :
                    Texts[i] \in dealt /\ Texts[j] \in state.there \ dealt => i < j

\* An agent ends, with a result or an exception, whatever the model answers.
AgentsEnd == \A a \in Agents : Working(a) ~> ~ Working(a)
=============================================================================
