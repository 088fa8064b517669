------------------------------- MODULE Review -------------------------------
(***************************************************************************)
(* The approval workflow (ultron/review/__init__.py) on top of Store: MCP  *)
(* servers through which agents propose claims, and reviewers who approve  *)
(* or reject them from the command line.                                   *)
(*                                                                         *)
(* A decision is three steps that nothing makes one: the status is read,   *)
(* the status is updated in a transaction of its own, and a run records    *)
(* the annotation that says who decided.  Other processes, a busy database *)
(* and the death of the reviewer's process fall between any two of them.   *)
(*                                                                         *)
(* step[c] says where reviewer c is in _decide:                            *)
(*   ready      no decision under way                                      *)
(*   checked    the claim was read and was proposed                        *)
(*   curated    set_claim_status is done, the run is not open              *)
(*   auditing   in project.run, before annotate                            *)
(*   annotated  in project.run, after annotate                             *)
(*   failing    in project.run, unwinding an exception                     *)
(***************************************************************************)
EXTENDS Store, Sequences, SequencesExt

CONSTANTS
    Reviewers,   \* connections of "ultron review" processes
    AgentRuns,   \* the runs MCP servers mint: their attestations are agents'
    ToolRun,     \* an import that is over when the reviews begin
    ToolClaims,  \* the claims it proposed
    ClaimOrder,  \* all claims as find_claims orders them
    PageLimit    \* its default limit, 100 in the code

Outcomes == {"accepted", "rejected"}

\* An annotation of the workflow names the reviewer, the claim, the outcome.
ASSUME ReviewAssumption ==
    /\ Reviewers \subseteq Conns \ Servers
    /\ AgentRuns \subseteq Runs
    /\ ToolRun \in Runs \ AgentRuns
    /\ ToolClaims \subseteq Claims
    /\ \A k \in ToolClaims : Evidence[k] # {}   \* add_claim refuses any other
    /\ Reviewers \X Claims \X Outcomes \subseteq Notes
    /\ IsInjective(ClaimOrder) /\ ToSet(ClaimOrder) = Claims
    /\ PageLimit \in Nat \ {0}

VARIABLES
    step,      \* where each reviewer is in _decide
    decision,  \* the annotation its decision is to leave, or None
    returned   \* the decisions reported to a reviewer as done

reviewVars == <<step, decision, returned>>
allVars == <<vars, reviewVars>>

\* What an import of every artifact and of the tools' claims has left.
Imported ==
    [EmptyGraph EXCEPT
        !.runs[ToolRun] = "ok",
        !.artifacts = Artifacts,
        !.observed = Artifacts \X {ToolRun},
        !.claims = [k \in Claims |-> IF k \in ToolClaims THEN "proposed" ELSE "absent"],
        !.attested = ToolClaims \X {ToolRun}]

ReviewInit ==
    /\ db = Imported
    /\ pend = db
    /\ lock = None
    /\ pc = [c \in Conns |-> "closed"]
    /\ cur = [c \in Conns |-> None]
    /\ raised = {}
    /\ step = [c \in Reviewers |-> "ready"]
    /\ decision = [c \in Reviewers |-> None]
    /\ returned = {}

-----------------------------------------------------------------------------
(* The queue *)

AgentProposed(g, k) ==
    /\ g.claims[k] = "proposed"
    /\ \E r \in AgentRuns : <<k, r>> \in g.attested

\* pending with its defaults: the page is cut first, the agents' claims are
\* picked from what is left.
Pending(g) ==
    LET proposed == SelectSeq(ClaimOrder, LAMBDA k : g.claims[k] = "proposed")
        page == SubSeq(proposed, 1, IF Len(proposed) < PageLimit
                                    THEN Len(proposed) ELSE PageLimit)
    IN {k \in ToSet(page) : AgentProposed(g, k)}

-----------------------------------------------------------------------------
(* A reviewer *)

At(c, s) == step[c] = s
Become(c, s) == step' = [step EXCEPT ![c] = s]
Target(c) == decision[c][2]
Outcome(c) == decision[c][3]

\* The decision is over, for better or worse.
Done(c) ==
    /\ Become(c, "ready")
    /\ decision' = [decision EXCEPT ![c] = None]

\* A bound of the model: a decision begins only while there is a run id left
\* for it and for those that began before it.
RunIdLeft ==
    Cardinality({c \in Reviewers : step[c] \in {"checked", "curated"}})
        < Cardinality(Runs \ (AgentRuns \cup Minted))

\* get_claim and the test of its status.  A claim that is unknown or already
\* decided is refused with an exception and nothing is written.
Check(c, k, s) ==
    /\ pc[c] = "idle" /\ At(c, "ready") /\ RunIdLeft
    /\ db.claims[k] = "proposed"
    /\ Become(c, "checked")
    /\ decision' = [decision EXCEPT ![c] = <<c, k, s>>]
    /\ UNCHANGED <<vars, returned>>

\* _decide with the order of its two writes swapped: the run is opened and
\* the status is left for later.
ApplyLater(c) ==
    /\ At(c, "checked")
    /\ Become(c, "curated")
    /\ UNCHANGED <<vars, decision, returned>>

Apply(c) ==
    /\ At(c, "checked")
    /\ SetClaimStatus(c, Target(c), Outcome(c))
    /\ Become(c, "curated")
    /\ UNCHANGED <<decision, returned>>

\* The UPDATE waits past the busy timeout, raises, and the command ends.
ApplyBusy(c) ==
    /\ At(c, "checked")
    /\ lock \notin {None, c}
    /\ Goto(c, "closed")
    /\ Done(c)
    /\ UNCHANGED <<db, pend, lock, cur, raised, returned>>

OpenAudit(c) ==
    /\ At(c, "curated")
    /\ Begin(c) /\ cur'[c] \notin AgentRuns
    /\ Become(c, "auditing")
    /\ UNCHANGED <<decision, returned>>

EnterAudit(c) ==
    /\ At(c, "auditing")
    /\ InsertRun(c)
    /\ UNCHANGED reviewVars

AuditBusy(c) ==
    /\ At(c, "auditing")
    /\ InsertRunBusy(c)
    /\ Done(c)
    /\ UNCHANGED returned

WriteNote(c) ==
    /\ At(c, "auditing")
    /\ Annotate(c, decision[c])
    /\ Become(c, "annotated")
    /\ UNCHANGED <<decision, returned>>

\* The Decision built inside the with block and reported from there.
ReturnEarly(c) ==
    /\ At(c, "annotated")
    /\ returned' = returned \cup {decision[c]}
    /\ Done(c)
    /\ Raise(c)

Return(c) ==
    /\ At(c, "annotated")
    /\ Commit(c)
    /\ returned' = returned \cup {decision[c]}
    /\ Done(c)

\* Ctrl-C while the run is open.
Interrupt(c) ==
    /\ step[c] \in {"auditing", "annotated"}
    /\ Raise(c)
    /\ Become(c, "failing")
    /\ UNCHANGED <<decision, returned>>

Unwind(c) ==
    /\ At(c, "failing")
    /\ \/ Rollback(c) /\ UNCHANGED <<step, decision>>
       \/ (RecordFailure(c) \/ RecordFailureBusy(c)) /\ Done(c)
    /\ UNCHANGED returned

\* The process ends, by itself or killed at any point of a decision.
Leave(c) ==
    /\ Stop(c)
    /\ Done(c)
    /\ UNCHANGED returned

Decide(c) ==
    \/ Apply(c) \/ ApplyBusy(c)
    \/ OpenAudit(c) \/ EnterAudit(c) \/ AuditBusy(c)
    \/ WriteNote(c) \/ Return(c) \/ Unwind(c)

Reviewer(c) ==
    \/ Open(c) /\ UNCHANGED reviewVars
    \/ \E k \in Claims, s \in Outcomes : Check(c, k, s)
    \/ Decide(c) \/ Interrupt(c) \/ Leave(c)

-----------------------------------------------------------------------------
(* The agents' side: submit_claim of ultron/mcp/tools.py, one run that     *)
(* proposes one claim                                                      *)

Submit(c) ==
    /\ \/ Open(c) \/ Stop(c)
       \/ Begin(c) /\ cur'[c] \in AgentRuns
       \/ InsertRun(c) \/ InsertRunBusy(c)
       \/ \E k \in Claims :
            /\ \A j \in Claims : <<j, cur[c]>> \notin pend.attested
            /\ AddClaim(c, k)
       \/ \E k \in Claims : <<k, cur[c]>> \in pend.attested /\ Commit(c)
       \/ Raise(c) \/ Rollback(c) \/ RecordFailure(c) \/ RecordFailureBusy(c)
    /\ UNCHANGED reviewVars

ReviewNext ==
    \/ \E c \in Reviewers : Reviewer(c)
    \/ \E c \in Servers : Submit(c)

ReviewSpec == ReviewInit /\ [][ReviewNext]_allVars

-----------------------------------------------------------------------------
(* Safety *)

\* A reviewer who was told that the decision is made finds its annotation in
\* the project for ever: approve and reject return after the run committed.
ReportedMeansRecorded == returned \subseteq db.notes

\* The audit trail never runs ahead of the decisions: a claim an annotation
\* calls accepted or rejected is no longer proposed, although the two writes
\* are separate transactions and agents go on asserting the claim.
NotesFollowDecisions == \A n \in db.notes : db.claims[n[2]] \in Outcomes

\* Two annotations name two outcomes for a claim only when two reviewers had
\* both read it as proposed: nobody decides a claim a second time, because no
\* later assertion of a decided claim puts it back into the queue.
NoReviewerContradictsItself ==
    \A m, n \in db.notes : m[1] = n[1] /\ m[2] = n[2] => m[3] = n[3]

-----------------------------------------------------------------------------
(* What the documentation says and the code does not do *)

\* "Promote a proposed claim to accepted, with an audit trail" (approve): a
\* decided claim nobody is deciding on any more has an annotation that says
\* how it was decided.
AuditTrail ==
    \A k \in Claims :
        db.claims[k] \in Outcomes =>
            \/ \E c \in Reviewers : ~At(c, "ready") /\ Target(c) = k
            \/ \E n \in db.notes : n[2] = k /\ n[3] = db.claims[k]

\* "pending() lists proposed claims with an agent attestation"
\* (docs/architecture.md): an agent's claim that awaits review is in the
\* queue whenever the queue has room for all of them.
AgentClaimsQueued ==
    LET agents == {k \in Claims : AgentProposed(db, k)}
    IN Cardinality(agents) <= PageLimit => agents \subseteq Pending(db)
=============================================================================
