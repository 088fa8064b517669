----------------------------- MODULE MCReview ------------------------------
(* Review with one agent and two reviewers: a project in which a tool has  *)
(* proposed a claim that comes before the agent's in the order of the      *)
(* queue, and a page of one claim.                                         *)
EXTENDS Review, TLC

CONSTANTS s, u, v, r0, r1, r2, r3, file, tool, agent

MCOwner == file :> {}
MCEvidence == (tool :> {file}) @@ (agent :> {file})
MCSubject == (tool :> {file}) @@ (agent :> {file})
MCNotes == Reviewers \X Claims \X Outcomes
MCOrder == <<tool, agent>>
=============================================================================
