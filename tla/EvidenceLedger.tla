-------------------------- MODULE EvidenceLedger ---------------------------
(***************************************************************************)
(* What the project store promises its readers, with no connections, locks *)
(* or crashes: the committed graph changes only by                         *)
(*   - a whole run becoming visible at once, marked ok;                    *)
(*   - a failed run being noted in the ledger, and nothing else;           *)
(*   - a decision on one claim that exists.                                *)
(* Store is shown to implement this specification.                         *)
(***************************************************************************)
EXTENDS EvidenceGraph

VARIABLE graph

Init == graph = EmptyGraph

PublishRun(r) ==
    /\ Extends(graph, graph', r)
    /\ graph'.runs[r] = "ok"
    /\ Sound(graph')

NoteFailure(r) ==
    /\ graph.runs[r] = "absent"
    /\ graph' = SetRun(graph, r, "failed")

Decide(k, s) ==
    /\ k \in Known(graph)
    /\ graph' = SetStatus(graph, k, s)

Next ==
    \/ \E r \in Runs : PublishRun(r) \/ NoteFailure(r)
    \/ \E k \in Claims, s \in {"accepted", "rejected"} : Decide(k, s)

Spec == Init /\ [][Next]_graph
=============================================================================
