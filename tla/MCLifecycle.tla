---------------------------- MODULE MCLifecycle ----------------------------
(* Three processes, each of which creates, re-creates, opens or opens      *)
(* read-only.  The build has one migration more than today's, so that the  *)
(* loop of migrate turns twice.                                            *)
EXTENDS Lifecycle

CONSTANTS p1, p2, p3
=============================================================================
