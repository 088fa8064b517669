------------------------------ MODULE MCStore ------------------------------
(* Store on a small instance: an MCP server and a command, one file with   *)
(* one artifact inside it, a claim on each and a claim without evidence.   *)
EXTENDS Store, TLC

CONSTANTS s, p, r1, r2, file, str, k1, k2, k0, n1

MCOwner == (file :> {}) @@ (str :> {file})
MCEvidence == (k1 :> {file}) @@ (k2 :> {str}) @@ (k0 :> {})
MCSubject == (k1 :> {}) @@ (k2 :> {file}) @@ (k0 :> {file})
=============================================================================
