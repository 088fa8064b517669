------------------------------ MODULE MCExport ------------------------------
(* Export on a small instance: two engines that both see the file; the      *)
(* second also finds a string in it and claims something about it.         *)
EXTENDS Export, TLC

CONSTANTS mine, other, r1, r2, file, str, k1, k2, n1

MCOwner == (file :> {}) @@ (str :> {file})
MCEvidence == (k1 :> {file}) @@ (k2 :> {str})
MCSubject == (k1 :> {}) @@ (k2 :> {file})

\* The second engine refines the first one's claim, so it runs after it.
MCFinds ==
    (r1 :> [artifacts |-> {file}, claims |-> {k1}, links |-> {}, notes |-> {}]) @@
    (r2 :> [artifacts |-> {file, str}, claims |-> {k2}, links |-> {<<k2, k1>>}, notes |-> {}])

\* Two engines in either order.
MCFindsApart ==
    [MCFinds EXCEPT ![r2].links = {}]

MCStableOnly == {[stable |-> TRUE, annotations |-> TRUE]}

MCOptions ==
    {[stable |-> TRUE, annotations |-> TRUE], [stable |-> FALSE, annotations |-> FALSE]}
=============================================================================
