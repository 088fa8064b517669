---------------------------- MODULE MCExecution ----------------------------
(* Four stubs of 16 bytes, one after the other, and a function with blocks *)
(* inside; a file that is loaded where it was linked, or elsewhere         *)
EXTENDS Execution

Stub(n) == [start |-> 16 * n, end |-> 16 * (n + 1), name |-> n]

MCFunctions == {Stub(n) : n \in 1..4} \cup {[start |-> 120, end |-> 160, name |-> 5]}

MCBlocks == {f.start : f \in MCFunctions} \cup {128, 140}
=============================================================================
