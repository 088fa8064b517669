------------------------------ MODULE Tracing ------------------------------
(***************************************************************************)
(* What a log of executed blocks says about the functions of a file: the   *)
(* parser's counts (ultron/adapters/qemu/trace.py), the inference of the   *)
(* address the file was loaded at, and the attribution of addresses to     *)
(* functions (ultron/adapters/qemu/__init__.py).  A log is a sequence of   *)
(* addresses; counts are a function from addresses to numbers; a function  *)
(* of the file is a record with start, end and name, and its end is not    *)
(* part of it.                                                             *)
(***************************************************************************)
EXTENDS Integers, SequencesExt

CONSTANTS
    MinimumHits,   \* bound of the code: entries that a load base must explain
    MaxAddresses   \* bound of the code: distinct addresses kept of a log

-----------------------------------------------------------------------------
(* Parsing *)

CountsOf(log) == [a \in ToSet(log) |-> Cardinality({i \in DOMAIN log : log[i] = a})]

\* The most frequent addresses; of equally frequent ones, the first in the log.
Hottest(log) ==
    LET counts == CountsOf(log)
        First(a) == Min({i \in DOMAIN log : log[i] = a})
        order == SetToSortSeq(DOMAIN counts, LAMBDA a, b :
                     counts[a] > counts[b] \/ (counts[a] = counts[b] /\ First(a) < First(b)))
        hottest == ToSet(SubSeq(order, 1, Min({MaxAddresses, Len(order)})))
    IN  [a \in hottest |-> counts[a]]

-----------------------------------------------------------------------------
(* The load base *)

\* How many pairs of an executed address and an entry point are so far apart.
Aligned(addresses, starts, delta) ==
    Cardinality({a \in addresses : a - delta \in starts})

Deltas(addresses, starts) ==
    {d \in {a - s : a \in addresses, s \in starts} : d >= 0}

\* infer_load_base: the deltas that explain most entries, if they explain
\* enough; the code takes one of them, in the order of a hash table.
InferredBases(addresses, starts) ==
    LET deltas == Deltas(addresses, starts)
    IN  {d \in deltas : /\ Aligned(addresses, starts, d) >= MinimumHits
                        /\ \A e \in deltas : Aligned(addresses, starts, e)
                                                <= Aligned(addresses, starts, d)}

\* The base that is used, "unknown" where the inference declines.
BasesFor(given, counts, functions, unknown) ==
    LET inferred == InferredBases(DOMAIN counts, {f.start : f \in functions})
    IN  IF given # unknown THEN {given}
        ELSE IF inferred = {} THEN {unknown} ELSE inferred

\* base or 0
Offset(base, unknown) == IF base = unknown THEN 0 ELSE base

-----------------------------------------------------------------------------
(* Attribution *)

\* The function an address belongs to; of several, the first in the order of
\* starts and ends.  (No two functions have the same range here.)
Holder(functions, addr) ==
    LET around == {r \in functions : r.start <= addr /\ addr < r.end}
    IN  {r \in around : \A q \in around :
            r.start < q.start \/ (r.start = q.start /\ r.end <= q.end)}

\* _attribute: the addresses of a trace that fall into a function.
Inside(counts, functions, offset, f) ==
    {a \in DOMAIN counts : f \in Holder(functions, a - offset)}

HitsIn(counts, addresses) == FoldLeft(LAMBDA n, a : n + counts[a], 0, SetToSeq(addresses))

\* Only a base that was inferred, and is not zero, is less than certain.
ReachConfidence(given, base, unknown) == IF given # unknown \/ base \in {0, unknown} THEN 95 ELSE 85
=============================================================================
