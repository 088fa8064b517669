----------------------------- MODULE MCLinking -----------------------------
(* A program that calls two names, which one, two or three libraries export *)
EXTENDS Linking

CONSTANTS app, lib, alt, put, _put, hit

File(o) == [kind |-> "file", object |-> o]
Named(kind, o, n) == [kind |-> kind, object |-> o, name |-> n]
Func(o, n, start, end, size) ==
    [kind |-> "function", object |-> o, name |-> n, start |-> start, end |-> end, size |-> size]
Xref(o, type, from, to) ==
    [kind |-> "xref", object |-> o, type |-> type, from |-> from, to |-> to]
Rows0(rows) == [rows |-> rows, reached |-> << >>]

\* main has its end recorded, stub a size of 0, which is read as one.
main == Func(app, "main", 2, 5, None)
stub == Func(app, "stub", 5, None, 0)

MCStem(name) == IF name = _put THEN put ELSE name

MCAnalyses ==
    {Rows0({File(app), Named("import", app, put), Named("import", app, _put),
            Named("symbol", app, put), main, stub,
            Xref(app, "call", 2, put), Xref(app, "call", 4, put),
            Xref(app, "call", 5, _put), Xref(app, "data", 3, _put)}),
     Rows0({File(lib), Named("export", lib, put), Named("import", lib, put)}),
     Rows0({File(alt), Named("symbol", alt, put), Named("export", alt, _put)}),
     [rows |-> {}, reached |-> [k \in {Reached(main, hit)} |-> 50]],
     [rows |-> {}, reached |-> [k \in {Reached(main, hit), Reached(stub, hit)} |-> 90]]}
=============================================================================
