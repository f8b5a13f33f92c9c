------------------------------ MODULE MCClient ------------------------------
(* An instance of Client for TLC.                                          *)
EXTENDS Client, TLC

\* A Go module "mod" with the sub-directories "oth" and "sub", and the libraries
\* "ext" and "ext/s", whose names are both a prefix of a package.  In the graph
\* of the root, g and h are on a cycle.  The graph of oth has g with a callee of
\* its own; that of sub has h, tracked, and reaches g from it, untracked and
\* with other callees than in oth.  x and y are of one package; wrap has none.
CONSTANTS f, g, h, e, x, y, wrap, pm, po, ps, pe, pgo, root, oth, sub, mod, ext, exts

MCPackageOf == f :> pm @@ g :> po @@ h :> ps @@ e :> pe @@ x :> pgo @@ y :> pgo @@ wrap :> None
MCDirectories == <<root, oth, sub>>
MCGraphNodes == root :> {f, g, h, e, x, y, wrap} @@ oth :> {g, x} @@ sub :> {g, h, e, x}
MCCallees == root :> (f :> {g} @@ g :> {h} @@ h :> {g, e} @@ e :> {h, y, wrap} @@ x :> {x} @@ y :> {} @@ wrap :> {x})
          @@ oth :> (g :> {x} @@ x :> {x})
          @@ sub :> (g :> {h, x} @@ h :> {g, e, x} @@ e :> {x} @@ x :> {x})
MCTracked == root :> {pm, po, ps} @@ oth :> {po} @@ sub :> {ps}
MCPrefixedBy == pm :> {mod} @@ po :> {mod} @@ ps :> {mod} @@ pe :> {ext, exts} @@ pgo :> {}
MCNameLength == mod :> 1 @@ ext :> 1 @@ exts :> 2

\* Two resources, in the two orders.
CONSTANTS r1, r2
MCStacks == {<<r1, r2>>, <<r2, r1>>, <<r2>>}

\* A front span a1 handles a request, a2 is a function of it and a3 the call it
\* makes; b1 is what the back service does about it and d1 is of a database it
\* asks.  d2 is of another trace, where the database has another version.
CONSTANTS a1, a2, a3, b1, d1, d2, gone, front, back, db, t1, t2, v1, v2, handle, call3, get, ask

MCTraceOf == [s \in Spans |-> IF s = d2 THEN t2 ELSE t1]
MCService == a1 :> front @@ a2 :> front @@ a3 :> front @@ b1 :> back @@ d1 :> db @@ d2 :> db
MCVersion == [s \in Spans |-> IF s = d2 THEN v2 ELSE v1]
MCName == [s \in Spans |-> IF s \in {d1, d2} THEN ask ELSE get]
MCCaller == [s \in Spans |-> CASE s = a1 -> handle [] s = a3 -> call3 [] OTHER -> Absent]

Complete == a1 :> Absent @@ a2 :> a1 @@ a3 :> a2 @@ b1 :> a3 @@ d1 :> b1 @@ d2 :> Absent
Incomplete == [Complete EXCEPT ![a2] = gone, ![d2] = gone]
Orphaned == [Complete EXCEPT ![b1] = gone, ![d2] = b1]
Cyclic == [Complete EXCEPT ![b1] = d1]
\* The front service calls the back service by other means than RPC.
Plain == [Complete EXCEPT ![b1] = a2]
MCFamilies == {Complete, Incomplete, Orphaned, Cyclic, Plain}

=============================================================================
