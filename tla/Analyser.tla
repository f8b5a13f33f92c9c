------------------------------ MODULE Analyser ------------------------------
(***************************************************************************)
(* The CDN analyser: Process walks the directories of a Go module, builds  *)
(* a call graph from each and registers the functions it finds, callees    *)
(* first.  register recurses, so its frames are a stack here; it writes to *)
(* the symbol it has made, which is an object of its own: a function that  *)
(* is registered again gets a new one in the place of the old.  Go ranges  *)
(* over the nodes of a graph in any order.                                 *)
(***************************************************************************)
EXTENDS CallGraphs, Measures

VARIABLES
    todo,       \* the directories left to walk
    dir,        \* the one whose graph is being registered
    roots,      \* nodes of that graph the loop has yet to look at
    stack,      \* the frames of register, the innermost last
    heap,       \* per symbol object: its Dependencies
    symbols,    \* per function: its symbol object, 0 if it has none
    provided,   \* per module: the packages of its library
    status

vars == <<todo, dir, roots, stack, heap, symbols, provided, status>>

Frame == [function : Functions, object : Nat, out : SUBSET Functions]

Registered == {f \in Functions : symbols[f] # 0}
RegisteredPackages == {PackageOf[f] : f \in Registered}
Dependencies(f) == heap[symbols[f]]

\* What f may call in the graph of d; callees without a package are skipped.
Out(d, f) == {g \in Callees[d][f] : PackageOf[g] # None}

Running == status = "running"

-----------------------------------------------------------------------------
(* parseModule.                                                            *)

\* A directory whose packages do not load ends the analysis.
LoadFails ==
    /\ Running /\ stack = <<>> /\ roots = {} /\ todo # <<>>
    /\ status' = "failed"
    /\ UNCHANGED <<todo, dir, roots, stack, heap, symbols, provided>>

Analyze ==
    /\ Running /\ stack = <<>> /\ roots = {} /\ todo # <<>>
    /\ dir' = Head(todo)
    /\ todo' = Tail(todo)
    /\ roots' = {f \in GraphNodes[dir'] : PackageOf[f] \in Tracked[dir']}
    /\ UNCHANGED <<stack, heap, symbols, provided, status>>

\* Fault: a package is given to every library whose name prefixes it.
AllOwners(p) == PrefixedBy[p]

\* The library of a package: the longest name that prefixes it, if one does.
Owners(p) == {m \in PrefixedBy[p] : \A n \in PrefixedBy[p] : NameLength[n] <= NameLength[m]}

\* register enters a function: its package at the first of its functions, then
\* its symbol, in the place of one it may have.
Enter(f) ==
    /\ stack' = Append(stack, [function |-> f, object |-> Len(heap) + 1, out |-> Out(dir, f)])
    /\ heap' = Append(heap, {})
    /\ symbols' = [symbols EXCEPT ![f] = Len(heap) + 1]
    /\ provided' = IF PackageOf[f] \in RegisteredPackages THEN provided
                   ELSE [m \in Modules |-> IF m \in Owners(PackageOf[f])
                                           THEN provided[m] \cup {PackageOf[f]} ELSE provided[m]]

\* Fault: a function that has a symbol is left as it is.
RegisterRootOnce ==
    /\ Running /\ stack = <<>>
    /\ \E f \in roots : /\ IF symbols[f] = 0 THEN Enter(f)
                            ELSE UNCHANGED <<stack, heap, symbols, provided>>
                        /\ roots' = roots \ {f}
    /\ UNCHANGED <<todo, dir, status>>

\* The loop of parseModule registers a node it tracks, also one that has a
\* symbol by now.
RegisterRoot ==
    /\ Running /\ stack = <<>>
    /\ \E f \in roots : Enter(f) /\ roots' = roots \ {f}
    /\ UNCHANGED <<todo, dir, status>>

-----------------------------------------------------------------------------
(* register, once it has entered.                                          *)

top == stack[Len(stack)]

\* Faults: a callee is looked for by its package only; it is registered again
\* unless its dependencies are known.
MustRegisterPackage(g) == PackageOf[g] \notin RegisteredPackages
MustRegisterEmpty(g) == IF symbols[g] = 0 THEN TRUE ELSE Dependencies(g) = {}

MustRegister(g) == symbols[g] = 0

\* The edges have an order; any of them may be the next.
RegisterCallee ==
    /\ Running /\ stack # <<>>
    /\ \E g \in top.out : MustRegister(g) /\ Enter(g)
    /\ UNCHANGED <<todo, dir, roots, status>>

\* The callee is a dependency once it is registered.
AddDependency ==
    /\ Running /\ stack # <<>>
    /\ \E g \in top.out :
          /\ ~MustRegister(g)
          /\ heap' = [heap EXCEPT ![top.object] = @ \cup {g}]
          /\ stack' = [stack EXCEPT ![Len(stack)].out = @ \ {g}]
    /\ UNCHANGED <<todo, dir, roots, symbols, provided, status>>

Return ==
    /\ Running /\ stack # <<>> /\ top.out = {}
    /\ stack' = SubSeq(stack, 1, Len(stack) - 1)
    /\ UNCHANGED <<todo, dir, roots, heap, symbols, provided, status>>

\* Process ends with removeEmpty, which drops libraries that provide nothing.
Processed ==
    /\ Running /\ stack = <<>> /\ roots = {} /\ todo = <<>>
    /\ status' = "processed"
    /\ UNCHANGED <<todo, dir, roots, stack, heap, symbols, provided>>

Libraries == {m \in Modules : provided[m] # {}}

\* The packages of the Go library: those that no library prefixes (Export).
Core == {p \in RegisteredPackages : PrefixedBy[p] \cap Libraries = {}}

Init ==
    /\ todo = Directories /\ dir = None /\ roots = {} /\ stack = <<>>
    /\ heap = <<>>
    /\ symbols = [f \in Functions |-> 0]
    /\ provided = [m \in Modules |-> {}]
    /\ status = "running"

Next == Analyze \/ LoadFails \/ RegisterRoot \/ RegisterCallee \/ AddDependency \/ Return \/ Processed

Spec == Init /\ [][Next]_vars
-----------------------------------------------------------------------------
(* Properties.                                                             *)

\* What is left: directories, nodes of the graph, functions without a symbol,
\* callees of the frames, frames.
Pending == UNION {{<<i, g>> : g \in stack[i].out} : i \in DOMAIN stack}
Measure == <<IF Running THEN 1 ELSE 0, Len(todo), Cardinality(roots),
             Cardinality(Functions \ Registered), Cardinality(Pending), Len(stack)>>

TypeOK ==
    /\ todo \in Seq(DOMAIN GraphNodes)
    /\ dir \in DOMAIN GraphNodes \cup {None}
    /\ roots \subseteq Functions
    /\ stack \in Seq(Frame)
    /\ heap \in Seq(SUBSET Functions)
    /\ symbols \in [Functions -> 0..Len(heap)]
    /\ provided \in [Modules -> SUBSET Packages]
    /\ status \in {"running", "processed", "failed"}

\* Export matches the callees of a symbol among the symbols it has written, and
\* a callee it does not find is lost without an error: at no time has a symbol a
\* dependency that has no symbol, also while a cycle is being registered.
CalleesAreRegistered == \A f \in Registered : Dependencies(f) \subseteq Registered

\* Functions that call each other do not make register recurse without end:
\* no more frames than functions.
RecursionIsBounded == Len(stack) <= Cardinality(Functions)

\* The directories whose loop registers f.
TrackedBy(f) == {i \in DOMAIN Directories :
                    f \in GraphNodes[Directories[i]] /\ PackageOf[f] \in Tracked[Directories[i]]}

\* A graph sees the implementations its program loads, so the callees of a
\* function differ from graph to graph.  Whatever the order of registration, a
\* symbol ends with all the callees of one graph, never half of them and never
\* those of two.  Where directories track the function it is the graph of the
\* last of these, also when a later graph has the function and reaches it from
\* what it tracks itself.
DependenciesAreOfOneGraph ==
    status = "processed" => \A f \in Functions :
        /\ TrackedBy(f) # {} => f \in Registered
        /\ f \in Registered => \E i \in DOMAIN Directories :
              /\ f \in GraphNodes[Directories[i]]
              /\ Dependencies(f) = Out(Directories[i], f)
              /\ TrackedBy(f) # {} => i \in TrackedBy(f)
              /\ \A j \in TrackedBy(f) : j <= i

\* register looks for the longest prefix among all modules and Export for any
\* prefix among those that are left: between them every package is exported
\* once, by one library or as a part of Go.
ExportedOnce ==
    status = "processed" => \A p \in RegisteredPackages :
        LET owners == {m \in Modules : p \in provided[m]}
        IN  IF p \in Core THEN owners = {} ELSE \E m \in Modules : owners = {m}

=============================================================================
