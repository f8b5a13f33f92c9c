-------------------------------- MODULE CDN --------------------------------
(***************************************************************************)
(* The CDN service: CreateLibrary exports the analysis of a Go module to   *)
(* Neo4j, Reset deletes what was exported, RetrieveLibrary and             *)
(* RetrieveSymbolCallGraphDependencies read it back.                       *)
(*                                                                         *)
(* Calls are goroutines of the gRPC server; each of their transactions is  *)
(* a step.  An export takes 3 transactions per library and one more per    *)
(* package: other calls run between any two of them, any of them may fail  *)
(* and the server may be killed.  What is committed stays committed.       *)
(*                                                                         *)
(* An analysis (Analyser.Process) is an input: the libraries of a module's *)
(* go.mod that own packages, their packages, the symbols of these and the  *)
(* calls between symbols.  A package is the set of its symbols.            *)
(***************************************************************************)
EXTENDS Bulks

CONSTANTS
    Symbols,    \* symbol identities, which hold no version
    Libraries,  \* names with a version
    Analyses,   \* results of Process for the modules that clients submit
    Workers,    \* goroutines that serve calls
    Faults,     \* whether transactions fail and the server is killed at times
    Calls,      \* the calls clients make, and make again
    Referable,  \* bound: the nodes that Alg4 may relate to its own
    None

ASSUME AnalysesAssumption ==
    /\ \A a \in Analyses :
          /\ a.root \in Libraries
          /\ a.core \in DOMAIN a.packages
          /\ DOMAIN a.packages \subseteq Libraries
          /\ a.packages \in [DOMAIN a.packages -> SUBSET (SUBSET Symbols)]
          /\ a.calls \subseteq Symbols \X Symbols
    /\ None \notin Libraries \cup Symbols

ASSUME FaultsAssumption == Faults \in BOOLEAN

CreateJob(a) == [kind |-> "create", analysis |-> a]
RetrieveJob(s) == [kind |-> "retrieve", symbol |-> s]
ResetJob == [kind |-> "reset"]
NoJob == [kind |-> "none"]
Jobs == {CreateJob(a) : a \in Analyses} \cup {RetrieveJob(s) : s \in Symbols} \cup {ResetJob}

ASSUME CallsAssumption == Calls \subseteq Jobs /\ Referable \subseteq Libraries \cup Symbols

VARIABLES
    libraries, symbols, \* the Library and Symbol nodes
    provides,           \* the PROVIDES relationships
    dependencies,       \* the CallGraphDependency nodes, CALLER and CALLEES
    foreign,            \* nodes that relationships of Alg4 touch
    pc, job,            \* per handler: its next transaction, its call
    lib, todo, created, packages,  \* per handler: the loops of Export
    merr,               \* per handler: an error is collected
    answer,             \* per handler: the symbols it answers with
    overlaps            \* history: the kinds of calls that ran beside it

graph == <<libraries, symbols, provides, dependencies, foreign>>
loops == <<lib, todo, created, packages>>
vars == <<graph, pc, job, loops, merr, answer, overlaps>>

\* CallGraphDependency nodes carry no property: two of them with the same
\* relationships are one here.  Reset takes the relationships first.
Dependency == [caller : Symbols \cup {None}, callees : SUBSET Symbols]

SymbolsOf(a, l) == UNION a.packages[l]
ModulesOf(a) == DOMAIN a.packages \ {a.core}

At(w, step) == pc[w] = step
Goto(w, step) == pc' = [pc EXCEPT ![w] = step]
Kinds == {"create", "retrieve", "reset", "alg4"}
Running == {w \in Workers : pc[w] # "idle"}

\* A call of kind k begins: the calls that run have it beside them.
Beside(k) == [v \in Workers |-> IF v \in Running THEN overlaps[v] \cup {k} ELSE overlaps[v]]

-----------------------------------------------------------------------------
(* CreateLibrary: Export, then retrieveLibrary.                            *)

Start(w, j) ==
    /\ At(w, "idle")
    /\ job' = [job EXCEPT ![w] = j]
    /\ Goto(w, CASE j.kind = "create"   -> "coreExists"
                 [] j.kind = "retrieve" -> "retrieveSymbol"
                 [] j.kind = "reset"    -> "trashProvides")
    /\ overlaps' = [Beside(j.kind) EXCEPT ![w] = {job[v].kind : v \in Running}]
    /\ UNCHANGED <<graph, loops, merr, answer>>

\* Where Export is with modules t left to look at and modules c created.
AfterNodes(t, c) == IF t # {} THEN "nodes" ELSE IF c # {} THEN "relations" ELSE "retrieve"

\* libraryExists for the core library; a core that exists is not completed.
CoreExists(w) ==
    LET a == job[w].analysis
    IN  /\ At(w, "coreExists")
        /\ todo' = [todo EXCEPT ![w] = ModulesOf(a)]
        /\ IF a.core \in libraries
           THEN Goto(w, AfterNodes(ModulesOf(a), {})) /\ UNCHANGED lib
           ELSE Goto(w, "upsertLibrary") /\ lib' = [lib EXCEPT ![w] = a.core]
        /\ UNCHANGED <<graph, job, created, packages, merr, answer, overlaps>>

\* libraryExists for a module, in the order the map of modules is ranged over.
\* A module that exists is skipped, with its symbols and its calls.
LibraryExists(w) ==
    \E l \in todo[w] :
        /\ At(w, "nodes")
        /\ IF l \in libraries
           THEN LET t == todo[w] \ {l}
                IN  /\ Goto(w, AfterNodes(t, created[w]))
                    /\ todo' = [todo EXCEPT ![w] = IF t = {} THEN created[w] ELSE t]
                    /\ UNCHANGED <<lib, created>>
           ELSE /\ Goto(w, "upsertLibrary")
                /\ todo' = [todo EXCEPT ![w] = @ \ {l}]
                /\ lib' = [lib EXCEPT ![w] = l]
                /\ created' = [created EXCEPT ![w] = @ \cup {l}]
        /\ UNCHANGED <<graph, job, packages, merr, answer, overlaps>>

\* MERGE under a uniqueness constraint: nothing is duplicated.
UpsertLibrary(w) ==
    /\ At(w, "upsertLibrary")
    /\ libraries' = libraries \cup {lib[w]}
    /\ Goto(w, "symbols")
    /\ UNCHANGED <<symbols, provides, dependencies, foreign, job, loops, merr, answer, overlaps>>

\* What a library's symbols become, if writing them is a success; where Export
\* goes next.
WriteSymbols(w, written, provided) ==
    LET a == job[w].analysis
        deps == lib[w] = a.core /\ a.packages[lib[w]] # {}
    IN  /\ symbols' = symbols \cup written
        /\ provides' = provides \cup (provided \X written)
        /\ Goto(w, IF deps THEN "coreRelations" ELSE AfterNodes(todo[w], created[w]))
        /\ lib' = [lib EXCEPT ![w] = IF deps THEN @ ELSE None]
        /\ packages' = [packages EXCEPT ![w] = IF deps THEN a.packages[lib[w]] ELSE {}]
        /\ todo' = [todo EXCEPT ![w] = IF ~deps /\ @ = {} THEN created[w] ELSE @]
        /\ UNCHANGED <<libraries, dependencies, foreign, job, created, merr, answer, overlaps>>

NewSymbols(w) == SymbolsOf(job[w].analysis, lib[w])

\* Faults: a MERGE instead of the CREATE; a clash that is not reported; a
\* library that is not matched.
MergeSymbols(w) ==
    At(w, "symbols") /\ WriteSymbols(w, NewSymbols(w), {lib[w]} \cap libraries)
BulkUpsertSymbolsOrNone(w) ==
    /\ At(w, "symbols")
    /\ WriteSymbols(w, IF NewSymbols(w) \cap symbols # {} THEN {} ELSE NewSymbols(w),
                    {lib[w]} \cap libraries)
BulkUpsertSymbolsUnmatched(w) ==
    /\ At(w, "symbols")
    /\ NewSymbols(w) \cap symbols = {}
    /\ WriteSymbols(w, NewSymbols(w), {lib[w]})

\* bulkUpsertSymbols CREATEs every symbol, then matches the library: without
\* it (a Reset came in between) the symbols are left without a provider.
BulkUpsertSymbols(w) ==
    /\ At(w, "symbols")
    /\ NewSymbols(w) \cap symbols = {}
    /\ WriteSymbols(w, NewSymbols(w), {lib[w]} \cap libraries)

\* A symbol that exists already, provided by any library or by none, breaks the
\* uniqueness constraint: the transaction is undone, the library stays.
SymbolClash(w) ==
    /\ At(w, "symbols")
    /\ NewSymbols(w) \cap symbols # {}
    /\ Goto(w, "failed")
    /\ UNCHANGED <<graph, job, loops, merr, answer, overlaps>>

\* The callees that the rows of a package give to one of its symbols: a row
\* counts only if both its symbols are in the graph.
RowsBackwards(a, s) == {t \in symbols : s \in symbols /\ <<t, s>> \in a.calls}  \* fault
RowsOf(a, s) == {t \in symbols : s \in symbols /\ <<s, t>> \in a.calls}

\* bulkUpsertCallGraphDependencies for one package.  The whole query reads
\* before it writes: a symbol without a dependency gets one per callee.
WithRows(a, p) ==
    LET known == {s \in p : \E d \in dependencies : d.caller = s}
    IN  {IF d.caller \in known THEN [d EXCEPT !.callees = @ \cup RowsOf(a, d.caller)] ELSE d :
            d \in dependencies}
        \cup UNION {{[caller |-> s, callees |-> {t}] : t \in RowsOf(a, s)} : s \in p \ known}

\* Fault: the errors that the packages collected are not returned.
AfterPackageRegardless(w, l, rest, failed) ==
    LET left == todo[w] \ {l}
    IN  /\ packages' = [packages EXCEPT ![w] = rest]
        /\ lib' = [lib EXCEPT ![w] = IF rest = {} THEN None ELSE l]
        /\ merr' = [merr EXCEPT ![w] = failed]
        /\ IF rest # {} THEN UNCHANGED <<pc, todo>>
           ELSE IF At(w, "coreRelations")
                THEN Goto(w, AfterNodes(todo[w], {})) /\ UNCHANGED todo
                ELSE /\ Goto(w, IF left = {} THEN "retrieve" ELSE "relations")
                     /\ todo' = [todo EXCEPT ![w] = left]

\* The loop over the packages of library l, whose packages rest are left.
\* It ends with the errors it has collected; l leaves the loop over libraries.
AfterPackage(w, l, rest, failed) ==
    LET left == todo[w] \ {l}
    IN  /\ packages' = [packages EXCEPT ![w] = rest]
        /\ lib' = [lib EXCEPT ![w] = IF rest = {} THEN None ELSE l]
        /\ merr' = [merr EXCEPT ![w] = failed]
        /\ IF rest # {} THEN UNCHANGED <<pc, todo>>
           ELSE IF failed THEN Goto(w, "failed") /\ UNCHANGED todo
           ELSE IF At(w, "coreRelations")
                THEN /\ Goto(w, AfterNodes(todo[w], {}))
                     /\ UNCHANGED todo
                ELSE /\ Goto(w, IF left = {} THEN "retrieve" ELSE "relations")
                     /\ todo' = [todo EXCEPT ![w] = left]

\* The packages that may be next: of the library in progress, else of any left.
NextPackages(w) ==
    IF packages[w] # {} THEN {<<lib[w], packages[w]>>}
    ELSE {<<l, job[w].analysis.packages[l]>> : l \in todo[w]}

BulkUpsertDependencies(w) ==
    /\ pc[w] \in {"coreRelations", "relations"}
    /\ \E n \in NextPackages(w) : \E p \in n[2] :
          /\ dependencies' = WithRows(job[w].analysis, p)
          /\ AfterPackage(w, n[1], n[2] \ {p}, merr[w])
    /\ UNCHANGED <<libraries, symbols, provides, foreign, job, created, answer, overlaps>>

\* retrieveLibrary ends CreateLibrary.
RetrieveLibrary(w) ==
    LET root == job[w].analysis.root
    IN  /\ At(w, "retrieve")
        /\ IF root \in libraries
           THEN /\ Goto(w, "done")
                /\ answer' = [answer EXCEPT ![w] = {s \in symbols : <<root, s>> \in provides}]
           ELSE Goto(w, "failed") /\ UNCHANGED answer
        /\ UNCHANGED <<graph, job, loops, merr, overlaps>>

\* The relationship types that exports write and the ones the query matches.
WrittenTypes == <<"CALLER", "CALLEES">>
MatchedTypes == <<"FROM", "TO">>

RetrieveSymbol(w) ==
    LET s == job[w].symbol
    IN  /\ At(w, "retrieveSymbol")
        /\ IF s \in symbols
           THEN /\ Goto(w, "done")
                /\ answer' = [answer EXCEPT ![w] = IF WrittenTypes = MatchedTypes
                      THEN UNION {d.callees : d \in {e \in dependencies : e.caller = s}} ELSE {}]
           ELSE Goto(w, "failed") /\ UNCHANGED answer
        /\ UNCHANGED <<graph, job, loops, merr, overlaps>>

-----------------------------------------------------------------------------
(* Reset: four Trash calls, all of which run whatever the others return.   *)

AfterTrash(step) == CASE step = "trashProvides" -> "trashCaller"
                      [] step = "trashCaller"   -> "trashCallees"
                      [] step = "trashCallees"  -> "trashNodes"

\* paginated stops with the first transaction that deletes nothing.
EndOfTrash(w, D) == IF D = {} THEN Goto(w, AfterTrash(pc[w])) ELSE UNCHANGED pc

TrashProvides(w) ==
    /\ At(w, "trashProvides")
    /\ \E D \in Batches(provides) : provides' = provides \ D /\ EndOfTrash(w, D)
    /\ UNCHANGED <<libraries, symbols, dependencies, foreign, job, loops, merr, answer, overlaps>>

TrashCaller(w) ==
    /\ At(w, "trashCaller")
    /\ \E D \in Batches({d \in dependencies : d.caller # None}) :
          /\ dependencies' = (dependencies \ D) \cup {[d EXCEPT !.caller = None] : d \in D}
          /\ EndOfTrash(w, D)
    /\ UNCHANGED <<libraries, symbols, provides, foreign, job, loops, merr, answer, overlaps>>

TrashCallees(w) ==
    /\ At(w, "trashCallees")
    /\ \E D \in Batches({r \in dependencies \X Symbols : r[2] \in r[1].callees}) :
          /\ dependencies' = {[d EXCEPT !.callees = {t \in @ : <<d, t>> \notin D}] : d \in dependencies}
          /\ EndOfTrash(w, D)
    /\ UNCHANGED <<libraries, symbols, provides, foreign, job, loops, merr, answer, overlaps>>

\* The nodes that any relationship still touches.
Related == foreign \cup {p[1] : p \in provides} \cup {p[2] : p \in provides}
           \cup {d.caller : d \in dependencies} \cup UNION {d.callees : d \in dependencies}
           \cup {d \in dependencies : d.caller # None \/ d.callees # {}}

\* The nodes one transaction takes, and what it leaves.
NodeBatches == {b \in (SUBSET libraries) \X (SUBSET symbols) \X (SUBSET dependencies) :
    LET n == Cardinality(b[1]) + Cardinality(b[2]) + Cardinality(b[3])
    IN  n = Limit \/ (n <= Limit /\ b = <<libraries, symbols, dependencies>>)}
DeleteNodes(b) == /\ (b[1] \cup b[2] \cup b[3]) \cap Related = {}
                  /\ libraries' = libraries \ b[1]
                  /\ symbols' = symbols \ b[2]
                  /\ dependencies' = dependencies \ b[3]

\* Fault: a single transaction instead of the loop.
TrashNodesOnce(w) ==
    /\ At(w, "trashNodes")
    /\ \E b \in NodeBatches : DeleteNodes(b)
    /\ Goto(w, IF merr[w] THEN "failed" ELSE "done")
    /\ UNCHANGED <<provides, foreign, job, loops, merr, answer, overlaps>>

TrashNodes(w) ==
    /\ At(w, "trashNodes")
    /\ \E b \in NodeBatches :
          /\ DeleteNodes(b)
          /\ IF b # <<{}, {}, {}>> THEN UNCHANGED pc
             ELSE Goto(w, IF merr[w] THEN "failed" ELSE "done")
    /\ UNCHANGED <<provides, foreign, job, loops, merr, answer, overlaps>>

\* DELETE refuses a node that a relationship touches: the transaction fails.
TrashRefused(w) ==
    /\ At(w, "trashNodes")
    /\ \E b \in NodeBatches : (b[1] \cup b[2] \cup b[3]) \cap Related # {}
    /\ Goto(w, "failed")
    /\ UNCHANGED <<graph, job, loops, merr, answer, overlaps>>

-----------------------------------------------------------------------------
(* Answers, errors, crashes, and Alg4 next door.                           *)

Respond(w) ==
    /\ pc[w] \in {"done", "failed"}
    /\ Goto(w, "idle")
    /\ job' = [job EXCEPT ![w] = NoJob]
    /\ lib' = [lib EXCEPT ![w] = None]
    /\ todo' = [todo EXCEPT ![w] = {}]
    /\ created' = [created EXCEPT ![w] = {}]
    /\ packages' = [packages EXCEPT ![w] = {}]
    /\ merr' = [merr EXCEPT ![w] = FALSE]
    /\ answer' = [answer EXCEPT ![w] = {}]
    /\ overlaps' = [overlaps EXCEPT ![w] = {}]
    /\ UNCHANGED graph

\* A package's transaction fails: the error is collected, the loop goes on.
PackageError(w) ==
    /\ Faults
    /\ pc[w] \in {"coreRelations", "relations"}
    /\ \E n \in NextPackages(w) : \E p \in n[2] : AfterPackage(w, n[1], n[2] \ {p}, TRUE)
    /\ UNCHANGED <<graph, job, created, answer, overlaps>>

\* A Trash fails: the error is combined with those of the Trashes that follow.
TrashError(w) ==
    /\ Faults
    /\ pc[w] \in {"trashProvides", "trashCaller", "trashCallees"}
    /\ Goto(w, AfterTrash(pc[w]))
    /\ merr' = [merr EXCEPT ![w] = TRUE]
    /\ UNCHANGED <<graph, job, loops, answer, overlaps>>

\* Any other error is returned at once; libraryExists panics on it, and the
\* gRPC server recovers the panic into an error.
ReturnError(w) ==
    /\ Faults
    /\ pc[w] \notin {"idle", "done", "failed", "coreRelations", "relations",
                     "trashProvides", "trashCaller", "trashCallees"}
    /\ Goto(w, "failed")
    /\ UNCHANGED <<graph, job, loops, merr, answer, overlaps>>

Crash ==
    /\ Faults
    /\ Running # {}
    /\ pc' = [w \in Workers |-> "idle"]
    /\ job' = [w \in Workers |-> NoJob]
    /\ lib' = [w \in Workers |-> None]
    /\ todo' = [w \in Workers |-> {}]
    /\ created' = [w \in Workers |-> {}]
    /\ packages' = [w \in Workers |-> {}]
    /\ merr' = [w \in Workers |-> FALSE]
    /\ answer' = [w \in Workers |-> {}]
    /\ overlaps' = [w \in Workers |-> {}]
    /\ UNCHANGED graph

\* Alg4 relates a node of the graph to one of its own: THREATENS or SERVES a
\* symbol, SPECIALIZES_INTO a library.  No call removes these relationships.
Refer(n) ==
    /\ n \in (libraries \cup symbols) \ foreign
    /\ foreign' = foreign \cup {n}
    /\ overlaps' = Beside("alg4")
    /\ UNCHANGED <<libraries, symbols, provides, dependencies, pc, job, loops, merr, answer>>

Proceed(w) ==
    \/ CoreExists(w) \/ LibraryExists(w) \/ UpsertLibrary(w) \/ BulkUpsertSymbols(w)
    \/ SymbolClash(w)
    \/ BulkUpsertDependencies(w) \/ RetrieveLibrary(w) \/ RetrieveSymbol(w)
    \/ TrashProvides(w) \/ TrashCaller(w) \/ TrashCallees(w) \/ TrashNodes(w)
    \/ TrashRefused(w) \/ Respond(w)

Init ==
    /\ libraries = {} /\ symbols = {} /\ provides = {} /\ dependencies = {} /\ foreign = {}
    /\ pc = [w \in Workers |-> "idle"]
    /\ job = [w \in Workers |-> NoJob]
    /\ lib = [w \in Workers |-> None]
    /\ todo = [w \in Workers |-> {}]
    /\ created = [w \in Workers |-> {}]
    /\ packages = [w \in Workers |-> {}]
    /\ merr = [w \in Workers |-> FALSE]
    /\ answer = [w \in Workers |-> {}]
    /\ overlaps = [w \in Workers |-> {}]

Next ==
    \/ \E w \in Workers : \/ \E j \in Calls : Start(w, j)
                          \/ Proceed(w)
                          \/ PackageError(w) \/ TrashError(w) \/ ReturnError(w)
    \/ Crash
    \/ \E n \in Referable : Refer(n)

Spec == Init /\ [][Next]_vars
-----------------------------------------------------------------------------
(* Properties.                                                             *)

Steps == {"idle", "coreExists", "nodes", "upsertLibrary", "symbols", "coreRelations",
          "relations", "retrieve", "retrieveSymbol", "trashProvides", "trashCaller",
          "trashCallees", "trashNodes", "done", "failed"}

GraphOK ==
    /\ libraries \subseteq Libraries
    /\ symbols \subseteq Symbols
    /\ provides \subseteq libraries \X symbols
    /\ dependencies \subseteq Dependency
    /\ foreign \subseteq libraries \cup symbols

LoopsOK(w) ==
    IF job[w].kind = "create"
    THEN /\ todo[w] \cup created[w] \subseteq ModulesOf(job[w].analysis)
         /\ lib[w] \in DOMAIN job[w].analysis.packages \cup {None}
         /\ packages[w] # {} => packages[w] \subseteq job[w].analysis.packages[lib[w]]
    ELSE todo[w] = {} /\ created[w] = {} /\ lib[w] = None /\ packages[w] = {}

HandlersOK ==
    /\ pc \in [Workers -> Steps]
    /\ job \in [Workers -> Calls \cup {NoJob}]
    /\ DOMAIN lib = Workers /\ DOMAIN todo = Workers
    /\ DOMAIN created = Workers /\ DOMAIN packages = Workers
    /\ \A w \in Workers : LoopsOK(w)
    /\ merr \in [Workers -> BOOLEAN]
    /\ answer \in [Workers -> SUBSET Symbols]
    /\ overlaps \in [Workers -> SUBSET Kinds]

\* The graph holds nodes and relationships of the labels the queries name, and
\* every handler's loops range over the libraries of its own analysis.
TypeOK == GraphOK /\ HandlersOK

\* Symbol identities hold no version, yet a symbol never comes to be provided
\* by two libraries, whichever exports race, fail, are repeated or are reset.
OneProvider == \A p, q \in provides : p[2] = q[2] => p[1] = q[1]

\* Every edge of the graph is a call of some analysed module, although exports
\* look up the dependency of a caller before they write to it, and race for it.
EdgesAreCalls ==
    \A d \in dependencies : d.caller # None =>
        \A t \in d.callees : \E a \in Analyses : <<d.caller, t>> \in a.calls

\* A CreateLibrary that no Reset disturbed and whose Export met no error has
\* exported each module that it found missing: all its symbols, and all the
\* calls among these modules, although other calls export the same modules.
CreatedIsComplete ==
    \A w \in Workers : pc[w] = "retrieve" /\ "reset" \notin overlaps[w] =>
        LET a == job[w].analysis
            new == UNION {SymbolsOf(a, l) : l \in created[w]}
        IN  /\ \A l \in created[w] : {l} \X SymbolsOf(a, l) \subseteq provides
            /\ \A c \in a.calls \cap (new \X new) :
                  \E d \in dependencies : d.caller = c[1] /\ c[2] \in d.callees

\* A Reset that was alone from its call to its answer, and answered without an
\* error, has left nothing of the codebase.
AloneResetEmpties ==
    \A w \in Workers : pc[w] = "done" /\ job[w] = ResetJob /\ overlaps[w] = {} =>
        libraries = {} /\ symbols = {} /\ dependencies = {}

-----------------------------------------------------------------------------
(* What the sources say and the code does not do.                          *)

\* db.go:94: "Don't need to upsert the library and its symbols if already
\* exist".  So an answer lists every symbol of the library it was asked for.
AnswerIsComplete ==
    \A w \in Workers : pc[w] = "done" /\ job[w].kind = "create" =>
        SymbolsOf(job[w].analysis, job[w].analysis.root) \subseteq answer[w]

\* cdn.proto:25: "Returns the symbols one depends upon."
AnswerHasDependencies ==
    \A w \in Workers : pc[w] = "done" /\ job[w].kind = "retrieve" /\ overlaps[w] = {} =>
        \A d \in dependencies : d.caller = job[w].symbol => d.callees \subseteq answer[w]

\* cdn.proto:30: "Reset the global knowledge of a codebase."  Without a fault
\* and with no other call beside it, a Reset does not fail.
AloneResetSucceeds ==
    \A w \in Workers : pc[w] = "failed" /\ job[w] = ResetJob => overlaps[w] # {}

=============================================================================
