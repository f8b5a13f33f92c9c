# A verification of GoDepGraph

GoDepGraph reconstructs the architecture of a system of systems in a Neo4j
graph and marks what a vulnerability reaches in it.  This directory holds TLA+
models of its services, TLC configurations that check them on small instances,
and proofs that TLAPS checks for every instance.

## The system

| part | state | operations | interacts with |
|---|---|---|---|
| CDN analyser (`api/v1/cdn/analysis.go`) | symbols, their dependencies and the packages of libraries, while one module is analysed | Process: walk the directories, build a call graph from each, register its functions | third-party loaders; its result is what CDN exports |
| CDN (`api/v1/cdn`) | Library, Symbol, CallGraphDependency nodes; PROVIDES, CALLER, CALLEES | CreateLibrary (analyse a Go module, export it, read it back), RetrieveLibrary, RetrieveSymbolCallGraphDependencies, Reset | Neo4j; Alg4 reads its graph and relates its nodes |
| RDG (`api/v1/rdg`) | Asset nodes | CreateStack (parse a Pulumi state, export it), Reset | Neo4j |
| SIG (`api/v1/sig`) | Component, Endpoint, InterComponentDependency nodes; EXPOSES, CALLER, CALLEES | CreateComponent, RetrieveComponent, CreateInterComponentDependency, Reset | Neo4j; the client drives it from traces |
| Alg4 (`api/v1/alg4`) | Vulnerability and Binding nodes; THREATENS, SPECIALIZES_INTO, SERVES; `mark` on every label | CreateVulnerability (record it, then rules 1 to 5), CreateBinding, CreateServes | reads the three graphs above |
| Neo4j manager (`pkg/services/neo4j`) | one driver behind a lock | NewSession, Healthcheck (Execute, with retrier and breaker, is unused) | every transaction of every service |
| API server (`server`, `cmd/godepgraph`) | listeners | one goroutine per call; gRPC, HTTP and gRPC-web on one port; no draining on SIGTERM | the services |
| client (`cmd/godepgraph-cli`) | none that outlives a command | calls the services, ends at the first error; turns OpenTelemetry traces into components and dependencies | CDN, RDG, SIG, Alg4 |

What is hard: no call is a single transaction.  A CreateVulnerability is a
fixed-point loop and eight more transactions; an export takes three
transactions per library and one per package; a Reset deletes in batches.
Calls run concurrently against one graph, at read-committed isolation and
mostly without constraints; any transaction may fail; what is committed stays
when a call fails or the server is killed, and clients call again.  What must
hold of each part:

- Alg4: marks go no further than the rules allow and, once the researches that
  ran at once were all answered without an error, no less far; bindings can be
  found again; the loop ends.
- CDN: one provider per symbol, edges that are calls, exports that are complete
  or say so, a Reset that empties.
- Manager: no driver is lost unless it could not be closed, none that is closed
  is offered, the lock comes back, outages pass.
- SIG: one endpoint per name and component although nothing constrains it,
  dependencies between the endpoints that were named, answers that mean the
  dependency is there, a Reset that empties.
- RDG: one node per asset although nothing constrains it, stacks that are stored
  when they are answered, a Reset that empties.
- Analyser: a recursion that ends on cyclic graphs, callees that are registered,
  dependencies that are those of one call graph, every package exported once.
- Client: every complete interaction of a trace is recorded once, with a function
  of the service that made it where RPCs separate the services, and is in SIG when
  the command ends without an error; the search for a caller ends.

`PROJECT.json` lists every component, the hazards at their lines and the
properties that cover them.

## Modules

| module | models |
|---|---|
| `Alg4` | the Alg4 service: one action per transaction, for any number of handlers, over a constant knowledge graph |
| `MCAlg4` | a small graph and sets of requests for TLC |
| `Propagation` | what CreateVulnerability promises of the codebase, without the order of its rules |
| `Alg4Refinement` | the refinement mapping from `Alg4` to `Propagation` |
| `Alg4Proofs` | type correctness, soundness and completeness of the propagation, and why its calls end |
| `Alg4RefinementProofs` | the refinement, and what the answers of Alg4 mean |
| `CDN` | Export, the two reads and the Reset of CDN, with Alg4 relating nodes next door |
| `MCCDN` | two versions of a module, with a dependency and the core library |
| `CDNProofs` | all the invariants of CDN |
| `CallGraphs` | what a Go module is to the analyser: directories, call graphs, packages, module names |
| `Analyser` | Process, parseModule, register with its frames, removeEmpty |
| `AnalyserProofs` | all the invariants of the analyser, and why it ends |
| `SIG` | the four calls of SIG, with their errors, crashes and batches |
| `MCSIG` | two components whose endpoints have the same name |
| `Interactions` | what SIG promises its clients: a graph of components and links, and the outcomes of calls |
| `SIGRefinement` | the refinement mapping from `SIG` to `Interactions` |
| `SIGProofs` | all the invariants of SIG, and the refinement |
| `StateFiles` | what a Pulumi state is to RDG: resources in an order |
| `RDG` | CreateStack and Reset of RDG |
| `RDGProofs` | all the invariants of RDG |
| `Measures` | when one tuple of naturals is below another, for what is left to do |
| `Bulks` | `common.Trash`: the rows one transaction may take, for the Resets of CDN, SIG and RDG |
| `TraceFiles` | what an OTEL dump is to the client: spans, their parents and attributes |
| `Traces` | newSigAnalysis and getFrom, with the frames of its recursion |
| `Client` | `cdn create`, `rdg create` and `sig create` with the services they set going |
| `MCClient` | a Go module, two stacks and five families of spans for TLC |
| `ClientProofs` | the theorems of the parts, carried to the whole, those about `sig create`, and why the commands end |
| `Neo4JManager` | getDriver and recreateDriver, used by concurrent handlers while the database and the clients come and go |
| `Neo4JManagerProofs` | types, what may leak, and no closed driver stored |

`Client` composes `Analyser`, `RDG`, `Traces` and `SIG`; the constants modules
(`CallGraphs`, `StateFiles`, `TraceFiles`) are shared by a component and by what
composes it.  Definitions whose comment begins with *Fault* are plausible
mistakes in the code (they are in no Next): replacing the definition beside them
by one of them violates the property that `PROJECT.json` pairs it with.

### Alg4

`mark` records, per label, the nodes with `mark = true`.  `threatens`,
`bindings` and `serves` are the relationships the service creates.  A handler
is its next transaction (`pc`), its request, whether rule 2 has collected an
error (`merr`), and what its query of rule 1 may have read (`seen`).

Neo4j isolates at read-committed: what a query reads it reads at a moment of its
own for each node, and other calls commit in between.  A query that only looks
for what is there (marks, relationships) selects no less than at its beginning
and no more than at its commit, since neither is ever taken back; the properties of
marks are bounds of these two kinds, and such a query is one step.  A query that
looks for what is *not* there has no such moment and is two steps, with the
steps of other calls between them: the existence of a vulnerability and its
creation, the search for a Binding and its creation, and a layer of rule 1.
`ReachingSymbols` is the beginning of that layer, and `seen` the marks of then;
`MarkReaching` is its end.  Each callee's mark (which must be there) and each
caller's (which must not) may have been read at the one moment or the other, so
the layer selects any set between `NewlyReaching(seen, now)`, what it must
find, and `NewlyReaching(now, seen)`, what it may find.  In particular it may miss
a callee that another research has just marked and then drop the caller, as
marked by then; an empty layer ends the loop (`AfterLayer`), so a call may be
answered with callers unmarked that another is about to mark.

`vulnerability-create.go` says in a comment that parallel researches are not
permitted, and nothing prevents them.  So what a single answer promises depends on
the researches beside it, and the model says which: researches that overlap are a
*series*, which begins with one that runs alone and ends when none is left.
`troubled` tells that one of the series has failed or died, `awaiting` keeps its
answers while it runs, and `answered` those of the series in which all succeeded;
`entry` is the graph when rule 1 was last entered.  These four are history.
`CompletedCovers` and `AnsweredIsPropagated` are about a series that has
succeeded; a research that runs alone is one.  That the condition is needed was
seen with TLC: without it `AnsweredIsPropagated` is violated in a run of two
researches in which one is answered on a torn layer and the other dies.

`CollectError` and `ReturnError` are the failed transactions, of rule 2
(collected) and of the others (returned at once); `Crash` is the end of the
process.

The graphs of CDN, RDG and SIG are constants, with the assumption that every
dependency has one caller and every endpoint exposes one component, and that the
symbols are finitely many, as those of a database are.  HOSTED_BY,
System and COMPOSED_OF are matched by rules 3.c, 4.b and 5 and created by no
code of the repository; the instances give them values, as an operator may.

`Propagation` is the promise to a client: what threatens what, the marks of symbols
and libraries, which clients have a research open, and the answers, those awaiting
the end of the series and those that may be relied upon.  A research may record
one symbol; marks spread in any order, on behalf of any research, but never out
of `Reaching` of what is recorded, and not without a research.  A failure or the
death of the server troubles the series; the last answer of a series without trouble
may be given only when everything that is threatened is propagated.
`Alg4Refinement` maps: the open clients are the handlers that serve a
CreateVulnerability, `Calls` are the pairs of the CallGraphDependency nodes, and the
answers are the pairs of the vulnerability requests.

### CDN

An analysis is an input: for each library its packages, for each package its
symbols, and the calls between symbols.  `pc`, `lib`, `todo`, `created` and
`packages` are the loops of Export, in any order since Go maps are ranged over
in any order.  `symbols` are CREATEd under `symbol_identity_unique`, so a clash
(`SymbolClash`) undoes the transaction and leaves the library; without the
library (a Reset took it) they stay without a provider.  `WithRows` is the
query of a package: it reads before it writes, so that a symbol without a
dependency gets one per callee.  `Reset` is four loops of transactions of at
most `Limit` rows; DELETE refuses nodes that a relationship touches
(`TrashRefused`).  `foreign` are the nodes Alg4 has related, `overlaps` (history)
the kinds of calls that ran beside a call.

### SIG

`endpoints` are nodes with a name and the component they expose, so that two
nodes of one name on one component are two elements; `queue` holds the endpoints
a CreateInterComponentDependency has left to upsert, the caller first, then the
callees, whose errors `merr` collects.  `upsertEndpoint` looks for the endpoint
and creates it in one query, but nothing it has not found is locked: the search
and the creation are two steps.  A component that does not exist yields no row
and no error; one that a Reset deletes in between undoes the transaction.  Two
CreateComponent calls cannot race, since `component_unique` makes the check and
the MERGE one.  `Touched` are the nodes DELETE refuses.  What the relationships
of Alg4 do to a Reset is shown in CDN and left out here.  RetrieveComponent is
also the last step of CreateComponent.  `known`, `disturbed` and `raced` are
history: the components when a call came, whether a Reset (for a Reset: any
call) ran beside it, and whether two dependencies were ever created at once.

`Interactions` is the promise to a client, without nodes, queues and transactions:
`links` join endpoints, which are a component and a name, and a call has an
outcome.  The graph changes only on behalf of a call in progress (`Change`): it
gains nothing the call does not name, and loses something to a Reset only.  An
outcome without an error may be given only when it is true (`Fulfilled`): the
component of a CreateComponent or RetrieveComponent is there, the links a
dependency owes are there, after a Reset that was alone nothing is.  A dependency
owes the links whose components were there when it came, and nothing once a Reset
has run beside it.  `SIGRefinement` maps: a link is a dependency both of whose ends
still expose a component, however many nodes and dependencies show it; an endpoint
that two racing calls have created twice shows once.

### Analyser

The input is what the loaders give: per directory a call graph, whose nodes are
functions of other directories and modules too, and which packages the
directory's path prefixes (`Tracked`).  register recurses: `stack` are its
frames, each with the symbol object it fills and the callees it has left.  A
function is registered again by the loop of parseModule also if the recursion of
an earlier directory has registered it: a fresh object then replaces the old,
and whoever still holds the old one writes to it in vain.  Edges and nodes come
in any order.  `Owners` is the longest-prefix search of register, `Libraries`
removeEmpty, and `Core` the any-prefix test of Export.  Loading may fail at every
directory.  Two SSA functions of one identity (`Config.Tests` makes some) are one
function here.

### RDG

An asset has an id and nothing else, so the database is the number of nodes per
id.  `upsertAsset` looks for the asset and then MERGEs it: what both have read and
what the MERGE creates are two steps, with nothing to order them with the
transactions of another handler.  `queue` are the resources a stack has left,
`disturbed` and `raced` are history as in SIG.

### Traces and Client

A span is its trace, service, version, name, whether it is an RPC, and the
function it names; `parent` is chosen among families, since a dump may lack spans
and nothing keeps parents from forming cycles.  Spans are visited in any order
within a trace, and traces one after the other in any order.  `frames` is the
recursion of getFrom; `StackLimit` the room a goroutine has for it.  getFrom
looks at no service: it stops at RPCs.  `CallerIsOfItsService` says what this is
worth: the function it names belongs to the calling service, unless on the way up
one service calls another by other means, and it misses a function above the call
only beyond an RPC.

In `Client`, `sig create` analyses the traces, then sends one call after the other
to a `SIG` with one handler: all components, then the interactions, component by
component.  An error, or the death of the server, ends the command; it is run
again from the start, on what SIG holds by then, and forgets what it has
registered.  A service's version is that of the first span visited, so a second
run may register another.  `cdn create` and `rdg create` are steps of `Analyser`
and `RDG` (the latter by several clients at once).  `command` is what one
behaviour is about: the commands share no state, so their interleavings would
show nothing more.  An interaction list's order within a component is any order.

### Neo4JManager

`driver` and `writer` are the manager's fields; `open` are the driver objects
that hold connections; `local` is the driver in a handler's hands.  Network
calls are steps of their own, under the caller's context (`cancelled`).
`Close` may fail as well, under that context: the code drops its error and
forgets the driver, whose connections stay (`unclosed`, history).  A read
lock is held for one step.  Initially no driver exists.

## Runs

| run | shows |
|---|---|
| `Alg4Propagation` | a vulnerability through all rules, researched by one or two handlers, next to the binding and the serves relationship that carry it on: marks are within the rules' closure, a series of researches that succeeds covers the graph it entered with last, every step implements one of `Propagation` |
| `Alg4Parallel` | two researches at once on a cyclic call graph, for two symbols under one identity: rule 1 stays exact, the answers of a series that succeeds can be relied upon for ever, every call ends, and no step sets one back |
| `Alg4Bindings` | racing bindings leave no client without its own |
| `Alg4BindingAsset` | *violated*: a binding is answered with an asset it does not have |
| `CDNExport` | racing exports of two versions: one provider, edges are calls, an Export without an error is complete |
| `CDNReset` | exports beside a Reset in batches of 2 rows and Alg4: an export is complete also over what a Reset has left, and a Reset alone leaves nothing |
| `CDNRetry` | *violated*: after a failed export the retry succeeds and answers without the missing symbols |
| `CDNResetBlocked` | *violated*: a Reset alone fails once Alg4 has related a node |
| `CDNRetrieve` | *violated*: the dependencies of a symbol are never returned |
| `SIG` | components, a dependency and Resets beside each other: an answered dependency is in the graph and links only what was named; endpoints are duplicated by racing calls and by nothing else; every transaction implements a step of `Interactions` |
| `Client` | an analysis with call cycles and two sub-directories; stacks and Resets beside each other with faults; `sig create` from complete, incomplete and cyclic traces, and one with a call that is not RPC, to the dependencies in SIG, with a second run; every step leaves less to do |
| `Neo4JManager` | the lock protocol, with outages, cancelled contexts and a driver that cannot be closed |

Bounds.  Two handlers: every race here is between one call and another, and the
calls are repeated without limit, so that a third is served by a handler that
is free again; the theorems cover any number.  The call graph of Alg4 has a
cycle and a chain of three layers, two libraries that share it, an endpoint
that calls another, and two components on one asset: each rule marks something
that a rule before it made reachable.  `BindingNodes` is never exhausted by the
requests of a run (two handlers make at most two Bindings for each request).  CDN has a core
library that calls back, a package that calls another, a dependency, and
symbols shared by versions; `Limit` is 2, below the number of rows.  In SIG the
caller and the callee have the same name on two components, the three
`EndpointNodes` allow a duplicate of either endpoint, and batches hold 3: the
relationships of one kind may fit in one, the nodes do not (the theorems are for
every size of batch); a creation that would need a fourth endpoint is not explored.  Alg4Propagation
and SIG use symmetry: handlers, and in SIG endpoint nodes, differ by their names
only, and no liveness is checked in these runs.  In Neo4JManager one Close
fails (`FailedCloses`), and five drivers leave a fresh one beside the one that could
not be closed, the stored one and one in each handler's hands.  In Client, the
root's graph has a cycle of two functions and one that goes through a library
whose name extends another's, a package with functions of two graphs, and a
function without a package.  One sub-directory tracks a
function of the cycle and has other callees for it; the graph of the next has
that function too, untracked and with yet other callees, and reaches it from one it
tracks, so the last graph that has a function is not the last that tracks it.  The
two stacks share their resources in opposite orders.  The five families of spans
are a complete trace, one that lacks a span on the way of a search, one that
lacks a parent and has one in the other trace, one with a cycle, and one in which
a service calls another by other means than RPC; `StackLimit` is one more than
the spans, so only a cycle reaches it.  `EndpointNodes` has one node for each
endpoint the two runs can create; nodes are taken in order (`FirstIsTaken`), since
they differ in nothing.  Two runs let one find what the other has left.
`CHECK_DEADLOCK` is left on in all runs but Client, whose commands end.

Fairness.  Go runs every goroutine that can run, and a transaction commits or
fails in time: weak fairness of each handler's own steps.  Failures, crashes
and new calls are never fair.  In Client the whole is weakly fair: a command is
one process, and the server it waits for answers or dies.  In Neo4JManager Lock and ReadDriver are strongly
fair: `sync.RWMutex` lets a waiting writer in before later readers, and
readers before the next writer.  `Recovers` assumes that the database is up and no
client leaves from some point on.

## Proofs

`Alg4Proofs`, for every knowledge graph, any number of handlers, requests and
nodes, from `KnowledgeGraphAssumption` and `RequestsAssumption` alone:

- `TypeCorrect`.  The inductive invariant adds `HandlersOK`: a handler is in a
  function of its own call, so the names it reads are those of that call, and
  `SeenOK`: what a query of rule 1 has read as marked is marked.
- `SymbolSoundness` and `DeploymentSoundness`.  `Reaching(S)` is the
  intersection of all caller-closed sets above S.  A layer of rule 1, torn or not,
  adds only callers of symbols that are marked when it ends, so it stays in each of these sets; the relations
  only grow, which only makes the closures grow.  The deployment rules are
  argued in the same way, from sets closed under all of them.
- `CallsEnd` (`CallsAdvance`).  What is left of a call is how many symbols have
  no mark as far as its query knows (`Unmarked`), then how many transactions
  follow.  Marks are never taken back, so no step of another handler raises it; a
  layer of rule 1 that goes on has marked a symbol that had none when it began,
  though another research may have marked it meanwhile; every other step has
  fewer transactions after it.
- `Completeness` (`CompletedCovers`).  The invariant `CoverInv` says that unless
  the series is bound to be troubled (`Doomed`: it is, or a handler is about to
  fail), each rule's obligation is met or is still ahead of a research.  For rule 1
  the obligation is one per edge: a callee that is marked has its caller marked,
  or some research has yet to begin a layer, or runs a query that has read the
  callee as marked and so must mark the caller.  A layer that selects nothing
  discharges its own share only, and the query that has torn it is another
  research's, which is still there: it marks the caller, fails, or dies, and in
  the last two cases the series promises nothing.  When no research is left, the
  marks are closed under callers and contain `Reaching` of the threatened
  symbols.  The obligations of the later rules are met one by one, by the research
  that leaves rule 1 last or by one beside it.  The argument needs `merr`: a
  handler that leaves rule 2 without an error has run all four of its transactions.

`Alg4RefinementProofs`, from the same assumptions:

- `Implementation`.  `Spec` implies `P!Spec`: each action of Alg4, under the
  invariants above, is a step of Propagation or a stutter.  The end of a layer is a
  `Spread` by soundness; the last answer of a series is an `Answer` by
  `CompletedCovers` of the state it leads to, and by `Recorded`, which says that a
  research past its first rule, or whose answer is awaiting, has its identity in the
  database.
- `Answered`: marks and threats only grow, so what was propagated when the series
  ended is for ever.  `Bound` adds `BindingDone`, for handlers about to answer.

`CDNProofs`, for any analyses, calls, handlers, size of batches, with faults or
without, from the assumptions of `CDN`:

- `TypeCorrect`.  `TypeOK` is inductive with `StepsOK`: a handler at a step of
  Export serves a CreateLibrary, holds the library it is about to write, and has
  left the packages of the last one.
- `NeverTwoProviders`.  `CREATE` under the uniqueness constraint writes symbols
  that no node has, and PROVIDES never relates a symbol that is not in the
  graph (part of `TypeOK`): what is new has no provider, and gets at most one.
- `NoInventedEdge`.  A row joins a caller and a callee of its own call graph,
  whichever dependency it finds; a Reset only takes ends away.
- `Complete`.  `ExportInv` keeps the loops of an Export consistent (what is created
  and what is left), `CompleteInv` says at each of its steps which modules have
  their symbols and which packages their calls, provided no Reset overlaps
  (`BesideInv`) and no error was collected.
- `Emptied`.  A loop of a Reset that ends has found no row, and what it has emptied
  stays empty as long as nothing runs beside it.

`AnalyserProofs`, for any call graphs, directories and orders, from
`CallGraphsAssumption`:

- `Closed`, `Bounded`.  `FramesInv`: a frame writes to the symbol its function has,
  that symbol has the callees the frame is done with, and no function is in two
  frames, so there are no more frames than functions (a pigeonhole).
- `OneGraph`.  `WalkInv` places the analysis in the list of directories;
  `SettledInv` says that a function that is in no frame has all the callees of one
  directory's graph: the last one whose loop has looked at the function.  A later graph that
  reaches it from what it tracks itself finds its symbol and leaves it alone.
- `Exported`.  `OwnedInv`: a package is provided, from its first function on, by
  the modules with its longest prefix.  That there is exactly one of these is the
  assumption that prefixes of one path differ in their lengths.

- `AnalysisAdvances`.  What is left of an analysis is a tuple of six naturals
  (`Measure`), from the state of the whole down to the callees of the frames of
  register: every step lowers one of them and leaves those before it.
  `Pending` are the functions a frame may still be opened for, so entering a
  function lowers the measure although the stack grows, cycles or not.
- `NoEndlessDescent`.  Tuples of naturals of one length cannot go down for ever
  in the order of `Below`: it is contained in the lexicographic product of `<`, which
  the library's theorems show to be well-founded.

`RDGProofs`, for any stacks, handlers and size of batches: `UniqueInv` adds that of
an id nobody raced for one handler at most is about to create, and then there is
no asset; `StoredInv` that what is left of a stack is in the queue; `BesideInv`
that a Reset and the calls beside it know of each other.

`SIGProofs`, for any components, calls, handlers and size of batches:
`GraphOK` and `HandlersOK` carry the types; `AsNamed` follows from what each
relationship was made by; `UniqueInv` is the argument of RDG for
endpoints; `LinkInv` says that each endpoint of a component that was there is
awaited or found, or an error is collected.  `Implementation` is the refinement: each
action of SIG, under these invariants, is a step of `Interactions` or a stutter.  A
node that is created has no dependency yet, so it shows no link; a new dependency
joins nodes of the names its call gave, and no node has two names; what a Reset
leaves was there (`Shrunk`).  That an answer is true when it is given is what
`AnsweredLinked` and `Emptied` say of the state after the step.

`ClientProofs`, from the assumptions of the constants modules and
`ClientAssumption`:

- `Closed` to `Emptied`: a behaviour of `Client` is one of `Analyser` and one of
  `RDG`, so their theorems are theorems of the whole.
- `Observation`.  `TracesInv`: spans that are visited have the interaction they
  make, or are reported, and the span in hand is between the two.
- `CallersAreKnown`, `Overflows`.  `SearchInv`: the frames of getFrom go up from the
  parent, past nothing that names a function, each is an ancestor of those below
  it, and each is of the calling service unless one service has called another by
  other means on the way: the search does not go past an RPC.  A search that ends in vain has gone past every
  ancestor up to an RPC or the end of the trace.  With more frames than spans, two
  hold the same span: it is its own ancestor.
- `TypeCorrect`, `ObservationIsStored`.  The server's part of `sig create` is a
  behaviour of `SIG` (`RunsSig`), so `AnsweredLinked` applies to each of its calls;
  `StoredInv` says that, as long as no call has failed, what the run has asked for
  is there or is being created by the call in flight, whose components were there
  when it came.  No Reset runs beside the command.

- `CommandsMeasured`.  `cdn create` has the measure of the analyser.  That of `sig
  create` counts the runs that are left, the phase of this one, the spans, the
  room for a search, the components, the interactions and what the server has left
  of the call in flight; every step lowers the first of these that it changes, a
  failure and the server's death too.

`Neo4JManagerProofs` proves `TypeCorrect`, `DriversAreKept` and `StoredIsOpen` for
any number of handlers and drivers.  None is inductive alone: `LockInv` adds that
only the lock's holder is between Lock and Unlock, that no driver is stored while a
new one is made, and that the new one is open in its hands and has not been tried
to close.

Every invariant and action property of the passing runs is proved.  Only
model-checked: the liveness properties `EveryCallEnds` (of Alg4 and of the
manager), `Recovers` and `CommandsEnd`, as liveness under fairness and ENABLED are
out of the prover's reach, and the four violations, each of which is one behaviour.
Of three of these liveness properties the reason is proved for every instance: a
measure that every step lowers (`CommandsAdvance`), or that no step raises and each
step of the call lowers (`CallsAdvance`), and an order in which nothing goes down for
ever (`NoEndlessDescent`).  What is left to TLC there is that a command or a handler
that has not ended does take its steps, which is fairness and ENABLED, and the
combination of the three.  For the manager nothing of the kind holds: handlers
wait for the lock, and a call that is served may be overtaken.

## What the sources say and the code does not do

The four violated runs; `PROJECT.json` quotes the lines under "findings".

Seen while modelling, and part of the models without being violations of anything
the repository says:

- A sub-directory's call graph is built from a smaller program.  A function of a
  sub-directory that the root's graph has registered is registered again, and
  keeps only the callees of the smaller graph (`DependenciesAreOfOneGraph` says
  exactly that: the last graph, whole).
- Functions without a package (wrappers, instantiations) are skipped with
  everything that is called through them.
- Library owners are found with `HasPrefix` on names, so a module named `a/b` owns
  the packages of a sibling `a/bc` that is not in go.mod.
- Parallel researches are not permitted, says `vulnerability-create.go:11`, and
  nothing prevents them.  A call beside another may be answered while callers are
  still unmarked, and they stay so if the other then fails, until the next
  CreateVulnerability.
- `manager.go:77` and `:90` drop the error of Close, under a context that the
  client may have cancelled: the driver is forgotten whether it was closed or
  not, and its connections are then nobody's (`OnlyFailedClosesLeak`).
- getFrom takes `rpc.system` for "another network interaction"
  (`main.go:562-564`).  Services that call each other by other means, over plain
  HTTP or a queue, have no such attribute, and the search goes through them: a
  function of one service is named for a call that another has made.
- When a span above is missing, getFrom reports the parent that its search began
  with, which is there (`ParentNotFound`).
- A service's version is that of the first span visited; a dump with two versions
  of it registers either.

## Not modelled

- What third-party code computes: package loading, SSA, the call graphs, Pulumi
  checkpoints, OTLP parsing.  Their results are the constants, and their failures
  are actions.
- Generated gRPC code, the multiplexing of protocols, swagger, logging, tracing,
  configuration, flags and printing, the controller prototype, the deployment.
- `Manager.Execute`, with its retrier and breaker, which nothing calls.
- Properties of nodes that no query reads.
- The growth of the codebase under Alg4.  CDN, RDG and SIG write the graph that
  Alg4 reads; in `Alg4` it is constant, so what a Reset or an export between two
  transactions of a propagation does to its answer is not shown.  Nothing marks
  again when the graph grows: a new caller of a marked symbol stays unmarked until
  the next CreateVulnerability.
- What the relationships of Alg4 do to a Reset is in `CDN`, and left out of `SIG`,
  since it would show nothing else.  None of them touches an asset.

## Plan

Done: the services, the analyser, the traces, the commands that drive them, the
abstract propagation and the abstract SIG with their refinements, a theorem for
every invariant, and the measures that bring calls and commands to an end.

Left: Alg4 over a graph that changes, as a composition with CDN and SIG; then the
type correctness of that composition and which of the propagation's theorems
remain.  An abstract CDN, as
SIG has one, to say to a client what an Export promises beside others and a Reset;
a measure for the loops of a Reset that nothing runs beside.
