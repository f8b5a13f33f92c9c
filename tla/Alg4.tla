-------------------------------- MODULE Alg4 --------------------------------
(***************************************************************************)
(* The Alg4 service: vulnerabilities, bindings, "serves" relationships and *)
(* the propagation of a vulnerability over the knowledge graph.            *)
(*                                                                         *)
(* Every call is a goroutine of the gRPC server that runs a fixed sequence *)
(* of Neo4j transactions.  Neo4j isolates them at read-committed, so what  *)
(* a transaction has read may be stale when it writes.  A transaction is   *)
(* one step here, except where it looks for what is not there (a callee    *)
(* that is not marked, a Binding, a vulnerability): it is then two, with   *)
(* the steps of other calls between them.  Any transaction may fail, and   *)
(* the server may be killed between two of them: main stops on SIGTERM     *)
(* without draining its servers.                                           *)
(*                                                                         *)
(* The codebase, deployment and interaction graphs are constants: CDN, RDG *)
(* and SIG build them, and Alg4 only reads them.  HOSTED_BY, System and    *)
(* COMPOSED_OF are matched by the rules and created by no code of the      *)
(* repository, so these relations are empty unless an operator seeds them. *)
(***************************************************************************)
EXTENDS FiniteSets, Measures

CONSTANTS
    Symbols, Libraries, Components, Endpoints, Assets, Systems, \* graph nodes
    CallGraphDependencies, DepCaller, DepCallees,   \* CALLER and CALLEES (CDN)
    Provides,                                       \* Library -> Symbol
    Exposes,                                        \* Endpoint -> Component
    InterComponentDependencies, IcdCaller, IcdCallees,  \* CALLER, CALLEES (SIG)
    HostedBy,                                       \* Component -> Asset
    ComposedOf,                                     \* System -> Component
    Workers,                \* goroutines that serve calls
    Identities,             \* identities clients give to vulnerabilities
    Names,                  \* names in requests, those of no node included
    BindingNodes,           \* bound: Binding nodes the database may ever hold
    Requests,               \* the calls clients make, and make again
    None                    \* Cypher's null

NoRequest == [kind |-> "none"]

VulnerabilityRequest == [kind : {"vulnerability"}, identity : Identities, threatens : Names]
BindingRequest == [kind : {"binding"}, library : Names, component : Names, asset : Names]
ServesRequest == [kind : {"serves"}, symbol : Names, endpoint : Names]

ASSUME KnowledgeGraphAssumption ==
    /\ IsFiniteSet(Symbols)
    /\ DepCaller \in [CallGraphDependencies -> Symbols]
    /\ DepCallees \in [CallGraphDependencies -> SUBSET Symbols]
    /\ Provides \subseteq Libraries \X Symbols
    /\ Exposes \in [Endpoints -> Components]
    /\ IcdCaller \in [InterComponentDependencies -> Endpoints]
    /\ IcdCallees \in [InterComponentDependencies -> SUBSET Endpoints]
    /\ HostedBy \subseteq Components \X Assets
    /\ ComposedOf \subseteq Systems \X Components

ASSUME RequestsAssumption ==
    /\ Requests \subseteq VulnerabilityRequest \cup BindingRequest \cup ServesRequest
    /\ None \notin Libraries \cup Components \cup Assets

VARIABLES
    mark,       \* the nodes that carry mark = true, per label
    threatens,  \* <<identity, symbol>>: the THREATENS relationships
    bindings,   \* the Binding nodes and what they specialize into
    serves,     \* <<endpoint, symbol>>: the SERVES relationships
    pc,         \* the next transaction of each handler
    req,        \* the request it serves
    merr,       \* rule 2 has collected an error
    seen,       \* the symbols that were marked when its query of rule 1 began
    entry,      \* history: what could carry marks when rule 1 was entered last
    troubled,   \* history: a research of the series failed or died
    awaiting,   \* history: the answers of the series, while it runs
    answered    \* history: the requests answered, and the series has succeeded

graph == <<threatens, bindings, serves>>
handler == <<pc, req, merr, seen>>
history == <<entry, troubled, awaiting, answered>>
vars == <<mark, graph, handler, history>>

Mark == [symbols : SUBSET Symbols, dependencies : SUBSET CallGraphDependencies,
         libraries : SUBSET Libraries, bindings : SUBSET BindingNodes,
         components : SUBSET Components, endpoints : SUBSET Endpoints,
         interDependencies : SUBSET InterComponentDependencies,
         assets : SUBSET Assets, systems : SUBSET Systems]

Binding == [node : BindingNodes, library : Libraries \cup {None},
            component : Components \cup {None}, asset : Assets \cup {None}]

Snapshot == [bindings : SUBSET Binding, serves : SUBSET (Endpoints \X Symbols)]
Now == [bindings |-> bindings, serves |-> serves]

Threatened == {t[2] : t \in threatens}

\* Researches that overlap are a series: it begins with one that runs alone and
\* ends when none is left.  vulnerability-create.go says that parallel researches
\* are not permitted; nothing in the code prevents them.
Researching == {w \in Workers : req[w].kind = "vulnerability"}

-----------------------------------------------------------------------------
(* What the rules select, given the marks and the relations they read.     *)

\* Faults of the query of rule 1: the match on the callees is lost; callers
\* that are marked already are counted again.
NewlyReachingFromAnywhere(M, N) == {d \in CallGraphDependencies : DepCaller[d] \notin N}
NewlyReachingAgain(M, N) == {d \in CallGraphDependencies : DepCallees[d] \cap M # {}}

\* Rule 1, one layer: the dependencies that call a symbol that is marked (in M),
\* and whose caller is not marked yet (not in N).
NewlyReaching(M, N) == {d \in CallGraphDependencies :
    DepCallees[d] \cap M # {} /\ DepCaller[d] \notin N}

ProvidersOf(S) == {l \in Libraries : \E s \in S : <<l, s>> \in Provides}

BoundToLibraries(B, L) == {b \in B : b.library \in L}
BoundToComponents(B, C) == {b \in B : b.component \in C}
ComponentsOf(B) == {b.component : b \in B} \ {None}
AssetsOf(B) == {b.asset : b \in B} \ {None}

EndpointsServing(S, V) == {e \in Endpoints : \E s \in S : <<e, s>> \in V}
CallingDependencies(E) == {d \in InterComponentDependencies : IcdCallees[d] \cap E # {}}
CallerEndpoints(D) == {IcdCaller[d] : d \in D}
ExposedBy(E) == {Exposes[e] : e \in E}
ComponentsCalling(S, V) ==
    ExposedBy(CallerEndpoints(CallingDependencies(EndpointsServing(S, V))))

HostsOf(C) == {a \in Assets : \E c \in C : <<c, a>> \in HostedBy}
HostedOn(A) == {c \in Components : \E a \in A : <<c, a>> \in HostedBy}
SystemsOf(C) == {y \in Systems : \E c \in C : <<y, c>> \in ComposedOf}

-----------------------------------------------------------------------------
(* The calls and the transactions they are made of.                        *)

\* The function a handler enters first.
FirstStep(r) == CASE r.kind = "vulnerability" -> "vulnerabilityExists"
                  [] r.kind = "binding"       -> "matchBinding"
                  [] r.kind = "serves"        -> "upsertServes"

\* A client calls; a call may be repeated, also while it is being served.
Start(w, r) ==
    /\ pc[w] = "idle"
    /\ pc' = [pc EXCEPT ![w] = FirstStep(r)]
    /\ req' = [req EXCEPT ![w] = r]
    /\ troubled' = (troubled /\ (r.kind = "vulnerability" => Researching # {}))
    /\ UNCHANGED <<mark, graph, merr, seen, entry, awaiting, answered>>

At(w, step) == pc[w] = step
Goto(w, step) == pc' = [pc EXCEPT ![w] = step]

\* Fault: a known identity is taken for one whose propagation is complete.
VulnerabilityExistsThenDone(w) ==
    /\ At(w, "vulnerabilityExists")
    /\ Goto(w, IF \E t \in threatens : t[1] = req[w].identity THEN "done"
               ELSE "createVulnerability")
    /\ UNCHANGED <<mark, graph, req, merr, seen, history>>

\* upsertVulnerability, first query: a known identity is left alone, with the
\* symbol it threatens already, and the propagation starts over from the marks.
VulnerabilityExists(w) ==
    /\ At(w, "vulnerabilityExists")
    /\ IF \E t \in threatens : t[1] = req[w].identity
       THEN Goto(w, "reachingSymbols") /\ entry' = Now
       ELSE Goto(w, "createVulnerability") /\ UNCHANGED entry
    /\ UNCHANGED <<mark, graph, req, merr, seen, troubled, awaiting, answered>>

\* upsertVulnerability, second query: an unknown symbol matches no row, so
\* nothing is written and no error is returned.
CreateVulnerability(w) ==
    LET matched == {req[w].threatens} \cap Symbols
        created == {req[w].identity} \X matched
    IN  /\ At(w, "createVulnerability")
        /\ mark' = [mark EXCEPT !.symbols = @ \cup matched]
        /\ threatens' = threatens \cup created
        /\ Goto(w, "reachingSymbols")
        /\ entry' = Now
        /\ UNCHANGED <<bindings, serves, req, merr, seen, troubled, awaiting, answered>>

\* Rule 1: a query for one more layer of callers begins.  What it reads, from
\* here to its commit, it reads at a moment of its own for each node.
ReachingSymbols(w) ==
    /\ At(w, "reachingSymbols")
    /\ seen' = [seen EXCEPT ![w] = mark.symbols]
    /\ Goto(w, "markReaching")
    /\ UNCHANGED <<mark, graph, req, merr, history>>

\* Fault: a single layer instead of the fixed point.
AfterLayerAlways(D) == "libraries"

\* The loop ends with a layer that is empty.
AfterLayer(D) == IF D = {} THEN "libraries" ELSE "reachingSymbols"

\* The query ends, and marks the dependencies D it has selected.  Others may have
\* marked since it began: a callee may have been read before they did, and its
\* caller after.  It selects what both moments select, and nothing that neither
\* the marks of now on the callees nor those of then on the callers allow.
MarkReaching(w) ==
    /\ At(w, "markReaching")
    /\ \E D \in SUBSET NewlyReaching(mark.symbols, seen[w]) :
          /\ NewlyReaching(seen[w], mark.symbols) \subseteq D
          /\ mark' = [mark EXCEPT !.symbols = @ \cup {DepCaller[d] : d \in D},
                                  !.dependencies = @ \cup D]
          /\ Goto(w, AfterLayer(D))
    /\ seen' = [seen EXCEPT ![w] = {}]
    /\ UNCHANGED <<graph, req, merr, history>>

\* Rule 2, first transaction.
ProvidingLibraries(w) ==
    /\ At(w, "libraries")
    /\ mark' = [mark EXCEPT !.libraries = @ \cup ProvidersOf(mark.symbols)]
    /\ Goto(w, "libraryComponents")
    /\ UNCHANGED <<graph, req, merr, seen, history>>

\* Rule 2, second transaction (3.a): components bound to a marked library.
LibraryComponents(w) ==
    LET B == {b \in BoundToLibraries(bindings, mark.libraries) : b.component # None}
    IN  /\ At(w, "libraryComponents")
        /\ mark' = [mark EXCEPT !.bindings = @ \cup {b.node : b \in B},
                                !.components = @ \cup ComponentsOf(B)]
        /\ Goto(w, "libraryAssets")
        /\ UNCHANGED <<graph, req, merr, seen, history>>

\* Rule 2, third transaction (4.a): assets bound to a marked library.
LibraryAssets(w) ==
    LET B == {b \in BoundToLibraries(bindings, mark.libraries) : b.asset # None}
    IN  /\ At(w, "libraryAssets")
        /\ mark' = [mark EXCEPT !.bindings = @ \cup {b.node : b \in B},
                                !.assets = @ \cup AssetsOf(B)]
        /\ Goto(w, "componentAssets")
        /\ UNCHANGED <<graph, req, merr, seen, history>>

\* Faults: the errors of rule 2 are dropped; they make it start again.
AfterRule2Regardless(failed) == "reachingComponents"
AfterRule2Again(failed) == IF failed THEN "libraries" ELSE "reachingComponents"

\* Rule 2 returns the errors its four transactions have collected.
AfterRule2(failed) == IF failed THEN "failed" ELSE "reachingComponents"

\* Rule 2, fourth transaction: assets bound to a marked component.
ComponentAssets(w) ==
    LET B == {b \in BoundToComponents(bindings, mark.components) : b.asset # None}
    IN  /\ At(w, "componentAssets")
        /\ mark' = [mark EXCEPT !.bindings = @ \cup {b.node : b \in B},
                                !.assets = @ \cup AssetsOf(B)]
        /\ Goto(w, AfterRule2(merr[w]))
        /\ UNCHANGED <<graph, req, merr, seen, history>>

\* Rule 3.b: from the endpoints that serve marked symbols to the components
\* that call them, one hop, in a single query.
ReachingComponents(w) ==
    LET E == EndpointsServing(mark.symbols, serves)
        D == CallingDependencies(E)
    IN  /\ At(w, "reachingComponents")
        /\ mark' = [mark EXCEPT !.endpoints = @ \cup E \cup CallerEndpoints(D),
                                !.interDependencies = @ \cup D,
                                !.components = @ \cup ExposedBy(CallerEndpoints(D))]
        /\ Goto(w, "hostingAssets")
        /\ UNCHANGED <<graph, req, merr, seen, history>>

\* Rule 4.b.
HostingAssets(w) ==
    /\ At(w, "hostingAssets")
    /\ mark' = [mark EXCEPT !.assets = @ \cup HostsOf(mark.components)]
    /\ Goto(w, "lateralMovement")
    /\ UNCHANGED <<graph, req, merr, seen, history>>

\* Fault: the match on the mark of the asset is lost.
LateralMovementAnywhere(w) ==
    /\ At(w, "lateralMovement")
    /\ mark' = [mark EXCEPT !.components = @ \cup HostedOn(Assets)]
    /\ Goto(w, "systems")
    /\ UNCHANGED <<graph, req, merr, seen, history>>

\* Rule 3.c.
LateralMovement(w) ==
    /\ At(w, "lateralMovement")
    /\ mark' = [mark EXCEPT !.components = @ \cup HostedOn(mark.assets)]
    /\ Goto(w, "systems")
    /\ UNCHANGED <<graph, req, merr, seen, history>>

\* Rule 5.
AllSystems(w) ==
    /\ At(w, "systems")
    /\ mark' = [mark EXCEPT !.systems = @ \cup SystemsOf(mark.components)]
    /\ Goto(w, "done")
    /\ UNCHANGED <<graph, req, merr, seen, history>>

Propagate(w) ==
    \/ ReachingSymbols(w) \/ MarkReaching(w)
    \/ ProvidingLibraries(w) \/ LibraryComponents(w)
    \/ LibraryAssets(w) \/ ComponentAssets(w) \/ ReachingComponents(w)
    \/ HostingAssets(w) \/ LateralMovement(w) \/ AllSystems(w)

-----------------------------------------------------------------------------
(* Bindings and "serves".                                                  *)

\* The properties RDG gives to the Asset nodes it creates.
AssetProperties == {"id"}

\* The targets a request names.  upsertBinding matches assets by name and
\* version, which Asset nodes do not carry.
MatchLibrary(r) == IF r.library \in Libraries THEN r.library ELSE None
MatchComponent(r) == IF r.component \in Components THEN r.component ELSE None
\* Fault: the asset is taken from the request without a match.
AssetOfRequest(r) == r.asset
MatchAsset(r) == IF r.asset \in Assets /\ {"name", "version"} \subseteq AssetProperties
                 THEN r.asset ELSE None

\* A binding exists already if it has every target of r: a target that was
\* not matched constrains nothing.
Subsumes(b, r) == /\ MatchLibrary(r) \in {None, b.library}
                  /\ MatchComponent(r) \in {None, b.component}
                  /\ MatchAsset(r) \in {None, b.asset}

\* Fault: any Binding passes for the one the request asks for.
MatchAnyBinding(w) ==
    /\ At(w, "matchBinding")
    /\ Goto(w, IF bindings # {} THEN "done" ELSE "createBinding")
    /\ UNCHANGED <<mark, graph, req, merr, seen, history>>

\* upsertBinding, the read part of the query.
MatchBinding(w) ==
    /\ At(w, "matchBinding")
    /\ Goto(w, IF \E b \in bindings : Subsumes(b, req[w]) THEN "done" ELSE "createBinding")
    /\ UNCHANGED <<mark, graph, req, merr, seen, history>>

FreeNodes == BindingNodes \ {b.node : b \in bindings}

\* upsertBinding, the write part.  Nothing orders it with the write of another
\* transaction that read the same: Binding has no uniqueness constraint.
CreateBinding(w) ==
    /\ At(w, "createBinding")
    /\ FreeNodes # {}
    /\ bindings' = bindings \cup {[node |-> CHOOSE n \in FreeNodes : TRUE,
                                   library |-> MatchLibrary(req[w]),
                                   component |-> MatchComponent(req[w]),
                                   asset |-> MatchAsset(req[w])]}
    /\ Goto(w, "done")
    /\ UNCHANGED <<mark, threatens, serves, req, merr, seen, history>>

\* An unknown symbol or endpoint matches no row: nothing is written.
UpsertServes(w) ==
    /\ At(w, "upsertServes")
    /\ serves' = serves \cup
         (({req[w].endpoint} \cap Endpoints) \X ({req[w].symbol} \cap Symbols))
    /\ Goto(w, "done")
    /\ UNCHANGED <<mark, threatens, bindings, req, merr, seen, history>>

-----------------------------------------------------------------------------
(* Answers, errors and crashes.                                            *)

\* A research ends: the answers of a series are kept once it ends, if none of
\* its researches has failed.
Settle(w) ==
    LET answers == awaiting \cup {req[w]}
    IN  /\ troubled' = (troubled \/ At(w, "failed"))
        /\ awaiting' = IF troubled' \/ Researching = {w} THEN {} ELSE answers
        /\ answered' = IF ~troubled' /\ Researching = {w} THEN answered \cup answers
                       ELSE answered
        /\ UNCHANGED entry

Respond(w) ==
    /\ pc[w] \in {"done", "failed"}
    /\ \/ w \in Researching /\ Settle(w)
       \/ /\ w \notin Researching
          /\ answered' = IF At(w, "done") THEN answered \cup {req[w]} ELSE answered
          /\ UNCHANGED <<entry, troubled, awaiting>>
    /\ Goto(w, "idle")
    /\ req' = [req EXCEPT ![w] = NoRequest]
    /\ merr' = [merr EXCEPT ![w] = FALSE]
    /\ UNCHANGED <<mark, graph, seen>>

\* A transaction of rule 2 fails: the error is collected, the next one runs.
CollectError(w) ==
    /\ pc[w] \in {"libraries", "libraryComponents", "libraryAssets", "componentAssets"}
    /\ merr' = [merr EXCEPT ![w] = TRUE]
    /\ Goto(w, CASE At(w, "libraries")         -> "libraryComponents"
                 [] At(w, "libraryComponents") -> "libraryAssets"
                 [] At(w, "libraryAssets")     -> "componentAssets"
                 [] At(w, "componentAssets")   -> AfterRule2(TRUE))
    /\ UNCHANGED <<mark, graph, req, seen, history>>

\* Opening a session or any other transaction fails: the call returns at once.
ReturnError(w) ==
    /\ pc[w] \notin {"idle", "done", "failed",
                     "libraryComponents", "libraryAssets", "componentAssets"}
    /\ Goto(w, "failed")
    /\ seen' = [seen EXCEPT ![w] = {}]
    /\ UNCHANGED <<mark, graph, req, merr, history>>

\* The process ends: every call is lost, the database keeps what is committed.
Crash ==
    /\ \E w \in Workers : pc[w] # "idle"
    /\ pc' = [w \in Workers |-> "idle"]
    /\ req' = [w \in Workers |-> NoRequest]
    /\ merr' = [w \in Workers |-> FALSE]
    /\ seen' = [w \in Workers |-> {}]
    /\ troubled' = (troubled \/ Researching # {})
    /\ awaiting' = {}
    /\ UNCHANGED <<mark, graph, entry, answered>>

Proceed(w) == \/ VulnerabilityExists(w) \/ CreateVulnerability(w) \/ Propagate(w)
              \/ MatchBinding(w) \/ CreateBinding(w) \/ UpsertServes(w)
              \/ Respond(w)

Init ==
    /\ mark = [symbols |-> {}, dependencies |-> {}, libraries |-> {}, bindings |-> {},
               components |-> {}, endpoints |-> {}, interDependencies |-> {},
               assets |-> {}, systems |-> {}]
    /\ threatens = {} /\ bindings = {} /\ serves = {}
    /\ pc = [w \in Workers |-> "idle"]
    /\ req = [w \in Workers |-> NoRequest]
    /\ merr = [w \in Workers |-> FALSE]
    /\ seen = [w \in Workers |-> {}]
    /\ entry = Now /\ troubled = FALSE /\ awaiting = {} /\ answered = {}

Next ==
    \/ \E w \in Workers : \/ \E r \in Requests : Start(w, r)
                          \/ Proceed(w)
                          \/ CollectError(w)
                          \/ ReturnError(w)
    \/ Crash

Spec == Init /\ [][Next]_vars

\* Go schedules every runnable goroutine, and a transaction commits or fails.
FairSpec == Spec /\ \A w \in Workers : WF_vars(Proceed(w))
-----------------------------------------------------------------------------
(* Type correctness.                                                       *)

Steps == {"idle", "vulnerabilityExists", "createVulnerability", "reachingSymbols", "markReaching",
          "libraries", "libraryComponents", "libraryAssets", "componentAssets",
          "reachingComponents", "hostingAssets", "lateralMovement", "systems",
          "matchBinding", "createBinding", "upsertServes", "done", "failed"}

\* Every mark is on a node of its own label, every relationship links nodes of
\* the labels the Cypher queries name, every handler runs a function of its call.
TypeOK ==
    /\ mark \in Mark
    /\ threatens \subseteq Identities \X Symbols
    /\ bindings \subseteq Binding
    /\ serves \subseteq Endpoints \X Symbols
    /\ pc \in [Workers -> Steps]
    /\ req \in [Workers -> Requests \cup {NoRequest}]
    /\ merr \in [Workers -> BOOLEAN]
    /\ seen \in [Workers -> SUBSET Symbols]
    /\ entry \in Snapshot
    /\ troubled \in BOOLEAN
    /\ awaiting \subseteq Requests
    /\ answered \subseteq Requests

-----------------------------------------------------------------------------
(* What the rules promise, stated without the order the code applies them. *)

\* A set of symbols that holds every caller of its members.
CallerClosed(T) == \A d \in CallGraphDependencies :
    DepCallees[d] \cap T # {} => DepCaller[d] \in T

\* The symbols that reach S: the least caller-closed set that contains S.
Reaching(S) == {s \in Symbols : \A T \in SUBSET Symbols :
                    S \subseteq T /\ CallerClosed(T) => s \in T}

\* The fixed point of allReachingSymbols goes no further than it must: a symbol
\* is marked only if it reaches a symbol that a vulnerability threatens,
\* whatever calls run at the same time, fail or are repeated.
SymbolMarksAreSound == mark.symbols \subseteq Reaching(Threatened)

\* A set of components and assets closed under rules 2, 3.a, 3.b, 3.c, 4.a and
\* 4.b, given the symbols and libraries that are marked.
RulesClosed(C, A) ==
    /\ ComponentsOf(BoundToLibraries(bindings, mark.libraries)) \subseteq C
    /\ AssetsOf(BoundToLibraries(bindings, mark.libraries)) \subseteq A
    /\ AssetsOf(BoundToComponents(bindings, C)) \subseteq A
    /\ ComponentsCalling(mark.symbols, serves) \subseteq C
    /\ HostsOf(C) \subseteq A
    /\ HostedOn(A) \subseteq C

\* The later rules go no further than they must either: a library is marked
\* only for a marked symbol, components and assets only within every set that
\* the rules close (so never each for the other alone), systems only for a
\* marked component.
DeploymentMarksAreSound ==
    /\ mark.libraries \subseteq ProvidersOf(mark.symbols)
    /\ \A C \in SUBSET Components, A \in SUBSET Assets :
          RulesClosed(C, A) => mark.components \subseteq C /\ mark.assets \subseteq A
    /\ mark.systems \subseteq SystemsOf(mark.components)

\* What one application of rules 1 to 5 must mark for what is threatened, through
\* the bindings and the serves of a snapshot.
ReachedSymbols == Reaching(Threatened)
ReachedLibraries == ProvidersOf(ReachedSymbols)
BoundComponents(g) == ComponentsOf(BoundToLibraries(g.bindings, ReachedLibraries))
BoundAssets(g) == AssetsOf(BoundToLibraries(g.bindings, ReachedLibraries))
                  \cup AssetsOf(BoundToComponents(g.bindings, BoundComponents(g)))
ReachedComponents(g) == BoundComponents(g)
                        \cup ComponentsCalling(ReachedSymbols, g.serves)
ReachedAssets(g) == BoundAssets(g) \cup HostsOf(ReachedComponents(g))
PivotComponents(g) == ReachedComponents(g) \cup HostedOn(ReachedAssets(g))
ReachedSystems(g) == SystemsOf(PivotComponents(g))

\* Every research of the last series was answered without an error.
Succeeded == Researching = {} /\ ~troubled

\* One research may be answered with callers unmarked that another is about to
\* mark.  But when all of a series have been answered, none with an error, then
\* every recorded vulnerability is propagated, those of earlier calls that failed
\* or died half-way included, through all that was there when the last one
\* entered rule 1, and stays so until a research begins again.
CompletedCovers ==
    Succeeded =>
        /\ ReachedSymbols \subseteq mark.symbols
        /\ ReachedLibraries \subseteq mark.libraries
        /\ PivotComponents(entry) \subseteq mark.components
        /\ ReachedAssets(entry) \subseteq mark.assets
        /\ ReachedSystems(entry) \subseteq mark.systems

\* A client whose CreateVulnerability was answered without an error, for a
\* symbol of the graph, may rely for ever on this once the researches beside it
\* have been answered so too: the identity is recorded, and the symbols it
\* threatens and all that reach them are marked, with their libraries.
AnsweredIsPropagated ==
    \A r \in answered :
        r.kind = "vulnerability" /\ r.threatens \in Symbols =>
            \E t \in threatens : /\ t[1] = r.identity
                                 /\ Reaching({t[2]}) \subseteq mark.symbols
                                 /\ ProvidersOf(Reaching({t[2]})) \subseteq mark.libraries

\* A client whose CreateBinding was answered finds one Binding that joins all
\* the targets its request matched, also when another call made it.
AnsweredIsBound ==
    \A r \in answered : r.kind = "binding" => \E b \in bindings : Subsumes(b, r)

\* The loop of rule 1 ends and no call hangs: every call is answered, with or
\* without an error, or lost with the server, whatever runs beside it.
EveryCallEnds == \A w \in Workers : pc[w] # "idle" ~> pc[w] = "idle"

\* What is left of a call: symbols that rule 1 may mark, as far as its query can
\* know, and transactions after it.
StepsLeft(step) ==
    CASE step = "vulnerabilityExists" -> 13
      [] step = "createVulnerability" -> 12
      [] step = "reachingSymbols"     -> 11
      [] step = "markReaching"        -> 10
      [] step = "libraries"           -> 9
      [] step = "libraryComponents"   -> 8
      [] step = "libraryAssets"       -> 7
      [] step = "componentAssets"     -> 6
      [] step = "reachingComponents"  -> 5
      [] step = "hostingAssets"       -> 4
      [] step \in {"lateralMovement", "matchBinding"}       -> 3
      [] step \in {"systems", "createBinding", "upsertServes"} -> 2
      [] step \in {"done", "failed"}  -> 1
      [] step = "idle"                -> 0
Unmarked(w) == Symbols \ (IF At(w, "markReaching") THEN seen[w] ELSE mark.symbols)
LeftOf(w) == <<Cardinality(Unmarked(w)), StepsLeft(pc[w])>>

\* Why they end, whatever the graph: no step sets a call back, not a step of
\* another call that marks, binds or fails beside it; and each step begins a
\* call or brings one that runs nearer to its end.
CallsAdvance ==
    [][/\ \A w \in Workers : pc[w] # "idle" => LeftOf(w)' = LeftOf(w) \/ Below(LeftOf(w)', LeftOf(w))
       /\ \E w \in Workers : \/ pc[w] = "idle" /\ pc'[w] # "idle"
                             \/ pc[w] # "idle" /\ Below(LeftOf(w)', LeftOf(w))]_vars

-----------------------------------------------------------------------------
(* What the sources say and the code does not do.                          *)

\* alg4.proto: a Binding "represents any specialization of a Library", its
\* asset included; CreateBinding answers with the asset of the request.
AnsweredBindingHasItsAsset ==
    \A r \in answered : r.kind = "binding" /\ r.asset \in Assets =>
        \E b \in bindings : b.asset = r.asset

=============================================================================
