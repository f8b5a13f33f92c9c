----------------------------- MODULE Alg4Proofs -----------------------------
(* Theorems about Alg4, for every graph, any number of handlers, bindings   *)
(* and clients.                                                            *)
EXTENDS Alg4, FiniteSetTheorems, TLAPS

-----------------------------------------------------------------------------
(* The selections of the rules stay within the labels they select from.    *)

LEMMA SelectionTypes ==
    ASSUME TypeOK
    PROVE  /\ Threatened \subseteq Symbols
           /\ Now \in Snapshot
           /\ \A D \in SUBSET CallGraphDependencies : {DepCaller[d] : d \in D} \subseteq Symbols
           /\ \A B \in SUBSET Binding : /\ {b.node : b \in B} \subseteq BindingNodes
                                        /\ ComponentsOf(B) \subseteq Components
                                        /\ AssetsOf(B) \subseteq Assets
           /\ \A L : BoundToLibraries(bindings, L) \subseteq Binding
           /\ \A C : BoundToComponents(bindings, C) \subseteq Binding
  <1>1. Threatened \subseteq Symbols
    BY DEF TypeOK, Threatened
  <1>2. Now \in Snapshot
    BY DEF TypeOK, Now, Snapshot
  <1>3. \A D \in SUBSET CallGraphDependencies : {DepCaller[d] : d \in D} \subseteq Symbols
    BY KnowledgeGraphAssumption
  <1>4. \A B \in SUBSET Binding : /\ {b.node : b \in B} \subseteq BindingNodes
                                  /\ ComponentsOf(B) \subseteq Components
                                  /\ AssetsOf(B) \subseteq Assets
    BY DEF Binding, ComponentsOf, AssetsOf
  <1>5. \A L : BoundToLibraries(bindings, L) \subseteq Binding
    BY DEF TypeOK, BoundToLibraries
  <1>6. \A C : BoundToComponents(bindings, C) \subseteq Binding
    BY DEF TypeOK, BoundToComponents
  <1> QED BY <1>1, <1>2, <1>3, <1>4, <1>5, <1>6

LEMMA CallingTypes ==
    ASSUME NEW S, NEW V
    PROVE  /\ EndpointsServing(S, V) \subseteq Endpoints
           /\ \A E : CallingDependencies(E) \subseteq InterComponentDependencies
           /\ \A D \in SUBSET InterComponentDependencies : CallerEndpoints(D) \subseteq Endpoints
           /\ \A E \in SUBSET Endpoints : ExposedBy(E) \subseteq Components
           /\ ComponentsCalling(S, V) \subseteq Components
  <1>1. EndpointsServing(S, V) \subseteq Endpoints
    BY DEF EndpointsServing
  <1>2. \A E : CallingDependencies(E) \subseteq InterComponentDependencies
    BY DEF CallingDependencies
  <1>3. \A D \in SUBSET InterComponentDependencies : CallerEndpoints(D) \subseteq Endpoints
    BY KnowledgeGraphAssumption DEF CallerEndpoints
  <1>4. \A E \in SUBSET Endpoints : ExposedBy(E) \subseteq Components
    BY KnowledgeGraphAssumption DEF ExposedBy
  <1>5. ComponentsCalling(S, V) \subseteq Components
    BY <1>1, <1>2, <1>3, <1>4 DEF ComponentsCalling
  <1> QED BY <1>1, <1>2, <1>3, <1>4, <1>5

LEMMA RequestTypes ==
    ASSUME NEW r \in Requests
    PROVE  /\ r.kind \in {"vulnerability", "binding", "serves"}
           /\ r.kind = "vulnerability" => r \in VulnerabilityRequest
           /\ r.kind = "binding" => r \in BindingRequest
           /\ r.kind = "serves" => r \in ServesRequest
  BY RequestsAssumption DEF VulnerabilityRequest, BindingRequest, ServesRequest

-----------------------------------------------------------------------------
(* Type correctness.                                                       *)

VulnerabilitySteps ==
    {"vulnerabilityExists", "createVulnerability", "reachingSymbols", "markReaching",
     "libraries", "libraryComponents", "libraryAssets", "componentAssets", "reachingComponents",
     "hostingAssets", "lateralMovement", "systems"}

\* TypeOK is not inductive: what a handler writes depends on the request it
\* holds being of the kind its step serves.
HandlersOK == \A w \in Workers :
    /\ pc[w] # "idle" => req[w] \in Requests
    /\ pc[w] = "idle" => req[w] = NoRequest
    /\ pc[w] \in VulnerabilitySteps => req[w].kind = "vulnerability"
    /\ pc[w] \in {"matchBinding", "createBinding"} => req[w].kind = "binding"
    /\ pc[w] = "upsertServes" => req[w].kind = "serves"
    /\ merr[w] => /\ req[w].kind = "vulnerability"
                  /\ pc[w] \in {"libraryComponents", "libraryAssets", "componentAssets", "failed"}

\* What a query of rule 1 has read is marked.
SeenOK == \A w \in Workers : seen[w] \subseteq mark.symbols

TypeInv == TypeOK /\ HandlersOK /\ SeenOK

LEMMA TypeInit == Init => TypeInv
  <1>1. Init => TypeOK
    <2> SUFFICES ASSUME Init PROVE TypeOK
      OBVIOUS
    <2>1. mark \in Mark
      BY DEF Init, Mark
    <2>2. entry \in Snapshot
      BY DEF Init, Now, Snapshot
    <2>3. pc \in [Workers -> Steps]
      BY DEF Init, Steps
    <2> QED BY <2>1, <2>2, <2>3 DEF Init, TypeOK
  <1>2. Init => HandlersOK
    BY DEF Init, HandlersOK, VulnerabilitySteps
  <1>3. Init => SeenOK
    BY DEF Init, SeenOK
  <1> QED BY <1>1, <1>2, <1>3 DEF TypeInv

\* A step keeps a handler within the functions of its call.
LEMMA NextHandlers == TypeInv /\ [Next]_vars => HandlersOK'
  <1> SUFFICES ASSUME TypeInv, [Next]_vars PROVE HandlersOK'
    OBVIOUS
  <1> USE DEF TypeInv, At, Goto, graph, VulnerabilitySteps
  <1>1. ASSUME NEW w \in Workers, NEW r \in Requests, Start(w, r) PROVE HandlersOK'
    BY <1>1, RequestTypes DEF Start, FirstStep, TypeOK, HandlersOK, NoRequest
  <1>2. ASSUME NEW w \in Workers, VulnerabilityExists(w) PROVE HandlersOK'
    BY <1>2 DEF VulnerabilityExists, TypeOK, HandlersOK
  <1>3. ASSUME NEW w \in Workers, CreateVulnerability(w) PROVE HandlersOK'
    BY <1>3 DEF CreateVulnerability, TypeOK, HandlersOK
  <1>4. ASSUME NEW w \in Workers, Propagate(w) PROVE HandlersOK'
    <2> DEFINE inRule2 == {"libraryComponents", "libraryAssets", "componentAssets", "failed"}
    <2>1. UNCHANGED <<req, merr>> /\ pc[w] \in VulnerabilitySteps
      BY <1>4 DEF Propagate, ReachingSymbols, MarkReaching, ProvidingLibraries, LibraryComponents,
                  LibraryAssets, ComponentAssets, ReachingComponents, HostingAssets,
                  LateralMovement, AllSystems
    <2>2. PICK step \in VulnerabilitySteps \cup {"done", "failed"} :
             /\ pc' = [pc EXCEPT ![w] = step]
             /\ merr[w] /\ pc[w] \in inRule2 => step \in inRule2
      BY <1>4 DEF Propagate, ReachingSymbols, MarkReaching, AfterLayer, ProvidingLibraries,
                  LibraryComponents, LibraryAssets, ComponentAssets, AfterRule2,
                  ReachingComponents, HostingAssets, LateralMovement, AllSystems
    <2> QED BY <2>1, <2>2 DEF TypeOK, HandlersOK
  <1>5. ASSUME NEW w \in Workers, MatchBinding(w) PROVE HandlersOK'
    BY <1>5 DEF MatchBinding, TypeOK, HandlersOK
  <1>6. ASSUME NEW w \in Workers, CreateBinding(w) PROVE HandlersOK'
    BY <1>6 DEF CreateBinding, TypeOK, HandlersOK
  <1>7. ASSUME NEW w \in Workers, UpsertServes(w) PROVE HandlersOK'
    BY <1>7 DEF UpsertServes, TypeOK, HandlersOK
  <1>8. ASSUME NEW w \in Workers, Respond(w) PROVE HandlersOK'
    <2>1. /\ pc' = [pc EXCEPT ![w] = "idle"]
          /\ req' = [req EXCEPT ![w] = NoRequest]
          /\ merr' = [merr EXCEPT ![w] = FALSE]
      BY <1>8 DEF Respond
    <2> QED BY <2>1 DEF TypeOK, HandlersOK
  <1>9. ASSUME NEW w \in Workers, CollectError(w) PROVE HandlersOK'
    <2>1. UNCHANGED req /\ merr' = [merr EXCEPT ![w] = TRUE] /\ pc[w] \in VulnerabilitySteps
      BY <1>9 DEF CollectError
    <2>2. PICK step \in {"libraryComponents", "libraryAssets", "componentAssets", "failed"} :
             pc' = [pc EXCEPT ![w] = step]
      BY <1>9 DEF CollectError, AfterRule2
    <2> QED BY <2>1, <2>2 DEF TypeOK, HandlersOK
  <1>10. ASSUME NEW w \in Workers, ReturnError(w) PROVE HandlersOK'
    BY <1>10 DEF ReturnError, TypeOK, HandlersOK
  <1>11. CASE Crash
    BY <1>11 DEF Crash, TypeOK, HandlersOK
  <1>12. CASE UNCHANGED vars
    BY <1>12 DEF vars, handler, HandlersOK
  <1> QED
    BY <1>1, <1>2, <1>3, <1>4, <1>5, <1>6, <1>7, <1>8, <1>9, <1>10, <1>11, <1>12
       DEF Next, Proceed

\* A rule writes marks and the step of its handler, nothing else.
LEMMA PropagateType ==
    ASSUME TypeOK, NEW w \in Workers, Propagate(w)
    PROVE  TypeOK'
  <1> USE DEF At, Goto, graph
  <1>1. CASE ReachingSymbols(w)
    <2>1. seen' \in [Workers -> SUBSET Symbols]
      BY <1>1 DEF ReachingSymbols, TypeOK, Mark
    <2> QED BY <1>1, <2>1 DEF ReachingSymbols, history, TypeOK, Steps
  <1>10. CASE MarkReaching(w)
    <2>1. PICK D \in SUBSET NewlyReaching(mark.symbols, seen[w]) :
             /\ mark' = [mark EXCEPT !.symbols = @ \cup {DepCaller[d] : d \in D},
                                     !.dependencies = @ \cup D]
             /\ pc' = [pc EXCEPT ![w] = AfterLayer(D)]
      BY <1>10 DEF MarkReaching
    <2>2. D \subseteq CallGraphDependencies /\ {DepCaller[d] : d \in D} \subseteq Symbols
      BY SelectionTypes DEF NewlyReaching
    <2>3. mark' \in Mark
      BY <2>1, <2>2 DEF TypeOK, Mark
    <2>4. pc' \in [Workers -> Steps]
      BY <2>1 DEF AfterLayer, TypeOK, Steps
    <2> QED BY <1>10, <2>3, <2>4 DEF MarkReaching, history, TypeOK
  <1>2. CASE ProvidingLibraries(w)
    <2>1. mark' \in Mark
      BY <1>2 DEF ProvidingLibraries, TypeOK, Mark, ProvidersOf
    <2> QED BY <1>2, <2>1 DEF ProvidingLibraries, history, TypeOK, Steps
  <1>3. CASE LibraryComponents(w)
    <2> DEFINE B == {b \in BoundToLibraries(bindings, mark.libraries) : b.component # None}
    <2>1. B \subseteq Binding
      BY SelectionTypes
    <2>2. {b.node : b \in B} \subseteq BindingNodes /\ ComponentsOf(B) \subseteq Components
      BY <2>1, SelectionTypes
    <2> HIDE DEF B
    <2>3. mark' = [mark EXCEPT !.bindings = @ \cup {b.node : b \in B},
                               !.components = @ \cup ComponentsOf(B)]
      BY <1>3 DEF LibraryComponents, B
    <2>4. mark' \in Mark
      BY <2>2, <2>3 DEF TypeOK, Mark
    <2> QED BY <1>3, <2>4 DEF LibraryComponents, history, TypeOK, Steps
  <1>4. CASE LibraryAssets(w)
    <2> DEFINE B == {b \in BoundToLibraries(bindings, mark.libraries) : b.asset # None}
    <2>1. B \subseteq Binding
      BY SelectionTypes
    <2>2. {b.node : b \in B} \subseteq BindingNodes /\ AssetsOf(B) \subseteq Assets
      BY <2>1, SelectionTypes
    <2> HIDE DEF B
    <2>3. mark' = [mark EXCEPT !.bindings = @ \cup {b.node : b \in B},
                               !.assets = @ \cup AssetsOf(B)]
      BY <1>4 DEF LibraryAssets, B
    <2>4. mark' \in Mark
      BY <2>2, <2>3 DEF TypeOK, Mark
    <2> QED BY <1>4, <2>4 DEF LibraryAssets, history, TypeOK, Steps
  <1>5. CASE ComponentAssets(w)
    <2> DEFINE B == {b \in BoundToComponents(bindings, mark.components) : b.asset # None}
    <2>1. B \subseteq Binding
      BY SelectionTypes
    <2>2. {b.node : b \in B} \subseteq BindingNodes /\ AssetsOf(B) \subseteq Assets
      BY <2>1, SelectionTypes
    <2> HIDE DEF B
    <2>3. mark' = [mark EXCEPT !.bindings = @ \cup {b.node : b \in B},
                               !.assets = @ \cup AssetsOf(B)]
      BY <1>5 DEF ComponentAssets, B
    <2>4. mark' \in Mark
      BY <2>2, <2>3 DEF TypeOK, Mark
    <2> QED BY <1>5, <2>4 DEF ComponentAssets, AfterRule2, history, TypeOK, Steps
  <1>6. CASE ReachingComponents(w)
    <2> DEFINE E == EndpointsServing(mark.symbols, serves)
               D == CallingDependencies(E)
    <2>1. /\ E \subseteq Endpoints
          /\ D \subseteq InterComponentDependencies
          /\ CallerEndpoints(D) \subseteq Endpoints
          /\ ExposedBy(CallerEndpoints(D)) \subseteq Components
      BY CallingTypes
    <2> HIDE DEF E, D
    <2>2. mark' = [mark EXCEPT !.endpoints = @ \cup E \cup CallerEndpoints(D),
                               !.interDependencies = @ \cup D,
                               !.components = @ \cup ExposedBy(CallerEndpoints(D))]
      BY <1>6 DEF ReachingComponents, E, D
    <2>3. mark' \in Mark
      BY <2>1, <2>2 DEF TypeOK, Mark
    <2> QED BY <1>6, <2>3 DEF ReachingComponents, history, TypeOK, Steps
  <1>7. CASE HostingAssets(w)
    <2>1. mark' \in Mark
      BY <1>7 DEF HostingAssets, TypeOK, Mark, HostsOf
    <2> QED BY <1>7, <2>1 DEF HostingAssets, history, TypeOK, Steps
  <1>8. CASE LateralMovement(w)
    <2>1. mark' \in Mark
      BY <1>8 DEF LateralMovement, TypeOK, Mark, HostedOn
    <2> QED BY <1>8, <2>1 DEF LateralMovement, history, TypeOK, Steps
  <1>9. CASE AllSystems(w)
    <2>1. mark' \in Mark
      BY <1>9 DEF AllSystems, TypeOK, Mark, SystemsOf
    <2> QED BY <1>9, <2>1 DEF AllSystems, history, TypeOK, Steps
  <1> QED BY <1>1, <1>2, <1>3, <1>4, <1>5, <1>6, <1>7, <1>8, <1>9, <1>10 DEF Propagate

LEMMA NextType == TypeInv /\ [Next]_vars => TypeOK'
  <1> SUFFICES ASSUME TypeOK, HandlersOK, [Next]_vars PROVE TypeOK'
    BY DEF TypeInv
  <1> USE DEF At, Goto, graph, history
  <1>1. ASSUME NEW w \in Workers, NEW r \in Requests, Start(w, r) PROVE TypeOK'
    <2>1. FirstStep(r) \in Steps
      BY RequestTypes DEF FirstStep, Steps
    <2> QED BY <1>1, <2>1 DEF Start, TypeOK
  <1>2. ASSUME NEW w \in Workers, VulnerabilityExists(w) PROVE TypeOK'
    <2>1. entry' \in Snapshot
      BY <1>2, SelectionTypes DEF VulnerabilityExists, TypeOK
    <2> QED BY <1>2, <2>1 DEF VulnerabilityExists, TypeOK, Steps
  <1>3. ASSUME NEW w \in Workers, CreateVulnerability(w) PROVE TypeOK'
    <2> DEFINE matched == {req[w].threatens} \cap Symbols
    <2>1. req[w].identity \in Identities
      BY <1>3, RequestTypes
         DEF CreateVulnerability, HandlersOK, VulnerabilitySteps, VulnerabilityRequest
    <2>2. mark' \in Mark
      BY <1>3 DEF CreateVulnerability, TypeOK, Mark
    <2>4. entry' \in Snapshot
      BY <1>3, SelectionTypes DEF CreateVulnerability
    <2>5. threatens' \subseteq Identities \X Symbols
      BY <1>3, <2>1 DEF CreateVulnerability, TypeOK
    <2> QED BY <1>3, <2>2, <2>4, <2>5 DEF CreateVulnerability, TypeOK, Steps
  <1>4. ASSUME NEW w \in Workers, Propagate(w) PROVE TypeOK'
    BY <1>4, PropagateType
  <1>5. ASSUME NEW w \in Workers, MatchBinding(w) PROVE TypeOK'
    BY <1>5 DEF MatchBinding, TypeOK, Steps
  <1>6. ASSUME NEW w \in Workers, CreateBinding(w) PROVE TypeOK'
    <2> DEFINE new == [node |-> CHOOSE n \in FreeNodes : TRUE,
                       library |-> MatchLibrary(req[w]),
                       component |-> MatchComponent(req[w]),
                       asset |-> MatchAsset(req[w])]
    <2>1. (CHOOSE n \in FreeNodes : TRUE) \in BindingNodes
      BY <1>6 DEF CreateBinding, FreeNodes
    <2>2. new \in Binding
      BY <2>1 DEF Binding, MatchLibrary, MatchComponent, MatchAsset
    <2>3. bindings' \subseteq Binding
      BY <1>6, <2>2 DEF CreateBinding, TypeOK
    <2> QED BY <1>6, <2>3 DEF CreateBinding, TypeOK, Steps
  <1>7. ASSUME NEW w \in Workers, UpsertServes(w) PROVE TypeOK'
    BY <1>7 DEF UpsertServes, TypeOK, Steps
  <1>8. ASSUME NEW w \in Workers, Respond(w) PROVE TypeOK'
    <2>1. req[w] \in Requests
      BY <1>8 DEF Respond, HandlersOK
    <2>2. troubled' \in BOOLEAN /\ awaiting' \subseteq Requests /\ answered' \subseteq Requests
      BY <1>8, <2>1 DEF Respond, Settle, TypeOK
    <2>3. UNCHANGED <<mark, threatens, bindings, serves, seen, entry>>
      BY <1>8 DEF Respond, Settle
    <2>4. /\ pc' \in [Workers -> Steps]
          /\ req' \in [Workers -> Requests \cup {NoRequest}]
          /\ merr' \in [Workers -> BOOLEAN]
      BY <1>8 DEF Respond, TypeOK, Steps
    <2> QED BY <2>2, <2>3, <2>4 DEF TypeOK
  <1>9. ASSUME NEW w \in Workers, CollectError(w) PROVE TypeOK'
    BY <1>9 DEF CollectError, AfterRule2, TypeOK, Steps
  <1>10. ASSUME NEW w \in Workers, ReturnError(w) PROVE TypeOK'
    BY <1>10 DEF ReturnError, TypeOK, Steps
  <1>11. CASE Crash
    BY <1>11 DEF Crash, TypeOK, Steps
  <1>12. CASE UNCHANGED vars
    BY <1>12 DEF vars, handler, TypeOK
  <1> QED
    BY <1>1, <1>2, <1>3, <1>4, <1>5, <1>6, <1>7, <1>8, <1>9, <1>10, <1>11, <1>12
       DEF Next, Proceed

-----------------------------------------------------------------------------
(* Reachability, for any call graph.                                       *)

LEMMA ReachingContains ==
    ASSUME NEW S \in SUBSET Symbols
    PROVE  S \subseteq Reaching(S)
  BY DEF Reaching

LEMMA ReachingGrows ==
    ASSUME NEW S, NEW T, S \subseteq T
    PROVE  Reaching(S) \subseteq Reaching(T)
  BY DEF Reaching

\* A caller of a symbol that reaches S reaches S.
LEMMA ReachingClosed ==
    ASSUME NEW S
    PROVE  CallerClosed(Reaching(S))
  <1> SUFFICES ASSUME NEW d \in CallGraphDependencies,
                      NEW s \in DepCallees[d], s \in Reaching(S),
                      NEW T \in SUBSET Symbols, S \subseteq T, CallerClosed(T)
               PROVE  DepCaller[d] \in T
    BY KnowledgeGraphAssumption DEF CallerClosed, Reaching
  <1>1. s \in T
    BY DEF Reaching
  <1> QED BY <1>1 DEF CallerClosed

\* A caller-closed set of symbols that contains S contains what reaches S.
LEMMA ReachingLeast ==
    ASSUME NEW S, NEW T \in SUBSET Symbols, S \subseteq T, CallerClosed(T)
    PROVE  Reaching(S) \subseteq T
  BY DEF Reaching

-----------------------------------------------------------------------------
(* Marks and relationships are never taken back.                           *)

Grows ==
    /\ mark.symbols \subseteq mark'.symbols
    /\ mark.libraries \subseteq mark'.libraries
    /\ mark.components \subseteq mark'.components
    /\ mark.assets \subseteq mark'.assets
    /\ mark.systems \subseteq mark'.systems
    /\ threatens \subseteq threatens'
    /\ bindings \subseteq bindings'
    /\ serves \subseteq serves'

LEMMA PropagateGrows == TypeOK => \A w \in Workers : Propagate(w) => Grows
  <1> SUFFICES ASSUME TypeOK, NEW w \in Workers, Propagate(w) PROVE Grows
    OBVIOUS
  <1>1. CASE ReachingSymbols(w)
    BY <1>1 DEF ReachingSymbols, graph, Grows
  <1>10. CASE MarkReaching(w)
    BY <1>10 DEF MarkReaching, graph, Grows, TypeOK, Mark
  <1>2. CASE ProvidingLibraries(w)
    BY <1>2 DEF ProvidingLibraries, graph, Grows, TypeOK, Mark
  <1>3. CASE LibraryComponents(w)
    BY <1>3 DEF LibraryComponents, graph, Grows, TypeOK, Mark
  <1>4. CASE LibraryAssets(w)
    BY <1>4 DEF LibraryAssets, graph, Grows, TypeOK, Mark
  <1>5. CASE ComponentAssets(w)
    BY <1>5 DEF ComponentAssets, graph, Grows, TypeOK, Mark
  <1>6. CASE ReachingComponents(w)
    BY <1>6 DEF ReachingComponents, graph, Grows, TypeOK, Mark
  <1>7. CASE HostingAssets(w)
    BY <1>7 DEF HostingAssets, graph, Grows, TypeOK, Mark
  <1>8. CASE LateralMovement(w)
    BY <1>8 DEF LateralMovement, graph, Grows, TypeOK, Mark
  <1>9. CASE AllSystems(w)
    BY <1>9 DEF AllSystems, graph, Grows, TypeOK, Mark
  <1> QED BY <1>1, <1>2, <1>3, <1>4, <1>5, <1>6, <1>7, <1>8, <1>9, <1>10 DEF Propagate

LEMMA NextGrows == TypeOK /\ [Next]_vars => Grows
  <1> SUFFICES ASSUME TypeOK, [Next]_vars PROVE Grows
    OBVIOUS
  <1>1. ASSUME NEW w \in Workers, CreateVulnerability(w) PROVE Grows
    BY <1>1 DEF CreateVulnerability, Grows, TypeOK, Mark
  <1>2. ASSUME NEW w \in Workers, Propagate(w) PROVE Grows
    BY <1>2, PropagateGrows
  <1>3. CASE UNCHANGED <<mark, threatens>> /\ bindings \subseteq bindings' /\ serves \subseteq serves'
    BY <1>3 DEF Grows
  <1>4. \/ \E w \in Workers : CreateVulnerability(w) \/ Propagate(w)
        \/ UNCHANGED <<mark, threatens>> /\ bindings \subseteq bindings' /\ serves \subseteq serves'
    BY DEF Next, Start, Proceed, VulnerabilityExists, MatchBinding, CreateBinding,
           UpsertServes, Respond, CollectError, ReturnError, Crash, graph, vars
  <1> QED BY <1>1, <1>2, <1>3, <1>4

\* What was seen marked stays so.
LEMMA NextSeen == TypeInv /\ [Next]_vars => SeenOK'
  <1> SUFFICES ASSUME TypeInv, [Next]_vars, NEW w \in Workers
               PROVE  seen'[w] \subseteq mark'.symbols
    BY DEF SeenOK
  <1>1. mark.symbols \subseteq mark'.symbols
    BY NextGrows DEF TypeInv, Grows
  <1>2. seen'[w] \in {seen[w], mark.symbols, {}}
    BY DEF Next, Start, Proceed, Propagate, VulnerabilityExists, CreateVulnerability,
           ReachingSymbols, MarkReaching, ProvidingLibraries, LibraryComponents, LibraryAssets,
           ComponentAssets, ReachingComponents, HostingAssets, LateralMovement, AllSystems,
           MatchBinding, CreateBinding, UpsertServes, Respond, CollectError, ReturnError,
           Crash, vars, handler, TypeInv, TypeOK
  <1> QED BY <1>1, <1>2 DEF TypeInv, SeenOK

LEMMA NextTypeInv == TypeInv /\ [Next]_vars => TypeInv'
  BY NextType, NextHandlers, NextSeen DEF TypeInv

\* The labels of the database hold: no mark, relationship or Binding ever names
\* a node of another label, and no handler leaves the functions of its call.
THEOREM TypeCorrect == Spec => []TypeOK
  <1>1. TypeInv => TypeOK
    BY DEF TypeInv
  <1> QED BY TypeInit, NextTypeInv, <1>1, PTL DEF Spec

-----------------------------------------------------------------------------
(* Soundness of rule 1.                                                    *)

LEMMA SymbolStep == TypeInv /\ SymbolMarksAreSound /\ [Next]_vars => SymbolMarksAreSound'
  <1> SUFFICES ASSUME TypeInv, SymbolMarksAreSound, [Next]_vars
               PROVE  mark'.symbols \subseteq Reaching(Threatened')
    BY DEF SymbolMarksAreSound, Reaching, CallerClosed
  <1>1. Grows
    BY NextGrows DEF TypeInv
  <1>2. Reaching(Threatened) \subseteq Reaching(Threatened')
    BY <1>1, ReachingGrows DEF Grows, Threatened
  <1>3. ASSUME NEW w \in Workers, CreateVulnerability(w)
        PROVE  mark'.symbols \subseteq Reaching(Threatened')
    <2> DEFINE matched == {req[w].threatens} \cap Symbols
    <2>1. mark'.symbols = mark.symbols \cup matched
      BY <1>3 DEF CreateVulnerability, TypeInv, TypeOK, Mark
    <2>2. threatens' = threatens \cup ({req[w].identity} \X matched)
      BY <1>3 DEF CreateVulnerability
    <2>3. matched \subseteq Threatened'
      <3> SUFFICES ASSUME NEW s \in matched PROVE s \in Threatened'
        OBVIOUS
      <3>1. <<req[w].identity, s>> \in threatens'
        BY <2>2
      <3> QED BY <3>1 DEF Threatened
    <2>4. matched \subseteq Reaching(matched) /\ Reaching(matched) \subseteq Reaching(Threatened')
      BY <2>3, ReachingContains, ReachingGrows
    <2> HIDE DEF matched
    <2> QED BY <1>2, <2>1, <2>4 DEF SymbolMarksAreSound
  <1>4. ASSUME NEW w \in Workers, MarkReaching(w)
        PROVE  mark'.symbols \subseteq Reaching(Threatened')
    <2>1. PICK D \in SUBSET NewlyReaching(mark.symbols, seen[w]) :
             mark'.symbols = mark.symbols \cup {DepCaller[d] : d \in D}
      BY <1>4 DEF MarkReaching, TypeInv, TypeOK, Mark
    <2>2. {DepCaller[d] : d \in D} \subseteq Reaching(Threatened)
      BY ReachingClosed DEF NewlyReaching, CallerClosed, SymbolMarksAreSound
    <2> QED BY <1>2, <2>1, <2>2 DEF SymbolMarksAreSound
  <1>5. CASE mark'.symbols = mark.symbols
    BY <1>2, <1>5 DEF SymbolMarksAreSound
  <1>6. \/ \E w \in Workers : CreateVulnerability(w) \/ MarkReaching(w)
        \/ mark'.symbols = mark.symbols
    BY DEF Next, Start, Proceed, Propagate, VulnerabilityExists, ReachingSymbols,
           ProvidingLibraries, LibraryComponents, LibraryAssets, ComponentAssets,
           ReachingComponents, HostingAssets, LateralMovement, AllSystems, MatchBinding,
           CreateBinding, UpsertServes, Respond, CollectError, ReturnError, Crash, vars,
           TypeInv, TypeOK, Mark
  <1> QED BY <1>3, <1>4, <1>5, <1>6

\* Whatever the call graph, the clients and the failures, the fixed point of
\* rule 1 marks only symbols that reach a threatened symbol.
THEOREM SymbolSoundness == Spec => []SymbolMarksAreSound
  <1>1. Init => SymbolMarksAreSound
    BY DEF Init, SymbolMarksAreSound
  <1> QED BY TypeInit, <1>1, NextTypeInv, SymbolStep, PTL DEF Spec

-----------------------------------------------------------------------------
(* Every selection of the rules grows with what it selects from.           *)

LEMMA ProvidersGrow ==
    ASSUME NEW S, NEW T, S \subseteq T
    PROVE  ProvidersOf(S) \subseteq ProvidersOf(T)
  BY DEF ProvidersOf

LEMMA BoundGrow ==
    ASSUME NEW A, NEW B, A \subseteq B, NEW S, NEW T, S \subseteq T
    PROVE  /\ BoundToLibraries(A, S) \subseteq BoundToLibraries(B, T)
           /\ BoundToComponents(A, S) \subseteq BoundToComponents(B, T)
  BY DEF BoundToLibraries, BoundToComponents

LEMMA TargetsGrow ==
    ASSUME NEW A, NEW B, A \subseteq B
    PROVE  /\ ComponentsOf(A) \subseteq ComponentsOf(B)
           /\ AssetsOf(A) \subseteq AssetsOf(B)
  BY DEF ComponentsOf, AssetsOf

\* Leaving out the Bindings without a target leaves out no target.
LEMMA TargetsMatched ==
    ASSUME NEW B
    PROVE  /\ ComponentsOf({b \in B : b.component # None}) = ComponentsOf(B)
           /\ AssetsOf({b \in B : b.asset # None}) = AssetsOf(B)
  BY DEF ComponentsOf, AssetsOf

LEMMA CallingGrow ==
    ASSUME NEW S, NEW T, S \subseteq T, NEW V, NEW W, V \subseteq W
    PROVE  ComponentsCalling(S, V) \subseteq ComponentsCalling(T, W)
  <1>1. EndpointsServing(S, V) \subseteq EndpointsServing(T, W)
    BY DEF EndpointsServing
  <1>2. ASSUME NEW D, NEW E, D \subseteq E
        PROVE  CallingDependencies(D) \subseteq CallingDependencies(E)
    BY <1>2 DEF CallingDependencies
  <1>3. ASSUME NEW D, NEW E, D \subseteq E
        PROVE  ExposedBy(CallerEndpoints(D)) \subseteq ExposedBy(CallerEndpoints(E))
    BY <1>3 DEF ExposedBy, CallerEndpoints
  <1> QED BY <1>1, <1>2, <1>3 DEF ComponentsCalling

LEMMA HostingGrow ==
    ASSUME NEW S, NEW T, S \subseteq T
    PROVE  /\ HostsOf(S) \subseteq HostsOf(T)
           /\ HostedOn(S) \subseteq HostedOn(T)
           /\ SystemsOf(S) \subseteq SystemsOf(T)
  BY DEF HostsOf, HostedOn, SystemsOf

-----------------------------------------------------------------------------
(* Soundness of rules 2 to 5.                                              *)

\* A set that the rules close in the new graph, they close in the old one.
LEMMA ClosedBefore ==
    ASSUME Grows, NEW C, NEW A, RulesClosed(C, A)'
    PROVE  RulesClosed(C, A)
  <1>1. BoundToLibraries(bindings, mark.libraries) \subseteq BoundToLibraries(bindings', mark'.libraries)
    BY BoundGrow DEF Grows
  <1>2. BoundToComponents(bindings, C) \subseteq BoundToComponents(bindings', C)
    BY BoundGrow DEF Grows
  <1>3. ComponentsCalling(mark.symbols, serves) \subseteq ComponentsCalling(mark'.symbols, serves')
    BY CallingGrow DEF Grows
  <1>4. /\ ComponentsOf(BoundToLibraries(bindings', mark'.libraries)) \subseteq C
        /\ AssetsOf(BoundToLibraries(bindings', mark'.libraries)) \subseteq A
        /\ AssetsOf(BoundToComponents(bindings', C)) \subseteq A
        /\ ComponentsCalling(mark'.symbols, serves') \subseteq C
        /\ HostsOf(C) \subseteq A
        /\ HostedOn(A) \subseteq C
    BY DEF RulesClosed, ComponentsOf, AssetsOf, BoundToLibraries, BoundToComponents,
           ComponentsCalling, ExposedBy, CallerEndpoints, CallingDependencies,
           EndpointsServing, HostsOf, HostedOn
  <1>5. /\ ComponentsOf(BoundToLibraries(bindings, mark.libraries)) \subseteq C
        /\ AssetsOf(BoundToLibraries(bindings, mark.libraries)) \subseteq A
        /\ AssetsOf(BoundToComponents(bindings, C)) \subseteq A
    BY <1>1, <1>2, <1>4, TargetsGrow
  <1>6. ComponentsCalling(mark.symbols, serves) \subseteq C
    BY <1>3, <1>4
  <1> QED BY <1>4, <1>5, <1>6 DEF RulesClosed

\* What one rule adds, in terms of what was marked.
RuleAdds(C, A) ==
    /\ C \subseteq ComponentsOf(BoundToLibraries(bindings, mark.libraries))
                   \cup ComponentsCalling(mark.symbols, serves)
                   \cup HostedOn(mark.assets)
    /\ A \subseteq AssetsOf(BoundToLibraries(bindings, mark.libraries))
                   \cup AssetsOf(BoundToComponents(bindings, mark.components))
                   \cup HostsOf(mark.components)

LEMMA PropagateAdds ==
    ASSUME TypeOK, NEW w \in Workers, Propagate(w)
    PROVE  /\ \E C, A : /\ RuleAdds(C, A)
                        /\ mark'.components = mark.components \cup C
                        /\ mark'.assets = mark.assets \cup A
           /\ mark'.libraries \subseteq mark.libraries \cup ProvidersOf(mark.symbols)
           /\ mark'.systems \subseteq mark.systems \cup SystemsOf(mark.components)
  <1>0. RuleAdds({}, {})
    BY DEF RuleAdds
  <1>1. CASE ReachingSymbols(w) \/ MarkReaching(w) \/ ProvidingLibraries(w) \/ AllSystems(w)
    <2>1. /\ mark'.components = mark.components \cup {}
          /\ mark'.assets = mark.assets \cup {}
          /\ mark'.libraries \subseteq mark.libraries \cup ProvidersOf(mark.symbols)
          /\ mark'.systems \subseteq mark.systems \cup SystemsOf(mark.components)
      BY <1>1 DEF ReachingSymbols, MarkReaching, ProvidingLibraries, AllSystems, TypeOK, Mark
    <2> QED BY <1>0, <2>1
  <1>2. CASE LibraryComponents(w)
    <2> DEFINE B == BoundToLibraries(bindings, mark.libraries)
    <2>1. mark'.components = mark.components \cup ComponentsOf(B)
      BY <1>2, TargetsMatched DEF LibraryComponents, TypeOK, Mark
    <2>2. UNCHANGED <<mark.assets, mark.libraries, mark.systems>>
      BY <1>2 DEF LibraryComponents, TypeOK, Mark
    <2>3. RuleAdds(ComponentsOf(B), {})
      BY DEF RuleAdds
    <2> HIDE DEF B
    <2> QED BY <2>1, <2>2, <2>3
  <1>3. CASE LibraryAssets(w)
    <2> DEFINE B == BoundToLibraries(bindings, mark.libraries)
    <2>1. mark'.assets = mark.assets \cup AssetsOf(B)
      BY <1>3, TargetsMatched DEF LibraryAssets, TypeOK, Mark
    <2>2. UNCHANGED <<mark.components, mark.libraries, mark.systems>>
      BY <1>3 DEF LibraryAssets, TypeOK, Mark
    <2>3. RuleAdds({}, AssetsOf(B))
      BY DEF RuleAdds
    <2> HIDE DEF B
    <2> QED BY <2>1, <2>2, <2>3
  <1>4. CASE ComponentAssets(w)
    <2> DEFINE B == BoundToComponents(bindings, mark.components)
    <2>1. mark'.assets = mark.assets \cup AssetsOf(B)
      BY <1>4, TargetsMatched DEF ComponentAssets, TypeOK, Mark
    <2>2. UNCHANGED <<mark.components, mark.libraries, mark.systems>>
      BY <1>4 DEF ComponentAssets, TypeOK, Mark
    <2>3. RuleAdds({}, AssetsOf(B))
      BY DEF RuleAdds
    <2> HIDE DEF B
    <2> QED BY <2>1, <2>2, <2>3
  <1>5. CASE ReachingComponents(w)
    <2> DEFINE C == ComponentsCalling(mark.symbols, serves)
    <2>1. mark'.components = mark.components \cup C
      BY <1>5 DEF ReachingComponents, ComponentsCalling, TypeOK, Mark
    <2>2. UNCHANGED <<mark.assets, mark.libraries, mark.systems>>
      BY <1>5 DEF ReachingComponents, TypeOK, Mark
    <2>3. RuleAdds(C, {})
      BY DEF RuleAdds
    <2> HIDE DEF C
    <2> QED BY <2>1, <2>2, <2>3
  <1>6. CASE HostingAssets(w)
    <2>1. /\ mark'.assets = mark.assets \cup HostsOf(mark.components)
          /\ UNCHANGED <<mark.components, mark.libraries, mark.systems>>
      BY <1>6 DEF HostingAssets, TypeOK, Mark
    <2>2. RuleAdds({}, HostsOf(mark.components))
      BY DEF RuleAdds
    <2> QED BY <2>1, <2>2
  <1>7. CASE LateralMovement(w)
    <2>1. /\ mark'.components = mark.components \cup HostedOn(mark.assets)
          /\ UNCHANGED <<mark.assets, mark.libraries, mark.systems>>
      BY <1>7 DEF LateralMovement, TypeOK, Mark
    <2>2. RuleAdds(HostedOn(mark.assets), {})
      BY DEF RuleAdds
    <2> QED BY <2>1, <2>2
  <1> QED BY <1>1, <1>2, <1>3, <1>4, <1>5, <1>6, <1>7 DEF Propagate

LEMMA DeploymentStep ==
    TypeInv /\ DeploymentMarksAreSound /\ [Next]_vars => DeploymentMarksAreSound'
  <1> SUFFICES ASSUME TypeInv, DeploymentMarksAreSound, [Next]_vars
               PROVE  DeploymentMarksAreSound'
    OBVIOUS
  <1>1. Grows
    BY NextGrows DEF TypeInv
  <1>2. \/ \E w \in Workers : Propagate(w)
        \/ UNCHANGED <<mark.libraries, mark.components, mark.assets, mark.systems>>
    BY DEF Next, Start, Proceed, VulnerabilityExists, CreateVulnerability, MatchBinding,
           CreateBinding, UpsertServes, Respond, CollectError, ReturnError, Crash, vars,
           TypeInv, TypeOK, Mark
  <1>3. /\ mark'.libraries \subseteq mark.libraries \cup ProvidersOf(mark.symbols)
        /\ mark'.systems \subseteq mark.systems \cup SystemsOf(mark.components)
    BY <1>2, PropagateAdds DEF TypeInv
  <1>4. mark'.libraries \subseteq ProvidersOf(mark'.symbols)
    BY <1>1, <1>3, ProvidersGrow DEF Grows, DeploymentMarksAreSound
  <1>5. mark'.systems \subseteq SystemsOf(mark'.components)
    BY <1>1, <1>3, HostingGrow DEF Grows, DeploymentMarksAreSound
  <1>6. ASSUME NEW C \in SUBSET Components, NEW A \in SUBSET Assets, RulesClosed(C, A)'
        PROVE  mark'.components \subseteq C /\ mark'.assets \subseteq A
    <2>1. RulesClosed(C, A)
      BY <1>1, <1>6, ClosedBefore
    <2>2. mark.components \subseteq C /\ mark.assets \subseteq A
      BY <2>1 DEF DeploymentMarksAreSound
    <2>3. ASSUME NEW D, NEW E, RuleAdds(D, E)
          PROVE  D \subseteq C /\ E \subseteq A
      <3>1. HostedOn(mark.assets) \subseteq C /\ HostsOf(mark.components) \subseteq A
        BY <2>1, <2>2, HostingGrow DEF RulesClosed
      <3>2. AssetsOf(BoundToComponents(bindings, mark.components)) \subseteq A
        BY <2>1, <2>2, BoundGrow, TargetsGrow DEF RulesClosed
      <3> QED BY <2>1, <2>3, <3>1, <3>2 DEF RuleAdds, RulesClosed
    <2> QED BY <1>2, <2>2, <2>3, PropagateAdds DEF TypeInv
  <1> QED BY <1>4, <1>5, <1>6 DEF DeploymentMarksAreSound, ProvidersOf, SystemsOf

\* Rules 2 to 5 mark nothing outside any set of components and assets that the
\* rules close, and no library or system without a marked symbol or component.
THEOREM DeploymentSoundness == Spec => []DeploymentMarksAreSound
  <1>1. Init => DeploymentMarksAreSound
    BY DEF Init, DeploymentMarksAreSound
  <1> QED BY TypeInit, <1>1, NextTypeInv, DeploymentStep, PTL DEF Spec

-----------------------------------------------------------------------------
(* Completeness of a series of researches.                                 *)

\* The steps of a research up to each rule, that rule included.
ToSymbols1 == {"vulnerabilityExists", "createVulnerability", "reachingSymbols"}
ToLibraries2 == ToSymbols1 \cup {"markReaching", "libraries"}
ToComponents3a == ToLibraries2 \cup {"libraryComponents"}
ToAssets4a == ToComponents3a \cup {"libraryAssets"}
ToAssets2 == ToAssets4a \cup {"componentAssets"}
ToReaching3b == ToAssets2 \cup {"reachingComponents"}
ToHosting4b == ToReaching3b \cup {"hostingAssets"}
ToLateral3c == ToHosting4b \cup {"lateralMovement"}
ToSystems5 == ToLateral3c \cup {"systems"}

\* A research has yet to take one of these steps.
Ahead(steps) == \E w \in Workers : pc[w] \in steps

\* What the marks of symbols and libraries make rules 2 to 5 mark, through entry.
Bound3a == ComponentsOf(BoundToLibraries(entry.bindings, mark.libraries))
Bound4a == AssetsOf(BoundToLibraries(entry.bindings, mark.libraries))
Bound2 == AssetsOf(BoundToComponents(entry.bindings, Bound3a))
Reached3b == ComponentsCalling(mark.symbols, entry.serves)
Hosts4b == HostsOf(Bound3a \cup Reached3b)
Pivots3c == HostedOn(Bound4a \cup Bound2 \cup Hosts4b)

\* What a rule has to mark is marked, or a research has that rule before it.  For
\* rule 1, it must also have read the callee as marked: who marks a symbol reads
\* again, and who ends its loop has marked the callers of all it has read.
Cover1 == \A d \in CallGraphDependencies : \A s \in DepCallees[d] \cap mark.symbols :
              \/ DepCaller[d] \in mark.symbols
              \/ Ahead(ToSymbols1)
              \/ \E w \in Workers : pc[w] = "markReaching" /\ s \in seen[w]
Cover2 == Ahead(ToLibraries2) \/ ProvidersOf(mark.symbols) \subseteq mark.libraries
Cover3a == Ahead(ToComponents3a) \/ Bound3a \subseteq mark.components
Cover4a == Ahead(ToAssets4a) \/ Bound4a \subseteq mark.assets
Cover2b == Ahead(ToAssets2) \/ Bound2 \subseteq mark.assets
Cover3b == Ahead(ToReaching3b) \/ Reached3b \subseteq mark.components
Cover4b == Ahead(ToHosting4b) \/ Hosts4b \subseteq mark.assets
Cover3c == Ahead(ToLateral3c) \/ Pivots3c \subseteq mark.components
Cover5 == Ahead(ToSystems5) \/ SystemsOf(Bound3a \cup Reached3b \cup Pivots3c) \subseteq mark.systems

Cover == Cover1 /\ Cover2 /\ Cover3a /\ Cover4a /\ Cover2b /\ Cover3b /\ Cover4b /\ Cover3c /\ Cover5

\* The series has failed, or will when a research of it is answered.
Doomed == troubled \/ \E w \in Researching : merr[w] \/ pc[w] = "failed"

CoverInv == /\ Threatened \subseteq mark.symbols
            /\ entry.bindings \subseteq bindings /\ entry.serves \subseteq serves
            /\ Doomed \/ Cover

\* Marks that nobody has to extend contain what the rules reach.
LEMMA CoverImplies == TypeInv /\ CoverInv => CompletedCovers
  <1> SUFFICES ASSUME TypeInv, CoverInv, Succeeded
               PROVE  /\ ReachedSymbols \subseteq mark.symbols
                      /\ ReachedLibraries \subseteq mark.libraries
                      /\ PivotComponents(entry) \subseteq mark.components
                      /\ ReachedAssets(entry) \subseteq mark.assets
                      /\ ReachedSystems(entry) \subseteq mark.systems
    BY DEF CompletedCovers
  <1>1. \A w \in Workers : pc[w] \notin VulnerabilitySteps
    BY DEF Succeeded, Researching, TypeInv, HandlersOK
  <1>2. /\ ~Ahead(ToSymbols1) /\ ~Ahead(ToLibraries2) /\ ~Ahead(ToComponents3a)
        /\ ~Ahead(ToAssets4a) /\ ~Ahead(ToAssets2) /\ ~Ahead(ToReaching3b)
        /\ ~Ahead(ToHosting4b) /\ ~Ahead(ToLateral3c) /\ ~Ahead(ToSystems5)
        /\ \A w \in Workers : pc[w] # "markReaching"
    BY <1>1 DEF Ahead, VulnerabilitySteps, ToSymbols1, ToLibraries2, ToComponents3a, ToAssets4a,
                ToAssets2, ToReaching3b, ToHosting4b, ToLateral3c, ToSystems5
  <1>3. Cover
    BY DEF CoverInv, Doomed, Succeeded
  <1>4. CallerClosed(mark.symbols)
    BY <1>2, <1>3 DEF Cover, Cover1, CallerClosed
  <1>5. ReachedSymbols \subseteq mark.symbols
    BY <1>4, ReachingLeast DEF ReachedSymbols, CoverInv, TypeInv, TypeOK, Mark
  <1>6. ReachedLibraries \subseteq mark.libraries
    BY <1>2, <1>3, <1>5, ProvidersGrow DEF Cover, Cover2, ReachedLibraries
  <1>7. BoundToLibraries(entry.bindings, ReachedLibraries) \subseteq BoundToLibraries(entry.bindings, mark.libraries)
    BY <1>6, BoundGrow
  <1>8. BoundComponents(entry) \subseteq Bound3a
    BY <1>7, TargetsGrow DEF BoundComponents, Bound3a
  <1>9. BoundToComponents(entry.bindings, BoundComponents(entry)) \subseteq BoundToComponents(entry.bindings, Bound3a)
    BY <1>8, BoundGrow
  <1>10. BoundAssets(entry) \subseteq Bound4a \cup Bound2
    BY <1>7, <1>9, TargetsGrow DEF BoundAssets, Bound4a, Bound2
  <1>11. ReachedComponents(entry) \subseteq Bound3a \cup Reached3b
    <2>1. ComponentsCalling(ReachedSymbols, entry.serves) \subseteq Reached3b
      BY <1>5, CallingGrow DEF Reached3b
    <2> QED BY <1>8, <2>1 DEF ReachedComponents
  <1>12. ReachedAssets(entry) \subseteq Bound4a \cup Bound2 \cup Hosts4b
    <2>1. HostsOf(ReachedComponents(entry)) \subseteq Hosts4b
      BY <1>11, HostingGrow DEF Hosts4b
    <2> QED BY <1>10, <2>1 DEF ReachedAssets
  <1>13. PivotComponents(entry) \subseteq Bound3a \cup Reached3b \cup Pivots3c
    <2>1. HostedOn(ReachedAssets(entry)) \subseteq Pivots3c
      BY <1>12, HostingGrow DEF Pivots3c
    <2> QED BY <1>11, <2>1 DEF PivotComponents
  <1>14. ReachedSystems(entry) \subseteq SystemsOf(Bound3a \cup Reached3b \cup Pivots3c)
    BY <1>13, HostingGrow DEF ReachedSystems
  <1>15. /\ Bound3a \cup Reached3b \cup Pivots3c \subseteq mark.components
         /\ Bound4a \cup Bound2 \cup Hosts4b \subseteq mark.assets
         /\ SystemsOf(Bound3a \cup Reached3b \cup Pivots3c) \subseteq mark.systems
    BY <1>2, <1>3 DEF Cover, Cover3a, Cover4a, Cover2b, Cover3b, Cover4b, Cover3c, Cover5
  <1> QED BY <1>5, <1>6, <1>12, <1>13, <1>14, <1>15

\* The rules after the first.
LaterRule(w) ==
    \/ ProvidingLibraries(w) \/ LibraryComponents(w) \/ LibraryAssets(w)
    \/ ComponentAssets(w) \/ ReachingComponents(w) \/ HostingAssets(w)
    \/ LateralMovement(w) \/ AllSystems(w)

\* The others stay where they are.
Alone(w) == \A v \in Workers \ {w} : pc'[v] = pc[v] /\ seen'[v] = seen[v]

\* What may happen to a series that does not fail.
LEMMA StepKinds ==
    ASSUME TypeInv, [Next]_vars, ~Doomed'
    PROVE  \/ \E w \in Workers : pc'[w] \in ToSymbols1
           \/ \E w \in Workers : ReachingSymbols(w) \/ MarkReaching(w) \/ LaterRule(w)
           \/ /\ UNCHANGED <<mark, entry>>
              /\ \A v \in Workers : pc[v] \in VulnerabilitySteps =>
                    pc'[v] = pc[v] /\ seen'[v] = seen[v]
  <1> USE DEF At, Goto, TypeInv, TypeOK
  <1>1. ASSUME NEW w \in Workers, NEW r \in Requests, Start(w, r)
        PROVE  \/ pc'[w] \in ToSymbols1
               \/ /\ UNCHANGED <<mark, entry>>
                  /\ \A v \in Workers : pc[v] \in VulnerabilitySteps =>
                        pc'[v] = pc[v] /\ seen'[v] = seen[v]
    BY <1>1 DEF Start, VulnerabilitySteps
  <1>2. ASSUME NEW w \in Workers, VulnerabilityExists(w) \/ CreateVulnerability(w)
        PROVE  pc'[w] \in ToSymbols1
    BY <1>2 DEF VulnerabilityExists, CreateVulnerability, ToSymbols1
  <1>3. ASSUME NEW w \in Workers, MatchBinding(w) \/ CreateBinding(w) \/ UpsertServes(w) \/ Respond(w)
        PROVE  /\ UNCHANGED <<mark, entry>>
               /\ \A v \in Workers : pc[v] \in VulnerabilitySteps =>
                     pc'[v] = pc[v] /\ seen'[v] = seen[v]
    BY <1>3 DEF MatchBinding, CreateBinding, UpsertServes, Respond, Settle, history,
                VulnerabilitySteps
  <1>4. ASSUME NEW w \in Workers, CollectError(w) PROVE FALSE
    <2>1. w \in Researching' /\ merr'[w]
      BY <1>4 DEF CollectError, HandlersOK, VulnerabilitySteps, Researching
    <2> QED BY <2>1 DEF Doomed
  <1>5. ASSUME NEW w \in Workers, ReturnError(w)
        PROVE  /\ UNCHANGED <<mark, entry>>
               /\ \A v \in Workers : pc[v] \in VulnerabilitySteps =>
                     pc'[v] = pc[v] /\ seen'[v] = seen[v]
    <2>1. pc[w] \notin VulnerabilitySteps
      <3>1. pc[w] \in VulnerabilitySteps => w \in Researching' /\ pc'[w] = "failed"
        BY <1>5 DEF ReturnError, HandlersOK, Researching
      <3> QED BY <3>1 DEF Doomed
    <2> QED BY <1>5, <2>1 DEF ReturnError, history
  <1>6. ASSUME Crash
        PROVE  /\ UNCHANGED <<mark, entry>>
               /\ \A v \in Workers : pc[v] \notin VulnerabilitySteps
    <2>1. ~troubled'
      BY DEF Doomed
    <2> QED BY <1>6, <2>1 DEF Crash, HandlersOK, Researching
  <1>7. UNCHANGED vars => /\ UNCHANGED <<mark, entry>>
                          /\ \A v \in Workers : pc'[v] = pc[v] /\ seen'[v] = seen[v]
    BY DEF vars, handler, history
  <1> QED BY <1>1, <1>2, <1>3, <1>4, <1>5, <1>6, <1>7 DEF Next, Proceed, Propagate, LaterRule

\* A series that has failed stays so, unless another begins.
LEMMA DoomedStays ==
    ASSUME TypeInv, [Next]_vars, Doomed, \A w \in Workers : pc'[w] \notin ToSymbols1
    PROVE  Doomed'
  <1> USE DEF At, Goto, TypeInv, TypeOK
  <1>1. ASSUME troubled' = troubled,
               \A v \in Researching : /\ req'[v] = req[v]
                                      /\ merr[v] => merr'[v]
                                      /\ pc[v] = "failed" => pc'[v] = "failed"
        PROVE  Doomed'
    BY <1>1 DEF Doomed, Researching
  <1>2. ASSUME NEW w \in Workers, NEW r \in Requests, Start(w, r) PROVE Doomed'
    <2>1. r.kind # "vulnerability"
      BY <1>2 DEF Start, FirstStep, ToSymbols1
    <2>2. troubled' = troubled
      BY <1>2, <2>1 DEF Start
    <2>3. w \notin Researching
      BY <1>2 DEF Start, HandlersOK, NoRequest, Researching
    <2>4. \A v \in Researching : req'[v] = req[v] /\ merr'[v] = merr[v] /\ pc'[v] = pc[v]
      BY <1>2, <2>3 DEF Start, Researching
    <2> QED BY <1>1, <2>2, <2>4
  <1>3. ASSUME NEW w \in Workers, Proceed(w) \/ CollectError(w) \/ ReturnError(w), ~Respond(w)
        PROVE  Doomed'
    <2>1. /\ troubled' = troubled /\ req' = req
          /\ merr' = merr \/ merr' = [merr EXCEPT ![w] = TRUE]
          /\ pc[w] # "failed"
          /\ \E step : pc' = [pc EXCEPT ![w] = step]
      BY <1>3 DEF Proceed, Propagate, VulnerabilityExists, CreateVulnerability, ReachingSymbols,
                  MarkReaching, ProvidingLibraries, LibraryComponents, LibraryAssets,
                  ComponentAssets, ReachingComponents, HostingAssets, LateralMovement, AllSystems,
                  MatchBinding, CreateBinding, UpsertServes, CollectError, ReturnError, history
    <2> QED BY <1>1, <2>1 DEF Researching
  <1>4. ASSUME NEW w \in Workers, Respond(w) PROVE Doomed'
    <2>1. \A v \in Researching \ {w} : req'[v] = req[v] /\ merr'[v] = merr[v] /\ pc'[v] = pc[v]
      BY <1>4 DEF Respond, Researching
    <2>2. CASE w \in Researching
      <3>1. troubled' = (troubled \/ pc[w] = "failed")
        BY <1>4, <2>2 DEF Respond, Settle
      <3>2. merr[w] => pc[w] = "failed"
        BY <1>4 DEF Respond, HandlersOK
      <3> QED BY <2>1, <3>1, <3>2 DEF Doomed, Researching
    <2>3. CASE w \notin Researching
      <3>1. troubled' = troubled
        BY <1>4, <2>3 DEF Respond
      <3> QED BY <1>1, <2>1, <2>3, <3>1
    <2> QED BY <2>2, <2>3
  <1>5. Crash => Doomed'
    BY DEF Crash, Doomed
  <1>6. UNCHANGED vars => Doomed'
    BY DEF vars, handler, history, Doomed, Researching
  <1> QED BY <1>2, <1>3, <1>4, <1>5, <1>6 DEF Next

\* A handler that moves leaves a step to others, or has the next one before it.
LEMMA AheadMoves ==
    ASSUME TypeOK, NEW w \in Workers, NEW x, NEW y, pc[w] = x, pc' = [pc EXCEPT ![w] = y], NEW X
    PROVE  /\ y \in X => Ahead(X)'
           /\ x \notin X /\ Ahead(X) => Ahead(X)'
  BY DEF Ahead, TypeOK

\* What is to be marked through entry depends on entry and two marks only.
LEMMA BoundsKept ==
    ASSUME UNCHANGED <<entry, mark.symbols, mark.libraries>>
    PROVE  /\ Bound3a' = Bound3a /\ Bound4a' = Bound4a /\ Bound2' = Bound2
           /\ Reached3b' = Reached3b /\ Hosts4b' = Hosts4b /\ Pivots3c' = Pivots3c
           /\ SystemsOf(Bound3a \cup Reached3b \cup Pivots3c)'
                = SystemsOf(Bound3a \cup Reached3b \cup Pivots3c)
  BY DEF Bound3a, Bound4a, Bound2, Reached3b, Hosts4b, Pivots3c, AssetsOf, ComponentsOf,
         BoundToLibraries, BoundToComponents, ComponentsCalling, ExposedBy, CallerEndpoints,
         CallingDependencies, EndpointsServing, HostsOf, HostedOn, SystemsOf

\* A rule after the first leaves rule 1 as it is.
LEMMA Cover1Kept ==
    ASSUME TypeOK, Cover1, UNCHANGED <<mark.symbols, seen>>, NEW w \in Workers, NEW x, NEW y,
           pc[w] = x, pc' = [pc EXCEPT ![w] = y], x \notin ToSymbols1, x # "markReaching"
    PROVE  Cover1'
  <1> SUFFICES ASSUME NEW d \in CallGraphDependencies, NEW s \in DepCallees[d] \cap mark.symbols
               PROVE  \/ DepCaller[d] \in mark'.symbols
                      \/ Ahead(ToSymbols1)'
                      \/ \E v \in Workers : pc'[v] = "markReaching" /\ s \in seen'[v]
    BY DEF Cover1
  <1>1. Ahead(ToSymbols1) => Ahead(ToSymbols1)'
    BY DEF Ahead, TypeOK, ToSymbols1
  <1>2. ASSUME NEW v \in Workers, pc[v] = "markReaching", s \in seen[v]
        PROVE  pc'[v] = "markReaching" /\ s \in seen'[v]
    BY <1>2 DEF TypeOK
  <1> QED BY <1>1, <1>2 DEF Cover1

\* What a handler that moves leaves behind stays covered, if the marks of rules 1
\* and 2 stay, and it is itself ahead of what it has yet to do.
LEMMA CoverMoves ==
    ASSUME TypeOK, Cover, Grows, UNCHANGED <<entry, mark.symbols>>,
           NEW w \in Workers, NEW x, NEW y, pc[w] = x, pc' = [pc EXCEPT ![w] = y]
    PROVE  /\ y \in ToComponents3a => Cover3a'
           /\ y \in ToAssets4a => Cover4a'
           /\ y \in ToAssets2 => Cover2b'
           /\ y \in ToReaching3b => Cover3b'
           /\ y \in ToHosting4b => Cover4b'
           /\ y \in ToLateral3c => Cover3c'
           /\ y \in ToSystems5 => Cover5'
           /\ UNCHANGED mark.libraries =>
                 /\ x \notin ToLibraries2 => Cover2'
                 /\ x \notin ToComponents3a => Cover3a'
                 /\ x \notin ToAssets4a => Cover4a'
                 /\ x \notin ToAssets2 => Cover2b'
                 /\ x \notin ToReaching3b => Cover3b'
                 /\ x \notin ToHosting4b => Cover4b'
                 /\ x \notin ToLateral3c => Cover3c'
  <1>1. \A X : (y \in X => Ahead(X)') /\ (x \notin X /\ Ahead(X) => Ahead(X)')
    BY AheadMoves
  <1>2. /\ y \in ToComponents3a => Cover3a'
        /\ y \in ToAssets4a => Cover4a'
        /\ y \in ToAssets2 => Cover2b'
        /\ y \in ToReaching3b => Cover3b'
        /\ y \in ToHosting4b => Cover4b'
        /\ y \in ToLateral3c => Cover3c'
        /\ y \in ToSystems5 => Cover5'
    BY <1>1 DEF Cover3a, Cover4a, Cover2b, Cover3b, Cover4b, Cover3c, Cover5
  <1>3. ASSUME UNCHANGED mark.libraries
        PROVE  /\ x \notin ToLibraries2 => Cover2'
               /\ x \notin ToComponents3a => Cover3a'
               /\ x \notin ToAssets4a => Cover4a'
               /\ x \notin ToAssets2 => Cover2b'
               /\ x \notin ToReaching3b => Cover3b'
               /\ x \notin ToHosting4b => Cover4b'
               /\ x \notin ToLateral3c => Cover3c'
    <2>1. /\ Bound3a' = Bound3a /\ Bound4a' = Bound4a /\ Bound2' = Bound2
          /\ Reached3b' = Reached3b /\ Hosts4b' = Hosts4b /\ Pivots3c' = Pivots3c
      BY <1>3, BoundsKept
    <2>2. ProvidersOf(mark.symbols)' = ProvidersOf(mark.symbols)
      BY DEF ProvidersOf
    <2> QED BY <1>1, <2>1, <2>2
            DEF Cover, Cover2, Cover3a, Cover4a, Cover2b, Cover3b, Cover4b, Cover3c, Grows
  <1> QED BY <1>2, <1>3

\* Each rule after the first marks what it has to, or has a rule before it to wait for.
LEMMA LaterRuleCover ==
    ASSUME TypeInv, CoverInv, Cover, NEW w \in Workers, LaterRule(w), ~Doomed'
    PROVE  Cover'
  <1> USE DEF At, Goto
  <1>1. /\ TypeOK /\ UNCHANGED <<entry, seen, mark.symbols>>
        /\ entry.bindings \subseteq bindings /\ entry.serves \subseteq serves
    BY DEF LaterRule, ProvidingLibraries, LibraryComponents, LibraryAssets, ComponentAssets,
           ReachingComponents, HostingAssets, LateralMovement, AllSystems, history, CoverInv,
           TypeInv, TypeOK, Mark
  <1>2. Grows
    BY PropagateGrows DEF LaterRule, Propagate, TypeInv
  <1>3. ASSUME UNCHANGED mark.libraries
        PROVE  /\ Bound3a' = Bound3a /\ Bound4a' = Bound4a /\ Bound2' = Bound2
               /\ Reached3b' = Reached3b /\ Hosts4b' = Hosts4b /\ Pivots3c' = Pivots3c
               /\ SystemsOf(Bound3a \cup Reached3b \cup Pivots3c)'
                    = SystemsOf(Bound3a \cup Reached3b \cup Pivots3c)
    BY <1>1, <1>3, BoundsKept
  <1>4. Cover1 /\ Cover2 /\ Cover3a /\ Cover4a /\ Cover2b /\ Cover3b /\ Cover4b /\ Cover3c /\ Cover5
    BY DEF Cover
  <1> DEFINE Moves(x, y) == pc[w] = x /\ pc' = [pc EXCEPT ![w] = y]
             Steps2to5 == /\ ToSystems5 = ToLateral3c \cup {"systems"}
                          /\ ToLateral3c = ToHosting4b \cup {"lateralMovement"}
                          /\ ToHosting4b = ToReaching3b \cup {"hostingAssets"}
                          /\ ToReaching3b = ToAssets2 \cup {"reachingComponents"}
                          /\ ToAssets2 = ToAssets4a \cup {"componentAssets"}
                          /\ ToAssets4a = ToComponents3a \cup {"libraryAssets"}
                          /\ ToComponents3a = ToLibraries2 \cup {"libraryComponents"}
                          /\ ToLibraries2 = {"vulnerabilityExists", "createVulnerability",
                                             "reachingSymbols", "markReaching", "libraries"}
                          /\ ToSymbols1 = {"vulnerabilityExists", "createVulnerability",
                                           "reachingSymbols"}
  <1>5. Steps2to5
    BY DEF ToSystems5, ToLateral3c, ToHosting4b, ToReaching3b, ToAssets2, ToAssets4a,
           ToComponents3a, ToLibraries2, ToSymbols1
  <1>6. \A x, y, X, Y : Moves(x, y) /\ Ahead(X) /\ X \subseteq Y /\ x \notin X => Ahead(Y)'
    BY <1>1 DEF Ahead, TypeOK
  <1> HIDE DEF Moves, Steps2to5
  <1>7. CASE ProvidingLibraries(w)
    <2>1. Moves("libraries", "libraryComponents")
      BY <1>7 DEF ProvidingLibraries, Moves
    <2>2. Cover2'
      <3>1. ProvidersOf(mark.symbols) \subseteq mark'.libraries
        BY <1>7, <1>1 DEF ProvidingLibraries, TypeOK, Mark
      <3> QED BY <1>1, <3>1 DEF Cover2, ProvidersOf
    <2>3. Cover3a' /\ Cover4a' /\ Cover2b' /\ Cover3b' /\ Cover4b' /\ Cover3c' /\ Cover5'
      <3>1. /\ "libraryComponents" \in ToComponents3a /\ "libraryComponents" \in ToAssets4a
            /\ "libraryComponents" \in ToAssets2 /\ "libraryComponents" \in ToReaching3b
            /\ "libraryComponents" \in ToHosting4b /\ "libraryComponents" \in ToLateral3c
            /\ "libraryComponents" \in ToSystems5
        BY <1>5 DEF Steps2to5
      <3> QED BY <1>1, <1>2, <2>1, <3>1, CoverMoves DEF Moves
    <2> QED BY <1>1, <1>4, <1>5, <2>1, <2>2, <2>3, Cover1Kept DEF Moves, Steps2to5, Cover
  <1>8. CASE LibraryComponents(w)
    <2>1. Moves("libraryComponents", "libraryAssets")
      BY <1>8 DEF LibraryComponents, Moves
    <2>2. UNCHANGED mark.libraries
      BY <1>8, <1>1 DEF LibraryComponents, TypeOK, Mark
    <2>3. Bound3a \subseteq mark'.components
      <3>1. mark'.components = mark.components \cup ComponentsOf(BoundToLibraries(bindings, mark.libraries))
        BY <1>8, <1>1, TargetsMatched DEF LibraryComponents, TypeOK, Mark
      <3>2. BoundToLibraries(entry.bindings, mark.libraries) \subseteq BoundToLibraries(bindings, mark.libraries)
        BY <1>1, BoundGrow
      <3>3. ComponentsOf(BoundToLibraries(entry.bindings, mark.libraries))
               \subseteq ComponentsOf(BoundToLibraries(bindings, mark.libraries))
        BY <3>2, TargetsGrow
      <3> QED BY <3>1, <3>3 DEF Bound3a
    <2>4. Cover3a'
      BY <1>3, <2>2, <2>3 DEF Cover3a
    <2>5. Cover2' /\ Cover4a' /\ Cover2b' /\ Cover3b' /\ Cover4b' /\ Cover3c' /\ Cover5'
      <3>1. /\ "libraryComponents" \notin ToLibraries2 /\ "libraryAssets" \in ToAssets4a
            /\ "libraryAssets" \in ToAssets2 /\ "libraryAssets" \in ToReaching3b
            /\ "libraryAssets" \in ToHosting4b /\ "libraryAssets" \in ToLateral3c
            /\ "libraryAssets" \in ToSystems5
        BY <1>5 DEF Steps2to5
      <3> QED BY <1>1, <1>2, <2>1, <2>2, <3>1, CoverMoves DEF Moves
    <2> QED BY <1>1, <1>4, <1>5, <2>1, <2>4, <2>5, Cover1Kept DEF Moves, Steps2to5, Cover
  <1>9. CASE LibraryAssets(w)
    <2>1. Moves("libraryAssets", "componentAssets")
      BY <1>9 DEF LibraryAssets, Moves
    <2>2. UNCHANGED mark.libraries
      BY <1>9, <1>1 DEF LibraryAssets, TypeOK, Mark
    <2>3. Bound4a \subseteq mark'.assets
      <3>1. mark'.assets = mark.assets \cup AssetsOf(BoundToLibraries(bindings, mark.libraries))
        BY <1>9, <1>1, TargetsMatched DEF LibraryAssets, TypeOK, Mark
      <3>2. BoundToLibraries(entry.bindings, mark.libraries) \subseteq BoundToLibraries(bindings, mark.libraries)
        BY <1>1, BoundGrow
      <3>3. AssetsOf(BoundToLibraries(entry.bindings, mark.libraries))
               \subseteq AssetsOf(BoundToLibraries(bindings, mark.libraries))
        BY <3>2, TargetsGrow
      <3> QED BY <3>1, <3>3 DEF Bound4a
    <2>4. Cover4a'
      BY <1>3, <2>2, <2>3 DEF Cover4a
    <2>5. Cover2' /\ Cover3a' /\ Cover2b' /\ Cover3b' /\ Cover4b' /\ Cover3c' /\ Cover5'
      <3>1. /\ "libraryAssets" \notin ToComponents3a /\ "libraryAssets" \notin ToLibraries2
            /\ "componentAssets" \in ToAssets2 /\ "componentAssets" \in ToReaching3b
            /\ "componentAssets" \in ToHosting4b /\ "componentAssets" \in ToLateral3c
            /\ "componentAssets" \in ToSystems5
        BY <1>5 DEF Steps2to5
      <3> QED BY <1>1, <1>2, <2>1, <2>2, <3>1, CoverMoves DEF Moves
    <2> QED BY <1>1, <1>4, <1>5, <2>1, <2>4, <2>5, Cover1Kept DEF Moves, Steps2to5, Cover
  <1>10. CASE ComponentAssets(w)
    <2>1. Moves("componentAssets", "reachingComponents")
      <3>1. w \in Researching' /\ merr'[w] = merr[w]
        BY <1>10 DEF ComponentAssets, TypeInv, HandlersOK, VulnerabilitySteps, Researching
      <3> QED BY <1>10, <3>1 DEF ComponentAssets, AfterRule2, Moves, Doomed
    <2>2. UNCHANGED mark.libraries
      BY <1>10, <1>1 DEF ComponentAssets, TypeOK, Mark
    <2>3. Bound3a \subseteq mark.components => Bound2 \subseteq mark'.assets
      <3>1. mark'.assets = mark.assets \cup AssetsOf(BoundToComponents(bindings, mark.components))
        BY <1>10, <1>1, TargetsMatched DEF ComponentAssets, TypeOK, Mark
      <3>2. Bound3a \subseteq mark.components =>
               BoundToComponents(entry.bindings, Bound3a) \subseteq BoundToComponents(bindings, mark.components)
        BY <1>1, BoundGrow
      <3> QED BY <3>1, <3>2, TargetsGrow DEF Bound2
    <2>4. Cover2b'
      <3>1. Ahead(ToComponents3a) => Ahead(ToAssets2)'
        BY <1>5, <1>6, <2>1 DEF Steps2to5
      <3> QED BY <1>3, <1>4, <2>2, <2>3, <3>1 DEF Cover2b, Cover3a
    <2>5. Cover2' /\ Cover3a' /\ Cover4a' /\ Cover3b' /\ Cover4b' /\ Cover3c' /\ Cover5'
      <3>1. /\ "componentAssets" \notin ToAssets4a /\ "componentAssets" \notin ToComponents3a
            /\ "componentAssets" \notin ToLibraries2 /\ "reachingComponents" \in ToReaching3b
            /\ "reachingComponents" \in ToHosting4b /\ "reachingComponents" \in ToLateral3c
            /\ "reachingComponents" \in ToSystems5
        BY <1>5 DEF Steps2to5
      <3> QED BY <1>1, <1>2, <2>1, <2>2, <3>1, CoverMoves DEF Moves
    <2> QED BY <1>1, <1>4, <1>5, <2>1, <2>4, <2>5, Cover1Kept DEF Moves, Steps2to5, Cover
  <1>11. CASE ReachingComponents(w)
    <2>1. Moves("reachingComponents", "hostingAssets")
      BY <1>11 DEF ReachingComponents, Moves
    <2>2. UNCHANGED mark.libraries
      BY <1>11, <1>1 DEF ReachingComponents, TypeOK, Mark
    <2>3. Reached3b \subseteq mark'.components
      <3>1. mark'.components = mark.components \cup ComponentsCalling(mark.symbols, serves)
        BY <1>11, <1>1 DEF ReachingComponents, ComponentsCalling, TypeOK, Mark
      <3> QED BY <1>1, <3>1, CallingGrow DEF Reached3b
    <2>4. Cover3b'
      BY <1>3, <2>2, <2>3 DEF Cover3b
    <2>5. Cover2' /\ Cover3a' /\ Cover4a' /\ Cover2b' /\ Cover4b' /\ Cover3c' /\ Cover5'
      <3>1. /\ "reachingComponents" \notin ToAssets2 /\ "reachingComponents" \notin ToAssets4a
            /\ "reachingComponents" \notin ToComponents3a /\ "reachingComponents" \notin ToLibraries2
            /\ "hostingAssets" \in ToHosting4b /\ "hostingAssets" \in ToLateral3c
            /\ "hostingAssets" \in ToSystems5
        BY <1>5 DEF Steps2to5
      <3> QED BY <1>1, <1>2, <2>1, <2>2, <3>1, CoverMoves DEF Moves
    <2> QED BY <1>1, <1>4, <1>5, <2>1, <2>4, <2>5, Cover1Kept DEF Moves, Steps2to5, Cover
  <1>12. CASE HostingAssets(w)
    <2>1. Moves("hostingAssets", "lateralMovement")
      BY <1>12 DEF HostingAssets, Moves
    <2>2. UNCHANGED mark.libraries
      BY <1>12, <1>1 DEF HostingAssets, TypeOK, Mark
    <2>3. Bound3a \cup Reached3b \subseteq mark.components => Hosts4b \subseteq mark'.assets
      <3>1. mark'.assets = mark.assets \cup HostsOf(mark.components)
        BY <1>12, <1>1 DEF HostingAssets, TypeOK, Mark
      <3> QED BY <3>1, HostingGrow DEF Hosts4b
    <2>4. Cover4b'
      <3>1. Ahead(ToComponents3a) \/ Ahead(ToReaching3b) => Ahead(ToHosting4b)'
        BY <1>5, <1>6, <2>1 DEF Steps2to5
      <3> QED BY <1>3, <1>4, <2>2, <2>3, <3>1 DEF Cover4b, Cover3a, Cover3b
    <2>5. Cover2' /\ Cover3a' /\ Cover4a' /\ Cover2b' /\ Cover3b' /\ Cover3c' /\ Cover5'
      <3>1. /\ "hostingAssets" \notin ToReaching3b /\ "hostingAssets" \notin ToAssets2
            /\ "hostingAssets" \notin ToAssets4a /\ "hostingAssets" \notin ToComponents3a
            /\ "hostingAssets" \notin ToLibraries2 /\ "lateralMovement" \in ToLateral3c
            /\ "lateralMovement" \in ToSystems5
        BY <1>5 DEF Steps2to5
      <3> QED BY <1>1, <1>2, <2>1, <2>2, <3>1, CoverMoves DEF Moves
    <2> QED BY <1>1, <1>4, <1>5, <2>1, <2>4, <2>5, Cover1Kept DEF Moves, Steps2to5, Cover
  <1>13. CASE LateralMovement(w)
    <2>1. Moves("lateralMovement", "systems")
      BY <1>13 DEF LateralMovement, Moves
    <2>2. UNCHANGED mark.libraries
      BY <1>13, <1>1 DEF LateralMovement, TypeOK, Mark
    <2>3. Bound4a \cup Bound2 \cup Hosts4b \subseteq mark.assets => Pivots3c \subseteq mark'.components
      <3>1. mark'.components = mark.components \cup HostedOn(mark.assets)
        BY <1>13, <1>1 DEF LateralMovement, TypeOK, Mark
      <3> QED BY <3>1, HostingGrow DEF Pivots3c
    <2>4. Cover3c'
      <3>1. Ahead(ToAssets4a) \/ Ahead(ToAssets2) \/ Ahead(ToHosting4b) => Ahead(ToLateral3c)'
        BY <1>5, <1>6, <2>1 DEF Steps2to5
      <3> QED BY <1>3, <1>4, <2>2, <2>3, <3>1 DEF Cover3c, Cover4a, Cover2b, Cover4b
    <2>5. Cover2' /\ Cover3a' /\ Cover4a' /\ Cover2b' /\ Cover3b' /\ Cover4b' /\ Cover5'
      <3>1. /\ "lateralMovement" \notin ToHosting4b /\ "lateralMovement" \notin ToReaching3b
            /\ "lateralMovement" \notin ToAssets2 /\ "lateralMovement" \notin ToAssets4a
            /\ "lateralMovement" \notin ToComponents3a /\ "lateralMovement" \notin ToLibraries2
            /\ "systems" \in ToSystems5
        BY <1>5 DEF Steps2to5
      <3> QED BY <1>1, <1>2, <2>1, <2>2, <3>1, CoverMoves DEF Moves
    <2> QED BY <1>1, <1>4, <1>5, <2>1, <2>4, <2>5, Cover1Kept DEF Moves, Steps2to5, Cover
  <1>14. CASE AllSystems(w)
    <2>1. Moves("systems", "done")
      BY <1>14 DEF AllSystems, Moves
    <2>2. UNCHANGED mark.libraries
      BY <1>14, <1>1 DEF AllSystems, TypeOK, Mark
    <2>3. Bound3a \cup Reached3b \cup Pivots3c \subseteq mark.components =>
             SystemsOf(Bound3a \cup Reached3b \cup Pivots3c) \subseteq mark'.systems
      <3>1. mark'.systems = mark.systems \cup SystemsOf(mark.components)
        BY <1>14, <1>1 DEF AllSystems, TypeOK, Mark
      <3> QED BY <3>1, HostingGrow
    <2>4. Cover5'
      <3>1. Ahead(ToComponents3a) \/ Ahead(ToReaching3b) \/ Ahead(ToLateral3c) => Ahead(ToSystems5)'
        BY <1>5, <1>6, <2>1 DEF Steps2to5
      <3> QED BY <1>3, <1>4, <2>2, <2>3, <3>1 DEF Cover5, Cover3a, Cover3b, Cover3c
    <2>5. Cover2' /\ Cover3a' /\ Cover4a' /\ Cover2b' /\ Cover3b' /\ Cover4b' /\ Cover3c'
      <3>1. /\ "systems" \notin ToLateral3c /\ "systems" \notin ToHosting4b
            /\ "systems" \notin ToReaching3b /\ "systems" \notin ToAssets2
            /\ "systems" \notin ToAssets4a /\ "systems" \notin ToComponents3a
            /\ "systems" \notin ToLibraries2
        BY <1>5 DEF Steps2to5
      <3> QED BY <1>1, <1>2, <2>1, <2>2, <3>1, CoverMoves DEF Moves
    <2> QED BY <1>1, <1>4, <1>5, <2>1, <2>4, <2>5, Cover1Kept DEF Moves, Steps2to5, Cover
  <1> QED BY <1>7, <1>8, <1>9, <1>10, <1>11, <1>12, <1>13, <1>14 DEF LaterRule

\* A query of rule 1 covers what it has read, and rule 1 ends covered.
LEMMA LayerCover ==
    ASSUME TypeInv, Cover, NEW w \in Workers, ReachingSymbols(w) \/ MarkReaching(w),
           pc'[w] \notin ToSymbols1
    PROVE  Cover'
  <1> USE DEF At, Goto, TypeInv
  <1>1. Ahead(ToLibraries2)' /\ Ahead(ToComponents3a)' /\ Ahead(ToAssets4a)' /\ Ahead(ToAssets2)'
        /\ Ahead(ToReaching3b)' /\ Ahead(ToHosting4b)' /\ Ahead(ToLateral3c)' /\ Ahead(ToSystems5)'
    <2>1. pc'[w] \in {"markReaching", "libraries"}
      BY DEF ReachingSymbols, MarkReaching, AfterLayer, ToSymbols1, TypeOK
    <2> QED BY <2>1 DEF Ahead, ToSystems5, ToLateral3c, ToHosting4b, ToReaching3b, ToAssets2,
                        ToAssets4a, ToComponents3a, ToLibraries2
  <1>2. Cover1'
    <2>1. CASE ReachingSymbols(w)
      <3>1. pc'[w] = "markReaching" /\ seen'[w] = mark.symbols /\ mark' = mark
        BY <2>1 DEF ReachingSymbols, TypeOK
      <3> QED BY <3>1 DEF Cover1
    <2>2. CASE MarkReaching(w)
      <3>0. PICK D \in SUBSET NewlyReaching(mark.symbols, seen[w]) :
               /\ NewlyReaching(seen[w], mark.symbols) \subseteq D
               /\ mark' = [mark EXCEPT !.symbols = @ \cup {DepCaller[d] : d \in D},
                                       !.dependencies = @ \cup D]
               /\ pc' = [pc EXCEPT ![w] = AfterLayer(D)]
        BY <2>2 DEF MarkReaching
      <3>5. D = {}
        BY <3>0 DEF AfterLayer, ToSymbols1, TypeOK
      <3>6. mark'.symbols = mark.symbols
        BY <3>0, <3>5 DEF TypeOK, Mark
      <3>1. /\ NewlyReaching(seen[w], mark.symbols) = {} /\ mark'.symbols = mark.symbols
            /\ pc[w] = "markReaching"
        BY <2>2, <3>0, <3>5, <3>6 DEF MarkReaching
      <3>2. \A v \in Workers \ {w} : pc'[v] = pc[v] /\ seen'[v] = seen[v]
        BY <2>2 DEF MarkReaching, TypeOK
      <3>3. Ahead(ToSymbols1) => Ahead(ToSymbols1)'
        BY <3>1, <3>2 DEF Ahead, ToSymbols1
      <3> SUFFICES ASSUME NEW d \in CallGraphDependencies, NEW s \in DepCallees[d] \cap mark.symbols
                   PROVE  \/ DepCaller[d] \in mark.symbols
                          \/ Ahead(ToSymbols1)'
                          \/ \E v \in Workers : pc'[v] = "markReaching" /\ s \in seen'[v]
        BY <3>1 DEF Cover1
      <3>4. s \in seen[w] => DepCaller[d] \in mark.symbols
        BY <3>1 DEF NewlyReaching
      <3> QED BY <3>2, <3>3, <3>4 DEF Cover, Cover1
    <2> QED BY <2>1, <2>2
  <1> QED BY <1>1, <1>2 DEF Cover, Cover2, Cover3a, Cover4a, Cover2b, Cover3b, Cover4b, Cover3c, Cover5

LEMMA CoverStep == TypeInv /\ CoverInv /\ [Next]_vars => CoverInv'
  <1> SUFFICES ASSUME TypeInv, CoverInv, [Next]_vars PROVE CoverInv'
    OBVIOUS
  <1>1. Grows
    BY NextGrows DEF TypeInv
  <1>2. Threatened' \subseteq mark'.symbols
    <2>1. CASE threatens' = threatens
      BY <1>1, <2>1 DEF CoverInv, Grows, Threatened
    <2>2. ASSUME NEW w \in Workers, CreateVulnerability(w)
          PROVE  Threatened' \subseteq mark'.symbols
      <3> DEFINE matched == {req[w].threatens} \cap Symbols
      <3>1. mark'.symbols = mark.symbols \cup matched
        BY <2>2 DEF CreateVulnerability, TypeInv, TypeOK, Mark
      <3>2. threatens' = threatens \cup ({req[w].identity} \X matched)
        BY <2>2 DEF CreateVulnerability
      <3>3. Threatened' \subseteq Threatened \cup matched
        BY <3>2 DEF Threatened
      <3> HIDE DEF matched
      <3> QED BY <3>1, <3>3 DEF CoverInv
    <2>3. threatens' = threatens \/ \E w \in Workers : CreateVulnerability(w)
      BY DEF Next, Start, Proceed, Propagate, VulnerabilityExists, ReachingSymbols, MarkReaching,
             ProvidingLibraries, LibraryComponents, LibraryAssets, ComponentAssets,
             ReachingComponents, HostingAssets, LateralMovement, AllSystems, MatchBinding,
             CreateBinding, UpsertServes, Respond, CollectError, ReturnError, Crash, vars, graph
    <2> QED BY <2>1, <2>2, <2>3
  <1>3. entry'.bindings \subseteq bindings' /\ entry'.serves \subseteq serves'
    <2>1. entry' = entry \/ entry' = Now
      BY DEF Next, Start, Proceed, Propagate, VulnerabilityExists, CreateVulnerability,
             ReachingSymbols, MarkReaching, ProvidingLibraries, LibraryComponents, LibraryAssets,
             ComponentAssets, ReachingComponents, HostingAssets, LateralMovement, AllSystems,
             MatchBinding, CreateBinding, UpsertServes, Respond, Settle, CollectError,
             ReturnError, Crash, vars, history
    <2> QED BY <1>1, <2>1 DEF CoverInv, Grows, Now
  <1>4. ASSUME ~Doomed' PROVE Cover'
    <2>1. CASE \E w \in Workers : pc'[w] \in ToSymbols1
      <3>1. Ahead(ToSymbols1)'
        BY <2>1 DEF Ahead
      <3>2. Ahead(ToLibraries2)' /\ Ahead(ToComponents3a)' /\ Ahead(ToAssets4a)' /\ Ahead(ToAssets2)'
            /\ Ahead(ToReaching3b)' /\ Ahead(ToHosting4b)' /\ Ahead(ToLateral3c)' /\ Ahead(ToSystems5)'
        BY <2>1 DEF Ahead, ToSystems5, ToLateral3c, ToHosting4b, ToReaching3b, ToAssets2,
                    ToAssets4a, ToComponents3a, ToLibraries2
      <3> QED BY <3>1, <3>2
              DEF Cover, Cover1, Cover2, Cover3a, Cover4a, Cover2b, Cover3b, Cover4b, Cover3c, Cover5
    <2>2. CASE \A w \in Workers : pc'[w] \notin ToSymbols1
      <3>1. Cover
        BY <1>4, <2>2, DoomedStays DEF CoverInv
      <3>2. ASSUME NEW w \in Workers, LaterRule(w) PROVE Cover'
        BY <1>4, <3>1, <3>2, LaterRuleCover
      <3>3. ASSUME NEW w \in Workers, ReachingSymbols(w) \/ MarkReaching(w) PROVE Cover'
        BY <2>2, <3>1, <3>3, LayerCover
      <3>4. CASE /\ UNCHANGED <<mark, entry>>
                 /\ \A v \in Workers : pc[v] \in VulnerabilitySteps =>
                       pc'[v] = pc[v] /\ seen'[v] = seen[v]
        <4>1. \A X \in SUBSET VulnerabilitySteps : Ahead(X) => Ahead(X)'
          BY <3>4 DEF Ahead
        <4>2. /\ ToSymbols1 \subseteq VulnerabilitySteps /\ ToLibraries2 \subseteq VulnerabilitySteps
              /\ ToComponents3a \subseteq VulnerabilitySteps /\ ToAssets4a \subseteq VulnerabilitySteps
              /\ ToAssets2 \subseteq VulnerabilitySteps /\ ToReaching3b \subseteq VulnerabilitySteps
              /\ ToHosting4b \subseteq VulnerabilitySteps /\ ToLateral3c \subseteq VulnerabilitySteps
              /\ ToSystems5 \subseteq VulnerabilitySteps /\ "markReaching" \in VulnerabilitySteps
          BY DEF VulnerabilitySteps, ToSystems5, ToLateral3c, ToHosting4b, ToReaching3b, ToAssets2,
                 ToAssets4a, ToComponents3a, ToLibraries2, ToSymbols1
        <4>3. \A v \in Workers : pc[v] = "markReaching" => pc'[v] = pc[v] /\ seen'[v] = seen[v]
          BY <3>4, <4>2
        <4>4. Cover1'
          BY <3>1, <3>4, <4>1, <4>2, <4>3 DEF Cover, Cover1
        <4>5. /\ Bound3a' = Bound3a /\ Bound4a' = Bound4a /\ Bound2' = Bound2
              /\ Reached3b' = Reached3b /\ Hosts4b' = Hosts4b /\ Pivots3c' = Pivots3c
              /\ SystemsOf(Bound3a \cup Reached3b \cup Pivots3c)'
                   = SystemsOf(Bound3a \cup Reached3b \cup Pivots3c)
          BY <3>4, BoundsKept
        <4>6. ProvidersOf(mark.symbols)' = ProvidersOf(mark.symbols)
          BY <3>4 DEF ProvidersOf
        <4> QED BY <3>1, <3>4, <4>1, <4>2, <4>4, <4>5, <4>6
                DEF Cover, Cover2, Cover3a, Cover4a, Cover2b, Cover3b, Cover4b, Cover3c, Cover5
      <3> QED BY <1>4, <2>2, <3>2, <3>3, <3>4, StepKinds
    <2> QED BY <2>1, <2>2
  <1> QED BY <1>2, <1>3, <1>4 DEF CoverInv

LEMMA CoverInit == Init => CoverInv
  <1> SUFFICES ASSUME Init PROVE CoverInv
    OBVIOUS
  <1>1. /\ Threatened = {} /\ entry.bindings = {} /\ entry.serves = {} /\ bindings = {}
        /\ serves = {} /\ mark.symbols = {} /\ mark.libraries = {}
    BY DEF Init, Threatened, Now
  <1>2. /\ ProvidersOf(mark.symbols) = {} /\ Bound3a = {} /\ Bound4a = {}
    BY <1>1 DEF ProvidersOf, Bound3a, Bound4a, BoundToLibraries, ComponentsOf, AssetsOf
  <1>3. Bound2 = {} /\ Reached3b = {}
    BY <1>1 DEF Bound2, BoundToComponents, AssetsOf, Reached3b, ComponentsCalling, ExposedBy,
                CallerEndpoints, CallingDependencies, EndpointsServing
  <1>4. Hosts4b = {}
    BY <1>2, <1>3 DEF Hosts4b, HostsOf
  <1>5. Pivots3c = {}
    BY <1>2, <1>3, <1>4 DEF Pivots3c, HostedOn
  <1>6. SystemsOf(Bound3a \cup Reached3b \cup Pivots3c) = {}
    BY <1>2, <1>3, <1>5 DEF SystemsOf
  <1> QED BY <1>1, <1>2, <1>3, <1>4, <1>5, <1>6
          DEF CoverInv, Cover, Cover1, Cover2, Cover3a, Cover4a, Cover2b, Cover3b, Cover4b,
              Cover3c, Cover5

\* When all researches of a series have ended, none with an error, everything
\* recorded is propagated, interrupted researches included, although a query of
\* rule 1 may miss what another marks and its call be answered too early.
THEOREM Completeness == Spec => []CompletedCovers
  BY TypeInit, CoverInit, NextTypeInv, CoverImplies, CoverStep, PTL DEF Spec

-----------------------------------------------------------------------------
(* Why the calls end.                                                      *)

\* Marks are never taken back, and a query begins and ends with what is marked:
\* the symbols a handler may have yet to mark only get fewer.
LEMMA UnmarkedShrinks ==
    ASSUME TypeInv, [Next]_vars, NEW w \in Workers
    PROVE  /\ Cardinality(Unmarked(w)) \in Nat /\ Cardinality(Unmarked(w)') \in Nat
           /\ Cardinality(Unmarked(w)') <= Cardinality(Unmarked(w))
           /\ Unmarked(w)' # Unmarked(w) => Cardinality(Unmarked(w)') < Cardinality(Unmarked(w))
  <1>1. mark.symbols \subseteq mark'.symbols /\ seen[w] \subseteq mark.symbols
    BY NextGrows DEF Grows, TypeInv, SeenOK
  <1>2. pc'[w] = "markReaching" =>
           \/ seen'[w] = mark.symbols
           \/ pc[w] = "markReaching" /\ seen'[w] = seen[w]
    <2> USE DEF At, Goto, TypeInv, TypeOK
    <2>1. ASSUME NEW v \in Workers, ReachingSymbols(v)
          PROVE  \/ v = w /\ seen'[w] = mark.symbols
                 \/ pc'[w] = pc[w] /\ seen'[w] = seen[w]
      BY <2>1 DEF ReachingSymbols
    <2>2. ASSUME NEW v \in Workers, MarkReaching(v) \/ ReturnError(v)
          PROVE  \/ pc'[w] # "markReaching"
                 \/ pc'[w] = pc[w] /\ seen'[w] = seen[w]
      BY <2>2 DEF MarkReaching, AfterLayer, ReturnError
    <2>3. ASSUME NEW v \in Workers, NEW r \in Requests, Start(v, r)
          PROVE  seen' = seen /\ (pc'[w] # "markReaching" \/ pc'[w] = pc[w])
      BY <2>3, RequestTypes DEF Start, FirstStep
    <2>4. ASSUME NEW v \in Workers, Proceed(v) \/ CollectError(v),
                 ~ReachingSymbols(v), ~MarkReaching(v)
          PROVE  seen' = seen /\ (pc'[w] # "markReaching" \/ pc'[w] = pc[w])
      BY <2>4 DEF Proceed, Propagate, VulnerabilityExists, CreateVulnerability,
                  ProvidingLibraries, LibraryComponents, LibraryAssets, ComponentAssets,
                  AfterRule2, ReachingComponents, HostingAssets, LateralMovement, AllSystems,
                  MatchBinding, CreateBinding, UpsertServes, Respond, CollectError
    <2>5. Crash => pc'[w] # "markReaching"
      BY DEF Crash
    <2>6. UNCHANGED vars => pc' = pc /\ seen' = seen
      BY DEF vars, handler
    <2> QED BY <2>1, <2>2, <2>3, <2>4, <2>5, <2>6 DEF Next
  <1>3. Unmarked(w)' \subseteq Unmarked(w)
    BY <1>1, <1>2 DEF Unmarked, At
  <1>4. IsFiniteSet(Unmarked(w))
    BY KnowledgeGraphAssumption, FS_Subset DEF Unmarked
  <1> QED BY <1>3, <1>4, FS_Subset, FS_CardinalityType

LEMMA StepsTyped == \A step \in Steps : StepsLeft(step) \in Nat
  BY DEF Steps, StepsLeft

\* Every move of a handler other than the loop of rule 1 lowers its count.
LEMMA StepsOrder ==
    /\ {"libraries", "libraryComponents", "libraryAssets", "componentAssets",
        "reachingComponents", "hostingAssets", "lateralMovement", "systems", "done",
        "failed", "idle", "vulnerabilityExists", "createVulnerability",
        "reachingSymbols", "markReaching", "matchBinding", "createBinding", "upsertServes"} \subseteq Steps
    /\ StepsLeft("createVulnerability") < StepsLeft("vulnerabilityExists")
    /\ StepsLeft("reachingSymbols") < StepsLeft("vulnerabilityExists")
    /\ StepsLeft("reachingSymbols") < StepsLeft("createVulnerability")
    /\ StepsLeft("markReaching") < StepsLeft("reachingSymbols")
    /\ StepsLeft("libraries") < StepsLeft("markReaching")
    /\ StepsLeft("libraryComponents") < StepsLeft("libraries")
    /\ StepsLeft("libraryAssets") < StepsLeft("libraryComponents")
    /\ StepsLeft("componentAssets") < StepsLeft("libraryAssets")
    /\ StepsLeft("failed") < StepsLeft("componentAssets")
    /\ StepsLeft("reachingComponents") < StepsLeft("componentAssets")
    /\ StepsLeft("hostingAssets") < StepsLeft("reachingComponents")
    /\ StepsLeft("lateralMovement") < StepsLeft("hostingAssets")
    /\ StepsLeft("systems") < StepsLeft("lateralMovement")
    /\ StepsLeft("done") < StepsLeft("systems")
    /\ StepsLeft("createBinding") < StepsLeft("matchBinding")
    /\ StepsLeft("done") < StepsLeft("matchBinding")
    /\ StepsLeft("done") < StepsLeft("createBinding")
    /\ StepsLeft("done") < StepsLeft("upsertServes")
    /\ StepsLeft("idle") < StepsLeft("done")
    /\ StepsLeft("idle") < StepsLeft("failed")
  BY DEF Steps, StepsLeft

\* Fewer symbols, or as many and fewer transactions.
LEMMA LeftLowers ==
    ASSUME TypeInv, [Next]_vars, NEW w \in Workers,
           Unmarked(w)' # Unmarked(w) \/ StepsLeft(pc'[w]) < StepsLeft(pc[w])
    PROVE  Below(LeftOf(w)', LeftOf(w))
  <1>1. /\ LeftOf(w) = <<Cardinality(Unmarked(w)), StepsLeft(pc[w])>>
        /\ LeftOf(w)' = <<Cardinality(Unmarked(w)'), StepsLeft(pc'[w])>>
    BY DEF LeftOf, StepsLeft
  <1>2. CASE Cardinality(Unmarked(w)') < Cardinality(Unmarked(w))
    BY <1>1, <1>2 DEF Below
  <1>3. CASE Cardinality(Unmarked(w)') = Cardinality(Unmarked(w)) /\ StepsLeft(pc'[w]) < StepsLeft(pc[w])
    BY <1>1, <1>3 DEF Below
  <1> QED BY <1>2, <1>3, UnmarkedShrinks

\* A call that its handler leaves where it is is not set back.
LEMMA LeftStays ==
    ASSUME TypeInv, [Next]_vars, NEW w \in Workers, pc'[w] = pc[w]
    PROVE  LeftOf(w)' = LeftOf(w) \/ Below(LeftOf(w)', LeftOf(w))
  <1>1. CASE Unmarked(w)' = Unmarked(w)
    BY <1>1 DEF LeftOf, StepsLeft
  <1>2. CASE Unmarked(w)' # Unmarked(w)
    BY <1>2, LeftLowers
  <1> QED BY <1>1, <1>2

\* A step of a handler brings its call nearer to the end, and moves no other.
LEMMA HandlerAdvances ==
    ASSUME TypeInv, NEW w \in Workers, Proceed(w) \/ CollectError(w) \/ ReturnError(w)
    PROVE  /\ pc[w] # "idle"
           /\ Unmarked(w)' # Unmarked(w) \/ StepsLeft(pc'[w]) < StepsLeft(pc[w])
           /\ \A v \in Workers \ {w} : pc'[v] = pc[v]
  <1> USE DEF At, Goto
  <1>1. pc \in [Workers -> Steps]
    BY DEF TypeInv, TypeOK
  <1>2. ASSUME NEW x \in Steps, NEW y \in Steps, pc[w] = x, pc' = [pc EXCEPT ![w] = y],
               StepsLeft(y) < StepsLeft(x)
        PROVE  /\ pc[w] # "idle"
               /\ StepsLeft(pc'[w]) < StepsLeft(pc[w])
               /\ \A v \in Workers \ {w} : pc'[v] = pc[v]
    <2>1. pc'[w] = y /\ \A v \in Workers \ {w} : pc'[v] = pc[v]
      BY <1>1, <1>2
    <2>2. x # "idle"
      <3>1. StepsLeft("idle") = 0
        BY DEF StepsLeft
      <3> QED BY <1>2, <3>1, StepsTyped
    <2> QED BY <1>2, <2>1, <2>2
  <1>3. CASE ReachingSymbols(w)
    <2>1. pc[w] = "reachingSymbols" /\ pc' = [pc EXCEPT ![w] = "markReaching"]
      BY <1>3 DEF ReachingSymbols
    <2> QED BY <1>2, <2>1, StepsOrder
  <1>20. CASE MarkReaching(w)
    <2>1. PICK D \in SUBSET NewlyReaching(mark.symbols, seen[w]) :
             /\ mark' = [mark EXCEPT !.symbols = @ \cup {DepCaller[d] : d \in D},
                                     !.dependencies = @ \cup D]
             /\ pc' = [pc EXCEPT ![w] = AfterLayer(D)]
      BY <1>20 DEF MarkReaching
    <2>2. pc[w] = "markReaching"
      BY <1>20 DEF MarkReaching
    <2>3. CASE D = {}
      <3>1. pc' = [pc EXCEPT ![w] = "libraries"]
        BY <2>1, <2>3 DEF AfterLayer
      <3> QED BY <1>2, <2>2, <3>1, StepsOrder
    <2>4. CASE D # {}
      <3>1. PICK d \in D : TRUE
        BY <2>4
      <3>2. DepCaller[d] \in Symbols \ seen[w] /\ DepCaller[d] \in mark'.symbols
        BY <2>1, <3>1, KnowledgeGraphAssumption DEF NewlyReaching, TypeInv, TypeOK, Mark
      <3>3. pc' = [pc EXCEPT ![w] = "reachingSymbols"]
        BY <2>1, <2>4 DEF AfterLayer
      <3>4. pc'[w] = "reachingSymbols" /\ \A v \in Workers \ {w} : pc'[v] = pc[v]
        BY <1>1, <3>3
      <3> QED BY <2>2, <3>2, <3>4 DEF Unmarked
    <2> QED BY <2>3, <2>4
  <1>4. CASE ProvidingLibraries(w)
    <2>1. pc[w] = "libraries" /\ pc' = [pc EXCEPT ![w] = "libraryComponents"]
      BY <1>4 DEF ProvidingLibraries
    <2> QED BY <1>2, <2>1, StepsOrder
  <1>5. CASE LibraryComponents(w)
    <2>1. pc[w] = "libraryComponents" /\ pc' = [pc EXCEPT ![w] = "libraryAssets"]
      BY <1>5 DEF LibraryComponents
    <2> QED BY <1>2, <2>1, StepsOrder
  <1>6. CASE LibraryAssets(w)
    <2>1. pc[w] = "libraryAssets" /\ pc' = [pc EXCEPT ![w] = "componentAssets"]
      BY <1>6 DEF LibraryAssets
    <2> QED BY <1>2, <2>1, StepsOrder
  <1>7. CASE ComponentAssets(w)
    <2>1. /\ pc[w] = "componentAssets"
          /\ pc' = [pc EXCEPT ![w] = AfterRule2(merr[w])]
          /\ AfterRule2(merr[w]) \in {"failed", "reachingComponents"}
      BY <1>7 DEF ComponentAssets, AfterRule2
    <2> QED BY <1>2, <2>1, StepsOrder
  <1>8. CASE ReachingComponents(w)
    <2>1. pc[w] = "reachingComponents" /\ pc' = [pc EXCEPT ![w] = "hostingAssets"]
      BY <1>8 DEF ReachingComponents
    <2> QED BY <1>2, <2>1, StepsOrder
  <1>9. CASE HostingAssets(w)
    <2>1. pc[w] = "hostingAssets" /\ pc' = [pc EXCEPT ![w] = "lateralMovement"]
      BY <1>9 DEF HostingAssets
    <2> QED BY <1>2, <2>1, StepsOrder
  <1>10. CASE LateralMovement(w)
    <2>1. pc[w] = "lateralMovement" /\ pc' = [pc EXCEPT ![w] = "systems"]
      BY <1>10 DEF LateralMovement
    <2> QED BY <1>2, <2>1, StepsOrder
  <1>11. CASE AllSystems(w)
    <2>1. pc[w] = "systems" /\ pc' = [pc EXCEPT ![w] = "done"]
      BY <1>11 DEF AllSystems
    <2> QED BY <1>2, <2>1, StepsOrder
  <1>12. CASE VulnerabilityExists(w)
    <2>1. PICK y \in {"reachingSymbols", "createVulnerability"} :
             pc[w] = "vulnerabilityExists" /\ pc' = [pc EXCEPT ![w] = y]
      BY <1>12 DEF VulnerabilityExists
    <2> QED BY <1>2, <2>1, StepsOrder
  <1>13. CASE CreateVulnerability(w)
    <2>1. pc[w] = "createVulnerability" /\ pc' = [pc EXCEPT ![w] = "reachingSymbols"]
      BY <1>13 DEF CreateVulnerability
    <2> QED BY <1>2, <2>1, StepsOrder
  <1>14. CASE MatchBinding(w)
    <2>1. PICK y \in {"done", "createBinding"} :
             pc[w] = "matchBinding" /\ pc' = [pc EXCEPT ![w] = y]
      BY <1>14 DEF MatchBinding
    <2> QED BY <1>2, <2>1, StepsOrder
  <1>15. CASE CreateBinding(w)
    <2>1. pc[w] = "createBinding" /\ pc' = [pc EXCEPT ![w] = "done"]
      BY <1>15 DEF CreateBinding
    <2> QED BY <1>2, <2>1, StepsOrder
  <1>16. CASE UpsertServes(w)
    <2>1. pc[w] = "upsertServes" /\ pc' = [pc EXCEPT ![w] = "done"]
      BY <1>16 DEF UpsertServes
    <2> QED BY <1>2, <2>1, StepsOrder
  <1>17. CASE Respond(w)
    <2>1. pc[w] \in {"done", "failed"} /\ pc' = [pc EXCEPT ![w] = "idle"]
      BY <1>17 DEF Respond
    <2> QED BY <1>2, <2>1, StepsOrder
  <1>18. CASE CollectError(w)
    <2>1. \/ pc[w] = "libraries" /\ pc' = [pc EXCEPT ![w] = "libraryComponents"]
          \/ pc[w] = "libraryComponents" /\ pc' = [pc EXCEPT ![w] = "libraryAssets"]
          \/ pc[w] = "libraryAssets" /\ pc' = [pc EXCEPT ![w] = "componentAssets"]
          \/ pc[w] = "componentAssets" /\ pc' = [pc EXCEPT ![w] = "failed"]
      BY <1>18 DEF CollectError, AfterRule2
    <2> QED BY <1>2, <2>1, StepsOrder
  <1>19. CASE ReturnError(w)
    <2>1. pc[w] \in Steps /\ StepsLeft("failed") < StepsLeft(pc[w])
      BY <1>1, <1>19 DEF ReturnError, Steps, StepsLeft
    <2>2. pc' = [pc EXCEPT ![w] = "failed"] /\ "failed" \in Steps
      BY <1>19 DEF ReturnError, Steps
    <2> QED BY <1>2, <2>1, <2>2
  <1> QED BY <1>3, <1>4, <1>5, <1>6, <1>7, <1>8, <1>9, <1>10, <1>11, <1>12, <1>13, <1>14,
             <1>15, <1>16, <1>17, <1>18, <1>19, <1>20
          DEF Proceed, Propagate

Advance ==
    /\ \A w \in Workers : pc[w] # "idle" => LeftOf(w)' = LeftOf(w) \/ Below(LeftOf(w)', LeftOf(w))
    /\ \E w \in Workers : \/ pc[w] = "idle" /\ pc'[w] # "idle"
                          \/ pc[w] # "idle" /\ Below(LeftOf(w)', LeftOf(w))

LEMMA NextAdvances == TypeInv /\ [Next]_vars => [Advance]_vars
  <1> SUFFICES ASSUME TypeInv, Next PROVE Advance
    BY DEF vars
  <1>0. [Next]_vars /\ pc \in [Workers -> Steps]
    BY DEF TypeInv, TypeOK
  <1>1. ASSUME NEW w \in Workers, Proceed(w) \/ CollectError(w) \/ ReturnError(w) PROVE Advance
    <2>1. pc[w] # "idle" /\ Below(LeftOf(w)', LeftOf(w))
      BY <1>0, <1>1, HandlerAdvances, LeftLowers
    <2>2. \A v \in Workers \ {w} : LeftOf(v)' = LeftOf(v) \/ Below(LeftOf(v)', LeftOf(v))
      BY <1>0, <1>1, HandlerAdvances, LeftStays
    <2> QED BY <2>1, <2>2 DEF Advance
  <1>2. ASSUME NEW w \in Workers, NEW r \in Requests, Start(w, r) PROVE Advance
    <2>1. pc[w] = "idle" /\ pc' = [pc EXCEPT ![w] = FirstStep(r)]
      BY <1>2 DEF Start
    <2>2. FirstStep(r) # "idle"
      BY RequestTypes DEF FirstStep
    <2>3. pc'[w] # "idle" /\ \A v \in Workers : pc[v] # "idle" => pc'[v] = pc[v]
      BY <1>0, <2>1, <2>2
    <2> QED BY <1>0, <2>1, <2>3, LeftStays DEF Advance
  <1>3. CASE Crash
    <2>1. PICK w \in Workers : pc[w] # "idle"
      BY <1>3 DEF Crash
    <2>2. ASSUME NEW v \in Workers, pc[v] # "idle" PROVE StepsLeft(pc'[v]) < StepsLeft(pc[v])
      <3>1. pc'[v] = "idle" /\ pc[v] \in Steps
        BY <1>0, <1>3 DEF Crash
      <3> QED BY <2>2, <3>1 DEF Steps, StepsLeft
    <2>3. \A v \in Workers : pc[v] # "idle" => Below(LeftOf(v)', LeftOf(v))
      BY <1>0, <2>2, LeftLowers
    <2> QED BY <2>1, <2>3 DEF Advance
  <1> QED BY <1>1, <1>2, <1>3 DEF Next

\* Whatever the graph and whatever runs beside a call: it is never set back, and
\* each step begins a call or brings one that runs nearer to its end.
THEOREM CallsEnd == Spec => CallsAdvance
  <1>1. CallsAdvance <=> [][Advance]_vars
    BY DEF CallsAdvance, Advance
  <1> QED BY TypeInit, <1>1, NextTypeInv, NextAdvances, PTL DEF Spec

=============================================================================
