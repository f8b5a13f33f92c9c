----------------------------- MODULE SIGProofs -----------------------------
(* Theorems about SIG, for any components, endpoints, calls, handlers and  *)
(* size of batches.                                                        *)
EXTENDS SIGRefinement, FiniteSetTheorems, SequenceTheorems, TLAPS

-----------------------------------------------------------------------------
(* Calls.                                                                  *)

LEMMA CallKinds ==
    ASSUME NEW c \in Calls
    PROVE  /\ c.kind \in {"component", "retrieve", "dependency", "reset"}
           /\ c.kind \in {"component", "retrieve"} => c.component \in Components
           /\ c.kind = "dependency" => c.caller \in EndpointNames /\ c.callees \in Seq(EndpointNames)
           /\ c.kind = "reset" => c = ResetCall
  BY CallsAssumption DEF CreateComponentCall, RetrieveComponentCall, ResetCall

LEMMA NoneIsNoName ==
    /\ None \notin Components /\ None \notin EndpointNodes
    /\ \A n \in EndpointNames : n[1] \in Components /\ n[2] \in Names /\ n = <<n[1], n[2]>>
  BY CallsAssumption DEF EndpointNames

LEMMA AfterTrashIs ==
    /\ AfterTrash("trashExposes") = "trashCaller"
    /\ AfterTrash("trashCaller") = "trashCallees"
    /\ AfterTrash("trashCallees") = "trashNodes"
  BY DEF AfterTrash

-----------------------------------------------------------------------------
(* Handlers: each is at a step of its own call.                            *)

TrashSteps == {"trashExposes", "trashCaller", "trashCallees", "trashNodes"}
DependencySteps == {"matchEndpoint", "createEndpoint", "link"}

HandlersOK ==
    /\ pc \in [Workers -> Steps]
    /\ call \in [Workers -> Calls \cup {NoCall}]
    /\ queue \in [Workers -> Seq(EndpointNames)]
    /\ merr \in [Workers -> BOOLEAN]
    /\ known \in [Workers -> SUBSET Components]
    /\ disturbed \in [Workers -> BOOLEAN]
    /\ raced \in BOOLEAN
    /\ \A w \in Workers :
          /\ pc[w] # "idle" => call[w] \in Calls
          /\ pc[w] = "upsertComponent" => call[w].kind = "component"
          /\ pc[w] = "retrieve" => call[w].kind \in {"component", "retrieve"}
          /\ pc[w] \in DependencySteps => call[w].kind = "dependency"
          /\ pc[w] \in TrashSteps => call[w].kind = "reset"
          /\ queue[w] # <<>> => call[w].kind = "dependency"
          /\ IF pc[w] \in {"matchEndpoint", "createEndpoint"} THEN queue[w] # <<>>
             ELSE pc[w] = "link" => queue[w] = <<>>

LEMMA Popped ==
    ASSUME HandlersOK, NEW w \in Workers, queue[w] # <<>>
    PROVE  /\ Head(queue[w]) \in EndpointNames
           /\ Tail(queue[w]) \in Seq(EndpointNames)
           /\ Len(queue[w]) \in Nat \ {0}
           /\ Len(queue[w]) = 1 <=> Tail(queue[w]) = <<>>
  <1>1. queue[w] \in Seq(EndpointNames)
    BY DEF HandlersOK
  <1>2. Head(queue[w]) \in EndpointNames /\ Tail(queue[w]) \in Seq(EndpointNames)
    BY <1>1, HeadTailProperties
  <1>3. Len(queue[w]) \in Nat \ {0} /\ Len(Tail(queue[w])) = Len(queue[w]) - 1
    BY <1>1, HeadTailProperties, EmptySeq
  <1>4. Tail(queue[w]) = <<>> <=> Len(Tail(queue[w])) = 0
    BY <1>2, EmptySeq
  <1> QED BY <1>2, <1>3, <1>4

LEMMA Started ==
    ASSUME HandlersOK, components \subseteq Components, NEW w \in Workers, NEW c \in Calls, Start(w, c)
    PROVE  /\ HandlersOK'
           /\ pc[w] = "idle" /\ UNCHANGED <<graph, merr>>
           /\ call' = [call EXCEPT ![w] = c]
           /\ \A v \in Workers \ {w} : pc'[v] = pc[v]
           /\ pc'[w] = CASE c.kind = "component"  -> "upsertComponent"
                         [] c.kind = "retrieve"   -> "retrieve"
                         [] c.kind = "dependency" -> "matchEndpoint"
                         [] c.kind = "reset"      -> "trashExposes"
  <1> DEFINE step == CASE c.kind = "component"  -> "upsertComponent"
                       [] c.kind = "retrieve"   -> "retrieve"
                       [] c.kind = "dependency" -> "matchEndpoint"
                       [] c.kind = "reset"      -> "trashExposes"
  <1>1. /\ pc[w] = "idle" /\ pc' = [pc EXCEPT ![w] = step] /\ call' = [call EXCEPT ![w] = c]
        /\ queue' = [queue EXCEPT ![w] = IF c.kind = "dependency" THEN <<c.caller>> \o c.callees
                                         ELSE <<>>]
        /\ known' = [known EXCEPT ![w] = IF c.kind = "dependency" THEN components ELSE {}]
        /\ UNCHANGED <<graph, merr>>
    BY DEF Start, At, Goto
  <1>2. disturbed' \in [Workers -> BOOLEAN] /\ raced' \in BOOLEAN
    BY DEF Start, Beside, Running, HandlersOK
  <1>3. /\ step \in {"upsertComponent", "retrieve", "matchEndpoint", "trashExposes"}
        /\ step = "upsertComponent" => c.kind = "component"
        /\ step = "retrieve" => c.kind = "retrieve"
        /\ step = "matchEndpoint" <=> c.kind = "dependency"
        /\ step = "trashExposes" => c.kind = "reset"
    BY CallKinds
  <1> DEFINE names == IF c.kind = "dependency" THEN <<c.caller>> \o c.callees ELSE <<>>
  <1>4. names \in Seq(EndpointNames) /\ (names # <<>> <=> c.kind = "dependency")
    <2> SUFFICES ASSUME c.kind = "dependency"
                 PROVE  /\ <<c.caller>> \o c.callees \in Seq(EndpointNames)
                        /\ <<c.caller>> \o c.callees # <<>>
      BY EmptySeq
    <2>1. c.callees \in Seq(EndpointNames) /\ <<c.caller>> \in Seq(EndpointNames)
      BY CallKinds
    <2>2. Len(<<c.caller>> \o c.callees) = 1 + Len(c.callees) /\ Len(c.callees) \in Nat
      BY <2>1, ConcatProperties, LenProperties
    <2> QED BY <2>1, <2>2, ConcatProperties, EmptySeq
  <1>5. queue' = [queue EXCEPT ![w] = names]
    BY <1>1
  <1> HIDE DEF step, names
  <1>6. HandlersOK'
    <2>1. /\ pc' \in [Workers -> Steps] /\ call' \in [Workers -> Calls \cup {NoCall}]
          /\ queue' \in [Workers -> Seq(EndpointNames)] /\ merr' \in [Workers -> BOOLEAN]
          /\ known' \in [Workers -> SUBSET Components]
      BY <1>1, <1>3, <1>4, <1>5 DEF HandlersOK, Steps
    <2>2. /\ pc'[w] = step /\ call'[w] = c /\ queue'[w] = names
          /\ \A v \in Workers \ {w} : pc'[v] = pc[v] /\ call'[v] = call[v] /\ queue'[v] = queue[v]
      BY <1>1, <1>5 DEF HandlersOK
    <2> QED BY <1>2, <1>3, <1>4, <2>1, <2>2 DEF HandlersOK, TrashSteps, DependencySteps
  <1> QED BY <1>1, <1>6 DEF HandlersOK, step

\* AfterEndpoint and EndpointFails, in the hands of one handler.
LEMMA Moved ==
    ASSUME HandlersOK, NEW w \in Workers, pc[w] \in {"matchEndpoint", "createEndpoint"}
    PROVE  /\ AfterEndpoint(w) =>
                 /\ queue' = [queue EXCEPT ![w] = Tail(queue[w])]
                 /\ \/ pc' = [pc EXCEPT ![w] = "link"] /\ Tail(queue[w]) = <<>>
                    \/ pc' = [pc EXCEPT ![w] = "matchEndpoint"] /\ Tail(queue[w]) # <<>>
           /\ EndpointFails(w) =>
                 \/ pc' = [pc EXCEPT ![w] = "failed"] /\ UNCHANGED <<queue, merr>>
                 \/ AfterEndpoint(w) /\ merr' = [merr EXCEPT ![w] = TRUE]
  <1>1. queue[w] # <<>>
    BY DEF HandlersOK
  <1> QED BY <1>1, Popped DEF AfterEndpoint, EndpointFails, Goto

LEMMA HandlersStep ==
    HandlersOK /\ components \subseteq Components /\ [Next]_vars => HandlersOK'
  <1> SUFFICES ASSUME HandlersOK, components \subseteq Components, [Next]_vars PROVE HandlersOK'
    OBVIOUS
  <1> USE DEF At, Goto, history
  <1>1. ASSUME NEW w \in Workers, NEW c \in Calls, Start(w, c) PROVE HandlersOK'
    BY <1>1, Started
  <1>2. ASSUME NEW w \in Workers, UpsertComponent(w) \/ RetrieveComponent(w) PROVE HandlersOK'
    BY <1>2 DEF UpsertComponent, RetrieveComponent, HandlersOK, Steps, TrashSteps, DependencySteps
  <1>3. ASSUME NEW w \in Workers, pc[w] \in {"matchEndpoint", "createEndpoint"}, AfterEndpoint(w),
               UNCHANGED <<call, history>>, merr' = merr \/ merr' = [merr EXCEPT ![w] = TRUE]
        PROVE  HandlersOK'
    <2>1. queue[w] # <<>> /\ call[w].kind = "dependency"
      BY <1>3 DEF HandlersOK, DependencySteps
    <2>2. Tail(queue[w]) \in Seq(EndpointNames)
      BY <2>1, Popped
    <2>3. /\ queue' = [queue EXCEPT ![w] = Tail(queue[w])]
          /\ \/ pc' = [pc EXCEPT ![w] = "link"] /\ Tail(queue[w]) = <<>>
             \/ pc' = [pc EXCEPT ![w] = "matchEndpoint"] /\ Tail(queue[w]) # <<>>
      BY <1>3, Moved
    <2> QED BY <1>3, <2>1, <2>2, <2>3 DEF HandlersOK, Steps, TrashSteps, DependencySteps
  <1>4. ASSUME NEW w \in Workers, pc[w] \in {"matchEndpoint", "createEndpoint"}, EndpointFails(w),
               UNCHANGED <<call, history>>
        PROVE  HandlersOK'
    <2>1. CASE pc' = [pc EXCEPT ![w] = "failed"] /\ UNCHANGED <<queue, merr>>
      BY <1>4, <2>1 DEF HandlersOK, Steps, TrashSteps, DependencySteps
    <2>2. CASE AfterEndpoint(w) /\ merr' = [merr EXCEPT ![w] = TRUE]
      BY <1>3, <1>4, <2>2
    <2> QED BY <1>4, <2>1, <2>2, Moved
  <1>5. ASSUME NEW w \in Workers, MatchEndpoint(w) PROVE HandlersOK'
    <2>1. CASE AfterEndpoint(w)
      BY <1>3, <1>5, <2>1 DEF MatchEndpoint
    <2>2. CASE pc' = [pc EXCEPT ![w] = "createEndpoint"] /\ queue' = queue
      BY <1>5, <2>2 DEF MatchEndpoint, HandlersOK, Steps, TrashSteps, DependencySteps
    <2> QED BY <1>5, <2>1, <2>2 DEF MatchEndpoint
  <1>6. ASSUME NEW w \in Workers, CreateEndpoint(w) PROVE HandlersOK'
    BY <1>3, <1>4, <1>6 DEF CreateEndpoint
  <1>7. ASSUME NEW w \in Workers, Link(w) PROVE HandlersOK'
    BY <1>7 DEF Link, HandlersOK, Steps, TrashSteps, DependencySteps
  <1>8. ASSUME NEW w \in Workers, \/ TrashExposes(w) \/ TrashCaller(w) \/ TrashCallees(w)
                                  \/ TrashNodes(w) \/ TrashRefused(w) \/ TrashError(w)
        PROVE  HandlersOK'
    <2>1. /\ pc[w] \in TrashSteps /\ UNCHANGED <<call, queue, history>>
          /\ merr' = merr \/ merr' = [merr EXCEPT ![w] = TRUE]
          /\ pc' = pc \/ \E s \in TrashSteps \cup {"done", "failed"} : pc' = [pc EXCEPT ![w] = s]
      BY <1>8, AfterTrashIs DEF TrashExposes, TrashCaller, TrashCallees, TrashNodes, TrashRefused,
                                TrashError, EndOfTrash, TrashSteps
    <2>2. CASE pc' = pc
      BY <2>1, <2>2 DEF HandlersOK
    <2>3. ASSUME NEW s \in TrashSteps \cup {"done", "failed"}, pc' = [pc EXCEPT ![w] = s]
          PROVE  HandlersOK'
      BY <2>1, <2>3 DEF HandlersOK, Steps, TrashSteps, DependencySteps
    <2> QED BY <2>1, <2>2, <2>3
  <1>9. ASSUME NEW w \in Workers, Respond(w) PROVE HandlersOK'
    BY <1>9 DEF Respond, HandlersOK, Steps, TrashSteps, DependencySteps
  <1>10. ASSUME NEW w \in Workers, EndpointError(w) PROVE HandlersOK'
    BY <1>4, <1>10 DEF EndpointError
  <1>11. ASSUME NEW w \in Workers, ReturnError(w) PROVE HandlersOK'
    BY <1>11 DEF ReturnError, HandlersOK, Steps, TrashSteps, DependencySteps
  <1>12. CASE Crash
    BY <1>12 DEF Crash, HandlersOK, Steps, TrashSteps, DependencySteps
  <1>13. CASE UNCHANGED vars
    BY <1>13 DEF vars, handler, HandlersOK
  <1> QED BY <1>1, <1>2, <1>5, <1>6, <1>7, <1>8, <1>9, <1>10, <1>11, <1>12, <1>13
          DEF Next, Proceed

-----------------------------------------------------------------------------
(* The graph, and what the transactions do to it.                          *)

GraphOK ==
    /\ components \subseteq Components
    /\ endpoints \subseteq Endpoint
    /\ \A e \in endpoints : e.component \in components \cup {None}
    /\ \A e, f \in endpoints : e.node = f.node => e = f
    /\ dependencies \subseteq Dependency
    /\ \A d \in dependencies : \A x \in {d.caller, d.callee} :
          x = None \/ \E e \in endpoints : e.node = x

\* What a Reset leaves was there, perhaps with relationships it has lost.
Shrunk ==
    /\ components' \subseteq components
    /\ \A e \in endpoints' : \E f \in endpoints :
          e.node = f.node /\ e.name = f.name /\ e.component \in {f.component, None}
    /\ \A d \in dependencies' : \E c \in dependencies :
          d.caller \in {c.caller, None} /\ d.callee \in {c.callee, None}

Kept == UNCHANGED graph
Upserted == \E w \in Workers, c \in Components :
    /\ pc[w] = "upsertComponent"
    /\ components' = components \cup {c} /\ UNCHANGED <<endpoints, dependencies>>

Exposed(w) == \E x \in FreeNodes :
    /\ pc[w] = "createEndpoint" /\ pc'[w] # "createEndpoint" /\ Head(queue[w])[1] \in components
    /\ endpoints' = endpoints \cup
          {[node |-> x, component |-> Head(queue[w])[1], name |-> Head(queue[w])[2]]}
    /\ UNCHANGED <<components, dependencies>>
Joined(w) ==
    /\ pc[w] = "link"
    /\ dependencies' = dependencies
         \cup [caller : NodesNamed(call[w].caller), callee : CalleesOf(w)]
    /\ UNCHANGED <<components, endpoints>>

LEMMA LosesComponent ==
    ASSUME GraphOK, NEW D, D \subseteq endpoints, UNCHANGED <<components, dependencies>>,
           endpoints' = (endpoints \ D) \cup {[e EXCEPT !.component = None] : e \in D}
    PROVE  Shrunk /\ GraphOK'
  <1> DEFINE Lost(e) == [e EXCEPT !.component = None]
  <1>1. ASSUME NEW e \in endpoints
        PROVE  /\ Lost(e) \in Endpoint /\ Lost(e).node = e.node /\ Lost(e).name = e.name
               /\ Lost(e).component = None
    BY <1>1 DEF GraphOK, Endpoint
  <1>2. ASSUME NEW e \in endpoints'
        PROVE  \E f \in endpoints : IF f \in D THEN e = Lost(f) ELSE e = f
    OBVIOUS
  <1>3. ASSUME NEW f \in endpoints
        PROVE  (IF f \in D THEN Lost(f) ELSE f) \in endpoints'
    OBVIOUS
  <1> HIDE DEF Lost
  <1>4. ASSUME NEW e \in endpoints'
        PROVE  /\ e \in Endpoint /\ e.component \in components \cup {None}
               /\ \E f \in endpoints : /\ e.node = f.node /\ e.name = f.name
                                       /\ e.component \in {f.component, None}
    BY <1>1, <1>2, <1>4 DEF GraphOK
  <1>5. ASSUME NEW e \in endpoints', NEW f \in endpoints', e.node = f.node PROVE e = f
    <2>1. PICK a \in endpoints : IF a \in D THEN e = Lost(a) ELSE e = a
      BY <1>2
    <2>2. PICK b \in endpoints : IF b \in D THEN f = Lost(b) ELSE f = b
      BY <1>2
    <2>3. a.node = b.node
      BY <1>1, <1>5, <2>1, <2>2
    <2> QED BY <2>1, <2>2, <2>3 DEF GraphOK
  <1>6. ASSUME NEW f \in endpoints PROVE \E e \in endpoints' : e.node = f.node
    BY <1>1, <1>3
  <1>7. Shrunk
    BY <1>4 DEF Shrunk, GraphOK
  <1>8. GraphOK'
    <2>1. ASSUME NEW d \in dependencies', NEW x \in {d.caller, d.callee}, x # None
          PROVE  \E e \in endpoints' : e.node = x
      <3>1. PICK f \in endpoints : f.node = x
        BY <2>1 DEF GraphOK
      <3> QED BY <1>6, <3>1
    <2> QED BY <1>4, <1>5, <2>1 DEF GraphOK
  <1> QED BY <1>7, <1>8

LEMMA LosesEnd ==
    ASSUME GraphOK, NEW D, D \subseteq dependencies, UNCHANGED <<components, endpoints>>,
           \/ dependencies' = (dependencies \ D) \cup {[d EXCEPT !.caller = None] : d \in D}
           \/ dependencies' = (dependencies \ D) \cup {[d EXCEPT !.callee = None] : d \in D}
    PROVE  Shrunk /\ GraphOK'
  <1> DEFINE LostCaller(d) == [d EXCEPT !.caller = None]
             LostCallee(d) == [d EXCEPT !.callee = None]
  <1>1. ASSUME NEW d \in dependencies
        PROVE  /\ LostCaller(d) \in Dependency /\ LostCallee(d) \in Dependency
               /\ LostCaller(d).caller = None /\ LostCaller(d).callee = d.callee
               /\ LostCallee(d).caller = d.caller /\ LostCallee(d).callee = None
    BY <1>1 DEF GraphOK, Dependency
  <1>2. ASSUME NEW d \in dependencies'
        PROVE  \E c \in dependencies : d = c \/ d = LostCaller(c) \/ d = LostCallee(c)
    OBVIOUS
  <1> HIDE DEF LostCaller, LostCallee
  <1>3. ASSUME NEW d \in dependencies'
        PROVE  /\ d \in Dependency
               /\ \E c \in dependencies : d.caller \in {c.caller, None} /\ d.callee \in {c.callee, None}
    <2>1. PICK c \in dependencies : d = c \/ d = LostCaller(c) \/ d = LostCallee(c)
      BY <1>2
    <2> QED BY <1>1, <2>1 DEF GraphOK
  <1>4. ASSUME NEW d \in dependencies', NEW x \in {d.caller, d.callee}, x # None
        PROVE  \E e \in endpoints' : e.node = x
    BY <1>3, <1>4 DEF GraphOK
  <1>5. Shrunk
    BY <1>3 DEF Shrunk
  <1> QED BY <1>3, <1>4, <1>5 DEF GraphOK

LEMMA LosesNodes ==
    ASSUME GraphOK, NEW D, D \cap Touched = {},
           components' = components \ D, endpoints' = endpoints \ D,
           dependencies' = dependencies \ D
    PROVE  Shrunk /\ GraphOK'
  <1>1. ASSUME NEW e \in endpoints, \/ e.component # None
                                    \/ \E d \in dependencies : e.node \in {d.caller, d.callee}
        PROVE  e \in endpoints'
    BY <1>1 DEF Touched, Linked
  <1>2. ASSUME NEW e \in endpoints', e.component # None PROVE e.component \in components'
    BY <1>2 DEF Touched, GraphOK
  <1>3. ASSUME NEW d \in dependencies', NEW x \in {d.caller, d.callee}, x # None
        PROVE  \E e \in endpoints' : e.node = x
    <2>1. PICK e \in endpoints : e.node = x
      BY <1>3 DEF GraphOK
    <2> QED BY <1>1, <1>3, <2>1
  <1> QED BY <1>2, <1>3 DEF GraphOK, Shrunk

\* What a handler's step does to the graph.
LEMMA Trashed ==
    ASSUME GraphOK, NEW w \in Workers,
           TrashExposes(w) \/ TrashCaller(w) \/ TrashCallees(w) \/ TrashNodes(w)
    PROVE  /\ pc[w] \in TrashSteps /\ Shrunk /\ GraphOK'
           /\ UNCHANGED <<call, queue, merr, history>>
  <1>1. CASE TrashExposes(w)
    <2>1. PICK D \in Batches({e \in endpoints : e.component # None}) :
             endpoints' = (endpoints \ D) \cup {[e EXCEPT !.component = None] : e \in D}
      BY <1>1 DEF TrashExposes
    <2>2. D \subseteq endpoints
      BY DEF Batches
    <2> QED BY <1>1, <2>1, <2>2, LosesComponent DEF TrashExposes, At, TrashSteps
  <1>2. CASE TrashCaller(w)
    <2>1. PICK D \in Batches({d \in dependencies : d.caller # None}) :
             dependencies' = (dependencies \ D) \cup {[d EXCEPT !.caller = None] : d \in D}
      BY <1>2 DEF TrashCaller
    <2>2. D \subseteq dependencies
      BY DEF Batches
    <2> QED BY <1>2, <2>1, <2>2, LosesEnd DEF TrashCaller, At, TrashSteps
  <1>3. CASE TrashCallees(w)
    <2>1. PICK D \in Batches({d \in dependencies : d.callee # None}) :
             dependencies' = (dependencies \ D) \cup {[d EXCEPT !.callee = None] : d \in D}
      BY <1>3 DEF TrashCallees
    <2>2. D \subseteq dependencies
      BY DEF Batches
    <2> QED BY <1>3, <2>1, <2>2, LosesEnd DEF TrashCallees, At, TrashSteps
  <1>4. CASE TrashNodes(w)
    BY <1>4, LosesNodes DEF TrashNodes, At, TrashSteps
  <1> QED BY <1>1, <1>2, <1>3, <1>4

LEMMA Effects ==
    ASSUME HandlersOK, GraphOK, [Next]_vars
    PROVE  \/ Kept \/ Upserted
           \/ \E w \in Workers : Exposed(w) \/ Joined(w)
           \/ Shrunk /\ GraphOK' /\ \E w \in Workers : pc[w] \in TrashSteps
  <1>1. ASSUME NEW w \in Workers, \/ \E c \in Calls : Start(w, c)
                                  \/ RetrieveComponent(w) \/ MatchEndpoint(w) \/ TrashRefused(w)
                                  \/ Respond(w) \/ EndpointError(w) \/ TrashError(w) \/ ReturnError(w)
        PROVE  Kept
    BY <1>1 DEF Start, RetrieveComponent, MatchEndpoint, TrashRefused, Respond, EndpointError,
                TrashError, ReturnError, Kept
  <1>2. ASSUME NEW w \in Workers, UpsertComponent(w) PROVE Upserted
    <2>1. call[w].component \in Components
      BY <1>2, CallKinds DEF UpsertComponent, At, HandlersOK
    <2> QED BY <1>2, <2>1 DEF UpsertComponent, Upserted, At
  <1>3. ASSUME NEW w \in Workers, CreateEndpoint(w) PROVE Kept \/ Exposed(w)
    <2>1. pc[w] = "createEndpoint" /\ (AfterEndpoint(w) => pc'[w] # "createEndpoint")
      BY <1>3, Moved DEF CreateEndpoint, At, HandlersOK
    <2> QED BY <1>3, <2>1 DEF CreateEndpoint, Kept, Exposed, graph
  <1>4. ASSUME NEW w \in Workers, Link(w) PROVE Joined(w)
    BY <1>4 DEF Link, Joined, At
  <1>5. ASSUME NEW w \in Workers,
               TrashExposes(w) \/ TrashCaller(w) \/ TrashCallees(w) \/ TrashNodes(w)
        PROVE  Shrunk /\ GraphOK' /\ pc[w] \in TrashSteps
    BY <1>5, Trashed
  <1>6. CASE Crash \/ UNCHANGED vars
    BY <1>6 DEF Crash, vars, Kept
  <1> QED BY <1>1, <1>2, <1>3, <1>4, <1>5, <1>6 DEF Next, Proceed

\* The node of an endpoint that is created was no endpoint's, and no
\* dependency's.
LEMMA NewEndpoint ==
    ASSUME HandlersOK, GraphOK, NEW w \in Workers, Exposed(w)
    PROVE  \E n \in Endpoint :
              /\ endpoints' = endpoints \cup {n} /\ UNCHANGED <<components, dependencies>>
              /\ pc[w] = "createEndpoint" /\ <<n.component, n.name>> = Head(queue[w])
              /\ Head(queue[w]) \in EndpointNames /\ n.component \in components
              /\ n.node # None /\ \A e \in endpoints : e.node # n.node
              /\ \A d \in dependencies : n.node \notin {d.caller, d.callee}
  <1>1. PICK x \in FreeNodes :
           endpoints' = endpoints \cup
              {[node |-> x, component |-> Head(queue[w])[1], name |-> Head(queue[w])[2]]}
    BY DEF Exposed
  <1>2. /\ pc[w] = "createEndpoint" /\ Head(queue[w])[1] \in components
        /\ UNCHANGED <<components, dependencies>>
    BY DEF Exposed
  <1>3. Head(queue[w]) \in EndpointNames
    BY <1>2, Popped DEF HandlersOK
  <1>4. x \in EndpointNodes /\ \A e \in endpoints : e.node # x
    BY DEF FreeNodes
  <1>5. \A d \in dependencies : x \notin {d.caller, d.callee}
    BY <1>4, NoneIsNoName DEF GraphOK
  <1> DEFINE n == [node |-> x, component |-> Head(queue[w])[1], name |-> Head(queue[w])[2]]
  <1>6. n \in Endpoint
    BY <1>3, <1>4, NoneIsNoName DEF Endpoint
  <1>7. <<n.component, n.name>> = Head(queue[w])
    BY <1>3, NoneIsNoName
  <1> QED BY <1>1, <1>2, <1>3, <1>4, <1>5, <1>6, <1>7, NoneIsNoName

LEMMA NewDependency ==
    ASSUME HandlersOK, GraphOK, NEW w \in Workers, Joined(w), NEW d \in dependencies',
           d \notin dependencies
    PROVE  /\ call[w] \in Calls /\ call[w].kind = "dependency"
           /\ d.caller \in NodesNamed(call[w].caller)
           /\ \E i \in DOMAIN call[w].callees : d.callee \in NodesNamed(call[w].callees[i])
           /\ d = [caller |-> d.caller, callee |-> d.callee]
  <1>1. d \in [caller : NodesNamed(call[w].caller), callee : CalleesOf(w)]
    BY DEF Joined
  <1> QED BY <1>1 DEF CalleesOf, Joined, HandlersOK, DependencySteps

LEMMA NodeNamed ==
    ASSUME GraphOK, NEW n \in EndpointNames, NEW x \in NodesNamed(n)
    PROVE  /\ x \in EndpointNodes /\ NamesOf(x) = {n}
           /\ \E e \in endpoints : e.node = x /\ e.component = n[1] /\ e.name = n[2]
  <1>1. PICK e \in endpoints : e.node = x /\ e.component = n[1] /\ e.name = n[2]
    BY DEF NodesNamed
  <1>2. \A f \in endpoints : f.node = x => f = e
    BY <1>1 DEF GraphOK
  <1>3. n = <<n[1], n[2]>>
    BY NoneIsNoName
  <1>4. {f \in endpoints : f.node = x} = {e}
    BY <1>1, <1>2
  <1>5. e \in Endpoint /\ NamesOf(x) = {<<e.component, e.name>>}
    BY <1>4 DEF NamesOf, GraphOK
  <1> QED BY <1>1, <1>3, <1>5 DEF Endpoint

LEMMA GraphStep == HandlersOK /\ GraphOK /\ [Next]_vars => GraphOK'
  <1> SUFFICES ASSUME HandlersOK, GraphOK, [Next]_vars PROVE GraphOK'
    OBVIOUS
  <1>1. CASE Kept
    BY <1>1 DEF Kept, graph, GraphOK
  <1>2. CASE Upserted
    BY <1>2 DEF Upserted, GraphOK
  <1>3. ASSUME NEW w \in Workers, Exposed(w) PROVE GraphOK'
    <2>1. PICK n \in Endpoint :
              /\ endpoints' = endpoints \cup {n} /\ UNCHANGED <<components, dependencies>>
              /\ n.component \in components /\ \A e \in endpoints : e.node # n.node
      BY <1>3, NewEndpoint
    <2> QED BY <2>1 DEF GraphOK
  <1>4. ASSUME NEW w \in Workers, Joined(w) PROVE GraphOK'
    <2>1. UNCHANGED <<components, endpoints>>
      BY <1>4 DEF Joined
    <2>2. ASSUME NEW d \in dependencies', d \notin dependencies
          PROVE  /\ d \in Dependency /\ \E e \in endpoints : e.node = d.caller
                 /\ \E e \in endpoints : e.node = d.callee
      <3>1. call[w] \in Calls /\ call[w].kind = "dependency" /\ d.caller \in NodesNamed(call[w].caller)
        BY <1>4, <2>2, NewDependency
      <3>2. PICK i \in DOMAIN call[w].callees : d.callee \in NodesNamed(call[w].callees[i])
        BY <1>4, <2>2, NewDependency
      <3>3. call[w].caller \in EndpointNames /\ call[w].callees[i] \in EndpointNames
        BY <3>1, CallKinds, ElementOfSeq
      <3>4. /\ d.caller \in EndpointNodes /\ \E e \in endpoints : e.node = d.caller
            /\ d.callee \in EndpointNodes /\ \E e \in endpoints : e.node = d.callee
        BY <3>1, <3>2, <3>3, NodeNamed
      <3>5. d = [caller |-> d.caller, callee |-> d.callee]
        BY <1>4, <2>2, NewDependency
      <3> QED BY <3>4, <3>5 DEF Dependency
    <2>3. dependencies' \subseteq Dependency
      BY <2>2 DEF GraphOK
    <2>4. ASSUME NEW d \in dependencies', NEW x \in {d.caller, d.callee}
          PROVE  x = None \/ \E e \in endpoints : e.node = x
      BY <2>2 DEF GraphOK
    <2> QED BY <2>1, <2>3, <2>4 DEF GraphOK
  <1> QED BY <1>1, <1>2, <1>3, <1>4, Effects

LEMMA SafeInit == Init => HandlersOK /\ GraphOK /\ LinkedAsNamed
  <1> SUFFICES ASSUME Init PROVE HandlersOK /\ GraphOK /\ LinkedAsNamed
    OBVIOUS
  <1>1. <<>> \in Seq(EndpointNames)
    BY EmptySeq
  <1>2. HandlersOK
    BY <1>1 DEF Init, HandlersOK, Steps, TrashSteps, DependencySteps
  <1> QED BY <1>2 DEF Init, GraphOK, LinkedAsNamed

LEMMA Safe == Spec => [](HandlersOK /\ GraphOK)
  <1>1. HandlersOK /\ GraphOK /\ [Next]_vars => HandlersOK' /\ GraphOK'
    BY HandlersStep, GraphStep DEF GraphOK
  <1> QED BY SafeInit, <1>1, PTL DEF Spec

\* The graph and the handlers keep their types, whatever is reset half-way.
THEOREM TypeCorrect == Spec => []TypeOK
  <1>1. HandlersOK /\ GraphOK /\ [Next]_vars => HandlersOK' /\ GraphOK'
    BY HandlersStep, GraphStep DEF GraphOK
  <1>2. HandlersOK /\ GraphOK => TypeOK
    <2> SUFFICES ASSUME HandlersOK, GraphOK PROVE TypeOK
      OBVIOUS
    <2>1. /\ {e.component : e \in endpoints} \subseteq components \cup {None}
          /\ Linked \subseteq {e.node : e \in endpoints} \cup {None}
      BY DEF GraphOK, Linked
    <2> QED BY <2>1 DEF HandlersOK, GraphOK, TypeOK
  <1> QED BY SafeInit, <1>1, <1>2, PTL DEF Spec

-----------------------------------------------------------------------------
(* Dependencies join what a client has named.                              *)

\* An endpoint that has its component after a step of Reset had it before.
LEMMA NamedBefore ==
    ASSUME GraphOK', Shrunk, NEW x, NEW f \in NamesOf(x)', f[1] # None
    PROVE  x # None /\ f \in NamesOf(x)
  <1>1. PICK e \in endpoints' : e.node = x /\ f = <<e.component, e.name>>
    BY DEF NamesOf
  <1>2. e \in Endpoint /\ e.component # None
    BY <1>1 DEF GraphOK
  <1>3. PICK g \in endpoints : e.node = g.node /\ e.name = g.name /\ e.component \in {g.component, None}
    BY DEF Shrunk
  <1>4. f = <<g.component, g.name>> /\ g.node = x
    BY <1>1, <1>2, <1>3
  <1> QED BY <1>1, <1>2, <1>4, NoneIsNoName DEF NamesOf, Endpoint

LEMMA NamedStep == HandlersOK /\ GraphOK /\ LinkedAsNamed /\ [Next]_vars => LinkedAsNamed'
  <1> DEFINE Wanted(f, t) == \E c \in Calls : /\ c.kind = "dependency" /\ c.caller = f
                                              /\ \E i \in DOMAIN c.callees : c.callees[i] = t
  <1> SUFFICES ASSUME HandlersOK, GraphOK, LinkedAsNamed, [Next]_vars,
                      NEW d \in dependencies', NEW f \in NamesOf(d.caller)',
                      NEW t \in NamesOf(d.callee)', f[1] # None, t[1] # None
               PROVE  Wanted(f, t)
    BY DEF LinkedAsNamed
  <1>1. ASSUME NEW c \in dependencies, f \in NamesOf(c.caller), t \in NamesOf(c.callee)
        PROVE  Wanted(f, t)
    BY <1>1 DEF LinkedAsNamed
  <1> HIDE DEF Wanted
  <1>2. CASE Kept \/ Upserted
    <2>1. UNCHANGED <<endpoints, dependencies>>
      BY <1>2 DEF Kept, Upserted, graph
    <2> QED BY <1>1, <2>1 DEF NamesOf
  <1>3. ASSUME NEW w \in Workers, Exposed(w) PROVE Wanted(f, t)
    <2>1. PICK n \in Endpoint :
             /\ endpoints' = endpoints \cup {n} /\ UNCHANGED dependencies
             /\ \A c \in dependencies : n.node \notin {c.caller, c.callee}
      BY <1>3, NewEndpoint
    <2>2. f \in NamesOf(d.caller) /\ t \in NamesOf(d.callee)
      BY <2>1 DEF NamesOf
    <2> QED BY <1>1, <2>1, <2>2
  <1>4. ASSUME NEW w \in Workers, Joined(w) PROVE Wanted(f, t)
    <2>1. f \in NamesOf(d.caller) /\ t \in NamesOf(d.callee)
      BY <1>4 DEF Joined, NamesOf
    <2>2. CASE d \in dependencies
      BY <1>1, <2>1, <2>2
    <2>3. CASE d \notin dependencies
      <3>1. call[w] \in Calls /\ call[w].kind = "dependency" /\ d.caller \in NodesNamed(call[w].caller)
        BY <1>4, <2>3, NewDependency
      <3>2. PICK i \in DOMAIN call[w].callees : d.callee \in NodesNamed(call[w].callees[i])
        BY <1>4, <2>3, NewDependency
      <3>3. call[w].caller \in EndpointNames /\ call[w].callees[i] \in EndpointNames
        BY <3>1, CallKinds, ElementOfSeq
      <3>4. f = call[w].caller /\ t = call[w].callees[i]
        BY <2>1, <3>1, <3>2, <3>3, NodeNamed
      <3> QED BY <3>1, <3>4 DEF Wanted
    <2> QED BY <2>2, <2>3
  <1>5. CASE Shrunk /\ GraphOK'
    <2>1. d.caller # None /\ d.callee # None /\ f \in NamesOf(d.caller) /\ t \in NamesOf(d.callee)
      BY <1>5, NamedBefore
    <2>2. PICK c \in dependencies : d.caller \in {c.caller, None} /\ d.callee \in {c.callee, None}
      BY <1>5 DEF Shrunk
    <2>3. d.caller = c.caller /\ d.callee = c.callee
      BY <2>1, <2>2
    <2> QED BY <1>1, <2>1, <2>2, <2>3
  <1> QED BY <1>2, <1>3, <1>4, <1>5, Effects

\* Dependencies join endpoints that one request has named, for the components
\* they expose, through every race and every Reset.
THEOREM AsNamed == Spec => []LinkedAsNamed
  <1>1. /\ HandlersOK /\ GraphOK /\ LinkedAsNamed /\ [Next]_vars
        => HandlersOK' /\ GraphOK' /\ LinkedAsNamed'
    BY HandlersStep, GraphStep, NamedStep DEF GraphOK
  <1> QED BY SafeInit, <1>1, PTL DEF Spec

-----------------------------------------------------------------------------
(* Endpoints are unique unless dependencies raced.                         *)

RunningDependency(w) == pc[w] # "idle" /\ call[w].kind = "dependency"

UniqueInv ==
    ~raced => /\ \A v, w \in Workers : RunningDependency(v) /\ RunningDependency(w) => v = w
              /\ \A w \in Workers : pc[w] = "createEndpoint" => NodesNamed(Head(queue[w])) = {}
              /\ UniqueUnlessRaced

\* Calls end, or go on as they are; one at most begins.
LEMMA Calling ==
    ASSUME HandlersOK, components \subseteq Components, [Next]_vars
    PROVE  \/ \E w \in Workers, c \in Calls : Start(w, c)
           \/ /\ raced' = raced
              /\ \A v \in Workers : pc'[v] # "idle" =>
                    /\ pc[v] # "idle" /\ call'[v] = call[v]
                    /\ known'[v] = known[v] /\ disturbed'[v] = disturbed[v]
  <1> DEFINE Goes == /\ raced' = raced
                     /\ \A v \in Workers : pc'[v] # "idle" =>
                           /\ pc[v] # "idle" /\ call'[v] = call[v]
                           /\ known'[v] = known[v] /\ disturbed'[v] = disturbed[v]
  <1> USE DEF At, Goto, history
  <1>1. ASSUME NEW w \in Workers, pc[w] # "idle", UNCHANGED <<call, history>>,
               pc' = pc \/ \E s \in Steps : pc' = [pc EXCEPT ![w] = s]
        PROVE  Goes
    BY <1>1 DEF HandlersOK
  <1>2. ASSUME NEW w \in Workers, \/ UpsertComponent(w) \/ RetrieveComponent(w) \/ Link(w)
                                  \/ TrashExposes(w) \/ TrashCaller(w) \/ TrashCallees(w)
                                  \/ TrashNodes(w) \/ TrashRefused(w) \/ TrashError(w)
                                  \/ ReturnError(w)
        PROVE  Goes
    <2>1. /\ pc[w] # "idle" /\ UNCHANGED <<call, history>>
          /\ pc' = pc \/ \E s \in Steps : pc' = [pc EXCEPT ![w] = s]
      BY <1>2, AfterTrashIs DEF UpsertComponent, RetrieveComponent, Link, TrashExposes, TrashCaller,
            TrashCallees, TrashNodes, TrashRefused, TrashError, ReturnError, EndOfTrash, Steps
    <2> QED BY <1>1, <2>1
  <1>3. ASSUME NEW w \in Workers, MatchEndpoint(w) \/ CreateEndpoint(w) \/ EndpointError(w)
        PROVE  Goes
    <2>1. /\ pc[w] \in {"matchEndpoint", "createEndpoint"} /\ UNCHANGED <<call, history>>
          /\ AfterEndpoint(w) \/ EndpointFails(w) \/ pc' = [pc EXCEPT ![w] = "createEndpoint"]
      BY <1>3 DEF MatchEndpoint, CreateEndpoint, EndpointError
    <2>2. \E s \in Steps : pc' = [pc EXCEPT ![w] = s]
      BY <2>1, Moved DEF Steps
    <2> QED BY <1>1, <2>1, <2>2
  <1>4. ASSUME NEW w \in Workers, Respond(w) PROVE Goes
    BY <1>4 DEF Respond, HandlersOK
  <1>5. CASE Crash
    BY <1>5 DEF Crash
  <1>6. CASE UNCHANGED vars
    BY <1>6 DEF vars, handler
  <1> QED BY <1>2, <1>3, <1>4, <1>5, <1>6 DEF Next, Proceed

\* A handler that is to create an endpoint has just not found it, or is still to.
LEMMA Creating ==
    ASSUME HandlersOK, components \subseteq Components, [Next]_vars, NEW v \in Workers,
           pc'[v] = "createEndpoint"
    PROVE  /\ queue'[v] = queue[v]
           /\ \/ pc[v] = "createEndpoint"
              \/ pc[v] = "matchEndpoint" /\ NodesNamed(Head(queue[v])) = {} /\ Kept
  <1> USE DEF At, Goto
  <1> DEFINE Waits == /\ queue'[v] = queue[v]
                      /\ \/ pc[v] = "createEndpoint"
                         \/ pc[v] = "matchEndpoint" /\ NodesNamed(Head(queue[v])) = {} /\ Kept
  <1>3. ASSUME NEW w \in Workers, NEW c \in Calls, Start(w, c) PROVE Waits
    <2>1. v # w /\ pc'[v] = pc[v]
      BY <1>3, Started, CallKinds
    <2> QED BY <1>3, <2>1 DEF Start, HandlersOK
  <1>4. ASSUME NEW w \in Workers, \/ UpsertComponent(w) \/ RetrieveComponent(w) \/ Link(w)
                                  \/ TrashExposes(w) \/ TrashCaller(w) \/ TrashCallees(w)
                                  \/ TrashNodes(w) \/ TrashRefused(w) \/ TrashError(w)
                                  \/ ReturnError(w) \/ Respond(w)
        PROVE  Waits
    <2>1. /\ pc[w] # "createEndpoint"
          /\ queue' = queue \/ queue' = [queue EXCEPT ![w] = <<>>]
          /\ pc' = pc \/ \E s \in Steps \ {"createEndpoint"} : pc' = [pc EXCEPT ![w] = s]
      BY <1>4, AfterTrashIs DEF UpsertComponent, RetrieveComponent, Link, TrashExposes, TrashCaller,
            TrashCallees, TrashNodes, TrashRefused, TrashError, ReturnError, Respond, EndOfTrash, Steps
    <2>2. v # w /\ pc[v] = "createEndpoint" /\ queue'[v] = queue[v]
      BY <2>1 DEF HandlersOK
    <2> QED BY <2>2
  <1>5. ASSUME NEW w \in Workers, pc[w] \in {"matchEndpoint", "createEndpoint"},
               AfterEndpoint(w) \/ EndpointFails(w)
        PROVE  Waits
    <2>1. /\ \E s \in {"link", "matchEndpoint", "failed"} : pc' = [pc EXCEPT ![w] = s]
          /\ queue' = queue \/ queue' = [queue EXCEPT ![w] = Tail(queue[w])]
      BY <1>5, Moved
    <2> QED BY <2>1 DEF HandlersOK
  <1>6. ASSUME NEW w \in Workers, CreateEndpoint(w) \/ EndpointError(w) PROVE Waits
    BY <1>5, <1>6 DEF CreateEndpoint, EndpointError
  <1>7. ASSUME NEW w \in Workers, MatchEndpoint(w) PROVE Waits
    <2>1. CASE AfterEndpoint(w)
      BY <1>5, <1>7, <2>1 DEF MatchEndpoint
    <2>2. CASE ~AfterEndpoint(w)
      <3>1. /\ pc[w] = "matchEndpoint" /\ pc' = [pc EXCEPT ![w] = "createEndpoint"] /\ queue' = queue
            /\ NodesNamed(Head(queue[w])) = {} /\ UNCHANGED graph
        BY <1>7, <2>2 DEF MatchEndpoint
      <3> QED BY <3>1 DEF HandlersOK, Kept
    <2> QED BY <2>1, <2>2
  <1>8. CASE Crash \/ UNCHANGED vars
    BY <1>8 DEF Crash, vars, handler
  <1> QED BY <1>3, <1>4, <1>6, <1>7, <1>8 DEF Next, Proceed

\* What a Reset takes away gives no name to a node.
LEMMA Fewer ==
    ASSUME GraphOK', Shrunk, NEW n \in EndpointNames
    PROVE  NodesNamed(n)' \subseteq NodesNamed(n)
  <1> SUFFICES ASSUME NEW e \in endpoints', e.component = n[1], e.name = n[2]
               PROVE  e.node \in NodesNamed(n)
    BY DEF NodesNamed
  <1>1. PICK g \in endpoints : e.node = g.node /\ e.name = g.name /\ e.component \in {g.component, None}
    BY DEF Shrunk
  <1>2. e.component # None
    BY NoneIsNoName
  <1> QED BY <1>1, <1>2 DEF NodesNamed

LEMMA UniqueStep == HandlersOK /\ GraphOK /\ UniqueInv /\ [Next]_vars => UniqueInv'
  <1> SUFFICES ASSUME HandlersOK, GraphOK, UniqueInv, [Next]_vars, ~raced'
               PROVE  UniqueInv'
    BY DEF UniqueInv
  <1>1. components \subseteq Components /\ HandlersOK' /\ GraphOK'
    BY HandlersStep, GraphStep DEF GraphOK
  <1>2. ~raced
    BY <1>1, Calling DEF Start
  <1>3. /\ \A v, w \in Workers : RunningDependency(v) /\ RunningDependency(w) => v = w
        /\ \A w \in Workers : pc[w] = "createEndpoint" => NodesNamed(Head(queue[w])) = {}
        /\ \A e, f \in endpoints :
              e.component = f.component /\ e.name = f.name /\ e.component # None => e = f
    BY <1>2 DEF UniqueInv, UniqueUnlessRaced
  <1>4. ASSUME NEW v \in Workers, NEW u \in Workers, RunningDependency(v)', RunningDependency(u)'
        PROVE  v = u
    <2>1. ASSUME NEW w \in Workers, NEW c \in Calls, Start(w, c) PROVE v = u
      <3>1. call' = [call EXCEPT ![w] = c] /\ \A x \in Workers \ {w} : pc'[x] = pc[x]
        BY <1>1, <2>1, Started
      <3>2. c.kind # "dependency" \/ \A x \in Workers : ~RunningDependency(x)
        BY <2>1 DEF Start, RunningKinds, Running, RunningDependency
      <3>3. call'[w] = c /\ \A x \in Workers \ {w} : call'[x] = call[x]
        BY <3>1 DEF HandlersOK
      <3> QED BY <1>3, <1>4, <3>1, <3>2, <3>3 DEF RunningDependency
    <2>2. CASE \A x \in Workers : pc'[x] # "idle" => pc[x] # "idle" /\ call'[x] = call[x]
      BY <1>3, <1>4, <2>2 DEF RunningDependency
    <2> QED BY <1>1, <2>1, <2>2, Calling
  <1>5. ASSUME NEW v \in Workers, pc'[v] = "createEndpoint"
        PROVE  NodesNamed(Head(queue[v]))' = {}
    <2>1. /\ queue'[v] = queue[v]
          /\ \/ pc[v] = "createEndpoint"
             \/ pc[v] = "matchEndpoint" /\ NodesNamed(Head(queue[v])) = {} /\ Kept
      BY <1>1, <1>5, Creating
    <2>2. NodesNamed(Head(queue[v])) = {} /\ Head(queue[v]) \in EndpointNames
      BY <1>3, <2>1, Popped DEF HandlersOK
    <2> DEFINE n == Head(queue[v])
    <2>3. NodesNamed(Head(queue[v]))' = NodesNamed(n)'
      BY <2>1 DEF NodesNamed
    <2>4. NodesNamed(n) = {} /\ n \in EndpointNames
      BY <2>2
    <2> HIDE DEF n
    <2>5. UNCHANGED endpoints => NodesNamed(n)' = {}
      BY <2>1, <2>4 DEF NodesNamed, n
    <2>6. ASSUME NEW u \in Workers, Exposed(u) PROVE FALSE
      <3>1. pc[u] = "createEndpoint" /\ u # v
        BY <1>5, <2>6 DEF Exposed
      <3>2. RunningDependency(u) /\ RunningDependency(v)
        BY <2>1, <3>1 DEF RunningDependency, HandlersOK, DependencySteps
      <3> QED BY <1>3, <3>1, <3>2
    <2>7. CASE Shrunk
      <3>1. NodesNamed(n)' \subseteq NodesNamed(n)
        BY <1>1, <2>1, <2>4, <2>7, Fewer DEF n
      <3> QED BY <2>3, <2>4, <3>1
    <2> QED BY <2>3, <2>5, <2>6, <2>7, Effects DEF Kept, Upserted, Joined, graph
  <1>6. ASSUME NEW e \in endpoints', NEW f \in endpoints',
               e.component = f.component, e.name = f.name, e.component # None
        PROVE  e = f
    <2>1. UNCHANGED endpoints => e = f
      BY <1>3, <1>6
    <2>2. ASSUME NEW w \in Workers, Exposed(w) PROVE e = f
      <3>1. PICK n \in Endpoint :
                 /\ endpoints' = endpoints \cup {n} /\ pc[w] = "createEndpoint"
                 /\ <<n.component, n.name>> = Head(queue[w])
        BY <2>2, NewEndpoint
      <3>2. \A g \in endpoints : g.component # n.component \/ g.name # n.name
        BY <1>3, <3>1 DEF NodesNamed
      <3> QED BY <1>3, <1>6, <3>1, <3>2
    <2>3. CASE Shrunk
      <3>1. PICK g \in endpoints : e.node = g.node /\ e.name = g.name /\ e.component \in {g.component, None}
        BY <2>3 DEF Shrunk
      <3>2. PICK h \in endpoints : f.node = h.node /\ f.name = h.name /\ f.component \in {h.component, None}
        BY <2>3 DEF Shrunk
      <3>3. g = h
        BY <1>3, <1>6, <3>1, <3>2
      <3> QED BY <1>1, <3>1, <3>2, <3>3 DEF GraphOK
    <2> QED BY <2>1, <2>2, <2>3, Effects DEF Kept, Upserted, Joined, graph
  <1> QED BY <1>4, <1>5, <1>6 DEF UniqueInv, UniqueUnlessRaced

LEMMA UniqueInit == Init => UniqueInv
  BY DEF Init, UniqueInv, UniqueUnlessRaced, RunningDependency, NodesNamed

\* Endpoints are unique, through errors, crashes, repetitions and Resets, until
\* two dependencies are created at the same time.
THEOREM Unique == Spec => []UniqueUnlessRaced
  <1>1. HandlersOK /\ GraphOK /\ UniqueInv /\ [Next]_vars => HandlersOK' /\ GraphOK' /\ UniqueInv'
    BY HandlersStep, GraphStep, UniqueStep DEF GraphOK
  <1>2. UniqueInv => UniqueUnlessRaced
    BY DEF UniqueInv, UniqueUnlessRaced
  <1> QED BY SafeInit, UniqueInit, <1>1, <1>2, PTL DEF Spec

-----------------------------------------------------------------------------
(* Answers, and the calls beside them.                                     *)

Undisturbed(w, kind) == pc[w] # "idle" /\ call[w].kind = kind /\ ~disturbed[w]

\* An undisturbed Reset is alone; an undisturbed dependency has no Reset beside it.
BesideInv ==
    \A w \in Workers :
        /\ Undisturbed(w, "reset") => \A v \in Workers \ {w} : pc[v] = "idle"
        /\ Undisturbed(w, "dependency") => \A v \in Workers : pc[v] # "idle" => call[v].kind # "reset"

\* A call that is still undisturbed goes on, or has just begun.
LEMMA StillUndisturbed ==
    ASSUME HandlersOK, components \subseteq Components, [Next]_vars, NEW w \in Workers, NEW kind,
           Undisturbed(w, kind)'
    PROVE  \/ /\ Undisturbed(w, kind) /\ call'[w] = call[w] /\ known'[w] = known[w]
              /\ \A v \in Workers : pc'[v] # "idle" =>
                    \/ pc[v] # "idle" /\ call'[v] = call[v]
                    \/ pc[v] = "idle" /\ ~Disturbs(call'[v].kind, kind)
           \/ /\ Start(w, call'[w]) /\ call'[w] \in Calls
              /\ \A v \in Workers \ {w} : pc'[v] # "idle" =>
                    pc[v] # "idle" /\ call'[v] = call[v] /\ ~Disturbs(call[v].kind, kind)
  <1>1. ASSUME NEW u \in Workers, NEW c \in Calls, Start(u, c), u = w
        PROVE  /\ Start(w, call'[w]) /\ call'[w] \in Calls
               /\ \A v \in Workers \ {w} : pc'[v] # "idle" =>
                    pc[v] # "idle" /\ call'[v] = call[v] /\ ~Disturbs(call[v].kind, kind)
    <2>1. call' = [call EXCEPT ![w] = c] /\ \A v \in Workers \ {w} : pc'[v] = pc[v]
      BY <1>1, Started
    <2>2. call'[w] = c /\ \A v \in Workers \ {w} : call'[v] = call[v]
      BY <2>1 DEF HandlersOK
    <2>3. disturbed'[w] = \E k \in RunningKinds : Disturbs(k, c.kind)
      BY <1>1 DEF Start, Beside
    <2>4. c.kind = kind /\ ~disturbed'[w]
      BY <2>2 DEF Undisturbed
    <2>5. \A v \in Workers : pc[v] # "idle" => ~Disturbs(call[v].kind, kind)
      BY <2>3, <2>4 DEF RunningKinds, Running
    <2> QED BY <1>1, <2>1, <2>2, <2>5
  <1>2. ASSUME NEW u \in Workers, NEW c \in Calls, Start(u, c), u # w
        PROVE  /\ Undisturbed(w, kind) /\ call'[w] = call[w] /\ known'[w] = known[w]
               /\ \A v \in Workers : pc'[v] # "idle" =>
                    \/ pc[v] # "idle" /\ call'[v] = call[v]
                    \/ pc[v] = "idle" /\ ~Disturbs(call'[v].kind, kind)
    <2>1. pc[u] = "idle" /\ call' = [call EXCEPT ![u] = c] /\ \A v \in Workers \ {u} : pc'[v] = pc[v]
      BY <1>2, Started
    <2>2. call'[u] = c /\ \A v \in Workers \ {u} : call'[v] = call[v]
      BY <2>1 DEF HandlersOK
    <2>3. disturbed'[w] = (disturbed[w] \/ (w \in Running /\ Disturbs(c.kind, call[w].kind)))
      BY <1>2 DEF Start, Beside
    <2>4. known'[w] = known[w]
      BY <1>2 DEF Start, HandlersOK
    <2>5. Undisturbed(w, kind)
      BY <1>2, <2>1, <2>2, <2>3 DEF Undisturbed
    <2>6. ~Disturbs(c.kind, kind)
      BY <2>3, <2>5 DEF Undisturbed, Running
    <2> QED BY <1>2, <2>1, <2>2, <2>4, <2>5, <2>6
  <1>3. CASE \A v \in Workers : pc'[v] # "idle" =>
                    /\ pc[v] # "idle" /\ call'[v] = call[v]
                    /\ known'[v] = known[v] /\ disturbed'[v] = disturbed[v]
    BY <1>3 DEF Undisturbed
  <1> QED BY <1>1, <1>2, <1>3, Calling

LEMMA BesideStep == HandlersOK /\ components \subseteq Components /\ BesideInv /\ [Next]_vars => BesideInv'
  <1> SUFFICES ASSUME HandlersOK, components \subseteq Components, BesideInv, [Next]_vars,
                      NEW w \in Workers
               PROVE  /\ Undisturbed(w, "reset")' => \A v \in Workers \ {w} : pc'[v] = "idle"
                      /\ Undisturbed(w, "dependency")' =>
                            \A v \in Workers : pc'[v] # "idle" => call'[v].kind # "reset"
    BY DEF BesideInv
  <1>1. /\ \A k : Disturbs(k, "reset")
        /\ Disturbs("reset", "dependency")
    BY DEF Disturbs
  <1>2. ASSUME Undisturbed(w, "reset")', NEW v \in Workers \ {w} PROVE pc'[v] = "idle"
    BY <1>1, <1>2, StillUndisturbed DEF BesideInv
  <1>3. ASSUME Undisturbed(w, "dependency")', NEW v \in Workers, pc'[v] # "idle"
        PROVE  call'[v].kind # "reset"
    <2>1. CASE v = w
      BY <1>3, <2>1 DEF Undisturbed
    <2>2. CASE v # w
      BY <1>1, <1>3, <2>2, StillUndisturbed DEF BesideInv
    <2> QED BY <2>1, <2>2
  <1> QED BY <1>2, <1>3

\* Who answers without an error.
LEMMA Finished ==
    ASSUME HandlersOK, components \subseteq Components, [Next]_vars, NEW v \in Workers,
           pc'[v] = "done", pc[v] # "done"
    PROVE  RetrieveComponent(v) \/ Link(v) \/ TrashNodes(v)
  <1> DEFINE Finishes == RetrieveComponent(v) \/ Link(v) \/ TrashNodes(v)
  <1> USE DEF At, Goto
  <1>1. ASSUME NEW w \in Workers, NEW c \in Calls, Start(w, c) PROVE Finishes
    BY <1>1, Started, CallKinds
  <1>2. ASSUME NEW w \in Workers, RetrieveComponent(w) \/ Link(w) \/ TrashNodes(w) PROVE Finishes
    BY <1>2 DEF RetrieveComponent, Link, TrashNodes, HandlersOK
  <1>3. ASSUME NEW w \in Workers, \/ UpsertComponent(w) \/ TrashExposes(w) \/ TrashCaller(w)
                                  \/ TrashCallees(w) \/ TrashRefused(w) \/ TrashError(w)
                                  \/ ReturnError(w) \/ Respond(w)
        PROVE  Finishes
    <2>1. pc' = pc \/ \E s \in Steps \ {"done"} : pc' = [pc EXCEPT ![w] = s]
      BY <1>3, AfterTrashIs DEF UpsertComponent, TrashExposes, TrashCaller, TrashCallees,
            TrashRefused, TrashError, ReturnError, Respond, EndOfTrash, Steps
    <2> QED BY <2>1 DEF HandlersOK
  <1>4. ASSUME NEW w \in Workers, MatchEndpoint(w) \/ CreateEndpoint(w) \/ EndpointError(w)
        PROVE  Finishes
    <2>1. /\ pc[w] \in {"matchEndpoint", "createEndpoint"}
          /\ AfterEndpoint(w) \/ EndpointFails(w) \/ pc' = [pc EXCEPT ![w] = "createEndpoint"]
      BY <1>4 DEF MatchEndpoint, CreateEndpoint, EndpointError
    <2>2. \E s \in Steps \ {"done"} : pc' = [pc EXCEPT ![w] = s]
      BY <2>1, Moved DEF Steps
    <2> QED BY <2>2 DEF HandlersOK
  <1>5. CASE Crash \/ UNCHANGED vars
    BY <1>5 DEF Crash, vars, handler
  <1> QED BY <1>1, <1>2, <1>3, <1>4, <1>5 DEF Next, Proceed

LEMMA EmptyStep ==
    HandlersOK /\ GraphOK /\ BesideInv /\ AloneResetEmpties /\ [Next]_vars => AloneResetEmpties'
  <1> SUFFICES ASSUME HandlersOK, GraphOK, BesideInv, AloneResetEmpties, [Next]_vars,
                      NEW v \in Workers, pc'[v] = "done", call'[v] = ResetCall, ~disturbed'[v]
               PROVE  Nodes' = {}
    BY DEF AloneResetEmpties
  <1>1. components \subseteq Components /\ ResetCall.kind = "reset"
    BY DEF GraphOK, ResetCall
  <1>2. ~Start(v, call'[v]) \/ call'[v] \notin Calls
    BY <1>1, Started, CallKinds
  <1>3. Undisturbed(v, "reset") /\ call[v] = ResetCall
    BY <1>1, <1>2, StillUndisturbed DEF Undisturbed
  <1>4. \A w \in Workers \ {v} : pc[w] = "idle"
    BY <1>3 DEF BesideInv
  <1>5. CASE pc[v] = "done"
    <2>1. Nodes = {}
      BY <1>3, <1>5 DEF AloneResetEmpties, Undisturbed
    <2>2. Kept
      BY <1>4, <1>5, Effects DEF Upserted, Exposed, Joined, TrashSteps
    <2> QED BY <2>1, <2>2 DEF Kept, graph, Nodes
  <1>6. CASE pc[v] # "done"
    <2>1. ~RetrieveComponent(v) /\ ~Link(v)
      BY <1>1, <1>3 DEF RetrieveComponent, Link, At, HandlersOK, DependencySteps
    <2>2. TrashNodes(v)
      BY <1>1, <1>6, <2>1, Finished
    <2>3. PICK D \in Batches(Nodes) :
             /\ components' = components \ D /\ endpoints' = endpoints \ D
             /\ dependencies' = dependencies \ D
             /\ D # {} => pc' = pc
      BY <2>2 DEF TrashNodes
    <2>4. D = {}
      BY <1>6, <2>3
    <2>5. D = Nodes
      BY <2>3, <2>4, LimitAssumption, FS_EmptySet DEF Batches
    <2> QED BY <2>3, <2>4, <2>5 DEF Nodes
  <1> QED BY <1>5, <1>6

-----------------------------------------------------------------------------
(* An answered dependency is linked.                                       *)

Awaits(q, n) == \E i \in 1..Len(q) : q[i] = n
NamedBy(c) == {c.caller} \cup {c.callees[i] : i \in DOMAIN c.callees}

\* As long as no Reset disturbs it: what was there is there, and each endpoint
\* of a component that was there is awaited or found, or an error is collected.
LinkInv ==
    \A w \in Workers : Undisturbed(w, "dependency") =>
        /\ known[w] \subseteq components
        /\ pc[w] \in DependencySteps => \/ merr[w]
                                        \/ \A n \in NamedBy(call[w]) : n[1] \in known[w] =>
                                              Awaits(queue[w], n) \/ NodesNamed(n) # {}

LEMMA AwaitsNext ==
    ASSUME NEW q \in Seq(EndpointNames), q # <<>>, NEW n, Awaits(q, n), n # Head(q)
    PROVE  Awaits(Tail(q), n)
  <1>1. PICK i \in 1..Len(q) : q[i] = n
    BY DEF Awaits
  <1>2. /\ Head(q) = q[1] /\ Len(Tail(q)) = Len(q) - 1 /\ Len(q) \in Nat
        /\ \A j \in 1..Len(Tail(q)) : Tail(q)[j] = q[j + 1]
    BY HeadTailProperties, LenProperties
  <1>3. i # 1
    BY <1>1, <1>2
  <1>4. i - 1 \in 1..Len(Tail(q)) /\ (i - 1) + 1 = i
    BY <1>2, <1>3
  <1> QED BY <1>1, <1>2, <1>4 DEF Awaits

LEMMA AwaitsAll ==
    ASSUME NEW c \in Calls, c.kind = "dependency", NEW n \in NamedBy(c)
    PROVE  Awaits(<<c.caller>> \o c.callees, n)
  <1>1. c.callees \in Seq(EndpointNames) /\ <<c.caller>> \in Seq(EndpointNames)
    BY CallKinds
  <1>2. /\ DOMAIN c.callees = 1..Len(c.callees) /\ Len(c.callees) \in Nat /\ Len(<<c.caller>>) = 1
        /\ <<c.caller>>[1] = c.caller
    BY <1>1, LenProperties
  <1> DEFINE q == <<c.caller>> \o c.callees
  <1>3. /\ Len(q) = 1 + Len(c.callees)
        /\ \A i \in 1..Len(q) : q[i] = IF i <= 1 THEN <<c.caller>>[i] ELSE c.callees[i - 1]
    BY <1>1, <1>2, ConcatProperties
  <1> HIDE DEF q
  <1>4. CASE n = c.caller
    BY <1>2, <1>3, <1>4 DEF Awaits, q
  <1>5. ASSUME NEW i \in 1..Len(c.callees), n = c.callees[i] PROVE Awaits(q, n)
    <2>1. i + 1 \in 1..Len(q) /\ q[i + 1] = c.callees[i]
      BY <1>2, <1>3
    <2> QED BY <1>5, <2>1 DEF Awaits
  <1> QED BY <1>2, <1>4, <1>5 DEF NamedBy, q

\* Without a Reset the graph grows.
LEMMA Grows ==
    ASSUME HandlersOK, GraphOK, [Next]_vars, \A v \in Workers : pc[v] \notin TrashSteps
    PROVE  components \subseteq components' /\ endpoints \subseteq endpoints'
           /\ dependencies \subseteq dependencies'
  BY Effects DEF Kept, Upserted, Exposed, Joined, graph

\* A handler that goes on with its endpoints: it has not moved, has collected an
\* error, or has left the first with a node or without a component.
LEMMA Waiting ==
    ASSUME HandlersOK, components \subseteq Components, [Next]_vars, NEW v \in Workers,
           pc[v] # "idle", pc'[v] \in DependencySteps
    PROVE  /\ pc[v] \in DependencySteps
           /\ \/ queue'[v] = queue[v] /\ merr'[v] = merr[v]
              \/ merr'[v]
              \/ /\ pc[v] # "link" /\ queue'[v] = Tail(queue[v]) /\ merr'[v] = merr[v]
                 /\ \E n \in EndpointNames : /\ n = Head(queue[v])
                                             /\ n[1] \in components => NodesNamed(n)' # {}
  <1> USE DEF At, Goto
  <1> DEFINE Same == pc[v] \in DependencySteps /\ queue'[v] = queue[v] /\ merr'[v] = merr[v]
             Popping == /\ pc[v] \in DependencySteps
                        /\ pc[v] # "link" /\ queue'[v] = Tail(queue[v]) /\ merr'[v] = merr[v]
                        /\ \E n \in EndpointNames : /\ n = Head(queue[v])
                                                    /\ n[1] \in components => NodesNamed(n)' # {}
             Failing == pc[v] \in DependencySteps /\ merr'[v]
  <1>1. ASSUME NEW w \in Workers, NEW c \in Calls, Start(w, c) PROVE Same
    <2>1. v # w /\ pc'[v] = pc[v] /\ UNCHANGED merr
      BY <1>1, Started
    <2> QED BY <1>1, <2>1 DEF Start, HandlersOK
  <1>2. ASSUME NEW w \in Workers, \/ UpsertComponent(w) \/ RetrieveComponent(w) \/ Link(w)
                                  \/ TrashExposes(w) \/ TrashCaller(w) \/ TrashCallees(w)
                                  \/ TrashNodes(w) \/ TrashRefused(w) \/ TrashError(w)
                                  \/ ReturnError(w) \/ Respond(w)
        PROVE  Same
    <2>1. /\ queue' = queue \/ queue' = [queue EXCEPT ![w] = <<>>]
          /\ merr' = merr \/ \E b \in BOOLEAN : merr' = [merr EXCEPT ![w] = b]
          /\ \/ pc' = pc /\ pc[w] \in TrashSteps
             \/ \E s \in Steps \ DependencySteps : pc' = [pc EXCEPT ![w] = s]
      BY <1>2, AfterTrashIs DEF UpsertComponent, RetrieveComponent, Link, TrashExposes, TrashCaller,
            TrashCallees, TrashNodes, TrashRefused, TrashError, ReturnError, Respond, EndOfTrash,
            Steps, DependencySteps, TrashSteps
    <2>2. v # w /\ pc'[v] = pc[v]
      BY <2>1 DEF HandlersOK, TrashSteps, DependencySteps
    <2> QED BY <2>1, <2>2 DEF HandlersOK
  <1>3. ASSUME NEW w \in Workers, MatchEndpoint(w) \/ CreateEndpoint(w) \/ EndpointError(w), w # v
        PROVE  Same
    <2>1. /\ pc[w] \in {"matchEndpoint", "createEndpoint"}
          /\ \/ AfterEndpoint(w) /\ merr' = merr
             \/ EndpointFails(w)
             \/ pc' = [pc EXCEPT ![w] = "createEndpoint"] /\ UNCHANGED <<queue, merr>>
      BY <1>3 DEF MatchEndpoint, CreateEndpoint, EndpointError
    <2>2. /\ \E s \in Steps : pc' = [pc EXCEPT ![w] = s]
          /\ queue' = queue \/ queue' = [queue EXCEPT ![w] = Tail(queue[w])]
          /\ merr' = merr \/ merr' = [merr EXCEPT ![w] = TRUE]
      BY <2>1, Moved DEF Steps
    <2> QED BY <1>3, <2>2 DEF HandlersOK
  <1>4. ASSUME pc[v] \in {"matchEndpoint", "createEndpoint"}, EndpointFails(v) PROVE Failing
    <2>1. \/ pc' = [pc EXCEPT ![v] = "failed"] /\ UNCHANGED <<queue, merr>>
          \/ AfterEndpoint(v) /\ merr' = [merr EXCEPT ![v] = TRUE]
      BY <1>4, Moved
    <2> QED BY <1>4, <2>1 DEF HandlersOK, DependencySteps
  <1>5. ASSUME pc[v] \in {"matchEndpoint", "createEndpoint"}, AfterEndpoint(v), merr' = merr,
               NEW n \in EndpointNames, n = Head(queue[v]), n[1] \in components => NodesNamed(n)' # {}
        PROVE  Popping
    <2>1. queue' = [queue EXCEPT ![v] = Tail(queue[v])]
      BY <1>5, Moved
    <2> QED BY <1>5, <2>1 DEF HandlersOK, DependencySteps
  <1>6. ASSUME MatchEndpoint(v) PROVE Same \/ Popping
    <2>1. PICK n \in EndpointNames : n = Head(queue[v])
      BY <1>6, Popped DEF MatchEndpoint, HandlersOK
    <2>2. CASE AfterEndpoint(v) /\ (n[1] \notin components \/ NodesNamed(n) # {})
      <3>1. n[1] \in components => NodesNamed(n)' # {}
        BY <1>6, <2>2 DEF MatchEndpoint, graph, NodesNamed
      <3> HIDE DEF Popping
      <3> QED BY <1>5, <1>6, <2>1, <2>2, <3>1 DEF MatchEndpoint
    <2>3. CASE pc' = [pc EXCEPT ![v] = "createEndpoint"] /\ UNCHANGED queue
      BY <1>6, <2>3 DEF MatchEndpoint, HandlersOK, DependencySteps
    <2> HIDE DEF Same, Popping
    <2> QED BY <1>6, <2>1, <2>2, <2>3 DEF MatchEndpoint
  <1>7. ASSUME CreateEndpoint(v) PROVE Popping \/ Failing
    <2>1. PICK n \in EndpointNames : n = Head(queue[v])
      BY <1>7, Popped DEF CreateEndpoint, HandlersOK
    <2>2. CASE n[1] \in components
      <3>1. PICK x \in FreeNodes : endpoints' = endpoints \cup
                      {[node |-> x, component |-> n[1], name |-> n[2]]}
        BY <1>7, <2>1, <2>2 DEF CreateEndpoint
      <3> DEFINE r == [node |-> x, component |-> n[1], name |-> n[2]]
      <3>2. r.component = n[1] /\ r.name = n[2] /\ r \in endpoints'
        BY <3>1
      <3> HIDE DEF r
      <3>3. NodesNamed(n)' # {}
        BY <3>2 DEF NodesNamed
      <3> HIDE DEF Popping
      <3> QED BY <1>5, <1>7, <2>1, <2>2, <3>3 DEF CreateEndpoint
    <2>3. CASE n[1] \notin components
      <3> HIDE DEF Failing
      <3> QED BY <1>4, <1>7, <2>1, <2>3 DEF CreateEndpoint
    <2> QED BY <2>2, <2>3
  <1>8. ASSUME EndpointError(v) PROVE Failing
    BY <1>4, <1>8 DEF EndpointError
  <1>9. ASSUME UNCHANGED vars PROVE Same
    BY <1>9 DEF vars, handler
  <1>10. ~Crash
    BY DEF Crash, DependencySteps
  <1>11. Same \/ Popping \/ Failing
    <2> HIDE DEF Same, Popping, Failing
    <2>1. ASSUME NEW w \in Workers, MatchEndpoint(w) \/ CreateEndpoint(w) \/ EndpointError(w)
          PROVE  Same \/ Popping \/ Failing
      <3>1. CASE w = v
        BY <1>6, <1>7, <1>8, <2>1, <3>1
      <3>2. CASE w # v
        BY <1>3, <2>1, <3>2
      <3> QED BY <3>1, <3>2
    <2>2. ASSUME NEW w \in Workers, \E c \in Calls : Start(w, c) PROVE Same
      BY <1>1, <2>2
    <2>3. ASSUME NEW w \in Workers, Proceed(w) \/ TrashError(w) \/ ReturnError(w)
          PROVE  Same \/ Popping \/ Failing
      BY <1>2, <2>1, <2>3 DEF Proceed
    <2>4. CASE Next
      BY <1>10, <2>1, <2>2, <2>3, <2>4 DEF Next
    <2> QED BY <1>9, <2>4
  <1> QED BY <1>11

\* The calls that have begun wait for all their endpoints; those that answer
\* had all of them.
LEMMA LinkStep ==
    HandlersOK /\ GraphOK /\ BesideInv /\ LinkInv /\ [Next]_vars => LinkInv'
  <1> SUFFICES ASSUME HandlersOK, GraphOK, BesideInv, LinkInv, [Next]_vars,
                      NEW w \in Workers, Undisturbed(w, "dependency")'
               PROVE  /\ known'[w] \subseteq components'
                      /\ pc'[w] \in DependencySteps =>
                            \/ merr'[w]
                            \/ \A n \in NamedBy(call'[w]) : n[1] \in known'[w] =>
                                  Awaits(queue'[w], n) \/ NodesNamed(n)' # {}
    BY DEF LinkInv, NamedBy, Awaits
  <1>1. components \subseteq Components
    BY DEF GraphOK
  <1>2. ASSUME NEW c \in Calls, Start(w, c), call'[w] = c PROVE
               /\ known'[w] = components /\ components' = components
               /\ \A n \in NamedBy(c) : Awaits(queue'[w], n)
    <2>1. c.kind = "dependency"
      BY <1>2 DEF Undisturbed
    <2>2. queue'[w] = <<c.caller>> \o c.callees /\ known'[w] = components /\ components' = components
      BY <1>2, <2>1 DEF Start, HandlersOK, graph
    <2> QED BY <2>1, <2>2, AwaitsAll
  <1>3. ASSUME Undisturbed(w, "dependency"), call'[w] = call[w], known'[w] = known[w]
        PROVE  /\ known'[w] \subseteq components'
               /\ pc'[w] \in DependencySteps =>
                     \/ merr'[w]
                     \/ \A n \in NamedBy(call[w]) : n[1] \in known[w] =>
                           Awaits(queue'[w], n) \/ NodesNamed(n)' # {}
    <2>1. \A v \in Workers : pc[v] \notin TrashSteps
      BY <1>3 DEF BesideInv, HandlersOK, TrashSteps
    <2>2. components \subseteq components' /\ endpoints \subseteq endpoints'
      BY <2>1, Grows
    <2>3. known[w] \subseteq components /\ pc[w] # "idle"
      BY <1>3 DEF LinkInv, Undisturbed
    <2>4. ASSUME pc'[w] \in DependencySteps, ~merr'[w], NEW n \in NamedBy(call[w]), n[1] \in known[w]
          PROVE  Awaits(queue'[w], n) \/ NodesNamed(n)' # {}
      <3>1. /\ pc[w] \in DependencySteps
            /\ \/ queue'[w] = queue[w] /\ merr'[w] = merr[w]
               \/ /\ pc[w] # "link" /\ queue'[w] = Tail(queue[w]) /\ merr'[w] = merr[w]
                  /\ \E h \in EndpointNames : /\ h = Head(queue[w])
                                              /\ h[1] \in components => NodesNamed(h)' # {}
        BY <1>1, <2>3, <2>4, Waiting
      <3>2. ~merr[w]
        BY <2>4, <3>1
      <3>3. Awaits(queue[w], n) \/ NodesNamed(n) # {}
        BY <1>3, <2>4, <3>1, <3>2 DEF LinkInv
      <3>4. NodesNamed(n) # {} => NodesNamed(n)' # {}
        BY <2>2 DEF NodesNamed
      <3>5. CASE queue'[w] = queue[w]
        BY <3>3, <3>4, <3>5 DEF Awaits
      <3>6. CASE pc[w] # "link" /\ queue'[w] = Tail(queue[w]) /\ Awaits(queue[w], n)
        <4>1. queue[w] \in Seq(EndpointNames) /\ queue[w] # <<>>
          BY <3>1, <3>6 DEF HandlersOK, DependencySteps
        <4>2. CASE n = Head(queue[w])
          BY <2>3, <2>4, <3>1, <3>5, <4>2
        <4>3. CASE n # Head(queue[w])
          BY <3>6, <4>1, <4>3, AwaitsNext
        <4> QED BY <4>2, <4>3
      <3> QED BY <3>1, <3>3, <3>4, <3>5, <3>6
    <2> QED BY <2>2, <2>3, <2>4, <1>3
  <1> QED BY <1>1, <1>2, <1>3, StillUndisturbed

\* What an undisturbed call has linked stays linked.
LEMMA AnswerStep ==
    HandlersOK /\ GraphOK /\ BesideInv /\ LinkInv /\ AnsweredIsLinked /\ [Next]_vars
    => AnsweredIsLinked'
  <1> SUFFICES ASSUME HandlersOK, GraphOK, BesideInv, LinkInv, AnsweredIsLinked, [Next]_vars,
                      NEW w \in Workers, pc'[w] = "done", call'[w].kind = "dependency",
                      ~disturbed'[w], NEW i \in DOMAIN call'[w].callees,
                      {call'[w].caller[1], call'[w].callees[i][1]} \subseteq known'[w]
               PROVE  \E d \in dependencies' : /\ call'[w].caller \in NamesOf(d.caller)'
                                               /\ call'[w].callees[i] \in NamesOf(d.callee)'
    BY DEF AnsweredIsLinked, NamesOf
  <1>1. components \subseteq Components
    BY DEF GraphOK
  <1>2. ~Start(w, call'[w]) \/ call'[w] \notin Calls
    BY <1>1, Started, CallKinds
  <1>3. Undisturbed(w, "dependency") /\ call'[w] = call[w] /\ known'[w] = known[w]
    BY <1>1, <1>2, StillUndisturbed DEF Undisturbed
  <1> DEFINE from == call[w].caller
             to == call[w].callees[i]
  <1>4. call[w] \in Calls /\ call[w].kind = "dependency"
    BY <1>3 DEF Undisturbed, HandlersOK
  <1>5. from \in EndpointNames /\ to \in EndpointNames /\ i \in DOMAIN call[w].callees
    BY <1>3, <1>4, CallKinds, ElementOfSeq
  <1>6. CASE pc[w] = "done"
    <2>1. PICK d \in dependencies : from \in NamesOf(d.caller) /\ to \in NamesOf(d.callee)
      BY <1>3, <1>4, <1>5, <1>6 DEF AnsweredIsLinked, Undisturbed
    <2>2. endpoints \subseteq endpoints' /\ dependencies \subseteq dependencies'
      <3>1. \A v \in Workers : pc[v] \notin TrashSteps
        BY <1>3 DEF BesideInv, HandlersOK, TrashSteps
      <3> QED BY <3>1, Grows
    <2> HIDE DEF from, to
    <2>3. from \in NamesOf(d.caller)' /\ to \in NamesOf(d.callee)'
      BY <2>1, <2>2 DEF NamesOf
    <2> QED BY <1>3, <2>1, <2>2, <2>3 DEF from, to
  <1>7. CASE pc[w] # "done"
    <2>1. ~RetrieveComponent(w) /\ ~TrashNodes(w)
      BY <1>4 DEF RetrieveComponent, TrashNodes, At, HandlersOK, TrashSteps
    <2>2. Link(w)
      BY <1>1, <1>7, <2>1, Finished
    <2>3. /\ pc[w] = "link" /\ ~merr[w] /\ queue[w] = <<>> /\ endpoints' = endpoints
          /\ dependencies' = dependencies \cup [caller : NodesNamed(from), callee : CalleesOf(w)]
      BY <2>2 DEF Link, At, Goto, HandlersOK
    <2>4. \A n \in NamedBy(call[w]) : n[1] \in known[w] => NodesNamed(n) # {}
      BY <1>3, <2>3 DEF LinkInv, Awaits, DependencySteps
    <2>5. from \in NamedBy(call[w]) /\ to \in NamedBy(call[w])
      BY <1>5 DEF NamedBy
    <2>6. PICK x \in NodesNamed(from) : TRUE
      BY <1>3, <2>4, <2>5
    <2>7. PICK y \in NodesNamed(to) : TRUE
      BY <1>3, <2>4, <2>5
    <2>8. y \in CalleesOf(w)
      BY <1>5, <2>7 DEF CalleesOf
    <2> DEFINE d == [caller |-> x, callee |-> y]
    <2>9. d \in dependencies' /\ d.caller = x /\ d.callee = y
      BY <2>3, <2>6, <2>8
    <2>10. NamesOf(x) = {from} /\ NamesOf(y) = {to}
      BY <1>5, <2>6, <2>7, NodeNamed
    <2> HIDE DEF d, from, to
    <2>11. from \in NamesOf(d.caller)' /\ to \in NamesOf(d.callee)'
      BY <2>3, <2>9, <2>10 DEF NamesOf
    <2> QED BY <1>3, <2>9, <2>11 DEF from, to
  <1> QED BY <1>6, <1>7

LEMMA AnswersInit == Init => BesideInv /\ LinkInv /\ AnsweredIsLinked /\ AloneResetEmpties
  BY DEF Init, BesideInv, LinkInv, AnsweredIsLinked, AloneResetEmpties, Undisturbed

\* What a dependency that was answered without an error has named is linked,
\* unless a Reset ran beside it.
THEOREM AnsweredLinked == Spec => []AnsweredIsLinked
  <1>1. HandlersOK /\ GraphOK /\ BesideInv /\ LinkInv /\ AnsweredIsLinked /\ [Next]_vars
        => HandlersOK' /\ GraphOK' /\ BesideInv' /\ LinkInv' /\ AnsweredIsLinked'
    BY HandlersStep, GraphStep, BesideStep, LinkStep, AnswerStep DEF GraphOK
  <1> QED BY SafeInit, AnswersInit, <1>1, PTL DEF Spec

\* A Reset that ran alone and was answered without an error has left nothing.
THEOREM Emptied == Spec => []AloneResetEmpties
  <1>1. HandlersOK /\ GraphOK /\ BesideInv /\ AloneResetEmpties /\ [Next]_vars
        => HandlersOK' /\ GraphOK' /\ BesideInv' /\ AloneResetEmpties'
    BY HandlersStep, GraphStep, BesideStep, EmptyStep DEF GraphOK
  <1> QED BY SafeInit, AnswersInit, <1>1, PTL DEF Spec

-----------------------------------------------------------------------------
(* SIG implements Interactions: the links.                                 *)

LEMMA LinkIs ==
    ASSUME NEW l
    PROVE  l \in Links <=>
              \E d \in dependencies : \E f \in Shown(d.caller), t \in Shown(d.callee) : l = <<f, t>>
  BY DEF Links

LEMMA ShownIs ==
    ASSUME NEW n, NEW f
    PROVE  f \in Shown(n) <=> \E e \in endpoints : /\ e.node = n /\ e.component # None
                                                  /\ f = <<e.component, e.name>>
  BY DEF Shown, NamesOf

\* A node that is created has no dependency yet.
LEMMA ExposedLinks ==
    ASSUME HandlersOK, GraphOK, NEW w \in Workers, Exposed(w)
    PROVE  Links' = Links
  <1>1. PICK n \in Endpoint :
           /\ endpoints' = endpoints \cup {n} /\ UNCHANGED <<components, dependencies>>
           /\ \A d \in dependencies : n.node \notin {d.caller, d.callee}
    BY NewEndpoint
  <1>2. ASSUME NEW d \in dependencies, NEW x \in {d.caller, d.callee} PROVE Shown(x)' = Shown(x)
    <2>1. {e \in endpoints' : e.node = x} = {e \in endpoints : e.node = x}
      BY <1>1, <1>2
    <2> QED BY <2>1 DEF Shown, NamesOf
  <1> QED BY <1>1, <1>2 DEF Links

\* A dependency adds links that its call names.
LEMMA JoinedLinks ==
    ASSUME HandlersOK, GraphOK, NEW w \in Workers, Joined(w)
    PROVE  Links \subseteq Links' /\ Links' \subseteq Links \cup RequestOf(call[w]).links
  <1>1. \A n : Shown(n)' = Shown(n)
    BY DEF Joined, Shown, NamesOf
  <1>2. dependencies \subseteq dependencies'
    BY DEF Joined
  <1>3. Links \subseteq Links'
    BY <1>1, <1>2 DEF Links
  <1>4. ASSUME NEW d \in dependencies', d \notin dependencies,
               NEW f \in Shown(d.caller), NEW t \in Shown(d.callee)
        PROVE  <<f, t>> \in RequestOf(call[w]).links
    <2>1. call[w] \in Calls /\ call[w].kind = "dependency" /\ d.caller \in NodesNamed(call[w].caller)
      BY <1>4, NewDependency
    <2>2. PICK i \in DOMAIN call[w].callees : d.callee \in NodesNamed(call[w].callees[i])
      BY <1>4, NewDependency
    <2>3. call[w].caller \in EndpointNames /\ call[w].callees[i] \in EndpointNames
      BY <2>1, CallKinds, ElementOfSeq
    <2>4. f = call[w].caller /\ t = call[w].callees[i]
      BY <1>4, <2>1, <2>2, <2>3, NodeNamed DEF Shown
    <2> QED BY <2>1, <2>4 DEF RequestOf, LinksOf
  <1>5. ASSUME NEW l \in Links' PROVE l \in Links \cup RequestOf(call[w]).links
    <2>1. PICK d \in dependencies' : \E f \in Shown(d.caller)', t \in Shown(d.callee)' : l = <<f, t>>
      BY <1>5 DEF Links
    <2>2. PICK f \in Shown(d.caller), t \in Shown(d.callee) : l = <<f, t>>
      BY <1>1, <2>1
    <2>3. CASE d \in dependencies
      BY <2>2, <2>3, LinkIs
    <2>4. CASE d \notin dependencies
      BY <1>4, <2>2, <2>4
    <2> QED BY <2>3, <2>4
  <1> QED BY <1>3, <1>5

\* What a Reset takes away shows no new link.
LEMMA ShrunkLinks ==
    ASSUME GraphOK, GraphOK', Shrunk
    PROVE  Links' \subseteq Links
  <1>1. ASSUME NEW n PROVE Shown(n)' \subseteq Shown(n)
    <2> SUFFICES ASSUME NEW f \in Shown(n)' PROVE f \in Shown(n)
      OBVIOUS
    <2>1. PICK e \in endpoints' : e.node = n /\ e.component # None /\ f = <<e.component, e.name>>
      BY DEF Shown, NamesOf
    <2>2. PICK g \in endpoints : /\ e.node = g.node /\ e.name = g.name
                                /\ e.component \in {g.component, None}
      BY DEF Shrunk
    <2> QED BY <2>1, <2>2, ShownIs
  <1>2. Shown(None)' = {}
    <2>1. \A e \in endpoints' : e.node # None
      BY NoneIsNoName DEF GraphOK, Endpoint
    <2> QED BY <2>1 DEF Shown, NamesOf
  <1> SUFFICES ASSUME NEW l \in Links' PROVE l \in Links
    OBVIOUS
  <1>3. PICK d \in dependencies' : \E f \in Shown(d.caller)', t \in Shown(d.callee)' : l = <<f, t>>
    BY DEF Links
  <1>4. PICK f \in Shown(d.caller)', t \in Shown(d.callee)' : l = <<f, t>>
    BY <1>3
  <1>5. PICK c \in dependencies : d.caller \in {c.caller, None} /\ d.callee \in {c.callee, None}
    BY DEF Shrunk
  <1>6. d.caller = c.caller /\ d.callee = c.callee
    BY <1>2, <1>4, <1>5
  <1>7. f \in Shown(c.caller) /\ t \in Shown(c.callee)
    BY <1>1, <1>4, <1>6
  <1> QED BY <1>4, <1>7, LinkIs

-----------------------------------------------------------------------------
(* SIG implements Interactions: the calls.                                 *)

AnswersInv == /\ HandlersOK /\ GraphOK /\ BesideInv /\ LinkInv
              /\ AnsweredIsLinked /\ AloneResetEmpties

LEMMA LinksAre == ASSUME NEW c PROVE RequestOf(c).links = LinksOf(c)
  BY DEF RequestOf

\* Only the call of an inter-component dependency names links.
LEMMA RequestIs ==
    ASSUME NEW c \in Calls
    PROVE  /\ RequestOf(c).kind = c.kind
           /\ c.kind # "dependency" => RequestOf(c).links = {}
           /\ c.kind \in {"component", "retrieve"} => RequestOf(c).components = {c.component}
           /\ c.kind \in {"dependency", "reset"} => RequestOf(c).components = {}
  BY DEF RequestOf, LinksOf

LEMMA OwesOnlyDependencies ==
    ASSUME HandlersOK, NEW w \in Workers, pc[w] # "idle", call[w].kind # "dependency"
    PROVE  Owes[w] = {}
  <1>1. RequestOf(call[w]).links = {}
    BY RequestIs DEF HandlersOK
  <1> QED BY <1>1, LinksAre DEF Owes, Possible

\* The mapped calls that are served are those that run.
LEMMA ServedAre ==
    ASSUME HandlersOK
    PROVE  /\ I!Served = Running
           /\ I!Resetting = {w \in Running : call[w].kind = "reset"}
  <1>1. I!Served = Running
    BY DEF I!Served, Running, Outcome, OutcomeAt
  <1>2. \A w \in Running : Requested[w].kind = call[w].kind
    BY RequestIs DEF Running, Requested, At, HandlersOK
  <1> QED BY <1>1, <1>2 DEF I!Resetting, Running

LEMMA StartBegins ==
    ASSUME HandlersOK, HandlersOK', components \subseteq Components,
           NEW w \in Workers, NEW c \in Calls, Start(w, c)
    PROVE  I!Begin(w, RequestOf(c))
  <1> DEFINE r == RequestOf(c)
  <1>1. /\ pc[w] = "idle" /\ UNCHANGED graph
        /\ call' = [call EXCEPT ![w] = c]
        /\ \A v \in Workers \ {w} : pc'[v] = pc[v]
        /\ pc'[w] \in {"upsertComponent", "retrieve", "matchEndpoint", "trashExposes"}
    BY Started, CallKinds
  <1>2. call'[w] = c /\ \A v \in Workers \ {w} : call'[v] = call[v]
    BY <1>1 DEF HandlersOK
  <1>3. /\ disturbed'[w] = \E k \in RunningKinds : Disturbs(k, c.kind)
        /\ \A v \in Workers \ {w} : disturbed'[v] =
              (disturbed[v] \/ (v \in Running /\ Disturbs(c.kind, call[v].kind)))
        /\ known'[w] = IF c.kind = "dependency" THEN components ELSE {}
        /\ \A v \in Workers \ {w} : known'[v] = known[v]
    BY DEF Start, Beside, HandlersOK
  <1>4. r.kind = c.kind /\ (c.kind # "dependency" => r.links = {})
    BY RequestIs
  <1> HIDE DEF r
  <1>5. Outcome[w] = "none" /\ Outcome' = [Outcome EXCEPT ![w] = "pending"]
    <2>1. OutcomeAt(pc[w]) = "none" /\ OutcomeAt(pc'[w]) = "pending"
      BY <1>1 DEF OutcomeAt
    <2>2. \A v \in Workers \ {w} : OutcomeAt(pc'[v]) = OutcomeAt(pc[v])
      BY <1>1
    <2> QED BY <2>1, <2>2 DEF Outcome, OutcomeAt
  <1>6. Requested' = [Requested EXCEPT ![w] = r]
    <2>1. ASSUME NEW v \in Workers PROVE Requested'[v] = IF v = w THEN r ELSE Requested[v]
      BY <1>1, <1>2 DEF Requested, At, r
    <2> QED BY <2>1 DEF Requested
  <1>7. Owes' = [x \in Workers |->
                   IF x = w THEN IF I!Resetting = {} THEN I!Possible(r) ELSE {}
                   ELSE IF r.kind = "reset" THEN {} ELSE Owes[x]]
    <2>1. Owes'[w] = IF I!Resetting = {} THEN I!Possible(r) ELSE {}
      <3>1. CASE c.kind # "dependency"
        BY <1>1, <1>2, <1>4, <3>1, OwesOnlyDependencies, LinksAre DEF Owes, Possible, I!Possible, At, r
      <3>2. CASE c.kind = "dependency"
        <4>1. disturbed'[w] <=> I!Resetting # {}
          BY <1>3, <3>2, ServedAre DEF RunningKinds, Disturbs
        <4>2. Owes'[w] = IF disturbed'[w] THEN {} ELSE Possible(w)'
          BY <1>1 DEF Owes, At
        <4>3. Possible(w)' = I!Possible(r)
          BY <1>2, <1>3, <3>2, LinksAre DEF Possible, I!Possible, r
        <4> QED BY <4>1, <4>2, <4>3
      <3> QED BY <3>1, <3>2
    <2>2. ASSUME NEW x \in Workers \ {w}
          PROVE  Owes'[x] = IF r.kind = "reset" THEN {} ELSE Owes[x]
      <3>1. CASE pc[x] = "idle"
        BY <1>1, <3>1 DEF Owes, At
      <3>2. CASE pc[x] # "idle" /\ call[x].kind # "dependency"
        <4>1. Possible(x) = {} /\ Possible(x)' = {}
          BY <1>2, <3>2, RequestIs, LinksAre DEF Possible, HandlersOK
        <4> QED BY <4>1 DEF Owes
      <3>3. CASE pc[x] # "idle" /\ call[x].kind = "dependency"
        <4>1. disturbed'[x] <=> disturbed[x] \/ c.kind = "reset"
          BY <1>3, <3>3 DEF Running, Disturbs
        <4>2. Possible(x)' = Possible(x)
          BY <1>2, <1>3 DEF Possible
        <4> QED BY <1>1, <1>4, <3>3, <4>1, <4>2 DEF Owes, At
      <3> QED BY <3>1, <3>2, <3>3
    <2> QED BY <2>1, <2>2 DEF Owes
  <1>8. Alone' = [x \in Workers |-> x = w /\ r.kind = "reset" /\ I!Served = {}]
    <2>1. Alone'[w] = (r.kind = "reset" /\ I!Served = {})
      <3>1. c.kind = "reset" => (disturbed'[w] <=> Running # {})
        BY <1>3 DEF RunningKinds, Disturbs
      <3>2. Alone'[w] = (c.kind = "reset" /\ ~disturbed'[w])
        BY <1>1, <1>2 DEF Alone, At
      <3> QED BY <1>4, <3>1, <3>2, ServedAre
    <2>2. ASSUME NEW x \in Workers \ {w} PROVE Alone'[x] = FALSE
      <3>1. x \in Running /\ call[x].kind = "reset" => disturbed'[x]
        BY <1>3 DEF Disturbs
      <3> QED BY <1>1, <1>2, <3>1 DEF Alone, At, Running
    <2> QED BY <2>1, <2>2 DEF Alone
  <1>9. Links' = Links /\ components' = components
    BY <1>1 DEF graph, Links, Shown, NamesOf
  <1> QED BY <1>5, <1>6, <1>7, <1>8, <1>9 DEF I!Begin, I!graph, r

\* An answer says what its call is owed.
LEMMA AnswerFulfils ==
    ASSUME HandlersOK', GraphOK', AnsweredIsLinked', AloneResetEmpties',
           NEW w \in Workers, pc'[w] = "done",
           call'[w].kind \in {"component", "retrieve"} => call'[w].component \in components'
    PROVE  I!Fulfilled(w)'
  <1>1. call'[w] \in Calls /\ Requested'[w] = RequestOf(call'[w])
    BY DEF HandlersOK, Requested, At
  <1>2. Requested'[w].components \subseteq components'
    BY <1>1, RequestIs, CallKinds
  <1>3. Owes'[w] \subseteq Links'
    <2> SUFFICES ASSUME NEW l \in Owes'[w] PROVE l \in Links'
      OBVIOUS
    <2>1. /\ ~disturbed'[w] /\ l \in RequestOf(call'[w]).links
          /\ {l[1][1], l[2][1]} \subseteq known'[w]
      BY LinksAre DEF Owes, Possible
    <2>2. call'[w].kind = "dependency"
      BY <1>1, <2>1, RequestIs
    <2>3. PICK i \in DOMAIN call'[w].callees : l = <<call'[w].caller, call'[w].callees[i]>>
      BY <2>1, <2>2 DEF RequestOf, LinksOf
    <2>4. {call'[w].caller[1], call'[w].callees[i][1]} \subseteq known'[w]
      BY <2>1, <2>3
    <2>5. PICK d \in dependencies' : /\ call'[w].caller \in NamesOf(d.caller)'
                                     /\ call'[w].callees[i] \in NamesOf(d.callee)'
      BY <2>1, <2>2, <2>4 DEF AnsweredIsLinked
    <2>6. call'[w].caller \in EndpointNames /\ call'[w].callees[i] \in EndpointNames
      BY <1>1, <2>2, CallKinds, ElementOfSeq
    <2>7. call'[w].caller \in Shown(d.caller)' /\ call'[w].callees[i] \in Shown(d.callee)'
      BY <2>5, <2>6, NoneIsNoName DEF Shown
    <2> QED BY <2>3, <2>7 DEF Links
  <1>4. ASSUME Alone'[w] PROVE components' = {} /\ Links' = {}
    <2>1. call'[w] = ResetCall /\ ~disturbed'[w]
      BY <1>1, <1>4, CallKinds DEF Alone
    <2>2. Nodes' = {}
      BY <2>1 DEF AloneResetEmpties
    <2> QED BY <2>2 DEF Nodes, Links
  <1> QED BY <1>2, <1>3, <1>4 DEF I!Fulfilled

\* A step of a handler within its call.
LEMMA StepServes ==
    ASSUME HandlersOK, AnswersInv', NEW w \in Workers,
           pc[w] \notin {"idle", "done", "failed"}, UNCHANGED <<call, history>>,
           I!Change(RequestOf(call[w])),
           pc' = pc \/ \E s \in Steps \ {"idle"} : pc' = [pc EXCEPT ![w] = s],
           pc'[w] = "done" /\ call[w].kind \in {"component", "retrieve"}
              => call[w].component \in components'
    PROVE  I!Serve(w)
  <1>1. \A v \in Workers : (pc'[v] = "idle" <=> pc[v] = "idle")
    BY DEF HandlersOK
  <1>2. UNCHANGED <<Requested, Owes, Alone>>
    BY <1>1 DEF Requested, Owes, Alone, At, Possible, history
  <1>3. Outcome[w] = "pending" /\ Requested[w] = RequestOf(call[w])
    BY DEF Outcome, OutcomeAt, Requested, At, HandlersOK
  <1>4. \/ Outcome' = Outcome
        \/ Outcome' = [Outcome EXCEPT ![w] = "answered"] /\ pc'[w] = "done"
        \/ Outcome' = [Outcome EXCEPT ![w] = "failed"]
    <2>1. CASE pc' = pc
      BY <2>1 DEF Outcome
    <2>2. ASSUME NEW s \in Steps \ {"idle"}, pc' = [pc EXCEPT ![w] = s]
          PROVE  \/ Outcome' = Outcome
                 \/ Outcome' = [Outcome EXCEPT ![w] = "answered"] /\ pc'[w] = "done"
                 \/ Outcome' = [Outcome EXCEPT ![w] = "failed"]
      <3>1. pc'[w] = s /\ \A v \in Workers \ {w} : pc'[v] = pc[v]
        BY <2>2 DEF HandlersOK
      <3>2. Outcome' = [Outcome EXCEPT ![w] = OutcomeAt(s)]
        BY <3>1 DEF Outcome
      <3>3. OutcomeAt(s) = IF s = "done" THEN "answered" ELSE IF s = "failed" THEN "failed" ELSE "pending"
        BY <2>2 DEF OutcomeAt
      <3>4. s \notin {"done", "failed"} => Outcome' = Outcome
        BY <1>3, <3>2, <3>3 DEF Outcome
      <3> QED BY <3>1, <3>2, <3>3, <3>4
    <2> QED BY <2>1, <2>2
  <1>5. pc'[w] = "done" => I!Fulfilled(w)'
    BY AnswerFulfils DEF AnswersInv
  <1> QED BY <1>2, <1>3, <1>4, <1>5 DEF I!Serve

-----------------------------------------------------------------------------
(* SIG implements Interactions: the steps.                                 *)

\* A step that leaves the graph alone changes nothing there on behalf of a call.
LEMMA KeptChange ==
    ASSUME Kept, NEW c \in Calls
    PROVE  I!Change(RequestOf(c))
  <1>1. components' = components /\ Links' = Links
    BY DEF Kept, graph, Links, Shown, NamesOf
  <1> QED BY <1>1, RequestIs, CallKinds DEF I!Change, I!graph

LEMMA HandlerServes ==
    ASSUME AnswersInv, AnswersInv', NEW w \in Workers,
           \/ UpsertComponent(w) \/ RetrieveComponent(w)
           \/ MatchEndpoint(w) \/ CreateEndpoint(w) \/ Link(w)
           \/ TrashExposes(w) \/ TrashCaller(w) \/ TrashCallees(w) \/ TrashNodes(w)
           \/ TrashRefused(w) \/ EndpointError(w) \/ TrashError(w) \/ ReturnError(w)
    PROVE  I!Serve(w)
  <1> USE DEF At, Goto
  <1>0. HandlersOK /\ GraphOK /\ GraphOK'
    BY DEF AnswersInv
  <1>1. CASE UpsertComponent(w)
    <2>1. call[w] \in Calls /\ call[w].kind = "component"
      BY <1>0, <1>1 DEF UpsertComponent, HandlersOK
    <2>2. Links' = Links
      BY <1>1 DEF UpsertComponent, Links, Shown, NamesOf
    <2>3. I!Change(RequestOf(call[w]))
      BY <1>1, <2>1, <2>2, RequestIs DEF UpsertComponent, I!Change
    <2> QED BY <1>0, <1>1, <2>3, StepServes DEF UpsertComponent, Steps, HandlersOK
  <1>2. CASE RetrieveComponent(w)
    <2>1. call[w] \in Calls /\ Kept
      BY <1>0, <1>2 DEF RetrieveComponent, Kept, HandlersOK
    <2> QED BY <1>0, <1>2, <2>1, KeptChange, StepServes
            DEF RetrieveComponent, Steps, HandlersOK, Kept, graph
  <1>3. CASE MatchEndpoint(w) \/ EndpointError(w)
    <2>1. /\ call[w] \in Calls /\ Kept /\ pc[w] \in {"matchEndpoint", "createEndpoint"}
          /\ UNCHANGED <<call, history>>
          /\ AfterEndpoint(w) \/ EndpointFails(w) \/ pc' = [pc EXCEPT ![w] = "createEndpoint"]
      BY <1>0, <1>3 DEF MatchEndpoint, EndpointError, Kept, HandlersOK
    <2>2. \E s \in Steps \ {"idle", "done"} : pc' = [pc EXCEPT ![w] = s]
      BY <1>0, <2>1, Moved DEF Steps
    <2> QED BY <1>0, <2>1, <2>2, KeptChange, StepServes DEF HandlersOK
  <1>4. CASE CreateEndpoint(w)
    <2>1. /\ call[w] \in Calls /\ call[w].kind = "dependency"
          /\ pc[w] = "createEndpoint" /\ UNCHANGED <<call, history, components>>
          /\ AfterEndpoint(w) \/ EndpointFails(w)
      BY <1>0, <1>4 DEF CreateEndpoint, HandlersOK, DependencySteps
    <2>2. \E s \in Steps \ {"idle", "done"} : pc' = [pc EXCEPT ![w] = s]
      BY <1>0, <2>1, Moved DEF Steps
    <2>3. Kept \/ Exposed(w)
      <3>1. AfterEndpoint(w) => pc'[w] # "createEndpoint"
        BY <1>0, <2>1, Moved DEF HandlersOK
      <3> QED BY <1>4, <3>1 DEF CreateEndpoint, Kept, Exposed, graph
    <2>4. I!Change(RequestOf(call[w]))
      <3>1. CASE Kept
        BY <2>1, <3>1, KeptChange
      <3>2. CASE Exposed(w)
        BY <1>0, <2>1, <3>2, ExposedLinks, RequestIs DEF I!Change
      <3> QED BY <2>3, <3>1, <3>2
    <2> QED BY <1>0, <2>1, <2>2, <2>4, StepServes DEF HandlersOK
  <1>5. CASE Link(w)
    <2>1. call[w] \in Calls /\ call[w].kind = "dependency" /\ Joined(w) /\ components' = components
      BY <1>0, <1>5 DEF Link, Joined, HandlersOK, DependencySteps
    <2>2. I!Change(RequestOf(call[w]))
      BY <1>0, <2>1, JoinedLinks, RequestIs DEF I!Change
    <2> QED BY <1>0, <1>5, <2>1, <2>2, StepServes DEF Link, Steps
  <1>6. CASE TrashExposes(w) \/ TrashCaller(w) \/ TrashCallees(w) \/ TrashNodes(w)
    <2>1. pc[w] \in TrashSteps /\ Shrunk /\ UNCHANGED <<call, queue, merr, history>>
      BY <1>0, <1>6, Trashed DEF TrashNodes
    <2>2. call[w] \in Calls /\ call[w].kind = "reset"
      BY <1>0, <2>1 DEF HandlersOK, TrashSteps
    <2>3. I!Change(RequestOf(call[w]))
      BY <1>0, <2>1, <2>2, ShrunkLinks, RequestIs DEF I!Change, Shrunk
    <2>4. pc' = pc \/ \E s \in Steps \ {"idle"} : pc' = [pc EXCEPT ![w] = s]
      BY <1>6, AfterTrashIs DEF TrashExposes, TrashCaller, TrashCallees, TrashNodes, EndOfTrash, Steps
    <2> QED BY <1>0, <2>1, <2>2, <2>3, <2>4, StepServes DEF TrashSteps
  <1>7. CASE TrashRefused(w) \/ TrashError(w) \/ ReturnError(w)
    <2>1. /\ Kept /\ UNCHANGED <<call, history>> /\ pc[w] \notin {"idle", "done", "failed"}
          /\ \E s \in Steps \ {"idle", "done"} : pc' = [pc EXCEPT ![w] = s]
      BY <1>7, AfterTrashIs DEF TrashRefused, TrashError, ReturnError, Kept, Steps
    <2>2. call[w] \in Calls
      BY <1>0, <2>1 DEF HandlersOK
    <2> QED BY <1>0, <2>1, <2>2, KeptChange, StepServes DEF HandlersOK
  <1> QED BY <1>1, <1>2, <1>3, <1>4, <1>5, <1>6, <1>7

LEMMA RefinementStep == AnswersInv /\ AnswersInv' /\ [Next]_vars => [I!Next]_(I!vars)
  <1> SUFFICES ASSUME AnswersInv, AnswersInv', [Next]_vars PROVE I!Next \/ UNCHANGED I!vars
    OBVIOUS
  <1>0. HandlersOK /\ HandlersOK' /\ components \subseteq Components
    BY DEF AnswersInv, GraphOK
  <1>1. ASSUME NEW w \in Workers, NEW c \in Calls, Start(w, c) PROVE I!Next
    BY <1>0, <1>1, StartBegins DEF I!Next
  <1>2. ASSUME NEW w \in Workers, Proceed(w) \/ EndpointError(w) \/ TrashError(w) \/ ReturnError(w),
               ~Respond(w)
        PROVE  I!Next
    BY <1>2, HandlerServes DEF I!Next, Proceed
  <1>3. ASSUME NEW w \in Workers, Respond(w) PROVE I!Next
    <2>1. /\ pc[w] \in {"done", "failed"} /\ pc' = [pc EXCEPT ![w] = "idle"] /\ UNCHANGED graph
          /\ \A v \in Workers \ {w} : UNCHANGED <<pc[v], call[v], known[v], disturbed[v]>>
      BY <1>0, <1>3 DEF Respond, Goto, HandlersOK
    <2>2. pc'[w] = "idle"
      BY <1>0, <2>1 DEF HandlersOK
    <2>3. Outcome[w] \in {"answered", "failed"} /\ Outcome' = [Outcome EXCEPT ![w] = "none"]
      <3>1. OutcomeAt(pc[w]) \in {"answered", "failed"} /\ OutcomeAt(pc'[w]) = "none"
        BY <2>1, <2>2 DEF OutcomeAt
      <3>2. \A v \in Workers \ {w} : OutcomeAt(pc'[v]) = OutcomeAt(pc[v])
        BY <2>1
      <3> QED BY <2>2, <3>1, <3>2 DEF Outcome
    <2>4. /\ Requested' = [Requested EXCEPT ![w] = I!NoRequest]
          /\ Owes' = [Owes EXCEPT ![w] = {}]
          /\ Alone' = [Alone EXCEPT ![w] = FALSE]
      BY <2>1, <2>2 DEF Requested, Owes, Alone, Possible, At, NoRequest, I!NoRequest
    <2>5. UNCHANGED <<components, Links>>
      BY <2>1 DEF graph, Links, Shown, NamesOf
    <2>6. I!Return(w)
      BY <2>3, <2>4, <2>5 DEF I!Return, I!graph
    <2> QED BY <2>6 DEF I!Next
  <1>4. CASE Crash
    <2>1. \A w \in Workers : pc'[w] = "idle"
      BY <1>4 DEF Crash
    <2>2. I!NoCalls'
      BY <2>1 DEF I!NoCalls, Outcome, OutcomeAt, Requested, Owes, Alone, At, NoRequest, I!NoRequest
    <2>3. UNCHANGED <<components, Links>>
      BY <1>4 DEF Crash, graph, Links, Shown, NamesOf
    <2> QED BY <2>2, <2>3 DEF I!Next, I!Lose, I!graph
  <1>5. CASE UNCHANGED vars
    BY <1>5 DEF vars, graph, handler, history, I!vars, I!graph, I!calls, Links, Shown, NamesOf,
                Outcome, Requested, Owes, Possible, Alone, At
  <1> QED BY <1>1, <1>2, <1>3, <1>4, <1>5 DEF Next

\* Every transaction of SIG does what a step of Interactions may do, or nothing
\* that a client sees: for any calls, handlers and size of batches.
THEOREM Implementation == Spec => ImplementsInteractions
  <1>1. Init => I!Init
    <2> SUFFICES ASSUME Init PROVE I!Init
      OBVIOUS
    <2>1. I!NoCalls
      BY DEF Init, I!NoCalls, Outcome, OutcomeAt, Requested, Owes, Alone, At, NoRequest, I!NoRequest
    <2>2. Links = {}
      BY DEF Init, Links
    <2> QED BY <2>1, <2>2 DEF Init, I!Init
  <1>2. AnswersInv /\ [Next]_vars => AnswersInv'
    BY HandlersStep, GraphStep, BesideStep, LinkStep, AnswerStep, EmptyStep DEF AnswersInv, GraphOK
  <1>3. Init => AnswersInv
    BY SafeInit, AnswersInit DEF AnswersInv
  <1> QED BY <1>1, <1>2, <1>3, RefinementStep, PTL DEF Spec, ImplementsInteractions, I!Spec

=============================================================================
