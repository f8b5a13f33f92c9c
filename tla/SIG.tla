-------------------------------- MODULE SIG --------------------------------
(***************************************************************************)
(* The SIG service: the components of the system under observation, the    *)
(* endpoints that expose them and the dependencies between endpoints.      *)
(*                                                                         *)
(* Calls are goroutines of the gRPC server and each of their transactions  *)
(* is a step, except that the search for an endpoint and its creation are  *)
(* two: no constraint and no lock orders them with those of other calls.   *)
(* Any transaction may fail, and the server may be killed.  What Alg4's    *)
(* relationships do to a Reset is in CDN, and the same here.               *)
(***************************************************************************)
EXTENDS Bulks, Sequences

CONSTANTS
    Components,     \* names with a version
    Names,          \* names of endpoints
    EndpointNodes,  \* bound: Endpoint nodes the database may ever hold
    Workers,        \* goroutines that serve calls
    Calls,          \* the calls clients make, and make again
    None

EndpointNames == Components \X Names

CreateComponentCall(c) == [kind |-> "component", component |-> c]
RetrieveComponentCall(c) == [kind |-> "retrieve", component |-> c]
DependencyCall(caller, callees) == [kind |-> "dependency", caller |-> caller, callees |-> callees]
ResetCall == [kind |-> "reset"]
NoCall == [kind |-> "none"]

ASSUME CallsAssumption ==
    /\ \A c \in Calls :
          \/ \E x \in Components : c \in {CreateComponentCall(x), RetrieveComponentCall(x)}
          \/ /\ c.kind = "dependency" /\ c = DependencyCall(c.caller, c.callees)
             /\ c.caller \in EndpointNames /\ c.callees \in Seq(EndpointNames)
          \/ c = ResetCall
    /\ None \notin Components \cup EndpointNodes

VARIABLES
    components,     \* the Component nodes
    endpoints,      \* the Endpoint nodes and the component each exposes
    dependencies,   \* the InterComponentDependency nodes, CALLER and CALLEES
    pc, call,       \* per handler: its next transaction, its call
    queue,          \* per handler: the endpoints left to upsert, the caller first
    merr,           \* per handler: an error is collected
    known,          \* history, per handler: the components when its call came
    disturbed,      \* history, per handler: a call ran beside it that matters
    raced           \* history: two dependencies were created at the same time

graph == <<components, endpoints, dependencies>>
handler == <<pc, call, queue, merr>>
history == <<known, disturbed, raced>>
vars == <<graph, handler, history>>

Endpoint == [node : EndpointNodes, name : Names, component : Components \cup {None}]

\* MERGE makes one node for each pair of endpoints.  Nodes that a Reset has
\* taken the relationships of are one here.
Dependency == [caller : EndpointNodes \cup {None}, callee : EndpointNodes \cup {None}]

At(w, step) == pc[w] = step
Goto(w, step) == pc' = [pc EXCEPT ![w] = step]
Running == {w \in Workers : pc[w] # "idle"}
RunningKinds == {call[v].kind : v \in Running}

\* The nodes that an endpoint's name and component match.
NodesNamed(n) == {e.node : e \in {x \in endpoints : x.component = n[1] /\ x.name = n[2]}}

\* What the properties ask of the calls beside a call of kind k: a dependency
\* is disturbed by a Reset, a Reset by any other call.
Disturbs(other, k) == k = "reset" \/ (k = "dependency" /\ other = "reset")

\* A call of kind k begins: the calls that run have it beside them.
Beside(k) == [v \in Workers |-> disturbed[v] \/ (v \in Running /\ Disturbs(k, call[v].kind))]

Start(w, c) ==
    /\ At(w, "idle")
    /\ call' = [call EXCEPT ![w] = c]
    /\ Goto(w, CASE c.kind = "component"  -> "upsertComponent"
                 [] c.kind = "retrieve"   -> "retrieve"
                 [] c.kind = "dependency" -> "matchEndpoint"
                 [] c.kind = "reset"      -> "trashExposes")
    /\ queue' = [queue EXCEPT ![w] = IF c.kind = "dependency" THEN <<c.caller>> \o c.callees
                                     ELSE <<>>]
    /\ known' = [known EXCEPT ![w] = IF c.kind = "dependency" THEN components ELSE {}]
    /\ disturbed' = [Beside(c.kind) EXCEPT ![w] = \E k \in RunningKinds : Disturbs(k, c.kind)]
    /\ raced' = (raced \/ (c.kind = "dependency" /\ "dependency" \in RunningKinds))
    /\ UNCHANGED <<graph, merr>>

-----------------------------------------------------------------------------
(* CreateComponent and RetrieveComponent.                                  *)

\* The constraint on components makes the check and the MERGE one.
UpsertComponent(w) ==
    /\ At(w, "upsertComponent")
    /\ components' = components \cup {call[w].component}
    /\ Goto(w, "retrieve")
    /\ UNCHANGED <<endpoints, dependencies, call, queue, merr, history>>

\* Fault: a component is returned whether or not it is there.
RetrieveComponentRegardless(w) ==
    /\ At(w, "retrieve")
    /\ Goto(w, "done")
    /\ UNCHANGED <<graph, call, queue, merr, history>>

\* An unknown component is an error; a Reset may have come after the upsert.
RetrieveComponent(w) ==
    /\ At(w, "retrieve")
    /\ Goto(w, IF call[w].component \in components THEN "done" ELSE "failed")
    /\ UNCHANGED <<graph, call, queue, merr, history>>

-----------------------------------------------------------------------------
(* CreateInterComponentDependency: the caller, the callees, the links.     *)

IsCaller(w) == Len(queue[w]) > Len(call[w].callees)

\* After an endpoint: the next one, then the dependencies.
AfterEndpoint(w) ==
    /\ queue' = [queue EXCEPT ![w] = Tail(@)]
    /\ Goto(w, IF Len(queue[w]) = 1 THEN "link" ELSE "matchEndpoint")

\* An endpoint that failed: the caller ends the call, the callees are best effort.
EndpointFails(w) ==
    IF IsCaller(w)
    THEN Goto(w, "failed") /\ UNCHANGED <<queue, merr>>
    ELSE AfterEndpoint(w) /\ merr' = [merr EXCEPT ![w] = TRUE]

\* Fault: the endpoint is created whether or not there is one.
MatchEndpointInVain(w) ==
    LET n == Head(queue[w])
    IN  /\ At(w, "matchEndpoint")
        /\ IF n[1] \notin components THEN AfterEndpoint(w)
           ELSE Goto(w, "createEndpoint") /\ UNCHANGED queue
        /\ UNCHANGED <<graph, call, merr, history>>

\* upsertEndpoint, the matches: without the component there is no row, and
\* nothing to do and no error.
MatchEndpoint(w) ==
    LET n == Head(queue[w])
    IN  /\ At(w, "matchEndpoint")
        /\ IF n[1] \notin components \/ NodesNamed(n) # {}
           THEN AfterEndpoint(w)
           ELSE Goto(w, "createEndpoint") /\ UNCHANGED queue
        /\ UNCHANGED <<graph, call, merr, history>>

FreeNodes == EndpointNodes \ {e.node : e \in endpoints}

\* Fault: the endpoint is created although its component is gone.
CreateEndpointRegardless(w) ==
    LET n == Head(queue[w])
    IN  /\ At(w, "createEndpoint")
        /\ \E x \in FreeNodes : endpoints' = endpoints \cup
              {[node |-> x, component |-> n[1], name |-> n[2]]}
        /\ AfterEndpoint(w)
        /\ UNCHANGED <<components, dependencies, call, merr, history>>

\* upsertEndpoint, the creation.  If a Reset has taken the component, the
\* relationship has no end and the transaction is undone.
CreateEndpoint(w) ==
    LET n == Head(queue[w])
    IN  /\ At(w, "createEndpoint")
        /\ IF n[1] \in components
           THEN /\ \E x \in FreeNodes : endpoints' = endpoints \cup
                      {[node |-> x, component |-> n[1], name |-> n[2]]}
                /\ AfterEndpoint(w)
                /\ UNCHANGED merr
           ELSE EndpointFails(w) /\ UNCHANGED endpoints
        /\ UNCHANGED <<components, dependencies, call, history>>

\* Fault: the callees are matched by their names alone.
CalleesByName(w) ==
    {e.node : e \in {x \in endpoints : \E i \in DOMAIN call[w].callees :
                        x.name = call[w].callees[i][2]}}

CalleesOf(w) == UNION {NodesNamed(call[w].callees[i]) : i \in DOMAIN call[w].callees}

\* Fault: the errors of the callees are dropped.
LinkRegardless(w) ==
    /\ At(w, "link")
    /\ dependencies' = dependencies
         \cup [caller : NodesNamed(call[w].caller), callee : CalleesOf(w)]
    /\ Goto(w, "done")
    /\ UNCHANGED <<components, endpoints, call, queue, merr, history>>

\* upsertInterComponentDependencies: every endpoint that matches the caller is
\* linked to every one that matches a callee; MERGE locks the two endpoints.
Link(w) ==
    /\ At(w, "link")
    /\ dependencies' = dependencies
         \cup [caller : NodesNamed(call[w].caller), callee : CalleesOf(w)]
    /\ Goto(w, IF merr[w] THEN "failed" ELSE "done")
    /\ UNCHANGED <<components, endpoints, call, queue, merr, history>>

-----------------------------------------------------------------------------
(* Reset: four Trash calls, all of which run whatever the others return.   *)

AfterTrash(step) == CASE step = "trashExposes" -> "trashCaller"
                      [] step = "trashCaller"  -> "trashCallees"
                      [] step = "trashCallees" -> "trashNodes"

EndOfTrash(w, D) == IF D = {} THEN Goto(w, AfterTrash(pc[w])) ELSE UNCHANGED pc

TrashExposes(w) ==
    /\ At(w, "trashExposes")
    /\ \E D \in Batches({e \in endpoints : e.component # None}) :
          /\ endpoints' = (endpoints \ D) \cup {[e EXCEPT !.component = None] : e \in D}
          /\ EndOfTrash(w, D)
    /\ UNCHANGED <<components, dependencies, call, queue, merr, history>>

TrashCaller(w) ==
    /\ At(w, "trashCaller")
    /\ \E D \in Batches({d \in dependencies : d.caller # None}) :
          /\ dependencies' = (dependencies \ D) \cup {[d EXCEPT !.caller = None] : d \in D}
          /\ EndOfTrash(w, D)
    /\ UNCHANGED <<components, endpoints, call, queue, merr, history>>

TrashCallees(w) ==
    /\ At(w, "trashCallees")
    /\ \E D \in Batches({d \in dependencies : d.callee # None}) :
          /\ dependencies' = (dependencies \ D) \cup {[d EXCEPT !.callee = None] : d \in D}
          /\ EndOfTrash(w, D)
    /\ UNCHANGED <<components, endpoints, call, queue, merr, history>>

\* The nodes that a relationship touches, and those that none does.
Linked == {d.caller : d \in dependencies} \cup {d.callee : d \in dependencies}
Touched == {c \in components : \E e \in endpoints : e.component = c}
           \cup {e \in endpoints : e.component # None \/ e.node \in Linked}
           \cup {d \in dependencies : d.caller # None \/ d.callee # None}
Nodes == components \cup endpoints \cup dependencies

\* Fault: a single transaction instead of the loop.
TrashNodesOnce(w) ==
    /\ At(w, "trashNodes")
    /\ \E D \in Batches(Nodes) :
          /\ D \cap Touched = {}
          /\ components' = components \ D
          /\ endpoints' = endpoints \ D
          /\ dependencies' = dependencies \ D
    /\ Goto(w, IF merr[w] THEN "failed" ELSE "done")
    /\ UNCHANGED <<call, queue, merr, history>>

TrashNodes(w) ==
    /\ At(w, "trashNodes")
    /\ \E D \in Batches(Nodes) :
          /\ D \cap Touched = {}
          /\ components' = components \ D
          /\ endpoints' = endpoints \ D
          /\ dependencies' = dependencies \ D
          /\ IF D # {} THEN UNCHANGED pc ELSE Goto(w, IF merr[w] THEN "failed" ELSE "done")
    /\ UNCHANGED <<call, queue, merr, history>>

\* DELETE refuses a node that a relationship touches: the transaction fails.
TrashRefused(w) ==
    /\ At(w, "trashNodes")
    /\ \E D \in Batches(Nodes) : D \cap Touched # {}
    /\ Goto(w, "failed")
    /\ UNCHANGED <<graph, call, queue, merr, history>>

-----------------------------------------------------------------------------
(* Answers, errors and crashes.                                            *)

Respond(w) ==
    /\ pc[w] \in {"done", "failed"}
    /\ Goto(w, "idle")
    /\ call' = [call EXCEPT ![w] = NoCall]
    /\ queue' = [queue EXCEPT ![w] = <<>>]
    /\ merr' = [merr EXCEPT ![w] = FALSE]
    /\ known' = [known EXCEPT ![w] = {}]
    /\ disturbed' = [disturbed EXCEPT ![w] = FALSE]
    /\ UNCHANGED <<graph, raced>>

EndpointError(w) ==
    /\ pc[w] \in {"matchEndpoint", "createEndpoint"}
    /\ EndpointFails(w)
    /\ UNCHANGED <<graph, call, history>>

TrashError(w) ==
    /\ pc[w] \in {"trashExposes", "trashCaller", "trashCallees"}
    /\ Goto(w, AfterTrash(pc[w]))
    /\ merr' = [merr EXCEPT ![w] = TRUE]
    /\ UNCHANGED <<graph, call, queue, history>>

ReturnError(w) ==
    /\ pc[w] \in {"upsertComponent", "retrieve", "link", "trashNodes"}
    /\ Goto(w, "failed")
    /\ UNCHANGED <<graph, call, queue, merr, history>>

Crash ==
    /\ Running # {}
    /\ pc' = [w \in Workers |-> "idle"]
    /\ call' = [w \in Workers |-> NoCall]
    /\ queue' = [w \in Workers |-> <<>>]
    /\ merr' = [w \in Workers |-> FALSE]
    /\ known' = [w \in Workers |-> {}]
    /\ disturbed' = [w \in Workers |-> FALSE]
    /\ UNCHANGED <<graph, raced>>

Proceed(w) ==
    \/ UpsertComponent(w) \/ RetrieveComponent(w)
    \/ MatchEndpoint(w) \/ CreateEndpoint(w) \/ Link(w)
    \/ TrashExposes(w) \/ TrashCaller(w) \/ TrashCallees(w) \/ TrashNodes(w)
    \/ TrashRefused(w) \/ Respond(w)

Init ==
    /\ components = {} /\ endpoints = {} /\ dependencies = {}
    /\ pc = [w \in Workers |-> "idle"]
    /\ call = [w \in Workers |-> NoCall]
    /\ queue = [w \in Workers |-> <<>>]
    /\ merr = [w \in Workers |-> FALSE]
    /\ known = [w \in Workers |-> {}]
    /\ disturbed = [w \in Workers |-> FALSE]
    /\ raced = FALSE

Next ==
    \/ \E w \in Workers : \/ \E c \in Calls : Start(w, c)
                          \/ Proceed(w)
                          \/ EndpointError(w) \/ TrashError(w) \/ ReturnError(w)
    \/ Crash

Spec == Init /\ [][Next]_vars
-----------------------------------------------------------------------------
(* Properties.                                                             *)

Steps == {"idle", "upsertComponent", "retrieve", "matchEndpoint", "createEndpoint", "link",
          "trashExposes", "trashCaller", "trashCallees", "trashNodes", "done", "failed"}

\* Nodes and relationships of the labels the queries name, no relationship
\* without its ends, and handlers at a transaction of their own call.
TypeOK ==
    /\ components \subseteq Components
    /\ endpoints \subseteq Endpoint
    /\ {e.component : e \in endpoints} \subseteq components \cup {None}
    /\ dependencies \subseteq Dependency
    /\ Linked \subseteq {e.node : e \in endpoints} \cup {None}
    /\ pc \in [Workers -> Steps]
    /\ call \in [Workers -> Calls \cup {NoCall}]
    /\ \A w \in Workers : queue[w] # <<>> => call[w].kind = "dependency"
    /\ \A w \in Workers : pc[w] \in {"matchEndpoint", "createEndpoint"} => queue[w] # <<>>
    /\ merr \in [Workers -> BOOLEAN]

NamesOf(n) == {<<e.component, e.name>> : e \in {x \in endpoints : x.node = n}}

\* A dependency joins two endpoints only if a client has named the two, in one
\* request, for the components they expose: endpoints of the same name are
\* told apart, whatever exists, races or is deleted half-way.
LinkedAsNamed ==
    \A d \in dependencies : \A f \in NamesOf(d.caller), t \in NamesOf(d.callee) :
        f[1] # None /\ t[1] # None =>
            \E c \in Calls : /\ c.kind = "dependency"
                             /\ c.caller = f
                             /\ \E i \in DOMAIN c.callees : c.callees[i] = t

\* CreateInterComponentDependency answers without an error although components
\* may be missing and endpoints may be created by others at the same time: for
\* the components that were there when it came, and no Reset beside it, each
\* callee is linked to the caller.
AnsweredIsLinked ==
    \A w \in Workers :
        pc[w] = "done" /\ call[w].kind = "dependency" /\ ~disturbed[w] =>
            \A i \in DOMAIN call[w].callees :
                {call[w].caller[1], call[w].callees[i][1]} \subseteq known[w] =>
                    \E d \in dependencies : /\ call[w].caller \in NamesOf(d.caller)
                                            /\ call[w].callees[i] \in NamesOf(d.callee)

\* Nothing constrains endpoints, yet calls that are repeated after an error, a
\* crash or a Reset half-way never make two of one name on a component: only
\* two calls at the same time can.
UniqueUnlessRaced ==
    raced \/ \A e, f \in endpoints :
        e.component = f.component /\ e.name = f.name /\ e.component # None => e = f

\* A Reset that was alone, and answered without an error, has left nothing.
AloneResetEmpties ==
    \A w \in Workers : pc[w] = "done" /\ call[w] = ResetCall /\ ~disturbed[w] => Nodes = {}

=============================================================================
