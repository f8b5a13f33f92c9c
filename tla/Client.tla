------------------------------- MODULE Client -------------------------------
(***************************************************************************)
(* Commands of godepgraph-cli and what they set going: "cdn create" has    *)
(* the CDN service analyse a Go module, "rdg create" (by several clients)  *)
(* the RDG service read stacks, and "sig create" analyses traces itself,   *)
(* then has the SIG service store them, one call after the other.  A       *)
(* command that fails may be run again.                                    *)
(***************************************************************************)
EXTENDS CallGraphs, StateFiles, TraceFiles, Bulks, Measures

CONSTANTS
    Workers,        \* as in RDG
    EndpointNodes,  \* as in SIG
    Runs            \* bound: the times "sig create" is run

VARIABLES
    command,
    todo, dir, roots, stack, heap, symbols, provided, status,   \* Analyser
    assets, rdgPc, rdgCall, rdgQueue, rdgDisturbed, rdgRaced,   \* RDG
    parent, left, span, frames, services, interactions, notFound, state,    \* Traces
    components, endpoints, dependencies,                        \* SIG
    pc, call, queue, merr, known, disturbed, raced,
    registered,     \* "sig create": the components it has asked for
    linked,         \* the interactions it has asked for
    outcome,        \* of "sig create"
    runs            \* the times it was run

cdn == <<todo, dir, roots, stack, heap, symbols, provided, status>>
rdg == <<assets, rdgPc, rdgCall, rdgQueue, rdgDisturbed, rdgRaced>>
traces == <<parent, left, span, frames, services, interactions, notFound, state>>
sig == <<components, endpoints, dependencies, pc, call, queue, merr, known, disturbed, raced>>
creation == <<registered, linked, outcome, runs>>
vars == <<command, cdn, rdg, traces, sig, creation>>

A == INSTANCE Analyser
R == INSTANCE RDG WITH pc <- rdgPc, call <- rdgCall, queue <- rdgQueue,
                       disturbed <- rdgDisturbed, raced <- rdgRaced
T == INSTANCE Traces WITH components <- services

Versions == {Version[s] : s \in Spans}
ComponentNames == T!Services \X Versions
EndpointNames == {Unknown} \cup {Caller[s] : s \in Spans} \cup {Name[s] : s \in Spans}
NamedEndpoints == ComponentNames \X EndpointNames

\* What the command asks of SIG: an interaction has one callee.
SigCalls == [kind : {"component"}, component : ComponentNames]
            \cup [kind : {"dependency"}, caller : NamedEndpoints, callees : [{1} -> NamedEndpoints]]

S == INSTANCE SIG WITH
        Components <- ComponentNames,
        Names <- EndpointNames,
        Workers <- {"server"},
        Calls <- SigCalls,
        None <- Absent

\* A component is a name with a version, as nothing else is.
ASSUME ClientAssumption ==
    /\ Absent \notin ComponentNames \cup EndpointNodes
    /\ Runs \in Nat \ {0}

-----------------------------------------------------------------------------
(* sig create: the components, then the interactions of each.              *)

Observed == {v \in T!Services : services[v] # Absent}
Component(v) == <<v, services[v]>>

ComponentOf(v) == S!CreateComponentCall(Component(v))
DependencyOf(i) == S!DependencyCall(<<Component(i.caller), i.from>>,
                                    <<<<Component(i.to), i.name>>>>)

Calling == state = "analysed" /\ outcome = "running" /\ S!At("server", "idle")

\* The request is answered when the handler is idle again.
Request(c) ==
    /\ Calling
    /\ S!Start("server", c)
    /\ UNCHANGED <<command, cdn, rdg, traces, outcome, runs>>

CreateComponent ==
    \E v \in Observed \ registered :
        /\ Request(ComponentOf(v))
        /\ registered' = registered \cup {v}
        /\ UNCHANGED linked

\* Fault: a component and its interactions before the next component.
CreateDependencyEarly ==
    \E i \in interactions \ linked :
        /\ i.caller \in registered
        /\ Request(DependencyOf(i))
        /\ linked' = linked \cup {i}
        /\ UNCHANGED registered

\* The interactions of a component are in the order they were found in, which
\* depends on the order of the spans: any may be the next.
CreateDependency ==
    /\ Observed \subseteq registered
    /\ \E i \in interactions \ linked :
          /\ \A c \in {j.caller : j \in linked} \ {i.caller} :
                {j \in interactions : j.caller = c} \subseteq linked
          /\ Request(DependencyOf(i))
          /\ linked' = linked \cup {i}
    /\ UNCHANGED registered

\* The nodes that are taken are the first that are free: they differ in nothing.
FirstIsTaken ==
    \A e \in endpoints' \ endpoints : \A x \in EndpointNodes :
        x < e.node => \E f \in endpoints : f.node = x

\* The server goes on with the call; an error ends the command.
Serve ==
    /\ outcome = "running"
    /\ \/ S!UpsertComponent("server") \/ S!RetrieveComponent("server")
       \/ S!MatchEndpoint("server") \/ S!CreateEndpoint("server") \/ S!Link("server")
       \/ S!EndpointError("server") \/ S!ReturnError("server")
       \/ S!Respond("server")
    /\ FirstIsTaken
    /\ outcome' = IF S!At("server", "failed") THEN "failed" ELSE outcome
    /\ UNCHANGED <<command, cdn, rdg, traces, registered, linked, runs>>

\* The server is killed, and the client does not know what it has done.
ServerDies ==
    /\ outcome = "running"
    /\ S!Crash
    /\ outcome' = "failed"
    /\ UNCHANGED <<command, cdn, rdg, traces, registered, linked, runs>>

Created ==
    /\ Calling
    /\ Observed \subseteq registered /\ interactions \subseteq linked
    /\ outcome' = "created"
    /\ UNCHANGED <<command, cdn, rdg, traces, sig, registered, linked, runs>>

Failed == outcome = "failed" \/ state \in {"failed", "crashed"}

\* Fault: what an earlier run has sent is not sent again.
RunAgainRemembering ==
    /\ command = "sigCreate" /\ Failed /\ runs < Runs
    /\ left' = Spans /\ span' = Absent /\ frames' = <<>>
    /\ services' = [v \in T!Services |-> Absent]
    /\ interactions' = {} /\ notFound' = {} /\ state' = "running"
    /\ outcome' = "running" /\ runs' = runs + 1
    /\ UNCHANGED <<command, cdn, rdg, parent, sig, registered, linked>>

\* The command is a process of its own each time, and forgets.
RunAgain ==
    /\ command = "sigCreate" /\ Failed /\ runs < Runs
    /\ left' = Spans /\ span' = Absent /\ frames' = <<>>
    /\ services' = [v \in T!Services |-> Absent]
    /\ interactions' = {} /\ notFound' = {} /\ state' = "running"
    /\ registered' = {} /\ linked' = {} /\ outcome' = "running" /\ runs' = runs + 1
    /\ UNCHANGED <<command, cdn, rdg, parent, sig>>

-----------------------------------------------------------------------------
Init ==
    /\ command \in {"cdnCreate", "rdgCreate", "sigCreate"}
    /\ A!Init /\ R!Init /\ S!Init
    /\ T!Init /\ (command # "sigCreate" => parent = CHOOSE f \in Families : TRUE)
    /\ registered = {} /\ linked = {} /\ outcome = "running" /\ runs = 1

CdnCreate ==
    /\ command = "cdnCreate" /\ A!Next
    /\ UNCHANGED <<command, rdg, traces, sig, creation>>

RdgCreate ==
    /\ command = "rdgCreate" /\ R!Next
    /\ UNCHANGED <<command, cdn, traces, sig, creation>>

Analyse ==
    /\ command = "sigCreate" /\ T!Next
    /\ UNCHANGED <<command, cdn, rdg, sig, creation>>

Next ==
    \/ CdnCreate \/ RdgCreate
    \/ Analyse \/ CreateComponent \/ CreateDependency \/ Serve \/ ServerDies
    \/ Created \/ RunAgain

\* The processes run on; a call is answered or fails.
Spec == Init /\ [][Next]_vars /\ WF_vars(Next)
-----------------------------------------------------------------------------
(* Properties: those of the parts, under the names they have there, and    *)
(* those of the whole.                                                     *)

CalleesAreRegistered == A!CalleesAreRegistered
RecursionIsBounded == A!RecursionIsBounded
DependenciesAreOfOneGraph == A!DependenciesAreOfOneGraph
ExportedOnce == A!ExportedOnce
UniqueUnlessRaced == R!UniqueUnlessRaced
AnsweredStackIsStored == R!AnsweredStackIsStored
AloneResetEmpties == R!AloneResetEmpties
CallerIsOfItsService == T!CallerIsOfItsService
ObservedOnce == T!ObservedOnce
OverflowsOnlyOnCycles == T!OverflowsOnlyOnCycles

TypeOK ==
    /\ A!TypeOK /\ R!TypeOK /\ T!TypeOK /\ S!TypeOK
    /\ registered \subseteq Observed /\ linked \subseteq interactions
    /\ outcome \in {"running", "created", "failed"}
    /\ runs \in 1..Runs

\* The SIG service skips an endpoint whose component it does not know, without
\* an error: yet when "sig create" ends without one, also after runs that
\* failed half-way, every interaction is a dependency between the endpoints of
\* the versions that this run has registered.
ObservedIsLinked ==
    outcome = "created" => \A i \in interactions : \E d \in dependencies :
        /\ <<Component(i.caller), i.from>> \in S!NamesOf(d.caller)
        /\ <<Component(i.to), i.name>> \in S!NamesOf(d.callee)

\* Functions and spans may form cycles, and calls may fail: an analysis of a Go
\* module ends, and so does every run of "sig create".
Running == CASE command = "cdnCreate" -> status = "running"
             [] command = "rdgCreate" -> FALSE
             [] command = "sigCreate" -> outcome = "running" /\ ~Failed
CommandsEnd == Running ~> ~Running

\* What is left of "sig create": runs, the analysis or the creation, spans,
\* frames of the search in hand, components, interactions, steps of the call.
Phase == IF Failed \/ outcome # "running" THEN 0 ELSE IF state = "running" THEN 2 ELSE 1
SearchLeft == IF span = Absent THEN 0 ELSE StackLimit + 1 - Len(frames)
CallLeft == LET step == pc["server"]
                twice == 2 * Len(queue["server"])
            IN  CASE step = "upsertComponent"      -> 3
                  [] step \in {"retrieve", "link"} -> 2
                  [] step \in {"done", "failed"}   -> 1
                  [] step = "matchEndpoint"        -> twice + 2
                  [] step = "createEndpoint"       -> twice + 1
                  [] OTHER                         -> 0
Measure == <<Runs - runs, Phase, Cardinality(left), SearchLeft, Cardinality(Observed \ registered),
             Cardinality(interactions \ linked), CallLeft>>

\* Why they end, whatever the graphs, the traces and the errors are: each step
\* of an analysis, and each of "sig create" and of the server on its behalf,
\* leaves less to do.  Functions that are registered again, searches that go
\* round in circles and failed runs never set a command back.
CommandsAdvance ==
    [][/\ command = "cdnCreate" => Below(A!Measure', A!Measure)
       /\ command = "sigCreate" => Below(Measure', Measure)]_vars

=============================================================================
