------------------------------- MODULE Traces -------------------------------
(***************************************************************************)
(* The analysis of traces by godepgraph-cli: each span whose parent is of  *)
(* another service is an interaction, from the function that made the call *)
(* to the service that emitted the span.  The function is looked for among *)
(* the spans above the parent, by recursion.  Go ranges over the traces,   *)
(* and over the spans of each, in any order.                               *)
(***************************************************************************)
EXTENDS TraceFiles, Sequences

VARIABLES
    parent,         \* per span: its ParentSpanID
    left,           \* the spans the loop has yet to visit
    span, frames,   \* whose caller is looked for, and the frames of getFrom
    components,     \* per service: the version it is registered with
    interactions,   \* of all components
    notFound,       \* per trace: the spans reported as missing
    state

vars == <<parent, left, span, frames, components, interactions, notFound, state>>

Services == {Service[s] : s \in Spans}
TracesOf(S) == {TraceOf[s] : s \in S}

\* The search is in the trace of the span only.
InTrace(s, id) == id \in Spans /\ TraceOf[id] = TraceOf[s]

\* The first span of a service registers it, with the version it has there.
Registered(S) ==
    [v \in Services |->
        IF components[v] = Absent /\ v \in {Service[s] : s \in S}
        THEN Version[CHOOSE s \in S : Service[s] = v] ELSE components[v]]

\* A trace is done before the next one begins.
Visits(s) ==
    /\ state = "running" /\ span = Absent
    /\ s \in left
    /\ TracesOf(left) \cap TracesOf(Spans \ left) \subseteq {TraceOf[s]}
    /\ left' = left \ {s}

\* A root is no interaction, nor is a call within a service.
VisitLocal(s) ==
    /\ Visits(s)
    /\ \/ parent[s] = Absent
       \/ InTrace(s, parent[s]) /\ Service[parent[s]] = Service[s]
    /\ components' = Registered({s})
    /\ UNCHANGED <<parent, span, frames, interactions, notFound, state>>

\* Fault: the rest of the trace is left.
BreakAtOrphan(s) ==
    /\ state = "running" /\ span = Absent /\ s \in left
    /\ parent[s] # Absent /\ ~InTrace(s, parent[s])
    /\ left' = {t \in left : TraceOf[t] # TraceOf[s]}
    /\ components' = Registered({s})
    /\ notFound' = notFound \cup {<<TraceOf[s], parent[s]>>}
    /\ UNCHANGED <<parent, span, frames, interactions, state>>

\* The parent is not in the dump: the interaction is lost, and said to be.
VisitOrphan(s) ==
    /\ Visits(s)
    /\ parent[s] # Absent /\ ~InTrace(s, parent[s])
    /\ components' = Registered({s})
    /\ notFound' = notFound \cup {<<TraceOf[s], parent[s]>>}
    /\ UNCHANGED <<parent, span, frames, interactions, state>>

\* The parent is of another service, which is registered too: getFrom is called.
VisitCallee(s) ==
    /\ Visits(s)
    /\ parent[s] # Absent /\ InTrace(s, parent[s]) /\ Service[parent[s]] # Service[s]
    /\ components' = Registered({s, parent[s]})
    /\ span' = s
    /\ frames' = <<parent[s]>>
    /\ UNCHANGED <<parent, interactions, notFound, state>>

-----------------------------------------------------------------------------
(* getFrom.                                                                *)

Here == frames[Len(frames)]
Above == parent[Here]

\* The interaction has the name its parent gave the call, if that is an RPC.
Interaction(s, from) ==
    [span |-> s, caller |-> Service[parent[s]], from |-> from, to |-> Service[s],
     name |-> IF parent[s] \in Rpc THEN Name[parent[s]] ELSE Name[s]]

Answer(from) ==
    /\ interactions' = interactions \cup {Interaction(span, from)}
    /\ span' = Absent
    /\ frames' = <<>>
    /\ UNCHANGED <<parent, left, components, state>>

\* A root, or another call on the way.
NoCallerFound ==
    /\ span # Absent /\ state = "running"
    /\ Above = Absent \/ (InTrace(span, Above) /\ Above \in Rpc)
    /\ Answer(Unknown)
    /\ UNCHANGED notFound

\* The span reported is the parent the search began with, which is there.
ParentNotFound ==
    /\ span # Absent /\ state = "running"
    /\ Above # Absent /\ ~InTrace(span, Above)
    /\ Answer(Unknown)
    /\ notFound' = notFound \cup {<<TraceOf[span], parent[span]>>}

\* Fault: the attribute is looked for before the other call is.
FoundBeyond ==
    /\ span # Absent /\ state = "running"
    /\ InTrace(span, Above) /\ Caller[Above] # Absent
    /\ Answer(Caller[Above])
    /\ UNCHANGED notFound

Found ==
    /\ span # Absent /\ state = "running"
    /\ InTrace(span, Above) /\ Above \notin Rpc /\ Caller[Above] # Absent
    /\ Answer(Caller[Above])
    /\ UNCHANGED notFound

Deeper ==
    /\ span # Absent /\ state = "running"
    /\ InTrace(span, Above) /\ Above \notin Rpc /\ Caller[Above] = Absent

\* Faults: the search stays where it is; it goes on without a frame of its own.
ClimbNowhere ==
    /\ Deeper /\ Len(frames) < StackLimit
    /\ frames' = Append(frames, Here)
    /\ UNCHANGED <<parent, left, span, components, interactions, notFound, state>>
ClimbWithoutFrame ==
    /\ Deeper /\ Len(frames) < StackLimit
    /\ frames' = <<Above>>
    /\ UNCHANGED <<parent, left, span, components, interactions, notFound, state>>

Climb ==
    /\ Deeper /\ Len(frames) < StackLimit
    /\ frames' = Append(frames, Above)
    /\ UNCHANGED <<parent, left, span, components, interactions, notFound, state>>

\* The stack of the goroutine is exhausted, which ends the process.
Overflow ==
    /\ Deeper /\ Len(frames) = StackLimit
    /\ state' = "crashed"
    /\ UNCHANGED <<parent, left, span, frames, components, interactions, notFound>>

Analysed ==
    /\ state = "running" /\ span = Absent /\ left = {}
    /\ state' = "analysed"
    /\ UNCHANGED <<parent, left, span, frames, components, interactions, notFound>>

\* A dump that does not parse ends the command before any span is visited.
ParseFails ==
    /\ state = "running" /\ left = Spans
    /\ state' = "failed"
    /\ UNCHANGED <<parent, left, span, frames, components, interactions, notFound>>

Fresh ==
    /\ left = Spans
    /\ span = Absent /\ frames = <<>>
    /\ components = [v \in Services |-> Absent]
    /\ interactions = {} /\ notFound = {}
    /\ state = "running"

Init == parent \in Families /\ Fresh

Next ==
    \/ \E s \in Spans : VisitLocal(s) \/ VisitOrphan(s) \/ VisitCallee(s)
    \/ NoCallerFound \/ ParentNotFound \/ Found \/ Climb \/ Overflow
    \/ Analysed \/ ParseFails

Spec == Init /\ [][Next]_vars
-----------------------------------------------------------------------------
(* Properties.                                                             *)

TypeOK ==
    /\ parent \in Families
    /\ left \subseteq Spans
    /\ span \in Spans \cup {Absent}
    /\ \A i \in DOMAIN frames : frames[i] \in Spans
    /\ \A v \in Services : components[v] \in {Absent} \cup {Version[s] : s \in {x \in Spans : Service[x] = v}}
    /\ \A i \in interactions : i.span \in Spans
    /\ state \in {"running", "analysed", "failed", "crashed"}

\* The spans above s: the least set with its parent that goes on to theirs.
Ancestors(s) == {t \in Spans : \A X \in SUBSET Spans :
                    (\A x \in X \cup {s} : InTrace(s, parent[x]) => parent[x] \in X) => t \in X}

\* A service has called that of t, on the way from p up to t, and not by RPC.
CalledOtherwise(p, t) ==
    \E s \in {p} \cup Ancestors(p) :
        t \in Ancestors(s) /\ Service[parent[s]] # Service[s] /\ parent[s] \notin Rpc

\* getFrom looks at no service: all that keeps it from the functions of another
\* one is that it stops at RPCs.  So the function an interaction is from is one
\* of the service that made the call, unless services above it call each other
\* by other means; and where a function is named above the call, an RPC between
\* the two is the only reason to miss it.
CallerIsOfItsService ==
    \A i \in interactions :
        LET p == parent[i.span]
        IN  IF i.from = Unknown
            THEN \A t \in Ancestors(p) : Caller[t] # Absent =>
                    \E r \in Ancestors(p) \cap Rpc : t = r \/ t \in Ancestors(r)
            ELSE \E t \in Ancestors(p) :
                    /\ i.from = Caller[t]
                    /\ Service[t] = i.caller \/ CalledOtherwise(p, t)

\* Whatever the order of the spans, and with parts of the dump missing: each
\* span that another service is behind makes one interaction, between services
\* that are registered, and no other span makes any; a parent that is not there
\* is reported.
ObservedOnce ==
    state = "analysed" => \A s \in Spans :
        LET of == {i \in interactions : i.span = s}
        IN  IF parent[s] = Absent THEN of = {}
            ELSE IF ~InTrace(s, parent[s]) THEN of = {} /\ <<TraceOf[s], parent[s]>> \in notFound
            ELSE IF Service[parent[s]] = Service[s] THEN of = {}
            ELSE \E i \in of : of = {i} /\ components[i.caller] # Absent /\ components[i.to] # Absent

\* getFrom keeps no record of the spans it has seen, but only spans that are
\* above themselves can exhaust the stack.
OverflowsOnlyOnCycles == state = "crashed" => \E s \in Spans : s \in Ancestors(s)

=============================================================================
