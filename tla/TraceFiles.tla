----------------------------- MODULE TraceFiles -----------------------------
(* What the observation of a system is made of: the spans of an OTEL dump.  *)
EXTENDS Naturals, FiniteSets

CONSTANTS
    Spans,
    TraceOf,        \* per span: the id of its trace
    Service,        \* per span: the service that emitted it
    Version,        \* per span: the version the service had
    Name,           \* per span: its name
    Rpc,            \* the spans with the attribute rpc.system
    Caller,         \* per span: its attribute caller.function, Absent without it
    Families,       \* the parents the spans may have: a span, an id that is
                    \* not of the dump, or Absent for a root
    StackLimit,     \* the frames of getFrom a goroutine has room for
    Unknown, Absent

\* Parents come from outside, so nothing keeps spans from being each other's.
\* The stack has room for every span of a trace.
ASSUME TraceFilesAssumption ==
    /\ IsFiniteSet(Spans)
    /\ \A f \in Families : DOMAIN f = Spans
    /\ DOMAIN Caller = Spans
    /\ Absent \notin Spans \cup {Service[s] : s \in Spans} \cup {Version[s] : s \in Spans}
    /\ Unknown \notin {Caller[s] : s \in Spans}
    /\ StackLimit \in Nat /\ StackLimit > Cardinality(Spans)

=============================================================================
