---------------------------- MODULE Interactions ----------------------------
(***************************************************************************)
(* What SIG promises to its clients: a graph of components and of links    *)
(* between their endpoints.  How it is stored, and the transactions of a   *)
(* call, do not show: a link is there or it is not, and the outcome of a   *)
(* call, once it has one, tells the client what it may rely upon.          *)
(***************************************************************************)
CONSTANTS
    Clients,
    Requests        \* their kind, the components and the links they name

VARIABLES
    components,
    links,          \* <<from, to>>: endpoints, which are <<component, name>>
    outcome,        \* per client: what has become of its call
    request,        \* per client: what it names
    owes,           \* per client: the links it has to find when it is answered
    alone           \* per client: a Reset, and no other call has run beside it

graph == <<components, links>>
calls == <<outcome, request, owes, alone>>
vars == <<graph, calls>>

NoRequest == [kind |-> "none", components |-> {}, links |-> {}]
Served == {c \in Clients : outcome[c] # "none"}
Resetting == {c \in Served : request[c].kind = "reset"}

\* The links of r whose components are in the graph.
Possible(r) == {l \in r.links : {l[1][1], l[2][1]} \subseteq components}

NoCalls ==
    /\ outcome = [c \in Clients |-> "none"]
    /\ request = [c \in Clients |-> NoRequest]
    /\ owes = [c \in Clients |-> {}]
    /\ alone = [c \in Clients |-> FALSE]

Init == components = {} /\ links = {} /\ NoCalls

\* A call owes its client the links that it can make when it comes, unless a
\* Reset runs beside it, now or later.
Begin(c, r) ==
    /\ outcome[c] = "none"
    /\ outcome' = [outcome EXCEPT ![c] = "pending"]
    /\ request' = [request EXCEPT ![c] = r]
    /\ owes' = [x \in Clients |->
          IF x = c THEN IF Resetting = {} THEN Possible(r) ELSE {}
          ELSE IF r.kind = "reset" THEN {} ELSE owes[x]]
    /\ alone' = [x \in Clients |-> x = c /\ r.kind = "reset" /\ Served = {}]
    /\ UNCHANGED graph

\* The graph changes on behalf of a call: it gains what the call names and
\* nothing else, or loses something to a Reset, and to nothing else.
Change(r) ==
    CASE r.kind = "component"  -> /\ components \subseteq components'
                                  /\ components' \subseteq components \cup r.components
                                  /\ links' = links
      [] r.kind = "dependency" -> /\ components' = components
                                  /\ links \subseteq links'
                                  /\ links' \subseteq links \cup r.links
      [] r.kind = "reset"      -> components' \subseteq components /\ links' \subseteq links
      [] OTHER                 -> UNCHANGED graph

\* What an outcome without an error says at the moment it is given.
Fulfilled(c) ==
    /\ request[c].components \subseteq components
    /\ owes[c] \subseteq links
    /\ alone[c] => components = {} /\ links = {}

Serve(c) ==
    /\ outcome[c] = "pending"
    /\ \/ outcome' = outcome
       \/ outcome' = [outcome EXCEPT ![c] = "answered"] /\ Fulfilled(c)'
       \/ outcome' = [outcome EXCEPT ![c] = "failed"]
    /\ Change(request[c])
    /\ UNCHANGED <<request, owes, alone>>

Return(c) ==
    /\ outcome[c] \in {"answered", "failed"}
    /\ outcome' = [outcome EXCEPT ![c] = "none"]
    /\ request' = [request EXCEPT ![c] = NoRequest]
    /\ owes' = [owes EXCEPT ![c] = {}]
    /\ alone' = [alone EXCEPT ![c] = FALSE]
    /\ UNCHANGED graph

\* The server dies, and its calls with it.
Lose == NoCalls' /\ UNCHANGED graph

Next ==
    \/ \E c \in Clients : Serve(c) \/ Return(c) \/ \E r \in Requests : Begin(c, r)
    \/ Lose

Spec == Init /\ [][Next]_vars
=============================================================================
