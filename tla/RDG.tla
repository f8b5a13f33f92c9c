-------------------------------- MODULE RDG --------------------------------
(***************************************************************************)
(* The RDG service: the assets of the stacks that are deployed.            *)
(*                                                                         *)
(* Calls are goroutines of the gRPC server.  The transaction that upserts  *)
(* an asset reads (is there one, and again in its MERGE) and then creates: *)
(* these are two steps, as no constraint and no lock orders them with the  *)
(* transactions of other calls.  An asset has an id and nothing else, so   *)
(* the database is the number of nodes each id has.  Any transaction may   *)
(* fail and the server may be killed.                                      *)
(***************************************************************************)
EXTENDS Bulks, StateFiles

CONSTANT Workers    \* goroutines that serve calls

StackCall(s) == [kind |-> "stack", stack |-> s]
ResetCall == [kind |-> "reset", stack |-> <<>>]
NoCall == [kind |-> "none", stack |-> <<>>]

VARIABLES
    assets,         \* per id: the Asset nodes
    pc, call,       \* per handler: its next step, its call
    queue,          \* per handler: the resources left to upsert
    disturbed,      \* history, per handler: a call ran beside it that matters
    raced           \* history: the ids that two handlers created at the same time

handler == <<pc, call, queue>>
history == <<disturbed, raced>>
vars == <<assets, handler, history>>

At(w, step) == pc[w] = step
Goto(w, step) == pc' = [pc EXCEPT ![w] = step]
Running == {w \in Workers : pc[w] # "idle"}

\* A stack is disturbed by a Reset, a Reset by any other call.
Disturbs(other, kind) == kind = "reset" \/ other = "reset"

Start(w, c) ==
    /\ At(w, "idle")
    /\ call' = [call EXCEPT ![w] = c]
    /\ Goto(w, IF c.kind = "stack" THEN "process" ELSE "trash")
    /\ disturbed' = [v \in Workers |->
          IF v = w THEN \E u \in Running : Disturbs(call[u].kind, c.kind)
          ELSE disturbed[v] \/ (v \in Running /\ Disturbs(c.kind, call[v].kind))]
    /\ UNCHANGED <<assets, queue, raced>>

\* The state is downloaded and its resources are transformed.
Process(w) ==
    /\ At(w, "process")
    /\ queue' = [queue EXCEPT ![w] = call[w].stack]
    /\ Goto(w, "match")
    /\ UNCHANGED <<assets, call, history>>

Exported(w) ==
    /\ At(w, "match") /\ queue[w] = <<>>
    /\ Goto(w, "done")
    /\ UNCHANGED <<assets, call, queue, history>>

Creating(i) == {v \in Workers : At(v, "create") /\ Head(queue[v]) = i}

\* Fault: the asset is created whether or not there is one.
MatchInVain(w) ==
    /\ At(w, "match") /\ queue[w] # <<>>
    /\ Goto(w, "create")
    /\ raced' = IF Creating(Head(queue[w])) = {} THEN raced ELSE raced \cup {Head(queue[w])}
    /\ UNCHANGED <<assets, call, queue, disturbed>>

\* upsertAsset, the reads: an asset that exists ends the transaction.
Match(w) ==
    /\ At(w, "match") /\ queue[w] # <<>>
    /\ IF assets[Head(queue[w])] > 0
       THEN queue' = [queue EXCEPT ![w] = Tail(@)] /\ UNCHANGED <<pc, raced>>
       ELSE /\ Goto(w, "create")
            /\ raced' = IF Creating(Head(queue[w])) = {} THEN raced
                        ELSE raced \cup {Head(queue[w])}
            /\ UNCHANGED queue
    /\ UNCHANGED <<assets, call, disturbed>>

\* Fault: the rest of the stack is left when one asset is created.
CreateOnly(w) ==
    /\ At(w, "create")
    /\ assets' = [assets EXCEPT ![Head(queue[w])] = @ + 1]
    /\ queue' = [queue EXCEPT ![w] = <<>>]
    /\ Goto(w, "match")
    /\ UNCHANGED <<call, history>>

\* upsertAsset, what MERGE creates.
Create(w) ==
    /\ At(w, "create")
    /\ assets' = [assets EXCEPT ![Head(queue[w])] = @ + 1]
    /\ queue' = [queue EXCEPT ![w] = Tail(@)]
    /\ Goto(w, "match")
    /\ UNCHANGED <<call, history>>

Nodes == UNION {{<<i, k>> : k \in 1..assets[i]} : i \in Ids}

\* Fault: a single transaction instead of the loop.
TrashOnce(w) ==
    /\ At(w, "trash")
    /\ \E D \in Batches(Nodes) :
          assets' = [i \in Ids |-> assets[i] - Cardinality({x \in D : x[1] = i})]
    /\ Goto(w, "done")
    /\ UNCHANGED <<call, queue, history>>

\* reset: the transactions of Trash.  No relationship touches an asset, so
\* none is refused.
Trash(w) ==
    /\ At(w, "trash")
    /\ \E D \in Batches(Nodes) :
          /\ assets' = [i \in Ids |-> assets[i] - Cardinality({x \in D : x[1] = i})]
          /\ IF D = {} THEN Goto(w, "done") ELSE UNCHANGED pc
    /\ UNCHANGED <<call, queue, history>>

\* The download, the state (of a version that is not 3, say) or a transaction.
ReturnError(w) ==
    /\ pc[w] \in {"process", "match", "create", "trash"}
    /\ Goto(w, "failed")
    /\ UNCHANGED <<assets, call, queue, history>>

Respond(w) ==
    /\ pc[w] \in {"done", "failed"}
    /\ Goto(w, "idle")
    /\ call' = [call EXCEPT ![w] = NoCall]
    /\ queue' = [queue EXCEPT ![w] = <<>>]
    /\ disturbed' = [disturbed EXCEPT ![w] = FALSE]
    /\ UNCHANGED <<assets, raced>>

Crash ==
    /\ Running # {}
    /\ pc' = [w \in Workers |-> "idle"]
    /\ call' = [w \in Workers |-> NoCall]
    /\ queue' = [w \in Workers |-> <<>>]
    /\ disturbed' = [w \in Workers |-> FALSE]
    /\ UNCHANGED <<assets, raced>>

Init ==
    /\ assets = [i \in Ids |-> 0]
    /\ pc = [w \in Workers |-> "idle"]
    /\ call = [w \in Workers |-> NoCall]
    /\ queue = [w \in Workers |-> <<>>]
    /\ disturbed = [w \in Workers |-> FALSE]
    /\ raced = {}

Proceed(w) == \/ Process(w) \/ Exported(w) \/ Match(w) \/ Create(w) \/ Trash(w)
              \/ ReturnError(w) \/ Respond(w)

Next ==
    \/ \E w \in Workers : \/ \E s \in Stacks : Start(w, StackCall(s))
                          \/ Start(w, ResetCall)
                          \/ Proceed(w)
    \/ Crash

Spec == Init /\ [][Next]_vars
-----------------------------------------------------------------------------
(* Properties.                                                             *)

Call == [kind : {"stack"}, stack : Stacks] \cup {ResetCall, NoCall}

TypeOK ==
    /\ assets \in [Ids -> Nat]
    /\ pc \in [Workers -> {"idle", "process", "match", "create", "trash", "done", "failed"}]
    /\ call \in [Workers -> Call]
    /\ queue \in [Workers -> Seq(Ids)]
    /\ \A w \in Workers : At(w, "create") => queue[w] # <<>>
    /\ disturbed \in [Workers -> BOOLEAN]
    /\ raced \subseteq Ids

\* Nothing constrains assets, yet errors, crashes, repeated calls and Resets
\* that stop half-way never make two of one id: only two handlers that are
\* both between the reads and the commit for that id can.
UniqueUnlessRaced == \A i \in Ids \ raced : assets[i] <= 1

\* CreateStack answers without an error once every resource of the stack has an
\* asset, also the ones that other stacks were creating: unless a Reset ran.
AnsweredStackIsStored ==
    \A w \in Workers : At(w, "done") /\ call[w].kind = "stack" /\ ~disturbed[w] =>
        \A k \in DOMAIN call[w].stack : assets[call[w].stack[k]] > 0

\* A Reset that was alone, and answered without an error, has left nothing.
AloneResetEmpties ==
    \A w \in Workers : At(w, "done") /\ call[w] = ResetCall /\ ~disturbed[w] => Nodes = {}

=============================================================================
