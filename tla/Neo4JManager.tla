---------------------------- MODULE Neo4JManager ----------------------------
(***************************************************************************)
(* The connection manager all services share: one Neo4j driver, verified   *)
(* at every use and replaced under a lock when the verification fails.     *)
(*                                                                         *)
(* Handlers call NewSession (every transaction of every service) and       *)
(* Healthcheck, each with the context of its own request.  The network     *)
(* calls (VerifyConnectivity, a session's work) are steps: the database    *)
(* may come and go, a client may leave and cancel its context, and other   *)
(* handlers run in between.  The retrier and the circuit breaker belong to *)
(* Manager.Execute, which no code of the repository calls.                 *)
(***************************************************************************)
EXTENDS Naturals, FiniteSets

CONSTANTS
    Workers,    \* goroutines that need the database
    Drivers,    \* bound: driver objects; a forgotten one is made anew
    FailedCloses,   \* bound: the calls of Close that fail
    None        \* Go's nil

ASSUME NoneAssumption == None \notin Drivers \cup Workers
ASSUME BoundAssumption == FailedCloses \in Nat

VARIABLES
    driver,     \* Manager.driver
    writer,     \* the holder of Manager.mu for writing
    open,       \* driver objects that hold connections
    up,         \* the database is reachable
    pc,         \* per handler: the next step
    local,      \* per handler: the driver in its hands
    cancelled,  \* the handlers whose context is over
    unclosed    \* history: the drivers that Close has failed for

vars == <<driver, writer, open, up, pc, local, cancelled, unclosed>>

At(w, step) == pc[w] = step
Goto(w, step) == pc' = [pc EXCEPT ![w] = step]
Hold(w, d) == local' = [local EXCEPT ![w] = d]

\* Driver.VerifyConnectivity, and the work of a session: a network round trip
\* under the context of the caller.
Reachable(w, d) == up /\ w \notin cancelled /\ d \in open

\* Driver.Close, under the context of the caller, which may be over: without an
\* error its connections are closed, with one they are not, and the error is
\* dropped.
Close(d) ==
    \/ open' = open \ {d} /\ UNCHANGED unclosed
    \/ /\ Cardinality(unclosed) < FailedCloses
       /\ unclosed' = unclosed \cup {d}
       /\ UNCHANGED open

\* A request enters NewSession or Healthcheck.
Call(w) ==
    /\ At(w, "idle")
    /\ Goto(w, "getDriver")
    /\ cancelled' = cancelled \ {w}
    /\ UNCHANGED <<driver, writer, open, up, local, unclosed>>

\* getDriver reads the driver under the read lock.
ReadDriver(w) ==
    /\ At(w, "getDriver")
    /\ writer = None
    /\ Hold(w, driver)
    /\ Goto(w, IF driver = None THEN "lock" ELSE "verify")
    /\ UNCHANGED <<driver, writer, open, up, cancelled, unclosed>>

\* getDriver verifies it, without the lock.
Verify(w) ==
    /\ At(w, "verify")
    /\ Goto(w, IF Reachable(w, local[w]) THEN "session" ELSE "lock")
    /\ UNCHANGED <<driver, writer, open, up, local, cancelled, unclosed>>

\* Fault: the driver of another handler is not looked at again, nor closed.
LockThenCreate(w) ==
    /\ At(w, "lock")
    /\ writer = None
    /\ writer' = w
    /\ Goto(w, "create")
    /\ Hold(w, driver)
    /\ UNCHANGED <<driver, open, up, cancelled, unclosed>>

\* recreateDriver: mu.Lock().
Lock(w) ==
    /\ At(w, "lock")
    /\ writer = None
    /\ writer' = w
    /\ Goto(w, IF driver = None THEN "create" ELSE "verifyAgain")
    /\ Hold(w, driver)
    /\ UNCHANGED <<driver, open, up, cancelled, unclosed>>

\* Fault: a driver that does not work is closed but not forgotten.
VerifyAgainKeepDriver(w) ==
    /\ At(w, "verifyAgain")
    /\ writer' = None
    /\ Goto(w, IF Reachable(w, driver) THEN "session" ELSE "failed")
    /\ IF Reachable(w, driver) THEN UNCHANGED <<open, unclosed>> ELSE Close(driver)
    /\ UNCHANGED <<driver, local, up, cancelled>>

\* recreateDriver: another handler may have replaced the driver meanwhile.
VerifyAgain(w) ==
    /\ At(w, "verifyAgain")
    /\ IF Reachable(w, driver)
       THEN /\ Goto(w, "session")
            /\ writer' = None
            /\ UNCHANGED <<driver, open, unclosed>>
       ELSE /\ Goto(w, "create")
            /\ Close(driver)
            /\ driver' = None
            /\ UNCHANGED writer
    /\ UNCHANGED <<local, up, cancelled>>

\* Fault: the error of NewDriverWithContext is dropped, its nil driver used.
FreshOrNil == (Drivers \ open) \cup {None}

\* Driver objects nobody knows of.
Fresh == {d \in Drivers : d \notin open /\ d # driver /\ \A w \in Workers : local[w] # d}

\* recreateDriver: NewDriverWithContext opens no connection yet, and fails only
\* for a malformed URL, which no later call mends.
Create(w) ==
    /\ At(w, "create")
    /\ \E d \in Fresh : Hold(w, d) /\ open' = open \cup {d}
    /\ Goto(w, "verifyNew")
    /\ UNCHANGED <<driver, writer, up, cancelled, unclosed>>

\* Fault: the lock is not given back with an error.
VerifyNewKeepLock(w) ==
    /\ At(w, "verifyNew")
    /\ IF Reachable(w, local[w])
       THEN /\ Goto(w, "session")
            /\ driver' = local[w]
            /\ writer' = None
            /\ UNCHANGED <<open, unclosed>>
       ELSE /\ Goto(w, "failed")
            /\ Close(local[w])
            /\ UNCHANGED <<driver, writer>>
    /\ UNCHANGED <<local, up, cancelled>>

\* recreateDriver: the new driver is kept only if it works.
VerifyNew(w) ==
    /\ At(w, "verifyNew")
    /\ IF Reachable(w, local[w])
       THEN /\ Goto(w, "session")
            /\ driver' = local[w]
            /\ UNCHANGED <<open, unclosed>>
       ELSE /\ Goto(w, "failed")
            /\ Close(local[w])
            /\ UNCHANGED driver
    /\ writer' = None
    /\ UNCHANGED <<local, up, cancelled>>

\* The caller's session (a transaction, or the verification of Healthcheck).
UseSession(w) ==
    /\ At(w, "session")
    /\ Goto(w, IF Reachable(w, local[w]) THEN "done" ELSE "failed")
    /\ UNCHANGED <<driver, writer, open, up, local, cancelled, unclosed>>

Return(w) ==
    /\ pc[w] \in {"done", "failed"}
    /\ Goto(w, "idle")
    /\ Hold(w, None)
    /\ UNCHANGED <<driver, writer, open, up, cancelled, unclosed>>

\* The environment: clients leave, the database goes and comes.
Cancel(w) ==
    /\ pc[w] # "idle" /\ w \notin cancelled
    /\ cancelled' = cancelled \cup {w}
    /\ UNCHANGED <<driver, writer, open, up, pc, local, unclosed>>

Toggle == up' = ~up /\ UNCHANGED <<driver, writer, open, pc, local, cancelled, unclosed>>

Proceed(w) == \/ ReadDriver(w) \/ Verify(w) \/ Lock(w) \/ VerifyAgain(w)
              \/ Create(w) \/ VerifyNew(w) \/ UseSession(w) \/ Return(w)

Init ==
    /\ driver = None /\ writer = None /\ open = {} /\ up \in BOOLEAN
    /\ pc = [w \in Workers |-> "idle"]
    /\ local = [w \in Workers |-> None]
    /\ cancelled = {} /\ unclosed = {}

Next == \/ \E w \in Workers : Call(w) \/ Proceed(w) \/ Cancel(w)
        \/ Toggle

Spec == Init /\ [][Next]_vars

\* Goroutines are scheduled, network calls end, and Go's RWMutex starves no one.
FairSpec == Spec /\ \A w \in Workers :
                WF_vars(Proceed(w)) /\ SF_vars(Lock(w)) /\ SF_vars(ReadDriver(w))

-----------------------------------------------------------------------------
(* Properties.                                                             *)

Critical == {"verifyAgain", "create", "verifyNew"}

TypeOK ==
    /\ driver \in Drivers \cup {None}
    /\ writer \in Workers \cup {None}
    /\ open \subseteq Drivers
    /\ up \in BOOLEAN
    /\ pc \in [Workers -> {"idle", "getDriver", "verify", "lock", "session", "done", "failed"}
                          \cup Critical]
    /\ local \in [Workers -> Drivers \cup {None}]
    /\ cancelled \subseteq Workers
    /\ unclosed \subseteq open

\* However many handlers find the driver broken at once, and whatever fails
\* while one of them replaces it, a driver with open connections is lost only
\* to a Close that fails: any other is the manager's, or the new one in the
\* hands of the lock's holder.
OnlyFailedClosesLeak ==
    \A d \in open \ unclosed :
        d = driver \/ (writer # None /\ pc[writer] = "verifyNew" /\ local[writer] = d)

\* The manager never offers a driver that was closed, or that it has tried to
\* close and given up.
StoredDriverIsOpen == driver # None => driver \in open \ unclosed

\* The lock is never left behind, and no call waits for ever: each gets a
\* session or an error.
EveryCallEnds == \A w \in Workers : pc[w] # "idle" ~> pc[w] = "idle"

\* Once the database stays up and no client leaves, calls stop failing: no
\* outage or cancelled request leaves the manager with a driver of no use.
Recovers == <>[](up /\ cancelled = {}) => <>[](\A w \in Workers : pc[w] # "failed")

=============================================================================
