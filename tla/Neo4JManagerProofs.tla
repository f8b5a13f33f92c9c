------------------------- MODULE Neo4JManagerProofs -------------------------
(* Theorems about Neo4JManager, for any number of handlers and drivers.    *)
EXTENDS Neo4JManager, TLAPS

\* What the code relies on between Lock and Unlock: only the holder of the
\* lock is there, no driver is stored while a new one is made, and the new one
\* is open in its hands.
LockInv ==
    /\ \A w \in Workers : pc[w] \in Critical <=> writer = w
    /\ \A w \in Workers : pc[w] = "verifyAgain" => driver # None
    /\ \A w \in Workers : pc[w] \in {"create", "verifyNew"} => driver = None
    /\ \A w \in Workers : pc[w] = "verifyNew" => local[w] \in open \ unclosed
    /\ \A w \in Workers : pc[w] \in {"verify", "verifyAgain", "session"} => local[w] # None

IInv == TypeOK /\ LockInv /\ OnlyFailedClosesLeak /\ StoredDriverIsOpen

LEMMA InitInv == Init => IInv
  BY NoneAssumption DEF Init, IInv, TypeOK, LockInv, OnlyFailedClosesLeak, StoredDriverIsOpen, Critical

LEMMA NextInv == IInv /\ [Next]_vars => IInv'
  <1> SUFFICES ASSUME IInv, [Next]_vars PROVE IInv'
    OBVIOUS
  <1> USE NoneAssumption DEF IInv, TypeOK, LockInv, OnlyFailedClosesLeak, StoredDriverIsOpen,
                             Critical, At, Goto, Hold
  <1>1. ASSUME NEW w \in Workers, Call(w) PROVE IInv'
    BY <1>1 DEF Call
  <1>2. ASSUME NEW w \in Workers, ReadDriver(w) PROVE IInv'
    BY <1>2 DEF ReadDriver
  <1>3. ASSUME NEW w \in Workers, Verify(w) PROVE IInv'
    BY <1>3 DEF Verify
  <1>4. ASSUME NEW w \in Workers, Lock(w) PROVE IInv'
    BY <1>4 DEF Lock
  <1>5. ASSUME NEW w \in Workers, VerifyAgain(w) PROVE IInv'
    <2>1. writer = w /\ driver # None /\ pc[w] = "verifyAgain" /\ cancelled' = cancelled
          /\ local' = local /\ up' = up
      BY <1>5 DEF VerifyAgain
    <2>2. \A v \in Workers : v # w => pc[v] \notin Critical
      BY <2>1
    <2>3. CASE Reachable(w, driver)
      <3>1. pc' = [pc EXCEPT ![w] = "session"] /\ writer' = None /\ UNCHANGED <<driver, open, unclosed>>
        BY <1>5, <2>3 DEF VerifyAgain
      <3>2. driver \in open /\ local[w] # None
        BY <2>1, <2>3 DEF Reachable
      <3>3. TypeOK'
        BY <2>1, <3>1
      <3>4. LockInv'
        BY <2>1, <2>2, <3>1, <3>2
      <3>5. OnlyFailedClosesLeak' /\ StoredDriverIsOpen'
        BY <2>1, <3>1
      <3> QED BY <3>3, <3>4, <3>5
    <2>4. CASE ~Reachable(w, driver)
      <3>1. pc' = [pc EXCEPT ![w] = "create"] /\ writer' = w /\ driver' = None
            /\ Close(driver)
        BY <1>5, <2>1, <2>4 DEF VerifyAgain
      <3>2. driver \in open \ unclosed /\ open \subseteq {driver} \cup unclosed
        BY <2>1
      <3>3. open' \subseteq unclosed' /\ unclosed' \subseteq open' /\ open' \subseteq open
        BY <3>1, <3>2 DEF Close
      <3>4. TypeOK'
        BY <2>1, <3>1, <3>3
      <3>5. LockInv'
        BY <2>1, <2>2, <3>1
      <3>6. OnlyFailedClosesLeak' /\ StoredDriverIsOpen'
        BY <3>1, <3>3
      <3> QED BY <3>4, <3>5, <3>6
    <2> QED BY <2>3, <2>4
  <1>6. ASSUME NEW w \in Workers, Create(w) PROVE IInv'
    <2>1. PICK d \in Fresh : Hold(w, d) /\ open' = open \cup {d}
      BY <1>6 DEF Create
    <2>2. d \in Drivers /\ d \notin open
      BY DEF Fresh
    <2>3. /\ pc' = [pc EXCEPT ![w] = "verifyNew"]
          /\ local' = [local EXCEPT ![w] = d]
          /\ writer = w /\ driver = None
          /\ UNCHANGED <<driver, writer, up, cancelled, unclosed>>
      BY <1>6, <2>1 DEF Create
    <2>4. \A v \in Workers : v # w => pc[v] \notin Critical
      BY <2>3
    <2>5. open' = open \cup {d}
      BY <2>1
    <2>6. open \subseteq unclosed
      BY <1>6 DEF Create
    <2>7. TypeOK'
      BY <2>2, <2>3, <2>5
    <2>8. LockInv'
      BY <2>2, <2>3, <2>4, <2>5
    <2>9. OnlyFailedClosesLeak' /\ StoredDriverIsOpen'
      BY <2>2, <2>3, <2>5, <2>6
    <2> QED BY <2>7, <2>8, <2>9
  <1>7. ASSUME NEW w \in Workers, VerifyNew(w) PROVE IInv'
    BY <1>7 DEF VerifyNew, Reachable, Close
  <1>8. ASSUME NEW w \in Workers, UseSession(w) PROVE IInv'
    BY <1>8 DEF UseSession
  <1>9. ASSUME NEW w \in Workers, Return(w) PROVE IInv'
    BY <1>9 DEF Return
  <1>10. ASSUME NEW w \in Workers, Cancel(w) PROVE IInv'
    BY <1>10 DEF Cancel
  <1>11. CASE Toggle
    BY <1>11 DEF Toggle
  <1>12. CASE UNCHANGED vars
    BY <1>12 DEF vars
  <1> QED
    BY <1>1, <1>2, <1>3, <1>4, <1>5, <1>6, <1>7, <1>8, <1>9, <1>10, <1>11, <1>12
       DEF Next, Proceed

\* The manager and the handlers keep their types, the lock its holder.
THEOREM TypeCorrect == Spec => []TypeOK
  BY InitInv, NextInv, PTL DEF Spec, IInv

\* Without a Close that fails no driver that holds connections is ever lost, for
\* any number of handlers.
THEOREM DriversAreKept == Spec => []OnlyFailedClosesLeak
  BY InitInv, NextInv, PTL DEF Spec, IInv

\* The stored driver is never one that recreateDriver has closed or tried to.
THEOREM StoredIsOpen == Spec => []StoredDriverIsOpen
  BY InitInv, NextInv, PTL DEF Spec, IInv
=============================================================================
