----------------------------- MODULE RDGProofs -----------------------------
(* Theorems about RDG, for any stacks, handlers and size of batches.       *)
EXTENDS RDG, FiniteSetTheorems, SequenceTheorems, TLAPS

-----------------------------------------------------------------------------
(* What a deletion takes.                                                  *)

TakenOf(D, i) == {x \in D : x[1] = i}

LEMMA Taken ==
    ASSUME TypeOK, NEW D, D \subseteq Nodes, NEW i \in Ids
    PROVE  /\ Cardinality(TakenOf(D, i)) \in Nat
           /\ Cardinality(TakenOf(D, i)) <= assets[i]
           /\ D = {} => Cardinality(TakenOf(D, i)) = 0
  <1>1. assets[i] \in Nat
    BY DEF TypeOK
  <1> DEFINE N == {<<i, k>> : k \in 1..assets[i]}
             g == [k \in 1..assets[i] |-> <<i, k>>]
  <1>2. g \in Surjection(1..assets[i], N)
    BY DEF Surjection
  <1>3. IsFiniteSet(1..assets[i]) /\ Cardinality(1..assets[i]) = assets[i]
    <2>1. PICK n \in Nat : n = assets[i]
      BY <1>1
    <2>2. IsFiniteSet(1..n) /\ Cardinality(1..n) = IF 1 > n THEN 0 ELSE n - 1 + 1
      BY FS_Interval
    <2> QED BY <2>1, <2>2
  <1>4. IsFiniteSet(N) /\ Cardinality(N) <= assets[i]
    BY <1>2, <1>3, FS_Surjection
  <1>5. TakenOf(D, i) \subseteq N
    <2> SUFFICES ASSUME NEW x \in D, x[1] = i PROVE x \in N
      BY DEF TakenOf
    <2>1. PICK j \in Ids : x \in {<<j, k>> : k \in 1..assets[j]}
      BY DEF Nodes
    <2>2. PICK k \in 1..assets[j] : x = <<j, k>>
      BY <2>1
    <2> QED BY <2>2
  <1> HIDE DEF N, g
  <1>6. Cardinality(TakenOf(D, i)) \in Nat /\ Cardinality(TakenOf(D, i)) <= Cardinality(N)
    BY <1>4, <1>5, FS_Subset, FS_CardinalityType
  <1>7. Cardinality(N) \in Nat
    BY <1>4, FS_CardinalityType
  <1>8. D = {} => TakenOf(D, i) = {}
    BY DEF TakenOf
  <1> QED BY <1>1, <1>4, <1>6, <1>7, <1>8, FS_EmptySet

\* A transaction of a Reset leaves no more assets than there were; the last
\* one leaves none.
LEMMA Trashed ==
    ASSUME TypeOK, NEW w \in Workers, Trash(w)
    PROVE  /\ At(w, "trash") /\ UNCHANGED <<call, queue, history>>
           /\ assets' \in [Ids -> Nat]
           /\ \A i \in Ids : assets'[i] <= assets[i]
           /\ \/ pc' = pc
              \/ pc' = [pc EXCEPT ![w] = "done"] /\ Nodes' = {}
  <1>1. PICK D \in Batches(Nodes) :
           /\ assets' = [i \in Ids |-> assets[i] - Cardinality(TakenOf(D, i))]
           /\ IF D = {} THEN Goto(w, "done") ELSE UNCHANGED pc
    BY DEF Trash, TakenOf
  <1>2. D \subseteq Nodes
    BY DEF Batches
  <1>3. \A i \in Ids : /\ Cardinality(TakenOf(D, i)) \in Nat
                       /\ Cardinality(TakenOf(D, i)) <= assets[i]
                       /\ assets[i] \in Nat
                       /\ D = {} => Cardinality(TakenOf(D, i)) = 0
    BY <1>2, Taken DEF TypeOK
  <1>4. assets' \in [Ids -> Nat] /\ \A i \in Ids : assets'[i] <= assets[i]
    BY <1>1, <1>3
  <1>5. ASSUME D = {} PROVE Nodes' = {}
    <2>1. Nodes = {}
      <3>1. Cardinality(D) = 0 /\ Limit # 0
        BY <1>5, FS_EmptySet, LimitAssumption
      <3> QED BY <1>5, <3>1 DEF Batches
    <2>2. \A i \in Ids : assets'[i] = assets[i]
      BY <1>1, <1>3, <1>5
    <2> QED BY <2>1, <2>2 DEF Nodes
  <1> QED BY <1>1, <1>4, <1>5 DEF Trash, Goto

-----------------------------------------------------------------------------
(* Types, and the steps that belong to each call.                          *)

StepsInv ==
    \A w \in Workers :
        /\ pc[w] \in {"process", "match", "create"} => call[w].kind = "stack"
        /\ pc[w] = "trash" => call[w] = ResetCall
        /\ pc[w] # "idle" => call[w] # NoCall

TypeInv == TypeOK /\ StepsInv

LEMMA TypeInit == Init => TypeInv
  BY DEF Init, TypeInv, TypeOK, StepsInv, Call, At

LEMMA Stacked ==
    ASSUME TypeInv, NEW w \in Workers, call[w].kind = "stack"
    PROVE  call[w].stack \in Stacks /\ call[w].stack \in Seq(Ids)
  <1>1. call[w] \in Call
    BY DEF TypeInv, TypeOK
  <1>2. call[w].stack \in Stacks
    BY <1>1 DEF Call, ResetCall, NoCall
  <1> QED BY <1>2, StacksAssumption

LEMMA Started ==
    ASSUME TypeInv, NEW w \in Workers, NEW c, Start(w, c),
           c = ResetCall \/ \E s \in Stacks : c = StackCall(s)
    PROVE  TypeInv'
  <1>1. c \in Call /\ c # NoCall
    BY DEF Call, ResetCall, StackCall, NoCall
  <1>2. IF c.kind = "stack" THEN c.kind = "stack" ELSE c = ResetCall
    BY DEF StackCall, ResetCall
  <1>3. /\ pc[w] = "idle" /\ UNCHANGED <<assets, queue, raced>>
        /\ call' = [call EXCEPT ![w] = c]
        /\ pc' = [pc EXCEPT ![w] = IF c.kind = "stack" THEN "process" ELSE "trash"]
    BY DEF Start, At, Goto
  <1>4. disturbed' \in [Workers -> BOOLEAN]
    BY DEF Start, Disturbs, TypeInv, TypeOK, Running
  <1> QED BY <1>1, <1>2, <1>3, <1>4 DEF TypeInv, TypeOK, StepsInv, At

LEMMA TypeStep == TypeInv /\ [Next]_vars => TypeInv'
  <1> SUFFICES ASSUME TypeInv, [Next]_vars PROVE TypeInv'
    OBVIOUS
  <1>1. ASSUME NEW w \in Workers, \/ Start(w, ResetCall)
                                  \/ \E s \in Stacks : Start(w, StackCall(s))
        PROVE  TypeInv'
    BY <1>1, Started
  <1>2. ASSUME NEW w \in Workers, Process(w) PROVE TypeInv'
    <2>1. call[w].stack \in Seq(Ids)
      BY <1>2, Stacked DEF TypeInv, StepsInv, Process, At
    <2> QED BY <1>2, <2>1 DEF Process, At, Goto, history, TypeInv, TypeOK, StepsInv
  <1>3. ASSUME NEW w \in Workers, Exported(w) PROVE TypeInv'
    BY <1>3 DEF Exported, At, Goto, history, TypeInv, TypeOK, StepsInv
  <1>4. ASSUME NEW w \in Workers, Match(w) PROVE TypeInv'
    <2>1. queue[w] \in Seq(Ids) /\ queue[w] # <<>>
      BY <1>4 DEF Match, TypeInv, TypeOK
    <2>2. Head(queue[w]) \in Ids /\ Tail(queue[w]) \in Seq(Ids)
      BY <2>1, HeadTailProperties
    <2>3. CASE assets[Head(queue[w])] > 0
      BY <1>4, <2>2, <2>3 DEF Match, At, TypeInv, TypeOK, StepsInv
    <2>4. CASE ~(assets[Head(queue[w])] > 0)
      BY <1>4, <2>1, <2>2, <2>4 DEF Match, At, Goto, TypeInv, TypeOK, StepsInv
    <2> QED BY <2>3, <2>4
  <1>5. ASSUME NEW w \in Workers, Create(w) PROVE TypeInv'
    <2>1. queue[w] \in Seq(Ids) /\ queue[w] # <<>>
      BY <1>5 DEF Create, TypeInv, TypeOK
    <2>2. Head(queue[w]) \in Ids /\ Tail(queue[w]) \in Seq(Ids)
      BY <2>1, HeadTailProperties
    <2> QED BY <1>5, <2>2 DEF Create, At, Goto, history, TypeInv, TypeOK, StepsInv
  <1>6. ASSUME NEW w \in Workers, Trash(w) PROVE TypeInv'
    BY <1>6, Trashed DEF At, history, TypeInv, TypeOK, StepsInv
  <1>7. ASSUME NEW w \in Workers, ReturnError(w) PROVE TypeInv'
    BY <1>7 DEF ReturnError, At, Goto, history, TypeInv, TypeOK, StepsInv
  <1>8. ASSUME NEW w \in Workers, Respond(w) PROVE TypeInv'
    BY <1>8 DEF Respond, At, Goto, TypeInv, TypeOK, StepsInv, Call
  <1>9. CASE Crash
    BY <1>9 DEF Crash, At, TypeInv, TypeOK, StepsInv, Call
  <1>10. CASE UNCHANGED vars
    BY <1>10 DEF vars, handler, history, At, TypeInv, TypeOK, StepsInv
  <1> QED BY <1>1, <1>2, <1>3, <1>4, <1>5, <1>6, <1>7, <1>8, <1>9, <1>10 DEF Next, Proceed

\* The database and the handlers keep their types.
THEOREM Typed == Spec => []TypeOK
  <1>1. TypeInv => TypeOK
    BY DEF TypeInv
  <1> QED BY TypeInit, TypeStep, <1>1, PTL DEF Spec

-----------------------------------------------------------------------------
(* One node per id.                                                        *)

\* Of an id that was never raced for, at most one handler is about to create
\* an asset, and then there is none.
UniqueInv ==
    \A i \in Ids \ raced :
        /\ assets[i] <= 1
        /\ \A w \in Creating(i) : assets[i] = 0
        /\ \A v, w \in Creating(i) : v = w

\* A step that begins no creation and adds no asset.
LEMMA Calm ==
    ASSUME TypeInv, UniqueInv, assets' \in [Ids -> Nat], \A i \in Ids : assets'[i] <= assets[i],
           raced' = raced,
           \A v \in Workers : At(v, "create")' => At(v, "create") /\ queue'[v] = queue[v]
    PROVE  UniqueInv'
  <1>1. ASSUME NEW i \in Ids PROVE Creating(i)' \subseteq Creating(i)
    BY DEF Creating
  <1>2. ASSUME NEW i \in Ids PROVE assets[i] \in Nat /\ assets'[i] \in Nat /\ assets'[i] <= assets[i]
    BY DEF TypeInv, TypeOK
  <1> QED BY <1>1, <1>2 DEF UniqueInv

LEMMA UniqueStep == TypeInv /\ UniqueInv /\ [Next]_vars => UniqueInv'
  <1> SUFFICES ASSUME TypeInv, UniqueInv, [Next]_vars PROVE UniqueInv'
    OBVIOUS
  <1>1. assets \in [Ids -> Nat] /\ pc = [w \in Workers |-> pc[w]] /\ queue \in [Workers -> Seq(Ids)]
    BY DEF TypeInv, TypeOK
  <1>2. ASSUME NEW w \in Workers,
               \/ Start(w, ResetCall) \/ \E s \in Stacks : Start(w, StackCall(s))
               \/ Process(w) \/ Exported(w) \/ ReturnError(w) \/ Respond(w)
        PROVE  UniqueInv'
    <2>1. assets' = assets /\ raced' = raced
      BY <1>2 DEF Start, Process, Exported, ReturnError, Respond, history
    <2>2. \A v \in Workers : At(v, "create")' => At(v, "create") /\ queue'[v] = queue[v]
      BY <1>1, <1>2 DEF Start, Process, Exported, ReturnError, Respond, At, Goto
    <2> QED BY <1>1, <2>1, <2>2, Calm
  <1>3. ASSUME NEW w \in Workers, Trash(w) PROVE UniqueInv'
    BY <1>3, <1>1, Trashed, Calm DEF At, history, TypeInv
  <1>4. ASSUME NEW w \in Workers, Match(w) PROVE UniqueInv'
    <2>1. queue[w] # <<>> /\ At(w, "match")
      BY <1>4 DEF Match
    <2>2. PICK i \in Ids : i = Head(queue[w])
      BY <1>1, <2>1, HeadTailProperties
    <2>3. CASE assets[i] > 0
      <3>1. UNCHANGED <<assets, pc, raced>> /\ queue' = [queue EXCEPT ![w] = Tail(queue[w])]
        BY <1>4, <2>2, <2>3 DEF Match
      <3> QED BY <1>1, <2>1, <3>1, Calm DEF At
    <2>4. CASE ~(assets[i] > 0)
      <3>1. /\ pc' = [pc EXCEPT ![w] = "create"] /\ UNCHANGED <<assets, queue>>
            /\ raced' = IF Creating(i) = {} THEN raced ELSE raced \cup {i}
        BY <1>4, <2>2, <2>4 DEF Match, Goto
      <3>2. ASSUME NEW j \in Ids
            PROVE  Creating(j)' = IF j = i THEN Creating(j) \cup {w} ELSE Creating(j)
        BY <1>1, <2>1, <2>2, <3>1 DEF Creating, At
      <3>3. ASSUME NEW j \in Ids \ raced'
            PROVE  /\ assets'[j] <= 1
                   /\ \A u \in Creating(j)' : assets'[j] = 0
                   /\ \A u, v \in Creating(j)' : u = v
        <4>1. CASE j # i
          BY <3>1, <3>2, <3>3, <4>1 DEF UniqueInv
        <4>2. CASE j = i
          <5>1. Creating(i) = {} /\ Creating(i)' = {w}
            BY <3>1, <3>2, <3>3, <4>2
          <5>2. assets'[i] = 0
            BY <1>1, <2>4, <3>1
          <5> QED BY <4>2, <5>1, <5>2
        <4> QED BY <4>1, <4>2
      <3> QED BY <3>3 DEF UniqueInv
    <2> QED BY <2>3, <2>4
  <1>5. ASSUME NEW w \in Workers, Create(w) PROVE UniqueInv'
    <2>1. queue[w] # <<>> /\ At(w, "create")
      BY <1>5 DEF Create, TypeInv, TypeOK
    <2>2. PICK i \in Ids : i = Head(queue[w])
      BY <1>1, <2>1, HeadTailProperties
    <2>3. /\ assets' = [assets EXCEPT ![i] = assets[i] + 1] /\ raced' = raced
          /\ pc' = [pc EXCEPT ![w] = "match"] /\ queue' = [queue EXCEPT ![w] = Tail(queue[w])]
      BY <1>5, <2>2 DEF Create, Goto, history
    <2>4. \A j \in Ids : Creating(j)' = Creating(j) \ {w}
      BY <1>1, <2>3 DEF Creating, At
    <2>5. w \in Creating(i)
      BY <2>1, <2>2 DEF Creating
    <2>6. ASSUME NEW j \in Ids \ raced
          PROVE  /\ assets'[j] <= 1
                 /\ \A u \in Creating(j)' : assets'[j] = 0
                 /\ \A u, v \in Creating(j)' : u = v
      <3>1. CASE j # i
        BY <1>1, <2>3, <2>4, <3>1 DEF UniqueInv
      <3>2. CASE j = i
        <4>1. assets[i] = 0 /\ Creating(i)' = {}
          BY <2>4, <2>5, <2>6, <3>2 DEF UniqueInv
        <4> QED BY <1>1, <2>3, <3>2, <4>1
      <3> QED BY <3>1, <3>2
    <2> QED BY <2>3, <2>6 DEF UniqueInv
  <1>6. CASE Crash
    <2>1. assets' = assets /\ raced' = raced /\ \A v \in Workers : ~At(v, "create")'
      BY <1>6 DEF Crash, At
    <2> QED BY <1>1, <2>1, Calm
  <1>7. CASE UNCHANGED vars
    BY <1>1, <1>7, Calm DEF vars, handler, history, At
  <1> QED BY <1>2, <1>3, <1>4, <1>5, <1>6, <1>7 DEF Next, Proceed

LEMMA UniqueInit == Init => UniqueInv
  BY DEF Init, UniqueInv, Creating, At

\* Without a constraint, an id has two assets only if two handlers raced for it.
THEOREM Unique == Spec => []UniqueUnlessRaced
  <1>1. UniqueInv => UniqueUnlessRaced
    BY DEF UniqueInv, UniqueUnlessRaced
  <1> QED BY TypeInit, TypeStep, UniqueInit, UniqueStep, <1>1, PTL DEF Spec

-----------------------------------------------------------------------------
(* What the answers mean.                                                  *)

\* A Reset and a call beside it know of each other.
BesideInv ==
    \A v, w \in Workers :
        v # w /\ pc[v] # "idle" /\ pc[w] # "idle" /\ call[v] = ResetCall =>
            disturbed[v] /\ disturbed[w]

LEMMA BesideStep == TypeInv /\ BesideInv /\ [Next]_vars => BesideInv'
  <1> SUFFICES ASSUME TypeInv, BesideInv, [Next]_vars PROVE BesideInv'
    OBVIOUS
  <1>1. /\ pc = [w \in Workers |-> pc[w]] /\ call = [w \in Workers |-> call[w]]
        /\ disturbed = [w \in Workers |-> disturbed[w]]
        /\ \A w \in Workers : disturbed[w] \in BOOLEAN
    BY DEF TypeInv, TypeOK
  <1>2. ASSUME NEW w \in Workers, NEW c, Start(w, c) PROVE BesideInv'
    <2>1. /\ call' = [call EXCEPT ![w] = c]
          /\ pc[w] = "idle" /\ \A v \in Workers : v # w => pc'[v] = pc[v]
          /\ disturbed' = [v \in Workers |->
                IF v = w THEN \E u \in Running : Disturbs(call[u].kind, c.kind)
                ELSE disturbed[v] \/ (v \in Running /\ Disturbs(c.kind, call[v].kind))]
      BY <1>1, <1>2 DEF Start, At, Goto
    <2>2. ResetCall.kind = "reset"
      BY DEF ResetCall
    <2>3. ASSUME NEW v \in Workers, v # w, pc[v] # "idle",
                 c = ResetCall \/ call[v] = ResetCall
          PROVE  disturbed'[w] /\ disturbed'[v]
      <3>1. v \in Running /\ Disturbs(call[v].kind, c.kind) /\ Disturbs(c.kind, call[v].kind)
        BY <2>2, <2>3 DEF Running, Disturbs
      <3> QED BY <2>1, <2>3, <3>1
    <2>4. ASSUME NEW u \in Workers, NEW v \in Workers, u # v, pc'[u] # "idle", pc'[v] # "idle",
                 call'[u] = ResetCall
          PROVE  disturbed'[u] /\ disturbed'[v]
      <3>1. CASE u = w
        BY <1>1, <2>1, <2>3, <2>4, <3>1
      <3>2. CASE v = w
        BY <1>1, <2>1, <2>3, <2>4, <3>2
      <3>3. CASE u # w /\ v # w
        <4>1. disturbed[u] /\ disturbed[v]
          BY <1>1, <2>1, <2>4, <3>3 DEF BesideInv
        <4> QED BY <2>1, <3>3, <4>1
      <3> QED BY <3>1, <3>2, <3>3
    <2> QED BY <2>4 DEF BesideInv
  <1>3. ASSUME NEW w \in Workers, \/ Process(w) \/ Exported(w) \/ Match(w) \/ Create(w)
                                  \/ Trash(w) \/ ReturnError(w)
        PROVE  BesideInv'
    <2>1. UNCHANGED <<call, disturbed>> /\ pc[w] # "idle" /\ \A v \in Workers : v # w => pc'[v] = pc[v]
      BY <1>1, <1>3 DEF Process, Exported, Match, Create, Trash, ReturnError, At, Goto, history
    <2> QED BY <2>1 DEF BesideInv
  <1>4. ASSUME NEW w \in Workers, Respond(w) PROVE BesideInv'
    BY <1>1, <1>4 DEF Respond, Goto, BesideInv
  <1>5. CASE Crash
    BY <1>5 DEF Crash, BesideInv
  <1>6. CASE UNCHANGED vars
    BY <1>6 DEF vars, handler, history, BesideInv
  <1> QED BY <1>2, <1>3, <1>4, <1>5, <1>6 DEF Next, Proceed

\* What is left of a stack is in the queue, unless a Reset ran.
Exporting(w) == pc[w] \in {"match", "create", "done"} /\ call[w].kind = "stack" /\ ~disturbed[w]
Awaits(q, i) == \E j \in 1..Len(q) : q[j] = i
Kept(c, q, a, step) ==
    /\ \A k \in 1..Len(c.stack) : Awaits(q, c.stack[k]) \/ a[c.stack[k]] > 0
    /\ step = "done" => q = <<>>
StoredOf(w) == Exporting(w) => Kept(call[w], queue[w], assets, pc[w])
StoredInv == \A w \in Workers : StoredOf(w)

\* A handler keeps what it has while assets are only added.
LEMMA KeepsStored ==
    ASSUME TypeInv, NEW v \in Workers, StoredOf(v),
           Exporting(v)' => Exporting(v) /\ call'[v] = call[v] /\ queue'[v] = queue[v],
           pc'[v] = "done" => pc[v] = "done",
           assets' \in [Ids -> Nat], \A i \in Ids : assets'[i] >= assets[i]
    PROVE  StoredOf(v)'
  <1> SUFFICES ASSUME Exporting(v)'
               PROVE  Kept(call'[v], queue'[v], assets', pc'[v])
    BY DEF StoredOf
  <1>1. Exporting(v) /\ call'[v] = call[v] /\ queue'[v] = queue[v]
    OBVIOUS
  <1>2. call[v].stack \in Seq(Ids) /\ Kept(call[v], queue[v], assets, pc[v])
    BY <1>1, Stacked DEF Exporting, StoredOf
  <1>3. ASSUME NEW k \in 1..Len(call[v].stack)
        PROVE  Awaits(queue[v], call[v].stack[k]) \/ assets'[call[v].stack[k]] > 0
    <2>1. call[v].stack[k] \in Ids
      BY <1>2, ElementOfSeq
    <2>2. CASE assets[call[v].stack[k]] > 0
      <3>1. /\ assets[call[v].stack[k]] \in Nat /\ assets'[call[v].stack[k]] \in Nat
            /\ assets'[call[v].stack[k]] >= assets[call[v].stack[k]]
        BY <2>1 DEF TypeInv, TypeOK
      <3> QED BY <2>2, <3>1
    <2> QED BY <1>2, <1>3, <2>2 DEF Kept
  <1> QED BY <1>1, <1>2, <1>3 DEF Kept

\* A handler is done with the head of its queue once there is an asset for it.
LEMMA HeadStored ==
    ASSUME TypeInv, NEW w \in Workers, StoredOf(w), Exporting(w), pc[w] # "done", queue[w] # <<>>,
           pc'[w] # "done", call'[w] = call[w], queue'[w] = Tail(queue[w]),
           assets' \in [Ids -> Nat], \A i \in Ids : assets'[i] >= assets[i],
           assets'[Head(queue[w])] > 0
    PROVE  StoredOf(w)'
  <1>1. queue[w] \in Seq(Ids) /\ call[w].stack \in Seq(Ids)
    BY Stacked DEF TypeInv, TypeOK, Exporting
  <1>2. /\ Len(queue[w]) \in Nat \ {0} /\ Len(queue'[w]) = Len(queue[w]) - 1
        /\ \A j \in 1..Len(queue'[w]) : queue'[w][j] = queue[w][j + 1]
        /\ queue[w][1] = Head(queue[w])
    BY <1>1, HeadTailProperties, EmptySeq
  <1>3. ASSUME NEW k \in 1..Len(call[w].stack)
        PROVE  Awaits(queue'[w], call[w].stack[k]) \/ assets'[call[w].stack[k]] > 0
    <2>1. call[w].stack[k] \in Ids
      BY <1>1, ElementOfSeq
    <2>2. CASE assets[call[w].stack[k]] > 0
      <3>1. /\ assets[call[w].stack[k]] \in Nat /\ assets'[call[w].stack[k]] \in Nat
            /\ assets'[call[w].stack[k]] >= assets[call[w].stack[k]]
        BY <2>1 DEF TypeInv, TypeOK
      <3> QED BY <2>2, <3>1
    <2>3. CASE Awaits(queue[w], call[w].stack[k])
      <3>1. PICK j \in 1..Len(queue[w]) : queue[w][j] = call[w].stack[k]
        BY <2>3 DEF Awaits
      <3>2. CASE j = 1
        BY <1>2, <3>1, <3>2
      <3>3. CASE j # 1
        <4>1. j - 1 \in 1..Len(queue'[w]) /\ queue'[w][j - 1] = queue[w][j]
          BY <1>2, <3>3
        <4> QED BY <3>1, <4>1 DEF Awaits
      <3> QED BY <3>2, <3>3
    <2> QED BY <2>2, <2>3 DEF StoredOf, Kept
  <1> QED BY <1>3 DEF StoredOf, Kept, Awaits

LEMMA StoredStep == TypeInv /\ BesideInv /\ StoredInv /\ [Next]_vars => StoredInv'
  <1> SUFFICES ASSUME TypeInv, BesideInv, StoredInv, [Next]_vars, NEW v \in Workers
               PROVE  StoredOf(v)'
    BY DEF StoredInv
  <1>1. /\ assets \in [Ids -> Nat] /\ pc = [w \in Workers |-> pc[w]]
        /\ call = [w \in Workers |-> call[w]] /\ queue \in [Workers -> Seq(Ids)]
        /\ disturbed \in [Workers -> BOOLEAN]
        /\ \A i \in Ids : assets[i] >= assets[i]
    BY DEF TypeInv, TypeOK
  <1>2. StoredOf(v)
    BY DEF StoredInv
  <1>3. ASSUME NEW w \in Workers, NEW c, Start(w, c) PROVE StoredOf(v)'
    <2>1. CASE v = w
      BY <1>1, <1>3, <2>1 DEF Start, Goto, StoredOf, Exporting
    <2>2. CASE v # w
      BY <1>1, <1>2, <1>3, <2>2, KeepsStored DEF Start, Goto, Exporting
    <2> QED BY <2>1, <2>2
  <1>4. ASSUME NEW w \in Workers, Process(w) PROVE StoredOf(v)'
    <2>1. CASE v = w
      <3>1. queue'[w] = call[w].stack /\ call' = call /\ pc'[w] = "match"
        BY <1>1, <1>4 DEF Process, Goto
      <3> QED BY <2>1, <3>1 DEF StoredOf, Kept, Awaits
    <2>2. CASE v # w
      BY <1>1, <1>2, <1>4, <2>2, KeepsStored DEF Process, Goto, Exporting, history
    <2> QED BY <2>1, <2>2
  <1>5. ASSUME NEW w \in Workers, Exported(w) PROVE StoredOf(v)'
    <2>1. CASE v = w
      <3>1. /\ pc[w] = "match" /\ pc'[w] = "done" /\ queue[w] = <<>>
            /\ UNCHANGED <<assets, call, queue, disturbed>>
        BY <1>1, <1>5 DEF Exported, Goto, At, history
      <3> QED BY <1>2, <2>1, <3>1 DEF StoredOf, Exporting, Kept
    <2>2. CASE v # w
      BY <1>1, <1>2, <1>5, <2>2, KeepsStored DEF Exported, Goto, Exporting, history
    <2> QED BY <2>1, <2>2
  <1>6. ASSUME NEW w \in Workers, Match(w) PROVE StoredOf(v)'
    <2>1. /\ queue[w] # <<>> /\ pc[w] = "match" /\ UNCHANGED <<assets, call, disturbed>>
          /\ call[w].kind = "stack"
      BY <1>6 DEF Match, At, TypeInv, StepsInv
    <2>2. CASE assets[Head(queue[w])] > 0
      <3>1. pc' = pc /\ queue' = [queue EXCEPT ![w] = Tail(queue[w])]
        BY <1>6, <2>2 DEF Match
      <3>2. CASE v = w
        <4>1. CASE disturbed[w]
          BY <2>1, <3>2, <4>1 DEF StoredOf, Exporting
        <4>2. CASE ~disturbed[w]
          BY <1>1, <1>2, <2>1, <2>2, <3>1, <3>2, <4>2, HeadStored DEF Exporting
        <4> QED BY <4>1, <4>2
      <3>3. CASE v # w
        BY <1>1, <1>2, <2>1, <3>1, <3>3, KeepsStored DEF Exporting
      <3> QED BY <3>2, <3>3
    <2>3. CASE ~(assets[Head(queue[w])] > 0)
      <3>1. queue' = queue /\ pc' = [pc EXCEPT ![w] = "create"]
        BY <1>6, <2>3 DEF Match, Goto
      <3> QED BY <1>1, <1>2, <2>1, <3>1, KeepsStored DEF Exporting
    <2> QED BY <2>2, <2>3
  <1>7. ASSUME NEW w \in Workers, Create(w) PROVE StoredOf(v)'
    <2>1. /\ queue[w] # <<>> /\ pc[w] = "create" /\ UNCHANGED <<call, disturbed>>
          /\ call[w].kind = "stack"
      BY <1>7 DEF Create, At, TypeInv, TypeOK, StepsInv, history
    <2>2. PICK i \in Ids : i = Head(queue[w])
      BY <1>1, <2>1, HeadTailProperties
    <2>3. /\ assets' = [assets EXCEPT ![i] = assets[i] + 1]
          /\ pc' = [pc EXCEPT ![w] = "match"] /\ queue' = [queue EXCEPT ![w] = Tail(queue[w])]
      BY <1>7, <2>2 DEF Create, Goto
    <2>4. /\ assets' \in [Ids -> Nat] /\ \A j \in Ids : assets'[j] >= assets[j]
          /\ assets'[i] > 0
      BY <1>1, <2>3
    <2>5. CASE v = w
      <3>1. CASE disturbed[w]
        BY <2>1, <2>5, <3>1 DEF StoredOf, Exporting
      <3>2. CASE ~disturbed[w]
        BY <1>1, <1>2, <2>1, <2>2, <2>3, <2>4, <2>5, <3>2, HeadStored DEF Exporting
      <3> QED BY <3>1, <3>2
    <2>6. CASE v # w
      BY <1>1, <1>2, <2>1, <2>3, <2>4, <2>6, KeepsStored DEF Exporting
    <2> QED BY <2>5, <2>6
  <1>8. ASSUME NEW w \in Workers, Trash(w) PROVE StoredOf(v)'
    <2>1. pc[w] = "trash" /\ call[w] = ResetCall /\ UNCHANGED <<call, disturbed>>
      BY <1>8, Trashed DEF At, TypeInv, StepsInv, history
    <2>2. call[w].kind # "stack"
      BY <2>1 DEF ResetCall
    <2>3. pc' = pc \/ pc' = [pc EXCEPT ![w] = "done"]
      BY <1>8, Trashed DEF TypeInv
    <2>4. CASE v = w
      BY <2>1, <2>2, <2>4 DEF StoredOf, Exporting
    <2>5. CASE v # w
      <3>1. pc'[v] # "idle" => disturbed[v]
        BY <1>1, <2>1, <2>3, <2>5 DEF BesideInv
      <3> QED BY <2>1, <3>1 DEF StoredOf, Exporting
    <2> QED BY <2>4, <2>5
  <1>9. ASSUME NEW w \in Workers, ReturnError(w) PROVE StoredOf(v)'
    BY <1>1, <1>2, <1>9, KeepsStored DEF ReturnError, Goto, Exporting, history
  <1>10. ASSUME NEW w \in Workers, Respond(w) PROVE StoredOf(v)'
    <2>1. CASE v = w
      BY <1>1, <1>10, <2>1 DEF Respond, Goto, StoredOf, Exporting
    <2>2. CASE v # w
      BY <1>1, <1>2, <1>10, <2>2, KeepsStored DEF Respond, Goto, Exporting
    <2> QED BY <2>1, <2>2
  <1>11. CASE Crash
    BY <1>11 DEF Crash, StoredOf, Exporting
  <1>12. CASE UNCHANGED vars
    BY <1>1, <1>2, <1>12, KeepsStored DEF vars, handler, history, Exporting
  <1> QED BY <1>3, <1>4, <1>5, <1>6, <1>7, <1>8, <1>9, <1>10, <1>11, <1>12 DEF Next, Proceed

LEMMA EmptyStep == TypeInv /\ BesideInv /\ AloneResetEmpties /\ [Next]_vars => AloneResetEmpties'
  <1> SUFFICES ASSUME TypeInv, BesideInv, AloneResetEmpties, [Next]_vars, NEW v \in Workers,
                      At(v, "done")', call'[v] = ResetCall, ~disturbed'[v]
               PROVE  Nodes' = {}
    BY DEF AloneResetEmpties
  <1>1. /\ pc = [w \in Workers |-> pc[w]] /\ call = [w \in Workers |-> call[w]]
        /\ disturbed \in [Workers -> BOOLEAN]
    BY DEF TypeInv, TypeOK
  <1> DEFINE Was == At(v, "done") /\ call[v] = ResetCall /\ ~disturbed[v]
  <1>2. Was => Nodes = {}
    BY DEF AloneResetEmpties
  <1>3. assets' = assets => Nodes' = Nodes
    BY DEF Nodes
  <1>4. ASSUME NEW w \in Workers,
               \/ Start(w, ResetCall) \/ \E s \in Stacks : Start(w, StackCall(s))
               \/ Process(w) \/ Exported(w) \/ Match(w) \/ ReturnError(w) \/ Respond(w)
        PROVE  Nodes' = {}
    <2>1. assets' = assets
      BY <1>4 DEF Start, Process, Exported, Match, ReturnError, Respond
    <2>2. ASSUME v = w, Exported(w) PROVE FALSE
      <3>1. call[w].kind = "stack" /\ call' = call
        BY <2>2 DEF Exported, At, TypeInv, StepsInv
      <3> QED BY <2>2, <3>1 DEF ResetCall
    <2>3. CASE v = w
      BY <1>1, <1>4, <2>2, <2>3 DEF Start, Process, Match, ReturnError, Respond, At, Goto
    <2>4. CASE v # w
      <3>1. Was
        BY <1>1, <1>4, <2>4 DEF Start, Process, Exported, Match, ReturnError, Respond, At, Goto,
                                history
      <3> QED BY <1>2, <1>3, <2>1, <3>1
    <2> QED BY <2>3, <2>4
  <1>5. ASSUME NEW w \in Workers, Create(w) PROVE Nodes' = {}
    <2>1. /\ pc[w] = "create" /\ UNCHANGED <<call, disturbed>> /\ pc' = [pc EXCEPT ![w] = "match"]
      BY <1>5 DEF Create, At, Goto, history
    <2>2. v # w /\ pc[v] = "done"
      BY <1>1, <2>1 DEF At
    <2> QED BY <2>1, <2>2 DEF BesideInv
  <1>6. ASSUME NEW w \in Workers, Trash(w) PROVE Nodes' = {}
    <2>1. /\ pc[w] = "trash" /\ UNCHANGED <<call, disturbed>>
          /\ \/ pc' = pc
             \/ pc' = [pc EXCEPT ![w] = "done"] /\ Nodes' = {}
      BY <1>6, Trashed DEF At, history, TypeInv
    <2>2. CASE pc' = pc
      <3>1. v # w /\ pc[v] = "done"
        BY <2>1, <2>2 DEF At
      <3> QED BY <2>1, <3>1 DEF BesideInv
    <2> QED BY <2>1, <2>2
  <1>7. CASE Crash
    BY <1>7 DEF Crash, At
  <1>8. CASE UNCHANGED vars
    BY <1>2, <1>3, <1>8 DEF vars, handler, history, At
  <1> QED BY <1>4, <1>5, <1>6, <1>7, <1>8 DEF Next, Proceed

LEMMA AnswersInit == Init => BesideInv /\ StoredInv /\ AloneResetEmpties
  BY DEF Init, BesideInv, StoredInv, StoredOf, Exporting, AloneResetEmpties, At

\* An answer without an error means that the stack is stored, unless a Reset ran
\* beside the call.
THEOREM Stored == Spec => []AnsweredStackIsStored
  <1>1. TypeInv /\ StoredInv => AnsweredStackIsStored
    <2> SUFFICES ASSUME TypeInv, StoredInv, NEW w \in Workers, At(w, "done"),
                        call[w].kind = "stack", ~disturbed[w], NEW k \in DOMAIN call[w].stack
                 PROVE  assets[call[w].stack[k]] > 0
      BY DEF AnsweredStackIsStored
    <2>1. call[w].stack \in Seq(Ids)
      BY Stacked
    <2>2. queue[w] = <<>> /\ k \in 1..Len(call[w].stack)
      BY <2>1 DEF StoredInv, StoredOf, Kept, Exporting, At
    <2>3. ~Awaits(queue[w], call[w].stack[k])
      BY <2>2 DEF Awaits
    <2> QED BY <2>2, <2>3 DEF StoredInv, StoredOf, Kept, Exporting, At
  <1> QED BY TypeInit, TypeStep, AnswersInit, BesideStep, StoredStep, <1>1, PTL DEF Spec

\* A Reset that ran alone and was answered without an error has left no asset.
THEOREM Emptied == Spec => []AloneResetEmpties
  BY TypeInit, TypeStep, AnswersInit, BesideStep, EmptyStep, PTL DEF Spec

=============================================================================
