--------------------------- MODULE AnalyserProofs ---------------------------
(* Theorems about the analyser, for every module and every call graph.     *)
EXTENDS Analyser, FiniteSetTheorems, SequenceTheorems, WellFoundedInduction, TLAPS

-----------------------------------------------------------------------------
(* Type correctness.                                                       *)

\* Functions of a directory's graph that have a package.
Packaged(F, d) == \A f \in F : f \in GraphNodes[d] /\ PackageOf[f] # None

PendingInv ==
    /\ dir = None => roots = {} /\ stack = <<>>
    /\ dir # None => /\ dir \in DOMAIN GraphNodes
                     /\ Packaged(roots, dir)
                     /\ \A i \in 1..Len(stack) : /\ Packaged(stack[i].out, dir)
                                                /\ stack[i].function \in GraphNodes[dir]
                                                /\ stack[i].object \in 1..Len(heap)

TypeInv == TypeOK /\ PendingInv

FrameOf(f) == [function |-> f, object |-> Len(heap) + 1, out |-> Out(dir, f)]

\* What entering a function does to the stack and the heap.
LEMMA Entered ==
    ASSUME TypeOK, NEW f \in Functions, dir \in DOMAIN GraphNodes, f \in GraphNodes[dir], Enter(f)
    PROVE  /\ Out(dir, f) \subseteq Functions /\ Packaged(Out(dir, f), dir)
           /\ stack' \in Seq(Frame) /\ Len(stack') = Len(stack) + 1
           /\ \A i \in 1..Len(stack) : stack'[i] = stack[i]
           /\ stack'[Len(stack) + 1] = FrameOf(f)
           /\ heap' \in Seq(SUBSET Functions) /\ Len(heap') = Len(heap) + 1
           /\ \A o \in 1..Len(heap) : heap'[o] = heap[o]
           /\ heap'[Len(heap) + 1] = {}
           /\ symbols' \in [Functions -> 0..Len(heap')]
           /\ symbols' = [symbols EXCEPT ![f] = Len(heap) + 1]
  <1>1. Out(dir, f) \subseteq Functions /\ Packaged(Out(dir, f), dir)
    BY CallGraphsAssumption DEF Out, Packaged
  <1>2. stack \in Seq(Frame) /\ heap \in Seq(SUBSET Functions) /\ Len(heap) \in Nat
    BY DEF TypeOK
  <1>3. FrameOf(f) \in Frame
    BY <1>1, <1>2 DEF FrameOf, Frame
  <1>4. stack' = Append(stack, FrameOf(f))
    BY DEF Enter, FrameOf
  <1>5. /\ stack' \in Seq(Frame) /\ Len(stack') = Len(stack) + 1
        /\ \A i \in 1..Len(stack) : stack'[i] = stack[i]
        /\ stack'[Len(stack) + 1] = FrameOf(f)
    BY <1>2, <1>3, <1>4, AppendProperties
  <1>6. heap' = Append(heap, {}) /\ {} \in SUBSET Functions
    BY DEF Enter
  <1>7. /\ heap' \in Seq(SUBSET Functions) /\ Len(heap') = Len(heap) + 1
        /\ \A o \in 1..Len(heap) : heap'[o] = heap[o]
        /\ heap'[Len(heap) + 1] = {}
    BY <1>2, <1>6, AppendProperties
  <1>8. symbols' \in [Functions -> 0..Len(heap')]
    BY <1>2, <1>7 DEF Enter, TypeOK
  <1> QED BY <1>1, <1>5, <1>7, <1>8 DEF Enter

\* What adding a dependency does to them.
LEMMA Added ==
    ASSUME TypeInv, AddDependency
    PROVE  \E g \in Functions, n \in 1..Len(stack) :
             /\ n = Len(stack) /\ g \in stack[n].out /\ symbols[g] # 0
             /\ stack' \in Seq(Frame) /\ Len(stack') = Len(stack)
             /\ \A i \in 1..Len(stack) :
                   stack'[i] = IF i = n THEN [stack[n] EXCEPT !.out = stack[n].out \ {g}] ELSE stack[i]
             /\ heap' \in Seq(SUBSET Functions) /\ Len(heap') = Len(heap)
             /\ \A o \in 1..Len(heap) :
                   heap'[o] = IF o = stack[n].object THEN heap[o] \cup {g} ELSE heap[o]
  <1>1. stack \in Seq(Frame) /\ heap \in Seq(SUBSET Functions) /\ stack # <<>>
    BY DEF AddDependency, TypeInv, TypeOK
  <1>2. PICK n \in 1..Len(stack) : n = Len(stack)
    BY <1>1, LenProperties, EmptySeq
  <1>3. PICK g \in top.out : /\ symbols[g] # 0
                             /\ heap' = [heap EXCEPT ![top.object] = @ \cup {g}]
                             /\ stack' = [stack EXCEPT ![Len(stack)].out = @ \ {g}]
    BY DEF AddDependency, MustRegister
  <1>4. stack[n] \in Frame /\ top = stack[n]
    BY <1>1, <1>2, ElementOfSeq DEF top
  <1>5. g \in Functions /\ g \in stack[n].out
    BY <1>3, <1>4 DEF Frame
  <1>6. n \in 1..Len(stack) /\ dir # None
    BY <1>1 DEF TypeInv, PendingInv
  <1>7. stack[n].object \in 1..Len(heap)
    BY <1>6 DEF TypeInv, PendingInv
  <1> DEFINE fr == [stack[n] EXCEPT !.out = stack[n].out \ {g}]
             ds == heap[stack[n].object] \cup {g}
  <1>8. fr \in Frame /\ ds \in SUBSET Functions
    <2>1. heap[stack[n].object] \in SUBSET Functions
      BY <1>1, <1>7, ElementOfSeq
    <2> QED BY <1>4, <1>5, <2>1 DEF Frame
  <1>9. stack' = [stack EXCEPT ![n] = fr] /\ heap' = [heap EXCEPT ![stack[n].object] = ds]
    BY <1>2, <1>3, <1>4
  <1> HIDE DEF fr, ds
  <1>10. /\ stack' \in Seq(Frame) /\ Len(stack') = Len(stack)
         /\ \A i \in 1..Len(stack) : stack'[i] = IF i = n THEN fr ELSE stack[i]
    BY <1>1, <1>8, <1>9, ExceptSeq
  <1>11. /\ heap' \in Seq(SUBSET Functions) /\ Len(heap') = Len(heap)
         /\ \A o \in 1..Len(heap) : heap'[o] = IF o = stack[n].object THEN ds ELSE heap[o]
    BY <1>1, <1>7, <1>8, <1>9, ExceptSeq
  <1> g \in Functions
    BY <1>5
  <1> WITNESS g \in Functions, n \in 1..Len(stack)
  <1> QED BY <1>2, <1>3, <1>5, <1>10, <1>11 DEF fr, ds

\* What returning does to the stack.
LEMMA Returned ==
    ASSUME TypeOK, Return
    PROVE  /\ Len(stack) \in 1..Len(stack) /\ stack[Len(stack)].out = {}
           /\ stack' \in Seq(Frame) /\ Len(stack') = Len(stack) - 1
           /\ \A i \in 1..Len(stack') : stack'[i] = stack[i]
  <1>1. stack \in Seq(Frame) /\ stack # <<>> /\ stack' = SubSeq(stack, 1, Len(stack) - 1)
    BY DEF Return, TypeOK
  <1>2. PICK n \in Nat \ {0} : n = Len(stack)
    BY <1>1, EmptySeq
  <1>3. n - 1 \in Nat /\ n - 1 - 1 + 1 = n - 1 /\ (1 <= n - 1 \/ n - 1 = 0)
    OBVIOUS
  <1>4. \A i \in 1..(n - 1) : stack[i] \in Frame
    BY <1>1, <1>2, ElementOfSeq
  <1>5. /\ SubSeq(stack, 1, n - 1) \in Seq(Frame)
        /\ Len(SubSeq(stack, 1, n - 1)) = IF 1 <= n - 1 THEN n - 1 - 1 + 1 ELSE 0
        /\ \A i \in 1..(n - 1 - 1 + 1) : SubSeq(stack, 1, n - 1)[i] = stack[1 + i - 1]
    BY <1>3, <1>4, SubSeqProperties
  <1>6. stack' \in Seq(Frame) /\ Len(stack') = n - 1
    BY <1>1, <1>2, <1>3, <1>5
  <1>7. \A i \in 1..(n - 1) : stack'[i] = stack[i]
    BY <1>1, <1>2, <1>3, <1>5
  <1>8. stack[Len(stack)].out = {}
    BY DEF Return, top
  <1> QED BY <1>2, <1>6, <1>7, <1>8

LEMMA TypeInit == Init => TypeInv
  BY CallGraphsAssumption DEF Init, TypeInv, TypeOK, PendingInv

\* A function that the loop or a frame may enter.
LEMMA MayEnter ==
    ASSUME TypeInv
    PROVE  /\ \A f \in roots : /\ dir # None /\ dir \in DOMAIN GraphNodes
                               /\ f \in Functions /\ f \in GraphNodes[dir] /\ PackageOf[f] \in Packages
           /\ stack # <<>> => \A f \in top.out :
                  /\ dir # None /\ dir \in DOMAIN GraphNodes
                  /\ f \in Functions /\ f \in GraphNodes[dir] /\ PackageOf[f] \in Packages
  <1>1. \A f \in roots : /\ dir # None /\ dir \in DOMAIN GraphNodes
                         /\ f \in Functions /\ f \in GraphNodes[dir] /\ PackageOf[f] \in Packages
    BY CallGraphsAssumption DEF TypeInv, TypeOK, PendingInv, Packaged
  <1>2. ASSUME stack # <<>>, NEW f \in top.out
        PROVE  /\ dir # None /\ dir \in DOMAIN GraphNodes
               /\ f \in Functions /\ f \in GraphNodes[dir] /\ PackageOf[f] \in Packages
    <2>1. stack \in Seq(Frame)
      BY DEF TypeInv, TypeOK
    <2>2. Len(stack) \in 1..Len(stack)
      BY <1>2, <2>1, EmptySeq, LenProperties
    <2>3. dir # None
      BY <1>2 DEF TypeInv, PendingInv
    <2>4. dir \in DOMAIN GraphNodes /\ f \in GraphNodes[dir] /\ PackageOf[f] # None
      BY <1>2, <2>2, <2>3 DEF TypeInv, PendingInv, Packaged, top
    <2> QED BY <2>3, <2>4, CallGraphsAssumption
  <1> QED BY <1>1, <1>2

LEMMA TypeStep == TypeInv /\ [Next]_vars => TypeInv'
  <1> SUFFICES ASSUME TypeInv, [Next]_vars PROVE TypeInv'
    OBVIOUS
  <1>1. CASE Analyze
    <2>1. dir' \in DOMAIN GraphNodes /\ todo' \in Seq(DOMAIN GraphNodes) /\ UNCHANGED stack /\ stack = <<>>
      BY <1>1 DEF Analyze, TypeInv, TypeOK
    <2>2. Packaged(roots', dir')
      BY <1>1, <2>1, CallGraphsAssumption DEF Analyze, Packaged
    <2>3. roots' \subseteq Functions
      BY <1>1, <2>1, CallGraphsAssumption DEF Analyze
    <2>4. dir' # None
      BY <2>1, CallGraphsAssumption
    <2> QED BY <1>1, <2>1, <2>2, <2>3, <2>4 DEF Analyze, TypeInv, TypeOK, PendingInv
  <1>2. ASSUME NEW f \in Functions, dir # None, dir \in DOMAIN GraphNodes, f \in GraphNodes[dir],
               PackageOf[f] \in Packages, Enter(f), roots' \subseteq roots,
               UNCHANGED <<todo, dir, status>>
        PROVE  TypeInv'
    <2>1. provided' \in [Modules -> SUBSET Packages]
      BY <1>2 DEF Enter, TypeInv, TypeOK
    <2>2. Len(stack) \in Nat /\ Len(heap) \in Nat
      BY DEF TypeInv, TypeOK
    <2>3. TypeOK'
      BY <1>2, <2>1, Entered DEF TypeInv, TypeOK
    <2>4. \A i \in 1..Len(stack') : i \in 1..Len(stack) \/ i = Len(stack) + 1
      BY <1>2, <2>2, Entered DEF TypeInv
    <2>5. ASSUME NEW i \in 1..Len(stack)
          PROVE  /\ Packaged(stack'[i].out, dir') /\ stack'[i].function \in GraphNodes[dir']
                 /\ stack'[i].object \in 1..Len(heap')
      <3>1. stack'[i] = stack[i] /\ Len(heap') = Len(heap) + 1
        BY <1>2, Entered DEF TypeInv
      <3> QED BY <1>2, <2>2, <3>1 DEF TypeInv, PendingInv, Packaged
    <2>6. /\ Packaged(stack'[Len(stack) + 1].out, dir')
          /\ stack'[Len(stack) + 1].function \in GraphNodes[dir']
          /\ stack'[Len(stack) + 1].object \in 1..Len(heap')
      <3>1. stack'[Len(stack) + 1] = FrameOf(f) /\ Len(heap') = Len(heap) + 1 /\ Packaged(Out(dir, f), dir)
        BY <1>2, Entered DEF TypeInv
      <3> QED BY <1>2, <2>2, <3>1 DEF FrameOf, Packaged
    <2> QED BY <1>2, <2>3, <2>4, <2>5, <2>6 DEF TypeInv, PendingInv, Packaged
  <1>3. CASE RegisterRoot
    BY <1>2, <1>3, MayEnter DEF RegisterRoot
  <1>4. CASE RegisterCallee
    BY <1>2, <1>4, MayEnter DEF RegisterCallee
  <1>5. CASE AddDependency
    <2>1. UNCHANGED <<todo, dir, roots, symbols, provided, status>>
      BY <1>5 DEF AddDependency
    <2>2. stack' \in Seq(Frame) /\ heap' \in Seq(SUBSET Functions)
          /\ Len(stack') = Len(stack) /\ Len(heap') = Len(heap)
      BY <1>5, Added
    <2>3. ASSUME NEW i \in 1..Len(stack)
          PROVE  /\ stack'[i].out \subseteq stack[i].out
                 /\ stack'[i].function = stack[i].function
                 /\ stack'[i].object = stack[i].object
      <3>1. stack[i] \in Frame
        BY ElementOfSeq DEF TypeInv, TypeOK
      <3>2. PICK g \in Functions, n \in 1..Len(stack) : \A j \in 1..Len(stack) :
              stack'[j] = IF j = n THEN [stack[n] EXCEPT !.out = stack[n].out \ {g}] ELSE stack[j]
        BY <1>5, Added
      <3> QED BY <3>1, <3>2 DEF Frame
    <2>4. stack = <<>> => stack' = <<>>
      BY <1>5 DEF AddDependency
    <2> QED BY <2>1, <2>2, <2>3, <2>4 DEF TypeInv, TypeOK, PendingInv, Packaged
  <1>6. CASE Return
    <2>1. UNCHANGED <<todo, dir, roots, heap, symbols, provided, status>> /\ stack # <<>>
      BY <1>6 DEF Return
    <2>2. Len(stack) \in Nat /\ stack' \in Seq(Frame) /\ Len(stack') = Len(stack) - 1
      BY <1>6, Returned DEF TypeInv, TypeOK
    <2>3. \A i \in 1..Len(stack') : i \in 1..Len(stack) /\ stack'[i] = stack[i]
      BY <1>6, <2>2, Returned DEF TypeInv
    <2> QED BY <2>1, <2>2, <2>3 DEF TypeInv, TypeOK, PendingInv, Packaged
  <1>7. CASE LoadFails \/ Processed \/ UNCHANGED vars
    BY <1>7 DEF LoadFails, Processed, vars, TypeInv, TypeOK, PendingInv, Packaged
  <1> QED BY <1>1, <1>3, <1>4, <1>5, <1>6, <1>7 DEF Next

-----------------------------------------------------------------------------
(* The frames and their symbols.                                           *)

\* A frame writes to the symbol its function has, which is no other function's,
\* has the callees it is done with, and is not entered twice.
FramesInv ==
    /\ \A i \in 1..Len(stack) :
          /\ symbols[stack[i].function] = stack[i].object
          /\ stack[i].out \subseteq Out(dir, stack[i].function)
          /\ heap[stack[i].object] = Out(dir, stack[i].function) \ stack[i].out
    /\ \A i, j \in 1..Len(stack) : stack[i].function = stack[j].function => i = j
    /\ \A f, g \in Registered : symbols[f] = symbols[g] => f = g
    /\ CalleesAreRegistered

EnterAllowed(f) ==
    /\ f \in Functions /\ dir # None /\ dir \in DOMAIN GraphNodes /\ f \in GraphNodes[dir]
    /\ PackageOf[f] \in Packages
    /\ symbols[f] = 0 \/ stack = <<>>

LEMMA WhoEnters ==
    ASSUME TypeInv, RegisterRoot \/ RegisterCallee
    PROVE  \E f \in Functions : /\ EnterAllowed(f) /\ Enter(f)
                                /\ UNCHANGED <<todo, dir, status>>
                                /\ \/ symbols[f] = 0 /\ roots' = roots
                                   \/ f \in roots /\ roots' = roots \ {f}
  <1>1. CASE RegisterRoot
    <2>1. PICK f \in roots : Enter(f) /\ roots' = roots \ {f}
      BY <1>1 DEF RegisterRoot
    <2> QED BY <1>1, <2>1, MayEnter DEF RegisterRoot, EnterAllowed
  <1>2. CASE RegisterCallee
    <2>1. PICK f \in top.out : MustRegister(f) /\ Enter(f)
      BY <1>2 DEF RegisterCallee
    <2> QED BY <1>2, <2>1, MayEnter DEF RegisterCallee, EnterAllowed, MustRegister
  <1> QED BY <1>1, <1>2

LEMMA FramesEnter ==
    ASSUME TypeInv, FramesInv, NEW f \in Functions, EnterAllowed(f), Enter(f),
           UNCHANGED <<todo, dir, status>>
    PROVE  FramesInv'
  <1> DEFINE o == Len(heap) + 1
  <1>1. /\ Len(stack) \in Nat /\ Len(heap) \in Nat /\ stack = <<>> => Len(stack) = 0
        /\ symbols \in [Functions -> 0..Len(heap)]
    BY DEF TypeInv, TypeOK
  <1>2. /\ Len(stack') = Len(stack) + 1
        /\ \A i \in 1..Len(stack) : stack'[i] = stack[i]
        /\ stack'[Len(stack) + 1] = FrameOf(f)
        /\ \A x \in 1..Len(heap) : heap'[x] = heap[x]
        /\ heap'[o] = {}
        /\ symbols' = [symbols EXCEPT ![f] = o]
    BY Entered DEF TypeInv, EnterAllowed
  <1>4. ASSUME NEW i \in 1..Len(stack)
        PROVE  /\ stack[i] \in Frame /\ stack[i].object \in 1..Len(heap)
               /\ stack[i].function # f
    <2>1. stack[i] \in Frame
      BY ElementOfSeq DEF TypeInv, TypeOK
    <2>2. stack[i].object \in 1..Len(heap)
      BY <1>1 DEF TypeInv, PendingInv, EnterAllowed
    <2>3. symbols[f] = 0
      BY <1>1 DEF EnterAllowed
    <2> QED BY <1>1, <2>1, <2>2, <2>3 DEF FramesInv
  <1>5. ASSUME NEW i \in 1..Len(stack')
        PROVE  /\ symbols'[stack'[i].function] = stack'[i].object
               /\ stack'[i].out \subseteq Out(dir, stack'[i].function)
               /\ heap'[stack'[i].object] = Out(dir, stack'[i].function) \ stack'[i].out
    <2>1. CASE i \in 1..Len(stack)
      <3>1. stack'[i] = stack[i] /\ symbols'[stack[i].function] = symbols[stack[i].function]
        BY <1>1, <1>2, <1>4, <2>1 DEF Frame
      <3>2. heap'[stack[i].object] = heap[stack[i].object]
        BY <1>2, <1>4, <2>1
      <3> QED BY <2>1, <3>1, <3>2 DEF FramesInv
    <2>2. CASE i = Len(stack) + 1
      BY <1>1, <1>2, <2>2 DEF FrameOf
    <2> QED BY <1>1, <1>2, <2>1, <2>2
  <1>6. ASSUME NEW i \in 1..Len(stack'), NEW j \in 1..Len(stack'),
               stack'[i].function = stack'[j].function
        PROVE  i = j
    <2>1. stack'[Len(stack) + 1].function = f
      BY <1>2 DEF FrameOf
    <2> QED BY <1>1, <1>2, <1>4, <1>6, <2>1 DEF FramesInv
  <1>7. Registered' = Registered \cup {f}
    BY <1>1, <1>2 DEF Registered
  <1>8. ASSUME NEW g \in Registered', NEW h \in Registered', symbols'[g] = symbols'[h]
        PROVE  g = h
    BY <1>1, <1>2, <1>7, <1>8 DEF FramesInv, Registered
  <1>9. ASSUME NEW g \in Registered' PROVE Dependencies(g)' \subseteq Registered'
    <2>1. CASE g = f
      BY <1>1, <1>2, <2>1 DEF Dependencies
    <2>2. CASE g # f
      <3>1. symbols'[g] = symbols[g] /\ g \in Registered /\ symbols[g] \in 1..Len(heap)
        BY <1>1, <1>2, <1>7, <2>2 DEF Registered
      <3>2. Dependencies(g)' = Dependencies(g)
        BY <1>2, <3>1 DEF Dependencies
      <3> QED BY <1>7, <3>1, <3>2 DEF FramesInv, CalleesAreRegistered
    <2> QED BY <2>1, <2>2
  <1> QED BY <1>5, <1>6, <1>8, <1>9 DEF FramesInv, CalleesAreRegistered

LEMMA FramesStep == TypeInv /\ FramesInv /\ [Next]_vars => FramesInv'
  <1> SUFFICES ASSUME TypeInv, FramesInv, [Next]_vars PROVE FramesInv'
    OBVIOUS
  <1>1. CASE RegisterRoot \/ RegisterCallee
    BY <1>1, WhoEnters, FramesEnter
  <1>2. CASE AddDependency
    <2>1. PICK g \in Functions, n \in 1..Len(stack) :
             /\ n = Len(stack) /\ g \in stack[n].out /\ symbols[g] # 0
             /\ stack' \in Seq(Frame) /\ Len(stack') = Len(stack)
             /\ \A i \in 1..Len(stack) :
                   stack'[i] = IF i = n THEN [stack[n] EXCEPT !.out = stack[n].out \ {g}] ELSE stack[i]
             /\ heap' \in Seq(SUBSET Functions) /\ Len(heap') = Len(heap)
             /\ \A o \in 1..Len(heap) :
                   heap'[o] = IF o = stack[n].object THEN heap[o] \cup {g} ELSE heap[o]
      BY <1>2, Added
    <2>2. UNCHANGED <<dir, symbols>>
      BY <1>2 DEF AddDependency
    <2>3. Len(stack) \in Nat /\ symbols \in [Functions -> 0..Len(heap)] /\ Len(heap) \in Nat
      BY DEF TypeInv, TypeOK
    <2>4. ASSUME NEW i \in 1..Len(stack)
          PROVE  /\ stack[i] \in Frame /\ stack[i].object \in 1..Len(heap)
                 /\ stack[i].function \in Registered
      <3>1. stack[i] \in Frame
        BY ElementOfSeq DEF TypeInv, TypeOK
      <3>2. stack[i].object \in 1..Len(heap)
        BY <2>3 DEF TypeInv, PendingInv
      <3> QED BY <2>3, <3>1, <3>2 DEF FramesInv, Frame, Registered
    <2>5. ASSUME NEW i \in 1..Len(stack)
          PROVE  /\ stack'[i].function = stack[i].function
                 /\ stack'[i].object = stack[i].object
                 /\ stack'[i].out = IF i = n THEN stack[i].out \ {g} ELSE stack[i].out
      <3>1. CASE i = n
        BY <2>1, <2>4, <3>1 DEF Frame
      <3>2. CASE i # n
        BY <2>1, <2>4, <3>2
      <3> QED BY <3>1, <3>2
    <2>6. ASSUME NEW i \in 1..Len(stack), i # n
          PROVE  stack[i].object # stack[n].object
      BY <2>4, <2>6 DEF FramesInv
    <2>7. ASSUME NEW i \in 1..Len(stack)
          PROVE  /\ symbols[stack'[i].function] = stack'[i].object
                 /\ stack'[i].out \subseteq Out(dir, stack'[i].function)
                 /\ heap'[stack'[i].object] = Out(dir, stack'[i].function) \ stack'[i].out
      <3>1. CASE i = n
        <4>1. heap'[stack[n].object] = heap[stack[n].object] \cup {g}
          BY <2>1, <2>4
        <4>2. g \in Out(dir, stack[n].function)
          BY <2>1 DEF FramesInv
        <4>3. /\ symbols[stack[n].function] = stack[n].object
              /\ stack[n].out \subseteq Out(dir, stack[n].function)
              /\ heap[stack[n].object] = Out(dir, stack[n].function) \ stack[n].out
          BY DEF FramesInv
        <4>4. heap'[stack[n].object] = Out(dir, stack[n].function) \ (stack[n].out \ {g})
          BY <4>1, <4>2, <4>3
        <4>5. /\ stack'[n].function = stack[n].function
              /\ stack'[n].object = stack[n].object
              /\ stack'[n].out = stack[n].out \ {g}
          BY <2>5
        <4> QED BY <3>1, <4>3, <4>4, <4>5
      <3>2. CASE i # n
        <4>1. heap'[stack[i].object] = heap[stack[i].object]
          BY <2>1, <2>4, <2>6, <3>2
        <4> QED BY <2>5, <3>2, <4>1 DEF FramesInv
      <3> QED BY <3>1, <3>2
    <2>8. Registered' = Registered
      BY <2>2 DEF Registered
    <2>9. ASSUME NEW f \in Registered PROVE Dependencies(f)' \subseteq Registered
      <3>1. symbols[f] \in 1..Len(heap) /\ g \in Registered
        BY <2>1, <2>3 DEF Registered
      <3>2. heap'[symbols[f]] \subseteq heap[symbols[f]] \cup {g}
        BY <2>1, <3>1
      <3> QED BY <2>2, <3>1, <3>2 DEF FramesInv, CalleesAreRegistered, Dependencies
    <2> QED BY <2>1, <2>2, <2>5, <2>7, <2>8, <2>9 DEF FramesInv, CalleesAreRegistered
  <1>3. CASE Return
    <2>1. UNCHANGED <<dir, heap, symbols>>
      BY <1>3 DEF Return
    <2>2. \A i \in 1..Len(stack') : i \in 1..Len(stack) /\ stack'[i] = stack[i]
      BY <1>3, Returned DEF TypeInv, TypeOK
    <2> QED BY <2>1, <2>2 DEF FramesInv, CalleesAreRegistered, Registered, Dependencies
  <1>4. CASE Analyze
    <2>1. Len(stack') = 0 /\ UNCHANGED <<stack, heap, symbols>>
      BY <1>4 DEF Analyze
    <2> QED BY <2>1 DEF FramesInv, CalleesAreRegistered, Registered, Dependencies
  <1>5. CASE LoadFails \/ Processed \/ UNCHANGED vars
    BY <1>5 DEF LoadFails, Processed, vars, FramesInv, CalleesAreRegistered, Registered,
                Dependencies
  <1> QED BY <1>1, <1>2, <1>3, <1>4, <1>5 DEF Next

LEMMA FramesInit == Init => FramesInv
  BY DEF Init, FramesInv, CalleesAreRegistered, Registered

\* Whatever functions call each other, no dependency is ever without a symbol.
THEOREM Closed == Spec => []CalleesAreRegistered
  <1>1. FramesInv => CalleesAreRegistered
    BY DEF FramesInv
  <1> QED BY TypeInit, TypeStep, FramesInit, FramesStep, <1>1, PTL DEF Spec

\* The recursion of register is never deeper than there are functions: cycles
\* in the call graph cannot exhaust the stack.
THEOREM Bounded == Spec => []RecursionIsBounded
  <1>1. TypeInv /\ FramesInv => RecursionIsBounded
    <2> SUFFICES ASSUME TypeInv, FramesInv PROVE Len(stack) <= Cardinality(Functions)
      BY DEF RecursionIsBounded
    <2> DEFINE F == [i \in 1..Len(stack) |-> stack[i].function]
    <2>1. Len(stack) \in Nat
      BY DEF TypeInv, TypeOK
    <2>2. ASSUME NEW i \in 1..Len(stack) PROVE stack[i].function \in Functions
      <3>1. stack[i] \in Frame
        BY ElementOfSeq DEF TypeInv, TypeOK
      <3> QED BY <3>1 DEF Frame
    <2>3. F \in Injection(1..Len(stack), Functions)
      <3>1. F \in [1..Len(stack) -> Functions]
        BY <2>2
      <3>2. \A i, j \in 1..Len(stack) : F[i] = F[j] => i = j
        BY DEF FramesInv
      <3> HIDE DEF F
      <3> QED BY <3>1, <3>2, Z3 DEF Injection, IsInjective
    <2>4. Cardinality(1..Len(stack)) <= Cardinality(Functions)
      BY <2>3, FS_Injection, CallGraphsAssumption
    <2>5. Cardinality(1..Len(stack)) = Len(stack)
      <3>1. PICK n \in Nat : n = Len(stack)
        BY <2>1
      <3>2. Cardinality(1..n) = IF 1 > n THEN 0 ELSE n - 1 + 1
        BY FS_Interval
      <3> QED BY <3>1, <3>2
    <2> QED BY <2>4, <2>5
  <1> QED BY TypeInit, TypeStep, FramesInit, FramesStep, <1>1, PTL DEF Spec

-----------------------------------------------------------------------------
(* The walk over the directories.                                          *)

\* The directories are walked one by one, in their order, and each registers
\* what it tracks.
Current == Len(Directories) - Len(todo)

Tracks(i, f) == f \in GraphNodes[Directories[i]] /\ PackageOf[f] \in Tracked[Directories[i]]

WalkInv ==
    /\ Current \in 0..Len(Directories)
    /\ \A i \in 1..Len(todo) : todo[i] = Directories[Current + i]
    /\ IF Current = 0 THEN dir = None ELSE dir = Directories[Current]
    /\ \A f \in roots : Tracks(Current, f)

\* A function that is looked at for the i-th directory has all its callees there.
OfGraph(f, i) == f \in GraphNodes[Directories[i]] /\ Dependencies(f) = Out(Directories[i], f)

Entering(f) == \E i \in 1..Len(stack) : stack[i].function = f

\* The loop of the j-th directory has come to f.
LookedAt(f, j) == Tracks(j, f) /\ (j = Current => f \notin roots)

Looked(f) == \E j \in 1..Current : LookedAt(f, j)

\* f is of the graph of the i-th directory, and this is the last that tracks it
\* once one has come to it.
SettledAt(f, i) ==
    /\ OfGraph(f, i)
    /\ \A j \in 1..Current : LookedAt(f, j) => j <= i
    /\ Looked(f) => Tracks(i, f)

\* What a directory tracks is entered once its loop has come to it.  From then
\* on only a directory that tracks it enters it again, for as a callee it is
\* found to have a symbol; when register is done with it, it is settled.
Settles(f) ==
    /\ Looked(f) => f \in Registered
    /\ Looked(f) /\ Entering(f) => Tracks(Current, f)
    /\ f \in Registered /\ ~Entering(f) => \E i \in 1..Current : SettledAt(f, i)

SettledInv == \A f \in Functions : Settles(f)

ProcessedInv == status = "processed" => todo = <<>> /\ roots = {} /\ stack = <<>>

LEMMA WalkStep == TypeInv /\ WalkInv /\ [Next]_vars => WalkInv'
  <1> SUFFICES ASSUME TypeInv, WalkInv, [Next]_vars PROVE WalkInv'
    OBVIOUS
  <1>1. CASE Analyze
    <2>1. /\ todo \in Seq(DOMAIN GraphNodes) /\ todo # <<>>
          /\ dir' = Head(todo) /\ todo' = Tail(todo)
      BY <1>1 DEF Analyze, TypeInv, TypeOK
    <2>2. Len(todo) \in Nat \ {0}
      BY <2>1, EmptySeq
    <2>3. Len(todo') = Len(todo) - 1 /\ \A i \in 1..Len(todo') : todo'[i] = todo[i + 1]
      BY <2>1, HeadTailProperties
    <2>4. dir' = todo[1] /\ Len(Directories) \in Nat
      BY <2>1, CallGraphsAssumption
    <2>5. Current' = Current + 1
      BY <2>2, <2>3, <2>4 DEF Current
    <2>6. Current \in Nat /\ todo[1] = Directories[Current + 1]
      BY <2>2, <2>4 DEF WalkInv
    <2>7. Current' \in 0..Len(Directories)
      BY <2>2, <2>3, <2>4, <2>5, <2>6 DEF WalkInv, Current
    <2>8. ASSUME NEW i \in 1..Len(todo') PROVE todo'[i] = Directories[Current' + i]
      <3>1. i + 1 \in 1..Len(todo)
        BY <2>2, <2>3
      <3> QED BY <2>3, <2>5, <2>6, <3>1 DEF WalkInv
    <2>9. dir' = Directories[Current']
      BY <2>4, <2>5, <2>6
    <2>10. \A f \in roots' : Tracks(Current, f)'
      BY <1>1, <2>9 DEF Analyze, Tracks
    <2> QED BY <2>5, <2>6, <2>7, <2>8, <2>9, <2>10 DEF WalkInv
  <1>2. CASE UNCHANGED <<todo, dir>> /\ roots' \subseteq roots
    BY <1>2 DEF WalkInv, Current, Tracks
  <1> QED BY <1>1, <1>2 DEF Next, LoadFails, RegisterRoot, RegisterCallee, AddDependency, Return,
                            Processed, vars

LEMMA WalkInit == Init => WalkInv
  <1> SUFFICES ASSUME Init PROVE WalkInv
    OBVIOUS
  <1>1. Len(Directories) \in Nat /\ todo = Directories /\ dir = None /\ roots = {}
    BY CallGraphsAssumption DEF Init
  <1>2. Current = 0
    BY <1>1 DEF Current
  <1> QED BY <1>1, <1>2 DEF WalkInv

LEMMA ProcessedStep == ProcessedInv /\ [Next]_vars => ProcessedInv'
  BY DEF ProcessedInv, Next, vars, Analyze, LoadFails, RegisterRoot, RegisterCallee, AddDependency,
         Return, Processed, Running

\* A function keeps its place when neither its symbol nor what is known of it
\* changes.
LEMMA Keeps ==
    ASSUME SettledInv, NEW f \in Functions,
           UNCHANGED todo, f \in Registered <=> f \in Registered',
           f \in Registered => Dependencies(f)' = Dependencies(f),
           f \in roots <=> f \in roots',
           Entering(f) <=> Entering(f)'
    PROVE  Settles(f)'
  <1>1. Current' = Current
    BY DEF Current
  <1>2. \A j \in 1..Current : LookedAt(f, j)' <=> LookedAt(f, j)
    BY <1>1 DEF LookedAt, Tracks
  <1>3. Looked(f)' <=> Looked(f)
    BY <1>1, <1>2 DEF Looked
  <1>4. \A i \in 1..Current : Tracks(i, f)' <=> Tracks(i, f)
    BY DEF Tracks
  <1>5. ASSUME f \in Registered', ~Entering(f)'
        PROVE  \E i \in 1..Current' : SettledAt(f, i)'
    <2>1. PICK i \in 1..Current : SettledAt(f, i)
      BY <1>5 DEF SettledInv, Settles
    <2>2. SettledAt(f, i)'
      BY <1>1, <1>2, <1>3, <1>4, <1>5, <2>1 DEF SettledAt, OfGraph
    <2> QED BY <1>1, <2>1, <2>2
  <1>6. Looked(f)' /\ Entering(f)' => Tracks(Current, f)'
    BY <1>1, <1>3 DEF SettledInv, Settles, Tracks
  <1> QED BY <1>3, <1>5, <1>6 DEF SettledInv, Settles

LEMMA SettledEnter ==
    ASSUME TypeInv, FramesInv, WalkInv, SettledInv, NEW f \in Functions, EnterAllowed(f), Enter(f),
           UNCHANGED <<todo, dir, status>>,
           (symbols[f] = 0 /\ roots' = roots) \/ (f \in roots /\ roots' = roots \ {f})
    PROVE  SettledInv'
  <1>1. /\ Len(stack) \in Nat /\ Len(heap) \in Nat
        /\ symbols \in [Functions -> 0..Len(heap)]
    BY DEF TypeInv, TypeOK
  <1>2. /\ Len(stack') = Len(stack) + 1
        /\ \A i \in 1..Len(stack) : stack'[i] = stack[i]
        /\ stack'[Len(stack) + 1] = FrameOf(f)
        /\ \A x \in 1..Len(heap) : heap'[x] = heap[x]
        /\ symbols' = [symbols EXCEPT ![f] = Len(heap) + 1]
    BY Entered DEF TypeInv, EnterAllowed
  <1>3. Registered' = Registered \cup {f}
    BY <1>1, <1>2 DEF Registered
  <1>4. Entering(f)'
    BY <1>1, <1>2 DEF Entering, FrameOf
  <1>5. ASSUME NEW g \in Functions, g # f PROVE Settles(g)'
    <2>1. g \in Registered => Dependencies(g)' = Dependencies(g)
      BY <1>1, <1>2, <1>5 DEF Registered, Dependencies
    <2>2. Entering(g) <=> Entering(g)'
      BY <1>1, <1>2, <1>5 DEF Entering, FrameOf
    <2>3. g \in Registered <=> g \in Registered'
      BY <1>3, <1>5
    <2>4. g \in roots <=> g \in roots'
      BY <1>5
    <2> QED BY <2>1, <2>2, <2>3, <2>4, Keeps
  <1>6. Looked(f)' => Tracks(Current, f)'
    <2>1. Current' = Current
      BY DEF Current
    <2>2. CASE f \in roots
      BY <2>1, <2>2 DEF WalkInv, Tracks
    <2>3. CASE symbols[f] = 0 /\ roots' = roots
      <3>1. Looked(f)' <=> Looked(f)
        BY <2>1, <2>3 DEF Looked, LookedAt, Tracks
      <3>2. ~Looked(f)
        BY <2>3 DEF SettledInv, Settles, Registered
      <3> QED BY <3>1, <3>2
    <2> QED BY <2>2, <2>3
  <1>7. Settles(f)'
    BY <1>3, <1>4, <1>6 DEF Settles
  <1> QED BY <1>5, <1>7 DEF SettledInv

LEMMA SettledAdd ==
    ASSUME TypeInv, FramesInv, SettledInv, AddDependency
    PROVE  SettledInv'
  <1>1. PICK g \in Functions, n \in 1..Len(stack) :
             /\ n = Len(stack) /\ g \in stack[n].out /\ symbols[g] # 0
             /\ stack' \in Seq(Frame) /\ Len(stack') = Len(stack)
             /\ \A i \in 1..Len(stack) :
                   stack'[i] = IF i = n THEN [stack[n] EXCEPT !.out = stack[n].out \ {g}] ELSE stack[i]
             /\ heap' \in Seq(SUBSET Functions) /\ Len(heap') = Len(heap)
             /\ \A o \in 1..Len(heap) :
                   heap'[o] = IF o = stack[n].object THEN heap[o] \cup {g} ELSE heap[o]
    BY Added
  <1>2. UNCHANGED <<todo, roots, symbols>>
    BY DEF AddDependency
  <1>3. symbols \in [Functions -> 0..Len(heap)] /\ Len(heap) \in Nat
    BY DEF TypeInv, TypeOK
  <1>4. ASSUME NEW i \in 1..Len(stack)
        PROVE  stack[i] \in Frame /\ stack'[i].function = stack[i].function
    <2>1. stack[i] \in Frame
      BY ElementOfSeq DEF TypeInv, TypeOK
    <2>2. CASE i = n
      BY <1>1, <2>1, <2>2 DEF Frame
    <2>3. CASE i # n
      BY <1>1, <2>1, <2>3
    <2> QED BY <2>1, <2>2, <2>3
  <1>5. Registered' = Registered
    BY <1>2 DEF Registered
  <1>6. ASSUME NEW f \in Functions PROVE Entering(f)' <=> Entering(f)
    BY <1>1, <1>4 DEF Entering
  <1>7. stack[n].function \in Registered /\ symbols[stack[n].function] = stack[n].object
    <2>1. stack[n].object \in 1..Len(heap)
      BY DEF TypeInv, PendingInv, TypeOK, AddDependency
    <2> QED BY <1>3, <1>4, <2>1 DEF FramesInv, Frame, Registered
  <1>8. ASSUME NEW f \in Functions PROVE Settles(f)'
    <2>1. CASE f # stack[n].function
      <3>1. ASSUME f \in Registered PROVE Dependencies(f)' = Dependencies(f)
        <4>1. symbols[f] \in 1..Len(heap)
          BY <1>3, <3>1 DEF Registered
        <4>2. symbols[f] # stack[n].object
          BY <1>7, <2>1, <3>1 DEF FramesInv
        <4>3. heap'[symbols[f]] = heap[symbols[f]]
          BY <1>1, <4>1, <4>2
        <4> QED BY <1>2, <4>3 DEF Dependencies
      <3> QED BY <1>2, <1>5, <1>6, <3>1, Keeps
    <2>2. CASE f = stack[n].function
      <3>1. Entering(f)' /\ Entering(f)
        BY <1>6, <2>2 DEF Entering
      <3>2. Current' = Current /\ (Looked(f)' <=> Looked(f)) /\ (Tracks(Current, f)' <=> Tracks(Current, f))
        BY <1>2 DEF Current, Looked, LookedAt, Tracks
      <3> QED BY <1>5, <3>1, <3>2 DEF SettledInv, Settles
    <2> QED BY <2>1, <2>2
  <1> QED BY <1>8 DEF SettledInv

LEMMA SettledReturn ==
    ASSUME TypeInv, FramesInv, WalkInv, SettledInv, Return
    PROVE  SettledInv'
  <1>1. UNCHANGED <<todo, dir, roots, heap, symbols>> /\ stack # <<>>
    BY DEF Return
  <1>2. stack \in Seq(Frame) /\ Len(stack) \in Nat
    BY DEF TypeInv, TypeOK
  <1>3. PICK n \in 1..Len(stack) : n = Len(stack)
    BY <1>1, <1>2, LenProperties, EmptySeq
  <1>4. /\ Len(stack') = n - 1
        /\ \A i \in 1..n - 1 : stack'[i] = stack[i]
    BY <1>3, Returned DEF TypeInv, TypeOK
  <1>5. stack[n] \in Frame /\ stack[n].out = {}
    BY <1>2, <1>3, ElementOfSeq DEF Return, top
  <1>6. Current \in 1..Len(Directories) /\ dir = Directories[Current]
    <2>1. dir # None
      BY <1>1 DEF TypeInv, PendingInv
    <2> QED BY <2>1, CallGraphsAssumption DEF WalkInv
  <1>7. Registered' = Registered /\ Current' = Current
    BY <1>1 DEF Registered, Current
  <1>8. ASSUME NEW f \in Functions PROVE Settles(f)'
    <2>1. CASE f # stack[n].function
      <3>1. Entering(f) <=> Entering(f)'
        BY <1>2, <1>3, <1>4, <2>1 DEF Entering
      <3>2. f \in Registered => Dependencies(f)' = Dependencies(f)
        BY <1>1 DEF Dependencies
      <3> QED BY <1>1, <1>7, <3>1, <3>2, Keeps
    <2>2. CASE f = stack[n].function
      <3>1. Dependencies(f)' = Out(dir, f) /\ f \in GraphNodes[dir]
        BY <1>1, <1>3, <1>5, <2>2 DEF FramesInv, Dependencies, TypeInv, PendingInv
      <3>2. /\ Looked(f)' <=> Looked(f)
            /\ Tracks(Current, f)' <=> Tracks(Current, f)
        BY <1>1, <1>7 DEF Looked, LookedAt, Tracks
      <3>3. Entering(f) /\ ~Entering(f)'
        BY <1>2, <1>3, <1>4, <2>2 DEF Entering, FramesInv
      <3>4. Looked(f) => f \in Registered /\ Tracks(Current, f)
        BY <3>3 DEF SettledInv, Settles
      <3>5. SettledAt(f, Current)'
        BY <1>6, <1>7, <3>1, <3>2, <3>4 DEF SettledAt, OfGraph, Tracks
      <3> QED BY <1>6, <1>7, <3>2, <3>3, <3>4, <3>5 DEF Settles
    <2> QED BY <2>1, <2>2
  <1> QED BY <1>8 DEF SettledInv

LEMMA SettledAnalyze ==
    ASSUME TypeInv, WalkInv, SettledInv, Analyze
    PROVE  SettledInv'
  <1>1. /\ todo \in Seq(DOMAIN GraphNodes) /\ todo # <<>> /\ todo' = Tail(todo) /\ dir' = Head(todo)
        /\ roots = {} /\ stack = <<>> /\ UNCHANGED <<stack, heap, symbols>>
        /\ roots' = {f \in GraphNodes[dir'] : PackageOf[f] \in Tracked[dir']}
    BY DEF Analyze, TypeInv, TypeOK
  <1>2. Current' = Current + 1 /\ Current \in Nat
    <2>1. Len(todo) \in Nat \ {0} /\ Len(Directories) \in Nat
      BY <1>1, EmptySeq, CallGraphsAssumption
    <2>2. Len(todo') = Len(todo) - 1
      BY <1>1, HeadTailProperties
    <2> QED BY <2>1, <2>2 DEF Current, WalkInv
  <1>3. dir' = Directories[Current']
    <2>1. WalkInv'
      BY TypeInv, WalkInv, Analyze, WalkStep DEF Next
    <2> QED BY <1>2, <2>1 DEF WalkInv
  <1>4. Registered' = Registered
    BY <1>1 DEF Registered
  <1>5. ASSUME NEW f \in Functions, NEW j \in 1..Current', LookedAt(f, j)'
        PROVE  j \in 1..Current /\ LookedAt(f, j)
    <2>1. j # Current'
      BY <1>1, <1>3, <1>5 DEF LookedAt, Tracks
    <2> QED BY <1>1, <1>2, <1>5, <2>1 DEF LookedAt, Tracks
  <1>6. ASSUME NEW f \in Functions, Looked(f)' PROVE Looked(f)
    BY <1>5, <1>6 DEF Looked
  <1>7. ASSUME NEW f \in Functions, f \in Registered', ~Entering(f)'
        PROVE  \E i \in 1..Current' : SettledAt(f, i)'
    <2>1. PICK i \in 1..Current : SettledAt(f, i)
      BY <1>1, <1>4, <1>7 DEF SettledInv, Settles, Entering
    <2>2. OfGraph(f, i)'
      BY <1>1, <2>1 DEF SettledAt, OfGraph, Dependencies
    <2>3. SettledAt(f, i)'
      BY <1>5, <1>6, <2>1, <2>2 DEF SettledAt, Tracks
    <2> QED BY <1>2, <2>1, <2>3
  <1>8. \A f \in Functions : ~Entering(f)'
    BY <1>1 DEF Entering
  <1> QED BY <1>4, <1>6, <1>7, <1>8 DEF SettledInv, Settles

LEMMA SettledStep == TypeInv /\ FramesInv /\ WalkInv /\ SettledInv /\ [Next]_vars => SettledInv'
  <1> SUFFICES ASSUME TypeInv, FramesInv, WalkInv, SettledInv, [Next]_vars PROVE SettledInv'
    OBVIOUS
  <1>1. CASE RegisterRoot \/ RegisterCallee
    BY <1>1, WhoEnters, SettledEnter
  <1>2. CASE LoadFails \/ Processed \/ UNCHANGED vars
    <2>1. UNCHANGED <<todo, roots, stack, heap, symbols>>
      BY <1>2 DEF LoadFails, Processed, vars
    <2>2. Registered' = Registered
      BY <2>1 DEF Registered
    <2>3. ASSUME NEW f \in Functions
          PROVE  Dependencies(f)' = Dependencies(f) /\ (Entering(f) <=> Entering(f)')
      BY <2>1 DEF Dependencies, Entering
    <2> QED BY <2>1, <2>2, <2>3, Keeps DEF SettledInv
  <1> QED BY <1>1, <1>2, SettledAnalyze, SettledAdd, SettledReturn DEF Next

LEMMA SettledInit == Init => SettledInv
  <1> SUFFICES ASSUME Init PROVE SettledInv
    OBVIOUS
  <1>1. Len(Directories) \in Nat /\ todo = Directories /\ symbols = [f \in Functions |-> 0]
    BY CallGraphsAssumption DEF Init
  <1>2. Current = 0 /\ Registered = {}
    BY <1>1 DEF Current, Registered
  <1> QED BY <1>2 DEF SettledInv, Settles, Looked

\* Whatever order the functions are registered in, a symbol ends with all the
\* callees of one graph, and this is the last that tracks it if one does.
THEOREM OneGraph == Spec => []DependenciesAreOfOneGraph
  <1>1. Init => ProcessedInv
    BY DEF Init, ProcessedInv
  <1>2. TypeInv /\ WalkInv /\ SettledInv /\ ProcessedInv => DependenciesAreOfOneGraph
    <2> SUFFICES ASSUME TypeInv, WalkInv, SettledInv, ProcessedInv, status = "processed",
                        NEW f \in Functions
                 PROVE  /\ TrackedBy(f) # {} => f \in Registered
                        /\ f \in Registered => \E i \in DOMAIN Directories :
                              /\ f \in GraphNodes[Directories[i]]
                              /\ Dependencies(f) = Out(Directories[i], f)
                              /\ TrackedBy(f) # {} => i \in TrackedBy(f)
                              /\ \A j \in TrackedBy(f) : j <= i
      BY DEF DependenciesAreOfOneGraph
    <2>1. Len(todo) = 0 /\ Len(Directories) \in Nat /\ roots = {} /\ Len(stack) = 0
      BY CallGraphsAssumption DEF ProcessedInv
    <2>2. 1..Current = DOMAIN Directories
      BY <2>1, CallGraphsAssumption DEF Current
    <2>3. \A j \in TrackedBy(f) : j \in 1..Current /\ LookedAt(f, j)
      BY <2>1, <2>2 DEF TrackedBy, LookedAt, Tracks
    <2>4. TrackedBy(f) # {} => Looked(f)
      BY <2>3 DEF Looked
    <2>5. \A i \in 1..Current : Tracks(i, f) => i \in TrackedBy(f)
      BY <2>2 DEF TrackedBy, Tracks
    <2>6. ~Entering(f)
      BY <2>1 DEF Entering
    <2> QED BY <2>2, <2>3, <2>4, <2>5, <2>6 DEF SettledInv, Settles, SettledAt, OfGraph
  <1> QED BY TypeInit, TypeStep, FramesInit, FramesStep, WalkInit, WalkStep, SettledInit, SettledStep,
             ProcessedStep, <1>1, <1>2, PTL DEF Spec

\* The variables of the analyser keep their types.
THEOREM Typed == Spec => []TypeOK
  <1>1. TypeInv => TypeOK
    BY DEF TypeInv
  <1> QED BY TypeInit, TypeStep, <1>1, PTL DEF Spec

-----------------------------------------------------------------------------
(* The libraries of a package.                                             *)

\* A package is provided from its first function on, by the libraries with the
\* longest name that prefixes it.
OwnedInv ==
    /\ RegisteredPackages \subseteq Packages
    /\ \A p \in Packages, m \in Modules :
          p \in provided[m] <=> p \in RegisteredPackages /\ m \in Owners(p)

LEMMA OwnedStep == TypeInv /\ OwnedInv /\ [Next]_vars => OwnedInv'
  <1> SUFFICES ASSUME TypeInv, OwnedInv, [Next]_vars PROVE OwnedInv'
    OBVIOUS
  <1> USE DEF OwnedInv
  <1>1. \A p \in Packages : Owners(p)' = Owners(p)
    BY DEF Owners
  <1>2. ASSUME NEW f \in Functions, PackageOf[f] \in Packages, Enter(f) PROVE OwnedInv'
    <2>1. \A g \in Functions : symbols'[g] # 0 <=> symbols[g] # 0 \/ g = f
      BY <1>2 DEF Enter, TypeInv, TypeOK
    <2>2. RegisteredPackages' = RegisteredPackages \cup {PackageOf[f]}
      BY <2>1, <1>2 DEF RegisteredPackages, Registered
    <2>3. CASE PackageOf[f] \in RegisteredPackages
      BY <1>1, <1>2, <2>2, <2>3 DEF Enter
    <2>4. CASE PackageOf[f] \notin RegisteredPackages
      <3>1. \A m \in Modules : provided'[m] = IF m \in Owners(PackageOf[f])
                                              THEN provided[m] \cup {PackageOf[f]} ELSE provided[m]
        BY <1>2, <2>4 DEF Enter
      <3>2. ASSUME NEW p \in Packages, NEW m \in Modules
            PROVE  p \in provided'[m] <=> p \in RegisteredPackages' /\ m \in Owners(p)
        <4>1. CASE p = PackageOf[f]
          BY <2>2, <2>4, <3>1, <4>1
        <4>2. CASE p # PackageOf[f]
          BY <2>2, <3>1, <4>2
        <4> QED BY <4>1, <4>2
      <3> QED BY <1>1, <1>2, <2>2, <3>2
    <2> QED BY <2>3, <2>4
  <1>3. CASE RegisterRoot
    BY <1>2, <1>3, MayEnter DEF RegisterRoot
  <1>4. CASE RegisterCallee
    BY <1>2, <1>4, MayEnter DEF RegisterCallee
  <1>5. CASE Analyze \/ LoadFails \/ AddDependency \/ Return \/ Processed \/ UNCHANGED vars
    <2>1. UNCHANGED <<symbols, provided>>
      BY <1>5 DEF Analyze, LoadFails, AddDependency, Return, Processed, vars
    <2> QED BY <1>1, <2>1 DEF RegisteredPackages, Registered
  <1> QED BY <1>3, <1>4, <1>5 DEF Next

\* The analysis and Export agree: a package goes to one library, or to Go.
THEOREM Exported == Spec => []ExportedOnce
  <1>1. Init => OwnedInv
    BY DEF Init, OwnedInv, RegisteredPackages, Registered
  <1>2. TypeInv /\ OwnedInv => ExportedOnce
    <2> SUFFICES ASSUME TypeInv, OwnedInv, NEW p \in RegisteredPackages
                 PROVE  LET owners == {m \in Modules : p \in provided[m]}
                        IN  IF p \in Core THEN owners = {} ELSE \E m \in Modules : owners = {m}
      BY DEF ExportedOnce
    <2>2. p \in Packages /\ PrefixedBy[p] \subseteq Modules
      BY CallGraphsAssumption DEF OwnedInv
    <2> DEFINE owners == {m \in Modules : p \in provided[m]}
    <2>3. owners = Owners(p)
      BY <2>2 DEF OwnedInv, Owners
    <2>4. CASE PrefixedBy[p] = {}
      BY <2>3, <2>4 DEF Core, Owners
    <2>5. CASE PrefixedBy[p] # {}
      <3>1. PICK m \in PrefixedBy[p] : \A n \in PrefixedBy[p] \ {m} : NameLength[n] < NameLength[m]
        BY <2>2, <2>5, CallGraphsAssumption
      <3>2. \A n \in PrefixedBy[p] : NameLength[n] \in Nat
        BY <2>2, CallGraphsAssumption
      <3>3. Owners(p) = {m}
        BY <3>1, <3>2 DEF Owners
      <3>4. m \in Modules /\ p \in provided[m]
        BY <2>2, <2>3, <3>1, <3>3
      <3>5. p \notin Core
        BY <3>1, <3>4 DEF Core, Libraries
      <3> QED BY <2>3, <3>3, <3>4, <3>5
    <2> QED BY <2>4, <2>5
  <1> QED BY TypeInit, TypeStep, OwnedStep, <1>1, <1>2, PTL DEF Spec

-----------------------------------------------------------------------------
(* Why the analysis ends.                                                  *)

\* Measures of one length do not fall for ever: what lowers one at each of its
\* steps stops.
THEOREM NoEndlessDescent ==
    \A n \in Nat : ~\E f \in [Nat -> [1..n -> Nat]] : \A k \in Nat : Below(f[k + 1], f[k])
  <1> SUFFICES ASSUME NEW n \in Nat, NEW f \in [Nat -> [1..n -> Nat]],
                      \A k \in Nat : Below(f[k + 1], f[k])
               PROVE  FALSE
    OBVIOUS
  <1> DEFINE less == OpToRel(<, Nat)
             lex == LexProductOrdering(less, Nat, n)
  <1>1. IsWellFoundedOn(less, Nat)
    BY NatLessThanWellFounded
  <1>2. IsWellFoundedOn(lex, [1..n -> Nat])
    <2> HIDE DEF less
    <2> QED BY <1>1, WFLexProductOrdering
  <1>3. ASSUME NEW k \in Nat PROVE <<f[k + 1], f[k]>> \in lex
    <2>1. k + 1 \in Nat /\ f[k + 1] \in [1..n -> Nat] /\ f[k] \in [1..n -> Nat]
      OBVIOUS
    <2>2. PICK j \in DOMAIN f[k] : f[k + 1][j] < f[k][j] /\ \A i \in 1..j - 1 : f[k + 1][i] = f[k][i]
      BY DEF Below
    <2>3. j \in 1..n
      BY <2>1
    <2>4. <<f[k + 1][j], f[k][j]>> \in less
      BY <2>1, <2>2, <2>3 DEF OpToRel
    <2> HIDE DEF less
    <2> QED BY <2>1, <2>2, <2>3, <2>4 DEF LexProductOrdering
  <1> QED BY <1>2, <1>3 DEF IsWellFoundedOn

Measured == Measure \in [1..6 -> Nat]

LEMMA PendingIsFinite ==
    ASSUME TypeInv
    PROVE  IsFiniteSet(Pending) /\ Cardinality(Pending) \in Nat
  <1>1. Len(stack) \in Nat /\ DOMAIN stack = 1..Len(stack)
    BY LenProperties DEF TypeInv, TypeOK
  <1>2. \A i \in DOMAIN stack : stack[i].out \subseteq Functions
    <2> SUFFICES ASSUME NEW i \in DOMAIN stack PROVE stack[i].out \subseteq Functions
      OBVIOUS
    <2>1. stack[i] \in Frame
      BY <1>1, ElementOfSeq DEF TypeInv, TypeOK
    <2> QED BY <2>1 DEF Frame
  <1>3. Pending \subseteq (1..Len(stack)) \X Functions
    BY <1>1, <1>2 DEF Pending
  <1>4. IsFiniteSet((1..Len(stack)) \X Functions)
    <2>1. IsFiniteSet(1..Len(stack))
      BY <1>1, FS_Interval
    <2> QED BY <2>1, FS_Product, CallGraphsAssumption
  <1> QED BY <1>3, <1>4, FS_Subset, FS_CardinalityType

LEMMA MeasureTyped ==
    ASSUME TypeInv
    PROVE  /\ IsFiniteSet(roots) /\ IsFiniteSet(Functions \ Registered)
           /\ Measured
  <1>1. IsFiniteSet(roots) /\ IsFiniteSet(Functions \ Registered)
    BY FS_Subset, CallGraphsAssumption DEF TypeInv, TypeOK
  <1>2. Cardinality(roots) \in Nat /\ Cardinality(Functions \ Registered) \in Nat
    BY <1>1, FS_CardinalityType
  <1>3. Len(todo) \in Nat /\ Len(stack) \in Nat
    BY DEF TypeInv, TypeOK
  <1>4. Measure \in Seq(Nat) /\ Len(Measure) = 6
    BY <1>2, <1>3, PendingIsFinite DEF Measure
  <1> QED BY <1>1, <1>4, LenProperties DEF Measured

\* A set that loses an element is smaller.
LEMMA Shrinks ==
    ASSUME NEW S, IsFiniteSet(S), NEW T, T \subseteq S, T # S
    PROVE  Cardinality(T) < Cardinality(S)
  BY FS_Subset, FS_CardinalityType

\* A step that enters a function registers it, or takes a root.
LEMMA EnteringLowers ==
    ASSUME TypeInv, TypeInv', RegisterRoot \/ RegisterCallee
    PROVE  Below(Measure', Measure)
  <1>1. Len(todo') = Len(todo) /\ Running' = Running
    BY DEF RegisterRoot, RegisterCallee, Running
  <1>2. CASE RegisterRoot
    <2>1. roots' \subseteq roots /\ roots' # roots
      BY <1>2 DEF RegisterRoot
    <2>2. Cardinality(roots') < Cardinality(roots)
      BY <2>1, MeasureTyped, Shrinks
    <2>3. Measure'[3] < Measure[3] /\ \A j \in 1..2 : Measure'[j] = Measure[j]
      BY <1>1, <2>2 DEF Measure
    <2> QED BY <2>3 DEF Below, Measure
  <1>3. CASE RegisterCallee
    <2>1. PICK g \in top.out : MustRegister(g) /\ Enter(g)
      BY <1>3 DEF RegisterCallee
    <2>2. stack # <<>> /\ roots' = roots
      BY <1>3 DEF RegisterCallee
    <2>3. g \in Functions /\ symbols[g] = 0 /\ symbols' = [symbols EXCEPT ![g] = Len(heap) + 1]
      BY <2>1, <2>2, MayEnter DEF MustRegister, Enter
    <2>4. symbols \in [Functions -> 0..Len(heap)] /\ Len(heap) \in Nat
      BY DEF TypeInv, TypeOK
    <2>5. Registered' = Registered \cup {g} /\ g \notin Registered
      BY <2>3, <2>4 DEF Registered
    <2>6. Cardinality(Functions \ Registered') < Cardinality(Functions \ Registered)
      BY <2>3, <2>5, MeasureTyped, Shrinks
    <2>7. Measure'[4] < Measure[4] /\ \A j \in 1..3 : Measure'[j] = Measure[j]
      BY <1>1, <2>2, <2>6 DEF Measure
    <2> QED BY <2>7 DEF Below, Measure
  <1> QED BY <1>2, <1>3

LEMMA AddingLowers ==
    ASSUME TypeInv, AddDependency
    PROVE  Below(Measure', Measure)
  <1>1. PICK g \in Functions, n \in 1..Len(stack) :
             /\ g \in stack[n].out
             /\ Len(stack') = Len(stack) /\ stack' \in Seq(Frame)
             /\ \A i \in 1..Len(stack) :
                   stack'[i] = IF i = n THEN [stack[n] EXCEPT !.out = stack[n].out \ {g}] ELSE stack[i]
    BY Added
  <1>2. DOMAIN stack = 1..Len(stack) /\ DOMAIN stack' = 1..Len(stack)
    BY <1>1, LenProperties DEF TypeInv, TypeOK
  <1>3. \A i \in 1..Len(stack) : stack'[i].out = IF i = n THEN stack[n].out \ {g} ELSE stack[i].out
    <2>1. stack[n] \in Frame
      BY ElementOfSeq DEF TypeInv, TypeOK
    <2> QED BY <1>1, <2>1 DEF Frame
  <1>4. Pending' \subseteq Pending
    BY <1>2, <1>3 DEF Pending
  <1>5. <<n, g>> \in Pending /\ <<n, g>> \notin Pending'
    BY <1>1, <1>2, <1>3 DEF Pending
  <1>6. Cardinality(Pending') < Cardinality(Pending)
    BY <1>4, <1>5, PendingIsFinite, Shrinks
  <1>7. UNCHANGED <<todo, roots, symbols, status>>
    BY DEF AddDependency
  <1>8. Measure'[5] < Measure[5] /\ \A j \in 1..4 : Measure'[j] = Measure[j]
    BY <1>6, <1>7 DEF Measure, Running, Registered
  <1> QED BY <1>8 DEF Below, Measure

LEMMA ReturningLowers ==
    ASSUME TypeInv, Return
    PROVE  Below(Measure', Measure)
  <1>1. /\ Len(stack) \in 1..Len(stack) /\ stack[Len(stack)].out = {}
        /\ stack' \in Seq(Frame) /\ Len(stack') = Len(stack) - 1
        /\ \A i \in 1..Len(stack') : stack'[i] = stack[i]
    BY Returned DEF TypeInv
  <1>2. DOMAIN stack = 1..Len(stack) /\ DOMAIN stack' = 1..Len(stack) - 1 /\ Len(stack) \in Nat
    BY <1>1, LenProperties DEF TypeInv, TypeOK
  <1>3. Pending' = Pending
    BY <1>1, <1>2 DEF Pending
  <1>4. UNCHANGED <<todo, roots, symbols, status>>
    BY DEF Return
  <1>5. Measure'[6] < Measure[6] /\ \A j \in 1..5 : Measure'[j] = Measure[j]
    BY <1>1, <1>2, <1>3, <1>4 DEF Measure, Running, Registered
  <1> QED BY <1>5 DEF Below, Measure

LEMMA StepLowers ==
    ASSUME TypeInv, TypeInv', Next
    PROVE  Below(Measure', Measure)
  <1>1. CASE Analyze
    <2>1. todo # <<>> /\ todo' = Tail(todo) /\ todo \in Seq(DOMAIN GraphNodes) /\ UNCHANGED status
      BY <1>1 DEF Analyze, TypeInv, TypeOK
    <2>2. Len(todo') < Len(todo)
      BY <2>1, EmptySeq, HeadTailProperties, LenProperties
    <2>3. Measure'[2] < Measure[2] /\ \A j \in 1..1 : Measure'[j] = Measure[j]
      BY <2>1, <2>2 DEF Measure, Running
    <2> QED BY <2>3 DEF Below, Measure
  <1>2. CASE LoadFails \/ Processed
    <2>1. Measure'[1] < Measure[1]
      BY <1>2 DEF LoadFails, Processed, Measure, Running
    <2> QED BY <2>1 DEF Below, Measure
  <1> QED BY <1>1, <1>2, EnteringLowers, AddingLowers, ReturningLowers DEF Next

Advances == Below(Measure', Measure)

\* Whatever the graphs are, cycles included, each step of the analysis leaves
\* less to do; and what is left is measured in naturals, so that an analysis
\* which runs on ends.
THEOREM AnalysisAdvances == Spec => [](Measured) /\ [][Advances]_vars
  <1>1. TypeInv /\ TypeInv' /\ [Next]_vars => [Advances]_vars
    BY StepLowers DEF Advances
  <1>2. TypeInv => Measured
    BY MeasureTyped
  <1> QED BY TypeInit, TypeStep, <1>1, <1>2, PTL DEF Spec

=============================================================================
