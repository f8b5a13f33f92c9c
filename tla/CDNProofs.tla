------------------------------ MODULE CDNProofs ------------------------------
(* Theorems about CDN, for any analyses, calls, number of handlers and     *)
(* size of batches.                                                        *)
EXTENDS CDN, FiniteSetTheorems, TLAPS

CreateSteps == {"coreExists", "nodes", "upsertLibrary", "symbols", "coreRelations",
                "relations", "retrieve"}
TrashSteps == {"trashProvides", "trashCaller", "trashCallees", "trashNodes"}

\* What a handler knows at a step of Export: that it serves a CreateLibrary,
\* the library it writes, and that it left the packages of the last one.
StepsOK ==
    \A w \in Workers :
        /\ IF pc[w] = "idle" THEN job[w] = NoJob ELSE job[w] \in Calls
        /\ pc[w] \in CreateSteps => \E a \in Analyses : job[w] = CreateJob(a)
        /\ pc[w] = "retrieveSymbol" => \E s \in Symbols : job[w] = RetrieveJob(s)
        /\ pc[w] \in TrashSteps => job[w] = ResetJob
        /\ pc[w] \in {"upsertLibrary", "symbols"} => lib[w] # None
        /\ pc[w] \in {"coreExists", "nodes", "upsertLibrary", "symbols"} => packages[w] = {}

Inv == GraphOK /\ HandlersOK /\ StepsOK /\ OneProvider /\ EdgesAreCalls

-----------------------------------------------------------------------------
(* Calls and analyses.                                                     *)

LEMMA JobKinds ==
    ASSUME NEW j \in Calls
    PROVE  /\ j.kind \in {"create", "retrieve", "reset"}
           /\ j.kind = "create" => \E a \in Analyses : j = CreateJob(a)
           /\ j.kind = "retrieve" => \E s \in Symbols : j = RetrieveJob(s)
           /\ j.kind = "reset" => j = ResetJob
  BY CallsAssumption DEF Jobs, CreateJob, RetrieveJob, ResetJob

LEMMA AnalysisOf ==
    ASSUME NEW a \in Analyses
    PROVE  /\ CreateJob(a).kind = "create"
           /\ CreateJob(a).analysis = a
           /\ a.core \in DOMAIN a.packages
           /\ None \notin DOMAIN a.packages
           /\ DOMAIN a.packages \subseteq Libraries
           /\ \A l \in DOMAIN a.packages : SymbolsOf(a, l) \subseteq Symbols
  BY AnalysesAssumption DEF CreateJob, SymbolsOf

LEMMA AfterTrashIs ==
    /\ AfterTrash("trashProvides") = "trashCaller"
    /\ AfterTrash("trashCaller") = "trashCallees"
    /\ AfterTrash("trashCallees") = "trashNodes"
  BY DEF AfterTrash

-----------------------------------------------------------------------------
(* Handlers.                                                               *)

LEMMA NextHandlers ==
    GraphOK /\ HandlersOK /\ StepsOK /\ [Next]_vars => HandlersOK' /\ StepsOK'
  <1> SUFFICES ASSUME GraphOK, HandlersOK, StepsOK, [Next]_vars PROVE HandlersOK' /\ StepsOK'
    OBVIOUS
  <1> USE AnalysisOf DEF HandlersOK, LoopsOK, StepsOK, Steps, CreateSteps, TrashSteps, At, Goto, ModulesOf, NoJob, loops
  <1>1. ASSUME NEW w \in Workers, NEW j \in Calls, Start(w, j) PROVE HandlersOK' /\ StepsOK'
    <2>1. overlaps' \in [Workers -> SUBSET Kinds]
      BY <1>1, JobKinds DEF Start, Beside, Kinds, Running
    <2>2. pc' = [pc EXCEPT ![w] = CASE j.kind = "create"   -> "coreExists"
                                    [] j.kind = "retrieve" -> "retrieveSymbol"
                                    [] j.kind = "reset"    -> "trashProvides"]
      BY <1>1 DEF Start
    <2> QED
      BY <1>1, <2>1, <2>2, JobKinds DEF Start
  <1>2. ASSUME NEW w \in Workers, CoreExists(w) PROVE HandlersOK' /\ StepsOK'
    BY <1>2 DEF CoreExists, AfterNodes
  <1>3. ASSUME NEW w \in Workers, LibraryExists(w) PROVE HandlersOK' /\ StepsOK'
    BY <1>3 DEF LibraryExists, AfterNodes
  <1>4. ASSUME NEW w \in Workers, UpsertLibrary(w) PROVE HandlersOK' /\ StepsOK'
    BY <1>4 DEF UpsertLibrary
  <1>5. ASSUME NEW w \in Workers, BulkUpsertSymbols(w) PROVE HandlersOK' /\ StepsOK'
    BY <1>5 DEF BulkUpsertSymbols, WriteSymbols, AfterNodes
  <1>6. ASSUME NEW w \in Workers, SymbolClash(w) PROVE HandlersOK' /\ StepsOK'
    BY <1>6 DEF SymbolClash
  <1>7. ASSUME NEW w \in Workers, BulkUpsertDependencies(w) PROVE HandlersOK' /\ StepsOK'
    BY <1>7 DEF BulkUpsertDependencies, NextPackages, AfterPackage, AfterNodes
  <1>8. ASSUME NEW w \in Workers, RetrieveLibrary(w) PROVE HandlersOK' /\ StepsOK'
    <2> DEFINE provided == {s \in symbols : <<job[w].analysis.root, s>> \in provides}
    <2>0. provided \in SUBSET Symbols
      BY DEF GraphOK
    <2>1. answer' \in [Workers -> SUBSET Symbols]
      <3> HIDE DEF provided
      <3>1. answer' = answer \/ answer' = [answer EXCEPT ![w] = provided]
        BY <1>8 DEF RetrieveLibrary, provided
      <3> QED
        BY <3>1, <2>0
    <2> QED
      BY <1>8, <2>1 DEF RetrieveLibrary
  <1>9. ASSUME NEW w \in Workers, RetrieveSymbol(w) PROVE HandlersOK' /\ StepsOK'
    BY <1>9 DEF RetrieveSymbol, GraphOK, Dependency
  <1>10. ASSUME NEW w \in Workers, TrashProvides(w) \/ TrashCaller(w) \/ TrashCallees(w)
         PROVE  HandlersOK' /\ StepsOK'
    <2> DEFINE trashes == {"trashProvides", "trashCaller", "trashCallees", "trashNodes"}
    <2>1. pc[w] \in {"trashProvides", "trashCaller", "trashCallees"}
      BY <1>10 DEF TrashProvides, TrashCaller, TrashCallees
    <2>2. PICK step \in trashes : pc' = [pc EXCEPT ![w] = step]
      <3>1. ASSUME NEW D, EndOfTrash(w, D)
            PROVE  pc' = pc \/ pc' = [pc EXCEPT ![w] = AfterTrash(pc[w])]
        BY <3>1 DEF EndOfTrash
      <3>2. pc' = pc \/ pc' = [pc EXCEPT ![w] = AfterTrash(pc[w])]
        BY <1>10, <3>1 DEF TrashProvides, TrashCaller, TrashCallees
      <3>3. pc = [pc EXCEPT ![w] = pc[w]]
        OBVIOUS
      <3> QED
        BY <2>1, <3>2, <3>3, AfterTrashIs
    <2>3. UNCHANGED <<job, lib, todo, created, packages, merr, answer, overlaps>>
      BY <1>10 DEF TrashProvides, TrashCaller, TrashCallees
    <2> QED
      BY <2>2, <2>1, <2>3
  <1>11. ASSUME NEW w \in Workers, TrashNodes(w) \/ TrashRefused(w) PROVE HandlersOK' /\ StepsOK'
    BY <1>11 DEF TrashNodes, TrashRefused
  <1>12. ASSUME NEW w \in Workers, Respond(w) PROVE HandlersOK' /\ StepsOK'
    BY <1>12 DEF Respond
  <1>13. ASSUME NEW w \in Workers, PackageError(w) PROVE HandlersOK' /\ StepsOK'
    BY <1>13 DEF PackageError, NextPackages, AfterPackage, AfterNodes
  <1>14. ASSUME NEW w \in Workers, TrashError(w) \/ ReturnError(w) PROVE HandlersOK' /\ StepsOK'
    <2>1. CASE TrashError(w)
      <3>1. PICK step \in {"trashCaller", "trashCallees", "trashNodes"} :
               pc' = [pc EXCEPT ![w] = step]
        BY <2>1, AfterTrashIs DEF TrashError
      <3> QED
        BY <2>1, <3>1 DEF TrashError
    <2>2. CASE ReturnError(w)
      BY <2>2 DEF ReturnError
    <2> QED
      BY <1>14, <2>1, <2>2
  <1>15. ASSUME Crash PROVE HandlersOK' /\ StepsOK'
    BY <1>15 DEF Crash
  <1>16. ASSUME NEW n \in Referable, Refer(n) PROVE HandlersOK' /\ StepsOK'
    BY <1>16 DEF Refer, Beside, Kinds
  <1>17. CASE UNCHANGED vars
    BY <1>17 DEF vars
  <1> QED
    BY <1>1, <1>2, <1>3, <1>4, <1>5, <1>6, <1>7, <1>8, <1>9, <1>10, <1>11, <1>12, <1>13,
       <1>14, <1>15, <1>16, <1>17 DEF Next, Proceed

-----------------------------------------------------------------------------
(* The graph.                                                              *)

\* What an export knows of its analysis when it writes.
LEMMA JobOf ==
    ASSUME HandlersOK, StepsOK, NEW w \in Workers, pc[w] \in CreateSteps
    PROVE  \E a \in Analyses :
              /\ job[w].analysis = a
              /\ todo[w] \cup created[w] \subseteq ModulesOf(a)
              /\ lib[w] \in DOMAIN a.packages \cup {None}
              /\ packages[w] # {} => packages[w] \subseteq a.packages[lib[w]]
  BY AnalysisOf DEF HandlersOK, LoopsOK, StepsOK

\* The new symbols have no provider yet, and get at most one.
LEMMA SymbolsStep ==
    ASSUME Inv, NEW w \in Workers, BulkUpsertSymbols(w)
    PROVE  GraphOK' /\ OneProvider' /\ EdgesAreCalls'
  <1>1. NewSymbols(w) \subseteq Symbols
    <2>1. pc[w] = "symbols"
      BY DEF BulkUpsertSymbols, At
    <2>2. PICK a \in Analyses : job[w].analysis = a /\ lib[w] \in DOMAIN a.packages \cup {None}
      BY <2>1, JobOf DEF Inv, CreateSteps
    <2>3. lib[w] \in DOMAIN a.packages
      BY <2>1, <2>2 DEF Inv, StepsOK
    <2> QED
      BY <2>2, <2>3, AnalysisOf DEF NewSymbols
  <1> DEFINE written == NewSymbols(w)
             provided == {lib[w]} \cap libraries
  <1> HIDE DEF written, provided
  <1>2. /\ written \subseteq Symbols
        /\ written \cap symbols = {}
        /\ provided \subseteq libraries
        /\ \A l, m \in provided : l = m
        /\ symbols' = symbols \cup written
        /\ provides' = provides \cup (provided \X written)
        /\ UNCHANGED <<libraries, dependencies, foreign>>
    BY <1>1 DEF BulkUpsertSymbols, WriteSymbols, written, provided
  <1>3. GraphOK'
    BY <1>2 DEF Inv, GraphOK
  <1>4. OneProvider'
    BY <1>2 DEF Inv, GraphOK, OneProvider
  <1>5. EdgesAreCalls'
    BY <1>2 DEF Inv, EdgesAreCalls
  <1> QED
    BY <1>3, <1>4, <1>5

\* The rows of a package give a symbol only callees that it calls.
LEMMA DependenciesStep ==
    ASSUME Inv, NEW w \in Workers, BulkUpsertDependencies(w)
    PROVE  GraphOK' /\ OneProvider' /\ EdgesAreCalls'
  <1>1. PICK p : dependencies' = WithRows(job[w].analysis, p)
    BY DEF BulkUpsertDependencies
  <1>2. UNCHANGED <<libraries, symbols, provides, foreign>>
    BY DEF BulkUpsertDependencies
  <1>3. PICK a \in Analyses : job[w].analysis = a
    BY JobOf DEF Inv, CreateSteps, BulkUpsertDependencies
  <1>4. ASSUME NEW e \in dependencies'
        PROVE  /\ e \in Dependency
               /\ e.caller # None => \A t \in e.callees : \E b \in Analyses : <<e.caller, t>> \in b.calls
    <2>1. CASE e \in dependencies
      BY <2>1 DEF Inv, GraphOK, EdgesAreCalls
    <2>2. ASSUME NEW d \in dependencies, e = [d EXCEPT !.callees = @ \cup RowsOf(a, d.caller)]
          PROVE  /\ e \in Dependency
                 /\ e.caller # None =>
                       \A t \in e.callees : \E b \in Analyses : <<e.caller, t>> \in b.calls
      <3>1. d \in Dependency /\ RowsOf(a, d.caller) \subseteq Symbols
        BY DEF Inv, GraphOK, RowsOf
      <3>2. e = [caller |-> d.caller, callees |-> d.callees \cup RowsOf(a, d.caller)]
        BY <2>2, <3>1 DEF Dependency
      <3>3. e \in Dependency
        BY <3>1, <3>2 DEF Dependency
      <3>4. ASSUME e.caller # None, NEW t \in e.callees
            PROVE  \E b \in Analyses : <<e.caller, t>> \in b.calls
        <4>1. CASE t \in d.callees
          BY <4>1, <3>2, <3>4 DEF Inv, EdgesAreCalls
        <4>2. CASE t \in RowsOf(a, d.caller)
          BY <4>2, <3>2 DEF RowsOf
        <4> QED
          BY <3>2, <3>4, <4>1, <4>2
      <3> QED
        BY <3>3, <3>4
    <2>3. ASSUME NEW s \in p, NEW t \in RowsOf(a, s), e = [caller |-> s, callees |-> {t}]
          PROVE  /\ e \in Dependency
                 /\ \A u \in e.callees : \E b \in Analyses : <<e.caller, u>> \in b.calls
      BY <2>3 DEF Inv, GraphOK, RowsOf, Dependency
    <2> QED
      BY <1>1, <1>3, <2>1, <2>2, <2>3 DEF WithRows
  <1>5. GraphOK'
    BY <1>2, <1>4 DEF Inv, GraphOK
  <1>6. OneProvider'
    BY <1>2 DEF Inv, OneProvider
  <1>7. EdgesAreCalls'
    BY <1>4 DEF EdgesAreCalls
  <1> QED
    BY <1>5, <1>6, <1>7

\* A Reset only ever takes: whatever it has left is what was there.
LEMMA TrashStep ==
    ASSUME Inv, NEW w \in Workers,
           TrashProvides(w) \/ TrashCaller(w) \/ TrashCallees(w) \/ TrashNodes(w)
    PROVE  GraphOK' /\ OneProvider' /\ EdgesAreCalls'
  <1> USE DEF Inv, GraphOK, OneProvider, EdgesAreCalls
  <1>1. CASE TrashProvides(w)
    BY <1>1 DEF TrashProvides
  <1>2. CASE TrashCaller(w)
    <2>1. \A e \in dependencies' :
             \/ e \in dependencies
             \/ \E d \in dependencies : e = [d EXCEPT !.caller = None]
      BY <1>2 DEF TrashCaller, Batches
    <2>2. \A e \in dependencies' : e \in dependencies \/ (e \in Dependency /\ e.caller = None)
      BY <2>1 DEF Dependency
    <2> QED
      BY <1>2, <2>2 DEF TrashCaller
  <1>3. CASE TrashCallees(w)
    <2>1. PICK D : dependencies' =
             {[d EXCEPT !.callees = {t \in @ : <<d, t>> \notin D}] : d \in dependencies}
      BY <1>3 DEF TrashCallees
    <2>2. \A e \in dependencies' : \E d \in dependencies :
             e \in Dependency /\ e.caller = d.caller /\ e.callees \subseteq d.callees
      BY <2>1 DEF Dependency
    <2> QED
      BY <1>3, <2>2 DEF TrashCallees
  <1>4. CASE TrashNodes(w)
    <2>1. PICK b : /\ (b[1] \cup b[2] \cup b[3]) \cap Related = {}
                   /\ libraries' = libraries \ b[1]
                   /\ symbols' = symbols \ b[2]
                   /\ dependencies' = dependencies \ b[3]
                   /\ UNCHANGED <<provides, foreign>>
      BY <1>4 DEF TrashNodes, DeleteNodes
    <2>2. /\ foreign \subseteq Related
          /\ \A r \in provides : r[1] \in Related /\ r[2] \in Related
      BY DEF Related
    <2> QED
      BY <2>1, <2>2
  <1> QED
    BY <1>1, <1>2, <1>3, <1>4

LEMMA NextGraph == Inv /\ [Next]_vars => GraphOK' /\ OneProvider' /\ EdgesAreCalls'
  <1> SUFFICES ASSUME Inv, [Next]_vars PROVE GraphOK' /\ OneProvider' /\ EdgesAreCalls'
    OBVIOUS
  <1>1. ASSUME UNCHANGED graph PROVE GraphOK' /\ OneProvider' /\ EdgesAreCalls'
    BY <1>1 DEF graph, Inv, GraphOK, OneProvider, EdgesAreCalls
  <1>2. ASSUME NEW w \in Workers, UpsertLibrary(w)
        PROVE  GraphOK' /\ OneProvider' /\ EdgesAreCalls'
    <2>1. pc[w] = "upsertLibrary"
      BY <1>2 DEF UpsertLibrary, At
    <2>2. lib[w] \in Libraries
      BY <2>1, JobOf, AnalysisOf DEF Inv, StepsOK, CreateSteps
    <2> QED
      BY <1>2, <2>2 DEF UpsertLibrary, Inv, GraphOK, OneProvider, EdgesAreCalls
  <1>3. ASSUME NEW n \in Referable, Refer(n)
        PROVE  GraphOK' /\ OneProvider' /\ EdgesAreCalls'
    BY <1>3 DEF Refer, Inv, GraphOK, OneProvider, EdgesAreCalls
  <1>4. ASSUME NEW w \in Workers, NEW j \in Calls, Start(w, j) PROVE UNCHANGED graph
    BY <1>4 DEF Start, graph
  <1>5. ASSUME NEW w \in Workers, Proceed(w)
        PROVE  GraphOK' /\ OneProvider' /\ EdgesAreCalls'
    <2>1. CASE UpsertLibrary(w)
      BY <2>1, <1>2
    <2>2. CASE BulkUpsertSymbols(w)
      BY <2>2, SymbolsStep
    <2>3. CASE BulkUpsertDependencies(w)
      BY <2>3, DependenciesStep
    <2>4. CASE TrashProvides(w) \/ TrashCaller(w) \/ TrashCallees(w) \/ TrashNodes(w)
      BY <2>4, TrashStep
    <2>5. CASE CoreExists(w) \/ LibraryExists(w) \/ SymbolClash(w) \/ RetrieveLibrary(w)
               \/ RetrieveSymbol(w) \/ TrashRefused(w) \/ Respond(w)
      BY <2>5, <1>1 DEF CoreExists, LibraryExists, SymbolClash, RetrieveLibrary,
                        RetrieveSymbol, TrashRefused, Respond, graph
    <2> QED
      BY <1>5, <2>1, <2>2, <2>3, <2>4, <2>5 DEF Proceed
  <1>6. ASSUME NEW w \in Workers, PackageError(w) \/ TrashError(w) \/ ReturnError(w)
        PROVE  UNCHANGED graph
    BY <1>6 DEF PackageError, TrashError, ReturnError, graph
  <1>7. ASSUME Crash PROVE UNCHANGED graph
    BY <1>7 DEF Crash, graph
  <1>8. CASE UNCHANGED vars
    BY <1>1, <1>8 DEF vars, graph
  <1> QED
    BY <1>1, <1>3, <1>4, <1>5, <1>6, <1>7, <1>8 DEF Next

LEMMA Initial == Init => Inv
  BY DEF Init, Inv, GraphOK, HandlersOK, LoopsOK, StepsOK, OneProvider, EdgesAreCalls, Steps,
         CreateSteps, TrashSteps, NoJob

LEMMA Invariance == Spec => []Inv
  <1>1. Inv /\ [Next]_vars => Inv'
    BY NextHandlers, NextGraph DEF Inv
  <1> QED
    BY Initial, <1>1, PTL DEF Spec

-----------------------------------------------------------------------------

\* The nodes and relationships of the database are those the queries name, and
\* the loops of Export range over the analysis of their own call: whatever
\* other calls, errors and crashes come in between.
THEOREM TypeCorrect == Spec => []TypeOK
  <1>1. Inv => TypeOK
    BY DEF Inv, TypeOK
  <1> QED
    BY Invariance, <1>1, PTL

\* bulkUpsertSymbols never gives a symbol, whose identity holds no version, to
\* a second library.
THEOREM NeverTwoProviders == Spec => []OneProvider
  <1>1. Inv => OneProvider
    BY DEF Inv
  <1> QED
    BY Invariance, <1>1, PTL

\* bulkUpsertCallGraphDependencies and the Trashes of Reset leave no edge that
\* no analysis has.
THEOREM NoInventedEdge == Spec => []EdgesAreCalls
  <1>1. Inv => EdgesAreCalls
    BY DEF Inv
  <1> QED
    BY Invariance, <1>1, PTL

-----------------------------------------------------------------------------
(* Answers, and the calls beside them.                                     *)

\* Calls end, or go on as they are; one at most begins.
LEMMA Calling ==
    ASSUME Inv, [Next]_vars
    PROVE  \/ \E w \in Workers, j \in Calls : Start(w, j)
           \/ \E n \in Referable : Refer(n)
           \/ \A v \in Workers : pc'[v] # "idle" =>
                 pc[v] # "idle" /\ job'[v] = job[v] /\ overlaps'[v] = overlaps[v]
  <1> DEFINE Goes == \A v \in Workers : pc'[v] # "idle" =>
                        pc[v] # "idle" /\ job'[v] = job[v] /\ overlaps'[v] = overlaps[v]
  <1> USE DEF Inv, HandlersOK, At, Goto
  <1>1. ASSUME NEW w \in Workers, pc[w] # "idle", UNCHANGED <<job, overlaps>>,
               pc' = pc \/ pc' = [pc EXCEPT ![w] = pc'[w]]
        PROVE  Goes
    BY <1>1
  <1>2. ASSUME NEW w \in Workers, \/ CoreExists(w) \/ LibraryExists(w) \/ UpsertLibrary(w)
                                  \/ BulkUpsertSymbols(w) \/ SymbolClash(w) \/ RetrieveLibrary(w)
                                  \/ RetrieveSymbol(w)
        PROVE  Goes
    <2>1. /\ pc[w] # "idle" /\ UNCHANGED <<job, overlaps>>
          /\ \E s : pc' = [pc EXCEPT ![w] = s]
      BY <1>2 DEF CoreExists, LibraryExists, UpsertLibrary, BulkUpsertSymbols, WriteSymbols,
                  SymbolClash, RetrieveLibrary, RetrieveSymbol
    <2> QED BY <1>1, <2>1
  <1>3. ASSUME NEW w \in Workers, BulkUpsertDependencies(w) \/ PackageError(w) PROVE Goes
    <2>1. /\ pc[w] # "idle" /\ UNCHANGED <<job, overlaps>>
          /\ \E l, rest, failed : AfterPackage(w, l, rest, failed)
      BY <1>3 DEF BulkUpsertDependencies, PackageError
    <2>2. pc' = pc \/ \E s : pc' = [pc EXCEPT ![w] = s]
      BY <2>1 DEF AfterPackage
    <2> QED BY <1>1, <2>1, <2>2
  <1>4. ASSUME NEW w \in Workers, \/ TrashProvides(w) \/ TrashCaller(w) \/ TrashCallees(w)
                                  \/ TrashNodes(w) \/ TrashRefused(w) \/ TrashError(w)
                                  \/ ReturnError(w)
        PROVE  Goes
    <2>1. /\ pc[w] # "idle" /\ UNCHANGED <<job, overlaps>>
          /\ pc' = pc \/ \E s : pc' = [pc EXCEPT ![w] = s]
      BY <1>4 DEF TrashProvides, TrashCaller, TrashCallees, TrashNodes, TrashRefused, TrashError,
                  ReturnError, EndOfTrash
    <2> QED BY <1>1, <2>1
  <1>5. ASSUME NEW w \in Workers, Respond(w) PROVE Goes
    BY <1>5 DEF Respond
  <1>6. CASE Crash
    BY <1>6 DEF Crash
  <1>7. CASE UNCHANGED vars
    BY <1>7 DEF vars
  <1> QED BY <1>2, <1>3, <1>4, <1>5, <1>6, <1>7 DEF Next, Proceed

\* A call goes on, or begins: those that begin beside it are told.
LEMMA Overlapping ==
    ASSUME Inv, [Next]_vars, NEW w \in Workers, pc'[w] # "idle"
    PROVE  \/ /\ \E j \in Calls : Start(w, j) /\ job'[w] = j
              /\ \A v \in Workers \ {w} : pc'[v] # "idle" =>
                    pc[v] # "idle" /\ job'[v] = job[v] /\ job[v].kind \in overlaps'[w]
           \/ /\ pc[w] # "idle" /\ job'[w] = job[w] /\ overlaps[w] \subseteq overlaps'[w]
              /\ \A v \in Workers \ {w} : pc'[v] # "idle" =>
                    \/ pc[v] # "idle" /\ job'[v] = job[v]
                    \/ job'[v].kind \in overlaps'[w]
  <1> USE DEF Inv, HandlersOK, At, Goto
  <1> DEFINE Begins == /\ \E j \in Calls : Start(w, j) /\ job'[w] = j
                       /\ \A v \in Workers \ {w} : pc'[v] # "idle" =>
                             pc[v] # "idle" /\ job'[v] = job[v] /\ job[v].kind \in overlaps'[w]
             Goes == /\ pc[w] # "idle" /\ job'[w] = job[w] /\ overlaps[w] \subseteq overlaps'[w]
                     /\ \A v \in Workers \ {w} : pc'[v] # "idle" =>
                           \/ pc[v] # "idle" /\ job'[v] = job[v]
                           \/ job'[v].kind \in overlaps'[w]
  <1>1. ASSUME NEW u \in Workers, NEW j \in Calls, Start(u, j) PROVE Begins \/ Goes
    <2>1. /\ pc[u] = "idle" /\ job' = [job EXCEPT ![u] = j]
          /\ \A v \in Workers \ {u} : pc'[v] = pc[v]
          /\ overlaps' = [Beside(j.kind) EXCEPT ![u] = {job[v].kind : v \in Running}]
      BY <1>1 DEF Start
    <2>2. job'[u] = j /\ \A v \in Workers \ {u} : job'[v] = job[v]
      BY <2>1
    <2>3. CASE u = w
      <3>1. overlaps'[w] = {job[v].kind : v \in Running}
        BY <2>1, <2>3 DEF Beside
      <3> QED BY <1>1, <2>1, <2>2, <2>3, <3>1 DEF Running
    <2>4. CASE u # w
      <3>1. overlaps'[w] = overlaps[w] \cup {j.kind} /\ pc[w] # "idle"
        BY <2>1, <2>4 DEF Beside, Running
      <3> QED BY <2>1, <2>2, <2>4, <3>1
    <2> QED BY <2>3, <2>4
  <1>2. ASSUME NEW n \in Referable, Refer(n) PROVE Goes
    BY <1>2 DEF Refer, Beside, Running
  <1>3. CASE \A v \in Workers : pc'[v] # "idle" =>
                 pc[v] # "idle" /\ job'[v] = job[v] /\ overlaps'[v] = overlaps[v]
    BY <1>3
  <1> QED BY <1>1, <1>2, <1>3, Calling

\* A call with nothing beside it is alone; an export without a Reset beside it
\* has none.
BesideInv ==
    \A w \in Workers : pc[w] # "idle" =>
        /\ overlaps[w] = {} => \A v \in Workers \ {w} : pc[v] = "idle"
        /\ "reset" \notin overlaps[w] =>
              \A v \in Workers \ {w} : pc[v] # "idle" => job[v].kind # "reset"

LEMMA BesideStep == Inv /\ BesideInv /\ [Next]_vars => BesideInv'
  <1> SUFFICES ASSUME Inv, BesideInv, [Next]_vars, NEW w \in Workers, pc'[w] # "idle"
               PROVE  /\ overlaps'[w] = {} => \A v \in Workers \ {w} : pc'[v] = "idle"
                      /\ "reset" \notin overlaps'[w] =>
                            \A v \in Workers \ {w} : pc'[v] # "idle" => job'[v].kind # "reset"
    BY DEF BesideInv
  <1> QED BY Overlapping DEF BesideInv

\* Who answers without an error.
LEMMA Finished ==
    ASSUME Inv, [Next]_vars, NEW v \in Workers, pc'[v] = "done", pc[v] # "done"
    PROVE  RetrieveLibrary(v) \/ RetrieveSymbol(v) \/ TrashNodes(v)
  <1> USE DEF Inv, HandlersOK, At, Goto
  <1> DEFINE Finishes == RetrieveLibrary(v) \/ RetrieveSymbol(v) \/ TrashNodes(v)
  <1>1. ASSUME NEW w \in Workers, NEW j \in Calls, Start(w, j) PROVE Finishes
    BY <1>1, JobKinds DEF Start
  <1>2. ASSUME NEW w \in Workers, RetrieveLibrary(w) \/ RetrieveSymbol(w) \/ TrashNodes(w)
        PROVE  Finishes
    BY <1>2 DEF RetrieveLibrary, RetrieveSymbol, TrashNodes
  <1>3. ASSUME NEW w \in Workers, pc' = pc \/ \E s \in Steps \ {"done"} : pc' = [pc EXCEPT ![w] = s]
        PROVE  Finishes
    BY <1>3
  <1>4. ASSUME NEW w \in Workers, \/ CoreExists(w) \/ LibraryExists(w) \/ UpsertLibrary(w)
                                  \/ BulkUpsertSymbols(w) \/ SymbolClash(w)
        PROVE  Finishes
    <2>1. \E s \in Steps \ {"done"} : pc' = [pc EXCEPT ![w] = s]
      BY <1>4 DEF CoreExists, LibraryExists, UpsertLibrary, BulkUpsertSymbols, WriteSymbols,
                  SymbolClash, AfterNodes, Steps
    <2> QED BY <1>3, <2>1
  <1>5. ASSUME NEW w \in Workers, BulkUpsertDependencies(w) \/ PackageError(w) PROVE Finishes
    <2>1. \E l, rest, failed : AfterPackage(w, l, rest, failed)
      BY <1>5 DEF BulkUpsertDependencies, PackageError
    <2>2. pc' = pc \/ \E s \in Steps \ {"done"} : pc' = [pc EXCEPT ![w] = s]
      BY <2>1 DEF AfterPackage, AfterNodes, Steps
    <2> QED BY <1>3, <2>2
  <1>6. ASSUME NEW w \in Workers, \/ TrashProvides(w) \/ TrashCaller(w) \/ TrashCallees(w)
                                  \/ TrashRefused(w) \/ TrashError(w) \/ ReturnError(w) \/ Respond(w)
        PROVE  Finishes
    <2>1. pc' = pc \/ \E s \in Steps \ {"done"} : pc' = [pc EXCEPT ![w] = s]
      BY <1>6, AfterTrashIs DEF TrashProvides, TrashCaller, TrashCallees, TrashRefused, TrashError,
            ReturnError, Respond, EndOfTrash, Steps
    <2> QED BY <1>3, <2>1
  <1>7. CASE Crash \/ UNCHANGED vars \/ \E n \in Referable : Refer(n)
    BY <1>7 DEF Crash, vars, Refer
  <1> QED BY <1>1, <1>2, <1>4, <1>5, <1>6, <1>7 DEF Next, Proceed

LEMMA EmptyStep == Inv /\ BesideInv /\ AloneResetEmpties /\ [Next]_vars => AloneResetEmpties'
  <1> SUFFICES ASSUME Inv, BesideInv, AloneResetEmpties, [Next]_vars, NEW w \in Workers,
                      pc'[w] = "done", job'[w] = ResetJob, overlaps'[w] = {}
               PROVE  libraries' = {} /\ symbols' = {} /\ dependencies' = {}
    BY DEF AloneResetEmpties
  <1>1. \A j \in Calls : ~Start(w, j)
    <2> SUFFICES ASSUME NEW j \in Calls, Start(w, j) PROVE FALSE
      OBVIOUS
    <2> QED BY JobKinds DEF Start, At, Goto, Inv, HandlersOK
  <1>2. pc[w] # "idle" /\ job[w] = ResetJob /\ overlaps[w] = {}
    BY <1>1, Overlapping
  <1>3. \A v \in Workers \ {w} : pc[v] = "idle"
    BY <1>2 DEF BesideInv
  <1>4. CASE pc[w] = "done"
    <2>1. libraries = {} /\ symbols = {} /\ dependencies = {}
      BY <1>2, <1>4 DEF AloneResetEmpties
    <2>2. UNCHANGED <<libraries, symbols, dependencies>>
      <3> USE DEF At
      <3>1. ASSUME NEW v \in Workers, Proceed(v) PROVE Respond(v)
        BY <1>3, <1>4, <3>1 DEF Proceed, CoreExists, LibraryExists, UpsertLibrary,
              BulkUpsertSymbols, SymbolClash, BulkUpsertDependencies, RetrieveLibrary, RetrieveSymbol,
              TrashProvides, TrashCaller, TrashCallees, TrashNodes, TrashRefused
      <3>2. ASSUME NEW v \in Workers, \/ Respond(v) \/ PackageError(v) \/ TrashError(v)
                                      \/ ReturnError(v) \/ \E j \in Calls : Start(v, j)
            PROVE  UNCHANGED <<libraries, symbols, dependencies>>
        BY <3>2 DEF Respond, PackageError, TrashError, ReturnError, Start, graph
      <3>3. CASE Crash \/ UNCHANGED vars \/ \E n \in Referable : Refer(n)
        BY <3>3 DEF Crash, vars, graph, Refer
      <3> QED BY <3>1, <3>2, <3>3 DEF Next
    <2> QED BY <2>1, <2>2
  <1>5. CASE pc[w] # "done"
    <2>1. \A a : job[w] # CreateJob(a)
      BY <1>2 DEF CreateJob, ResetJob
    <2>2. \A s : job[w] # RetrieveJob(s)
      BY <1>2 DEF RetrieveJob, ResetJob
    <2>3. ~RetrieveLibrary(w) /\ ~RetrieveSymbol(w)
      BY <2>1, <2>2 DEF RetrieveLibrary, RetrieveSymbol, At, Inv, StepsOK, CreateSteps
    <2>4. TrashNodes(w)
      BY <1>5, <2>3, Finished
    <2>5. PICK b \in NodeBatches : DeleteNodes(b) /\ (b # <<{}, {}, {}>> => pc' = pc)
      BY <2>4 DEF TrashNodes
    <2>6. b = <<{}, {}, {}>>
      BY <1>5, <2>5
    <2>7. Cardinality(b[1]) + Cardinality(b[2]) + Cardinality(b[3]) = 0
      BY <2>6, FS_EmptySet
    <2>8. b = <<libraries, symbols, dependencies>>
      BY <2>5, <2>7, LimitAssumption DEF NodeBatches
    <2> QED BY <2>5, <2>6, <2>8 DEF DeleteNodes
  <1> QED BY <1>4, <1>5

\* A Reset that ran alone and was answered without an error has left nothing of
\* the codebase, whatever the graph it found and whatever failed before.
THEOREM Emptied == Spec => []AloneResetEmpties
  <1>1. Init => BesideInv /\ AloneResetEmpties
    BY DEF Init, BesideInv, AloneResetEmpties
  <1> QED BY Invariance, <1>1, BesideStep, EmptyStep, PTL DEF Spec

-----------------------------------------------------------------------------
(* An export without an error is complete.                                 *)

Edge(s, t) == \E d \in dependencies : d.caller = s /\ t \in d.callees
NewOf(a, c) == UNION {SymbolsOf(a, l) : l \in c}
Provided(a, l) == {l} \X SymbolsOf(a, l) \subseteq provides
Called(a, p, c) == \A s \in p, t \in NewOf(a, c) : <<s, t>> \in a.calls => Edge(s, t)

\* The loops: the core library comes before the modules, and errors are
\* collected within the packages of one library only.
ExportOf(w) ==
    /\ pc[w] \in {"coreExists", "coreRelations"} => created[w] = {}
    /\ pc[w] \in {"upsertLibrary", "symbols"} /\ lib[w] = job[w].analysis.core => created[w] = {}
    /\ merr[w] => packages[w] # {} /\ pc[w] \in {"coreRelations", "relations"}
ExportInv ==
    \A w \in Workers : /\ pc[w] = "idle" => ~merr[w]
                       /\ pc[w] \in CreateSteps => ExportOf(w)

\* An Export of a at a step, with modules c created and t left, in the packages
\* ps of library l: the modules it has left have their symbols, the packages it
\* has left their calls.
CompleteAt(a, step, c, t, l, ps, failed) ==
    /\ step = "symbols" => l \in libraries
    /\ \A m \in c : Provided(a, m) \/ (step \in {"upsertLibrary", "symbols"} /\ m = l)
    /\ step \in {"relations", "retrieve"} /\ ~failed =>
          \A m \in c : \A p \in a.packages[m] :
              \/ Called(a, p, c)
              \/ step = "relations" /\ m \in t /\ (ps # {} /\ m = l => p \in ps)

CompleteInv ==
    \A w \in Workers : pc[w] \in CreateSteps /\ "reset" \notin overlaps[w] =>
        CompleteAt(job[w].analysis, pc[w], created[w], todo[w], lib[w], packages[w], merr[w])

\* What an export does next, or that another handler moves.
LEMMA Exporting ==
    ASSUME Inv, [Next]_vars, NEW w \in Workers, pc[w] # "idle", pc'[w] \in CreateSteps
    PROVE  /\ pc[w] \in CreateSteps
           /\ \/ CoreExists(w) \/ LibraryExists(w) \/ UpsertLibrary(w) \/ BulkUpsertSymbols(w)
              \/ BulkUpsertDependencies(w) \/ PackageError(w)
              \/ /\ pc'[w] = pc[w] /\ lib'[w] = lib[w] /\ todo'[w] = todo[w] /\ merr'[w] = merr[w]
                 /\ created'[w] = created[w] /\ packages'[w] = packages[w]
  <1> USE DEF Inv, HandlersOK, At, Goto
  <1> DEFINE Acts == CoreExists(w) \/ LibraryExists(w) \/ UpsertLibrary(w) \/ BulkUpsertSymbols(w)
                     \/ BulkUpsertDependencies(w) \/ PackageError(w)
             Waits == /\ pc'[w] = pc[w] /\ lib'[w] = lib[w] /\ todo'[w] = todo[w]
                      /\ merr'[w] = merr[w] /\ created'[w] = created[w]
                      /\ packages'[w] = packages[w]
  <1>1. ASSUME NEW v \in Workers, NEW j \in Calls, Start(v, j) PROVE Waits
    BY <1>1 DEF Start, loops
  <1>2. ASSUME NEW v \in Workers, v # w, \/ CoreExists(v) \/ LibraryExists(v) \/ UpsertLibrary(v)
                                         \/ BulkUpsertSymbols(v)
        PROVE  Waits
    BY <1>2 DEF CoreExists, LibraryExists, UpsertLibrary, BulkUpsertSymbols, WriteSymbols, loops
  <1>3. ASSUME NEW v \in Workers, v # w, BulkUpsertDependencies(v) \/ PackageError(v) PROVE Waits
    <2>1. UNCHANGED created /\ \E l, rest, failed : AfterPackage(v, l, rest, failed)
      BY <1>3 DEF BulkUpsertDependencies, PackageError
    <2> QED BY <1>3, <2>1 DEF AfterPackage
  <1>4. ASSUME NEW v \in Workers, \/ SymbolClash(v) \/ RetrieveLibrary(v) \/ RetrieveSymbol(v)
                                  \/ TrashProvides(v) \/ TrashCaller(v) \/ TrashCallees(v)
                                  \/ TrashNodes(v) \/ TrashRefused(v) \/ TrashError(v)
                                  \/ ReturnError(v) \/ Respond(v)
        PROVE  Waits
    <2>1. CASE v = w
      <3>1. pc'[w] \in TrashSteps \cup {"done", "failed", "idle"}
        BY <1>4, <2>1, AfterTrashIs DEF SymbolClash, RetrieveLibrary, RetrieveSymbol, TrashProvides,
              TrashCaller, TrashCallees, TrashNodes, TrashRefused, TrashError, ReturnError, Respond,
              EndOfTrash, TrashSteps
      <3> QED BY <3>1 DEF CreateSteps, TrashSteps
    <2>2. CASE v # w
      BY <1>4, <2>2 DEF SymbolClash, RetrieveLibrary, RetrieveSymbol, TrashProvides, TrashCaller,
            TrashCallees, TrashNodes, TrashRefused, TrashError, ReturnError, Respond, EndOfTrash, loops
    <2> QED BY <2>1, <2>2
  <1>5. ~Crash
    BY DEF Crash, CreateSteps
  <1>6. ASSUME UNCHANGED vars \/ \E n \in Referable : Refer(n) PROVE Waits
    BY <1>6 DEF vars, loops, Refer
  <1> DEFINE Writes(v) == CoreExists(v) \/ LibraryExists(v) \/ UpsertLibrary(v)
                          \/ BulkUpsertSymbols(v) \/ BulkUpsertDependencies(v) \/ PackageError(v)
  <1>7. Acts \/ Waits
    <2>1. ASSUME NEW v \in Workers, Writes(v) PROVE Acts \/ Waits
      <3> HIDE DEF Waits
      <3> QED BY <1>2, <1>3, <2>1
    <2>2. ASSUME NEW v \in Workers, \/ \E j \in Calls : Start(v, j)
                                    \/ Proceed(v) \/ PackageError(v) \/ TrashError(v) \/ ReturnError(v)
          PROVE  Acts \/ Waits
      <3> HIDE DEF Waits, Acts
      <3> QED BY <1>1, <1>4, <2>1, <2>2 DEF Proceed
    <2> HIDE DEF Waits, Acts
    <2> QED BY <1>5, <1>6, <2>2 DEF Next
  <1>8. Acts => pc[w] \in CreateSteps
    BY DEF CoreExists, LibraryExists, UpsertLibrary, BulkUpsertSymbols, BulkUpsertDependencies,
           PackageError, CreateSteps
  <1> QED BY <1>7, <1>8

\* A handler has no error left from its last call.
LEMMA IdleStep ==
    ASSUME Inv, ExportInv, [Next]_vars, NEW w \in Workers, pc'[w] = "idle"
    PROVE  ~merr'[w]
  <1> USE DEF Inv, HandlersOK, At, Goto
  <1>1. ASSUME NEW v \in Workers, \/ CoreExists(v) \/ LibraryExists(v) \/ UpsertLibrary(v)
                                  \/ BulkUpsertSymbols(v) \/ SymbolClash(v) \/ RetrieveLibrary(v)
                                  \/ RetrieveSymbol(v) \/ TrashProvides(v) \/ TrashCaller(v)
                                  \/ TrashCallees(v) \/ TrashNodes(v) \/ TrashRefused(v)
                                  \/ ReturnError(v) \/ \E j \in Calls : Start(v, j)
        PROVE  merr' = merr /\ pc[w] = "idle"
    <2>1. merr' = merr
      BY <1>1 DEF CoreExists, LibraryExists, UpsertLibrary, BulkUpsertSymbols, WriteSymbols,
            SymbolClash, RetrieveLibrary, RetrieveSymbol, TrashProvides, TrashCaller,
            TrashCallees, TrashNodes, TrashRefused, ReturnError, Start, loops
    <2>2. pc' = pc \/ \E s \in Steps \ {"idle"} : pc' = [pc EXCEPT ![v] = s]
      BY <1>1, AfterTrashIs, JobKinds DEF CoreExists, LibraryExists, UpsertLibrary,
            BulkUpsertSymbols, WriteSymbols, AfterNodes, SymbolClash, RetrieveLibrary, RetrieveSymbol,
            TrashProvides, TrashCaller, TrashCallees, TrashNodes, TrashRefused, ReturnError, Start,
            EndOfTrash, Steps
    <2> QED BY <2>1, <2>2
  <1>2. ASSUME NEW v \in Workers, BulkUpsertDependencies(v) \/ PackageError(v)
        PROVE  v # w /\ pc[w] = "idle" /\ merr'[w] = merr[w]
    <2>1. /\ pc[v] # "idle" /\ \E l, rest, failed : AfterPackage(v, l, rest, failed)
      BY <1>2 DEF BulkUpsertDependencies, PackageError
    <2>2. pc' = pc \/ \E s \in Steps \ {"idle"} : pc' = [pc EXCEPT ![v] = s]
      BY <2>1 DEF AfterPackage, AfterNodes, Steps
    <2>3. \E b : merr' = [merr EXCEPT ![v] = b]
      BY <2>1 DEF AfterPackage
    <2> QED BY <2>1, <2>2, <2>3
  <1>3. ASSUME NEW v \in Workers, TrashError(v) PROVE pc[w] = "idle" /\ merr'[w] = merr[w]
    BY <1>3, AfterTrashIs DEF TrashError
  <1>4. ASSUME NEW v \in Workers, Respond(v) PROVE ~merr'[w] \/ (pc[w] = "idle" /\ merr'[w] = merr[w])
    BY <1>4 DEF Respond
  <1>5. ASSUME Crash PROVE ~merr'[w]
    BY <1>5 DEF Crash
  <1>6. ASSUME UNCHANGED vars \/ \E n \in Referable : Refer(n) PROVE pc[w] = "idle" /\ merr'[w] = merr[w]
    BY <1>6 DEF vars, Refer
  <1>7. pc[w] = "idle" => ~merr[w]
    BY DEF ExportInv
  <1> QED BY <1>1, <1>2, <1>3, <1>4, <1>5, <1>6, <1>7 DEF Next, Proceed

LEMMA ExportStep == Inv /\ ExportInv /\ [Next]_vars => ExportInv'
  <1> SUFFICES ASSUME Inv, ExportInv, [Next]_vars, NEW w \in Workers, pc'[w] \in CreateSteps
               PROVE  ExportOf(w)'
    BY IdleStep DEF ExportInv
  <1>1. pc'[w] # "idle"
    BY DEF CreateSteps
  <1> USE DEF Inv, HandlersOK, At, Goto
  <1>2. CASE pc[w] = "idle"
    <2>1. PICK j \in Calls : Start(w, j)
      BY <1>1, <1>2, Overlapping
    <2>2. created[w] = {} /\ ~merr[w]
      BY <1>2 DEF StepsOK, LoopsOK, NoJob, ExportInv
    <2>3. pc'[w] = "coreExists" /\ created' = created /\ merr' = merr
      BY <2>1, JobKinds DEF Start, loops, CreateSteps
    <2> QED BY <2>2, <2>3 DEF ExportOf
  <1>3. CASE pc[w] # "idle"
    <2>1. pc[w] \in CreateSteps
      BY <1>3, Exporting
    <2>2. ExportOf(w) /\ job'[w] = job[w]
      BY <1>1, <1>3, <2>1, Overlapping DEF ExportInv, Start
    <2>3. PICK a \in Analyses : job[w].analysis = a /\ todo[w] \cup created[w] \subseteq ModulesOf(a)
      BY <2>1, JobOf
    <2>4. CASE CoreExists(w)
      BY <2>2, <2>4 DEF CoreExists, AfterNodes, ExportOf
    <2>5. CASE LibraryExists(w)
      BY <2>2, <2>3, <2>5 DEF LibraryExists, AfterNodes, ExportOf, ModulesOf
    <2>6. CASE UpsertLibrary(w)
      BY <2>2, <2>6 DEF UpsertLibrary, ExportOf, loops
    <2>7. CASE BulkUpsertSymbols(w)
      BY <2>2, <2>7 DEF BulkUpsertSymbols, WriteSymbols, AfterNodes, ExportOf
    <2>8. CASE BulkUpsertDependencies(w) \/ PackageError(w)
      <3>1. /\ pc[w] \in {"coreRelations", "relations"} /\ created' = created
            /\ \E l, rest, failed : AfterPackage(w, l, rest, failed)
        BY <2>8 DEF BulkUpsertDependencies, PackageError
      <3>2. PICK l, rest, failed : AfterPackage(w, l, rest, failed)
        BY <3>1
      <3>3. merr'[w] = failed /\ packages'[w] = rest
        BY <3>2 DEF AfterPackage
      <3>4. CASE rest # {}
        BY <2>2, <3>1, <3>2, <3>3, <3>4 DEF AfterPackage, ExportOf
      <3>5. CASE rest = {}
        <4>1. ~failed
          BY <3>2, <3>5 DEF AfterPackage, CreateSteps
        <4> QED BY <2>2, <3>1, <3>2, <3>3, <3>5, <4>1 DEF AfterPackage, AfterNodes, ExportOf
      <3> QED BY <3>4, <3>5
    <2>9. CASE /\ pc'[w] = pc[w] /\ lib'[w] = lib[w] /\ todo'[w] = todo[w] /\ merr'[w] = merr[w]
               /\ created'[w] = created[w] /\ packages'[w] = packages[w]
      BY <2>2, <2>9 DEF ExportOf
    <2> QED BY <1>3, <2>4, <2>5, <2>6, <2>7, <2>8, <2>9, Exporting
  <1> QED BY <1>2, <1>3

\* The rows of a package give each of its symbols the callees that are in the
\* graph, and take none from any symbol.
LEMMA Rows ==
    ASSUME GraphOK, NEW a, NEW p, dependencies' = WithRows(a, p)
    PROVE  /\ \A s, t : Edge(s, t) => Edge(s, t)'
           /\ \A s \in p \cap symbols, t \in symbols : <<s, t>> \in a.calls => Edge(s, t)'
  <1> DEFINE known == {s \in p : \E d \in dependencies : d.caller = s}
             Longer(d) == [d EXCEPT !.callees = @ \cup RowsOf(a, d.caller)]
  <1> DEFINE Added == UNION {{[caller |-> s, callees |-> {t}] : t \in RowsOf(a, s)} : s \in p \ known}
  <1>0. dependencies' = {IF d.caller \in known THEN Longer(d) ELSE d : d \in dependencies} \cup Added
    BY DEF WithRows
  <1>1. /\ \A d \in dependencies : (IF d.caller \in known THEN Longer(d) ELSE d) \in dependencies'
        /\ \A s \in p \ known : \A t \in RowsOf(a, s) : [caller |-> s, callees |-> {t}] \in dependencies'
    <2>1. ASSUME NEW s \in p \ known, NEW t \in RowsOf(a, s)
          PROVE  [caller |-> s, callees |-> {t}] \in Added
      <3> DEFINE rows(x) == {[caller |-> x, callees |-> {u}] : u \in RowsOf(a, x)}
      <3>1. [caller |-> s, callees |-> {t}] \in rows(s)
        OBVIOUS
      <3>2. Added = UNION {rows(x) : x \in p \ known}
        OBVIOUS
      <3> HIDE DEF rows, Added, known
      <3> QED BY <3>1, <3>2
    <2> HIDE DEF Longer, Added, known
    <2>2. \A d \in dependencies : (IF d.caller \in known THEN Longer(d) ELSE d) \in dependencies'
      BY <1>0
    <2> QED BY <1>0, <2>1, <2>2
  <1>2. \A d \in dependencies : /\ Longer(d).caller = d.caller
                                /\ Longer(d).callees = d.callees \cup RowsOf(a, d.caller)
    BY DEF GraphOK, Dependency
  <1> HIDE DEF Longer
  <1>3. ASSUME NEW s, NEW t, Edge(s, t) PROVE Edge(s, t)'
    <2>1. PICK d \in dependencies : d.caller = s /\ t \in d.callees
      BY <1>3 DEF Edge
    <2>2. \E e \in dependencies' : e.caller = s /\ t \in e.callees
      BY <1>1, <1>2, <2>1
    <2> QED BY <2>2 DEF Edge
  <1>4. ASSUME NEW s \in p \cap symbols, NEW t \in symbols, <<s, t>> \in a.calls PROVE Edge(s, t)'
    <2>1. t \in RowsOf(a, s)
      BY <1>4 DEF RowsOf
    <2>2. CASE s \in known
      <3>1. PICK d \in dependencies : d.caller = s
        BY <2>2
      <3>2. Longer(d) \in dependencies' /\ Longer(d).caller = s /\ t \in Longer(d).callees
        BY <1>1, <1>2, <2>1, <2>2, <3>1
      <3> QED BY <3>2 DEF Edge
    <2>3. CASE s \notin known
      <3>1. [caller |-> s, callees |-> {t}] \in dependencies'
        BY <1>1, <2>1, <2>3
      <3> QED BY <3>1 DEF Edge
    <2> QED BY <2>2, <2>3
  <1> QED BY <1>3, <1>4

\* Without a Reset the graph grows.
LEMMA Grows ==
    ASSUME Inv, [Next]_vars, \A v \in Workers : pc[v] \notin TrashSteps
    PROVE  /\ libraries \subseteq libraries' /\ provides \subseteq provides'
           /\ \A s, t : Edge(s, t) => Edge(s, t)'
  <1> DEFINE More == /\ libraries \subseteq libraries' /\ provides \subseteq provides'
                     /\ \A s, t : Edge(s, t) => Edge(s, t)'
  <1>1. ASSUME libraries \subseteq libraries', provides \subseteq provides',
               dependencies' = dependencies
        PROVE  More
    BY <1>1 DEF Edge
  <1>2. ASSUME NEW v \in Workers, \/ CoreExists(v) \/ LibraryExists(v) \/ UpsertLibrary(v)
                                  \/ BulkUpsertSymbols(v) \/ SymbolClash(v) \/ RetrieveLibrary(v)
                                  \/ RetrieveSymbol(v) \/ Respond(v) \/ PackageError(v)
                                  \/ TrashError(v) \/ ReturnError(v) \/ \E j \in Calls : Start(v, j)
        PROVE  More
    <2>1. /\ libraries \subseteq libraries' /\ provides \subseteq provides'
          /\ dependencies' = dependencies
      BY <1>2 DEF CoreExists, LibraryExists, UpsertLibrary, BulkUpsertSymbols, WriteSymbols,
            SymbolClash, RetrieveLibrary, RetrieveSymbol, Respond, PackageError, TrashError,
            ReturnError, Start, graph
    <2> QED BY <1>1, <2>1
  <1>3. ASSUME NEW v \in Workers, BulkUpsertDependencies(v) PROVE More
    <2>1. UNCHANGED <<libraries, provides>> /\ \E p : dependencies' = WithRows(job[v].analysis, p)
      BY <1>3 DEF BulkUpsertDependencies
    <2> QED BY <2>1, Rows DEF Inv
  <1>4. ASSUME NEW v \in Workers, \/ TrashProvides(v) \/ TrashCaller(v) \/ TrashCallees(v)
                                  \/ TrashNodes(v) \/ TrashRefused(v)
        PROVE  FALSE
    BY <1>4 DEF TrashProvides, TrashCaller, TrashCallees, TrashNodes, TrashRefused, At, TrashSteps
  <1>5. ASSUME Crash \/ UNCHANGED vars \/ \E n \in Referable : Refer(n) PROVE More
    <2>1. UNCHANGED <<libraries, provides, dependencies>>
      BY <1>5 DEF Crash, vars, graph, Refer
    <2> QED BY <1>1, <2>1
  <1> HIDE DEF More
  <1>6. More
    BY <1>2, <1>3, <1>4, <1>5 DEF Next, Proceed
  <1> QED BY <1>6 DEF More

\* What an export has written stays, as long as the graph grows.
LEMMA StaysComplete ==
    ASSUME libraries \subseteq libraries', provides \subseteq provides',
           \A s, t : Edge(s, t) => Edge(s, t)',
           NEW a
    PROVE  /\ \A l : Provided(a, l) => Provided(a, l)'
           /\ \A p, c : Called(a, p, c) => Called(a, p, c)'
  BY DEF Provided, Called

\* The modules an export has created have their symbols in the graph.
LEMMA NewAreSymbols ==
    ASSUME GraphOK, NEW a, NEW c, \A l \in c : Provided(a, l)
    PROVE  NewOf(a, c) \subseteq symbols
  <1> SUFFICES ASSUME NEW l \in c, NEW s \in SymbolsOf(a, l) PROVE s \in symbols
    BY DEF NewOf
  <1>1. <<l, s>> \in provides
    BY DEF Provided
  <1> QED BY <1>1 DEF GraphOK

\* One step of an Export that no Reset disturbs.
LEMMA CompleteMove ==
    ASSUME Inv, Inv', ExportInv, [Next]_vars, NEW w \in Workers,
           \A v \in Workers : pc[v] \notin TrashSteps,
           pc[w] \in CreateSteps, pc'[w] \in CreateSteps, NEW a \in Analyses, job[w].analysis = a,
           CompleteAt(a, pc[w], created[w], todo[w], lib[w], packages[w], merr[w])
    PROVE  CompleteAt(a, pc[w], created[w], todo[w], lib[w], packages[w], merr[w])'
  <1>1. /\ libraries \subseteq libraries'
        /\ \A l : Provided(a, l) => Provided(a, l)'
        /\ \A p, c : Called(a, p, c) => Called(a, p, c)'
    BY Grows, StaysComplete
  <1>2. pc[w] # "idle" /\ ExportOf(w) /\ todo[w] \cup created[w] \subseteq ModulesOf(a)
    BY JobOf DEF CreateSteps, ExportInv, Inv
  <1> USE DEF Inv, HandlersOK, At, Goto
  <1>3. /\ pc[w] = "symbols" => lib[w] \in libraries
        /\ \A m \in created[w] : \/ Provided(a, m)
                                 \/ pc[w] \in {"upsertLibrary", "symbols"} /\ m = lib[w]
        /\ pc[w] \in {"relations", "retrieve"} /\ ~merr[w] =>
              \A m \in created[w] : \A p \in a.packages[m] :
                 \/ Called(a, p, created[w])
                 \/ /\ pc[w] = "relations" /\ m \in todo[w]
                    /\ packages[w] # {} /\ m = lib[w] => p \in packages[w]
    BY DEF CompleteAt
  <1>4. ASSUME /\ pc'[w] = "symbols" => lib'[w] \in libraries'
               /\ \A m \in created'[w] : \/ Provided(a, m)'
                                         \/ pc'[w] \in {"upsertLibrary", "symbols"} /\ m = lib'[w]
               /\ pc'[w] \in {"relations", "retrieve"} /\ ~merr'[w] =>
                     \A m \in created'[w] : \A p \in a.packages[m] :
                        \/ Called(a, p, created[w])'
                        \/ /\ pc'[w] = "relations" /\ m \in todo'[w]
                           /\ packages'[w] # {} /\ m = lib'[w] => p \in packages'[w]
        PROVE  CompleteAt(a, pc[w], created[w], todo[w], lib[w], packages[w], merr[w])'
    BY <1>4 DEF CompleteAt, Called
  <1>5. created'[w] = created[w] => (\A p : Called(a, p, created[w]) => Called(a, p, created[w])')
    <2> SUFFICES ASSUME created'[w] = created[w], NEW p, Called(a, p, created[w])
                 PROVE  Called(a, p, created[w])'
      OBVIOUS
    <2> DEFINE c == created[w]
    <2>1. Called(a, p, c)
      OBVIOUS
    <2> HIDE DEF c
    <2>2. \A s, t : Edge(s, t) => Edge(s, t)'
      BY Grows
    <2>3. \A s \in p, t \in NewOf(a, c) : <<s, t>> \in a.calls => Edge(s, t)'
      BY <2>1, <2>2 DEF Called
    <2>4. NewOf(a, created[w])' = NewOf(a, c)
      BY DEF NewOf, c
    <2> QED BY <2>3, <2>4 DEF Called
  <1>7. CASE CoreExists(w)
    <2>1. created'[w] = {} /\ pc'[w] # "symbols"
      BY <1>2, <1>7 DEF CoreExists, AfterNodes, ExportOf
    <2> QED BY <1>4, <2>1
  <1>8. CASE LibraryExists(w)
    <2>1. pc[w] = "nodes" /\ packages[w] = {} /\ packages' = packages
      BY <1>8 DEF LibraryExists, StepsOK
    <2>2. PICK l \in todo[w] :
             IF l \in libraries
             THEN LET t == todo[w] \ {l}
                  IN  /\ pc' = [pc EXCEPT ![w] = AfterNodes(t, created[w])]
                      /\ todo' = [todo EXCEPT ![w] = IF t = {} THEN created[w] ELSE t]
                      /\ UNCHANGED <<lib, created>>
             ELSE /\ pc' = [pc EXCEPT ![w] = "upsertLibrary"]
                  /\ lib' = [lib EXCEPT ![w] = l]
                  /\ created' = [created EXCEPT ![w] = @ \cup {l}]
      BY <1>8 DEF LibraryExists
    <2>3. \A m \in created[w] : Provided(a, m)'
      BY <1>1, <1>3, <2>1
    <2>4. CASE l \in libraries
      <3>1. /\ created'[w] = created[w]
            /\ pc'[w] = AfterNodes(todo[w] \ {l}, created[w])
            /\ todo[w] \ {l} = {} => todo'[w] = created[w]
        BY <2>2, <2>4
      <3>2. /\ pc'[w] \in {"nodes", "relations", "retrieve"}
            /\ pc'[w] = "relations" => todo'[w] = created[w]
            /\ pc'[w] = "retrieve" => created[w] = {}
        BY <3>1 DEF AfterNodes
      <3> QED BY <1>4, <2>1, <2>3, <3>1, <3>2
    <2>5. CASE l \notin libraries
      <3>1. pc'[w] = "upsertLibrary" /\ lib'[w] = l /\ created'[w] = created[w] \cup {l}
        BY <2>2, <2>5
      <3> QED BY <1>4, <2>3, <3>1
    <2> QED BY <2>4, <2>5
  <1>9. CASE UpsertLibrary(w)
    <2>1. /\ pc[w] = "upsertLibrary" /\ pc'[w] = "symbols" /\ lib' = lib /\ created' = created
          /\ lib[w] \in libraries'
      BY <1>9 DEF UpsertLibrary, loops
    <2> QED BY <1>1, <1>3, <1>4, <2>1
  <1>10. CASE BulkUpsertSymbols(w)
    <2> DEFINE deps == lib[w] = a.core /\ a.packages[lib[w]] # {}
    <2>1. /\ pc[w] = "symbols" /\ packages[w] = {}
          /\ provides' = provides \cup (({lib[w]} \cap libraries) \X SymbolsOf(a, lib[w]))
          /\ created' = created
          /\ pc'[w] = IF deps THEN "coreRelations" ELSE AfterNodes(todo[w], created[w])
          /\ packages'[w] = IF deps THEN a.packages[lib[w]] ELSE {}
          /\ ~deps /\ todo[w] = {} => todo'[w] = created[w]
      BY <1>10 DEF BulkUpsertSymbols, WriteSymbols, NewSymbols, StepsOK
    <2>2. lib[w] \in libraries
      BY <1>3, <2>1
    <2>3. {lib[w]} \X SymbolsOf(a, lib[w]) \subseteq provides'
      BY <2>1, <2>2
    <2>4. \A m \in created[w] : Provided(a, m)'
      BY <1>1, <1>3, <2>3 DEF Provided
    <2>5. CASE deps
      BY <1>2, <1>4, <2>1, <2>5 DEF ExportOf
    <2>6. CASE ~deps
      <3>1. /\ pc'[w] \in {"nodes", "relations", "retrieve"}
            /\ pc'[w] = "relations" => todo'[w] = created[w] /\ packages'[w] = {}
            /\ pc'[w] = "retrieve" => created[w] = {}
        BY <2>1, <2>6 DEF AfterNodes
      <3> QED BY <1>4, <2>1, <2>4, <3>1
    <2> QED BY <2>5, <2>6
  <1>11. CASE BulkUpsertDependencies(w) \/ PackageError(w)
    <2>1. /\ pc[w] \in {"coreRelations", "relations"} /\ created'[w] = created[w]
          /\ pc'[w] # "symbols" /\ pc'[w] # "upsertLibrary"
      BY <1>11 DEF BulkUpsertDependencies, PackageError, AfterPackage, AfterNodes
    <2>2. \A m \in created[w] : Provided(a, m) /\ Provided(a, m)'
      BY <1>1, <1>3, <2>1
    <2>3. CASE pc[w] = "coreRelations"
      BY <1>2, <1>4, <2>1, <2>3 DEF ExportOf
    <2>4. CASE pc[w] = "relations" /\ merr'[w]
      BY <1>4, <2>1, <2>2, <2>4
    <2>5. CASE pc[w] = "relations" /\ ~merr'[w]
      <3>1. BulkUpsertDependencies(w)
        BY <1>11, <2>5 DEF PackageError, AfterPackage
      <3>0. PICK n \in NextPackages(w) : \E p \in n[2] :
               /\ dependencies' = WithRows(a, p)
               /\ AfterPackage(w, n[1], n[2] \ {p}, merr[w])
        BY <3>1 DEF BulkUpsertDependencies
      <3>2. PICK p0 \in n[2] : /\ dependencies' = WithRows(a, p0)
                               /\ AfterPackage(w, n[1], n[2] \ {p0}, merr[w])
        BY <3>0
      <3> DEFINE l0 == n[1]
                 rest == n[2] \ {p0}
      <3>3. /\ n[2] = (IF packages[w] # {} THEN packages[w] ELSE a.packages[l0])
            /\ packages[w] # {} => l0 = lib[w]
        BY <3>2 DEF NextPackages
      <3>4. merr'[w] = merr[w] /\ packages'[w] = rest
        BY <3>2 DEF AfterPackage
      <3>5. /\ rest # {} => pc'[w] = "relations" /\ todo'[w] = todo[w] /\ lib'[w] = l0
            /\ rest = {} => /\ todo'[w] = todo[w] \ {l0}
                            /\ todo[w] \ {l0} # {} => pc'[w] = "relations"
        BY <2>5, <3>2, <3>4 DEF AfterPackage
      <3>6. ASSUME NEW m \in created[w], NEW p \in a.packages[m]
            PROVE  \/ Called(a, p, created[w])'
                   \/ /\ pc'[w] = "relations" /\ m \in todo'[w]
                      /\ packages'[w] # {} /\ m = lib'[w] => p \in packages'[w]
        <4>1. CASE Called(a, p, created[w])
          BY <1>5, <2>1, <4>1
        <4>2. CASE ~Called(a, p, created[w])
          <5>1. m \in todo[w] /\ (packages[w] # {} /\ m = lib[w] => p \in packages[w])
            BY <1>3, <2>5, <3>4, <4>2
          <5>2. CASE m # l0
            BY <3>4, <3>5, <5>1, <5>2
          <5>3. CASE m = l0 /\ p # p0
            <6>1. p \in rest
              BY <3>3, <5>1, <5>3
            <6> QED BY <3>4, <3>5, <5>1, <6>1
          <5>4. CASE m = l0 /\ p = p0
            <6> DEFINE c == created[w]
            <6>1. NewOf(a, c) \subseteq symbols
              BY <2>2, NewAreSymbols
            <6>2. p \subseteq NewOf(a, c)
              BY DEF NewOf, SymbolsOf
            <6> HIDE DEF c
            <6>3. \A s \in p, t \in NewOf(a, c) : <<s, t>> \in a.calls => Edge(s, t)'
              BY <3>2, <5>4, <6>1, <6>2, Rows
            <6>4. NewOf(a, created[w])' = NewOf(a, c)
              BY <2>1 DEF NewOf, c
            <6> QED BY <6>3, <6>4 DEF Called
          <5> QED BY <5>2, <5>3, <5>4
        <4> QED BY <4>1, <4>2
      <3> QED BY <1>4, <2>1, <2>2, <2>5, <3>6
    <2> QED BY <2>1, <2>3, <2>4, <2>5
  <1>12. CASE /\ pc'[w] = pc[w] /\ lib'[w] = lib[w] /\ todo'[w] = todo[w] /\ merr'[w] = merr[w]
              /\ created'[w] = created[w] /\ packages'[w] = packages[w]
    BY <1>1, <1>3, <1>4, <1>5, <1>12
  <1> QED BY <1>2, <1>7, <1>8, <1>9, <1>10, <1>11, <1>12, Exporting

LEMMA CompleteStep ==
    Inv /\ Inv' /\ BesideInv /\ ExportInv /\ CompleteInv /\ [Next]_vars => CompleteInv'
  <1> SUFFICES ASSUME Inv, Inv', BesideInv, ExportInv, CompleteInv, [Next]_vars, NEW w \in Workers,
                      pc'[w] \in CreateSteps, "reset" \notin overlaps'[w]
               PROVE  CompleteAt(job[w].analysis, pc[w], created[w], todo[w], lib[w], packages[w],
                                 merr[w])'
    BY DEF CompleteInv
  <1>1. pc'[w] # "idle"
    BY DEF CreateSteps
  <1>2. CASE pc[w] = "idle"
    <2>1. PICK j \in Calls : Start(w, j)
      BY <1>1, <1>2, Overlapping
    <2>2. created[w] = {}
      BY <1>2 DEF Inv, HandlersOK, StepsOK, LoopsOK, NoJob
    <2>3. pc'[w] = "coreExists" /\ created'[w] = {}
      BY <2>1, <2>2, JobKinds DEF Start, loops, CreateSteps, At, Goto, Inv, HandlersOK
    <2> QED BY <2>3 DEF CompleteAt
  <1>3. CASE pc[w] # "idle"
    <2>1. pc[w] \in CreateSteps
      BY <1>3, Exporting
    <2>2. job'[w] = job[w] /\ overlaps[w] \subseteq overlaps'[w]
      BY <1>1, <1>3, Overlapping DEF Start, At
    <2>3. PICK a \in Analyses : job[w].analysis = a
      BY <2>1, JobOf DEF Inv
    <2>4. CompleteAt(a, pc[w], created[w], todo[w], lib[w], packages[w], merr[w])
      BY <2>1, <2>2, <2>3 DEF CompleteInv
    <2>5. \A v \in Workers : pc[v] \notin TrashSteps
      <3>1. \A v \in Workers \ {w} : pc[v] # "idle" => job[v].kind # "reset"
        BY <1>3, <2>2 DEF BesideInv
      <3>2. pc[w] \notin TrashSteps
        BY <2>1 DEF CreateSteps, TrashSteps
      <3>3. \A v \in Workers : pc[v] \in TrashSteps => pc[v] # "idle" /\ job[v].kind = "reset"
        BY DEF Inv, StepsOK, ResetJob, TrashSteps
      <3> QED BY <3>1, <3>2, <3>3
    <2>6. CompleteAt(a, pc[w], created[w], todo[w], lib[w], packages[w], merr[w])'
      BY <2>1, <2>3, <2>4, <2>5, CompleteMove
    <2> QED BY <2>2, <2>3, <2>6 DEF CompleteAt, Provided, Called, Edge, NewOf
  <1> QED BY <1>2, <1>3

\* A CreateLibrary that no Reset disturbed and whose Export met no error has
\* exported all the symbols of the modules it found missing, and all the calls
\* between them, whichever calls export the same modules beside it.
THEOREM Complete == Spec => []CreatedIsComplete
  <1>1. Init => BesideInv /\ ExportInv /\ CompleteInv
    BY DEF Init, BesideInv, ExportInv, CompleteInv, CreateSteps
  <1>2. Inv /\ ExportInv /\ CompleteInv => CreatedIsComplete
    <2> SUFFICES ASSUME Inv, ExportInv, CompleteInv, NEW w \in Workers, pc[w] = "retrieve",
                        "reset" \notin overlaps[w]
                 PROVE  LET a == job[w].analysis
                            new == UNION {SymbolsOf(a, l) : l \in created[w]}
                        IN  /\ \A l \in created[w] : {l} \X SymbolsOf(a, l) \subseteq provides
                            /\ \A c \in a.calls \cap (new \X new) :
                                  \E d \in dependencies : d.caller = c[1] /\ c[2] \in d.callees
      BY DEF CreatedIsComplete
    <2> DEFINE a == job[w].analysis
               new == NewOf(a, created[w])
    <2>1. pc[w] \in CreateSteps /\ ~merr[w]
      BY DEF CreateSteps, ExportInv, ExportOf
    <2>2. /\ \A l \in created[w] : Provided(a, l)
          /\ \A l \in created[w] : \A p \in a.packages[l] : Called(a, p, created[w])
      BY <2>1 DEF CompleteInv, CompleteAt
    <2>3. ASSUME NEW c \in a.calls, c \in new \X new PROVE Edge(c[1], c[2])
      <3>1. PICK l \in created[w] : c[1] \in SymbolsOf(a, l)
        BY <2>3 DEF NewOf
      <3>2. PICK p \in a.packages[l] : c[1] \in p
        BY <3>1 DEF SymbolsOf
      <3>3. c[2] \in NewOf(a, created[w]) /\ c = <<c[1], c[2]>>
        BY <2>3
      <3> HIDE DEF a
      <3> QED BY <2>2, <2>3, <3>2, <3>3 DEF Called
    <2> QED BY <2>2, <2>3 DEF Provided, Edge, NewOf
  <1> QED BY Initial, Invariance, <1>1, <1>2, BesideStep, ExportStep, CompleteStep, PTL DEF Spec

=============================================================================
