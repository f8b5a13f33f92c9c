---------------------------- MODULE ClientProofs ----------------------------
(* Theorems about Client. "cdn create" is a behaviour of Analyser, "rdg    *)
(* create" one of RDG, and the server's part of "sig create" one of SIG,   *)
(* whatever the other commands do, so what is proved of these holds of the *)
(* whole. What relates the trace analysis to the calls it leads to, and    *)
(* the search for the caller of a span, is proved here.                    *)
EXTENDS Client, FiniteSetTheorems, SequenceTheorems, TLAPS

AP == INSTANCE AnalyserProofs
RP == INSTANCE RDGProofs WITH pc <- rdgPc, call <- rdgCall, queue <- rdgQueue,
                              disturbed <- rdgDisturbed, raced <- rdgRaced

\* A step of Client is one of the analyser, one of RDG, or none of either.
LEMMA WhoseStep ==
    [Next]_vars => \/ A!Next /\ UNCHANGED rdg
                   \/ R!Next /\ UNCHANGED cdn
                   \/ UNCHANGED <<cdn, rdg>>
  BY DEF Next, vars, cdn, rdg, CdnCreate, RdgCreate, Analyse, CreateComponent, CreateDependency,
         Request, Serve, ServerDies, Created, RunAgain

-----------------------------------------------------------------------------
(* The analyser.                                                           *)

LEMMA GraphsAreGiven == AP!CallGraphsAssumption
  BY CallGraphsAssumption DEF IsFiniteSet, AP!IsFiniteSet

LEMMA SameCardinality == A!Cardinality(Functions) = AP!Cardinality(Functions)
  BY DEF A!Cardinality, AP!Cardinality

LEMMA SameAnalyser ==
    /\ A!Init => AP!Init
    /\ A!Next => AP!Next
    /\ AP!CalleesAreRegistered => CalleesAreRegistered
    /\ AP!RecursionIsBounded => RecursionIsBounded
    /\ AP!DependenciesAreOfOneGraph => DependenciesAreOfOneGraph
    /\ AP!ExportedOnce => ExportedOnce
    /\ AP!TypeOK => A!TypeOK
  <1>1. A!Init => AP!Init
    BY DEF A!Init, AP!Init
  <1>2. A!Next => AP!Next
    BY DEF A!Next, AP!Next, A!Analyze, AP!Analyze, A!LoadFails, AP!LoadFails,
           A!RegisterRoot, AP!RegisterRoot, A!RegisterCallee, AP!RegisterCallee,
           A!AddDependency, AP!AddDependency, A!Return, AP!Return, A!Processed, AP!Processed,
           A!Running, AP!Running, A!Enter, AP!Enter, A!Out, AP!Out, A!top, AP!top,
           A!Owners, AP!Owners, A!RegisteredPackages, AP!RegisteredPackages,
           A!Registered, AP!Registered, A!MustRegister, AP!MustRegister
  <1>3. AP!CalleesAreRegistered => CalleesAreRegistered
    BY DEF CalleesAreRegistered, A!CalleesAreRegistered, AP!CalleesAreRegistered,
           A!Registered, AP!Registered, A!Dependencies, AP!Dependencies
  <1>4. AP!RecursionIsBounded => RecursionIsBounded
    BY SameCardinality DEF RecursionIsBounded, A!RecursionIsBounded, AP!RecursionIsBounded
  <1>5. AP!DependenciesAreOfOneGraph => DependenciesAreOfOneGraph
    BY DEF DependenciesAreOfOneGraph, A!DependenciesAreOfOneGraph, AP!DependenciesAreOfOneGraph,
           A!TrackedBy, AP!TrackedBy, A!Registered, AP!Registered,
           A!Dependencies, AP!Dependencies, A!Out, AP!Out
  <1>6. AP!ExportedOnce => ExportedOnce
    BY DEF ExportedOnce, A!ExportedOnce, AP!ExportedOnce, A!Core, AP!Core,
           A!Libraries, AP!Libraries, A!RegisteredPackages, AP!RegisteredPackages,
           A!Registered, AP!Registered
  <1>7. AP!TypeOK => A!TypeOK
    BY DEF A!TypeOK, AP!TypeOK, A!Frame, AP!Frame
  <1> QED BY <1>1, <1>2, <1>3, <1>4, <1>5, <1>6, <1>7

LEMMA RunsAnalyser == Spec => AP!Spec
  <1>1. Init => AP!Init
    BY SameAnalyser DEF Init
  <1>2. [Next]_vars => [AP!Next]_(AP!vars)
    BY WhoseStep, SameAnalyser DEF cdn, AP!vars
  <1> QED BY <1>1, <1>2, PTL DEF Spec, AP!Spec

\* Export finds the callees of every symbol of an analysis.
THEOREM Closed == Spec => []CalleesAreRegistered
  <1>1. AP!Spec => []AP!CalleesAreRegistered
    BY AP!Closed, GraphsAreGiven
  <1>2. AP!CalleesAreRegistered => CalleesAreRegistered
    BY SameAnalyser
  <1> QED BY <1>1, <1>2, RunsAnalyser, PTL

\* register never has more frames than there are functions.
THEOREM Bounded == Spec => []RecursionIsBounded
  <1>1. AP!Spec => []AP!RecursionIsBounded
    BY AP!Bounded, GraphsAreGiven
  <1>2. AP!RecursionIsBounded => RecursionIsBounded
    BY SameAnalyser
  <1> QED BY <1>1, <1>2, RunsAnalyser, PTL

\* An analysis ends with the callees of one graph for each symbol.
THEOREM OneGraph == Spec => []DependenciesAreOfOneGraph
  <1>1. AP!Spec => []AP!DependenciesAreOfOneGraph
    BY AP!OneGraph, GraphsAreGiven
  <1>2. AP!DependenciesAreOfOneGraph => DependenciesAreOfOneGraph
    BY SameAnalyser
  <1> QED BY <1>1, <1>2, RunsAnalyser, PTL

\* An analysis gives each package to one library, or to Go, for Export.
THEOREM Exported == Spec => []ExportedOnce
  <1>1. AP!Spec => []AP!ExportedOnce
    BY AP!Exported, GraphsAreGiven
  <1>2. AP!ExportedOnce => ExportedOnce
    BY SameAnalyser
  <1> QED BY <1>1, <1>2, RunsAnalyser, PTL

-----------------------------------------------------------------------------
(* RDG.                                                                    *)

LEMMA StatesAreGiven == RP!LimitAssumption /\ RP!StacksAssumption
  BY LimitAssumption, StacksAssumption

LEMMA SameBatches == ASSUME NEW M PROVE R!Batches(M) = RP!Batches(M)
  BY DEF R!Batches, RP!Batches, R!Cardinality, RP!Cardinality

LEMMA SameRDG ==
    /\ R!Init => RP!Init
    /\ R!Next => RP!Next
    /\ RP!UniqueUnlessRaced => UniqueUnlessRaced
    /\ RP!AnsweredStackIsStored => AnsweredStackIsStored
    /\ RP!AloneResetEmpties => AloneResetEmpties
    /\ RP!TypeOK => R!TypeOK
  <1> USE DEF R!At, RP!At, R!Goto, RP!Goto, R!history, RP!history, R!NoCall, RP!NoCall,
              R!ResetCall, RP!ResetCall, R!StackCall, RP!StackCall
  <1>1. R!Init => RP!Init
    BY DEF R!Init, RP!Init
  <1>2. ASSUME NEW w, NEW c PROVE R!Start(w, c) => RP!Start(w, c)
    BY DEF R!Start, RP!Start, R!Running, RP!Running, R!Disturbs, RP!Disturbs
  <1>3. ASSUME NEW w PROVE R!Trash(w) => RP!Trash(w)
    BY SameBatches DEF R!Trash, RP!Trash, R!Nodes, RP!Nodes, R!Cardinality, RP!Cardinality
  <1>4. ASSUME NEW w PROVE R!Proceed(w) => RP!Proceed(w)
    BY <1>3 DEF R!Proceed, RP!Proceed, R!Process, RP!Process, R!Exported, RP!Exported,
           R!Match, RP!Match, R!Create, RP!Create, R!Creating, RP!Creating,
           R!ReturnError, RP!ReturnError, R!Respond, RP!Respond
  <1>5. R!Next => RP!Next
    BY <1>2, <1>4 DEF R!Next, RP!Next, R!Crash, RP!Crash, R!Running, RP!Running
  <1>6. RP!UniqueUnlessRaced => UniqueUnlessRaced
    BY DEF UniqueUnlessRaced, R!UniqueUnlessRaced, RP!UniqueUnlessRaced
  <1>7. RP!AnsweredStackIsStored => AnsweredStackIsStored
    BY DEF AnsweredStackIsStored, R!AnsweredStackIsStored, RP!AnsweredStackIsStored
  <1>8. RP!AloneResetEmpties => AloneResetEmpties
    BY DEF AloneResetEmpties, R!AloneResetEmpties, RP!AloneResetEmpties, R!Nodes, RP!Nodes
  <1>9. RP!TypeOK => R!TypeOK
    BY DEF R!TypeOK, RP!TypeOK, R!Call, RP!Call
  <1> QED BY <1>1, <1>5, <1>6, <1>7, <1>8, <1>9

LEMMA RunsRDG == Spec => RP!Spec
  <1>1. Init => RP!Init
    BY SameRDG DEF Init
  <1>2. [Next]_vars => [RP!Next]_(RP!vars)
    BY WhoseStep, SameRDG DEF rdg, RP!vars, RP!handler, RP!history
  <1> QED BY <1>1, <1>2, PTL DEF Spec, RP!Spec

\* An id has two assets only if two handlers raced for it.
THEOREM Unique == Spec => []UniqueUnlessRaced
  <1>1. RP!Spec => []RP!UniqueUnlessRaced
    BY RP!Unique, StatesAreGiven
  <1>2. RP!UniqueUnlessRaced => UniqueUnlessRaced
    BY SameRDG
  <1> QED BY <1>1, <1>2, RunsRDG, PTL

\* A stack that was answered is stored, unless a Reset ran beside the call.
THEOREM Stored == Spec => []AnsweredStackIsStored
  <1>1. RP!Spec => []RP!AnsweredStackIsStored
    BY RP!Stored, StatesAreGiven
  <1>2. RP!AnsweredStackIsStored => AnsweredStackIsStored
    BY SameRDG
  <1> QED BY <1>1, <1>2, RunsRDG, PTL

\* A Reset that was alone, and answered, has left no asset.
THEOREM Emptied == Spec => []AloneResetEmpties
  <1>1. RP!Spec => []RP!AloneResetEmpties
    BY RP!Emptied, StatesAreGiven
  <1>2. RP!AloneResetEmpties => AloneResetEmpties
    BY SameRDG
  <1> QED BY <1>1, <1>2, RunsRDG, PTL

-----------------------------------------------------------------------------
(* sig create: the traces.                                                 *)

Crosses(s) == /\ parent[s] # Absent /\ T!InTrace(s, parent[s])
              /\ Service[parent[s]] # Service[s]
Orphan(s) == parent[s] # Absent /\ ~T!InTrace(s, parent[s])
Seen(v) == services[v] # Absent

\* What the analysis has of a span that is not left, and of no other: the
\* interaction it makes, if it makes one; the span in hand is not done.
TracesInv ==
    /\ command \in {"cdnCreate", "rdgCreate", "sigCreate"}
    /\ parent \in Families /\ left \subseteq Spans
    /\ state \in {"running", "analysed", "failed", "crashed"}
    /\ services \in [T!Services -> Versions \cup {Absent}]
    /\ \A v \in T!Services : Seen(v) => \E s \in Spans : Service[s] = v /\ services[v] = Version[s]
    /\ frames \in Seq(Spans)
    /\ span # Absent => /\ span \in Spans \ left /\ Crosses(span) /\ frames # <<>>
                        /\ Seen(Service[span]) /\ Seen(Service[parent[span]])
    /\ \A i \in interactions :
          /\ i.span \in Spans \ left /\ i.span # span /\ Crosses(i.span)
          /\ i.caller = Service[parent[i.span]] /\ i.to = Service[i.span]
          /\ i.from \in EndpointNames /\ i.name \in EndpointNames
          /\ Seen(i.caller) /\ Seen(i.to)
          /\ \A j \in interactions : j.span = i.span => j = i
    /\ \A s \in Spans \ (left \cup {span}) :
          /\ Crosses(s) => \E i \in interactions : i.span = s
          /\ Orphan(s) => <<TraceOf[s], parent[s]>> \in notFound
    /\ state = "analysed" => left = {} /\ span = Absent

\* Services stay registered with the version they have.
LEMMA SeenStay ==
    ASSUME TracesInv, NEW X \in SUBSET Spans, services' = T!Registered(X)
    PROVE  /\ services' \in [T!Services -> Versions \cup {Absent}]
           /\ \A v \in T!Services : Seen(v) => services'[v] = services[v]
           /\ \A s \in X : services'[Service[s]] # Absent
           /\ \A v \in T!Services : services'[v] # Absent =>
                 \E s \in Spans : Service[s] = v /\ services'[v] = Version[s]
  <1> DEFINE First(v) == CHOOSE s \in X : Service[s] = v
  <1>1. ASSUME NEW v \in T!Services
        PROVE  services'[v] = IF services[v] = Absent /\ v \in {Service[s] : s \in X}
                              THEN Version[First(v)] ELSE services[v]
    BY DEF T!Registered
  <1>2. ASSUME NEW v \in {Service[s] : s \in X}
        PROVE  /\ First(v) \in Spans /\ Service[First(v)] = v
               /\ Version[First(v)] \in Versions /\ Version[First(v)] # Absent
    <2>1. \E s \in X : Service[s] = v
      OBVIOUS
    <2>2. First(v) \in X /\ Service[First(v)] = v
      BY <2>1
    <2> QED BY <2>2, TraceFilesAssumption DEF Versions
  <1> HIDE DEF First
  <1>4. ASSUME NEW v \in T!Services
        PROVE  /\ services'[v] \in Versions \cup {Absent}
               /\ Seen(v) => services'[v] = services[v]
               /\ v \in {Service[s] : s \in X} => services'[v] # Absent
               /\ services'[v] # Absent =>
                     \E s \in Spans : Service[s] = v /\ services'[v] = Version[s]
    <2>1. CASE services[v] = Absent /\ v \in {Service[s] : s \in X}
      <3>1. services'[v] = Version[First(v)]
        BY <1>1, <2>1
      <3> QED BY <1>2, <2>1, <3>1 DEF Seen
    <2>2. CASE ~(services[v] = Absent /\ v \in {Service[s] : s \in X})
      <3>1. services'[v] = services[v]
        BY <1>1, <2>2
      <3>2. services[v] \in Versions \cup {Absent}
        BY DEF TracesInv
      <3>3. Seen(v) => \E s \in Spans : Service[s] = v /\ services[v] = Version[s]
        BY DEF TracesInv
      <3> QED BY <2>2, <3>1, <3>2, <3>3 DEF Seen
    <2> QED BY <2>1, <2>2
  <1>5. services' \in [T!Services -> Versions \cup {Absent}]
    <2>1. services' = [v \in T!Services |-> services'[v]]
      BY DEF T!Registered
    <2> QED BY <1>4, <2>1
  <1>6. \A s \in X : Service[s] \in T!Services
    BY DEF T!Services
  <1> QED BY <1>4, <1>5, <1>6

\* A visit: a span is done, or its caller is looked for.
LEMMA VisitStep ==
    ASSUME TracesInv, state = "running", span = Absent, NEW s \in left, left' = left \ {s},
           NEW X \in SUBSET Spans, services' = T!Registered(X),
           UNCHANGED <<command, parent, interactions, state>>, notFound \subseteq notFound',
           \/ /\ span' = Absent /\ frames' = frames /\ ~Crosses(s)
              /\ Orphan(s) => <<TraceOf[s], parent[s]>> \in notFound'
           \/ span' = s /\ frames' = <<parent[s]>> /\ Crosses(s) /\ X = {s, parent[s]}
    PROVE  TracesInv'
  <1> USE DEF Crosses, Orphan, T!InTrace
  <1>1. /\ services' \in [T!Services -> Versions \cup {Absent}]
        /\ \A v \in T!Services : services[v] # Absent => services'[v] = services[v]
        /\ \A v \in X : services'[Service[v]] # Absent
        /\ \A v \in T!Services : services'[v] # Absent =>
              \E t \in Spans : Service[t] = v /\ services'[v] = Version[t]
    BY SeenStay DEF Seen
  <1>2. s \in Spans /\ Absent \notin Spans /\ \A t \in Spans : Service[t] \in T!Services
    BY TraceFilesAssumption DEF TracesInv, T!Services
  <1>3. frames' \in Seq(Spans) /\ (span' # Absent => frames' # <<>>)
    <2>1. parent[s] \in Spans => <<parent[s]>> \in Seq(Spans) /\ <<parent[s]>> # <<>>
      OBVIOUS
    <2>2. CASE span' = Absent /\ frames' = frames
      BY <2>2 DEF TracesInv
    <2>3. CASE frames' = <<parent[s]>> /\ Crosses(s)
      BY <2>1, <2>3
    <2> QED BY <2>2, <2>3
  <1>4. ASSUME NEW i \in interactions
        PROVE  /\ i.span \in Spans \ left' /\ i.span # span' /\ Crosses(i.span)'
               /\ i.caller = Service[parent'[i.span]] /\ i.to = Service[i.span]
               /\ i.from \in EndpointNames /\ i.name \in EndpointNames
               /\ Seen(i.caller)' /\ Seen(i.to)'
               /\ \A j \in interactions' : j.span = i.span => j = i
    <2>1. /\ i.span \in Spans \ left /\ Crosses(i.span)
          /\ i.caller = Service[parent[i.span]] /\ i.to = Service[i.span]
          /\ i.from \in EndpointNames /\ i.name \in EndpointNames
          /\ Seen(i.caller) /\ Seen(i.to)
          /\ \A j \in interactions : j.span = i.span => j = i
      BY DEF TracesInv
    <2>2. i.caller \in T!Services /\ i.to \in T!Services
      BY <1>2, <2>1
    <2> QED BY <1>1, <1>2, <2>1, <2>2 DEF Seen
  <1>5. span' # Absent => /\ span' \in Spans \ left' /\ Crosses(span)'
                          /\ Seen(Service[span])' /\ Seen(Service[parent[span]])'
    <2>1. CASE span' = Absent
      BY <2>1
    <2>2. CASE span' = s /\ Crosses(s) /\ X = {s, parent[s]}
      <3>1. s \in Spans \ left' /\ parent'[s] = parent[s]
        BY <1>2
      <3>2. services'[Service[s]] # Absent /\ services'[Service[parent[s]]] # Absent
        BY <1>1, <2>2
      <3> QED BY <2>2, <3>1, <3>2 DEF Seen
    <2> QED BY <2>1, <2>2
  <1>6. ASSUME NEW t \in Spans \ (left' \cup {span'})
        PROVE  /\ Crosses(t)' => \E i \in interactions' : i.span = t
               /\ Orphan(t)' => <<TraceOf[t], parent'[t]>> \in notFound'
    <2>1. CASE t = s
      <3>1. ~Crosses(s) /\ (Orphan(s) => <<TraceOf[s], parent[s]>> \in notFound')
        BY <1>6, <2>1
      <3> QED BY <2>1, <3>1
    <2>2. CASE t # s
      BY <1>6, <2>2, TraceFilesAssumption DEF TracesInv
    <2> QED BY <2>1, <2>2
  <1>7. parent' \in Families /\ left' \subseteq Spans /\ command' = command
    BY DEF TracesInv
  <1> QED BY <1>1, <1>3, <1>4, <1>5, <1>6, <1>7 DEF TracesInv, Seen

\* The search ends with the interaction of the span in hand.
LEMMA AnswerStep ==
    ASSUME TracesInv, state = "running", span # Absent, NEW from \in EndpointNames, T!Answer(from),
           command' = command, notFound \subseteq notFound'
    PROVE  TracesInv'
  <1> USE DEF Crosses, Orphan, T!InTrace
  <1> DEFINE new == T!Interaction(span, from)
  <1>1. /\ interactions' = interactions \cup {new} /\ span' = Absent /\ frames' = <<>>
        /\ UNCHANGED <<parent, left, services, state>>
    BY DEF T!Answer
  <1>2. /\ span \in Spans \ left /\ Crosses(span)
        /\ Seen(Service[span]) /\ Seen(Service[parent[span]])
    BY DEF TracesInv
  <1>3. /\ new.span = span /\ new.from = from
        /\ new.caller = Service[parent[span]] /\ new.to = Service[span]
        /\ new.name \in {Name[s] : s \in Spans}
    BY <1>2 DEF T!Interaction
  <1>4. new.name \in EndpointNames
    BY <1>3 DEF EndpointNames
  <1> HIDE DEF new
  <1>5. \A i \in interactions : i.span # span
    BY DEF TracesInv
  <1>6. span # Absent /\ Absent \notin Spans
    BY TraceFilesAssumption
  <1>7. ASSUME NEW i \in interactions'
        PROVE  /\ i.span \in Spans \ left' /\ i.span # span' /\ Crosses(i.span)'
               /\ i.caller = Service[parent'[i.span]] /\ i.to = Service[i.span]
               /\ i.from \in EndpointNames /\ i.name \in EndpointNames
               /\ Seen(i.caller)' /\ Seen(i.to)'
               /\ \A j \in interactions' : j.span = i.span => j = i
    <2>1. CASE i = new
      BY <1>1, <1>2, <1>3, <1>4, <1>5, <1>6, <2>1 DEF Seen
    <2>2. CASE i \in interactions
      <3>1. /\ i.span \in Spans \ left /\ Crosses(i.span)
            /\ i.caller = Service[parent[i.span]] /\ i.to = Service[i.span]
            /\ i.from \in EndpointNames /\ i.name \in EndpointNames
            /\ Seen(i.caller) /\ Seen(i.to)
            /\ \A j \in interactions : j.span = i.span => j = i
        BY <2>2 DEF TracesInv
      <3>2. new.span # i.span
        BY <1>3, <1>5, <2>2
      <3> QED BY <1>1, <1>6, <3>1, <3>2 DEF Seen
    <2> QED BY <1>1, <1>7, <2>1, <2>2
  <1>8. ASSUME NEW t \in Spans \ (left' \cup {span'})
        PROVE  /\ Crosses(t)' => \E i \in interactions' : i.span = t
               /\ Orphan(t)' => <<TraceOf[t], parent'[t]>> \in notFound'
    <2>1. CASE t = span
      BY <1>1, <1>2, <1>3, <2>1
    <2>2. CASE t # span
      BY <1>1, <1>8, <2>2 DEF TracesInv
    <2> QED BY <2>1, <2>2
  <1>9. /\ parent' \in Families /\ left' \subseteq Spans /\ <<>> \in Seq(Spans)
        /\ services' \in [T!Services -> Versions \cup {Absent}]
        /\ \A v \in T!Services : Seen(v)' => \E s \in Spans : Service[s] = v /\ services'[v] = Version[s]
    BY <1>1, EmptySeq DEF TracesInv, Seen
  <1>10. command' \in {"cdnCreate", "rdgCreate", "sigCreate"} /\ state' = "running"
    BY <1>1 DEF TracesInv
  <1> QED BY <1>1, <1>7, <1>8, <1>9, <1>10 DEF TracesInv

LEMMA TracesStep == TracesInv /\ [Next]_vars => TracesInv'
  <1> SUFFICES ASSUME TracesInv, [Next]_vars PROVE TracesInv'
    OBVIOUS
  <1>1. ASSUME NEW s \in Spans, T!VisitLocal(s), command' = command PROVE TracesInv'
    <2>1. ~Crosses(s) /\ ~Orphan(s)
      BY <1>1 DEF T!VisitLocal, Crosses, Orphan
    <2>2. {s} \in SUBSET Spans /\ services' = T!Registered({s})
      BY <1>1 DEF T!VisitLocal
    <2> QED BY <1>1, <2>1, <2>2, VisitStep DEF T!VisitLocal, T!Visits
  <1>2. ASSUME NEW s \in Spans, T!VisitOrphan(s), command' = command PROVE TracesInv'
    <2>1. ~Crosses(s) /\ <<TraceOf[s], parent[s]>> \in notFound' /\ notFound \subseteq notFound'
      BY <1>2 DEF T!VisitOrphan, Crosses
    <2>2. {s} \in SUBSET Spans /\ services' = T!Registered({s})
      BY <1>2 DEF T!VisitOrphan
    <2> QED BY <1>2, <2>1, <2>2, VisitStep DEF T!VisitOrphan, T!Visits
  <1>3. ASSUME NEW s \in Spans, T!VisitCallee(s), command' = command PROVE TracesInv'
    <2>1. Crosses(s)
      BY <1>3 DEF T!VisitCallee, Crosses
    <2>2. {s, parent[s]} \in SUBSET Spans /\ services' = T!Registered({s, parent[s]})
      BY <1>3 DEF T!VisitCallee, T!InTrace
    <2> QED BY <1>3, <2>1, <2>2, VisitStep DEF T!VisitCallee, T!Visits
  <1>4. Unknown \in EndpointNames /\ \A s \in Spans : Caller[s] \in EndpointNames
    BY DEF EndpointNames
  <1>5. ASSUME T!NoCallerFound, command' = command PROVE TracesInv'
    BY <1>4, <1>5, AnswerStep DEF T!NoCallerFound
  <1>6. ASSUME T!ParentNotFound, command' = command PROVE TracesInv'
    BY <1>4, <1>6, AnswerStep DEF T!ParentNotFound
  <1>7. ASSUME T!Found, command' = command PROVE TracesInv'
    BY <1>4, <1>7, AnswerStep DEF T!Found, T!InTrace
  <1>8. ASSUME T!Climb, command' = command PROVE TracesInv'
    <2>1. frames' \in Seq(Spans) /\ frames' # <<>>
      <3>1. frames \in Seq(Spans) /\ T!Above \in Spans /\ frames' = Append(frames, T!Above)
        BY <1>8 DEF T!Climb, T!Deeper, T!InTrace, TracesInv
      <3> QED BY <3>1, AppendProperties
    <2>2. UNCHANGED <<parent, left, span, services, interactions, notFound, state>>
      BY <1>8 DEF T!Climb
    <2> QED BY <1>8, <2>1, <2>2 DEF TracesInv, Crosses, Orphan, Seen
  <1>9. ASSUME T!Overflow \/ T!Analysed \/ T!ParseFails, command' = command PROVE TracesInv'
    <2>1. /\ UNCHANGED <<parent, left, span, frames, services, interactions, notFound>>
          /\ state' \in {"analysed", "failed", "crashed"}
          /\ state' = "analysed" => left = {} /\ span = Absent
      BY <1>9 DEF T!Overflow, T!Analysed, T!ParseFails
    <2> QED BY <1>9, <2>1 DEF TracesInv, Crosses, Orphan, Seen
  <1>10. CASE Analyse
    BY <1>1, <1>2, <1>3, <1>5, <1>6, <1>7, <1>8, <1>9, <1>10 DEF Analyse, T!Next
  <1>11. CASE RunAgain
    <2>1. /\ left' = Spans /\ span' = Absent /\ frames' = <<>> /\ interactions' = {}
          /\ services' = [v \in T!Services |-> Absent] /\ state' = "running"
          /\ UNCHANGED <<command, parent>>
      BY <1>11 DEF RunAgain
    <2>2. /\ services' \in [T!Services -> Versions \cup {Absent}]
          /\ \A v \in T!Services : ~Seen(v)'
          /\ <<>> \in Seq(Spans)
      BY <2>1, EmptySeq DEF Seen
    <2> QED BY <2>1, <2>2 DEF TracesInv
  <1>12. CASE UNCHANGED <<command, traces>>
    BY <1>12 DEF traces, TracesInv, Crosses, Orphan, Seen
  <1>13. Analyse \/ RunAgain \/ UNCHANGED <<command, traces>>
    BY DEF Next, vars, CdnCreate, RdgCreate, CreateComponent, CreateDependency, Request, Serve,
           ServerDies, Created
  <1> QED BY <1>10, <1>11, <1>12, <1>13

LEMMA TracesInit == Init => TracesInv
  <1> SUFFICES ASSUME Init PROVE TracesInv
    OBVIOUS
  <1>1. /\ left = Spans /\ span = Absent /\ frames = <<>> /\ interactions = {}
        /\ services = [v \in T!Services |-> Absent] /\ state = "running" /\ parent \in Families
    BY DEF Init, T!Init, T!Fresh
  <1>2. command \in {"cdnCreate", "rdgCreate", "sigCreate"}
    BY DEF Init
  <1>3. services \in [T!Services -> Versions \cup {Absent}] /\ <<>> \in Seq(Spans)
    BY <1>1, EmptySeq
  <1> QED BY <1>1, <1>2, <1>3 DEF TracesInv, Seen

\* Whatever order the spans come in, and whatever the dump lacks, the analysis
\* ends with one interaction for each span of another service than its parent.
THEOREM Observation == Spec => []ObservedOnce
  <1>1. TracesInv => ObservedOnce
    <2> SUFFICES ASSUME TracesInv, state = "analysed", NEW s \in Spans
                 PROVE  LET of == {i \in interactions : i.span = s}
                        IN  IF parent[s] = Absent THEN of = {}
                            ELSE IF ~T!InTrace(s, parent[s])
                            THEN of = {} /\ <<TraceOf[s], parent[s]>> \in notFound
                            ELSE IF Service[parent[s]] = Service[s] THEN of = {}
                            ELSE \E i \in of : of = {i} /\ services[i.caller] # Absent
                                               /\ services[i.to] # Absent
      BY DEF ObservedOnce, T!ObservedOnce
    <2> DEFINE of == {i \in interactions : i.span = s}
    <2>1. s \notin left /\ s # span
      <3>1. left = {} /\ span = Absent
        BY DEF TracesInv
      <3> QED BY <3>1, TraceFilesAssumption
    <2>2. ~Crosses(s) => of = {}
      <3>1. \A i \in interactions : Crosses(i.span)
        BY DEF TracesInv
      <3> QED BY <3>1
    <2>3. Orphan(s) => <<TraceOf[s], parent[s]>> \in notFound
      BY <2>1 DEF TracesInv
    <2>4. ASSUME Crosses(s)
          PROVE  \E i \in of : of = {i} /\ services[i.caller] # Absent /\ services[i.to] # Absent
      <3>1. PICK i \in interactions : i.span = s
        BY <2>1, <2>4 DEF TracesInv
      <3>2. \A j \in of : j = i
        BY <3>1 DEF TracesInv
      <3>3. Seen(i.caller) /\ Seen(i.to)
        BY DEF TracesInv
      <3> QED BY <3>1, <3>2, <3>3 DEF Seen
    <2> HIDE DEF of
    <2>5. /\ ~Crosses(s) <=> \/ parent[s] = Absent \/ ~T!InTrace(s, parent[s])
                            \/ Service[parent[s]] = Service[s]
          /\ Orphan(s) <=> parent[s] # Absent /\ ~T!InTrace(s, parent[s])
      BY DEF Crosses, Orphan
    <2> QED BY <2>2, <2>3, <2>4, <2>5 DEF of
  <1> QED BY TracesInit, TracesStep, <1>1, PTL DEF Spec

-----------------------------------------------------------------------------
(* sig create: the SIG service.                                            *)

SP == INSTANCE SIGProofs WITH
        Components <- ComponentNames,
        Names <- EndpointNames,
        Workers <- {"server"},
        Calls <- SigCalls,
        None <- Absent

LEMMA Single == ASSUME NEW U, NEW x \in U PROVE <<x>> \in [{1} -> U] /\ <<x>>[1] = x
  OBVIOUS

LEMMA CallsAreGiven == SP!LimitAssumption /\ SP!CallsAssumption
  <1>1. ASSUME NEW c \in SigCalls
        PROVE  \/ \E x \in ComponentNames : c \in {SP!CreateComponentCall(x), SP!RetrieveComponentCall(x)}
               \/ /\ c.kind = "dependency" /\ c = SP!DependencyCall(c.caller, c.callees)
                  /\ c.caller \in NamedEndpoints /\ c.callees \in Seq(NamedEndpoints)
    <2>1. CASE c \in [kind : {"component"}, component : ComponentNames]
      BY <2>1 DEF SP!CreateComponentCall
    <2>2. CASE c \in [kind : {"dependency"}, caller : NamedEndpoints, callees : [{1} -> NamedEndpoints]]
      <3>1. c.callees \in [1..1 -> NamedEndpoints]
        BY <2>2
      <3>2. c.callees \in Seq(NamedEndpoints)
        BY <3>1, SeqDef
      <3> QED BY <2>2, <3>2 DEF SP!DependencyCall
    <2> QED BY <2>1, <2>2 DEF SigCalls
  <1>2. SP!EndpointNames = NamedEndpoints
    BY DEF SP!EndpointNames, NamedEndpoints
  <1>3. SP!CallsAssumption
    BY <1>1, <1>2, ClientAssumption DEF SP!CallsAssumption
  <1> QED BY <1>3, LimitAssumption

\* What the command asks for are calls that SIG knows.
LEMMA CallsAreCalls ==
    ASSUME TracesInv
    PROVE  /\ \A v \in Observed : Component(v) \in ComponentNames /\ ComponentOf(v) \in SigCalls
           /\ \A i \in interactions : /\ i.caller \in Observed /\ i.to \in Observed
                                      /\ DependencyOf(i) \in SigCalls
  <1>1. ASSUME NEW v \in Observed PROVE Component(v) \in ComponentNames
    BY DEF Observed, Component, ComponentNames, TracesInv, Seen
  <1>2. ASSUME NEW v \in Observed PROVE ComponentOf(v) \in SigCalls
    BY <1>1 DEF ComponentOf, S!CreateComponentCall, SigCalls
  <1>3. ASSUME NEW i \in interactions
        PROVE  i.caller \in Observed /\ i.to \in Observed /\ DependencyOf(i) \in SigCalls
    <2>1. /\ i.span \in Spans /\ Crosses(i.span)
          /\ i.caller = Service[parent[i.span]] /\ i.to = Service[i.span]
          /\ i.from \in EndpointNames /\ i.name \in EndpointNames /\ Seen(i.caller) /\ Seen(i.to)
      BY DEF TracesInv
    <2>2. i.caller \in Observed /\ i.to \in Observed
      BY <2>1 DEF Crosses, T!InTrace, Observed, Seen, T!Services
    <2>3. /\ <<Component(i.caller), i.from>> \in NamedEndpoints
          /\ <<Component(i.to), i.name>> \in NamedEndpoints
      BY <1>1, <2>1, <2>2 DEF NamedEndpoints
    <2>4. <<<<Component(i.to), i.name>>>> \in [{1} -> NamedEndpoints]
      BY <2>3, Single
    <2>5. DependencyOf(i) \in SigCalls
      BY <2>3, <2>4 DEF DependencyOf, S!DependencyCall, SigCalls
    <2> QED BY <2>2, <2>5
  <1> QED BY <1>1, <1>2, <1>3

LEMMA SigStep == TracesInv /\ [Next]_vars => [SP!Next]_(SP!vars)
  <1> SUFFICES ASSUME TracesInv, [Next]_vars PROVE [SP!Next]_(SP!vars)
    OBVIOUS
  <1> USE DEF S!At, SP!At, S!Goto, SP!Goto, S!graph, SP!graph, S!history, SP!history,
             S!NoCall, SP!NoCall
  <1>1. ASSUME NEW c \in SigCalls, S!Start("server", c) PROVE SP!Next
    <2>1. SP!Start("server", c)
      BY <1>1 DEF S!Start, SP!Start, S!Beside, SP!Beside, S!Running, SP!Running,
             S!RunningKinds, SP!RunningKinds, S!Disturbs, SP!Disturbs
    <2> QED BY <2>1 DEF SP!Next
  <1>2. ASSUME Serve PROVE SP!Next
    <2>1. \/ SP!UpsertComponent("server") \/ SP!RetrieveComponent("server")
          \/ SP!MatchEndpoint("server") \/ SP!CreateEndpoint("server") \/ SP!Link("server")
          \/ SP!EndpointError("server") \/ SP!ReturnError("server") \/ SP!Respond("server")
      BY <1>2 DEF Serve, S!UpsertComponent, SP!UpsertComponent,
             S!RetrieveComponent, SP!RetrieveComponent, S!MatchEndpoint, SP!MatchEndpoint,
             S!CreateEndpoint, SP!CreateEndpoint, S!Link, SP!Link, S!EndpointError, SP!EndpointError,
             S!ReturnError, SP!ReturnError, S!Respond, SP!Respond,
             S!NodesNamed, SP!NodesNamed, S!AfterEndpoint, SP!AfterEndpoint,
             S!EndpointFails, SP!EndpointFails, S!IsCaller, SP!IsCaller,
             S!FreeNodes, SP!FreeNodes, S!CalleesOf, SP!CalleesOf
    <2> QED BY <2>1 DEF SP!Next, SP!Proceed
  <1>3. CASE CreateComponent
    BY <1>1, <1>3, CallsAreCalls DEF CreateComponent, Request
  <1>4. CASE CreateDependency
    BY <1>1, <1>4, CallsAreCalls DEF CreateDependency, Request
  <1>5. CASE ServerDies
    BY <1>5 DEF ServerDies, S!Crash, SP!Crash, S!Running, SP!Running, SP!Next
  <1>6. CASE UNCHANGED sig
    BY <1>6 DEF sig, SP!vars, SP!handler
  <1>7. CreateComponent \/ CreateDependency \/ Serve \/ ServerDies \/ UNCHANGED sig
    BY DEF Next, vars, CdnCreate, RdgCreate, Analyse, Created, RunAgain
  <1> QED BY <1>2, <1>3, <1>4, <1>5, <1>6, <1>7

LEMMA RunsSig == Spec => SP!Spec
  <1>1. Init => SP!Init
    BY DEF Init, S!Init, SP!Init, S!NoCall, SP!NoCall
  <1> QED BY <1>1, TracesInit, TracesStep, SigStep, PTL DEF Spec, SP!Spec

LEMMA SigIsSafe == Spec => [](SP!HandlersOK /\ SP!GraphOK /\ SP!AnsweredIsLinked)
  <1>1. SP!Spec => [](SP!HandlersOK /\ SP!GraphOK)
    BY SP!Safe, CallsAreGiven
  <1>2. SP!Spec => []SP!AnsweredIsLinked
    BY SP!AnsweredLinked, CallsAreGiven
  <1> QED BY <1>1, <1>2, RunsSig, PTL

-----------------------------------------------------------------------------
(* sig create: what a run has asked for, and what became of it.            *)

CreationInv ==
    /\ registered \subseteq Observed /\ linked \subseteq interactions
    /\ outcome \in {"running", "created", "failed"}
    /\ runs \in 1..Runs
    /\ state # "analysed" => registered = {} /\ linked = {} /\ outcome = "running"
    /\ linked # {} => Observed \subseteq registered
    /\ outcome = "created" => Observed \subseteq registered /\ interactions \subseteq linked
    /\ state # "analysed" \/ outcome # "running" => pc["server"] = "idle"

LEMMA CreationStep == CreationInv /\ TracesInv /\ SP!HandlersOK /\ [Next]_vars => CreationInv'
  <1> SUFFICES ASSUME CreationInv, TracesInv, SP!HandlersOK, [Next]_vars PROVE CreationInv'
    OBVIOUS
  <1>1. ASSUME UNCHANGED <<services, interactions, state, registered, linked, runs>>,
               outcome' \in {"running", "created", "failed"},
               state # "analysed" => outcome' = outcome,
               outcome' = "created" => Observed \subseteq registered /\ interactions \subseteq linked,
               state # "analysed" \/ outcome' # "running" => pc'["server"] = "idle"
        PROVE  CreationInv'
    BY <1>1 DEF CreationInv, Observed
  <1>2. CASE CdnCreate \/ RdgCreate \/ UNCHANGED vars
    <2>1. UNCHANGED <<services, interactions, state, registered, linked, runs, outcome, pc>>
      BY <1>2 DEF CdnCreate, RdgCreate, vars, traces, sig, creation
    <2> QED BY <1>1, <2>1 DEF CreationInv
  <1>3. CASE Analyse
    <2>1. state = "running"
      BY <1>3 DEF Analyse, T!Next, T!VisitLocal, T!VisitOrphan, T!VisitCallee, T!Visits,
             T!NoCallerFound, T!ParentNotFound, T!Found, T!Climb, T!Deeper, T!Overflow,
             T!Analysed, T!ParseFails
    <2>2. registered = {} /\ linked = {} /\ outcome = "running"
      BY <2>1 DEF CreationInv
    <2>3. UNCHANGED <<registered, linked, outcome, runs, pc>>
      BY <1>3 DEF Analyse, creation, sig
    <2> QED BY <2>1, <2>2, <2>3 DEF CreationInv
  <1>4. CASE CreateComponent
    <2>1. /\ state = "analysed" /\ outcome = "running"
          /\ UNCHANGED <<services, interactions, state, linked, outcome, runs>>
          /\ \E v \in Observed : registered' = registered \cup {v}
      BY <1>4 DEF CreateComponent, Request, Calling, traces
    <2> QED BY <2>1 DEF CreationInv, Observed
  <1>5. CASE CreateDependency
    <2>1. /\ state = "analysed" /\ outcome = "running" /\ Observed \subseteq registered
          /\ UNCHANGED <<services, interactions, state, registered, outcome, runs>>
          /\ \E i \in interactions : linked' = linked \cup {i}
      BY <1>5 DEF CreateDependency, Request, Calling, traces
    <2> QED BY <2>1 DEF CreationInv, Observed
  <1>6. CASE Serve
    <2>1. /\ outcome = "running" /\ outcome' = IF pc["server"] = "failed" THEN "failed" ELSE outcome
          /\ UNCHANGED <<services, interactions, state, registered, linked, runs>>
      BY <1>6 DEF Serve, traces, S!At
    <2>2. /\ pc["server"] # "idle"
          /\ pc["server"] = "failed" => S!Respond("server")
      BY <1>6 DEF Serve, S!At, S!UpsertComponent, S!RetrieveComponent, S!MatchEndpoint,
         S!CreateEndpoint, S!Link, S!EndpointError, S!ReturnError, S!Respond
    <2>3. S!Respond("server") => pc'["server"] = "idle"
      BY DEF S!Respond, S!Goto, SP!HandlersOK
    <2> QED BY <1>1, <2>1, <2>2, <2>3 DEF CreationInv
  <1>7. CASE ServerDies
    <2>1. /\ outcome = "running" /\ outcome' = "failed" /\ pc'["server"] = "idle" /\ pc["server"] # "idle"
          /\ UNCHANGED <<services, interactions, state, registered, linked, runs>>
      BY <1>7 DEF ServerDies, S!Crash, S!Running, traces
    <2> QED BY <1>1, <2>1 DEF CreationInv
  <1>8. CASE Created
    BY <1>1, <1>8 DEF Created, Calling, S!At, traces, sig
  <1>9. CASE RunAgain
    <2>1. /\ registered' = {} /\ linked' = {} /\ outcome' = "running" /\ state' = "running"
          /\ runs' = runs + 1 /\ runs < Runs
      BY <1>9 DEF RunAgain
    <2>2. state # "analysed" \/ outcome # "running"
      BY <1>9 DEF RunAgain, Failed
    <2>3. pc'["server"] = "idle"
      BY <1>9, <2>2 DEF RunAgain, sig, CreationInv
    <2> QED BY <2>1, <2>3, ClientAssumption DEF CreationInv
  <1> QED BY <1>2, <1>3, <1>4, <1>5, <1>6, <1>7, <1>8, <1>9 DEF Next

\* The one call in flight, which no Reset disturbs.
InFlight == /\ pc["server"] # "idle" => call["server"].kind \in {"component", "dependency"}
            /\ ~disturbed["server"]

LEMMA InFlightStep == InFlight /\ TracesInv /\ SP!HandlersOK /\ [Next]_vars => InFlight'
  <1> SUFFICES ASSUME InFlight, TracesInv, SP!HandlersOK, [Next]_vars PROVE InFlight'
    OBVIOUS
  <1> USE DEF S!At, S!Goto, S!history
  <1>1. /\ DOMAIN pc = {"server"} /\ DOMAIN call = {"server"} /\ DOMAIN disturbed = {"server"}
    BY DEF SP!HandlersOK
  <1>2. ASSUME NEW c \in SigCalls, S!Start("server", c) PROVE InFlight'
    <2>1. S!RunningKinds = {}
      BY <1>2 DEF S!Start, S!RunningKinds, S!Running
    <2>2. DOMAIN S!Beside(c.kind) = {"server"}
      BY DEF S!Beside
    <2>3. ~disturbed'["server"]
      BY <1>2, <2>1, <2>2 DEF S!Start
    <2>4. call'["server"] = c
      BY <1>1, <1>2 DEF S!Start
    <2> QED BY <2>3, <2>4 DEF InFlight, SigCalls
  <1>3. CASE CreateComponent \/ CreateDependency
    BY <1>2, <1>3, CallsAreCalls DEF CreateComponent, CreateDependency, Request
  <1>4. CASE ServerDies
    BY <1>4 DEF ServerDies, S!Crash, InFlight
  <1>5. ASSUME pc["server"] # "idle", UNCHANGED <<call, disturbed>> PROVE InFlight'
    BY <1>5 DEF InFlight
  <1>6. CASE Serve
    <2>1. CASE S!Respond("server")
      BY <1>1, <2>1 DEF S!Respond, InFlight
    <2>2. CASE ~S!Respond("server")
      BY <1>5, <1>6, <2>2 DEF Serve, S!UpsertComponent, S!RetrieveComponent, S!MatchEndpoint,
         S!CreateEndpoint, S!Link, S!EndpointError, S!ReturnError
    <2> QED BY <2>1, <2>2
  <1>7. CASE UNCHANGED sig
    BY <1>7 DEF sig, InFlight
  <1>8. CreateComponent \/ CreateDependency \/ Serve \/ ServerDies \/ UNCHANGED sig
    BY DEF Next, vars, CdnCreate, RdgCreate, Analyse, Created, RunAgain
  <1> QED BY <1>3, <1>4, <1>6, <1>7, <1>8

LEMMA CreationInit == Init => CreationInv /\ InFlight
  <1> SUFFICES ASSUME Init PROVE CreationInv /\ InFlight
    OBVIOUS
  <1>1. /\ registered = {} /\ linked = {} /\ outcome = "running" /\ runs = 1
        /\ pc["server"] = "idle" /\ ~disturbed["server"]
    BY DEF Init, S!Init
  <1> QED BY <1>1, ClientAssumption DEF CreationInv, InFlight

LEMMA CreationIsSafe == Spec => [](TracesInv /\ CreationInv /\ InFlight)
  <1> QED BY TracesInit, TracesStep, CreationInit, CreationStep, InFlightStep, SigIsSafe, PTL DEF Spec

\* All the commands keep their types, and those of what they set going.
THEOREM TypeCorrect == Spec => []TypeOK
  <1>1. Spec => []A!TypeOK
    <2>1. AP!Spec => []AP!TypeOK
      BY AP!Typed, GraphsAreGiven
    <2>2. AP!TypeOK => A!TypeOK
      BY SameAnalyser
    <2> QED BY <2>1, <2>2, RunsAnalyser, PTL
  <1>2. Spec => []R!TypeOK
    <2>1. RP!Spec => []RP!TypeOK
      BY RP!Typed, StatesAreGiven
    <2>2. RP!TypeOK => R!TypeOK
      BY SameRDG
    <2> QED BY <2>1, <2>2, RunsRDG, PTL
  <1>3. Spec => []S!TypeOK
    <2>1. SP!Spec => []SP!TypeOK
      BY SP!TypeCorrect, CallsAreGiven
    <2>2. SP!TypeOK => S!TypeOK
      BY DEF S!TypeOK, SP!TypeOK, S!Endpoint, SP!Endpoint, S!Dependency, SP!Dependency,
             S!Linked, SP!Linked, S!Steps, SP!Steps, S!NoCall, SP!NoCall
    <2> QED BY <2>1, <2>2, RunsSig, PTL
  <1>4. TracesInv => T!TypeOK
    <2> SUFFICES ASSUME TracesInv PROVE T!TypeOK
      OBVIOUS
    <2>1. \A i \in DOMAIN frames : frames[i] \in Spans
      <3>1. frames \in Seq(Spans)
        BY DEF TracesInv
      <3> QED BY <3>1, LenProperties
    <2>2. \A v \in T!Services :
             services[v] \in {Absent} \cup {Version[s] : s \in {x \in Spans : Service[x] = v}}
      <3>1. \A v \in T!Services : Seen(v) => \E s \in Spans : Service[s] = v /\ services[v] = Version[s]
        BY DEF TracesInv
      <3> QED BY <3>1 DEF Seen
    <2>3. /\ parent \in Families /\ left \subseteq Spans /\ span \in Spans \cup {Absent}
          /\ \A i \in interactions : i.span \in Spans
          /\ state \in {"running", "analysed", "failed", "crashed"}
      BY DEF TracesInv
    <2> QED BY <2>1, <2>2, <2>3 DEF T!TypeOK
  <1>5. CreationInv => /\ registered \subseteq Observed /\ linked \subseteq interactions
                       /\ outcome \in {"running", "created", "failed"} /\ runs \in 1..Runs
    BY DEF CreationInv
  <1>6. A!TypeOK /\ R!TypeOK /\ S!TypeOK /\ TracesInv /\ CreationInv => TypeOK
    BY <1>4, <1>5 DEF TypeOK
  <1> QED BY <1>1, <1>2, <1>3, <1>6, CreationIsSafe, PTL

-----------------------------------------------------------------------------
(* sig create: what is answered is stored.                                 *)

IsLinked(i) == \E d \in dependencies : /\ <<Component(i.caller), i.from>> \in SP!NamesOf(d.caller)
                                       /\ <<Component(i.to), i.name>> \in SP!NamesOf(d.callee)
Linking(i) == /\ pc["server"] \in SP!DependencySteps \cup {"done"}
              /\ call["server"] = DependencyOf(i)
              /\ {Component(i.caller), Component(i.to)} \subseteq known["server"]

\* As long as no call has failed: what the run has asked for is there, or is
\* being created by the call in flight, which came when its components were.
StoredInv ==
    outcome # "failed" /\ pc["server"] # "failed" =>
        /\ \A v \in registered : \/ Component(v) \in components
                                 \/ pc["server"] = "upsertComponent" /\ call["server"] = ComponentOf(v)
        /\ \A i \in linked : IsLinked(i) \/ Linking(i)

\* The call in flight has not failed: the graph grows by what it asks for.
LEMMA ServeStep ==
    ASSUME SP!HandlersOK, SP!GraphOK, SP!AnsweredIsLinked, TracesInv, CreationInv, InFlight,
           StoredInv, Serve, [Next]_vars, outcome' # "failed", pc'["server"] # "failed"
    PROVE  StoredInv'
  <1> USE DEF S!At, S!Goto
  <1>1. /\ outcome = "running" /\ pc["server"] \notin {"failed", "idle"}
        /\ UNCHANGED <<services, interactions, registered, linked>>
    <2>1. /\ outcome = "running" /\ outcome' = IF pc["server"] = "failed" THEN "failed" ELSE outcome
          /\ UNCHANGED <<services, interactions, registered, linked>>
      BY DEF Serve, traces
    <2>2. pc["server"] # "idle"
      BY DEF Serve, S!UpsertComponent, S!RetrieveComponent, S!MatchEndpoint, S!CreateEndpoint,
         S!Link, S!EndpointError, S!ReturnError, S!Respond
    <2> QED BY <2>1, <2>2
  <1>2. components \subseteq components' /\ endpoints \subseteq endpoints'
        /\ dependencies \subseteq dependencies'
    <2>1. pc["server"] \notin SP!TrashSteps
      BY <1>1 DEF InFlight, SP!HandlersOK
    <2> QED BY <2>1, SigStep, SP!Grows, CallsAreGiven
  <1>3. ASSUME NEW i \in interactions, IsLinked(i) PROVE IsLinked(i)'
    BY <1>1, <1>2, <1>3 DEF IsLinked, Component, SP!NamesOf
  <1>4. ASSUME NEW v \in registered
        PROVE  Component(v)' \in components'
    <2>1. Component(v)' = Component(v)
      BY <1>1 DEF Component
    <2>2. CASE Component(v) \in components
      BY <1>2, <2>1, <2>2
    <2>3. CASE pc["server"] = "upsertComponent" /\ call["server"] = ComponentOf(v)
      <3>1. ~S!ReturnError("server")
        BY DEF S!ReturnError, SP!HandlersOK
      <3>2. S!UpsertComponent("server")
        BY <2>3, <3>1 DEF Serve, S!RetrieveComponent, S!MatchEndpoint, S!CreateEndpoint,
           S!Link, S!EndpointError, S!Respond
      <3> QED BY <2>1, <2>3, <3>2 DEF S!UpsertComponent, ComponentOf, S!CreateComponentCall
    <2> QED BY <1>1, <2>2, <2>3 DEF StoredInv
  <1>5. ASSUME NEW i \in linked, Linking(i) PROVE IsLinked(i)' \/ Linking(i)'
    <2>1. i \in interactions
      BY DEF CreationInv
    <2>2. CASE S!Respond("server")
      <3>1. pc["server"] = "done" /\ call["server"].kind = "dependency" /\ ~disturbed["server"]
        BY <1>1, <1>5, <2>2 DEF S!Respond, Linking, DependencyOf, S!DependencyCall, InFlight
      <3>2. /\ call["server"].callees = <<<<Component(i.to), i.name>>>>
            /\ call["server"].caller = <<Component(i.caller), i.from>>
            /\ {Component(i.caller), Component(i.to)} \subseteq known["server"]
        BY <1>5 DEF Linking, DependencyOf, S!DependencyCall
      <3> DEFINE c == call["server"]
      <3>3. /\ 1 \in DOMAIN c.callees /\ c.callees[1] = <<Component(i.to), i.name>>
            /\ {c.caller[1], c.callees[1][1]} \subseteq known["server"]
        BY <3>2
      <3>4. \E d \in dependencies : c.caller \in SP!NamesOf(d.caller) /\ c.callees[1] \in SP!NamesOf(d.callee)
        BY <3>1, <3>3 DEF SP!AnsweredIsLinked
      <3> HIDE DEF c
      <3>5. IsLinked(i)
        BY <3>2, <3>3, <3>4 DEF IsLinked, c
      <3> QED BY <1>3, <2>1, <3>5
    <2>3. CASE ~S!Respond("server")
      <3>1. UNCHANGED <<call, known>> /\ pc'["server"] \in SP!DependencySteps \cup {"done"}
        BY <1>5, <2>3 DEF Serve, Linking, SP!DependencySteps, SP!HandlersOK, S!UpsertComponent,
           S!RetrieveComponent, S!MatchEndpoint, S!CreateEndpoint, S!Link, S!EndpointError,
           S!ReturnError, S!EndpointFails, S!AfterEndpoint, S!history
      <3> QED BY <1>1, <1>5, <3>1 DEF Linking, DependencyOf, Component
    <2> QED BY <2>2, <2>3
  <1>6. \A i \in linked : IsLinked(i)' \/ Linking(i)'
    <2>1. ASSUME NEW i \in linked PROVE IsLinked(i)' \/ Linking(i)'
      <3>1. i \in interactions
        BY DEF CreationInv
      <3>2. IsLinked(i) \/ Linking(i)
        BY <1>1 DEF StoredInv
      <3> QED BY <1>3, <1>5, <3>1, <3>2
    <2> QED BY <2>1
  <1> QED BY <1>1, <1>4, <1>6 DEF StoredInv

LEMMA StoredStep ==
    /\ SP!HandlersOK /\ SP!GraphOK /\ SP!AnsweredIsLinked /\ TracesInv /\ CreationInv /\ InFlight
    /\ StoredInv /\ [Next]_vars
    => StoredInv'
  <1> SUFFICES ASSUME SP!HandlersOK, SP!GraphOK, SP!AnsweredIsLinked, TracesInv, CreationInv,
                      InFlight, StoredInv, [Next]_vars, outcome' # "failed", pc'["server"] # "failed"
               PROVE  StoredInv'
    BY DEF StoredInv
  <1> USE DEF S!At, S!Goto
  <1>1. ASSUME UNCHANGED <<sig, services, registered, linked>>, outcome # "failed" PROVE StoredInv'
    BY <1>1 DEF StoredInv, sig, IsLinked, Linking, Component, ComponentOf, DependencyOf, SP!NamesOf
  <1>2. CASE CdnCreate \/ RdgCreate \/ UNCHANGED vars
    <2>1. UNCHANGED <<sig, services, registered, linked, outcome>>
      BY <1>2 DEF CdnCreate, RdgCreate, vars, traces, creation
    <2> QED BY <1>1, <2>1
  <1>3. CASE Analyse
    <2>1. state = "running"
      BY <1>3 DEF Analyse, T!Next, T!VisitLocal, T!VisitOrphan, T!VisitCallee, T!Visits,
             T!NoCallerFound, T!ParentNotFound, T!Found, T!Climb, T!Deeper, T!Overflow,
             T!Analysed, T!ParseFails
    <2>2. registered' = {} /\ linked' = {}
      BY <1>3, <2>1 DEF CreationInv, Analyse, creation
    <2> QED BY <2>2 DEF StoredInv
  <1>4. CASE CreateComponent \/ CreateDependency
    <2>1. /\ outcome = "running" /\ pc["server"] = "idle"
          /\ UNCHANGED <<services, interactions, components, endpoints, dependencies>>
      BY <1>4 DEF CreateComponent, CreateDependency, Request, Calling, traces, S!Start, S!graph
    <2>2. /\ \A v \in registered : Component(v) \in components
          /\ \A i \in linked : IsLinked(i)
      BY <2>1 DEF StoredInv, Linking, SP!DependencySteps
    <2>3. /\ \A v \in registered : Component(v)' \in components'
          /\ \A i \in linked : IsLinked(i)'
      BY <2>1, <2>2 DEF IsLinked, Component, SP!NamesOf
    <2>4. CASE CreateComponent
      <3>1. PICK v \in Observed : /\ S!Start("server", ComponentOf(v))
                                  /\ registered' = registered \cup {v} /\ linked' = linked
        BY <2>4 DEF CreateComponent, Request
      <3>2. pc'["server"] = "upsertComponent" /\ call'["server"] = ComponentOf(v)
        BY <3>1 DEF S!Start, SP!HandlersOK, ComponentOf, S!CreateComponentCall
      <3>3. ComponentOf(v)' = ComponentOf(v)
        BY <2>1 DEF ComponentOf, Component
      <3> QED BY <2>3, <3>1, <3>2, <3>3 DEF StoredInv
    <2>5. CASE CreateDependency
      <3>1. PICK i \in interactions : /\ S!Start("server", DependencyOf(i)) /\ Observed \subseteq registered
                                      /\ linked' = linked \cup {i} /\ registered' = registered
        BY <2>5 DEF CreateDependency, Request
      <3>2. /\ pc'["server"] = "matchEndpoint" /\ call'["server"] = DependencyOf(i)
            /\ known'["server"] = components
        BY <3>1 DEF S!Start, SP!HandlersOK, DependencyOf, S!DependencyCall
      <3>3. Component(i.caller) \in components /\ Component(i.to) \in components
        BY <2>2, <3>1, CallsAreCalls
      <3>4. DependencyOf(i)' = DependencyOf(i) /\ Component(i.caller)' = Component(i.caller)
            /\ Component(i.to)' = Component(i.to)
        BY <2>1 DEF DependencyOf, Component
      <3>5. Linking(i)'
        BY <3>2, <3>3, <3>4 DEF Linking, SP!DependencySteps
      <3> QED BY <2>3, <3>1, <3>5 DEF StoredInv
    <2> QED BY <1>4, <2>4, <2>5
  <1>5. CASE Serve
    BY <1>5, ServeStep
  <1>6. CASE ServerDies
    BY <1>6 DEF ServerDies
  <1>7. CASE Created
    BY <1>1, <1>7 DEF Created, Calling, traces
  <1>8. CASE RunAgain
    <2>1. registered' = {} /\ linked' = {}
      BY <1>8 DEF RunAgain
    <2> QED BY <2>1 DEF StoredInv
  <1> QED BY <1>2, <1>3, <1>4, <1>5, <1>6, <1>7, <1>8 DEF Next

\* When "sig create" ends without an error, after whatever runs and crashes, all
\* it has observed is in the graph.
THEOREM ObservationIsStored == Spec => []ObservedIsLinked
  <1>1. Init => StoredInv
    BY DEF Init, StoredInv
  <1>2. CreationInv /\ StoredInv => ObservedIsLinked
    <2> SUFFICES ASSUME CreationInv, StoredInv, outcome = "created", NEW i \in interactions
                 PROVE  IsLinked(i)
      BY DEF ObservedIsLinked, IsLinked, S!NamesOf, SP!NamesOf
    <2>1. i \in linked /\ pc["server"] = "idle"
      BY DEF CreationInv
    <2> QED BY <2>1 DEF StoredInv, Linking, SP!DependencySteps
  <1> QED BY <1>1, <1>2, StoredStep, SigIsSafe, CreationIsSafe, PTL DEF Spec

-----------------------------------------------------------------------------
(* sig create: the search for a caller.                                    *)

\* What the spans above s are: of its trace, with what is above them, and no others.
LEMMA AboveOf ==
    ASSUME NEW s \in Spans
    PROVE  /\ \A t \in T!Ancestors(s) : t \in Spans /\ TraceOf[t] = TraceOf[s]
           /\ \A x \in {s} \cup T!Ancestors(s) :
                 T!InTrace(s, parent[x]) => parent[x] \in T!Ancestors(s)
           /\ \A X \in SUBSET Spans :
                 (\A x \in X \cup {s} : T!InTrace(s, parent[x]) => parent[x] \in X)
                 => T!Ancestors(s) \subseteq X
  <1>1. \A X \in SUBSET Spans :
           (\A x \in X \cup {s} : T!InTrace(s, parent[x]) => parent[x] \in X)
           => T!Ancestors(s) \subseteq X
    BY DEF T!Ancestors
  <1> DEFINE same == {t \in Spans : TraceOf[t] = TraceOf[s]}
  <1>2. T!Ancestors(s) \subseteq same
    BY <1>1 DEF T!InTrace
  <1>3. ASSUME NEW x \in {s} \cup T!Ancestors(s), T!InTrace(s, parent[x])
        PROVE  parent[x] \in T!Ancestors(s)
    <2>1. parent[x] \in Spans
      BY <1>3 DEF T!InTrace
    <2>2. ASSUME NEW X \in SUBSET Spans,
                 \A y \in X \cup {s} : T!InTrace(s, parent[y]) => parent[y] \in X
          PROVE  parent[x] \in X
      BY <1>1, <1>3, <2>2
    <2> QED BY <2>1, <2>2 DEF T!Ancestors
  <1> QED BY <1>1, <1>2, <1>3

\* Going on to the span above h, the search stays with the service of p or has
\* gone past a call that is no RPC.
LEMMA AboveStays ==
    ASSUME NEW p \in Spans, NEW h \in {p} \cup T!Ancestors(p),
           T!InTrace(p, parent[h]), parent[h] \notin Rpc,
           Service[h] = Service[p] \/ T!CalledOtherwise(p, h)
    PROVE  Service[parent[h]] = Service[p] \/ T!CalledOtherwise(p, parent[h])
  <1>1. h \in Spans /\ TraceOf[h] = TraceOf[p]
    BY AboveOf
  <1>2. CASE T!CalledOtherwise(p, h)
    <2>1. PICK s \in {p} \cup T!Ancestors(p) :
             h \in T!Ancestors(s) /\ Service[parent[s]] # Service[s] /\ parent[s] \notin Rpc
      BY <1>2 DEF T!CalledOtherwise
    <2>2. s \in Spans /\ TraceOf[s] = TraceOf[p]
      BY AboveOf
    <2>3. parent[h] \in T!Ancestors(s)
      BY <2>1, <2>2, AboveOf DEF T!InTrace
    <2> QED BY <2>1, <2>3 DEF T!CalledOtherwise
  <1>3. CASE Service[h] = Service[p] /\ Service[parent[h]] # Service[p]
    <2>1. parent[h] \in T!Ancestors(h)
      BY <1>1, AboveOf DEF T!InTrace
    <2> QED BY <1>3, <2>1 DEF T!CalledOtherwise
  <1> QED BY <1>2, <1>3

\* The frames are the parent of the span in hand and the spans above it, one
\* after the other, as long as they are no RPCs and name no function.
SearchInv ==
    /\ span # Absent =>
          /\ frames[1] = parent[span]
          /\ \A k \in 1..Len(frames) :
                /\ TraceOf[frames[k]] = TraceOf[span]
                /\ \A j \in 1..k - 1 : frames[k] \in T!Ancestors(frames[j])
                /\ k < Len(frames) => frames[k + 1] = parent[frames[k]]
                /\ k # 1 => Caller[frames[k]] = Absent
                /\ \/ Service[frames[k]] = Service[parent[span]]
                   \/ T!CalledOtherwise(parent[span], frames[k])
    /\ state = "crashed" => span # Absent /\ Len(frames) = StackLimit

LEMMA SameAncestors ==
    UNCHANGED parent => /\ \A p : T!Ancestors(p)' = T!Ancestors(p)
                        /\ \A p, t : T!CalledOtherwise(p, t)' <=> T!CalledOtherwise(p, t)
  BY DEF T!CalledOtherwise, T!Ancestors, T!InTrace

\* The frame on top, and what is above it.
LEMMA Top ==
    ASSUME TracesInv, SearchInv, span # Absent
    PROVE  \E n \in Nat \ {0} :
             /\ n = Len(frames) /\ T!Here = frames[n] /\ frames[n] \in Spans
             /\ span \in Spans /\ parent[span] \in Spans
             /\ TraceOf[parent[span]] = TraceOf[span]
             /\ frames[n] \in {parent[span]} \cup T!Ancestors(parent[span])
  <1>1. /\ span \in Spans /\ frames \in Seq(Spans) /\ frames # <<>>
        /\ T!InTrace(span, parent[span])
    BY DEF TracesInv, Crosses
  <1>2. PICK n \in Nat \ {0} : n = Len(frames)
    BY <1>1, EmptySeq, LenProperties
  <1>3. frames[n] \in Spans /\ n \in 1..Len(frames)
    BY <1>1, <1>2, ElementOfSeq
  <1>4. CASE n = 1
    BY <1>1, <1>2, <1>3, <1>4 DEF SearchInv, T!Here, T!InTrace
  <1>5. CASE n # 1
    <2>1. 1 \in 1..n - 1
      BY <1>5
    <2>2. frames[n] \in T!Ancestors(frames[1]) /\ frames[1] = parent[span]
      BY <1>3, <2>1, <1>2 DEF SearchInv
    <2> QED BY <1>1, <1>2, <1>3, <2>2 DEF T!Here, T!InTrace
  <1> QED BY <1>4, <1>5

LEMMA ClimbStep == TracesInv /\ SearchInv /\ T!Climb => SearchInv'
  <1> SUFFICES ASSUME TracesInv, SearchInv, T!Climb PROVE SearchInv'
    OBVIOUS
  <1>1. /\ span \in Spans /\ frames \in Seq(Spans) /\ span # Absent
    BY DEF T!Climb, T!Deeper, TracesInv
  <1>2. PICK n \in Nat \ {0} :
             /\ n = Len(frames) /\ T!Here = frames[n] /\ frames[n] \in Spans
             /\ parent[span] \in Spans /\ TraceOf[parent[span]] = TraceOf[span]
             /\ frames[n] \in {parent[span]} \cup T!Ancestors(parent[span])
    BY <1>1, Top
  <1> DEFINE here == frames[n]
  <1>3. n \in 1..Len(frames)
    BY <1>2
  <1>4. /\ parent[here] \in Spans /\ TraceOf[parent[here]] = TraceOf[span]
        /\ parent[here] \notin Rpc /\ Caller[parent[here]] = Absent
        /\ frames' = Append(frames, parent[here])
        /\ UNCHANGED <<parent, span, state>> /\ state = "running"
    BY <1>2 DEF T!Climb, T!Deeper, T!Above, T!InTrace
  <1>5. /\ TraceOf[here] = TraceOf[span]
        /\ \A j \in 1..n - 1 : here \in T!Ancestors(frames[j])
        /\ \A j \in 1..n : TraceOf[frames[j]] = TraceOf[span] /\ frames[j] \in Spans
        /\ Service[here] = Service[parent[span]] \/ T!CalledOtherwise(parent[span], here)
    BY <1>1, <1>2, <1>3, ElementOfSeq DEF SearchInv
  <1>6. \/ Service[parent[here]] = Service[parent[span]]
        \/ T!CalledOtherwise(parent[span], parent[here])
    BY <1>2, <1>4, <1>5, AboveStays DEF T!InTrace
  <1>7. ASSUME NEW j \in 1..n PROVE parent[here] \in T!Ancestors(frames[j])
    <2>1. T!InTrace(frames[j], parent[here])
      BY <1>4, <1>5 DEF T!InTrace
    <2>2. here \in {frames[j]} \cup T!Ancestors(frames[j])
      BY <1>2, <1>5
    <2> QED BY <1>5, <2>1, <2>2, AboveOf
  <1>8. /\ Len(frames') = n + 1 /\ \A k \in 1..n : frames'[k] = frames[k]
        /\ frames'[n + 1] = parent[here]
    BY <1>1, <1>2, <1>4, AppendProperties
  <1>9. here = frames[n]
    OBVIOUS
  <1> HIDE DEF here
  <1>10. ASSUME NEW k \in 1..Len(frames')
        PROVE  /\ TraceOf[frames'[k]] = TraceOf[span]
               /\ \A j \in 1..k - 1 : frames'[k] \in T!Ancestors(frames'[j])
               /\ k < Len(frames') => frames'[k + 1] = parent[frames'[k]]
               /\ k # 1 => Caller[frames'[k]] = Absent
               /\ \/ Service[frames'[k]] = Service[parent[span]]
                  \/ T!CalledOtherwise(parent[span], frames'[k])
    <2>1. CASE k = n + 1
      BY <1>4, <1>6, <1>7, <1>8, <2>1
    <2>2. CASE k \in 1..n
      <3>1. frames'[k] = frames[k] /\ \A j \in 1..k - 1 : frames'[j] = frames[j]
        BY <1>8, <2>2
      <3>2. k < Len(frames') => frames'[k + 1] = parent[frames'[k]]
        <4>1. CASE k = n
          BY <1>8, <1>9, <4>1
        <4>2. CASE k # n
          <5>1. k < n /\ k + 1 \in 1..n
            BY <2>2, <4>2
          <5> QED BY <1>1, <1>2, <1>8, <2>2, <5>1 DEF SearchInv
        <4> QED BY <4>1, <4>2
      <3> QED BY <1>1, <1>2, <2>2, <3>1, <3>2 DEF SearchInv
    <2> QED BY <1>2, <1>8, <2>1, <2>2
  <1>11. frames'[1] = parent[span]
    BY <1>1, <1>2, <1>8 DEF SearchInv
  <1> QED BY <1>4, <1>10, <1>11, SameAncestors DEF SearchInv

\* What an interaction says of its caller.
Blames(p, caller, from) ==
    IF from = Unknown
    THEN \A t \in T!Ancestors(p) : Caller[t] # Absent =>
            \E r \in T!Ancestors(p) \cap Rpc : t = r \/ t \in T!Ancestors(r)
    ELSE \E t \in T!Ancestors(p) :
            from = Caller[t] /\ (Service[t] = caller \/ T!CalledOtherwise(p, t))

LEMMA CallerBlames ==
    CallerIsOfItsService <=> \A i \in interactions : Blames(parent[i.span], i.caller, i.from)
  BY DEF CallerIsOfItsService, T!CallerIsOfItsService, Blames

LEMMA FoundBlames ==
    ASSUME TracesInv, SearchInv, T!Found
    PROVE  Blames(parent[span], Service[parent[span]], Caller[T!Above])
  <1>1. span # Absent /\ T!InTrace(span, T!Above) /\ T!Above \notin Rpc
    BY DEF T!Found
  <1>2. PICK n \in Nat \ {0} :
             /\ n = Len(frames) /\ T!Here = frames[n]
             /\ parent[span] \in Spans /\ TraceOf[parent[span]] = TraceOf[span]
             /\ frames[n] \in {parent[span]} \cup T!Ancestors(parent[span])
    BY <1>1, Top
  <1>3. T!InTrace(parent[span], T!Above) /\ T!Above = parent[frames[n]]
    BY <1>1, <1>2 DEF T!InTrace, T!Above
  <1>4. \/ Service[frames[n]] = Service[parent[span]]
        \/ T!CalledOtherwise(parent[span], frames[n])
    BY <1>1, <1>2 DEF SearchInv
  <1>5. /\ T!Above \in T!Ancestors(parent[span])
        /\ \/ Service[T!Above] = Service[parent[span]]
           \/ T!CalledOtherwise(parent[span], T!Above)
    BY <1>1, <1>2, <1>3, <1>4, AboveOf, AboveStays
  <1>6. Caller[T!Above] # Unknown
    BY <1>1, TraceFilesAssumption DEF T!InTrace
  <1> QED BY <1>5, <1>6 DEF Blames

LEMMA UnknownBlames ==
    ASSUME TracesInv, SearchInv, T!NoCallerFound \/ T!ParentNotFound
    PROVE  Blames(parent[span], Service[parent[span]], Unknown)
  <1> DEFINE p == parent[span]
             r == T!Above
  <1>1. span # Absent /\ (T!InTrace(span, r) => r \in Rpc)
    BY TraceFilesAssumption DEF T!NoCallerFound, T!ParentNotFound, T!InTrace
  <1>2. PICK n \in Nat \ {0} :
             /\ n = Len(frames) /\ T!Here = frames[n] /\ span \in Spans
             /\ p \in Spans /\ TraceOf[p] = TraceOf[span]
             /\ frames[n] \in {p} \cup T!Ancestors(p)
    BY <1>1, Top
  <1>3. r = parent[frames[n]] /\ (T!InTrace(p, r) <=> T!InTrace(span, r))
    BY <1>2 DEF T!InTrace, T!Above
  <1>4. /\ frames[1] = p
        /\ \A k \in 1..n : frames[k] \in Spans
        /\ \A k \in 1..n : k # n => frames[k + 1] = parent[frames[k]]
        /\ \A k \in 2..n : Caller[frames[k]] = Absent
    <2>1. frames \in Seq(Spans)
      BY <1>1 DEF TracesInv
    <2> QED BY <1>1, <1>2, <2>1, ElementOfSeq DEF SearchInv
  <1> HIDE DEF p, r
  <1> DEFINE passed == {frames[k] : k \in 2..n}
             beyond == IF T!InTrace(p, r) THEN {r} \cup T!Ancestors(r) ELSE {}
             X == passed \cup beyond
  <1>5. T!InTrace(p, r) => /\ r \in Spans /\ TraceOf[r] = TraceOf[p]
                           /\ T!Ancestors(r) \subseteq Spans
    BY AboveOf DEF T!InTrace
  <1>6. /\ \A k \in 2..n : k \in 1..n /\ frames[k] \in passed
        /\ \A x \in passed : \E k \in 2..n : x = frames[k]
        /\ \A x \in beyond : T!InTrace(p, r) /\ x \in {r} \cup T!Ancestors(r)
        /\ T!InTrace(p, r) => r \in beyond /\ T!Ancestors(r) \subseteq beyond
    BY <1>2
  <1> HIDE DEF passed, beyond
  <1>7. ASSUME NEW k \in 1..n, T!InTrace(p, parent[frames[k]]) PROVE parent[frames[k]] \in X
    <2>1. CASE k = n
      BY <1>3, <1>6, <1>7, <2>1
    <2>2. CASE k # n
      <3>1. k + 1 \in 2..n
        BY <1>2, <2>2
      <3>2. parent[frames[k]] = frames[k + 1]
        BY <1>4, <2>2
      <3> QED BY <1>6, <3>1, <3>2
    <2> QED BY <2>1, <2>2
  <1>8. ASSUME NEW x \in X \cup {p}, T!InTrace(p, parent[x]) PROVE parent[x] \in X
    <2>1. CASE x = p
      <3>1. 1 \in 1..n
        BY <1>2
      <3> QED BY <1>4, <1>7, <1>8, <2>1, <3>1
    <2>2. CASE x \in passed
      BY <1>6, <1>7, <1>8, <2>2
    <2>3. CASE x \in beyond
      <3>1. T!InTrace(p, r) /\ x \in {r} \cup T!Ancestors(r)
        BY <1>6, <2>3
      <3>2. T!InTrace(r, parent[x])
        BY <1>5, <1>8, <3>1 DEF T!InTrace
      <3>3. parent[x] \in T!Ancestors(r)
        BY <1>5, <3>1, <3>2, AboveOf
      <3> QED BY <1>6, <3>1, <3>3
    <2> QED BY <2>1, <2>2, <2>3
  <1>9. T!Ancestors(p) \subseteq X
    <2>1. passed \subseteq Spans
      BY <1>4, <1>6
    <2>2. beyond \subseteq Spans
      BY <1>5, <1>6
    <2>3. X \in SUBSET Spans
      BY <2>1, <2>2
    <2> QED BY <1>2, <1>8, <2>3, AboveOf
  <1>10. ASSUME NEW t \in T!Ancestors(p), Caller[t] # Absent
         PROVE  \E q \in T!Ancestors(p) \cap Rpc : t = q \/ t \in T!Ancestors(q)
    <2>1. t \notin passed
      BY <1>4, <1>6, <1>10
    <2>2. T!InTrace(p, r) /\ t \in {r} \cup T!Ancestors(r)
      BY <1>6, <1>9, <2>1
    <2>3. r \in T!Ancestors(p) /\ r \in Rpc
      BY <1>1, <1>2, <1>3, <2>2, AboveOf
    <2> QED BY <2>2, <2>3
  <1> QED BY <1>10 DEF Blames, p

LEMMA SearchStep == TracesInv /\ SearchInv /\ CallerIsOfItsService /\ [Next]_vars
                    => SearchInv' /\ CallerIsOfItsService'
  <1> SUFFICES ASSUME TracesInv, SearchInv, CallerIsOfItsService, [Next]_vars
               PROVE  SearchInv' /\ CallerIsOfItsService'
    OBVIOUS
  <1>1. ASSUME UNCHANGED <<parent, interactions>> PROVE CallerIsOfItsService'
    BY <1>1, SameAncestors DEF CallerIsOfItsService, T!CallerIsOfItsService
  <1>2. ASSUME span' = Absent, state' # "crashed" PROVE SearchInv'
    BY <1>2 DEF SearchInv
  <1>3. ASSUME NEW s \in Spans, T!VisitCallee(s) PROVE SearchInv' /\ CallerIsOfItsService'
    <2>1. /\ frames' = <<parent[s]>> /\ span' = s /\ UNCHANGED <<parent, interactions, state>>
          /\ T!InTrace(s, parent[s]) /\ state = "running"
      BY <1>3 DEF T!VisitCallee, T!Visits
    <2>3. Len(frames') = 1 /\ frames'[1] = parent[s]
      BY <2>1
    <2>4. \A k \in 1..Len(frames') : k = 1 /\ 1..k - 1 = {}
      BY <2>3
    <2> QED BY <1>1, <2>1, <2>3, <2>4, SameAncestors DEF SearchInv, T!InTrace
  <1>4. ASSUME NEW from, T!Answer(from), state = "running",
               Blames(parent[span], Service[parent[span]], from)
        PROVE  SearchInv' /\ CallerIsOfItsService'
    <2>1. /\ interactions' = interactions \cup {T!Interaction(span, from)}
          /\ UNCHANGED <<parent, state>> /\ span' = Absent
      BY <1>4 DEF T!Answer
    <2>2. /\ T!Interaction(span, from).span = span /\ T!Interaction(span, from).from = from
          /\ T!Interaction(span, from).caller = Service[parent[span]]
      BY DEF T!Interaction
    <2>3. \A i \in interactions' : Blames(parent[i.span], i.caller, i.from)
      BY <1>4, <2>1, <2>2, CallerBlames
    <2>4. CallerIsOfItsService'
      BY <2>1, <2>3, SameAncestors DEF CallerIsOfItsService, T!CallerIsOfItsService, Blames
    <2> QED BY <1>2, <1>4, <2>1, <2>4
  <1>5. CASE Analyse
    <2>1. ASSUME NEW s \in Spans, T!VisitLocal(s) \/ T!VisitOrphan(s) PROVE SearchInv' /\ CallerIsOfItsService'
      BY <1>1, <1>2, <2>1 DEF T!VisitLocal, T!VisitOrphan, T!Visits
    <2>2. CASE T!NoCallerFound \/ T!ParentNotFound
      BY <1>4, <2>2, UnknownBlames DEF T!NoCallerFound, T!ParentNotFound
    <2>3. CASE T!Found
      BY <1>4, <2>3, FoundBlames DEF T!Found
    <2>4. CASE T!Climb
      BY <1>1, <2>4, ClimbStep DEF T!Climb
    <2>5. CASE T!Overflow
      <3>1. UNCHANGED <<parent, span, frames, interactions>> /\ span # Absent /\ Len(frames) = StackLimit
        BY <2>5 DEF T!Overflow, T!Deeper
      <3> QED BY <1>1, <3>1, SameAncestors DEF SearchInv
    <2>6. CASE T!Analysed \/ T!ParseFails
      <3>1. UNCHANGED <<parent, span, frames, interactions>> /\ state' # "crashed"
        BY <2>6 DEF T!Analysed, T!ParseFails
      <3> QED BY <1>1, <3>1, SameAncestors DEF SearchInv
    <2> QED BY <1>3, <1>5, <2>1, <2>2, <2>3, <2>4, <2>5, <2>6 DEF Analyse, T!Next
  <1>6. CASE RunAgain
    <2>1. interactions' = {} /\ span' = Absent /\ state' = "running"
      BY <1>6 DEF RunAgain
    <2> QED BY <1>2, <2>1 DEF CallerIsOfItsService, T!CallerIsOfItsService
  <1>7. CASE UNCHANGED traces
    <2>1. UNCHANGED <<parent, span, frames, interactions, state>>
      BY <1>7 DEF traces
    <2> QED BY <1>1, <2>1, SameAncestors DEF SearchInv
  <1>8. Analyse \/ RunAgain \/ UNCHANGED traces
    BY DEF Next, vars, CdnCreate, RdgCreate, CreateComponent, CreateDependency, Request, Serve,
           ServerDies, Created
  <1> QED BY <1>5, <1>6, <1>7, <1>8

LEMMA SearchInit == Init => SearchInv /\ CallerIsOfItsService
  BY DEF Init, T!Init, T!Fresh, SearchInv, CallerIsOfItsService, T!CallerIsOfItsService

LEMMA SearchIsSafe == Spec => [](TracesInv /\ SearchInv /\ CallerIsOfItsService)
  BY TracesInit, TracesStep, SearchInit, SearchStep, PTL DEF Spec

\* The function an interaction is from is of the service that made the call, unless
\* above it services call each other without RPC; it is missed for an RPC only.
THEOREM CallersAreKnown == Spec => []CallerIsOfItsService
  BY SearchIsSafe, PTL

\* Only spans that are above themselves exhaust the stack of getFrom.
THEOREM Overflows == Spec => []OverflowsOnlyOnCycles
  <1>1. TracesInv /\ SearchInv => OverflowsOnlyOnCycles
    <2> SUFFICES ASSUME TracesInv, SearchInv, state = "crashed" PROVE \E s \in Spans : s \in T!Ancestors(s)
      BY DEF OverflowsOnlyOnCycles, T!OverflowsOnlyOnCycles
    <2>0. PICK n \in Nat : n = StackLimit
      BY TraceFilesAssumption
    <2>1. frames \in [1..n -> Spans] /\ n = Len(frames) /\ span # Absent
      BY <2>0, LenProperties DEF TracesInv, SearchInv
    <2>2. IsFiniteSet(Spans) /\ n > Cardinality(Spans)
      BY <2>0, TraceFilesAssumption
    <2>3. Cardinality(Spans) \in Nat
      BY <2>2, FS_CardinalityType
    <2>i. IsFiniteSet(1..n) /\ Cardinality(1..n) = IF 1 > n THEN 0 ELSE n - 1 + 1
      BY FS_Interval
    <2>j. Cardinality(1..n) > Cardinality(Spans)
      BY <2>2, <2>3, <2>i
    <2>4. PICK i \in 1..n, j \in 1..n : i # j /\ frames[i] = frames[j]
      BY <2>1, <2>2, <2>i, <2>j, FS_PigeonHole
    <2>5. ASSUME NEW a \in 1..n, NEW b \in 1..n, a < b, frames[a] = frames[b]
          PROVE  \E s \in Spans : s \in T!Ancestors(s)
      <3>1. a \in 1..b - 1
        BY <2>5
      <3>2. frames[b] \in T!Ancestors(frames[a]) /\ frames[a] \in Spans
        BY <2>1, <3>1 DEF SearchInv
      <3> QED BY <2>5, <3>2
    <2>6. i < j \/ j < i
      BY <2>4
    <2> QED BY <2>4, <2>5, <2>6
  <1> QED BY SearchIsSafe, <1>1, PTL

-----------------------------------------------------------------------------
(* Why the commands end.                                                   *)

LEMMA SameSize == ASSUME NEW X PROVE A!Cardinality(X) = AP!Cardinality(X)
  BY DEF A!Cardinality, AP!Cardinality

LEMMA SameMeasure == A!Measure = AP!Measure /\ A!Measure' = AP!Measure'
  <1>1. /\ A!Pending = AP!Pending /\ A!Registered = AP!Registered
        /\ A!Pending' = AP!Pending' /\ A!Registered' = AP!Registered'
    BY DEF A!Pending, AP!Pending, A!Registered, AP!Registered
  <1> QED BY <1>1, SameSize DEF A!Measure, AP!Measure, A!Running, AP!Running

LEMMA AnalyserLowers == Spec => [][Below(A!Measure', A!Measure)]_cdn
  <1>1. AP!Spec => [][AP!Advances]_(AP!vars)
    BY AP!AnalysisAdvances, GraphsAreGiven
  <1>2. [AP!Advances]_(AP!vars) => [Below(A!Measure', A!Measure)]_cdn
    BY SameMeasure DEF AP!Advances, AP!vars, cdn, Below, AP!Below
  <1> QED BY <1>1, <1>2, RunsAnalyser, PTL

\* Other commands leave the traces as they are; getFrom has the room it needs.
AsideInv ==
    /\ command # "sigCreate" => state = "running"
    /\ Len(frames) <= StackLimit

LEMMA AsideStep == AsideInv /\ TracesInv /\ [Next]_vars => AsideInv'
  <1> SUFFICES ASSUME AsideInv, TracesInv, [Next]_vars PROVE AsideInv'
    OBVIOUS
  <1>1. PICK n \in Nat : n = StackLimit /\ n >= 1
    <2>1. Cardinality(Spans) \in Nat
      BY TraceFilesAssumption, FS_CardinalityType
    <2> QED BY <2>1, TraceFilesAssumption
  <1>6. Len(<<>>) = 0 /\ \A x : Len(<<x>>) = 1
    BY EmptySeq
  <1>2. CASE Analyse
    <2>1. command = "sigCreate" /\ command' = command
      BY <1>2 DEF Analyse
    <2>2. CASE frames' = frames
      BY <2>1, <2>2 DEF AsideInv
    <2>3. CASE frames' = <<>> \/ \E s \in Spans : frames' = <<parent[s]>>
      <3>1. Len(frames') = 0 \/ Len(frames') = 1
        BY <1>6, <2>3
      <3> QED BY <1>1, <2>1, <3>1 DEF AsideInv
    <2>4. CASE T!Climb
      <3>1. frames \in Seq(Spans) /\ T!Above \in Spans /\ frames' = Append(frames, T!Above)
        BY <2>4 DEF T!Climb, T!Deeper, T!InTrace, TracesInv
      <3>2. Len(frames') = Len(frames) + 1 /\ Len(frames) \in Nat
        BY <3>1, AppendProperties
      <3>3. Len(frames) < n
        BY <1>1, <2>4 DEF T!Climb
      <3>4. Len(frames') <= n
        BY <3>2, <3>3
      <3>5. Len(frames') <= StackLimit
        BY <1>1, <3>4
      <3>6. command' = "sigCreate"
        BY <2>1
      <3> QED BY <3>5, <3>6 DEF AsideInv
    <2> QED BY <1>2, <2>2, <2>3, <2>4 DEF Analyse, T!Next, T!VisitLocal, T!VisitOrphan,
           T!VisitCallee, T!NoCallerFound, T!ParentNotFound, T!Found, T!Answer, T!Overflow,
           T!Analysed, T!ParseFails
  <1>3. CASE RunAgain
    BY <1>1, <1>3, <1>6 DEF RunAgain, AsideInv
  <1>4. CASE UNCHANGED <<command, traces>>
    BY <1>4 DEF traces, AsideInv
  <1>5. Analyse \/ RunAgain \/ UNCHANGED <<command, traces>>
    BY DEF Next, vars, CdnCreate, RdgCreate, CreateComponent, CreateDependency, Request, Serve,
           ServerDies, Created
  <1> QED BY <1>2, <1>3, <1>4, <1>5

LEMMA AsideInit == Init => AsideInv
  <1>1. PICK n \in Nat : n = StackLimit
    BY TraceFilesAssumption
  <1>2. Len(<<>>) = 0
    BY EmptySeq
  <1> QED BY <1>1, <1>2 DEF Init, T!Init, T!Fresh, AsideInv

LEMMA ServicesAreFinite == IsFiniteSet(T!Services)
  <1> DEFINE f == [s \in Spans |-> Service[s]]
  <1>1. f \in Surjection(Spans, T!Services)
    BY DEF T!Services, Surjection
  <1> QED BY <1>1, TraceFilesAssumption, FS_Surjection

\* A span makes one interaction at most.
LEMMA InteractionsAreFinite == ASSUME TracesInv PROVE IsFiniteSet(interactions)
  <1> DEFINE f == [i \in interactions |-> i.span]
  <1>1. f \in [interactions -> Spans]
    BY DEF TracesInv
  <1>2. \A i, j \in interactions : f[i] = f[j] => i = j
    BY DEF TracesInv
  <1>3. f \in Injection(interactions, Spans)
    BY <1>1, <1>2 DEF Injection, IsInjective
  <1> QED BY <1>3, TraceFilesAssumption, FS_Injection

SizesTyped ==
    /\ IsFiniteSet(left) /\ IsFiniteSet(Observed \ registered) /\ IsFiniteSet(interactions \ linked)
    /\ Cardinality(left) \in Nat /\ Cardinality(Observed \ registered) \in Nat
    /\ Cardinality(interactions \ linked) \in Nat
    /\ Len(frames) \in Nat /\ StackLimit \in Nat /\ Phase \in 0..2
    /\ Runs \in Nat /\ runs \in Nat /\ runs <= Runs

LEMMA SizesAreTyped == ASSUME TracesInv, CreationInv PROVE SizesTyped
  <1>1. IsFiniteSet(left)
    BY TraceFilesAssumption, FS_Subset DEF TracesInv
  <1>2. IsFiniteSet(Observed \ registered)
    <2>1. Observed \ registered \subseteq T!Services
      BY DEF Observed
    <2> QED BY <2>1, ServicesAreFinite, FS_Subset
  <1>3. IsFiniteSet(interactions \ linked)
    BY InteractionsAreFinite, FS_Subset
  <1>4. Len(frames) \in Nat
    <2>1. frames \in Seq(Spans)
      BY DEF TracesInv
    <2> QED BY <2>1, LenProperties
  <1>5. Phase \in 0..2
    BY DEF Phase
  <1> QED BY <1>1, <1>2, <1>3, <1>4, <1>5, FS_CardinalityType, ClientAssumption, TraceFilesAssumption
          DEF SizesTyped, CreationInv

LEMMA Smaller ==
    ASSUME NEW X, IsFiniteSet(X), NEW Y, Y \subseteq X, Y # X
    PROVE  Cardinality(Y) < Cardinality(X)
  BY FS_Subset, FS_CardinalityType

\* The steps of the analysis of the traces.
LEMMA AnalyseLowers ==
    ASSUME TracesInv, CreationInv, AsideInv, AsideInv', TracesInv', Analyse
    PROVE  Below(Measure', Measure)
  <1>1. SizesTyped /\ Len(frames') \in Nat /\ runs' = runs
    BY SizesAreTyped DEF Analyse, creation, TracesInv
  <1>2. state = "running" /\ outcome = "running" /\ outcome' = "running"
    <2>1. state = "running"
      BY DEF Analyse, T!Next, T!VisitLocal, T!VisitOrphan, T!VisitCallee, T!Visits,
             T!NoCallerFound, T!ParentNotFound, T!Found, T!Climb, T!Deeper, T!Overflow,
             T!Analysed, T!ParseFails
    <2> QED BY <2>1 DEF CreationInv, Analyse, creation
  <1>3. Phase = 2 /\ (state' = "running" => Phase' = 2) /\ (state' # "running" => Phase' < 2)
    BY <1>2 DEF Phase, Failed
  <1>4. CASE T!Overflow \/ T!Analysed \/ T!ParseFails
    <2>1. state' # "running"
      BY <1>4 DEF T!Overflow, T!Analysed, T!ParseFails
    <2>2. Measure'[2] < Measure[2] /\ \A j \in 1..1 : Measure'[j] = Measure[j]
      BY <1>1, <1>3, <2>1 DEF Measure
    <2> QED BY <2>2 DEF Below, Measure
  <1>5. CASE \E s \in Spans : T!VisitLocal(s) \/ T!VisitOrphan(s) \/ T!VisitCallee(s)
    <2>1. state' = "running" /\ left' \subseteq left /\ left' # left
      BY <1>2, <1>5 DEF T!VisitLocal, T!VisitOrphan, T!VisitCallee, T!Visits
    <2>2. Cardinality(left') < Cardinality(left)
      BY <1>1, <2>1, Smaller DEF SizesTyped
    <2>3. Measure'[3] < Measure[3] /\ \A j \in 1..2 : Measure'[j] = Measure[j]
      BY <1>1, <1>3, <2>1, <2>2 DEF Measure
    <2> QED BY <2>3 DEF Below, Measure
  <1>6. CASE T!NoCallerFound \/ T!ParentNotFound \/ T!Found \/ T!Climb
    <2>1. state' = "running" /\ left' = left /\ span # Absent
      BY <1>2, <1>6 DEF T!NoCallerFound, T!ParentNotFound, T!Found, T!Answer, T!Climb, T!Deeper
    <2>2. SearchLeft = StackLimit + 1 - Len(frames) /\ SearchLeft > 0
      BY <1>1, <2>1 DEF SearchLeft, AsideInv, SizesTyped
    <2>3. CASE T!Climb
      <3>1. frames \in Seq(Spans) /\ T!Above \in Spans /\ frames' = Append(frames, T!Above) /\ span' = span
        BY <2>3 DEF T!Climb, T!Deeper, T!InTrace, TracesInv
      <3>2. Len(frames') = Len(frames) + 1
        BY <3>1, AppendProperties
      <3>3. SearchLeft' < SearchLeft
        BY <1>1, <2>1, <2>2, <3>1, <3>2 DEF SearchLeft, SizesTyped
      <3>4. Measure'[4] < Measure[4] /\ \A j \in 1..3 : Measure'[j] = Measure[j]
        BY <1>1, <1>3, <2>1, <3>3 DEF Measure
      <3> QED BY <3>4 DEF Below, Measure
    <2>4. CASE T!NoCallerFound \/ T!ParentNotFound \/ T!Found
      <3>1. span' = Absent
        BY <2>4 DEF T!NoCallerFound, T!ParentNotFound, T!Found, T!Answer
      <3>2. SearchLeft' < SearchLeft
        BY <2>2, <3>1 DEF SearchLeft
      <3>3. Measure'[4] < Measure[4] /\ \A j \in 1..3 : Measure'[j] = Measure[j]
        BY <1>1, <1>3, <2>1, <3>2 DEF Measure
      <3> QED BY <3>3 DEF Below, Measure
    <2> QED BY <1>6, <2>3, <2>4
  <1> QED BY <1>4, <1>5, <1>6 DEF Analyse, T!Next

\* The steps of the server's call.
LEMMA CallLowers ==
    ASSUME SP!HandlersOK, InFlight, Serve, ~S!Respond("server")
    PROVE  CallLeft \in Nat /\ CallLeft' \in Nat /\ CallLeft' < CallLeft
  <1> USE DEF S!At, S!Goto
  <1> DEFINE q == queue["server"]
  <1>1. /\ DOMAIN pc = {"server"} /\ DOMAIN queue = {"server"}
        /\ q \in Seq(SP!EndpointNames) /\ Len(q) \in Nat
    BY DEF SP!HandlersOK
  <1>2. pc["server"] \in {"matchEndpoint", "createEndpoint"} =>
           /\ Len(q) >= 1 /\ Tail(q) \in Seq(SP!EndpointNames) /\ Len(Tail(q)) = Len(q) - 1
    <2> SUFFICES ASSUME pc["server"] \in {"matchEndpoint", "createEndpoint"}
                 PROVE  /\ Len(q) >= 1 /\ Tail(q) \in Seq(SP!EndpointNames) /\ Len(Tail(q)) = Len(q) - 1
      OBVIOUS
    <2>1. q # <<>>
      BY DEF SP!HandlersOK
    <2> HIDE DEF q
    <2> QED BY <1>1, <2>1, HeadTailProperties, EmptySeq, LenProperties
  <1>3. CASE S!UpsertComponent("server")
    BY <1>1, <1>3 DEF S!UpsertComponent, CallLeft
  <1>4. CASE S!RetrieveComponent("server")
    BY <1>1, <1>4 DEF S!RetrieveComponent, CallLeft
  <1>5. CASE S!Link("server")
    BY <1>1, <1>5 DEF S!Link, CallLeft
  <1>6. CASE S!ReturnError("server")
    <2>1. pc["server"] # "trashNodes"
      BY <1>6 DEF InFlight, SP!HandlersOK, SP!TrashSteps
    <2> QED BY <1>1, <1>6, <2>1 DEF S!ReturnError, CallLeft
  <1>7. ASSUME S!AfterEndpoint("server"), pc["server"] \in {"matchEndpoint", "createEndpoint"}
        PROVE  CallLeft \in Nat /\ CallLeft' \in Nat /\ CallLeft' < CallLeft
    <2>1. /\ queue'["server"] = Tail(q)
          /\ pc'["server"] = IF Len(q) = 1 THEN "link" ELSE "matchEndpoint"
      BY <1>1, <1>7 DEF S!AfterEndpoint
    <2>2. PICK n \in Nat : n = Len(q) /\ n >= 1
      BY <1>1, <1>2, <1>7
    <2>3. CallLeft = IF pc["server"] = "matchEndpoint" THEN 2 * n + 2 ELSE 2 * n + 1
      BY <1>7, <2>2 DEF CallLeft
    <2> HIDE DEF q
    <2>4. Len(queue'["server"]) = n - 1
      BY <1>2, <1>7, <2>1, <2>2
    <2>5. CallLeft' = IF n = 1 THEN 2 ELSE 2 * (n - 1) + 2
      BY <2>1, <2>2, <2>4 DEF CallLeft
    <2> QED BY <2>2, <2>3, <2>5
  <1>8. ASSUME UNCHANGED queue, pc'["server"] = "createEndpoint", pc["server"] = "matchEndpoint"
        PROVE  CallLeft \in Nat /\ CallLeft' \in Nat /\ CallLeft' < CallLeft
    BY <1>1, <1>8 DEF CallLeft
  <1>9. ASSUME pc'["server"] = "failed", pc["server"] \in {"matchEndpoint", "createEndpoint"}
        PROVE  CallLeft \in Nat /\ CallLeft' \in Nat /\ CallLeft' < CallLeft
    <2>1. PICK n \in Nat : n = Len(q) /\ n >= 1
      BY <1>1, <1>2, <1>9
    <2>2. CallLeft = IF pc["server"] = "matchEndpoint" THEN 2 * n + 2 ELSE 2 * n + 1
      BY <1>9, <2>1 DEF CallLeft
    <2>3. CallLeft' = 1
      BY <1>9 DEF CallLeft
    <2> QED BY <2>1, <2>2, <2>3
  <1>10. CASE S!MatchEndpoint("server")
    BY <1>1, <1>7, <1>8, <1>10 DEF S!MatchEndpoint
  <1>11. CASE S!CreateEndpoint("server")
    BY <1>1, <1>7, <1>9, <1>11 DEF S!CreateEndpoint, S!EndpointFails
  <1>12. CASE S!EndpointError("server")
    BY <1>1, <1>7, <1>9, <1>12 DEF S!EndpointError, S!EndpointFails
  <1> QED BY <1>3, <1>4, <1>5, <1>6, <1>10, <1>11, <1>12 DEF Serve

\* The steps of the creation, and the runs.
LEMMA CreationLowers ==
    ASSUME TracesInv, CreationInv, SP!HandlersOK, InFlight,
           CreateComponent \/ CreateDependency \/ Serve \/ ServerDies \/ Created \/ RunAgain
    PROVE  Below(Measure', Measure)
  <1>1. SizesTyped
    BY SizesAreTyped
  <1>2. CASE RunAgain
    <2>1. Measure'[1] < Measure[1]
      BY <1>1, <1>2 DEF RunAgain, Measure, SizesTyped
    <2> QED BY <2>1 DEF Below, Measure
  <1>3. CASE CreateComponent \/ CreateDependency \/ Serve \/ ServerDies \/ Created
    <2>1. state = "analysed" /\ outcome = "running" /\ state' = state /\ runs' = runs
          /\ UNCHANGED <<left, span, frames, services, interactions>>
      <3>1. /\ outcome = "running" /\ (pc["server"] # "idle" \/ state = "analysed")
            /\ runs' = runs /\ UNCHANGED traces
        BY <1>3 DEF CreateComponent, CreateDependency, Request, Calling, Serve, ServerDies, Created,
           S!Crash, S!Running, S!At, S!UpsertComponent, S!RetrieveComponent, S!MatchEndpoint,
           S!CreateEndpoint, S!Link, S!EndpointError, S!ReturnError, S!Respond
      <3> QED BY <3>1 DEF CreationInv, traces
    <2>2. Phase = 1 /\ (outcome' = "running" => Phase' = 1) /\ (outcome' # "running" => Phase' = 0)
      BY <2>1 DEF Phase, Failed
    <2>3. ASSUME outcome' # "running" PROVE Below(Measure', Measure)
      <3>1. Measure'[2] < Measure[2] /\ \A j \in 1..1 : Measure'[j] = Measure[j]
        BY <2>1, <2>2, <2>3 DEF Measure
      <3> QED BY <3>1 DEF Below, Measure
    <2>4. SearchLeft' = SearchLeft /\ Observed' = Observed
      BY <2>1 DEF SearchLeft, Observed
    <2>5. CASE CreateComponent
      <3>1. /\ outcome' = "running" /\ UNCHANGED linked
            /\ \E v \in Observed \ registered : registered' = registered \cup {v}
        BY <2>1, <2>5 DEF CreateComponent, Request
      <3>2. /\ Observed \ registered' \subseteq Observed \ registered
            /\ Observed \ registered' # Observed \ registered
        BY <3>1
      <3>3. Cardinality(Observed \ registered') < Cardinality(Observed \ registered)
        BY <1>1, <3>2, Smaller DEF SizesTyped
      <3>4. Measure'[5] < Measure[5] /\ \A j \in 1..4 : Measure'[j] = Measure[j]
        BY <2>1, <2>2, <2>4, <3>1, <3>3 DEF Measure
      <3> QED BY <3>4 DEF Below, Measure
    <2>6. CASE CreateDependency
      <3>1. /\ outcome' = "running" /\ UNCHANGED registered
            /\ \E i \in interactions \ linked : linked' = linked \cup {i}
        BY <2>1, <2>6 DEF CreateDependency, Request
      <3>2. /\ interactions \ linked' \subseteq interactions \ linked
            /\ interactions \ linked' # interactions \ linked
        BY <3>1
      <3>3. Cardinality(interactions \ linked') < Cardinality(interactions \ linked)
        BY <1>1, <3>2, Smaller DEF SizesTyped
      <3>4. Measure'[6] < Measure[6] /\ \A j \in 1..5 : Measure'[j] = Measure[j]
        BY <2>1, <2>2, <2>4, <3>1, <3>3 DEF Measure
      <3> QED BY <3>4 DEF Below, Measure
    <2>7. CASE Serve /\ outcome' = "running"
      <3>1. CallLeft' < CallLeft
        <4>1. CASE S!Respond("server")
          <5>1. pc["server"] = "done" /\ pc'["server"] = "idle"
            BY <2>1, <2>7, <4>1 DEF Serve, S!Respond, S!At, S!Goto, SP!HandlersOK
          <5> QED BY <5>1 DEF CallLeft
        <4> QED BY <2>7, <4>1, CallLowers
      <3>2. UNCHANGED <<registered, linked>>
        BY <2>7 DEF Serve
      <3>3. Measure'[7] < Measure[7] /\ \A j \in 1..6 : Measure'[j] = Measure[j]
        BY <2>1, <2>2, <2>4, <2>7, <3>1, <3>2 DEF Measure
      <3> QED BY <3>3 DEF Below, Measure
    <2> QED BY <1>3, <2>1, <2>3, <2>5, <2>6, <2>7 DEF ServerDies, Created
  <1> QED BY <1>2, <1>3

\* What is left of "sig create" is measured in naturals.
Measured == Measure \in [1..7 -> Nat]

LEMMA MeasureTyped ==
    ASSUME TracesInv, CreationInv, SP!HandlersOK, AsideInv
    PROVE  Measured
  <1>1. SizesTyped
    BY SizesAreTyped
  <1>2. SearchLeft \in Nat /\ Runs - runs \in Nat /\ Phase \in Nat
    BY <1>1 DEF SizesTyped, SearchLeft, AsideInv
  <1>3. CallLeft \in Nat
    <2>1. Len(queue["server"]) \in Nat
      BY DEF SP!HandlersOK
    <2>2. 2 * Len(queue["server"]) \in Nat
      BY <2>1
    <2> QED BY <2>2 DEF CallLeft
  <1>4. Measure \in Seq(Nat) /\ Len(Measure) = 7
    BY <1>1, <1>2, <1>3 DEF Measure, SizesTyped
  <1> QED BY <1>4, LenProperties DEF Measured

\* Whatever the graphs, the traces and the errors are, each step of an analysis
\* or of "sig create" leaves less to do, and what is left is measured in
\* naturals.
THEOREM CommandsMeasured == Spec => CommandsAdvance /\ []Measured
  <1>1. ASSUME TracesInv, TracesInv', AsideInv, AsideInv', CreationInv, SP!HandlersOK, InFlight,
               [Next]_vars, [Below(A!Measure', A!Measure)]_cdn
        PROVE  [/\ command = "cdnCreate" => Below(A!Measure', A!Measure)
                /\ command = "sigCreate" => Below(Measure', Measure)]_vars
    <2> SUFFICES ASSUME Next, ~UNCHANGED vars
                 PROVE  /\ command = "cdnCreate" => Below(A!Measure', A!Measure)
                        /\ command = "sigCreate" => Below(Measure', Measure)
      BY <1>1
    <2>1. ASSUME command = "cdnCreate" PROVE Below(A!Measure', A!Measure)
      <3>1. state = "running" /\ pc["server"] = "idle"
        BY <1>1, <2>1 DEF AsideInv, CreationInv
      <3>2. CdnCreate
        BY <2>1, <3>1 DEF Next, RdgCreate, Analyse, CreateComponent, CreateDependency, Request,
           Calling, Serve, ServerDies, Created, RunAgain,
           S!Crash, S!Running, S!At, S!UpsertComponent, S!RetrieveComponent, S!MatchEndpoint,
           S!CreateEndpoint, S!Link, S!EndpointError, S!ReturnError, S!Respond
      <3>3. cdn' # cdn
        BY <3>2 DEF CdnCreate, vars
      <3> QED BY <1>1, <3>3
    <2>2. ASSUME command = "sigCreate" PROVE Below(Measure', Measure)
      BY <1>1, <2>2, AnalyseLowers, CreationLowers DEF Next, CdnCreate, RdgCreate
    <2> QED BY <2>1, <2>2
  <1>2. TracesInv /\ CreationInv /\ SP!HandlersOK /\ AsideInv => Measured
    BY MeasureTyped
  <1> QED BY <1>1, <1>2, TracesInit, TracesStep, AsideInit, AsideStep, CreationIsSafe, SigIsSafe,
             AnalyserLowers, PTL DEF Spec, CommandsAdvance

=============================================================================
