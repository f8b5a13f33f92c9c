------------------------ MODULE Alg4RefinementProofs ------------------------
(* Alg4 implements Propagation, for every graph and any number of handlers, *)
(* bindings and clients.                                                   *)
EXTENDS Alg4Refinement, Alg4Proofs

-----------------------------------------------------------------------------
(* Both specifications mean the same by reaching and providing.            *)

LEMMA SameClosure ==
    ASSUME NEW T
    PROVE  P!CallerClosed(T) <=> CallerClosed(T)
  <1>1. ASSUME CallerClosed(T), NEW c \in CallPairs, c[2] \in T
        PROVE  c[1] \in T
    <2>1. PICK d \in CallGraphDependencies : c \in {DepCaller[d]} \X DepCallees[d]
      BY <1>1 DEF CallPairs
    <2> QED BY <1>1, <2>1 DEF CallerClosed
  <1>2. ASSUME P!CallerClosed(T), NEW d \in CallGraphDependencies, NEW s \in DepCallees[d], s \in T
        PROVE  DepCaller[d] \in T
    <2>1. <<DepCaller[d], s>> \in CallPairs
      BY DEF CallPairs
    <2> QED BY <1>2, <2>1 DEF P!CallerClosed
  <1> QED BY <1>1, <1>2 DEF CallerClosed, P!CallerClosed

LEMMA SameReaching ==
    ASSUME NEW S
    PROVE  /\ P!Reaching(S) = Reaching(S)
           /\ P!ProvidersOf(S) = ProvidersOf(S)
           /\ P!Threatened = Threatened
  BY SameClosure DEF Reaching, P!Reaching, ProvidersOf, P!ProvidersOf, Threatened, P!Threatened

-----------------------------------------------------------------------------
(* The invariant behind the answers.                                       *)

\* The identity of a request, if its symbol exists, is in the database.
InDatabase(r) == r.threatens \in Symbols => \E t \in threatens : t[1] = r.identity

\* A research that is past recording, and an answer that is kept for the end of
\* the series, have their identity recorded.
Recorded ==
    /\ \A w \in Workers :
          w \in Researching /\ pc[w] \notin {"vulnerabilityExists", "createVulnerability", "failed"}
          => InDatabase(req[w])
    /\ \A r \in awaiting : r.kind = "vulnerability" /\ InDatabase(r)

Inv == TypeInv /\ SymbolMarksAreSound /\ DeploymentMarksAreSound /\ CoverInv

\* Handlers other than w stay where they are.
OthersStay(w) == \A v \in Workers \ {w} : UNCHANGED <<pc[v], req[v]>>

LEMMA OnlyOneMoves ==
    ASSUME TypeInv, NEW w \in Workers,
           (\E r \in Requests : Start(w, r)) \/ Proceed(w) \/ CollectError(w) \/ ReturnError(w)
    PROVE  OthersStay(w)
  BY DEF OthersStay, Start, Proceed, Propagate, VulnerabilityExists, CreateVulnerability,
         ReachingSymbols, MarkReaching, ProvidingLibraries, LibraryComponents, LibraryAssets,
         ComponentAssets, ReachingComponents, HostingAssets, LateralMovement, AllSystems,
         MatchBinding, CreateBinding, UpsertServes, Respond, CollectError, ReturnError,
         Goto, TypeInv, TypeOK

\* The steps of a call keep its request, until it is answered.
LEMMA RequestsStay ==
    ASSUME NEW w \in Workers, Proceed(w) \/ CollectError(w) \/ ReturnError(w), ~Respond(w)
    PROVE  req' = req /\ troubled' = troubled /\ awaiting' = awaiting /\ answered' = answered
  BY DEF Proceed, Propagate, VulnerabilityExists, CreateVulnerability, ReachingSymbols,
         MarkReaching, ProvidingLibraries, LibraryComponents, LibraryAssets, ComponentAssets,
         ReachingComponents, HostingAssets, LateralMovement, AllSystems, MatchBinding,
         CreateBinding, UpsertServes, CollectError, ReturnError, history

\* A handler that moves alone keeps Recorded if it is before recording, has its
\* identity recorded already, or records it; and if it adds no other answer.
LEMMA RecordedKept ==
    ASSUME Recorded, threatens \subseteq threatens', NEW w \in Workers, OthersStay(w),
           \A r \in awaiting' : r \in awaiting \/ (r = req[w] /\ w \in Researching /\ pc[w] = "done"),
           \/ w \notin Researching'
           \/ pc'[w] \in {"vulnerabilityExists", "createVulnerability", "failed"}
           \/ /\ w \in Researching /\ req'[w] = req[w]
              /\ pc[w] \notin {"vulnerabilityExists", "createVulnerability", "failed"}
           \/ InDatabase(req[w])'
    PROVE  Recorded'
  <1> DEFINE Known(r) == r.threatens \in Symbols => \E t \in threatens' : t[1] = r.identity
  <1>1. \A r : InDatabase(r) => Known(r)
    BY DEF InDatabase
  <1>2. ASSUME NEW v \in Workers, v \in Researching',
               pc'[v] \notin {"vulnerabilityExists", "createVulnerability", "failed"}
        PROVE  Known(req'[v])
    <2>1. CASE v = w
      BY <1>1, <1>2, <2>1 DEF Recorded, InDatabase
    <2>2. CASE v # w
      <3>1. v \in Researching /\ pc'[v] = pc[v] /\ req'[v] = req[v]
        BY <1>2, <2>2 DEF OthersStay, Researching
      <3> QED BY <1>1, <1>2, <3>1 DEF Recorded
    <2> QED BY <2>1, <2>2
  <1>3. ASSUME NEW r \in awaiting' PROVE r.kind = "vulnerability" /\ Known(r)
    BY <1>1, <1>3 DEF Recorded, Researching
  <1> QED BY <1>2, <1>3 DEF Recorded, InDatabase

LEMMA RecordedStep == TypeInv /\ Recorded /\ [Next]_vars => Recorded'
  <1> SUFFICES ASSUME TypeInv, Recorded, [Next]_vars PROVE Recorded'
    OBVIOUS
  <1>0. threatens \subseteq threatens'
    BY NextGrows DEF TypeInv, Grows
  <1>1. ASSUME NEW w \in Workers, NEW r \in Requests, Start(w, r) PROVE Recorded'
    <2>1. OthersStay(w) /\ awaiting' = awaiting
      BY <1>1, OnlyOneMoves DEF Start
    <2>2. w \notin Researching' \/ pc'[w] = "vulnerabilityExists"
      BY <1>1 DEF Start, FirstStep, Researching, TypeInv, TypeOK
    <2> QED BY <1>0, <2>1, <2>2, RecordedKept
  <1>2. ASSUME NEW w \in Workers, Proceed(w) \/ CollectError(w) \/ ReturnError(w), ~Respond(w)
        PROVE  Recorded'
    <2>1. OthersStay(w) /\ awaiting' = awaiting /\ req' = req
      BY <1>2, OnlyOneMoves, RequestsStay
    <2>2. CASE VulnerabilityExists(w)
      <3>1. threatens' = threatens
        BY <2>2 DEF VulnerabilityExists, graph
      <3>2. CASE \E t \in threatens : t[1] = req[w].identity
        BY <1>0, <2>1, <3>1, <3>2, RecordedKept DEF InDatabase
      <3>3. CASE ~\E t \in threatens : t[1] = req[w].identity
        <4>1. pc'[w] = "createVulnerability"
          BY <2>2, <3>3 DEF VulnerabilityExists, Goto, TypeInv, TypeOK
        <4> QED BY <1>0, <2>1, <4>1, RecordedKept
      <3> QED BY <3>2, <3>3
    <2>3. CASE CreateVulnerability(w)
      <3>1. threatens' = threatens \cup ({req[w].identity} \X ({req[w].threatens} \cap Symbols))
        BY <2>3 DEF CreateVulnerability
      <3>2. ASSUME req[w].threatens \in Symbols PROVE \E t \in threatens' : t[1] = req[w].identity
        <4>1. <<req[w].identity, req[w].threatens>> \in threatens'
          BY <3>1, <3>2
        <4> QED BY <4>1
      <3>3. InDatabase(req[w])'
        BY <2>1, <3>2 DEF InDatabase
      <3> QED BY <1>0, <2>1, <3>3, RecordedKept
    <2>4. CASE Propagate(w) \/ CollectError(w)
      <3>1. w \in Researching /\ pc[w] \notin {"vulnerabilityExists", "createVulnerability", "failed"}
        BY <2>4 DEF Propagate, ReachingSymbols, MarkReaching, ProvidingLibraries,
               LibraryComponents, LibraryAssets, ComponentAssets, ReachingComponents,
               HostingAssets, LateralMovement, AllSystems, CollectError, At, Researching,
               TypeInv, HandlersOK, VulnerabilitySteps
      <3> QED BY <1>0, <2>1, <3>1, RecordedKept
    <2>5. CASE MatchBinding(w) \/ CreateBinding(w) \/ UpsertServes(w)
      <3>1. w \notin Researching'
        BY <2>1, <2>5 DEF MatchBinding, CreateBinding, UpsertServes, At, Researching,
               TypeInv, HandlersOK
      <3> QED BY <1>0, <2>1, <3>1, RecordedKept
    <2>6. CASE ReturnError(w)
      <3>1. pc'[w] = "failed"
        BY <2>6 DEF ReturnError, Goto, TypeInv, TypeOK
      <3> QED BY <1>0, <2>1, <3>1, RecordedKept
    <2> QED BY <1>2, <2>2, <2>3, <2>4, <2>5, <2>6 DEF Proceed
  <1>3. ASSUME NEW w \in Workers, Respond(w) PROVE Recorded'
    <2>1. OthersStay(w)
      BY <1>3, OnlyOneMoves DEF Proceed
    <2>2. w \notin Researching'
      BY <1>3 DEF Respond, Researching, NoRequest, TypeInv, TypeOK
    <2>3. \A r \in awaiting' : r \in awaiting \/ (r = req[w] /\ w \in Researching /\ pc[w] = "done")
      BY <1>3 DEF Respond, Settle, At
    <2> QED BY <1>0, <2>1, <2>2, <2>3, RecordedKept
  <1>4. ASSUME Crash PROVE Recorded'
    <2>1. awaiting' = {} /\ Researching' = {}
      BY <1>4 DEF Crash, Researching, NoRequest
    <2> QED BY <2>1 DEF Recorded
  <1>5. ASSUME UNCHANGED vars PROVE Recorded'
    BY <1>5 DEF vars, graph, handler, history, Recorded, Researching, InDatabase
  <1> QED BY <1>1, <1>2, <1>3, <1>4, <1>5 DEF Next

-----------------------------------------------------------------------------
(* What a step of Alg4 is to Propagation.                                  *)

LEMMA Stutters ==
    ASSUME UNCHANGED <<threatens, mark.symbols, mark.libraries, Researching, troubled, awaiting>>,
           Answers' = Answers
    PROVE  UNCHANGED P!vars
  <1>1. Promised' = Promised
    BY DEF Promised, Vulnerabilities
  <1> QED BY <1>1 DEF P!vars, P!series

LEMMA StartStep ==
    ASSUME TypeInv, NEW w \in Workers, NEW r \in Requests, Start(w, r)
    PROVE  P!Begin(w) \/ UNCHANGED P!vars
  <1>1. /\ UNCHANGED <<threatens, mark, awaiting, answered>>
        /\ req' = [req EXCEPT ![w] = r]
        /\ troubled' = (troubled /\ (r.kind = "vulnerability" => Researching # {}))
    BY DEF Start, graph
  <1>2. Answers' = Answers /\ Promised' = Promised
    BY <1>1 DEF Answers, Promised, Vulnerabilities
  <1>3. w \notin Researching
    BY DEF Start, Researching, TypeInv, HandlersOK, NoRequest
  <1>4. CASE r.kind = "vulnerability"
    <2>1. Researching' = Researching \cup {w}
      BY <1>1, <1>4 DEF Researching, TypeInv, TypeOK
    <2>2. troubled' = (troubled /\ Researching # {})
      BY <1>1, <1>4
    <2> QED BY <1>1, <1>2, <1>3, <2>1, <2>2 DEF P!Begin
  <1>5. CASE r.kind # "vulnerability"
    <2>1. Researching' = Researching
      BY <1>1, <1>3, <1>5 DEF Researching, TypeInv, TypeOK
    <2>2. troubled' = troubled
      BY <1>1, <1>5 DEF TypeInv, TypeOK
    <2> QED BY <1>1, <1>2, <2>1, <2>2, Stutters
  <1> QED BY <1>4, <1>5

\* A step of a call before its answer records, spreads marks, or neither.
LEMMA CallStep ==
    ASSUME TypeInv, SymbolMarksAreSound', DeploymentMarksAreSound', Grows,
           NEW w \in Workers, Proceed(w) \/ CollectError(w) \/ ReturnError(w), ~Respond(w)
    PROVE  P!Record \/ P!Spread \/ UNCHANGED P!vars
  <1>1. UNCHANGED <<req, troubled, awaiting, answered>>
    BY RequestsStay
  <1>2. /\ Researching' = Researching
        /\ Answers' = Answers /\ Promised' = Promised
    BY <1>1 DEF Researching, Answers, Promised, Vulnerabilities
  <1>3. CASE CreateVulnerability(w)
    <2> DEFINE matched == {req[w].threatens} \cap Symbols
    <2>1. w \in Researching /\ req[w] \in VulnerabilityRequest
      BY <1>3, RequestTypes
         DEF CreateVulnerability, At, Researching, TypeInv, HandlersOK, VulnerabilitySteps
    <2>2. req[w].identity \in Identities
      BY <2>1 DEF VulnerabilityRequest
    <2>3. /\ threatens' = threatens \cup ({req[w].identity} \X matched)
          /\ mark'.symbols = mark.symbols \cup matched
          /\ mark'.libraries = mark.libraries
      BY <1>3 DEF CreateVulnerability, TypeInv, TypeOK, Mark
    <2>4. matched \in SUBSET Symbols /\ \A s, t \in matched : s = t
      OBVIOUS
    <2> HIDE DEF matched
    <2> QED BY <1>1, <1>2, <2>1, <2>2, <2>3, <2>4 DEF P!Record, P!series
  <1>4. CASE Propagate(w)
    <2>1. w \in Researching /\ threatens' = threatens
      BY <1>4 DEF Propagate, ReachingSymbols, MarkReaching, ProvidingLibraries,
             LibraryComponents, LibraryAssets, ComponentAssets, ReachingComponents,
             HostingAssets, LateralMovement, AllSystems, At, graph, Researching, TypeInv,
             HandlersOK, VulnerabilitySteps
    <2>2. mark'.symbols \subseteq P!Reaching(P!Threatened)
      BY <2>1, SameReaching DEF SymbolMarksAreSound, Reaching, CallerClosed, Threatened
    <2>3. mark'.libraries \subseteq P!ProvidersOf(mark'.symbols)
      BY SameReaching DEF DeploymentMarksAreSound, ProvidersOf
    <2>4. CASE UNCHANGED <<mark.symbols, mark.libraries>>
      BY <1>1, <1>2, <2>1, <2>4, Stutters
    <2>5. CASE ~UNCHANGED <<mark.symbols, mark.libraries>>
      BY <1>1, <1>2, <2>1, <2>2, <2>3, <2>5 DEF P!Spread, P!series, Grows
    <2> QED BY <2>4, <2>5
  <1>5. CASE ~CreateVulnerability(w) /\ ~Propagate(w)
    <2>1. UNCHANGED <<threatens, mark>>
      BY <1>5 DEF Proceed, VulnerabilityExists, MatchBinding, CreateBinding, UpsertServes,
             CollectError, ReturnError, graph
    <2> QED BY <1>1, <1>2, <2>1, Stutters
  <1> QED BY <1>3, <1>4, <1>5

LEMMA RespondStep ==
    ASSUME TypeInv, Recorded, CompletedCovers', NEW w \in Workers, Respond(w)
    PROVE  P!Answer(w) \/ P!Fail(w) \/ UNCHANGED P!vars
  <1>1. UNCHANGED <<threatens, mark>>
    BY DEF Respond, graph
  <1>2. Researching' = Researching \ {w}
    BY DEF Respond, Researching, NoRequest, TypeInv, TypeOK
  <1>3. \A R, r : r.kind = "vulnerability" =>
           Vulnerabilities(R \cup {r}) = Vulnerabilities(R) \cup {<<r.identity, r.threatens>>}
    BY DEF Vulnerabilities
  <1>4. CASE w \in Researching
    <2> DEFINE a == <<req[w].identity, req[w].threatens>>
               answers == Promised \cup {a}
    <2>1. /\ troubled' = (troubled \/ pc[w] = "failed")
          /\ awaiting' = IF troubled' \/ Researching = {w} THEN {} ELSE awaiting \cup {req[w]}
          /\ answered' = IF ~troubled' /\ Researching = {w}
                         THEN answered \cup (awaiting \cup {req[w]}) ELSE answered
      BY <1>4 DEF Respond, Settle, At
    <2>2. req[w] \in VulnerabilityRequest /\ req[w].kind = "vulnerability"
      BY <1>4, RequestTypes DEF Respond, Researching, TypeInv, HandlersOK
    <2>3. Vulnerabilities(awaiting \cup {req[w]}) = answers
      BY <1>3, <2>2 DEF Promised
    <2>4. Vulnerabilities(answered \cup (awaiting \cup {req[w]})) = Answers \cup answers
      <3>1. \A R, S : Vulnerabilities(R \cup S) = Vulnerabilities(R) \cup Vulnerabilities(S)
        BY DEF Vulnerabilities
      <3> QED BY <2>3, <3>1 DEF Answers
    <2>5. Vulnerabilities({}) = {}
      BY DEF Vulnerabilities
    <2>6. Promised' = Vulnerabilities(awaiting') /\ Answers' = Vulnerabilities(answered')
      BY DEF Promised, Answers, Vulnerabilities
    <2>7. CASE pc[w] = "failed"
      <3>1. troubled' /\ awaiting' = {} /\ answered' = answered
        BY <2>1, <2>7
      <3>2. Promised' = {} /\ Answers' = Answers
        BY <2>5, <2>6, <3>1 DEF Answers
      <3> QED BY <1>1, <1>2, <1>4, <2>1, <2>7, <3>2 DEF P!Fail
    <2>8. CASE pc[w] = "done"
      <3>1. troubled' = troubled
        BY <2>1, <2>8 DEF TypeInv, TypeOK
      <3>2. req[w].identity \in Identities /\ req[w].threatens \in Names
        BY <2>2 DEF VulnerabilityRequest
      <3>3. req[w].threatens \in Symbols => \E t \in threatens : t[1] = req[w].identity
        BY <1>4, <2>8 DEF Recorded, InDatabase
      <3>4. CASE troubled
        <4>1. Promised' = {} /\ Answers' = Answers
          BY <2>1, <2>5, <2>6, <3>1, <3>4 DEF Answers
        <4> QED BY <1>1, <1>2, <1>4, <3>1, <3>2, <3>3, <3>4, <4>1 DEF P!Answer
      <3>5. CASE ~troubled /\ Researching # {w}
        <4>1. Promised' = answers /\ Answers' = Answers
          BY <2>1, <2>3, <2>6, <3>1, <3>5 DEF Answers
        <4>2. Researching' # {}
          BY <1>2, <1>4, <3>5
        <4> HIDE DEF answers
        <4>3. answers = Promised \cup {<<req[w].identity, req[w].threatens>>}
          BY DEF answers
        <4> QED BY <1>1, <1>2, <1>4, <3>1, <3>2, <3>3, <3>5, <4>1, <4>2, <4>3 DEF P!Answer
      <3>6. CASE ~troubled /\ Researching = {w}
        <4>1. Promised' = {} /\ Answers' = Answers \cup answers
          BY <2>1, <2>4, <2>5, <2>6, <3>1, <3>6
        <4>2. Researching' = {}
          BY <1>2, <3>6
        <4>3. P!Propagated
          <5>1. Succeeded'
            BY <3>1, <3>6, <4>2 DEF Succeeded
          <5>2. ReachedSymbols' \subseteq mark'.symbols /\ ReachedLibraries' \subseteq mark'.libraries
            BY <5>1 DEF CompletedCovers
          <5>3. Threatened' = Threatened
            BY <1>1 DEF Threatened
          <5>4. ReachedSymbols' = Reaching(Threatened) /\ ReachedLibraries' = ProvidersOf(Reaching(Threatened))
            BY <5>3 DEF ReachedSymbols, ReachedLibraries, Reaching, CallerClosed, ProvidersOf
          <5> QED BY <1>1, <5>2, <5>4, SameReaching DEF P!Propagated
        <4> HIDE DEF answers
        <4>4. answers = Promised \cup {<<req[w].identity, req[w].threatens>>}
          BY DEF answers
        <4> QED BY <1>1, <1>2, <1>4, <3>1, <3>2, <3>3, <3>6, <4>1, <4>2, <4>3, <4>4 DEF P!Answer
      <3> QED BY <3>4, <3>5, <3>6
    <2> QED BY <2>7, <2>8 DEF Respond
  <1>5. CASE w \notin Researching
    <2>1. /\ UNCHANGED <<troubled, awaiting>>
          /\ answered' = answered \/ answered' = answered \cup {req[w]}
      BY <1>5 DEF Respond
    <2>2. req[w].kind # "vulnerability"
      BY <1>5 DEF Researching
    <2>3. Answers' = Answers
      BY <2>1, <2>2 DEF Answers, Vulnerabilities
    <2>4. Researching' = Researching
      BY <1>2, <1>5
    <2> QED BY <1>1, <2>1, <2>3, <2>4, Stutters
  <1> QED BY <1>4, <1>5

LEMMA RefinementStep ==
    Inv /\ Recorded /\ Inv' /\ [Next]_vars => [P!Next]_(P!vars)
  <1> SUFFICES ASSUME Inv, Recorded, Inv', [Next]_vars
               PROVE  P!Next \/ UNCHANGED P!vars
    OBVIOUS
  <1>1. Grows /\ TypeInv /\ SymbolMarksAreSound' /\ DeploymentMarksAreSound'
    BY NextGrows DEF Inv, TypeInv
  <1>2. CompletedCovers'
    BY CoverImplies, PTL DEF Inv
  <1>3. ASSUME NEW w \in Workers, NEW r \in Requests, Start(w, r)
        PROVE  P!Next \/ UNCHANGED P!vars
    BY <1>1, <1>3, StartStep DEF P!Next
  <1>4. ASSUME NEW w \in Workers, Respond(w) PROVE P!Next \/ UNCHANGED P!vars
    BY <1>1, <1>2, <1>4, RespondStep DEF P!Next
  <1>5. ASSUME NEW w \in Workers, Proceed(w) \/ CollectError(w) \/ ReturnError(w), ~Respond(w)
        PROVE  P!Next \/ UNCHANGED P!vars
    BY <1>1, <1>5, CallStep DEF P!Next
  <1>6. ASSUME Crash PROVE P!Next
    <2>1. /\ UNCHANGED <<threatens, mark, answered>> /\ awaiting' = {}
          /\ troubled' = (troubled \/ Researching # {})
      BY <1>6 DEF Crash, graph
    <2>2. Researching' = {}
      BY <1>6 DEF Crash, Researching, NoRequest
    <2>3. Answers' = Answers /\ Promised' = {}
      BY <2>1 DEF Answers, Promised, Vulnerabilities
    <2> QED BY <2>1, <2>2, <2>3 DEF P!Lose, P!Next
  <1>7. ASSUME UNCHANGED vars PROVE UNCHANGED P!vars
    <2>1. UNCHANGED <<threatens, mark, req, troubled, awaiting, answered>>
      BY <1>7 DEF vars, graph, handler, history
    <2>2. Answers' = Answers /\ Researching' = Researching
      BY <2>1 DEF Answers, Vulnerabilities, Researching
    <2> QED BY <2>1, <2>2, Stutters
  <1> QED BY <1>3, <1>4, <1>5, <1>6, <1>7 DEF Next

LEMMA InvInit == Init => Inv /\ Recorded
  <1>1. Init => SymbolMarksAreSound /\ DeploymentMarksAreSound
    BY DEF Init, SymbolMarksAreSound, DeploymentMarksAreSound
  <1>2. Init => Recorded
    BY DEF Init, Recorded, Researching, NoRequest
  <1> QED BY <1>1, <1>2, TypeInit, CoverInit DEF Inv

LEMMA InvStep == Inv /\ Recorded /\ [Next]_vars => Inv' /\ Recorded'
  BY NextTypeInv, SymbolStep, DeploymentStep, CoverStep, RecordedStep DEF Inv

\* Alg4 does what Propagation allows, whatever runs beside a research, and
\* although a query of rule 1 may miss what another call marks: what the answers
\* of a series mean follows from Propagation alone.
THEOREM Implementation == Spec => ImplementsPropagation
  <1>1. Init => P!Init
    <2> SUFFICES ASSUME Init PROVE P!Init
      OBVIOUS
    <2>1. Researching = {}
      BY DEF Init, Researching, NoRequest
    <2>2. Answers = {} /\ Promised = {}
      BY DEF Init, Answers, Promised, Vulnerabilities
    <2> QED BY <2>1, <2>2 DEF Init, P!Init
  <1> QED BY InvInit, InvStep, RefinementStep, <1>1, PTL DEF Spec, ImplementsPropagation, P!Spec

-----------------------------------------------------------------------------
(* What the answers promise.                                               *)

LEMMA AnsweredStep ==
    Inv /\ Recorded /\ AnsweredIsPropagated /\ [Next]_vars => AnsweredIsPropagated'
  <1> SUFFICES ASSUME Inv, Recorded, AnsweredIsPropagated, [Next]_vars, NEW r \in answered',
                      r.kind = "vulnerability", r.threatens \in Symbols
               PROVE  \E t \in threatens' : /\ t[1] = r.identity
                                            /\ Reaching({t[2]}) \subseteq mark'.symbols
                                            /\ ProvidersOf(Reaching({t[2]})) \subseteq mark'.libraries
    BY DEF AnsweredIsPropagated, Reaching, CallerClosed, ProvidersOf
  <1>1. Grows
    BY NextGrows DEF Inv, TypeInv
  <1>2. CASE r \in answered
    BY <1>1, <1>2 DEF AnsweredIsPropagated, Grows
  <1>3. CASE r \notin answered
    <2>1. PICK w \in Workers : Respond(w)
      BY <1>3, RequestsStay DEF Next, Start, Crash, vars, history
    <2>2. /\ r = req[w] \/ r \in awaiting
          /\ r = req[w] => w \in Researching
      BY <1>3, <2>1 DEF Respond, Settle, Researching, Recorded, Inv, TypeInv, HandlersOK
    <2>3. w \in Researching /\ ~troubled' /\ Researching = {w} /\ pc[w] = "done"
      BY <1>3, <2>1, <2>2 DEF Respond, Settle, Researching, Recorded, At
    <2>4. PICK t \in threatens : t[1] = r.identity
      BY <2>2, <2>3 DEF Recorded, InDatabase
    <2>5. Researching' = {}
      BY <2>1, <2>3 DEF Respond, Researching, NoRequest, Inv, TypeInv, TypeOK
    <2>6. CompletedCovers'
      BY InvStep, CoverImplies, PTL DEF Inv
    <2>7. ReachedSymbols' \subseteq mark'.symbols /\ ReachedLibraries' \subseteq mark'.libraries
      BY <2>3, <2>5, <2>6 DEF CompletedCovers, Succeeded
    <2>8. t \in threatens' /\ {t[2]} \subseteq Threatened'
      BY <1>1 DEF Grows, Threatened
    <2>9. /\ ReachedSymbols' = Reaching(Threatened')
          /\ ReachedLibraries' = ProvidersOf(Reaching(Threatened'))
      BY DEF ReachedSymbols, ReachedLibraries, Reaching, CallerClosed, ProvidersOf
    <2>10. Reaching({t[2]}) \subseteq Reaching(Threatened')
      BY <2>8, ReachingGrows
    <2>11. ProvidersOf(Reaching({t[2]})) \subseteq ProvidersOf(Reaching(Threatened'))
      BY <2>10, ProvidersGrow
    <2> QED BY <2>4, <2>7, <2>8, <2>9, <2>10, <2>11
  <1> QED BY <1>2, <1>3

\* Once CreateVulnerability has been answered, and the researches beside it too,
\* none with an error, its identity is recorded and all that reaches the symbol it
\* threatens is marked, for ever.
THEOREM Answered == Spec => []AnsweredIsPropagated
  <1>1. Init => AnsweredIsPropagated
    BY DEF Init, AnsweredIsPropagated
  <1> QED BY InvInit, InvStep, AnsweredStep, <1>1, PTL DEF Spec

\* A handler that has dealt with a binding has one to show.
BindingDone == \A w \in Workers : pc[w] = "done" /\ req[w].kind = "binding" =>
    \E b \in bindings : Subsumes(b, req[w])

LEMMA BindingStep ==
    TypeInv /\ BindingDone /\ [Next]_vars => BindingDone'
  <1> SUFFICES ASSUME TypeInv, BindingDone, [Next]_vars, NEW v \in Workers,
                      pc'[v] = "done", req'[v].kind = "binding"
               PROVE  \E b \in bindings' : Subsumes(b, req'[v])
    BY DEF BindingDone, Subsumes, MatchLibrary, MatchComponent, MatchAsset
  <1>1. bindings \subseteq bindings'
    BY NextGrows DEF TypeInv, Grows
  <1>2. CASE UNCHANGED <<pc[v], req[v]>>
    BY <1>1, <1>2 DEF BindingDone
  <1>3. ASSUME NEW w \in Workers, w # v, OthersStay(w) PROVE UNCHANGED <<pc[v], req[v]>>
    BY <1>3 DEF OthersStay
  <1>4. CASE MatchBinding(v)
    <2>1. UNCHANGED req /\ \E b \in bindings : Subsumes(b, req[v])
      BY <1>4 DEF MatchBinding, Goto, TypeInv, TypeOK
    <2> QED BY <1>1, <2>1
  <1>5. CASE CreateBinding(v)
    <2> DEFINE n == CHOOSE n \in FreeNodes : TRUE
               b == [node |-> n, library |-> MatchLibrary(req[v]),
                     component |-> MatchComponent(req[v]), asset |-> MatchAsset(req[v])]
    <2>1. UNCHANGED req /\ b \in bindings'
      BY <1>5 DEF CreateBinding
    <2>2. Subsumes(b, req[v])
      BY DEF Subsumes
    <2> QED BY <2>1, <2>2
  <1>6. CASE ~(MatchBinding(v) \/ CreateBinding(v))
    <2>1. ASSUME (\E r \in Requests : Start(v, r)) \/ Proceed(v) \/ CollectError(v) \/ ReturnError(v)
          PROVE  pc'[v] # "done" \/ req'[v].kind # "binding"
      <3>1. CASE \E r \in Requests : Start(v, r)
        BY <3>1, RequestTypes DEF Start, FirstStep, TypeInv, TypeOK
      <3>2. CASE pc[v] \in VulnerabilitySteps \cup {"upsertServes"} /\ req' = req
        BY <3>2 DEF TypeInv, HandlersOK
      <3>3. CASE Respond(v) \/ ReturnError(v)
        BY <3>3 DEF Respond, ReturnError, Goto, TypeInv, TypeOK
      <3> QED
        BY <1>6, <2>1, <3>1, <3>2, <3>3
           DEF Proceed, VulnerabilityExists, CreateVulnerability, Propagate, ReachingSymbols,
               MarkReaching, ProvidingLibraries, LibraryComponents, LibraryAssets, ComponentAssets,
               ReachingComponents, HostingAssets, LateralMovement, AllSystems, UpsertServes,
               CollectError, At, VulnerabilitySteps
    <2>2. ASSUME Crash PROVE pc'[v] # "done"
      BY <2>2 DEF Crash
    <2>3. ASSUME UNCHANGED vars PROVE UNCHANGED <<pc[v], req[v]>>
      BY <2>3 DEF vars, handler
    <2> QED BY <1>2, <1>3, <2>1, <2>2, <2>3, OnlyOneMoves DEF Next
  <1> QED BY <1>4, <1>5, <1>6

LEMMA BoundStep ==
    TypeInv /\ BindingDone /\ Recorded /\ AnsweredIsBound /\ [Next]_vars => AnsweredIsBound'
  <1> SUFFICES ASSUME TypeInv, BindingDone, Recorded, AnsweredIsBound, [Next]_vars,
                      NEW r \in answered', r.kind = "binding"
               PROVE  \E b \in bindings' : Subsumes(b, r)
    BY DEF AnsweredIsBound, Subsumes, MatchLibrary, MatchComponent, MatchAsset
  <1>1. bindings \subseteq bindings'
    BY NextGrows DEF TypeInv, Grows
  <1>2. CASE r \in answered
    BY <1>1, <1>2 DEF AnsweredIsBound
  <1>3. CASE r \notin answered
    <2>1. PICK w \in Workers : Respond(w)
      BY <1>3, RequestsStay DEF Next, Start, Crash, vars, history
    <2>2. pc[w] = "done" /\ r = req[w]
      BY <1>3, <2>1 DEF Respond, Settle, Researching, Recorded, At
    <2> QED BY <1>1, <2>2 DEF BindingDone
  <1> QED BY <1>2, <1>3

\* Whatever races or fails, a client whose CreateBinding was answered finds one
\* Binding with all the targets its request matched.
THEOREM Bound == Spec => []AnsweredIsBound
  <1>1. Init => BindingDone /\ AnsweredIsBound
    BY DEF Init, BindingDone, AnsweredIsBound
  <1> QED BY TypeInit, InvInit, <1>1, NextTypeInv, RecordedStep, BindingStep, BoundStep, PTL DEF Spec

=============================================================================
