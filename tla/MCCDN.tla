------------------------------- MODULE MCCDN -------------------------------
(* Instances of CDN for TLC.                                               *)
EXTENDS CDN, TLC

CONSTANTS go, app1, app2, dep, fG, fA, fB, fD

MCSymbols == {fG, fA, fB, fD}
MCLibraries == {go, app1, app2, dep}

\* Version 1 of a module: two packages, a dependency, and a core function that
\* calls back into the module.
Version1 == [root |-> app1, core |-> go,
             packages |-> go :> {{fG}} @@ app1 :> {{fA}, {fB}} @@ dep :> {{fD}},
             calls |-> {<<fA, fB>>, <<fA, fD>>, <<fB, fA>>, <<fD, fG>>, <<fG, fA>>}]

\* Version 2 of it: the symbols keep their identities.
Version2 == [root |-> app2, core |-> go,
             packages |-> go :> {{fG}} @@ app2 :> {{fA}},
             calls |-> {<<fA, fG>>}]

MCAnalyses == {Version1, Version2}
ExportCalls == {CreateJob(Version1), CreateJob(Version2)}
ResetCalls == {CreateJob(Version2), RetrieveJob(fA), ResetJob}
RetryCalls == {CreateJob(Version1)}
RetrieveCalls == {CreateJob(Version1), RetrieveJob(fA)}
=============================================================================
