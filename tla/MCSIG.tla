------------------------------- MODULE MCSIG -------------------------------
(* Instances of SIG for TLC.                                               *)
EXTENDS SIGRefinement, TLC

CONSTANTS front, back, get

\* Caller and callee have the same name, on two components.
Forth == DependencyCall(<<front, get>>, <<<<back, get>>>>)

MCCalls == {CreateComponentCall(front), CreateComponentCall(back), Forth, ResetCall}

\* Workers differ by their names only, and so do Endpoint nodes.
Symmetry == Permutations(Workers) \cup Permutations(EndpointNodes)
=============================================================================
