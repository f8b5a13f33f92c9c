------------------------------- MODULE MCAlg4 -------------------------------
(* Instances of Alg4 for TLC.                                              *)
EXTENDS Alg4Refinement, TLC

CONSTANTS
    s2, s3, s4, lib1, lib2, front, back, db, eFront, eBack,
    node1, node2, sys, d2, d3, d4, icd, b1, b2, b3, b4, b5, b6, v1, ghost

\* s4 and s3 call each other, s3 is called by s2.
MCSymbols == {s2, s3, s4}
MCDependencies == {d2, d3, d4}
MCCaller == d2 :> s2 @@ d3 :> s3 @@ d4 :> s4
MCCallees == d2 :> {s3} @@ d3 :> {s4} @@ d4 :> {s3}

\* lib1 provides the bottom of the chain, lib2 the rest.
MCLibraries == {lib1, lib2}
MCProvides == {<<lib1, s4>>, <<lib2, s2>>, <<lib2, s3>>}

\* An endpoint of front calls the endpoint of back.
MCComponents == {front, back, db}
MCExposes == eFront :> front @@ eBack :> back
MCIcdCaller == icd :> eFront
MCIcdCallees == icd :> {eBack}

\* An operator may have told where components run: front and db share node1.
MCHostedBy == {<<front, node1>>, <<db, node1>>, <<back, node2>>}
MCComposedOf == {<<sys, db>>}

Vulnerability(i, s) == [kind |-> "vulnerability", identity |-> i, threatens |-> s]
BindingOf(l, c, a) == [kind |-> "binding", library |-> l, component |-> c, asset |-> a]
ServesOf(e, s) == [kind |-> "serves", endpoint |-> e, symbol |-> s]

MCNames == MCSymbols \cup MCLibraries \cup MCComponents \cup {eFront, eBack, node1, node2, ghost}

\* One vulnerability, researched by both handlers at once too, and what binds the
\* symbols it reaches to the deployment.
PropagationRequests == {Vulnerability(v1, s4), BindingOf(lib2, back, ghost), ServesOf(eBack, s2)}

\* Two vulnerabilities, the second for an identity that may be taken.
ParallelRequests == {Vulnerability(v1, s4), Vulnerability(v1, s2)}

\* Bindings that overlap, with targets that match and targets that do not.  Two
\* handlers make at most two Bindings for each request: six nodes suffice.
MCBindingRequests == {BindingOf(lib1, back, ghost), BindingOf(lib1, ghost, node1),
                      BindingOf(ghost, back, node1)}

\* Handlers differ by their names only.
Symmetry == Permutations(Workers)

=============================================================================
