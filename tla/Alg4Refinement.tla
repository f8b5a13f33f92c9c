--------------------------- MODULE Alg4Refinement ---------------------------
(* Alg4 implements Propagation.                                            *)
EXTENDS Alg4

CallPairs == UNION {{DepCaller[d]} \X DepCallees[d] : d \in CallGraphDependencies}
Vulnerabilities(R) == {<<r.identity, r.threatens>> : r \in {x \in R : x.kind = "vulnerability"}}
Promised == Vulnerabilities(awaiting)
Answers == Vulnerabilities(answered)

P == INSTANCE Propagation WITH
        Calls <- CallPairs, Clients <- Workers,
        symbols <- mark.symbols, libraries <- mark.libraries,
        open <- Researching, awaiting <- Promised, answered <- Answers

\* Whatever calls interleave, fail, are repeated or are lost with the server,
\* each transaction of Alg4 does what a step of Propagation may do to the marks
\* of the codebase and to what clients have been told, or none of it: only a
\* research marks, no mark goes too far, and what a series of researches that
\* were all answered has promised is true when it ends.
ImplementsPropagation == P!Spec

=============================================================================
