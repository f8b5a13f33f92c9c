--------------------------- MODULE SIGRefinement ---------------------------
(* SIG implements Interactions.                                            *)
EXTENDS SIG

\* The endpoint of a node, if a Reset has not taken its component.
Shown(n) == {f \in NamesOf(n) : f[1] # None}
Links == UNION {Shown(d.caller) \X Shown(d.callee) : d \in dependencies}

\* What a call names.
LinksOf(c) == IF c.kind = "dependency" THEN {<<c.caller, c.callees[i]>> : i \in DOMAIN c.callees} ELSE {}
RequestOf(c) ==
    [kind |-> c.kind,
     components |-> IF c.kind \in {"component", "retrieve"} THEN {c.component} ELSE {},
     links |-> LinksOf(c)]

NoRequest == [kind |-> "none", components |-> {}, links |-> {}]

\* What has become of a call that is about to enter a step.
OutcomeAt(step) == CASE step = "idle"   -> "none"
                     [] step = "done"   -> "answered"
                     [] step = "failed" -> "failed"
                     [] OTHER           -> "pending"

\* The links that the call of w can make with the components that were there.
Possible(w) == {l \in LinksOf(call[w]) : {l[1][1], l[2][1]} \subseteq known[w]}

Outcome == [w \in Workers |-> OutcomeAt(pc[w])]
Requested == [w \in Workers |-> IF At(w, "idle") THEN NoRequest ELSE RequestOf(call[w])]
Owes == [w \in Workers |-> IF At(w, "idle") \/ disturbed[w] THEN {} ELSE Possible(w)]
Alone == [w \in Workers |-> ~At(w, "idle") /\ call[w].kind = "reset" /\ ~disturbed[w]]

I == INSTANCE Interactions WITH
        Clients <- Workers, Requests <- {RequestOf(c) : c \in Calls},
        links <- Links, outcome <- Outcome, request <- Requested,
        owes <- Owes, alone <- Alone

\* However the transactions of calls interleave, fail, are repeated or are lost
\* with the server: components and links appear only on behalf of a call in
\* progress that names them, disappear only while a Reset runs, and whoever is
\* answered finds what the answer says.
ImplementsInteractions == I!Spec

=============================================================================
