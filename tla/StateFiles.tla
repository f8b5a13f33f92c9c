----------------------------- MODULE StateFiles -----------------------------
(* What the RDG service is given: states of Pulumi stacks, each the         *)
(* resources of it that registry.go has a use for, in their order.          *)
EXTENDS Sequences

CONSTANTS
    Ids,        \* the URNs of resources
    Stacks      \* the states that clients ask for

ASSUME StacksAssumption == Stacks \subseteq Seq(Ids)

=============================================================================
