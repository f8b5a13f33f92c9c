----------------------------- MODULE CallGraphs -----------------------------
(* What the analysis of a Go module works on: the directories of the module *)
(* and the call graph that is built from each.                             *)
EXTENDS Naturals, Sequences, FiniteSets

CONSTANTS
    Functions, Packages,
    PackageOf,      \* per function: its package, or None for those without one
    Directories,    \* of the module, in the order they are walked
    GraphNodes,     \* per directory: the functions of its call graph
    Callees,        \* per directory and node: the functions it may call
    Tracked,        \* per directory: the packages whose path it prefixes
    Modules,        \* the names in go.mod, the analysed module's own included
    PrefixedBy,     \* per package: the module names that prefix its path
    NameLength,     \* per module name
    None

ASSUME CallGraphsAssumption ==
    /\ IsFiniteSet(Functions)
    /\ None \notin Packages \cup DOMAIN GraphNodes
    /\ PackageOf \in [Functions -> Packages \cup {None}]
    /\ Directories \in Seq(DOMAIN GraphNodes)
    /\ GraphNodes \in [DOMAIN GraphNodes -> SUBSET Functions]
    /\ DOMAIN Callees = DOMAIN GraphNodes
    /\ \A d \in DOMAIN GraphNodes : Callees[d] \in [GraphNodes[d] -> SUBSET GraphNodes[d]]
    /\ Tracked \in [DOMAIN GraphNodes -> SUBSET Packages]
    /\ PrefixedBy \in [Packages -> SUBSET Modules]
    /\ NameLength \in [Modules -> Nat]
    \* Prefixes of one path differ in their lengths, and there are finitely many.
    /\ \A p \in Packages : PrefixedBy[p] # {} =>
          \E m \in PrefixedBy[p] : \A n \in PrefixedBy[p] \ {m} : NameLength[n] < NameLength[m]

=============================================================================
