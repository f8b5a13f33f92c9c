---------------------------- MODULE Propagation ----------------------------
(***************************************************************************)
(* What CreateVulnerability promises of the codebase, without the order of *)
(* its rules: marks stay within what reaches a threatened symbol; and when *)
(* the researches that ran at once have all been answered, none with an    *)
(* error, everything that is threatened is propagated.                     *)
(***************************************************************************)
CONSTANTS
    Symbols, Libraries,
    Calls,          \* <<caller, callee>>
    Provides,       \* <<library, symbol>>
    Identities, Names, Clients

VARIABLES
    threatens,      \* <<identity, symbol>>
    symbols, libraries,     \* those that are marked
    open,           \* the clients whose research runs
    troubled,       \* a research of the present or last series came to nothing
    awaiting,       \* <<identity, name>>: the answers of the series, while it runs
    answered        \* <<identity, name>>: the answers clients may rely upon

series == <<open, troubled, awaiting, answered>>
vars == <<threatens, symbols, libraries, series>>

CallerClosed(T) == \A c \in Calls : c[2] \in T => c[1] \in T
Reaching(S) == {s \in Symbols : \A T \in SUBSET Symbols :
                    S \subseteq T /\ CallerClosed(T) => s \in T}
ProvidersOf(S) == {l \in Libraries : \E s \in S : <<l, s>> \in Provides}

Threatened == {t[2] : t \in threatens}

Init ==
    /\ threatens = {} /\ symbols = {} /\ libraries = {}
    /\ open = {} /\ troubled = FALSE /\ awaiting = {} /\ answered = {}

\* A research begins, beside others or as the first of a series.
Begin(c) ==
    /\ c \notin open
    /\ open' = open \cup {c}
    /\ troubled' = (troubled /\ open # {})
    /\ UNCHANGED <<threatens, symbols, libraries, awaiting, answered>>

\* A research records at most one symbol.
Record ==
    /\ open # {}
    /\ \E i \in Identities, S \in SUBSET Symbols :
          /\ \A s, t \in S : s = t
          /\ threatens' = threatens \cup ({i} \X S)
          /\ symbols' = symbols \cup S
    /\ UNCHANGED <<libraries, series>>

\* Marks spread, in any order and as far as they may, on behalf of any research.
Spread ==
    /\ open # {} /\ <<symbols, libraries>>' # <<symbols, libraries>>
    /\ symbols \subseteq symbols' /\ symbols' \subseteq Reaching(Threatened)
    /\ libraries \subseteq libraries' /\ libraries' \subseteq ProvidersOf(symbols')
    /\ UNCHANGED <<threatens, series>>

Propagated == /\ Reaching(Threatened) \subseteq symbols
              /\ ProvidersOf(Reaching(Threatened)) \subseteq libraries

\* A research is answered without an error; the identity is recorded by then, if
\* the symbol exists.  The answers of a series become promises with the last of
\* them: what is threatened is propagated then.
Answer(c) ==
    /\ c \in open
    /\ open' = open \ {c}
    /\ \E i \in Identities, name \in Names :
          LET answers == awaiting \cup {<<i, name>>}
          IN  /\ name \in Symbols => \E t \in threatens : t[1] = i
              /\ IF troubled THEN awaiting' = {} /\ UNCHANGED answered
                 ELSE IF open' # {} THEN awaiting' = answers /\ UNCHANGED answered
                 ELSE awaiting' = {} /\ answered' = answered \cup answers /\ Propagated
    /\ UNCHANGED <<threatens, symbols, libraries, troubled>>

\* An error: none of the series promises anything.
Fail(c) ==
    /\ c \in open
    /\ open' = open \ {c}
    /\ troubled' = TRUE /\ awaiting' = {}
    /\ UNCHANGED <<threatens, symbols, libraries, answered>>

\* The server dies, and its researches with it; what they have marked stays.
Lose ==
    /\ open' = {}
    /\ troubled' = (troubled \/ open # {})
    /\ awaiting' = {}
    /\ UNCHANGED <<threatens, symbols, libraries, answered>>

Next ==
    \/ \E c \in Clients : Begin(c) \/ Answer(c) \/ Fail(c)
    \/ Record \/ Spread \/ Lose

Spec == Init /\ [][Next]_vars
=============================================================================
