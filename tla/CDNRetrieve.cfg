CONSTANTS
    go = go  app1 = app1  app2 = app2  dep = dep  fG = fG  fA = fA  fB = fB  fD = fD
    Symbols <- MCSymbols
    Libraries <- MCLibraries
    Analyses <- MCAnalyses
    Workers = {w1}
    Limit = 2
    Faults = FALSE
    Calls <- RetrieveCalls
    Referable = {}
    None = None
SPECIFICATION Spec
INVARIANTS
    AnswerHasDependencies
