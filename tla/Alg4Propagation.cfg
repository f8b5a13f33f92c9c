CONSTANTS
    s2 = s2  s3 = s3  s4 = s4
    lib1 = lib1  lib2 = lib2  front = front  back = back  db = db
    eFront = eFront  eBack = eBack  node1 = node1  node2 = node2  sys = sys
    d2 = d2  d3 = d3  d4 = d4  icd = icd
    b1 = b1  b2 = b2  b3 = b3  b4 = b4  b5 = b5  b6 = b6  v1 = v1  ghost = ghost
    Symbols <- MCSymbols
    Libraries <- MCLibraries
    Components <- MCComponents
    Endpoints = {eFront, eBack}
    Assets = {node1, node2}
    Systems = {sys}
    CallGraphDependencies <- MCDependencies
    DepCaller <- MCCaller
    DepCallees <- MCCallees
    Provides <- MCProvides
    Exposes <- MCExposes
    InterComponentDependencies = {icd}
    IcdCaller <- MCIcdCaller
    IcdCallees <- MCIcdCallees
    HostedBy <- MCHostedBy
    ComposedOf <- MCComposedOf
    Identities = {v1}
    Names <- MCNames
    None = None
    Workers = {w1, w2}
    BindingNodes = {b1, b2}
    Requests <- PropagationRequests
SPECIFICATION Spec
SYMMETRY Symmetry
INVARIANTS
    TypeOK
    DeploymentMarksAreSound
    CompletedCovers
PROPERTIES
    ImplementsPropagation
