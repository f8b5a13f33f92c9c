CONSTANTS
    f = f  g = g  h = h  e = e  x = x  y = y  wrap = wrap
    pm = pm  po = po  ps = ps  pe = pe  pgo = pgo  root = root  oth = oth  sub = sub  mod = mod  ext = ext  exts = exts
    Functions = {f, g, h, e, x, y, wrap}
    Packages = {pm, po, ps, pe, pgo}
    Modules = {mod, ext, exts}
    PackageOf <- MCPackageOf
    Directories <- MCDirectories
    GraphNodes <- MCGraphNodes
    Callees <- MCCallees
    Tracked <- MCTracked
    PrefixedBy <- MCPrefixedBy
    NameLength <- MCNameLength
    None = None
    r1 = r1  r2 = r2
    Ids = {r1, r2}
    Stacks <- MCStacks
    Workers = {w1, w2}
    Limit = 2
    a1 = a1  a2 = a2  a3 = a3  b1 = b1  d1 = d1  d2 = d2  gone = gone
    front = front  back = back  db = db  t1 = t1  t2 = t2  v1 = v1  v2 = v2
    handle = handle  call3 = call3  get = get  ask = ask
    Spans = {a1, a2, a3, b1, d1, d2}
    Rpc = {a3}
    TraceOf <- MCTraceOf
    Service <- MCService
    Version <- MCVersion
    Name <- MCName
    Caller <- MCCaller
    Families <- MCFamilies
    StackLimit = 7
    Unknown = Unknown
    Absent = Absent
    EndpointNodes = {1, 2, 3, 4, 5}
    Runs = 2
SPECIFICATION Spec
\* The commands end.
CHECK_DEADLOCK FALSE
INVARIANTS
    TypeOK
    CalleesAreRegistered
    RecursionIsBounded
    DependenciesAreOfOneGraph
    ExportedOnce
    UniqueUnlessRaced
    AnsweredStackIsStored
    AloneResetEmpties
    CallerIsOfItsService
    ObservedOnce
    OverflowsOnlyOnCycles
    ObservedIsLinked
PROPERTIES
    CommandsEnd
    CommandsAdvance
