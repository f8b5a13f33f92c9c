CONSTANTS
    front = front  back = back  get = get
    Components = {front, back}
    Names = {get}
    EndpointNodes = {e1, e2, e3}
    Workers = {w1, w2}
    Limit = 3
    Calls <- MCCalls
    None = None
SYMMETRY Symmetry
SPECIFICATION Spec
INVARIANTS
    TypeOK
    LinkedAsNamed
    AnsweredIsLinked
    UniqueUnlessRaced
    AloneResetEmpties
PROPERTY ImplementsInteractions
