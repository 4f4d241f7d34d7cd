CONSTANTS
    c1 = c1
    c2 = c2
    c3 = c3
    Clients = {c1, c2, c3}
    Paths <- MCPaths
    Nested <- MCNested
    Prefixed <- MCPaths
    Base <- MCBase
    Drivers <- MCDrivers
    Kinds <- MCKinds
    Binary = {1, 3}
    PageSize = 1
    MaxOps = 3
SPECIFICATION Spec
SYMMETRY Symmetry
INVARIANTS  SweepSparesCurrent SweepFindsAll
 
CHECK_DEADLOCK FALSE
