CONSTANTS
    a = a
    b = b
    c = c
    Ids = {a, b, c}
    MaxRecords = 3
SPECIFICATION Spec
INVARIANT TypeOK
INVARIANT ParentPreserved
INVARIANT ReplayComplete
PROPERTY ReplayReturns
