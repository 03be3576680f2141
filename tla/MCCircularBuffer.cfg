SPECIFICATION Spec
CONSTANTS
    Data = {d1, d2}
    NoData = NoData
    Capacity = 4
INVARIANT TypeOK
PROPERTY ImplementsQueue
