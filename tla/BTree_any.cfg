SPECIFICATION ChangeSpec
CONSTANTS
    MaxKey = 41
    Lengths = {4, 7, 12, 20}
    Key <- MCKey
    Val = {1, 2}
    Room = 12
    CellSize = 2
    PtrSize = 1
    Loads <- MCLoads
    MaxPage = 99
    MaxOps = 2
INVARIANTS TypeOK LeavesSorted SingleParent UniformDepth AppendedScans
PROPERTY RowsKept
CHECK_DEADLOCK FALSE
