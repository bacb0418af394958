SPECIFICATION AppendSpec
CONSTANTS
    MaxKey = 13
    Lengths = {0}
    Key <- MCKey
    Val = {1}
    Room = 12
    CellSize = 2
    PtrSize = 1
    Loads <- MCLoads
    MaxPage = 6
    MaxOps = 13
INVARIANTS GetComplete
CHECK_DEADLOCK FALSE
