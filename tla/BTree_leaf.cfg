SPECIFICATION Spec
CONSTANTS
    MaxKey = 4
    Lengths = {0}
    Key <- MCKey
    Val = {1, 2}
    Room = 12
    CellSize = 2
    PtrSize = 1
    Loads <- MCLoads
    MaxPage = 1
    MaxOps = 7
PROPERTY IsMap
