SPECIFICATION InPlaceSpec
CONSTANTS
    a = a
    b = b
    d = d
    Cell <- MCCell
    Size <- MCSize
    PageSize = 17
    HeaderSize = 2
    PtrSize = 2
INVARIANTS TypeOK PointersBelowCells CellsIntact
PROPERTY IsCellList
