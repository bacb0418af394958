SPECIFICATION Spec
CONSTANTS
    TableName = {11, 12}
    IndexName = {1}
    ViewName = {21}
    ColumnName = {"id", "a", "b"}
    Designs <- MCDesigns
    NewColumns <- MCNewColumns
    Inserts <- MCInserts
    Updates <- MCUpdates
    MaxInt = 99
    Radix = 10
    BaseLen = 20
    ColumnLen = 10
    ViewLen = 30
    Room = 130
    LeftPtr = 4
    MaxTree = 3
    MaxChanges = 5
INVARIANTS TypeOK CatalogLoads CounterAhead PkIsRowid NotNullHolds IndexCovers
CHECK_DEADLOCK FALSE
