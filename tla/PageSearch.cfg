SPECIFICATION FairSpec
CONSTANTS
    MaxKey = 5
    MaxLen = 5
    Key <- MCKey
    KeyLists <- MCKeyLists
INVARIANTS SearchExact SearchInBounds SearchIsLoop
PROPERTY SearchEnds
CHECK_DEADLOCK FALSE
