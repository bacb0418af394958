INIT Init
NEXT Next
INVARIANTS
    ParsesPrinted
    MatchIsPieces
    WhereIsKnown
    SelectMeans
