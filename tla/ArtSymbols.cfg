CONSTANTS
    a = a
    b = b
    c = c
    Names = {a, b, c}
    Hash <- MCHash
    MaxSymbols = 3
    MaxBuckets = 2
    MaxRelocations = 2
SPECIFICATION FairSpec
INVARIANTS LookupTypeOK WalkStaysInTable AnswerIsTheExport SlotIsOfTheFunction
PROPERTIES LookupReturns
