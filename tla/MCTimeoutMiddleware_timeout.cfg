SPECIFICATION FairSpec
CONSTANTS
    r1 = r1
    r2 = r2
    Request = {r1, r2}
    Guarded = {r1}
INVARIANTS LostPanicTimesOut StrayHandlerOnlyAfterExpiry MInv
PROPERTIES ImplementsOneAnswer RequestsReturn HandlersEnd
CHECK_DEADLOCK FALSE
