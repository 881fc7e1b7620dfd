SPECIFICATION FairSpec
CONSTANTS
    r1 = r1
    r2 = r2
    a1 = a1
    a2 = a2
    Request <- TwoRequests
    Account <- TwoAccounts
    Bypassed = {a1}
    BatchSize = 2
INVARIANTS
    NeverOverstated
    CountIsExact
    AccountedOnce
PROPERTIES
    BufferDrains
    StreamEnds
CHECK_DEADLOCK FALSE
