SPECIFICATION ConnectionsSpec
CONSTANTS
    Accounts <- MCAccounts
    Names = {1}
    Handlers = {h1}
    MaxRows = 3
INVARIANTS
    AccountsStaySeparate
PROPERTIES
    DeletedStaysDeleted
    OrderKept
CHECK_DEADLOCK FALSE
