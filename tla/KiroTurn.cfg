SPECIFICATION Spec
CONSTANTS
    Urls = 3
    Bypassed = {1, 2}
    Proxied = TRUE
    Statuses <- MCStatuses
    Attempts <- MCAttempts
    Falls = {401, 429}
    Tools = {t1, t2}
    MaxEvents = 4
INVARIANTS
    CallsBounded
    AnswerIsHonest
PROPERTIES
    UsableIsTold
    TurnEnds
CHECK_DEADLOCK FALSE
