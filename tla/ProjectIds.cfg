SPECIFICATION ProjectSpec
CONSTANTS
    Requests = {r1, r2, r3, r4}
    MaxAttempts = 2
    None = None
INVARIANT FetchesDeduplicated
CHECK_DEADLOCK FALSE
