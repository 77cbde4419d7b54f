\* Two records, posted with an exception that is not an httpx.HTTPError.
SPECIFICATION Spec
CONSTANTS
    Records = {r1, r2}
    Stop = Stop
    QueueMax = 1
    MaxBatch = 2
    MaxAttempts = 2
    PostMayRaise = TRUE
PROPERTY WarnsOfRemainder
CHECK_DEADLOCK FALSE
