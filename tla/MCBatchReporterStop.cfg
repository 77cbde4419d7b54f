\* Only httpx.HTTPError leaves client.post, and aclose's time limit is not relied on.
SPECIFICATION DrainSpec
CONSTANTS
    Records = {r1, r2, r3}
    Stop = Stop
    QueueMax = 2
    MaxBatch = 2
    MaxAttempts = 2
    PostMayRaise = FALSE
INVARIANT StopIsKept
PROPERTIES
    RecordsSettle
    StopEndsDrain
CHECK_DEADLOCK FALSE
