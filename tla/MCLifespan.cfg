\* Three moderated requests, two threads in the loop's default pool: both can be
\* held while a third waits, and three uploads can be waiting, running and refused.
SPECIFICATION Spec
CONSTANTS
    Requests = {r1, r2, r3}
    PoolThreads = 2
INVARIANTS
    RequestsMeetTheLiving
    UploadsRunInTurn
PROPERTIES
    ScoresEnd
    ServerEnds
\* The process has ended.
CHECK_DEADLOCK FALSE
