\* Queue, batch and attempt limits of 2 against 4 records: the queue and the
\* batch fill, the sentinel displaces a record, and retries run out.
SPECIFICATION Spec
CONSTANTS
    Records = {r1, r2, r3, r4}
    Stop = Stop
    QueueMax = 2
    MaxBatch = 2
    MaxAttempts = 2
    PostMayRaise = TRUE
SYMMETRY RecordSymmetry
INVARIANTS
    EachRecordInOnePlace
    DroppedIsExact
    BatchesAreBounded
    CleanCloseLeavesNothing
    CountsAreBounded
PROPERTY ImplementsLine
\* The reporter stops once it is closed and every record is used up.
CHECK_DEADLOCK FALSE
