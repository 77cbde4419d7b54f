\* Up to three chunks: a failure before the first, between two and after the last.
SPECIFICATION FairSpec
CONSTANT MaxChunks = 3
INVARIANTS
    CountedExactlyOnce
    RecordTellsOutcome
    StreamIsTerminated
    RowIsWholeAnswer
PROPERTY RequestEnds
\* The request is over.
CHECK_DEADLOCK FALSE
