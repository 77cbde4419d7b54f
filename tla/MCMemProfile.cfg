\* Three levels: one before, one during and one after the death of the container; the
\* second run meets what the first has left.
SPECIFICATION Spec
CONSTANTS
    Levels = 3
    MaxRuns = 2
INVARIANTS
    SweepIsOfOneLife
    LeavesNothingBehind
\* The last run has ended.
CHECK_DEADLOCK FALSE
