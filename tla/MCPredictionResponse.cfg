\* Every frame of up to three columns and four cells, and every other request.
SPECIFICATION EndpointsSpec
CONSTANTS
    Names <- MCNames
    NumberNames <- MCNumberNames
    Labels <- MCLabels
    Targets <- MCTargets
    MaxValue = 1
    Text = Text
    Documents = Documents
    MaxColumns = 3
    MaxRows = 2
    MaxCells = 4
INVARIANTS
    CellsAreKept
    ClassesAreTheModels
    ExtraDecidesNothing
    RowsAreChecked
    TextSurvives
    FaultsAreAttributed
\* One request, one answer.
CHECK_DEADLOCK FALSE
