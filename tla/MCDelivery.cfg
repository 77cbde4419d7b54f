\* Two releases after the first, by the developer or by others, and two uploads.
SPECIFICATION Spec
CONSTANTS
    First = 9
    Last = 11
    Endpoints = {e1, e2}
    MaxUploads = 2
    MaxEntries = 2
    None = None
CONSTRAINTS
    UploadsBeforeReleases
    OneFault
ACTION_CONSTRAINT WorkedOnInQuiet
INVARIANTS
    
    TaggedIsPublished
    PersonalStaysPersonal
\* Every version is released, every upload used up.
CHECK_DEADLOCK FALSE
