\* Two uploads: one of 9, one of 10, whose wheel has the lesser name.
SPECIFICATION Spec
CONSTANTS
    First = 9
    Last = 10
    Endpoints = {e1}
    MaxUploads = 2
    MaxEntries = 2
    None = None
CONSTRAINT UploadsBeforeReleases
INVARIANT UploadIsLabelled
CHECK_DEADLOCK FALSE
