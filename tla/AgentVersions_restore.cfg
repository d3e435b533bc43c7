\* Edits of one agent, one after the other.
SPECIFICATION VersionsSpec
CONSTANTS
    Values = {0, 1}
    Requests = {1}
    MaxEdits = 2
PROPERTIES RestoreCanBeUndone
CHECK_DEADLOCK FALSE
