\* Two connectors poll at the same time.
SPECIFICATION Spec
CONSTANTS
    Tasks = {t1}
    Connectors = {c1, c2}
    MaxRetries = 1
    Outcomes = {"completed"}
    Interruptions = {}
    MaxCrashes = 0
    NoTask = NoTask
PROPERTIES HandsOutPending
CHECK_DEADLOCK FALSE
