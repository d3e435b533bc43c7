\* Three requests of any kind about one session, two workers, one crash.
SPECIFICATION Spec
CONSTANTS
    Sessions = {s1}
    Calls = {c1, c2, c3}
    Workers = {w1, w2}
    Kinds = {"start", "cancel", "approve", "reject", "stop", "sweep"}
    Slots = 1
    MaxLoops = 2
    ErrorRetries = 2
    MaxCrashes = 1
    NoSession = NoSession
    NoWorker = NoWorker
VIEW Relevant
SYMMETRY Symmetric
INVARIANTS TypeOK RunningHasRunner QueuedHasRunner StartRunsAlone
PROPERTIES SettledStays
CHECK_DEADLOCK FALSE
