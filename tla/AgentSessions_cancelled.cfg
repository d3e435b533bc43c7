\* A runner that sees the cancellation leaves the session cancelled.
SPECIFICATION Spec
CONSTANTS
    Sessions = {s1}
    Calls = {c1, c2}
    Workers = {w1}
    Kinds = {"start", "cancel"}
    Slots = 1
    MaxLoops = 2
    ErrorRetries = 2
    MaxCrashes = 0
    NoSession = NoSession
    NoWorker = NoWorker
VIEW Relevant
SYMMETRY Symmetric
PROPERTIES CancelIsHonoured
CHECK_DEADLOCK FALSE
