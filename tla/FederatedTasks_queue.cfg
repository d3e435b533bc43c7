\* Two overlapping polls of one task, or one poller of two tasks, and everything
\* else that writes the two tables.
SPECIFICATION ScopedSpec
CONSTANTS
    Tasks = {t1, t2}
    Connectors = {c1, c2}
    OneConnector = c1
    OneTask = t1
    MaxRetries = 1
    Outcomes = {"completed", "failed"}
    Interruptions = {"cancel", "stop", "restart"}
    MaxCrashes = 1
    NoTask = NoTask
INVARIANTS RetryLimit QueuedHasTask
PROPERTIES QueuedAdvances
VIEW Relevant
CHECK_DEADLOCK FALSE
