\* Two workers poll two schedules and a trigger with a bad expression.  Two daemons
\* have more tasks than a batch, and more in a batch than may execute at once.  An
\* agent asks for more loops than the global cap allows, and its steps have every
\* result.  A stream is open while its session takes up to two steps,
\* and two decisions about it may overlap.
SPECIFICATION DispatchSpec
CONSTANTS
    Schedules = {s1, s2}
    Triggers = {g1}
    Workers = {w1, w2}
    BadCron = {g1}
    MaxTicks = 1
    MaxFires = 1
    MaxPollFailures = 1
    NoRow = NoRow
    Tasks = {t1, t2, t3}
    Daemons = {d1, d2}
    BatchSize = 2
    MaxConcurrent = 1
    MaxFailures = 1
    NoDaemon = NoDaemon
    MaxLoops = 12
    MaxIterations = 6
    MaxErrors = 3
    MaxSimilar = 3
    StagnationWindow = 3
    OscillationWindow = 4
    CheckpointEvery = 2
    HashWindow = 4
    ErrorRetries = 3
    StepKinds = {"finalize", "search", "think", "answer", "error", "respond", "gated"}
    StartCounts = {0, 2, 9}
    MaxSteps = 2
    MaxRunners = 2
    MaxDecisions = 2
    FatalErrorsFrom = 2
    MaxIdle = 2
INVARIANTS RunsBacked RunBounded NoLoopVerdict CompletedIsWhole
PROPERTIES DueIsRun ClaimedOnce TasksSettle RollbackForgets StreamEnds
VIEW Relevant
CHECK_DEADLOCK FALSE
