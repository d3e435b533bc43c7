\* Two sessions compete for one slot: both advance and every slot comes back; a crash in any state.
SPECIFICATION FairSpec
CONSTANTS
    Sessions = {s1, s2}
    Calls = {c1, c2, c3}
    Workers = {w1}
    Kinds = {"start", "approve"}
    Slots = 1
    MaxLoops = 1
    ErrorRetries = 1
    MaxCrashes = 1
    NoSession = NoSession
    NoWorker = NoWorker
VIEW Relevant
INVARIANTS SlotAccounting
PROPERTIES SessionsAdvance
CHECK_DEADLOCK FALSE
