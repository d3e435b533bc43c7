\* One agent of the database and one that comes later, a second start of the daemon, and no freeze.
SPECIFICATION DaemonSpec
CONSTANTS
  Loaded = {"a1"}
  Newcomers = {"n1"}
  MaxStarts = 2
  MaxFreezes = 0
PROPERTIES LoadedAgentsAct
CHECK_DEADLOCK FALSE
