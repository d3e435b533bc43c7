\* Three callers and two trials; three messages in two copies each; two task graphs on two slots;
\* two connections;
\* two tasks on one place.
SPECIFICATION LibrariesSpec
CONSTANTS
  c1 = c1
  c2 = c2
  c3 = c3
  g1 = g1
  g2 = g2
  n1 = n1
  n2 = n2
  n3 = n3
  n4 = n4
  n5 = n5
  n6 = n6
  w1 = w1
  w2 = w2
  u1 = u1
  h1 = h1
  Callers = {c1, c2, c3}
  FailureThreshold = 2
  SuccessThreshold = 2
  HalfOpenMaxCalls = 2
  LastSequence = 2
  Copies = 2
  BufferSize = 2
  Graphs = {g1, g2}
  Nodes = {n1, n2, n3, n4, n5, n6}
  GraphOf <- TwoGraphs
  DependsOn <- Chains
  MaxConcurrent = 2
  Sockets = {w1, w2}
  Users = {u1}
  Channels = {h1}
  MaxConnections = 2
  MaxClosers = 1
  Nothing = Nothing
  LastTask = 2
  PriorityOf <- Urgency
  UserOf <- Owners
  MaxRunning = 1
  MaxQueue = 1
  MaxTries = 2
  UserQuota = 1
  MaxStarts = 2
INVARIANTS NoGhosts TrialsBounded DeliveredInOrder DependenciesRespected
PROPERTIES Recovers GraphReturns StaleRemoved ScheduledSettles
CHECK_DEADLOCK FALSE
