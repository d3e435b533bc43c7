\* Two agents with wallets, gates and contracts, over three days; one organisation
\* with two requests at a time, two billing periods and every event up to twice;
\* two sends and a drain of a connection that is registered twice.
SPECIFICATION EconomySpec
CONSTANTS
  a1 = a1
  a2 = a2
  p1 = p1
  p2 = p2
  q1 = q1
  Agents = {a1, a2}
  MaxDay = 2
  MonthLength = 2
  Amounts = {1, 2}
  Credits <- SomeCredits
  Initial <- Openings
  TransactionLimit = 1
  DailyBudget = 1
  MonthlyBudget = 1
  ApprovedRecipients <- Nobody
  BlockedRecipients <- Themselves
  MaxTransactions = 2
  Costs <- GateCosts
  GateBudget = 1
  PaymentLimit = 0
  ApprovalThreshold = 1
  MaxEvaluations = 3
  Prices = {1, 2}
  ContractLimit = 1
  Contestants <- Everybody
  MaxAuctions = 1
  MaxBids = 2
  MaxContracts = 2
  MaxApprovals = 1
  Handlers = {"h1", "h2"}
  Subscriptions = {1}
  FreeTokens = 1
  PlusTokens = 2
  UsageCosts <- SomeUsage
  PackTokens = 1
  OverageLimit = 1
  MaxPeriod = 2
  MaxDeliveries = 2
  MaxRecords = 2
  MaxChanges = 2
  Senders = {p1, p2}
  Drainers = {q1}
  HighWater = 2
  LowWater = 1
  QueueSize = 1
  DrainBatch = 2
  LastConnection = 2
  MaxCancelled = 2
SYMMETRY AgentSymmetry
INVARIANTS CountersAgree LedgerBalanced JudgedByTheDay BindingIsApproved
INVARIANTS NeverOvercharged PauseIsBacked
CHECK_DEADLOCK FALSE
