\* One request after the other, within one period: each event is delivered once.
SPECIFICATION BillingSpec
CONSTANTS
  Handlers = {"h1"}
  Subscriptions = {1}
  FreeTokens = 1
  PlusTokens = 2
  UsageCosts = {1}
  PackTokens = 1
  OverageLimit = 0
  MaxPeriod = 1
  MaxDeliveries = 2
  MaxRecords = 1
  MaxChanges = 2
PROPERTIES ResetOnPeriodChange
CHECK_DEADLOCK FALSE
