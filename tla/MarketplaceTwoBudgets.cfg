SPECIFICATION MarketSpec
CONSTANTS
  client = client
  provider = provider
  job = job
  Users <- MCUsers
  Requester <- MCRequester
  JobOwner <- MCJobOwner
  JobIds <- MCJobIds
  JobOf <- MCJobOf
  TypeOf <- AllOneTime
  NoTarget = NoTarget
  ScheduleIds = {s1}
  BudgetIds = {1, 2}
  Lifecycle <- PaidLifecycle
  CardOutcomes <- FastCard
  PixOutcomes <- PendingPix
  MaxCharges = 2
  MaxPayments = 2
  OpenVisits = {}
  Handlers = {h1}
  BudgetRequests = {r1, r2}
  VisitRequests = {v1}
  CrashPoints = {}
CHECK_DEADLOCK FALSE
INVARIANT OneActiveBudget
