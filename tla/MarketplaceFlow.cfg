SPECIFICATION MarketSpec
CONSTANTS
  client = client
  provider = provider
  job = job
  Users <- MCUsers
  Requester <- MCRequester
  JobOwner <- MCJobOwner
  JobIds <- MCJobIds
  JobOf <- MCJobOf
  TypeOf <- AllOneTime
  NoTarget = NoTarget
  ScheduleIds = {s1}
  BudgetIds = {1, 2}
  Lifecycle <- PaidLifecycle
  CardOutcomes <- FastCard
  PixOutcomes <- RejectedPix
  MaxCharges = 2
  MaxPayments = 2
  OpenVisits = {}
  Handlers = {h1}
  BudgetRequests = {r1}
  VisitRequests = {v1}
  CrashPoints = {"settle"}
CHECK_DEADLOCK FALSE
INVARIANT MarketTypeOK
INVARIANT VisitFeeFirst
INVARIANT NoOrphans
INVARIANT ChargedOnlyIfAnswered
INVARIANT NoInventedStatus
INVARIANT SettledOnlyIfApproved
INVARIANT ChargeIsTracked
INVARIANT OneActiveBudget
INVARIANT ShownIsActive
PROPERTY AnswerStands
PROPERTY KeepsDeal
