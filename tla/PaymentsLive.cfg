SPECIFICATION FairSpec
CONSTANTS
  client = client
  provider = provider
  Users <- MCUsers
  Requester <- MCRequester
  JobOwner <- MCJobOwner
  NoTarget = NoTarget
  ScheduleIds = {s1}
  BudgetIds = {b1}
  TypeOf <- AllOneTime
  Lifecycle <- RefundedLifecycle
  CardOutcomes <- SlowCard
  PixOutcomes <- ApprovedPix
  MaxCharges = 1
  MaxPayments = 1
  OpenVisits = {}
  Handlers = {h1, h2}
  CrashPoints = {"checkPaid", "findPix", "postPix", "postCard", "insert", "getStatus", "update"}
PROPERTY ApprovedSettles
PROPERTY RefundReachesRow
