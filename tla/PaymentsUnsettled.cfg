SPECIFICATION FairSpec
CONSTANTS
  client = client
  provider = provider
  Users <- MCUsers
  Requester <- MCRequester
  JobOwner <- MCJobOwner
  NoTarget = NoTarget
  ScheduleIds = {s1}
  BudgetIds = {b1}
  TypeOf <- AllOneTime
  Lifecycle <- RefundedLifecycle
  CardOutcomes <- FastCard
  PixOutcomes <- PendingPix
  MaxCharges = 1
  MaxPayments = 1
  OpenVisits = {s1}
  Handlers = {h1}
  CrashPoints = {"settle"}
PROPERTY ApprovedSettles
