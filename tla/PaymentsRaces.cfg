SPECIFICATION Spec
CONSTANTS
  client = client
  provider = provider
  Users <- MCUsers
  Requester <- MCRequester
  JobOwner <- MCJobOwner
  NoTarget = NoTarget
  ScheduleIds = {s1}
  BudgetIds = {b1}
  TypeOf <- AllOneTime
  Lifecycle <- RefundedLifecycle
  CardOutcomes <- HeldCard
  PixOutcomes <- RejectedPix
  MaxCharges = 2
  MaxPayments = 2
  OpenVisits = {}
  Handlers = {h1, h2}
  CrashPoints = {"checkPaid", "findPix", "postPix", "postCard", "getStatus", "update"}
SYMMETRY RequestSymmetry
INVARIANT NoInventedStatus
INVARIANT SettledOnlyIfApproved
INVARIANT OneRowPerCharge
INVARIANT ChargeIsTracked
INVARIANT PaidRowsSettled
PROPERTY KeepsPromise
