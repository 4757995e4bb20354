SPECIFICATION Spec
CONSTANTS
  client = client
  provider = provider
  Users <- MCUsers
  Requester <- MCRequester
  JobOwner <- MCJobOwner
  NoTarget = NoTarget
  ScheduleIds = {s1}
  BudgetIds = {b1}
  TypeOf <- AllRecurring
  Lifecycle <- DisputedLifecycle
  CardOutcomes <- SlowCard
  PixOutcomes <- AnyPix
  MaxCharges = 2
  MaxPayments = 2
  OpenVisits = {s1}
  Handlers = {h1}
  CrashPoints = {"checkPaid", "findPix", "postPix", "postCard", "insert", "getStatus", "update", "settle"}
INVARIANT TypeOK
INVARIANT OneReusablePix
PROPERTY TerminalIsFinal
PROPERTY NoChargeOnceSettled
