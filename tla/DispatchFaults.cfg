SPECIFICATION Spec
CONSTANTS
  n1 = n1
  n2 = n2
  w1 = w1
  w2 = w2
  c1 = c1
  None = None
  Notification <- MCOne
  ChannelOf <- MCOneChannelOf
  Worker = {w1, w2}
  Client = {c1}
  Providers <- Sms
  MaxRetries = 1
  MaxRequests = 1
  MaxCrashes = 1
  MaxErrors = 1
SYMMETRY MCWorkers
INVARIANTS
  TypeOK
  DeliveriesPermitted
  KnownId
  SentWasDelivered
  DeliveryRecorded
  RetryBudget
  CopiesInBudget
  NothingForgotten
  PlaceAgreesWithStatus
