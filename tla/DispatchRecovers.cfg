SPECIFICATION FairSpec
CONSTANTS
  n1 = n1
  n2 = n2
  w1 = w1
  w2 = w2
  c1 = c1
  None = None
  Notification <- MCNotification
  ChannelOf <- MCChannelOf
  Worker = {w1}
  Client = {c1}
  Providers <- Sms
  MaxRetries = 1
  MaxRequests = 1
  MaxCrashes = 1
  MaxErrors = 0

  
PROPERTIES
  Lifecycle
  DeliveryPromise
  EventuallySettled
  
