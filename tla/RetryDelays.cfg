SPECIFICATION Spec
CONSTANTS
  Event = {"PAYMENT_OTP_REQUESTED", "PAYMENT_FAILED"}
  Unit = 5
  MaxQueued = 2
INVARIANTS
  TypeOK
  LevelsOrdered
PROPERTIES
  WaitedOut
  NotHeldUp
