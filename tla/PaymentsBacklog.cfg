SPECIFICATION LiveSpec
CONSTANTS
  Payment = {p1, p2}
  NoPayment = NoPayment
  Handler = {h1}
  Cron = cron
  MaxPrompts = 1
  MaxEvents = 1
  MaxFaults = 0
  SweepLimit = 1
PROPERTY MissedCallbackIsSettled
CHECK_DEADLOCK FALSE
