SPECIFICATION FewCallsSpec
CONSTANTS
  free = free
  paid = paid
  wish = wish
  reminder = reminder
  FreeGift = {free}
  PaidGift = {paid}
  Wish = {wish}
  Reminder = {reminder}
  Due <- MCDue
  MaxDay = 1
  Worker = {w1, w2}
  MaxCalls = 4
  MaxFaults = 1
  MaxRepeats = 1
INVARIANTS
  DeliveredWhenDueAndPaid
  AnnouncedOnce
  GrantedOnce
PROPERTIES
  DueIsDelivered
CHECK_DEADLOCK FALSE
