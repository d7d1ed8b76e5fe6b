SPECIFICATION NotedReservations
CONSTANTS
  p1 = p1
  p2 = p2
  o1 = o1
  Person = {p1, p2}
  GiftOrder = {o1}
  Buyer <- MCBuyer
  Wanted <- MCWanted
  MaxQuantity = 3
  MaxClaims = 2
  Request = {h1, h2}
  NoOrder = NoOrder
SYMMETRY RequestSymmetry
INVARIANTS
  NoDuplicateGifts
  CountsClaims
CHECK_DEADLOCK FALSE
