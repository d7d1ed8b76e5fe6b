SPECIFICATION CalendarSpec
CONSTANTS
  Spans <- MCSpans
  Birthday <- MCBirthday
  BirthYears = {2008, 2010, 2082}
  Zone <- MCZone
  Slots = 2
  DigestSlot = 1
  AllowedOffsets <- MCOffsets
  Offsets = {60, 1, 0}
  MinAge = 18
  MaxMissed = 1
  MaxEdits = 2
INVARIANTS
  EveryViewShowsTheDay
  RemindedInTime
PROPERTIES
  CountsDown
CHECK_DEADLOCK FALSE
