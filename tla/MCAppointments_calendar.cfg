\* Two customers and two requests at once over a weekend; two business days are searched.
SPECIFICATION FairSpec
CONSTANTS
  None = None
  Inquiries = {i1, i2}
  Calls = {c1, c2}
  FIRST_SLOT = 10
  LAST_SLOT = 11
  SearchDays = 2
  Preferences <- SomePreferences
  StartDay = 4
  Horizon = 5
INVARIANTS
  AppointmentsTypeOK
  NoDoubleBooking
  SlotsAreSensible
  BookingEndsOutage
PROPERTIES
  ReportsStay
  EveryCallEnds
CHECK_DEADLOCK FALSE
