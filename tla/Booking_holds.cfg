CONSTANTS
  Sweeps = {sweep}
  Upkeep = {}
  Modules = {booking}
  BookingKind = booking
  Delay = 1
  Early = 1
  MaxClock = 3
  Never = 9
  Reservation = {a, b}
  Slot = {s}
  MaxCapacity = 1
  Ttl = 2
  Disables = TRUE
SPECIFICATION LiveSpec
INVARIANT TypeOK
INVARIANT AlarmCovers
PROPERTY NeverOverfilled
PROPERTY ExpiresOnlyStale
PROPERTY TimedHoldsExpire
CHECK_DEADLOCK FALSE
