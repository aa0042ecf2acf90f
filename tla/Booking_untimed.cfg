CONSTANTS
  Sweeps = {sweep}
  Upkeep = {}
  Modules = {booking}
  BookingKind = booking
  Delay = 1
  Early = 0
  MaxClock = 2
  Never = 9
  Reservation = {a}
  Slot = {s}
  MaxCapacity = 1
  Ttl = 1
  Disables = FALSE
SPECIFICATION LiveSpec
PROPERTY HoldsExpire
CHECK_DEADLOCK FALSE
