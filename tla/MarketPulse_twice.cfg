SPECIFICATION Spec
CONSTANTS
  b1 = b1
  b2 = b2
  b3 = b3
  a1 = a1
  p1 = p1
  Bookings = {b1, b2}
  Apartments = {a1}
  ApartmentOf <- MCApartmentOf
  Snapshots = {}
  Partitions = {p1}
  Window = 2
  OutOfOrderness = 0
  AllowedLateness = 1
  Skews = {0}
  MaxTime = 5
  MaxRecords = 3
  MaxFailures = 0
CHECK_DEADLOCK FALSE
INVARIANTS
  CreatedOnce
