SPECIFICATION Spec
CONSTANTS
  b1 = b1
  b2 = b2
  b3 = b3
  a1 = a1
  p1 = p1
  Bookings = {b1, b2, b3}
  Apartments = {a1}
  ApartmentOf <- MCApartmentOf
  Snapshots <- MCSnapshots
  Partitions = {p1}
  Window = 1
  OutOfOrderness = 0
  AllowedLateness = 1
  Skews = {0, 2}
  MaxTime = 2
  MaxRecords = 3
  MaxFailures = 1
SYMMETRY MCSymmetry
CHECK_DEADLOCK FALSE
INVARIANTS
  TypeOK
  ClosedMeansStored
PROPERTIES
  RowsOnlyGrow
