SPECIFICATION Spec
CONSTANTS
  a1 = a1
  a2 = a2
  None = None
  Pool <- MCPool
  Specs <- MCSpecs
  Profiles = {"electricity", "maintenance"}
  MinProfiles = 2
  CommissionTerms = {"10%", "20%"}
  DefaultRate = "15%"
  Margins = {5, 6}
  DefaultMargin = 5
  OldMargin = 6
  SeedMonths = 1
  OldBills <- MCOldBills
  Operators = {}
  MaxEvents = 1
  MaxKills = 1
CHECK_DEADLOCK FALSE
INVARIANTS
  OneContractPerApartment
