SPECIFICATION AnySpec
CONSTANTS
  Levels <- SmallLevels
  Opening = 2
  Gaps = {1, 3}
  Eve = 3
  MaxObservations = 5
  TopN = 1
  MinimumDepth <- AQuarter
  Currencies = {"USD", "EUR"}
  Base = "EUR"
  MaxStateless = 3
  MaxPoints = 11
  PageSize = 2
  MaxPages = 3
  MaxRows = 6
  MaxFaults = 1
  Foreign = "foreign"
  Whole = 2
  Full = 4
  MaxBuckets = 3
  MaxPositions = 7
  MaxJobRows = 3
  MaxPortfolios = 3
  Unknown = "UNKNOWN"
  Unclassified = "Unclassified"
  None = none
INVARIANTS
  LineageIsWhole
