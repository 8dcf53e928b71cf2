\* The selector contract is not kept and reset may last a single edge.
SPECIFICATION Spec
CONSTANTS
  DESIGN_COUNT = 3
  ID_LIMIT = 4
  PRESENT <- MCPresent
  RESET_RELEASE_CYCLES = 2
  RELEASE_COUNT_MAX = 3
  MIN_RESET_EDGES = 1
  MIN_STABLE_EDGES = 0
  NoDesign = NoDesign
INVARIANTS
  DriverWasReset
PROPERTIES
  EdgesReachSelected
  NoShortPulse
  BreakBeforeMake
