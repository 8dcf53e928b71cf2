\* The external contract of the chip: two reset edges, two stable selector edges.
SPECIFICATION Spec
CONSTANTS
  DESIGN_COUNT = 3
  ID_LIMIT = 4
  PRESENT <- MCPresent
  RESET_RELEASE_CYCLES = 2
  RELEASE_COUNT_MAX = 3
  MIN_RESET_EDGES = 2
  MIN_STABLE_EDGES = 2
  NoDesign = NoDesign
INVARIANTS
  TypeOK
  SelectionIsRequested
PROPERTIES
  KeepsSelectionPromise
  RegisteredDesignStarts
