\* One integration at a time, whose copying and replacing may fail, next to a
\* registry-check and an export of the user kit.
SPECIFICATION CheckoutSpec
CONSTANTS
  a = a
  b = b
  c = c
  Integrators = {a, b, c}
  SlotOf <- MCSlotOf
  Absent = Absent
  SERIAL = TRUE
  FAULTS = {"copy", "replace"}
SYMMETRY MCSameSlot
INVARIANTS
  TypeOK
  PassMeansIntegrated
  CheckPassMeansAgreed
  ExportedIsBlank
  ExportedIsClean
PROPERTY
  KeepsIntegrationPromise
\* every integration may have ended
CHECK_DEADLOCK FALSE
