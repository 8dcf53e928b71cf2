\* Two overlapping integrations in which nothing fails.
SPECIFICATION Spec
CONSTANTS
  a = a
  b = b
  c = c
  Integrators = {a, b}
  SlotOf <- MCSlotOf
  Absent = Absent
  SERIAL = FALSE
  FAULTS = {}
INVARIANT
  PassMeansIntegrated
\* every integration may have ended
CHECK_DEADLOCK FALSE
