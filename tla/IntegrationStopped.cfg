\* A single integrator that may be interrupted.
SPECIFICATION Spec
CONSTANTS
  a = a
  b = b
  c = c
  Integrators = {a}
  SlotOf <- MCSlotOf
  Absent = Absent
  SERIAL = TRUE
  FAULTS = {"stop"}
PROPERTY
  FailureLeavesUnchanged
\* every integration may have ended
CHECK_DEADLOCK FALSE
