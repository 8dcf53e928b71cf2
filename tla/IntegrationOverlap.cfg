\* Two overlapping integrations that ask for the same slot, and every failure.
SPECIFICATION Spec
CONSTANTS
  a = a
  b = b
  c = c
  Integrators = {b, c}
  SlotOf <- MCSlotOf
  Absent = Absent
  SERIAL = FALSE
  FAULTS = {"copy", "replace", "restore", "unlink", "stop"}
SYMMETRY MCSameSlot
INVARIANT
  RegistryStaysUsable
\* every integration may have ended
CHECK_DEADLOCK FALSE
