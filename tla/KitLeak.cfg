\* One integration in which nothing fails, next to an export of the user kit.
SPECIFICATION CheckoutSpec
CONSTANTS
  a = a
  b = b
  c = c
  Integrators = {a}
  SlotOf <- MCSlotOf
  Absent = Absent
  SERIAL = TRUE
  FAULTS = {}
INVARIANT
  ExportedHasNoUserRtl
\* every integration may have ended
CHECK_DEADLOCK FALSE
