\* A level and an edge triggered source; software that nests claims and software that
\* does not; the APB is accessed at most every third clock.
SPECIFICATION Spec
CONSTANTS
  PLIC_IRQ_NUM = 4
  Sources = {1, 2}
  EDGE = {1}
  Priorities <- MCPriorities
  THOLD = 1
  TNM = 2
  GAP = 3
  NESTED = {TRUE, FALSE}
INVARIANTS
  TypeOK
  EveryInterruptHasAnEdge
  TreePicksHighest
  HeldIsClosed
PROPERTIES
  ClaimIsPending
  CompletionReopens
  PendingRaisesInterrupt
