\* Every kind of request; --timeout is given to one; two processes below make.
SPECIFICATION Spec
CONSTANTS
  cc = cc
  sim = sim
  Members = {cc, sim}
  Null = Null
  Wrong = Wrong
  DesignZero = DesignZero
  Unreadable = Unreadable
  TestFields = {"max_cycles"}
  Manifest <- MCManifest
  Designs <- MCDesigns
  Requests <- MCRequests
INVARIANTS
  TypeOK
  KilledMeansTimeout
  PassMeansAllSimulated
  NeverSimulatesStaleSoftware
PROPERTY
  TimedRunEnds
\* the regression is over
CHECK_DEADLOCK FALSE
