------------------------- MODULE IntegrationPromise -------------------------
(***************************************************************************)
(* What docs/en/maintainer-release.md, "Import a User Design", promises of  *)
(* `make integrate-design`: an integration either replaces all three        *)
(* permanent files by a version that adds its design to the registry, or    *)
(* leaves all three unchanged.                                              *)
(***************************************************************************)
CONSTANTS
  Integrators,   \* one attempted integration of one design each
  Files,         \* the permanent registry, rtl and filelist
  Registry,      \* the first of them
  Absent         \* a generated file that does not exist yet

VARIABLES
  permanent,     \* the designs each file registers
  outcome        \* what each integrator was told: "none", "pass" or "failed"

integration == <<permanent, outcome>>

Init ==
  /\ permanent \in [Files -> {{}, Absent}]
  /\ permanent[Registry] = {}
  /\ outcome = [p \in Integrators |-> "none"]

Pass(p) ==
  /\ outcome[p] # "pass"
  /\ outcome' = [outcome EXCEPT ![p] = "pass"]
  /\ permanent' = [f \in Files |-> permanent[Registry] \union {p}]

Fail(p) ==
  /\ outcome[p] # "pass"
  /\ outcome' = [outcome EXCEPT ![p] = "failed"]
  /\ UNCHANGED permanent

\* A failed integration may be started again.
Retry(p) ==
  /\ outcome[p] = "failed"
  /\ outcome' = [outcome EXCEPT ![p] = "none"]
  /\ UNCHANGED permanent

Next == \E p \in Integrators : Pass(p) \/ Fail(p) \/ Retry(p)

Spec == Init /\ [][Next]_integration
=============================================================================
