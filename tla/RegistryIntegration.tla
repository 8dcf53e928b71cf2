------------------------- MODULE RegistryIntegration ------------------------
(***************************************************************************)
(* `make integrate-design` (mk/dev.mk): an integrator stages a registry     *)
(* with its design added, tests it, and calls commit_registry               *)
(* (scripts/design_registry.py) to replace the three permanent files, with  *)
(* the failures commit_registry handles and those it does not.  Integrators *)
(* are processes that share one checkout.                                   *)
(*                                                                          *)
(* A version of a file is the set of designs it registers: the rtl and the  *)
(* filelist are rendered from the registry, so two files agree if and only  *)
(* if they register the same set.  The copies and backups commit_registry   *)
(* makes carry its process id in their names and are private to it.         *)
(***************************************************************************)
EXTENDS Naturals

CONSTANTS
  Integrators,   \* each integrates one design of its own
  SlotOf,        \* the DESIGN_ID each integrator asks for
  Absent,        \* "the file does not exist"
  SERIAL,        \* whether the maintainers keep integrations from overlapping
  FAULTS         \* what may go wrong: an OSError in a "copy", "replace", "restore" or
                 \* "unlink", or a "stop" (an interrupt, or the process is killed)

Registry == 1
Rtl == 2
Filelist == 3
Files == Registry .. Filelist      \* in the order of commit_registry's tuples

ASSUME IntegrationAssumption ==
  /\ \A version \in SUBSET Integrators : version # Absent
  /\ SERIAL \in BOOLEAN
  /\ FAULTS \subseteq {"copy", "replace", "restore", "unlink", "stop"}

VARIABLES
  file,        \* the permanent files
  pc,          \* where each integrator is
  staged,      \* the version its three staged files hold
  step,        \* files done in the copying, restoring or removing loop
  backup,      \* its backups; Absent where it made none
  replaced,    \* files done in the replacing loop
  base         \* history: the permanent files when it staged

vars == <<file, pc, staged, step, backup, replaced, base>>

Versions == {Absent} \union SUBSET Integrators
NoBackup == [f \in Files |-> Absent]
Ended == {"idle", "pass", "rejected", "broken"}
Active == {"testing", "copying", "replacing", "restoring", "removing", "undone", "tidying"}

locals == <<staged, step, backup, replaced, base>>

Init ==
  /\ file \in [Files -> {{}, Absent}] /\ file[Registry] = {}
  /\ pc = [p \in Integrators |-> "idle"]
  /\ staged = [p \in Integrators |-> {}]
  /\ step = [p \in Integrators |-> 0]
  /\ replaced = [p \in Integrators |-> 0]
  /\ backup = [p \in Integrators |-> NoBackup]
  /\ base = [p \in Integrators |-> NoBackup]

GoTo(p, place) == pc' = [pc EXCEPT ![p] = place]

\* The command ends, and what its process held is gone.
End(p, verdict) ==
  /\ GoTo(p, verdict)
  /\ staged' = [staged EXCEPT ![p] = {}]
  /\ step' = [step EXCEPT ![p] = 0]
  /\ backup' = [backup EXCEPT ![p] = NoBackup]
  /\ replaced' = [replaced EXCEPT ![p] = 0]
  /\ base' = [base EXCEPT ![p] = NoBackup]
  /\ UNCHANGED file

-----------------------------------------------------------------------------
(* Staging, under build/ and beside the registry: the permanent registry is   *)
(* read once and nothing permanent is touched.                                *)

MayStart(p) ==
  /\ pc[p] \in Ended \ {"pass"}
  /\ SERIAL => \A q \in Integrators : pc[q] \in Ended

\* (a variant with a bug, for the mutation checks: the slot is not compared)
ConflictsByName(version, p) == p \in version

\* integrate_design refuses a design that is registered and a slot that is taken
Conflicts(version, p) == \E q \in version : q = p \/ SlotOf[q] = SlotOf[p]

Stage(p) ==
  /\ MayStart(p)
  /\ file[Registry] # Absent /\ ~Conflicts(file[Registry], p)
  /\ staged' = [staged EXCEPT ![p] = file[Registry] \union {p}]
  /\ base' = [base EXCEPT ![p] = file]
  /\ GoTo(p, "testing")
  /\ UNCHANGED <<file, step, backup, replaced>>

Refuse(p) ==
  /\ MayStart(p)
  /\ file[Registry] = Absent \/ Conflicts(file[Registry], p)
  /\ GoTo(p, "rejected")
  /\ UNCHANGED <<file, locals>>

\* the generated files are checked and the design's Frame test runs on them
FrameTest(p) ==
  /\ pc[p] = "testing"
  /\ \/ GoTo(p, "copying") /\ UNCHANGED <<file, locals>>
     \/ End(p, "rejected")

-----------------------------------------------------------------------------
(* commit_registry. *)

\* Variants of Turn with a bug, for the mutation checks: the file counter is not
\* reset after the last file, or the last file is forgotten.
TurnKeepsCounting(p, here, next) ==
  /\ pc[p] = here
  /\ step' = [step EXCEPT ![p] = @ + 1]
  /\ GoTo(p, IF step[p] + 1 = Filelist THEN next ELSE here)
TurnSkipsFilelist(p, here, next) ==
  /\ pc[p] = here
  /\ step' = [step EXCEPT ![p] = IF @ + 1 = Rtl THEN 0 ELSE @ + 1]
  /\ GoTo(p, IF step[p] + 1 = Rtl THEN next ELSE here)

\* One turn of a loop over the three files; after the last it goes on to `next`.
Turn(p, here, next) ==
  /\ pc[p] = here
  /\ step' = [step EXCEPT ![p] = IF @ + 1 = Filelist THEN 0 ELSE @ + 1]
  /\ GoTo(p, IF step[p] + 1 = Filelist THEN next ELSE here)

\* copy the staged file next to its target, and back the target up if it exists
Copy(p) ==
  /\ Turn(p, "copying", "replacing")
  /\ backup' = [backup EXCEPT ![p][step[p] + 1] = file[step[p] + 1]]
  /\ UNCHANGED <<file, staged, replaced, base>>

\* rename the copies over their targets, the registry first
Replace(p) ==
  /\ Turn(p, "replacing", "tidying")
  /\ file' = [file EXCEPT ![step[p] + 1] = staged[p]]
  /\ replaced' = [replaced EXCEPT ![p] = step[p] + 1]
  /\ UNCHANGED <<staged, backup, base>>

\* an OSError in either loop enters the handler
Fails(p) ==
  /\ \/ pc[p] = "copying" /\ "copy" \in FAULTS
     \/ pc[p] = "replacing" /\ "replace" \in FAULTS
  /\ step' = [step EXCEPT ![p] = 0]
  /\ GoTo(p, "restoring")
  /\ UNCHANGED <<file, staged, backup, replaced, base>>

\* rename every backup over its target, whether that was replaced or not
Restore(p) ==
  /\ Turn(p, "restoring", "removing")
  /\ file' = [file EXCEPT ![step[p] + 1] =
                IF backup[p][step[p] + 1] # Absent THEN backup[p][step[p] + 1] ELSE @]
  /\ UNCHANGED <<staged, backup, replaced, base>>

\* (a variant with a bug, for the mutation checks: what was created stays)
RemoveNothing(p) ==
  /\ Turn(p, "removing", "undone")
  /\ UNCHANGED <<file, staged, backup, replaced, base>>

\* delete what was created
Remove(p) ==
  /\ Turn(p, "removing", "undone")
  /\ file' = [file EXCEPT ![step[p] + 1] =
                IF backup[p][step[p] + 1] = Absent /\ step[p] + 1 <= replaced[p]
                  THEN Absent ELSE @]
  /\ UNCHANGED <<staged, backup, replaced, base>>

\* the finally block deletes the copies and backups, and the command reports
Report(p) ==
  \/ pc[p] = "tidying" /\ End(p, "pass")
  \/ pc[p] = "undone" /\ End(p, "rejected")

\* An exception nobody catches: an OSError in the handler or in the finally block,
\* an interrupt anywhere.  Nothing reads the backups after it.
Escape(p) ==
  /\ \/ "stop" \in FAULTS /\ pc[p] \in Active
     \/ "restore" \in FAULTS /\ pc[p] = "restoring"
     \/ "unlink" \in FAULTS /\ \/ pc[p] \in {"removing", "undone", "tidying"}
                               \/ pc[p] = "restoring" /\ step[p] = 0
  /\ End(p, "broken")

Act(p) ==
  \/ Stage(p) \/ Refuse(p) \/ FrameTest(p)
  \/ Copy(p) \/ Replace(p) \/ Fails(p) \/ Restore(p) \/ Remove(p)
  \/ Report(p) \/ Escape(p)

Next == \E p \in Integrators : Act(p)

Spec == Init /\ [][Next]_vars

-----------------------------------------------------------------------------
(* Properties. *)

TypeOK ==
  /\ file \in [Files -> Versions]
  /\ pc \in [Integrators -> Ended \union Active]
  /\ staged \in [Integrators -> SUBSET Integrators]
  /\ step \in [Integrators -> 0 .. 2]
  /\ backup \in [Integrators -> [Files -> Versions]]
  /\ replaced \in [Integrators -> 0 .. 3]
  /\ base \in [Integrators -> [Files -> Versions]]

\* Whatever overlaps and whatever fails, the registry exists and no permanent file
\* gives one slot to two designs, so registry-generate can always repair the others.
Distinct(version) ==
  version # Absent => \A p, q \in version : p # q => SlotOf[p] # SlotOf[q]
RegistryStaysUsable == file[Registry] # Absent /\ \A f \in Files : Distinct(file[f])

\* A design whose integration was reported as passed is in all three files for good.
PassMeansIntegrated ==
  \A p \in Integrators : pc[p] = "pass" =>
    \A f \in Files : file[f] # Absent /\ p \in file[f]

\* "A failed integration leaves all three permanent files unchanged."
FailureLeavesUnchanged ==
  [][\A p \in Integrators :
       pc[p] \in Active /\ pc'[p] \in {"rejected", "broken"} => file' = base[p]]_vars

\* The documented promise: the permanent files are seen as they were before an
\* integration until its last replacement.
Undecided(p) == pc[p] \in Active \ {"tidying"}
Promise == INSTANCE IntegrationPromise WITH
  permanent <- IF \E p \in Integrators : Undecided(p)
                 THEN base[CHOOSE p \in Integrators : Undecided(p)] ELSE file,
  outcome <- [p \in Integrators |->
                CASE pc[p] \in {"tidying", "pass"} -> "pass"
                  [] pc[p] \in {"rejected", "broken"} -> "failed"
                  [] OTHER -> "none"]
KeepsIntegrationPromise == Promise!Spec

-----------------------------------------------------------------------------
(* The parts of the inductive invariants behind them. *)

VersionsDistinct ==
  \A p \in Integrators : Distinct(staged[p]) /\ \A f \in Files : Distinct(backup[p][f])
\* The registry is never among the files the handler deletes.
RegistryBackedUp ==
  \A p \in Integrators :
    (pc[p] = "replacing" \/ replaced[p] > 0 \/ (pc[p] = "copying" /\ step[p] > 0))
      => backup[p][Registry] # Absent
StartsClean ==
  \A p \in Integrators :
    pc[p] \in Ended \union {"testing"} =>
      step[p] = 0 /\ replaced[p] = 0 /\ backup[p] = NoBackup
UsableInv == RegistryStaysUsable /\ VersionsDistinct /\ RegistryBackedUp /\ StartsClean

\* What a lone integrator holds covers every design that was reported as integrated.
Passed == {p \in Integrators : pc[p] = "pass"}
OneAtATime == \A p, q \in Integrators : pc[p] \in Active /\ pc[q] \in Active => p = q
BackedUp(p, f) ==
  \/ pc[p] = "copying" /\ f <= step[p]
  \/ pc[p] = "replacing" \/ replaced[p] > 0
Covers(p) ==
  /\ p \in staged[p] /\ Passed \subseteq staged[p]
  /\ \A f \in Files : IF backup[p][f] # Absent THEN Passed \subseteq backup[p][f]
                                              ELSE BackedUp(p, f) => Passed = {}
  /\ pc[p] \in {"testing", "copying"} => replaced[p] = 0
  /\ \A f \in Files : ((pc[p] = "replacing" /\ f <= step[p]) \/ pc[p] = "tidying")
                         => file[f] = staged[p]
PassInv ==
  /\ OneAtATime /\ PassMeansIntegrated
  /\ \A p \in Integrators : pc[p] \in Active => Covers(p)

\* Where a lone integrator stands between the old files and the new ones.
Between(p, f) ==
  CASE pc[p] = "testing" -> file[f] = base[p][f]
    [] pc[p] = "copying" ->
         file[f] = base[p][f] /\ backup[p][f] = IF f <= step[p] THEN base[p][f] ELSE Absent
    [] pc[p] = "replacing" ->
         /\ backup[p][f] = base[p][f] /\ replaced[p] = step[p]
         /\ file[f] = IF f <= step[p] THEN staged[p] ELSE base[p][f]
    [] pc[p] = "restoring" ->
         /\ replaced[p] > 0 => backup[p][f] = base[p][f]
         /\ backup[p][f] \in {base[p][f], Absent}
         /\ \/ file[f] = base[p][f]
            \/ f <= replaced[p] /\ (step[p] < f \/ backup[p][f] = Absent)
    [] pc[p] = "removing" ->
         /\ replaced[p] > 0 => backup[p][f] = base[p][f]
         /\ \/ file[f] = base[p][f]
            \/ f <= replaced[p] /\ step[p] < f /\ base[p][f] = Absent
    [] pc[p] = "undone" -> file[f] = base[p][f]
    [] pc[p] = "tidying" -> file[f] = staged[p]
AtomicInv ==
  /\ OneAtATime
  /\ \A p \in Integrators : pc[p] \in Active =>
       /\ staged[p] = base[p][Registry] \union {p}
       /\ pc[p] \in {"testing", "copying"} => replaced[p] = 0
       /\ \A f \in Files : Between(p, f)
=============================================================================
