# Formal models of mpc-frame

mpc-frame is a chip frame: a fixed top (`FrameTop.sv`) with up to 128 slots for
user designs, one of which is selected by the pads while reset is held and owns
the payload pads until the next reset; scripts that validate user packages and
integrate them into the registry the RTL is generated from; a regression
runner; and a reference SoC in slot 0 with its simulation. This directory holds
TLA+ models of the parts with behaviour over time, the TLC runs that check them
and TLAPS proofs of what matters most. `PROJECT.json` lists components, runs,
mutants, the source lines every definition stands for, findings and hazards.

Run anything here with `tlc -config X.cfg M.tla` and `tlapm M.tla`; the runs and
their modules are in the tables below.

## Inventory

| Part | State | Operations | Interacts with | Hard part | Correct if |
|---|---|---|---|---|---|
| Frame control (`FrameDesignControl`, `FrameClockGate`, `DesignIoMux`) | selector synchronizer, `gate_armed`, `release_count`, one latch per gate | clock edges, reset and selector pins moving | every design, the pads | pins that move at any point of a phase, registers nobody initializes | the design named at the release, and only it, is clocked, reset, then connected |
| Registry RTL and adapters | none | presence mask, tie-off, wrappers | frame control, registry | - | every slot has one driver; a wrapper connects ports its design has |
| `make integrate-design`, `commit_registry` | three permanent files, staged files, backups | stage, refuse, test, copy, replace, restore, remove | other integrators, `registry-generate`, users | failure of one step of several, interrupts, overlap | all or nothing; the registry stays usable; a reported success lasts |
| Package and registry validation | packages below `designs/`, `registry.json` | `load_design`, `load_registry`, `create_design_package`, `find_user_design`, `integrate_design`, `prepare_frame_registry`, renderers | all flows, users who edit packages | the same conflicts looked for in several commands, packages that change between them | no two designs share id, name or module; what one command accepts, the next does too |
| `make registry-check` | none | read and compare three files | integrations that replace them meanwhile | a reading that takes several steps | a pass tells of a state that existed |
| User flow (`mk/user.mk`) | `build/designs/<name>` | create, check, trace, wave | validation, build directories | lookup repeated per step, shared directories | what is reported is what was tested |
| Regression runner | process, timer, event, failures, passes, `built_apps` | run a command, time it out, judge it; plan a request; the reference suite | make and its children | three actors on one process group; early returns | killed is never passed; status 0 means every planned command and test passed |
| Simulation harness (`sim_main.cpp`) | UART text window, GPIO index, two match flags | cycle loop, matchers, verdict | the Verilated frame | conditions reached at different times | PASS only if the conditions were observed |
| PLIC | gateways, edge counters, registered tree, claim register | lines, claim, complete, enable | software, devices | a pipeline between a claim and what it claims | every claim is of a pending source, each request is served |
| GPIO, CLINT, RCU, common RTL | registers | APB accesses, clock and reset | software | events lost while a register is busy; clock crossing | see the plan |
| User kit export | `build/user-kit` | delete, copy, reset, publish | integrations, the workflow that uses the kit | failure of one step of several, leftovers, files replaced or added while they are copied | a kit that passed registers no design and has nothing of an earlier one |
| Docs, CI scripts, tests, `gen_soc_pkg` | files | check, generate | - | - | not modelled, see below |
| Generated or third-party: `asic_top`, core, UART 16550, SPI, PSRAM, flash | - | - | - | - | not modelled |

## Modules

| Module | Models |
|---|---|
| `FrameSelection` | what the frame promises to somebody who sees reset, selector pads and the running design only |
| `FrameTop` | the RTL of the frame, phase by phase; implements `FrameSelection` |
| `FrameTop_proofs` | its theorems |
| `IntegrationPromise` | all-or-nothing integration, as the maintainers' guide states it |
| `RegistryIntegration` | `make integrate-design` with `commit_registry`, by several integrators; implements `IntegrationPromise` |
| `RegistryIntegration_proofs` | its theorems |
| `RegistryCheck` | `make registry-check` next to the integrations |
| `KitExport` | `export_user_kit.py` next to the integrations, and the workflow that tries the kit out |
| `MaintainerCheckout` | composes the three: integrations, a check and an export on one checkout |
| `MaintainerCheckout_proofs` | its theorems; the composition implements `RegistryIntegration` |
| `DesignManifest` | `load_design`: which package is one |
| `DesignRegistry` | the commands of `design_registry.py` on packages and registry, `make check`, and the renderers |
| `DesignRegistry_proofs` | its theorems |
| `RegressionRun` | `RegressionRunner.run`: reader, timer and process group |
| `RegressionPlan` | what a request to `run_regression.py` asks for; which `tests.json` is accepted |
| `ReferenceSuite` | `main`, `RegressionRunner.reference` and `summary`: runs the commands of the plan and of the suite through `RegressionRun` |
| `ReferenceSuite_proofs` | theorems about both |
| `SimHarness` | the acceptance loop, matchers and verdict of `sim_main.cpp` |
| `SimHarness_proofs` | its theorems |
| `Plic` | gateways, tree and claim register of the reference SoC's PLIC |
| `Plic_proofs` | its theorems |
| `MC*` | the small instances |

### FrameTop

`clock`, `reset`, `async_design_id` are the pins; `design_id_meta`,
`design_id_sync`, `gate_armed`, `release_count` the registers of
`FrameDesignControl`, `enable_latched` the latches of all `FrameClockGate`s.
One-bit-per-slot vectors are sets of designs. The registers power up with any
value. A step is `RisingEdge`, `FallingEdge`, `ChangeReset` or `MoveSelector`;
reset and selector may also move together with a rising edge, in which case the
registers see the new reset, as the Verilated top does, and the first
synchronizer stage captures any value. `reset_edges`, `stable_edges` and
`MayRelease` are the external contract of `docs/en/design-control.md`: reset
lasts `MIN_RESET_EDGES` rising edges and the selector is stable for the last
`MIN_STABLE_EDGES` of them. `requested` and `hold_edges` are history.
The model allows more than the document: reset may be asserted and released at any
point of a phase, and a reset of two edges is enough where the document asks
for more.

Payload data are abstracted to *who drives*: `io_oe` is the set of designs that
reach the pads, every registered design being assumed to drive all its outputs
all the time, the worst case.

### RegistryIntegration

A version of a file is the set of designs it registers. This is the whole
content: the rtl and the filelist are rendered from the registry, so files
agree exactly if the sets do. A design is one integrator's; its name, module
and package are one identity, its slot is `SlotOf`. `Stage` stands for the
staging recipe of `mk/dev.mk` (the permanent registry is read once, here),
`FrameTest` for the checks and the Frame test, `Copy`, `Replace`, `Restore`,
`Remove` for one file each of the loops of `commit_registry`, `Fails` for an
`OSError` that reaches its handler, `Report` for the finally block, `Escape`
for whatever leaves the function uncaught. `FAULTS` says which failures may
happen, `SERIAL` whether maintainers integrate one at a time. Temporary files
carry the process id and are private to their integrator.

### RegistryCheck, KitExport and MaintainerCheckout

`RegistryCheck` adds the checker's place and `expected`, the version of the
registry it read: since the rtl and the filelist are rendered from the registry,
"equal to what is rendered" is "of the same version". `agreed` is history: the
versions all three files had at one time since the check began. `KitExport` has
the export's next step, the age of each part of the kit (absent, left over, from
this export), what its three generated files register, and `temporary`: whether
another file of its rtl tree registers a design. Such files are the copies and the
backups `commit_registry` keeps in `rtl/generated`, under hidden names, while it runs:
`IsCopied` and `IsBackedUp` read them off the integrator's place, a copy counting when
it is complete. `leftover` is history: one of them is there for good, because the commit
was killed, could not delete it, or failed while it copied (what `copy2` had written is
in neither list of the files to delete). Those of the registry are in `designs/`, which
is not copied. `Clean` is `rmtree(ignore_errors=True)`: one part may survive, and then
the directory does.
Every step may raise (`ExportFails`). `UseKit` is the workflow that creates and
checks a design in the kit and exports again. Checks and exports only read the
checkout; in `MaintainerCheckout` they interleave with every step of the
integrations, so they see files half replaced and restored.

### DesignManifest and DesignRegistry

A package is a record: the fields of `design.json`, what each path in it is, and
for each source the modules it defines with the identifiers in their bodies,
which is all the textual search of `load_design` looks at. `Null` is JSON's null,
`Wrong` any value of a type or form the code refuses, so each error of
`load_design` and `load_registry` is a conjunct. Module and ports are found in the text
between two word boundaries, and `$` is no character of a word: `Stem` is an identifier
without the `$` it may end with, and `Found` is that search. (The search also finds a
name next to a `$` inside an identifier; that is left out.) `packages`, `registry` (a set of entries, as `load_registry` sorts them) and
`check` are the state. Between commands users write any package, remove it or its
`design.json` (`Edit`) and move it (`Move`); `Create`, `CreateFails`,
`CreateInterrupted`, `Integrate` and `CheckStep` are the commands. `create-design` loads
the package when it has been written: `CreateFails` is the load that refuses it, after
which the package is still there. `Integrate` is the whole make target in one step,
`generate-registry`'s second load included; how the files are replaced is
`RegistryIntegration`'s matter. `check` remembers the packages the lookups of one `make check` found, and, as
history, the directories that were written meanwhile (`Write` is the part these actions
share). The renderers are operators: `Drivers` (what drives a slot),
`Wrapper`, `FilelistLines`. In `RegistryTool` the last slot, 127 in the code, is 2.

### RegressionRun and ReferenceSuite

`runner` is the thread that reads, waits, cancels and judges; `timer` the thread
of `stop_process_group`, in its three steps (poll, set the event, kill);
`leader` and `members` the process group of the command, all of which hold the
pipe: the end of file needs every one of them gone. `Fork` and `Exit` are what
make and its children do, and nothing forces them to exit. The poll also finds
nothing while the runner's `wait` holds the lock of `Popen`. `RegressionPlan` turns a
request into the commands that run first and the tests that follow; a request
it refuses ends with status 2. The suite keeps `index`, `built_apps`,
`failures` and `passes`; its judging actions are the calls of `run` and `make`.
`passed` (the commands that passed), `fresh` and `stale` are history. A timer that is still on its way when its command has
been judged has its own event and a group that is gone; the model forgets it.

### SimHarness

`Low` and `High` are the two halves of a cycle, with the pins sampled after each;
in `High` the SoC may send one character and execute `ebreak`. The SoC is not
modelled: it sends anything and drives anything. `output` and `samples` are
history, against which the verdict is judged; the loop itself keeps a window of
characters and a count of matched values. The values of the pins are those
under the mask.

### Plic

One step is one clock. The vectors `s_prio_in_q` and `s_id_in_q` are the set
`asking` of the sources whose priority and number they hold. `prio_tree` is the
recursive function `Tree` of the two leaves a node spans, over `PLIC_IRQ_NUM`
leaves, and `Winner` is its root; as in the code the two halves of a node share
a leaf if their number is odd. The gateway's state machine is `gw`, its counter
`cnt` and `dec`. Each clock has any values on the lines and at most one APB
access: a claim, a completion of something held, a new enable mask. Two accesses
are at least `GAP` clocks apart, two if an APB master does nothing else, since an
access has a setup and an access phase. `nested`, one of `NESTED`, says whether
software claims again before it has completed what it holds; if not, it serves one
source at a time, as the datasheet's example does. Trigger modes, priorities and
threshold are programmed once. `held` and `owed` are history.

## Runs

| Run | Instance | Shows |
|---|---|---|
| `FrameContract` | 3 slots, 2 registered, 4 selector values, 2 release cycles, the contract kept | the design named at the release is the one that runs (`SelectionIsRequested`), it does start (`RegisteredDesignStarts`), and the frame implements `FrameSelection` |
| `FrameIsolation` | the same, one reset edge, selector contract broken | even so no design drives before its edges in reset, edges go to the selected design only, no pulse is cut and two designs never meet on the pads |
| `IntegrationSerial` | 3 integrators, 2 of one slot, one at a time, copy and replace failures, a check and an export at any moment | integration is all or nothing (`KeepsIntegrationPromise`) and lasts (`PassMeansIntegrated`); a check that passed saw a version all files had (`CheckPassMeansAgreed`); the generated files of a kit that was exported register nothing (`ExportedIsBlank`) and nothing older is in it (`ExportedIsClean`) |
| `KitLeak` | one integrator, no failure, an export | violated: a finding |
| `IntegrationOverlap` | 2 integrators of one slot, any overlap, every failure | the registry exists and no file gives a slot twice (`RegistryStaysUsable`) |
| `IntegrationStopped` | one integrator that may be interrupted | violated: a finding |
| `IntegrationLost` | two overlapping integrators, no failure | violated: a finding |
| `RegistryTool` | 3 directories, 2 of them the users', 2 slots, good and bad packages, 4 registries to begin with | slots have one driver (`SlotsDrivenOnce`), wrappers fit (`WrappersBind`), checked packages can be integrated (`CheckedCanBeIntegrated`), of the packages nobody touches a check tests one (`CheckTestsOnePackage`), commands keep the registry (`ToolKeepsRegistry`), a created package is usable, and one that create refuses has a name with `$` (`CreatedPackageIsUsable`) |
| `RegressionRuns` | 8 requests of every kind, 3 tests, 2 sharing their software, 1 design, 2 processes below make, a timeout | exit status (`PassMeansAllSimulated`), timeouts and build cache are right, timed commands end |
| `SimVerdict` | 3 characters, a stop text, a fail text that ends with it, 2 expected values, 5 cycles | PASS only if all was observed (`PassMeansObserved`) and no failure reported (`FailTextNeverPasses`), and if all was observed, PASS (`ObservedPasses`) |
| `PlicClaims` | 2 sources (edge, level), 4 priority settings, counter limit 2, an access every 3 clocks at most, nested claims and others | a claim is of a pending source (`ClaimIsPending`), a source that is served does not ask again (`HeldIsClosed`), without nesting a completion reopens its gateway (`CompletionReopens`), each edge is served once at most (`EveryInterruptHasAnEdge`), the tree finds the highest priority (`TreePicksHighest`), the interrupt line rises (`PendingRaisesInterrupt`) |
| `PlicQueue` | the same, 1 setting, an access every 2 clocks, no nesting | violated: a finding |

**Bounds.** Three slots give a registered design that is selected, one that is
not, an empty slot, and with two bits a selector value outside the frame; two
release cycles give a first, a last and an intermediate count, and a counter
register that can hold a value above the limit. Three files are all there are;
two integrators show every overlap of a pair, three add a second success to be
preserved. Three tests make a shared build fail at its first use and be
needed again; with an image of the repository between them, and a request for
one test, for none that exists, for a frame test and for each mode, every way
through `main` is taken. Three directories let a user create a second package
while the first is checked and an old one is registered; two slots are enough
for a hole among the used ids, and for none being left. The packages include
one with a legacy id, a renamed port and include directories, one without a
Frame test, one with a missing port and one whose module ends with `$`; two
package names have the same default module. A test declared twice refuses a package as
a missing port does, and is left to `load_design`'s own tests. The two integrators of
one slot are interchangeable, and `IntegrationSerial` says so (`MCSameSlot`). Five cycles let the fail text, and then
the stop text alone, be sent in full, with every sequence of pin values around
them. Two processes below the leader let one outlive it while
another is born. Two sources meet at the root of a tree with four leaves, in
both orders, tied, zero and at the threshold. `GAP` is 3 because
nested claims need it (see the findings); that an access every second clock is safe
without them is proved. What does not depend on such a bound
is proved for all values.

**Fairness.** The frame and the PLIC assume that their clock does not stop and
nothing of the pins. The regression assumes that the runner's thread and the
timer's thread are scheduled; no process has to exit. The simulation harness
assumes that an evaluation of the SoC returns: the program has one thread and does
nothing but the loop. The integration flow and the registry tool have no
fairness: only safety is claimed.

`CHECK_DEADLOCK FALSE` is set where the system really ends: every integration,
the regression or the simulation is over. The registry tool never ends, and its run
checks deadlock.

## Findings

- `IntegrationStopped`: `commit_registry` handles `OSError` only; an interrupt
  between two replacements leaves the permanent files half new and deletes the
  backups. The maintainers' guide promises that a failed integration leaves
  all three unchanged.
- `IntegrationLost`: the registry is staged before the Frame test and never
  compared again; of two overlapping integrations one is lost. The trace ends when one
  has reported PASS and the other's first replacement has taken its design out of the
  registry; the other then reports PASS too.
- `KitLeak`: the export copies `rtl` with everything in it, and resets three files by
  name. The copies and backups of an integration that has not ended (or that was
  killed, could not delete them, or failed while copying, at any time before) go into
  the kit with the wrappers of registered designs and the names of their sources, and
  the export passes, although the maintainers' guide says that user RTL is never
  included and the workflow looks for it in all of `rtl/generated`. What does hold
  is proved: the three generated files are blank.
- `PlicQueue`: the gateway's edge counter counts itself down while it cannot
  issue a request, so edges are not queued although the datasheet lists that: a second
  edge that comes while the first is pending is forgotten before the first is claimed.

These known limits are assumptions rather than findings.

- If a timed command's leader exits and leaves a descendant with the pipe, the
  timer does nothing and the run has no bound (`Orphaned` in `TimedRunEnds`).
- Every read of the PLIC's claim register, even one that finds nothing, replaces
  the id that completions are compared with (`id_clam`). With nested claims the
  completion of an earlier one is ignored and its source stays in service, although
  the datasheet (`doc/datasheet.md:53-54`) says that writing the id back clears it.
  `CompletionReopens` is therefore about software that does not nest.
- If software claims a second source two clocks after the first without completing
  it, it reads the same source again: what the tree found has two registers to
  pass. The bridges of `asic_top` take longer than that for an access.
- `HeldIsClosed` says that a source in service does not ask again. It says nothing of a
  completion that is ignored, which leaves its gateway closed (above).
- `make check` without DESIGN looks the package up three times. A user who removes, moves
  or replaces packages while it runs may get one PASS for a package that was linted and
  another that was simulated; `CheckTestsOnePackage` is about the packages nobody touches
  meanwhile. With DESIGN every lookup takes the package named.
- `create-design` takes a module name that ends with `$`, writes the package and then
  cannot find the module in it: it fails, and the package stays. The search finds `Foo`
  in `Foo$`, too, so a source that has such names may pass with a module or a port it
  does not have: `WrappersBind` is about sources without them (`NoDollar`).
- `render_registry_filelist` makes source lines relative but leaves `+incdir+` lines
  absolute, so the committed filelist of a design with `include_dirs` names the checkout
  it was generated in. The reference flow reads the filelist from
  `dev/reference/sim/dv/verilator`, while its lines are relative to the root, and
  `check-reference-filelist` does not look. No design is registered today, and the file
  is empty.
- A package that is edited after it was registered is checked when the registry is
  loaded next; the RTL rendered before keeps the old ports (`WrappersBind` is about
  packages and registry as they are when the RTL is rendered).
- `SimHarness` lets the SoC send one character in a cycle at most: a UART frame takes
  many.

## Proofs

Every theorem holds for every value of the constants that satisfies the named
assumption of its module, and where the statement says so under an extra one.

| Theorem | States | Rests on |
|---|---|---|
| `FrameTop_proofs!TypeCorrect` | `TypeOK` | - |
| `ResetBeforeDriving`, `ClockReachesSelected`, `GlitchFree`, `HandsOverThroughHighZ` | isolation of the designs | `IsolationInv` |
| `SelectionObeysPads` | `SelectionIsRequested`, if `MIN_STABLE_EDGES >= 2` | `SelectorSettles` |
| `FrameKeepsPromise` | `FrameTop` implements `FrameSelection` | `IsolationInv`, step by step |
| `RegistryIntegration_proofs!TypeCorrect` | `TypeOK` | - |
| `RegistryAlwaysUsable` | `RegistryStaysUsable`, any overlap and any failure | `UsableInv` |
| `PassedStaysIntegrated` | `PassMeansIntegrated`, if `SERIAL`, any failure, interrupts included | `UsableInv`, `PassInv` |
| `IntegrationKeepsPromise` | refinement of `IntegrationPromise`, if `SERIAL` and only copying and replacing fail | `UsableInv`, `AtomicInv` |
| `FailuresAreUndone` | `FailureLeavesUnchanged`, under the same conditions | `AtomicInv` |
| `ReferenceSuite_proofs!TypeCorrect` | `TypeOK`, of `RegressionRun` too | `TypeInv` |
| `KilledIsTimeout` | `KilledMeansTimeout` | `DeclaredLate` |
| `SimulatesFreshSoftware` | `NeverSimulatesStaleSoftware` | `FreshInv` |
| `PassIsComplete` | `PassMeansAllSimulated`, for every request, manifest and registry | `PassInv` of `ReferenceSuite_proofs` |
| `CheckoutIntegrates` | `MaintainerCheckout` implements `RegistryIntegration` | step by step |
| `CheckoutKeepsIntegrated` | `PassMeansIntegrated` in the checkout, if `SERIAL` | `CheckoutIntegrates`, `PassedStaysIntegrated` |
| `CheckoutKeepsPromise` | refinement of `IntegrationPromise` in the checkout, as `IntegrationKeepsPromise` | `CheckoutIntegrates` |
| `ChecksTellTheTruth` | `CheckPassMeansAgreed`, if `SERIAL`, any failure, interrupts included | `AtomicInv`, `FilelistIsLast`, `RtlIsStaged`, `CheckInv` |
| `KitIsBlank`, `KitIsClean` | `ExportedIsBlank` (the three generated files), `ExportedIsClean` | `KitInv` |
| `DesignRegistry_proofs!TypeCorrect` | `TypeOK` | - |
| `SlotsAreDrivenOnce` | `SlotsDrivenOnce` | `DistinctIdsDriveOnce`, `LeastId` |
| `WrappersAreBound` | `WrappersBind` | - |
| `CheckedIsIntegrable` | `CheckedCanBeIntegrated` | `StagedIsAccepted` |
| `ToolKeepsTheRegistry` | `ToolKeepsRegistry` | `StagedIsAccepted`, `SamePackages` |
| `CreatedIsAlwaysUsable` | `CreatedPackageIsUsable` | `TemplateHasTests`, `TemplateLoads`, `SamePackages` |
| `ChecksTestOnePackage` | `CheckTestsOnePackage` | `SeenInv`, `OthersRegistered` |
| `SimHarness_proofs!TypeCorrect` | `TypeOK` | `TypeInv` |
| `PassIsObserved` | `PassMeansObserved` | `WindowInv`, `PinsInv`, `VerdictInv` |
| `FailTextFails` | `FailTextNeverPasses` | `WindowInv`, `FailInv`, `VerdictInv` |
| `Plic_proofs!TypeCorrect` | `TypeOK` | `PlicInv` |
| `InterruptsHaveEdges` | `EveryInterruptHasAnEdge` | `EdgeInv` |
| `TreeIsRight` | `TreePicksHighest`, any number of leaves | `TreeWins` |
| `ClaimsArePending` | `ClaimIsPending`, if `GAP > 2` or no claims are nested | `PlicInv` |
| `ServedIsClosed` | `HeldIsClosed` | `PlicInv` |
| `CompletionsReopen` | `CompletionReopens` | `PlicInv` |

`DriverWasReset` is not inductive: a driving design was held long enough only
because `release_count` never runs ahead of the edges the design received
(`HeldEnough`), which holds only because one edge in reset clears the counter
whatever it powered up with (`ResetClears`), counts start from zero
(`HoldCleared`), and a selected design's gate is open at every rising edge
(`LatchFollows`). `SelectorSettles` follows a stable selector through both
stages. `UsableInv` adds to the files what integrators hold: staged versions
and backups never give a slot twice either, and the registry is backed up
before anything is replaced, so the handler never deletes it. `PassInv` says
that a lone integrator's staged version and every backup it made contain all
designs that passed, so that whichever it renames into place nothing is lost, and
that a file without a backup did not exist, so nobody had passed. `AtomicInv` says for
every place of the program which file is old and which is new. `FreshInv` adds
that `built_apps` names only what was built and that the loop reaches a
simulation only through it.

`PassInv` of the regression counts: where the loop is, `passes` is the number of
commands it has passed, and everything before the loop's place passed, unless a
failure is recorded. `KitInv` says for each step of the export which parts it has
brought, that the rest is absent, and which generated files are reset: `mkdir`
refusing a directory that survived is what makes "the rest is absent" true.
`SeenInv` says that while a check runs, whatever nobody has written since it began is no
package, is registered, or is the only one the check has found (`OthersRegistered`):
a lookup finds the one package that is not registered, so the others that are left
alone are registered, and stay so, and a second one could only be found if somebody
wrote it. `CreatedIsAlwaysUsable` does not rest on the template alone: what
`create-design` compares with the registry is what keeps the package free of conflicts,
and `TemplateLoads` shows that its load fails for a name with `$` only. `StagedIsAccepted` is the core of the registry: an accepted registry
plus a package that passed the checks of `integrate-design` is accepted, for
which `ResolvedKeeps` shows that writing ids into legacy entries changes nothing.
The lemma `LeastId` needs that the free ids have a least one, by the library's
theorem on well-founded orders.

`WindowInv` says that the harness's window is the end of all that was sent, at least
as long as either text, so that a match in the window is a match in the output
(`LastOfLast`, `LastOfAppend`). `FailInv` adds that the fail text can only be at the
very end: a cycle begins only without it. `PinsInv` keeps, for each value counted, a
sample of its own. `EdgeInv` is the balance of a PLIC source: its counter exceeds the
edges that wait by one at most, only from the moment a request becomes pending until
the decrement of two clocks later, which comes before the gateway can be idle again.

`Tree` is a recursive function on a product of sets, so its equation has to be proved
(`TreeDef`): `TreeBuilt` shows by induction on the distance of two leaves that
functions with this equation exist on all smaller nodes and agree. `TreeWins` then
shows what a node yields: the leaf of the highest level among those it spans, the
first of them. Both inductions are the argument of the least counterexample
(`LeastNat`), since the library's induction theorems cannot be applied here.
`ClaimInv` follows a claim through the pipeline: what has just been claimed may still
be in the first stage one clock after the claim and in `id` two clocks after, and
nowhere later, so a claim that comes when the pipeline is clear reads a pending
source. Without nested claims the one source held is the one in `id_clam`, the only
one a completion is accepted for.

A check reads the registry, the rtl and the filelist, in this order. Two of them may
agree without the third having done so: the rtl is put back after the registry. The
argument is about the last file: an attempt that is undone never replaced it
(`FilelistIsLast`), so it becomes of a version only by the replacement that makes all
three of it. `RtlIsStaged` says what the registry is while the rtl is the staged one.
`CheckInv` then says, for each place of the check, that if the filelist is of the
expected version now and the three files never agreed on it since the check began,
then the rtl is of another version, and no integration can bring it back by restoring.
The theorem needs `SERIAL`: with two integrations that overlap, TLC finds a check
that reads a mixture and passes.

Only model-checked: the liveness properties (`RegisteredDesignStarts`,
`TimedRunEnds`, `PendingRaisesInterrupt`, `ObservedPasses`). They rest on fairness and
so on `ENABLED`, which is out of the prover's reach. Every invariant and every other
action property of a passing run is the subject of a theorem.

## Not modelled

- `check_docs.py`, `prepare_docs_site.py`, `gen_soc_pkg.py`,
  `check-reference-filelist`: functions of the files they read, with a result no other
  part keeps. There is nothing between two of their steps that could go wrong.
- The build directories of a package, shared by packages of one directory name, and
  the trace and wave files (hazards without a property).
- The inputs of the simulation (`UartRxDriver`, `drive_inputs`, `flash_read`): they
  feed the SoC, which `SimHarness` lets do anything.
- Generated and third-party RTL, the GPIO, CLINT and RCU of the reference SoC, the
  common RTL, embedded test programs. For the GPIO and the CLINT nothing in the
  repository says what software may rely on.
- The electrical side (metastability beyond "any bit value is captured", pad
  timing), which is outside TLA+.
- Parsing: of JSON, of names and paths, of the SystemVerilog text. What is decided
  on the result is modelled.

## Plan

1. Done: `FrameTop`, `RegistryIntegration`, their promises and proofs;
   `RegressionRun`, `ReferenceSuite`; `Plic`; `DesignManifest`, `DesignRegistry`;
   `RegistryCheck`, `KitExport`, `MaintainerCheckout`; `RegressionPlan`;
   `SimHarness`; their proofs; nested claims of the PLIC.
2. The build directories of the user flow, if checks of two packages ever run side
   by side in the repository's own flows; today none do.
3. The reprogramming of the PLIC at run time.
4. Proofs: when the all-or-nothing promise survives overlapping integrations.
