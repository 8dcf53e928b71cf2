--------------------------- MODULE ReferenceSuite ---------------------------
(***************************************************************************)
(* main, reference and summary of scripts/run_regression.py: the commands a  *)
(* request plans, one after the other, then the reference tests in the order *)
(* of tests.json, each a simulation, some with software that is built at its *)
(* first use.  RegressionRun runs the commands, RegressionPlan plans them.   *)
(***************************************************************************)
EXTENDS RegressionRun, RegressionPlan

CONSTANTS Requests

IsSequence(s) == s \in Seq({s[i] : i \in DOMAIN s})

ASSUME PlanAssumption ==
  \A r \in Requests : IsSequence(SuiteTests(r)) /\ (~Refused(r) => IsSequence(Plan(r)))

VARIABLES
  request,      \* the arguments
  index,        \* the planned command, or the test, the loop is at
  command,      \* the command to run: "planned", "registry-check", "software" or
                \* "simulation"; "summary" and "error" end the regression
  built_apps,   \* the build variables that need no build any more
  failures,     \* commands in self.failures
  passes,       \* self.passes
  fresh,        \* history: builds whose software this regression has produced
  passed,       \* history: the commands that passed
  stale         \* history: the tests simulated on software this regression did not build

suiteVars == <<request, index, command, built_apps, failures, passes, fresh, passed, stale>>
vars == <<runVars, suiteVars>>

Tests == SuiteTests(request)
BuildAt(i) == BuildVariables(Tests[i])
Build == BuildAt(index)

\* (a variant with a bug, for the mutation checks: an image of the repository is built)
BuildWhatIsNotBuilt(i, built) ==
  CASE i > Len(Tests) -> "summary"
    [] i <= Len(Tests) /\ BuildAt(i) \in built -> "simulation"
    [] OTHER -> "software"

\* Where the loop over the tests goes at test i: the end, or its first command.
FirstCommand(i, built) ==
  CASE i > Len(Tests) -> "summary"
    [] i <= Len(Tests) /\ BuildAt(i) \in built \union {Null} -> "simulation"
    [] OTHER -> "software"

\* Where main goes after the planned commands.
AfterPlan ==
  CASE ~HasSuite(request) -> "summary"
    [] HasSuite(request) /\ SuiteRefused(request) -> "error"
    [] OTHER -> "registry-check"

Init ==
  /\ RunInit
  /\ request \in Requests
  /\ index = 1
  /\ command = CASE Refused(request) -> "error"
                 [] ~Refused(request) /\ Plan(request) # <<>> -> "planned"
                 [] OTHER -> AfterPlan
  /\ built_apps = {} /\ failures = {} /\ passes = 0
  /\ fresh = {} /\ passed = {} /\ stale = {}

Start ==
  /\ command \notin {"summary", "error"}
  /\ Popen(TimeoutOf(request) /\ command # "registry-check")
  /\ UNCHANGED suiteVars

Record ==
  IF Verdict = "pass"
    THEN /\ passes' = passes + 1 /\ passed' = passed \union {<<index, command>>}
         /\ UNCHANGED failures
    ELSE failures' = failures \union {<<index, command>>} /\ UNCHANGED <<passes, passed>>

\* (a variant with a bug, for the mutation checks: a failure ends the plan quietly)
PlannedUntilFailure ==
  /\ command = "planned" /\ Judge
  /\ IF Verdict = "pass" /\ index < Len(Plan(request))
       THEN Record /\ index' = index + 1 /\ UNCHANGED command
       ELSE /\ index' = 1 /\ command' = AfterPlan /\ UNCHANGED <<failures, passes, passed>>
  /\ UNCHANGED <<request, built_apps, fresh, stale>>

\* a planned command that fails does not keep the next from running
Planned ==
  /\ command = "planned" /\ Judge /\ Record
  /\ IF index < Len(Plan(request))
       THEN index' = index + 1 /\ UNCHANGED command
       ELSE index' = 1 /\ command' = AfterPlan
  /\ UNCHANGED <<request, built_apps, fresh, stale>>

\* reference returns if the check of the registry fails
CheckedRegistry ==
  /\ command = "registry-check" /\ Judge /\ Record
  /\ command' = IF Verdict = "pass" THEN FirstCommand(1, {}) ELSE "summary"
  /\ UNCHANGED <<request, index, built_apps, fresh, stale>>

\* Variants with a bug, for the mutation checks: a build that fails is left out without
\* a word, or built_apps is filled before the build.
SkipQuietly ==
  /\ command = "software" /\ Judge
  /\ IF Verdict = "pass"
       THEN /\ Record /\ built_apps' = built_apps \union {Build}
            /\ fresh' = fresh \union {Build} /\ command' = "simulation" /\ UNCHANGED index
       ELSE /\ index' = index + 1 /\ command' = FirstCommand(index + 1, built_apps)
            /\ UNCHANGED <<built_apps, fresh, passes, passed, failures>>
  /\ UNCHANGED <<request, stale>>
RememberBeforeBuilding ==
  /\ command = "software" /\ Judge /\ Record
  /\ built_apps' = built_apps \union {Build}
  /\ IF Verdict = "pass"
       THEN command' = "simulation" /\ fresh' = fresh \union {Build} /\ UNCHANGED index
       ELSE /\ index' = index + 1 /\ command' = FirstCommand(index + 1, built_apps')
            /\ UNCHANGED fresh
  /\ UNCHANGED <<request, stale>>

\* a test whose software does not build is left out
BuiltSoftware ==
  /\ command = "software" /\ Judge /\ Record
  /\ IF Verdict = "pass"
       THEN /\ built_apps' = built_apps \union {Build} /\ fresh' = fresh \union {Build}
            /\ command' = "simulation" /\ UNCHANGED index
       ELSE /\ index' = index + 1 /\ command' = FirstCommand(index + 1, built_apps)
            /\ UNCHANGED <<built_apps, fresh>>
  /\ UNCHANGED <<request, stale>>

Simulated ==
  /\ command = "simulation" /\ Judge /\ Record
  /\ stale' = IF Build \in fresh \union {Null} THEN stale ELSE stale \union {index}
  /\ index' = index + 1 /\ command' = FirstCommand(index + 1, built_apps)
  /\ UNCHANGED <<request, built_apps, fresh>>

Suite == Start \/ Planned \/ CheckedRegistry \/ BuiltSoftware \/ Simulated
Runs == (Runner \/ Timer \/ Group) /\ UNCHANGED suiteVars

Next == Suite \/ Runs

\* Both threads are scheduled; nothing makes a command end.
Fairness ==
  /\ WF_vars((Runner /\ UNCHANGED suiteVars) \/ Planned \/ CheckedRegistry \/ BuiltSoftware \/ Simulated)
  /\ WF_vars(Timer /\ UNCHANGED suiteVars)

Spec == Init /\ [][Next]_vars /\ Fairness

-----------------------------------------------------------------------------
(* Properties. *)

Commands == {"planned", "registry-check", "software", "simulation"}
Builds == {BuildAt(i) : i \in DOMAIN Tests} \ {Null}

TypeOK ==
  /\ RunTypeOK
  /\ request \in Requests
  /\ index \in Nat \ {0}
  /\ command \in Commands \union {"summary", "error"}
  /\ built_apps \subseteq Builds /\ fresh \subseteq Builds
  /\ failures \subseteq (Nat \X Commands) /\ passed \subseteq (Nat \X Commands)
  /\ passes \in Nat

\* REGRESSION PASS (exit status 0) is printed only when every command of the plan ran
\* and passed and every selected test was simulated and passed: none was lost to a
\* failed command before it, a build, a timeout or an early return.
PassMeansAllSimulated ==
  command = "summary" /\ failures = {} =>
    /\ \A i \in DOMAIN Plan(request) : <<i, "planned">> \in passed
    /\ HasSuite(request) => \A i \in DOMAIN Tests : <<i, "simulation">> \in passed
    /\ passes = Len(Plan(request))
         + IF HasSuite(request) THEN 1 + Cardinality(built_apps) + Len(Tests) ELSE 0

\* No test is simulated on software this regression did not build, on what an earlier
\* one left behind.
NeverSimulatesStaleSoftware == stale = {}
=============================================================================
