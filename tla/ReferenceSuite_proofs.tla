------------------------ MODULE ReferenceSuite_proofs -----------------------
(* Proofs about ReferenceSuite, for any tests.json, any designs, any requests  *)
(* and any number of processes below a command.                                *)
EXTENDS ReferenceSuite, FiniteSetTheorems, TLAPS

-----------------------------------------------------------------------------
(* Whoever is killed has been declared late first. *)

DeclaredLate ==
  /\ timer = "killing" => timed_out = TRUE
  /\ killed = TRUE => timed_out = TRUE

\* No step of a command, of its timer or of the loop kills without a declaration.
LEMMA DeclaredLateStep ==
  ASSUME DeclaredLate, [Next]_vars
  PROVE  DeclaredLate'
<1> USE DEF DeclaredLate
<1>1. CASE UNCHANGED runVars
  BY <1>1 DEF runVars
<1>2. CASE Start
  BY <1>2 DEF Start, Popen
<1>3. CASE Planned \/ CheckedRegistry \/ BuiltSoftware \/ Simulated
  BY <1>3 DEF Planned, CheckedRegistry, BuiltSoftware, Simulated, Judge
<1>4. CASE Runner
  BY <1>4 DEF Runner, EndOfFile, Wait, Cancel
<1>5. CASE Timer
  BY <1>5 DEF Timer, Fire, SetTimedOut, Kill
<1>6. CASE Group
  BY <1>6 DEF Group, Fork, Exit
<1> QED
  BY <1>1, <1>2, <1>3, <1>4, <1>5, <1>6 DEF Next, Suite, Runs, vars

\* A command the timer killed is reported as a timeout, however the threads interleave.
THEOREM KilledIsTimeout == Spec => []KilledMeansTimeout
<1>1. Init => DeclaredLate
  BY DEF Init, RunInit, DeclaredLate
<1>2. DeclaredLate => KilledMeansTimeout
  BY DEF DeclaredLate, KilledMeansTimeout, Verdict
<1> QED
  BY <1>1, <1>2, DeclaredLateStep, PTL DEF Spec

-----------------------------------------------------------------------------
(* Nothing is simulated on software that this regression did not build. *)

FreshInv ==
  /\ built_apps \subseteq fresh
  /\ command = "registry-check" => index = 1
  /\ command = "simulation" => Build \in fresh \union {Null}
  /\ NeverSimulatesStaleSoftware

\* The loop goes to a simulation only if the test needs no build or has it.
LEMMA FirstCommandHasBuild ==
  ASSUME NEW i, NEW built
  PROVE  /\ FirstCommand(i, built) \notin {"planned", "registry-check", "error"}
         /\ FirstCommand(i, built) = "simulation" => BuildAt(i) \in built \union {Null}
BY DEF FirstCommand

\* After the plan the suite begins with the check of the registry, if it does.
LEMMA AfterPlanCases == AfterPlan \in {"summary", "error", "registry-check"}
BY DEF AfterPlan

\* What FirstCommand says of the next state, in which the request is the same.
LEMMA SameTests ==
  ASSUME request' = request
  PROVE  /\ Tests' = Tests
         /\ Build' = BuildVariables(Tests[index'])
         /\ \A i : BuildAt(i) = BuildVariables(Tests[i])
BY DEF Tests, Build, BuildAt

\* A regression remembers only what it built.
LEMMA FreshStep ==
  ASSUME FreshInv, [Next]_vars
  PROVE  FreshInv'
<1> USE DEF FreshInv, NeverSimulatesStaleSoftware
<1>1. CASE UNCHANGED suiteVars
  BY <1>1, SameTests DEF suiteVars, Build, BuildAt
<1>2. CASE Planned
  <2>1. command' = "planned" \/ (command' \in {"summary", "error", "registry-check"} /\ index' = 1)
    BY <1>2, AfterPlanCases DEF Planned
  <2> QED BY <1>2, <2>1 DEF Planned
<1>3. CASE CheckedRegistry
  <2>1. CASE Verdict = "pass"
    <3>1. /\ command' = FirstCommand(1, {}) /\ index' = 1
          /\ UNCHANGED <<request, built_apps, fresh, stale>>
      BY <1>3, <2>1 DEF CheckedRegistry
    <3> QED BY <3>1, FirstCommandHasBuild, SameTests
  <2>2. CASE Verdict # "pass"
    BY <1>3, <2>2 DEF CheckedRegistry
  <2> QED BY <2>1, <2>2
<1>4. CASE BuiltSoftware
  <2>1. CASE Verdict = "pass"
    <3>1. /\ built_apps' = built_apps \union {Build} /\ fresh' = fresh \union {Build}
          /\ command' = "simulation" /\ UNCHANGED <<request, index, stale>>
      BY <1>4, <2>1 DEF BuiltSoftware
    <3> QED BY <3>1, SameTests DEF Build
  <2>2. CASE Verdict # "pass"
    <3>1. /\ index' = index + 1 /\ command' = FirstCommand(index + 1, built_apps)
          /\ UNCHANGED <<request, built_apps, fresh, stale>>
      BY <1>4, <2>2 DEF BuiltSoftware
    <3> QED BY <3>1, FirstCommandHasBuild, SameTests
  <2> QED BY <2>1, <2>2
<1>5. CASE Simulated
  <2>1. /\ index' = index + 1 /\ command' = FirstCommand(index + 1, built_apps)
        /\ UNCHANGED <<request, built_apps, fresh>>
    BY <1>5 DEF Simulated
  <2>2. Build \in fresh \union {Null}
    BY <1>5 DEF Simulated
  <2>3. stale' = stale
    BY <1>5, <2>2 DEF Simulated
  <2> QED BY <2>1, <2>3, FirstCommandHasBuild, SameTests
<1> QED
  BY <1>1, <1>2, <1>3, <1>4, <1>5 DEF Next, Suite, Start, Runs, vars

\* A simulation never passes on software an earlier regression left behind.
THEOREM SimulatesFreshSoftware == Spec => []NeverSimulatesStaleSoftware
<1>1. Init => FreshInv
  <2> SUFFICES ASSUME Init PROVE FreshInv
    OBVIOUS
  <2>1. command \in {"error", "planned", "summary", "registry-check"}
    BY AfterPlanCases DEF Init
  <2> QED BY <2>1 DEF Init, FreshInv, NeverSimulatesStaleSoftware
<1>2. FreshInv => NeverSimulatesStaleSoftware
  BY DEF FreshInv
<1> QED
  BY <1>1, <1>2, FreshStep, PTL DEF Spec

-----------------------------------------------------------------------------
(* While no command has failed, every command before the one at hand has passed *)
(* and has been counted.                                                         *)

AllPassed(done, what, n) == \A i \in 1 .. n : <<i, what>> \in done

Progress ==
  /\ command = "planned" =>
       /\ index \in 1 .. Len(Plan(request)) /\ AllPassed(passed, "planned", index - 1)
       /\ passes = index - 1 /\ built_apps = {}
  /\ command = "registry-check" =>
       /\ HasSuite(request) /\ AllPassed(passed, "planned", Len(Plan(request)))
       /\ index = 1 /\ passes = Len(Plan(request)) /\ built_apps = {}
  /\ command \in {"software", "simulation"} =>
       /\ HasSuite(request) /\ AllPassed(passed, "planned", Len(Plan(request)))
       /\ index \in 1 .. Len(Tests) /\ AllPassed(passed, "simulation", index - 1)
       /\ passes = Len(Plan(request)) + Cardinality(built_apps) + index
  /\ command = "software" => Build \notin built_apps
  /\ PassMeansAllSimulated

PassInv ==
  /\ request \in Requests
  /\ command # "error" => ~Refused(request)
  /\ IsFiniteSet(built_apps)
  /\ failures = {} => Progress

LEMMA Lengths ==
  ASSUME request \in Requests, ~Refused(request)
  PROVE  /\ Len(Plan(request)) \in Nat /\ Len(Tests) \in Nat
         /\ DOMAIN Plan(request) = 1 .. Len(Plan(request))
         /\ DOMAIN Tests = 1 .. Len(Tests)
         /\ Plan(request) # <<>> => Len(Plan(request)) > 0
<1>1. IsSequence(Plan(request)) /\ IsSequence(Tests)
  BY PlanAssumption DEF Tests
<1> DEFINE P == Plan(request)
<1>2. P \in Seq({P[i] : i \in DOMAIN P}) /\ Tests \in Seq({Tests[i] : i \in DOMAIN Tests})
  BY <1>1 DEF IsSequence
<1> HIDE DEF P
<1> QED BY <1>2 DEF P

\* A step of the loop that leaves no failure behind was of a command that passed.
LEMMA RecordPasses ==
  ASSUME Record, failures' = {}
  PROVE  /\ failures = {} /\ Verdict = "pass" /\ passes' = passes + 1
         /\ passed' = passed \union {<<index, command>>}
BY DEF Record

\* Where the loop over the tests goes, and what holds there.
LEMMA FirstCommandProgress ==
  ASSUME NEW i \in Nat \ {0}, NEW built, Len(Tests) \in Nat, i <= Len(Tests) + 1
  PROVE  \/ FirstCommand(i, built) = "summary" /\ i = Len(Tests) + 1
         \/ FirstCommand(i, built) = "simulation" /\ i \in 1 .. Len(Tests)
         \/ FirstCommand(i, built) = "software" /\ i \in 1 .. Len(Tests) /\ BuildAt(i) \notin built
<1>1. CASE i > Len(Tests)
  BY <1>1 DEF FirstCommand
<1>2. CASE i <= Len(Tests) /\ BuildAt(i) \in built \union {Null}
  <2>1. FirstCommand(i, built) = "simulation"
    BY <1>2 DEF FirstCommand
  <2> QED BY <1>2, <2>1
<1>3. CASE i <= Len(Tests) /\ BuildAt(i) \notin built \union {Null}
  <2>1. FirstCommand(i, built) = "software"
    BY <1>3 DEF FirstCommand
  <2> QED BY <1>3, <2>1
<1> QED BY <1>1, <1>2, <1>3

\* The command of the loop over the tests keeps the count at test i.
LEMMA ArriveAt ==
  ASSUME request' = request, request \in Requests, ~Refused(request), HasSuite(request),
         NEW i \in Nat \ {0}, i <= Len(Tests) + 1, IsFiniteSet(built_apps'),
         index' = i, command' = FirstCommand(i, built_apps'),
         AllPassed(passed', "planned", Len(Plan(request))), AllPassed(passed', "simulation", i - 1),
         passes' = Len(Plan(request)) + Cardinality(built_apps') + i
  PROVE  Progress'
<1>1. /\ Len(Tests) \in Nat /\ Len(Plan(request)) \in Nat
      /\ DOMAIN Plan(request) = 1 .. Len(Plan(request)) /\ DOMAIN Tests = 1 .. Len(Tests)
  BY Lengths
<1>2. Tests' = Tests /\ Build' = BuildAt(i)
  BY SameTests
<1>3. Cardinality(built_apps') \in Nat
  BY FS_CardinalityType
<1>4. CASE command' = "summary" /\ i = Len(Tests) + 1
  <2>1. PassMeansAllSimulated'
    BY <1>1, <1>2, <1>3, <1>4 DEF PassMeansAllSimulated, AllPassed
  <2> QED BY <1>4, <2>1 DEF Progress
<1>5. CASE command' = "simulation" /\ i \in 1 .. Len(Tests)
  BY <1>2, <1>5 DEF Progress, PassMeansAllSimulated
<1>6. CASE command' = "software" /\ i \in 1 .. Len(Tests) /\ BuildAt(i) \notin built_apps'
  BY <1>2, <1>6 DEF Progress, PassMeansAllSimulated
<1> QED BY <1>1, <1>4, <1>5, <1>6, FirstCommandProgress

\* A step keeps the count while it leaves no failure behind.
LEMMA PassStep ==
  ASSUME PassInv, [Next]_vars
  PROVE  PassInv'
<1> USE DEF PassInv
<1>1. CASE UNCHANGED suiteVars
  <2>1. UNCHANGED <<request, index, command, built_apps, failures, passes, passed>>
    BY <1>1 DEF suiteVars
  <2>2. Tests' = Tests /\ Build' = Build
    BY <2>1, SameTests DEF Build
  <2>3. PassMeansAllSimulated => PassMeansAllSimulated'
    BY <2>1, <2>2 DEF PassMeansAllSimulated
  <2>4. Progress => Progress'
    BY <2>1, <2>2, <2>3 DEF Progress
  <2> QED BY <2>1, <2>4
<1>2. CASE Planned
  <2>1. /\ UNCHANGED <<request, built_apps>> /\ command = "planned" /\ Record
        /\ command' \in {"planned", "summary", "error", "registry-check"}
    BY <1>2, AfterPlanCases DEF Planned
  <2>2. ASSUME failures' = {} PROVE Progress'
    <3>1. Progress /\ passes' = passes + 1 /\ passed' = passed \union {<<index, "planned">>}
      BY <2>1, <2>2, RecordPasses
    <3>2. /\ index \in 1 .. Len(Plan(request)) /\ AllPassed(passed, "planned", index - 1)
          /\ passes = index - 1 /\ built_apps = {}
      BY <2>1, <3>1 DEF Progress
    <3>3. Len(Plan(request)) \in Nat /\ DOMAIN Plan(request) = 1 .. Len(Plan(request))
      BY <2>1, Lengths
    <3>4. AllPassed(passed', "planned", index) /\ passes' = index
      <4>1. \A i \in 1 .. index : i \in 1 .. index - 1 \/ i = index
        BY <3>2, <3>3
      <4> QED BY <3>1, <3>2, <4>1 DEF AllPassed
    <3>5. CASE index < Len(Plan(request))
      <4>1. index' = index + 1 /\ command' = "planned"
        BY <1>2, <2>1, <3>5 DEF Planned
      <4>2. AllPassed(passed', "planned", index' - 1)
        <5>1. index' - 1 = index
          BY <3>2, <3>3, <4>1
        <5> QED BY <3>4, <5>1
      <4>3. /\ index' \in 1 .. Len(Plan(request)) /\ passes' = index' - 1
            /\ built_apps' = {} /\ request' = request
        BY <2>1, <3>2, <3>3, <3>4, <3>5, <4>1
      <4> QED BY <4>1, <4>2, <4>3 DEF Progress, PassMeansAllSimulated
    <3>6. CASE ~(index < Len(Plan(request)))
      <4>1. index' = 1 /\ command' = AfterPlan /\ index = Len(Plan(request))
        <5>1. index' = 1 /\ command' = AfterPlan
          BY <1>2, <3>6 DEF Planned
        <5>2. ASSUME NEW n \in Nat, index \in 1 .. n, ~(index < n) PROVE index = n
          BY <5>2
        <5>3. index = Len(Plan(request))
          BY <3>2, <3>3, <3>6, <5>2
        <5> QED BY <5>1, <5>3
      <4>2. AllPassed(passed', "planned", Len(Plan(request)))
        BY <2>1, <3>4, <4>1 DEF AllPassed
      <4>3. /\ command' = "registry-check" => HasSuite(request)
            /\ command' = "summary" => ~HasSuite(request)
            /\ command' \in {"summary", "error", "registry-check"}
        BY <4>1, AfterPlanCases DEF AfterPlan
      <4>4. PassMeansAllSimulated'
        BY <2>1, <3>3, <3>4, <4>1, <4>2, <4>3 DEF PassMeansAllSimulated, AllPassed
      <4> QED BY <2>1, <3>2, <3>4, <4>1, <4>2, <4>3, <4>4 DEF Progress
    <3> QED BY <3>5, <3>6
  <2> QED BY <2>1, <2>2
<1>3. CASE CheckedRegistry
  <2>1. /\ UNCHANGED <<request, built_apps, index>> /\ command = "registry-check" /\ Record
    BY <1>3 DEF CheckedRegistry
  <2>2. ASSUME failures' = {} PROVE Progress'
    <3>1. /\ Progress /\ passes' = passes + 1 /\ passed \subseteq passed'
          /\ Verdict = "pass"
      BY <2>1, <2>2, RecordPasses
    <3>2. /\ HasSuite(request) /\ AllPassed(passed, "planned", Len(Plan(request))) /\ index = 1
          /\ passes = Len(Plan(request)) /\ built_apps = {}
      BY <2>1, <3>1 DEF Progress
    <3>3. command' = FirstCommand(1, {})
      BY <1>3, <3>1 DEF CheckedRegistry
    <3>4. Len(Plan(request)) \in Nat /\ Len(Tests) \in Nat
      BY <2>1, Lengths
    <3>5. Cardinality(built_apps') = 0
      BY <2>1, <3>2, FS_EmptySet
    <3>6. AllPassed(passed', "planned", Len(Plan(request))) /\ AllPassed(passed', "simulation", 1 - 1)
      BY <2>1, <3>1, <3>2 DEF AllPassed
    <3> QED BY <2>1, <3>1, <3>2, <3>3, <3>4, <3>5, <3>6, ArriveAt
  <2> QED BY <2>1, <2>2
<1>4. CASE BuiltSoftware
  <2>1. /\ request' = request /\ command = "software" /\ Record
        /\ built_apps' \in {built_apps, built_apps \union {Build}}
    BY <1>4 DEF BuiltSoftware
  <2>2. IsFiniteSet(built_apps')
    BY <2>1, FS_AddElement
  <2>3. ASSUME failures' = {} PROVE Progress'
    <3>1. /\ Progress /\ passes' = passes + 1 /\ passed \subseteq passed'
          /\ Verdict = "pass"
      BY <2>1, <2>3, RecordPasses
    <3>2. /\ built_apps' = built_apps \union {Build} /\ command' = "simulation"
          /\ index' = index
      BY <1>4, <3>1 DEF BuiltSoftware
    <3>3. /\ HasSuite(request) /\ AllPassed(passed, "planned", Len(Plan(request))) /\ Build \notin built_apps
          /\ index \in 1 .. Len(Tests) /\ AllPassed(passed, "simulation", index - 1)
          /\ passes = Len(Plan(request)) + Cardinality(built_apps) + index
      BY <2>1, <3>1 DEF Progress
    <3>4. /\ Cardinality(built_apps') = Cardinality(built_apps) + 1
          /\ Cardinality(built_apps) \in Nat
      BY <3>2, <3>3, FS_AddElement, FS_CardinalityType
    <3>5. Len(Plan(request)) \in Nat /\ Len(Tests) \in Nat
      BY <2>1, Lengths
    <3>6. passes' = Len(Plan(request)) + Cardinality(built_apps') + index
      BY <3>1, <3>3, <3>4, <3>5
    <3>7. AllPassed(passed', "planned", Len(Plan(request))) /\ AllPassed(passed', "simulation", index' - 1) /\ Tests' = Tests
      BY <2>1, <3>1, <3>2, <3>3, SameTests DEF AllPassed
    <3> QED BY <2>1, <3>2, <3>3, <3>6, <3>7 DEF Progress, PassMeansAllSimulated
  <2> QED BY <2>1, <2>2, <2>3
<1>5. CASE Simulated
  <2>1. /\ UNCHANGED <<request, built_apps>> /\ command = "simulation" /\ Record
        /\ index' = index + 1 /\ command' = FirstCommand(index + 1, built_apps)
    BY <1>5 DEF Simulated
  <2>2. ASSUME failures' = {} PROVE Progress'
    <3>1. Progress /\ passes' = passes + 1 /\ passed' = passed \union {<<index, "simulation">>}
      BY <2>1, <2>2, RecordPasses
    <3>2. /\ HasSuite(request) /\ AllPassed(passed, "planned", Len(Plan(request)))
          /\ index \in 1 .. Len(Tests) /\ AllPassed(passed, "simulation", index - 1)
          /\ passes = Len(Plan(request)) + Cardinality(built_apps) + index
      BY <2>1, <3>1 DEF Progress
    <3>3. Len(Plan(request)) \in Nat /\ Len(Tests) \in Nat /\ Cardinality(built_apps) \in Nat
      BY <2>1, Lengths, FS_CardinalityType
    <3>4. \A i \in 1 .. index : i \in 1 .. index - 1 \/ i = index
      BY <3>2, <3>3
    <3>5. AllPassed(passed', "planned", Len(Plan(request))) /\ AllPassed(passed', "simulation", (index + 1) - 1)
      <4>1. AllPassed(passed', "planned", Len(Plan(request)))
        BY <2>1, <3>1, <3>2 DEF AllPassed
      <4>2. AllPassed(passed', "simulation", index)
        BY <3>1, <3>2, <3>4 DEF AllPassed
      <4>3. (index + 1) - 1 = index
        BY <3>2, <3>3
      <4> QED BY <4>1, <4>2, <4>3
    <3>6. /\ index + 1 \in Nat \ {0} /\ index + 1 <= Len(Tests) + 1
          /\ passes' = Len(Plan(request)) + Cardinality(built_apps') + (index + 1)
      BY <2>1, <3>1, <3>2, <3>3
    <3> QED BY <2>1, <3>2, <3>5, <3>6, ArriveAt
  <2> QED BY <2>1, <2>2
<1> QED
  BY <1>1, <1>2, <1>3, <1>4, <1>5 DEF Next, Suite, Start, Runs, vars

\* Exit status 0 means that every planned command and every selected test passed.
THEOREM PassIsComplete == Spec => []PassMeansAllSimulated
<1>1. Init => PassInv
  <2> SUFFICES ASSUME Init PROVE PassInv
    OBVIOUS
  <2>1. /\ request \in Requests /\ index = 1 /\ built_apps = {} /\ passes = 0
        /\ IsFiniteSet(built_apps)
    BY FS_EmptySet DEF Init
  <2>2. CASE Refused(request)
    <3>1. command = "error"
      BY <2>2 DEF Init
    <3> QED BY <2>1, <3>1 DEF PassInv, Progress, PassMeansAllSimulated
  <2>3. CASE ~Refused(request) /\ Plan(request) # <<>>
    <3>1. command = "planned"
      BY <2>3 DEF Init
    <3> QED BY <2>1, <2>3, <3>1, Lengths
            DEF PassInv, Progress, PassMeansAllSimulated, AllPassed
  <2>4. CASE ~Refused(request) /\ Plan(request) = <<>>
    <3>1. command = AfterPlan
      BY <2>4 DEF Init
    <3>2. /\ command = "registry-check" => HasSuite(request)
          /\ command = "summary" => ~HasSuite(request)
          /\ command \in {"summary", "error", "registry-check"}
      BY <3>1, AfterPlanCases DEF AfterPlan
    <3>3. Len(Plan(request)) = 0 /\ DOMAIN Plan(request) = {}
      BY <2>4
    <3> QED BY <2>1, <2>4, <3>2, <3>3
            DEF PassInv, Progress, PassMeansAllSimulated, AllPassed
  <2> QED BY <2>2, <2>3, <2>4
<1>2. PassInv => PassMeansAllSimulated
  BY DEF PassInv, Progress, PassMeansAllSimulated
<1> QED
  BY <1>1, <1>2, PassStep, PTL DEF Spec

-----------------------------------------------------------------------------
(* The types.  Software is built only for a test of the suite that names a build. *)

TypeInv ==
  /\ TypeOK
  /\ command = "software" => Build \in Builds
  /\ command = "registry-check" => index = 1

LEMMA TestsLength ==
  ASSUME request \in Requests
  PROVE  Len(Tests) \in Nat /\ DOMAIN Tests = 1 .. Len(Tests)
<1>1. IsSequence(Tests)
  BY PlanAssumption DEF Tests
<1>2. Tests \in Seq({Tests[i] : i \in DOMAIN Tests})
  BY <1>1 DEF IsSequence
<1> HIDE DEF Tests
<1> QED BY <1>2

\* A step of a thread, of the group or of the loop keeps the command in its states.
LEMMA RunTypeStep ==
  ASSUME RunTypeOK, [Next]_vars
  PROVE  RunTypeOK'
<1> USE DEF RunTypeOK
<1>1. CASE UNCHANGED runVars
  BY <1>1 DEF runVars
<1>2. CASE Start
  BY <1>2 DEF Start, Popen
<1>3. CASE Planned \/ CheckedRegistry \/ BuiltSoftware \/ Simulated
  BY <1>3 DEF Planned, CheckedRegistry, BuiltSoftware, Simulated, Judge
<1>4. CASE Runner
  BY <1>4 DEF Runner, EndOfFile, Wait, Cancel
<1>5. CASE Timer
  <2>1. CASE Fire
    BY <2>1 DEF Fire
  <2>2. CASE SetTimedOut
    BY <2>2 DEF SetTimedOut
  <2>3. CASE Kill
    BY <2>3 DEF Kill
  <2> QED BY <1>5, <2>1, <2>2, <2>3 DEF Timer
<1>6. CASE Group
  <2>1. CASE Fork
    BY <2>1 DEF Fork
  <2>2. CASE Exit
    BY <2>2 DEF Exit
  <2> QED BY <1>6, <2>1, <2>2 DEF Group
<1> QED
  BY <1>1, <1>2, <1>3, <1>4, <1>5, <1>6 DEF Next, Suite, Runs, vars

\* The loop builds software only where a test names a build.
LEMMA FirstCommandType ==
  ASSUME request \in Requests, NEW i \in Nat \ {0}, NEW built
  PROVE  /\ FirstCommand(i, built) \in {"summary", "simulation", "software"}
         /\ FirstCommand(i, built) = "software" => BuildAt(i) \in Builds
<1>1. FirstCommand(i, built) \in {"summary", "simulation", "software"}
  BY DEF FirstCommand
<1>2. ASSUME FirstCommand(i, built) = "software" PROVE BuildAt(i) \in Builds
  <2>1. ~(i > Len(Tests)) /\ BuildAt(i) # Null
    BY <1>2 DEF FirstCommand
  <2>2. i \in DOMAIN Tests
    BY <2>1, TestsLength
  <2> QED BY <2>1, <2>2 DEF Builds
<1> QED BY <1>1, <1>2

\* What a command records is recorded under its place and its name.
LEMMA RecordType ==
  ASSUME TypeInv, command \in Commands, Record
  PROVE  /\ failures' \subseteq (Nat \X Commands) /\ passed' \subseteq (Nat \X Commands)
         /\ passes' \in Nat
<1>1. <<index, command>> \in Nat \X Commands
  BY DEF TypeInv, TypeOK
<1> QED BY <1>1 DEF Record, TypeInv, TypeOK

LEMMA TypeStep ==
  ASSUME TypeInv, [Next]_vars
  PROVE  TypeInv'
<1>1. RunTypeOK'
  BY RunTypeStep DEF TypeInv, TypeOK
<1>2. /\ request \in Requests /\ index \in Nat \ {0}
      /\ command \in Commands \union {"summary", "error"}
      /\ built_apps \subseteq Builds /\ fresh \subseteq Builds
      /\ failures \subseteq (Nat \X Commands) /\ passed \subseteq (Nat \X Commands)
      /\ passes \in Nat /\ (command = "software" => Build \in Builds)
      /\ (command = "registry-check" => index = 1)
  BY DEF TypeInv, TypeOK
<1>3. ASSUME request' = request PROVE Builds' = Builds
  BY <1>3 DEF Builds, BuildAt, Tests
<1>4. CASE UNCHANGED suiteVars
  <2>1. UNCHANGED suiteVars /\ request' = request /\ Builds' = Builds /\ Build' = Build
    BY <1>3, <1>4, SameTests DEF suiteVars, Build
  <2> QED BY <1>1, <1>2, <2>1 DEF suiteVars, TypeInv, TypeOK
<1>5. ASSUME request' = request, index' \in Nat \ {0},
             command' \in Commands \union {"summary", "error"},
             command' = "software" => BuildAt(index') \in Builds,
             command' = "registry-check" => index' = 1,
             built_apps' \subseteq Builds, fresh' \subseteq Builds,
             Record, command \in Commands
      PROVE  TypeInv'
  <2>1. /\ failures' \subseteq (Nat \X Commands) /\ passed' \subseteq (Nat \X Commands)
        /\ passes' \in Nat
    BY <1>5, RecordType
  <2>2. Builds' = Builds /\ Build' = BuildAt(index')
    BY <1>3, <1>5, SameTests
  <2> QED BY <1>1, <1>2, <1>5, <2>1, <2>2 DEF TypeInv, TypeOK
<1>6. /\ index + 1 \in Nat \ {0} /\ 1 \in Nat \ {0}
      /\ {"planned", "registry-check", "software", "simulation"} = Commands
  BY <1>2 DEF Commands
<1>7. CASE Planned
  <2>1. /\ request' = request /\ built_apps' = built_apps /\ fresh' = fresh
        /\ Record /\ command = "planned"
        /\ index' \in Nat \ {0} /\ command' \in {"planned", "summary", "error", "registry-check"}
        /\ command' = "planned" \/ index' = 1
    BY <1>6, <1>7, AfterPlanCases DEF Planned
  <2>2. command' # "software" /\ command' \in Commands \union {"summary", "error"}
    BY <2>1 DEF Commands
  <2> QED BY <1>2, <1>5, <1>6, <2>1, <2>2
<1>8. CASE CheckedRegistry
  <2>1. /\ request' = request /\ built_apps' = built_apps /\ fresh' = fresh
        /\ Record /\ command = "registry-check" /\ index' = index
        /\ command' = IF Verdict = "pass" THEN FirstCommand(1, {}) ELSE "summary"
    BY <1>8 DEF CheckedRegistry
  <2>2. /\ FirstCommand(1, {}) \in {"summary", "simulation", "software"}
        /\ FirstCommand(1, {}) = "software" => BuildAt(1) \in Builds
    BY <1>2, <1>6, FirstCommandType
  <2>3. CASE Verdict = "pass"
    BY <1>2, <1>5, <1>6, <2>1, <2>2, <2>3
  <2>4. CASE Verdict # "pass"
    BY <1>2, <1>5, <1>6, <2>1, <2>4
  <2> QED BY <2>3, <2>4
<1>9. CASE BuiltSoftware
  <2>1. /\ request' = request /\ Record /\ command = "software" /\ Build \in Builds
        /\ \/ /\ built_apps' = built_apps \union {Build} /\ fresh' = fresh \union {Build}
              /\ command' = "simulation" /\ index' = index
           \/ /\ index' = index + 1 /\ command' = FirstCommand(index + 1, built_apps)
              /\ built_apps' = built_apps /\ fresh' = fresh
    BY <1>2, <1>9 DEF BuiltSoftware
  <2>2. built_apps' \subseteq Builds /\ fresh' \subseteq Builds
    BY <1>2, <2>1
  <2>3. /\ FirstCommand(index + 1, built_apps) \in {"summary", "simulation", "software"}
        /\ FirstCommand(index + 1, built_apps) = "software" => BuildAt(index + 1) \in Builds
    BY <1>2, <1>6, FirstCommandType
  <2> QED BY <1>2, <1>5, <1>6, <2>1, <2>2, <2>3
<1>10. CASE Simulated
  <2>1. /\ request' = request /\ Record /\ command = "simulation"
        /\ index' = index + 1 /\ command' = FirstCommand(index + 1, built_apps)
        /\ built_apps' = built_apps /\ fresh' = fresh
    BY <1>10 DEF Simulated
  <2>2. /\ FirstCommand(index + 1, built_apps) \in {"summary", "simulation", "software"}
        /\ FirstCommand(index + 1, built_apps) = "software" => BuildAt(index + 1) \in Builds
    BY <1>2, <1>6, FirstCommandType
  <2> QED BY <1>2, <1>5, <1>6, <2>1, <2>2
<1> QED
  BY <1>4, <1>7, <1>8, <1>9, <1>10 DEF Next, Suite, Start, Runs, vars

\* What a regression remembers is of its own tests, and its threads keep to their states.
THEOREM TypeCorrect == Spec => []TypeOK
<1>1. Init => TypeInv
  <2> SUFFICES ASSUME Init PROVE TypeInv
    OBVIOUS
  <2>1. RunTypeOK
    BY DEF Init, RunInit, RunTypeOK
  <2>2. command \in {"error", "planned", "summary", "registry-check"}
    BY AfterPlanCases DEF Init
  <2>3. command # "software" /\ command \in Commands \union {"summary", "error"}
    BY <2>2 DEF Commands
  <2>4. /\ request \in Requests /\ index = 1 /\ index \in Nat \ {0} /\ passes \in Nat
        /\ built_apps = {} /\ fresh = {} /\ failures = {} /\ passed = {}
    BY DEF Init
  <2> QED BY <2>1, <2>3, <2>4 DEF TypeInv, TypeOK
<1>2. TypeInv => TypeOK
  BY DEF TypeInv
<1> QED
  BY <1>1, <1>2, TypeStep, PTL DEF Spec
=============================================================================
