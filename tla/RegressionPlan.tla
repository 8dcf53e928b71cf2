--------------------------- MODULE RegressionPlan ---------------------------
(***************************************************************************)
(* What a request to scripts/run_regression.py asks for: the commands to run *)
(* before the reference suite, and the tests of tests.json the suite is of.  *)
(***************************************************************************)
EXTENDS Naturals, Sequences

CONSTANTS
  Manifest,     \* the entries of tests.json, in order
  Designs,      \* the registered designs by id, each with its tests; or Unreadable
  Unreadable,   \* load_registry refuses the registry
  DesignZero,   \* the reference design, as the design of a request
  Null,         \* a field or an option that is not given
  Wrong,        \* a value of a type or form that is not accepted
  TestFields    \* the fields of a test that become make variables

\* load_reference_tests.  The variables of an entry and the image are text.
EntryLoads(entry) ==
  /\ entry.name # Wrong /\ entry.image # Wrong
  /\ entry.variables \subseteq TestFields
  /\ \/ entry.build = Null
     \/ /\ entry.build # Wrong /\ DOMAIN entry.build = {"app", "drivers", "link_target"}
        /\ entry.build.app # Wrong /\ entry.build.link_target # Wrong
        /\ entry.build.drivers \notin {Wrong, <<>>}

ManifestLoads ==
  /\ Manifest # <<>>
  /\ \A i \in DOMAIN Manifest :
       EntryLoads(Manifest[i]) /\ \A j \in 1 .. i - 1 : Manifest[j].name # Manifest[i].name

\* what make is called with to build an entry's software; Null if it needs none
BuildVariables(entry) == entry.build

-----------------------------------------------------------------------------
(* A request: [mode, design, test, timeout]. *)

\* lint and every declared test of each design
DesignCommands ==
  LET upto[i \in 0 .. Len(Designs)] ==
        IF i = 0 THEN <<>>
        ELSE LET d == Designs[i] IN
             upto[i - 1] \o <<<<d.id, "lint">>>>
               \o [t \in DOMAIN d.tests |-> <<d.id, d.tests[t].kind, d.tests[t].name>>]
  IN upto[Len(Designs)]

RootCommands ==
  <<<<"root", "lint">>, <<"root", "manifest">>, <<"root", "control">>,
    <<"root", "io-contention">>>>

\* of a design that is loaded by its path, registered or not
FrameTests(request) ==
  SelectSeq(request.design.tests,
            LAMBDA t : t.kind = "frame" /\ request.test \in {Null, t.name})

Regression(request) == request.mode \in {"fast", "full"}
OneDesign(request) == request.mode = "frame" /\ request.design # DesignZero

\* what is refused before any command runs
Refused(request) ==
  \/ Regression(request) /\ Designs = Unreadable
  \/ OneDesign(request) /\ FrameTests(request) = <<>>

Plan(request) ==
  CASE Regression(request) -> RootCommands \o DesignCommands
    [] OneDesign(request) -> <<<<"frame", FrameTests(request)[1].name>>>>
    [] OTHER -> <<>>

\* whether the reference suite follows, and which tests it is of
HasSuite(request) ==
  \/ request.mode \in {"reference", "full"}
  \/ request.mode = "frame" /\ ~OneDesign(request)

SelectedTest(request) ==
  CASE request.mode = "full" -> Null
    [] request.mode = "frame" /\ request.test = Null -> "boot"
    [] OTHER -> request.test

SuiteTests(request) ==
  SelectSeq(Manifest, LAMBDA entry : SelectedTest(request) \in {Null, entry.name})

SuiteRefused(request) == ~ManifestLoads \/ SuiteTests(request) = <<>>

\* only `reference` has a --timeout
TimeoutOf(request) == request.mode = "reference" /\ request.timeout
=============================================================================
