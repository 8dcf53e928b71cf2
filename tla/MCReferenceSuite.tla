-------------------------- MODULE MCReferenceSuite --------------------------
(* Three reference tests, two of which use the same software, and one design. *)
EXTENDS ReferenceSuite, TLC
CONSTANTS cc, sim
GpioBuild == [app |-> "gpio", drivers |-> <<"gpio">>, link_target |-> "xip"]
Entry(n, b) ==
  [name |-> n, image |-> "image", variables |-> {"max_cycles"}, build |-> b]
MCManifest == <<Entry("gpio", GpioBuild), Entry("boot", Null), Entry("gpio2", GpioBuild)>>
MCDesign ==
  [id |-> "design-1", tests |-> <<[kind |-> "unit", name |-> "io"], [kind |-> "frame", name |-> "frame"]>>]
MCDesigns == <<MCDesign>>
Ask(mode, design, test, timeout) ==
  [mode |-> mode, design |-> design, test |-> test, timeout |-> timeout]
MCRequests ==
  {Ask("reference", Null, Null, TRUE), Ask("reference", Null, "gpio", FALSE),
   Ask("reference", Null, "none", TRUE), Ask("frame", DesignZero, Null, FALSE),
   Ask("frame", MCDesign, "frame", FALSE), Ask("frame", MCDesign, "io", FALSE),
   Ask("fast", Null, Null, FALSE), Ask("full", Null, Null, FALSE)}
=============================================================================
