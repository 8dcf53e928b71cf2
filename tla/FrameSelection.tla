--------------------------- MODULE FrameSelection ---------------------------
(***************************************************************************)
(* What FrameTop promises to somebody who only sees the reset pin, the      *)
(* selector pads and the design that owns the payload pads                  *)
(* (docs/en/design-control.md, "Selection sequence"):                       *)
(*                                                                          *)
(*   - releasing reset picks the registered design named by the pads at     *)
(*     that moment, or nobody;                                              *)
(*   - the picked design is clocked in reset at least RESET_RELEASE_CYCLES  *)
(*     times before it runs;                                                *)
(*   - nothing but a new reset ends a run, whatever the pads do meanwhile.  *)
(***************************************************************************)
EXTENDS Integers

CONSTANTS
  DesignIds,              \* the values the selector pads can carry
  PRESENT,                \* the registered designs, among DesignIds
  NoDesign,               \* "nobody is selected", not among DesignIds
  RESET_RELEASE_CYCLES    \* clock edges a design receives in reset before it runs

VARIABLES
  pads,      \* the selector pads
  phase,     \* "reset", "holding" (released, design still in reset) or "running"
  design,    \* the picked design
  held       \* edges it received in reset, counted up to RESET_RELEASE_CYCLES

selection == <<pads, phase, design, held>>

Decode(id) == IF id \in PRESENT THEN id ELSE NoDesign

Init ==
  /\ pads \in DesignIds
  /\ phase = "reset" /\ design = NoDesign /\ held = 0

\* The pads may move with every step, and on their own.
PadsMove ==
  /\ pads' \in DesignIds
  /\ UNCHANGED <<phase, design, held>>

Release ==
  /\ phase = "reset" /\ phase' = "holding"
  /\ design' = Decode(pads)
  /\ held' = 0
  /\ pads' \in DesignIds

HoldEdge ==
  /\ phase = "holding" /\ design # NoDesign
  /\ held' = IF held < RESET_RELEASE_CYCLES THEN held + 1 ELSE held
  /\ \/ phase' = "holding"
     \/ phase' = "running" /\ held' = RESET_RELEASE_CYCLES
  /\ pads' \in DesignIds
  /\ UNCHANGED design

Reset ==
  /\ phase # "reset" /\ phase' = "reset"
  /\ design' = NoDesign
  /\ held' = 0
  /\ pads' \in DesignIds

Next == PadsMove \/ Release \/ HoldEdge \/ Reset

Spec == Init /\ [][Next]_selection
=============================================================================
