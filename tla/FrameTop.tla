------------------------------ MODULE FrameTop ------------------------------
(***************************************************************************)
(* FrameTop.sv with FrameDesignControl, one FrameClockGate per slot, the    *)
(* generated registry's presence mask and DesignIoMux, at the level of      *)
(* clock phases.  A step is a clock edge, or a reset or selector change in  *)
(* the middle of a phase.  A reset or selector change may also coincide     *)
(* with a rising edge: the registers then sample the new reset (as the      *)
(* Verilated top does when both inputs change before one eval), and the     *)
(* first synchronizer stage captures any value at all.                      *)
(*                                                                          *)
(* Sets of designs stand for the one-bit-per-slot vectors of the RTL.       *)
(***************************************************************************)
EXTENDS Integers

CONSTANTS
  DESIGN_COUNT,           \* slots of the frame
  ID_LIMIT,               \* 2^DESIGN_ID_WIDTH
  PRESENT,                \* design_present: the slots the registry fills
  RESET_RELEASE_CYCLES,
  RELEASE_COUNT_MAX,      \* largest value of the release_count register
  MIN_RESET_EDGES,        \* contract: rising edges reset lasts
  MIN_STABLE_EDGES,       \* contract: rising edges the selector is stable before release
  NoDesign

DesignIds == 0 .. ID_LIMIT - 1
Designs == 0 .. DESIGN_COUNT - 1

ASSUME FrameAssumption ==
  /\ DESIGN_COUNT \in Nat \ {0} /\ ID_LIMIT \in Nat /\ DESIGN_COUNT <= ID_LIMIT
  /\ PRESENT \subseteq Designs
  /\ RESET_RELEASE_CYCLES \in Nat \ {0}   \* $clog2 leaves release_count no bit for 0
  /\ RELEASE_COUNT_MAX \in Nat
  /\ RESET_RELEASE_CYCLES <= RELEASE_COUNT_MAX
  /\ MIN_RESET_EDGES \in Nat \ {0} /\ MIN_STABLE_EDGES \in Nat
  /\ NoDesign \notin DesignIds

VARIABLES
  \* pins
  clock, reset, async_design_id,
  \* registers of FrameDesignControl
  design_id_meta, design_id_sync, gate_armed, release_count,
  \* the latches of the clock gates
  enable_latched,
  \* history: what the contract and the properties talk about
  reset_edges,     \* rising edges seen by the current reset, up to MIN_RESET_EDGES
  stable_edges,    \* those among them since the selector last moved, up to MIN_STABLE_EDGES
  requested,       \* the selector pads when reset was last released
  hold_edges       \* per design: gated edges received in reset since reset was last
                   \* asserted, up to RESET_RELEASE_CYCLES

pins == <<clock, reset, async_design_id>>
registers == <<design_id_meta, design_id_sync, gate_armed, release_count>>
history == <<reset_edges, stable_edges, requested, hold_edges>>
vars == <<pins, registers, enable_latched, history>>

-----------------------------------------------------------------------------
(* The combinational logic. *)

design_selected ==
  IF ~reset /\ design_id_sync < DESIGN_COUNT /\ design_id_sync \in PRESENT
    THEN {design_id_sync} ELSE {}

\* (a variant with a bug, for the mutation checks: one release cycle too few)
valid_one_cycle_early ==
  /\ ~reset /\ gate_armed
  /\ release_count >= RESET_RELEASE_CYCLES - 1
  /\ design_selected # {}

selection_valid ==
  /\ ~reset /\ gate_armed
  /\ release_count = RESET_RELEASE_CYCLES
  /\ design_selected # {}

design_clock_enable == design_selected

design_reset ==
  {d \in Designs : reset \/ ~selection_valid \/ d \notin design_selected}

gated_clock == IF clock THEN enable_latched ELSE {}

\* The designs whose outputs reach the payload pads, every registered design
\* driving its outputs all the time and the registry tying off the other slots.
io_oe == {d \in PRESENT : selection_valid /\ design_id_sync = d}

-----------------------------------------------------------------------------
(* The steps. *)

UpTo(limit, n) == IF n < limit THEN n + 1 ELSE n

Init ==
  /\ clock = FALSE /\ reset = TRUE /\ async_design_id \in DesignIds
  \* nothing initializes the registers: they power up with any value
  /\ design_id_meta \in DesignIds /\ design_id_sync \in DesignIds
  /\ gate_armed \in BOOLEAN /\ release_count \in 0 .. RELEASE_COUNT_MAX
  /\ enable_latched = design_clock_enable
  /\ reset_edges = 0 /\ stable_edges = 0 /\ requested = async_design_id
  /\ hold_edges = [d \in Designs |-> 0]

\* Variants of the steps below with a bug, for the mutation checks: a gate enable
\* captured only as the clock falls; a plain AND gate; a synchronizer that reset
\* does not freeze; a sequencer without the arming cycle, one that stops a cycle
\* short and one that never stops.
CaptureAtFall ==
  enable_latched' = IF clock /\ ~clock' THEN design_clock_enable' ELSE enable_latched
AndGate == enable_latched' = design_clock_enable'
SampleAlways ==
  /\ design_id_meta' \in IF async_design_id' = async_design_id
                             THEN {async_design_id} ELSE DesignIds
  /\ design_id_sync' = design_id_meta
CountFrom(first, limit) ==
  \/ /\ reset'
     /\ gate_armed' = FALSE /\ release_count' = 0
  \/ /\ ~reset' /\ ~gate_armed
     /\ gate_armed' = TRUE /\ release_count' = release_count + first
  \/ /\ ~reset' /\ gate_armed
     /\ release_count' = UpTo(limit, release_count)
     /\ UNCHANGED gate_armed
ReleaseWithoutArming == CountFrom(1, RESET_RELEASE_CYCLES)
ReleaseNeverDone == CountFrom(0, RESET_RELEASE_CYCLES - 1)
ReleaseUnbounded == CountFrom(0, RELEASE_COUNT_MAX + 1)

\* always_latch: transparent while the clock is low
LatchEnable == enable_latched' = IF clock' THEN enable_latched ELSE design_clock_enable'

\* The selector synchronizer, at a rising edge.  Bits that move with the edge
\* are captured independently of each other.
SampleSelector ==
  IF reset'
    THEN /\ design_id_meta' \in IF async_design_id' = async_design_id
                                  THEN {async_design_id} ELSE DesignIds
         /\ design_id_sync' = design_id_meta
    ELSE UNCHANGED <<design_id_meta, design_id_sync>>

\* The release sequencer, at a rising edge.
SequenceRelease ==
  \/ /\ reset'
     /\ gate_armed' = FALSE /\ release_count' = 0
  \/ /\ ~reset' /\ ~gate_armed
     /\ gate_armed' = TRUE /\ UNCHANGED release_count
  \/ /\ ~reset' /\ gate_armed
     /\ release_count' = UpTo(RESET_RELEASE_CYCLES, release_count)
     /\ UNCHANGED gate_armed

\* What the designs see: a gated edge that finds design_reset asserted.
CountHoldEdges ==
  hold_edges' = [d \in Designs |->
    IF reset' /\ ~reset THEN 0
    ELSE IF d \in gated_clock' \ gated_clock /\ d \in design_reset
      THEN UpTo(RESET_RELEASE_CYCLES, hold_edges[d])
      ELSE hold_edges[d]]

\* The user of the chip keeps the external contract.
MayRelease ==
  reset /\ reset_edges >= MIN_RESET_EDGES /\ stable_edges >= MIN_STABLE_EDGES

DriveReset ==
  /\ reset' \in BOOLEAN
  /\ (reset /\ ~reset') => MayRelease
  /\ requested' = IF reset /\ ~reset' THEN async_design_id ELSE requested

RisingEdge ==
  /\ ~clock /\ clock' = TRUE
  /\ DriveReset
  /\ async_design_id' \in DesignIds
  /\ SampleSelector
  /\ SequenceRelease
  /\ LatchEnable
  /\ reset_edges' = IF reset' THEN UpTo(MIN_RESET_EDGES, reset_edges) ELSE 0
  /\ stable_edges' = IF reset' /\ async_design_id' = async_design_id
                       THEN UpTo(MIN_STABLE_EDGES, stable_edges) ELSE 0
  /\ CountHoldEdges

FallingEdge ==
  /\ clock /\ clock' = FALSE
  /\ UNCHANGED <<reset, async_design_id, registers, history>>
  /\ LatchEnable

\* reset moves in the middle of a clock phase
ChangeReset ==
  /\ DriveReset /\ reset' # reset
  /\ UNCHANGED <<clock, async_design_id, registers>>
  /\ LatchEnable
  /\ reset_edges' = 0 /\ stable_edges' = 0
  /\ CountHoldEdges

\* the selector pads move in the middle of a clock phase
MoveSelector ==
  /\ async_design_id' \in DesignIds /\ async_design_id' # async_design_id
  /\ stable_edges' = 0
  /\ UNCHANGED <<clock, reset, registers, enable_latched,
                 reset_edges, requested, hold_edges>>

Next == RisingEdge \/ FallingEdge \/ ChangeReset \/ MoveSelector

\* The clock never stops; nothing is assumed of the reset and selector pins.
Spec == Init /\ [][Next]_vars /\ WF_vars(RisingEdge) /\ WF_vars(FallingEdge)

-----------------------------------------------------------------------------
(* Properties. *)

TypeOK ==
  /\ clock \in BOOLEAN /\ reset \in BOOLEAN
  /\ async_design_id \in DesignIds /\ requested \in DesignIds
  /\ design_id_meta \in DesignIds /\ design_id_sync \in DesignIds
  /\ gate_armed \in BOOLEAN /\ release_count \in 0 .. RELEASE_COUNT_MAX
  /\ enable_latched \in SUBSET Designs
  /\ reset_edges \in 0 .. MIN_RESET_EDGES /\ stable_edges \in 0 .. MIN_STABLE_EDGES
  /\ hold_edges \in [Designs -> 0 .. RESET_RELEASE_CYCLES]

\* A design leaves reset, and drives pads, only after RESET_RELEASE_CYCLES of its
\* own clock edges in reset within this selection, however the reset pin is
\* aligned to the clock and whatever the registers powered up with.
DriverWasReset ==
  \A d \in Designs : d \in io_oe \/ d \notin design_reset =>
    hold_edges[d] = RESET_RELEASE_CYCLES

\* The design that runs is the one the pads named when reset was released: two
\* stable edges suffice, and nothing after the release matters.
SelectionIsRequested ==
  design_selected = IF ~reset /\ requested \in PRESENT THEN {requested} ELSE {}

\* Every rising clock edge is delivered to exactly the selected design: none is
\* swallowed while it runs and no other slot is ever clocked.
EdgesReachSelected ==
  [][~clock /\ clock' => gated_clock' = design_selected]_vars

\* A gated clock moves only with the clock itself: no enable or reset change
\* shortens a pulse or makes one.
NoShortPulse == [][gated_clock' # gated_clock => clock' # clock]_vars

\* The payload pads go through high impedance between two drivers.
BreakBeforeMake ==
  [][io_oe # {} /\ io_oe' # {} => io_oe' = io_oe]_vars

\* A registered design named at the release eventually runs, unless reset comes back.
RegisteredDesignStarts ==
  (~reset /\ requested \in PRESENT) ~> (selection_valid \/ reset)

\* The promise of FrameSelection.
picked == IF design_selected = {} THEN NoDesign ELSE design_id_sync
Selection == INSTANCE FrameSelection WITH
  pads <- async_design_id,
  phase <- IF reset THEN "reset" ELSE IF selection_valid THEN "running" ELSE "holding",
  design <- picked,
  held <- IF design_selected = {} THEN 0 ELSE hold_edges[design_id_sync]
KeepsSelectionPromise == Selection!Spec

-----------------------------------------------------------------------------
(* The parts of the inductive invariant behind them. *)

\* A low clock leaves the latches transparent; they only ever hold registered designs.
LatchFollows ==
  /\ ~clock => enable_latched = design_clock_enable
  /\ enable_latched \subseteq PRESENT
\* One edge in reset clears the sequencer, from any power-up value.
ResetClears == reset /\ reset_edges > 0 => ~gate_armed /\ release_count = 0
CountInRange ==
  ~reset => /\ release_count <= RESET_RELEASE_CYCLES
            /\ ~gate_armed => release_count = 0
\* The sequencer never runs ahead of the edges the design really received.
HeldEnough == \A d \in design_selected : hold_edges[d] >= release_count
\* A selection starts with no edge counted.
HoldCleared == reset => \A d \in Designs : hold_edges[d] = 0
IsolationInv == LatchFollows /\ ResetClears /\ CountInRange /\ HeldEnough /\ HoldCleared

\* Two edges move a stable selector through the synchronizer, which then is frozen.
SelectorSettles ==
  /\ reset /\ stable_edges > 0 => design_id_meta = async_design_id
  /\ reset /\ stable_edges > 1 => design_id_sync = async_design_id
  /\ ~reset => design_id_sync = requested /\ stable_edges = 0
=============================================================================
