--------------------------- MODULE FrameTop_proofs ---------------------------
(* Proofs about FrameTop, for every number of slots, every presence mask and   *)
(* every release count.                                                        *)
EXTENDS FrameTop, TLAPS

\* The state functions whose expansion most leaves need.
LEMMA UpToBounded ==
  ASSUME NEW limit \in Nat, NEW n \in 0 .. limit
  PROVE  UpTo(limit, n) \in 0 .. limit /\ UpTo(limit, n) >= n
                                       /\ (n < limit => UpTo(limit, n) = n + 1)
  BY DEF UpTo

\* Only a slot the registry fills is ever selected.
LEMMA SelectedPresent ==
  ASSUME TypeOK
  PROVE  design_selected \subseteq PRESENT /\ design_selected \subseteq Designs
  BY FrameAssumption DEF design_selected

\* Every variable keeps its type.
LEMMA TypeStep ==
  ASSUME TypeOK, [Next]_vars
  PROVE  TypeOK'
<1> USE FrameAssumption
<1>1. CASE RisingEdge
  <2> USE <1>1 DEF RisingEdge
  <2>1. /\ clock' \in BOOLEAN /\ reset' \in BOOLEAN
        /\ async_design_id' \in DesignIds /\ requested' \in DesignIds
    BY DEF TypeOK, DriveReset
  <2>2. design_id_meta' \in DesignIds /\ design_id_sync' \in DesignIds
    BY DEF TypeOK, SampleSelector
  <2>3. gate_armed' \in BOOLEAN
    BY Zenon DEF TypeOK, SequenceRelease
  <2>8. release_count' \in 0 .. RELEASE_COUNT_MAX
    BY DEF TypeOK, SequenceRelease, UpTo
  <2>4. design_selected' \subseteq Designs
    BY DEF design_selected
  <2>5. enable_latched' \in SUBSET Designs
    BY <2>4 DEF TypeOK, LatchEnable, design_clock_enable
  <2>6. reset_edges' \in 0 .. MIN_RESET_EDGES /\ stable_edges' \in 0 .. MIN_STABLE_EDGES
    BY DEF TypeOK, UpTo
  <2>7. hold_edges' \in [Designs -> 0 .. RESET_RELEASE_CYCLES]
    BY UpToBounded DEF TypeOK, CountHoldEdges
  <2> QED BY <2>1, <2>2, <2>3, <2>5, <2>6, <2>7, <2>8 DEF TypeOK
<1>2. CASE FallingEdge
  <2>1. design_selected' \subseteq Designs
    BY DEF design_selected
  <2> QED BY <1>2, <2>1 DEF FallingEdge, TypeOK, registers, history, LatchEnable,
                            design_clock_enable
<1>3. CASE ChangeReset
  <2> USE <1>3 DEF ChangeReset
  <2>1. design_selected' \subseteq Designs
    BY DEF design_selected
  <2>2. enable_latched' \in SUBSET Designs
    BY <2>1 DEF TypeOK, LatchEnable, design_clock_enable
  <2>3. hold_edges' \in [Designs -> 0 .. RESET_RELEASE_CYCLES]
    BY UpToBounded DEF TypeOK, CountHoldEdges
  <2> QED BY <2>2, <2>3 DEF TypeOK, DriveReset, registers
<1>4. CASE MoveSelector
  BY <1>4 DEF MoveSelector, TypeOK, registers
<1>5. CASE UNCHANGED vars
  BY <1>5 DEF vars, TypeOK, pins, registers, history
<1> QED BY <1>1, <1>2, <1>3, <1>4, <1>5 DEF Next

\* Any power-up value of the registers is well typed.
LEMMA TypeInit == Init => TypeOK
<1> SUFFICES ASSUME Init PROVE TypeOK
  OBVIOUS
<1>1. enable_latched \in SUBSET Designs
  BY FrameAssumption DEF Init, design_clock_enable, design_selected
<1>2. hold_edges \in [Designs -> 0 .. RESET_RELEASE_CYCLES]
  BY FrameAssumption DEF Init
<1>3. clock \in BOOLEAN /\ reset \in BOOLEAN /\ gate_armed \in BOOLEAN
  BY Zenon DEF Init
<1>4. release_count \in 0 .. RELEASE_COUNT_MAX /\ reset_edges \in 0 .. MIN_RESET_EDGES
      /\ stable_edges \in 0 .. MIN_STABLE_EDGES
  BY FrameAssumption DEF Init
<1> QED BY <1>1, <1>2, <1>3, <1>4, Zenon DEF Init, TypeOK

\* Type correctness of the frame.
THEOREM TypeCorrect == Spec => []TypeOK
BY TypeInit, TypeStep, PTL DEF Spec

-----------------------------------------------------------------------------
(* Isolation: the inductive invariant and what follows from it.  No assumption *)
(* on the selector pads is used, and one edge in reset is enough.              *)

\* Nothing is known of the sequencer at power-up, and nothing needs to be.
LEMMA IsolationInit == Init => IsolationInv
BY FrameAssumption
   DEF Init, IsolationInv, LatchFollows, ResetClears, CountInRange, HeldEnough,
       HoldCleared, design_clock_enable, design_selected

\* Every clock edge, reset change and selector change keeps the isolation invariant.
LEMMA IsolationStep ==
  ASSUME TypeOK, TypeOK', IsolationInv, [Next]_vars
  PROVE  IsolationInv'
<1> USE FrameAssumption
<1>0. design_selected' \subseteq PRESENT
  BY DEF design_selected
<1>1. CASE RisingEdge
  <2> USE <1>1 DEF RisingEdge
  <2>1. LatchFollows'
    BY <1>0 DEF IsolationInv, LatchFollows, LatchEnable
  <2>2. ResetClears'
    BY DEF ResetClears, SequenceRelease
  <2>3. CountInRange'
    BY DEF TypeOK, IsolationInv, CountInRange, ResetClears, SequenceRelease, DriveReset,
           MayRelease, UpTo
  <2>4. HeldEnough'
    <3> SUFFICES ASSUME NEW d \in design_selected'
                 PROVE  hold_edges'[d] >= release_count'
      BY DEF HeldEnough
    <3>1. ~reset' /\ d \in Designs /\ d = design_id_sync'
      BY DEF design_selected
    <3>2. design_id_sync' = design_id_sync
      BY <3>1 DEF SampleSelector
    <3>3. hold_edges'[d] \in 0 .. RESET_RELEASE_CYCLES /\ hold_edges[d] \in 0 .. RESET_RELEASE_CYCLES
      BY <3>1 DEF TypeOK
    <3>4. hold_edges'[d] >= hold_edges[d]
      BY <3>1, <3>3, UpToBounded DEF CountHoldEdges
    <3>5. CASE reset
      <4>1. release_count' = 0
        BY <3>1, <3>5 DEF TypeOK, DriveReset, MayRelease, IsolationInv, ResetClears, SequenceRelease
      <4> QED BY <4>1, <3>3
    <3>6. CASE ~reset /\ (~gate_armed \/ release_count = RESET_RELEASE_CYCLES)
      <4>1. d \in design_selected
        BY <3>1, <3>2, <3>6 DEF design_selected
      <4>2. release_count' = release_count
        BY <3>1, <3>6 DEF SequenceRelease, UpTo
      <4>3. hold_edges[d] >= release_count
        BY <4>1 DEF IsolationInv, HeldEnough
      <4> QED BY <4>2, <4>3, <3>3, <3>4 DEF TypeOK
    <3>7. CASE ~reset /\ gate_armed /\ release_count # RESET_RELEASE_CYCLES
      <4>1. d \in design_selected
        BY <3>1, <3>2, <3>7 DEF design_selected
      <4>2. d \in gated_clock' \ gated_clock
        BY <4>1 DEF gated_clock, LatchEnable, IsolationInv, LatchFollows, design_clock_enable
      <4>3. d \in design_reset
        BY <3>1, <3>7 DEF design_reset, selection_valid
      <4>4. hold_edges'[d] = UpTo(RESET_RELEASE_CYCLES, hold_edges[d])
        BY <3>1, <4>2, <4>3 DEF CountHoldEdges
      <4>5. hold_edges[d] >= release_count /\ release_count < RESET_RELEASE_CYCLES
        BY <4>1, <3>7 DEF IsolationInv, HeldEnough, CountInRange, TypeOK
      <4>6. release_count' = release_count + 1
        BY <3>1, <3>7, <4>5 DEF SequenceRelease, UpTo
      <4> QED BY <4>4, <4>5, <4>6, <3>3 DEF UpTo, TypeOK
    <3> QED BY <3>5, <3>6, <3>7
  <2>5. HoldCleared'
    <3> SUFFICES ASSUME reset', NEW d \in Designs
                 PROVE  hold_edges'[d] = 0
      BY DEF HoldCleared
    <3>1. CASE ~reset
      BY <3>1 DEF CountHoldEdges
    <3>2. CASE reset
      <4>1. enable_latched' = {}
        BY <3>2 DEF LatchEnable, IsolationInv, LatchFollows, design_clock_enable, design_selected
      <4>2. hold_edges'[d] = hold_edges[d]
        BY <3>2, <4>1 DEF CountHoldEdges, gated_clock
      <4> QED BY <3>2, <4>2 DEF IsolationInv, HoldCleared
    <3> QED BY <3>1, <3>2
  <2> QED BY <2>1, <2>2, <2>3, <2>4, <2>5 DEF IsolationInv
<1>2. CASE FallingEdge
  <2>1. UNCHANGED <<reset, design_id_sync, gate_armed, release_count, reset_edges, hold_edges>>
    BY <1>2 DEF FallingEdge, registers, history
  <2>2. design_selected' = design_selected
    BY <2>1 DEF design_selected
  <2>3. LatchFollows'
    BY <1>0, <1>2 DEF FallingEdge, LatchEnable, LatchFollows, design_clock_enable
  <2> QED BY <2>1, <2>2, <2>3 DEF IsolationInv, ResetClears, CountInRange, HeldEnough,
                                      HoldCleared
<1>3. CASE ChangeReset
  <2> USE <1>3 DEF ChangeReset, registers
  <2>1. LatchFollows'
    BY <1>0 DEF LatchFollows, LatchEnable, design_clock_enable, IsolationInv
  <2>2. ResetClears'
    BY DEF ResetClears
  <2>3. ~reset' => ~gate_armed /\ release_count = 0
    BY DEF TypeOK, DriveReset, MayRelease, IsolationInv, ResetClears
  <2>4. HeldEnough'
    <3> SUFFICES ASSUME NEW d \in design_selected'
                 PROVE  hold_edges'[d] >= release_count'
      BY DEF HeldEnough
    <3>1. ~reset' /\ d \in Designs
      BY DEF design_selected
    <3>2. hold_edges'[d] \in 0 .. RESET_RELEASE_CYCLES
      BY <3>1 DEF TypeOK
    <3> QED BY <2>3, <3>1, <3>2
  <2>5. CountInRange'
    BY <2>3 DEF CountInRange
  <2>6. HoldCleared'
    BY DEF HoldCleared, DriveReset, CountHoldEdges
  <2> QED BY <2>1, <2>2, <2>4, <2>5, <2>6 DEF IsolationInv
<1>4. CASE MoveSelector
  <2>1. UNCHANGED <<clock, reset, design_id_sync, gate_armed, release_count, enable_latched,
                    reset_edges, hold_edges>>
    BY <1>4 DEF MoveSelector, registers
  <2>2. design_selected' = design_selected
    BY <2>1 DEF design_selected
  <2> QED BY <2>1, <2>2 DEF IsolationInv, LatchFollows, ResetClears, CountInRange, HeldEnough,
                            HoldCleared, design_clock_enable
<1>5. CASE UNCHANGED vars
  <2>1. UNCHANGED <<clock, reset, design_id_sync, gate_armed, release_count, enable_latched,
                    reset_edges, hold_edges>>
    BY <1>5 DEF vars, pins, registers, history
  <2>2. design_selected' = design_selected
    BY <2>1 DEF design_selected
  <2> QED BY <2>1, <2>2 DEF IsolationInv, LatchFollows, ResetClears, CountInRange, HeldEnough,
                            HoldCleared, design_clock_enable
<1> QED BY <1>1, <1>2, <1>3, <1>4, <1>5 DEF Next

\* The isolation invariant holds, whatever moves on the selector pads.
LEMMA Isolated == Spec => [](TypeOK /\ IsolationInv)
BY TypeInit, TypeStep, IsolationInit, IsolationStep, PTL DEF Spec

\* In a state of the isolation invariant, who drives has had its edges in reset.
LEMMA IsolatedDriver ==
  ASSUME TypeOK, IsolationInv
  PROVE  DriverWasReset
<1> SUFFICES ASSUME NEW d \in Designs, d \in io_oe \/ d \notin design_reset
             PROVE  hold_edges[d] = RESET_RELEASE_CYCLES
  BY DEF DriverWasReset
<1>1. selection_valid /\ d \in design_selected
  BY DEF io_oe, design_reset, selection_valid, design_selected
<1>2. hold_edges[d] >= release_count /\ release_count = RESET_RELEASE_CYCLES
  BY <1>1 DEF selection_valid, IsolationInv, HeldEnough
<1>3. hold_edges[d] \in 0 .. RESET_RELEASE_CYCLES
  BY DEF TypeOK
<1> QED BY <1>2, <1>3, FrameAssumption

\* A design leaves reset or drives pads only after its full count of edges in reset.
THEOREM ResetBeforeDriving == Spec => []DriverWasReset
<1>1. TypeOK /\ IsolationInv => DriverWasReset
  BY IsolatedDriver
<1> QED BY <1>1, Isolated, PTL

\* Each rising edge reaches exactly the selected design.
THEOREM ClockReachesSelected == Spec => EdgesReachSelected
<1>1. TypeOK /\ IsolationInv /\ [Next]_vars
        => [~clock /\ clock' => gated_clock' = design_selected]_vars
  <2> SUFFICES ASSUME IsolationInv, Next, ~clock, clock'
               PROVE  gated_clock' = design_selected
    OBVIOUS
  <2>1. enable_latched' = enable_latched
    BY DEF Next, RisingEdge, FallingEdge, ChangeReset, MoveSelector, LatchEnable
  <2> QED BY <2>1 DEF gated_clock, IsolationInv, LatchFollows, design_clock_enable
<1> QED BY <1>1, Isolated, PTL DEF Spec, EdgesReachSelected

\* The clock gates never shorten or make a pulse.
THEOREM GlitchFree == Spec => NoShortPulse
<1>1. [Next]_vars => [gated_clock' # gated_clock => clock' # clock]_vars
  <2> SUFFICES ASSUME Next, clock' = clock
               PROVE  gated_clock' = gated_clock
    OBVIOUS
  <2>1. clock => enable_latched' = enable_latched
    BY DEF Next, RisingEdge, FallingEdge, ChangeReset, MoveSelector, LatchEnable
  <2> QED BY <2>1 DEF gated_clock
<1> QED BY <1>1, PTL DEF Spec, NoShortPulse

\* One design releases the payload pads before another one takes them.
THEOREM HandsOverThroughHighZ == Spec => BreakBeforeMake
<1>1. TypeOK /\ IsolationInv /\ [Next]_vars
        => [io_oe # {} /\ io_oe' # {} => io_oe' = io_oe]_vars
  <2> SUFFICES ASSUME Next, io_oe # {}, io_oe' # {}
               PROVE  io_oe' = io_oe
    OBVIOUS
  <2>1. ~reset /\ ~reset' /\ selection_valid /\ selection_valid'
    BY DEF io_oe, selection_valid
  <2>2. design_id_sync' = design_id_sync
    BY <2>1 DEF Next, RisingEdge, FallingEdge, ChangeReset, MoveSelector, SampleSelector, registers
  <2> QED BY <2>1, <2>2 DEF io_oe
<1> QED BY <1>1, Isolated, PTL DEF Spec, BreakBeforeMake

-----------------------------------------------------------------------------
(* Selection: with two stable edges in the contract, the pads are obeyed. *)

\* No stable edge has been seen at power-up.
LEMMA SettleInit == Init => SelectorSettles
BY DEF Init, SelectorSettles

\* A stable selector moves one synchronizer stage per edge in reset, then stays put.
LEMMA SettleStep ==
  ASSUME MIN_STABLE_EDGES >= 2, TypeOK, SelectorSettles, [Next]_vars
  PROVE  SelectorSettles'
<1> USE FrameAssumption
<1>1. CASE RisingEdge
  <2> USE <1>1 DEF RisingEdge
  <2>1. CASE reset'
    <3>1. design_id_sync' = design_id_meta
      BY <2>1 DEF SampleSelector
    <3>2. CASE async_design_id' = async_design_id
      <4>1. design_id_meta' = async_design_id
        BY <2>1, <3>2 DEF SampleSelector
      <4>2. stable_edges' > 1 => stable_edges > 0 /\ reset
        BY <2>1, <3>2 DEF UpTo, TypeOK, SelectorSettles
      <4> QED BY <2>1, <3>1, <3>2, <4>1, <4>2 DEF SelectorSettles
    <3>3. CASE async_design_id' # async_design_id
      BY <2>1, <3>3 DEF SelectorSettles
    <3> QED BY <3>2, <3>3
  <2>2. CASE ~reset'
    <3>1. design_id_sync' = design_id_sync
      BY <2>2 DEF SampleSelector
    <3>2. CASE reset
      BY <2>2, <3>1, <3>2 DEF DriveReset, MayRelease, SelectorSettles, TypeOK
    <3>3. CASE ~reset
      BY <2>2, <3>1, <3>3 DEF DriveReset, SelectorSettles
    <3> QED BY <3>2, <3>3
  <2> QED BY <2>1, <2>2
<1>2. CASE FallingEdge
  BY <1>2 DEF FallingEdge, SelectorSettles, registers, history
<1>3. CASE ChangeReset
  BY <1>3 DEF ChangeReset, DriveReset, MayRelease, SelectorSettles, registers, TypeOK
<1>4. CASE MoveSelector
  BY <1>4 DEF MoveSelector, SelectorSettles, registers
<1>5. CASE UNCHANGED vars
  BY <1>5 DEF vars, pins, registers, history, SelectorSettles
<1> QED BY <1>1, <1>2, <1>3, <1>4, <1>5 DEF Next

\* The selector has settled by every release that keeps the contract.
LEMMA Settled ==
  ASSUME MIN_STABLE_EDGES >= 2
  PROVE  Spec => [](TypeOK /\ IsolationInv /\ SelectorSettles)
<1>1. TypeOK /\ SelectorSettles /\ [Next]_vars => SelectorSettles'
  BY SettleStep
<1> QED BY <1>1, SettleInit, Isolated, PTL DEF Spec

\* Once settled, the decoder selects what the pads named at the release.
LEMMA RequestSelected ==
  ASSUME SelectorSettles
  PROVE  SelectionIsRequested
<1> USE DEF SelectionIsRequested
<1>1. \A id \in PRESENT : id < DESIGN_COUNT
  BY FrameAssumption DEF Designs
<1>2. CASE reset
  BY <1>2 DEF design_selected
<1>3. CASE ~reset
  BY <1>1, <1>3 DEF design_selected, SelectorSettles
<1> QED BY <1>2, <1>3

\* What runs is what the pads named when reset was released.
THEOREM SelectionObeysPads ==
  ASSUME MIN_STABLE_EDGES >= 2
  PROVE  Spec => []SelectionIsRequested
<1>1. TypeOK /\ SelectorSettles => SelectionIsRequested
  BY RequestSelected
<1> QED BY <1>1, Settled, PTL

-----------------------------------------------------------------------------
(* FrameTop implements FrameSelection. *)

\* The frame powers up in reset, with nobody selected.
LEMMA PromiseInit == Init => Selection!Init
BY FrameAssumption DEF Init, Selection!Init, design_selected, picked

\* Every step of the frame is a step of the promise or changes nothing it sees.
LEMMA PromiseStep ==
  TypeOK /\ TypeOK' /\ IsolationInv /\ IsolationInv' /\ SelectorSettles /\ SelectorSettles'
    /\ [Next]_vars => [Selection!Next]_(Selection!selection)
<1> SUFFICES ASSUME TypeOK, TypeOK', IsolationInv, IsolationInv',
                    SelectorSettles, SelectorSettles', [Next]_vars
             PROVE  [Selection!Next]_(Selection!selection)
  OBVIOUS
<1> USE FrameAssumption
<1>s. SelectionIsRequested /\ SelectionIsRequested'
  BY RequestSelected, PTL
<1>a. design_selected = IF ~reset /\ requested \in PRESENT THEN {requested} ELSE {}
  BY <1>s DEF SelectionIsRequested
<1>b. design_selected' = IF ~reset' /\ requested' \in PRESENT THEN {requested'} ELSE {}
  BY <1>s DEF SelectionIsRequested
<1>c. picked = IF ~reset /\ requested \in PRESENT THEN requested ELSE NoDesign
  BY <1>a DEF picked, SelectorSettles
<1>d. picked' = IF ~reset' /\ requested' \in PRESENT THEN requested' ELSE NoDesign
  BY <1>b DEF picked, SelectorSettles
<1>1. CASE ~reset /\ reset'
  <2>1. ~selection_valid' /\ design_selected' = {} /\ async_design_id' \in DesignIds
    BY <1>1 DEF selection_valid, design_selected, TypeOK
  <2>2. Selection!Reset
    BY <1>1, <2>1 DEF Selection!Reset, picked
  <2> QED BY <2>2 DEF Selection!Next
<1>2. CASE reset /\ ~reset'
  <2>1. requested' = async_design_id /\ reset_edges >= MIN_RESET_EDGES
    BY <1>2 DEF Next, RisingEdge, FallingEdge, ChangeReset, MoveSelector, DriveReset, MayRelease,
                vars, pins
  <2>2. release_count' = 0
    <3>1. ~gate_armed /\ release_count = 0
      BY <1>2, <2>1 DEF IsolationInv, ResetClears, TypeOK
    <3>2. release_count' = release_count
      BY <1>2, <3>1 DEF Next, RisingEdge, FallingEdge, ChangeReset, MoveSelector,
                        SequenceRelease, registers, vars
    <3> QED BY <3>1, <3>2
  <2>3. ~selection_valid'
    BY <2>2 DEF selection_valid
  <2>4. \A d \in Designs : hold_edges'[d] = 0
    <3> SUFFICES ASSUME NEW d \in Designs PROVE hold_edges'[d] = 0
      OBVIOUS
    <3>1. hold_edges[d] = 0
      BY <1>2 DEF IsolationInv, HoldCleared
    <3>2. CASE RisingEdge
      <4>1. enable_latched' = {}
        BY <1>2, <3>2 DEF RisingEdge, LatchEnable, IsolationInv, LatchFollows,
                          design_clock_enable, design_selected
      <4> QED BY <1>2, <3>1, <3>2, <4>1 DEF RisingEdge, CountHoldEdges, gated_clock
    <3>3. CASE ChangeReset
      <4>1. clock' = clock /\ (clock => enable_latched' = enable_latched)
        BY <3>3 DEF ChangeReset, LatchEnable
      <4>2. gated_clock' \ gated_clock = {}
        BY <4>1 DEF gated_clock
      <4> QED BY <1>2, <3>1, <3>3, <4>2 DEF ChangeReset, CountHoldEdges
    <3> QED BY <1>2, <3>2, <3>3 DEF Next, FallingEdge, MoveSelector, vars, pins
  <2>5. design_id_sync' \in PRESENT => hold_edges'[design_id_sync'] = 0
    BY <2>4
  <2>6. (IF design_selected' = {} THEN 0 ELSE hold_edges'[design_id_sync']) = 0
    BY <2>5 DEF design_selected
  <2>7. Selection!Release
    BY <1>2, <1>d, <2>1, <2>3, <2>6 DEF Selection!Release, Selection!Decode, TypeOK
  <2> QED BY <2>7 DEF Selection!Next
<1>3. CASE reset /\ reset'
  <2>1. design_selected = {} /\ design_selected' = {}
    BY <1>3 DEF design_selected
  <2>2. Selection!PadsMove
    BY <1>3, <2>1 DEF Selection!PadsMove, picked, TypeOK
  <2> QED BY <2>2 DEF Selection!Next
<1>4. CASE ~reset /\ ~reset'
  <2>1. design_id_sync' = design_id_sync
    BY <1>4 DEF Next, RisingEdge, FallingEdge, ChangeReset, MoveSelector, SampleSelector,
                registers, vars
  <2>2. design_selected' = design_selected /\ picked' = picked
    BY <1>4, <2>1 DEF design_selected, picked
  <2>3. CASE design_selected = {}
    <3>1. ~selection_valid /\ ~selection_valid'
      BY <2>2, <2>3 DEF selection_valid
    <3>2. Selection!PadsMove
      BY <1>4, <2>2, <2>3, <3>1 DEF Selection!PadsMove, TypeOK
    <3> QED BY <3>2 DEF Selection!Next
  <2>4. CASE design_selected # {}
    <3> DEFINE d == design_id_sync
    <3>1. d \in design_selected /\ d \in Designs /\ picked = d
      BY <2>4 DEF design_selected, picked
    <3>2. CASE RisingEdge /\ ~selection_valid
      <4>1. d \in gated_clock' \ gated_clock /\ d \in design_reset
        BY <3>1, <3>2 DEF RisingEdge, gated_clock, LatchEnable, IsolationInv, LatchFollows,
                          design_clock_enable, design_reset
      <4>2. hold_edges'[d] = UpTo(RESET_RELEASE_CYCLES, hold_edges[d])
        BY <1>4, <3>1, <3>2, <4>1 DEF RisingEdge, CountHoldEdges
      <4>3. selection_valid' => d \in io_oe'
        BY <2>1, <2>2, <3>1 DEF io_oe, design_selected
      <4>4. selection_valid' => hold_edges'[d] = RESET_RELEASE_CYCLES
        <5>1. DriverWasReset'
          BY IsolatedDriver, PTL
        <5> QED BY <3>1, <4>3, <5>1 DEF DriverWasReset
      <4>5. d # NoDesign
        BY DEF TypeOK
      <4>6. Selection!HoldEdge
        BY <1>4, <2>1, <2>2, <2>4, <3>1, <3>2, <4>2, <4>4, <4>5
           DEF Selection!HoldEdge, TypeOK, UpTo
      <4> QED BY <4>6 DEF Selection!Next
    <3>3. CASE ~RisingEdge \/ selection_valid
      <4>1. selection_valid' = selection_valid
        <5>1. CASE RisingEdge
          BY <1>4, <2>2, <3>3, <5>1
             DEF RisingEdge, SequenceRelease, UpTo, selection_valid
        <5>2. CASE ~RisingEdge
          <6>1. UNCHANGED <<gate_armed, release_count>>
            BY <5>2 DEF Next, FallingEdge, ChangeReset, MoveSelector, registers, vars
          <6> QED BY <1>4, <2>2, <6>1 DEF selection_valid
        <5> QED BY <5>1, <5>2
      <4>2. hold_edges'[d] = hold_edges[d]
        <5>1. CASE RisingEdge
          <6>1. d \notin design_reset
            BY <3>1, <3>3, <5>1 DEF design_reset, selection_valid
          <6> QED BY <1>4, <3>1, <5>1, <6>1 DEF RisingEdge, CountHoldEdges
        <5>2. CASE ~RisingEdge
          <6>1. ~ChangeReset
            BY <1>4, Zenon DEF ChangeReset, TypeOK
          <6> QED BY <5>2, <6>1 DEF Next, FallingEdge, MoveSelector, history, vars
        <5> QED BY <5>1, <5>2
      <4>3. Selection!PadsMove
        BY <1>4, <2>1, <2>2, <2>4, <4>1, <4>2 DEF Selection!PadsMove, TypeOK
      <4> QED BY <4>3 DEF Selection!Next
    <3> QED BY <3>2, <3>3
  <2> QED BY <2>3, <2>4
<1> QED BY <1>1, <1>2, <1>3, <1>4

\* The frame keeps the promise of FrameSelection when its user keeps the contract.
THEOREM FrameKeepsPromise ==
  ASSUME MIN_STABLE_EDGES >= 2
  PROVE  Spec => KeepsSelectionPromise
BY PromiseInit, PromiseStep, Settled, PTL DEF Spec, KeepsSelectionPromise, Selection!Spec
=============================================================================
