# Verification project for mjmech_quad

TLA+ models, TLC runs and TLAPS proofs for the parts of this repository that
hold state machines. Everything lives directly in `tla/`. PROJECT.json lists
the components, runs, mutants, the source lines of each definition, the
findings, the hazards and the theorems.

## 1. Inventory

| Component | Source | State | Operations | Status |
|---|---|---|---|---|
| Gimbal stabilizer | `src/hw/gimbal/firmware/gimbal/gimbal_stabilizer.cc` | `Data` (state, start_timestamp, last_ahrs_update, torque_on, PID states, setpoints), enable line, two motor outputs | `HandleAhrs` (sample callback: DoInitializing / DoOperating / DoFault, then the telemetry publish), `PollMillisecond` (1 ms watchdog) | modelled |
| PID | `pid.h` (not in src) | integrator state | `Apply` | not modelled |
| tplot2 playback loop | `src/utils/tplot2.cc` | Timeline (`mode_`, `float_time_`, `step_`, `fast_speed_`, `last_update_`), TreeView (`last_timestamp_`, `last_index_`, `data_`) | `Timeline::Update`, `TreeView::Update`/`Seek`/`Step`, the `do_main` loop | modelled (`TplotPlayback`) |
| tplot2 plot list | same | `plots_`, `current_plot_index_`, `current_axis_`, `fit_plot_` | `PlotView::Update`, `AddPlot`, Remove | partly (`TplotPlotView`) |
| tplot2 video | same | file position, codec queue, texture, `last_timestamp_`, `last_video_timestamp_` | `Video::Update`/`Seek`/`Step`/`ReadUntil` | modelled (`TplotVideo`) |
| tplot2 Data tree and plot values | same | `data_` (shown item), ImGui open nodes, the plots' getters | `TreeView::Render`/`VisitElement`, `Parent::RenderToken`, the drop in `PlotView::Update`, `ValueRetrieve`, `PlotRetrieve` | modelled (`TplotDataTree`) |
| tplot2 drawing | same | GL buffers | `MechRender`, `SphereModel` | not modelled |
| Simulator main | `src/simulator/simulator.cc` | none | option parsing, GLUT loop | not modelled |
| Quadruped state | `src/mech/quadruped_state.h` | plain structs | none | not modelled |
| Moteus options header | `src/unnamed/part_000` | declarations | none | not modelled |

**How the gimbal parts interact.** Two entry points change `Data`: the AHRS
sample callback registered in the constructor (lines 73-74), and
`PollMillisecond`, called by the firmware's 1 ms task (lines 259-261). Both run
in the same execution context, so each call is atomic, but their order is
arbitrary. The callback dispatches on `data_.state` and then publishes `Data`
to telemetry. The poll only checks the age of `last_ahrs_update` and may call
`DoFault`. Time is a `uint32_t` tick counter that wraps around.

**Hard behaviours.**
- The two entry points interleave.
- The timestamps wrap modulo 2^32.
- `start_timestamp == 0` is a sentinel.
- The sensor can stop (so the watchdog must fire) or report errors.
- `Data::state` is uninitialised, so from a non-zeroed pool the stabilizer can
  start in Operating.

PROJECT.json lists these at their lines under "hazards".

## 2. Modules

- `GimbalModes`: the abstract machine. The mode moves only from
  Initializing to Operating, and from Operating to Fault, where it stays. The
  outputs may be driven only in Operating.
- `GimbalStabilizer`: the detailed model. Its variables and the code they
  stand for:
  - `state`, `start_timestamp`, `last_ahrs_update`, `torque_on` stand for the
    `Data` fields of the same names.
  - `motor_enable` is the GPIO enable line.
  - `motor[1..2]` is what was last written to `motor1_`/`motor2_`: `"zero"`,
    or the axis (`"pitch"`/`"yaw"`) whose command it carries.
  - `now` is `clock_.timestamp()` modulo `2^ClockBits`.
  - `pollDue` says that the 1 ms task is due. `Tick` advances the clock only
    after the poll of the previous millisecond has run, so the watchdog sees
    every tick.
  - `telemetry_state` is the last published `Data::state`.
  - `cleanAge` is a history variable: the number of ticks since the start of
    the current unbroken run of clean samples, saturating at
    `InitPeriodTicks+1`, and -1 after an error.

  Its actions:
  - `HandleAhrs(error, lag)` is the whole callback: the dispatch, the branch,
    and the publish at line 85. `lag` is how many ticks the sample's own
    timestamp is behind the clock.
  - `PollMillisecond` is the watchdog.
  - `Tick` is the clock.

  The PID values and the sine phase mapping are abstracted to which axis a
  motor carries. `InitElapsedExceeds` models the elapsed-time test of lines
  101-105, with or without integer truncation of the division
  (`IntegerTickDivision`). Periods are counted in ticks.
- `MCGimbalStabilizer`: the model values for `InitialStates`. `MCZeroedState`
  is the zero-filled Pool, so `state` starts as enumerator 0 (kInitializing).
  `MCAnyState` is any enumerator.
- `GimbalStabilizerProofs`: the TLAPS proofs.

## 3. Runs

All runs use `ClockBits=4` (a 16-tick clock, so the wrap happens within the
run), `TicksPerSecond=2`, `InitPeriodTicks=2`, `WatchdogTicks=1` and
`MaxSampleLag=1`. The arming period, the watchdog period and a lagging sample
all fit several times into one wrap of the clock. That is enough to reach:
- arming after a wrap;
- an error in the middle of the arming period;
- a watchdog fault both right after arming and after a lagging sample.

| Run | cfg | Expect | Shows |
|---|---|---|---|
| gimbal_main | MCGimbalStabilizer.cfg | pass (48,933 states) | `TypeOK`; `SafeOutputs` (motors zero and enable low outside Operating); `WatchdogFreshness` (in Operating the sample age never exceeds the watchdog period + 1 tick, the tick between two polls); `ArmingWindow` (arming only after more than the period of clean samples); `StaleSensorFaults` (if samples stop, the stabilizer ends outside Operating); `ModesSpec` (it implements `GimbalModes` under `mode <- state`, `driven <- enable or a non-zero motor`). |
| gimbal_arming_sentinel | MCGimbalArming.cfg | violation of `ArmsAfterPeriod` | A clean sample at clock 0 stores the sentinel, so the period restarts (finding 1). |
| gimbal_fault_telemetry | MCGimbalTelemetry.cfg | violation of `FaultIsPublished` | A watchdog fault is never published if no sample follows (finding 2). |
| gimbal_uninit_state | MCGimbalUninit.cfg | violation of `DrivenOnlyAfterArming` | With `Data::state` starting as any enumerator, the first clean sample `HandleAhrs` handles from kOperating writes both motors with no run of clean samples behind it (finding 3). From the zeroed state the same property holds. |

Each property of the passing run has a mutant in PROJECT.json. Each mutant is
a plausible bug, and TLC finds it:
- DoFault leaves motor2 on;
- DoFault does not set the state;
- an error does not reset the timer;
- arming stamps the stale start time;
- a signed timestamp subtraction without wrap;
- Fault dispatches to DoOperating.

**Fairness.** Weak fairness applies to `Tick` and `PollMillisecond` only: the
clock advances and the firmware's millisecond task runs (spec section 6).
Sample arrival gets no fairness, because the sensor may stop; that is the case
the watchdog exists for.

**Observations.** `torque_on` is never set to true anywhere in the source, so
`motor_enable` is never raised in any run. The model keeps the assignment
`motor_enable_.Set(data_.torque_on)` as written.

## 4. Proofs

`GimbalStabilizerProofs` proves the following for all values of the constants
that satisfy the ASSUMEs: a positive clock width, and a watchdog period
shorter than one wrap.
- `TypeCorrect`: `Spec => []TypeOK`. TypeOK is inductive by itself. The step
  proof has one case per action. Its helper lemmas:
  - `ModulusPositive`;
  - `ElapsedType`: modular results are timestamps;
  - `CleanAgeType`;
  - `DoFaultType`.
- `OutputsSafe`: `Spec => []SafeOutputs`, with the inductive invariant
  `TypeOK /\ SafeOutputs`. Every action that leaves Operating goes through
  `DoFault`, which zeroes all outputs. `DoInitializing` only lowers the enable
  line. Fault dispatches to `DoFault` again.

- `WatchdogSafe`: `Spec => []WatchdogFreshness`, when the initial state is
  not Operating. This is the zero-filled `Data` of the pool, as in every run
  except `gimbal_uninit_state`. The inductive invariant is `FreshInv`:
  `TypeOK /\ (state = Operating => Elapsed(last) <= IF pollDue THEN WD + 1 ELSE WD)`.
  The plain bound `WD + 1` is not inductive. A Tick that follows a Tick
  without a poll in between would reach `WD + 2`. The `pollDue` flag records
  that the poll of the current tick is still to run.
  The argument for each step:
  - Tick adds one to the age, modulo 2^ClockBits (lemma `ElapsedSucc`). It
    runs only after the poll, so the age was at most `WD` and stays below the
    wrap.
  - The poll either faults or leaves an age of at most `WD`.
  - Arming sets the age to 0.
  - An accepted sample sets the age to its lag, which is at most
    `MaxSampleLag <= WD` (lemma `ElapsedLag`).
  - These lemmas rest on `ModDiff`, the uint32 difference written without `%`.

- `Refinement`: `Spec => ModesSpec`, when `InitialStates = {kInitializing}`.
  This is the refinement of `GimbalModes` under `mode <- state` and
  `driven <- Driven`.
  - The initial state maps to `Modes!Init`. Every output starts off.
  - Lemma `ModesStep` shows that every step, under `TypeOK /\ SafeOutputs`,
    is one of these:
    - `Arm`, from `ArmWhenElapsed`;
    - `Drive`, from `DoOperating`, because yaw's write to a motor in
      `{1, 2}` makes `Driven` true;
    - `Fault`, from `DoFault`, reached from the watchdog, an error sample or
      kFault;
    - a stutter, from Tick, the other branch of the poll, and the timer
      steps.
  - `SafeOutputs` is what makes DoInitializing a stutter. Its outputs were
    already off.
  - The theorem does not assume fairness. `ModesSpec` has none.

- `ArmingSafe`: `Spec => ArmingWindow`, the action property that
  DoInitializing arms only after an error-free run of samples longer than
  the period. It holds for every initial state and for both division
  semantics. The inductive invariant is `ArmInv`: `TypeOK /\ ArmTimer`.
  `ArmTimer` says that, while initializing with the timer started, the run
  has begun (`cleanAge >= 0`). It also says that the timer's age is at most
  the run's age unless the run is already longer than the period.
  - The timer may lag behind the run. A first good sample at clock 0 leaves
    `start_timestamp` at "not started", and the next one starts it.
  - Tick adds at most one to the timer's age, even when it wraps (lemma
    `ElapsedAtMostSucc`). It adds one to the run's age until saturation.
  - An error sample stops the timer. `StartTimer` starts it at age 0.
  - Only a sample in kInitializing leaves the state kInitializing (lemma
    `StaysInitializing`).
  - `ExceedsImpliesElapsed`: the elapsed-seconds test, truncated or not,
    implies more than `InitPeriodTicks` ticks, because
    `(d \div T) * T <= d`.

`TplotPlotViewProofs` proves three theorems about tplot2's plot list. They
hold for every number of axes and markers, and for every bound on plots and
adds.
- `IndexValid`: `Spec => []CurrentPlotValid`.
- `FitTargetSafe`: `Spec => []FitTargetLive`.
- `TypeCorrect`: `Spec => []TypeOK`.

Both rest on the inductive invariant `PlotInv`:
`TypeOK /\ (index < Len(plots) \/ index = 0) /\ FitTargetLive`.
- `CurrentPlotValid` alone is not inductive. An add to an empty list keeps
  the index, so the index must already be 0 when the list is empty.
- The lemma `EraseSeq` shows that the erase leaves a sequence one shorter.
- The clamp in "Remove" then brings the index back below the new length.
- The fit pointer needs no more than the reset at the top of `Update`: every
  frame either clears it or points it at the plot just appended.
- The proof takes no step from an already crashed state. `PlotUpdate`
  requires `~crashed`.

`TplotPlaybackProofs` proves two theorems about tplot2's playback loop.
They hold for every log, record set, time unit, step, speed and frame
timing. They assume only what `LogsAssumption` states: a log is non-empty
and written in time order. TreeView::Step's early break relies on that
order.
- `TypeCorrect`: `Spec => []TypeOK`.
- `TreeSynced`: `Spec => []TreeShowsLatest`. After any mix of seeks and
  incremental steps, the tree equals a fresh `FileReader::Seek`.
Both rest on the inductive invariant `PlayInv`: `TypeOK /\ Synced`.
- `TreeShowsLatest` alone is not inductive. `Step` resumes from
  `last_index_`, so `Synced` also states that `last_index_` is
  `LastAt(last_timestamp_)`, the last position at or before that time.
- In a time-ordered log, that position cuts the log in two (`CutLastAt`). A
  later time cuts no earlier (`CutOrder`).
- `SeekSyncs`: a seek sets `last_index_` to the largest of the records'
  latest positions, which is the cut.
- `StepSyncs`: a step from the cut at `t0` to a time `t >= t0` reads
  exactly the items between the two cuts. The first item later than `t`
  is the one after the new cut. Each record's entry becomes its last item
  up to the new cut (`LatestAtCut`).
- A step is taken only when `last_timestamp_` is set and not later than
  `t`. Otherwise `TreeView::Update` seeks.
- The helper lemmas on `MaxOr0` (`MaxOr0Props`, `MaxOr0Is`) and `NatLeast`
  (through `WFMin` of WellFoundedInduction) give the largest and least
  elements of sets of naturals.

`TplotVideoProofs` proves two theorems about tplot2's Video pane. They hold
for every file whose frame stamps strictly increase and whose first frame is
a key frame, for every set of times and for every second length. They assume
`CodecDelay = 1`: the codec holds one frame back, the delay that
`Video::Seek`'s `discard_first` is written for. TLC finds `NoFrameSkipped`
violated with a delay of 0 (a hazard in PROJECT.json), so the assumption
is needed.
- `TypeCorrect`: `Spec => []TypeOK`.
- `NoSkip`: `Spec => []NoFrameSkipped`. When a decodable frame reaches the
  time asked, the picture is at or after it and no frame lies between them.

Both rest on the theorem `VideoInvariant`, `Spec => []VInv`. `VInv` pins
down what `NoFrameSkipped` leaves open:
- the codec holds exactly the frame before the reader's packet
  (`pending = <<pos - 1>>`);
- a stored picture is two packets behind the reader, and
  `last_video_timestamp_` is its stamp;
- the frame before the picture is at or before the last time asked;
- a seek that ran off the end without storing a picture left the reader at
  the end, and no decodable frame reaches that time.

`NoFrameSkipped` alone is not inductive. A step decodes from the reader's
packet, so the proof needs to know where the reader is relative to the
picture. The argument:
- `ReadLoopCases` describes the loop of `ReadUntil` from any packet, with
  the held frame first. Either it stops at the first frame that is not
  discarded and is at or after `t`, or it reads to the end. In both cases
  the lemma gives the new `pos`, codec content, picture and stamp.
- `StepKeeps`: a step from a picture at or before `t` stops at the first
  frame at or after `t`. Every frame it passed was before `t`.
- `SeekKeeps`: a seek starts at the key frame at or before `t`
  (`SeekPosFacts`) and discards the stale frame the codec still held. The
  first frame it may store is the key frame, whose predecessor is before
  `t`.
- `HoldKeeps`: a time before the picture changes nothing but
  `last_timestamp_`.
- `VInvPrime` and `PostOK` collect what the three cases must establish.

Z3 times out on disequalities between `Len` terms (`Len(s) # 1` from
`Len(s) >= 2`). The proofs therefore state such facts as `> 1`
(`StampBefore`, `OneOrMore`).

Only model-checked:
- The liveness property `StaleSensorFaults`. TLAPS does not handle
  fairness and ENABLED. (`ArmsAfterPeriod` and `FaultIsPublished` are the
  properties of violation runs: the code does not have them.)
- Every property of `TplotDataTree`. The module walks the schema with
  RECURSIVE operators, and a module that reaches one loses the SMT
  backend. Its facts are about data of unbounded shape, which would need
  induction over data.
- That the closed form `ReadLoop` is the loop of `ReadUntil` run one packet
  at a time. It is a reading of lines 1031-1073 written for the proofs;
  `tplot_video`'s properties and the proofs are about what it returns.
- The video theorems for codec delays other than 1. A delay of 0 breaks
  `NoFrameSkipped`, and a longer delay is not claimed.

## 5. tplot2

tplot2 is a single-threaded GUI. Each pass of `do_main`'s loop (lines
1763-1783) calls, in this order:
1. `Timeline::Update`;
2. `TreeView::Update(current)`;
3. `PlotView::Update(current)`;
4. `Video::Update(current)`.

Nothing runs concurrently. The "hard behaviours" here are:
- time moving backwards or jumping;
- incremental cursors kept from one frame to the next;
- raw pointers into vectors;
- the ImGui input of one frame.

At most one widget is operated per frame, because the widgets are
mouse-driven. Floats are integers on a time grid.

- `TplotPlayback`: one `Frame` action is a whole loop pass with the Timeline
  and the TreeView. `TimelineUpdate` is one action covering:
  - dragging the slider;
  - the mode radio buttons;
  - StepR/StepF;
  - editing Step or Speed;
  - the advance by mode using the frame's wall-clock `dt`, which is 0 on the
    first frame.

  The same `Frame` then runs `TreeUpdate` at the new `current()`. That is
  `Seek` on the first call, on a step back, or on a jump of more than a
  second; otherwise it is `Step` from `last_index_`. mjlib's
  `FileReader::Seek` is not in this repository. It is taken to return each
  record's last item at or before the time. Logs are in non-decreasing time
  order. `TimeSlack` bounds how far `float_time_` leaves the log's range.
  - Run `tplot_playback` (13,030 states): `TreeShowsLatest`, i.e. the
    incremental tree equals a fresh seek. Its mutants are:
    - Step without its `break`;
    - `last_index_` one past the last item read.
- `TplotPlotView`: `PlotUpdate` is the fit block followed by one widget: a
  drop (`AddPlot` with an invalid, empty or good getter), the Axis combo,
  Remove, the Plots combo, or a marker edit in the Properties popup.
  - Run `tplot_plot_list` (25,161 states) checks:
    - `CurrentPlotValid`: the index selects a plot whenever there is one;
    - `FitTargetLive`: `fit_plot_` still addresses the plot it was set to.
  - This run has `CHECK_DEADLOCK FALSE` for one reason only: the state after
    the undefined erase is the process having died.
  - Run `tplot_remove_empty` shows that Remove on an empty list reaches that
    erase.
  - Its mutants:
    - the unguarded `current_plot_index_--` (a size_t underflow);
    - no clamp after erasing the last plot;
    - the fit block not resetting `fit_plot_`.
- `TplotVideo`: `Update` (seek, step, or hold when the picture is ahead) over
  a file of frames with key frames. The codec is a queue that returns a frame
  `CodecDelay` packets after its packet and is not flushed by `File::Seek`.
  That is why `Seek` discards one frame.
  - `ReadLoop` is `ReadUntil`'s loop in closed form. `Out` lists the
    frames the codec returns from a packet to the end of the file. `Stops`
    lists the ones not discarded and at or after the time, and the loop
    ends at the first of them.
  - Run `tplot_video` (delay 1) checks `NoFrameSkipped`: the picture is
    never behind the time and skips no frame. `TplotVideoProofs` proves `TypeOK` and
    `NoFrameSkipped` for every file.
  - Run `tplot_video_first_frame` shows the step-on-equality bug at line 999.
  - With delay 0, TLC also finds `NoFrameSkipped` violated. This is listed as
    a hazard, since it depends on the file's codec.

- `TplotDataTree`: the "Data" window and the way from a leaf in it to a
  plot. An item of a record is a sequence of cells following its schema
  (`Elements`, a function from ids to type, name, children, fields and size):
  a scalar or an enum is one cell, a variable array starts with its size, a
  union with its index, an object is its fields, null and final are empty.
  - `Visit` is `VisitElement`: a union reads its index and forwards with the
    same `Parent`; a node has children unless it is an enum; a closed object
    or array is skipped with `Ignore` (`Skipped`); an open one visits its
    fields or its elements (`do_array`) with a new `Parent` frame. `Rows` is
    what `Render` shows: for each node its ImGui identity, its drag token
    (`RenderToken`) and the cell it shows.
  - `Resolve` is `ValueRetrieve`'s constructor: the token after the record
    name is walked down the schema. An unknown field name gives an invalid
    getter. A non-numeric array index (`std::stoull`) throws. A union that
    is not an optional fails the `MJ_ASSERT`. `Getter` is `PlotRetrieve`
    for `AddPlot("", token)`. `Read` is `ValueRetrieve::operator()`: it skips
    the fields before the linked one, skips array elements by
    `maybe_fixed_size` or by `Ignore` (`ElementAt`), and gives 0 past the
    array's size and NaN at a null.
  - Actions: `Toggle` opens or closes a shown node, `NewItem` is
    `TreeView::Update` moving to another item, `Drop` drops a shown leaf on
    the plot (kept, ignored as invalid, or the process dies).
  - The model assumes three things about mjlib's schemas, which are not in
    this repository. The root element is named after the record. The
    children of an optional union carry the field's name. Names hold no
    ".". The text formatting of values and the float conversion are left
    out: a shown value and a plotted one are compared on the cell they read.
    The reference `Decode` reads the whole item without skipping. Map
    elements are left out of the schemas.
  - `MCTplotDataTree` has a record with these fields, in order:
    - a float;
    - a variant `d` of null, of an object named `dd` (unlike the field)
      holding a string, and of an int;
    - a fixed array of two enums;
    - a variable array (0 to 2) of objects holding an int and an optional
      float;
    - a float.

    The items are every encoding of it (21). A scalar cell holds 100 plus
    its position, so a read from the wrong place shows up. `d` holds a
    numeric leaf below a variant (its int branch), a leaf whose drop is
    refused (`dd` is not a field name), and its null branch.
  - Run `tplot_data_tree` (`MaxDrops=1`, 12,545 states) checks three
    properties, over any nodes opened or closed and any item:
    - `TreeShowsValues`: every shown value is the item's value at that node;
    - `DragTokensResolve`: a numeric leaf's token is accepted exactly when
      its tree path crosses no non-optional union (`CrossesVariant`, a walk
      of the schema by field names and indices, independent of
      `RenderToken` and `Resolve`). The leaves below the variant `d` are
      shown and not accepted; what their drop does is `NoAbortOnDrop`'s
      question;
    - `PlotMatchesTree`: a plot reads, on the item shown now, the cell the
      tree shows under its token.

    Its `CHECK_DEADLOCK FALSE` stands for the process having died after a
    fatal drop. Its mutants:
    - the `kArray` label missing in the collapsed branch;
    - array frames rendering their name instead of the index;
    - the root frame rendering nothing;
    - the reader not skipping the elements before the index.
  - Run `tplot_variant_drop` shows that dropping a leaf of the variant `d`
    hits the `MJ_ASSERT` at line 532 and kills tplot2. TLC's shortest trace
    drops `d`'s null branch (the item with index 0); the int branch aborts
    the same way.

## 6. Plan for the next sittings

1. Proofs: `TplotPlotView`'s remaining operations under `PlotInv`; an
   abstract "picture = first frame at or after t" module refined by
   `TplotVideo`, along `VInv`.
2. tplot2:
   - compose `PlotView` into the `Frame` loop, and the Data tree's drops
     into `PlotView`'s plot list.
3. PID anti-windup: only if `pid.h` becomes available, since it is not under
   src/.

## 7. Not modelled

- `MechRender`, `SphereModel`: OpenGL drawing with no control state.
- `src/simulator/simulator.cc`: option parsing that hands over to the GLUT
  loop; it has no state of its own.
- `src/mech/quadruped_state.h`: plain data structs with `Serialize` visitors
  and no operations.
- `src/unnamed/part_000`: declarations only.
- PID (`pid.h`): not in this repository.
