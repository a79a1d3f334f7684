---------------------------- MODULE TplotPlayback ----------------------------
(***************************************************************************)
(* The playback loop of tplot2 (src/utils/tplot2.cc): one iteration of the  *)
(* main loop of do_main runs Timeline::Update, which moves float_time_     *)
(* according to the user's input and the play mode, and then               *)
(* TreeView::Update(timeline.current()), which brings the per-record data  *)
(* shown in the tree up to that time, either by a full Seek or by an       *)
(* incremental Step from last_index_.                                      *)
(*                                                                         *)
(* Time is counted in integer units relative to nothing in particular; the *)
(* floats of the code are abstracted to that grid.  The log is a sequence  *)
(* of items, each a record and a timestamp, in file order; an item's       *)
(* FileReader::Index is its position (0 stands for the default Index {}).  *)
(***************************************************************************)
EXTENDS Integers, Sequences, FiniteSets

CONSTANTS
  Records,       \* the log's records (FileReader::Record*)
  Logs,          \* the logs the tool may be opened on
  SecondUnits,   \* time units in one second (boost::posix_time::seconds(1))
  Dts,           \* wall-clock units between two frames that the model tries
  StepValues,    \* values the user may type into the "Step" field
  SpeedValues,   \* values the user may type into the "Speed" field
  DefaultStep,   \* step_ = 0.01
  DefaultSpeed,  \* fast_speed_ = 0.1
  TimeSlack,     \* bound: how far float_time_ may leave [0, float_range_]
  NoTime         \* boost::posix_time::not_a_date_time, a model value

\* A log is written in time order, which TreeView::Step's early break
\* relies on.
ASSUME LogsAssumption ==
  /\ Logs \subseteq Seq(Records \X Nat)
  /\ \A log \in Logs : Len(log) > 0
  /\ \A log \in Logs : \A i, j \in 1 .. Len(log) : i <= j => log[i][2] <= log[j][2]
ASSUME TimeAssumption ==
  /\ SecondUnits \in Nat \ {0}
  /\ Dts \subseteq Nat /\ 0 \in Dts
  /\ StepValues \subseteq Int /\ DefaultStep \in StepValues
  /\ SpeedValues \subseteq Int /\ DefaultSpeed \in SpeedValues
  /\ TimeSlack \in Nat
  /\ NoTime \notin Int

(* Timeline::Mode *)
Modes == {"kFastRewind", "kRewind", "kStop", "kPlay", "kFastForward"}

(* What one frame of ImGui input can do to the Playback window: at most   *)
(* one widget is operated per frame, since all of them are mouse-driven.  *)
(* Dragging the "Time" slider sets float_time_ to a value in              *)
(* [0, float_range_].                                                      *)
Events(range) ==
  {[kind |-> "none"]} \cup
  {[kind |-> "slide", value |-> v] : v \in 0 .. range} \cup
  {[kind |-> "mode", mode |-> m] : m \in Modes} \cup
  {[kind |-> "stepR"], [kind |-> "stepF"]} \cup
  {[kind |-> "step", value |-> v] : v \in StepValues} \cup
  {[kind |-> "speed", value |-> v] : v \in SpeedValues}

VARIABLES
  log,            \* the FileReader's contents; fixed once opened
  mode,           \* Timeline::mode_
  float_time,     \* Timeline::float_time_
  step,           \* Timeline::step_
  fast_speed,     \* Timeline::fast_speed_
  clock_started,  \* ~last_update_.is_not_a_date_time()
  last_timestamp, \* TreeView::last_timestamp_
  last_index,     \* TreeView::last_index_
  data            \* TreeView::data_: record -> position of its item, 0 for
                  \* "", -1 while the record is not yet a key of the map

timeline == <<mode, float_time, step, fast_speed, clock_started>>
tree == <<last_timestamp, last_index, data>>
vars == <<log, timeline, tree>>

-----------------------------------------------------------------------------
(* Timeline constructor: start_ and end_ are the first and last items'     *)
(* timestamps, float_range_ their distance.                               *)
Start == log[1][2]
FloatRange == log[Len(log)][2] - Start

(* Timeline::current(): start_ + float_time_. *)
Current(ft) == Start + ft

Positions == 1 .. Len(log)
Stamp(k) == log[k][2]
RecordOf(k) == log[k][1]

(* The largest element of a finite set of naturals, 0 if it is empty. *)
MaxOr0(S) == IF S = {} THEN 0 ELSE CHOOSE x \in S : \A y \in S : y <= x

(* FileReader::Seek(t) (mjlib): for every record, its last item at or     *)
(* before t.  0 when the record has none.                                  *)
LatestAt(t) ==
  [r \in Records |-> MaxOr0({k \in Positions : RecordOf(k) = r /\ Stamp(k) <= t})]

(* TreeView::Seek: reset data_ to "" for every record, then take each     *)
(* record's latest item, last_index_ the largest of their indices.          *)
Seek(t) ==
  /\ data' = LatestAt(t)
  /\ last_index' = MaxOr0({LatestAt(t)[r] : r \in Records})

(* Mutant: the loop of TreeView::Step without its break, reading to the  *)
(* end of the log.                                                         *)
Step_NoBreak(t) ==
  LET from == IF last_index = 0 THEN 1 ELSE last_index
      read == from .. Len(log)
  IN /\ data' = [r \in Records |->
                   LET mine == {k \in read : RecordOf(k) = r}
                   IN IF mine = {} THEN data[r] ELSE MaxOr0(mine)]
     /\ last_index' = IF read = {} THEN last_index ELSE Len(log)

(* Mutant: last_index_ left one past the last item read. *)
Step_PastIndex(t) ==
  LET from == IF last_index = 0 THEN 1 ELSE last_index
      first_late == {k \in from .. Len(log) : Stamp(k) > t}
      until == IF first_late = {} THEN Len(log)
               ELSE (CHOOSE k \in first_late : \A j \in first_late : k <= j) - 1
      read == from .. until
  IN /\ data' = [r \in Records |->
                   LET mine == {k \in read : RecordOf(k) = r}
                   IN IF mine = {} THEN data[r] ELSE MaxOr0(mine)]
     /\ last_index' = IF read = {} THEN last_index ELSE until + 1

(* TreeView::Step: read the items from last_index_ on, stopping at the    *)
(* first one later than t, and copy each into data_.                       *)
Step(t) ==
  LET from == IF last_index = 0 THEN 1 ELSE last_index
      first_late == {k \in from .. Len(log) : Stamp(k) > t}
      until == IF first_late = {} THEN Len(log)
               ELSE (CHOOSE k \in first_late : \A j \in first_late : k <= j) - 1
      read == from .. until
  IN /\ data' = [r \in Records |->
                   LET mine == {k \in read : RecordOf(k) = r}
                   IN IF mine = {} THEN data[r] ELSE MaxOr0(mine)]
     /\ last_index' = IF read = {} THEN last_index
                      ELSE IF until > last_index THEN until ELSE last_index

(* TreeView::Update: a first call, a step back in time or a jump of more  *)
(* than one second seeks; anything else steps.  Render changes nothing    *)
(* the model keeps.                                                        *)
TreeUpdate(t) ==
  /\ IF \/ last_timestamp = NoTime
        \/ t < last_timestamp
        \/ t - last_timestamp > SecondUnits
     THEN Seek(t)
     ELSE Step(t)
  /\ last_timestamp' = t

(* How far float_time_ moves in this frame for mode m. *)
Advance(m, speed, dt) ==
  CASE m = "kFastRewind"  -> -(speed * dt)
    [] m = "kRewind"      -> -dt
    [] m = "kStop"        -> 0
    [] m = "kPlay"        -> dt
    [] m = "kFastForward" -> speed * dt

(* Timeline::Update with input ev and dt wall-clock units since the last  *)
(* frame: the widgets first, in their order on screen, then the advance   *)
(* by the (possibly just changed) mode.                                    *)
TimelineUpdate(ev, dt) ==
  LET ft0 == IF ev.kind = "slide" THEN ev.value ELSE float_time
      ft1 == CASE ev.kind = "stepR" -> ft0 - step
               [] ev.kind = "stepF" -> ft0 + step
               [] OTHER             -> ft0
      m1  == CASE ev.kind = "mode"  -> ev.mode
               [] ev.kind \in {"stepR", "stepF"} -> "kStop"
               [] OTHER             -> mode
      st1 == IF ev.kind = "step"  THEN ev.value ELSE step
      sp1 == IF ev.kind = "speed" THEN ev.value ELSE fast_speed
      dt1 == IF clock_started THEN dt ELSE 0
  IN /\ mode' = m1
     /\ step' = st1
     /\ fast_speed' = sp1
     /\ float_time' = ft1 + Advance(m1, sp1, dt1)
     /\ clock_started' = TRUE

(* The bound on float_time_ named in TimeSlack. *)
InWindow(ft) == ft \in -TimeSlack .. FloatRange + TimeSlack

(* One pass of the do_main loop: Timeline::Update, then TreeView::Update *)
(* at the new current().                                                   *)
Frame ==
  \E ev \in Events(FloatRange), dt \in Dts :
    /\ TimelineUpdate(ev, dt)
    /\ InWindow(float_time')
    /\ TreeUpdate(Current(float_time'))
    /\ UNCHANGED log

Init ==
  /\ log \in Logs
  /\ mode = "kStop"
  /\ float_time = 0
  /\ step = DefaultStep
  /\ fast_speed = DefaultSpeed
  /\ clock_started = FALSE
  /\ last_timestamp = NoTime
  /\ last_index = 0
  /\ data = [r \in Records |-> -1]

Next == Frame

Spec == Init /\ [][Next]_vars

-----------------------------------------------------------------------------
TypeOK ==
  /\ log \in Logs
  /\ mode \in Modes
  /\ float_time \in -TimeSlack .. FloatRange + TimeSlack
  /\ step \in StepValues
  /\ fast_speed \in SpeedValues
  /\ clock_started \in BOOLEAN
  /\ last_timestamp \in {NoTime} \cup Int
  /\ last_index \in 0 .. Len(log)
  /\ data \in [Records -> -1 .. Len(log)]

(* After every frame the tree shows, for every record, exactly the item a *)
(* fresh FileReader::Seek to the displayed time would give, however the   *)
(* frames before mixed seeks and incremental TreeView::Step calls.         *)
TreeShowsLatest ==
  last_timestamp # NoTime => data = LatestAt(last_timestamp)

=============================================================================
