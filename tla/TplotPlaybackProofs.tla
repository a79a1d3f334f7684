------------------------- MODULE TplotPlaybackProofs -------------------------
(***************************************************************************)
(* Proofs about tplot2's playback loop (TplotPlayback) for every log,      *)
(* record set, time unit and input set: the tree that TreeView keeps up to *)
(* date by seeks and incremental steps always equals a fresh seek.         *)
(***************************************************************************)
EXTENDS TplotPlayback, WellFoundedInduction, TLAPS

(* The last position at or before t.  In a time-ordered log it cuts the   *)
(* log in two: TreeView::Seek sets last_index_ to it, and Step must too.  *)
LastAt(t) == MaxOr0({k \in Positions : Stamp(k) <= t})

(* m cuts the log at time t: the items up to m are at or before t, the    *)
(* ones after it later.                                                    *)
Cut(m, t) == m \in 0 .. Len(log) /\ \A k \in Positions : k <= m <=> Stamp(k) <= t

(* Once the tree has been updated, data_ and last_index_ are those of a   *)
(* seek to last_timestamp_.                                                *)
Synced ==
  last_timestamp # NoTime =>
    /\ data = LatestAt(last_timestamp)
    /\ last_index = LastAt(last_timestamp)

(* The inductive invariant: TreeShowsLatest alone is not inductive, since *)
(* Step starts from last_index_, which must be the cut of the last time.  *)
PlayInv == TypeOK /\ Synced

-----------------------------------------------------------------------------
(* Every non-empty set of naturals has a least element. *)
LEMMA NatLeast ==
  ASSUME NEW T, T \subseteq Nat, T # {}
  PROVE  \E x \in T : \A y \in T : x <= y
<1>1. PICK x \in T : \A y \in T : ~(<<y, x>> \in OpToRel(<, Nat))
  BY NatLessThanWellFounded, WFMin
<1>2. ASSUME NEW y \in T PROVE x <= y
  <2>1. ~(<<y, x>> \in OpToRel(<, Nat))
    BY <1>1
  <2>2. <<y, x>> \in Nat \X Nat
    OBVIOUS
  <2>3. ~(y < x)
    BY <2>1, <2>2, Zenon DEF OpToRel
  <2> QED
    BY <2>3
<1> QED
  BY <1>2

(* What MaxOr0 returns for a set of naturals bounded by b. *)
LEMMA MaxOr0Props ==
  ASSUME NEW S, S \subseteq Nat, NEW b \in Nat, \A x \in S : x <= b
  PROVE  /\ S = {} => MaxOr0(S) = 0
         /\ S # {} => /\ MaxOr0(S) \in S
                      /\ \A y \in S : y <= MaxOr0(S)
<1>1. CASE S = {}
  BY <1>1 DEF MaxOr0
<1>2. CASE S # {}
  <2> DEFINE T == {b - x : x \in S}
  <2>1. T \subseteq Nat /\ T # {}
    <3>1. \A x \in S : b - x \in Nat
      OBVIOUS
    <3> QED
      BY <1>2, <3>1
  <2>2. PICK d \in T : \A y \in T : d <= y
    BY <2>1, NatLeast
  <2>3. PICK m \in S : d = b - m
    BY <2>2
  <2>4. \A y \in S : y <= m
    <3> TAKE y \in S
    <3>1. b - y \in T
      OBVIOUS
    <3>2. d <= b - y
      BY <2>2, <3>1
    <3> QED
      BY <2>3, <3>2
  <2>5. \E mm \in S : \A y \in S : y <= mm
    BY <2>4
  <2> QED
    BY <1>2, <2>5 DEF MaxOr0
<1> QED
  BY <1>1, <1>2

(* A bound that is reached is what MaxOr0 returns. *)
LEMMA MaxOr0Is ==
  ASSUME NEW S, S \subseteq Nat, NEW m \in S, \A y \in S : y <= m
  PROVE  MaxOr0(S) = m
<1>1. m \in Nat
  OBVIOUS
<1>2. MaxOr0(S) \in S /\ \A y \in S : y <= MaxOr0(S)
  BY <1>1, MaxOr0Props
<1>3. MaxOr0(S) \in Nat /\ m <= MaxOr0(S) /\ MaxOr0(S) <= m
  BY <1>2
<1> QED
  BY <1>1, <1>3

-----------------------------------------------------------------------------
(* What a log the tool may be opened on is made of. *)
LEMMA LogFacts ==
  ASSUME log \in Logs
  PROVE  /\ Len(log) \in Nat \ {0}
         /\ \A k \in Positions : RecordOf(k) \in Records /\ Stamp(k) \in Nat
         /\ \A i, j \in Positions : i <= j => Stamp(i) <= Stamp(j)
<1>1. log \in Seq(Records \X Nat)
  BY LogsAssumption
<1>2. \A k \in Positions : log[k] \in Records \X Nat
  BY <1>1 DEF Positions
<1> QED
  BY <1>1, <1>2, LogsAssumption DEF Positions, RecordOf, Stamp

(* In a time-ordered log LastAt(t) cuts the log at t. *)
LEMMA CutLastAt ==
  ASSUME log \in Logs, NEW t \in Int
  PROVE  Cut(LastAt(t), t)
<1> DEFINE S == {k \in Positions : Stamp(k) <= t}
<1>1. /\ S \subseteq Nat /\ \A x \in S : x <= Len(log)
      /\ Len(log) \in Nat
  BY LogFacts DEF Positions
<1>2. CASE S = {}
  <2>1. LastAt(t) = 0
    BY <1>1, <1>2, MaxOr0Props DEF LastAt
  <2>2. \A k \in Positions : ~(Stamp(k) <= t) /\ ~(k <= 0)
    BY <1>2 DEF Positions
  <2> QED
    BY <1>1, <2>1, <2>2 DEF Cut
<1>3. CASE S # {}
  <2>1. LastAt(t) \in S /\ \A y \in S : y <= LastAt(t)
    BY <1>1, <1>3, MaxOr0Props DEF LastAt
  <2>2. ASSUME NEW k \in Positions PROVE k <= LastAt(t) <=> Stamp(k) <= t
    <3>1. Stamp(k) \in Nat /\ Stamp(LastAt(t)) \in Nat /\ Stamp(LastAt(t)) <= t
      BY <2>1, LogFacts
    <3>2. k <= LastAt(t) => Stamp(k) <= Stamp(LastAt(t))
      BY <2>1, LogFacts
    <3>3. Stamp(k) <= t => k <= LastAt(t)
      BY <2>1
    <3> QED
      BY <3>1, <3>2, <3>3
  <2>3. LastAt(t) \in 0 .. Len(log)
    BY <2>1 DEF Positions
  <2> QED
    BY <2>2, <2>3 DEF Cut
<1> QED
  BY <1>2, <1>3

(* A cut at t is unique, and a later time cuts no earlier. *)
LEMMA CutOrder ==
  ASSUME log \in Logs, NEW t0 \in Int, NEW t \in Int, t0 <= t,
         NEW m0, NEW m, Cut(m0, t0), Cut(m, t)
  PROVE  m0 <= m
<1>1. m0 \in 0 .. Len(log) /\ m \in 0 .. Len(log)
  BY DEF Cut
<1>2. CASE m0 = 0
  BY <1>1, <1>2
<1>3. CASE m0 > 0
  <2>1. m0 \in Positions /\ Stamp(m0) <= t0 /\ Stamp(m0) \in Nat
    BY <1>1, <1>3, LogFacts DEF Cut, Positions
  <2>2. Stamp(m0) <= t
    BY <2>1
  <2> QED
    BY <2>1, <2>2 DEF Cut
<1> QED
  BY <1>1, <1>2, <1>3

LEMMA CutIsLastAt ==
  ASSUME log \in Logs, NEW t \in Int, NEW m, Cut(m, t)
  PROVE  LastAt(t) = m
<1>1. Cut(LastAt(t), t)
  BY CutLastAt
<1>2. LastAt(t) <= m /\ m <= LastAt(t)
  BY <1>1, CutOrder
<1> QED
  BY <1>1, <1>2 DEF Cut

(* At a cut m of t, a record's latest item at or before t is its last one *)
(* among the first m.                                                       *)
LEMMA LatestAtCut ==
  ASSUME log \in Logs, NEW t \in Int, NEW m, Cut(m, t), NEW r \in Records
  PROVE  LatestAt(t)[r] = MaxOr0({k \in 1 .. m : RecordOf(k) = r})
<1>1. {k \in Positions : RecordOf(k) = r /\ Stamp(k) <= t}
        = {k \in 1 .. m : RecordOf(k) = r}
  BY DEF Cut, Positions
<1> QED
  BY <1>1 DEF LatestAt

(* A record's latest item at a cut m is one of the first m, or none. *)
LEMMA LatestBound ==
  ASSUME log \in Logs, NEW t \in Int, NEW m, Cut(m, t), NEW r \in Records
  PROVE  LatestAt(t)[r] \in 0 .. m
<1> DEFINE S == {k \in 1 .. m : RecordOf(k) = r}
<1>1. m \in Nat /\ S \subseteq Nat /\ \A x \in S : x <= m
  BY DEF Cut
<1>2. (S = {} => MaxOr0(S) = 0) /\ (S # {} => MaxOr0(S) \in S)
  BY <1>1, MaxOr0Props
<1> QED
  BY <1>1, <1>2, LatestAtCut

(* TreeView::Seek(t) leaves data_ and last_index_ as a seek to t. *)
LEMMA SeekSyncs ==
  ASSUME log \in Logs, NEW t \in Int, Seek(t)
  PROVE  data' = LatestAt(t) /\ last_index' = LastAt(t)
<1> DEFINE m == LastAt(t)
           V == {LatestAt(t)[r] : r \in Records}
<1>1. Cut(m, t) /\ m \in Nat
  BY CutLastAt DEF Cut
<1>2. V \subseteq Nat /\ \A v \in V : v <= m
  BY <1>1, LatestBound
<1>3. MaxOr0(V) = m
  <2>1. CASE m = 0
    <3>1. V \subseteq {0}
      BY <1>2, <2>1
    <3>2. CASE V = {}
      BY <3>2, <2>1 DEF MaxOr0
    <3>3. CASE V # {}
      <4>1. 0 \in V
        BY <3>1, <3>3
      <4> QED
        BY <4>1, <1>2, <2>1, MaxOr0Is
    <3> QED
      BY <3>2, <3>3
  <2>2. CASE m > 0
    <3>1. m \in Positions
      BY <1>1, <2>2 DEF Cut, Positions
    <3> DEFINE r0 == RecordOf(m)
    <3>2. r0 \in Records
      BY <3>1, LogFacts
    <3>3. LatestAt(t)[r0] = MaxOr0({k \in 1 .. m : RecordOf(k) = r0})
      BY <1>1, <3>2, LatestAtCut
    <3>4. MaxOr0({k \in 1 .. m : RecordOf(k) = r0}) = m
      BY <1>1, <2>2, MaxOr0Is
    <3>5. m \in V
      BY <3>2, <3>3, <3>4
    <3> QED
      BY <3>5, <1>2, MaxOr0Is
  <2> QED
    BY <1>1, <2>1, <2>2
<1> QED
  BY <1>3 DEF Seek

(* TreeView::Step(t), run from the state a seek to an earlier or equal  *)
(* time t0 leaves, leaves data_ and last_index_ as a seek to t: it stops  *)
(* reading exactly at the cut of t, re-reading the item at the old cut.    *)
LEMMA StepSyncs ==
  ASSUME log \in Logs, NEW t0 \in Int, NEW t \in Int, t0 <= t,
         data = LatestAt(t0), last_index = LastAt(t0), Step(t)
  PROVE  data' = LatestAt(t) /\ last_index' = LastAt(t)
<1> DEFINE m0 == LastAt(t0)
           m == LastAt(t)
           from == IF last_index = 0 THEN 1 ELSE last_index
           first_late == {k \in from .. Len(log) : Stamp(k) > t}
           until == IF first_late = {} THEN Len(log)
                    ELSE (CHOOSE k \in first_late : \A j \in first_late : k <= j) - 1
           read == from .. until
<1>1. /\ Cut(m0, t0) /\ Cut(m, t) /\ m0 <= m
      /\ m0 \in 0 .. Len(log) /\ m \in 0 .. Len(log) /\ Len(log) \in Nat
  <2>1. Cut(m0, t0) /\ Cut(m, t)
    BY CutLastAt
  <2>2. m0 <= m
    BY <2>1, CutOrder
  <2> QED
    BY <2>1, <2>2, LogFacts DEF Cut
<1>2. /\ m0 = 0 => from = 1
      /\ m0 > 0 => from = m0
      /\ from \in 1 .. m + 1
  BY <1>1
<1>3. first_late = {k \in from .. Len(log) : k > m}
  <2>1. ASSUME NEW k \in from .. Len(log) PROVE Stamp(k) > t <=> k > m
    <3>1. k \in Positions /\ Stamp(k) \in Nat
      BY <1>2, LogFacts DEF Positions
    <3>2. k <= m <=> Stamp(k) <= t
      BY <1>1, <3>1 DEF Cut
    <3> QED
      BY <1>1, <3>1, <3>2
  <2> QED
    BY <2>1
<1>4. until = m
  <2>1. CASE m = Len(log)
    BY <1>3, <2>1
  <2>2. CASE m < Len(log)
    <3>1. m + 1 \in first_late /\ \A j \in first_late : m + 1 <= j
      BY <1>1, <1>2, <1>3, <2>2
    <3>2. \E k \in first_late : \A j \in first_late : k <= j
      BY <3>1
    <3> DEFINE c == CHOOSE k \in first_late : \A j \in first_late : k <= j
    <3>3. c \in first_late /\ \A j \in first_late : c <= j
      BY <3>2, Zenon
    <3>4. first_late # {} /\ until = c - 1
      BY <3>1, Zenon
    <3> HIDE DEF c
    <3>5. c = m + 1
      BY <3>1, <3>3, <1>1, <1>2
    <3>6. c - 1 = m
      BY <3>5, <1>1
    <3> QED
      BY <3>4, <3>6, Zenon
  <2> QED
    BY <1>1, <2>1, <2>2
<1>5. /\ data' = [r \in Records |->
                   LET mine == {k \in read : RecordOf(k) = r}
                   IN IF mine = {} THEN data[r] ELSE MaxOr0(mine)]
      /\ last_index' = IF read = {} THEN last_index
                       ELSE IF until > last_index THEN until ELSE last_index
  BY DEF Step
<1>6. last_index' = m
  <2>1. CASE read = {}
    <3>1. from > m
      <4>1. from .. m = {}
        BY <1>4, <2>1
      <4>2. from \in Int /\ m \in Int
        BY <1>1, <1>2
      <4> QED
        BY <4>1, <4>2
    <3>2. m0 = 0 /\ m = 0
      BY <1>1, <1>2, <3>1
    <3> QED
      BY <1>5, <2>1, <3>2
  <2>2. CASE read # {}
    <3>1. last_index = m0 /\ m0 <= m /\ m \in Int /\ m0 \in Int
      BY <1>1
    <3>2. last_index' = IF until > last_index THEN until ELSE last_index
      BY <1>5, <2>2
    <3> QED
      BY <1>4, <3>1, <3>2
  <2> QED
    BY <2>1, <2>2
<1>7. ASSUME NEW r \in Records
      PROVE  LET mine == {k \in read : RecordOf(k) = r}
             IN  (IF mine = {} THEN data[r] ELSE MaxOr0(mine)) = LatestAt(t)[r]
  <2> DEFINE mine == {k \in from .. m : RecordOf(k) = r}
             full == {k \in 1 .. m : RecordOf(k) = r}
             full0 == {k \in 1 .. m0 : RecordOf(k) = r}
  <2>1. LatestAt(t)[r] = MaxOr0(full) /\ LatestAt(t0)[r] = MaxOr0(full0)
    BY <1>1, LatestAtCut
  <2>2. {k \in read : RecordOf(k) = r} = mine
    BY <1>4
  <2>3. CASE mine = {}
    <3>1. full0 = full
      BY <1>1, <1>2, <2>3
    <3> QED
      BY <2>1, <2>2, <2>3, <3>1
  <2>4. CASE mine # {}
    <3>1. mine \subseteq Nat /\ \A x \in mine : x <= m /\ m \in Nat
      BY <1>1, <1>2
    <3>2. MaxOr0(mine) \in mine /\ \A y \in mine : y <= MaxOr0(mine)
      BY <3>1, <2>4, MaxOr0Props
    <3>3. MaxOr0(mine) \in full /\ \A y \in full : y <= MaxOr0(mine)
      BY <3>2, <1>2
    <3>4. MaxOr0(full) = MaxOr0(mine)
      BY <3>3, MaxOr0Is
    <3> QED
      BY <2>1, <2>2, <2>4, <3>4
  <2> QED
    BY <2>3, <2>4
<1>8. data' = LatestAt(t)
  BY <1>5, <1>7 DEF LatestAt
<1> QED
  BY <1>6, <1>8

-----------------------------------------------------------------------------
(* What a frame's input carries: a mode, a step or a speed the user may    *)
(* choose, or a slider position within the range.                          *)
LEMMA EventFacts ==
  ASSUME NEW R, NEW ev \in Events(R)
  PROVE  /\ ev.kind = "mode" => ev.mode \in Modes
         /\ ev.kind = "step" => ev.value \in StepValues
         /\ ev.kind = "speed" => ev.value \in SpeedValues
  BY DEF Events

(* The initial state satisfies the inductive invariant. *)
LEMMA PlayInvInit ==
  Init => PlayInv
  <1> SUFFICES ASSUME Init PROVE PlayInv
    OBVIOUS
  <1>1. Len(log) \in Nat \ {0}
    BY LogFacts DEF Init
  <1>2. FloatRange \in Nat
    <2>1. Stamp(1) \in Nat /\ Stamp(Len(log)) \in Nat /\ Stamp(1) <= Stamp(Len(log))
      BY <1>1, LogFacts DEF Init, Positions
    <2> QED
      BY <2>1 DEF FloatRange, Start, Stamp
  <1>3. TypeOK
    <2>1. float_time \in -TimeSlack .. FloatRange + TimeSlack
      BY <1>2, TimeAssumption DEF Init
    <2>2. data \in [Records -> -1 .. Len(log)]
      BY <1>1 DEF Init
    <2>3. mode \in Modes /\ step \in StepValues /\ fast_speed \in SpeedValues
      BY TimeAssumption DEF Init, Modes
    <2>4. last_index \in 0 .. Len(log)
      BY <1>1 DEF Init
    <2> QED
      BY <2>1, <2>2, <2>3, <2>4, Zenon DEF Init, TypeOK
  <1>4. Synced
    BY DEF Init, Synced
  <1> QED
    BY <1>3, <1>4 DEF PlayInv

(* A frame, or a stutter, keeps the inductive invariant. *)
LEMMA PlayInvStep ==
  PlayInv /\ [Next]_vars => PlayInv'
  <1> SUFFICES ASSUME PlayInv, [Next]_vars PROVE PlayInv'
    OBVIOUS
  <1>1. log \in Logs /\ Len(log) \in Nat \ {0} /\ Start \in Nat /\ FloatRange \in Int
    <2>1. log \in Logs
      BY DEF PlayInv, TypeOK
    <2>2. Len(log) \in Nat \ {0} /\ Stamp(1) \in Nat /\ Stamp(Len(log)) \in Nat
      BY <2>1, LogFacts DEF Positions
    <2> QED
      BY <2>1, <2>2 DEF Start, FloatRange, Stamp
  <1>2. CASE UNCHANGED vars
    BY <1>2 DEF PlayInv, TypeOK, Synced, vars, timeline, tree, LatestAt, LastAt,
               Positions, Stamp, RecordOf, FloatRange, Start
  <1>3. CASE Next
    <2>1. PICK ev \in Events(FloatRange), dt \in Dts :
            /\ TimelineUpdate(ev, dt)
            /\ InWindow(float_time')
            /\ TreeUpdate(Current(float_time'))
            /\ UNCHANGED log
      BY <1>3 DEF Next, Frame
    <2> DEFINE t == Current(float_time')
    <2>2. float_time' \in -TimeSlack .. FloatRange + TimeSlack
      BY <2>1 DEF InWindow
    <2>3. t \in Int
      BY <1>1, <2>2, TimeAssumption DEF Current
    <2>4. data' = LatestAt(t) /\ last_index' = LastAt(t)
      <3>1. CASE \/ last_timestamp = NoTime
                 \/ t < last_timestamp
                 \/ t - last_timestamp > SecondUnits
        <4>1. Seek(t)
          BY <2>1, <3>1 DEF TreeUpdate
        <4> QED
          BY <1>1, <2>3, <4>1, SeekSyncs
      <3>2. CASE ~ \/ last_timestamp = NoTime
                   \/ t < last_timestamp
                   \/ t - last_timestamp > SecondUnits
        <4>1. Step(t)
          BY <2>1, <3>2 DEF TreeUpdate
        <4>2. last_timestamp \in Int /\ last_timestamp <= t
          BY <2>3, <3>2 DEF PlayInv, TypeOK
        <4>3. data = LatestAt(last_timestamp) /\ last_index = LastAt(last_timestamp)
          BY <3>2 DEF PlayInv, Synced
        <4> QED
          BY <1>1, <2>3, <4>1, <4>2, <4>3, StepSyncs
      <3> QED
        BY <3>1, <3>2
    <2>5. last_timestamp' = t
      BY <2>1 DEF TreeUpdate
    <2>6. Cut(LastAt(t), t) /\ \A r \in Records : LatestAt(t)[r] \in 0 .. LastAt(t)
      BY <1>1, <2>3, CutLastAt, LatestBound
    <2>7. mode' \in Modes /\ step' \in StepValues /\ fast_speed' \in SpeedValues
          /\ clock_started' = TRUE
      <3>1. /\ ev.kind = "mode" => ev.mode \in Modes
            /\ ev.kind = "step" => ev.value \in StepValues
            /\ ev.kind = "speed" => ev.value \in SpeedValues
        BY EventFacts
      <3>2. mode \in Modes /\ step \in StepValues /\ fast_speed \in SpeedValues
        BY DEF PlayInv, TypeOK
      <3> QED
        BY <2>1, <3>1, <3>2 DEF TimelineUpdate, Modes
    <2>8. TypeOK'
      <3>1. last_index' \in 0 .. Len(log)
        BY <2>4, <2>6 DEF Cut
      <3>2. data' \in [Records -> -1 .. Len(log)]
        <4>1. LastAt(t) \in 0 .. Len(log)
          BY <2>6 DEF Cut
        <4> QED
          BY <2>4, <2>6, <4>1 DEF LatestAt
      <3> QED
        BY <1>1, <2>1, <2>2, <2>3, <2>5, <2>7, <3>1, <3>2
        DEF TypeOK, FloatRange, Start
    <2>9. Synced'
      <3>1. t # NoTime
        BY <2>3, TimeAssumption
      <3> QED
        BY <2>1, <2>4, <2>5, <3>1
        DEF Synced, LatestAt, LastAt, Positions, Stamp, RecordOf
    <2> QED
      BY <2>8, <2>9 DEF PlayInv
  <1> QED
    BY <1>2, <1>3

-----------------------------------------------------------------------------
(* Every state of tplot2's playback loop is well typed: float_time_ stays *)
(* in its window, the step and speed fields hold values the user typed, and *)
(* last_index_ and every record's entry of data_ are positions of the log  *)
(* (or -1 before the record is first seen).                                *)
THEOREM TypeCorrect == Spec => []TypeOK
  <1>1. PlayInv => TypeOK
    BY DEF PlayInv
  <1> QED
    BY <1>1, PlayInvInit, PlayInvStep, PTL DEF Spec

(* For every log written in time order, after any mix of seeks and         *)
(* incremental TreeView::Step calls the tree shows for every record the    *)
(* item a fresh FileReader::Seek to the displayed time gives.              *)
THEOREM TreeSynced == Spec => []TreeShowsLatest
  <1>1. PlayInv => TreeShowsLatest
    BY DEF PlayInv, Synced, TreeShowsLatest
  <1> QED
    BY <1>1, PlayInvInit, PlayInvStep, PTL DEF Spec

=============================================================================
