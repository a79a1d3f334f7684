------------------------ MODULE GimbalStabilizerProofs ------------------------
(***************************************************************************)
(* Proofs about GimbalStabilizer for every value of its constants.         *)
(***************************************************************************)
EXTENDS GimbalStabilizer, TLAPS

\* The clock modulus 2^ClockBits is a positive integer.
LEMMA ModulusPositive == Modulus \in Nat \ {0}
  <1>1. Modulus \in Int
    BY ClockAssumption DEF Modulus
  <1>2. QED
    BY <1>1, PeriodAssumption


\* uint32_t subtraction stays a timestamp.
LEMMA ElapsedType ==
  ASSUME NEW t \in Int
  PROVE  (t % Modulus) \in Timestamps
  BY ModulusPositive DEF Timestamps

\* TypeOK split into the groups of variables the proof handles apart.
ClockTypeOK ==
  /\ now \in Timestamps
  /\ start_timestamp \in Timestamps
  /\ last_ahrs_update \in Timestamps
  /\ cleanAge \in -1 .. (InitPeriodTicks + 1)
FlagTypeOK ==
  /\ pollDue \in BOOLEAN
  /\ torque_on \in BOOLEAN
  /\ motor_enable \in BOOLEAN
ModeTypeOK ==
  /\ state \in States
  /\ motor \in [Motors -> Outputs]
  /\ telemetry_state \in States \cup {"none"}

LEMMA TypeOKParts == TypeOK <=> ClockTypeOK /\ FlagTypeOK /\ ModeTypeOK
  BY DEF TypeOK, ClockTypeOK, FlagTypeOK, ModeTypeOK

\* The history variable stays in its range on every step that sets it.
LEMMA CleanAgeType ==
  ASSUME NEW error \in BOOLEAN, cleanAge \in -1 .. (InitPeriodTicks + 1)
  PROVE  /\ (IF error THEN -1 ELSE IF cleanAge = -1 THEN 0 ELSE cleanAge)
              \in -1 .. (InitPeriodTicks + 1)
         /\ (IF cleanAge = -1 THEN -1
             ELSE IF cleanAge > InitPeriodTicks THEN cleanAge
             ELSE cleanAge + 1) \in -1 .. (InitPeriodTicks + 1)
  BY PeriodAssumption

\* DoFault sets every field it writes to a value of its type.
LEMMA DoFaultType ==
  ASSUME DoFault
  PROVE  /\ state' \in States
         /\ torque_on' \in BOOLEAN
         /\ motor_enable' \in BOOLEAN
         /\ motor' \in [Motors -> Outputs]
  BY DEF DoFault, States, Motors, Outputs

\* The initial states are well typed.
LEMMA TypeOKInit == Init => TypeOK
<1> SUFFICES ASSUME Init PROVE ClockTypeOK /\ FlagTypeOK /\ ModeTypeOK
  BY TypeOKParts
<1>1. ClockTypeOK
  BY ModulusPositive, PeriodAssumption DEF Init, ClockTypeOK, Timestamps
<1>2. FlagTypeOK
  BY DEF Init, FlagTypeOK
<1>3. ModeTypeOK
  BY InitialStateAssumption DEF Init, ModeTypeOK, States, Motors, Outputs
<1>4. QED
  BY <1>1, <1>2, <1>3

\* Every step keeps each variable in its type.
LEMMA TypeOKStep == TypeOK /\ [Next]_vars => TypeOK'
<1> SUFFICES ASSUME TypeOK, [Next]_vars
             PROVE  ClockTypeOK' /\ FlagTypeOK' /\ ModeTypeOK'
  BY DEF TypeOK, ClockTypeOK, FlagTypeOK, ModeTypeOK
<1> USE DEF TypeOK
<1>1. CASE Tick
  <2>1. now' \in Timestamps
    <3>1. now + 1 \in Int
      BY ModulusPositive DEF Timestamps
    <3>2. QED
      BY <1>1, <3>1, ElapsedType DEF Tick
  <2>2. cleanAge' \in -1 .. (InitPeriodTicks + 1)
    BY <1>1, CleanAgeType DEF Tick
  <2>3. ClockTypeOK'
    BY <1>1, <2>1, <2>2 DEF Tick, stabilizer, ClockTypeOK
  <2>4. FlagTypeOK' /\ ModeTypeOK'
    BY <1>1 DEF Tick, stabilizer, FlagTypeOK, ModeTypeOK
  <2>5. QED
    BY <2>3, <2>4
<1>2. CASE PollMillisecond
  <2>1. ClockTypeOK'
    BY <1>2 DEF PollMillisecond, DoFault, stabilizer, ClockTypeOK
  <2>2. CASE state = "kOperating" /\ Elapsed(last_ahrs_update) > WatchdogTicks
              /\ DoFault
    <3>1. FlagTypeOK'
      BY <1>2, <2>2 DEF PollMillisecond, DoFault, FlagTypeOK
    <3>2. ModeTypeOK'
      BY <1>2, <2>2 DEF PollMillisecond, DoFault, ModeTypeOK, States,
                        Motors, Outputs
    <3>3. QED
      BY <2>1, <3>1, <3>2
  <2>3. CASE UNCHANGED stabilizer
    <3>1. FlagTypeOK' /\ ModeTypeOK'
      BY <1>2, <2>3 DEF PollMillisecond, stabilizer, FlagTypeOK, ModeTypeOK
    <3>2. QED
      BY <2>1, <3>1
  <2>4. QED
    BY <1>2, <2>1, <2>2, <2>3 DEF PollMillisecond
<1>3. ASSUME NEW error \in BOOLEAN, NEW lag \in SampleLags,
             HandleAhrs(error, lag)
      PROVE  ClockTypeOK' /\ FlagTypeOK' /\ ModeTypeOK'
  <2>1. cleanAge' \in -1 .. (InitPeriodTicks + 1)
    BY <1>3, CleanAgeType DEF HandleAhrs
  <2>2. UNCHANGED <<now, pollDue>>
    BY <1>3 DEF HandleAhrs
  <2>3. telemetry_state' = state'
    BY <1>3 DEF HandleAhrs
  <2>4. CASE state = "kInitializing" /\ DoInitializing(error)
    <3>1. start_timestamp' \in Timestamps /\ last_ahrs_update' \in Timestamps
      BY <2>4, ModulusPositive
      DEF DoInitializing, RestartTimer, StartTimer, ArmWhenElapsed,
          Timestamps
    <3>2. state' \in States /\ motor' = motor
          /\ torque_on' = torque_on /\ motor_enable' = FALSE
      BY <2>4 DEF DoInitializing, RestartTimer, StartTimer, ArmWhenElapsed,
                  States
    <3>3. QED
      BY <2>1, <2>2, <2>3, <3>1, <3>2
      DEF ClockTypeOK, FlagTypeOK, ModeTypeOK, States
  <2>5. CASE state = "kOperating" /\ DoOperating(error, lag)
    <3>1. CASE error /\ DoFault
      <4>1. UNCHANGED <<start_timestamp, last_ahrs_update>>
        BY <3>1 DEF DoFault
      <4>2. QED
        BY <2>1, <2>2, <2>3, <3>1, <4>1, DoFaultType
        DEF ClockTypeOK, FlagTypeOK, ModeTypeOK, States
    <3>2. CASE ~error /\ last_ahrs_update' = (now - lag) % Modulus
               /\ motor_enable' = torque_on
               /\ motor' = [motor EXCEPT ![PitchChannel] = "pitch",
                                         ![YawChannel] = "yaw"]
               /\ UNCHANGED <<state, start_timestamp, torque_on>>
      <4>1. last_ahrs_update' \in Timestamps
        <5>1. now - lag \in Int
          BY LagAssumption, ModulusPositive DEF SampleLags, Timestamps
        <5>2. QED
          BY <3>2, <5>1, ElapsedType
      <4>2. motor' \in [Motors -> Outputs]
        BY <3>2 DEF Motors, Outputs
      <4>3. QED
        BY <2>1, <2>2, <2>3, <3>2, <4>1, <4>2
        DEF ClockTypeOK, FlagTypeOK, ModeTypeOK
    <3>3. QED
      BY <2>5, <3>1, <3>2 DEF DoOperating
  <2>6. CASE state = "kFault" /\ DoFault
    <3>1. UNCHANGED <<start_timestamp, last_ahrs_update>>
      BY <2>6 DEF DoFault
    <3>2. QED
      BY <2>1, <2>2, <2>3, <2>6, <3>1, DoFaultType
      DEF ClockTypeOK, FlagTypeOK, ModeTypeOK, States
  <2>7. QED
    BY <1>3, <2>4, <2>5, <2>6 DEF HandleAhrs
<1>4. CASE UNCHANGED vars
  BY <1>4 DEF vars, stabilizer, ClockTypeOK, FlagTypeOK, ModeTypeOK
<1>5. QED
  BY <1>1, <1>2, <1>3, <1>4 DEF Next, SampleArrives

\* Every operation keeps each variable in its type (TypeOK is inductive).
THEOREM TypeCorrect == Spec => []TypeOK
<1>1. Init => TypeOK
  BY TypeOKInit
<1>2. TypeOK /\ [Next]_vars => TypeOK'
  BY TypeOKStep
<1>3. QED
  BY <1>1, <1>2, PTL DEF Spec


\* SafeOutputs together with TypeOK is inductive: no strengthening needed,
\* since only DoOperating writes the motors and it runs in kOperating.
OutputsInv == TypeOK /\ SafeOutputs

\* Whenever the stabilizer is not operating, the motors hold Set(0, 0, 0)
\* and the enable line is low (DoFault clears what DoOperating wrote,
\* DoInitializing never writes a motor).
LEMMA OutputsInvInit == Init => OutputsInv
<1> SUFFICES ASSUME Init PROVE SafeOutputs
  BY TypeOKInit DEF OutputsInv
<1> QED
  BY DEF Init, SafeOutputs

LEMMA OutputsInvStep == OutputsInv /\ [Next]_vars => OutputsInv'
<1> SUFFICES ASSUME TypeOK, SafeOutputs, [Next]_vars, TypeOK'
             PROVE  SafeOutputs'
  BY TypeOKStep DEF OutputsInv
<1>1. CASE Tick
  BY <1>1 DEF Tick, stabilizer, SafeOutputs
<1>2. CASE PollMillisecond
  BY <1>2 DEF PollMillisecond, DoFault, stabilizer, SafeOutputs
<1>3. ASSUME NEW error \in BOOLEAN, NEW lag \in SampleLags,
             HandleAhrs(error, lag)
      PROVE  SafeOutputs'
  <2>1. CASE state = "kInitializing" /\ DoInitializing(error)
    BY <2>1 DEF DoInitializing, SafeOutputs
  <2>2. CASE state = "kOperating" /\ DoOperating(error, lag)
    BY <2>2 DEF DoOperating, DoFault, SafeOutputs
  <2>3. CASE state = "kFault" /\ DoFault
    BY <2>3 DEF DoFault, SafeOutputs
  <2>4. QED
    BY <1>3, <2>1, <2>2, <2>3 DEF HandleAhrs
<1>4. CASE UNCHANGED vars
  BY <1>4 DEF vars, stabilizer, SafeOutputs
<1>5. QED
  BY <1>1, <1>2, <1>3, <1>4 DEF Next, SampleArrives

\* Whenever the stabilizer is not operating, the motors hold Set(0, 0, 0)
\* and the enable line is low (DoFault clears what DoOperating wrote,
\* DoInitializing never writes a motor).
THEOREM OutputsSafe == Spec => []SafeOutputs
<1>1. OutputsInv => SafeOutputs
  BY DEF OutputsInv
<1> QED
  BY <1>1, OutputsInvInit, OutputsInvStep, PTL DEF Spec

\* Every step of the stabilizer is a step of the mode machine or leaves
\* its mode and the energised outputs alone.
LEMMA ModesStep ==
  OutputsInv /\ [Next]_vars => [Modes!Next]_Modes!vars
<1> SUFFICES ASSUME TypeOK, SafeOutputs, [Next]_vars
             PROVE  [Modes!Next]_Modes!vars
  BY DEF OutputsInv
<1> DEFINE Stutter == UNCHANGED <<state, motor_enable, motor>>
<1>0. Stutter => UNCHANGED Modes!vars
  BY DEF Modes!vars, Driven
<1>1. DoFault /\ state \in {"kOperating", "kFault"} => Modes!Fault
  BY DEF DoFault, Modes!Fault, Driven
<1>2. CASE Tick
  BY <1>0, <1>2 DEF Tick, stabilizer
<1>3. CASE PollMillisecond
  BY <1>0, <1>1, <1>3 DEF PollMillisecond, stabilizer, Modes!Next
<1>4. ASSUME NEW error \in BOOLEAN, NEW lag \in SampleLags,
             HandleAhrs(error, lag)
      PROVE  [Modes!Next]_Modes!vars
  <2>1. CASE state = "kInitializing" /\ DoInitializing(error)
    <3>1. ~Driven /\ ~Driven'
      BY <2>1 DEF SafeOutputs, Driven, DoInitializing
    <3>2. state' = state \/ state' = "kOperating"
      BY <2>1 DEF DoInitializing, RestartTimer, StartTimer, ArmWhenElapsed
    <3>3. Driven' = Driven
      BY <3>1 DEF Driven
    <3>4. CASE state' = state
      BY <3>3, <3>4 DEF Modes!vars
    <3>5. CASE state' = "kOperating"
      <4>1. Modes!Arm
        BY <2>1, <3>3, <3>5, Zenon DEF Modes!Arm
      <4> QED
        BY <4>1 DEF Modes!Next
    <3> QED
      BY <3>2, <3>4, <3>5
  <2>2. CASE state = "kOperating" /\ DoOperating(error, lag)
    <3>1. CASE error /\ DoFault
      BY <2>2, <3>1, <1>1 DEF Modes!Next
    <3>2. CASE ~error /\ motor' = [motor EXCEPT ![PitchChannel] = "pitch",
                                                 ![YawChannel] = "yaw"]
                      /\ UNCHANGED state
      <4>1. YawChannel \in Motors /\ motor' [YawChannel] = "yaw"
        BY <3>2 DEF TypeOK, YawChannel, PitchChannel, Motors
      <4>2. Driven'
        BY <4>1 DEF Driven
      <4>3. Modes!Drive
        BY <2>2, <3>2, <4>2 DEF Modes!Drive, Driven
      <4> QED
        BY <4>3 DEF Modes!Next
    <3> QED
      BY <2>2, <3>1, <3>2 DEF DoOperating
  <2>3. CASE state = "kFault" /\ DoFault
    BY <2>3, <1>1 DEF Modes!Next
  <2> QED
    BY <1>4, <2>1, <2>2, <2>3 DEF HandleAhrs
<1>5. CASE UNCHANGED vars
  BY <1>0, <1>5 DEF vars, stabilizer
<1> QED
  BY <1>2, <1>3, <1>4, <1>5 DEF Next, SampleArrives

\* The stabilizer implements the mode machine of GimbalModes, for every
\* clock, rate, period and channel configuration, when Data::state starts
\* zero-filled (kInitializing): it arms once, energises the motors only
\* while operating, and kFault de-energises them for good.
THEOREM Refinement ==
  ASSUME InitialStates = {"kInitializing"}
  PROVE  Spec => ModesSpec
<1>1. Init => Modes!Init
  BY DEF Init, Modes!Init, Driven
<1> QED
  BY <1>1, ModesStep, OutputsInvInit, OutputsInvStep, PTL
     DEF Spec, ModesSpec, Modes!Spec

-----------------------------------------------------------------------------
(* The watchdog. *)

\* The age of a timestamp t < Modulus, read at a clock value a < Modulus,
\* is a - t, or a - t + Modulus once the clock has wrapped past t.
LEMMA ModDiff ==
  ASSUME NEW a \in Timestamps, NEW t \in Timestamps
  PROVE  (a - t) % Modulus = IF a >= t THEN a - t ELSE a - t + Modulus
<1>1. Modulus \in Nat \ {0}
  BY ModulusPositive
<1> QED
  BY <1>1 DEF Timestamps

\* A tick adds one to the age of every timestamp that is not about to wrap.
LEMMA ElapsedSucc ==
  ASSUME NEW a \in Timestamps, NEW t \in Timestamps,
         (a - t) % Modulus < Modulus - 1
  PROVE  (((a + 1) % Modulus) - t) % Modulus = ((a - t) % Modulus) + 1
<1>1. Modulus \in Nat \ {0}
  BY ModulusPositive
<1>2. (a - t) % Modulus = IF a >= t THEN a - t ELSE a - t + Modulus
  BY ModDiff
<1>3. CASE a + 1 < Modulus
  <2>1. (a + 1) % Modulus = a + 1 /\ a + 1 \in Timestamps
    BY <1>1, <1>3 DEF Timestamps
  <2>2. ((a + 1) - t) % Modulus = IF a + 1 >= t THEN a + 1 - t ELSE a + 1 - t + Modulus
    BY <1>1, <1>3 DEF Timestamps
  <2> QED
    BY <1>1, <1>2, <2>1, <2>2 DEF Timestamps
<1>4. CASE a + 1 = Modulus
  <2>1. (a + 1) % Modulus = 0 /\ 0 \in Timestamps
    BY <1>1, <1>4 DEF Timestamps
  <2>2. (0 - t) % Modulus = IF 0 >= t THEN 0 - t ELSE 0 - t + Modulus
    BY <1>1 DEF Timestamps
  <2> QED
    BY <1>1, <1>2, <1>4, <2>1, <2>2 DEF Timestamps
<1> QED
  BY <1>1, <1>3, <1>4 DEF Timestamps

\* A sample stamped lag ticks before the clock is lag ticks old.
LEMMA ElapsedLag ==
  ASSUME NEW a \in Timestamps, NEW lag \in 0 .. Modulus - 1
  PROVE  (a - ((a - lag) % Modulus)) % Modulus = lag
<1>1. Modulus \in Nat \ {0}
  BY ModulusPositive
<1>2. (a - lag) % Modulus \in Timestamps
  BY <1>1 DEF Timestamps
<1> QED
  BY <1>1, <1>2, ModDiff DEF Timestamps

\* The watchdog bound, tightened by one tick once the poll of the current
\* tick has run: PollMillisecond faults at an age above WatchdogTicks, and
\* the age grows by one tick between two polls.
FreshInv ==
  /\ TypeOK
  /\ state = "kOperating" =>
       Elapsed(last_ahrs_update) <= IF pollDue THEN WatchdogTicks + 1
                                                ELSE WatchdogTicks

\* Starting from a zero-filled Data (not in kOperating), the sample that
\* steers the motors in kOperating is never more than the watchdog period
\* plus one unpolled tick old, for every clock width, rate and period: the
\* arming sample, each accepted sample (at most MaxSampleLag old) and the
\* millisecond poll keep last_ahrs_update fresh across clock wraps.
THEOREM WatchdogSafe ==
  ASSUME "kOperating" \notin InitialStates
  PROVE  Spec => []WatchdogFreshness
<1> DEFINE Bound == IF pollDue THEN WatchdogTicks + 1 ELSE WatchdogTicks
<1>0. /\ Modulus \in Nat \ {0}
      /\ WatchdogTicks \in Nat /\ WatchdogTicks + 1 < Modulus
      /\ MaxSampleLag \in 0 .. WatchdogTicks
  BY ModulusPositive, PeriodAssumption, LagAssumption
<1>1. Init => FreshInv
  BY TypeOKInit DEF Init, FreshInv
<1>2. FreshInv /\ [Next]_vars => FreshInv'
  <2> SUFFICES ASSUME TypeOK, state = "kOperating" => Elapsed(last_ahrs_update) <= Bound,
                      [Next]_vars, TypeOK'
               PROVE  state' = "kOperating" => Elapsed(last_ahrs_update)' <= Bound'
    BY TypeOKStep DEF FreshInv
  <2> USE DEF TypeOK
  <2>1. CASE Tick
    <3> SUFFICES ASSUME state' = "kOperating"
                 PROVE  Elapsed(last_ahrs_update)' <= Bound'
      OBVIOUS
    <3>1. state = "kOperating" /\ ~pollDue /\ pollDue' /\ last_ahrs_update' = last_ahrs_update
      BY <2>1 DEF Tick, stabilizer
    <3>2. Elapsed(last_ahrs_update) <= WatchdogTicks
      BY <3>1
    <3>3. (now - last_ahrs_update) % Modulus < Modulus - 1
      BY <3>2, <1>0 DEF Elapsed, Timestamps
    <3>4. (((now + 1) % Modulus) - last_ahrs_update) % Modulus
            = ((now - last_ahrs_update) % Modulus) + 1
      BY <3>3, ElapsedSucc
    <3>5. now' = (now + 1) % Modulus
      BY <2>1 DEF Tick
    <3>6. Elapsed(last_ahrs_update)' = Elapsed(last_ahrs_update) + 1
      BY <3>1, <3>4, <3>5 DEF Elapsed
    <3>7. Bound' = WatchdogTicks + 1
      BY <3>1
    <3> QED
      BY <3>2, <3>6, <3>7, <1>0 DEF Elapsed, Timestamps
  <2>2. CASE PollMillisecond
    <3>1. CASE state = "kOperating" /\ Elapsed(last_ahrs_update) > WatchdogTicks /\ DoFault
      BY <3>1 DEF DoFault
    <3>2. CASE ~(state = "kOperating" /\ Elapsed(last_ahrs_update) > WatchdogTicks)
                /\ UNCHANGED stabilizer
      <4>1. UNCHANGED <<now, state, last_ahrs_update>> /\ ~pollDue'
        BY <2>2, <3>2 DEF PollMillisecond, stabilizer
      <4> QED
        BY <3>2, <4>1, <1>0 DEF Elapsed, Timestamps
    <3> QED
      BY <2>2, <3>1, <3>2 DEF PollMillisecond
  <2>3. ASSUME NEW error \in BOOLEAN, NEW lag \in SampleLags,
               HandleAhrs(error, lag)
        PROVE  state' = "kOperating" => Elapsed(last_ahrs_update)' <= Bound'
    <3>1. UNCHANGED <<now, pollDue>>
      BY <2>3 DEF HandleAhrs
    <3>2. CASE state = "kInitializing" /\ DoInitializing(error)
      <4>1. CASE error /\ RestartTimer
        BY <3>2, <4>1 DEF RestartTimer
      <4>2. CASE ~error /\ start_timestamp = 0 /\ StartTimer
        BY <3>2, <4>2 DEF StartTimer
      <4>3. CASE ~error /\ start_timestamp # 0 /\ ArmWhenElapsed
        <5>1. CASE last_ahrs_update' = now
          <6>1. (now - now) % Modulus = 0
            BY <1>0 DEF Timestamps
          <6> QED
            BY <3>1, <5>1, <6>1, <1>0 DEF Elapsed
        <5>2. CASE UNCHANGED state
          BY <3>2, <5>2
        <5> QED
          BY <4>3, <5>1, <5>2 DEF ArmWhenElapsed
      <4> QED
        BY <3>2, <4>1, <4>2, <4>3 DEF DoInitializing
    <3>3. CASE state = "kOperating" /\ DoOperating(error, lag)
      <4>1. CASE error /\ DoFault
        BY <4>1 DEF DoFault
      <4>2. CASE ~error /\ last_ahrs_update' = (now - lag) % Modulus
        <5>1. lag \in 0 .. Modulus - 1 /\ lag <= WatchdogTicks
          BY <1>0 DEF SampleLags
        <5>2. (now - ((now - lag) % Modulus)) % Modulus = lag
          BY <5>1, ElapsedLag
        <5> QED
          BY <3>1, <4>2, <5>1, <5>2, <1>0 DEF Elapsed
      <4> QED
        BY <3>3, <4>1, <4>2 DEF DoOperating
    <3>4. CASE state = "kFault" /\ DoFault
      BY <3>4 DEF DoFault
    <3> QED
      BY <2>3, <3>2, <3>3, <3>4 DEF HandleAhrs
  <2>4. CASE UNCHANGED vars
    BY <2>4 DEF vars, stabilizer, Elapsed
  <2> QED
    BY <2>1, <2>2, <2>3, <2>4 DEF Next, SampleArrives
<1>3. FreshInv => WatchdogFreshness
  BY <1>0 DEF FreshInv, WatchdogFreshness, TypeOK, Elapsed, Timestamps
<1> QED
  BY <1>1, <1>2, <1>3, PTL DEF Spec


\* A tick adds at most one to the age of any timestamp: one when the age
\* does not wrap, and the age falls back to 0 when it does.
LEMMA ElapsedAtMostSucc ==
  ASSUME NEW a \in Timestamps, NEW t \in Timestamps
  PROVE  (((a + 1) % Modulus) - t) % Modulus <= ((a - t) % Modulus) + 1
<1>1. Modulus \in Nat \ {0}
  BY ModulusPositive
<1>2. CASE (a - t) % Modulus < Modulus - 1
  <2>1. (((a + 1) % Modulus) - t) % Modulus = ((a - t) % Modulus) + 1
    BY <1>2, ElapsedSucc
  <2>2. ((a - t) % Modulus) + 1 \in Int
    BY <1>1 DEF Timestamps
  <2> QED
    BY <2>1, <2>2
<1>3. CASE ~((a - t) % Modulus < Modulus - 1)
  <2>1. (a - t) % Modulus = Modulus - 1
    BY <1>1, <1>3 DEF Timestamps
  <2>2. (((a + 1) % Modulus) - t) % Modulus \in 0 .. Modulus - 1
    BY <1>1 DEF Timestamps
  <2> QED
    BY <1>1, <2>1, <2>2
<1> QED
  BY <1>2, <1>3

\* The arming timer never runs ahead of the error-free run of samples:
\* while initializing with the timer started, the run has begun, and the
\* timer's age is at most the run's age unless the run is already longer
\* than the period.  It may lag behind: a first good sample at clock 0
\* leaves start_timestamp_ at "not started".
ArmTimer ==
  state = "kInitializing" /\ start_timestamp # 0 =>
    /\ cleanAge >= 0
    /\ cleanAge > InitPeriodTicks \/ Elapsed(start_timestamp) <= cleanAge

ArmInv == TypeOK /\ ArmTimer

LEMMA ArmInvInit == Init => ArmInv
  BY TypeOKInit DEF Init, ArmInv, ArmTimer

\* Only a sample in kInitializing leaves the stabilizer in kInitializing.
LEMMA StaysInitializing ==
  ASSUME TypeOK, [Next]_vars, state' = "kInitializing"
  PROVE  state = "kInitializing"
<1>1. CASE Tick
  BY <1>1 DEF Tick, stabilizer
<1>2. CASE PollMillisecond
  BY <1>2 DEF PollMillisecond, DoFault, stabilizer
<1>3. ASSUME NEW error \in BOOLEAN, NEW lag \in SampleLags, HandleAhrs(error, lag)
      PROVE  state = "kInitializing"
  BY <1>3 DEF HandleAhrs, DoOperating, DoFault
<1>4. CASE UNCHANGED vars
  BY <1>4 DEF vars, stabilizer
<1> QED
  BY <1>1, <1>2, <1>3, <1>4 DEF Next, SampleArrives

LEMMA ArmInvStep == ArmInv /\ [Next]_vars => ArmInv'
<1> SUFFICES ASSUME TypeOK, ArmTimer, [Next]_vars, TypeOK',
                    state' = "kInitializing", start_timestamp' # 0
             PROVE  /\ cleanAge' >= 0
                    /\ cleanAge' > InitPeriodTicks
                       \/ Elapsed(start_timestamp)' <= cleanAge'
  BY TypeOKStep DEF ArmInv, ArmTimer
<1> USE DEF TypeOK
<1>0. state = "kInitializing"
  BY StaysInitializing
<1>1. CASE Tick
  <2>1. start_timestamp' = start_timestamp /\ now' = (now + 1) % Modulus
    BY <1>1 DEF Tick, stabilizer
  <2>2. cleanAge >= 0 /\ (cleanAge > InitPeriodTicks \/ Elapsed(start_timestamp) <= cleanAge)
    BY <1>0, <2>1 DEF ArmTimer
  <2>3. cleanAge' = IF cleanAge > InitPeriodTicks THEN cleanAge ELSE cleanAge + 1
    BY <1>1, <2>2 DEF Tick
  <2>4. Elapsed(start_timestamp)' <= Elapsed(start_timestamp) + 1
    BY <2>1, ElapsedAtMostSucc DEF Elapsed
  <2> QED
    BY <2>2, <2>3, <2>4, PeriodAssumption, ModulusPositive DEF Elapsed, Timestamps
<1>2. CASE PollMillisecond
  <2>1. UNCHANGED <<now, start_timestamp, cleanAge>>
    BY <1>0, <1>2 DEF PollMillisecond, stabilizer
  <2> QED
    BY <1>0, <2>1 DEF ArmTimer, Elapsed
<1>3. ASSUME NEW error \in BOOLEAN, NEW lag \in SampleLags, HandleAhrs(error, lag)
      PROVE  /\ cleanAge' >= 0
             /\ cleanAge' > InitPeriodTicks \/ Elapsed(start_timestamp)' <= cleanAge'
  <2>1. DoInitializing(error) /\ now' = now
    BY <1>0, <1>3 DEF HandleAhrs
  <2>2. ~error
    BY <2>1 DEF DoInitializing, RestartTimer
  <2>3. cleanAge' = IF cleanAge = -1 THEN 0 ELSE cleanAge
    BY <1>3, <2>2 DEF HandleAhrs
  <2>4. CASE start_timestamp = 0 /\ StartTimer
    <3>1. (now - now) % Modulus = 0
      BY ModulusPositive DEF Timestamps
    <3> QED
      BY <2>1, <2>3, <2>4, <3>1 DEF StartTimer, Elapsed
  <2>5. CASE start_timestamp # 0 /\ ArmWhenElapsed
    <3>1. UNCHANGED <<state, start_timestamp>>
      BY <1>0, <2>5 DEF ArmWhenElapsed
    <3> QED
      BY <1>0, <2>1, <2>3, <2>5, <3>1 DEF ArmTimer, Elapsed
  <2> QED
    BY <2>1, <2>2, <2>4, <2>5 DEF DoInitializing
<1>4. CASE UNCHANGED vars
  BY <1>0, <1>4 DEF vars, stabilizer, ArmTimer, Elapsed
<1> QED
  BY <1>1, <1>2, <1>3, <1>4 DEF Next, SampleArrives


\* "elapsed_s > initialization_period_s" implies that more than the period
\* has elapsed in ticks, whether the division truncates or not.
LEMMA ExceedsImpliesElapsed ==
  ASSUME NEW d \in Nat, InitElapsedExceeds(d)
  PROVE  d > InitPeriodTicks
<1>1. TicksPerSecond \in Nat \ {0} /\ InitPeriodTicks \in Nat /\ IntegerTickDivision \in BOOLEAN
  BY RateAssumption, PeriodAssumption, DivisionAssumption
<1>2. CASE IntegerTickDivision
  <2>1. (d \div TicksPerSecond) * TicksPerSecond <= d
    BY <1>1
  <2> QED
    BY <1>1, <1>2, <2>1 DEF InitElapsedExceeds
<1>3. CASE ~IntegerTickDivision
  BY <1>3 DEF InitElapsedExceeds
<1> QED
  BY <1>2, <1>3

\* DoInitializing moves the stabilizer to kOperating only after an error-
\* free run of samples longer than initialization_period_s, for every clock
\* width, rate, period and initial state, across uint32 wraps of the clock:
\* an error sample restarts the timer, and the timer never runs ahead of
\* the run it measures.
THEOREM ArmingSafe == Spec => ArmingWindow
<1>1. ASSUME ArmInv, [Next]_vars, state = "kInitializing", state' = "kOperating"
      PROVE  cleanAge > InitPeriodTicks
  <2> USE DEF ArmInv, TypeOK
  <2>1. PICK error \in BOOLEAN, lag \in SampleLags : HandleAhrs(error, lag)
    BY <1>1 DEF Next, SampleArrives, Tick, PollMillisecond, DoFault, stabilizer, vars
  <2>2. ~error /\ start_timestamp # 0 /\ InitElapsedExceeds(Elapsed(start_timestamp))
    BY <1>1, <2>1 DEF HandleAhrs, DoInitializing, RestartTimer, StartTimer, ArmWhenElapsed
  <2>3. Elapsed(start_timestamp) \in Nat
    <3>1. now - start_timestamp \in Int
      BY <1>1 DEF Timestamps
    <3> QED
      BY <3>1, ElapsedType DEF Elapsed, Timestamps
  <2>4. Elapsed(start_timestamp) > InitPeriodTicks
    BY <2>2, <2>3, ExceedsImpliesElapsed
  <2> QED
    BY <1>1, <2>2, <2>3, <2>4, PeriodAssumption DEF ArmTimer
<1>2. ArmInv /\ [Next]_vars =>
        [state = "kInitializing" /\ state' = "kOperating" => cleanAge > InitPeriodTicks]_vars
  BY <1>1
<1> QED
  BY <1>2, ArmInvInit, ArmInvStep, PTL DEF Spec, ArmingWindow

=============================================================================
