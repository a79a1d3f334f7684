--------------------------- MODULE GimbalStabilizer ---------------------------
(***************************************************************************)
(* GimbalStabilizer::Impl of                                               *)
(* src/hw/gimbal/firmware/gimbal/gimbal_stabilizer.cc.                     *)
(*                                                                         *)
(* Two entry points, serialised on one execution context, change its Data: *)
(* HandleAhrs, the callback of the AHRS signal, dispatches on Data::state  *)
(* to DoInitializing, DoOperating or DoFault and then publishes Data to    *)
(* telemetry; PollMillisecond, called once per millisecond, is the         *)
(* watchdog.  The environment is the clock, which advances one tick per   *)
(* poll period and wraps at 2^ClockBits like the uint32_t timestamps.     *)
(*                                                                         *)
(* Data is abstracted to what the properties tell apart: the PID states,   *)
(* the set points and the commutation values are left out; a motor output *)
(* is "zero" after Set(0, 0, 0) and otherwise names the axis whose         *)
(* three-phase command it last received (three phases 120 degrees apart    *)
(* are never all zero).                                                    *)
(***************************************************************************)
EXTENDS Integers

CONSTANTS
  ClockBits,            \* width of Clock::timestamp(), 32 in the firmware
  TicksPerSecond,       \* Clock::ticks_per_second(), in poll periods
  InitPeriodTicks,      \* initialization_period_s * ticks_per_second
  WatchdogTicks,        \* watchdog_period_s * ticks_per_second
  IntegerTickDivision,  \* TRUE if (now - start) / ticks_per_second() truncates
  MaxSampleLag,         \* how many ticks AhrsData::timestamp lags the clock
  PitchMotor,           \* config_.pitch.motor (a uint8_t)
  YawMotor,             \* config_.yaw.motor (a uint8_t)
  InitialStates         \* the values Data::state can hold at construction

States == {"kInitializing", "kOperating", "kFault"}
Motors == {1, 2}
Outputs == {"zero", "pitch", "yaw"}
Modulus == 2^ClockBits
Timestamps == 0 .. (Modulus - 1)
SampleLags == 0 .. MaxSampleLag

ASSUME ClockAssumption == ClockBits \in Nat \ {0}
ASSUME RateAssumption == TicksPerSecond \in Nat \ {0}
ASSUME PeriodAssumption ==
  /\ InitPeriodTicks \in Nat
  /\ WatchdogTicks \in Nat
  /\ WatchdogTicks + 1 < Modulus
ASSUME DivisionAssumption == IntegerTickDivision \in BOOLEAN
ASSUME LagAssumption == MaxSampleLag \in 0 .. WatchdogTicks
(* ChannelConfig::motor is a uint8_t; its initializer -1 is 255. *)
MotorIds == 0 .. 255

(* Config(): before the persisted configuration is loaded, pitch drives  *)
(* motor 1 and yaw motor 2.                                                *)
ConfigDefaults == [pitch |-> 1, yaw |-> 2]

ASSUME MotorAssumption == PitchMotor \in MotorIds /\ YawMotor \in MotorIds
ASSUME InitialStateAssumption ==
  InitialStates \subseteq States /\ InitialStates # {}

VARIABLES
  now,               \* clock_.timestamp()
  pollDue,           \* the poll of the current tick has not run yet
  state,             \* data_.state
  start_timestamp,   \* data_.start_timestamp
  last_ahrs_update,  \* data_.last_ahrs_update
  torque_on,         \* data_.torque_on
  motor_enable,      \* level last written to motor_enable_
  motor,             \* output last written to motor1_ and motor2_
  telemetry_state,   \* Data::state in the last snapshot data_updater_ published
  cleanAge           \* history: ticks since the first sample of the current
                     \* error-free run of samples (-1: none), saturating

stabilizer == <<state, start_timestamp, last_ahrs_update, torque_on,
                motor_enable, motor>>
vars == <<now, pollDue, stabilizer, telemetry_state, cleanAge>>

-----------------------------------------------------------------------------
(* Helpers. *)

\* clock_.timestamp() - t in uint32_t arithmetic.
Elapsed(t) == (now - t) % Modulus

\* elapsed_s > config_.initialization_period_s for d elapsed ticks; the
\* division truncates when ticks_per_second() is of an integer type.
InitElapsedExceeds(d) ==
  IF IntegerTickDivision
    THEN (d \div TicksPerSecond) * TicksPerSecond > InitPeriodTicks
    ELSE d > InitPeriodTicks

\* pitch_motor() and yaw_motor(): the configured channel, or a fixed one.
PitchChannel == IF PitchMotor \in Motors THEN PitchMotor ELSE 1
YawChannel == IF YawMotor \in Motors THEN YawMotor ELSE 2

\* The motors energised or enabled.
Driven == motor_enable \/ \E m \in Motors : motor[m] # "zero"

-----------------------------------------------------------------------------
(* The handlers. *)

\* Mutant of DoFault: motor2_ is left as DoOperating wrote it.
DoFault_KeepsMotor2 ==
  /\ state' = "kFault"
  /\ torque_on' = FALSE
  /\ motor_enable' = FALSE
  /\ motor' = [motor EXCEPT ![1] = "zero"]
  /\ UNCHANGED <<start_timestamp, last_ahrs_update>>

\* Mutant of DoFault: outputs cleared but data_.state never set.
DoFault_KeepsState ==
  /\ torque_on' = FALSE
  /\ motor_enable' = FALSE
  /\ motor' = [m \in Motors |-> "zero"]
  /\ UNCHANGED <<state, start_timestamp, last_ahrs_update>>

\* DoFault(): the safe state, all outputs off.
DoFault ==
  /\ state' = "kFault"
  /\ torque_on' = FALSE
  /\ motor_enable' = FALSE
  /\ motor' = [m \in Motors |-> "zero"]
  /\ UNCHANGED <<start_timestamp, last_ahrs_update>>

\* Mutant of RestartTimer: an error sample leaves the timer running.
RestartTimer_Forgets ==
  UNCHANGED <<state, start_timestamp, last_ahrs_update>>

\* An error sample while initializing restarts the arming timer.
RestartTimer ==
  /\ start_timestamp' = 0
  /\ UNCHANGED <<state, last_ahrs_update>>

\* The first good sample starts the timer (0 means "not started").
StartTimer ==
  /\ start_timestamp' = now
  /\ UNCHANGED <<state, last_ahrs_update>>

\* Mutant of ArmWhenElapsed: the watchdog starts from the timer's start.
ArmWhenElapsed_StaleStamp ==
  \/ /\ InitElapsedExceeds(Elapsed(start_timestamp))
     /\ last_ahrs_update' = start_timestamp
     /\ state' = "kOperating"
     /\ UNCHANGED start_timestamp
  \/ /\ ~InitElapsedExceeds(Elapsed(start_timestamp))
     /\ UNCHANGED <<state, start_timestamp, last_ahrs_update>>

\* A later good sample arms once more than the period has elapsed; the
\* set points it also takes (pitch 0, the sample's yaw) are not modelled.
ArmWhenElapsed ==
  \/ /\ InitElapsedExceeds(Elapsed(start_timestamp))
     /\ last_ahrs_update' = now
     /\ state' = "kOperating"
     /\ UNCHANGED start_timestamp
  \/ /\ ~InitElapsedExceeds(Elapsed(start_timestamp))
     /\ UNCHANGED <<state, start_timestamp, last_ahrs_update>>

\* DoInitializing(data): motors disabled, then the arming timer.
DoInitializing(error) ==
  /\ motor_enable' = FALSE
  /\ UNCHANGED <<torque_on, motor>>
  /\ \/ error /\ RestartTimer
     \/ ~error /\ start_timestamp = 0 /\ StartTimer
     \/ ~error /\ start_timestamp # 0 /\ ArmWhenElapsed

\* Mutant of DoOperating: the sample's timestamp computed without wrapping.
DoOperating_SignedStamp(error, lag) ==
  \/ error /\ DoFault
  \/ /\ ~error
     /\ last_ahrs_update' = now - lag
     /\ motor_enable' = torque_on
     /\ motor' = [motor EXCEPT ![PitchChannel] = "pitch",
                               ![YawChannel] = "yaw"]
     /\ UNCHANGED <<state, start_timestamp, torque_on>>

\* DoOperating(data): an error faults; otherwise the sample's timestamp
\* (lag ticks old) feeds the watchdog and both axes are commanded, pitch
\* first, so that yaw's write wins when both select the same motor.
DoOperating(error, lag) ==
  \/ error /\ DoFault
  \/ /\ ~error
     /\ last_ahrs_update' = (now - lag) % Modulus
     /\ motor_enable' = torque_on
     /\ motor' = [motor EXCEPT ![PitchChannel] = "pitch",
                               ![YawChannel] = "yaw"]
     /\ UNCHANGED <<state, start_timestamp, torque_on>>

\* Mutant of HandleAhrs: the kFault case dispatches to DoOperating.
HandleAhrs_FaultOperates(error, lag) ==
  /\ \/ state = "kInitializing" /\ DoInitializing(error)
     \/ state \in {"kOperating", "kFault"} /\ DoOperating(error, lag)
  /\ telemetry_state' = state'
  /\ cleanAge' = IF error THEN -1 ELSE IF cleanAge = -1 THEN 0 ELSE cleanAge
  /\ UNCHANGED <<now, pollDue>>

\* HandleAhrs(data): dispatch on the state, then data_updater_().
HandleAhrs(error, lag) ==
  /\ \/ state = "kInitializing" /\ DoInitializing(error)
     \/ state = "kOperating" /\ DoOperating(error, lag)
     \/ state = "kFault" /\ DoFault
  /\ telemetry_state' = state'
  /\ cleanAge' = IF error THEN -1 ELSE IF cleanAge = -1 THEN 0 ELSE cleanAge
  /\ UNCHANGED <<now, pollDue>>

\* PollMillisecond(): fault an operating stabilizer whose last sample is
\* more than the watchdog period old.  It publishes nothing.
PollMillisecond ==
  /\ pollDue
  /\ pollDue' = FALSE
  /\ \/ /\ state = "kOperating"
        /\ Elapsed(last_ahrs_update) > WatchdogTicks
        /\ DoFault
     \/ /\ ~(state = "kOperating" /\ Elapsed(last_ahrs_update) > WatchdogTicks)
        /\ UNCHANGED stabilizer
  /\ UNCHANGED <<now, telemetry_state, cleanAge>>

\* The clock advances one poll period; the scheduler polls once per tick.
Tick ==
  /\ ~pollDue
  /\ now' = (now + 1) % Modulus
  /\ pollDue' = TRUE
  /\ cleanAge' = IF cleanAge = -1 THEN -1
                 ELSE IF cleanAge > InitPeriodTicks THEN cleanAge
                 ELSE cleanAge + 1
  /\ UNCHANGED <<stabilizer, telemetry_state>>

-----------------------------------------------------------------------------
(* The specification. *)

\* Impl(...) and Data's initialisers: nothing published, outputs off.
Init ==
  /\ now \in Timestamps
  /\ pollDue = FALSE
  /\ state \in InitialStates
  /\ start_timestamp = 0
  /\ last_ahrs_update = 0
  /\ torque_on = FALSE
  /\ motor_enable = FALSE
  /\ motor = [m \in Motors |-> "zero"]
  /\ telemetry_state = "none"
  /\ cleanAge = -1

SampleArrives == \E error \in BOOLEAN, lag \in SampleLags : HandleAhrs(error, lag)

Next == Tick \/ PollMillisecond \/ SampleArrives

\* The clock and the millisecond poll always run; samples may stop.
Fairness == WF_vars(Tick) /\ WF_vars(PollMillisecond)

Spec == Init /\ [][Next]_vars /\ Fairness

-----------------------------------------------------------------------------
(* Properties. *)

TypeOK ==
  /\ now \in Timestamps
  /\ pollDue \in BOOLEAN
  /\ state \in States
  /\ start_timestamp \in Timestamps
  /\ last_ahrs_update \in Timestamps
  /\ torque_on \in BOOLEAN
  /\ motor_enable \in BOOLEAN
  /\ motor \in [Motors -> Outputs]
  /\ telemetry_state \in States \cup {"none"}
  /\ cleanAge \in -1 .. (InitPeriodTicks + 1)

\* Whenever the stabilizer is not operating, both motors hold Set(0, 0, 0)
\* and the enable line is low: DoFault must clear everything DoOperating
\* wrote, and DoInitializing must never write a motor.
SafeOutputs ==
  state # "kOperating" =>
    /\ ~motor_enable
    /\ \A m \in Motors : motor[m] = "zero"

\* While operating, the sample the motors are steered by is at most one
\* watchdog period (plus the tick not yet polled) old: arming, every
\* accepted sample and PollMillisecond together keep last_ahrs_update fresh.
WatchdogFreshness ==
  state = "kOperating" => Elapsed(last_ahrs_update) <= WatchdogTicks + 1

\* DoInitializing arms only after an error-free run of samples longer than
\* initialization_period_s: an error sample restarts the arming timer.
ArmingWindow ==
  [][state = "kInitializing" /\ state' = "kOperating"
       => cleanAge > InitPeriodTicks]_vars

\* If the AHRS stops delivering samples, the watchdog (PollMillisecond)
\* eventually takes the stabilizer out of kOperating for good.
StaleSensorFaults ==
  <>[][~SampleArrives]_vars => <>[](state # "kOperating")

\* The stabilizer implements the mode machine of GimbalModes: it starts
\* initializing, arms once, drives the motors only while operating, and
\* kFault (from an error sample or the watchdog) de-energises them for good.
Modes == INSTANCE GimbalModes WITH mode <- state, driven <- Driven
ModesSpec == Modes!Spec

(* Properties of the spec that the code does not have (violation runs). *)

\* Spec section 8: a good sample arriving more than initialization_period_s
\* after the first good sample of an error-free run arms the stabilizer.
ArmsAfterPeriod ==
  [][state = "kInitializing" /\ cleanAge > InitPeriodTicks
       /\ (\E lag \in SampleLags : HandleAhrs(FALSE, lag))
       => state' = "kOperating"]_vars

\* Spec sections 3 and 7: Data is published to telemetry, so a fault is
\* eventually visible there, whichever entry point caused it.
FaultIsPublished == state = "kFault" ~> telemetry_state = "kFault"

\* Spec sections 5 and 9 (Initializing is the initial state; outputs stay
\* zero until more than initialization_period_s of clean samples): HandleAhrs
\* first energises a motor only after such a run of samples.
DrivenOnlyAfterArming ==
  [][~Driven /\ Driven' => cleanAge > InitPeriodTicks]_vars

=============================================================================
