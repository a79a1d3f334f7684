-------------------------- MODULE MCGimbalStabilizer --------------------------
(***************************************************************************)
(* GimbalStabilizer instantiated for TLC: a 4-bit clock (it wraps, and it   *)
(* passes through the timestamp 0), two ticks per second, a one-second     *)
(* initialization period and a half-second watchdog.                       *)
(***************************************************************************)
EXTENDS GimbalStabilizer

\* Data lives in a Pool whose storage is zero-filled, so Data::state starts
\* as kInitializing (enumerator 0).
MCZeroedState == {"kInitializing"}

\* The channels of Config() (the configuration the firmware starts with).
MCPitchMotor == ConfigDefaults.pitch
MCYawMotor == ConfigDefaults.yaw

\* Data::state read uninitialised: any enumerator.
MCAnyState == {"kInitializing", "kOperating", "kFault"}

=============================================================================
