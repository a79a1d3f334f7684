----------------------------- MODULE GimbalModes -----------------------------
(***************************************************************************)
(* What the gimbal stabilizer promises its motors, stated without clocks,  *)
(* samples or channels: a one-way mode machine                             *)
(*                                                                         *)
(*     kInitializing --Arm--> kOperating --Fault--> kFault                 *)
(*                                                                         *)
(* in which the motors may be energised (driven) only in kOperating, and   *)
(* kFault de-energises them and is never left.  GimbalStabilizer is shown  *)
(* to implement this specification (its property ModesSpec).               *)
(***************************************************************************)

VARIABLES
  mode,    \* the stabilizer's Data::state
  driven   \* TRUE when a motor output is non-zero or the enable line is set

vars == <<mode, driven>>

Modes == {"kInitializing", "kOperating", "kFault"}

TypeOK ==
  /\ mode \in Modes
  /\ driven \in BOOLEAN

Init ==
  /\ mode = "kInitializing"
  /\ driven = FALSE

\* Initialization is over: control starts, motors still idle.
Arm ==
  /\ mode = "kInitializing"
  /\ mode' = "kOperating"
  /\ UNCHANGED driven

\* A control cycle energises the motors.
Drive ==
  /\ mode = "kOperating"
  /\ driven' = TRUE
  /\ UNCHANGED mode

\* The safe state: everything off, for good.
Fault ==
  /\ mode \in {"kOperating", "kFault"}
  /\ mode' = "kFault"
  /\ driven' = FALSE

Next == Arm \/ Drive \/ Fault

Spec == Init /\ [][Next]_vars

\* The motors are energised only while operating.
DrivenOnlyWhenOperating == driven => mode = "kOperating"

=============================================================================
