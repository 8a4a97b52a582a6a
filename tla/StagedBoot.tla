----------------------------- MODULE StagedBoot -----------------------------
(***************************************************************************)
(* What the system service promises about startup: run levels are admitted *)
(* one by one, and a level only when every thread and every driver of the  *)
(* levels below it is up, or the startup is given up.                      *)
(***************************************************************************)
EXTENDS Integers

CONSTANTS
  StageCount,    \* the number of run levels
  ThreadStage,   \* the run level of each thread
  DriverStage    \* the run level of each driver

VARIABLES
  admitted,      \* the run level in force
  acknowledged,  \* threads that declared themselves initialized
  up,            \* drivers in the running state
  outcome        \* booting, booted or abandoned

stageVars == <<admitted, acknowledged, up, outcome>>

StageThreads == DOMAIN ThreadStage
StageDrivers == DOMAIN DriverStage

StageInit ==
  /\ admitted = 1
  /\ acknowledged = {}
  /\ up = {d \in StageDrivers : DriverStage[d] = 0}
  /\ outcome = "booting"

(* A thread of an admitted level declares itself initialized. *)
Acknowledge(t) ==
  /\ ThreadStage[t] \in 1 .. admitted
  /\ acknowledged' = acknowledged \cup {t}
  /\ UNCHANGED <<admitted, up, outcome>>

(* The drivers of a level start while that level is the newest one. *)
BringUp(d) ==
  /\ outcome = "booting"
  /\ DriverStage[d] = admitted
  /\ up' = up \cup {d}
  /\ UNCHANGED <<admitted, acknowledged, outcome>>

StageReady ==
  /\ \A t \in StageThreads : ThreadStage[t] \in 1 .. admitted => t \in acknowledged
  /\ \A d \in StageDrivers : DriverStage[d] <= admitted => d \in up

Admit ==
  /\ outcome = "booting" /\ StageReady
  /\ admitted + 1 < StageCount
  /\ admitted' = admitted + 1
  /\ UNCHANGED <<acknowledged, up, outcome>>

Complete ==
  /\ outcome = "booting" /\ StageReady
  /\ admitted + 1 = StageCount
  /\ outcome' = "booted"
  /\ UNCHANGED <<admitted, acknowledged, up>>

Abandon ==
  /\ outcome = "booting"
  /\ outcome' = "abandoned"
  /\ UNCHANGED <<admitted, acknowledged, up>>

StageNext ==
  \/ \E t \in StageThreads : Acknowledge(t)
  \/ \E d \in StageDrivers : BringUp(d)
  \/ Admit \/ Complete \/ Abandon

StageSpec == StageInit /\ [][StageNext]_stageVars
=============================================================================
