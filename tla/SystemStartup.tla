--------------------------- MODULE SystemStartup ---------------------------
(***************************************************************************)
(* The system service (system.c), the program of thread zero, running on   *)
(* the kernel beside the other threads: it starts the drivers of each run  *)
(* level, waits for a complete round, checks that drivers and threads are  *)
(* ready, and admits the next level, or halts after RoundLimit rounds.     *)
(*                                                                         *)
(* Every step below may be preempted before the next one.  A thread in     *)
(* MayDrive is a command line that initializes, starts and stops drivers   *)
(* behind the system's back.                                               *)
(***************************************************************************)
EXTENDS Kernel, DriverTable

CONSTANTS
  RoundLimit,   \* SYSTEM_RUN_LEVEL_RR_ROUND_COUNT
  MayDrive      \* threads that issue driver commands

RL_USER == LevelCount - 1

ASSUME StartupAssumption ==
  /\ RoundLimit \in Nat \ {0}
  /\ MayDrive \subseteq Threads \ {0}
  /\ DriverLevel \in [Drivers -> RunLevels]
  /\ {"SetInitialized", "SetSTC", "RunLevelSet", "Yield", "Halt"} \subseteq MayCall[0]

VARIABLES
  sys,        \* where the system service is
  sysLevel,   \* run_level, the level it is bringing up
  rounds,     \* incomplete_round_count
  checked,    \* the level a readiness loop has come to
  item,       \* the driver a loop has come to
  drv,        \* status bits of every driver
  chances     \* auxiliary: dispatches of each thread since the level was set

kernelVars == vars
localVars  == <<sysLevel, rounds, checked, item>>
allVars    == <<vars, sys, sysLevel, rounds, checked, item, drv, chances>>

SystemPlaces ==
  {"begin", "level", "init", "start", "discover", "yield", "resume",
   "drivers", "threads", "advance", "loop", "delay", "halt"}

StartupTypeOK ==
  /\ TypeOK
  /\ sys \in SystemPlaces
  /\ sysLevel \in RunLevels
  /\ rounds \in 0 .. RoundLimit
  /\ checked \in RunLevels
  /\ item \in Drivers
  /\ drv \in [Drivers -> DriverBits]
  /\ chances \in [Threads -> 0 .. RoundLimit]

(* main has initialized and started the drivers without a run level. *)
StartupInit ==
  /\ Init
  /\ sys = "begin"
  /\ sysLevel = RL_NONE
  /\ rounds = 0
  /\ checked = RL_NONE
  /\ item = 0
  /\ drv = [d \in Drivers |-> IF DriverLevel[d] = RL_NONE THEN Up ELSE Off]
  /\ chances = [t \in Threads |-> 0]

-----------------------------------------------------------------------------
(* The kernel and the other threads. *)
NoChance == [t \in Threads |-> 0]

DispatchAny ==
  \E t \in Threads :
    /\ Dispatch(t)
    /\ chances' = [chances EXCEPT ![t] = IF @ = RoundLimit THEN @ ELSE @ + 1]
    /\ UNCHANGED <<sys, localVars, drv>>

OtherThreads ==
  /\ \/ SchedulerStart \/ TimerCompare \/ HaltOutgoing \/ SearchForever
     \/ \E c \in Threads \ {0} : ThreadStep(c)
  /\ UNCHANGED <<sys, localVars, drv, chances>>

(* sc_driverInit, sc_driverStart and sc_driverStop from a command line. *)
DriverCommand(c, d, answers) ==
  /\ c \in MayDrive
  /\ mode = "up" /\ c = current /\ pc[c] = "program"
  /\ drv' \in {InitControl(drv, d, answers), StartControl(drv, d, answers),
               StopControl(drv, d)}
  /\ UNCHANGED <<kernelVars, sys, localVars, chances>>

-----------------------------------------------------------------------------
(* The system service. *)
At(place) == mode = "up" /\ current = 0 /\ pc[0] = "program" /\ sys = place

SystemBegin ==
  /\ sys = "begin"
  /\ SetInitialized(0)
  /\ sys' = "level"
  /\ UNCHANGED <<localVars, drv, chances>>

(* The system gives up. *)
Halt == HaltCall(0) /\ sys' = "halt"

(* systemStart begins at the core level or halts. *)
SystemLevel ==
  /\ At("level") /\ runLevel = RL_CORE
  /\ sysLevel' = runLevel
  /\ sys' = "init"
  /\ item' = 0
  /\ UNCHANGED <<kernelVars, rounds, checked, drv, chances>>

SystemLevelHalt ==
  /\ At("level") /\ runLevel # RL_CORE
  /\ Halt
  /\ UNCHANGED <<localVars, drv, chances>>

(* sc_driverRunLevelStart: init then start, results ignored. *)
Started(d) == DriverLevel[d] = sysLevel /\ State(drv, d) # "error"

NextDriver ==
  IF item + 1 < DriverCount
  THEN item' = item + 1 /\ sys' = "init"
  ELSE item' = 0 /\ sys' = IF sysLevel = RL_CORE THEN "discover" ELSE "yield"

SkipDriver ==
  /\ At("init") /\ ~Started(item)
  /\ NextDriver
  /\ UNCHANGED <<kernelVars, sysLevel, rounds, checked, drv, chances>>

InitDriver(answers) ==
  /\ At("init") /\ Started(item)
  /\ drv' = InitControl(drv, item, answers)
  /\ sys' = "start"
  /\ UNCHANGED <<kernelVars, localVars, chances>>

StartDriver(answers) ==
  /\ At("start")
  /\ drv' = StartControl(drv, item, answers)
  /\ NextDriver
  /\ UNCHANGED <<kernelVars, sysLevel, rounds, checked, chances>>

(* sc_i2cScan: declared devices that do not answer become dead; a scan     *)
(* that fails changes nothing (module I2cDiscovery).                       *)
Discover(absent) ==
  /\ At("discover")
  /\ absent # {} => BusUp(drv)
  /\ drv' = [d \in Drivers |-> IF d \in absent THEN [drv[d] EXCEPT !.dead = TRUE] ELSE drv[d]]
  /\ sys' = "yield"
  /\ UNCHANGED <<kernelVars, localVars, chances>>

SystemYield ==
  /\ sys = "yield"
  /\ CoopYield(0)
  /\ sys' = "resume"
  /\ UNCHANGED <<localVars, drv, chances>>

SystemResume ==
  /\ sys = "resume"
  /\ YieldReturn(0)
  /\ sys' = "drivers"
  /\ checked' = RL_NONE
  /\ item' = 0
  /\ UNCHANGED <<sysLevel, rounds, drv, chances>>

(* Mutated forms: a round too many, no new round, no limit. *)
NotReadyOneMore ==
  /\ rounds' = rounds + 1
  /\ IF rounds > RoundLimit THEN Halt ELSE sys' = "yield" /\ UNCHANGED kernelVars
  /\ UNCHANGED <<sysLevel, checked, item, drv, chances>>

NotReadySameRound ==
  /\ rounds' = rounds + 1
  /\ IF rounds + 1 >= RoundLimit THEN Halt ELSE sys' = "drivers" /\ UNCHANGED kernelVars
  /\ UNCHANGED <<sysLevel, checked, item, drv, chances>>

NotReadyForever ==
  /\ sys' = "yield"
  /\ UNCHANGED <<kernelVars, rounds, sysLevel, checked, item, drv, chances>>

(* A check fails: count an incomplete round, and give up at the limit. *)
NotReady ==
  /\ rounds' = rounds + 1
  /\ IF rounds + 1 >= RoundLimit THEN Halt ELSE sys' = "yield" /\ UNCHANGED kernelVars
  /\ UNCHANGED <<sysLevel, checked, item, drv, chances>>

(* Mutated form: only errors count against a driver. *)
DriverReadyUnlessError(d) == State(drv, d) # "error"

(* sc_driverRunLevelIsReady: any driver's error fails the check. *)
DriverReady(d) ==
  /\ State(drv, d) # "error"
  /\ DriverLevel[d] = checked => Running(drv, d)

DriverCheckFails == At("drivers") /\ ~DriverReady(item) /\ NotReady

DriverCheckPasses ==
  /\ At("drivers") /\ DriverReady(item)
  /\ item' = IF item + 1 < DriverCount THEN item + 1 ELSE 0
  /\ IF item + 1 < DriverCount THEN UNCHANGED <<sys, checked>>
     ELSE IF checked < sysLevel THEN checked' = checked + 1 /\ UNCHANGED sys
     ELSE checked' = RL_CORE /\ sys' = "threads"
  /\ UNCHANGED <<kernelVars, sysLevel, rounds, drv, chances>>

(* mod_threadsRunLevelIsReady, in one masked section per level. *)
ThreadsReady == \A t \in Threads : level[t] = checked => initialized[t]

ThreadCheckFails == At("threads") /\ ~ThreadsReady /\ NotReady

ThreadCheckPasses ==
  /\ At("threads") /\ ThreadsReady
  /\ IF checked < sysLevel THEN checked' = checked + 1 /\ UNCHANGED sys
     ELSE /\ sys' = IF sysLevel = RL_USER THEN "loop" ELSE "advance"
          /\ UNCHANGED checked
  /\ UNCHANGED <<kernelVars, sysLevel, rounds, item, drv, chances>>

(* The level is ready: admit the next one, or halt if that is refused. *)
SystemAdvance ==
  /\ sys = "advance"
  /\ RunLevelSet(0, sysLevel + 1)
  /\ sysLevel' = sysLevel + 1
  /\ rounds' = 0
  /\ item' = 0
  /\ chances' = NoChance
  /\ sys' = "init"
  /\ UNCHANGED <<checked, drv>>

SystemAdvanceHalt ==
  /\ At("advance") /\ ~LevelAccepted(sysLevel + 1)
  /\ Halt
  /\ UNCHANGED <<localVars, drv, chances>>

(* After startup: set a delay and yield until it has elapsed. *)
SystemLoop ==
  /\ \/ sys = "loop" /\ SetSTC(0, MaxSTC) /\ sys' = "delay"
     \/ At("delay") /\ stc[0] = 0 /\ sys' = "loop" /\ UNCHANGED kernelVars
     \/ sys = "delay" /\ stc[0] > 0 /\ CoopYield(0) /\ UNCHANGED sys
     \/ sys = "delay" /\ YieldReturn(0) /\ UNCHANGED sys
  /\ UNCHANGED <<localVars, drv, chances>>

SystemStep ==
  \/ SystemBegin \/ SystemLevel \/ SystemLevelHalt
  \/ SkipDriver
  \/ \E answers \in BOOLEAN : InitDriver(answers) \/ StartDriver(answers)
  \/ \E absent \in SUBSET OnBus : Discover(absent)
  \/ SystemYield \/ SystemResume
  \/ DriverCheckFails \/ DriverCheckPasses
  \/ ThreadCheckFails \/ ThreadCheckPasses
  \/ SystemAdvance \/ SystemAdvanceHalt
  \/ SystemLoop

StartupNext ==
  \/ DispatchAny
  \/ OtherThreads
  \/ \E c \in MayDrive, d \in Drivers, answers \in BOOLEAN : DriverCommand(c, d, answers)
  \/ SystemStep

StartupSpec == StartupInit /\ [][StartupNext]_allVars

(* The compare interrupt comes and is served, and a thread that gets the   *)
(* CPU again and again executes its next statement at last.                *)
StartupLiveSpec ==
  /\ StartupSpec
  /\ WF_allVars(SchedulerStart /\ UNCHANGED <<sys, localVars, drv, chances>>)
  /\ WF_allVars(TimerCompare /\ UNCHANGED <<sys, localVars, drv, chances>>)
  /\ WF_allVars(DispatchAny)
  /\ WF_allVars((HaltOutgoing \/ SearchForever) /\ UNCHANGED <<sys, localVars, drv, chances>>)
  /\ SF_allVars(SystemStep)

-----------------------------------------------------------------------------
(* The startup keeps the promise of StagedBoot: no thread or driver of a   *)
(* level is up before the levels below it are, although readiness is       *)
(* checked driver by driver and level by level between preemptions.        *)
Staged == INSTANCE StagedBoot WITH
  StageCount   <- LevelCount,
  ThreadStage  <- InitialLevel,
  DriverStage  <- DriverLevel,
  admitted     <- runLevel,
  acknowledged <- {t \in Threads : initialized[t]},
  up           <- {d \in Drivers : Running(drv, d)},
  outcome      <- CASE sys \in {"loop", "delay"} -> "booted"
                    [] sys = "halt" -> "abandoned"
                    [] OTHER -> "booting"

BootIsStaged == Staged!StageSpec

(* "Halt if readiness does not arrive within the fixed round limit"        *)
(* (system.c): when the limit ends the startup, every admitted thread has  *)
(* had the CPU that many times since the level was set, however the        *)
(* system's own slices were cut short.                                     *)
GivesUpAfterFullRounds ==
  rounds = RoundLimit => \A t \in Threads : Runnable(t) => chances[t] >= RoundLimit

(* The startup comes to an end, booted or halted, whatever another thread  *)
(* does to drivers, threads and run level, as long as the scheduler can    *)
(* still reach the system thread.                                          *)
BootEnds == <>(sys \in {"loop", "halt"} \/ OutOfReach(0))
=============================================================================
