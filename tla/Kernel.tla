------------------------------- MODULE Kernel -------------------------------
(***************************************************************************)
(* The TaskMate kernel: the static thread records, the run level, the      *)
(* round-robin interrupt and the system calls that touch them              *)
(* (sys_threads.c, sys_scheduler.c, sc_threads.c), on the ATmega2560       *)
(* context timer (at2560_timerContext.c).                                  *)
(*                                                                         *)
(* One CPU: a thread step is a step of the current thread, and every       *)
(* system call that changes kernel state runs with interrupts masked, so   *)
(* it is one step.  The scheduling interrupt may fall between any two.     *)
(* A thread's program is abstracted to the set of calls it makes.          *)
(***************************************************************************)
EXTENDS Integers

CONSTANTS
  ThreadCount,   \* MOD_THREAD_COUNT
  LevelCount,    \* RL_LEVEL_COUNT
  InitialLevel,  \* the run level each thread is generated with
  CallsPerSTC,   \* SYSSCHEDULER_COUNT_CALLSPERSTC
  MaxSTC,        \* bound: the largest count a program passes to sc_threadSetSTC
  MayCall        \* the calls the program of each thread makes

Threads   == 0 .. ThreadCount - 1
RunLevels == 0 .. LevelCount - 1
RL_NONE   == 0
RL_CORE   == 1

SysCalls == {"SetInitialized", "SetSTC", "RunLevelSet", "Start", "Stop",
             "Yield", "TimerInit", "TimerStart", "TimerStop", "Halt", "WildWrite"}

ASSUME KernelAssumption ==
  /\ ThreadCount \in Nat \ {0}
  /\ LevelCount \in Nat \ {0, 1}
  /\ InitialLevel \in [Threads -> RunLevels]
  /\ InitialLevel[0] = RL_CORE      \* the system service is thread zero
  /\ CallsPerSTC \in Nat \ {0}
  /\ MaxSTC \in Nat
  /\ MayCall \in [Threads -> SUBSET SysCalls]

VARIABLES
  mode,         \* what the CPU does: boot, threads, halted, or the endless search
  current,      \* thread_current
  runLevel,     \* scheduler_run_level
  stcTick,      \* scheduler_stc_tick_count
  level,        \* run_level of each thread
  saved,        \* saved_run_level
  initialized,  \* THREAD_BIT_INITIALIZED
  yielded,      \* THREAD_BIT_YIELDED
  stc,          \* software_time_counter
  canary,       \* both canary words of the thread's stack are intact
  pc,           \* where the thread's saved context is: its program or sc_coopYield
  timer         \* driver bits, compare interrupt enable and compare flag

threadVars == <<level, saved, initialized, stc>>
schedVars  == <<current, runLevel, stcTick>>
vars == <<mode, current, runLevel, stcTick, level, saved, initialized,
          yielded, stc, canary, pc, timer>>

TimerState == [init : BOOLEAN, start : BOOLEAN, irq : BOOLEAN, compare : BOOLEAN]

TypeOK ==
  /\ mode \in {"boot", "up", "halted", "searching"}
  /\ current \in Threads
  /\ runLevel \in RunLevels \ {RL_NONE}
  /\ stcTick \in 0 .. CallsPerSTC - 1
  /\ level \in [Threads -> RunLevels]
  /\ saved \in [Threads -> RunLevels]
  /\ initialized \in [Threads -> BOOLEAN]
  /\ yielded \in [Threads -> BOOLEAN]
  /\ stc \in [Threads -> 0 .. MaxSTC]
  /\ canary \in [Threads -> BOOLEAN]
  /\ pc \in [Threads -> {"program", "yield"}]
  /\ timer \in TimerState

-----------------------------------------------------------------------------
(* Static allocation and tm_schedulerInit: every thread admitted at its    *)
(* generated level, patterned stacks, thread zero current, timer ready.    *)
Init ==
  /\ mode = "boot"
  /\ current = 0
  /\ runLevel = RL_CORE
  /\ stcTick = 0
  /\ level = InitialLevel
  /\ saved = InitialLevel
  /\ initialized = [t \in Threads |-> FALSE]
  /\ yielded = [t \in Threads |-> FALSE]
  /\ stc = [t \in Threads |-> 0]
  /\ canary = [t \in Threads |-> TRUE]
  /\ pc = [t \in Threads |-> "program"]
  /\ timer = [init |-> TRUE, start |-> FALSE, irq |-> FALSE, compare |-> FALSE]

TimerStarted == [timer EXCEPT !.start = TRUE, !.irq = TRUE, !.compare = FALSE]

(* Start the context timer and enter thread zero. *)
SchedulerStart ==
  /\ mode = "boot"
  /\ mode' = "up"
  /\ timer' = TimerStarted
  /\ UNCHANGED <<schedVars, threadVars, yielded, canary, pc>>

-----------------------------------------------------------------------------
(* The context timer reaches its compare value. *)
TimerCompare ==
  /\ mode = "up"
  /\ timer.irq /\ ~timer.compare
  /\ timer' = [timer EXCEPT !.compare = TRUE]
  /\ UNCHANGED <<mode, schedVars, threadVars, yielded, canary, pc>>

(* Mutated form: a level admits only the levels below it. *)
RunnableBelow(t) == level[t] # RL_NONE /\ level[t] < runLevel

(* The round-robin admission test. *)
Runnable(t) == level[t] # RL_NONE /\ level[t] <= runLevel

(* Mutated form: the search starts at the current thread itself. *)
DistanceFromSelf(c, t) == IF t >= c THEN t - c ELSE t - c + ThreadCount

(* How many increments of the wrapping index lead from thread c to thread t. *)
Distance(c, t) == IF t > c THEN t - c ELSE t - c + ThreadCount

(* Mutated form: the lowest runnable thread. *)
IsLowest(t) == Runnable(t) /\ \A u \in Threads : Runnable(u) => t <= u

(* The first runnable thread after the current one, itself included last. *)
IsNext(t) ==
  /\ Runnable(t)
  /\ \A u \in Threads : Runnable(u) => Distance(current, t) <= Distance(current, u)

(* Software time: every tenth scheduler interrupt decrements the counters. *)
TickSTC(counters) ==
  [t \in Threads |-> IF counters[t] > 0 THEN counters[t] - 1 ELSE 0]

(* Mutated form: the tick count is not reset. *)
AdvanceSTCNoReset ==
  /\ stcTick' = stcTick + 1
  /\ stc' = IF stcTick + 1 = CallsPerSTC THEN TickSTC(stc) ELSE stc

AdvanceSTC ==
  IF stcTick + 1 = CallsPerSTC
  THEN stcTick' = 0 /\ stc' = TickSTC(stc)
  ELSE stcTick' = stcTick + 1 /\ UNCHANGED stc

Interrupt == mode = "up" /\ timer.irq /\ timer.compare

AcknowledgeTimer == timer' = [timer EXCEPT !.compare = FALSE]

(* tm_schedulerRR finds the outgoing thread's canaries broken. *)
HaltOutgoing ==
  /\ Interrupt /\ AcknowledgeTimer
  /\ ~canary[current]
  /\ mode' = "halted"
  /\ UNCHANGED <<schedVars, threadVars, yielded, canary, pc>>

(* Mutated forms: the incoming canary unchecked, the flag left raised. *)
EnterUnchecked(t) == yielded' = [yielded EXCEPT ![t] = FALSE] /\ UNCHANGED mode

EnterFlagged(t) ==
  IF canary[t] THEN UNCHANGED <<mode, yielded>> ELSE mode' = "halted" /\ UNCHANGED yielded

(* A broken incoming canary halts, an intact one clears the yielded bit. *)
EnterThread(t) ==
  IF canary[t]
  THEN yielded' = [yielded EXCEPT ![t] = FALSE] /\ UNCHANGED mode
  ELSE mode' = "halted" /\ UNCHANGED yielded

(* tm_schedulerRR selects t. *)
Dispatch(t) ==
  /\ Interrupt /\ AcknowledgeTimer
  /\ canary[current]
  /\ IsNext(t)
  /\ AdvanceSTC
  /\ current' = t
  /\ EnterThread(t)
  /\ UNCHANGED <<runLevel, level, saved, initialized, canary, pc>>

(* No thread is runnable: the selection loop never ends, interrupts masked. *)
SearchForever ==
  /\ Interrupt /\ AcknowledgeTimer
  /\ canary[current]
  /\ \A t \in Threads : ~Runnable(t)
  /\ AdvanceSTC
  /\ mode' = "searching"
  /\ UNCHANGED <<current, runLevel, level, saved, initialized, yielded, canary, pc>>

RoundRobin == HaltOutgoing \/ SearchForever \/ \E t \in Threads : Dispatch(t)

-----------------------------------------------------------------------------
(* System calls of the current thread. *)
Calls(c, call) ==
  /\ mode = "up" /\ c = current
  /\ pc[c] = "program"
  /\ call \in MayCall[c]

SetInitialized(c) ==
  /\ Calls(c, "SetInitialized")
  /\ initialized' = [initialized EXCEPT ![c] = TRUE]
  /\ UNCHANGED <<mode, schedVars, level, saved, yielded, stc, canary, pc, timer>>

SetSTC(c, count) ==
  /\ Calls(c, "SetSTC")
  /\ stc' = [stc EXCEPT ![c] = count]
  /\ UNCHANGED <<mode, schedVars, level, saved, initialized, yielded, canary, pc, timer>>

(* tm_schedulerRunLevelSet: only to a defined level, never back down. *)
LevelAccepted(l) == l >= RL_CORE /\ l < LevelCount /\ l >= runLevel

RunLevelSet(c, l) ==
  /\ Calls(c, "RunLevelSet")
  /\ LevelAccepted(l)
  /\ runLevel' = l
  /\ UNCHANGED <<mode, current, stcTick, threadVars, yielded, canary, pc, timer>>

(* mod_threadStart: without a saved level only the saved level is set. *)
ThreadStart(c, t, l) ==
  /\ Calls(c, "Start")
  /\ l < LevelCount
  /\ IF saved[t] = RL_NONE
     THEN saved' = [saved EXCEPT ![t] = l] /\ UNCHANGED level
     ELSE level' = [level EXCEPT ![t] = saved[t]] /\ UNCHANGED saved
  /\ UNCHANGED <<mode, schedVars, initialized, yielded, stc, canary, pc, timer>>

ThreadStop(c, t) ==
  /\ Calls(c, "Stop")
  /\ saved' = [saved EXCEPT ![t] = level[t]]
  /\ level' = [level EXCEPT ![t] = RL_NONE]
  /\ UNCHANGED <<mode, schedVars, initialized, yielded, stc, canary, pc, timer>>

(* hal_timerContextLoad: on a RUNNING driver the compare follows at once,  *)
(* an interrupt only if it is still enabled.                               *)
TimerLoaded ==
  IF timer.init /\ timer.start THEN [timer EXCEPT !.compare = timer.irq] ELSE timer

(* sc_coopYield, masked part: flag the thread and load the timer. *)
CoopYield(c) ==
  /\ Calls(c, "Yield")
  /\ yielded' = [yielded EXCEPT ![c] = TRUE]
  /\ timer' = TimerLoaded
  /\ pc' = [pc EXCEPT ![c] = "yield"]
  /\ UNCHANGED <<mode, schedVars, threadVars, canary>>

(* Mutated form: the loop is left at once. *)
YieldReturnAtOnce(c) ==
  /\ mode = "up" /\ c = current
  /\ pc[c] = "yield"
  /\ pc' = [pc EXCEPT ![c] = "program"]
  /\ UNCHANGED <<mode, schedVars, threadVars, yielded, canary, timer>>

(* sc_coopYield, polling part: leave the loop once the flag reads clear. *)
YieldReturn(c) ==
  /\ mode = "up" /\ c = current
  /\ pc[c] = "yield" /\ ~yielded[c]
  /\ pc' = [pc EXCEPT ![c] = "program"]
  /\ UNCHANGED <<mode, schedVars, threadVars, yielded, canary, timer>>

(* sc_driverInit/Start/Stop on the context timer, which the driver table   *)
(* exposes like any other driver.  An interrupt between two of its         *)
(* register writes has the effect of one before or after all of them.      *)
TimerControl(c) ==
  /\ \/ Calls(c, "TimerInit")
        /\ timer' = [timer EXCEPT !.init = TRUE, !.irq = FALSE, !.compare = FALSE]
     \/ Calls(c, "TimerStart") /\ timer.init /\ timer' = TimerStarted
     \/ Calls(c, "TimerStop")
        /\ timer' = [timer EXCEPT !.start = FALSE, !.irq = FALSE, !.compare = FALSE]
  /\ UNCHANGED <<mode, schedVars, threadVars, yielded, canary, pc>>

(* sc_halt masks interrupts and never returns. *)
HaltCall(c) ==
  /\ Calls(c, "Halt")
  /\ mode' = "halted"
  /\ UNCHANGED <<schedVars, threadVars, yielded, canary, pc, timer>>

(* The environment's fault: the running program overflows its stack or     *)
(* writes through a stray pointer, and some thread's canary is lost.       *)
WildWrite(c, t) ==
  /\ Calls(c, "WildWrite")
  /\ canary' = [canary EXCEPT ![t] = FALSE]
  /\ UNCHANGED <<mode, schedVars, threadVars, yielded, pc, timer>>

ThreadStep(c) ==
  \/ SetInitialized(c)
  \/ \E n \in 0 .. MaxSTC : SetSTC(c, n)
  \/ \E l \in 0 .. LevelCount : RunLevelSet(c, l)
  \/ \E t \in Threads, l \in 0 .. LevelCount : ThreadStart(c, t, l)
  \/ \E t \in Threads : ThreadStop(c, t)
  \/ CoopYield(c)
  \/ YieldReturn(c)
  \/ TimerControl(c)
  \/ HaltCall(c)
  \/ \E t \in Threads : WildWrite(c, t)

Next ==
  \/ SchedulerStart
  \/ TimerCompare
  \/ RoundRobin
  \/ \E c \in Threads : ThreadStep(c)

Spec == Init /\ [][Next]_vars

(* The compare interrupt always comes while it is enabled and is served;   *)
(* a polling thread that runs again and again reads its flag at last.      *)
Fairness ==
  /\ WF_vars(SchedulerStart)
  /\ WF_vars(TimerCompare)
  /\ WF_vars(RoundRobin)
  /\ \A t \in Threads : SF_vars(YieldReturn(t))

LiveSpec == Spec /\ Fairness

-----------------------------------------------------------------------------
(* A raised YIELDED bit always belongs to a thread polling it inside       *)
(* sc_coopYield: no thread runs on with the bit up, so the next yield of   *)
(* a thread is never mistaken for an older one.                            *)
YieldedMeansPolling ==
  \A t \in Threads : yielded[t] => pc[t] = "yield"

(* The selection loop of tm_schedulerRR has no exit but a runnable thread. *)
(* It can only spin for ever after the system thread was stopped: while    *)
(* thread zero keeps its level, no sequence of calls leaves it no choice.  *)
SearchNeedsSystemStopped ==
  mode = "searching" => level[0] # InitialLevel[0]

(* Both canaries of the outgoing and of the incoming thread are checked on *)
(* every switch: the CPU never passes from, nor to, a damaged stack.       *)
NoSwitchOnBrokenCanary ==
  [][current' # current /\ mode' = "up" => canary[current] /\ canary[current']]_vars

(* The scheduler can no longer serve t: it is excluded, the CPU is lost,   *)
(* or somebody silenced the context timer.                                 *)
OutOfReach(t) ==
  \/ ~Runnable(t)
  \/ mode \in {"halted", "searching"}
  \/ mode = "up" /\ ~timer.irq

(* Starvation freedom: an admitted thread gets the CPU. *)
AdmittedThreadsRun ==
  \A t \in Threads : (mode = "up" /\ Runnable(t)) ~> (current = t \/ OutOfReach(t))

(* sc_coopYield returns: the polling loop ends unless the thread is stopped *)
(* or the scheduler itself is gone.                                         *)
YieldReturns ==
  \A t \in Threads : pc[t] = "yield" ~> (pc[t] = "program" \/ OutOfReach(t))
=============================================================================
