---------------------------- MODULE KernelProofs ----------------------------
(***************************************************************************)
(* The kernel's invariants, bounded waiting and complete turns, for every  *)
(* number of threads, every assignment of run levels and every program;    *)
(* and its first program, the system service: everything proved of the     *)
(* kernel holds of the startup, for every number of threads, drivers,      *)
(* levels and rounds.                                                      *)
(***************************************************************************)
EXTENDS RoundRobinTurns, SystemStartup, TLAPS

(* Thread zero exists, and its level is CORE. *)
LEMMA ThreadZero == 0 \in Threads /\ RL_CORE \in RunLevels \ {RL_NONE}
  BY KernelAssumption DEF Threads, RunLevels, RL_CORE, RL_NONE

(* A software tick keeps the counters within their bound. *)
LEMMA TickSTCType ==
  ASSUME NEW counters \in [Threads -> 0 .. MaxSTC]
  PROVE  TickSTC(counters) \in [Threads -> 0 .. MaxSTC]
  BY KernelAssumption DEF TickSTC

(* The tick counter wraps before it reaches CallsPerSTC. *)
LEMMA AdvanceSTCType ==
  ASSUME TypeOK, AdvanceSTC
  PROVE  stcTick' \in 0 .. CallsPerSTC - 1 /\ stc' \in [Threads -> 0 .. MaxSTC]
<1>1. CASE stcTick + 1 = CallsPerSTC
  BY <1>1, TickSTCType, KernelAssumption DEF AdvanceSTC, TypeOK
<1>2. CASE stcTick + 1 # CallsPerSTC
  BY <1>2, KernelAssumption DEF AdvanceSTC, TypeOK
<1>3. QED BY <1>1, <1>2

-----------------------------------------------------------------------------
(* The initial state is well typed. *)
LEMMA TypeInit == Init => TypeOK
  BY ThreadZero, KernelAssumption DEF Init, TypeOK, TimerState

(* Every step of the kernel keeps it well typed. *)
LEMMA TypeStep == TypeOK /\ [Next]_vars => TypeOK'
<1> SUFFICES ASSUME TypeOK, [Next]_vars PROVE TypeOK'
  OBVIOUS
<1> USE DEF TypeOK, schedVars, threadVars
<1>1. CASE SchedulerStart
  BY <1>1 DEF SchedulerStart, TimerStarted, TimerState
<1>2. CASE TimerCompare
  BY <1>2 DEF TimerCompare, TimerState
<1>3. CASE HaltOutgoing
  BY <1>3 DEF HaltOutgoing, AcknowledgeTimer, TimerState
<1>4. CASE SearchForever
  BY <1>4, AdvanceSTCType DEF SearchForever, AcknowledgeTimer, TimerState
<1>5. ASSUME NEW t \in Threads, Dispatch(t) PROVE TypeOK'
  BY <1>5, AdvanceSTCType DEF Dispatch, EnterThread, AcknowledgeTimer, TimerState
<1>6. ASSUME NEW c \in Threads, ThreadStep(c) PROVE TypeOK'
  <2>1. CASE SetInitialized(c)
    BY <2>1 DEF SetInitialized
  <2>2. ASSUME NEW n \in 0 .. MaxSTC, SetSTC(c, n) PROVE TypeOK'
    BY <2>2 DEF SetSTC
  <2>3. ASSUME NEW l \in 0 .. LevelCount, RunLevelSet(c, l) PROVE TypeOK'
    BY <2>3, KernelAssumption
    DEF RunLevelSet, LevelAccepted, RunLevels, RL_CORE, RL_NONE
  <2>4. ASSUME NEW t \in Threads, NEW l \in 0 .. LevelCount, ThreadStart(c, t, l)
        PROVE  TypeOK'
    <3>1. l \in RunLevels
      BY <2>4, KernelAssumption DEF ThreadStart, RunLevels
    <3>2. QED BY <2>4, <3>1 DEF ThreadStart
  <2>5. ASSUME NEW t \in Threads, ThreadStop(c, t) PROVE TypeOK'
    BY <2>5, KernelAssumption DEF ThreadStop, RunLevels, RL_NONE
  <2>6. CASE CoopYield(c)
    <3>1. TimerLoaded \in TimerState
      BY DEF TimerLoaded, TimerState
    <3>2. QED BY <2>6, <3>1 DEF CoopYield
  <2>7. CASE YieldReturn(c)
    BY <2>7 DEF YieldReturn
  <2>8. CASE TimerControl(c)
    <3>1. TimerStarted \in TimerState
      BY DEF TimerStarted, TimerState
    <3>2. QED BY <2>8, <3>1 DEF TimerControl, TimerState
  <2>9. ASSUME NEW t \in Threads, WildWrite(c, t) PROVE TypeOK'
    BY <2>9 DEF WildWrite
  <2>10. CASE HaltCall(c)
    BY <2>10 DEF HaltCall
  <2>11. QED
    BY <1>6, <2>1, <2>2, <2>3, <2>4, <2>5, <2>6, <2>7, <2>8, <2>9, <2>10 DEF ThreadStep
<1>7. CASE UNCHANGED vars
  BY <1>7 DEF vars
<1>8. QED
  BY <1>1, <1>2, <1>3, <1>4, <1>5, <1>6, <1>7 DEF Next, RoundRobin

(* Type correctness of the kernel: indices stay in the thread table, the   *)
(* run level stays defined, the tick counter stays below its limit.        *)
THEOREM TypeCorrect == Spec => []TypeOK
  BY TypeInit, TypeStep, PTL DEF Spec

-----------------------------------------------------------------------------
(* The scheduler moves no thread's position and raises no YIELDED bit: it  *)
(* lowers the bit of the thread it enters.                                 *)
LEMMA SchedulerLowersBits ==
  ASSUME TypeOK, SchedulerStart \/ TimerCompare \/ RoundRobin
  PROVE  pc' = pc /\ \A t \in Threads : yielded'[t] => yielded[t]
<1> USE DEF schedVars, threadVars
<1>1. ASSUME NEW t \in Threads, Dispatch(t)
      PROVE  pc' = pc /\ \A u \in Threads : yielded'[u] => yielded[u]
  BY <1>1 DEF Dispatch, EnterThread, TypeOK
<1>2. CASE HaltOutgoing \/ SearchForever
  BY <1>2 DEF HaltOutgoing, SearchForever
<1>3. CASE SchedulerStart \/ TimerCompare
  BY <1>3 DEF SchedulerStart, TimerCompare
<1>4. QED
  BY <1>1, <1>2, <1>3 DEF RoundRobin

(* A thread moves its own position and bit only, together, on its way into *)
(* the polling loop and out of it.                                         *)
LEMMA ThreadKeepsPolling ==
  ASSUME TypeOK, YieldedMeansPolling, NEW c \in Threads, ThreadStep(c)
  PROVE  YieldedMeansPolling'
<1> USE DEF YieldedMeansPolling
<1>1. CASE CoopYield(c)
  BY <1>1 DEF CoopYield, TypeOK
<1>2. CASE YieldReturn(c)
  BY <1>2 DEF YieldReturn, TypeOK
<1>3. CASE ~CoopYield(c) /\ ~YieldReturn(c)
  <2>1. UNCHANGED <<yielded, pc>>
    BY <1>3 DEF ThreadStep, SetInitialized, SetSTC, RunLevelSet, ThreadStart, ThreadStop,
       TimerControl, HaltCall, WildWrite, schedVars, threadVars
  <2>2. QED BY <2>1
<1>4. QED BY <1>1, <1>2, <1>3

(* A raised YIELDED bit belongs to a thread polling it: CoopYield raises   *)
(* the bit on entering the loop and the loop is left with the bit down.    *)
THEOREM YieldedPolling == Spec => []YieldedMeansPolling
<1>1. Init => YieldedMeansPolling
  BY DEF Init, YieldedMeansPolling
<1>2. TypeOK /\ YieldedMeansPolling /\ [Next]_vars => YieldedMeansPolling'
  <2>1. CASE UNCHANGED vars
    BY <2>1 DEF vars, YieldedMeansPolling
  <2>2. CASE Next
    BY <2>2, SchedulerLowersBits, ThreadKeepsPolling DEF Next, YieldedMeansPolling
  <2>3. QED BY <2>1, <2>2
<1>3. QED
  BY <1>1, <1>2, TypeCorrect, PTL DEF Spec

-----------------------------------------------------------------------------
(* With its generated level, thread zero is runnable at every run level    *)
(* the scheduler can reach, because the run level never falls below CORE.  *)
LEMMA SystemRunnable ==
  ASSUME TypeOK, level[0] = InitialLevel[0]
  PROVE  Runnable(0)
  BY KernelAssumption DEF TypeOK, Runnable, RunLevels, RL_CORE, RL_NONE

(* The round-robin search never hangs while thread zero has its level. *)
THEOREM SearchTerminates == Spec => []SearchNeedsSystemStopped
<1>1. Init => SearchNeedsSystemStopped
  BY DEF Init, SearchNeedsSystemStopped
<1>2. TypeOK /\ SearchNeedsSystemStopped /\ [Next]_vars => SearchNeedsSystemStopped'
  <2> SUFFICES ASSUME TypeOK, SearchNeedsSystemStopped, [Next]_vars,
                      mode' = "searching"
               PROVE  level'[0] # InitialLevel[0]
    BY DEF SearchNeedsSystemStopped
  <2>1. CASE SearchForever
    BY <2>1, ThreadZero, SystemRunnable DEF SearchForever
  <2>2. CASE UNCHANGED <<mode, level>>
    BY <2>2 DEF SearchNeedsSystemStopped
  <2>3. ~SearchForever => UNCHANGED <<mode, level>>
    <3>1. CASE UNCHANGED vars
      BY <3>1 DEF vars
    <3>2. ASSUME NEW c \in Threads, ThreadStep(c) PROVE FALSE
      BY <3>2 DEF ThreadStep, Calls, SetInitialized, SetSTC, RunLevelSet,
         ThreadStart, ThreadStop, CoopYield, YieldReturn, TimerControl, HaltCall, WildWrite
    <3>3. ASSUME NEW t \in Threads, Dispatch(t) PROVE FALSE
      BY <3>3 DEF Dispatch, EnterThread, Interrupt
    <3>4. ~SchedulerStart /\ ~TimerCompare /\ ~HaltOutgoing
      BY DEF SchedulerStart, TimerCompare, HaltOutgoing
    <3>5. QED
      BY <3>1, <3>2, <3>3, <3>4 DEF Next, RoundRobin
  <2>4. QED BY <2>1, <2>2, <2>3
<1>3. QED
  BY <1>1, <1>2, TypeCorrect, PTL DEF Spec

-----------------------------------------------------------------------------
(* The CPU passes neither from nor to a thread with a broken canary. *)
THEOREM CanariesGuardSwitches == Spec => NoSwitchOnBrokenCanary
<1>1. [Next]_vars => [current' # current /\ mode' = "up"
                        => canary[current] /\ canary[current']]_vars
  <2> SUFFICES ASSUME Next, current' # current, mode' = "up"
               PROVE  canary[current] /\ canary[current']
    OBVIOUS
  <2>1. PICK t \in Threads : Dispatch(t)
    <3>1. ~SchedulerStart /\ ~TimerCompare /\ ~HaltOutgoing /\ ~SearchForever
      BY DEF SchedulerStart, TimerCompare, HaltOutgoing, SearchForever, schedVars
    <3>2. ASSUME NEW c \in Threads, ThreadStep(c) PROVE FALSE
      BY <3>2 DEF ThreadStep, SetInitialized, SetSTC, RunLevelSet, ThreadStart,
         ThreadStop, CoopYield, YieldReturn, TimerControl, HaltCall, WildWrite, schedVars
    <3>3. QED BY <3>1, <3>2 DEF Next, RoundRobin
  <2>2. QED BY <2>1 DEF Dispatch, EnterThread, Interrupt
<1>2. QED
  BY <1>1, PTL DEF Spec, NoSwitchOnBrokenCanary

-----------------------------------------------------------------------------
(* Cyclic distances between threads. *)
LEMMA DistanceType ==
  ASSUME NEW c \in Threads, NEW t \in Threads
  PROVE  /\ Distance(c, t) \in 1 .. ThreadCount
         /\ Distance(c, t) = ThreadCount <=> c = t
  BY KernelAssumption DEF Distance, Threads

(* From c, two different threads are at different distances. *)
LEMMA DistanceStrict ==
  ASSUME NEW c \in Threads, NEW t \in Threads, NEW u \in Threads, t # u,
         Distance(c, t) <= Distance(c, u)
  PROVE  Distance(c, t) < Distance(c, u)
  BY KernelAssumption DEF Distance, Threads

(* The index moves from c to n without reaching t: seen from t, it moves   *)
(* forward, and the threads it covers anew are those it covers from c.     *)
LEMMA DistanceForward ==
  ASSUME NEW c \in Threads, NEW n \in Threads, NEW t \in Threads, t # c,
         Distance(c, n) < Distance(c, t)
  PROVE  /\ Distance(t, c) < Distance(t, n)
         /\ \A u \in Threads :
              Distance(t, u) <= Distance(t, n) /\ Distance(t, u) > Distance(t, c)
                => Distance(c, u) <= Distance(c, n)
  BY KernelAssumption DEF Distance, Threads

(* A step with a dispatch is a kernel step, and so is any other step. *)
LEMMA TurnsRefineKernel == [TurnsNext]_roundVars => [Next]_vars
  BY DEF TurnsNext, OtherStep, Next, RoundRobin, roundVars, vars

(* Only a dispatch moves the index. *)
LEMMA OtherStepKeepsCurrent == OtherStep => current' = current
  BY DEF OtherStep, SchedulerStart, TimerCompare, HaltOutgoing, SearchForever,
     ThreadStep, SetInitialized, SetSTC, RunLevelSet, ThreadStart, ThreadStop,
     CoopYield, YieldReturn, TimerControl, HaltCall, WildWrite, schedVars

(* The inductive invariant holds initially. *)
LEMMA TurnInit == TurnsInit => TurnInvariant
  BY TypeInit DEF TurnsInit, TurnInvariant, TurnsTypeOK, NoOvertaking,
     PassedAreBehind, BehindArePassed, NoTurns

(* The turns only watch the kernel: without them, every behaviour is one   *)
(* of the kernel, whatever its threads do.                                 *)
THEOREM TurnsImplementKernel == TurnsSpec => Spec
<1>1. TurnsInit => Init
  BY DEF TurnsInit
<1>2. QED
  BY <1>1, TurnsRefineKernel, PTL DEF TurnsSpec, Spec

-----------------------------------------------------------------------------
(* Facts about the step that dispatches n. *)
LEMMA DispatchStep ==
  ASSUME TurnInvariant, NEW n \in Threads, Dispatch(n), RecordDispatch(n)
  PROVE  TurnInvariant'
<1> USE DEF TurnInvariant, TurnsTypeOK
<1>1. TypeOK'
  BY TypeStep DEF Next, RoundRobin
<1>2. /\ current' = n
      /\ IsNext(n)
      /\ \A t \in Threads : Runnable(t)' <=> Runnable(t)
  BY DEF Dispatch, EnterThread, Runnable
<1>3. turns' \in [Threads -> [Threads -> 0 .. 2]] /\ steady' \in [Threads -> SUBSET Threads]
  BY DEF RecordDispatch, NoTurns
<1>4. \A u \in Threads : turns'[n][u] = 0
  BY DEF RecordDispatch, NoTurns
<1>5. \A t, u \in Threads : t # n => turns'[t][u] =
        IF u = n THEN (IF turns[t][n] = 0 THEN 1 ELSE 2) ELSE turns[t][u]
  BY DEF RecordDispatch
<1>6. current \in Threads
  BY DEF TypeOK
\* Nothing dispatched in t's turn lies at or beyond n, as seen from t.
<1>7. ASSUME NEW t \in Threads, t # n, Runnable(t)
      PROVE  /\ turns[t][n] = 0
             /\ t # current => Distance(t, current) < Distance(t, n)
             /\ \A u \in Threads :
                  Runnable(u) /\ Distance(t, u) <= Distance(t, n) /\ u # n
                    => t # current /\ Distance(t, u) <= Distance(t, current)
  <2>1. Distance(current, n) < Distance(current, t)
    <3>1. Distance(current, n) <= Distance(current, t)
      BY <1>2, <1>7 DEF IsNext
    <3>2. QED BY <1>6, <1>7, <3>1, DistanceStrict
  <2>2. CASE t = current
    <3>1. turns[t][n] = 0
      BY <1>7, <2>2 DEF PassedAreBehind
    <3>2. ASSUME NEW u \in Threads, Runnable(u), Distance(t, u) <= Distance(t, n)
          PROVE  u = n
      <4>1. Distance(current, n) <= Distance(current, u)
        BY <1>2, <3>2 DEF IsNext
      <4>2. SUFFICES ASSUME u # n PROVE FALSE
        OBVIOUS
      <4>3. Distance(current, u) < Distance(current, n)
        BY <1>6, <2>2, <3>2, <4>2, DistanceStrict
      <4>4. QED BY <1>6, <4>1, <4>3, DistanceType
    <3>3. QED BY <2>2, <3>1, <3>2
  <2>3. CASE t # current
    <3>1. Distance(t, current) < Distance(t, n)
      BY <1>6, <2>1, <2>3, DistanceForward
    <3>2. turns[t][n] = 0
      <4>1. ~(Distance(t, n) <= Distance(t, current))
        BY <1>6, <3>1, DistanceType
      <4>2. QED BY <1>7, <4>1 DEF PassedAreBehind
    <3>3. ASSUME NEW u \in Threads, Runnable(u), Distance(t, u) <= Distance(t, n), u # n
          PROVE  Distance(t, u) <= Distance(t, current)
      <4>1. SUFFICES ASSUME Distance(t, u) > Distance(t, current) PROVE FALSE
        BY <1>6, DistanceType
      <4>2. Distance(current, u) <= Distance(current, n)
        BY <1>6, <2>1, <2>3, <3>3, <4>1, DistanceForward
      <4>3. Distance(current, n) <= Distance(current, u)
        BY <1>2, <3>3 DEF IsNext
      <4>4. Distance(current, n) < Distance(current, u)
        BY <1>6, <3>3, <4>3, DistanceStrict
      <4>5. QED BY <1>6, <4>2, <4>4, DistanceType
    <3>4. QED BY <2>3, <3>1, <3>2, <3>3
  <2>4. QED BY <2>2, <2>3
<1>8. NoOvertaking'
  BY <1>2, <1>4, <1>5, <1>7 DEF NoOvertaking
<1>9. PassedAreBehind'
  <2> SUFFICES ASSUME NEW t \in Threads, NEW u \in Threads,
                      Runnable(t)', turns'[t][u] # 0
               PROVE  t # n /\ u # t /\ Distance(t, u) <= Distance(t, n)
    BY <1>2 DEF PassedAreBehind, Distance
  <2>1. t # n
    BY <1>4
  <2>2. CASE u = n
    BY <2>1, <2>2, DistanceType
  <2>3. CASE u # n
    <3>1. t # current /\ u # t /\ Distance(t, u) <= Distance(t, current)
      BY <1>2, <1>5, <2>1, <2>3 DEF PassedAreBehind
    <3>2. Distance(t, current) < Distance(t, n)
      BY <1>2, <1>7, <2>1, <3>1
    <3>3. QED BY <1>6, <2>1, <3>1, <3>2, DistanceType
  <2>4. QED BY <2>2, <2>3
<1>10. BehindArePassed'
  <2> SUFFICES ASSUME NEW t \in Threads, NEW u \in steady'[t]
               PROVE  /\ Runnable(t) /\ Runnable(u)
                      /\ (t # n /\ u # t /\ Distance(t, u) <= Distance(t, n))
                           => turns'[t][u] # 0
    BY <1>2, <1>3 DEF BehindArePassed, Distance
  <2>0. u \in Threads
    BY <1>3
  <2>1. CASE t = n
    BY <1>2, <2>1 DEF RecordDispatch, IsNext
  <2>2. CASE t # n
    <3>1. u \in steady[t]
      BY <2>2 DEF RecordDispatch
    <3>2. Runnable(t) /\ Runnable(u)
      BY <3>1 DEF BehindArePassed
    <3>3. ASSUME u # t, Distance(t, u) <= Distance(t, n)
          PROVE  turns'[t][u] # 0
      <4>1. CASE u = n
        BY <1>5, <2>2, <4>1
      <4>2. CASE u # n
        <5>1. t # current /\ Distance(t, u) <= Distance(t, current)
          BY <1>7, <2>0, <2>2, <3>2, <3>3, <4>2
        <5>2. turns[t][u] # 0
          BY <3>1, <3>3, <5>1 DEF BehindArePassed
        <5>3. QED BY <1>5, <2>0, <2>2, <4>2, <5>2
      <4>3. QED BY <4>1, <4>2
    <3>4. QED BY <3>2, <3>3
  <2>3. QED BY <2>1, <2>2
<1>11. QED
  BY <1>1, <1>3, <1>8, <1>9, <1>10

(* Steps that do not dispatch may admit or exclude threads. *)
LEMMA OtherStepKeeps ==
  ASSUME TurnInvariant, OtherStep, RecordAdmission
  PROVE  TurnInvariant'
<1> USE DEF TurnInvariant, TurnsTypeOK
<1>1. TypeOK'
  BY TypeStep DEF OtherStep, Next, RoundRobin
<1>2. current' = current
  BY OtherStepKeepsCurrent
<1>3. turns' \in [Threads -> [Threads -> 0 .. 2]] /\ steady' \in [Threads -> SUBSET Threads]
  BY DEF RecordAdmission, NoTurns
<1>4. \A t, u \in Threads : Runnable(t)' =>
        turns'[t][u] = IF Runnable(t) THEN turns[t][u] ELSE 0
  BY DEF RecordAdmission, NoTurns
<1>5. NoOvertaking'
  BY <1>4 DEF NoOvertaking
<1>6. PassedAreBehind'
  BY <1>2, <1>4 DEF PassedAreBehind, Distance
<1>7. BehindArePassed'
  <2> SUFFICES ASSUME NEW t \in Threads, NEW u \in steady'[t]
               PROVE  /\ Runnable(t)' /\ Runnable(u)'
                      /\ (t # current /\ u # t /\ Distance(t, u) <= Distance(t, current))
                           => turns'[t][u] # 0
    BY <1>2, <1>3 DEF BehindArePassed, Distance
  <2>1. Runnable(t)' /\ Runnable(u)' /\ u \in steady[t] /\ u \in Threads
    BY <1>3 DEF RecordAdmission
  <2>2. QED
    BY <1>4, <2>1 DEF BehindArePassed
<1>8. QED
  BY <1>1, <1>3, <1>5, <1>6, <1>7

-----------------------------------------------------------------------------
(* The position of the round-robin index explains every turn. *)
THEOREM TurnsInvariant == TurnsSpec => []TurnInvariant
<1>1. TurnInvariant /\ [TurnsNext]_roundVars => TurnInvariant'
  <2> SUFFICES ASSUME TurnInvariant, [TurnsNext]_roundVars PROVE TurnInvariant'
    OBVIOUS
  <2>1. ASSUME NEW n \in Threads, Dispatch(n), RecordDispatch(n) PROVE TurnInvariant'
    BY <2>1, DispatchStep
  <2>2. CASE OtherStep /\ RecordAdmission
    BY <2>2, OtherStepKeeps
  <2>3. CASE UNCHANGED roundVars
    BY <2>3 DEF roundVars, vars, TurnInvariant, TurnsTypeOK, TypeOK, NoOvertaking,
       PassedAreBehind, BehindArePassed, Runnable, Distance
  <2>4. QED BY <2>1, <2>2, <2>3 DEF TurnsNext
<1>2. QED
  BY TurnInit, <1>1, PTL DEF TurnsSpec

(* Bounded overtaking: between the admission or the last dispatch of a     *)
(* waiting thread and its next dispatch, no thread runs twice.             *)
THEOREM NobodyOvertaken == TurnsSpec => []NoOvertaking
  BY TurnsInvariant, PTL DEF TurnInvariant

(* The complete round-robin turn system.c relies on. *)
THEOREM TurnsAreComplete == TurnsSpec => CompleteTurn
<1>1. TurnInvariant /\ [TurnsNext]_roundVars =>
        [\A t \in Threads : Dispatch(t) =>
           \A u \in steady[t] \ {t} : turns[t][u] = 1]_roundVars
  <2> SUFFICES ASSUME TurnInvariant,
                      NEW t \in Threads, Dispatch(t),
                      NEW u \in steady[t], u # t
               PROVE  turns[t][u] = 1
    OBVIOUS
  <2> USE DEF TurnInvariant, TurnsTypeOK
  <2>1. u \in Threads /\ current \in Threads /\ IsNext(t) /\ Runnable(t) /\ Runnable(u)
    BY DEF TypeOK, Dispatch, EnterThread, BehindArePassed, IsNext
  <2>2. turns[t][u] \in 0 .. 1
    BY <2>1 DEF NoOvertaking
  <2>3. t # current /\ Distance(t, u) <= Distance(t, current)
    <3>1. Distance(current, t) <= Distance(current, u)
      BY <2>1 DEF IsNext
    <3>2. QED
      BY <2>1, <3>1, KernelAssumption DEF Distance, Threads
  <2>4. turns[t][u] # 0
    BY <2>3 DEF BehindArePassed
  <2>5. QED BY <2>2, <2>4
<1>2. QED
  BY TurnsInvariant, <1>1, PTL DEF TurnsSpec, CompleteTurn

-----------------------------------------------------------------------------
(* The startup.                                                            *)

(* Every step of the system service is a call of thread zero, or leaves    *)
(* the kernel alone.                                                       *)
LEMMA SystemStepIsThreadStep == SystemStep => ThreadStep(0) \/ UNCHANGED kernelVars
<1> SUFFICES ASSUME SystemStep PROVE ThreadStep(0) \/ UNCHANGED kernelVars
  OBVIOUS
<1>1. CASE SystemBegin
  BY <1>1 DEF SystemBegin, ThreadStep
<1>2. CASE SystemLevel \/ SkipDriver \/ DriverCheckPasses \/ ThreadCheckPasses
  BY <1>2 DEF SystemLevel, SkipDriver, DriverCheckPasses, ThreadCheckPasses
<1>3. CASE \E answers \in BOOLEAN : InitDriver(answers) \/ StartDriver(answers)
  BY <1>3 DEF InitDriver, StartDriver
<1>4. CASE \E absent \in SUBSET OnBus : Discover(absent)
  BY <1>4 DEF Discover
<1>5. CASE SystemLevelHalt \/ SystemAdvanceHalt
  BY <1>5 DEF SystemLevelHalt, SystemAdvanceHalt, Halt, ThreadStep
<1>6. CASE SystemYield \/ SystemResume
  BY <1>6 DEF SystemYield, SystemResume, ThreadStep
<1>7. CASE DriverCheckFails \/ ThreadCheckFails
  BY <1>7 DEF DriverCheckFails, ThreadCheckFails, NotReady, Halt, ThreadStep
<1>8. CASE SystemAdvance
  <2>1. sysLevel + 1 \in 0 .. LevelCount /\ RunLevelSet(0, sysLevel + 1)
    BY <1>8, KernelAssumption DEF SystemAdvance, RunLevelSet, LevelAccepted, RL_CORE
  <2>2. QED BY <2>1 DEF ThreadStep
<1>9. CASE SystemLoop
  <2>1. MaxSTC \in 0 .. MaxSTC
    BY KernelAssumption
  <2>2. QED BY <1>9, <2>1 DEF SystemLoop, ThreadStep
<1>10. QED
  BY <1>1, <1>2, <1>3, <1>4, <1>5, <1>6, <1>7, <1>8, <1>9 DEF SystemStep

(* The startup, with its command line and its other threads, is a          *)
(* behaviour of the kernel: system.c touches kernel state through system   *)
(* calls only.                                                             *)
THEOREM StartupImplementsKernel == StartupSpec => Spec
<1>1. StartupInit => Init
  BY DEF StartupInit
<1>2. [StartupNext]_allVars => [Next]_vars
  <2> SUFFICES ASSUME StartupNext PROVE Next \/ UNCHANGED vars
    BY DEF allVars, vars
  <2>1. CASE DispatchAny
    BY <2>1 DEF DispatchAny, Next, RoundRobin
  <2>2. CASE OtherThreads
    BY <2>2 DEF OtherThreads, Next, RoundRobin
  <2>3. CASE \E c \in MayDrive, d \in Drivers, answers \in BOOLEAN : DriverCommand(c, d, answers)
    BY <2>3 DEF DriverCommand, kernelVars
  <2>4. CASE SystemStep
    BY <2>4, SystemStepIsThreadStep, ThreadZero DEF Next, kernelVars
  <2>5. QED
    BY <2>1, <2>2, <2>3, <2>4 DEF StartupNext
<1>3. QED
  BY <1>1, <1>2, PTL DEF StartupSpec, Spec

-----------------------------------------------------------------------------
(* Until the system halts there are rounds left. *)
RoundsLeft == sys # "halt" => rounds < RoundLimit

StartupTypeInv == StartupTypeOK /\ RoundsLeft

(* Driver commands keep the table of status bits. *)
LEMMA ControlsType ==
  ASSUME NEW table \in [Drivers -> DriverBits], NEW d \in Drivers, NEW answers \in BOOLEAN
  PROVE  /\ InitControl(table, d, answers) \in [Drivers -> DriverBits]
         /\ StartControl(table, d, answers) \in [Drivers -> DriverBits]
         /\ StopControl(table, d) \in [Drivers -> DriverBits]
  BY DEF InitControl, StartControl, StopControl, DriverBits

(* The step after a driver stays in the table. *)
LEMMA NextDriverType ==
  ASSUME item \in Drivers, NextDriver
  PROVE  item' \in Drivers /\ sys' \in {"init", "discover", "yield"}
  BY DriverAssumption DEF NextDriver, Drivers

LEMMA NotReadyType ==
  ASSUME StartupTypeInv, sys # "halt", NotReady
  PROVE  /\ rounds' \in 0 .. RoundLimit
         /\ sys' \in SystemPlaces
         /\ RoundsLeft'
         /\ UNCHANGED <<sysLevel, checked, item, drv, chances>>
  BY StartupAssumption DEF StartupTypeInv, StartupTypeOK, RoundsLeft, NotReady, Halt, SystemPlaces

LEMMA StartupTypeStep ==
  ASSUME StartupTypeInv, TypeOK', [StartupNext]_allVars
  PROVE  StartupTypeInv'
<1> USE DEF StartupTypeInv, StartupTypeOK, RoundsLeft
<1>1. CASE DispatchAny
  BY <1>1, StartupAssumption DEF DispatchAny, localVars
<1>2. CASE OtherThreads
  BY <1>2 DEF OtherThreads, localVars
<1>3. ASSUME NEW c \in MayDrive, NEW d \in Drivers, NEW answers \in BOOLEAN,
             DriverCommand(c, d, answers)
      PROVE  StartupTypeInv'
  BY <1>3, ControlsType DEF DriverCommand, localVars
<1>4. CASE SystemStep
  <2>1. CASE SystemBegin \/ SystemLevelHalt \/ SystemYield \/ SystemAdvanceHalt
    BY <2>1 DEF SystemBegin, SystemLevelHalt, SystemYield, SystemAdvanceHalt, Halt,
       localVars, SystemPlaces, At
  <2>2. CASE SystemLevel
    BY <2>2, DriverAssumption, KernelAssumption
       DEF SystemLevel, At, SystemPlaces, Drivers, RunLevels, RL_CORE, RL_NONE
  <2>3. CASE SkipDriver
    BY <2>3, NextDriverType DEF SkipDriver, At, SystemPlaces
  <2>4. ASSUME NEW answers \in BOOLEAN, InitDriver(answers) \/ StartDriver(answers)
        PROVE  StartupTypeInv'
    BY <2>4, NextDriverType, ControlsType
       DEF InitDriver, StartDriver, At, SystemPlaces, localVars
  <2>5. ASSUME NEW absent \in SUBSET OnBus, Discover(absent) PROVE StartupTypeInv'
    BY <2>5 DEF Discover, At, SystemPlaces, localVars, DriverBits
  <2>6. CASE SystemResume
    BY <2>6, DriverAssumption, KernelAssumption
       DEF SystemResume, SystemPlaces, Drivers, RunLevels, RL_NONE
  <2>7. CASE DriverCheckFails \/ ThreadCheckFails
    BY <2>7, NotReadyType DEF DriverCheckFails, ThreadCheckFails, At
  <2>8. CASE DriverCheckPasses
    BY <2>8, DriverAssumption, KernelAssumption
       DEF DriverCheckPasses, At, SystemPlaces, Drivers, RunLevels, RL_CORE
  <2>9. CASE ThreadCheckPasses
    BY <2>9, KernelAssumption DEF ThreadCheckPasses, At, SystemPlaces, RunLevels
  <2>10. CASE SystemAdvance
    BY <2>10, KernelAssumption, DriverAssumption, StartupAssumption
       DEF SystemAdvance, RunLevelSet, LevelAccepted, SystemPlaces, RunLevels, Drivers,
       NoChance, RL_CORE
  <2>11. CASE SystemLoop
    BY <2>11 DEF SystemLoop, At, SystemPlaces, localVars
  <2>12. QED
    BY <1>4, <2>1, <2>2, <2>3, <2>4, <2>5, <2>6, <2>7, <2>8, <2>9, <2>10, <2>11
       DEF SystemStep
<1>5. CASE UNCHANGED allVars
  BY <1>5 DEF allVars
<1>6. QED
  BY <1>1, <1>2, <1>3, <1>4, <1>5 DEF StartupNext

(* The startup's counters and indices stay in range: the round count never *)
(* passes its limit and the loops never leave the driver table.            *)
THEOREM StartupTypeCorrect == StartupSpec => []StartupTypeOK
<1>1. StartupInit => StartupTypeInv
  BY TypeInit, StartupAssumption, DriverAssumption, KernelAssumption
     DEF StartupInit, StartupTypeInv, StartupTypeOK, RoundsLeft, SystemPlaces, Drivers,
     RunLevels, RL_NONE, DriverBits, Up, Off
<1>2. QED
  BY <1>1, StartupTypeStep, StartupImplementsKernel, TypeCorrect, PTL
     DEF StartupSpec, StartupTypeInv

-----------------------------------------------------------------------------
(* The other threads leave levels alone, and thread zero starts and stops  *)
(* nobody: only the system service admits a level.                         *)
OthersKeepLevels ==
  \A t \in Threads \ {0} : MayCall[t] \cap {"RunLevelSet", "Start", "Stop"} = {}

(* Then another thread's step keeps the levels, the index and thread       *)
(* zero's polling flag.                                                    *)
LEMMA QuietStep ==
  ASSUME TypeOK, OthersKeepLevels, OtherThreads
  PROVE  UNCHANGED <<level, runLevel, current>> /\ yielded'[0] = yielded[0]
<1>1. CASE SchedulerStart \/ TimerCompare \/ HaltOutgoing \/ SearchForever
  BY <1>1 DEF SchedulerStart, TimerCompare, HaltOutgoing, SearchForever, schedVars, threadVars
<1>2. ASSUME NEW c \in Threads \ {0}, ThreadStep(c)
      PROVE  UNCHANGED <<level, runLevel, current>> /\ yielded'[0] = yielded[0]
  <2>1. c \in Threads /\ c # 0 /\ MayCall[c] \cap {"RunLevelSet", "Start", "Stop"} = {}
    BY <1>2 DEF OthersKeepLevels
  <2>2. \A l, t : ~RunLevelSet(c, l) /\ ~ThreadStart(c, t, l) /\ ~ThreadStop(c, t)
    BY <2>1 DEF RunLevelSet, ThreadStart, ThreadStop, Calls
  <2>3. CASE CoopYield(c)
    BY <2>1, <2>3, ThreadZero DEF CoopYield, TypeOK, schedVars, threadVars
  <2>4. CASE ~CoopYield(c)
    <3>1. UNCHANGED <<level, runLevel, current, yielded>>
      BY <1>2, <2>2, <2>4 DEF ThreadStep, SetInitialized, SetSTC, YieldReturn, TimerControl,
         HaltCall, WildWrite, schedVars, threadVars
    <3>2. QED BY <3>1
  <2>5. QED BY <2>3, <2>4
<1>3. QED
  BY <1>1, <1>2 DEF OtherThreads

(* Every runnable thread has been dispatched as often as thread zero, and  *)
(* those the index has passed since it left thread zero once more.         *)
ChancesAreFair ==
  /\ level = InitialLevel
  /\ \A t \in Threads : Runnable(t) =>
       /\ chances[t] >= chances[0]
       /\ t # 0 /\ t <= current => chances[t] >= chances[0] + 1 \/ chances[t] = RoundLimit

(* Each round the system counts is a dispatch of thread zero: the one that *)
(* ended its yield.                                                        *)
RoundsAreTurns ==
  /\ chances[0] >= rounds
  /\ (sys \in {"drivers", "threads"} \/ (sys = "resume" /\ ~yielded[0]))
       => chances[0] >= rounds + 1

RoundInvariant == StartupTypeInv /\ ChancesAreFair /\ RoundsAreTurns

(* A dispatch of n gives it a chance, and n is the next runnable thread.   *)
LEMMA DispatchIsFair ==
  ASSUME RoundInvariant, NEW n \in Threads, Dispatch(n),
         chances' = [chances EXCEPT ![n] = IF @ = RoundLimit THEN @ ELSE @ + 1],
         UNCHANGED <<sys, rounds>>
  PROVE  ChancesAreFair' /\ RoundsAreTurns'
<1> USE DEF RoundInvariant, StartupTypeInv, StartupTypeOK
<1>1. /\ current' = n /\ level' = level /\ runLevel' = runLevel
      /\ IsNext(n)
      /\ \A t \in Threads : Runnable(t)' <=> Runnable(t)
  BY DEF Dispatch, EnterThread, Runnable
<1>2. current \in Threads /\ Threads \subseteq Nat /\ RoundLimit \in Nat
  BY StartupAssumption, KernelAssumption DEF TypeOK, Threads
<1>3. 0 \in Threads /\ Runnable(0)
  BY ThreadZero, SystemRunnable DEF ChancesAreFair
<1>4. /\ chances'[n] = IF chances[n] = RoundLimit THEN RoundLimit ELSE chances[n] + 1
      /\ \A t \in Threads \ {n} : chances'[t] = chances[t]
      /\ \A t \in Threads : chances[t] \in Int /\ chances[t] <= RoundLimit
      /\ rounds \in Int
  BY <1>2
<1>5. RoundsAreTurns'
  <2>1. CASE n = 0
    <3>1. chances'[0] >= chances[0] /\ (chances'[0] >= chances[0] + 1 \/ chances'[0] = RoundLimit)
      BY <1>2, <1>3, <1>4, <2>1
    <3>2. sys # "halt" => rounds + 1 <= RoundLimit
      BY <1>2, <1>4 DEF RoundsLeft
    <3>3. QED BY <1>2, <1>3, <1>4, <2>1, <3>1, <3>2 DEF RoundsAreTurns
  <2>2. CASE n # 0
    <3>1. chances'[0] = chances[0] /\ yielded'[0] = yielded[0]
      BY <1>3, <1>4, <2>2 DEF Dispatch, EnterThread, TypeOK
    <3>2. QED BY <3>1 DEF RoundsAreTurns
  <2>3. QED BY <2>1, <2>2
<1>6. ASSUME NEW t \in Threads, Runnable(t)
      PROVE  /\ chances'[t] >= chances'[0]
             /\ t # 0 /\ t <= n => chances'[t] >= chances'[0] + 1 \/ chances'[t] = RoundLimit
  <2>1. CASE n = 0
    <3>1. t # 0 => t <= current
      <4> SUFFICES ASSUME t # 0, t > current PROVE FALSE
        BY <1>2
      <4>1. Distance(current, 0) <= Distance(current, t)
        BY <1>1, <1>6, <2>1 DEF IsNext
      <4>2. QED BY <1>2, <4>1, KernelAssumption DEF Distance, Threads
    <3>2. t # 0 => chances[t] >= chances[0] + 1 \/ chances[t] = RoundLimit
      BY <1>6, <3>1 DEF ChancesAreFair
    <3>3. QED BY <1>2, <1>3, <1>4, <2>1, <3>2
  <2>2. CASE n # 0
    <3>1. chances'[0] = chances[0] /\ chances[t] >= chances[0]
      BY <1>3, <1>4, <1>6, <2>2 DEF ChancesAreFair
    <3>2. CASE t = n
      BY <1>2, <1>3, <1>4, <3>1, <3>2
    <3>3. CASE t # n
      <4>1. ASSUME t # 0, t <= n PROVE t <= current
        <5>1. Distance(current, n) <= Distance(current, t) /\ Distance(current, n) <= Distance(current, 0)
          BY <1>1, <1>3, <1>6 DEF IsNext
        <5>2. QED BY <1>2, <2>2, <3>3, <4>1, <5>1, KernelAssumption DEF Distance, Threads
      <4>2. QED BY <1>2, <1>4, <1>6, <3>1, <3>3, <4>1 DEF ChancesAreFair
    <3>4. QED BY <3>2, <3>3
  <2>3. QED BY <2>1, <2>2
<1>7. QED
  BY <1>1, <1>5, <1>6 DEF ChancesAreFair

(* The system's own steps: a round is counted only after a turn.           *)
LEMMA SystemStepIsFair ==
  ASSUME RoundInvariant, SystemStep
  PROVE  ChancesAreFair' /\ RoundsAreTurns'
<1> USE DEF RoundInvariant, StartupTypeInv, StartupTypeOK
<1>1. /\ 0 \in Threads /\ rounds \in Nat /\ RoundLimit \in Nat \ {0}
      /\ \A t \in Threads : chances[t] \in Nat /\ chances[t] <= RoundLimit
  BY ThreadZero, StartupAssumption
<1>2. ASSUME UNCHANGED <<level, runLevel, current, chances>>
      PROVE  ChancesAreFair'
  BY <1>2 DEF ChancesAreFair, Runnable
<1>3. ASSUME UNCHANGED <<chances, rounds>>, sys' \notin {"drivers", "threads", "resume"}
      PROVE  RoundsAreTurns'
  BY <1>3 DEF RoundsAreTurns
<1>4. CASE SystemBegin \/ SystemLevelHalt \/ SystemAdvanceHalt \/ SystemLevel
  BY <1>2, <1>3, <1>4 DEF SystemBegin, SystemLevelHalt, SystemAdvanceHalt, SystemLevel, Halt,
     HaltCall, SetInitialized, localVars, schedVars, threadVars, vars, kernelVars
<1>5. CASE SkipDriver \/ \E answers \in BOOLEAN : InitDriver(answers) \/ StartDriver(answers)
  <2>1. UNCHANGED <<level, runLevel, current, chances, rounds>>
        /\ sys' \in {"init", "start", "discover", "yield"}
    BY <1>5 DEF SkipDriver, InitDriver, StartDriver, NextDriver, kernelVars, vars, localVars
  <2>2. QED BY <1>2, <1>3, <2>1
<1>6. CASE \E absent \in SUBSET OnBus : Discover(absent)
  BY <1>2, <1>3, <1>6 DEF Discover, kernelVars, vars, localVars
<1>7. CASE SystemYield
  <2>1. yielded'[0] = TRUE /\ UNCHANGED <<chances, rounds, level, runLevel, current>>
        /\ sys' = "resume"
    BY <1>1, <1>7 DEF SystemYield, CoopYield, localVars, schedVars, threadVars, TypeOK
  <2>2. QED BY <1>2, <2>1 DEF RoundsAreTurns
<1>8. CASE SystemResume
  <2>1. ~yielded[0] /\ sys = "resume" /\ UNCHANGED <<chances, rounds, level, runLevel, current>>
    BY <1>8 DEF SystemResume, YieldReturn, schedVars, threadVars
  <2>2. QED BY <1>2, <2>1 DEF RoundsAreTurns
<1>9. CASE DriverCheckFails \/ ThreadCheckFails
  <2>1. /\ sys \in {"drivers", "threads"} /\ rounds' = rounds + 1
        /\ sys' \in {"yield", "halt"}
        /\ UNCHANGED <<chances, level, runLevel, current>>
    BY <1>9 DEF DriverCheckFails, ThreadCheckFails, NotReady, At, Halt, HaltCall, kernelVars,
       vars, schedVars, threadVars
  <2>2. QED BY <1>2, <2>1 DEF RoundsAreTurns
<1>10. CASE DriverCheckPasses \/ ThreadCheckPasses
  <2>1. /\ sys \in {"drivers", "threads"}
        /\ sys' # "resume"
        /\ UNCHANGED <<chances, rounds, level, runLevel, current>>
    BY <1>10 DEF DriverCheckPasses, ThreadCheckPasses, At, kernelVars, vars
  <2>2. QED BY <1>2, <2>1 DEF RoundsAreTurns
<1>11. CASE SystemAdvance
  <2>1. /\ current' = 0 /\ level' = level /\ rounds' = 0 /\ sys' = "init"
        /\ chances' = [t \in Threads |-> 0]
    BY <1>11 DEF SystemAdvance, RunLevelSet, Calls, NoChance, threadVars
  <2>2. Threads \subseteq Nat
    BY KernelAssumption DEF Threads
  <2>3. QED BY <1>1, <2>1, <2>2 DEF ChancesAreFair, RoundsAreTurns
<1>12. CASE SystemLoop
  <2>1. UNCHANGED <<chances, rounds, level, runLevel, current>> /\ sys' \in {"loop", "delay"}
    BY <1>12 DEF SystemLoop, SetSTC, CoopYield, YieldReturn, At, localVars, kernelVars, vars,
       schedVars, threadVars
  <2>2. QED BY <1>2, <1>3, <2>1
<1>13. QED
  BY <1>4, <1>5, <1>6, <1>7, <1>8, <1>9, <1>10, <1>11, <1>12 DEF SystemStep

(* No level is given up before every thread it admits has had the CPU in   *)
(* each of the rounds granted, for every number of threads, drivers,       *)
(* levels and rounds, as long as only the system service changes levels.   *)
THEOREM HaltsOnlyAfterFullRounds ==
  ASSUME OthersKeepLevels
  PROVE  StartupSpec => []GivesUpAfterFullRounds
<1>1. StartupInit => RoundInvariant
  <2> SUFFICES ASSUME StartupInit PROVE RoundInvariant
    OBVIOUS
  <2>1. StartupTypeInv
    BY TypeInit, StartupAssumption, DriverAssumption, KernelAssumption
       DEF StartupInit, StartupTypeInv, StartupTypeOK, RoundsLeft, SystemPlaces, Drivers,
       RunLevels, RL_NONE, DriverBits, Up, Off
  <2>2. Threads \subseteq Nat /\ 0 \in Threads
    BY ThreadZero, KernelAssumption DEF Threads
  <2>3. QED
    BY <2>1, <2>2 DEF RoundInvariant, StartupInit, Init, ChancesAreFair, RoundsAreTurns
<1>2. RoundInvariant /\ TypeOK' /\ [StartupNext]_allVars => RoundInvariant'
  <2> SUFFICES ASSUME RoundInvariant, TypeOK', [StartupNext]_allVars
               PROVE  ChancesAreFair' /\ RoundsAreTurns'
    BY StartupTypeStep DEF RoundInvariant
  <2>1. CASE DispatchAny
    BY <2>1, DispatchIsFair DEF DispatchAny, localVars
  <2>2. CASE OtherThreads
    <3>1. /\ UNCHANGED <<level, runLevel, current, sys, rounds, chances>>
          /\ yielded'[0] = yielded[0]
      BY <2>2, QuietStep DEF RoundInvariant, StartupTypeInv, StartupTypeOK, OtherThreads, localVars
    <3>2. QED BY <3>1 DEF RoundInvariant, ChancesAreFair, RoundsAreTurns, Runnable
  <2>3. CASE \E c \in MayDrive, d \in Drivers, answers \in BOOLEAN : DriverCommand(c, d, answers)
    <3>1. UNCHANGED <<level, runLevel, current, sys, rounds, chances, yielded>>
      BY <2>3 DEF DriverCommand, kernelVars, vars, localVars
    <3>2. QED BY <3>1 DEF RoundInvariant, ChancesAreFair, RoundsAreTurns, Runnable
  <2>4. CASE SystemStep
    BY <2>4, SystemStepIsFair
  <2>5. CASE UNCHANGED allVars
    BY <2>5 DEF allVars, vars, RoundInvariant, ChancesAreFair, RoundsAreTurns, Runnable
  <2>6. QED BY <2>1, <2>2, <2>3, <2>4, <2>5 DEF StartupNext
<1>3. RoundInvariant => GivesUpAfterFullRounds
  <2> SUFFICES ASSUME RoundInvariant, rounds = RoundLimit, NEW t \in Threads, Runnable(t)
               PROVE  chances[t] >= RoundLimit
    BY DEF GivesUpAfterFullRounds
  <2>1. chances[0] \in Int /\ chances[t] \in Int /\ RoundLimit \in Int
    BY ThreadZero, StartupAssumption DEF RoundInvariant, StartupTypeInv, StartupTypeOK
  <2>2. QED
    BY <2>1 DEF RoundInvariant, ChancesAreFair, RoundsAreTurns
<1>4. QED
  BY <1>1, <1>2, <1>3, StartupImplementsKernel, TypeCorrect, PTL DEF StartupSpec

-----------------------------------------------------------------------------
(* What the startup makes of the driver table: no driver starts without    *)
(* initialization, none is initialized over a bus that does not run, and   *)
(* the bus driver is never given up for dead.                              *)
Orderly(table) ==
  /\ \A d \in Drivers : table[d].start => table[d].init
  /\ \A d \in OnBus : table[d].init => BusUp(table)
  /\ ~table[BusDriver].dead

(* Initializing a driver brings nobody up and takes nobody down.           *)
LEMMA InitKeepsUp ==
  ASSUME NEW table \in [Drivers -> DriverBits], Orderly(table),
         NEW d \in Drivers, NEW answers \in BOOLEAN
  PROVE  /\ Orderly(InitControl(table, d, answers))
         /\ \A e \in Drivers : Running(InitControl(table, d, answers), e) <=> Running(table, e)
         /\ \A e \in Drivers \ {d} : InitControl(table, d, answers)[e] = table[e]
<1> BusDriver \in Drivers /\ BusDriver \notin OnBus /\ OnBus \subseteq Drivers
  BY DriverAssumption DEF OnBus
<1> DEFINE after == InitControl(table, d, answers)
<1>1. CASE after = table
  BY <1>1
<1>2. CASE after # table
  <2>1. /\ after = [table EXCEPT ![d].init = TRUE]
        /\ d \in OnBus => BusUp(table)
    BY <1>2 DEF InitControl
  <2>2. ~table[d].init
    BY <1>2, <2>1 DEF DriverBits
  <2>3. ~table[d].start /\ ~BusUp([table EXCEPT ![BusDriver] = table[d]])
    BY <2>2 DEF Orderly, BusUp, LifeState
  <2>4. /\ after[d].init = TRUE /\ after[d].start = table[d].start
        /\ after[d].dead = table[d].dead
        /\ \A e \in Drivers \ {d} : after[e] = table[e]
    BY <2>1 DEF DriverBits
  <2>5. BusUp(after) <=> BusUp(table)
    BY <2>2, <2>3, <2>4 DEF BusUp, LifeState
  <2>6. Orderly(after)
    BY <2>1, <2>3, <2>4, <2>5 DEF Orderly
  <2>7. ASSUME NEW e \in Drivers PROVE Running(after, e) <=> Running(table, e)
    <3>1. CASE e = d
      BY <2>2, <2>3, <2>4, <2>5, <3>1 DEF Running, State, LifeState
    <3>2. CASE e # d
      BY <2>4, <2>5, <3>2 DEF Running, State
    <3>3. QED BY <3>1, <3>2
  <2>8. QED BY <2>4, <2>6, <2>7
<1>3. QED BY <1>1, <1>2

(* Starting a driver brings up that driver, or nobody.                     *)
LEMMA StartBringsUp ==
  ASSUME NEW table \in [Drivers -> DriverBits], Orderly(table),
         NEW d \in Drivers, NEW answers \in BOOLEAN
  PROVE  /\ Orderly(StartControl(table, d, answers))
         /\ \A e \in Drivers : StartControl(table, d, answers)[e].init = table[e].init
         /\ \/ StartControl(table, d, answers) = table
            \/ \A e \in Drivers :
                 Running(StartControl(table, d, answers), e) <=> Running(table, e) \/ e = d
<1> BusDriver \in Drivers /\ BusDriver \notin OnBus /\ OnBus \subseteq Drivers
  BY DriverAssumption DEF OnBus
<1> DEFINE after == StartControl(table, d, answers)
<1>1. CASE after = table
  BY <1>1
<1>2. CASE after # table
  <2>1. after = [table EXCEPT ![d].start = TRUE] /\ table[d].init /\ ~table[d].dead
    BY <1>2 DEF StartControl
  <2>2. /\ after[d].init /\ after[d].start /\ ~after[d].dead
        /\ \A e \in Drivers \ {d} : after[e] = table[e]
        /\ \A e \in Drivers : after[e].init = table[e].init
    BY <2>1 DEF DriverBits
  <2>3. BusUp(table) => BusUp(after)
    BY <2>2 DEF BusUp, LifeState
  <2>4. Orderly(after)
    BY <2>1, <2>2, <2>3 DEF Orderly
  <2>5. Running(after, d)
    BY <2>1, <2>2, <2>3 DEF Orderly, Running, State, LifeState
  <2>6. ASSUME NEW e \in Drivers, e # d PROVE Running(after, e) <=> Running(table, e)
    <3>1. CASE e \in OnBus /\ table[e].init
      <4>1. BusUp(table) /\ BusUp(after)
        BY <2>3, <3>1 DEF Orderly
      <4>2. QED BY <2>2, <2>6, <4>1 DEF Running, State
    <3>2. CASE e \in OnBus /\ ~table[e].init
      BY <2>2, <2>6, <3>2 DEF Running, State, LifeState
    <3>3. CASE e \notin OnBus
      BY <2>2, <2>6, <3>3 DEF Running, State
    <3>4. QED BY <3>1, <3>2, <3>3
  <2>7. QED BY <2>2, <2>4, <2>5, <2>6
<1>3. QED BY <1>1, <1>2

(* A bus scan gives up devices whose drivers are not initialized yet.      *)
GivenUp(table, absent) ==
  [d \in Drivers |-> IF d \in absent THEN [table[d] EXCEPT !.dead = TRUE] ELSE table[d]]

LEMMA DeathSparesRunning ==
  ASSUME NEW table \in [Drivers -> DriverBits], Orderly(table),
         NEW absent \in SUBSET OnBus, \A d \in OnBus : ~table[d].init
  PROVE  /\ Orderly(GivenUp(table, absent))
         /\ \A d \in Drivers : GivenUp(table, absent)[d].init = table[d].init
         /\ \A d \in Drivers : Running(GivenUp(table, absent), d) <=> Running(table, d)
<1> DEFINE after == GivenUp(table, absent)
<1>1. BusDriver \in Drivers /\ BusDriver \notin OnBus /\ OnBus \subseteq Drivers
  BY DriverAssumption DEF OnBus
<1>2. /\ \A d \in Drivers : after[d].init = table[d].init /\ after[d].start = table[d].start
      /\ \A d \in Drivers \ OnBus : after[d] = table[d]
  BY <1>1 DEF DriverBits, GivenUp
<1> HIDE DEF after
<1>3. BusUp(after) <=> BusUp(table)
  BY <1>1, <1>2 DEF BusUp
<1>4. Orderly(after)
  BY <1>1, <1>2, <1>3 DEF Orderly
<1>5. ASSUME NEW d \in Drivers PROVE Running(after, d) <=> Running(table, d)
  <2>1. CASE d \in OnBus
    BY <1>1, <1>2, <2>1 DEF Running, State, LifeState
  <2>2. CASE d \notin OnBus
    BY <1>1, <1>2, <1>3, <2>2 DEF Running, State
  <2>3. QED BY <2>1, <2>2
<1>6. QED BY <1>2, <1>4, <1>5 DEF after

-----------------------------------------------------------------------------
(* The hypotheses of the staged boot: nobody else changes levels or        *)
(* commands drivers, and the drivers that are reached over the bus start   *)
(* after the level that scans it, as they do in every delivered init.rc.   *)
SystemAlone ==
  /\ OthersKeepLevels
  /\ MayDrive = {}
  /\ \A d \in OnBus : DriverLevel[d] > RL_CORE

ThreadsUpTo(l) == \A t \in Threads : InitialLevel[t] \in 1 .. l => initialized[t]
DriversUpTo(l) == \A d \in Drivers : DriverLevel[d] <= l => Running(drv, d)

(* How far the readiness loops have come says what is ready.               *)
Progress ==
  /\ sys = "drivers" =>
       \A d \in Drivers :
         DriverLevel[d] < checked \/ (DriverLevel[d] = checked /\ d < item) => Running(drv, d)
  /\ sys = "threads" => DriversUpTo(sysLevel) /\ ThreadsUpTo(checked - 1)
  /\ sys = "advance" => DriversUpTo(sysLevel) /\ ThreadsUpTo(sysLevel)

(* The system works on the level in force, whose drivers it starts, and no *)
(* driver of a later level is initialized.                                 *)
LevelsAgree ==
  /\ level = InitialLevel /\ Runnable(current)
  /\ sys \in {"begin", "level"} => sysLevel = RL_NONE
  /\ sys \notin {"begin", "level", "halt"} => sysLevel = runLevel
  /\ sys = "discover" => sysLevel = RL_CORE
  /\ sys = "start" => DriverLevel[item] = sysLevel
  /\ \A d \in Drivers : drv[d].init => DriverLevel[d] <= sysLevel

BootInvariant == StartupTypeInv /\ LevelsAgree /\ Orderly(drv) /\ Progress

(* A step that leaves the table and the system's variables alone, and      *)
(* forgets no initialized thread, keeps the invariant.                     *)
LEMMA BootStands ==
  ASSUME BootInvariant,
         UNCHANGED <<level, runLevel, sys, localVars, drv>>,
         Runnable(current)', \A t \in Threads : initialized[t] => initialized'[t]
  PROVE  LevelsAgree' /\ Orderly(drv)' /\ Progress'
  BY DEF BootInvariant, LevelsAgree, Orderly, BusUp, Progress, ThreadsUpTo, DriversUpTo,
     Running, State, localVars

(* Stages seen by a step of another thread, or of the scheduler: at most   *)
(* one thread of an admitted level declares itself initialized.            *)
LEMMA OthersAreStaged ==
  ASSUME BootInvariant, SystemAlone, DispatchAny \/ OtherThreads
  PROVE  /\ LevelsAgree' /\ Orderly(drv)' /\ Progress'
         /\ [Staged!StageNext]_(Staged!stageVars)
<1> USE DEF BootInvariant, StartupTypeInv, StartupTypeOK
<1>1. /\ UNCHANGED <<level, runLevel, sys, localVars, drv>>
      /\ Runnable(current)'
  <2>1. CASE DispatchAny
    <3>1. PICK n \in Threads : Dispatch(n)
      BY <2>1 DEF DispatchAny
    <3>2. current' = n /\ IsNext(n) /\ level' = level /\ runLevel' = runLevel
      BY <3>1 DEF Dispatch, EnterThread
    <3>3. Runnable(current)'
      BY <3>2 DEF IsNext, Runnable
    <3>4. QED BY <2>1, <3>2, <3>3 DEF DispatchAny, localVars
  <2>2. CASE OtherThreads
    BY <2>2, QuietStep DEF OtherThreads, SystemAlone, LevelsAgree, Runnable, localVars
  <2>3. QED BY <2>1, <2>2
<1>2. \/ initialized' = initialized
      \/ \E c \in Threads : c = current /\ initialized' = [initialized EXCEPT ![c] = TRUE]
  <2>1. CASE DispatchAny
    BY <2>1 DEF DispatchAny, Dispatch, EnterThread
  <2>2. CASE SchedulerStart \/ TimerCompare \/ HaltOutgoing \/ SearchForever
    BY <2>2 DEF SchedulerStart, TimerCompare, HaltOutgoing, SearchForever, threadVars
  <2>3. ASSUME NEW c \in Threads \ {0}, ThreadStep(c)
        PROVE  initialized' = initialized \/
               (c = current /\ initialized' = [initialized EXCEPT ![c] = TRUE])
    BY <2>3 DEF ThreadStep, SetInitialized, SetSTC, RunLevelSet, ThreadStart, ThreadStop,
       CoopYield, YieldReturn, TimerControl, HaltCall, WildWrite, threadVars, Calls
  <2>4. QED BY <2>1, <2>2, <2>3 DEF OtherThreads
<1>3. \A t \in Threads : initialized[t] => initialized'[t]
  BY <1>2 DEF TypeOK
<1>4. LevelsAgree' /\ Orderly(drv)' /\ Progress'
  BY <1>1, <1>3, BootStands
<1>5. [Staged!StageNext]_(Staged!stageVars)
  <2>1. CASE initialized' = initialized
    BY <1>1, <2>1 DEF Staged!stageVars, localVars
  <2>2. ASSUME NEW c \in Threads, c = current, initialized' = [initialized EXCEPT ![c] = TRUE]
        PROVE  Staged!Acknowledge(c)
    <3>1. InitialLevel[c] \in 1 .. runLevel
      BY <2>2, KernelAssumption
         DEF LevelsAgree, Runnable, RunLevels, RL_NONE, TypeOK
    <3>2. {t \in Threads : initialized'[t]} = {t \in Threads : initialized[t]} \cup {c}
      BY <2>2 DEF TypeOK
    <3>3. QED BY <1>1, <3>1, <3>2 DEF Staged!Acknowledge, localVars
  <2>3. DOMAIN InitialLevel = Threads
    BY KernelAssumption
  <2>4. QED BY <1>2, <2>1, <2>2, <2>3 DEF Staged!StageNext, Staged!StageThreads
<1>6. QED BY <1>4, <1>5

(* The kernel state the stages see is what the system's own step leaves.   *)
LEMMA SameStage ==
  ASSUME UNCHANGED <<runLevel, initialized>>,
         \A d \in Drivers : Running(drv, d)' <=> Running(drv, d),
         (sys' \in {"loop", "delay"}) <=> (sys \in {"loop", "delay"}),
         (sys' = "halt") <=> (sys = "halt")
  PROVE  UNCHANGED Staged!stageVars
  BY DEF Staged!stageVars

(* The driver loop moves on, or ends in a scan or a yield.                 *)
LEMMA NextDriverLeads ==
  ASSUME NextDriver
  PROVE  /\ sys' \in {"init", "discover", "yield"}
         /\ sys' = "discover" => sysLevel = RL_CORE
  BY DEF NextDriver

(* The steps that touch drivers: at most one driver, of the newest level,  *)
(* comes up, and none goes down.                                           *)
LEMMA DriverStepIsStaged ==
  ASSUME BootInvariant, SystemAlone, StartupTypeInv',
         \/ SkipDriver
         \/ \E answers \in BOOLEAN : InitDriver(answers) \/ StartDriver(answers)
         \/ \E absent \in SUBSET OnBus : Discover(absent)
  PROVE  /\ LevelsAgree' /\ Orderly(drv)' /\ Progress'
         /\ [Staged!StageNext]_(Staged!stageVars)
<1> USE DEF BootInvariant, StartupTypeInv, StartupTypeOK
<1>1. /\ UNCHANGED <<level, runLevel, current, initialized, sysLevel>>
      /\ sys \in {"init", "start", "discover"}
      /\ sys' \in {"init", "start", "discover", "yield"}
  BY NextDriverLeads DEF SkipDriver, InitDriver, StartDriver, Discover, At, localVars,
     kernelVars, vars
<1>2. Progress'
  BY <1>1 DEF Progress
<1>3. ASSUME \A d \in Drivers : drv'[d].init => DriverLevel[d] <= sysLevel,
             sys' = "discover" => sysLevel = RL_CORE,
             sys' = "start" => DriverLevel[item'] = sysLevel
      PROVE  LevelsAgree'
  BY <1>1, <1>3 DEF LevelsAgree, Runnable
<1>4. ASSUME \A d \in Drivers : Running(drv', d) <=> Running(drv, d)
      PROVE  UNCHANGED Staged!stageVars
  BY <1>1, <1>4, SameStage DEF Running, State, BusUp
<1>5. CASE SkipDriver
  <2>1. drv' = drv
    BY <1>5 DEF SkipDriver
  <2>2. LevelsAgree'
    BY <1>1, <1>3, <1>5, <2>1, NextDriverLeads DEF SkipDriver, LevelsAgree
  <2>3. QED BY <1>2, <1>4, <2>1, <2>2 DEF Orderly, BusUp
<1>6. ASSUME NEW answers \in BOOLEAN, InitDriver(answers)
      PROVE  LevelsAgree' /\ Orderly(drv)' /\ UNCHANGED Staged!stageVars
  <2>1. /\ drv' = InitControl(drv, item, answers) /\ item' = item /\ sys' = "start"
        /\ DriverLevel[item] = sysLevel
    BY <1>6 DEF InitDriver, Started, localVars
  <2>2. PICK table : table = InitControl(drv, item, answers)
    OBVIOUS
  <2>3. /\ Orderly(table)
        /\ \A e \in Drivers : Running(table, e) <=> Running(drv, e)
        /\ \A e \in Drivers \ {item} : table[e] = drv[e]
    BY <2>2, InitKeepsUp
  <2>4. LevelsAgree'
    <3>1. \A d \in Drivers : drv'[d].init => DriverLevel[d] <= sysLevel
      BY <2>1, <2>2, <2>3, DriverAssumption DEF LevelsAgree
    <3>2. QED BY <1>3, <2>1, <3>1
  <2>5. QED BY <1>4, <2>1, <2>2, <2>3, <2>4 DEF Orderly, BusUp
<1>7. ASSUME NEW answers \in BOOLEAN, StartDriver(answers)
      PROVE  LevelsAgree' /\ Orderly(drv)' /\ [Staged!StageNext]_(Staged!stageVars)
  <2>1. /\ drv' = StartControl(drv, item, answers)
        /\ sys = "start" /\ DriverLevel[item] = sysLevel /\ sysLevel = runLevel
    BY <1>7 DEF StartDriver, At, LevelsAgree
  <2>2. PICK table : table = StartControl(drv, item, answers)
    OBVIOUS
  <2>3. /\ Orderly(table)
        /\ \A e \in Drivers : table[e].init = drv[e].init
        /\ \/ table = drv
           \/ \A e \in Drivers : Running(table, e) <=> Running(drv, e) \/ e = item
    BY <2>2, StartBringsUp
  <2>4. LevelsAgree'
    <3>1. \A d \in Drivers : drv'[d].init => DriverLevel[d] <= sysLevel
      BY <2>1, <2>2, <2>3 DEF LevelsAgree
    <3>2. QED BY <1>3, <1>1, <1>7, <3>1, NextDriverLeads DEF StartDriver
  <2>5. CASE table = drv
    BY <1>4, <2>1, <2>2, <2>3, <2>4, <2>5 DEF Orderly, BusUp
  <2>6. CASE \A e \in Drivers : Running(table, e) <=> Running(drv, e) \/ e = item
    <3>1. {d \in Drivers : Running(table, d)} = {d \in Drivers : Running(drv, d)} \cup {item}
      BY <2>6
    <3>2. {d \in Drivers : Running(drv', d)} = {d \in Drivers : Running(drv, d)} \cup {item}
      BY <2>1, <2>2, <3>1
    <3>3. Staged!BringUp(item)
      BY <1>1, <2>1, <3>2 DEF Staged!BringUp, Running, State, BusUp
    <3>4. DOMAIN DriverLevel = Drivers
      BY DriverAssumption
    <3>5. QED
      BY <2>1, <2>2, <2>3, <2>4, <3>3, <3>4 DEF Staged!StageNext, Staged!StageDrivers,
         Orderly, BusUp
  <2>7. QED BY <2>3, <2>5, <2>6
<1>8. ASSUME NEW absent \in SUBSET OnBus, Discover(absent)
      PROVE  LevelsAgree' /\ Orderly(drv)' /\ UNCHANGED Staged!stageVars
  <2>1. \A d \in OnBus : ~drv[d].init
    <3>1. sysLevel = RL_CORE /\ OnBus \subseteq Drivers
      BY <1>8 DEF Discover, At, LevelsAgree, OnBus
    <3>2. QED BY <3>1, DriverAssumption DEF LevelsAgree, SystemAlone, RL_CORE
  <2>2. PICK table : table = GivenUp(drv, absent)
    OBVIOUS
  <2>3. drv' = table /\ sys' = "yield"
    BY <1>8, <2>2 DEF Discover, GivenUp
  <2>4. /\ Orderly(table)
        /\ \A d \in Drivers : table[d].init = drv[d].init
        /\ \A d \in Drivers : Running(table, d) <=> Running(drv, d)
    BY <2>1, <2>2, DeathSparesRunning
  <2>5. LevelsAgree'
    BY <1>3, <2>3, <2>4 DEF LevelsAgree
  <2>6. QED BY <1>4, <2>3, <2>4, <2>5 DEF Orderly, BusUp
<1>9. QED BY <1>2, <1>4, <1>5, <1>6, <1>7, <1>8

(* The remaining steps of the system service: waiting, checking, admitting *)
(* and giving up.  None of them touches a driver.                          *)
LEMMA CheckStepIsStaged ==
  ASSUME BootInvariant, StartupTypeInv',
         \/ SystemBegin \/ SystemLevel \/ SystemLevelHalt \/ SystemYield \/ SystemResume
         \/ DriverCheckFails \/ DriverCheckPasses \/ ThreadCheckFails \/ ThreadCheckPasses
         \/ SystemAdvance \/ SystemAdvanceHalt \/ SystemLoop
  PROVE  /\ LevelsAgree' /\ Orderly(drv)' /\ Progress'
         /\ [Staged!StageNext]_(Staged!stageVars)
<1> USE DEF BootInvariant, StartupTypeInv, StartupTypeOK
<1>1. drv' = drv /\ level' = level /\ current' = current
  BY DEF SystemBegin, SystemLevel, SystemLevelHalt, SystemYield, SystemResume,
     DriverCheckFails, DriverCheckPasses, ThreadCheckFails, ThreadCheckPasses, NotReady,
     SystemAdvance, SystemAdvanceHalt, SystemLoop, Halt, HaltCall, SetInitialized, CoopYield,
     YieldReturn, RunLevelSet, SetSTC, At, localVars, kernelVars, vars, schedVars, threadVars
<1>2. Orderly(drv)'
  BY <1>1 DEF Orderly, BusUp
<1>3. \A d \in Drivers : Running(drv, d)' <=> Running(drv, d)
  BY <1>1 DEF Running, State, BusUp
<1>4. CASE SystemBegin
  <2>1. /\ current = 0 /\ 0 \in Threads /\ runLevel' = runLevel /\ sysLevel' = sysLevel
        /\ sys = "begin" /\ sys' = "level"
        /\ initialized' = [initialized EXCEPT ![0] = TRUE]
    BY <1>4, ThreadZero DEF SystemBegin, SetInitialized, Calls, schedVars, localVars
  <2>2. LevelsAgree' /\ Progress'
    BY <1>1, <2>1 DEF LevelsAgree, Progress, Runnable
  <2>3. {t \in Threads : initialized'[t]} = {t \in Threads : initialized[t]} \cup {0}
    BY <2>1 DEF TypeOK
  <2>4. InitialLevel[0] \in 1 .. runLevel /\ DOMAIN InitialLevel = Threads
    BY KernelAssumption DEF TypeOK, RunLevels, RL_CORE, RL_NONE
  <2>5. Staged!Acknowledge(0)
    BY <1>3, <2>1, <2>3, <2>4 DEF Staged!Acknowledge
  <2>6. QED
    BY <1>2, <2>1, <2>2, <2>4, <2>5 DEF Staged!StageNext, Staged!StageThreads
<1>5. CASE SystemLevel \/ SystemYield \/ SystemResume
  <2>1. /\ UNCHANGED <<runLevel, initialized>>
        /\ sys \notin {"loop", "delay", "halt"} /\ sys' \notin {"loop", "delay", "halt"}
    BY <1>5 DEF SystemLevel, SystemYield, SystemResume, CoopYield, YieldReturn, At, kernelVars,
       vars, schedVars, threadVars
  <2>2. CASE SystemLevel
    <3>1. sysLevel = RL_NONE /\ runLevel = RL_CORE /\ sysLevel' = runLevel /\ sys' = "init"
      BY <2>2 DEF SystemLevel, At, LevelsAgree
    <3>2. LevelsAgree' /\ Progress'
      BY <1>1, <2>1, <3>1, DriverAssumption
         DEF LevelsAgree, Progress, Runnable, RL_NONE, RL_CORE
    <3>3. QED BY <1>2, <1>3, <2>1, <3>2, SameStage
  <2>3. CASE SystemYield
    <3>1. sysLevel' = sysLevel /\ sys = "yield" /\ sys' = "resume"
      BY <2>3 DEF SystemYield, localVars
    <3>2. LevelsAgree' /\ Progress'
      BY <1>1, <2>1, <3>1 DEF LevelsAgree, Progress, Runnable
    <3>3. QED BY <1>2, <1>3, <2>1, <3>2, SameStage
  <2>4. CASE SystemResume
    <3>1. /\ sysLevel' = sysLevel /\ sys = "resume" /\ sys' = "drivers"
          /\ checked' = RL_NONE /\ item' = 0
      BY <2>4 DEF SystemResume
    <3>2. LevelsAgree' /\ Progress'
      BY <1>1, <2>1, <3>1, DriverAssumption
         DEF LevelsAgree, Progress, Runnable, Drivers, RL_NONE
    <3>3. QED BY <1>2, <1>3, <2>1, <3>2, SameStage
  <2>5. QED BY <1>5, <2>2, <2>3, <2>4
<1>6. CASE DriverCheckFails \/ ThreadCheckFails \/ SystemLevelHalt \/ SystemAdvanceHalt
  <2>1. /\ UNCHANGED <<runLevel, initialized, sysLevel>>
        /\ sys \in {"drivers", "threads", "level", "advance"}
        /\ sys' = "halt" \/ (sys \in {"drivers", "threads"} /\ sys' = "yield")
    BY <1>6 DEF DriverCheckFails, ThreadCheckFails, NotReady, SystemLevelHalt,
       SystemAdvanceHalt, Halt, HaltCall, At, kernelVars, vars, schedVars, threadVars, localVars
  <2>2. LevelsAgree' /\ Progress'
    BY <1>1, <2>1 DEF LevelsAgree, Progress, Runnable
  <2>3. CASE sys' = "yield"
    BY <1>2, <1>3, <2>1, <2>2, <2>3, SameStage
  <2>4. CASE sys' = "halt"
    <3>1. Staged!Abandon
      BY <1>3, <2>1, <2>4 DEF Staged!Abandon
    <3>2. QED BY <1>2, <2>2, <3>1 DEF Staged!StageNext
  <2>5. QED BY <2>1, <2>3, <2>4
<1>7. CASE DriverCheckPasses
  <2>1. /\ UNCHANGED <<runLevel, initialized, sysLevel>>
        /\ sys = "drivers" /\ sys' \in {"drivers", "threads"}
        /\ DriverLevel[item] = checked => Running(drv, item)
    BY <1>7 DEF DriverCheckPasses, DriverReady, At, kernelVars, vars
  <2>2. LevelsAgree'
    BY <1>1, <2>1 DEF LevelsAgree, Runnable
  <2>3. /\ checked \in Nat /\ sysLevel \in Nat /\ item \in Nat /\ Drivers \subseteq Nat
        /\ \A d \in Drivers : DriverLevel[d] \in Nat /\ d <= DriverCount - 1
        /\ DriverCount \in Nat
        /\ \A t \in Threads : InitialLevel[t] \in Nat
    <3>1. DriverCount \in Nat /\ Drivers = 0 .. DriverCount - 1
      BY DriverAssumption DEF Drivers
    <3>2. \A d \in Drivers : DriverLevel[d] \in Nat
      BY DriverAssumption
    <3>3. \A d \in Drivers : d \in Nat /\ d <= DriverCount - 1
      BY <3>1
    <3>4. \A t \in Threads : InitialLevel[t] \in Nat
      BY KernelAssumption DEF RunLevels
    <3>5. checked \in Nat /\ sysLevel \in Nat /\ item \in Nat
      BY <3>1 DEF RunLevels
    <3>6. QED BY <3>1, <3>2, <3>3, <3>4, <3>5
  <2>4. ASSUME NEW d \in Drivers,
               DriverLevel[d] < checked \/ (DriverLevel[d] = checked /\ d <= item)
        PROVE  Running(drv, d)
    <3>1. CASE d = item
      BY <2>1, <2>3, <2>4, <3>1 DEF Progress
    <3>2. CASE d # item
      BY <2>1, <2>3, <2>4, <3>2 DEF Progress
    <3>3. QED BY <3>1, <3>2
  <2>5. Progress'
    <3>1. CASE item + 1 < DriverCount
      <4>1. item' = item + 1 /\ checked' = checked /\ sys' = "drivers"
        BY <1>7, <2>1, <3>1 DEF DriverCheckPasses
      <4>2. ASSUME NEW d \in Drivers,
                   DriverLevel[d] < checked \/ (DriverLevel[d] = checked /\ d < item + 1)
            PROVE  Running(drv, d)
        BY <2>3, <2>4, <4>2
      <4>3. QED BY <1>3, <4>1, <4>2 DEF Progress
    <3>2. CASE ~(item + 1 < DriverCount) /\ checked < sysLevel
      <4>1. item' = 0 /\ checked' = checked + 1 /\ sys' = "drivers"
        BY <1>7, <2>1, <3>2 DEF DriverCheckPasses
      <4>2. \A d \in Drivers : DriverLevel[d] < checked + 1 => Running(drv, d)
        BY <2>3, <2>4, <3>2
      <4>3. QED BY <1>3, <2>3, <4>1, <4>2 DEF Progress
    <3>3. CASE ~(item + 1 < DriverCount) /\ ~(checked < sysLevel)
      <4>1. checked' = RL_CORE /\ sys' = "threads"
        BY <1>7, <2>1, <3>3 DEF DriverCheckPasses
      <4>2. \A d \in Drivers : DriverLevel[d] <= sysLevel => Running(drv, d)
        BY <2>3, <2>4, <3>3
      <4>3. QED
        BY <1>3, <2>1, <2>3, <4>1, <4>2 DEF Progress, DriversUpTo, ThreadsUpTo, RL_CORE
    <3>4. QED BY <3>1, <3>2, <3>3
  <2>6. QED BY <1>2, <1>3, <2>1, <2>2, <2>5, SameStage
<1>8. CASE ThreadCheckPasses
  <2>1. /\ UNCHANGED <<runLevel, initialized, sysLevel>>
        /\ sys = "threads" /\ sys' \in {"threads", "advance", "loop"}
        /\ \A t \in Threads : InitialLevel[t] = checked => initialized[t]
    BY <1>8 DEF ThreadCheckPasses, ThreadsReady, At, kernelVars, vars, LevelsAgree
  <2>2. LevelsAgree'
    BY <1>1, <2>1 DEF LevelsAgree, Runnable
  <2>3. /\ checked \in Nat /\ sysLevel \in Nat /\ LevelCount \in Nat
        /\ \A t \in Threads : InitialLevel[t] \in Nat
    BY KernelAssumption DEF RunLevels
  <2>4. DriversUpTo(sysLevel) /\ ThreadsUpTo(checked)
    BY <2>1, <2>3 DEF Progress, ThreadsUpTo
  <2>5. CASE checked < sysLevel
    <3>1. checked' = checked + 1 /\ sys' = "threads"
      BY <1>8, <2>1, <2>5 DEF ThreadCheckPasses
    <3>2. Progress'
      BY <1>3, <2>1, <2>3, <2>4, <3>1 DEF Progress, ThreadsUpTo, DriversUpTo
    <3>3. QED BY <1>2, <1>3, <2>1, <2>2, <3>1, <3>2, SameStage
  <2>6. CASE ~(checked < sysLevel)
    <3>1. ThreadsUpTo(sysLevel)
      BY <2>3, <2>4, <2>6 DEF ThreadsUpTo
    <3>2. Progress'
      BY <1>3, <1>8, <2>1, <2>4, <2>6, <3>1
         DEF Progress, ThreadsUpTo, DriversUpTo, ThreadCheckPasses
    <3>3. CASE sys' = "advance"
      BY <1>2, <1>3, <2>1, <2>2, <3>2, <3>3, SameStage
    <3>4. CASE sys' = "loop"
      <4>1. sysLevel = LevelCount - 1 /\ sysLevel = runLevel
        BY <1>8, <2>1, <2>6, <3>4 DEF ThreadCheckPasses, RL_USER, LevelsAgree
      <4>2. DOMAIN InitialLevel = Threads /\ DOMAIN DriverLevel = Drivers
        BY KernelAssumption, DriverAssumption
      <4>3. Staged!StageReady
        BY <2>4, <3>1, <4>1, <4>2
           DEF Staged!StageReady, Staged!StageThreads, Staged!StageDrivers, ThreadsUpTo,
           DriversUpTo
      <4>4. runLevel + 1 = LevelCount
        BY <2>3, <4>1
      <4>5. Staged!Complete
        BY <1>3, <2>1, <3>4, <4>3, <4>4 DEF Staged!Complete
      <4>6. QED BY <1>2, <2>2, <3>2, <4>5 DEF Staged!StageNext
    <3>5. QED
      BY <1>8, <2>1, <2>6, <3>3, <3>4 DEF ThreadCheckPasses
  <2>7. QED BY <2>5, <2>6
<1>9. CASE SystemAdvance
  <2>1. /\ sys = "advance" /\ sys' = "init" /\ sysLevel = runLevel
        /\ sysLevel' = sysLevel + 1 /\ runLevel' = sysLevel + 1
        /\ sysLevel + 1 < LevelCount
        /\ initialized' = initialized
    BY <1>9 DEF SystemAdvance, RunLevelSet, LevelAccepted, LevelsAgree, threadVars
  <2>2. sysLevel \in Nat /\ runLevel \in Nat /\ \A t \in Threads : level[t] \in Nat
    BY KernelAssumption DEF RunLevels, TypeOK
  <2>3. current \in Threads /\ \A d \in Drivers : DriverLevel[d] \in Nat
    BY DriverAssumption DEF TypeOK
  <2>4. LevelsAgree' /\ Progress'
    BY <1>1, <2>1, <2>2, <2>3 DEF LevelsAgree, Progress, Runnable
  <2>5. DOMAIN InitialLevel = Threads /\ DOMAIN DriverLevel = Drivers
    BY KernelAssumption, DriverAssumption
  <2>6. Staged!StageReady
    BY <2>1, <2>5 DEF Staged!StageReady, Staged!StageThreads, Staged!StageDrivers,
       Progress, ThreadsUpTo, DriversUpTo
  <2>7. Staged!Admit
    BY <1>3, <2>1, <2>6 DEF Staged!Admit
  <2>8. QED BY <1>2, <2>4, <2>7 DEF Staged!StageNext
<1>10. CASE SystemLoop
  <2>1. /\ UNCHANGED <<runLevel, initialized, sysLevel>>
        /\ sys \in {"loop", "delay"} /\ sys' \in {"loop", "delay"}
    BY <1>10 DEF SystemLoop, SetSTC, CoopYield, YieldReturn, At, localVars, kernelVars, vars,
       schedVars, threadVars
  <2>2. LevelsAgree' /\ Progress'
    BY <1>1, <2>1 DEF LevelsAgree, Progress, Runnable
  <2>3. QED BY <1>2, <1>3, <2>1, <2>2, SameStage
<1>11. QED
  BY <1>4, <1>5, <1>6, <1>7, <1>8, <1>9, <1>10

(* The startup implements the staged boot for every number of threads,     *)
(* drivers, levels and rounds: a run level is admitted only when every     *)
(* thread and driver of the levels below it is up, although readiness is   *)
(* checked one driver and one level at a time between preemptions.         *)
THEOREM BootFollowsStages ==
  ASSUME SystemAlone
  PROVE  StartupSpec => BootIsStaged
<1>1. StartupInit => BootInvariant /\ Staged!StageInit
  <2> SUFFICES ASSUME StartupInit PROVE BootInvariant /\ Staged!StageInit
    OBVIOUS
  <2>1. StartupTypeInv
    BY TypeInit, StartupAssumption, DriverAssumption, KernelAssumption
       DEF StartupInit, StartupTypeInv, StartupTypeOK, RoundsLeft, SystemPlaces, Drivers,
       RunLevels, RL_NONE, DriverBits, Up, Off
  <2>2. ASSUME NEW d \in Drivers
        PROVE  /\ DriverLevel[d] \in Nat
               /\ DriverLevel[d] = 0 => drv[d].init /\ drv[d].start /\ ~drv[d].dead
               /\ DriverLevel[d] # 0 => ~drv[d].init /\ ~drv[d].start /\ ~drv[d].dead
               /\ d \in OnBus => DriverLevel[d] # 0
    <3>1. drv[d] = IF DriverLevel[d] = 0 THEN Up ELSE Off
      BY DEF StartupInit, RL_NONE
    <3>2. DriverLevel[d] \in Nat
      BY DriverAssumption
    <3>3. d \in OnBus => DriverLevel[d] > 1
      BY DEF SystemAlone, RL_CORE
    <3>4. QED BY <3>1, <3>2, <3>3 DEF Up, Off
  <2>3. BusDriver \in Drivers /\ OnBus \subseteq Drivers
    BY DriverAssumption DEF OnBus
  <2>4. Orderly(drv)
    BY <2>2, <2>3 DEF Orderly
  <2>5. \A d \in Drivers : Running(drv, d) <=> DriverLevel[d] = 0
    BY <2>2 DEF Running, State, LifeState
  <2>6. Runnable(0)
    BY <2>1, SystemRunnable DEF StartupInit, Init, StartupTypeInv, StartupTypeOK
  <2>7. LevelsAgree
    BY <2>2, <2>6 DEF StartupInit, Init, LevelsAgree, RL_NONE
  <2>8. Progress
    BY DEF StartupInit, Progress
  <2>9. DOMAIN DriverLevel = Drivers
    BY DriverAssumption
  <2>10. Staged!StageInit
    BY <2>5, <2>9 DEF StartupInit, Init, Staged!StageInit, Staged!StageDrivers, RL_CORE
  <2>11. QED BY <2>1, <2>4, <2>7, <2>8, <2>10 DEF BootInvariant
<1>2. BootInvariant /\ TypeOK' /\ [StartupNext]_allVars
        => BootInvariant' /\ [Staged!StageNext]_(Staged!stageVars)
  <2> SUFFICES ASSUME BootInvariant, TypeOK', [StartupNext]_allVars
               PROVE  BootInvariant' /\ [Staged!StageNext]_(Staged!stageVars)
    OBVIOUS
  <2>1. StartupTypeInv'
    BY StartupTypeStep DEF BootInvariant
  <2>2. CASE DispatchAny \/ OtherThreads
    BY <2>1, <2>2, OthersAreStaged DEF BootInvariant
  <2>3. CASE \E c \in MayDrive, d \in Drivers, answers \in BOOLEAN : DriverCommand(c, d, answers)
    BY <2>3 DEF SystemAlone
  <2>4. CASE SystemStep
    BY <2>1, <2>4, DriverStepIsStaged, CheckStepIsStaged DEF BootInvariant, SystemStep
  <2>5. CASE UNCHANGED allVars
    <3>1. UNCHANGED Staged!stageVars
      BY <2>5 DEF allVars, vars, Staged!stageVars, Running, State, BusUp
    <3>2. UNCHANGED <<level, runLevel, current, initialized, sys, localVars, drv>>
      BY <2>5 DEF allVars, vars, localVars
    <3>3. Runnable(current)'
      BY <3>2 DEF BootInvariant, LevelsAgree, Runnable
    <3>4. QED BY <2>1, <3>1, <3>2, <3>3, BootStands DEF BootInvariant
  <2>6. QED BY <2>2, <2>3, <2>4, <2>5 DEF StartupNext
<1>3. QED
  BY <1>1, <1>2, StartupImplementsKernel, TypeCorrect, PTL
     DEF StartupSpec, BootIsStaged, Staged!StageSpec
=============================================================================
