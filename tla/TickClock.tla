----------------------------- MODULE TickClock -----------------------------
(***************************************************************************)
(* The monotonic timer: on the board a counter that a compare interrupt    *)
(* advances and threads read byte by byte in a masked section              *)
(* (at2560_timerMonotonic.c); on the host the time of a running clock      *)
(* added up over starts and stops (freebsd_timerMonotonic.c), with signals *)
(* masked in every call.                                                   *)
(***************************************************************************)
EXTENDS DriverControl

CONSTANTS
  ByteBase,      \* the values of the lower half of the counter
  TickModulus,   \* the counter's width
  MaxPeriods,    \* bound: timer periods that pass, half ones on the host
  MaxClockCalls  \* bound: control calls

ASSUME ClockAssumption ==
  /\ ByteBase \in Nat \ {0, 1} /\ TickModulus \in Nat \ {0} /\ TickModulus % ByteBase = 0
  /\ MaxPeriods \in Nat /\ MaxClockCalls \in Nat

VARIABLES
  machine,    \* board or host
  mono,       \* status, run level and last error, as a table of one driver
  ticks,      \* timer_monotonic_ticks
  counting,   \* CS31: the timer is clocked
  enabled,    \* OCIE3A: the compare interrupt is enabled
  matched,    \* OCF3A: a match waits for the interrupt
  startedAt,  \* timer_monotonic_started_at, in half ticks
  reading,    \* where hal_timerMonotonicRead is, what it has, what it returned
  passed,     \* auxiliary: time the timer has run, in periods
  lost,       \* auxiliary: matches no interrupt has counted
  restarts,   \* auxiliary: times the host's clock was set going
  rerun,      \* auxiliary: the timer was initialized while it ran
  clockCalls  \* bound: control calls made so far

hardware  == <<counting, enabled, matched>>
clockAux  == <<passed, lost, restarts, rerun>>
clockVars == <<machine, mono, ticks, counting, enabled, matched, startedAt, reading,
               passed, lost, restarts, rerun, clockCalls>>

ClockTypeOK ==
  /\ machine \in {"board", "host"}
  /\ mono \in [{"monotonic"} -> DriverRecords]
  /\ ticks \in 0 .. TickModulus - 1
  /\ {counting, enabled, matched, rerun} \subseteq BOOLEAN
  /\ startedAt \in 0 .. MaxPeriods
  /\ reading.at \in {"idle", "low", "high", "done"}
  /\ reading.value \in 0 .. TickModulus - 1
  /\ passed \in 0 .. MaxPeriods /\ lost \in 0 .. MaxPeriods
  /\ restarts \in 0 .. MaxClockCalls
  /\ clockCalls \in 0 .. MaxClockCalls

NotReading == [at |-> "idle", value |-> 0, began |-> 0]

ClockInit ==
  /\ machine \in {"board", "host"}
  /\ mono = [d \in {"monotonic"} |-> ColdDriver]
  /\ ticks = 0
  /\ counting = FALSE /\ enabled = FALSE /\ matched = FALSE
  /\ startedAt = 0
  /\ reading = NotReading
  /\ passed = 0 /\ lost = 0 /\ restarts = 0 /\ rerun = FALSE
  /\ clockCalls = 0

-----------------------------------------------------------------------------
MonoStatus(table) == OwnStatus(table, "monotonic")

Started == "start" \in mono["monotonic"].bits

MonoControl(table, c) ==
  Control(table, "monotonic", c,
    Initialize(table, "monotonic"),
    StartInitialized(table, "monotonic", table["monotonic"].error),
    MonoStatus(ClearStart(table, "monotonic")),
    MonoStatus(Store(table, "monotonic", c)))

(* The host's time, which starts with the program. *)
HostTime == passed + lost

(* timerMonotonicTicksAt: whole ticks since the start. *)
TicksAt == (ticks + (HostTime - startedAt) \div 2) % TickModulus

CountClockCall == clockCalls < MaxClockCalls /\ clockCalls' = clockCalls + 1

(* What the three life cycle calls do to Timer3: init and stop it stopped, *)
(* start it counting; each drops a match that waits.                       *)
BoardTimer(c) ==
  /\ counting' = (c.op = "START")
  /\ enabled' = (c.op = "START")
  /\ matched' = FALSE
  /\ lost' = IF matched THEN lost + 1 ELSE lost

BoardCommand(c) ==
  /\ machine = "board" /\ reading.at \in {"idle", "done"}
  /\ CountClockCall
  /\ LET reply == MonoControl(mono, c)
     IN  /\ mono' = reply.table
         /\ IF reply.state # "error" /\ c.op \in LifeOps
            THEN BoardTimer(c) ELSE UNCHANGED <<hardware, lost>>
         /\ rerun' = ((rerun /\ c.op # "START") \/ (c.op = "INIT" /\ Started))
  /\ UNCHANGED <<machine, ticks, startedAt, reading, passed, restarts>>

(* A period of Timer3 ends. *)
TimerMatch ==
  /\ machine = "board" /\ counting /\ passed < MaxPeriods
  /\ passed' = passed + 1
  /\ matched' = TRUE
  /\ lost' = IF matched THEN lost + 1 ELSE lost
  /\ UNCHANGED <<machine, mono, ticks, counting, enabled, startedAt, reading, restarts,
                 rerun, clockCalls>>

(* Mutated form: the counter is read without masking. *)
NeverMasked == FALSE

ReadMasks == reading.at \in {"low", "high"}

(* ISR(TIMER3_COMPA_vect) *)
CountTick ==
  /\ matched /\ enabled /\ ~ReadMasks
  /\ ticks' = (ticks + 1) % TickModulus
  /\ matched' = FALSE
  /\ UNCHANGED <<machine, mono, counting, enabled, startedAt, reading, clockAux, clockCalls>>

(* hal_timerMonotonicRead on the board: mask, then one byte after another. *)
ReadBegin ==
  /\ machine = "board" /\ reading.at \in {"idle", "done"}
  /\ reading' = [at |-> "low", value |-> 0, began |-> ticks]
  /\ UNCHANGED <<machine, mono, ticks, hardware, startedAt, clockAux, clockCalls>>

ReadLow ==
  /\ reading.at = "low"
  /\ reading' = [reading EXCEPT !.at = "high", !.value = ticks % ByteBase]
  /\ UNCHANGED <<machine, mono, ticks, hardware, startedAt, clockAux, clockCalls>>

ReadHigh ==
  /\ reading.at = "high"
  /\ reading' = [reading EXCEPT !.at = "done",
                                !.value = @ + (ticks \div ByteBase) * ByteBase]
  /\ UNCHANGED <<machine, mono, ticks, hardware, startedAt, clockAux, clockCalls>>

-----------------------------------------------------------------------------
(* Half a tick passes on the host; passed counts the time the timer runs,  *)
(* lost the rest.                                                          *)
HostTimePasses ==
  /\ machine = "host" /\ HostTime < MaxPeriods
  /\ IF Started THEN passed' = passed + 1 /\ UNCHANGED lost
     ELSE lost' = lost + 1 /\ UNCHANGED passed
  /\ UNCHANGED <<machine, mono, ticks, hardware, startedAt, reading, restarts, rerun,
                 clockCalls>>

(* A start that sets the clock going. *)
Restarts(c) == c.op = "START" /\ ~Started /\ "init" \in mono["monotonic"].bits

(* A start of a started timer changes nothing; a stop keeps what has run.  *)
HostTimer(c) ==
  /\ startedAt' = IF Restarts(c) THEN HostTime ELSE startedAt
  /\ ticks' = IF c.op = "STOP" /\ Started THEN TicksAt ELSE ticks

(* timerMonotonicControl, signals masked. *)
HostCommand(c) ==
  /\ machine = "host"
  /\ CountClockCall
  /\ mono' = MonoControl(mono, c).table
  /\ HostTimer(c)
  /\ restarts' = IF Restarts(c) THEN restarts + 1 ELSE restarts
  /\ UNCHANGED <<machine, hardware, reading, passed, lost, rerun>>

HostRead ==
  /\ machine = "host"
  /\ reading' = [at |-> "done", value |-> IF Started THEN TicksAt ELSE ticks, began |-> 0]
  /\ UNCHANGED <<machine, mono, ticks, hardware, startedAt, clockAux, clockCalls>>

MonoCalls ==
  {Plain(op) : op \in LifeOps \cup {"GETSTATUS"}} \cup
  {With("RLSET", 2), With("RLSET", LevelCount), Plain("RLGET")}

ClockNext ==
  \/ \E c \in MonoCalls : BoardCommand(c) \/ HostCommand(c)
  \/ TimerMatch \/ CountTick
  \/ ReadBegin \/ ReadLow \/ ReadHigh
  \/ HostTimePasses \/ HostRead

ClockSpec == ClockInit /\ [][ClockNext]_clockVars

-----------------------------------------------------------------------------
(* What is read is the time the timer has run: on the board every period   *)
(* but those no interrupt counted, through carries and the wrap of the     *)
(* counter; on the host all of it but less than a tick for every start     *)
(* (hal_timerMonotonicRead).                                               *)
ReadIsCurrent ==
  [][/\ ReadHigh =>
          reading'.value = (passed - lost - (IF matched THEN 1 ELSE 0)) % TickModulus
     /\ HostRead => \E short \in 0 .. restarts :
          reading'.value = ((passed \div 2) - short) % TickModulus]_clockVars

(* A timer that says it runs is clocked and counted, unless it was         *)
(* initialized again while it ran.                                         *)
RunningTimerCounts ==
  machine = "board" /\ MonoStatus(mono).state = "running" /\ ~rerun => counting /\ enabled
=============================================================================
