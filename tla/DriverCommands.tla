--------------------------- MODULE DriverCommands ---------------------------
(***************************************************************************)
(* Every control call, in any order, on a driver with an interrupt of its  *)
(* own: the board's USART and context timer (at2560_usart.c,               *)
(* at2560_timerContext.c) and the scheduling timer of the host             *)
(* (freebsd_timerSched.c).  A status word and an interrupt source that     *)
(* should agree with it.                                                   *)
(***************************************************************************)
EXTENDS DriverControl

BoardDrivers == {"usart", "contextTimer"}
Servants     == BoardDrivers \cup {"schedTimer"}

VARIABLES
  served,      \* the driver the calls are for
  servant,     \* status, run level and last error, as a table of that driver
  awake,       \* its interrupt is enabled; on the host, its interval timer runs
  activated,   \* timer_sched_activated
  ended,       \* hal_halt was called
  answer,      \* auxiliary: the state the last call returned
  disturbed    \* auxiliary: the status word and the interrupt may disagree

controlVars == <<served, servant, awake, activated, ended, answer, disturbed>>

ControlTypeOK ==
  /\ served \in Servants
  /\ servant \in [{served} -> DriverRecords]
  /\ {awake, activated, ended, disturbed} \subseteq BOOLEAN
  /\ answer \in DriverStates

ControlInit ==
  /\ served \in Servants
  /\ servant = [d \in {served} |-> ColdDriver]
  /\ awake = FALSE /\ activated = FALSE /\ ended = FALSE
  /\ answer = "off"
  /\ disturbed = (served = "schedTimer")

-----------------------------------------------------------------------------
ServantStatus(table) ==
  IF served = "schedTimer" THEN HostStatus(table, served) ELSE OwnStatus(table, served)

ServantControl(c) ==
  Control(servant, served, c,
    IF served = "schedTimer" THEN HostInit(servant, served) ELSE Initialize(servant, served),
    IF served = "schedTimer" THEN HostStart(servant, served)
    ELSE StartInitialized(servant, served, servant[served].error),
    ServantStatus(ClearStart(servant, served)),
    ServantStatus(Store(servant, served, c)))

(* Initializing sets the interrupts of a board's driver up disabled;       *)
(* stopping the USART leaves its receive interrupt on.                     *)
Awake(c, succeeds) ==
  CASE served \in BoardDrivers /\ c.op = "START" /\ succeeds -> TRUE
    [] served \in BoardDrivers /\ c.op = "INIT" /\ succeeds -> FALSE
    [] served # "usart" /\ c.op = "STOP" -> FALSE
    [] OTHER -> awake

(* The ways to make a driver say it runs that leave its interrupt alone:   *)
(* setting status bits, initializing a started driver, and on the host a   *)
(* stop, which only an activation makes good.                              *)
Disturbs(c) ==
  \/ c.op = "SETBIT" /\ c.data # <<>> /\ c.data[1] \in {"init", "start"}
  \/ served \in BoardDrivers /\ c.op = "INIT" /\ "start" \in servant[served].bits
  \/ served = "schedTimer" /\ c.op = "STOP"

Mends(c, reply) ==
  served \in BoardDrivers /\ c.op = "START" /\ reply.state = "running"

ControlCall(c) ==
  /\ ~ended
  /\ LET reply == ServantControl(c)
     IN  /\ servant' = reply.table
         /\ answer' = reply.state
         /\ awake' = Awake(c, reply.state \in {"initialized", "running"})
         /\ activated' = (activated /\ c.op # "STOP")
         /\ disturbed' = ((disturbed /\ ~Mends(c, reply)) \/ Disturbs(c))
  /\ UNCHANGED <<served, ended>>

(* hal_timerContextSetCallback. *)
SetCallback(null) ==
  /\ ~ended /\ served # "usart"
  /\ LET reply == IF null THEN SetError(servant, served, "NULL_POINTER")
                  ELSE ServantStatus(servant)
     IN  servant' = reply.table /\ answer' = reply.state
  /\ UNCHANGED <<served, awake, activated, ended, disturbed>>

(* hal_timerContextLoad, without the interrupt it brings about. *)
Load ==
  /\ ~ended /\ served # "usart"
  /\ LET asked == ServantStatus(servant)
         reply == CASE served = "contextTimer" -> RequireRunning(asked, served)
                    [] asked.state = "running" -> asked
                    [] OTHER -> SetError(asked.table, served, "NOT_RUNNING")
     IN  servant' = reply.table /\ answer' = reply.state
  /\ UNCHANGED <<served, awake, activated, ended, disturbed>>

(* freebsd_timerSchedActivate, by the start of the first context. *)
Activate ==
  /\ ~ended /\ served = "schedTimer" /\ ~activated
  /\ LET asked == ServantStatus(servant)
     IN  /\ servant' = asked.table
         /\ ended' = (asked.state # "running")
         /\ awake' = (awake \/ asked.state = "running")
         /\ activated' = (asked.state = "running")
         /\ disturbed' = (disturbed /\ asked.state # "running")
  /\ UNCHANGED <<served, answer>>

ControlCalls ==
  {Plain(op) : op \in LifeOps \cup DataOps \cup {"GETSTATUS", "UNKNOWN"}} \cup
  {With("RLSET", level) : level \in {0, LevelCount - 1, LevelCount}} \cup
  {With(op, bit) : op \in BitOps, bit \in StatusBits \cup {"unknown"}} \cup
  {With("RLGET", 0), With("GETLASTERROR", 0)}

ControlNext ==
  \/ \E c \in ControlCalls : ControlCall(c)
  \/ \E null \in BOOLEAN : SetCallback(null)
  \/ Load
  \/ Activate

ControlSpec == ControlInit /\ [][ControlNext]_controlVars

-----------------------------------------------------------------------------
(* A driver that says it runs has its interrupt, whatever calls, refused   *)
(* ones included, came before, unless its status bits were set by hand, it *)
(* was initialized while it was started or the host's timer was stopped    *)
(* and only started again (hal_timerContextStart, hal_usartStart).         *)
RunningDriverIsAwake ==
  ServantStatus(servant).state = "running" /\ ~disturbed => awake

(* A call that answers an error or a dead driver has left a reason, which  *)
(* is what the system calls report: without one they would report success  *)
(* (sc_driverError).                                                       *)
FailureHasReason ==
  answer \in {"error", "dead"} => servant[served].error # "NO_ERROR"
=============================================================================
