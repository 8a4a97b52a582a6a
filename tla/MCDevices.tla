----------------------------- MODULE MCDevices -----------------------------
(***************************************************************************)
(* The drivers that share no state with each other, checked one at a time: *)
(* the subject says which of them the behaviour is about.                  *)
(***************************************************************************)
EXTENDS BusTransactions, Signals, TickClock, HostConsole, CommandText,
  DriverCommands

CONSTANTS shell, userTask

VARIABLE subject

Subjects == {"bus", "signals", "clock", "console", "text", "controls"}

deviceVars == <<subject, busVars, signalVars, clockVars, consoleVars, textVars,
                controlVars>>

(* Two registers show a mixture of two times as well as seven do; the day  *)
(* is the one whose range starts at one, the hours the one that is masked  *)
(* after its conversion.                                                   *)
MCRegisters   == <<"hours", "day">>
MCClockStarts == {<<23, 9>>}

Named(name)         == [name |-> name]
Text(row, col, str) == [name |-> "lcdWriteString", row |-> row, col |-> col, text |-> str]
Order(d, op)        == [name |-> "driverControl", driver |-> d, op |-> op]

MCShellCalls ==
  {Named("rtcRead"), [name |-> "dateSet", field |-> 1, value |-> 10],
   [name |-> "driverGetInfo", driver |-> "rtc"],
   Order("i2c", "STOP"), Order("i2c", "START")} \cup
  {Order("rtc", op) : op \in LifeOps}

MCUserCalls ==
  {Named("lcdClear"), Text(1, 19, <<65>>), Text(4, 0, <<65>>), Named("rtcSaveStartupTime"),
   [name |-> "rtcWrite", time |-> <<12, 31>>], [name |-> "rtcWrite", time |-> <<12, 0>>]} \cup
  {Order("lcd", op) : op \in LifeOps}

MCBusCalls == (shell :> MCShellCalls @@ userTask :> MCUserCalls)

MCWiring ==
  [led   |-> [port |-> "E", number |-> 0, mode |-> "output", pullUp |-> FALSE],
   relay |-> [port |-> "E", number |-> 1, mode |-> "output", pullUp |-> FALSE],
   key   |-> [port |-> "E", number |-> 2, mode |-> "input", pullUp |-> TRUE]]

MCTypedTimes == {0, 9, 23, 24} \X {0, 59, 60} \X {0, 59, 60}
MCTypedDates == {0, 9, 31, 99} \X {0, 1, 12, 13} \X {1999, 2000, 2099, 2100}

(* A subject that is not the one checked stays in one of its initial       *)
(* states.                                                                 *)
Resting ==
  /\ subject # "bus" => drv["lcd"].bits = {}
  /\ subject # "clock" => machine = "host"
  /\ subject # "console" => consoleUp
  /\ subject # "text" => form = "level" /\ text = <<1>>
  /\ subject # "controls" => served = "usart"

DeviceInit ==
  /\ subject \in Subjects
  /\ BusInit /\ SignalInit /\ ClockInit /\ ConsoleInit /\ TextInit /\ ControlInit
  /\ Resting

DeviceNext ==
  /\ UNCHANGED subject
  /\ \/ /\ subject = "bus" /\ BusNext
        /\ UNCHANGED <<signalVars, clockVars, consoleVars, textVars, controlVars>>
     \/ /\ subject = "signals" /\ SignalNext
        /\ UNCHANGED <<busVars, clockVars, consoleVars, textVars, controlVars>>
     \/ /\ subject = "clock" /\ ClockNext
        /\ UNCHANGED <<busVars, signalVars, consoleVars, textVars, controlVars>>
     \/ /\ subject = "console" /\ ConsoleNext
        /\ UNCHANGED <<busVars, signalVars, clockVars, textVars, controlVars>>
     \/ /\ subject = "text" /\ TextNext
        /\ UNCHANGED <<busVars, signalVars, clockVars, consoleVars, controlVars>>
     \/ /\ subject = "controls" /\ ControlNext
        /\ UNCHANGED <<busVars, signalVars, clockVars, consoleVars, textVars>>

DeviceSpec == DeviceInit /\ [][DeviceNext]_deviceVars /\ BusFairness

(* Every driver's state keeps its type, and every thread's place in its    *)
(* call.                                                                   *)
DeviceTypeOK ==
  /\ BusTypeOK /\ SignalTypeOK /\ ClockTypeOK /\ ConsoleTypeOK /\ TextTypeOK
  /\ ControlTypeOK

(* The status is true, on the bus, the pins, the timers and the host: a    *)
(* driver that says it runs is ready to, and one that answers an error has *)
(* left a reason (lcd_AMC2004.c, at2560_gpio.c, at2560_timerMonotonic.c,   *)
(* freebsd_timerSched.c).                                                  *)
StatusIsTrue ==
  /\ RunningDisplayIsSetUp /\ RunningPinsAreConfigured
  /\ RunningTimerCounts /\ RunningDriverIsAwake
  /\ FailureHasReason

(* Text goes through the console as it was typed and printed, and is taken *)
(* for what it says (pc_console.c, freebsd_usart.c, scli_date.c).          *)
TextGoesThrough ==
  InputIsTyped /\ OutputIsPrinted /\ TextIsUnderstood
=============================================================================
