-------------------------- MODULE BusTransactions --------------------------
(***************************************************************************)
(* The LCD and RTC system calls, the date service and the driver commands  *)
(* of several threads over one I2C bus (at2560_i2c.c, lcd_AMC2004.c,       *)
(* rtc_ZS042.c, sc_driver.c, scli_date.c).  The bus has no lock: the       *)
(* scheduler may switch between any two bus operations, and between the    *)
(* status check and the transfer of one.  A device may fail to answer, and *)
(* the time passes.                                                        *)
(***************************************************************************)
EXTENDS BusDevices

CONSTANTS
  Tasks,        \* the threads that make the calls
  BusCalls,     \* the calls each of them makes
  ClockStarts,  \* the times the clock chip may show at first
  MaxCalls,     \* bound: calls made
  MaxTrouble    \* bound: faults, passing hours and overlapping calls

BusDrivers == {"i2c", "lcd", "rtc"}

ASSUME BusAssumption ==
  /\ MaxCalls \in Nat /\ MaxTrouble \in Nat
  /\ \A time \in ClockStarts : time \in [Fields -> Nat] /\ InRange(time)
  /\ \A t \in Tasks : \A call \in BusCalls[t] : Callable(call)

VARIABLES
  drv,       \* status, run level and last error of the three drivers
  bus,       \* the device addressed, if any, and the direction
  panel,     \* the display
  clock,     \* the clock chip
  buf,       \* buf of rtc_ZS042.c, shared by its callers
  startup,   \* rtc_startup_time
  task,      \* what each thread is doing
  past,      \* auxiliary: whether calls have overlapped, and bus stops among them
  calls,     \* bound: calls made so far
  trouble    \* bound: what went wrong so far

chips   == <<bus, panel, clock>>
busVars == <<drv, bus, panel, clock, buf, startup, task, past, calls, trouble>>

FreeBus == [device |-> "none", direction |-> "W"]

(* alone, hit, seen are auxiliary: no other call overlapped this one, a    *)
(* bus operation of it failed, and the times the clock showed during it.   *)
IdleTask ==
  [busy |-> FALSE, call |-> [name |-> "none"], todo |-> <<>>, ready |-> FALSE,
   failed |-> "none", kept |-> "NO_ERROR", error |-> "NO_ERROR",
   time |-> [i \in Fields |-> 0], alone |-> TRUE, hit |-> FALSE, seen |-> {}]

BusTypeOK ==
  /\ drv \in [BusDrivers -> DriverRecords]
  /\ bus \in [device : {"none", "lcd", "rtc"}, direction : {"R", "W"}]
  /\ panel.expect \in {"control", "command", "data"}
  /\ clock.expect \in {"pointer", "data"} /\ clock.pointer \in 1 .. Beyond
  /\ {buf, clock.registers, clock.latch} \subseteq [Fields -> 0 .. 255]
  /\ startup \in [Fields -> 0 .. 255]
  /\ \A t \in Tasks :
       /\ DOMAIN task[t] = DOMAIN IdleTask
       /\ task[t].failed \in {"none", "error", "dead"}
       /\ {task[t].kept, task[t].error} \subseteq DriverErrors
       /\ task[t].time \in [Fields -> 0 .. 255]
  /\ past \subseteq {"overlap", "cut"}
  /\ calls \in 0 .. MaxCalls
  /\ trouble \in 0 .. MaxTrouble

RunningDriver == [ColdDriver EXCEPT !.bits = {"init", "start"}]

(* After the startup: the drivers run, or the devices' drivers are off.    *)
BusInit ==
  /\ \E client \in {RunningDriver, ColdDriver} :
       /\ drv = [d \in BusDrivers |-> IF d = "i2c" THEN RunningDriver ELSE client]
       /\ panel = IF client = RunningDriver THEN ReadyPanel ELSE BlankPanel
  /\ bus = FreeBus
  /\ \E time \in ClockStarts : clock = Clock(Encode(time))
  /\ buf = [i \in Fields |-> 0]
  /\ startup = [i \in Fields |-> 0]
  /\ task = [t \in Tasks |-> IdleTask]
  /\ past = {}
  /\ calls = 0
  /\ trouble = 0

-----------------------------------------------------------------------------
(* The control calls of the three drivers. *)
I2cControl(table, c) ==
  Control(table, "i2c", c,
    Initialize(table, "i2c"),
    StartInitialized(table, "i2c", "NO_ERROR"),
    OwnStatus(ClearStart(table, "i2c"), "i2c"),
    OwnStatus(Store(table, "i2c", c), "i2c"))

I2cRequireRunning(table) == RequireRunning(OwnStatus(table, "i2c"), "i2c")

DeviceStatus(table, d) == BusStatus(table, d, "i2c")

DeviceRequireRunning(table, d) == RequireRunning(DeviceStatus(table, d), d)

(* What hal_lcdInit and hal_rtcInit need: a driver that is not dead, and   *)
(* the bus.                                                                *)
OverBus(table, d) ==
  IF "dead" \in table[d].bits THEN SetError(table, d, "DEAD")
  ELSE LET asked == OwnStatus(table, "i2c")
       IN  IF asked.state = "running" THEN Reply(asked.table, "off")
           ELSE SetError(asked.table, d, "DEPENDENCY")

RtcControl(table, c) ==
  Control(table, "rtc", c,
    LET ready == OverBus(table, "rtc")
    IN  IF ready.state = "error" THEN ready ELSE Initialize(ready.table, "rtc"),
    StartInitialized(table, "rtc", table["rtc"].error),
    DeviceStatus(ClearStart(table, "rtc"), "rtc"),
    DeviceStatus(Store(table, "rtc", c), "rtc"))

(* The display's driver goes on to send commands; their steps end with the *)
(* one that sets the status bit.                                           *)
LcdControl(table, c) ==
  Control(table, "lcd", c,
    OverBus(table, "lcd"),
    LET started == StartInitialized(table, "lcd", table["lcd"].error)
    IN  IF started.state = "error" THEN started ELSE Reply(table, "initialized"),
    DeviceStatus(ClearStart(table, "lcd"), "lcd"),
    DeviceStatus(Store(table, "lcd", c), "lcd"))

ControlOf(d, table, c) ==
  CASE d = "i2c" -> I2cControl(table, c)
    [] d = "lcd" -> LcdControl(table, c)
    [] d = "rtc" -> RtcControl(table, c)

(* hal_lcdInit ends without an error, hal_lcdStart leaves the last one.    *)
CommitBit(table, d, bit) ==
  LET set == WithBits(table, d, table[d].bits \cup {bit})
  IN  IF bit = "init" THEN LastError(set, d, "NO_ERROR") ELSE set

-----------------------------------------------------------------------------
Busy  == {t \in Tasks : task[t].busy}
Doing(t) == Head(task[t].todo)
Step(t)  == Head(Doing(t).steps)

(* The thread's next step is at hand: it is not about to ask what failed.  *)
AtStep(t, ops) == task[t].busy /\ task[t].failed = "none" /\ Step(t).do \in ops

Finished(w, error) ==
  [IdleTask EXCEPT !.error = IF w.kept = "NO_ERROR" THEN error ELSE w.kept,
                   !.time = w.time]

(* Past a driver function, whatever is left of it. *)
PastFunction(w) ==
  IF Len(w.todo) = 1 THEN Finished(w, "NO_ERROR")
  ELSE [w EXCEPT !.todo = Tail(@), !.failed = "none"]

PastStep(w) ==
  IF Len(Head(w.todo).steps) = 1 THEN PastFunction([w EXCEPT !.ready = FALSE])
  ELSE [w EXCEPT !.todo[1].steps = Tail(@), !.ready = FALSE]

Failed(w, state) == [w EXCEPT !.failed = state, !.ready = FALSE]

(* A driver function that fails for its bus operation blames the bus.      *)
BlameBus(w, table) == LastError(table, Head(w.todo).driver, "DEPENDENCY")

(* Mutated form: every state but running counts as a failure. *)
AfterUnlessRunning(w, reply) ==
  IF reply.state = "running" THEN PastStep(w) ELSE Failed(w, reply.state)

(* Where a thread goes after a step with this reply.  sc_driverGetInfo     *)
(* takes a dead driver's answers, and returns false, which stands here as  *)
(* an error code of its own, without asking what failed.                   *)
After(w, reply) ==
  CASE Head(w.todo).kind = "info" /\ reply.state = "error" -> Finished(w, "INVALID_STATE")
    [] Head(w.todo).kind # "info" /\ reply.state \in {"error", "dead"} ->
         Failed(w, reply.state)
    [] OTHER -> PastStep(w)

Begin(t, call) ==
  /\ t \notin Busy
  /\ calls < MaxCalls /\ calls' = calls + 1
  /\ Busy = {} \/ trouble < MaxTrouble
  /\ trouble' = IF Busy = {} THEN trouble ELSE trouble + 1
  /\ past' = IF Busy = {} THEN past ELSE past \cup {"overlap"}
  /\ task' = [u \in Tasks |->
       IF u = t
       THEN [IdleTask EXCEPT !.busy = TRUE, !.call = call, !.todo = Script(call),
               !.alone = (Busy = {}), !.seen = {clock.registers},
               !.time = IF call.name = "rtcWrite" THEN call.time ELSE @]
       ELSE IF u \in Busy THEN [task[u] EXCEPT !.alone = FALSE] ELSE task[u]]
  /\ UNCHANGED <<drv, chips, buf, startup>>

(* The local part of a call, and control calls.  Stopping the bus driver   *)
(* cuts off the transaction of whoever has one.                            *)
Compute(t) ==
  /\ AtStep(t, {"require", "refuse", "command", "commit"})
  /\ LET step  == Step(t)
         d     == Doing(t).driver
         reply == CASE step.do = "require" -> DeviceRequireRunning(drv, d)
                    [] step.do = "refuse"  -> SetError(drv, d, step.error)
                    [] step.do = "command" -> ControlOf(d, drv, step.control)
                    [] step.do = "commit"  -> Reply(CommitBit(drv, d, step.bit), "running")
     IN  /\ drv' = reply.table
         /\ task' = [task EXCEPT ![t] = After(@, reply)]
         /\ IF d = "i2c" /\ step.do = "command" /\ step.control.op = "STOP"
            THEN /\ bus' = FreeBus
                 /\ past' = IF Busy = {t} THEN past ELSE past \cup {"cut"}
            ELSE UNCHANGED <<bus, past>>
  /\ UNCHANGED <<panel, clock, buf, startup, calls, trouble>>

(* hal_rtcWrite checks the time before it encodes it. *)
EncodeTime(t) ==
  /\ AtStep(t, {"encode"})
  /\ IF InRange(task[t].time)
     THEN /\ buf' = Encode(task[t].time)
          /\ task' = [task EXCEPT ![t] = PastStep(@)]
          /\ UNCHANGED drv
     ELSE /\ drv' = LastError(drv, "rtc", "OUT_OF_RANGE")
          /\ task' = [task EXCEPT ![t] = Failed(@, "error")]
          /\ UNCHANGED buf
  /\ UNCHANGED <<chips, startup, past, calls, trouble>>

DecodeTime(t) ==
  /\ AtStep(t, {"decode"})
  /\ task' = [task EXCEPT ![t] = PastStep([@ EXCEPT !.time = Decode(buf)])]
  /\ UNCHANGED <<drv, chips, buf, startup, past, calls, trouble>>

EditTime(t) ==
  /\ AtStep(t, {"edit"})
  /\ LET edited == [task[t].time EXCEPT ![Step(t).field] = Step(t).value]
     IN  task' = [task EXCEPT ![t] = PastStep([@ EXCEPT !.time = edited])]
  /\ UNCHANGED <<drv, chips, buf, startup, past, calls, trouble>>

KeepStartupTime(t) ==
  /\ AtStep(t, {"keep"})
  /\ startup' = task[t].time
  /\ task' = [task EXCEPT ![t] = PastStep(@)]
  /\ UNCHANGED <<drv, chips, buf, past, calls, trouble>>

-----------------------------------------------------------------------------
(* i2cRequireRunning, before each bus operation. *)
CheckBus(t) ==
  /\ AtStep(t, BusOps)
  /\ ~task[t].ready
  /\ LET asked == I2cRequireRunning(drv)
     IN  IF asked.state = "error"
         THEN /\ drv' = BlameBus(task[t], asked.table)
              /\ task' = [task EXCEPT ![t] = Failed(@, "error")]
         ELSE /\ drv' = asked.table
              /\ task' = [task EXCEPT ![t].ready = TRUE]
  /\ UNCHANGED <<chips, buf, startup, past, calls, trouble>>

(* The byte another thread has put into the data register of the bus.      *)
ByteOf(t) == IF Step(t).do = "put" THEN buf[Step(t).index] ELSE Step(t).byte

BytesOnTheirWay(t) ==
  {ByteOf(t)} \cup
  {ByteOf(u) : u \in {v \in Tasks \ {t} : AtStep(v, {"write", "put"}) /\ task[v].ready}}

Address(t) ==
  /\ Step(t).do = "start"
  /\ bus' = [device |-> Step(t).device, direction |-> Step(t).direction]
  /\ panel' = IF Step(t).device = "lcd" THEN [panel EXCEPT !.expect = "control"] ELSE panel
  /\ clock' = CASE bus' = [device |-> "rtc", direction |-> "W"] ->
                     [clock EXCEPT !.expect = "pointer"]
                [] bus' = [device |-> "rtc", direction |-> "R"] ->
                     [clock EXCEPT !.latch = clock.registers]
                [] OTHER -> clock
  /\ UNCHANGED buf

SendByte(t) ==
  /\ Step(t).do \in {"write", "put"}
  /\ bus.device # "none" /\ bus.direction = "W"
  /\ \E b \in BytesOnTheirWay(t) :
       IF bus.device = "lcd"
       THEN panel' = PanelReceives(panel, b) /\ UNCHANGED clock
       ELSE clock' = ClockReceives(clock, b) /\ UNCHANGED panel
  /\ UNCHANGED <<bus, buf>>

ReceiveByte(t) ==
  /\ Step(t).do = "get"
  /\ bus = [device |-> "rtc", direction |-> "R"]
  /\ buf' = [buf EXCEPT ![Step(t).index] =
               IF clock.pointer \in Fields THEN clock.latch[clock.pointer] ELSE 0]
  /\ clock' = [clock EXCEPT !.pointer = IF @ \in Fields THEN @ + 1 ELSE @]
  /\ UNCHANGED <<bus, panel>>

Release(t) ==
  /\ Step(t).do = "stop"
  /\ bus' = FreeBus
  /\ UNCHANGED <<panel, clock, buf>>

(* The hardware does the operation.  A byte operation on a bus nobody has  *)
(* addressed is never acknowledged: the driver waits in its busy loop.     *)
Transfer(t) ==
  /\ AtStep(t, BusOps)
  /\ task[t].ready
  /\ Address(t) \/ SendByte(t) \/ ReceiveByte(t) \/ Release(t)
  /\ task' = [task EXCEPT ![t] = PastStep(@)]
  /\ UNCHANGED <<drv, startup, past, calls, trouble>>

OperationError(t) ==
  CASE Step(t).do = "start" -> "ADDRESS_NACK"
    [] Step(t).do = "get"   -> "READ_FAILED"
    [] OTHER                -> "WRITE_FAILED"

(* Mutated form: the bus is not released after a failed operation. *)
GiveUpHolding(t) ==
  /\ drv' = BlameBus(task[t], LastError(drv, "i2c", OperationError(t)))
  /\ task' = [task EXCEPT ![t] = Failed([@ EXCEPT !.hit = TRUE], "error")]
  /\ UNCHANGED bus

GiveUp(t) ==
  /\ drv' = BlameBus(task[t], LastError(drv, "i2c", OperationError(t)))
  /\ task' = [task EXCEPT ![t] = Failed([@ EXCEPT !.hit = TRUE], "error")]
  /\ bus' = FreeBus

(* No answer, or one that does not fit: the driver ends the transaction.   *)
(* With other calls under way the status may be that of their operations.  *)
Fault(t) ==
  /\ AtStep(t, BusOps \ {"stop"})
  /\ task[t].ready
  /\ Step(t).do = "start" \/ bus.device # "none"
  /\ IF task[t].alone THEN trouble < MaxTrouble /\ trouble' = trouble + 1
     ELSE UNCHANGED trouble
  /\ GiveUp(t)
  /\ UNCHANGED <<panel, clock, buf, startup, past, calls>>

-----------------------------------------------------------------------------
(* Mutated form: the write error is forgotten behind the end of the text.  *)
AfterErrorForgetting(w, error) ==
  CASE error = "NO_ERROR" -> PastFunction(w)
    [] OTHER -> IF Head(w.todo).kind = "text"
                THEN [w EXCEPT !.todo = <<LcdWriteEnd>>, !.failed = "none"]
                ELSE Finished(w, error)

(* What the caller makes of the error it has asked for.  No error means    *)
(* that another thread has cleared it: the call goes on as if it had       *)
(* succeeded, only a command falls back to the state it was given.         *)
AfterError(w, error) ==
  CASE Head(w.todo).kind = "command" /\ error = "NO_ERROR" ->
         Finished(w, IF w.failed = "dead" THEN "DEAD" ELSE "INVALID_STATE")
    [] Head(w.todo).kind = "text" /\ error # "NO_ERROR" ->
         [w EXCEPT !.todo = <<LcdWriteEnd>>, !.failed = "none", !.kept = error]
    [] Head(w.todo).kind \in {"call", "text"} /\ error = "NO_ERROR" -> PastFunction(w)
    [] OTHER -> Finished(w, error)

(* What a reading that has not come to decode leaves in the local variable *)
(* it was called with: whatever was there, of which a caller it is told    *)
(* was successful makes use.                                               *)
Uninitialized(w) ==
  IF FromRegisters \in Range(Head(w.todo).steps) THEN ClockStarts \cup {[i \in Fields |-> 0]}
  ELSE {w.time}

(* sc_driverError and the end of sc_driverControl.  The error is taken     *)
(* before the status is, which may set another one.                        *)
SnapshotError(t) ==
  /\ task[t].busy /\ task[t].failed # "none"
  /\ LET d     == Doing(t).driver
         error == drv[d].error
     IN  /\ drv' = ControlOf(d, drv, With("GETLASTERROR", 0)).table
         /\ IF error # "NO_ERROR" THEN task' = [task EXCEPT ![t] = AfterError(@, error)]
            ELSE \E time \in Uninitialized(task[t]) :
                   task' = [task EXCEPT ![t] = AfterError([@ EXCEPT !.time = time], error)]
  /\ UNCHANGED <<chips, buf, startup, past, calls, trouble>>

-----------------------------------------------------------------------------
(* An hour passes; the chip does not count while it is being written.      *)
HourLater(time) ==
  [i \in Fields |->
     CASE Registers[i] = "hours" -> (time[i] + 1) % 24
       [] Registers[i] = "day" /\ \E h \in Fields : Registers[h] = "hours" /\ time[h] = 23
            -> (time[i] % 31) + 1
       [] OTHER -> time[i]]

PassHour ==
  /\ trouble < MaxTrouble /\ trouble' = trouble + 1
  /\ bus # [device |-> "rtc", direction |-> "W"]
  /\ InRange(Decode(clock.registers))
  /\ clock' = [clock EXCEPT !.registers = Encode(HourLater(Decode(@)))]
  /\ task' = [t \in Tasks |-> [task[t] EXCEPT !.seen = @ \cup {clock'.registers}]]
  /\ UNCHANGED <<drv, bus, panel, buf, startup, past, calls>>

(* sc_i2cScan marks a device dead that is missing, and sets a dead one off *)
(* that is back.  What it does on the bus is I2cDiscovery's subject; here  *)
(* it runs while no other call does.                                       *)
SetOff(d, table) ==
  LET without(before, bit) == ControlOf(d, before, With("CLEARBIT", bit)).table
  IN  without(without(without(without(table, "start"), "init"), "error"), "dead")

Scan(d) ==
  /\ Busy = {} /\ calls < MaxCalls /\ calls' = calls + 1
  /\ trouble < MaxTrouble /\ trouble' = trouble + 1
  /\ I2cRequireRunning(drv).state = "running"
  /\ drv' = IF "dead" \in drv[d].bits
            THEN SetOff(d, drv)
            ELSE ControlOf(d, drv, With("SETBIT", "dead")).table
  /\ UNCHANGED <<chips, buf, startup, task, past>>

CallStep(t) ==
  \/ Compute(t) \/ EncodeTime(t) \/ DecodeTime(t) \/ EditTime(t) \/ KeepStartupTime(t)
  \/ CheckBus(t) \/ Transfer(t) \/ Fault(t) \/ SnapshotError(t)

BusNext ==
  \/ \E t \in Tasks : \E call \in BusCalls[t] : Begin(t, call)
  \/ \E t \in Tasks : CallStep(t)
  \/ PassHour
  \/ \E d \in {"lcd", "rtc"} : Scan(d)

(* The CPU is given to threads that have something to do. *)
BusFairness == WF_busVars(\E t \in Tasks : CallStep(t))

BusSpec == BusInit /\ [][BusNext]_busVars /\ BusFairness

-----------------------------------------------------------------------------
(* A call of t ends in this step; no other one overlapped it.              *)
Returns(t, names) ==
  task[t].busy /\ ~task'[t].busy /\ task[t].call.name \in names

Succeeds(t, names) == Returns(t, names) /\ task[t].alone /\ task'[t].error = "NO_ERROR"

(* A time read is one the clock showed at some moment of the call, never a *)
(* mixture of two, and so is what is kept as the startup time, whatever    *)
(* calls and failures came before (hal_rtcRead).  Only overlapping calls   *)
(* can leave bytes in the clock that are no time, and are read as one.     *)
WasShown(t, time) ==
  \E bytes \in task[t].seen :
    time = Decode(bytes) /\ ("overlap" \notin past => bytes = Encode(time))

ReadsOneMoment(t) ==
  /\ Succeeds(t, {"rtcRead"}) => WasShown(t, task'[t].time)
  /\ Succeeds(t, {"rtcSaveStartupTime"}) => WasShown(t, startup')

(* Setting the time or the date leaves the clock at a time it has shown    *)
(* but for the edited field, and writing at the time written.              *)
WritesWholeTime(t) ==
  /\ Succeeds(t, {"rtcWrite"}) => Decode(clock.registers) \in
       {task[t].call.time, HourLater(task[t].call.time)}
  /\ Succeeds(t, {"dateSet"}) /\ Cardinality(task[t].seen) = 1 =>
       \A seen \in task[t].seen : Decode(clock.registers) =
         [Decode(seen) EXCEPT ![task[t].call.field] = task[t].call.value]

(* A text reported as written stands on the display from its row and       *)
(* column on (sc_lcdWriteString).                                          *)
TextIsShown(t) ==
  Succeeds(t, {"lcdWriteString"}) =>
    LET call == task[t].call
        at   == <<0, 64, 20, 84>>[call.row + 1] + call.col - 1
    IN  \A i \in DOMAIN call.text :
          at + i \in DOMAIN panel'.cells /\ panel'.cells[at + i] = call.text[i]

ReturnsAlone(t) ==
  Returns(t, {call.name : call \in BusCalls[t]}) /\ task[t].alone

(* A bus operation that failed is reported as such, whatever the driver    *)
(* does after it: "Preserve the write error across finalization"           *)
(* (sc_driver.c).                                                          *)
FailureIsReported(t) ==
  ReturnsAlone(t) /\ task[t].hit => task'[t].error = "DEPENDENCY"

Legal(bytes) ==
  \A i \in Fields :
    Decode(bytes)[i] \in MinOf[Registers[i]] .. MaxOf[Registers[i]]

(* What the clock keeps is a time the driver accepts: no failed write and  *)
(* no value outside its field's range gets there.  Like the driver, it     *)
(* does not ask whether the month has such a day.                          *)
ClockStaysLegal(t) ==
  ReturnsAlone(t) /\ (\A seen \in task[t].seen : Legal(seen)) => Legal(clock'.registers)

(* What a call reports is what it did to the devices, and what it read is  *)
(* what they showed.                                                       *)
BusResultsAreTrue ==
  [][\A t \in Tasks :
       /\ ReadsOneMoment(t) /\ WritesWholeTime(t) /\ ClockStaysLegal(t)
       /\ TextIsShown(t) /\ FailureIsReported(t)]_busVars

(* When no call is under way the bus is free, whatever failed and whoever  *)
(* overlapped, unless the bus driver was stopped during a transaction.     *)
QuietBusIsFree ==
  Busy = {} /\ "cut" \notin past => bus = FreeBus

(* A display driver that runs has set up its display. *)
RunningDisplayIsSetUp ==
  {"init", "start"} \subseteq drv["lcd"].bits /\ "overlap" \notin past
    => {SETUP, DISPLAYMODE, ENTRYMODE} \subseteq panel.setup

Undisturbed == \E t \in Tasks : task[t].busy /\ task[t].alone

(* A call that no other one overlaps returns: the error paths too leave    *)
(* the bus addressed before each byte they wait for (at2560_i2c.c).        *)
BusCallsReturn == Undisturbed ~> ~Undisturbed

Numbered == <<"i2c", "lcd", "rtc">>

Table == INSTANCE DriverTable WITH
  DriverCount <- 3, DriverLevel <- [d \in 0 .. 2 |-> 2], BusDriver <- 0,
  NoAddress <- 255, DriverAddress <- [d \in 0 .. 2 |-> <<255, 60, 104>>[d + 1]],
  Chatty <- {1}

BitsOf(records) ==
  [d \in 0 .. 2 |-> [init  |-> "init" \in records[Numbered[d + 1]].bits,
                     start |-> "start" \in records[Numbered[d + 1]].bits,
                     dead  |-> "dead" \in records[Numbered[d + 1]].bits]]

(* The status bits follow the state machine the startup relies on, with    *)
(* the display's initialization and start taken step by step.              *)
ImplementsDriverTable ==
  [][Busy # {} /\ (\A t \in Busy : task[t].alone) =>
       \/ BitsOf(drv') = BitsOf(drv)
       \/ \E d \in 0 .. 2, answers \in BOOLEAN :
            BitsOf(drv') \in {Table!InitControl(BitsOf(drv), d, answers),
                              Table!StartControl(BitsOf(drv), d, answers),
                              Table!StopControl(BitsOf(drv), d)}]_busVars
=============================================================================
