------------------------------ MODULE Signals ------------------------------
(***************************************************************************)
(* The GPIO driver (at2560_gpio.c) and the signal calls of sc_gpio.c, with *)
(* threads switched between any two of their steps.  A port register is    *)
(* shared by the signals wired to it, and setting or clearing a bit of it  *)
(* is a load and a store; only the toggle masks interrupts.                *)
(***************************************************************************)
EXTENDS DriverControl

CONSTANTS
  SignalUsers,   \* the threads that make the calls
  SignalNames,   \* gpio_signal_t
  Wiring,        \* targetWireSignal: the pin of each signal
  MaxSignalCalls \* bound: calls made

Modes == {"input", "output"}
Ports == {Wiring[s].port : s \in SignalNames}
Pins  == {Wiring[s].number : s \in SignalNames}

ASSUME SignalAssumption ==
  /\ \A s \in SignalNames : Wiring[s].mode \in Modes /\ Wiring[s].pullUp \in BOOLEAN
  /\ \A s, u \in SignalNames :
       <<Wiring[s].port, Wiring[s].number>> = <<Wiring[u].port, Wiring[u].number>> => s = u
  /\ MaxSignalCalls \in Nat

VARIABLES
  gpio,          \* status, run level and last error, as a table of one driver
  wired,         \* the signals whose entry in signal_table is filled
  ddr,           \* the output bits set in each port's direction register
  port,          \* the bits set in each port's data register
  user,          \* what each thread is doing
  shown,         \* auxiliary: the value last written to each signal
  raced,         \* auxiliary: registers that two threads updated at once
  signalCalls    \* bound: calls made so far

signalVars == <<gpio, wired, ddr, port, user, shown, raced, signalCalls>>

NoUser == [updates |-> <<>>, pins |-> {}, loaded |-> {}, holds |-> FALSE, starts |-> FALSE]

PortRegisters == {"ddr", "port"} \X Ports

SignalTypeOK ==
  /\ gpio \in [{"gpio"} -> DriverRecords]
  /\ wired \subseteq SignalNames
  /\ ddr \in [Ports -> SUBSET Pins]
  /\ port \in [Ports -> SUBSET Pins]
  /\ \A t \in SignalUsers :
       /\ user[t].pins \subseteq SignalNames
       /\ user[t].loaded \subseteq Pins
       /\ {user[t].holds, user[t].starts} \subseteq BOOLEAN
       /\ \A i \in DOMAIN user[t].updates : user[t].updates[i].register \in PortRegisters
  /\ shown \in [SignalNames -> BOOLEAN]
  /\ raced \subseteq PortRegisters
  /\ signalCalls \in 0 .. MaxSignalCalls

SignalInit ==
  /\ gpio = [d \in {"gpio"} |-> ColdDriver]
  /\ wired = {}
  /\ ddr = [p \in Ports |-> {}]
  /\ port = [p \in Ports |-> {}]
  /\ user = [t \in SignalUsers |-> NoUser]
  /\ shown = [s \in SignalNames |-> FALSE]
  /\ raced = {}
  /\ signalCalls = 0

-----------------------------------------------------------------------------
GpioStatus(table) == OwnStatus(table, "gpio")

(* gpioRequireRunning. *)
GpioRequireRunning(table) == RequireRunning(GpioStatus(table), "gpio")

GpioControl(table, c) ==
  Control(table, "gpio", c,
    Initialize(table, "gpio"),
    StartInitialized(table, "gpio", "NO_ERROR"),
    GpioStatus(ClearStart(table, "gpio")),
    GpioStatus(Store(table, "gpio", c)))

(* TM_SETBIT or TM_CLEARBIT on a register of a port. *)
Update(register, p, number, on) ==
  [register |-> <<register, p>>, number |-> number, on |-> on]

Output(s) == Wiring[s].mode = "output"

(* gpioPinInit. *)
PinInit(s) ==
  <<Update("ddr", Wiring[s].port, Wiring[s].number, Output(s))>> \o
  IF Wiring[s].pullUp THEN <<Update("port", Wiring[s].port, Wiring[s].number, TRUE)>>
  ELSE <<>>

(* gpioPinWrite. *)
PinWrite(s, value) == <<Update("port", Wiring[s].port, Wiring[s].number, value)>>

Contents(register) == IF register[1] = "ddr" THEN ddr[register[2]] ELSE port[register[2]]

(* Mutated form: the new bit replaces the register's contents. *)
UpdatedAlone(bits, update) == IF update.on THEN {update.number} ELSE {}

Updated(bits, update) ==
  IF update.on THEN bits \cup {update.number} ELSE bits \ {update.number}

SetRegister(register, bits) ==
  /\ ddr'  = IF register[1] = "ddr" THEN [ddr EXCEPT ![register[2]] = bits] ELSE ddr
  /\ port' = IF register[1] = "port" THEN [port EXCEPT ![register[2]] = bits] ELSE port

(* Another thread has loaded a register that is stored to now. *)
Races(t, register) ==
  {register : u \in {v \in SignalUsers \ {t} :
     user[v].holds /\ Head(user[v].updates).register = register}}

CountSignalCall == signalCalls < MaxSignalCalls /\ signalCalls' = signalCalls + 1

IdleUser(t) == user[t] = NoUser

(* A control call.  hal_gpioStart goes on to configure the pins one by one *)
(* before it sets the status bit.                                          *)
GpioCommand(t, c) ==
  /\ IdleUser(t)
  /\ CountSignalCall
  /\ LET reply == GpioControl(gpio, c)
         starts == c.op = "START" /\ reply.state = "running"
     IN  /\ gpio' = IF starts THEN gpio ELSE reply.table
         /\ wired' = IF c.op = "INIT" /\ reply.state = "initialized" THEN SignalNames ELSE wired
         /\ user' = IF starts
                    THEN [user EXCEPT ![t].pins = SignalNames, ![t].starts = TRUE]
                    ELSE user
  /\ UNCHANGED <<ddr, port, shown, raced>>

(* sc_gpio_signalSet: nothing happens unless the driver runs. *)
SignalSet(t, s, value) ==
  /\ IdleUser(t)
  /\ CountSignalCall
  /\ LET reply == GpioRequireRunning(gpio)
     IN  /\ gpio' = reply.table
         /\ IF reply.state = "running"
            THEN user' = [user EXCEPT ![t].updates = PinWrite(s, value)]
            ELSE UNCHANGED user
  /\ UNCHANGED <<wired, ddr, port, shown, raced>>

LoadRegister(t) ==
  /\ user[t].updates # <<>> /\ ~user[t].holds
  /\ user' = [user EXCEPT ![t].holds = TRUE,
                          ![t].loaded = Contents(Head(user[t].updates).register)]
  /\ UNCHANGED <<gpio, wired, ddr, port, shown, raced, signalCalls>>

(* What a bit of a data register is the value of. *)
ShownAfter(update) ==
  [s \in SignalNames |->
     IF update.register = <<"port", Wiring[s].port>> /\ update.number = Wiring[s].number
     THEN update.on ELSE shown[s]]

StoreRegister(t) ==
  /\ user[t].holds
  /\ LET update == Head(user[t].updates)
     IN  /\ SetRegister(update.register, Updated(user[t].loaded, update))
         /\ shown' = ShownAfter(update)
         /\ raced' = raced \cup Races(t, update.register)
         /\ user' = [user EXCEPT ![t].updates = Tail(@), ![t].holds = FALSE,
                                 ![t].loaded = {}]
  /\ UNCHANGED <<gpio, wired, signalCalls>>

(* The start's loop over the signal table, in a fixed order.               *)
NextPin(t) ==
  /\ user[t].updates = <<>> /\ user[t].pins # {}
  /\ LET s == CHOOSE s \in user[t].pins : TRUE
     IN  user' = [user EXCEPT ![t].updates = PinInit(s), ![t].pins = @ \ {s}]
  /\ UNCHANGED <<gpio, wired, ddr, port, shown, raced, signalCalls>>

FinishStart(t) ==
  /\ user[t].starts /\ user[t].updates = <<>> /\ user[t].pins = {}
  /\ gpio' = GpioControl(gpio, Plain("START")).table
  /\ user' = [user EXCEPT ![t] = NoUser]
  /\ UNCHANGED <<wired, ddr, port, shown, raced, signalCalls>>

(* hal_gpioSignalRead of an output signal; an input pin shows the world.   *)
PinRead(s) == IF Output(s) THEN {Wiring[s].number \in port[Wiring[s].port]} ELSE BOOLEAN

(* sc_gpio_signalToggle, masked: read, write the opposite. *)
SignalToggle(t, s) ==
  /\ IdleUser(t)
  /\ CountSignalCall
  /\ LET reply == GpioRequireRunning(gpio)
         register == <<"port", Wiring[s].port>>
     IN  /\ gpio' = reply.table
         /\ IF reply.state = "running"
            THEN \E value \in PinRead(s) :
                   /\ SetRegister(register,
                        Updated(Contents(register), Head(PinWrite(s, ~value))))
                   /\ shown' = IF Output(s) THEN [shown EXCEPT ![s] = ~@]
                               ELSE [shown EXCEPT ![s] = ~value]
                   /\ raced' = raced \cup Races(t, register)
            ELSE UNCHANGED <<ddr, port, shown, raced>>
  /\ UNCHANGED <<wired, user>>

SignalNext ==
  \E t \in SignalUsers :
    \/ \E op \in LifeOps : GpioCommand(t, Plain(op))
    \/ \E s \in SignalNames : SignalToggle(t, s) \/ \E v \in BOOLEAN : SignalSet(t, s, v)
    \/ LoadRegister(t) \/ StoreRegister(t) \/ NextPin(t) \/ FinishStart(t)

SignalSpec == SignalInit /\ [][SignalNext]_signalVars

-----------------------------------------------------------------------------
(* A signal keeps the value last written to it, through the writes to the  *)
(* other signals of its port, the toggles and the driver's restarts, as    *)
(* long as no thread stores to the port between another's load and store   *)
(* (TM_SETBIT on a port, at2560_gpio.c).                                   *)
SignalsAreKept ==
  \A s \in SignalNames :
    <<"port", Wiring[s].port>> \notin raced
      => shown[s] = (Wiring[s].number \in port[Wiring[s].port])

(* When the driver says that it runs, every pin has its direction, whoever *)
(* starts and stops it meanwhile (hal_gpioStart).                          *)
RunningPinsAreConfigured ==
  {"init", "start"} \subseteq gpio["gpio"].bits =>
    \A s \in SignalNames : <<"ddr", Wiring[s].port>> \notin raced =>
      /\ s \in wired
      /\ Output(s) <=> Wiring[s].number \in ddr[Wiring[s].port]
=============================================================================
