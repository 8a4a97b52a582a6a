# TaskMate in TLA+

TaskMate is a small preemptive operating system in C for the ATmega2560, with a
FreeBSD host port. Threads, drivers, stacks and tables are static, written by
the `autoCode` generator from a target's `*_init.rc`. One timer interrupt runs a
round-robin scheduler; thread zero (`system`) brings the machine up one run
level at a time and halts it if that does not succeed. This directory models
that behaviour, model-checks it with TLC and proves parts of it with TLAPS.
Paths below are relative to `srcs/`.

## 1. Inventory

| Part | State | Operations | Interacts with |
|---|---|---|---|
| thread table (`system/sysCore/sys_threads.c`) | current id; per thread: run level, saved run level, status bits, software time counter (STC), saved context, stack with two canary words | start, stop, set initialized, set/test yielded, tick STC, readiness of a level, stack depth | scheduler interrupt and thread system calls share it |
| scheduler (`system/sysCore/sys_scheduler.c`) | run level in force, tick count | init, start, set level, round robin (interrupt), cooperative trigger | thread table, context timer |
| thread system calls (`system/sysCall/sc_threads.c`) | none of its own | masked sections around the thread table; `sc_coopYield` polls outside of one | all threads |
| context timer (`hal/mcu/atmega2560/at2560_timerContext.*`) | status bits, compare interrupt enable, compare flag | init, start, stop, load, interrupt | calls the scheduler; the driver table exposes it to driver commands |
| system service (`system/services/system.c`) | level being raised, incomplete rounds | start drivers of a level, discover, yield, check, admit or halt; then a delay loop | everything above |
| driver calls (`system/sysCall/sc_driver.c`) | addresses of the last scan, startup time | start a level's drivers, readiness of a level, init/start/stop by name, I2C scan, LCD/RTC/USART data | driver control functions |
| I2C bus, LCD, RTC drivers (`at2560_i2c.c`, `lcd_AMC2004.c`, `rtc_ZS042.c`) | status bits, run level, last error; the bus: scan position; the RTC: one transfer buffer | life cycle; transactions of several bus operations | LCD and RTC report an error while the bus is not running |
| USART and console (`at2560_usart.c`, `sc_string.c`) | RX ring (interrupt to thread), TX ring (thread to transmitter), status bits, last error (shared with the interrupt) | interrupt, read, write, flush, init/start/stop | command line, whatever prints |
| command line (`system/services/scli.c`, `commands/`) | one static line buffer | gather, tokenize, dispatch | USART; driver, thread, I2C calls |
| GPIO (`at2560_gpio.c`, `sc_gpio.c`) | status, signal table, direction and data registers shared by signals | init, start, stop, set, toggle, read | threads |
| monotonic timer (`at2560_timerMonotonic.c`, `freebsd_timerMonotonic.c`) | tick count, start time | start, stop, masked read, compare interrupt | stack and status commands |
| host drivers (`freebsd_timerSched.c`, `freebsd_usart.c`, `pc_console.c`) | interval timer; line being edited, submitted line, output buffer | life cycle; keys, reads, prints and flushes | the same interfaces as the board's |
| AVR8 contexts, tmLibc | signal masks, a formatting buffer | | kernel and drivers |
| generator (`autoCode/`) | database, error count, registry of temporary files, the files of the build | options, catalogues, `init.rc`, tagged sources, publication | generates the tables; may be killed or lose a file operation |
| build files, scripts | files | build time | |

What is hard here, and what makes each part correct:

* **Scheduler**: the interrupt falls between any two steps of a thread while
  threads are stopped, started and admitted. Correct if admitted threads wait a
  bounded number of dispatches, a yield returns after exactly a complete turn,
  the selection loop (interrupts masked) always finds a thread, and a damaged
  stack is never switched from or to.
* **Startup**: readiness is read in many small steps, each of which can be
  preempted, and a return from a yield is taken for a complete round. Correct if
  no level is admitted before the lower ones are up, the machine is only given up
  after everybody had the promised rounds, and startup ends.
* **Drivers and discovery**: bits outlive the devices; devices come and go; a scan
  can fail half way or overflow its buffer. Correct if a scan's verdict is about
  one complete pass over the bus and a returning device is initialized again.
* **USART**: an interrupt that fills a ring and overwrites the last error, between any
  two steps of a call that reads it, and that a repeated init switches off. Correct if both
  rings are bounded queues that drop a byte only when full, calls report their own result, and they return.
* **Command line**: input comes in pieces, at any pace, into a line that is never cleared
  and tokenized in place. Correct if exactly the words of a complete line are executed,
  once, and polling goes on.
* **Bus transactions**: LCD and RTC share a bus without a lock; every byte can fail, and the
  release afterwards must not hide it. Correct if a call that reports success did the whole of
  its work, one that failed says so, and each call returns.
* **Status words**: bits in memory that must agree with pins, timers, a display and an
  interrupt. Correct if a driver that says it runs is ready to, and an error has a reason.
* **Shared registers and buffers**: two threads load and store one port, or print into one
  buffer. Correct if nothing is lost as long as two updates do not overlap.
* **Generator**: a run that fails or is killed anywhere meets the files of the build and of
  the next run. Correct if inputs are accepted exactly when valid, nothing is published
  after an error, every file is old or new and never half, and success means all of them.

`PROJECT.json` lists each hazard at its line with the properties aimed at it.

## 2. Modules

| Module | Models |
|---|---|
| `Kernel` | thread table, scheduler, thread system calls, context timer |
| `MCKernel` | thread programs for TLC |
| `KernelProofs` | types, the kernel's safety invariants, bounded waiting and complete turns, proved; the startup implements the kernel and the staged boot, grants its full rounds, keeps its types, proved |
| `RoundRobinTurns` | `Kernel` with a memory of each thread's turn |
| `DriverTable` | the drivers' common state machine, as operators |
| `I2cDiscovery` | `sc_i2cScan` over `hal_i2cScan` |
| `DiscoveryProofs` | types, and the verdict of a fresh scan, proved |
| `StagedBoot` | what startup promises: an abstract specification |
| `SystemStartup` | the system service as thread zero of `Kernel`, implementing `StagedBoot` |
| `ByteQueue` | what a ring promises: an abstract bounded queue |
| `Usart` | USART driver, console and read calls, implementing `ByteQueue` twice |
| `MCUsart` | the smallest rings for TLC |
| `UsartProofs` | both refinements and the results of reads and writes, proved |
| `Scli` | gathering, tokenizer and dispatch over the receive ring's `ByteQueue` |
| `ScliProofs` | the line stays terminated, and commands are typed, proved |
| `DriverControl` | the control call every driver answers, over a table of driver records |
| `DriverCommands` | every control call in any order on USART, context timer and the host's scheduling timer |
| `DriverProofs` | running drivers, pins and timers are what their status says, signals are kept, times are right, the console is faithful and texts are understood, proved |
| `BusDevices` | bus, display and clock chip; the scripts of bus operations of LCD and RTC |
| `BusTransactions` | the LCD, RTC and date calls of two threads over one bus, implementing `DriverTable` |
| `BusProofs` | the bus is freed, the display set up, the driver table implemented; types, status and text of all devices together, proved |
| `ResultProofs` | what the display and clock calls report is true, proved |
| `Signals` | GPIO signals of threads that share port registers |
| `TickClock` | the monotonic timer, of board and host |
| `HostConsole` | the host's USART driver and terminal |
| `CommandText` | what a typed time, date and run level mean |
| `MCDevices` | the device modules for TLC, one subject at a time |
| `GeneratorInputs` | autoCode's configuration, catalogues and `init.rc` files |
| `TagWriters` | the generated fragments |
| `GeneratedFiles` | temporary files and their publication |
| `Generator` | the program: stages, error count, failures, kills, reruns |
| `GeneratorContract` | what the generator promises, said of whole files |
| `GeneratorProofs` | a run with an error changes no file, proved |

`MCRoundRobinTurns`, `MCSystemStartup`, `MCI2cDiscovery`, `MCScli` and `MCGenerator` give the constants
of their modules values.

### Kernel

One CPU, so a step of a thread is a step of `current`. Every system call that
changes kernel state runs with interrupts masked (`hal_atomicStart`), hence one
action: `SetInitialized`, `SetSTC`, `RunLevelSet`, `ThreadStart`, `ThreadStop`,
`CoopYield`. Polling in `sc_coopYield` is unmasked, so it is an action of its own
(`YieldReturn`), and the place of a thread's saved context (`pc`) is its program or
that loop. `TimerCompare` raises the compare flag; `Dispatch`, `HaltOutgoing` and
`SearchForever` are the three outcomes of `tm_schedulerRR`, which runs to its end
with interrupts masked. The selection loop is modelled by its result, the runnable
thread at the smallest `Distance` after the current one, or by the mode
`searching` when there is none: the C loop has no other exit. Driver commands can
reach the context timer through the driver table: `TimerControl`. `HaltCall` is
`sc_halt`. `WildWrite` is
the environment: a program that destroys a canary word.

A thread's program is `MayCall[t]`, the set of calls it makes, in any order.

A call on a timer that is initialized again while RUNNING is modelled as the code
has it: the interrupt is disabled and the status still says RUNNING.

### DriverTable, I2cDiscovery

`DriverTable` has the bits INIT, START and DEAD of each driver. ERROR is only ever
cleared in the code, so it is not represented. A driver with an address derives
"error" from a bus that is not running. The LCD is `Chatty`: its init and start
also send commands, which its device may refuse. `I2cDiscovery` probes one address
per step; devices change between steps (`DeviceChange`); `ScanStartFailed` is the
early return on a refused START condition, which keeps the position.

### SystemStartup and StagedBoot

Thread zero's program (`system.c`) as a sequence of steps, each preemptible:
`sys` is its place, `sysLevel`, `rounds`, `checked`, `item` its local variables.
Drivers are initialized, started and checked one per step, threads one level per
step. The other threads make the calls of `MayCall`, and threads in `MayDrive`
issue driver commands. The scan at core level appears as its result, `Discover`.
`StagedBoot` only knows the admitted level, the threads that acknowledged and the
drivers that are up; `BootIsStaged` is the refinement (`Staged`, a refinement
mapping over `SystemStartup`'s variables).

### ByteQueue and Usart

The rings are the code's: arrays, a head and a tail, one cell always empty. The
receive interrupt (`ReceiveByte`) may fall between any two steps of a call.
`sc_usartRead` is masked from its check to its error snapshot, so success is one action
and a failure two (`UsartRead`, `UsartReadFails`) with the interrupt held off by
`Unmasked`. `sc_consoleWriteByte` is not masked: its attempt (`ConsoleWriteByte`),
the snapshot of the error (`ConsoleWriteFails` or `ConsoleWriteFlush`), each
byte of the flush (`SendByte`), the second attempt (`ConsoleWriteRetry`) and its snapshot
(`ConsoleFails`) are separate. A write itself is one action: the interrupt shares
neither the transmit ring nor its indices, and it stores into the last error after
the write at the latest. `TransmitDone` is the hardware taking the byte to the line. One
thread makes all calls: the formatter requires that prints do not overlap, and only
the command line prints, reads and commands this driver. `UsartControl` is its commands: an
init writes UCSR1B as a whole and so clears the receive interrupt (`rxie`), only a start sets it, and a stop
leaves it alone. A running driver that is initialized again therefore says it runs and receives nothing until the
next start; all bytes of that time but the few the hardware keeps are lost with the ring not full, and no property says otherwise
(`StatusIsTrue` names the case). `puts` counts the bytes
that the write call under way has queued; only a property reads it.

`Rx` and `Tx` are refinement mappings to `ByteQueue`: the ring's content from tail
to head, and for `Tx` the byte in the transmit register before it.

### Scli

`rx` is the receive ring by its promise: `Receive` is `Put` of `ByteQueue`, a read is
`Take`. `ReadByte` is one turn of `scliRead`'s loop, `LineProcess` everything after the
loop in one step, since the rest only works on the service's own line. `Cuts` follows
`scliTokenize`, word by word (`NextCut`, `CutsFrom`), over character classes (letters, space, newline, terminator) and gives
the words as ranges of the line, including those it finds behind the line's own
terminator. Where it looks at the cell behind the array, `Tokens` allows both outcomes.
A command that is a driver command may stop or start the USART, or switch its interrupt off by an init, which
here is a `Receive` that does not come; other commands do not touch this module's state. Reading while the driver is not running fails
and ends the poll.

### DriverControl and DriverCommands

Every `hal_*Control` is the same switch around a driver's own init, start, stop and status
rule. `Control` is that switch, `Refusal` the argument checks, `Stored` what the other
operations store, and a driver passes the replies of its own functions. Functions return the
table of driver records they leave, because the status of the LCD or RTC asks the bus driver,
whose last error that may change. `DriverCommands` adds the interrupt of three drivers:
`awake`. `disturbed` marks the ways in which the code lets the status word and the interrupt
part: bits set by hand, an init while started, and on the host a stop that only an
activation makes good. Life-cycle calls of these drivers are single actions.

### BusDevices and BusTransactions

A system call is a script (`todo`) of bus operations and local work, one per step, so the
other thread may run between any two of them, and (`ready`) between the status check and the transfer of
one operation. `Fault` makes a bus operation fail; the script is then cut to what the driver's
error path still does (`GiveUp`, `AfterError`). The display and the clock chip are external:
what they do with the bytes addressed to them. Two of the seven clock registers stand for all: a mixture
of two times needs two. `past` and each task's `alone`, `hit`, `seen` are auxiliary. A START that fails and an
address that is not acknowledged share one error; the bus driver is never dead.
`Table` is the refinement mapping to `DriverTable`: the state machine `SystemStartup`
and `I2cDiscovery` assume of LCD, RTC and bus is what these drivers implement.

### Signals, TickClock, HostConsole, CommandText

`Signals`: setting a bit of a port is a load and a store (`LoadRegister`, `StoreRegister`);
`raced` records the registers where another thread stored in between, and the properties
excuse those. `NextPin` is one turn of the start's loop over the signal table. The two checks that the driver
runs in `gpioPinWrite` and its caller are one.

`TickClock`: on the board the counter, its compare interrupt and the masked read byte by
byte; on the host, time counted over starts and stops. `passed`, `lost` and `restarts` measure
what the read may miss.

`HostConsole`: keys wait in the terminal, are polled into an edited line, and a submitted line is handed out
byte by byte; printing (`tx_buffer[tx_length++] = data`) is a sequence of steps, `mingled` records that two
of them overlapped. All errors of a read are READ_FAILED there, of a write WRITE_FAILED.

`CommandText`: `dateParse` and the run level of `thread run`, over digits, separators and
others, against what the text says as a whole.

### Generator

A line is the sequence of its tokens, a file a sequence of lines that end in a newline. `proc`
is the memory of the process, `disk` the files, `staged` the temporary files beside them.
`GeneratorInputs` and `TagWriters` are operators: a handler returns what it makes of its state
and how many errors it reports. An action of `Generator` is one listed file, one line of a tagged
source, one fragment, one file to publish, or the end of a stage; `Proceed` is
`autoCodeExit`, which ends the process when the errors reach the maximum of the mode, or at
the end of a stage. Every file operation may fail (`Fault`), the process may be killed
(`Kill`) and leaves its temporary files to the next run; `EditInput` is a user between runs.
Removal of a temporary file at exit is assumed to work, one generator runs at a time, and
generated lines have no length.

## 3. Runs

| Run | Question | Bounds |
|---|---|---|
| `kernel` | do the scheduler's guarantees survive every call, at any point? | 2 threads, 3 levels, STC up to 1, tick period 2 |
| `kernel_progress` | do admitted threads run, do yields return? | 3 threads, 3 levels, tick every interrupt, STC unused |
| `round_robin_turns` | bounded waiting and complete turns | 3 threads on 2 levels, one of them stopping and starting all |
| `startup` | is startup staged, is nobody given up early? | 3 threads on levels core, service, user; 4 drivers; the code's 5 levels and 10 rounds |
| `startup_intruder` | does startup end whatever a core thread does? | 2 threads, 4 levels, 1 driver, 2 rounds |
| `i2c_discovery` | are a scan's verdicts right, does it end? | 3 drivers, 3 addresses, buffer of 2 (overflow happens) |
| `usart` | are both rings queues, do calls report their own result, and return, whatever arrives meanwhile? | rings of 2 cells, 2 received and 2 printed byte values |
| `scli` | what is executed, and does polling go on? | line of 5 cells, at most 2 words, receive queue of 2, one letter, one command that may stop the USART |
| `generator` | which inputs are accepted, and what may a run do to the files of a build? | 2 catalogues, 2 `init.rc` files, 2 tagged sources, with or without GPIO, in both modes; one edit and one fault or kill; every input with one line missing, doubled, exchanged or foreign |
| `devices` | what do calls return, what are the devices left with, do bus calls end? | one device at a time; bus: 2 threads, 2 calls, 1 trouble; signals: 3 on one port, 2 threads, 4 calls; clock: counter of 8 (lower half 2), 9 periods, 4 commands; console: line of 3, output buffer of 2, 4 keys, prints or commands; text: 64 dates and 36 times with one mistyped character; control calls: no bound |
| `i2c_resumed_scan`, `scli_stale_arguments` | disagreements with a comment and a test, section 6 | as above, with a line of 6 cells |

Two threads suffice for the yield flag, the canaries and the selection loop, which
relate one thread to the scheduler; waiting and turns need a third. Level counts are
small because only the comparison with the level in force matters. The tick period is
2 (10 in the code) in `kernel`, so that the wrap is reached, and 1 where counters play no
part. `startup` keeps the real limits. All kernel and startup runs switch the deadlock
check off because the system really can stop (halt, endless search, silenced timer); so does
`devices`, whose calls, keys and periods are bounded in number. A ring of 2 cells holds one byte, so every second
write is the full-ring path with its flush and retry; the proofs cover every size. A line of 5
cells (64) is exceeded by input, holds two words and leaves room for the text of an older line behind a
newer one.

In `generator` the error limit of test mode is 3, so that it is reached. Every single wrong line is
put at every place of every input; faults and edits meet only sound inputs, since an unsound
one never comes to publication. In `devices`, trouble is one fault, one passing hour or one call that overlaps
another: any two of them would only be combinations of what each does alone, at a tenfold
number of states. The subjects share no state with each other, so checking them one at a time loses no behaviour.

Properties, grouped by hazard:

* `YieldedMeansPolling`, `YieldReturns`: the yield handshake.
* `SearchNeedsSystemStopped`: the masked selection loop is endless only after
  somebody stopped the system thread.
* `NoSwitchOnBrokenCanary`: stack damage stops the machine first.
* `AdmittedThreadsRun`, `NoOvertaking`, `CompleteTurn`: progress, bounded waiting,
  and system.c's comment that a return from a yield is a complete turn.
* `GivesUpAfterFullRounds`, `BootIsStaged`, `BootEnds`: startup.
* `FreshScanVerdict`, `ScanEnds`: discovery; a verdict is about one complete pass, and a device that
  came back is initialized again.
* `RxIsQueue`, `TxIsQueue`: the rings keep order, repeat and invent nothing. `RxIsQueue` adds that the receive
  interrupt drops a byte only if the ring holds all it can (`PutUnlessFull`); it does not say that the
  interrupt is on.
* `WriteIsReported`, `ReadReportsOwnError`, `CallsReturn`: results of calls beside the interrupt.
* `LineIsTerminated`: older text never makes the tokenizer's scans leave the line.
* `CommandIsTyped`: nothing is executed that was not received in this very poll, and never two
  lines as one.
* `PollingGoesOn`: input faster than reading ends a poll, and a receive queue that is full gets room again
  unless the USART was stopped by a command.
* `BusResultsAreTrue` (`ReadsOneMoment`, `WritesWholeTime`, `ClockStaysLegal`, `TextIsShown`,
  `FailureIsReported`): a clock read is one moment, a successful write is complete, the clock never holds a value out of
  its field's range (31 February is in range, for the driver as well), text is where it was put, and a failed operation is reported. Overlapping calls can leave in the clock a byte
  that was meant for the display and is the code of no time; a later call that nobody overlaps reads it truly as what the clock
  showed, so only while none ever overlapped is that byte also what writing the time would put there
  (`WasShown`). `QuietBusIsFree`,
  `BusCallsReturn`: nobody leaves the bus addressed, and every call ends. The results
  are promised to a call that no other one overlapped; what is promised to all is that they
  return and report.
* `ImplementsDriverTable`: the drivers are the state machine the startup assumes.
* `StatusIsTrue`: a display that runs is set up, pins have their direction, the timer counts,
  drivers have their interrupt, and errors a reason.
* `SignalsAreKept`: a signal is what it was last set to. `ReadIsCurrent`: the ticks read are the
  time that passed.
* `TextGoesThrough` (`InputIsTyped`, `OutputIsPrinted`, `TextIsUnderstood`): the host's console, and
  typed times and dates.
* `VerdictIsValidity`: a run without a fault succeeds exactly on valid inputs, as
  `GeneratorContract` says of whole files what the handlers check line by line.
* `PublishesErrorFree`, `DestinationsAreWhole`, `SuccessIsComplete`: publication.
* `ThreadRecordsAgree`: stacks, records and names number the threads alike.

Operators called "mutated form" in the modules are variants with a plausible error; nothing
uses them. Replacing the definition that follows by one of them makes the property named in
`PROJECT.json` fail, which shows that the property depends on the code.

## 4. Fairness

Weak fairness of `TimerCompare` and `RoundRobin`: the hardware timer runs while it
is enabled, and an enabled pending interrupt is served. Strong fairness of a
thread's own step (`YieldReturn`, `SystemStep`): between two interrupts a thread
executes instructions (the load leaves a guard, the period is 1 ms), so a thread that
gets the CPU again and again gets on. Nothing is assumed of the calls that other
threads make. In `I2cDiscovery`, weak fairness of the scan's own steps: its
thread keeps being scheduled. In `Usart`, weak fairness of `TransmitDone` (the
transmitter finishes each byte) and of the calling thread's steps; in `Scli`, of the service's steps.
In `BusTransactions`, weak fairness of the steps of calls under way (`BusFairness`): the CPU is given to some thread
that has something to do, not to each. No fairness is stated for the generator, whose runs may be killed at any
point: it has safety properties only.
Input is never assumed to come. All progress properties excuse a thread that is excluded,
a lost CPU and a silenced timer (`OutOfReach`).

## 5. What is proved

The theorems hold for every value of the constants that satisfies the assumptions named in
the modules (`KernelAssumption`, `StartupAssumption`, `UsartAssumption` and so on: sizes that
are positive, tables of the right shape, a pin of its own for each signal). Two theorems have
hypotheses of their own, named below.

* `KernelProofs`: `TypeCorrect`, `YieldedPolling`, `SearchTerminates`,
  `CanariesGuardSwitches`. Type correctness is inductive. `YieldedMeansPolling`
  needs types, that the scheduler only lowers flags (lemma `SchedulerLowersBits`) and that only
  `CoopYield` raises one (lemma `ThreadKeepsPolling`). `SearchNeedsSystemStopped` follows
  because the level in force never falls below core and thread zero keeps its
  generated level until stopped (lemma `SystemRunnable`).
  `NobodyOvertaken` and `TurnsAreComplete`: neither bounded waiting nor complete turns is
  inductive. The strengthening is the geometry of the index: the threads dispatched in t's
  current turn lie between t and the index (`PassedAreBehind`), and those steadily
  runnable between them have been dispatched (`BehindArePassed`). Together with
  `NoOvertaking` this is `TurnInvariant`. The arithmetic of the wrapping index is in
  `DistanceStrict` and `DistanceForward`. `TurnsImplementKernel`: the memory of turns only
  observes, so all kernel theorems hold there.
* There too, of the startup: `StartupImplementsKernel` maps every step of the service to the kernel call
  it makes, or to a stutter; `StartupTypeCorrect` needs `RoundsLeft` (a service that goes on has
  rounds left), without which the count's bound is not inductive.
  `HaltsOnlyAfterFullRounds` assumes `OthersKeepLevels`: no thread but the service changes run
  levels. In the delivered systems only the command line can, when somebody types a command;
  a startup disturbed like that is the run `startup_intruder`. The strengthening
  (`RoundInvariant`) relates chances to the index: a runnable thread the index has passed has
  one chance more than thread zero, one it has not passed at least as many (`ChancesAreFair`), and each round the service
  counts is a dispatch of thread zero (`RoundsAreTurns`).
  `BootFollowsStages` assumes `SystemAlone`: besides, nobody commands drivers, and drivers reached over
  the bus start after core level, as every delivered `init.rc` has it. Each step is then a step of
  `StagedBoot` or a stutter. What has been checked so far stays so while the rest is checked (`Progress`): an acknowledged thread stays
  acknowledged, and a running driver runs as long as its bus does, which started before it (`Orderly`).
* `DiscoveryProofs`, for any bus, drivers and buffer size: `ScanTypeCorrect` and
  `FreshScansJudgeRight`. The strengthening (`ScanIsRight`) is that in a scan that began at the first address and
  lost nothing, each address behind the position has been judged right unless its device has changed meanwhile; and that nothing is
  found ahead of the position, whatever scan was resumed.
* `ScliProofs`, for any line size, argument limit and receive queue: `ScliTypeCorrect`, `LineStaysTerminated`,
  `CommandsAreTyped`. The invariant says that the line holds no newline before the last byte read
  (`ReadsOneLine`). The tokenizer's words come from a function that is recursive over the cells of the line (`CutsFrom`).
  That it exists and yields words inside the line is proved by induction from the line's end, first-order, from the
  least element of a set of numbers (`Induction`, `CutsExist`); `CutsType` says that the first word ends
  before any terminator, so it consists of bytes read in this poll.
* `UsartProofs`, for every ring size from 2: `TypeCorrect`,
  `WritesAreReported`, `ReadsReportOwnError`, `RxRingIsQueue`, `TxRingIsQueue`. The invariant is types with
  `WriteInProgress`: a write call that has not returned has queued nothing yet, and where a
  snapshot is due an error is on record - an interrupt may replace it, never clear it -
  without which a lost byte could be reported as success. Of reads it adds that the last
  error is the failed read's own as long as that read holds the interrupt off (`ReadSnapshotIsOwn`). The refinements rest on lemmas
  about rings: putting appends to the content, taking drops its head, and content is
  as long as the distance of the indices, one less than the size in a ring the code takes for full (`FullRing`).
* `DriverProofs`: `RunningIsAwake`, `FailuresHaveReasons`. The strengthening (`Attended`) is that a
  started driver has its interrupt unless disturbed, whatever its other bits say. `ControlReply`
  says of every control call what it may leave.
  `SignalsKept`: what a thread has loaded is what the register still holds, unless it raced
  (`HoldsCurrent`). A store then changes what it should and nothing else (`StoreKeeps`), and races
  with everybody who holds the register (`OthersHoldCurrent`).
  `PinsConfigured`: a start under way has configured each signal or still has it to do
  (`PinsInvariant`), whoever else starts and stops the driver in between.
  `TimerCounts`, `ReadingIsCurrent`, for every width of the counter: the board's counter is the periods
  passed less those lost and the one that waits for its interrupt, modulo its range; the host's is whole ticks of the time
  before the last start, less at most one for each start (`ClockInvariant`).
  `ConsoleIsFaithful`: what the reader has been given and what still waits, joined, is what the keys typed
  come to, and what was printed is on the screen or in the buffer; both recursions are proved equal to what the
  driver does one key, or one byte, at a time. `TextIsTakenRight`: a time, a date or a level is accepted exactly when the text says one,
  and taken for what it says, however many characters were mistyped.
* `BusProofs`, for any threads, calls, texts and any number of faults and overlaps:
  `BusIsFreed`. Every script ends what it starts: behind each START there are only bus
  operations up to a STOP (`Planned`, proved of every call by `ScriptsAreScripted`), and taking a
  step off a script, or a function, keeps it so. The invariant (`BusInv`) is that a device is addressed only
  while some thread has the end of a transaction ahead of it (`Holds`), and that a thread that is about
  to use the bus has its driver running; without the second a failed check could leave the bus held.
  Every step of a call is one of five kinds (`Locally`, `Checking`, `Transferring`, `Faulting`, `Asking`), which say
  what it does to the thread, the bus and the status bits (`CallSteps`); the invariants are
  proved of these.
  `DisplayIsSetUp`: the thread that will set the display's "init" bit has sent each command of the setup, will send it,
  or is between its bytes with the display expecting it (`Ahead`, in `DisplayInv`). No other call
  disturbs this unless calls overlap, which the property excuses.
  `DriversFollowTable`: the calls implement `DriverTable` as long as none overlaps another. Then the call is the
  only one and its bus check still holds, and a thread about to set a bit of the display's driver either
  has yet to ask or may (`Poised`, in `AloneInv`), so what its control call found out (`Granted`) is not outdated by its own
  later steps. Every effect on the bits (`Effect`) is then an init, start or stop of the table, or none (`EffectFollows`).
  `StatusStaysTrue`, `DeviceTypesCorrect`, `TextAlwaysGoesThrough`: the devices together (`DeviceSpec`) implement each device's own specification
  (`PartsTogether`), so what is proved of the parts holds of the whole. The types of the bus part (`BusTypes`) add to `BusTypeOK`
  what the steps of scripts are made of: the codes of the clock are bytes whatever is read, a time a thread holds has bytes for fields,
  and the display's pointer and cells are numbers.
* `ResultProofs`, of the same calls: `ResultsAreTrue`. What a call reports at its end depends on everything its
  steps did, so the invariant follows it through its script. `Position` says which step of which function
  is next, and `Knows` what must then hold of thread, bus, display, clock and shared buffer: the cursor
  is where the text begins and the first characters stand behind it (`TextKnows`), the first registers hold the new
  time and the rest of the buffer its codes (`WriteKnows`), the first cells of the buffer hold what the clock showed when the reading
  started (`ReadKnows`). One lemma per kind of script carries this over each of its steps (`TextMoves`, `WriteMoves`, the reading's,
  and the quiet ones'); `TellsInv` states it of every thread that no other has overlapped and adds the failures
  (`Heard`): an operation that failed is on record until its error has been asked for, and once
  it has, only the end of the transaction is left. `ShownInv` says that the clock shows codes
  of a time as long as no calls have ever overlapped. That decoding undoes encoding on every
  time in range is `TimeAndBack`, from the arithmetic of two-digit codes.
* `GeneratorProofs`, for every input and every sequence of runs, edits, faults and kills:
  `PublicationIsErrorFree`. The strengthening (`ErrorFree`) is that publication is entered with every source
  closed and without an error; one lemma for `Proceed`, which all handlers end with, and one
  per group of actions.

Only model-checked: all liveness and fairness (out of the prover's reach), and of the generator everything but
`PublishesErrorFree`. Its invariants say what handlers folded over the lines of a file come to, against filters over whole files: even
that an error count is a number needs induction over the fold, and the provers can neither
instantiate an induction rule nor look into the library's filter (`SelectSeq`). `DestinationsAreWhole` besides
rests on what the fragments contain, so it is no easier than `VerdictIsValidity`.
Where a recursion runs over the cells of one array, the least element of a set of numbers takes the place of
induction: so for the tokenizer, and for the console's `Typist` and `Shown`.

## 6. Disagreements found

* `i2c_resumed_scan`: after a failed START, `hal_i2cScan` keeps its position, and the
  next `sc_i2cScan` covers only the rest of the bus and declares answering
  devices below that position dead, against `sc_driver.c`'s "Gather the complete bus scan
  before changing any declared driver state."
* `scli_stale_arguments`: the tokenizer goes on behind the line's own terminator and takes
  words of an older, longer line as arguments; its test expects the words of the new line only.

Read in the code, modelled as they are and not run, because one call or two show them:
`sc_threadStart` returns true for a call that only records a level (header: "true if the
named thread was started"); the tick also runs stopped threads' counters (header: "for active
threads"); and the command line, against its tests, processes a line in
the pieces it arrives in, keeps the newline as part of the last word, and runs a line of too many
words with the first ones. The architecture notes name the first, third and last as weaknesses.

Also read there: a receive overflow between a console write that found the transmit ring full
and the reading of its error makes the call return RX_BUFFER_FULL without flush and retry, so
the note on atomic error snapshots holds for reads only (`ReadReportsOwnError`); two threads
that print at once on the board overwrite each other's byte (`sc_string.c`), which the formatter excludes by
requiring prints that do not overlap; a source listed twice passes the generator's checks and
fails in publication (`StagedTwice`); a publication that fails midway leaves new beside old
files, and only its failure tells.

## 7. Not modelled

* **Thread table**: real-time metadata and the last-stop timestamp, which nothing reads; the stack depth
  scan, which only reads words of a stack another thread may be writing, so any answer is possible.
* **Contexts**: save and restore in assembly, the switch of `ucontext` contexts by signals
  (its effect is the kernel's interrupt), register-level timing.
* **tmLibc**, output and windows: formatting character by character; the string copies of
  `sc_string.c`; the drawing of `pc_console.c`.
* **Driver information** that only reads generated tables: counts, names, lists.
* **Generator**: the character loop of the tokenizer and so a last line without a newline; the length of
  generated lines, and so one that fits the input buffer but not the comparing one; a
  temporary file that cannot be removed at exit; edits that drop a source from `tags.list`, so that
  `SuccessIsComplete` does not ask what becomes of a temporary file no later run touches; some checks of the length of a single
  value, and the exact error count of runs that fail anyway; two generators at once; `printModules.c`, which prints.
* **Devices** that start and stop in the middle of their own life-cycle call, except GPIO, LCD and RTC;
  the USART's generic bit commands beside a transfer (`DriverCommands` has them without one).
* **Build files, scripts and tests**: build-time text processing and test drivers, read as documentation.
* **User tasks** are examples, and **legacy** is not built.

## 8. Plan

Done in this order: kernel and turns; discovery and startup; USART and command line;
devices; generator. What is left, most useful first:

1. The generator's invariants as proofs, once its folds are recursive functions over the lines of a file.
2. `SystemStartup` with the command line's scan at service level.
3. The generator with two publications under way.
