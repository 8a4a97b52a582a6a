----------------------------- MODULE TagWriters -----------------------------
(***************************************************************************)
(* The generated fragments (tagWriters/): what each tag's writer makes of  *)
(* the database.  A generated line is a tuple of what varies in it, behind *)
(* the word it is known by.                                                *)
(***************************************************************************)
EXTENDS GeneratorInputs

CONSTANT MacroName   \* [driver name -> the name in upper case, words split by _]

Drivers(db)  == db.modules["driver"]
ThreadsOf(db) == db.modules["thread"]

EachDriver(db, Line(_, _)) ==
  [i \in DOMAIN Drivers(db) |-> Line(i - 1, Drivers(db)[i])]

(* Threads other than the system service declared before the i-th. *)
OthersBefore(threads, i) ==
  Cardinality({j \in 1 .. i - 1 : threads[j].name # "system"})

(* Mutated form: the system service is counted like any other thread. *)
AllocIndexCountingSystem(threads, i) ==
  IF threads[i].name = "system" THEN 0 ELSE i

(* The record of the i-th declared thread; tagWriterThreadsAlloc,            *)
(* tagWriterThreadStacks and tagWriterThreadNameCatalog each count their own. *)
AllocIndex(threads, i) ==
  IF threads[i].name = "system" THEN 0 ELSE 1 + OthersBefore(threads, i)

StackIndex(threads, i) ==
  IF threads[i].name = "system" THEN 0 ELSE 1 + OthersBefore(threads, i)

NameIndex(threads, i) ==
  IF threads[i].name = "system" THEN 0 ELSE 1 + OthersBefore(threads, i)

ThreadsAlloc(db) ==
  LET threads == ThreadsOf(db)
  IN  [i \in DOMAIN threads |->
         <<"thread", AllocIndex(threads, i), threads[i].name, threads[i].kind,
           threads[i].level, threads[i].stack>>]

ThreadStacks(db) ==
  LET threads == ThreadsOf(db)
  IN  [i \in DOMAIN threads |-> <<"stack", StackIndex(threads, i), threads[i].stack>>]

ThreadNameCatalog(db) ==
  LET threads == ThreadsOf(db)
  IN  [i \in DOMAIN threads |-> <<"name", NameIndex(threads, i), threads[i].name>>]
      \o [i \in DOMAIN threads |-> <<"entry", NameIndex(threads, i)>>]

ThreadsList(db) ==
  [i \in DOMAIN ThreadsOf(db) |->
     <<"include", ThreadsOf(db)[i].kind, ThreadsOf(db)[i].name>>]

DriversAlloc(db) ==
  EachDriver(db, LAMBDA i, d : <<"driver", i, d.name, d.level, d.address>>)
DriverNameCatalog(db) ==
  EachDriver(db, LAMBDA i, d : <<"name", i, d.name>>)
  \o EachDriver(db, LAMBDA i, d : <<"entry", i>>)
DriverHave(db)  == EachDriver(db, LAMBDA i, d : <<"have", MacroName[d.name]>>)
DriversList(db) == EachDriver(db, LAMBDA i, d : <<"include", d.name>>)

ModulesCount(db) ==
  << <<"mod_count_t", db.moduleWidth>>,
     <<"MOD_DRIVER_COUNT", Len(Drivers(db))>>,
     <<"MOD_THREAD_COUNT", Len(ThreadsOf(db))>> >>

ScliCommands(db) ==
  [i \in DOMAIN db.scli |-> <<"include", db.scli[i].name>>]
  \o [i \in DOMAIN db.scli |-> <<"command", db.scli[i].name, db.scli[i].function>>]

(* Entries of level FLOW have no message object, but keep their index. *)
ErrorCatalog(db) ==
  LET WithMessage == SelectSeq([i \in DOMAIN db.errors |-> i],
                               LAMBDA i : db.errors[i].level # "FLOW")
  IN  [k \in DOMAIN WithMessage |->
         <<"message", WithMessage[k] - 1, db.errors[WithMessage[k]].message>>]
      \o [i \in DOMAIN db.errors |->
            IF db.errors[i].level = "FLOW" THEN <<"entry", "NULL">>
            ELSE <<"entry", db.errors[i].level, i - 1>>]

ErrorEnum(db) ==
  << <<"error_count_t", db.errorWidth>> >>
  \o [i \in DOMAIN db.errors |-> <<"enum", db.errors[i].name>>]

(* tagWriterGpioSignals reads a file of its own, one signal per line. *)
SignalErrors(lines) ==
  Quantify(DOMAIN lines, LAMBDA i :
    Malformed(lines[i]) \/ (~IsEmpty(lines[i]) /\ Len(lines[i]) # 1))

GpioSignals(lines) ==
  LET Signals == SelectSeq(lines, LAMBDA l : ~Malformed(l) /\ ~IsEmpty(l))
  IN  [i \in DOMAIN Signals |-> <<"signal", Signals[i][1]>>]

WireGpio(opts) == << <<"include", opts.value["--wire_gpio"]>> >>

-----------------------------------------------------------------------------
(* HAVE_TAG: the tags with a writer. *)
Tags == {"driver_have", "driver_name_catalog", "drivers_alloc", "drivers_list",
         "error_catalog", "error_enum", "gpio_signals", "modules_count",
         "scli_commands", "thread_name_catalog", "thread_stacks", "threads_alloc",
         "threads_list", "wire_gpio"}

(* tagCmdDispatch; signals are the lines of the GPIO signal file. *)
Written(tag, db, opts, signals) ==
  CASE tag = "driver_have"         -> DriverHave(db)
    [] tag = "driver_name_catalog" -> DriverNameCatalog(db)
    [] tag = "drivers_alloc"       -> DriversAlloc(db)
    [] tag = "drivers_list"        -> DriversList(db)
    [] tag = "error_catalog"       -> ErrorCatalog(db)
    [] tag = "error_enum"          -> ErrorEnum(db)
    [] tag = "gpio_signals"        -> GpioSignals(signals)
    [] tag = "modules_count"       -> ModulesCount(db)
    [] tag = "scli_commands"       -> ScliCommands(db)
    [] tag = "thread_name_catalog" -> ThreadNameCatalog(db)
    [] tag = "thread_stacks"       -> ThreadStacks(db)
    [] tag = "threads_alloc"       -> ThreadsAlloc(db)
    [] tag = "threads_list"        -> ThreadsList(db)
    [] tag = "wire_gpio"           -> WireGpio(opts)

(* The errors a writer reports. *)
WriterErrors(tag, db, signals) ==
  CASE tag = "gpio_signals"  -> SignalErrors(signals)
    [] tag = "threads_alloc" -> IF "system" \in Names(ThreadsOf(db)) THEN 0 ELSE 1
    [] OTHER                 -> 0
=============================================================================
