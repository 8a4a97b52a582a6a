-------------------------- MODULE GeneratorInputs --------------------------
(***************************************************************************)
(* What autoCode makes of its input files: the configuration (options.c),  *)
(* the error catalogues (globalError.c) and the init.rc files with their   *)
(* commands (parseInitrc.c, initrcCommands/).                              *)
(*                                                                         *)
(* A line is the sequence of its tokens (tokenizer.c), a file a sequence   *)
(* of lines that all end in a newline.  An unterminated string makes a     *)
(* line that holds BadToken.  Handlers are operators that return what they *)
(* make of their state and how many errors they report.                    *)
(***************************************************************************)
EXTENDS Integers, FiniteSets, SequencesExt

CONSTANTS
  BadToken,      \* a quoted string without its end
  Numeral,       \* [word -> Nat]: the words strtoul reads to their end
  I2cAddress,    \* the words that are hexadecimal I2C addresses
  HashWord,      \* the words that begin with #
  LongName,      \* the words that do not fit a name field
  RegularFile, Directory,   \* what stat finds below the source path
  CommandHeader, \* the commands whose header is in the source tree
  ErrorLimit,    \* GLOBALERROR_COUNT_MAX
  ScliLimit      \* AUTOCODE_COUNT_SCLIMAX

UINT8_MAX  == 255
UINT16_MAX == 65535

ASSUME GeneratorInputsAssumption ==
  /\ "#" \in HashWord
  /\ Numeral \in [DOMAIN Numeral -> Nat]
  /\ ErrorLimit \in 1 .. UINT16_MAX /\ ScliLimit \in 1 .. UINT8_MAX

(* An outcome: the state after the handler and the errors it reported. *)
Outcome(state, errors) == [state |-> state, errors |-> errors]

Malformed(line) == \E i \in DOMAIN line : line[i] = BadToken
IsEmpty(line)   == line = <<>> \/ line[1] \in HashWord

(* Runs a handler over lines, from a first state. *)
OverLines(Handler(_, _), state, lines) ==
  FoldLeft(LAMBDA o, line :
             LET next == Handler(o.state, line)
             IN  Outcome(next.state, o.errors + next.errors),
           Outcome(state, 0), lines)

-----------------------------------------------------------------------------
(* options.c *)
Options == {"--errors", "--generated_path", "--gpio_signals", "--initrc",
            "--parsetag", "--source_path", "--test_mode", "--wire_gpio"}
GpioOptions == {"--gpio_signals", "--wire_gpio"}
NoValue == ""

NoOptions == [count |-> [o \in Options |-> 0], value |-> [o \in Options |-> NoValue]]

ValueAccepted(option, value) ==
  /\ option = "--test_mode"   => value \in {"on", "off"}
  /\ option = "--source_path" => value \in Directory

(* optionCmdDispatch and the setters; a rejected value is not counted. *)
ReadOption(opts, line) ==
  IF ~Malformed(line) /\ IsEmpty(line) THEN Outcome(opts, 0)
  ELSE IF /\ ~Malformed(line)
          /\ Len(line) = 2
          /\ line[1] \in Options
          /\ ValueAccepted(line[1], line[2])
       THEN Outcome([opts EXCEPT !.count[line[1]] = @ + 1,
                                 !.value[line[1]] = line[2]], 0)
       ELSE Outcome(opts, 1)

(* Every option once; the GPIO options both or neither. *)
OptionExempt(opts, o) == o \in GpioOptions /\ \A g \in GpioOptions : opts.count[g] = 0

ReadOptions(lines) ==
  LET read == OverLines(ReadOption, NoOptions, lines)
  IN  Outcome(read.state,
        read.errors + Quantify(Options, LAMBDA o :
          read.state.count[o] # 1 /\ ~OptionExempt(read.state, o)))

-----------------------------------------------------------------------------
(* The database: the error catalogue, the module lists by type, the SCLI    *)
(* table, and the two configured maxima with the widths they select.        *)
ModuleTypes == {"driver", "thread"}    \* MOD_DRIVER_ID, MOD_THREAD_ID

EmptyDatabase ==
  [errors      |-> <<>>,
   errorMax    |-> 0, errorWidth  |-> 0, errorSet  |-> FALSE,
   moduleMax   |-> 0, moduleWidth |-> 0, moduleSet |-> FALSE,
   modules     |-> [type \in ModuleTypes |-> <<>>],
   scli        |-> <<>>]

ModuleCount(db) == Len(db.modules["driver"]) + Len(db.modules["thread"])
Names(records)  == {records[i].name : i \in DOMAIN records}
Width(count)    == IF count <= UINT8_MAX THEN 8 ELSE 16

(* Mutated form: a repeated name is catalogued again. *)
ErrorAcceptedTwice(db, line) ==
  /\ Len(line) = 3
  /\ Len(db.errors) < ErrorLimit
  /\ line[3] \in {"FLOW", "WARN", "FAIL", "PANIC"}
  /\ line[3] = "FLOW" => line[2] = NoValue

(* globalError: names are unique across all catalogues. *)
ErrorAccepted(db, line) ==
  /\ Len(line) = 3
  /\ Len(db.errors) < ErrorLimit
  /\ line[1] \notin Names(db.errors)
  /\ line[3] \in {"FLOW", "WARN", "FAIL", "PANIC"}
  /\ line[3] = "FLOW" => line[2] = NoValue

ReadError(db, line) ==
  IF ~Malformed(line) /\ IsEmpty(line) THEN Outcome(db, 0)
  ELSE IF ~Malformed(line) /\ ErrorAccepted(db, line)
       THEN Outcome([db EXCEPT !.errors =
              Append(@, [name |-> line[1], message |-> line[2], level |-> line[3]])], 0)
       ELSE Outcome(db, 1)

-----------------------------------------------------------------------------
(* addModule.c *)
ModuleKinds == {"driver", "service", "task"}
TypeOf(kind) == IF kind = "driver" THEN "driver" ELSE "thread"

SourceOptions == {"-source_dir", "-source_file"}
ModuleOptions == SourceOptions \cup {"-i2c", "-run", "-stack"}
Required(kind)  == {"-run"} \cup (IF kind = "driver" THEN {} ELSE {"-stack"})
Forbidden(kind) == {IF kind = "driver" THEN "-stack" ELSE "-i2c"}

OptionData(option) ==
  CASE option = "-run"         -> {"none", "core", "driver", "service", "user"}
    [] option = "-i2c"         -> I2cAddress
    [] option = "-stack"       -> {w \in DOMAIN Numeral : Numeral[w] \in 1 .. UINT16_MAX}
    [] option = "-source_file" -> RegularFile
    [] option = "-source_dir"  -> Directory

(* Options and values come in pairs after command, type and name. *)
Pairs(line)        == {i \in 4 .. Len(line) - 1 : i % 2 = 0}
OptionAt(line, o)  == {i \in Pairs(line) : line[i] = o}
WrongPairs(line)   ==
  {i \in Pairs(line) :
     line[i] \notin ModuleOptions \/ line[i + 1] \notin OptionData(line[i])}

Misused(kind, o, times) ==
  \/ o \in Required(kind) /\ times = 0
  \/ o \in Forbidden(kind) /\ times > 0
  \/ o \notin SourceOptions \cup Forbidden(kind) /\ times > 1

MisusedOptions(line) ==
  {o \in ModuleOptions : Misused(line[2], o, Cardinality(OptionAt(line, o)))}
NoSource(line) == \A o \in SourceOptions : OptionAt(line, o) = {}

ModuleValue(line, o, default) ==
  IF OptionAt(line, o) = {} THEN default
  ELSE line[1 + CHOOSE i \in OptionAt(line, o) : TRUE]

Module(line) ==
  [name    |-> line[3],
   kind    |-> line[2],
   level   |-> ModuleValue(line, "-run", NoValue),
   address |-> ModuleValue(line, "-i2c", NoValue),
   stack   |-> ModuleValue(line, "-stack", NoValue)]

(* moduleAdd: names are unique among drivers and among threads. *)
ModuleRefused(db, line) ==
  \/ line[3] \in LongName
  \/ line[3] \in Names(db.modules[TypeOf(line[2])])
  \/ ModuleCount(db) >= db.moduleMax

AddModuleErrors(db, line) ==
  IF \/ ~db.moduleSet
     \/ Len(line) < 5 \/ Len(line) % 2 = 0
     \/ line[2] \notin ModuleKinds
  THEN 1
  ELSE IF WrongPairs(line) # {} THEN Cardinality(WrongPairs(line))
  ELSE IF MisusedOptions(line) # {} \/ NoSource(line)
       THEN Cardinality(MisusedOptions(line)) + (IF NoSource(line) THEN 1 ELSE 0)
  ELSE IF ModuleRefused(db, line) THEN 1 ELSE 0

AddModule(db, line) ==
  LET errors == AddModuleErrors(db, line)
  IN  Outcome(IF errors = 0
              THEN [db EXCEPT !.modules[TypeOf(line[2])] = Append(@, Module(line))]
              ELSE db, errors)

-----------------------------------------------------------------------------
(* The other commands of initrcCommands/. *)
CommandSource == [date |-> "dateCommand", driver |-> "driverCommand", i2c |-> "i2cCommand",
                  stack |-> "stackCommand", thread |-> "threadCommand"]

AddScliCommand(db, line) ==
  IF /\ Len(line) = 4
     /\ line[3] = "-source_file"
     /\ line[2] \in DOMAIN CommandSource
     /\ line[2] \in CommandHeader
     /\ line[4] \in RegularFile
     /\ line[2] \notin Names(db.scli)
     /\ Len(db.scli) < ScliLimit
  THEN Outcome([db EXCEPT !.scli =
         Append(@, [name |-> line[2], function |-> CommandSource[line[2]]])], 0)
  ELSE Outcome(db, 1)

IsCount(line, bound) ==
  Len(line) = 2 /\ line[2] \in DOMAIN Numeral /\ Numeral[line[2]] \in 1 .. bound

SetModuleCountMax(db, line) ==
  IF IsCount(line, UINT16_MAX) /\ ~db.moduleSet
  THEN Outcome([db EXCEPT !.moduleMax = Numeral[line[2]],
                          !.moduleWidth = Width(Numeral[line[2]]), !.moduleSet = TRUE], 0)
  ELSE Outcome(db, 1)

SetErrorCountMax(db, line) ==
  IF /\ IsCount(line, ErrorLimit) /\ ~db.errorSet
     /\ Len(db.errors) <= Numeral[line[2]]
  THEN Outcome([db EXCEPT !.errorMax = Numeral[line[2]],
                          !.errorWidth = Width(Numeral[line[2]]), !.errorSet = TRUE], 0)
  ELSE Outcome(db, 1)

-----------------------------------------------------------------------------
(* parseInitrc.c and setInitrcVersion.c: the first two commands are the    *)
(* versions; a wrong one ends the reading of the file.                     *)
InitrcVersion == [major |-> 1, minor |-> 13]
AfterVersion  == [major |-> "minor", minor |-> "body"]

IsVersion(line, part) ==
  /\ Len(line) = 3
  /\ line[1] = "setInitrcVersion" /\ line[2] = part
  /\ line[3] \in DOMAIN Numeral /\ Numeral[line[3]] = InitrcVersion[part]

Command(db, line) ==
  CASE line[1] = "addModule"         -> AddModule(db, line)
    [] line[1] = "addScliCommand"    -> AddScliCommand(db, line)
    [] line[1] = "setErrorCountMax"  -> SetErrorCountMax(db, line)
    [] line[1] = "setModuleCountMax" -> SetModuleCountMax(db, line)
    [] OTHER                         -> Outcome(db, 1)

ReadCommand(s, line) ==
  LET Invalid == Outcome([s EXCEPT !.part = "invalid"], 1)
  IN  IF s.part = "invalid" \/ line = <<>> \/ (line[1] = "#" /\ ~Malformed(line))
      THEN Outcome(s, 0)
      ELSE IF s.part \in DOMAIN AfterVersion
           THEN IF ~Malformed(line) /\ IsVersion(line, s.part)
                THEN Outcome([s EXCEPT !.part = AfterVersion[s.part]], 0)
                ELSE Invalid
      ELSE IF Malformed(line) THEN Outcome(s, 1)
      ELSE IF line[1] = "setInitrcVersion" THEN Invalid
      ELSE LET command == Command(s.db, line)
           IN  Outcome([s EXCEPT !.db = command.state], command.errors)

(* What is missing at the end of a file. *)
MissingAtEnd(s) ==
  CASE s.part = "invalid"           -> 0
    [] s.part \in {"major", "minor"} -> 1
    [] s.part = "body"              -> (IF s.db.moduleSet THEN 0 ELSE 1)
                                       + (IF s.db.errorSet THEN 0 ELSE 1)

Commands(db, lines) == OverLines(ReadCommand, [db |-> db, part |-> "major"], lines)
StopsEarly(db, lines) == Commands(db, lines).state.part = "invalid"

ReadInitrc(db, lines) ==
  LET read == Commands(db, lines)
  IN  Outcome(read.state.db, read.errors + MissingAtEnd(read.state))
=============================================================================
