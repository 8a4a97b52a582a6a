-------------------------- MODULE GeneratorContract --------------------------
(***************************************************************************)
(* What autoCode promises: which inputs are valid, said of whole files and *)
(* not line by line, what a successful run leaves behind, and what no run, *)
(* however it ends, may do to the files of a build.                        *)
(***************************************************************************)
EXTENDS Generator

ContentLines(d, f) == SelectSeq(d[f], LAMBDA l : ~IsEmpty(l))
Sound(d, f) == d[f] # Missing /\ \A i \in DOMAIN d[f] : ~TooLong(d[f][i]) /\ ~Malformed(d[f][i])
Holding(lines, word) == {i \in DOMAIN lines : lines[i][1] = word}
Distinct(s) == Cardinality(ToSet(s)) = Len(s)
AllFiles(paths, Lines(_)) == FlattenSeq([i \in DOMAIN paths |-> Lines(paths[i])])

-----------------------------------------------------------------------------
(* The configuration names every option once, the GPIO pair both or neither. *)
ValidOptions(d) ==
  LET lines == ContentLines(d, Config)
      Times(o) == Cardinality(Holding(lines, o))
  IN  /\ Sound(d, Config)
      /\ \A i \in DOMAIN lines : /\ Len(lines[i]) = 2
                                 /\ lines[i][1] \in Options
                                 /\ ValueAccepted(lines[i][1], lines[i][2])
      /\ \A o \in Options \ GpioOptions : Times(o) = 1
      /\ {Times(o) : o \in GpioOptions} \in {{0}, {1}}

OptionValue(d, o) ==
  LET lines == ContentLines(d, Config)
  IN  IF Holding(lines, o) = {} THEN NoValue ELSE lines[CHOOSE i \in Holding(lines, o) : TRUE][2]

HasGpio(d) == OptionValue(d, "--gpio_signals") # NoValue

Paths(d, o) ==
  LET lines == SelectSeq(d[OptionValue(d, o)], LAMBDA l : l # <<>>)
  IN  [i \in DOMAIN lines |-> lines[i][1]]

ValidList(d, o) ==
  /\ Sound(d, OptionValue(d, o))
  /\ \A i \in DOMAIN Paths(d, o) : Sound(d, Paths(d, o)[i])

-----------------------------------------------------------------------------
Catalogue(d) == AllFiles(Paths(d, "--errors"), LAMBDA f : ContentLines(d, f))

ValidErrors(d) ==
  LET lines == Catalogue(d)
  IN  /\ \A i \in DOMAIN lines :
           /\ Len(lines[i]) = 3
           /\ lines[i][3] \in {"FLOW", "WARN", "FAIL", "PANIC"}
           /\ lines[i][3] = "FLOW" => lines[i][2] = NoValue
      /\ Distinct([i \in DOMAIN lines |-> lines[i][1]])
      /\ Len(lines) <= ErrorLimit

-----------------------------------------------------------------------------
CommandsOf(d, f) == SelectSeq(d[f], LAMBDA l : l # <<>> /\ l[1] # "#")
Declarations(d) ==
  AllFiles(Paths(d, "--initrc"),
           LAMBDA f : SubSeq(CommandsOf(d, f), 3, Len(CommandsOf(d, f))))

ModuleLines(d, kinds) ==
  SelectSeq(Declarations(d), LAMBDA l : l[1] = "addModule" /\ l[2] \in kinds)
NamesOf(lines, n) == [i \in DOMAIN lines |-> lines[i][n]]

WellFormedModule(line) ==
  /\ Len(line) >= 5 /\ Len(line) % 2 = 1
  /\ line[2] \in ModuleKinds
  /\ line[3] \notin LongName
  /\ WrongPairs(line) = {}
  /\ \E o \in SourceOptions : OptionAt(line, o) # {}
  /\ \A o \in ModuleOptions \ SourceOptions :
       Cardinality(OptionAt(line, o)) \in
         CASE o = "-run" -> {1}
           [] o = "-i2c" -> IF line[2] = "driver" THEN {0, 1} ELSE {0}
           [] OTHER      -> IF line[2] = "driver" THEN {0} ELSE {1}

WellFormed(line) ==
  CASE line[1] = "addModule"         -> WellFormedModule(line)
    [] line[1] = "addScliCommand"    -> /\ Len(line) = 4
                                        /\ line[2] \in CommandHeader \cap DOMAIN CommandSource
                                        /\ line[3] = "-source_file"
                                        /\ line[4] \in RegularFile
    [] line[1] = "setModuleCountMax" -> IsCount(line, UINT16_MAX)
    [] line[1] = "setErrorCountMax"  -> IsCount(line, ErrorLimit)
    [] OTHER                         -> FALSE

(* Each file opens with its versions; the maxima are set once, in the first *)
(* file, the modules' before any module.                                    *)
ValidInitrc(d) ==
  LET files == Paths(d, "--initrc")
      lines == Declarations(d)
      Maximum(setter) == Numeral[lines[CHOOSE i \in Holding(lines, setter) : TRUE][2]]
  IN  /\ \A i \in DOMAIN files :
           LET c == CommandsOf(d, files[i])
           IN  Len(c) >= 2 /\ IsVersion(c[1], "major") /\ IsVersion(c[2], "minor")
      /\ \A i \in DOMAIN lines : WellFormed(lines[i])
      /\ files # <<>> => \A s \in {"setModuleCountMax", "setErrorCountMax"} :
           /\ Cardinality(Holding(lines, s)) = 1
           /\ Holding(CommandsOf(d, files[1]), s) # {}
      /\ files # <<>> =>
           /\ Maximum("setErrorCountMax") >= Len(Catalogue(d))
           /\ Maximum("setModuleCountMax") >= Cardinality(Holding(lines, "addModule"))
           /\ \A i \in Holding(lines, "setModuleCountMax"),
                 j \in Holding(lines, "addModule") : i < j
      /\ Distinct(NamesOf(ModuleLines(d, {"driver"}), 3))
      /\ Distinct(NamesOf(ModuleLines(d, {"service", "task"}), 3))
      /\ LET scli == SelectSeq(lines, LAMBDA l : l[1] = "addScliCommand")
         IN  Distinct(NamesOf(scli, 2)) /\ Len(scli) <= ScliLimit

-----------------------------------------------------------------------------
Sources(d) == Paths(d, "--parsetag")
NamingTag(line) == StartTag(line) /\ Len(line) = 3
TagLines(d) == AllFiles(Sources(d), LAMBDA f : SelectSeq(d[f], NamingTag))

(* Line i of a source lies in a region, whose start and end do not count. *)
InRegion(lines, i) ==
  \E s \in 1 .. i - 1 : StartTag(lines[s]) /\ \A e \in s + 1 .. i : ~EndTag(lines[e])

ValidSource(lines) ==
  /\ \A i \in DOMAIN lines : StartTag(lines[i]) => Len(lines[i]) = 3 /\ ~InRegion(lines, i)
  /\ ~InRegion(lines, Len(lines)) /\ (lines # <<>> => ~StartTag(lines[Len(lines)]))

ValidTags(d) ==
  LET tags == TagLines(d)
      Times(t) == Cardinality({i \in DOMAIN tags : tags[i][3] = t})
  IN  /\ \A i \in DOMAIN Sources(d) : ValidSource(d[Sources(d)[i]])
      /\ Distinct(Sources(d))
      /\ \A i \in DOMAIN tags : tags[i][3] \in Tags
      /\ \A t \in Tags \ GpioTags : Times(t) = 1
      /\ IF HasGpio(d) THEN \A t \in GpioTags : Times(t) = 1
         ELSE Times("gpio_signals") = 0 /\ Times("wire_gpio") <= 1
      /\ "system" \in ToSet(NamesOf(ModuleLines(d, {"service", "task"}), 3))
      /\ HasGpio(d) =>
           LET f == OptionValue(d, "--gpio_signals")
           IN  Sound(d, f) /\ \A i \in DOMAIN ContentLines(d, f) : Len(ContentLines(d, f)[i]) = 1

ValidInputs(d) ==
  /\ ValidOptions(d)
  /\ \A stage \in DOMAIN ListOption : ValidList(d, ListOption[stage])
  /\ ValidErrors(d) /\ ValidInitrc(d) /\ ValidTags(d)

-----------------------------------------------------------------------------
(* What the inputs call for: every tagged source with its regions replaced *)
(* by inclusions, every fragment complete.                                 *)
Expanded(lines) ==
  FlattenSeq([i \in DOMAIN lines |->
    IF StartTag(lines[i]) THEN <<lines[i], Include(lines[i][3])>>
    ELSE IF InRegion(lines, i) THEN <<>>
    ELSE <<lines[i]>>])

DatabaseOf(d) ==
  LET catalogued == OverLines(ReadError, EmptyDatabase, Catalogue(d)).state
  IN  FoldLeft(LAMBDA db, f : ReadInitrc(db, d[f]).state, catalogued, Paths(d, "--initrc"))

FragmentOf(d, tag) ==
  Header \o Written(tag, DatabaseOf(d), ReadOptions(d[Config]).state,
                    IF HasGpio(d) THEN d[OptionValue(d, "--gpio_signals")] ELSE <<>>)

TagNames(d) == ToSet(NamesOf(TagLines(d), 3))

Goal(d) ==
  [f \in Files |->
     IF f \in ToSet(Sources(d)) THEN Expanded(d[f])
     ELSE IF f \in TagNames(d) THEN FragmentOf(d, f)
     ELSE d[f]]

-----------------------------------------------------------------------------
TypeOK ==
  /\ DOMAIN disk = Files /\ DOMAIN staged = Files
  /\ proc.stage \in Stages
  /\ proc.errors \in 0 .. ErrorTest - 1
  /\ proc.next \in 1 .. Len(proc.registry) + 1
  /\ edits \in 0 .. MaxEdits /\ faults \in 0 .. MaxFaults /\ clean \in BOOLEAN

(* A run that meets no fault succeeds exactly on valid inputs, in either   *)
(* mode, whatever killed and failed runs have left behind.                 *)
VerdictIsValidity ==
  proc.stage \in {"done", "failed"} /\ clean =>
    (proc.stage = "done" <=> ValidInputs(before))

(* "Then publish the generated fragments only after every stage has         *)
(* completed without recorded errors" (autoCode.c): whatever its errors    *)
(* are and wherever it fails, a run that reported one changes no file.     *)
PublishesErrorFree ==
  [][disk' # disk /\ proc.stage \notin Ends =>
       proc.stage = "publish" /\ ~(proc.errors > 0)]_vars

(* What the stages accept without looking, and publication then rejects:   *)
(* a file staged twice.                                                    *)
StagedTwice(d) ==
  ~Distinct(Sources(d)) \/ ~Distinct(NamesOf(TagLines(d), 3))

(* A reader of the build directory never meets half a file: every file is  *)
(* as it was or as the inputs call for, wherever a run was killed or       *)
(* failed, and even beside the temporary files of such a run; and no       *)
(* destination changes for invalid inputs.                                 *)
DestinationsAreWhole ==
  proc.stage # "none" /\ disk # before =>
    /\ \A f \in Files : disk[f] \in {before[f], Goal(before)[f]}
    /\ ValidInputs(before) \/ StagedTwice(before)

(* A mixed set of old and new files is never left by a run that claims     *)
(* success, nor without a fault: success means every destination is what   *)
(* the inputs call for, no temporary file is left, and running again would *)
(* change nothing: "0 updated, 15 unchanged" (autoCode_test.sh), a run     *)
(* that finds every destination current keeps them all.                    *)
SuccessIsComplete ==
  proc.stage = "done" =>
    /\ disk = Goal(before)
    /\ Goal(disk) = disk
    /\ \A f \in Files : staged[f] = Missing
    /\ before = Goal(before) => proc.updated = 0

(* Stacks, records and name catalogue number the threads alike: the        *)
(* numbers are those of the thread table, and zero is the system service.  *)
Published(tag, word) == SelectSeq(disk[tag], LAMBDA l : l[1] = word)

ThreadRecordsAgree ==
  proc.stage = "done" =>
    LET records == Published("threads_alloc", "thread")
        stacks  == Published("thread_stacks", "stack")
        names   == Published("thread_name_catalog", "name")
        entries == Published("thread_name_catalog", "entry")
        count   == Len(ModuleLines(before, {"service", "task"}))
    IN  /\ Len(records) = count
        /\ {records[i][2] : i \in DOMAIN records} = 0 .. count - 1
        /\ {<<r[2], r[6]>> : r \in ToSet(records)} = {<<s[2], s[3]>> : s \in ToSet(stacks)}
        /\ {<<r[2], r[3]>> : r \in ToSet(records)} = {<<n[2], n[3]>> : n \in ToSet(names)}
        /\ {r[2] : r \in ToSet(records)} = {e[2] : e \in ToSet(entries)}
        /\ \A r \in ToSet(records) : r[2] = 0 <=> r[3] = "system"
        /\ <<"MOD_THREAD_COUNT", count>> \in ToSet(disk["modules_count"])
=============================================================================
