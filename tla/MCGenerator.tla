---------------------------- MODULE MCGenerator ----------------------------
(* A small build for TLC: two catalogues, two init.rc files and two tagged *)
(* sources, with or without GPIO, in either mode.  Sound inputs meet runs, *)
(* faults and edits in every order; every other start has one line deleted,*)
(* doubled, exchanged with the next, or a foreign line before or for it,   *)
(* and one run.                                                            *)
EXTENDS GeneratorContract

CONSTANTS bad, long, missing, none

Number(n) ==
  CASE n = "0" -> 0 [] n = "1" -> 1 [] n = "2" -> 2 [] n = "3" -> 3 [] n = "9" -> 9
    [] n = "13" -> 13 [] n = "300" -> 300
MCNumeral == [n \in {"0", "1", "2", "3", "9", "13", "300"} |-> Number(n)]
MCMacroName == [d \in {"timerSched", "lcd"} |-> IF d = "lcd" THEN "LCD" ELSE "TIMER_SCHED"]
MCTooLong(line) == long \in ToSet(line)

-----------------------------------------------------------------------------
Region(tag, text) ==
  << <<"//", "[autoCode_tag]", tag>> >> \o text \o << <<"//", "[/tag]">> >>

Configuration(test, gpio) ==
  << <<"--test_mode", test>>, <<"#">>,
     <<"--errors", "errors.list">>, <<"--initrc", "initrc.list">>,
     <<"--parsetag", "tags.list">>, <<"--source_path", "dir">>,
     <<"--generated_path", "build">> >>
  \o (IF gpio THEN << <<"--gpio_signals", "signals.gpio">>, <<"--wire_gpio", "wire.h">> >>
      ELSE <<>>)

Major  == <<"setInitrcVersion", "major", "1">>
Minor  == <<"setInitrcVersion", "minor", "13">>
System == <<"addModule", "service", "system", "-run", "core", "-stack", "9",
            "-source_file", "f.c">>
Task   == <<"addModule", "task", "blink", "-run", "user", "-source_dir", "dir",
            "-stack", "3">>
Lcd    == <<"addModule", "driver", "lcd", "-i2c", "27", "-run", "driver",
            "-source_file", "f.c">>
Date   == <<"addScliCommand", "date", "-source_file", "f.c">>

FirstRc  == << Major, <<>>, Minor, <<"setModuleCountMax", "3">>,
               <<"setErrorCountMax", "3">>, Lcd >>
SecondRc == << Major, Minor, System, Task, Date >>

TagOrder == <<"driver_have", "driver_name_catalog", "drivers_alloc", "drivers_list",
              "error_catalog", "error_enum", "modules_count", "scli_commands",
              "thread_name_catalog", "thread_stacks", "threads_list">>
SourceB(gpio) ==
  FlattenSeq([i \in DOMAIN TagOrder |-> Region(TagOrder[i], <<>>)])
  \o (IF gpio THEN Region("gpio_signals", <<>>) \o Region("wire_gpio", <<>>) ELSE <<>>)

Inputs(test, gpio) ==
  [ conf     |-> Configuration(test, gpio),
    errlist  |-> << <<"errors.a">>, <<>>, <<"errors.b">> >>,
    rclist   |-> << <<"first.rc">>, <<"second.rc">> >>,
    taglist  |-> << <<"a.c">>, <<"b.c">> >>,
    errorsA  |-> << <<"ERR_NONE", "", "FLOW">>, <<"ERR_A", "a", "WARN">> >>,
    errorsB  |-> << <<"ERR_B", "b", "PANIC">> >>,
    first    |-> FirstRc, second |-> SecondRc,
    sourceA  |-> << <<"text">> >> \o Region("threads_alloc", << <<"old">> >>),
    sourceB  |-> SourceB(gpio),
    signals  |-> << <<"LED">>, <<"#">> >> ]

File == [ conf |-> "conf", errlist |-> "errors.list", rclist |-> "initrc.list",
          taglist |-> "tags.list", errorsA |-> "errors.a", errorsB |-> "errors.b",
          first |-> "first.rc", second |-> "second.rc", sourceA |-> "a.c",
          sourceB |-> "b.c", signals |-> "signals.gpio" ]

MCFiles == {File[i] : i \in DOMAIN File} \cup Tags \cup {"", "#", "absent", "mystery"}

Disk(inputs) ==
  [f \in MCFiles |-> IF \E i \in DOMAIN File : File[i] = f
                     THEN inputs[CHOOSE i \in DOMAIN File : File[i] = f] ELSE missing]

(* The second run of a good start may find another declaration order. *)
SoundInputs == {Inputs(test, gpio) : test \in {"on", "off"}, gpio \in BOOLEAN}
MCEdits == [f \in {"second.rc"} |->
              { << Major, Minor, Task, System, Date >>, << Major, Minor, System >>,
                << Major, Minor, Date >> }]

-----------------------------------------------------------------------------
(* Foreign lines, by the input they are put in. *)
Always == {<<>>, <<bad>>, <<long>>, <<"#", "note">>}
Foreign(i) ==
  CASE i = "conf" -> {<<"--errors">>, <<"--errors", "absent">>, <<"--unknown", "x">>,
                      <<"--test_mode", "maybe">>, <<"--source_path", "f.c">>,
                      <<"--wire_gpio", "wire.h">>}
    [] i \in {"errlist", "rclist", "taglist"} -> {<<"absent">>}
    [] i \in {"errorsA", "errorsB"} ->
         {<<"ERR_A", "again", "WARN">>, <<"ERR_X", "text", "FLOW">>, <<"ERR_X", "x", "LOUD">>,
          <<"ERR_X", "x">>, <<"ERR_X", "x", "FAIL">>}
    [] i \in {"first", "second"} ->
         {<<"unknown">>, <<"setInitrcVersion", "minor", "1">>,
          <<"setModuleCountMax", "2">>, <<"setModuleCountMax", "0">>,
          <<"setModuleCountMax", "300">>, <<"setErrorCountMax", "2">>,
          <<"setErrorCountMax", "300">>, <<"setErrorCountMax", "300", "1">>,
          <<"addModule">>, <<"addModule", "driver", "x", "-run">>,
          <<"addModule", "program", "x", "-run", "none">>,
          <<"addModule", "driver", "timerSched", "-run", "none", "-run", "core",
            "-source_file", "f.c">>,
          <<"addModule", "driver", "timerSched", "-run", "none">>,
          <<"addModule", "driver", "timerSched", "-i2c", "zz", "-run", "often",
            "-source_file", "f.c">>,
          <<"addModule", "driver", "lcd", "-run", "none", "-source_file", "f.c">>,
          <<"addModule", "task", "lcd", "-run", "none", "-source_file", "f.c",
            "-stack", "1", "-source_file", "f.c">>,
          <<"addModule", "task", "x", "-i2c", "27", "-source_file", "dir">>,
          <<"addModule", "task", "x", "-i2c", "27", "-source_dir", "dir">>,
          <<"addModule", "task", "long", "-run", "none", "-stack", "1", "-source_dir", "dir">>,
          <<"addScliCommand", "date", "-source_file", "f.c">>,
          <<"addScliCommand", "stack", "-source_file", "f.c">>,
          <<"addScliCommand", "stack", "-source_file", "g.c">>,
          <<"addScliCommand", "clock", "-source_file", "f.c">>}
    [] i \in {"sourceA", "sourceB"} ->
         {<<"//", "[autoCode_tag]">>, <<"//", "[autoCode_tag]", "mystery">>,
          <<"//", "[autoCode_tag]", "wire_gpio">>, <<"//", "[/tag]">>, <<"//", "text">>}
    [] OTHER -> {<<"LED", "GREEN">>}

Edited(lines, extra) ==
  {RemoveAt(lines, n) : n \in DOMAIN lines}
  \cup {InsertAt(lines, n, lines[n]) : n \in DOMAIN lines}
  \cup {[lines EXCEPT ![n] = lines[n + 1], ![n + 1] = lines[n]] : n \in 1 .. Len(lines) - 1}
  \cup {InsertAt(lines, n, x) : n \in DOMAIN lines, x \in extra}
  \cup {[lines EXCEPT ![n] = x] : n \in DOMAIN lines, x \in extra}

MCStart == {Disk(inputs) : inputs \in SoundInputs}

UnsoundStart ==
  \E inputs \in SoundInputs : \E i \in DOMAIN inputs :
    \E lines \in Edited(inputs[i], Always \cup Foreign(i)) :
      disk = Disk([inputs EXCEPT ![i] = lines])

MCInit == Init \/ (UnsoundStart /\ Fresh(MaxEdits, MaxFaults))

MCSpec == MCInit /\ [][Next]_vars
=============================================================================
