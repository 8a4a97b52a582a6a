----------------------------- MODULE Generator -----------------------------
(***************************************************************************)
(* autoCode, the generator that runs before every build (autoCode.c,       *)
(* parseTag.c): configuration, error catalogues, init.rc files and tagged  *)
(* sources, then publication.  A run may be killed, or lose a file         *)
(* operation, at any point; another run follows, perhaps after an edit.    *)
(*                                                                         *)
(* proc is the memory of the process.  A handler that reports the last     *)
(* error allowed ends the process at once; what else it does is lost.      *)
(***************************************************************************)
EXTENDS TagWriters, GeneratedFiles

CONSTANTS
  Config,       \* the configuration file, the program's argument
  NoFile,       \* no document is open
  Start,        \* the contents of the disk the first run may find
  Edits,        \* [file -> contents]: what a user may write between runs
  ErrorTest,    \* AUTOCODE_COUNT_ERRORTEST
  MaxEdits,     \* bound: edits between runs
  MaxFaults     \* bound: kills and failed file operations

ASSUME GeneratorAssumption ==
  /\ ErrorTest \in Nat \ {0} /\ MaxEdits \in Nat /\ MaxFaults \in Nat

VARIABLES
  proc,         \* the process
  edits, faults, \* how many there were
  clean,        \* auxiliary: no fault in this run
  before        \* auxiliary: the disk when this run started

vars == <<disk, staged, proc, edits, faults, clean, before>>

Stages == {"none", "options", "errors", "initrc", "tags", "publish",
           "done", "failed", "killed"}
Ends   == {"none", "done", "failed", "killed"}

NoProcess ==
  [stage    |-> "none",
   maximum  |-> 1,          \* error_count_maximum
   errors   |-> 0,          \* error_count
   opts     |-> NoOptions,
   db       |-> EmptyDatabase,
   have     |-> [tag \in Tags |-> 0],
   outer    |-> 0,          \* the line of the stage's list, 0: not open
   doc      |-> NoFile,     \* the tagged source being copied
   at       |-> 0,          \* its line
   section  |-> FALSE,      \* tag_section
   fileError |-> FALSE,     \* file_error
   registry |-> NoRegistry,
   next     |-> 1,          \* the entry to publish
   updated  |-> 0]          \* file_updated

Ended(end) == [NoProcess EXCEPT !.stage = end]

Fresh(e, f) ==
  /\ staged = [file \in Files |-> Missing]
  /\ proc = NoProcess
  /\ edits = e /\ faults = f
  /\ clean = TRUE
  /\ before = disk

Init == disk \in Start /\ Fresh(0, 0)

StartRun ==
  /\ proc.stage \in Ends
  /\ proc' = [NoProcess EXCEPT !.stage = "options"]
  /\ clean' = TRUE
  /\ before' = disk
  /\ UNCHANGED <<disk, staged, edits, faults>>

EditInput ==
  /\ proc.stage \in Ends \ {"none"} /\ edits < MaxEdits
  /\ \E f \in DOMAIN Edits : \E lines \in Edits[f] :
       /\ disk[f] # lines
       /\ disk' = [disk EXCEPT ![f] = lines]
       /\ before' = disk'
  /\ proc' = NoProcess
  /\ edits' = edits + 1
  /\ UNCHANGED <<staged, faults, clean>>

NoFault == UNCHANGED <<faults, clean>>
Fault   == faults < MaxFaults /\ faults' = faults + 1 /\ clean' = FALSE

-----------------------------------------------------------------------------
(* Mutated form: one error more than the maximum. *)
ProceedOneMore(p, tmps, n, checked) ==
  LET errors == p.errors + n
      exits  == errors > p.maximum \/ (checked /\ errors > 0)
  IN  /\ proc' = IF exits THEN Ended("failed") ELSE [p EXCEPT !.errors = errors]
      /\ staged' = IF exits THEN CleanedUp(p.registry, tmps) ELSE tmps
      /\ UNCHANGED <<disk, edits, before>>

(* autoCodeExit: the process goes on as p with n more errors, unless they  *)
(* reach the maximum, or are checked and not none.                         *)
Proceed(p, tmps, n, checked) ==
  LET errors == p.errors + n
      exits  == \/ n > 0 /\ errors >= p.maximum
                \/ checked /\ errors > 0
  IN  /\ proc' = IF exits THEN Ended("failed") ELSE [p EXCEPT !.errors = errors]
      /\ staged' = IF exits THEN CleanedUp(p.registry, tmps) ELSE tmps
      /\ UNCHANGED <<disk, edits, before>>

(* How reading a whole file can go: to its end, up to a line that is too   *)
(* long, up to a fault, or not at all.                                     *)
Readable(lines) ==
  SubSeq(lines, 1, CHOOSE n \in 0 .. Len(lines) :
    /\ \A i \in 1 .. n : ~TooLong(lines[i])
    /\ n = Len(lines) \/ TooLong(lines[n + 1]))

Unopened(fault) == [opened |-> FALSE, lines |-> <<>>, failed |-> TRUE, fault |-> fault]

Reads(f) ==
  IF disk[f] = Missing THEN {Unopened(FALSE)}
  ELSE LET lines == Readable(disk[f])
       IN  {[opened |-> TRUE, lines |-> lines, failed |-> lines # disk[f],
             fault |-> FALSE],
            Unopened(TRUE)}
           \cup {[opened |-> TRUE, lines |-> SubSeq(lines, 1, n), failed |-> TRUE,
                  fault |-> TRUE] : n \in 0 .. Len(lines)}

FaultIf(fault) == IF fault THEN Fault ELSE NoFault

(* The configuration: any error in it ends the program. *)
ReadConfiguration ==
  /\ proc.stage = "options"
  /\ \E r \in Reads(Config) :
       LET read == ReadOptions(r.lines)
           test == read.state.value["--test_mode"] = "on"
       IN  /\ FaultIf(r.fault)
           /\ Proceed([proc EXCEPT !.stage = "errors", !.opts = read.state,
                                   !.maximum = IF test THEN ErrorTest ELSE @],
                      staged, read.errors + (IF r.failed THEN 1 ELSE 0), TRUE)

-----------------------------------------------------------------------------
(* The three input stages read a list of files each. *)
ListOption == [errors |-> "--errors", initrc |-> "--initrc", tags |-> "--parsetag"]
InputStage == proc.stage \in DOMAIN ListOption
List       == disk[proc.opts.value[ListOption[proc.stage]]]
Broken(p)  == [p EXCEPT !.outer = Len(List) + 1]    \* break out of the list loop
NextListed(p) == [p EXCEPT !.outer = @ + 1]

OpenList ==
  /\ InputStage /\ proc.outer = 0
  /\ \/ /\ List # Missing /\ NoFault
        /\ Proceed([proc EXCEPT !.outer = 1], staged, 0, FALSE)
     \/ /\ FaultIf(List # Missing)
        /\ Proceed(proc, staged, 1, TRUE)

InList == InputStage /\ proc.outer > 0 /\ proc.outer <= Len(List) /\ proc.doc = NoFile

(* A line the list's own tokenizer rejects, an empty one, or the end of    *)
(* what can be read.                                                       *)
SkipListed ==
  /\ InList
  /\ \/ /\ NoFault /\ ~TooLong(List[proc.outer])
        /\ \/ /\ Malformed(List[proc.outer])
              /\ Proceed(NextListed(proc), staged, 1, FALSE)
           \/ /\ List[proc.outer] = <<>>
              /\ Proceed(NextListed(proc), staged, 0, FALSE)
     \/ /\ FaultIf(~TooLong(List[proc.outer]))
        /\ Proceed(Broken(proc), staged, 1, FALSE)

Listed == List[proc.outer][1]
CanTake == /\ InList /\ List[proc.outer] # <<>>
           /\ ~TooLong(List[proc.outer]) /\ ~Malformed(List[proc.outer])

(* globalError and parseInitrc: a whole file.  Malformed contents do not   *)
(* break the loop over the list, a file that cannot be read does.          *)
ReadDocument ==
  /\ CanTake /\ proc.stage \in {"errors", "initrc"}
  /\ \E r \in Reads(Listed) :
       LET read == IF ~r.opened THEN Outcome(proc.db, 0)
                   ELSE IF proc.stage = "errors" THEN OverLines(ReadError, proc.db, r.lines)
                   ELSE ReadInitrc(proc.db, r.lines)
           cut   == proc.stage = "initrc" /\ r.opened /\ StopsEarly(proc.db, r.lines)
           after == [proc EXCEPT !.db = read.state]
       IN  /\ FaultIf(r.fault)
           /\ IF r.failed /\ ~cut THEN Proceed(Broken(after), staged, read.errors + 1, FALSE)
              ELSE Proceed(NextListed(after), staged, read.errors, FALSE)

-----------------------------------------------------------------------------
(* parseTag: a tagged source is copied line by line to its temporary file, *)
(* its regions replaced by the inclusion of a fragment.                    *)
StartTag(line) == Len(line) >= 2 /\ line[1] = "//" /\ line[2] = "[autoCode_tag]"
EndTag(line)   == Len(line) >= 2 /\ line[1] = "//" /\ line[2] = "[/tag]"

With(p, made) == [p EXCEPT !.registry = made.registry]

OpenSource ==
  /\ CanTake /\ proc.stage = "tags"
  /\ \/ LET made == MakeTmp(proc.registry, staged, Listed)
        IN  /\ disk[Listed] # Missing /\ NoFault
            /\ Proceed([With(proc, made) EXCEPT !.doc = Listed, !.at = 1, !.section = FALSE,
                                                !.fileError = FALSE], made.tmps, 0, FALSE)
     \/ /\ disk[Listed] = Missing /\ NoFault
        /\ Proceed(Broken(proc), staged, 1, FALSE)
     \/ /\ disk[Listed] # Missing /\ Fault
        /\ \E registry \in MakeTmpFailures(proc.registry, Listed) :
             Proceed([Broken(proc) EXCEPT !.registry = registry], staged, 1, FALSE)

Line        == disk[proc.doc][proc.at]
InSource    == proc.doc # NoFile /\ proc.at <= Len(disk[proc.doc])
NextLine(p) == [p EXCEPT !.at = @ + 1]
LeaveSource(p) == [p EXCEPT !.at = Len(disk[proc.doc]) + 1]
Wrote(tmps, lines) == [tmps EXCEPT ![proc.doc] = @ \o lines]
CanCopy     == InSource /\ ~TooLong(Line) /\ ~Malformed(Line)

(* Mutated form: text of the region is copied beside the inclusion. *)
CopyEveryLine ==
  /\ CanCopy /\ ~StartTag(Line) /\ NoFault
  /\ Proceed([NextLine(proc) EXCEPT !.section = @ /\ ~EndTag(Line)],
             Wrote(staged, <<Line>>), 0, FALSE)

CopyLine ==
  LET section == proc.section /\ ~EndTag(Line)
  IN  /\ CanCopy /\ ~StartTag(Line) /\ NoFault
      /\ Proceed([NextLine(proc) EXCEPT !.section = section],
                 Wrote(staged, IF section THEN <<>> ELSE <<Line>>), 0, FALSE)

(* A line without tokens is reported and lost; an unreadable one ends the   *)
(* source.                                                                  *)
RejectLine ==
  /\ InSource
  /\ \/ /\ ~TooLong(Line) /\ Malformed(Line) /\ NoFault
        /\ Proceed(NextLine(proc), staged, 1, FALSE)
     \/ /\ FaultIf(~TooLong(Line))
        /\ Proceed([LeaveSource(proc) EXCEPT !.fileError = TRUE], staged, 1, FALSE)

(* A start tag without a single name, or inside another region. *)
RejectTag ==
  /\ CanCopy /\ StartTag(Line) /\ NoFault
  /\ Len(Line) # 3 \/ proc.section
  /\ Proceed(LeaveSource(proc), staged, 1, FALSE)

Include(tag) == <<"#include", tag>>
Header       == << <<"generated">> >>

(* The fragment of a tag (named by it) is staged and written; unknown tags  *)
(* have only a header.  A file error withdraws the tag.                     *)
Signals == Reads(proc.opts.value["--gpio_signals"])
NoSignals == {[opened |-> TRUE, lines |-> <<>>, failed |-> FALSE, fault |-> FALSE]}

WriteFragment ==
  /\ CanCopy /\ StartTag(Line) /\ Len(Line) = 3 /\ ~proc.section
  /\ LET tag    == Line[3]
         begun  == Wrote(staged, <<Line, Include(tag)>>)
         made   == MakeTmp(proc.registry, begun, tag)
         failed == [LeaveSource(proc) EXCEPT !.fileError = TRUE]
         known  == tag \in Tags
     IN  \/ \E r \in IF tag = "gpio_signals" THEN Signals ELSE NoSignals :
              LET text == IF known /\ r.opened
                          THEN Written(tag, proc.db, proc.opts, r.lines) ELSE <<>>
                  tmps == [made.tmps EXCEPT ![tag] = Header \o text]
                  wrong == IF ~known THEN 1
                           ELSE IF r.opened THEN WriterErrors(tag, proc.db, r.lines) ELSE 0
              IN  /\ FaultIf(r.fault)
                  /\ IF r.failed THEN Proceed(With(failed, made), tmps, wrong + 1, FALSE)
                     ELSE Proceed([NextLine(With(proc, made)) EXCEPT !.section = TRUE,
                                     !.have = [t \in Tags |-> IF t = tag THEN @[t] + 1 ELSE @[t]]],
                                  tmps, wrong, FALSE)
         \/ /\ Fault     \* the temporary file, or its close, fails
            /\ \/ \E registry \in MakeTmpFailures(proc.registry, tag) :
                    Proceed([failed EXCEPT !.registry = registry], begun, 1, FALSE)
               \/ Proceed(With(failed, made), made.tmps, 1, FALSE)

(* An unterminated region, and closing source and temporary file. *)
CloseSource ==
  /\ proc.doc # NoFile /\ ~InSource
  /\ LET p == [proc EXCEPT !.doc = NoFile]
         open == IF proc.section THEN 1 ELSE 0
     IN  \/ /\ NoFault
            /\ Proceed(IF proc.fileError THEN Broken(p) ELSE NextListed(p), staged, open, FALSE)
         \/ /\ Fault
            /\ Proceed(Broken(p), staged, open + 1, FALSE)

-----------------------------------------------------------------------------
(* parseTagHave: every tag once; the GPIO tags only for a target with GPIO. *)
GpioTags == {"gpio_signals", "wire_gpio"}
TagExempt(tag) == tag \in GpioTags /\ proc.opts.value["--gpio_signals"] = NoValue
MissedTags == {tag \in Tags : ~TagExempt(tag) /\ proc.have[tag] # 1}

NextStage == [errors |-> "initrc", initrc |-> "tags", tags |-> "publish"]

(* Mutated form: the errors of a stage are not looked at when it ends. *)
CloseListUnchecked ==
  /\ InputStage /\ proc.doc = NoFile /\ proc.outer > 0 /\ proc.outer > Len(List)
  /\ NoFault
  /\ Proceed([proc EXCEPT !.stage = NextStage[@], !.outer = 0], staged,
             IF proc.stage = "tags" THEN Cardinality(MissedTags) ELSE 0, FALSE)

(* The end of a stage; nothing is published after an error. *)
CloseList ==
  /\ InputStage /\ proc.doc = NoFile /\ proc.outer > 0 /\ proc.outer > Len(List)
  /\ LET missed == IF proc.stage = "tags" THEN Cardinality(MissedTags) ELSE 0
         p == [proc EXCEPT !.stage = NextStage[@], !.outer = 0]
     IN  \/ NoFault /\ Proceed(p, staged, missed, TRUE)
         \/ Fault   /\ Proceed(p, staged, missed + 1, TRUE)

-----------------------------------------------------------------------------
(* fileCmpReplaceAll, entry by entry. *)
Publishing == proc.stage = "publish" /\ proc.next <= Len(proc.registry)

Publish ==
  /\ Publishing /\ NoFault
  /\ CanPublish(proc.registry, proc.next)
  /\ LET p == [proc EXCEPT !.registry = Inactive(@, proc.next), !.next = @ + 1]
     IN  \/ ReplaceDestination(proc.registry, proc.next) /\ proc' = [p EXCEPT !.updated = @ + 1]
         \/ KeepDestination(proc.registry, proc.next) /\ proc' = p
  /\ UNCHANGED <<edits, before>>

(* A failure stops it; what is published stays. *)
PublicationFails ==
  /\ Publishing
  /\ FaultIf(CanPublish(proc.registry, proc.next))
  /\ Proceed(proc, staged, 1, TRUE)

Finish ==
  /\ proc.stage = "publish" /\ ~Publishing
  /\ proc' = [Ended("done") EXCEPT !.updated = proc.updated]
  /\ UNCHANGED <<disk, staged, edits, faults, clean, before>>

(* A kill, or a power failure: the temporary files stay. *)
Kill ==
  /\ proc.stage \notin Ends
  /\ Fault
  /\ proc' = Ended("killed")
  /\ UNCHANGED <<disk, staged, edits, before>>

Step ==
  \/ ReadConfiguration
  \/ OpenList \/ SkipListed \/ ReadDocument \/ CloseList
  \/ OpenSource \/ CopyLine \/ RejectLine \/ RejectTag \/ WriteFragment \/ CloseSource
  \/ Publish \/ PublicationFails \/ Finish

Next == StartRun \/ EditInput \/ Step \/ Kill

Spec == Init /\ [][Next]_vars
=============================================================================
