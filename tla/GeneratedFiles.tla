--------------------------- MODULE GeneratedFiles ---------------------------
(***************************************************************************)
(* fileUtility.c: files written beside their destinations and published    *)
(* at the end, one rename after another.                                   *)
(*                                                                         *)
(* What is on disk outlives the process; the registry of temporary files   *)
(* is process memory.  An error or a normal exit removes the temporary     *)
(* files the registry holds, a kill does not.                              *)
(***************************************************************************)
EXTENDS Integers, SequencesExt

CONSTANTS
  Files,       \* the names of files
  Missing,     \* the content of a file that does not exist
  TooLong(_)   \* whether a line does not fit the buffer of fileGetLine

VARIABLES
  disk,        \* [file -> its lines]
  staged       \* [file -> the lines of its .tmp file]

NoRegistry == <<>>

(* Mutated form: fopen(name, "a+") keeps what a killed run has left. *)
MakeTmpAppending(registry, tmps, f) ==
  [registry |-> Append(registry, [name |-> f, active |-> TRUE]),
   tmps     |-> [tmps EXCEPT ![f] = IF @ = Missing THEN <<>> ELSE @]]

(* fileMakeTmp: registered, created and emptied.  The same file may be     *)
(* registered twice.                                                       *)
MakeTmp(registry, tmps, f) ==
  [registry |-> Append(registry, [name |-> f, active |-> TRUE]),
   tmps     |-> [tmps EXCEPT ![f] = <<>>]]

(* It fails before, or after, its entry was appended. *)
MakeTmpFailures(registry, f) ==
  {registry, Append(registry, [name |-> f, active |-> FALSE])}

(* fileTmpCleanupAll *)
CleanedUp(registry, tmps) ==
  [f \in DOMAIN tmps |->
     IF [name |-> f, active |-> TRUE] \in ToSet(registry) THEN Missing ELSE tmps[f]]

-----------------------------------------------------------------------------
(* fileCompare reads both files line by line up to the first difference;   *)
(* a line that is too long is an error, unless they differ before it.      *)
Compare(old, new) ==
  IF old = Missing THEN "different"
  ELSE LET Read(file, i) == IF i > Len(file) THEN "end"
                            ELSE IF TooLong(file[i]) THEN "error" ELSE "line"
           Stops(i) == \/ "error" \in {Read(old, i), Read(new, i)}
                       \/ "end" \in {Read(old, i), Read(new, i)}
                       \/ old[i] # new[i]
           stop == CHOOSE i \in 1 .. Len(old) + 1 :
                     Stops(i) /\ \A j \in 1 .. i - 1 : ~Stops(j)
       IN  IF "error" \in {Read(old, stop), Read(new, stop)} THEN "error"
           ELSE IF Read(old, stop) = "end" /\ Read(new, stop) = "end" THEN "same"
           ELSE "different"

(* One round of fileCmpReplaceAll, for the registry's entry n. *)
Inactive(registry, n) == [registry EXCEPT ![n].active = FALSE]

CanPublish(registry, n) ==
  LET f == registry[n].name
  IN  staged[f] # Missing /\ Compare(disk[f], staged[f]) # "error"

ReplaceDestination(registry, n) ==
  LET f == registry[n].name
  IN  /\ Compare(disk[f], staged[f]) = "different"
      /\ disk' = [disk EXCEPT ![f] = staged[f]]
      /\ staged' = [staged EXCEPT ![f] = Missing]

KeepDestination(registry, n) ==
  LET f == registry[n].name
  IN  /\ Compare(disk[f], staged[f]) = "same"
      /\ staged' = [staged EXCEPT ![f] = Missing]
      /\ UNCHANGED disk
=============================================================================
