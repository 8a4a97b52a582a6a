-------------------------- MODULE GeneratorProofs --------------------------
(* That a run of autoCode with a recorded error changes no file.           *)
EXTENDS GeneratorContract, TLAPS

Memory == {"stage", "maximum", "errors", "opts", "db", "have", "outer", "doc", "at",
           "section", "fileError", "registry", "next", "updated"}

(* The process keeps the fields of its memory, and comes to publication    *)
(* with every source closed and without an error.                          *)
ErrorFree ==
  /\ DOMAIN proc = Memory
  /\ proc.stage = "publish" => proc.doc = NoFile /\ ~(proc.errors > 0)

LEMMA EndedProcess ==
  ASSUME NEW end
  PROVE  DOMAIN Ended(end) = Memory /\ Ended(end).stage = end
BY DEF Ended, NoProcess, Memory

(* Going on after a handler: a stage that ends on its error count is       *)
(* entered without errors, any other keeps its name.                       *)
LEMMA ProceedStaysErrorFree ==
  ASSUME NEW p, NEW tmps, NEW n, NEW checked,
         DOMAIN p = Memory,
         p.stage # "publish" \/ (checked /\ p.doc = NoFile),
         Proceed(p, tmps, n, checked)
  PROVE  ErrorFree' /\ UNCHANGED disk
<1>1. CASE proc' = Ended("failed")
  BY <1>1, EndedProcess DEF ErrorFree, Proceed
<1>2. CASE proc' = [p EXCEPT !.errors = p.errors + n] /\ ~(checked /\ p.errors + n > 0)
  <2>1. DOMAIN proc' = Memory /\ proc'.stage = p.stage
                          /\ proc'.doc = p.doc /\ proc'.errors = p.errors + n
    BY <1>2 DEF Memory
  <2>2. QED
    BY <2>1, <1>2 DEF ErrorFree, Proceed
<1>3. QED
  BY <1>1, <1>2 DEF Proceed

(* Reading, copying and writing leave stage and disk as they are.          *)
LEMMA InputKeepsErrorFree ==
  ASSUME ErrorFree, InputStage \/ proc.doc # NoFile,
         OpenList \/ SkipListed \/ ReadDocument \/ OpenSource \/ CopyLine \/ RejectLine
           \/ RejectTag \/ WriteFragment \/ CloseSource
  PROVE  ErrorFree' /\ UNCHANGED disk
<1> DEFINE Kept(p) == DOMAIN p = Memory /\ p.stage # "publish"
<1>1. DOMAIN proc = Memory /\ proc.stage # "publish"
  BY DEF ErrorFree, InputStage, ListOption
<1>2. ASSUME NEW p, NEW tmps, NEW n, Kept(p), Proceed(p, tmps, n, FALSE)
      PROVE  ErrorFree' /\ UNCHANGED disk
  BY <1>2, ProceedStaysErrorFree
<1>3. CASE OpenList
  BY <1>1, <1>3, ProceedStaysErrorFree DEF OpenList, Memory
<1>4. CASE SkipListed
  BY <1>1, <1>2, <1>4 DEF SkipListed, NextListed, Broken, Memory
<1>5. CASE ReadDocument
  BY <1>1, <1>2, <1>5 DEF ReadDocument, NextListed, Broken, Memory
<1>6. CASE OpenSource
  BY <1>1, <1>2, <1>6 DEF OpenSource, With, Broken, Memory
<1>7. CASE CopyLine
  BY <1>1, <1>2, <1>7 DEF CopyLine, NextLine, Memory
<1>8. CASE RejectLine
  BY <1>1, <1>2, <1>8 DEF RejectLine, NextLine, LeaveSource, Memory
<1>9. CASE RejectTag
  BY <1>1, <1>2, <1>9 DEF RejectTag, LeaveSource, Memory
<1>10. CASE WriteFragment
  BY <1>1, <1>2, <1>10 DEF WriteFragment, With, NextLine, LeaveSource, Memory
<1>11. CASE CloseSource
  BY <1>1, <1>2, <1>11 DEF CloseSource, NextListed, Broken, Memory
<1>12. QED
  BY <1>3, <1>4, <1>5, <1>6, <1>7, <1>8, <1>9, <1>10, <1>11

LEMMA StepKeepsErrorFree ==
  ASSUME ErrorFree, Next
  PROVE  ErrorFree' /\ (disk' # disk /\ proc.stage \notin Ends =>
                          proc.stage = "publish" /\ ~(proc.errors > 0))
<1>1. CASE StartRun
  <2>1. DOMAIN proc' = Memory /\ proc'.stage = "options"
    BY <1>1 DEF StartRun, NoProcess, Memory
  <2>2. QED
    BY <1>1, <2>1 DEF StartRun, ErrorFree
<1>2. CASE EditInput
  <2>1. DOMAIN proc' = Memory /\ proc'.stage = "none"
    BY <1>2 DEF EditInput, NoProcess, Memory
  <2>2. QED
    BY <1>2, <2>1 DEF EditInput, ErrorFree, Ends
<1>3. CASE Kill
  BY <1>3, EndedProcess DEF Kill, ErrorFree
<1>4. CASE ReadConfiguration
  <2>1. PICK opts, maximum, errors :
          Proceed([proc EXCEPT !.stage = "errors", !.opts = opts, !.maximum = maximum],
                  staged, errors, TRUE)
    BY <1>4 DEF ReadConfiguration
  <2>2. QED
    BY <2>1, ProceedStaysErrorFree DEF ErrorFree, Memory
<1>5. CASE OpenList \/ SkipListed \/ ReadDocument \/ OpenSource \/ CopyLine \/ RejectLine
           \/ RejectTag \/ WriteFragment \/ CloseSource
  <2>1. InputStage \/ proc.doc # NoFile
    BY <1>5 DEF OpenList, SkipListed, ReadDocument, OpenSource, CopyLine, RejectLine,
                RejectTag, WriteFragment, CloseSource, CanTake, InList, CanCopy, InSource
  <2>2. QED
    BY <1>5, <2>1, InputKeepsErrorFree
<1>6. CASE CloseList
  <2>1. PICK stage, errors :
          Proceed([proc EXCEPT !.stage = stage, !.outer = 0], staged, errors, TRUE)
    BY <1>6 DEF CloseList
  <2>2. DOMAIN proc = Memory /\ proc.doc = NoFile
    BY <1>6 DEF CloseList, ErrorFree
  <2>3. QED
    BY <2>1, <2>2, ProceedStaysErrorFree DEF Memory
<1>7. CASE Publish
  <2>1. proc.stage = "publish"
    BY <1>7 DEF Publish, Publishing
  <2>2. /\ DOMAIN proc' = DOMAIN proc /\ proc'.stage = proc.stage
        /\ proc'.errors = proc.errors /\ proc'.doc = proc.doc
    BY <1>7 DEF Publish, ErrorFree, Memory
  <2>3. QED
    BY <2>1, <2>2 DEF ErrorFree
<1>8. CASE PublicationFails
  BY <1>8, ProceedStaysErrorFree DEF PublicationFails, Publishing, ErrorFree
<1>9. CASE Finish
  <2>1. DOMAIN proc' = Memory /\ proc'.stage = "done" /\ disk' = disk
    BY <1>9, EndedProcess DEF Finish, Memory
  <2>2. QED
    BY <2>1 DEF ErrorFree
<1>10. QED
  BY <1>1, <1>2, <1>3, <1>4, <1>5, <1>6, <1>7, <1>8, <1>9 DEF Next, Step

(* Whatever its inputs, faults and predecessors are: a run that has        *)
(* reported an error changes no file, and files change only once every     *)
(* stage is through (the order of main in autoCode.c).                     *)
THEOREM PublicationIsErrorFree ==
  Spec => PublishesErrorFree
<1>1. Init => ErrorFree
  <2>1. DOMAIN NoProcess = Memory /\ NoProcess.stage = "none"
    BY DEF NoProcess, Memory
  <2>2. QED
    BY <2>1 DEF Init, Fresh, ErrorFree
<1>2. ErrorFree /\ [Next]_vars => ErrorFree'
  <2>1. CASE UNCHANGED vars
    BY <2>1 DEF vars, ErrorFree
  <2>2. QED
    BY <2>1, StepKeepsErrorFree
<1>3. ErrorFree /\ [Next]_vars =>
        [disk' # disk /\ proc.stage \notin Ends =>
           proc.stage = "publish" /\ ~(proc.errors > 0)]_vars
  BY StepKeepsErrorFree
<1>4. QED
  BY <1>1, <1>2, <1>3, PTL DEF Spec, PublishesErrorFree
=============================================================================
