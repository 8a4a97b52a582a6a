-------------------------------- MODULE Scli --------------------------------
(***************************************************************************)
(* The command line service (scli.c): every poll gathers what the receive  *)
(* queue holds into one static line, cuts it into words in place and       *)
(* dispatches the first as a command.  The receive ring is taken by its    *)
(* promise, ByteQueue, while the USART interrupt goes on filling it.       *)
(***************************************************************************)
EXTENDS Integers, Sequences, FiniteSetsExt

CONSTANTS
  LineSize,         \* SCLI_LINE_SIZE
  ArgumentMax,      \* SCLI_ARGUMENT_COUNT_MAX
  RxCapacity,       \* what the receive ring holds
  Letters,          \* characters that are part of words
  Space, Newline, Nul,
  Commands,         \* the words of the generated command table
  DriverCommands    \* those of them that can stop and start the USART

Chars == Letters \cup {Space, Newline, Nul}
Cells == 0 .. LineSize - 1

ASSUME ScliAssumption ==
  /\ LineSize \in Nat \ {0, 1}
  /\ ArgumentMax \in Nat \ {0}
  /\ RxCapacity \in Nat \ {0}
  /\ Letters \cap {Space, Newline, Nul} = {}
  /\ Space # Newline /\ Newline # Nul /\ Nul # Space
  /\ Commands \subseteq Seq(Letters)
  /\ DriverCommands \subseteq Commands

VARIABLES
  rx,          \* the receive queue
  listening,   \* the USART driver is RUNNING
  place,       \* waiting for the next poll, or reading
  line,        \* scli_line
  index,       \* scliRead's index
  data,        \* scliRead's data
  argv         \* the words of the line processed last, until the next poll

vars == <<rx, listening, place, line, index, data, argv>>

TypeOK ==
  /\ rx \in Seq(Chars) /\ Len(rx) <= RxCapacity
  /\ listening \in BOOLEAN
  /\ place \in {"wait", "read"}
  /\ line \in [Cells -> Chars]
  /\ index \in Cells
  /\ data \in Chars
  /\ argv \in Seq(Seq(Chars)) /\ Len(argv) <= ArgumentMax

Rx == INSTANCE ByteQueue WITH
        Capacity <- RxCapacity, Bytes <- Chars, NoByte <- Nul, queue <- rx, out <- data

Init ==
  /\ rx = <<>>
  /\ listening = TRUE
  /\ place = "wait"
  /\ line = [i \in Cells |-> Nul]
  /\ index = 0
  /\ data = Nul
  /\ argv = <<>>

-----------------------------------------------------------------------------
(* scliTokenize.  A word starts at the first cell from i on that is no     *)
(* space and ends at the next space or terminator, where the code writes a *)
(* terminator of its own.                                                  *)
StartOf(text, i) == Min({j \in i .. LineSize - 1 : text[j] # Space})
EndOf(text, i)   == Min({j \in i .. LineSize - 1 : text[j] \in {Space, Nul}})

NextCut(text, i) ==
  [from |-> StartOf(text, i), to |-> EndOf(text, StartOf(text, i))]

(* The words from cell i on.  The code goes on behind each word it has     *)
(* cut, even if that word ended at the line's own terminator.              *)
CutsFrom(text) ==
  LET cut[i \in 0 .. LineSize] ==
        IF i = LineSize \/ text[i] = Nul
        THEN <<>>
        ELSE <<NextCut(text, i)>> \o cut[NextCut(text, i).to + 1]
  IN  cut

Cuts(text) ==
  LET all == CutsFrom(text)[0]
  IN  SubSeq(all, 1, Min({Len(all), ArgumentMax}))

Word(text, cut) == [k \in 1 .. cut.to - cut.from |-> text[cut.from + k - 1]]

Words(text, cuts) == [k \in DOMAIN cuts |-> Word(text, cuts[k])]

(* Room for another word makes the code look at the cell behind the word.  *)
(* Behind the last cell of the line lies foreign memory: whatever it holds *)
(* but a terminator makes scliTokenize return no words at all.             *)
LooksBeyond(cuts) ==
  /\ cuts # <<>> /\ Len(cuts) < ArgumentMax
  /\ cuts[Len(cuts)].to = LineSize - 1

Tokens(cuts) == IF LooksBeyond(cuts) THEN {cuts, <<>>} ELSE {cuts}

Cut(text, cuts) == [i \in Cells |-> IF \E k \in DOMAIN cuts : i = cuts[k].to
                                    THEN Nul ELSE text[i]]

(* Mutated form: no terminator is written behind what was read. *)
TerminatedNever == line

(* The line scliRead hands over. *)
Terminated == [line EXCEPT ![index] = Nul]

-----------------------------------------------------------------------------
(* The receive interrupt, while the queue has room. *)
Receive(c) ==
  /\ Rx!Put(c)
  /\ UNCHANGED <<listening, place, line, index, argv>>

(* The poll delay has elapsed.  The locals of the last poll are gone. *)
PollBegin ==
  /\ place = "wait"
  /\ place' = "read"
  /\ argv' = <<>>
  /\ UNCHANGED <<rx, listening, line, index, data>>

(* Mutated form: the loop's condition does not keep the last cell for the  *)
(* terminator.                                                             *)
ReadsOnToTheEnd == data # Newline /\ index < LineSize

(* Mutated form: the index is advanced too early.                          *)
ReadByteBehind ==
  /\ place = "read" /\ data # Newline /\ index < LineSize - 1
  /\ listening
  /\ Rx!Take
  /\ line' = [line EXCEPT ![index + 1] = data']
  /\ index' = index + 1
  /\ UNCHANGED <<listening, place, argv>>

(* scliRead's loop condition. *)
ReadsOn == data # Newline /\ index < LineSize - 1

ReadByte ==
  /\ place = "read" /\ ReadsOn
  /\ listening
  /\ Rx!Take
  /\ line' = [line EXCEPT ![index] = data']
  /\ index' = index + 1
  /\ UNCHANGED <<listening, place, argv>>

(* scliCommandDispatch: a driver command can stop or start the USART. *)
Dispatch(words) ==
  /\ argv' = words
  /\ IF words # <<>> /\ words[1] \in DriverCommands
     THEN listening' \in BOOLEAN
     ELSE UNCHANGED listening

(* Mutated form: data keeps the newline of the last line. *)
LineProcessKeepsData ==
  /\ place = "read"
  /\ ~ReadsOn \/ rx = <<>> \/ ~listening
  /\ LET cuts == Cuts(Terminated)
     IN  /\ line' = Cut(Terminated, cuts)
         /\ \E tokens \in Tokens(cuts) : Dispatch(Words(Terminated, tokens))
  /\ place' = "wait"
  /\ index' = 0
  /\ UNCHANGED <<rx, data>>

(* scliRead ends: the line is terminated, cut and dispatched. *)
LineProcess ==
  /\ place = "read"
  /\ ~ReadsOn \/ rx = <<>> \/ ~listening
  /\ LET cuts == Cuts(Terminated)
     IN  /\ line' = Cut(Terminated, cuts)
         /\ \E tokens \in Tokens(cuts) : Dispatch(Words(Terminated, tokens))
  /\ place' = "wait"
  /\ index' = 0 /\ data' = Nul
  /\ UNCHANGED rx

Service == PollBegin \/ ReadByte \/ LineProcess

Next == Service \/ \E c \in Chars : Receive(c)

Spec == Init /\ [][Next]_vars

(* The service's thread keeps being scheduled; nothing is assumed of input. *)
LiveSpec == Spec /\ WF_vars(Service)

-----------------------------------------------------------------------------
(* The last cell of the line always terminates it: the scans of the        *)
(* tokenizer end inside, whatever older lines left behind.                 *)
LineIsTerminated == line[LineSize - 1] = Nul

(* The command name is always among the bytes of this very poll, even if   *)
(* older lines are still behind the terminator: nothing is executed again, *)
(* and a poll without input executes nothing.  Nor are two lines of the    *)
(* sender merged into one command.                                         *)
CommandIsTyped ==
  [][LineProcess =>
       /\ argv' # <<>> => index > 0 /\ Cuts(Terminated)[1].to <= index
       /\ \A i \in 0 .. index - 2 : line[i] # Newline]_vars

(* A poll ends, however fast input keeps coming, and a full receive queue  *)
(* gets room again, unless a command stopped the USART.                    *)
PollingGoesOn ==
  /\ place = "read" ~> place = "wait"
  /\ Len(rx) = RxCapacity ~> (Len(rx) < RxCapacity \/ ~listening)

(* assert(scliTokenize(argv) == 2U) for "stack depth" after a longer line  *)
(* (test_scli_index.c): arguments come from the line itself.               *)
ArgumentsAreTyped ==
  [][LineProcess => \A k \in DOMAIN Cuts(Terminated) : Cuts(Terminated)[k].to <= index]_vars
=============================================================================
