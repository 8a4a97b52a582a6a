---------------------------- MODULE HostConsole ----------------------------
(***************************************************************************)
(* The host's USART driver (freebsd_usart.c) over the terminal of          *)
(* pc_console.c.  Keys wait in the terminal; a read polls them into a line *)
(* being edited and hands out submitted lines byte by byte, with signals   *)
(* masked.  What threads print is collected in a buffer without masking,   *)
(* and flushed to the screen in a masked section.                          *)
(***************************************************************************)
EXTENDS DriverControl, SequencesExt

CONSTANTS
  Printers,      \* the threads that print
  Printable,     \* the characters typed and printed
  InputSize,     \* PCCONSOLE_SIZE_INPUT
  TxSize,        \* FREEBSDUSART_SIZE_TXBUFFER
  MaxActivity    \* bound: keys pressed, print calls and commands

CarriageReturn == "CR"
Keys == Printable \cup {"enter", "backspace", "F10", "other"}

ASSUME ConsoleAssumption ==
  /\ Printable \cap {"enter", "backspace", "F10", "other", CarriageReturn} = {}
  /\ InputSize \in Nat \ {0, 1} /\ TxSize \in Nat \ {0}
  /\ MaxActivity \in Nat

VARIABLES
  hostUsart,     \* status, run level and last error, as a table of one driver
  consoleUp,     \* console_started
  halted,        \* the process has ended
  keys,          \* keys the terminal holds
  edit,          \* input_edit up to its length
  ready,         \* input_ready up to its length
  readyIndex,    \* input_ready_index
  txBytes,       \* tx_buffer
  txLength,      \* tx_length
  screen,        \* what the output window shows
  printing,      \* where each thread is in tx_buffer[tx_length++] = data
  typed,         \* auxiliary: the keys polled so far
  delivered,     \* auxiliary: the bytes reads have returned
  accepted,      \* auxiliary: the bytes writes have accepted and no init dropped
  mingled,       \* auxiliary: a store met a buffer others had changed
  prints         \* bound: print calls and commands made so far

input       == <<keys, edit, ready, readyIndex, typed, delivered>>
output      == <<txBytes, txLength, screen, printing, accepted, mingled>>
consoleVars == <<hostUsart, consoleUp, halted, keys, edit, ready, readyIndex, txBytes,
                 txLength, screen, printing, typed, delivered, accepted, mingled, prints>>

NotPrinting == [busy |-> FALSE, byte |-> CarriageReturn, index |-> 0]

ConsoleTypeOK ==
  /\ hostUsart \in [{"usart"} -> DriverRecords]
  /\ {consoleUp, halted, mingled} \subseteq BOOLEAN
  /\ keys \in Seq(Keys) /\ typed \in Seq(Keys)
  /\ edit \in Seq(Printable) /\ Len(edit) < InputSize
  /\ ready \in Seq(Printable) /\ readyIndex \in 0 .. Len(ready)
  /\ DOMAIN txBytes = 0 .. TxSize - 1 /\ txLength \in 0 .. TxSize
  /\ \A t \in Printers : printing[t].index \in 0 .. TxSize
  /\ prints \in 0 .. MaxActivity

(* Before or after the startup of the driver. *)
ConsoleInit ==
  /\ consoleUp \in BOOLEAN /\ halted = FALSE
  /\ hostUsart = [d \in {"usart"} |->
       IF consoleUp THEN [ColdDriver EXCEPT !.bits = {"init", "start"}] ELSE ColdDriver]
  /\ keys = <<>> /\ edit = <<>> /\ ready = <<>> /\ readyIndex = 0
  /\ txBytes = [i \in 0 .. TxSize - 1 |-> CarriageReturn] /\ txLength = 0
  /\ screen = <<>>
  /\ printing = [t \in Printers |-> NotPrinting]
  /\ typed = <<>> /\ delivered = <<>> /\ accepted = <<>> /\ mingled = FALSE
  /\ prints = 0

-----------------------------------------------------------------------------
HostUsartStatus(table) == HostStatus(table, "usart")
HostUsartRunning(table) == RequireRunning(HostUsartStatus(table), "usart")

(* Neither init nor start of this driver asks whether it is dead. *)
HostUsartControl(table, c, consoleFits) ==
  Control(table, "usart", c,
    IF consoleFits THEN HostInit(table, "usart") ELSE SetError(table, "usart", "DEPENDENCY"),
    HostStart(table, "usart"),
    HostUsartStatus(ClearStart(table, "usart")),
    HostUsartStatus(Store(table, "usart", c)))

Activity == Len(keys) + Len(typed) + prints

CountPrint == Activity < MaxActivity /\ prints' = prints + 1

(* An initialization sets the console up once, whatever the terminal is    *)
(* like later, and drops the output collected.                             *)
HostUsartCommand(c, terminalFits) ==
  /\ ~halted
  /\ CountPrint
  /\ LET fits   == consoleUp \/ terminalFits
         opened == c.op = "INIT" /\ fits
     IN  /\ hostUsart' = HostUsartControl(hostUsart, c, fits).table
         /\ consoleUp' = (consoleUp \/ opened)
         /\ txLength' = IF opened THEN 0 ELSE txLength
         /\ accepted' = IF opened THEN screen ELSE accepted
         /\ mingled' = (mingled \/ (opened /\ \E t \in Printers : printing[t].busy))
  /\ UNCHANGED <<halted, input, txBytes, screen, printing>>

-----------------------------------------------------------------------------
PressKey(k) ==
  /\ ~halted /\ consoleUp
  /\ Activity < MaxActivity
  /\ keys' = Append(keys, k)
  /\ UNCHANGED <<hostUsart, consoleUp, halted, edit, ready, readyIndex, typed, delivered,
                 output, prints>>

(* What a key does to the line being edited. *)
Edited(line, k) ==
  CASE k \in Printable /\ Len(line) < InputSize - 1 -> Append(line, k)
    [] k = "backspace" /\ line # <<>> -> Front(line)
    [] OTHER -> line

(* pc_consolePollInput reads keys up to the first that submits a line or   *)
(* ends the process, or all of them.                                       *)
PolledCount ==
  LET ends == {i \in DOMAIN keys : keys[i] \in {"enter", "F10"}}
  IN  IF ends = {} THEN Len(keys) ELSE CHOOSE i \in ends : \A j \in ends : i <= j

Poll ==
  LET polled == SubSeq(keys, 1, PolledCount)
      last   == IF polled = <<>> THEN "other" ELSE polled[Len(polled)]
      line   == FoldLeft(Edited, edit, polled)
  IN  [keys |-> SubSeq(keys, PolledCount + 1, Len(keys)), typed |-> typed \o polled,
       edit |-> IF last = "enter" THEN <<>> ELSE line,
       ready |-> IF last = "enter" THEN line ELSE ready,
       index |-> IF last = "enter" THEN 0 ELSE readyIndex, halts |-> last = "F10"]

(* Mutated form: the terminal is polled while a line is being handed out.  *)
AlwaysPolls == consoleUp

(* A line that was submitted stays until all its bytes have been read. *)
PollsNow == consoleUp /\ readyIndex >= Len(ready)

(* hal_usartRead over pc_consoleReadByte. *)
HostUsartRead ==
  /\ ~halted
  /\ LET asked  == HostUsartRunning(hostUsart)
         after  == IF PollsNow THEN Poll
                   ELSE [keys |-> keys, typed |-> typed, edit |-> edit, ready |-> ready,
                         index |-> readyIndex, halts |-> FALSE]
         index  == after.index
         have   == index < Len(after.ready)
         last   == index + 1 = Len(after.ready)
     IN  IF asked.state # "running"
         THEN hostUsart' = asked.table /\ UNCHANGED <<halted, input>>
         ELSE /\ hostUsart' = IF have \/ after.halts THEN asked.table
                              ELSE LastError(asked.table, "usart", "READ_FAILED")
              /\ halted' = after.halts
              /\ keys' = after.keys /\ typed' = after.typed /\ edit' = after.edit
              /\ ready' = IF have /\ last THEN <<>> ELSE after.ready
              /\ readyIndex' = CASE have /\ ~last -> index + 1
                                 [] OTHER -> 0
              /\ delivered' = IF have THEN Append(delivered, after.ready[index + 1])
                              ELSE delivered
  /\ UNCHANGED <<consoleUp, output, prints>>

-----------------------------------------------------------------------------
(* hal_usartWriteByte: tx_buffer[tx_length++] = data, in two steps between *)
(* which the thread may be switched.                                       *)
WriteByteBegin(t, b) ==
  /\ ~halted /\ ~printing[t].busy
  /\ CountPrint
  /\ LET asked == HostUsartRunning(hostUsart)
     IN  IF asked.state # "running" \/ txLength >= TxSize
         THEN /\ hostUsart' = IF asked.state = "running"
                              THEN LastError(asked.table, "usart", "WRITE_FAILED")
                              ELSE asked.table
              /\ UNCHANGED printing
         ELSE /\ hostUsart' = asked.table
              /\ printing' = [printing EXCEPT ![t] =
                               [busy |-> TRUE, byte |-> b, index |-> txLength]]
  /\ UNCHANGED <<consoleUp, halted, input, txBytes, txLength, screen, accepted, mingled>>

WriteByteEnd(t) ==
  /\ ~halted /\ printing[t].busy
  /\ txBytes' = [txBytes EXCEPT ![printing[t].index] = printing[t].byte]
  /\ txLength' = printing[t].index + 1
  /\ accepted' = Append(accepted, printing[t].byte)
  /\ mingled' = (mingled \/ txLength # printing[t].index)
  /\ printing' = [printing EXCEPT ![t] = NotPrinting]
  /\ UNCHANGED <<hostUsart, consoleUp, halted, input, screen, prints>>

Collected == [i \in 1 .. txLength |-> txBytes[i - 1]]

(* pc_consoleWriteByte leaves carriage returns out. *)
Written(window, b) == IF b = CarriageReturn THEN window ELSE Append(window, b)
Shown(bytes) == FoldLeft(Written, <<>>, bytes)

SendTXBuffer(t) ==
  /\ ~halted /\ ~printing[t].busy
  /\ CountPrint
  /\ LET asked == HostUsartRunning(hostUsart)
     IN  /\ hostUsart' = asked.table
         /\ IF asked.state = "running"
            THEN screen' = screen \o Shown(Collected) /\ txLength' = 0
            ELSE UNCHANGED <<screen, txLength>>
  /\ UNCHANGED <<consoleUp, halted, input, txBytes, printing, accepted, mingled>>

ConsoleNext ==
  \/ \E op \in LifeOps, fits \in BOOLEAN : HostUsartCommand(Plain(op), fits)
  \/ \E k \in Keys : PressKey(k)
  \/ HostUsartRead
  \/ \E t \in Printers :
       \/ \E b \in Printable \cup {CarriageReturn} : WriteByteBegin(t, b)
       \/ WriteByteEnd(t) \/ SendTXBuffer(t)

ConsoleSpec == ConsoleInit /\ [][ConsoleNext]_consoleVars

-----------------------------------------------------------------------------
(* The lines a terminal with this line length makes of the keys, one after *)
(* the other, and the line not yet submitted.                              *)
Typing(t, k) ==
  CASE k = "enter" -> [lines |-> t.lines \o t.line, line |-> <<>>]
    [] k = "backspace" ->
         [t EXCEPT !.line = SubSeq(@, 1, IF @ = <<>> THEN 0 ELSE Len(@) - 1)]
    [] k \in Printable /\ Len(t.line) + 1 < InputSize -> [t EXCEPT !.line = Append(@, k)]
    [] OTHER -> t

Typist(all) == FoldLeft(Typing, [lines |-> <<>>, line |-> <<>>], all)

(* Reads deliver the submitted lines, each byte once and in order, however *)
(* keys and reads fall: "Keep one completed input line until its bytes     *)
(* have been consumed" (pc_console.c).                                     *)
InputIsTyped ==
  /\ delivered \o SubSeq(ready, readyIndex + 1, Len(ready)) = Typist(typed).lines
  /\ edit = Typist(typed).line

(* What was accepted for printing is on the screen or still collected,     *)
(* once and in order, unless threads printed over each other or the driver *)
(* was initialized meanwhile.                                              *)
OutputIsPrinted == ~mingled => Shown(accepted) = screen \o Shown(Collected)
=============================================================================
