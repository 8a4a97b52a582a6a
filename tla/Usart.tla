------------------------------- MODULE Usart -------------------------------
(***************************************************************************)
(* The USART driver (at2560_usart.c) and the system calls that use it:     *)
(* sc_usartRead, sc_consoleWriteByte, sc_consoleFlush.                     *)
(*                                                                         *)
(* Two rings: the receive interrupt fills one that a thread empties; the   *)
(* other is filled and flushed by the thread that prints.  Overlapping     *)
(* prints are ruled out by the formatter's contract (tm_snprintf.c), and   *)
(* the command line is the only service that prints, reads and commands    *)
(* the driver, so one thread makes all calls.  The interrupt may fall      *)
(* between any two steps of it, except in a masked section.                *)
(***************************************************************************)
EXTENDS Integers, Sequences

CONSTANTS
  Size,      \* AT2560USART_SIZE_BUFFER
  RxBytes,   \* the bytes received
  TxBytes,   \* the bytes printed
  NoByte     \* a byte of no interest: static zero, or a boot message

Index == 0 .. Size - 1
Cells == RxBytes \cup TxBytes \cup {NoByte}
BootByteCount == 5

Errors == {"none", "notRunning", "notInitialized", "rxFull", "rxEmpty", "txFull"}
Places == {"idle", "readSnapshot", "writeSnapshot", "writeFlush", "writeRetry",
           "retrySnapshot", "flush", "flushSnapshot"}

ASSUME UsartAssumption ==
  /\ Size \in Nat \ {0, 1}
  /\ NoByte \notin RxBytes \cup TxBytes

VARIABLES
  rxBuf, rxHead, rxTail,   \* buffer_rx and its indices
  txBuf, txHead, txTail,   \* buffer_tx and its indices
  status,                  \* usart_status
  rxie,                    \* RXCIE1: the receive interrupt is enabled
  udre,                    \* UDRE1: the transmit register is empty
  udr,                     \* the byte in the transmit register
  line,                    \* the byte the hardware has sent last
  lastError,               \* usart_last_error, shared with the interrupt
  place,                   \* where the thread is
  byte,                    \* the byte sc_consoleWriteByte was called with
  data,                    \* the byte sc_usartRead delivered last
  result,                  \* the error code the last call returned
  puts                     \* auxiliary: bytes the last write call queued

rxVars == <<rxBuf, rxHead, rxTail>>
txVars == <<txBuf, txHead, txTail>>
wire   == <<udre, udr, line>>
vars == <<rxBuf, rxHead, rxTail, txBuf, txHead, txTail, status, rxie, udre, udr,
          line, lastError, place, byte, data, result, puts>>

UsartBits == [init : BOOLEAN, start : BOOLEAN]

TypeOK ==
  /\ rxBuf \in [Index -> Cells] /\ rxHead \in Index /\ rxTail \in Index
  /\ txBuf \in [Index -> Cells] /\ txHead \in Index /\ txTail \in Index
  /\ status \in UsartBits
  /\ rxie \in BOOLEAN
  /\ udre \in BOOLEAN
  /\ udr \in Cells
  /\ line \in Cells
  /\ lastError \in Errors
  /\ place \in Places
  /\ byte \in Cells
  /\ data \in Cells
  /\ result \in Errors
  /\ puts \in 0 .. 1

-----------------------------------------------------------------------------
(* Mutated form: the index is not masked. *)
NextIndexUnmasked(i) == i + 1

(* CB_NEXT: the mask wraps an index of a power-of-two ring. *)
NextIndex(i) == IF i = Size - 1 THEN 0 ELSE i + 1

(* Mutated form: the check leaves no empty cell between head and tail. *)
RingNeverFull(head, tail) == FALSE

(* CB_FULL and CB_EMPTY: one cell always stays empty. *)
RingFull(head, tail)  == NextIndex(head) = tail
RingEmpty(head, tail) == head = tail

(* boot.c has started the driver, printed and flushed its five progress    *)
(* bytes, which have left; the receive ring was never used.                *)
Init ==
  /\ rxBuf = [i \in Index |-> NoByte] /\ rxHead = 0 /\ rxTail = 0
  /\ txBuf = [i \in Index |-> NoByte]
  /\ txHead = BootByteCount % Size /\ txTail = txHead
  /\ status = [init |-> TRUE, start |-> TRUE]
  /\ rxie = TRUE
  /\ udre = TRUE
  /\ udr = NoByte
  /\ line = NoByte
  /\ lastError = "none"
  /\ place = "idle"
  /\ byte = NoByte
  /\ data = NoByte
  /\ result = "none"
  /\ puts = 0

UsartRunning == status.init /\ status.start

(* What usartRequireRunning records when the driver is not running; START  *)
(* is only ever set after INIT, which is never cleared.                    *)
NotRunning == ~UsartRunning /\ lastError' = "notRunning"

-----------------------------------------------------------------------------
(* Mutated form: sc_usartRead takes its error snapshot unmasked. *)
UnmaskedEverywhere == TRUE

(* The atomic section of sc_usartRead lasts until its snapshot is taken. *)
Unmasked == place # "readSnapshot"

(* ISR(USART1_RX_vect) *)
ReceiveByte(b) ==
  /\ rxie /\ Unmasked
  /\ IF RingFull(rxHead, rxTail)
     THEN lastError' = "rxFull" /\ UNCHANGED <<rxBuf, rxHead>>
     ELSE /\ rxBuf' = [rxBuf EXCEPT ![rxHead] = b]
          /\ rxHead' = NextIndex(rxHead)
          /\ UNCHANGED lastError
  /\ UNCHANGED <<rxTail, txVars, status, rxie, wire, place, byte, data, result, puts>>

(* The hardware sends the transmit register's byte. *)
TransmitDone ==
  /\ ~udre
  /\ udre' = TRUE
  /\ line' = udr
  /\ UNCHANGED <<rxVars, txVars, status, rxie, udr, lastError, place, byte, data,
                 result, puts>>

-----------------------------------------------------------------------------
(* sc_usartRead up to the result of hal_usartRead. *)
UsartRead ==
  /\ place = "idle"
  /\ UNCHANGED puts
  /\ \/ /\ UsartRunning
        /\ ~RingEmpty(rxHead, rxTail)
        /\ data' = rxBuf[rxTail]
        /\ rxTail' = NextIndex(rxTail)
        /\ result' = "none"
        /\ UNCHANGED <<place, lastError>>
     \/ /\ \/ NotRunning
           \/ UsartRunning /\ RingEmpty(rxHead, rxTail) /\ lastError' = "rxEmpty"
        /\ place' = "readSnapshot"
        /\ UNCHANGED <<data, rxTail, result>>
  /\ UNCHANGED <<rxBuf, rxHead, txVars, status, rxie, wire, byte>>

(* A call returns the driver's last error as it reads it now. *)
ReturnLastError ==
  /\ place' = "idle"
  /\ result' = lastError
  /\ UNCHANGED <<rxVars, txVars, status, rxie, wire, lastError, byte, data, puts>>

UsartReadFails == place = "readSnapshot" /\ ReturnLastError

-----------------------------------------------------------------------------
(* hal_usartWriteByte(b): queue it and return, or record an error and go on *)
(* to the snapshot.                                                         *)
QueueByte(b, snapshot) ==
  \/ /\ UsartRunning
     /\ ~RingFull(txHead, txTail)
     /\ txBuf' = [txBuf EXCEPT ![txHead] = b]
     /\ txHead' = NextIndex(txHead)
     /\ result' = "none"
     /\ place' = "idle"
     /\ UNCHANGED lastError
  \/ /\ \/ NotRunning
        \/ UsartRunning /\ RingFull(txHead, txTail) /\ lastError' = "txFull"
     /\ place' = snapshot
     /\ UNCHANGED <<txBuf, txHead, result>>

ConsoleWriteByte(b) ==
  /\ place = "idle"
  /\ byte' = b
  /\ QueueByte(b, "writeSnapshot")
  /\ puts' = IF place' = "idle" THEN 1 ELSE 0
  /\ UNCHANGED <<rxVars, txTail, status, rxie, wire, data>>

(* Only a full ring is worth a flush and a second attempt. *)
ConsoleWriteFails ==
  /\ place = "writeSnapshot" /\ lastError # "txFull"
  /\ ReturnLastError

ConsoleWriteFlush ==
  /\ place = "writeSnapshot" /\ lastError = "txFull"
  /\ place' = "writeFlush"
  /\ UNCHANGED <<rxVars, txVars, status, rxie, wire, lastError, byte, data, result, puts>>

(* Mutated form: the second attempt is forgotten, its success is not. *)
ConsoleWriteRetryForgotten ==
  /\ place = "writeRetry"
  /\ place' = "idle"
  /\ result' = "none"
  /\ UNCHANGED <<rxVars, txVars, status, rxie, wire, lastError, byte, data, puts>>

ConsoleWriteRetry ==
  /\ place = "writeRetry"
  /\ QueueByte(byte, "retrySnapshot")
  /\ puts' = IF place' = "idle" THEN puts + 1 ELSE puts
  /\ UNCHANGED <<rxVars, txTail, status, rxie, wire, byte, data>>

(* sc_consoleFlush, which printf calls after each line. *)
ConsoleFlush ==
  /\ place = "idle"
  /\ \/ UsartRunning /\ place' = "flush" /\ UNCHANGED lastError
     \/ NotRunning /\ place' = "flushSnapshot"
  /\ UNCHANGED <<rxVars, txVars, status, rxie, wire, byte, data, result, puts>>

(* A flush that found the driver stopped, or a second attempt that failed; *)
(* the latter never happens while one thread makes all calls.              *)
ConsoleFails == place \in {"retrySnapshot", "flushSnapshot"} /\ ReturnLastError

(* Mutated forms: no wait for an empty register, and the tail left behind. *)
SendByteNow ==
  /\ place \in {"flush", "writeFlush"}
  /\ ~RingEmpty(txHead, txTail)
  /\ udr' = txBuf[txTail]
  /\ udre' = FALSE
  /\ txTail' = NextIndex(txTail)
  /\ UNCHANGED <<rxVars, txBuf, txHead, status, rxie, line, lastError, place, byte,
                 data, result, puts>>

SendByteAgain ==
  /\ place \in {"flush", "writeFlush"}
  /\ ~RingEmpty(txHead, txTail)
  /\ udre
  /\ udr' = txBuf[txTail]
  /\ udre' = FALSE
  /\ UNCHANGED <<rxVars, txVars, status, rxie, line, lastError, place, byte, data,
                 result, puts>>

(* hal_usartSendTXBuffer: each byte waits for an empty transmit register. *)
SendByte ==
  /\ place \in {"flush", "writeFlush"}
  /\ ~RingEmpty(txHead, txTail)
  /\ udre
  /\ udr' = txBuf[txTail]
  /\ udre' = FALSE
  /\ txTail' = NextIndex(txTail)
  /\ UNCHANGED <<rxVars, txBuf, txHead, status, rxie, line, lastError, place, byte,
                 data, result, puts>>

SendDone ==
  /\ place \in {"flush", "writeFlush"}
  /\ RingEmpty(txHead, txTail)
  /\ IF place = "flush"
     THEN place' = "idle" /\ result' = "none"
     ELSE place' = "writeRetry" /\ UNCHANGED result
  /\ UNCHANGED <<rxVars, txVars, status, rxie, wire, lastError, byte, data, puts>>

-----------------------------------------------------------------------------
(* Driver commands of the command line.  INIT writes the whole control     *)
(* register and so clears RXCIE1, which only START sets; a stop leaves it  *)
(* as it is, and no command resets a ring.                                 *)
UsartControl ==
  /\ place = "idle"
  /\ \/ status' = [status EXCEPT !.init = TRUE] /\ rxie' = FALSE /\ lastError' = "none"
     \/ status' = [status EXCEPT !.start = TRUE] /\ rxie' = TRUE /\ UNCHANGED lastError
     \/ status' = [status EXCEPT !.start = FALSE] /\ UNCHANGED <<rxie, lastError>>
  /\ UNCHANGED <<rxVars, txVars, wire, place, byte, data, result, puts>>

Hardware == TransmitDone \/ \E b \in RxBytes : ReceiveByte(b)

CallStep ==
  \/ UsartReadFails
  \/ ConsoleWriteFails \/ ConsoleWriteFlush \/ ConsoleWriteRetry \/ ConsoleFails
  \/ SendByte \/ SendDone

Next ==
  \/ Hardware
  \/ CallStep
  \/ UsartRead
  \/ \E b \in TxBytes : ConsoleWriteByte(b)
  \/ ConsoleFlush
  \/ UsartControl

Spec == Init /\ [][Next]_vars

(* The transmitter works, and the calling thread keeps being scheduled. *)
LiveSpec == Spec /\ WF_vars(TransmitDone) /\ WF_vars(CallStep)

-----------------------------------------------------------------------------
(* The bytes between tail and head, oldest first. *)
RingCount(head, tail) == IF head >= tail THEN head - tail ELSE head - tail + Size

RingIndex(tail, i) == IF tail + i - 1 < Size THEN tail + i - 1 ELSE tail + i - 1 - Size

RingContent(buf, head, tail) ==
  [i \in 1 .. RingCount(head, tail) |-> buf[RingIndex(tail, i)]]

(* The receive ring as a queue. *)
Rx == INSTANCE ByteQueue WITH
        Bytes <- RxBytes, Capacity <- Size - 1,
        queue <- RingContent(rxBuf, rxHead, rxTail), out <- data

(* A byte the receive interrupt takes from the hardware is put, unless as  *)
(* many as the ring holds are waiting for sc_usartRead.                    *)
PutUnlessFull(b) ==
  ReceiveByte(b) =>
    Rx!Put(b) \/ Len(RingContent(rxBuf, rxHead, rxTail)) = Size - 1

(* The receive ring between interrupt and sc_usartRead is a queue that     *)
(* keeps the order and neither repeats nor invents a byte, whatever        *)
(* commands the driver gets.  Of the bytes the interrupt takes it loses    *)
(* only those that find it full.  Those that arrive while the interrupt is *)
(* off, from the INIT of a running driver to its next START, it does not   *)
(* take, although the driver says it runs: all but the few that the        *)
(* hardware itself keeps are lost.                                         *)
RxIsQueue == Rx!QueueSpec /\ [][\A b \in RxBytes : PutUnlessFull(b)]_vars

(* What is printed leaves on the line in order, each byte once: the ring   *)
(* and the transmit register together are a queue from the callers of      *)
(* sc_consoleWriteByte to the line, flushes on the way included.           *)
InRegister == IF udre THEN <<>> ELSE <<udr>>

Tx == INSTANCE ByteQueue WITH
        Bytes <- TxBytes, Capacity <- Size,
        queue <- InRegister \o RingContent(txBuf, txHead, txTail), out <- line

TxIsQueue == Tx!QueueSpec

(* sc_consoleWriteByte reports what it did: it returns ERR_NO_ERROR exactly *)
(* if the byte was queued, and it was queued once, retry or not.            *)
WriteReported ==
  /\ place' = "idle"
  /\ \/ place \in {"writeSnapshot", "writeRetry", "retrySnapshot"}
     \/ \E b \in TxBytes : ConsoleWriteByte(b)
  => (result' = "none" <=> puts' = 1)

WriteIsReported == [][WriteReported]_vars

(* "Keep the failed operation and its error snapshot indivisible from the  *)
(* RX ISR" (sc_driver.c): a failed read never reports the interrupt's      *)
(* error.                                                                  *)
ReadReportsOwnError == [][UsartReadFails => result' \in {"notRunning", "rxEmpty"}]_vars

(* Every call returns: a flush ends, however long the ring and the wait. *)
CallsReturn == place # "idle" ~> place = "idle"
=============================================================================
