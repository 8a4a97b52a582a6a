---------------------------- MODULE UsartProofs ----------------------------
(***************************************************************************)
(* The driver's rings are queues, for every ring size and every byte.      *)
(***************************************************************************)
EXTENDS Usart, SequenceTheorems, TLAPS

(* The wrapping index stays in the ring. *)
LEMMA NextIndexType ==
  ASSUME NEW i \in Index
  PROVE  NextIndex(i) \in Index
  BY UsartAssumption DEF NextIndex, Index

(* The content of a ring is a sequence of cells, one cell short of its size. *)
LEMMA RingContentType ==
  ASSUME NEW buf \in [Index -> Cells], NEW head \in Index, NEW tail \in Index
  PROVE  /\ RingContent(buf, head, tail) \in Seq(Cells)
         /\ Len(RingContent(buf, head, tail)) = RingCount(head, tail)
         /\ RingCount(head, tail) \in 0 .. Size - 1
         /\ \A i \in 1 .. RingCount(head, tail) :
              /\ RingIndex(tail, i) \in Index
              /\ RingContent(buf, head, tail)[i] = buf[RingIndex(tail, i)]
<1>1. RingCount(head, tail) \in 0 .. Size - 1
  BY UsartAssumption DEF RingCount, Index
<1>2. \A i \in 1 .. RingCount(head, tail) : RingIndex(tail, i) \in Index
  BY UsartAssumption DEF RingCount, RingIndex, Index
<1>3. RingContent(buf, head, tail) \in [1 .. RingCount(head, tail) -> Cells]
  BY <1>2 DEF RingContent
<1>4. RingContent(buf, head, tail) \in Seq(Cells)
  BY <1>1, <1>3, SeqDef
<1>5. Len(RingContent(buf, head, tail)) = RingCount(head, tail)
  BY <1>1, <1>3, <1>4, LenProperties
<1> QED
  BY <1>1, <1>2, <1>4, <1>5 DEF RingContent

(* Storing at the head of a ring that is not full appends. *)
LEMMA PutAppends ==
  ASSUME NEW buf \in [Index -> Cells], NEW head \in Index, NEW tail \in Index, NEW b \in Cells,
         ~RingFull(head, tail)
  PROVE  /\ Len(RingContent(buf, head, tail)) < Size - 1
         /\ RingContent([buf EXCEPT ![head] = b], NextIndex(head), tail)
              = Append(RingContent(buf, head, tail), b)
<1> DEFINE old == RingContent(buf, head, tail)
           newBuf == [buf EXCEPT ![head] = b]
           new == RingContent(newBuf, NextIndex(head), tail)
<1>1. newBuf \in [Index -> Cells] /\ NextIndex(head) \in Index
  BY NextIndexType
<1>2. RingCount(NextIndex(head), tail) = RingCount(head, tail) + 1
  BY UsartAssumption DEF RingFull, RingCount, NextIndex, Index
<1>3. RingIndex(tail, RingCount(head, tail) + 1) = head
  BY UsartAssumption DEF RingIndex, RingCount, Index
<1>4. \A i \in 1 .. RingCount(head, tail) : RingIndex(tail, i) # head
  BY UsartAssumption DEF RingIndex, RingCount, Index
<1>5. /\ new \in Seq(Cells) /\ Len(new) = RingCount(head, tail) + 1
      /\ \A i \in 1 .. RingCount(head, tail) + 1 : new[i] = newBuf[RingIndex(tail, i)]
  <2> DEFINE next == NextIndex(head)
  <2> HIDE DEF newBuf, next
  <2>1. /\ RingContent(newBuf, next, tail) \in Seq(Cells)
        /\ Len(RingContent(newBuf, next, tail)) = RingCount(next, tail)
        /\ \A i \in 1 .. RingCount(next, tail) :
             RingContent(newBuf, next, tail)[i] = newBuf[RingIndex(tail, i)]
    BY <1>1, RingContentType DEF next
  <2> QED
    BY <1>2, <2>1 DEF next
<1>6. /\ old \in Seq(Cells) /\ Len(old) = RingCount(head, tail)
      /\ RingCount(head, tail) \in Nat
      /\ \A i \in 1 .. RingCount(head, tail) :
           RingIndex(tail, i) \in Index /\ old[i] = buf[RingIndex(tail, i)]
  BY RingContentType
<1>7. new[RingCount(head, tail) + 1] = b
  <2>1. new[RingCount(head, tail) + 1] = newBuf[head]
    <3> HIDE DEF new, newBuf
    <3> QED
      BY <1>3, <1>5, <1>6
  <2> QED
    BY <2>1
<1>8. \A i \in 1 .. RingCount(head, tail) : new[i] = old[i]
  <2> SUFFICES ASSUME NEW i \in 1 .. RingCount(head, tail) PROVE new[i] = old[i]
    OBVIOUS
  <2>1. new[i] = newBuf[RingIndex(tail, i)] /\ old[i] = buf[RingIndex(tail, i)]
    <3> HIDE DEF new, old, newBuf
    <3> QED
      BY <1>5, <1>6
  <2>2. newBuf[RingIndex(tail, i)] = buf[RingIndex(tail, i)]
    BY <1>4, <1>6
  <2> QED
    BY <2>1, <2>2
<1>9. Len(old) < Size - 1
  BY <1>1, <1>2, <1>6, RingContentType, UsartAssumption
<1> HIDE DEF old, new, newBuf
<1>10. /\ Append(old, b) \in Seq(Cells) /\ Len(Append(old, b)) = Len(old) + 1
       /\ \A i \in 1 .. Len(old) : Append(old, b)[i] = old[i]
       /\ Append(old, b)[Len(old) + 1] = b
  BY <1>6, AppendProperties
<1>11. \A i \in 1 .. Len(new) : new[i] = Append(old, b)[i]
  BY <1>5, <1>6, <1>7, <1>8, <1>10
<1>12. new = Append(old, b)
  BY <1>5, <1>6, <1>10, <1>11, SeqEqual
<1> QED
  BY <1>9, <1>12 DEF old, new, newBuf

(* Advancing the tail of a ring that is not empty drops the oldest byte. *)
LEMMA TakeDrops ==
  ASSUME NEW buf \in [Index -> Cells], NEW head \in Index, NEW tail \in Index,
         ~RingEmpty(head, tail)
  PROVE  /\ RingContent(buf, head, tail) # <<>>
         /\ Head(RingContent(buf, head, tail)) = buf[tail]
         /\ RingContent(buf, head, NextIndex(tail)) = Tail(RingContent(buf, head, tail))
<1> DEFINE old == RingContent(buf, head, tail)
           new == RingContent(buf, head, NextIndex(tail))
<1>1. RingCount(head, NextIndex(tail)) = RingCount(head, tail) - 1 /\ RingCount(head, tail) >= 1
  BY UsartAssumption DEF RingEmpty, RingCount, NextIndex, Index
<1>2. RingIndex(tail, 1) = tail
  BY UsartAssumption DEF RingIndex, Index
<1>3. \A i \in 1 .. RingCount(head, tail) - 1 : RingIndex(NextIndex(tail), i) = RingIndex(tail, i + 1)
  BY <1>1, UsartAssumption DEF RingIndex, NextIndex, RingCount, Index
<1>4. /\ new \in Seq(Cells) /\ Len(new) = RingCount(head, tail) - 1
      /\ \A i \in 1 .. RingCount(head, tail) - 1 : new[i] = buf[RingIndex(NextIndex(tail), i)]
  <2> DEFINE next == NextIndex(tail)
  <2>1. next \in Index
    BY NextIndexType
  <2> HIDE DEF next
  <2>2. /\ RingContent(buf, head, next) \in Seq(Cells)
        /\ Len(RingContent(buf, head, next)) = RingCount(head, next)
        /\ \A i \in 1 .. RingCount(head, next) :
             RingContent(buf, head, next)[i] = buf[RingIndex(next, i)]
    BY <2>1, RingContentType
  <2> QED
    BY <1>1, <2>2 DEF next
<1>5. /\ old \in Seq(Cells) /\ Len(old) = RingCount(head, tail)
      /\ RingCount(head, tail) \in Nat
      /\ \A i \in 1 .. RingCount(head, tail) : old[i] = buf[RingIndex(tail, i)]
  BY RingContentType
<1>6. old[1] = buf[tail] /\ \A i \in 1 .. RingCount(head, tail) - 1 : new[i] = old[i + 1]
  BY <1>1, <1>2, <1>3, <1>4, <1>5
<1> HIDE DEF old, new
<1>7. old # <<>>
  BY <1>1, <1>5, EmptySeq
<1>8. /\ Tail(old) \in Seq(Cells) /\ Len(Tail(old)) = Len(old) - 1
      /\ \A i \in 1 .. Len(Tail(old)) : Tail(old)[i] = old[i + 1]
  BY <1>5, <1>7, HeadTailProperties
<1>9. new = Tail(old)
  BY <1>4, <1>5, <1>6, <1>8, SeqEqual
<1>10. Head(old) = buf[tail]
  BY <1>6
<1> QED
  BY <1>7, <1>9, <1>10 DEF old, new

-----------------------------------------------------------------------------
(* A write in progress has a byte of its caller, has queued nothing yet,   *)
(* and stands before its snapshots with an error recorded.                 *)
WritePlaces == {"writeSnapshot", "writeFlush", "writeRetry", "retrySnapshot"}

WriteInProgress ==
  /\ place \in WritePlaces => byte \in TxBytes /\ puts = 0
  /\ place \in {"writeSnapshot", "retrySnapshot"} => lastError # "none"

UsartInv == TypeOK /\ WriteInProgress

LEMMA UsartInvInit == Init => UsartInv
<1>1. BootByteCount % Size \in Index
  BY UsartAssumption DEF BootByteCount, Index
<1>2. 0 \in Index
  BY UsartAssumption DEF Index
<1> QED
  BY <1>1, <1>2 DEF Init, UsartInv, TypeOK, WriteInProgress, WritePlaces, UsartBits, Errors,
     Places, Cells

(* A byte is queued with success, or an error is recorded. *)
LEMMA QueueByteOutcome ==
  ASSUME UsartInv, NEW b \in TxBytes, NEW snapshot \in WritePlaces, QueueByte(b, snapshot)
  PROVE  /\ txBuf' \in [Index -> Cells] /\ txHead' \in Index
         /\ result' \in Errors /\ lastError' \in Errors
         /\ \/ place' = "idle" /\ result' = "none"
            \/ place' = snapshot /\ lastError' # "none"
  BY NextIndexType DEF QueueByte, NotRunning, Errors, Cells, UsartInv, TypeOK

LEMMA UsartInvStep ==
  ASSUME UsartInv, [Next]_vars
  PROVE  UsartInv'
<1> USE DEF UsartInv, TypeOK, WriteInProgress, WritePlaces
<1>1. ASSUME NEW b \in RxBytes, ReceiveByte(b) PROVE UsartInv'
  BY <1>1, NextIndexType DEF ReceiveByte, Errors, Cells, txVars, wire
<1>2. CASE TransmitDone
  BY <1>2 DEF TransmitDone, rxVars, txVars
<1>3. CASE UsartRead
  BY <1>3, NextIndexType DEF UsartRead, NotRunning, Errors, Places, txVars, wire
<1>4. ASSUME ReturnLastError PROVE UsartInv'
  BY <1>4 DEF ReturnLastError, Places, rxVars, txVars, wire
<1>5. CASE UsartReadFails \/ ConsoleWriteFails \/ ConsoleFails
  BY <1>4, <1>5 DEF UsartReadFails, ConsoleWriteFails, ConsoleFails
<1>7. ASSUME NEW b \in TxBytes, ConsoleWriteByte(b) PROVE UsartInv'
  BY QueueByteOutcome, <1>7 DEF ConsoleWriteByte, Places, Cells, rxVars, wire
<1>8. CASE ConsoleWriteFlush
  BY <1>8 DEF ConsoleWriteFlush, Places, rxVars, txVars, wire
<1>9. CASE ConsoleWriteRetry
  BY QueueByteOutcome, <1>9 DEF ConsoleWriteRetry, Places, rxVars, wire
<1>10. CASE ConsoleFlush
  BY <1>10 DEF ConsoleFlush, NotRunning, Errors, Places, rxVars, txVars, wire
<1>11. CASE SendByte
  BY <1>11, NextIndexType DEF SendByte, rxVars
<1>12. CASE SendDone
  BY <1>12 DEF SendDone, Errors, Places, rxVars, txVars, wire
<1>13. CASE UsartControl
  BY <1>13 DEF UsartControl, UsartBits, Errors, rxVars, txVars, wire
<1>14. CASE UNCHANGED vars
  BY <1>14 DEF vars
<1> QED
  BY <1>1, <1>2, <1>3, <1>5, <1>7, <1>8, <1>9, <1>10, <1>11, <1>12, <1>13, <1>14
     DEF Next, Hardware, CallStep

(* Indices stay in their rings, and every variable keeps its type. *)
THEOREM TypeCorrect == Spec => []TypeOK
<1>1. UsartInv => TypeOK
  BY DEF UsartInv
<1> QED
  BY <1>1, UsartInvInit, UsartInvStep, PTL DEF Spec

LEMMA WriteReportedStep ==
  ASSUME UsartInv, [Next]_vars
  PROVE  WriteReported
<1> USE DEF UsartInv, TypeOK, WriteInProgress, WritePlaces
<1>1. ASSUME NEW b \in TxBytes, ConsoleWriteByte(b), place' = "idle"
      PROVE  result' = "none" /\ puts' = 1
  BY QueueByteOutcome, <1>1 DEF ConsoleWriteByte
<1>2. ASSUME place \in {"writeSnapshot", "writeRetry", "retrySnapshot"}, place' = "idle"
      PROVE  result' = "none" <=> puts' = 1
  <2>1. \/ ConsoleWriteFails \/ ConsoleWriteRetry \/ ConsoleFails
    BY <1>2 DEF Next, Hardware, CallStep, ReceiveByte, TransmitDone, UsartRead, UsartReadFails,
       ConsoleWriteByte, ConsoleWriteFlush, ConsoleFlush, ConsoleFails, SendByte, SendDone,
       UsartControl, vars
  <2>2. CASE ConsoleWriteRetry
    BY <1>2, <2>2, QueueByteOutcome DEF ConsoleWriteRetry
  <2>3. CASE ConsoleWriteFails \/ ConsoleFails
    BY <1>2, <2>3 DEF ConsoleWriteFails, ConsoleFails, ReturnLastError
  <2> QED
    BY <2>1, <2>2, <2>3
<1> QED
  BY <1>1, <1>2 DEF WriteReported

(* sc_consoleWriteByte returns ERR_NO_ERROR if and only if it queued its   *)
(* byte, whatever the interrupt does to the shared last error.             *)
THEOREM WritesAreReported == Spec => WriteIsReported
<1> QED
  BY UsartInvInit, UsartInvStep, WriteReportedStep, PTL DEF Spec, WriteIsReported

(* While sc_usartRead holds the interrupt off, the last error is its own. *)
ReadSnapshotIsOwn == place = "readSnapshot" => lastError \in {"notRunning", "rxEmpty"}

(* Only sc_usartRead reaches its snapshot, and nothing else runs before it. *)
LEMMA ReadSnapshotStep ==
  ASSUME UsartInv, ReadSnapshotIsOwn, [Next]_vars
  PROVE  ReadSnapshotIsOwn'
<1> SUFFICES ASSUME place' = "readSnapshot"
             PROVE  lastError' \in {"notRunning", "rxEmpty"}
  BY DEF ReadSnapshotIsOwn
<1>1. CASE UsartRead
  BY <1>1 DEF UsartRead, NotRunning
<1>2. ASSUME NEW b \in TxBytes, ConsoleWriteByte(b) PROVE FALSE
  BY QueueByteOutcome, <1>2 DEF ConsoleWriteByte, WritePlaces
<1>3. CASE ConsoleWriteRetry
  <2>1. byte \in TxBytes
    BY <1>3 DEF UsartInv, WriteInProgress, WritePlaces, ConsoleWriteRetry
  <2> QED
    BY QueueByteOutcome, <1>3, <2>1 DEF ConsoleWriteRetry, WritePlaces
<1>4. CASE TransmitDone \/ UNCHANGED vars
  BY <1>4 DEF TransmitDone, vars, ReadSnapshotIsOwn
<1>5. ASSUME NEW b \in RxBytes, ReceiveByte(b) PROVE FALSE
  BY <1>5 DEF ReceiveByte, Unmasked
<1>6. CASE ConsoleFlush \/ UsartControl
  BY <1>6 DEF ConsoleFlush, UsartControl
<1>7. CASE UsartReadFails \/ ConsoleWriteFails \/ ConsoleFails
  BY <1>7 DEF UsartReadFails, ConsoleWriteFails, ConsoleFails, ReturnLastError
<1>8. CASE ConsoleWriteFlush \/ SendByte \/ SendDone
  BY <1>8 DEF ConsoleWriteFlush, SendByte, SendDone
<1> QED
  BY <1>1, <1>2, <1>3, <1>4, <1>5, <1>6, <1>7, <1>8 DEF Next, Hardware, CallStep

(* A read that fails returns the error it recorded itself, whatever the    *)
(* receive interrupt does to the shared last error: the masked section of  *)
(* sc_usartRead covers both the attempt and the snapshot.                  *)
THEOREM ReadsReportOwnError == Spec => ReadReportsOwnError
<1>1. Init => ReadSnapshotIsOwn
  BY DEF Init, ReadSnapshotIsOwn
<1>2. ReadSnapshotIsOwn => (UsartReadFails => result' \in {"notRunning", "rxEmpty"})
  BY DEF ReadSnapshotIsOwn, UsartReadFails, ReturnLastError
<1> QED
  BY <1>1, <1>2, UsartInvInit, UsartInvStep, ReadSnapshotStep, PTL
     DEF Spec, ReadReportsOwnError

-----------------------------------------------------------------------------
rxContent == RingContent(rxBuf, rxHead, rxTail)
txContent == RingContent(txBuf, txHead, txTail)

(* The steps that leave a ring alone. *)
LEMMA RxUntouched ==
  ASSUME UNCHANGED <<rxVars, data>>
  PROVE  UNCHANGED Rx!queueVars
  BY DEF rxVars, Rx!queueVars, RingContent, RingCount

(* The interrupt finds room: it appends. *)
LEMMA RxPuts ==
  ASSUME UsartInv, NEW b \in RxBytes, ReceiveByte(b), ~RingFull(rxHead, rxTail)
  PROVE  Rx!Put(b)
<1>1. b \in Cells /\ rxBuf \in [Index -> Cells] /\ rxHead \in Index /\ rxTail \in Index
  BY DEF Cells, UsartInv, TypeOK
<1>2. /\ rxBuf' = [rxBuf EXCEPT ![rxHead] = b]
      /\ rxHead' = NextIndex(rxHead) /\ rxTail' = rxTail /\ data' = data
  BY DEF ReceiveByte
<1>3. /\ Len(RingContent(rxBuf, rxHead, rxTail)) < Size - 1
      /\ RingContent([rxBuf EXCEPT ![rxHead] = b], NextIndex(rxHead), rxTail)
           = Append(RingContent(rxBuf, rxHead, rxTail), b)
  BY <1>1, PutAppends
<1>4. Len(rxContent) < Size - 1 /\ rxContent' = Append(rxContent, b)
  BY <1>2, <1>3 DEF rxContent
<1> QED
  BY <1>2, <1>4 DEF Rx!Put, rxContent

(* A ring the code takes for full holds all it can. *)
LEMMA FullRing ==
  ASSUME NEW buf \in [Index -> Cells], NEW head \in Index, NEW tail \in Index,
         RingFull(head, tail)
  PROVE  Len(RingContent(buf, head, tail)) = Size - 1
<1>1. RingCount(head, tail) = Size - 1
  BY UsartAssumption DEF RingFull, RingCount, NextIndex, Index
<1> QED
  BY <1>1, RingContentType

LEMMA RxKeeps ==
  ASSUME UsartInv, NEW b \in RxBytes
  PROVE  PutUnlessFull(b)
<1>1. rxBuf \in [Index -> Cells] /\ rxHead \in Index /\ rxTail \in Index
  BY DEF UsartInv, TypeOK
<1>2. CASE RingFull(rxHead, rxTail)
  BY <1>1, <1>2, FullRing DEF PutUnlessFull
<1>3. CASE ~RingFull(rxHead, rxTail)
  BY <1>3, RxPuts DEF PutUnlessFull
<1> QED
  BY <1>2, <1>3

LEMMA RxStep ==
  ASSUME UsartInv, [Next]_vars
  PROVE  [Rx!QueueNext]_(Rx!queueVars)
<1> USE DEF UsartInv, TypeOK
<1>1. ASSUME NEW b \in RxBytes, ReceiveByte(b) PROVE [Rx!QueueNext]_(Rx!queueVars)
  <2>1. CASE RingFull(rxHead, rxTail)
    BY <1>1, <2>1, RxUntouched DEF ReceiveByte, rxVars
  <2>2. CASE ~RingFull(rxHead, rxTail)
    <3> HIDE DEF UsartInv, TypeOK
    <3>1. Rx!Put(b)
      BY <1>1, <2>2, RxPuts
    <3> QED
      BY <3>1 DEF Rx!QueueNext
  <2> QED
    BY <2>1, <2>2
<1>2. CASE UsartRead
  <2>1. CASE UNCHANGED <<rxTail, data>>
    BY <1>2, <2>1, RxUntouched DEF UsartRead, rxVars
  <2>2. CASE /\ ~RingEmpty(rxHead, rxTail)
             /\ data' = rxBuf[rxTail] /\ rxTail' = NextIndex(rxTail)
    <3>1. UNCHANGED <<rxBuf, rxHead>>
      BY <1>2 DEF UsartRead
    <3>2. /\ rxContent # <<>> /\ Head(rxContent) = rxBuf[rxTail]
          /\ rxContent' = Tail(rxContent)
      BY <2>2, <3>1, TakeDrops DEF rxContent
    <3>3. Rx!Take
      BY <2>2, <3>2 DEF Rx!Take, rxContent
    <3> QED
      BY <3>3 DEF Rx!QueueNext
  <2> QED
    BY <1>2, <2>1, <2>2 DEF UsartRead
<1>3. ASSUME UNCHANGED <<rxVars, data>> PROVE [Rx!QueueNext]_(Rx!queueVars)
  BY <1>3, RxUntouched
<1>4. \/ \E b \in RxBytes : ReceiveByte(b)
      \/ UsartRead
      \/ UNCHANGED <<rxVars, data>>
  BY DEF Next, Hardware, CallStep, TransmitDone, UsartReadFails, ReturnLastError,
     ConsoleWriteByte, ConsoleWriteFails, ConsoleWriteFlush, ConsoleWriteRetry,
     ConsoleFlush, ConsoleFails, SendByte, SendDone, UsartControl,
     vars, rxVars
<1> QED
  BY <1>1, <1>2, <1>3, <1>4

(* A ring whose indices meet is empty. *)
LEMMA EmptyRing ==
  ASSUME NEW buf \in [Index -> Cells], NEW head \in Index
  PROVE  RingContent(buf, head, head) = <<>>
<1>1. /\ RingContent(buf, head, head) \in Seq(Cells)
      /\ Len(RingContent(buf, head, head)) = RingCount(head, head)
  BY RingContentType
<1>2. RingCount(head, head) = 0
  BY UsartAssumption DEF RingCount, Index
<1> QED
  BY <1>1, <1>2, EmptySeq

(* The receive ring is a queue between the interrupt and the readers, and  *)
(* the interrupt drops no byte the queue has room for.  It does not say    *)
(* that the interrupt is on: an INIT switches it off until the next START. *)
THEOREM RxRingIsQueue == Spec => RxIsQueue
<1>1. Init => Rx!QueueInit
  <2> SUFFICES ASSUME Init PROVE Rx!QueueInit
    OBVIOUS
  <2>1. rxBuf \in [Index -> Cells] /\ rxHead \in Index /\ rxTail = rxHead
    BY UsartInvInit DEF UsartInv, TypeOK, Init
  <2>2. RingContent(rxBuf, rxHead, rxTail) = <<>>
    BY <2>1, EmptyRing
  <2> QED
    BY <2>2 DEF Rx!QueueInit, Init
<1>2. UsartInv => \A b \in RxBytes : PutUnlessFull(b)
  BY RxKeeps
<1>3. Spec => Rx!QueueSpec
  BY <1>1, UsartInvInit, UsartInvStep, RxStep, PTL DEF Spec, Rx!QueueSpec
<1>4. Spec => [][\A b \in RxBytes : PutUnlessFull(b)]_vars
  BY <1>2, UsartInvInit, UsartInvStep, PTL DEF Spec
<1> QED
  BY <1>3, <1>4 DEF RxIsQueue

-----------------------------------------------------------------------------
(* One byte in front of a sequence. *)
LEMMA InFront ==
  ASSUME NEW b \in Cells, NEW s \in Seq(Cells)
  PROVE  /\ <<b>> \in Seq(Cells)
         /\ <<b>> \o s # <<>> /\ Head(<<b>> \o s) = b /\ Tail(<<b>> \o s) = s
<1>1. <<b>> \in Seq(Cells) /\ Len(<<b>>) = 1 /\ <<b>>[1] = b
  OBVIOUS
<1> DEFINE all == <<b>> \o s
<1>2. /\ all \in Seq(Cells) /\ Len(all) = Len(s) + 1 /\ Len(s) \in Nat
      /\ all[1] = b /\ \A i \in 1 .. Len(s) : all[i + 1] = s[i]
  BY <1>1, ConcatProperties, LenProperties
<1> HIDE DEF all
<1>3. all # <<>>
  BY <1>2, EmptySeq
<1>4. /\ Tail(all) \in Seq(Cells) /\ Len(Tail(all)) = Len(all) - 1
      /\ \A i \in 1 .. Len(Tail(all)) : Tail(all)[i] = all[i + 1]
  BY <1>2, <1>3, HeadTailProperties
<1>5. Tail(all) = s
  BY <1>2, <1>4, SeqEqual
<1>6. Head(all) = b
  BY <1>2, <1>3
<1> QED
  BY <1>1, <1>3, <1>5, <1>6 DEF all

(* The first byte put back in front. *)
LEMMA SplitFront ==
  ASSUME NEW s \in Seq(Cells), s # <<>>
  PROVE  <<Head(s)>> \o Tail(s) = <<>> \o s
<1>1. /\ Head(s) \in Cells /\ Tail(s) \in Seq(Cells) /\ Len(Tail(s)) = Len(s) - 1
      /\ \A i \in 1 .. Len(Tail(s)) : Tail(s)[i] = s[i + 1]
      /\ Head(s) = s[1]
  BY HeadTailProperties
<1>2. Len(s) \in Nat \ {0}
  BY EmptySeq
<1> DEFINE head == <<Head(s)>>
<1>3. head \in Seq(Cells) /\ Len(head) = 1 /\ head[1] = s[1]
  BY <1>1
<1> HIDE DEF head
<1>4. /\ head \o Tail(s) \in Seq(Cells) /\ Len(head \o Tail(s)) = Len(s)
      /\ \A i \in 1 .. Len(s) : (head \o Tail(s))[i] = IF i <= 1 THEN head[i] ELSE Tail(s)[i - 1]
  <2> DEFINE rest == Tail(s)
  <2>3. head \in Seq(Cells) /\ rest \in Seq(Cells)
    BY <1>1, <1>3
  <2> HIDE DEF rest
  <2>1. /\ head \o rest \in Seq(Cells) /\ Len(head \o rest) = Len(head) + Len(rest)
        /\ \A i \in 1 .. Len(head) + Len(rest) :
             (head \o rest)[i] = IF i <= Len(head) THEN head[i] ELSE rest[i - Len(head)]
    BY <2>3, ConcatProperties
  <2>2. Len(head) + Len(Tail(s)) = Len(s)
    BY <1>1, <1>2, <1>3
  <2> QED
    BY <1>3, <2>1, <2>2 DEF rest
<1>5. \A i \in 1 .. Len(s) : (head \o Tail(s))[i] = s[i]
  BY <1>1, <1>2, <1>3, <1>4
<1>6. head \o Tail(s) = s
  BY <1>4, <1>5, SeqEqual
<1> QED
  BY <1>6, ConcatEmptySeq DEF head

(* Appending behind a sequence that follows another. *)
LEMMA AppendBehind ==
  ASSUME NEW r \in Seq(Cells), NEW s \in Seq(Cells), NEW b \in Cells
  PROVE  r \o Append(s, b) = Append(r \o s, b)
<1>1. <<b>> \in Seq(Cells) /\ r \o s \in Seq(Cells)
  BY InFront, ConcatProperties, EmptySeq
<1>2. Append(s, b) = s \o <<b>> /\ Append(r \o s, b) = (r \o s) \o <<b>>
  BY <1>1, AppendIsConcat
<1> QED
  BY <1>1, <1>2, ConcatAssociative

LEMMA RegisterType ==
  ASSUME UsartInv
  PROVE  InRegister \in Seq(Cells) /\ Len(InRegister) \in 0 .. 1
  BY InFront, EmptySeq DEF UsartInv, TypeOK, InRegister

LEMMA TxUntouched ==
  ASSUME UNCHANGED <<txVars, wire>>
  PROVE  UNCHANGED Tx!queueVars
  BY DEF txVars, wire, Tx!queueVars, RingContent, RingCount, InRegister

(* A byte queued by a write is put behind everything that waits. *)
LEMMA TxPut ==
  ASSUME UsartInv, NEW b \in TxBytes, NEW snapshot \in WritePlaces, QueueByte(b, snapshot),
         UNCHANGED <<txTail, wire>>
  PROVE  [Tx!QueueNext]_(Tx!queueVars)
<1> USE DEF UsartInv, TypeOK
<1>1. CASE UNCHANGED <<txBuf, txHead>>
  BY <1>1, TxUntouched DEF txVars
<1>2. CASE /\ ~RingFull(txHead, txTail)
           /\ txBuf' = [txBuf EXCEPT ![txHead] = b] /\ txHead' = NextIndex(txHead)
  <2>1. b \in Cells /\ txBuf \in [Index -> Cells] /\ txHead \in Index /\ txTail \in Index
    BY DEF Cells
  <2>2. /\ Len(RingContent(txBuf, txHead, txTail)) < Size - 1
        /\ RingContent([txBuf EXCEPT ![txHead] = b], NextIndex(txHead), txTail)
             = Append(RingContent(txBuf, txHead, txTail), b)
    <3> HIDE DEF UsartInv, TypeOK
    <3>1. QED
      BY <1>2, <2>1, PutAppends
  <2>3. Len(txContent) < Size - 1 /\ txContent' = Append(txContent, b)
    BY <1>2, <2>2 DEF txContent
  <2>4. txContent \in Seq(Cells) /\ Len(txContent) \in Nat
    BY <2>1, RingContentType, LenProperties DEF txContent
  <2>5. InRegister' = InRegister
    BY DEF InRegister, wire
  <2>6. InRegister' \o txContent' = Append(InRegister \o txContent, b)
    BY <2>1, <2>3, <2>4, <2>5, RegisterType, AppendBehind
  <2>7. Len(InRegister \o txContent) = Len(InRegister) + Len(txContent)
    BY <2>4, RegisterType, ConcatProperties
  <2>8. Len(InRegister \o txContent) < Size
    <3> DEFINE inRegister == Len(InRegister)
               inRing == Len(txContent)
    <3>1. inRegister \in 0 .. 1 /\ inRing \in Nat /\ inRing < Size - 1 /\ Size \in Nat
      BY <2>3, <2>4, RegisterType, UsartAssumption
    <3>2. Len(InRegister \o txContent) = inRegister + inRing
      BY <2>7
    <3> HIDE DEF inRegister, inRing
    <3>3. inRegister + inRing < Size
      BY <3>1
    <3> QED
      BY <3>2, <3>3
  <2>9. Tx!Put(b)
    BY <2>6, <2>8 DEF Tx!Put, txContent, wire
  <2> QED
    BY <2>9 DEF Tx!QueueNext
<1> QED
  BY <1>1, <1>2 DEF QueueByte

LEMMA TxStep ==
  ASSUME UsartInv, [Next]_vars
  PROVE  [Tx!QueueNext]_(Tx!queueVars)
<1> USE DEF UsartInv, TypeOK
<1>1. ASSUME NEW b \in TxBytes, ConsoleWriteByte(b) PROVE [Tx!QueueNext]_(Tx!queueVars)
  BY <1>1, TxPut DEF ConsoleWriteByte, WritePlaces
<1>2. CASE ConsoleWriteRetry
  BY <1>2, TxPut DEF ConsoleWriteRetry, WriteInProgress, WritePlaces
<1>3. CASE SendByte
  <2>1. txBuf \in [Index -> Cells] /\ txHead \in Index /\ txTail \in Index
    OBVIOUS
  <2>2. /\ txContent # <<>> /\ Head(txContent) = txBuf[txTail]
        /\ txContent' = Tail(txContent)
    BY <1>3, <2>1, TakeDrops DEF SendByte, txContent
  <2>3. txContent \in Seq(Cells)
    BY <2>1, RingContentType DEF txContent
  <2>4. InRegister = <<>> /\ InRegister' = <<Head(txContent)>> /\ UNCHANGED line
    BY <1>3, <2>2 DEF SendByte, InRegister
  <2>5. <<Head(txContent)>> \o Tail(txContent) = <<>> \o txContent
    BY <2>2, <2>3, HeadTailProperties, SplitFront
  <2>6. UNCHANGED Tx!queueVars
    BY <2>2, <2>4, <2>5 DEF Tx!queueVars, txContent
  <2> QED
    BY <2>6
<1>4. CASE TransmitDone
  <2>1. InRegister = <<udr>> /\ InRegister' = <<>> /\ line' = udr /\ txContent' = txContent
    BY <1>4 DEF TransmitDone, InRegister, txContent, RingContent, RingCount, txVars
  <2>2. txContent \in Seq(Cells)
    BY RingContentType DEF txContent
  <2>3. /\ InRegister \o txContent # <<>> /\ Head(InRegister \o txContent) = udr
        /\ Tail(InRegister \o txContent) = txContent
    BY <2>1, <2>2, InFront
  <2>4. InRegister' \o txContent' = txContent
    BY <2>1, <2>2, ConcatEmptySeq
  <2>5. Tx!Take
    BY <2>1, <2>3, <2>4 DEF Tx!Take, txContent
  <2> QED
    BY <2>5 DEF Tx!QueueNext
<1>5. ASSUME UNCHANGED <<txVars, wire>> PROVE [Tx!QueueNext]_(Tx!queueVars)
  BY <1>5, TxUntouched
<1>6. \/ \E b \in TxBytes : ConsoleWriteByte(b)
      \/ ConsoleWriteRetry \/ SendByte \/ TransmitDone
      \/ UNCHANGED <<txVars, wire>>
  BY DEF Next, Hardware, CallStep, ReceiveByte, UsartRead, UsartReadFails, ReturnLastError,
     ConsoleWriteFails, ConsoleWriteFlush, ConsoleFlush, ConsoleFails,
     SendDone, UsartControl, vars, txVars, wire
<1> QED
  BY <1>1, <1>2, <1>3, <1>4, <1>5, <1>6

(* The transmit ring and register are a queue between callers and line. *)
THEOREM TxRingIsQueue == Spec => TxIsQueue
<1>1. Init => Tx!QueueInit
  <2> SUFFICES ASSUME Init PROVE Tx!QueueInit
    OBVIOUS
  <2>1. txBuf \in [Index -> Cells] /\ txHead \in Index /\ txTail = txHead
    BY UsartInvInit DEF UsartInv, TypeOK, Init
  <2>2. RingContent(txBuf, txHead, txTail) = <<>>
    BY <2>1, EmptyRing
  <2>3. InRegister \o RingContent(txBuf, txHead, txTail) = <<>>
    BY <2>2, ConcatEmptySeq, EmptySeq DEF Init, InRegister
  <2> QED
    BY <2>3 DEF Tx!QueueInit, Init
<1> QED
  BY <1>1, UsartInvInit, UsartInvStep, TxStep, PTL DEF Spec, TxIsQueue, Tx!QueueSpec
=============================================================================
