----------------------------- MODULE ByteQueue -----------------------------
(***************************************************************************)
(* What a ring of the USART driver promises: a first-in first-out queue of *)
(* bounded capacity.  A byte that finds the queue full is not put at all.  *)
(***************************************************************************)
EXTENDS Integers, Sequences

CONSTANTS
  Capacity,   \* how many bytes the queue holds
  Bytes,      \* the bytes that go through it
  NoByte      \* no byte was taken yet

VARIABLES
  queue,      \* the bytes put and not yet taken, oldest first
  out         \* the byte taken last

queueVars == <<queue, out>>

QueueInit == queue = <<>> /\ out = NoByte

Put(b) ==
  /\ Len(queue) < Capacity
  /\ queue' = Append(queue, b)
  /\ UNCHANGED out

Take ==
  /\ queue # <<>>
  /\ out' = Head(queue)
  /\ queue' = Tail(queue)

QueueNext == Take \/ \E b \in Bytes : Put(b)

QueueSpec == QueueInit /\ [][QueueNext]_queueVars
=============================================================================
