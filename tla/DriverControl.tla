--------------------------- MODULE DriverControl ---------------------------
(***************************************************************************)
(* The control call every static driver answers, over a table of driver    *)
(* records.  A driver contributes its status rule and its init, start and  *)
(* stop; the table is passed along because the rule of one driver asks     *)
(* another one, whose last error that may change.                          *)
(***************************************************************************)
EXTENDS Naturals, Sequences

CONSTANT LevelCount   \* RL_LEVEL_COUNT

ASSUME LevelAssumption == LevelCount \in Nat \ {0}

StatusBits == {"init", "start", "error", "dead"}

DriverStates == {"off", "initialized", "running", "error", "dead"}

DriverErrors ==
  {"NO_ERROR", "NULL_POINTER", "INVALID_VALUE", "INVALID_CONTROL", "INVALID_STATE",
   "NOT_INITIALIZED", "NOT_RUNNING", "DEPENDENCY", "DEAD", "START_FAILED",
   "ADDRESS_NACK", "WRITE_FAILED", "READ_FAILED", "OUT_OF_RANGE"}

DriverRecords ==
  [bits : SUBSET StatusBits, level : 0 .. LevelCount - 1, error : DriverErrors]

\* Statically zero, and RL_RUN_NONE.
ColdDriver == [bits |-> {}, level |-> 0, error |-> "NO_ERROR"]

(* What a driver function leaves and returns. *)
Reply(table, state) == [table |-> table, state |-> state]

LastError(table, d, error) == [table EXCEPT ![d].error = error]
SetError(table, d, error)  == Reply(LastError(table, d, error), "error")

WithBits(table, d, bits) == [table EXCEPT ![d].bits = bits]

-----------------------------------------------------------------------------
(* Status rules.  A dead driver says so before anything else; one that     *)
(* started without being initialized is in an invalid state.               *)
LifeCycle(table, d) ==
  CASE {"init", "start"} \subseteq table[d].bits -> Reply(table, "running")
    [] {"init", "start"} \cap table[d].bits = {"init"} -> Reply(table, "initialized")
    [] {"init", "start"} \cap table[d].bits = {} -> Reply(table, "off")
    [] OTHER -> SetError(table, d, "INVALID_STATE")

Status(table, d, rest) ==
  IF "dead" \in table[d].bits THEN Reply(LastError(table, d, "DEAD"), "dead")
  ELSE IF "error" \in table[d].bits THEN SetError(table, d, "INVALID_STATE")
  ELSE rest

(* A driver that no other one carries. *)
OwnStatus(table, d) == Status(table, d, LifeCycle(table, d))

(* The host's USART and scheduling timer do not tell a start without init. *)
HostStatus(table, d) ==
  Status(table, d,
    IF "init" \in table[d].bits THEN LifeCycle(table, d) ELSE Reply(table, "off"))

(* A driver on the bus asks the bus driver before its own bits. *)
BusStatus(table, d, bus) ==
  Status(table, d,
    LET asked == OwnStatus(table, bus)
    IN  IF asked.state = "running" THEN LifeCycle(asked.table, d)
        ELSE SetError(asked.table, d, "DEPENDENCY"))

(* Operations need a running driver; a status that is an error already     *)
(* keeps the error it has set.                                             *)
RequireRunning(reply, d) ==
  IF reply.state \in {"off", "initialized"}
  THEN SetError(reply.table, d, "NOT_RUNNING") ELSE reply

(* The life cycle most drivers have, where it touches no other device;     *)
(* "left" is what a successful start leaves in the last error.             *)
Initialize(table, d) ==
  IF "dead" \in table[d].bits THEN SetError(table, d, "DEAD")
  ELSE Reply(LastError(WithBits(table, d, table[d].bits \cup {"init"}), d, "NO_ERROR"),
             "initialized")

(* Mutated form: a driver starts without having been initialized. *)
StartAlways(table, d, left) ==
  IF "dead" \in table[d].bits THEN SetError(table, d, "DEAD")
  ELSE Reply(LastError(WithBits(table, d, table[d].bits \cup {"start"}), d, left), "running")

StartInitialized(table, d, left) ==
  CASE "dead" \in table[d].bits -> SetError(table, d, "DEAD")
    [] {"dead", "init"} \cap table[d].bits = {} -> SetError(table, d, "NOT_INITIALIZED")
    [] OTHER -> Reply(LastError(WithBits(table, d, table[d].bits \cup {"start"}), d, left),
                      "running")

(* The host's USART and scheduling timer do not ask whether they are dead. *)
HostInit(table, d) ==
  Reply(LastError(WithBits(table, d, table[d].bits \cup {"init"}), d, "NO_ERROR"),
        "initialized")

HostStart(table, d) ==
  IF "init" \in table[d].bits
  THEN Reply(WithBits(table, d, table[d].bits \cup {"start"}), "running")
  ELSE SetError(table, d, "NOT_INITIALIZED")

ClearStart(table, d) == WithBits(table, d, table[d].bits \ {"start"})

-----------------------------------------------------------------------------
(* A control call: an operation, and what its data pointer points to: an   *)
(* empty sequence for a null pointer.                                      *)
Plain(op)      == [op |-> op, data |-> <<>>]
With(op, data) == [op |-> op, data |-> <<data>>]

LifeOps == {"INIT", "START", "STOP"}
BitOps  == {"SETBIT", "CLEARBIT", "GETBIT"}
DataOps == BitOps \cup {"RLSET", "RLGET", "GETLASTERROR"}

(* Whether a control call is refused for its arguments, and why. *)
Refusal(c) ==
  CASE c.op \notin LifeOps \cup DataOps \cup {"GETSTATUS"} -> "INVALID_CONTROL"
    [] c.op \in DataOps /\ c.data = <<>> -> "NULL_POINTER"
    [] c.op = "RLSET" /\ c.data # <<>> ->
         (IF c.data[1] < LevelCount THEN "NO_ERROR" ELSE "INVALID_VALUE")
    [] c.op \in BitOps /\ c.data # <<>> ->
         (IF c.data[1] \in StatusBits THEN "NO_ERROR" ELSE "INVALID_VALUE")
    [] OTHER -> "NO_ERROR"

(* What a call that is not a life cycle step stores in the driver.         *)
Stored(record, c) ==
  CASE c.op = "RLSET"    -> [record EXCEPT !.level = c.data[1]]
    [] c.op = "SETBIT"   -> [record EXCEPT !.bits = @ \cup {c.data[1]}]
    [] c.op = "CLEARBIT" -> [record EXCEPT !.bits = @ \ {c.data[1]}]
    [] OTHER             -> record

Store(table, d, c) == [table EXCEPT ![d] = Stored(@, c)]

(* The switch of every hal_*Control, between the driver's own init, start  *)
(* and stop and the status it has with what the call stored.               *)
Control(table, d, c, initialized, started, stopped, status) ==
  CASE c.op = "INIT"  -> initialized
    [] c.op = "START" -> started
    [] c.op = "STOP"  -> stopped
    [] c.op \notin LifeOps /\ Refusal(c) # "NO_ERROR" -> SetError(table, d, Refusal(c))
    [] OTHER -> status
=============================================================================
