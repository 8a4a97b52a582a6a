---------------------------- MODULE DriverProofs ----------------------------
(***************************************************************************)
(* The drivers whose status must agree with something outside of it: an    *)
(* interrupt, pins, a counter.  For every sequence of control calls and    *)
(* every interleaving with the calls that use them: a driver that says it  *)
(* runs is ready to, an error has a reason, a signal keeps its value, a    *)
(* reading of the clock is current, the console takes every character and  *)
(* shows what was printed, and a text says what its parser takes.          *)
(***************************************************************************)
EXTENDS DriverCommands, Signals, TickClock, HostConsole, CommandText,
  SequenceTheorems, WellFoundedInduction, TLAPS

Tables(names) == [names -> DriverRecords]

(* What every function of a driver leaves and answers. *)
Proper(reply, names, d) ==
  /\ reply.table \in Tables(names)
  /\ reply.state \in DriverStates
  /\ reply.state \in {"error", "dead"} => reply.table[d].error # "NO_ERROR"

(* The reply leaves a driver with these status bits, all others with       *)
(* theirs.                                                                 *)
Leaves(reply, table, d, bits) ==
  \A e \in DOMAIN table : reply.table[e].bits = IF e = d THEN bits ELSE table[e].bits

(* Neither the status nor an error touches the status bits.                *)
Keeps(reply, table) == \A e \in DOMAIN table : reply.table[e].bits = table[e].bits

-----------------------------------------------------------------------------
(* An error is answered with its reason on record (setError).              *)
LEMMA ErrorReply ==
  ASSUME NEW names, NEW d \in names, NEW table \in Tables(names),
         NEW error \in DriverErrors \ {"NO_ERROR"}
  PROVE  /\ Proper(SetError(table, d, error), names, d)
         /\ Keeps(SetError(table, d, error), table)
         /\ SetError(table, d, error).state = "error"
BY DEF Tables, Proper, Keeps, SetError, LastError, Reply, DriverRecords, DriverStates

(* Changing a driver's bits and last error changes nothing else.           *)
LEMMA BitsReply ==
  ASSUME NEW names, NEW d \in names, NEW table \in Tables(names),
         NEW bits \in SUBSET StatusBits, NEW error \in DriverErrors,
         NEW state \in DriverStates \ {"error", "dead"},
         NEW reply \in {Reply(LastError(WithBits(table, d, bits), d, error), state),
                        Reply(WithBits(table, d, bits), state)}
  PROVE  Proper(reply, names, d) /\ Leaves(reply, table, d, bits) /\ reply.state = state
<1>1. WithBits(table, d, bits) \in Tables(names)
  BY DEF WithBits, Tables, DriverRecords
<1>2. LastError(WithBits(table, d, bits), d, error) \in Tables(names)
  BY <1>1 DEF LastError, Tables, DriverRecords
<1>3. CASE reply = Reply(LastError(WithBits(table, d, bits), d, error), state)
  BY <1>2, <1>3 DEF Reply, LastError, WithBits, Proper, Leaves, Tables, DriverRecords
<1>4. CASE reply = Reply(WithBits(table, d, bits), state)
  BY <1>1, <1>4 DEF Reply, WithBits, Proper, Leaves, Tables, DriverRecords
<1>5. QED
  BY <1>3, <1>4

(* Only an initialized and started driver says it runs.                    *)
LEMMA LifeReply ==
  ASSUME NEW names, NEW d \in names, NEW table \in Tables(names)
  PROVE  /\ Proper(LifeCycle(table, d), names, d)
         /\ Keeps(LifeCycle(table, d), table)
         /\ LifeCycle(table, d).state = "running" => {"init", "start"} \subseteq table[d].bits
<1>1. /\ Proper(SetError(table, d, "INVALID_STATE"), names, d)
      /\ Keeps(SetError(table, d, "INVALID_STATE"), table)
      /\ SetError(table, d, "INVALID_STATE").state = "error"
  BY ErrorReply DEF DriverErrors
<1>2. QED
  BY <1>1 DEF LifeCycle, Proper, Keeps, Reply, DriverStates

(* The same of a status whose last answer comes from elsewhere; a dead     *)
(* driver and one with the error bit never say they run.                   *)
LEMMA StatusReply ==
  ASSUME NEW names, NEW d \in names, NEW table \in Tables(names), NEW rest,
         Proper(rest, names, d), Keeps(rest, table)
  PROVE  /\ Proper(Status(table, d, rest), names, d)
         /\ Keeps(Status(table, d, rest), table)
         /\ Status(table, d, rest).state = "running" =>
              rest.state = "running" /\ table[d].bits \cap {"dead", "error"} = {}
<1>1. CASE "dead" \in table[d].bits
  <2>1. Status(table, d, rest) = Reply(LastError(table, d, "DEAD"), "dead")
    BY <1>1 DEF Status
  <2>2. QED
    BY <2>1 DEF Proper, Keeps, Reply, LastError, Tables, DriverRecords, DriverErrors, DriverStates
<1>2. CASE "dead" \notin table[d].bits /\ "error" \in table[d].bits
  <2>1. Status(table, d, rest) = SetError(table, d, "INVALID_STATE")
    BY <1>2 DEF Status
  <2>2. QED
    BY <2>1, ErrorReply DEF DriverErrors
<1>3. CASE "dead" \notin table[d].bits /\ "error" \notin table[d].bits
  BY <1>3 DEF Status
<1>4. QED
  BY <1>1, <1>2, <1>3

LEMMA OwnReply ==
  ASSUME NEW names, NEW d \in names, NEW table \in Tables(names)
  PROVE  /\ Proper(OwnStatus(table, d), names, d)
         /\ Keeps(OwnStatus(table, d), table)
         /\ OwnStatus(table, d).state = "running" =>
              {"init", "start"} \subseteq table[d].bits /\ table[d].bits \cap {"dead", "error"} = {}
BY LifeReply, StatusReply DEF OwnStatus

LEMMA HostReply ==
  ASSUME NEW names, NEW d \in names, NEW table \in Tables(names)
  PROVE  /\ Proper(HostStatus(table, d), names, d)
         /\ Keeps(HostStatus(table, d), table)
         /\ HostStatus(table, d).state = "running" =>
              {"init", "start"} \subseteq table[d].bits /\ table[d].bits \cap {"dead", "error"} = {}
<1> DEFINE rest == IF "init" \in table[d].bits THEN LifeCycle(table, d) ELSE Reply(table, "off")
<1>1. /\ Proper(rest, names, d) /\ Keeps(rest, table)
      /\ rest.state = "running" => {"init", "start"} \subseteq table[d].bits
  BY LifeReply DEF Proper, Keeps, Reply, DriverStates
<1> HIDE DEF rest
<1>2. HostStatus(table, d) = Status(table, d, rest)
  BY DEF HostStatus, rest
<1>3. QED
  BY <1>1, <1>2, StatusReply

(* A status never takes a reason away (hal_*GetStatus).                    *)
LEMMA ReasonStays ==
  ASSUME NEW names, NEW d \in names, NEW table \in Tables(names), table[d].error # "NO_ERROR"
  PROVE  /\ OwnStatus(table, d).table[d].error # "NO_ERROR"
         /\ HostStatus(table, d).table[d].error # "NO_ERROR"
BY DEF OwnStatus, HostStatus, Status, LifeCycle, SetError, LastError, Reply, Tables, DriverRecords

(* An operation that needs a running driver fails with a reason or runs.   *)
LEMMA RequireReply ==
  ASSUME NEW names, NEW d \in names, NEW table, NEW asked,
         Proper(asked, names, d), Keeps(asked, table), DOMAIN table = names
  PROVE  /\ Proper(RequireRunning(asked, d), names, d)
         /\ Keeps(RequireRunning(asked, d), table)
         /\ RequireRunning(asked, d).state = "running" => RequireRunning(asked, d) = asked
         /\ RequireRunning(asked, d).state \in {"running", "error", "dead"}
<1>1. CASE asked.state \in {"off", "initialized"}
  <2> DEFINE refused == SetError(asked.table, d, "NOT_RUNNING")
  <2>1. RequireRunning(asked, d) = refused
    BY <1>1 DEF RequireRunning
  <2>2. asked.table \in Tables(names) /\ DOMAIN asked.table = names
    BY DEF Proper, Tables
  <2>3. Proper(refused, names, d) /\ Keeps(refused, asked.table) /\ refused.state = "error"
    BY <2>2, ErrorReply DEF DriverErrors
  <2> HIDE DEF refused
  <2>4. QED
    BY <2>1, <2>2, <2>3 DEF Keeps
<1>2. CASE asked.state \notin {"off", "initialized"}
  BY <1>2 DEF RequireRunning, Proper, DriverStates
<1>3. QED
  BY <1>1, <1>2

-----------------------------------------------------------------------------
(* The life cycle.  An initialization adds its bit or is refused, a start  *)
(* adds its bit to that of an initialization, a stop takes it away.        *)
LEMMA InitReply ==
  ASSUME NEW names, NEW d \in names, NEW table \in Tables(names),
         NEW reply \in {HostInit(table, d), Initialize(table, d)}
  PROVE  /\ Proper(reply, names, d)
         /\ \/ reply.state = "error" /\ Keeps(reply, table)
            \/ /\ reply.state = "initialized"
               /\ Leaves(reply, table, d, table[d].bits \cup {"init"})
<1>1. CASE reply = SetError(table, d, "DEAD")
  BY <1>1, ErrorReply DEF DriverErrors
<1>2. CASE reply = HostInit(table, d)
  <2>1. table[d].bits \cup {"init"} \in SUBSET StatusBits
    BY DEF Tables, DriverRecords, StatusBits
  <2>2. QED
    BY <1>2, <2>1, BitsReply DEF HostInit, DriverErrors, DriverStates
<1>3. QED
  BY <1>1, <1>2 DEF Initialize, HostInit

LEMMA StartReply ==
  ASSUME NEW names, NEW d \in names, NEW table \in Tables(names), NEW left \in DriverErrors,
         NEW reply \in {HostStart(table, d), StartInitialized(table, d, left)}
  PROVE  /\ Proper(reply, names, d)
         /\ \/ reply.state = "error" /\ Keeps(reply, table)
            \/ /\ reply.state = "running" /\ "init" \in table[d].bits
               /\ Leaves(reply, table, d, table[d].bits \cup {"start"})
<1>1. CASE reply \in {SetError(table, d, "DEAD"), SetError(table, d, "NOT_INITIALIZED")}
  BY <1>1, ErrorReply DEF DriverErrors
<1>2. CASE /\ "init" \in table[d].bits
           /\ reply \in {Reply(LastError(WithBits(table, d, table[d].bits \cup {"start"}), d, left),
                               "running"),
                         Reply(WithBits(table, d, table[d].bits \cup {"start"}), "running")}
  <2>1. table[d].bits \cup {"start"} \in SUBSET StatusBits
    BY DEF Tables, DriverRecords, StatusBits
  <2>2. QED
    BY <1>2, <2>1, BitsReply DEF DriverStates
<1>3. QED
  BY <1>1, <1>2 DEF HostStart, StartInitialized

LEMMA ClearedReply ==
  ASSUME NEW names, NEW d \in names, NEW table \in Tables(names), NEW reply,
         Proper(reply, names, d), Keeps(reply, ClearStart(table, d))
  PROVE  Leaves(reply, table, d, table[d].bits \ {"start"})
BY DEF Keeps, Leaves, ClearStart, WithBits, Tables, DriverRecords

LEMMA ClearedTable ==
  ASSUME NEW names, NEW d \in names, NEW table \in Tables(names)
  PROVE  ClearStart(table, d) \in Tables(names)
BY DEF Tables, ClearStart, WithBits, DriverRecords

(* Which branch of the control call an operation takes (hal_*Control).     *)
LEMMA ControlBranch ==
  ASSUME NEW table, NEW d, NEW c, NEW initialized, NEW started, NEW stopped, NEW status,
         NEW reply, reply = Control(table, d, c, initialized, started, stopped, status)
  PROVE  /\ c.op = "INIT" => reply = initialized
         /\ c.op = "START" => reply = started
         /\ c.op = "STOP" => reply = stopped
         /\ c.op \notin LifeOps =>
              reply = IF Refusal(c) # "NO_ERROR" THEN SetError(table, d, Refusal(c)) ELSE status
<1>1. CASE c.op = "INIT"
  BY <1>1 DEF Control, LifeOps
<1>2. CASE c.op = "START"
  BY <1>2 DEF Control, LifeOps
<1>3. CASE c.op = "STOP"
  BY <1>3 DEF Control, LifeOps
<1>4. CASE c.op \notin LifeOps
  BY <1>4 DEF Control, LifeOps
<1>5. QED
  BY <1>1, <1>2, <1>3, <1>4 DEF LifeOps

(* What callers may hand to a control call that stores something.          *)
Storable(c) ==
  Refusal(c) = "NO_ERROR" =>
    /\ c.op = "RLSET" => c.data[1] \in 0 .. LevelCount - 1
    /\ c.op \in {"SETBIT", "CLEARBIT"} => c.data # <<>> /\ c.data[1] \in StatusBits

LEMMA StoredRecord ==
  ASSUME NEW record \in DriverRecords, NEW c, Storable(c), Refusal(c) = "NO_ERROR"
  PROVE  /\ Stored(record, c) \in DriverRecords
         /\ c.op \notin {"SETBIT", "CLEARBIT"} => Stored(record, c).bits = record.bits
         /\ c.op = "SETBIT" => Stored(record, c).bits = record.bits \cup {c.data[1]}
         /\ c.op = "CLEARBIT" => Stored(record, c).bits = record.bits \ {c.data[1]}
<1>1. CASE c.op = "RLSET"
  BY <1>1 DEF Storable, Stored, DriverRecords
<1>2. CASE c.op = "SETBIT"
  BY <1>2 DEF Storable, Stored, DriverRecords
<1>3. CASE c.op = "CLEARBIT"
  BY <1>3 DEF Storable, Stored, DriverRecords
<1>4. CASE c.op \notin {"RLSET", "SETBIT", "CLEARBIT"}
  BY <1>4 DEF Stored
<1>5. QED
  BY <1>1, <1>2, <1>3, <1>4

LEMMA StoredTable ==
  ASSUME NEW names, NEW d \in names, NEW table \in Tables(names), NEW c,
         Storable(c), Refusal(c) = "NO_ERROR"
  PROVE  /\ Store(table, d, c) \in Tables(names)
         /\ \A e \in names : Store(table, d, c)[e] = IF e = d THEN Stored(table[d], c) ELSE table[e]
<1>1. table[d] \in DriverRecords
  BY DEF Tables
<1>2. Stored(table[d], c) \in DriverRecords
  BY <1>1, StoredRecord
<1>3. QED
  BY <1>2 DEF Store, Tables

LEMMA RefusalReply ==
  ASSUME NEW names, NEW d \in names, NEW table \in Tables(names), NEW c,
         Refusal(c) # "NO_ERROR"
  PROVE  /\ Proper(SetError(table, d, Refusal(c)), names, d)
         /\ Keeps(SetError(table, d, Refusal(c)), table)
         /\ SetError(table, d, Refusal(c)).state = "error"
<1>1. Refusal(c) \in DriverErrors \ {"NO_ERROR"}
  BY DEF Refusal, DriverErrors
<1>2. QED
  BY <1>1, ErrorReply

(* What a control call may answer, given the driver's own init and start:  *)
(* a stop leaves it stopped, everything else is refused or stored.         *)
Answers(reply, table, names, d, c, initialized, started) ==
  /\ Proper(reply, names, d)
  /\ c.op = "INIT" => reply = initialized
  /\ c.op = "START" => reply = started
  /\ c.op = "STOP" => Leaves(reply, table, d, table[d].bits \ {"start"})
  /\ c.op \notin LifeOps =>
       \/ reply.state = "error" /\ Keeps(reply, table)
       \/ /\ Refusal(c) = "NO_ERROR"
          /\ Leaves(reply, table, d, Stored(table[d], c).bits)

(* A whole control call, from what the driver's own functions reply.       *)
LEMMA ControlReply ==
  ASSUME NEW names, NEW d \in names, NEW table \in Tables(names), NEW c,
         NEW initialized, NEW started, NEW stopped, NEW status, NEW reply,
         reply = Control(table, d, c, initialized, started, stopped, status), Storable(c),
         Proper(initialized, names, d), Proper(started, names, d),
         Proper(stopped, names, d), Keeps(stopped, ClearStart(table, d)),
         Store(table, d, c) \in Tables(names) =>
           Proper(status, names, d) /\ Keeps(status, Store(table, d, c))
  PROVE  Answers(reply, table, names, d, c, initialized, started)
<1> USE DEF Answers
<1>1. CASE c.op = "INIT"
  BY <1>1, ControlBranch DEF LifeOps
<1>2. CASE c.op = "START"
  BY <1>2, ControlBranch DEF LifeOps
<1>3. CASE c.op = "STOP"
  <2>1. reply = stopped
    BY <1>3, ControlBranch
  <2>2. QED
    BY <1>3, <2>1, ClearedReply DEF LifeOps
<1>4. CASE c.op \notin LifeOps /\ Refusal(c) # "NO_ERROR"
  <2>1. reply = SetError(table, d, Refusal(c))
    BY <1>4, ControlBranch
  <2>2. QED
    BY <1>4, <2>1, RefusalReply DEF LifeOps
<1>5. CASE c.op \notin LifeOps /\ Refusal(c) = "NO_ERROR"
  <2>1. reply = status
    BY <1>5, ControlBranch
  <2>2. /\ Store(table, d, c) \in Tables(names)
        /\ \A e \in names : Store(table, d, c)[e] = IF e = d THEN Stored(table[d], c) ELSE table[e]
    BY <1>5, StoredTable
  <2>3. Proper(reply, names, d) /\ Keeps(reply, Store(table, d, c))
    BY <2>1, <2>2
  <2>4. Leaves(reply, table, d, Stored(table[d], c).bits)
    BY <2>2, <2>3 DEF Keeps, Leaves, Tables
  <2>5. QED
    BY <1>5, <2>3, <2>4 DEF LifeOps
<1>6. QED
  BY <1>1, <1>2, <1>3, <1>4, <1>5 DEF LifeOps

(* The same with the life cycle of most drivers, none of which is carried  *)
(* by another.                                                             *)
OwnAnswers(reply, table, names, d, c) ==
  /\ Proper(reply, names, d)
  /\ c.op = "INIT" =>
       \/ reply.state = "error" /\ Keeps(reply, table)
       \/ /\ reply.state = "initialized"
          /\ Leaves(reply, table, d, table[d].bits \cup {"init"})
  /\ c.op = "START" =>
       \/ reply.state = "error" /\ Keeps(reply, table)
       \/ /\ reply.state = "running" /\ "init" \in table[d].bits
          /\ Leaves(reply, table, d, table[d].bits \cup {"start"})
  /\ c.op = "STOP" => Leaves(reply, table, d, table[d].bits \ {"start"})
  /\ c.op \notin LifeOps =>
       \/ reply.state = "error" /\ Keeps(reply, table)
       \/ /\ Refusal(c) = "NO_ERROR"
          /\ Leaves(reply, table, d, Stored(table[d], c).bits)

LEMMA OwnControl ==
  ASSUME NEW names, NEW d \in names, NEW table \in Tables(names), NEW left \in DriverErrors,
         NEW c, NEW reply, Storable(c),
         reply = Control(table, d, c, Initialize(table, d), StartInitialized(table, d, left),
                         OwnStatus(ClearStart(table, d), d), OwnStatus(Store(table, d, c), d))
  PROVE  OwnAnswers(reply, table, names, d, c)
<1> DEFINE initialized == Initialize(table, d)
           started == StartInitialized(table, d, left)
           stopped == OwnStatus(ClearStart(table, d), d)
           status  == OwnStatus(Store(table, d, c), d)
<1>1. /\ Proper(initialized, names, d)
      /\ \/ initialized.state = "error" /\ Keeps(initialized, table)
         \/ /\ initialized.state = "initialized"
            /\ Leaves(initialized, table, d, table[d].bits \cup {"init"})
  BY InitReply
<1>2. /\ Proper(started, names, d)
      /\ \/ started.state = "error" /\ Keeps(started, table)
         \/ /\ started.state = "running" /\ "init" \in table[d].bits
            /\ Leaves(started, table, d, table[d].bits \cup {"start"})
  BY StartReply
<1>3. Proper(stopped, names, d) /\ Keeps(stopped, ClearStart(table, d))
  BY ClearedTable, OwnReply
<1>4. Store(table, d, c) \in Tables(names) =>
        Proper(status, names, d) /\ Keeps(status, Store(table, d, c))
  BY OwnReply
<1>5. reply = Control(table, d, c, initialized, started, stopped, status)
  OBVIOUS
<1> HIDE DEF initialized, started, stopped, status
<1>6. Answers(reply, table, names, d, c, initialized, started)
  BY <1>1, <1>2, <1>3, <1>4, <1>5, ControlReply
<1>7. QED
  BY <1>1, <1>2, <1>6 DEF Answers, OwnAnswers

-----------------------------------------------------------------------------
(* The drivers of DriverCommands.                                          *)
LEMMA ServantReply ==
  ASSUME NEW table \in Tables({served})
  PROVE  /\ Proper(ServantStatus(table), {served}, served)
         /\ Keeps(ServantStatus(table), table)
         /\ ServantStatus(table).state = "running" => {"init", "start"} \subseteq table[served].bits
BY OwnReply, HostReply DEF ServantStatus

(* Only a start that succeeds or a bit set by hand starts a driver, and a  *)
(* stop leaves it stopped (hal_*Control).                                  *)
Starts(c, reply) ==
  \/ c.op = "START" /\ reply.state = "running"
  \/ c.op = "SETBIT" /\ c.data # <<>> /\ c.data[1] = "start"

StartedBy(c, reply) ==
  "start" \in reply.table[served].bits =>
    /\ c.op # "STOP"
    /\ "start" \in servant[served].bits \/ Starts(c, reply)

(* Every call the model makes is one that names a bit or a level.          *)
LEMMA CallsAreStorable ==
  ASSUME LevelAssumption, NEW c \in ControlCalls
  PROVE  Storable(c)
<1>1. CASE c.op = "RLSET" /\ Refusal(c) = "NO_ERROR"
  <2>1. c.data # <<>> /\ c.data[1] < LevelCount
    BY <1>1 DEF Refusal, LifeOps, DataOps, BitOps
  <2>2. PICK level \in {0, LevelCount - 1, LevelCount} : c = With("RLSET", level)
    BY <1>1, <2>1 DEF ControlCalls, Plain, With, BitOps
  <2>3. c.data[1] \in 0 .. LevelCount - 1
    BY <2>1, <2>2 DEF With, LevelAssumption
  <2>4. QED
    BY <1>1, <2>3 DEF Storable
<1>2. CASE c.op \in BitOps /\ Refusal(c) = "NO_ERROR"
  BY <1>2 DEF Refusal, LifeOps, DataOps, BitOps, Storable
<1>3. QED
  BY <1>1, <1>2 DEF Storable, BitOps

LEMMA ServantControlled ==
  ASSUME LevelAssumption, servant \in Tables({served}), NEW c \in ControlCalls
  PROVE  Proper(ServantControl(c), {served}, served) /\ StartedBy(c, ServantControl(c))
<1> DEFINE initialized == IF served = "schedTimer" THEN HostInit(servant, served)
                          ELSE Initialize(servant, served)
           started == IF served = "schedTimer" THEN HostStart(servant, served)
                      ELSE StartInitialized(servant, served, servant[served].error)
           stopped == ServantStatus(ClearStart(servant, served))
           status  == ServantStatus(Store(servant, served, c))
           reply   == ServantControl(c)
<1>0. servant[served].error \in DriverErrors /\ DOMAIN servant = {served}
  BY DEF Tables, DriverRecords
<1>1. /\ Proper(initialized, {served}, served)
      /\ \/ Keeps(initialized, servant)
         \/ Leaves(initialized, servant, served, servant[served].bits \cup {"init"})
  <2>1. initialized \in {HostInit(servant, served), Initialize(servant, served)}
    OBVIOUS
  <2>2. QED
    BY <2>1, InitReply
<1>2. /\ Proper(started, {served}, served)
      /\ Keeps(started, servant) \/ started.state = "running"
  <2>1. started \in {HostStart(servant, served),
                     StartInitialized(servant, served, servant[served].error)}
    OBVIOUS
  <2>2. PICK left \in DriverErrors : left = servant[served].error
    BY <1>0
  <2> HIDE DEF started
  <2>3. QED
    BY <2>1, <2>2, StartReply, ZenonT(60)
<1>3. Proper(stopped, {served}, served) /\ Keeps(stopped, ClearStart(servant, served))
  BY ClearedTable, ServantReply
<1>4. Store(servant, served, c) \in Tables({served}) =>
        Proper(status, {served}, served) /\ Keeps(status, Store(servant, served, c))
  BY ServantReply
<1>5. Storable(c) /\ servant[served] \in DriverRecords
  BY CallsAreStorable DEF Tables
<1>6. reply = Control(servant, served, c, initialized, started, stopped, status)
  BY DEF ServantControl
<1> HIDE DEF initialized, started, stopped, status, reply
<1>7. Answers(reply, servant, {served}, served, c, initialized, started)
  BY <1>1, <1>2, <1>3, <1>4, <1>5, <1>6, ControlReply
<1>8. StartedBy(c, reply)
  <2>1. CASE c.op \in LifeOps
    BY <1>0, <1>1, <1>2, <1>7, <2>1 DEF Answers, LifeOps, StartedBy, Starts, Keeps, Leaves
  <2>2. CASE c.op \notin LifeOps
    <3>1. Refusal(c) = "NO_ERROR" =>
            ("start" \in Stored(servant[served], c).bits
               => "start" \in servant[served].bits \/ Starts(c, reply))
      BY <1>5, StoredRecord DEF Starts, Storable
    <3>2. QED
      BY <1>0, <1>7, <2>2, <3>1 DEF Answers, StartedBy, Keeps, Leaves, LifeOps
  <2>3. QED
    BY <2>1, <2>2
<1>9. QED
  BY <1>7, <1>8 DEF Answers, reply

-----------------------------------------------------------------------------
(* The invariant: a started driver has its interrupt unless it is          *)
(* disturbed, and on the host an undisturbed one has it even when stopped  *)
(* by clearing its status bit, since starting does not bring it back.      *)
Attended ==
  ~disturbed =>
    /\ "start" \in servant[served].bits => awake
    /\ served = "schedTimer" => awake

ControlInvariant == ControlTypeOK /\ Attended /\ FailureHasReason

LEMMA ControlInitially == ASSUME LevelAssumption, ControlInit PROVE ControlInvariant
<1>1. ColdDriver \in DriverRecords /\ "start" \notin ColdDriver.bits
  BY DEF ColdDriver, DriverRecords, DriverErrors, StatusBits, LevelAssumption
<1>2. servant \in Tables({served}) /\ servant[served] = ColdDriver
  BY <1>1 DEF ControlInit, Tables
<1>3. ControlTypeOK
  BY <1>2 DEF ControlInit, ControlTypeOK, Tables, DriverStates
<1>4. Attended
  BY <1>1, <1>2 DEF ControlInit, Attended
<1>5. FailureHasReason
  BY DEF ControlInit, FailureHasReason
<1>6. QED
  BY <1>3, <1>4, <1>5 DEF ControlInvariant

(* Every call, and the host's activation, keeps the invariant.             *)
LEMMA ControlStep ==
  ASSUME LevelAssumption, ControlInvariant, [ControlNext]_controlVars
  PROVE  ControlInvariant'
<1> USE DEF ControlInvariant
<1>0. /\ served \in Servants /\ servant \in Tables({served}) /\ DOMAIN servant = {served}
      /\ {awake, activated, ended, disturbed} \subseteq BOOLEAN
  BY DEF ControlTypeOK, Tables
<1>1. ASSUME NEW c \in ControlCalls, ControlCall(c) PROVE ControlInvariant'
  <2> DEFINE reply == ServantControl(c)
  <2>0. Proper(reply, {served}, served) /\ StartedBy(c, reply)
    BY <1>0, ServantControlled
  <2>1. served' = served /\ servant' = reply.table /\ answer' = reply.state /\ ended' = ended
    BY <1>1 DEF ControlCall
  <2>2. /\ awake' = Awake(c, reply.state \in {"initialized", "running"})
        /\ activated' = (activated /\ c.op # "STOP")
        /\ disturbed' = ((disturbed /\ ~Mends(c, reply)) \/ Disturbs(c))
    BY <1>1 DEF ControlCall
  <2>3. ControlTypeOK'
    BY <1>0, <2>0, <2>1, <2>2 DEF ControlTypeOK, Proper, Tables, Awake, Mends, Disturbs
  <2>4. Attended'
    <3>1. SUFFICES ASSUME ~disturbed' PROVE ("start" \in servant'[served].bits => awake')
                                            /\ (served = "schedTimer" => awake')
      BY <2>1 DEF Attended
    <3>2. ~Disturbs(c) /\ (disturbed => Mends(c, reply))
      BY <2>2, <3>1
    <3>3. CASE served = "schedTimer"
      BY <2>2, <3>2, <3>3 DEF Attended, Awake, Disturbs, Mends, BoardDrivers
    <3>4. CASE served \in BoardDrivers /\ disturbed
      BY <2>2, <3>2, <3>4 DEF Awake, Mends, BoardDrivers
    <3>5. CASE served \in BoardDrivers /\ ~disturbed
      <4>1. SUFFICES ASSUME "start" \in reply.table[served].bits PROVE awake'
        BY <2>1, <3>5 DEF BoardDrivers
      <4>2. c.op # "STOP" /\ ("start" \in servant[served].bits \/ Starts(c, reply))
        BY <2>0, <4>1 DEF StartedBy
      <4>3. CASE Starts(c, reply)
        BY <2>2, <3>2, <3>5, <4>3 DEF Starts, Disturbs, Awake
      <4>4. CASE "start" \in servant[served].bits
        BY <2>2, <3>2, <3>5, <4>2, <4>4 DEF Attended, Disturbs, Awake
      <4>5. QED
        BY <4>2, <4>3, <4>4
    <3>6. QED
      BY <1>0, <3>1, <3>3, <3>4, <3>5 DEF Servants
  <2>5. FailureHasReason'
    BY <2>0, <2>1 DEF FailureHasReason, Proper
  <2>6. QED
    BY <2>3, <2>4, <2>5
<1>2. ASSUME NEW reply, Proper(reply, {served}, served), Keeps(reply, servant),
             servant' = reply.table, answer' = reply.state,
             UNCHANGED <<served, awake, activated, ended, disturbed>>
      PROVE ControlInvariant'
  <2>1. ControlTypeOK'
    BY <1>0, <1>2 DEF ControlTypeOK, Proper, Tables
  <2>2. Attended'
    BY <1>0, <1>2 DEF Attended, Keeps
  <2>3. FailureHasReason'
    BY <1>2 DEF FailureHasReason, Proper
  <2>4. QED
    BY <2>1, <2>2, <2>3
<1>3. ASSUME NEW null \in BOOLEAN, SetCallback(null) PROVE ControlInvariant'
  <2> DEFINE reply == IF null THEN SetError(servant, served, "NULL_POINTER")
                      ELSE ServantStatus(servant)
  <2>1. Proper(reply, {served}, served) /\ Keeps(reply, servant)
    BY <1>0, ServantReply, ErrorReply DEF DriverErrors
  <2>2. /\ servant' = reply.table /\ answer' = reply.state
        /\ UNCHANGED <<served, awake, activated, ended, disturbed>>
    BY <1>3 DEF SetCallback
  <2> HIDE DEF reply
  <2>3. QED
    BY <1>2, <2>1, <2>2
<1>4. ASSUME Load PROVE ControlInvariant'
  <2> DEFINE asked == ServantStatus(servant)
             reply == CASE served = "contextTimer" -> RequireRunning(asked, served)
                        [] asked.state = "running" -> asked
                        [] OTHER -> SetError(asked.table, served, "NOT_RUNNING")
  <2>1. Proper(asked, {served}, served) /\ Keeps(asked, servant)
    BY <1>0, ServantReply
  <2>2. /\ servant' = reply.table /\ answer' = reply.state
        /\ UNCHANGED <<served, awake, activated, ended, disturbed>>
    BY <1>4 DEF Load
  <2>3. /\ Proper(SetError(asked.table, served, "NOT_RUNNING"), {served}, served)
        /\ Keeps(SetError(asked.table, served, "NOT_RUNNING"), asked.table)
    BY <2>1, ErrorReply DEF Proper, DriverErrors
  <2>4. reply \in {asked, SetError(asked.table, served, "NOT_RUNNING")}
    BY DEF RequireRunning
  <2> HIDE DEF reply, asked
  <2>5. Proper(reply, {served}, served) /\ Keeps(reply, servant)
    BY <1>0, <2>1, <2>3, <2>4 DEF Keeps, Proper, Tables
  <2>6. QED
    BY <1>2, <2>2, <2>5
<1>5. ASSUME Activate PROVE ControlInvariant'
  <2> DEFINE asked == ServantStatus(servant)
  <2>1. /\ Proper(asked, {served}, served) /\ Keeps(asked, servant)
        /\ servant[served].error # "NO_ERROR" => asked.table[served].error # "NO_ERROR"
    BY <1>0, ServantReply, ReasonStays DEF ServantStatus
  <2>2. /\ servant' = asked.table /\ UNCHANGED <<served, answer>>
        /\ ended' = (asked.state # "running") /\ awake' = (awake \/ asked.state = "running")
        /\ activated' = (asked.state = "running")
        /\ disturbed' = (disturbed /\ asked.state # "running")
    BY <1>5 DEF Activate
  <2> HIDE DEF asked
  <2>3. ControlTypeOK'
    BY <1>0, <2>1, <2>2 DEF ControlTypeOK, Proper, Tables
  <2>4. Attended'
    BY <1>0, <2>1, <2>2 DEF Attended, Keeps
  <2>5. FailureHasReason'
    BY <2>1, <2>2 DEF FailureHasReason, Proper
  <2>6. QED
    BY <2>3, <2>4, <2>5
<1>6. CASE UNCHANGED controlVars
  BY <1>6 DEF controlVars, ControlTypeOK, Attended, FailureHasReason
<1>7. QED
  BY <1>1, <1>3, <1>4, <1>5, <1>6 DEF ControlNext

(* Whatever calls come, a driver that says it runs has its interrupt,      *)
(* unless it is disturbed (hal_timerContextStart, hal_usartStart).         *)
THEOREM RunningIsAwake == ASSUME LevelAssumption PROVE ControlSpec => []RunningDriverIsAwake
<1>1. ControlInvariant => RunningDriverIsAwake
  <2>1. SUFFICES ASSUME ControlInvariant PROVE RunningDriverIsAwake
    OBVIOUS
  <2>2. served \in Servants /\ servant \in Tables({served})
    BY <2>1 DEF ControlInvariant, ControlTypeOK, Tables
  <2>3. QED
    BY <2>1, <2>2, ServantReply DEF ControlInvariant, Attended, RunningDriverIsAwake
<1>2. QED
  BY <1>1, ControlInitially, ControlStep, PTL DEF ControlSpec

(* A call that answers an error, or a dead driver, leaves a reason.        *)
THEOREM FailuresHaveReasons == ASSUME LevelAssumption PROVE ControlSpec => []FailureHasReason
<1>1. ControlInvariant => FailureHasReason
  BY DEF ControlInvariant
<1>2. QED
  BY <1>1, ControlInitially, ControlStep, PTL DEF ControlSpec
-----------------------------------------------------------------------------
(* The GPIO signals.  An update is one store to a register of a port.       *)
Updates == [register : PortRegisters, number : Pins, on : BOOLEAN]

UserStates ==
  [updates : Seq(Updates), pins : SUBSET SignalNames, loaded : SUBSET Pins,
   holds : BOOLEAN, starts : BOOLEAN]

(* The part of the types the argument needs.                               *)
RegistersOK ==
  /\ ddr \in [Ports -> SUBSET Pins]
  /\ port \in [Ports -> SUBSET Pins]
  /\ shown \in [SignalNames -> BOOLEAN]
  /\ user \in [SignalUsers -> UserStates]

(* What a thread has loaded is what the register still holds, unless       *)
(* another thread has stored to it since, which then counts as a race.     *)
HoldsCurrent(t) ==
  user[t].holds =>
    /\ user[t].updates # <<>>
    /\ \A r \in PortRegisters :
         Head(user[t].updates).register = r => r \in raced \/ user[t].loaded = Contents(r)

SignalInvariant ==
  /\ RegistersOK
  /\ \A t \in SignalUsers : HoldsCurrent(t)
  /\ SignalsAreKept

-----------------------------------------------------------------------------
(* Every update a call schedules is one of a pin it is wired to.           *)
LEMMA PinUpdates ==
  ASSUME SignalAssumption, NEW s \in SignalNames, NEW value \in BOOLEAN
  PROVE  PinInit(s) \in Seq(Updates) /\ PinWrite(s, value) \in Seq(Updates)
<1>1. /\ Wiring[s].port \in Ports /\ Wiring[s].number \in Pins
      /\ Output(s) \in BOOLEAN
  BY DEF Ports, Pins, Output
<1>2. \A kind \in {"ddr", "port"}, on \in BOOLEAN :
        Update(kind, Wiring[s].port, Wiring[s].number, on) \in Updates
  BY <1>1 DEF Update, Updates, PortRegisters
<1>3. PinWrite(s, value) \in Seq(Updates)
  BY <1>2 DEF PinWrite
<1> DEFINE direction == <<Update("ddr", Wiring[s].port, Wiring[s].number, Output(s))>>
           pull == IF Wiring[s].pullUp
                   THEN <<Update("port", Wiring[s].port, Wiring[s].number, TRUE)>> ELSE <<>>
<1>4. direction \in Seq(Updates)
  BY <1>1, <1>2
<1>5. pull \in Seq(Updates)
  <2>1. PICK update \in Updates : update = Update("port", Wiring[s].port, Wiring[s].number, TRUE)
    BY <1>1 DEF Update, Updates, PortRegisters
  <2>2. pull \in {<<update>>, <<>>}
    BY <2>1 DEF pull
  <2>3. <<update>> \in Seq(Updates) /\ <<>> \in Seq(Updates)
    OBVIOUS
  <2> HIDE DEF pull
  <2>4. QED
    BY <2>2, <2>3, Zenon
<1>6. PinInit(s) = direction \o pull
  BY DEF PinInit
<1> HIDE DEF direction, pull
<1>7. direction \o pull \in Seq(Updates)
  BY <1>4, <1>5, ConcatProperties
<1>8. QED
  BY <1>3, <1>6, <1>7

(* A store changes one register and no other.                              *)
LEMMA RegisterSet ==
  ASSUME RegistersOK, NEW register \in PortRegisters, NEW bits \in SUBSET Pins,
         SetRegister(register, bits)
  PROVE  /\ ddr' \in [Ports -> SUBSET Pins] /\ port' \in [Ports -> SUBSET Pins]
         /\ \A r \in PortRegisters : Contents(r)' = IF r = register THEN bits ELSE Contents(r)
BY DEF RegistersOK, PortRegisters, SetRegister, Contents

(* A store races with every other thread that holds the register.          *)
LEMMA OthersHoldCurrent ==
  ASSUME RegistersOK, NEW t \in SignalUsers, NEW v \in SignalUsers, v # t, HoldsCurrent(v),
         NEW register \in PortRegisters, NEW bits \in SUBSET Pins, SetRegister(register, bits),
         raced' = raced \cup Races(t, register), user'[v] = user[v]
  PROVE  HoldsCurrent(v)'
<1>1. ASSUME NEW r \in PortRegisters, user[v].holds, Head(user[v].updates).register = r
      PROVE  r \in raced' \/ user[v].loaded = Contents(r)'
  <2>1. CASE r = register
    BY <1>1, <2>1 DEF Races
  <2>2. CASE r # register
    BY <1>1, <2>2, RegisterSet DEF HoldsCurrent
  <2>3. QED
    BY <2>1, <2>2
<1>2. QED
  BY <1>1 DEF HoldsCurrent

(* After the store of one update, every signal that did not race shows     *)
(* what it should.                                                         *)
LEMMA StoreKeeps ==
  ASSUME RegistersOK, SignalsAreKept, NEW t \in SignalUsers,
         NEW update \in Updates, NEW loaded \in SUBSET Pins,
         update.register \in raced \/ loaded = Contents(update.register),
         SetRegister(update.register, Updated(loaded, update)),
         shown' = ShownAfter(update), raced' = raced \cup Races(t, update.register)
  PROVE  SignalsAreKept' /\ shown' \in [SignalNames -> BOOLEAN]
<1>1. update.on \in BOOLEAN /\ update.register \in PortRegisters /\ update.number \in Pins
      /\ Updated(loaded, update) \in SUBSET Pins
  BY DEF Updates, Updated
<1>2. shown' \in [SignalNames -> BOOLEAN]
  BY <1>1 DEF ShownAfter, RegistersOK
<1>3. ASSUME NEW s \in SignalNames, <<"port", Wiring[s].port>> \notin raced'
      PROVE  shown'[s] = (Wiring[s].number \in port'[Wiring[s].port])
  <2> DEFINE register == <<"port", Wiring[s].port>>
  <2>1. register \in PortRegisters /\ register \notin raced
    BY <1>3 DEF PortRegisters, Ports
  <2>2. Contents(register)' = port'[Wiring[s].port] /\ Contents(register) = port[Wiring[s].port]
    BY DEF Contents
  <2>3. Contents(register)' = IF register = update.register THEN Updated(loaded, update)
                              ELSE Contents(register)
    BY <1>1, <2>1, RegisterSet
  <2>4. shown[s] = (Wiring[s].number \in port[Wiring[s].port])
    BY <2>1 DEF SignalsAreKept
  <2>5. CASE register = update.register
    <3>1. port'[Wiring[s].port] = Updated(port[Wiring[s].port], update)
      BY <2>1, <2>2, <2>3, <2>5
    <3>2. CASE Wiring[s].number = update.number
      BY <1>1, <2>5, <3>1, <3>2 DEF ShownAfter, Updated
    <3>3. CASE Wiring[s].number # update.number
      BY <1>1, <2>4, <3>1, <3>3 DEF ShownAfter, Updated
    <3>4. QED
      BY <3>2, <3>3
  <2>6. CASE register # update.register
    BY <2>2, <2>3, <2>4, <2>6 DEF ShownAfter
  <2>7. QED
    BY <2>5, <2>6
<1>4. QED
  BY <1>2, <1>3 DEF SignalsAreKept

-----------------------------------------------------------------------------
LEMMA SignalInitially == ASSUME SignalInit PROVE SignalInvariant
<1>1. RegistersOK
  BY DEF SignalInit, RegistersOK, UserStates, NoUser
<1>2. \A t \in SignalUsers : HoldsCurrent(t)
  BY DEF SignalInit, HoldsCurrent, NoUser
<1>3. SignalsAreKept
  <2>1. ASSUME NEW s \in SignalNames
        PROVE  shown[s] \in BOOLEAN /\ ~shown[s] /\ Wiring[s].number \notin port[Wiring[s].port]
    BY DEF SignalInit, Ports
  <2>2. QED
    BY <2>1 DEF SignalsAreKept
<1>4. QED
  BY <1>1, <1>2, <1>3 DEF SignalInvariant

(* A step that only moves one thread along keeps the invariant when that   *)
(* thread then holds what it should.                                       *)
LEMMA MovingAlong ==
  ASSUME SignalInvariant, NEW t \in SignalUsers, NEW next \in UserStates,
         user' = [user EXCEPT ![t] = next] \/ user' = user,
         UNCHANGED <<ddr, port, shown, raced>>,
         next.holds => /\ next.updates # <<>>
                       /\ \A r \in PortRegisters :
                            Head(next.updates).register = r => next.loaded = Contents(r)
  PROVE  SignalInvariant'
<1>1. RegistersOK'
  BY DEF SignalInvariant, RegistersOK
<1>2. SignalsAreKept'
  BY DEF SignalInvariant, SignalsAreKept
<1>3. ASSUME NEW v \in SignalUsers PROVE HoldsCurrent(v)'
  <2>1. CASE v = t /\ user' = [user EXCEPT ![t] = next]
    <3>1. user'[v] = next
      BY <2>1 DEF SignalInvariant, RegistersOK
    <3>2. QED
      BY <3>1 DEF HoldsCurrent, Contents
  <2>2. CASE user'[v] = user[v]
    BY <2>2 DEF SignalInvariant, HoldsCurrent, Contents
  <2>3. QED
    BY <2>1, <2>2 DEF SignalInvariant, RegistersOK
<1>4. QED
  BY <1>1, <1>2, <1>3 DEF SignalInvariant

(* What GpioCommand, SignalSet, LoadRegister, NextPin and FinishStart do.  *)
LEMMA CallsMoveAlong ==
  ASSUME SignalAssumption, SignalInvariant, NEW t \in SignalUsers,
         \/ \E op \in LifeOps : GpioCommand(t, Plain(op))
         \/ \E s \in SignalNames, value \in BOOLEAN : SignalSet(t, s, value)
         \/ NextPin(t) \/ FinishStart(t)
  PROVE  SignalInvariant'
<1>1. user[t] \in UserStates /\ user \in [SignalUsers -> UserStates]
      /\ (user[t].holds => user[t].updates # <<>>)
  BY DEF SignalInvariant, RegistersOK, HoldsCurrent
<1>2. NoUser \in UserStates /\ ~NoUser.holds
  BY DEF NoUser, UserStates
<1>3. ASSUME NEW op \in LifeOps, GpioCommand(t, Plain(op)) PROVE SignalInvariant'
  <2> DEFINE next == [user[t] EXCEPT !.pins = SignalNames, !.starts = TRUE]
  <2>1. next \in UserStates /\ ~next.holds
    BY <1>2, <1>3 DEF GpioCommand, IdleUser, UserStates
  <2>2. user' = [user EXCEPT ![t] = next] \/ user' = user
    BY <1>1, <1>3 DEF GpioCommand
  <2>3. UNCHANGED <<ddr, port, shown, raced>>
    BY <1>3 DEF GpioCommand
  <2> HIDE DEF next
  <2>4. QED
    BY <2>1, <2>2, <2>3, MovingAlong
<1>4. ASSUME NEW s \in SignalNames, NEW value \in BOOLEAN, SignalSet(t, s, value)
      PROVE  SignalInvariant'
  <2> DEFINE next == [user[t] EXCEPT !.updates = PinWrite(s, value)]
  <2>1. next \in UserStates /\ ~next.holds
    BY <1>1, <1>2, <1>4, PinUpdates DEF SignalSet, IdleUser, UserStates
  <2>2. user' = [user EXCEPT ![t] = next] \/ user' = user
    BY <1>1, <1>4 DEF SignalSet
  <2>3. UNCHANGED <<ddr, port, shown, raced>>
    BY <1>4 DEF SignalSet
  <2> HIDE DEF next
  <2>4. QED
    BY <2>1, <2>2, <2>3, MovingAlong
<1>5. ASSUME NextPin(t) PROVE SignalInvariant'
  <2>1. PICK s \in SignalNames :
          user' = [user EXCEPT ![t].updates = PinInit(s), ![t].pins = @ \ {s}]
    BY <1>1, <1>5 DEF NextPin, UserStates
  <2> DEFINE next == [user[t] EXCEPT !.updates = PinInit(s), !.pins = @ \ {s}]
  <2>2. next \in UserStates /\ ~next.holds
    BY <1>1, <1>5, PinUpdates DEF NextPin, UserStates
  <2>3. user' = [user EXCEPT ![t] = next]
    BY <1>1, <2>1
  <2>4. UNCHANGED <<ddr, port, shown, raced>>
    BY <1>5 DEF NextPin
  <2> HIDE DEF next
  <2>5. QED
    BY <2>2, <2>3, <2>4, MovingAlong
<1>6. ASSUME FinishStart(t) PROVE SignalInvariant'
  BY <1>2, <1>6, MovingAlong DEF FinishStart
<1>7. QED
  BY <1>3, <1>4, <1>5, <1>6

LEMMA LoadKeeps ==
  ASSUME SignalInvariant, NEW t \in SignalUsers, LoadRegister(t)
  PROVE  SignalInvariant'
<1>1. user[t] \in UserStates /\ user \in [SignalUsers -> UserStates] /\ user[t].updates # <<>>
  BY DEF SignalInvariant, RegistersOK, LoadRegister
<1>2. Head(user[t].updates) \in Updates
  BY <1>1, HeadTailProperties DEF UserStates
<1> DEFINE loaded == Contents(Head(user[t].updates).register)
           next == [user[t] EXCEPT !.holds = TRUE, !.loaded = loaded]
<1>3. loaded \in SUBSET Pins
  BY <1>2 DEF Updates, PortRegisters, Contents, SignalInvariant, RegistersOK
<1>4. next \in UserStates
  BY <1>1, <1>3 DEF UserStates
<1>5. user' = [user EXCEPT ![t] = next]
  BY <1>1 DEF LoadRegister
<1>6. /\ next.updates # <<>>
      /\ \A r \in PortRegisters : Head(next.updates).register = r => next.loaded = Contents(r)
  BY <1>1 DEF UserStates
<1>7. UNCHANGED <<ddr, port, shown, raced>>
  BY DEF LoadRegister
<1> HIDE DEF next
<1>8. QED
  BY <1>4, <1>5, <1>6, <1>7, MovingAlong

LEMMA StoringKeeps ==
  ASSUME SignalInvariant, NEW t \in SignalUsers, StoreRegister(t)
  PROVE  SignalInvariant'
<1>1. user[t] \in UserStates /\ user \in [SignalUsers -> UserStates]
      /\ user[t].holds /\ user[t].updates # <<>>
  BY DEF SignalInvariant, RegistersOK, StoreRegister, HoldsCurrent
<1>2. PICK update \in Updates : update = Head(user[t].updates)
  BY <1>1, HeadTailProperties DEF UserStates
<1>3. PICK loaded \in SUBSET Pins : loaded = user[t].loaded
  BY <1>1 DEF UserStates
<1>4. /\ SetRegister(update.register, Updated(loaded, update))
      /\ shown' = ShownAfter(update)
      /\ raced' = raced \cup Races(t, update.register)
      /\ user' = [user EXCEPT ![t].updates = Tail(@), ![t].holds = FALSE, ![t].loaded = {}]
  BY <1>2, <1>3 DEF StoreRegister
<1>5. update.register \in PortRegisters /\ Updated(loaded, update) \in SUBSET Pins
  BY DEF Updates, Updated
<1>6. update.register \in raced \/ loaded = Contents(update.register)
  BY <1>1, <1>2, <1>3, <1>5 DEF SignalInvariant, HoldsCurrent
<1>7. SignalsAreKept' /\ shown' \in [SignalNames -> BOOLEAN]
  BY <1>4, <1>6, StoreKeeps DEF SignalInvariant
<1>8. Tail(user[t].updates) \in Seq(Updates)
  BY <1>1, HeadTailProperties DEF UserStates
<1>9. user' \in [SignalUsers -> UserStates] /\ ~user'[t].holds
      /\ \A v \in SignalUsers : v # t => user'[v] = user[v]
  BY <1>1, <1>4, <1>8 DEF UserStates
<1>10. RegistersOK'
  BY <1>4, <1>5, <1>7, <1>9, RegisterSet DEF SignalInvariant, RegistersOK
<1>11. ASSUME NEW v \in SignalUsers PROVE HoldsCurrent(v)'
  <2>1. CASE v = t
    BY <1>9, <2>1 DEF HoldsCurrent
  <2>2. CASE v # t
    BY <1>4, <1>5, <1>9, <2>2, OthersHoldCurrent DEF SignalInvariant
  <2>3. QED
    BY <2>1, <2>2
<1>12. QED
  BY <1>7, <1>10, <1>11 DEF SignalInvariant

(* A toggle reads and writes the pin with nothing in between; if the port  *)
(* did not race, what it read is what the signal shows.                    *)
LEMMA ToggleKeeps ==
  ASSUME SignalAssumption, SignalInvariant, NEW t \in SignalUsers, NEW s \in SignalNames,
         SignalToggle(t, s)
  PROVE  SignalInvariant'
<1> DEFINE register == <<"port", Wiring[s].port>>
<1>1. register \in PortRegisters /\ Contents(register) = port[Wiring[s].port]
      /\ Contents(register) \in SUBSET Pins /\ Wiring[s].number \in Pins
  BY DEF PortRegisters, Ports, Pins, Contents, SignalInvariant, RegistersOK
<1>2. user' = user
  BY DEF SignalToggle
<1>3. CASE UNCHANGED <<ddr, port, shown, raced>>
  BY <1>2, <1>3 DEF SignalInvariant, RegistersOK, SignalsAreKept, HoldsCurrent, Contents
<1>4. ASSUME NEW value \in PinRead(s),
             SetRegister(register, Updated(Contents(register), Head(PinWrite(s, ~value)))),
             shown' = IF Output(s) THEN [shown EXCEPT ![s] = ~@] ELSE [shown EXCEPT ![s] = ~value],
             raced' = raced \cup Races(t, register)
      PROVE  SignalInvariant'
  <2>0. value \in BOOLEAN
    <3>1. CASE Output(s)
      <4>1. value = (Wiring[s].number \in port[Wiring[s].port])
        BY <3>1, Zenon DEF PinRead
      <4>2. (Wiring[s].number \in port[Wiring[s].port]) \in BOOLEAN
        OBVIOUS
      <4>3. QED
        BY <4>1, <4>2, Zenon
    <3>2. CASE ~Output(s)
      BY <3>2 DEF PinRead
    <3>3. QED
      BY <3>1, <3>2
  <2>1. PICK bits \in SUBSET Pins :
          /\ bits = Updated(Contents(register), Head(PinWrite(s, ~value)))
          /\ bits = IF ~value THEN port[Wiring[s].port] \cup {Wiring[s].number}
                    ELSE port[Wiring[s].port] \ {Wiring[s].number}
    <3>1. PICK update : update = Head(PinWrite(s, ~value))
      OBVIOUS
    <3>2. update.on = ~value /\ update.number = Wiring[s].number
      BY <2>0, <3>1 DEF PinWrite, Update
    <3>3. Updated(Contents(register), update)
            = IF ~value THEN port[Wiring[s].port] \cup {Wiring[s].number}
              ELSE port[Wiring[s].port] \ {Wiring[s].number}
      BY <1>1, <2>0, <3>2 DEF Updated
    <3>4. Updated(Contents(register), update) \in SUBSET Pins
      BY <1>1, <3>3
    <3>5. QED
      BY <3>1, <3>3, <3>4
  <2>2. /\ ddr' \in [Ports -> SUBSET Pins] /\ port' \in [Ports -> SUBSET Pins]
        /\ \A r \in PortRegisters : Contents(r)' = IF r = register THEN bits ELSE Contents(r)
    BY <1>1, <1>4, <2>1, RegisterSet DEF SignalInvariant
  <2>3. shown' \in [SignalNames -> BOOLEAN]
        /\ \A u \in SignalNames \ {s} : shown'[u] = shown[u]
    BY <1>4 DEF SignalInvariant, RegistersOK
  <2>4. ASSUME NEW u \in SignalNames, <<"port", Wiring[u].port>> \notin raced'
        PROVE  shown'[u] = (Wiring[u].number \in port'[Wiring[u].port])
    <3>1. <<"port", Wiring[u].port>> \in PortRegisters /\ <<"port", Wiring[u].port>> \notin raced
      BY <1>4, <2>4 DEF PortRegisters, Ports
    <3>2. port'[Wiring[u].port] = IF Wiring[u].port = Wiring[s].port THEN bits
                                  ELSE port[Wiring[u].port]
      BY <2>2, <3>1 DEF Contents
    <3>3. shown[u] = (Wiring[u].number \in port[Wiring[u].port])
      BY <3>1 DEF SignalInvariant, SignalsAreKept
    <3>4. CASE u # s
      <4>1. Wiring[u].port = Wiring[s].port => Wiring[u].number # Wiring[s].number
        BY <3>4 DEF SignalAssumption
      <4>2. Wiring[u].number \in port'[Wiring[u].port]
              <=> Wiring[u].number \in port[Wiring[u].port]
        BY <2>1, <3>2, <4>1
      <4>3. QED
        BY <2>3, <3>3, <3>4, <4>2
    <3>5. CASE u = s
      <4>1. value \in BOOLEAN /\ shown'[s] = ~value
        <5>1. CASE Output(s)
          BY <1>4, <3>3, <3>5, <5>1 DEF PinRead, SignalInvariant, RegistersOK
        <5>2. CASE ~Output(s)
          BY <1>4, <5>2 DEF PinRead, SignalInvariant, RegistersOK
        <5>3. QED
          BY <5>1, <5>2
      <4>2. QED
        BY <2>1, <3>2, <3>5, <4>1
    <3>6. QED
      BY <3>4, <3>5
  <2>5. RegistersOK'
    BY <1>2, <2>2, <2>3 DEF SignalInvariant, RegistersOK
  <2>6. ASSUME NEW v \in SignalUsers PROVE HoldsCurrent(v)'
    <3>1. CASE v = t
      BY <1>2, <3>1, SignalToggle(t, s) DEF SignalToggle, IdleUser, NoUser, HoldsCurrent
    <3>2. CASE v # t
      BY <1>1, <1>2, <1>4, <2>1, <3>2, OthersHoldCurrent DEF SignalInvariant
    <3>3. QED
      BY <3>1, <3>2
  <2>7. QED
    BY <2>4, <2>5, <2>6 DEF SignalInvariant, SignalsAreKept
<1>5. QED
  BY <1>3, <1>4 DEF SignalToggle

(* Every step of every thread keeps the invariant.                         *)
LEMMA SignalStep ==
  ASSUME SignalAssumption, SignalInvariant, [SignalNext]_signalVars
  PROVE  SignalInvariant'
<1>1. ASSUME NEW t \in SignalUsers, NEW s \in SignalNames, SignalToggle(t, s)
      PROVE  SignalInvariant'
  BY <1>1, ToggleKeeps
<1>2. ASSUME NEW t \in SignalUsers, LoadRegister(t) \/ StoreRegister(t) PROVE SignalInvariant'
  BY <1>2, LoadKeeps, StoringKeeps
<1>3. CASE UNCHANGED signalVars
  BY <1>3 DEF signalVars, SignalInvariant, RegistersOK, SignalsAreKept, HoldsCurrent, Contents
<1>4. QED
  BY <1>1, <1>2, <1>3, CallsMoveAlong DEF SignalNext

-----------------------------------------------------------------------------
(* What starting the driver has to do for a signal, and whether it is done,*)
(* which a race on the register excuses.                                   *)
Direction(s) == Update("ddr", Wiring[s].port, Wiring[s].number, Output(s))

Configured(s) ==
  <<"ddr", Wiring[s].port>> \notin raced
    => (Output(s) <=> Wiring[s].number \in ddr[Wiring[s].port])

Awaits(state, s) ==
  \/ s \in state.pins
  \/ \E i \in 1 .. Len(state.updates) : state.updates[i] = Direction(s)

(* Only a start touches a direction register, and only as wired.           *)
DirectionsOnly(updates) ==
  \A i \in 1 .. Len(updates) :
    updates[i].register[1] = "ddr" => \E s \in SignalNames : updates[i] = Direction(s)

(* A start under way has configured a signal or will, and a driver that    *)
(* has its start bit, whoever gave it, has configured them all.            *)
PinsInvariant ==
  /\ gpio \in Tables({"gpio"})
  /\ "init" \in gpio["gpio"].bits => wired = SignalNames
  /\ "start" \in gpio["gpio"].bits => \A s \in SignalNames : Configured(s)
  /\ \A t \in SignalUsers :
       /\ DirectionsOnly(user[t].updates)
       /\ user[t].starts => \A s \in SignalNames : Configured(s) \/ Awaits(user[t], s)

LEMMA PinsInitially ==
  ASSUME LevelAssumption, SignalInit PROVE PinsInvariant
<1>1. ColdDriver \in DriverRecords /\ ColdDriver.bits = {}
  BY DEF ColdDriver, DriverRecords, DriverErrors, StatusBits, LevelAssumption
<1>2. gpio \in Tables({"gpio"}) /\ gpio["gpio"].bits = {}
  BY <1>1 DEF SignalInit, Tables
<1>3. ASSUME NEW t \in SignalUsers
      PROVE  user[t].updates = <<>> /\ user[t].starts = FALSE
  BY DEF SignalInit, NoUser
<1>4. DirectionsOnly(<<>>)
  BY DEF DirectionsOnly
<1>5. QED
  BY <1>2, <1>3, <1>4 DEF PinsInvariant

(* A step that leaves the direction registers alone.                       *)
LEMMA PinsStay ==
  ASSUME PinsInvariant, user \in [SignalUsers -> UserStates],
         NEW t \in SignalUsers, NEW next \in UserStates,
         user' = [user EXCEPT ![t] = next] \/ user' = user,
         ddr' = ddr, raced \subseteq raced',
         DirectionsOnly(next.updates),
         next.starts => \A s \in SignalNames : Configured(s) \/ Awaits(next, s),
         gpio' \in Tables({"gpio"}),
         "init" \in gpio'["gpio"].bits => wired' = SignalNames,
         "start" \in gpio'["gpio"].bits =>
           "start" \in gpio["gpio"].bits \/ \A s \in SignalNames : Configured(s)
  PROVE  PinsInvariant'
<1>1. ASSUME NEW s \in SignalNames, Configured(s) PROVE Configured(s)'
  BY <1>1 DEF Configured
<1>2. "start" \in gpio'["gpio"].bits => \A s \in SignalNames : Configured(s)'
  BY <1>1 DEF PinsInvariant
<1>3. ASSUME NEW u \in SignalUsers
      PROVE  /\ DirectionsOnly(user'[u].updates)
             /\ user'[u].starts => \A s \in SignalNames : Configured(s) \/ Awaits(user'[u], s)
  <2>1. CASE user'[u] = user[u]
    BY <2>1 DEF PinsInvariant
  <2>2. CASE user'[u] = next
    BY <2>2
  <2>3. QED
    BY <2>1, <2>2
<1>4. ASSUME NEW u \in SignalUsers
      PROVE  /\ DirectionsOnly(user[u].updates)'
             /\ user'[u].starts => \A s \in SignalNames : Configured(s)' \/ Awaits(user[u], s)'
  <2>1. PICK w : w = user'[u]
    OBVIOUS
  <2>2. DirectionsOnly(w.updates)
        /\ (w.starts => \A s \in SignalNames : Configured(s) \/ Awaits(w, s))
    BY <1>3, <2>1
  <2>3. DirectionsOnly(user[u].updates)'
    BY <2>1, <2>2 DEF DirectionsOnly, Direction
  <2>4. ASSUME NEW s \in SignalNames, Awaits(w, s) PROVE Awaits(user[u], s)'
    BY <2>1, <2>4 DEF Awaits, Direction
  <2>5. QED
    BY <1>1, <2>1, <2>2, <2>3, <2>4
<1>5. QED
  BY <1>2, <1>4 DEF PinsInvariant

(* The same for a step of a thread that has nothing else to do.            *)
LEMMA IdleStarts ==
  ASSUME NEW t \in SignalUsers, IdleUser(t)
  PROVE  user[t] = NoUser /\ user[t].starts = FALSE /\ user[t].updates = <<>>
BY DEF IdleUser, NoUser

LEMMA GpioCommandConfigures ==
  ASSUME SignalInvariant, PinsInvariant, NEW t \in SignalUsers, NEW op \in LifeOps,
         GpioCommand(t, Plain(op))
  PROVE  PinsInvariant'
<1>1. user \in [SignalUsers -> UserStates]
  BY DEF SignalInvariant, RegistersOK
<1>2. PICK reply : reply = GpioControl(gpio, Plain(op))
  OBVIOUS
<1>3. Storable(Plain(op))
  BY DEF Storable, Plain, LifeOps
<1>4. /\ "NO_ERROR" \in DriverErrors /\ "gpio" \in {"gpio"} /\ gpio \in Tables({"gpio"})
      /\ DOMAIN gpio = {"gpio"} /\ Plain(op).op = op
  BY DEF DriverErrors, PinsInvariant, Plain, Tables
<1>0. reply = Control(gpio, "gpio", Plain(op), Initialize(gpio, "gpio"),
               StartInitialized(gpio, "gpio", "NO_ERROR"),
               OwnStatus(ClearStart(gpio, "gpio"), "gpio"),
               OwnStatus(Store(gpio, "gpio", Plain(op)), "gpio"))
  BY <1>2 DEF GpioControl, GpioStatus
<1>5. OwnAnswers(reply, gpio, {"gpio"}, "gpio", Plain(op))
  BY <1>0, <1>3, <1>4, OwnControl
<1> DEFINE starts == op = "START" /\ reply.state = "running"
           next == IF starts THEN [user[t] EXCEPT !.pins = SignalNames, !.starts = TRUE]
                   ELSE user[t]
<1>6. /\ gpio' = IF starts THEN gpio ELSE reply.table
      /\ wired' = IF op = "INIT" /\ reply.state = "initialized" THEN SignalNames ELSE wired
      /\ user' = IF starts THEN [user EXCEPT ![t].pins = SignalNames, ![t].starts = TRUE]
                 ELSE user
      /\ ddr' = ddr /\ raced' = raced /\ IdleUser(t)
  BY <1>2, <1>4 DEF GpioCommand
<1>7. next \in UserStates /\ next.updates = <<>> /\ (next.starts => next.pins = SignalNames)
      /\ user' = [user EXCEPT ![t] = next]
  BY <1>1, <1>6, IdleStarts DEF UserStates
<1>8. gpio' \in Tables({"gpio"})
  BY <1>4, <1>5, <1>6 DEF OwnAnswers, Proper
<1>9. /\ "init" \in gpio'["gpio"].bits => wired' = SignalNames
      /\ "start" \in gpio'["gpio"].bits => "start" \in gpio["gpio"].bits
  BY <1>4, <1>5, <1>6 DEF OwnAnswers, Keeps, Leaves, LifeOps, PinsInvariant
<1> HIDE DEF next, starts
<1>10. DirectionsOnly(next.updates)
  BY <1>7 DEF DirectionsOnly
<1>11. next.starts => \A s \in SignalNames : Configured(s) \/ Awaits(next, s)
  BY <1>7 DEF Awaits
<1>12. QED
  BY <1>1, <1>6, <1>7, <1>8, <1>9, <1>10, <1>11, PinsStay

(* The status check of a signal call keeps every bit.                      *)
LEMMA GpioChecked ==
  ASSUME gpio \in Tables({"gpio"}), NEW reply, reply = GpioRequireRunning(gpio)
  PROVE  reply.table \in Tables({"gpio"}) /\ reply.table["gpio"].bits = gpio["gpio"].bits
<1>1. PICK asked : asked = GpioStatus(gpio)
  OBVIOUS
<1>2. Proper(asked, {"gpio"}, "gpio") /\ Keeps(asked, gpio) /\ DOMAIN gpio = {"gpio"}
  BY <1>1, OwnReply DEF GpioStatus, Tables
<1>3. reply = RequireRunning(asked, "gpio")
  BY <1>1 DEF GpioRequireRunning
<1>4. Proper(reply, {"gpio"}, "gpio") /\ Keeps(reply, gpio)
  BY <1>2, <1>3, RequireReply
<1>5. QED
  BY <1>2, <1>4 DEF Proper, Keeps

LEMMA PinWriteIsNoDirection ==
  ASSUME NEW s, NEW value
  PROVE  DirectionsOnly(PinWrite(s, value))
BY DEF DirectionsOnly, PinWrite, Update

LEMMA SignalCallsConfigure ==
  ASSUME SignalAssumption, SignalInvariant, PinsInvariant,
         NEW t \in SignalUsers, NEW s \in SignalNames, NEW value \in BOOLEAN,
         SignalSet(t, s, value) \/ SignalToggle(t, s)
  PROVE  PinsInvariant'
<1>1. user \in [SignalUsers -> UserStates]
  BY DEF SignalInvariant, RegistersOK
<1>2. PICK reply : reply = GpioRequireRunning(gpio)
  OBVIOUS
<1>3. reply.table \in Tables({"gpio"}) /\ reply.table["gpio"].bits = gpio["gpio"].bits
  BY <1>2, GpioChecked DEF PinsInvariant
<1>4. gpio' = reply.table /\ IdleUser(t) /\ wired' = wired
  BY <1>2 DEF SignalSet, SignalToggle
<1>5. user[t] = NoUser /\ user[t].starts = FALSE /\ user[t].updates = <<>> /\ user[t] \in UserStates
  BY <1>1, <1>4, IdleStarts
<1>6. PICK next \in UserStates :
        /\ next.starts = FALSE /\ DirectionsOnly(next.updates)
        /\ user' = [user EXCEPT ![t] = next] \/ user' = user
  <2> DEFINE next == [user[t] EXCEPT !.updates = PinWrite(s, value)]
  <2>1. next \in UserStates /\ next.starts = FALSE /\ DirectionsOnly(next.updates)
    BY <1>5, PinUpdates, PinWriteIsNoDirection DEF UserStates
  <2>2. user' = [user EXCEPT ![t] = next] \/ user' = user
    BY <1>1, <1>2 DEF SignalSet, SignalToggle
  <2> HIDE DEF next
  <2>3. QED
    BY <2>1, <2>2
<1>7. ddr' = ddr /\ raced \subseteq raced'
  BY DEF SignalSet, SignalToggle, SetRegister
<1>8. QED
  BY <1>1, <1>3, <1>4, <1>6, <1>7, PinsStay DEF PinsInvariant

LEMMA LoadConfigures ==
  ASSUME SignalInvariant, PinsInvariant, NEW t \in SignalUsers, LoadRegister(t)
  PROVE  PinsInvariant'
<1>1. user[t] \in UserStates /\ user \in [SignalUsers -> UserStates] /\ user[t].updates # <<>>
  BY DEF SignalInvariant, RegistersOK, LoadRegister
<1>2. Head(user[t].updates) \in Updates
  BY <1>1, HeadTailProperties DEF UserStates
<1> DEFINE loaded == Contents(Head(user[t].updates).register)
           next == [user[t] EXCEPT !.holds = TRUE, !.loaded = loaded]
<1>3. loaded \in SUBSET Pins
  BY <1>2 DEF Updates, PortRegisters, Contents, SignalInvariant, RegistersOK
<1>4. /\ next \in UserStates /\ next.updates = user[t].updates
      /\ next.starts = user[t].starts /\ next.pins = user[t].pins
  BY <1>1, <1>3 DEF UserStates
<1>5. user' = [user EXCEPT ![t] = next]
  BY <1>1 DEF LoadRegister
<1>6. ddr' = ddr /\ raced' = raced /\ gpio' = gpio /\ wired' = wired
  BY DEF LoadRegister
<1> HIDE DEF next
<1>7. /\ DirectionsOnly(next.updates)
      /\ next.starts => \A s \in SignalNames : Configured(s) \/ Awaits(next, s)
  BY <1>4 DEF PinsInvariant, Awaits
<1>8. QED
  BY <1>1, <1>4, <1>5, <1>6, <1>7, PinsStay DEF PinsInvariant

(* Configuring a pin sets its direction and nothing else of its direction  *)
(* register (gpioPinInit).                                                 *)
LEMMA PinInitDirects ==
  ASSUME SignalAssumption, NEW s \in SignalNames
  PROVE  /\ DirectionsOnly(PinInit(s))
         /\ \E i \in 1 .. Len(PinInit(s)) : PinInit(s)[i] = Direction(s)
<1>1. PICK a : a = Direction(s)
  OBVIOUS
<1>2. PICK b : b = Update("port", Wiring[s].port, Wiring[s].number, TRUE)
  OBVIOUS
<1>3. b.register[1] # "ddr"
  BY <1>2 DEF Update
<1>4. CASE Wiring[s].pullUp
  <2>1. PinInit(s) = <<a>> \o <<b>>
    BY <1>1, <1>2, <1>4 DEF PinInit, Direction
  <2>2. <<a>> \in Seq({a, b}) /\ <<b>> \in Seq({a, b}) /\ Len(<<a>>) = 1 /\ Len(<<b>>) = 1
    OBVIOUS
  <2>3. /\ Len(PinInit(s)) = 2
        /\ \A i \in 1 .. 2 : PinInit(s)[i] = IF i <= 1 THEN <<a>>[i] ELSE <<b>>[i - 1]
    BY <2>1, <2>2, ConcatProperties
  <2>4. PinInit(s)[1] = a /\ PinInit(s)[2] = b
    BY <2>3
  <2>5. QED
    BY <1>1, <1>3, <2>3, <2>4 DEF DirectionsOnly
<1>5. CASE ~Wiring[s].pullUp
  <2>1. PinInit(s) = <<a>> \o <<>>
    BY <1>1, <1>5 DEF PinInit, Direction
  <2>2. <<a>> \o <<>> = <<a>>
    OBVIOUS
  <2>3. PinInit(s) = <<a>>
    BY <2>1, <2>2
  <2>4. QED
    BY <1>1, <2>3 DEF DirectionsOnly
<1>6. QED
  BY <1>4, <1>5

LEMMA NextPinConfigures ==
  ASSUME SignalAssumption, SignalInvariant, PinsInvariant, NEW t \in SignalUsers, NextPin(t)
  PROVE  PinsInvariant'
<1>1. user[t] \in UserStates /\ user \in [SignalUsers -> UserStates] /\ user[t].updates = <<>>
  BY DEF SignalInvariant, RegistersOK, NextPin
<1>2. PICK s \in SignalNames :
        user' = [user EXCEPT ![t].updates = PinInit(s), ![t].pins = @ \ {s}]
  BY <1>1 DEF NextPin, UserStates
<1> DEFINE next == [user[t] EXCEPT !.updates = PinInit(s), !.pins = @ \ {s}]
<1>3. /\ next \in UserStates /\ next.updates = PinInit(s) /\ next.pins = user[t].pins \ {s}
      /\ next.starts = user[t].starts
  BY <1>1, PinUpdates DEF UserStates
<1>4. user' = [user EXCEPT ![t] = next]
  BY <1>1, <1>2
<1>5. ddr' = ddr /\ raced' = raced /\ gpio' = gpio /\ wired' = wired
  BY DEF NextPin
<1> HIDE DEF next
<1>6. DirectionsOnly(next.updates)
  BY <1>3, PinInitDirects
<1>7. next.starts => \A u \in SignalNames : Configured(u) \/ Awaits(next, u)
  <2>1. SUFFICES ASSUME next.starts, NEW u \in SignalNames, ~Configured(u) PROVE Awaits(next, u)
    OBVIOUS
  <2>2. CASE u = s
    BY <1>3, <2>2, PinInitDirects DEF Awaits
  <2>3. CASE u # s
    <3>1. Awaits(user[t], u)
      BY <1>3, <2>1 DEF PinsInvariant
    <3>2. QED
      BY <1>1, <1>3, <2>3, <3>1 DEF Awaits
  <2>4. QED
    BY <2>2, <2>3
<1>8. QED
  BY <1>1, <1>3, <1>4, <1>5, <1>6, <1>7, PinsStay DEF PinsInvariant

(* A start only sets its bit when all pins are configured (hal_gpioStart). *)
LEMMA FinishConfigures ==
  ASSUME SignalInvariant, PinsInvariant, NEW t \in SignalUsers, FinishStart(t)
  PROVE  PinsInvariant'
<1>1. user \in [SignalUsers -> UserStates]
  BY DEF SignalInvariant, RegistersOK
<1>2. user[t].starts /\ user[t].updates = <<>> /\ user[t].pins = {}
  BY DEF FinishStart
<1>3. \A s \in SignalNames : Configured(s)
  BY <1>2 DEF PinsInvariant, Awaits
<1>4. PICK reply : reply = GpioControl(gpio, Plain("START"))
  OBVIOUS
<1>5. /\ "NO_ERROR" \in DriverErrors /\ gpio \in Tables({"gpio"}) /\ DOMAIN gpio = {"gpio"}
      /\ Plain("START").op = "START" /\ Storable(Plain("START"))
  BY DEF DriverErrors, PinsInvariant, Plain, Tables, Storable
<1>6. reply = Control(gpio, "gpio", Plain("START"), Initialize(gpio, "gpio"),
               StartInitialized(gpio, "gpio", "NO_ERROR"),
               OwnStatus(ClearStart(gpio, "gpio"), "gpio"),
               OwnStatus(Store(gpio, "gpio", Plain("START")), "gpio"))
  BY <1>4 DEF GpioControl, GpioStatus
<1>7. OwnAnswers(reply, gpio, {"gpio"}, "gpio", Plain("START"))
  BY <1>5, <1>6, OwnControl
<1>8. gpio' = reply.table /\ wired' = wired /\ ddr' = ddr /\ raced' = raced
      /\ user' = [user EXCEPT ![t] = NoUser]
  BY <1>4 DEF FinishStart
<1>9. gpio' \in Tables({"gpio"})
      /\ ("init" \in gpio'["gpio"].bits => wired' = SignalNames)
  BY <1>5, <1>7, <1>8 DEF OwnAnswers, Proper, Keeps, Leaves, PinsInvariant
<1>10. NoUser \in UserStates /\ NoUser.starts = FALSE /\ DirectionsOnly(NoUser.updates)
  BY DEF NoUser, UserStates, DirectionsOnly
<1>11. QED
  BY <1>1, <1>3, <1>8, <1>9, <1>10, PinsStay

(* A store sets the direction it is for, and, unless it races, leaves the  *)
(* other directions of its register alone.                                 *)
LEMMA StoreConfigures ==
  ASSUME SignalAssumption, SignalInvariant, PinsInvariant, NEW t \in SignalUsers,
         StoreRegister(t)
  PROVE  PinsInvariant'
<1>1. user[t] \in UserStates /\ user \in [SignalUsers -> UserStates]
      /\ user[t].holds /\ user[t].updates # <<>>
  BY DEF SignalInvariant, RegistersOK, StoreRegister, HoldsCurrent
<1>2. PICK update \in Updates : update = Head(user[t].updates) /\ update = user[t].updates[1]
  BY <1>1, HeadTailProperties DEF UserStates
<1>3. PICK loaded \in SUBSET Pins : loaded = user[t].loaded
  BY <1>1 DEF UserStates
<1>4. /\ SetRegister(update.register, Updated(loaded, update))
      /\ raced \subseteq raced'
      /\ user' = [user EXCEPT ![t].updates = Tail(@), ![t].holds = FALSE, ![t].loaded = {}]
      /\ gpio' = gpio /\ wired' = wired
  BY <1>2, <1>3 DEF StoreRegister
<1>5. update.register \in PortRegisters /\ Updated(loaded, update) \in SUBSET Pins
  BY DEF Updates, Updated
<1>6. update.register \in raced \/ loaded = Contents(update.register)
  BY <1>1, <1>2, <1>3, <1>5 DEF SignalInvariant, HoldsCurrent
<1>7. \A r \in PortRegisters :
        Contents(r)' = IF r = update.register THEN Updated(loaded, update) ELSE Contents(r)
  BY <1>4, <1>5, RegisterSet DEF SignalInvariant
<1>8. 1 \in 1 .. Len(user[t].updates) /\ user[t].updates \in Seq(Updates)
  BY <1>1 DEF UserStates
<1>9. update.register[1] = "ddr" => \E u \in SignalNames : update = Direction(u)
  BY <1>2, <1>8 DEF PinsInvariant, DirectionsOnly
<1>10. ASSUME NEW s \in SignalNames, Configured(s) \/ update = Direction(s)
       PROVE  Configured(s)'
  <2> DEFINE register == <<"ddr", Wiring[s].port>>
  <2>1. SUFFICES ASSUME register \notin raced'
                 PROVE  Output(s) <=> Wiring[s].number \in ddr'[Wiring[s].port]
    BY DEF Configured, Output
  <2>2. register \in PortRegisters /\ register \notin raced
    BY <1>4, <2>1 DEF PortRegisters, Ports
  <2>3. Contents(register)' = ddr'[Wiring[s].port] /\ Contents(register) = ddr[Wiring[s].port]
    BY DEF Contents
  <2>4. CASE update = Direction(s)
    <3>1. update.register = register /\ update.number = Wiring[s].number /\ update.on = Output(s)
      BY <2>4 DEF Direction, Update
    <3>2. ddr'[Wiring[s].port] = Updated(loaded, update)
      BY <1>7, <2>2, <2>3, <3>1
    <3>3. QED
      BY <3>1, <3>2 DEF Updated
  <2>5. CASE update # Direction(s) /\ register # update.register
    BY <1>7, <1>10, <2>2, <2>3, <2>5 DEF Configured
  <2>6. CASE update # Direction(s) /\ register = update.register
    <3>1. PICK u \in SignalNames : update = Direction(u)
      BY <1>9, <2>6
    <3>2. update.number # Wiring[s].number
      <4>1. Wiring[u].port = Wiring[s].port /\ u # s /\ update.number = Wiring[u].number
        BY <2>6, <3>1 DEF Direction, Update
      <4>2. QED
        BY <4>1 DEF SignalAssumption
    <3>3. ddr'[Wiring[s].port] = Updated(ddr[Wiring[s].port], update)
      BY <1>6, <1>7, <2>2, <2>3, <2>6
    <3>4. Output(s) <=> Wiring[s].number \in ddr[Wiring[s].port]
      BY <1>10, <2>2, <2>6 DEF Configured
    <3>5. QED
      BY <3>2, <3>3, <3>4 DEF Updated
  <2>7. QED
    BY <2>4, <2>5, <2>6
<1> DEFINE rest == Tail(user[t].updates)
<1>11. /\ rest \in Seq(Updates) /\ Len(rest) = Len(user[t].updates) - 1
       /\ \A i \in 1 .. Len(rest) : rest[i] = user[t].updates[i + 1]
  BY <1>1, <1>8, HeadTailProperties
<1>12. /\ user'[t].updates = rest /\ user'[t].starts = user[t].starts
       /\ user'[t].pins = user[t].pins
       /\ \A v \in SignalUsers : v # t => user'[v] = user[v]
  BY <1>1, <1>4 DEF UserStates
<1>13. Len(user[t].updates) \in Nat
  BY <1>8, LenProperties
<1> HIDE DEF rest
<1>14. DirectionsOnly(rest)
  <2>1. DirectionsOnly(user[t].updates)
    BY DEF PinsInvariant
  <2>2. ASSUME NEW i \in 1 .. Len(rest), rest[i].register[1] = "ddr"
        PROVE  \E s \in SignalNames : rest[i] = Direction(s)
    <3>1. i + 1 \in 1 .. Len(user[t].updates) /\ rest[i] = user[t].updates[i + 1]
      BY <1>11, <1>13
    <3>2. QED
      BY <2>1, <2>2, <3>1 DEF DirectionsOnly
  <2>3. QED
    BY <2>2 DEF DirectionsOnly
<1>15. ASSUME NEW v \in SignalUsers
       PROVE  /\ DirectionsOnly(user[v].updates)'
              /\ user'[v].starts => \A s \in SignalNames : Configured(s)' \/ Awaits(user[v], s)'
  <2>1. CASE v # t
    <3>1. PICK w : w = user[v] /\ w = user'[v]
      BY <1>12, <2>1
    <3>2. DirectionsOnly(w.updates)
          /\ (w.starts => \A s \in SignalNames : Configured(s) \/ Awaits(w, s))
      BY <3>1 DEF PinsInvariant
    <3>3. DirectionsOnly(user[v].updates)'
      BY <3>1, <3>2 DEF DirectionsOnly, Direction
    <3>4. ASSUME NEW s \in SignalNames, Awaits(w, s) PROVE Awaits(user[v], s)'
      BY <3>1, <3>4 DEF Awaits, Direction
    <3>5. QED
      BY <1>10, <3>1, <3>2, <3>3, <3>4
  <2>2. CASE v = t
    <3>1. DirectionsOnly(user[v].updates)'
      <4>1. PICK q : q = rest
        OBVIOUS
      <4>2. DirectionsOnly(q) /\ user'[v].updates = q
        BY <1>12, <1>14, <2>2, <4>1
      <4>3. QED
        BY <4>2 DEF DirectionsOnly, Direction
    <3>2. ASSUME user'[v].starts, NEW s \in SignalNames, ~Configured(s), update # Direction(s)
          PROVE  Awaits(user[v], s)'
      <4>1. Awaits(user[t], s)
        BY <1>12, <2>2, <3>2 DEF PinsInvariant
      <4>2. CASE s \in user[t].pins
        BY <1>12, <2>2, <4>2 DEF Awaits
      <4>3. CASE s \notin user[t].pins
        <5>1. PICK i \in 1 .. Len(user[t].updates) : user[t].updates[i] = Direction(s)
          BY <4>1, <4>3 DEF Awaits
        <5>2. i # 1
          BY <1>2, <3>2, <5>1
        <5>3. i - 1 \in 1 .. Len(rest) /\ rest[i - 1] = Direction(s)
          <6>1. i - 1 \in 1 .. Len(user[t].updates) - 1
            BY <1>13, <5>1, <5>2
          <6>2. i - 1 \in 1 .. Len(rest)
            BY <1>11, <6>1, Zenon
          <6>3. rest[i - 1] = user[t].updates[(i - 1) + 1] /\ (i - 1) + 1 = i
            BY <1>11, <5>1, <6>1
          <6>4. QED
            BY <5>1, <6>2, <6>3, Zenon
        <5>4. PICK q, d : q = rest /\ d = Direction(s)
          OBVIOUS
        <5>5. user'[v].updates = q /\ d = Direction(s)'
          BY <1>12, <2>2, <5>4 DEF Direction
        <5>6. QED
          BY <5>3, <5>4, <5>5 DEF Awaits
      <4>4. QED
        BY <4>2, <4>3
    <3>3. QED
      BY <1>10, <3>1, <3>2
  <2>3. QED
    BY <2>1, <2>2
<1>16. QED
  BY <1>4, <1>10, <1>15 DEF PinsInvariant

(* Every step of every thread keeps the pins' invariant.                   *)
LEMMA PinsStep ==
  ASSUME SignalAssumption, SignalInvariant, PinsInvariant, [SignalNext]_signalVars
  PROVE  PinsInvariant'
<1>1. ASSUME NEW t \in SignalUsers, NEW op \in LifeOps, GpioCommand(t, Plain(op))
      PROVE  PinsInvariant'
  BY <1>1, GpioCommandConfigures
<1>2. ASSUME NEW t \in SignalUsers, NEW s \in SignalNames,
             SignalToggle(t, s) \/ \E v \in BOOLEAN : SignalSet(t, s, v)
      PROVE  PinsInvariant'
  <2>1. TRUE \in BOOLEAN
    OBVIOUS
  <2>2. QED
    BY <1>2, <2>1, SignalCallsConfigure
<1>3. ASSUME NEW t \in SignalUsers,
             LoadRegister(t) \/ StoreRegister(t) \/ NextPin(t) \/ FinishStart(t)
      PROVE  PinsInvariant'
  BY <1>3, LoadConfigures, StoreConfigures, NextPinConfigures, FinishConfigures
<1>4. CASE UNCHANGED signalVars
  BY <1>4 DEF signalVars, PinsInvariant, DirectionsOnly, Direction, Configured, Awaits
<1>5. QED
  BY <1>1, <1>2, <1>3, <1>4 DEF SignalNext

LEMMA ConfiguredWhenRunning == ASSUME PinsInvariant PROVE RunningPinsAreConfigured
BY DEF PinsInvariant, RunningPinsAreConfigured, Configured

(* A signal keeps the value last written to it while no two updates of its *)
(* port overlap, for any threads, signals and wiring (at2560_gpio.c,       *)
(* sc_gpio.c).                                                             *)
THEOREM SignalsKept == SignalSpec => []SignalsAreKept
<1>1. SignalInvariant => SignalsAreKept
  BY DEF SignalInvariant
<1>2. QED
  BY <1>1, SignalAssumption, SignalInitially, SignalStep, PTL DEF SignalSpec

(* When the driver says that it runs, every pin is wired and has its       *)
(* direction unless its register raced, whoever starts and stops the       *)
(* driver meanwhile (hal_gpioStart).                                       *)
THEOREM PinsConfigured == SignalSpec => []RunningPinsAreConfigured
<1>1. SignalInit => SignalInvariant /\ PinsInvariant
  BY LevelAssumption, SignalInitially, PinsInitially
<1>2. SignalInvariant /\ PinsInvariant /\ [SignalNext]_signalVars
        => (SignalInvariant /\ PinsInvariant)'
  BY SignalAssumption, SignalStep, PinsStep
<1>3. SignalInvariant /\ PinsInvariant => RunningPinsAreConfigured
  BY ConfiguredWhenRunning
<1>4. QED
  BY <1>1, <1>2, <1>3, PTL DEF SignalSpec

-----------------------------------------------------------------------------
(* Quotients and remainders.                                               *)
LEMMA DivMod ==
  ASSUME NEW x \in Int, NEW m \in Nat \ {0}
  PROVE  /\ x % m \in 0 .. m - 1 /\ x \div m \in Int
         /\ x = m * (x \div m) + (x % m)
OBVIOUS

LEMMA AtLeastOnce ==
  ASSUME NEW k \in Int, NEW m \in Nat \ {0}, k >= 1
  PROVE  m * k >= m
OBVIOUS

LEMMA OneRemainder ==
  ASSUME NEW x \in Int, NEW m \in Nat \ {0}, NEW k \in Int, NEW r \in 0 .. m - 1, x = m * k + r
  PROVE  x % m = r
<1> DEFINE q == x \div m
           s == x % m
<1>1. s \in 0 .. m - 1 /\ q \in Int /\ x = m * q + s
  BY DivMod
<1> HIDE DEF q, s
<1>2. m * (k - q) = s - r
  <2>1. m * (k - q) = m * k - m * q
    BY <1>1
  <2>2. QED
    BY <1>1, <2>1
<1>3. CASE k - q >= 1
  <2>1. m * (k - q) >= m
    BY <1>1, <1>3, AtLeastOnce
  <2>2. QED
    BY <1>1, <1>2, <2>1
<1>4. CASE k - q <= -1
  <2>1. m * (q - k) >= m
    BY <1>1, <1>4, AtLeastOnce
  <2>2. m * (q - k) = r - s
    BY <1>1, <1>2
  <2>3. QED
    BY <1>1, <1>2, <2>1, <2>2
<1>5. CASE k - q = 0
  BY <1>1, <1>2, <1>5 DEF s
<1>6. QED
  BY <1>1, <1>3, <1>4, <1>5

(* A remainder may be taken late.                                          *)
LEMMA RemainderOfSum ==
  ASSUME NEW a \in Int, NEW b \in Int, NEW m \in Nat \ {0}
  PROVE  ((a % m) + b) % m = (a + b) % m
<1>1. PICK q \in Int, s \in 0 .. m - 1 : a = m * q + s /\ s = a % m
  BY DivMod
<1>2. s + b \in Int
  BY <1>1
<1>3. PICK k \in Int, r \in 0 .. m - 1 : s + b = m * k + r /\ r = (s + b) % m
  BY <1>2, DivMod
<1>4. a + b = m * (q + k) + r
  <2>1. m * (q + k) = m * q + m * k
    OBVIOUS
  <2>2. QED
    BY <1>1, <1>3, <2>1
<1>5. (a + b) % m = r
  <2>1. a + b \in Int /\ q + k \in Int
    OBVIOUS
  <2>2. QED
    BY <1>4, <2>1, OneRemainder
<1>6. QED
  BY <1>1, <1>3, <1>5

-----------------------------------------------------------------------------
(* The monotonic timer.  Its types, as far as the argument needs them: no  *)
(* call sets a status bit but by starting an initialized driver.           *)
ClockTypes ==
  /\ machine \in {"board", "host"}
  /\ mono \in Tables({"monotonic"})
  /\ mono["monotonic"].bits \subseteq {"init", "start"}
  /\ Started => "init" \in mono["monotonic"].bits
  /\ ticks \in 0 .. TickModulus - 1
  /\ counting \in BOOLEAN /\ enabled \in BOOLEAN /\ matched \in BOOLEAN /\ rerun \in BOOLEAN
  /\ startedAt \in Nat /\ passed \in Nat /\ lost \in Nat /\ restarts \in Nat
  /\ rerun => "init" \in mono["monotonic"].bits
  /\ DOMAIN reading = {"at", "value", "began"}

(* The board's timer counts when it is started and was not initialized     *)
(* since.                                                                  *)
StartedCounts == machine = "board" /\ Started /\ ~rerun => counting /\ enabled

(* The counter has every period but the lost ones and the one that waits.  *)
Counted == passed - lost - (IF matched THEN 1 ELSE 0)

BoardCounts == machine = "board" => ticks = Counted % TickModulus

(* Only the board's timer interrupts, and its reading has the lower half   *)
(* of a counter that does not move meanwhile.                              *)
HalfRead ==
  /\ matched \/ ReadMasks => machine = "board"
  /\ reading.at = "high" => reading.value = ticks % ByteBase

(* The host's clock has whole ticks of all the time it ran before the last *)
(* start, but less than one for each start before.                         *)
Run == IF Started THEN HostTime - startedAt ELSE 0

ShortOf(time, shorts) ==
  \E short \in 0 .. shorts : ticks = ((time \div 2) - short) % TickModulus

HostCounts ==
  machine = "host" =>
    /\ Run \in 0 .. passed
    /\ ShortOf(passed - Run, IF Started THEN restarts - 1 ELSE restarts)

ClockInvariant == ClockTypes /\ StartedCounts /\ BoardCounts /\ HalfRead /\ HostCounts

LEMMA ClockInitially ==
  ASSUME LevelAssumption, ClockAssumption, ClockInit PROVE ClockInvariant
<1>1. ColdDriver \in DriverRecords /\ ColdDriver.bits = {}
  BY DEF ColdDriver, DriverRecords, DriverErrors, StatusBits, LevelAssumption
<1>2. mono \in Tables({"monotonic"}) /\ mono["monotonic"].bits = {} /\ ~Started
  BY <1>1 DEF ClockInit, Tables, Started
<1>3. 0 % TickModulus = 0
  BY OneRemainder DEF ClockAssumption
<1>4. ClockTypes
  <2>1. 0 \in 0 .. TickModulus - 1
    BY DEF ClockAssumption
  <2>2. ticks \in 0 .. TickModulus - 1 /\ DOMAIN reading = {"at", "value", "began"}
    BY <2>1 DEF ClockInit, NotReading
  <2>3. QED
    BY <1>2, <2>2 DEF ClockInit, ClockTypes
<1>5. HostCounts
  BY <1>2, <1>3 DEF ClockInit, HostCounts, Run, ShortOf
<1>6. BoardCounts
  BY <1>3 DEF ClockInit, BoardCounts, Counted
<1>7. QED
  BY <1>2, <1>4, <1>5, <1>6 DEF ClockInit, ClockInvariant, StartedCounts, HalfRead, ReadMasks, NotReading

(* What the timer's control call makes of the status bits.                 *)
LEMMA MonoReply ==
  ASSUME LevelAssumption, ClockTypes, NEW c \in MonoCalls, NEW reply, reply = MonoControl(mono, c)
  PROVE  /\ reply.table \in Tables({"monotonic"})
         /\ LET before == mono["monotonic"].bits
                after  == reply.table["monotonic"].bits
            IN  /\ c.op = "INIT" => after = before \cup {"init"} /\ reply.state # "error"
                /\ c.op = "START" /\ "init" \in before =>
                     after = before \cup {"start"} /\ reply.state # "error"
                /\ c.op = "START" /\ "init" \notin before =>
                     after = before /\ reply.state = "error"
                /\ c.op = "STOP" => after = before \ {"start"}
                /\ c.op \notin LifeOps => after = before
<1>0. /\ mono \in Tables({"monotonic"}) /\ "monotonic" \in {"monotonic"}
      /\ mono["monotonic"].error \in DriverErrors /\ DOMAIN mono = {"monotonic"}
      /\ mono["monotonic"] \in DriverRecords /\ "dead" \notin mono["monotonic"].bits
  BY DEF ClockTypes, Tables, DriverRecords
<1>1. Storable(c) /\ c.op \notin {"SETBIT", "CLEARBIT"}
  <2>1. CASE c = With("RLSET", 2)
    <3>1. c.op = "RLSET" /\ c.data # <<>> /\ c.data[1] = 2
      BY <2>1 DEF With
    <3>2. Refusal(c) = "NO_ERROR" => 2 < LevelCount
      BY <3>1 DEF Refusal, LifeOps, DataOps, BitOps
    <3>3. QED
      BY <3>1, <3>2 DEF Storable, LevelAssumption
  <2>2. CASE c = With("RLSET", LevelCount)
    <3>1. c.op = "RLSET" /\ c.data # <<>> /\ c.data[1] = LevelCount
      BY <2>2 DEF With
    <3>2. Refusal(c) # "NO_ERROR"
      BY <3>1 DEF Refusal, LifeOps, DataOps, BitOps, LevelAssumption
    <3>3. QED
      BY <3>1, <3>2 DEF Storable
  <2>3. CASE c.op \in LifeOps \cup {"GETSTATUS", "RLGET"}
    BY <2>3 DEF Storable, LifeOps
  <2>4. QED
    BY <2>1, <2>2, <2>3 DEF MonoCalls, Plain
<1>2. reply = Control(mono, "monotonic", c, Initialize(mono, "monotonic"),
                StartInitialized(mono, "monotonic", mono["monotonic"].error),
                OwnStatus(ClearStart(mono, "monotonic"), "monotonic"),
                OwnStatus(Store(mono, "monotonic", c), "monotonic"))
  BY DEF MonoControl, MonoStatus
<1>3. OwnAnswers(reply, mono, {"monotonic"}, "monotonic", c)
  BY <1>0, <1>1, <1>2, OwnControl
<1>4. c.op = "INIT" => reply.state # "error"
  BY <1>0, <1>2, ControlBranch DEF Initialize, Reply
<1>5. c.op = "START" /\ "init" \in mono["monotonic"].bits => reply.state # "error"
  BY <1>0, <1>2, ControlBranch DEF StartInitialized, Reply
<1>6. c.op \notin LifeOps /\ Refusal(c) = "NO_ERROR"
        => Stored(mono["monotonic"], c).bits = mono["monotonic"].bits
  BY <1>0, <1>1, StoredRecord
<1>7. QED
  BY <1>0, <1>3, <1>4, <1>5, <1>6 DEF OwnAnswers, Proper, Keeps, Leaves

LEMMA BoardCommandCounts ==
  ASSUME LevelAssumption, ClockAssumption, ClockInvariant, NEW c \in MonoCalls, BoardCommand(c)
  PROVE  ClockInvariant'
<1> USE DEF ClockInvariant
<1>1. PICK reply : reply = MonoControl(mono, c)
  OBVIOUS
<1> DEFINE before == mono["monotonic"].bits
           after  == reply.table["monotonic"].bits
           works  == reply.state # "error" /\ c.op \in LifeOps
<1>2. /\ reply.table \in Tables({"monotonic"})
      /\ c.op = "INIT" => after = before \cup {"init"} /\ reply.state # "error"
      /\ c.op = "START" /\ "init" \in before => after = before \cup {"start"} /\ reply.state # "error"
      /\ c.op = "START" /\ "init" \notin before => after = before /\ reply.state = "error"
      /\ c.op = "STOP" => after = before \ {"start"}
      /\ c.op \notin LifeOps => after = before
  BY <1>1, MonoReply
<1>3. /\ machine = "board" /\ mono' = reply.table
      /\ rerun' = ((rerun /\ c.op # "START") \/ (c.op = "INIT" /\ Started))
      /\ UNCHANGED <<machine, ticks, startedAt, reading, passed, restarts>>
      /\ reading.at \in {"idle", "done"}
  BY <1>1 DEF BoardCommand
<1>4. /\ works => BoardTimer(c)
      /\ ~works => UNCHANGED <<counting, enabled, matched, lost>>
  BY <1>1 DEF BoardCommand, hardware
<1>5. {"init", "start"} \cap before = before /\ ("start" \in before => "init" \in before)
      /\ Started = ("start" \in before) /\ Started' = ("start" \in after)
      /\ matched \in BOOLEAN /\ passed \in Nat /\ lost \in Nat
  BY <1>3 DEF ClockTypes, Started
<1>6. ClockTypes'
  <2>1. mono'["monotonic"].bits \subseteq {"init", "start"}
        /\ (Started' => "init" \in mono'["monotonic"].bits)
        /\ (rerun' => "init" \in mono'["monotonic"].bits)
    BY <1>2, <1>3, <1>5 DEF LifeOps, ClockTypes
  <2>2. counting' \in BOOLEAN /\ enabled' \in BOOLEAN /\ matched' \in BOOLEAN /\ lost' \in Nat
    <3>1. CASE works
      <4>1. /\ counting' = (c.op = "START") /\ enabled' = (c.op = "START") /\ matched' = FALSE
            /\ lost' = IF matched THEN lost + 1 ELSE lost
        BY <1>4, <3>1 DEF BoardTimer
      <4>2. lost' \in Nat
        BY <1>5, <4>1
      <4>3. (c.op = "START") \in BOOLEAN
        OBVIOUS
      <4>4. QED
        BY <4>1, <4>2, <4>3
    <3>2. CASE ~works
      BY <1>4, <3>2 DEF ClockTypes
    <3>3. QED
      BY <3>1, <3>2
  <2>3. rerun' \in BOOLEAN
    BY <1>3
  <2>4. QED
    BY <1>2, <1>3, <2>1, <2>2, <2>3 DEF ClockTypes
<1>7. StartedCounts'
  <2>1. SUFFICES ASSUME "start" \in after, ~rerun' PROVE counting' /\ enabled'
    BY <1>3, <1>5 DEF StartedCounts
  <2>2. CASE c.op = "START" /\ "init" \in before
    BY <1>2, <1>4, <2>2 DEF BoardTimer, LifeOps
  <2>3. CASE c.op = "START" /\ "init" \notin before
    BY <1>2, <1>5, <2>1, <2>3
  <2>4. CASE c.op = "INIT"
    BY <1>2, <1>3, <1>5, <2>1, <2>4
  <2>5. CASE c.op = "STOP"
    BY <1>2, <2>1, <2>5
  <2>6. CASE c.op \notin LifeOps
    <3>1. Started /\ counting' = counting /\ enabled' = enabled
      BY <1>2, <1>4, <1>5, <2>1, <2>6
    <3>2. ~rerun
      BY <1>3, <2>1, <2>6 DEF LifeOps, ClockTypes
    <3>3. counting /\ enabled
      BY <1>3, <3>1, <3>2 DEF StartedCounts
    <3>4. QED
      BY <3>1, <3>3
  <2>7. QED
    BY <2>2, <2>3, <2>4, <2>5, <2>6 DEF LifeOps
<1>8. BoardCounts'
  <2>1. CASE works
    BY <1>3, <1>4, <1>5, <2>1 DEF Counted, BoardTimer, BoardCounts
  <2>2. CASE ~works
    BY <1>3, <1>4, <2>2 DEF Counted, BoardCounts
  <2>3. QED
    BY <2>1, <2>2
<1>9. HalfRead' /\ HostCounts'
  BY <1>3 DEF HalfRead, ReadMasks, HostCounts
<1>10. QED
  BY <1>6, <1>7, <1>8, <1>9

(* The interrupt counts a match, and time passes.                          *)
LEMMA TicksCount ==
  ASSUME LevelAssumption, ClockAssumption, ClockInvariant, CountTick \/ TimerMatch
  PROVE  ClockInvariant'
<1> USE DEF ClockInvariant
<1>1. CASE CountTick
  <2>1. /\ matched = TRUE /\ ~ReadMasks /\ ticks' = (ticks + 1) % TickModulus /\ matched' = FALSE
        /\ UNCHANGED <<machine, mono, counting, enabled, startedAt, reading, passed, lost,
                       restarts, rerun>>
    BY <1>1 DEF CountTick, clockAux, ClockTypes
  <2>2. /\ TickModulus \in Nat \ {0} /\ ticks \in Int /\ passed \in Nat /\ lost \in Nat
    BY DEF ClockAssumption, ClockTypes
  <2>3. ticks' \in 0 .. TickModulus - 1
    BY <2>1, <2>2, DivMod
  <2>4. ClockTypes'
    BY <2>1, <2>3 DEF ClockTypes, Started
  <2>5. StartedCounts' /\ HalfRead' /\ machine = "board"
    BY <2>1 DEF StartedCounts, Started, HalfRead, ReadMasks
  <2>6. BoardCounts'
    <3>1. Counted \in Int /\ Counted' = Counted + 1
      BY <2>1, <2>2 DEF Counted
    <3>2. PICK x \in Int, one \in Int : x = Counted /\ one = 1
      BY <3>1
    <3>3. ((x % TickModulus) + one) % TickModulus = (x + one) % TickModulus
      BY <2>2, RemainderOfSum
    <3>4. ticks = x % TickModulus
      BY <2>5, <3>2 DEF BoardCounts
    <3>5. ticks' = (x + 1) % TickModulus
      BY <2>1, <3>2, <3>3, <3>4
    <3>6. QED
      BY <3>1, <3>2, <3>5 DEF BoardCounts
  <2>7. HostCounts'
    BY <2>1, <2>5 DEF HostCounts
  <2>8. QED
    BY <2>4, <2>5, <2>6, <2>7
<1>2. CASE TimerMatch
  <2>1. /\ machine = "board" /\ counting /\ passed' = passed + 1 /\ matched' = TRUE
        /\ lost' = IF matched THEN lost + 1 ELSE lost
        /\ UNCHANGED <<machine, mono, ticks, counting, enabled, startedAt, reading, restarts,
                       rerun>>
    BY <1>2 DEF TimerMatch
  <2>2. passed \in Nat /\ lost \in Nat /\ matched \in BOOLEAN
    BY DEF ClockTypes
  <2>3. ClockTypes'
    BY <2>1, <2>2 DEF ClockTypes, Started
  <2>4. StartedCounts' /\ HalfRead' /\ HostCounts'
    BY <2>1 DEF StartedCounts, Started, HalfRead, ReadMasks, HostCounts
  <2>5. Counted' = Counted
    BY <2>1, <2>2 DEF Counted
  <2>6. QED
    BY <2>1, <2>3, <2>4, <2>5 DEF BoardCounts
<1>3. QED
  BY <1>1, <1>2

(* The steps of a reading move nothing, and the second one completes what  *)
(* the first has begun.                                                    *)
LEMMA ReadingCounts ==
  ASSUME ClockInvariant, ReadBegin \/ ReadLow \/ ReadHigh \/ HostRead
  PROVE  ClockInvariant'
<1> USE DEF ClockInvariant
<1>0. DOMAIN reading = {"at", "value", "began"}
  BY DEF ClockTypes
<1>1. /\ UNCHANGED <<machine, mono, ticks, startedAt, counting, enabled, matched, passed, lost,
                     restarts, rerun>>
      /\ DOMAIN reading' = {"at", "value", "began"} /\ HalfRead'
  <2>1. CASE ReadBegin
    BY <2>1 DEF ReadBegin, hardware, clockAux, HalfRead, ReadMasks
  <2>2. CASE ReadLow
    <3>1. reading' = [reading EXCEPT !.at = "high", !.value = ticks % ByteBase]
          /\ UNCHANGED <<machine, mono, ticks, hardware, startedAt, clockAux>>
          /\ machine = "board"
      BY <2>2 DEF ReadLow, HalfRead, ReadMasks
    <3>2. DOMAIN reading' = {"at", "value", "began"} /\ reading'.at = "high"
          /\ reading'.value = ticks % ByteBase
      BY <1>0, <3>1
    <3>3. QED
      BY <3>1, <3>2 DEF hardware, clockAux, HalfRead, ReadMasks
  <2>3. CASE ReadHigh
    <3>1. /\ reading' = [reading EXCEPT !.at = "done",
                                        !.value = @ + (ticks \div ByteBase) * ByteBase]
          /\ UNCHANGED <<machine, mono, ticks, hardware, startedAt, clockAux>>
          /\ machine = "board"
      BY <2>3 DEF ReadHigh, HalfRead, ReadMasks
    <3>2. DOMAIN reading' = {"at", "value", "began"} /\ reading'.at = "done"
      BY <1>0, <3>1
    <3>3. QED
      BY <3>1, <3>2 DEF hardware, clockAux, HalfRead, ReadMasks
  <2>4. CASE HostRead
    BY <2>4 DEF HostRead, hardware, clockAux, HalfRead, ReadMasks
  <2>5. QED
    BY <2>1, <2>2, <2>3, <2>4
<1>2. ClockTypes' /\ StartedCounts' /\ BoardCounts'
  BY <1>1 DEF ClockTypes, StartedCounts, Started, BoardCounts, Counted
<1>3. HostCounts'
  BY <1>1 DEF HostCounts, Run, HostTime, Started, ShortOf
<1>4. QED
  BY <1>1, <1>2, <1>3

LEMMA WholeReading ==
  ASSUME ClockAssumption, ClockInvariant, ReadHigh
  PROVE  reading'.value = Counted % TickModulus
<1>1. ByteBase \in Nat \ {0} /\ ticks \in Int
  BY DEF ClockAssumption, ClockInvariant, ClockTypes
<1>2. ticks = ByteBase * (ticks \div ByteBase) + (ticks % ByteBase) /\ ticks \div ByteBase \in Int
      /\ ticks % ByteBase \in Int
  BY <1>1, DivMod
<1>3. reading.value = ticks % ByteBase /\ machine = "board"
  BY DEF ClockInvariant, HalfRead, ReadMasks, ReadHigh
<1>4. reading'.value = reading.value + (ticks \div ByteBase) * ByteBase
  BY DEF ReadHigh
<1>5. (ticks \div ByteBase) * ByteBase = ByteBase * (ticks \div ByteBase)
  BY <1>1, <1>2
<1>6. reading'.value = ticks
  BY <1>2, <1>3, <1>4, <1>5
<1>7. QED
  BY <1>3, <1>6 DEF ClockInvariant, BoardCounts

-----------------------------------------------------------------------------
(* The host.  Two stretches of time together have the whole ticks of each, *)
(* and perhaps one more.                                                   *)
LEMMA HalvesOfSum ==
  ASSUME NEW a \in Nat, NEW b \in Nat
  PROVE  \E one \in {0, 1} : (a + b) \div 2 = (a \div 2) + (b \div 2) + one
OBVIOUS

ShowsAfter(t, time, run, shorts) ==
  \E more \in 0 .. shorts + 1 :
    (t + (run \div 2)) % TickModulus = (((time + run) \div 2) - more) % TickModulus

(* What a running clock shows misses one tick more at the most than what   *)
(* it had when it was started.                                             *)
LEMMA ShowsTime ==
  ASSUME ClockAssumption, NEW t \in Int, NEW time \in Nat, NEW run \in Nat, NEW shorts \in Int,
         NEW short \in 0 .. shorts, t = ((time \div 2) - short) % TickModulus
  PROVE  ShowsAfter(t, time, run, shorts)
<1>1. PICK one \in {0, 1} : (time + run) \div 2 = (time \div 2) + (run \div 2) + one
  BY HalvesOfSum
<1>2. PICK had \in Int, more \in Int : had = (time \div 2) - short /\ more = run \div 2
  OBVIOUS
<1>3. (t + (run \div 2)) % TickModulus = (((time \div 2) - short) + (run \div 2)) % TickModulus
  <2>1. TickModulus \in Nat \ {0}
    BY DEF ClockAssumption
  <2>2. ((had % TickModulus) + more) % TickModulus = (had + more) % TickModulus
    BY <2>1, RemainderOfSum, ZenonT(60)
  <2>3. t = had % TickModulus /\ (time \div 2) - short = had /\ run \div 2 = more
    BY <1>2
  <2>4. QED
    BY <2>2, <2>3, Zenon
<1>4. ((time \div 2) - short) + (run \div 2) = ((time + run) \div 2) - (short + one)
  BY <1>1, <1>2
<1>5. PICK misses \in 0 .. shorts + 1 : misses = short + one
  OBVIOUS
<1>6. (t + (run \div 2)) % TickModulus = (((time + run) \div 2) - misses) % TickModulus
  BY <1>3, <1>4, <1>5
<1>7. QED
  BY <1>6 DEF ShowsAfter

(* What the host's clock shows now (timerMonotonicTicksAt).                *)
Shows == IF Started THEN TicksAt ELSE ticks

LEMMA HostShows ==
  ASSUME ClockAssumption, ClockInvariant, machine = "host"
  PROVE  \E short \in 0 .. restarts : Shows = ((passed \div 2) - short) % TickModulus
<1>1. /\ passed \in Nat /\ restarts \in Nat /\ ticks \in Int /\ Run \in 0 .. passed
      /\ ShortOf(passed - Run, IF Started THEN restarts - 1 ELSE restarts)
  BY DEF ClockInvariant, ClockTypes, HostCounts
<1>2. CASE ~Started
  BY <1>1, <1>2 DEF Shows, Run, ShortOf
<1>3. CASE Started
  <2>1. PICK short \in 0 .. restarts - 1 : ticks = (((passed - Run) \div 2) - short) % TickModulus
    BY <1>1, <1>3 DEF ShortOf
  <2>2. PICK run \in Nat, time \in Nat : run = Run /\ time = passed - Run
    BY <1>1
  <2>3. PICK more \in 0 .. (restarts - 1) + 1 :
          (ticks + (run \div 2)) % TickModulus = (((time + run) \div 2) - more) % TickModulus
    <3>1. PICK t \in Int, shorts \in Int : t = ticks /\ shorts = restarts - 1
      BY <1>1
    <3>2. t = ((time \div 2) - short) % TickModulus /\ short \in 0 .. shorts
      BY <2>1, <2>2, <3>1
    <3>3. ShowsAfter(t, time, run, shorts)
      BY <3>2, ShowsTime
    <3>4. QED
      BY <3>1, <3>3 DEF ShowsAfter
  <2>4. Shows = (ticks + (run \div 2)) % TickModulus
    BY <1>3, <2>2 DEF Shows, TicksAt, Run
  <2>5. time + run = passed /\ more \in 0 .. restarts
    BY <1>1, <2>2
  <2>6. QED
    BY <2>3, <2>4, <2>5
<1>4. QED
  BY <1>2, <1>3

LEMMA HostTimeCounts ==
  ASSUME ClockAssumption, ClockInvariant, HostTimePasses
  PROVE  ClockInvariant'
<1> USE DEF ClockInvariant
<1>1. /\ machine = "host" /\ HostTime < MaxPeriods
      /\ UNCHANGED <<machine, mono, ticks, counting, enabled, matched, startedAt, reading, restarts,
                     rerun>>
      /\ IF Started THEN passed' = passed + 1 /\ lost' = lost ELSE lost' = lost + 1 /\ passed' = passed
  BY DEF HostTimePasses, hardware
<1>2. startedAt \in Nat /\ passed \in Nat /\ lost \in Nat /\ restarts \in Nat /\ Run \in 0 .. passed
  BY <1>1 DEF ClockTypes, HostCounts
<1>3. ClockTypes' /\ StartedCounts' /\ BoardCounts' /\ HalfRead'
  BY <1>1, <1>2 DEF ClockTypes, Started, StartedCounts, BoardCounts, HalfRead, ReadMasks
<1>4. HostCounts'
  <2>1. Started' = Started
    BY <1>1 DEF Started
  <2>2. CASE Started
    <3>1. Run' = Run + 1 /\ passed' = passed + 1
      BY <1>1, <1>2, <2>1, <2>2 DEF Run, HostTime
    <3>2. passed' - Run' = passed - Run /\ Run' \in 0 .. passed'
      BY <1>2, <3>1
    <3>3. QED
      BY <1>1, <2>1, <2>2, <3>2 DEF HostCounts, ShortOf
  <2>3. CASE ~Started
    <3>1. Run' = 0 /\ Run = 0 /\ passed' = passed
      BY <1>1, <2>1, <2>3 DEF Run
    <3>2. QED
      BY <1>1, <1>2, <2>1, <2>3, <3>1 DEF HostCounts, ShortOf
  <2>4. QED
    BY <2>2, <2>3
<1>5. QED
  BY <1>3, <1>4

LEMMA HostCommandCounts ==
  ASSUME LevelAssumption, ClockAssumption, ClockInvariant, NEW c \in MonoCalls, HostCommand(c)
  PROVE  ClockInvariant'
<1> USE DEF ClockInvariant
<1>1. PICK reply : reply = MonoControl(mono, c)
  OBVIOUS
<1> DEFINE before == mono["monotonic"].bits
           after  == reply.table["monotonic"].bits
<1>2. /\ reply.table \in Tables({"monotonic"})
      /\ c.op = "INIT" => after = before \cup {"init"}
      /\ c.op = "START" /\ "init" \in before => after = before \cup {"start"}
      /\ c.op = "START" /\ "init" \notin before => after = before
      /\ c.op = "STOP" => after = before \ {"start"}
      /\ c.op \notin LifeOps => after = before
  BY <1>1, MonoReply
<1>3. /\ machine = "host" /\ mono' = reply.table
      /\ startedAt' = IF Restarts(c) THEN HostTime ELSE startedAt
      /\ ticks' = IF c.op = "STOP" /\ Started THEN TicksAt ELSE ticks
      /\ restarts' = IF Restarts(c) THEN restarts + 1 ELSE restarts
      /\ UNCHANGED <<machine, counting, enabled, matched, reading, passed, lost, rerun>>
  BY <1>1 DEF HostCommand, HostTimer, hardware
<1>4. /\ ("start" \in before => "init" \in before) /\ before \subseteq {"init", "start"}
      /\ Started = ("start" \in before) /\ Started' = ("start" \in after)
      /\ (rerun => "init" \in before)
      /\ startedAt \in Nat /\ passed \in Nat /\ lost \in Nat /\ restarts \in Nat
      /\ ticks \in 0 .. TickModulus - 1 /\ TickModulus \in Nat \ {0}
      /\ Restarts(c) = (c.op = "START" /\ "start" \notin before /\ "init" \in before)
  BY <1>3 DEF ClockTypes, Started, ClockAssumption, Restarts
<1>5. HostTime \in Nat /\ Run \in 0 .. passed
  BY <1>3, <1>4 DEF HostTime, HostCounts
<1>6. TicksAt \in 0 .. TickModulus - 1
  <2>1. CASE Started
    <3>1. ticks + (Run \div 2) \in Int /\ TicksAt = (ticks + (Run \div 2)) % TickModulus
      BY <1>4, <1>5, <2>1 DEF TicksAt, Run
    <3>2. QED
      BY <1>4, <3>1, DivMod
  <2>2. CASE ~Started
    <3>1. HostTime - startedAt \in Int
      BY <1>4, <1>5
    <3>2. ticks + ((HostTime - startedAt) \div 2) \in Int
      BY <1>4, <3>1, DivMod
    <3>3. QED
      BY <1>4, <3>2, DivMod DEF TicksAt
  <2>3. QED
    BY <2>1, <2>2
<1>7. ClockTypes'
  <2>1. /\ mono'["monotonic"].bits \subseteq {"init", "start"}
        /\ (Started' => "init" \in mono'["monotonic"].bits)
        /\ (rerun' => "init" \in mono'["monotonic"].bits)
    BY <1>2, <1>3, <1>4 DEF LifeOps
  <2>2. ticks' \in 0 .. TickModulus - 1 /\ startedAt' \in Nat /\ restarts' \in Nat
    BY <1>3, <1>4, <1>5, <1>6
  <2>3. QED
    BY <1>2, <1>3, <1>4, <2>1, <2>2 DEF ClockTypes
<1>8. StartedCounts' /\ BoardCounts' /\ HalfRead'
  BY <1>3 DEF StartedCounts, BoardCounts, HalfRead, ReadMasks
<1>9. HostCounts'
  <2>1. passed' = passed /\ HostTime' = HostTime /\ machine' = "host"
    BY <1>3 DEF HostTime
  <2>2. CASE Restarts(c)
    <3>0. c.op = "START" /\ "start" \notin before /\ "init" \in before
      BY <1>4, <2>2
    <3>1. ~Started /\ Started' /\ Run' = 0 /\ Run = 0
          /\ ticks' = ticks /\ restarts' = restarts + 1
      <4>1. ~Started /\ Started'
        BY <1>2, <1>4, <3>0
      <4>2. startedAt' = HostTime' /\ ticks' = ticks /\ restarts' = restarts + 1
        BY <1>3, <2>1, <2>2, <3>0
      <4>3. HostTime' \in Nat
        BY <1>5, <2>1
      <4>4. Run = 0
        BY <4>1 DEF Run
      <4>5. Run' = HostTime' - startedAt'
        BY <4>1 DEF Run
      <4>6. Run' = 0
        <5>1. PICK now \in Nat : now = HostTime'
          BY <4>3
        <5>2. Run' = now - now
          BY <4>2, <4>5, <5>1
        <5>3. QED
          BY <5>2
      <4>7. QED
        BY <4>1, <4>2, <4>4, <4>6
    <3>2. ShortOf(passed, restarts)
      BY <1>3, <1>4, <3>1 DEF HostCounts
    <3>3. restarts' - 1 = restarts /\ passed' - Run' = passed /\ Run' \in 0 .. passed'
      BY <1>4, <2>1, <3>1
    <3>4. QED
      BY <3>1, <3>2, <3>3 DEF HostCounts, ShortOf
  <2>3. CASE c.op = "STOP"
    <3>1. ~Started' /\ Run' = 0 /\ restarts' = restarts /\ ticks' = Shows
      BY <1>2, <1>3, <1>4, <2>3 DEF Run, Shows
    <3>2. \E short \in 0 .. restarts : Shows = ((passed \div 2) - short) % TickModulus
      BY <1>3, HostShows
    <3>3. passed' - Run' = passed /\ Run' \in 0 .. passed'
      BY <1>4, <2>1, <3>1
    <3>4. QED
      BY <3>1, <3>2, <3>3 DEF HostCounts, ShortOf
  <2>4. CASE ~Restarts(c) /\ c.op # "STOP"
    <3>1. startedAt' = startedAt /\ ticks' = ticks /\ restarts' = restarts
      BY <1>3, <2>4
    <3>0. Started' <=> Started
      <4>1. CASE c.op = "INIT"
        BY <1>2, <1>4, <4>1
      <4>2. CASE c.op = "START"
        BY <1>2, <1>4, <2>4, <4>2
      <4>3. CASE c.op \notin LifeOps
        BY <1>2, <1>4, <4>3
      <4>4. QED
        BY <2>4, <4>1, <4>2, <4>3 DEF LifeOps
    <3>2. Run' = Run
      BY <2>1, <3>0, <3>1 DEF Run
    <3>3. QED
      BY <1>3, <2>1, <3>0, <3>1, <3>2 DEF HostCounts, ShortOf
  <2>5. QED
    BY <2>2, <2>3, <2>4
<1>10. QED
  BY <1>7, <1>8, <1>9

-----------------------------------------------------------------------------
(* Every step of the clock keeps its invariant.                            *)
LEMMA ClockStep ==
  ASSUME LevelAssumption, ClockAssumption, ClockInvariant, [ClockNext]_clockVars
  PROVE  ClockInvariant'
<1>1. ASSUME NEW c \in MonoCalls, BoardCommand(c) \/ HostCommand(c) PROVE ClockInvariant'
  BY <1>1, BoardCommandCounts, HostCommandCounts
<1>2. CASE UNCHANGED clockVars
  BY <1>2 DEF clockVars, ClockInvariant, ClockTypes, StartedCounts, Started, BoardCounts, Counted,
              HalfRead, ReadMasks, HostCounts, Run, HostTime, ShortOf
<1>3. QED
  BY <1>1, <1>2, TicksCount, ReadingCounts, HostTimeCounts DEF ClockNext

LEMMA CountsWhenRunning == ASSUME ClockInvariant PROVE RunningTimerCounts
<1>1. mono \in Tables({"monotonic"})
  BY DEF ClockInvariant, ClockTypes
<1>2. MonoStatus(mono).state = "running" => Started
  BY <1>1, OwnReply DEF MonoStatus, Started
<1>3. QED
  BY <1>2 DEF ClockInvariant, StartedCounts, RunningTimerCounts

(* A reading is the time that passed.                                      *)
LEMMA ReadsCurrent ==
  ASSUME ClockAssumption, ClockInvariant
  PROVE  /\ ReadHigh =>
              reading'.value = (passed - lost - (IF matched THEN 1 ELSE 0)) % TickModulus
         /\ HostRead => \E short \in 0 .. restarts :
              reading'.value = ((passed \div 2) - short) % TickModulus
<1>1. ReadHigh => reading'.value = (passed - lost - (IF matched THEN 1 ELSE 0)) % TickModulus
  BY WholeReading DEF Counted
<1>2. ASSUME HostRead
      PROVE  \E short \in 0 .. restarts : reading'.value = ((passed \div 2) - short) % TickModulus
  <2>1. machine = "host" /\ reading'.value = Shows
    BY <1>2 DEF HostRead, Shows
  <2>2. QED
    BY <2>1, HostShows
<1>3. QED
  BY <1>1, <1>2

(* A board's timer that says it runs counts and interrupts, unless it was  *)
(* initialized while it ran (at2560_timerMonotonic.c).                     *)
THEOREM TimerCounts == ClockSpec => []RunningTimerCounts
<1>1. ClockInit => ClockInvariant
  BY LevelAssumption, ClockAssumption, ClockInitially
<1>2. ClockInvariant /\ [ClockNext]_clockVars => ClockInvariant'
  BY LevelAssumption, ClockAssumption, ClockStep
<1>3. ClockInvariant => RunningTimerCounts
  BY CountsWhenRunning
<1>4. QED
  BY <1>1, <1>2, <1>3, PTL DEF ClockSpec

(* The ticks read, byte by byte beside the interrupt on the board or over  *)
(* starts and stops on the host, are the time that passed, for every width *)
(* of the counter and through its wraps (hal_timerMonotonicRead).          *)
THEOREM ReadingIsCurrent == ClockSpec => ReadIsCurrent
<1>1. ClockInit => ClockInvariant
  BY LevelAssumption, ClockAssumption, ClockInitially
<1>2. ClockInvariant /\ [ClockNext]_clockVars => ClockInvariant'
  BY LevelAssumption, ClockAssumption, ClockStep
<1>3. ClockInvariant =>
        /\ ReadHigh =>
             reading'.value = (passed - lost - (IF matched THEN 1 ELSE 0)) % TickModulus
        /\ HostRead => \E short \in 0 .. restarts :
             reading'.value = ((passed \div 2) - short) % TickModulus
  BY ClockAssumption, ReadsCurrent
<1>4. QED
  BY <1>1, <1>2, <1>3, PTL DEF ClockSpec, ReadIsCurrent

-----------------------------------------------------------------------------
(* The rest of the types: what the bounds leave room for.                  *)
SignalBounds ==
  /\ wired \subseteq SignalNames
  /\ raced \subseteq PortRegisters
  /\ signalCalls \in 0 .. MaxSignalCalls

LEMMA SignalTypesInitially ==
  ASSUME SignalAssumption, SignalInit PROVE SignalBounds
BY DEF SignalInit, SignalBounds, SignalAssumption

LEMMA SignalsStayTyped ==
  ASSUME SignalAssumption, SignalInvariant, SignalBounds, [SignalNext]_signalVars
  PROVE  SignalBounds'
<1>1. ASSUME CountSignalCall PROVE signalCalls' \in 0 .. MaxSignalCalls
  BY <1>1 DEF CountSignalCall, SignalBounds, SignalAssumption
<1>2. ASSUME NEW t \in SignalUsers, NEW op \in LifeOps, GpioCommand(t, Plain(op))
      PROVE  SignalBounds'
  BY <1>1, <1>2 DEF GpioCommand, SignalBounds
<1>3. ASSUME NEW t \in SignalUsers, NEW s \in SignalNames, NEW v \in BOOLEAN, SignalSet(t, s, v)
      PROVE  SignalBounds'
  BY <1>1, <1>3 DEF SignalSet, SignalBounds
<1>4. ASSUME NEW t \in SignalUsers, NEW register \in PortRegisters
      PROVE  Races(t, register) \subseteq PortRegisters
  BY DEF Races
<1>5. ASSUME NEW t \in SignalUsers, NEW s \in SignalNames, SignalToggle(t, s)
      PROVE  SignalBounds'
  <2>1. <<"port", Wiring[s].port>> \in PortRegisters
    BY DEF PortRegisters, Ports
  <2>2. raced' = raced \/ raced' = raced \cup Races(t, <<"port", Wiring[s].port>>)
    BY <1>5 DEF SignalToggle
  <2>3. QED
    BY <1>1, <1>4, <1>5, <2>1, <2>2 DEF SignalToggle, SignalBounds
<1>6. ASSUME NEW t \in SignalUsers, StoreRegister(t) PROVE SignalBounds'
  <2>1. user[t].updates \in Seq(Updates) /\ user[t].updates # <<>>
    BY <1>6 DEF StoreRegister, SignalInvariant, RegistersOK, UserStates, HoldsCurrent
  <2>2. Head(user[t].updates) \in Updates
    BY <2>1, HeadTailProperties
  <2>3. Head(user[t].updates).register \in PortRegisters
    BY <2>2 DEF Updates
  <2>4. raced' = raced \cup Races(t, Head(user[t].updates).register)
    BY <1>6 DEF StoreRegister
  <2>5. UNCHANGED <<wired, signalCalls>>
    BY <1>6 DEF StoreRegister
  <2>6. QED
    BY <1>4, <2>3, <2>4, <2>5 DEF SignalBounds
<1>7. ASSUME NEW t \in SignalUsers, LoadRegister(t) \/ NextPin(t) \/ FinishStart(t)
      PROVE  SignalBounds'
  BY <1>7 DEF LoadRegister, NextPin, FinishStart, SignalBounds
<1>8. CASE UNCHANGED signalVars
  BY <1>8 DEF signalVars, SignalBounds
<1>9. QED
  BY <1>2, <1>3, <1>5, <1>6, <1>7, <1>8 DEF SignalNext

LEMMA SignalsTyped ==
  ASSUME SignalInvariant, PinsInvariant, SignalBounds PROVE SignalTypeOK
<1>1. ASSUME NEW t \in SignalUsers
      PROVE  /\ user[t].pins \subseteq SignalNames
             /\ user[t].loaded \subseteq Pins
             /\ {user[t].holds, user[t].starts} \subseteq BOOLEAN
             /\ \A i \in DOMAIN user[t].updates : user[t].updates[i].register \in PortRegisters
  <2>1. user[t] \in UserStates
    BY DEF SignalInvariant, RegistersOK
  <2>2. PICK updates \in Seq(Updates) : updates = user[t].updates
    BY <2>1 DEF UserStates
  <2>3. \A i \in DOMAIN updates : updates[i].register \in PortRegisters
    <3>1. \A i \in DOMAIN updates : updates[i] \in Updates
      BY <2>2
    <3>2. QED
      BY <3>1 DEF Updates
  <2>4. QED
    BY <2>1, <2>2, <2>3 DEF UserStates
<1>2. QED
  BY <1>1 DEF SignalTypeOK, SignalInvariant, RegistersOK, PinsInvariant, SignalBounds, Tables

(* No match is lost or waits that did not come, and the host's clock was   *)
(* started when it was or before.                                          *)
ClockBounds ==
  /\ reading.at \in {"idle", "low", "high", "done"}
  /\ reading.value \in 0 .. TickModulus - 1
  /\ clockCalls \in 0 .. MaxClockCalls
  /\ restarts \in 0 .. clockCalls
  /\ machine = "board" => /\ passed \in 0 .. MaxPeriods
                          /\ lost + (IF matched THEN 1 ELSE 0) \in 0 .. passed
                          /\ startedAt = 0
  /\ machine = "host" => /\ passed + lost \in 0 .. MaxPeriods
                         /\ startedAt \in 0 .. passed + lost

LEMMA ClockTypesInitially ==
  ASSUME ClockAssumption, ClockInit PROVE ClockBounds
BY DEF ClockInit, ClockBounds, ClockAssumption, NotReading

LEMMA CommandsStayBounded ==
  ASSUME ClockAssumption, ClockInvariant, ClockBounds, NEW c,
         BoardCommand(c) \/ HostCommand(c)
  PROVE  ClockBounds'
<1>1. clockCalls' \in 0 .. MaxClockCalls /\ clockCalls' = clockCalls + 1 /\ clockCalls \in Nat
  BY DEF ClockBounds, ClockAssumption, BoardCommand, HostCommand, CountClockCall
<1>2. matched \in BOOLEAN /\ passed \in Nat /\ lost \in Nat /\ startedAt \in Nat
  BY DEF ClockInvariant, ClockTypes
<1>3. CASE BoardCommand(c)
  <2>1. UNCHANGED <<machine, startedAt, reading, passed, restarts>> /\ machine = "board"
    BY <1>3 DEF BoardCommand
  <2>2. \/ matched' = FALSE /\ lost' = IF matched THEN lost + 1 ELSE lost
        \/ UNCHANGED <<matched, lost>>
    BY <1>3 DEF BoardCommand, BoardTimer, hardware
  <2>3. lost' + (IF matched' THEN 1 ELSE 0) \in 0 .. passed'
    BY <1>2, <2>1, <2>2 DEF ClockBounds
  <2>4. QED
    BY <1>1, <2>1, <2>3 DEF ClockBounds
<1>4. CASE HostCommand(c)
  <2>1. UNCHANGED <<machine, reading, passed, lost>> /\ machine = "host"
    BY <1>4 DEF HostCommand
  <2>2. startedAt' \in {startedAt, passed + lost} /\ restarts' \in {restarts, restarts + 1}
    BY <1>4 DEF HostCommand, HostTimer, HostTime
  <2>3. QED
    BY <1>1, <1>2, <2>1, <2>2 DEF ClockBounds
<1>5. QED
  BY <1>3, <1>4

LEMMA ReadingsStayBounded ==
  ASSUME ClockAssumption, ClockInvariant, ClockBounds,
         ReadBegin \/ ReadLow \/ ReadHigh \/ HostRead
  PROVE  ClockBounds'
<1>1. UNCHANGED <<machine, matched, startedAt, passed, lost, restarts, clockCalls>>
  BY DEF ReadBegin, ReadLow, ReadHigh, HostRead, hardware, clockAux
<1>2. /\ ticks \in 0 .. TickModulus - 1 /\ TickModulus \in Nat \ {0}
      /\ ByteBase \in Nat \ {0} /\ DOMAIN reading = {"at", "value", "began"}
  BY DEF ClockInvariant, ClockTypes, ClockAssumption
<1>3. reading'.at \in {"idle", "low", "high", "done"}
  <2>1. ASSUME ReadLow PROVE reading'.at = "high"
    BY <1>2, <2>1 DEF ReadLow
  <2>2. ASSUME ReadHigh PROVE reading'.at = "done"
    BY <1>2, <2>2 DEF ReadHigh
  <2>3. QED
    BY <2>1, <2>2 DEF ReadBegin, HostRead
<1>4. ASSUME NEW n \in Int PROVE n % TickModulus \in 0 .. TickModulus - 1
  BY <1>2, DivMod
<1>5. reading'.value \in 0 .. TickModulus - 1
  <2>1. CASE ReadBegin
    BY <1>2, <2>1 DEF ReadBegin
  <2>2. CASE ReadLow
    <3>1. reading'.value = ticks % ByteBase
      BY <1>2, <2>2 DEF ReadLow
    <3>2. ticks = ByteBase * (ticks \div ByteBase) + (ticks % ByteBase)
          /\ ticks % ByteBase \in 0 .. ByteBase - 1 /\ ticks \div ByteBase \in Int
      BY <1>2, DivMod
    <3>3. ticks % ByteBase <= ticks
      <4>1. ticks \div ByteBase >= 0
        BY <1>2
      <4>2. ByteBase * (ticks \div ByteBase) >= 0
        BY <1>2, <3>2, <4>1
      <4>3. QED
        BY <1>2, <3>2, <4>2
    <3>4. QED
      BY <1>2, <3>1, <3>2, <3>3
  <2>3. CASE ReadHigh
    <3>1. reading'.value = Counted % TickModulus
      BY <2>3, WholeReading
    <3>2. Counted \in Int
      BY DEF Counted, ClockInvariant, ClockTypes
    <3>3. QED
      BY <1>4, <3>1, <3>2
  <2>4. CASE HostRead
    <3>1. reading'.value = IF Started THEN TicksAt ELSE ticks
      BY <2>4 DEF HostRead
    <3>2. PICK n \in Int : TicksAt = n % TickModulus
      BY <1>2 DEF TicksAt, HostTime, ClockInvariant, ClockTypes
    <3>3. QED
      BY <1>2, <1>4, <3>1, <3>2
  <2>5. QED
    BY <2>1, <2>2, <2>3, <2>4
<1>6. QED
  BY <1>1, <1>3, <1>5 DEF ClockBounds

LEMMA ClockStaysTyped ==
  ASSUME ClockAssumption, ClockInvariant, ClockBounds, [ClockNext]_clockVars
  PROVE  ClockBounds'
<1>1. matched \in BOOLEAN /\ passed \in Nat /\ lost \in Nat /\ startedAt \in Nat
  BY DEF ClockInvariant, ClockTypes
<1>2. CASE TimerMatch
  <2>1. /\ machine = "board" /\ passed' = passed + 1 /\ passed < MaxPeriods
        /\ matched' = TRUE /\ lost' = IF matched THEN lost + 1 ELSE lost
        /\ UNCHANGED <<machine, startedAt, reading, restarts, clockCalls>>
    BY <1>2 DEF TimerMatch
  <2>2. QED
    BY <1>1, <2>1 DEF ClockBounds, ClockAssumption
<1>3. CASE CountTick
  <2>1. /\ matched' = FALSE
        /\ UNCHANGED <<machine, startedAt, reading, passed, lost, restarts, clockCalls>>
    BY <1>3 DEF CountTick, clockAux
  <2>2. QED
    BY <1>1, <2>1 DEF ClockBounds
<1>4. CASE HostTimePasses
  <2>1. /\ machine = "host" /\ passed + lost < MaxPeriods
        /\ \/ passed' = passed + 1 /\ lost' = lost
           \/ lost' = lost + 1 /\ passed' = passed
        /\ UNCHANGED <<machine, startedAt, reading, restarts, clockCalls>>
    BY <1>4 DEF HostTimePasses, HostTime
  <2>2. QED
    BY <1>1, <2>1 DEF ClockBounds, ClockAssumption
<1>5. CASE UNCHANGED clockVars
  BY <1>5 DEF clockVars, ClockBounds
<1>6. QED
  BY <1>2, <1>3, <1>4, <1>5, CommandsStayBounded, ReadingsStayBounded DEF ClockNext

LEMMA ClockTyped ==
  ASSUME ClockAssumption, ClockInvariant, ClockBounds PROVE ClockTypeOK
<1>1. matched \in BOOLEAN /\ passed \in Nat /\ lost \in Nat /\ startedAt \in Nat
      /\ machine \in {"board", "host"}
  BY DEF ClockInvariant, ClockTypes
<1>2. passed \in 0 .. MaxPeriods /\ lost \in 0 .. MaxPeriods /\ startedAt \in 0 .. MaxPeriods
  <2>1. CASE machine = "board"
    BY <1>1, <2>1 DEF ClockBounds, ClockAssumption
  <2>2. CASE machine = "host"
    BY <1>1, <2>2 DEF ClockBounds, ClockAssumption
  <2>3. QED
    BY <1>1, <2>1, <2>2
<1>3. restarts \in 0 .. MaxClockCalls
  BY DEF ClockBounds, ClockAssumption
<1>4. mono \in [{"monotonic"} -> DriverRecords] /\ ticks \in 0 .. TickModulus - 1
      /\ {counting, enabled, matched, rerun} \subseteq BOOLEAN
  BY DEF ClockInvariant, ClockTypes, Tables
<1>5. QED
  BY <1>1, <1>2, <1>3, <1>4 DEF ClockTypeOK, ClockBounds

(* Induction over a set of natural numbers.                                *)
LEMMA Least ==
  ASSUME NEW S, S \subseteq Nat, S # {}
  PROVE  \E x \in S : \A y \in S : x <= y
<1>1. PICK x \in S : \A y \in S : <<y, x>> \notin OpToRel(<, Nat)
  BY NatLessThanWellFounded, WFMin
<1>2. ASSUME NEW y \in S, y < x PROVE FALSE
  <2>1. <<y, x>> \in OpToRel(<, Nat)
    BY <1>2 DEF OpToRel
  <2>2. QED
    BY <1>1, <2>1
<1>3. QED
  BY <1>2

LEMMA Induction ==
  ASSUME NEW S, 0 \in S, \A n \in Nat : n \in S => n + 1 \in S
  PROVE  Nat \subseteq S
<1>1. SUFFICES ASSUME Nat \ S # {} PROVE FALSE
  OBVIOUS
<1>2. PICK x \in Nat \ S : \A y \in Nat \ S : x <= y
  BY <1>1, Least
<1>3. x - 1 \in Nat /\ x - 1 \in S
  BY <1>2
<1>4. QED
  BY <1>2, <1>3

-----------------------------------------------------------------------------
(* Folding a function over the numbers up to n, the last one last.         *)
LEMMA MaxIsLast ==
  ASSUME NEW n \in Nat, NEW s \in SUBSET (1 .. n)
  PROVE  /\ n \in s => Max(s) = n
         /\ s # {} => Max(s) \in s
<1>1. ASSUME s # {} PROVE \E x \in s : \A y \in s : x >= y
  <2>1. {n - x : x \in s} \subseteq Nat /\ {n - x : x \in s} # {}
    <3>1. \A x \in s : n - x \in Nat
      OBVIOUS
    <3>2. QED
      BY <1>1, <3>1
  <2>2. PICK least \in {n - x : x \in s} : \A other \in {n - x : x \in s} : least <= other
    BY <2>1, Least
  <2>3. PICK x \in s : least = n - x
    BY <2>2
  <2>4. ASSUME NEW y \in s PROVE x >= y
    <3>1. least <= n - y
      BY <2>2
    <3>2. QED
      BY <2>3, <3>1
  <2>5. QED
    BY <2>4
<1>2. s # {} => Max(s) \in s /\ \A y \in s : Max(s) >= y
  BY <1>1 DEF Max
<1>3. ASSUME n \in s PROVE Max(s) = n
  <2>1. Max(s) \in 1 .. n /\ Max(s) >= n
    BY <1>2, <1>3
  <2>2. QED
    BY <2>1
<1>4. QED
  BY <1>2, <1>3

FoldsUp(g, n, F, base) ==
  \A s \in SUBSET (1 .. n) : g[s] = IF s = {} THEN base ELSE F[<<Max(s), g[s \ {Max(s)}]>>]

LEMMA FoldExists ==
  ASSUME NEW V, NEW n \in Nat, NEW F \in [(1 .. n) \X V -> V], NEW base \in V
  PROVE  \E g \in [SUBSET (1 .. n) -> V] : FoldsUp(g, n, F, base)
<1> DEFINE Folds(k) == \E g \in [SUBSET (1 .. k) -> V] : FoldsUp(g, k, F, base)
           Solved == {k \in Nat : k <= n => Folds(k)}
<1>1. 0 \in Solved
  <2> DEFINE g == [s \in SUBSET (1 .. 0) |-> base]
  <2>1. g \in [SUBSET (1 .. 0) -> V]
    OBVIOUS
  <2>2. \A s \in SUBSET (1 .. 0) : s = {} /\ g[s] = base
    OBVIOUS
  <2>3. Folds(0)
    BY <2>1, <2>2 DEF FoldsUp
  <2> HIDE DEF Folds
  <2>4. QED
    BY <2>3
<1>2. ASSUME NEW k \in Nat, k + 1 <= n, Folds(k) PROVE Folds(k + 1)
  <2>1. k + 1 \in 1 .. n
    BY <1>2
  <2>2. PICK g \in [SUBSET (1 .. k) -> V] : FoldsUp(g, k, F, base)
    BY <1>2
  <2> DEFINE more == [s \in SUBSET (1 .. k + 1) |->
                        IF k + 1 \in s THEN F[<<k + 1, g[s \ {k + 1}]>>] ELSE g[s]]
  <2>3. ASSUME NEW s \in SUBSET (1 .. k + 1)
        PROVE  s \ {k + 1} \in SUBSET (1 .. k) /\ (k + 1 \notin s => s \in SUBSET (1 .. k))
    OBVIOUS
  <2>4. more \in [SUBSET (1 .. k + 1) -> V]
    <3>1. ASSUME NEW s \in SUBSET (1 .. k + 1)
          PROVE  (IF k + 1 \in s THEN F[<<k + 1, g[s \ {k + 1}]>>] ELSE g[s]) \in V
      <4>1. CASE k + 1 \in s
        <5>1. g[s \ {k + 1}] \in V /\ k + 1 \in 1 .. n
          BY <2>1, <2>3
        <5>2. QED
          BY <4>1, <5>1
      <4>2. CASE k + 1 \notin s
        BY <2>3, <4>2
      <4>3. QED
        BY <4>1, <4>2
    <3>2. QED
      BY <3>1
  <2>5. ASSUME NEW s \in SUBSET (1 .. k + 1)
        PROVE  more[s] = IF s = {} THEN base ELSE F[<<Max(s), more[s \ {Max(s)}]>>]
    <3>1. CASE k + 1 \in s
      <4>1. Max(s) = k + 1
        BY <3>1, MaxIsLast
      <4>2. more[s] = F[<<k + 1, g[s \ {k + 1}]>>] /\ more[s \ {k + 1}] = g[s \ {k + 1}]
        BY <2>3, <3>1
      <4>3. QED
        BY <3>1, <4>1, <4>2
    <3>2. CASE k + 1 \notin s
      <4>1. s \in SUBSET (1 .. k) /\ s \ {Max(s)} \in SUBSET (1 .. k)
        BY <2>3, <3>2
      <4>2. more[s] = g[s] /\ more[s \ {Max(s)}] = g[s \ {Max(s)}]
        BY <3>2, <4>1
      <4>3. g[s] = IF s = {} THEN base ELSE F[<<Max(s), g[s \ {Max(s)}]>>]
        BY <2>2, <4>1 DEF FoldsUp
      <4>4. QED
        BY <4>2, <4>3
    <3>3. QED
      BY <3>1, <3>2
  <2> HIDE DEF more
  <2>6. QED
    BY <2>4, <2>5 DEF FoldsUp
<1>3. Folds(n)
  <2> HIDE DEF Folds
  <2>1. \A k \in Nat : k \in Solved => k + 1 \in Solved
    BY <1>2
  <2> HIDE DEF Solved
  <2>2. n \in Solved
    BY <1>1, <2>1, Induction
  <2>3. QED
    BY <2>2 DEF Solved
<1>4. QED
  BY <1>3

LEMMA FirstNumbers ==
  ASSUME NEW n \in Nat
  PROVE  /\ (1 .. 0) = {}
         /\ \A k \in 0 .. n : (1 .. k) \in SUBSET (1 .. n)
         /\ \A k \in 1 .. n : /\ (1 .. k) # {} /\ Max(1 .. k) = k
                             /\ (1 .. k) \ {k} = 1 .. k - 1
<1>1. ASSUME NEW k \in 1 .. n
      PROVE  (1 .. k) # {} /\ Max(1 .. k) = k /\ (1 .. k) \ {k} = 1 .. k - 1
  <2>1. k \in Nat /\ k \in 1 .. k /\ (1 .. k) \in SUBSET (1 .. k)
    OBVIOUS
  <2>2. Max(1 .. k) = k
    BY <2>1, MaxIsLast
  <2>3. (1 .. k) \ {k} = 1 .. k - 1
    OBVIOUS
  <2>4. QED
    BY <2>1, <2>2, <2>3
<1>2. QED
  BY <1>1

(* What holds at first and is kept up to n holds up to n.                  *)
LEMMA StaysIn ==
  ASSUME NEW V, NEW n \in Nat, NEW h, h[0] \in V,
         \A k \in 1 .. n : h[k - 1] \in V => h[k] \in V
  PROVE  \A k \in 0 .. n : h[k] \in V
<1> DEFINE Inside(k) == h[k] \in V
           Good == {k \in Nat : k <= n => Inside(k)}
<1>1. 0 \in Good
  OBVIOUS
<1>2. ASSUME NEW k \in Nat, k \in Good, k + 1 <= n PROVE Inside(k + 1)
  <2>1. k + 1 \in 1 .. n /\ (k + 1) - 1 = k /\ k <= n
    BY <1>2
  <2>2. Inside(k)
    BY <1>2, <2>1
  <2>3. QED
    BY <2>1, <2>2
<1> HIDE DEF Inside
<1>3. \A k \in Nat : k \in Good => k + 1 \in Good
  BY <1>2
<1>4. Nat \subseteq Good
  <2> HIDE DEF Good
  <2>1. QED
    BY <1>1, <1>3, Induction
<1>5. QED
  BY <1>4 DEF Inside

(* The line after the keys.                                                *)
Lines == {line \in Seq(Printable) : Len(line) < InputSize}

LEMMA EditedLine ==
  ASSUME ConsoleAssumption, NEW line \in Lines, NEW k \in Keys
  PROVE  Edited(line, k) \in Lines
<1>1. InputSize \in Nat
  BY DEF ConsoleAssumption
<1>2. CASE k \in Printable /\ Len(line) < InputSize - 1
  BY <1>1, <1>2 DEF Edited, Lines
<1>3. CASE k = "backspace" /\ line # <<>>
  <2>1. Front(line) \in Seq(Printable) /\ Len(Front(line)) = Len(line) - 1
    <3> DEFINE n == Len(line) - 1
    <3>0. Len(line) \in Nat /\ Len(line) # 0 /\ \A i \in 1 .. Len(line) : line[i] \in Printable
      BY <1>3 DEF Lines
    <3>1. n \in Nat /\ \A i \in 1 .. n : line[i] \in Printable
      BY <3>0
    <3>2. Len(line) - 1 = n
      OBVIOUS
    <3> HIDE DEF n
    <3>3. SubSeq(line, 1, n) \in Seq(Printable) /\ Len(SubSeq(line, 1, n)) = n
      BY <3>1, SubSeqProperties
    <3>4. Front(line) = SubSeq(line, 1, n)
      BY <3>2 DEF Front
    <3>5. QED
      BY <3>2, <3>3, <3>4, Zenon
  <2>2. k \notin Printable
    BY <1>3 DEF ConsoleAssumption
  <2>3. QED
    BY <1>1, <1>3, <2>1, <2>2 DEF Edited, Lines
<1>4. QED
  BY <1>2, <1>3 DEF Edited

LineAfter(line, polled) == FoldLeft(Edited, line, polled)

LEMMA LineFolds ==
  ASSUME ConsoleAssumption, NEW edited \in Lines, NEW polled \in Seq(Keys)
  PROVE  \E h \in [0 .. Len(polled) -> Lines] :
           /\ h[0] = edited
           /\ \A k \in 1 .. Len(polled) : h[k] = Edited(h[k - 1], polled[k])
           /\ LineAfter(edited, polled) = h[Len(polled)]
<1> DEFINE n == Len(polled)
           F == [p \in (1 .. n) \X Lines |-> Edited(p[2], polled[p[1]])]
           Solves(iter) == iter = [s \in SUBSET DOMAIN polled |->
             IF s = {} THEN edited ELSE Edited(iter[s \ {Max(s)}], polled[Max(s)])]
<1>1. n \in Nat /\ DOMAIN polled = 1 .. n /\ \A i \in 1 .. n : polled[i] \in Keys
  OBVIOUS
<1>2. F \in [(1 .. n) \X Lines -> Lines]
  BY <1>1, EditedLine
<1>3. LineAfter(edited, polled) = (CHOOSE iter : Solves(iter))[DOMAIN polled]
  BY DEF LineAfter, FoldLeft, MapThenFoldSet
<1>4. PICK g \in [SUBSET (1 .. n) -> Lines] : FoldsUp(g, n, F, edited)
  BY <1>1, <1>2, FoldExists
<1>5. Solves(g)
  <2>1. ASSUME NEW s \in SUBSET (1 .. n)
        PROVE  g[s] = IF s = {} THEN edited ELSE Edited(g[s \ {Max(s)}], polled[Max(s)])
    <3>1. g[s] = IF s = {} THEN edited ELSE F[<<Max(s), g[s \ {Max(s)}]>>]
      BY <1>4 DEF FoldsUp
    <3>2. ASSUME s # {}
          PROVE  F[<<Max(s), g[s \ {Max(s)}]>>] = Edited(g[s \ {Max(s)}], polled[Max(s)])
      <4>1. Max(s) \in 1 .. n /\ g[s \ {Max(s)}] \in Lines
        BY <1>1, <3>2, MaxIsLast
      <4>2. QED
        BY <4>1
    <3> HIDE DEF F
    <3>3. QED
      BY <3>1, <3>2
  <2>2. QED
    BY <1>1, <2>1
<1>6. PICK iter : Solves(iter) /\ LineAfter(edited, polled) = iter[1 .. n]
  <2> HIDE DEF Solves
  <2>1. QED
    BY <1>1, <1>3, <1>5
<1> DEFINE h == [k \in 0 .. n |-> iter[1 .. k]]
<1>7. iter[1 .. 0] = edited
  BY <1>1, <1>6, FirstNumbers
<1>8. ASSUME NEW k \in 1 .. n PROVE iter[1 .. k] = Edited(iter[1 .. k - 1], polled[k])
  <2>1. (1 .. k) \in SUBSET (1 .. n) /\ (1 .. k) # {} /\ Max(1 .. k) = k
        /\ (1 .. k) \ {k} = 1 .. k - 1
    BY <1>1, FirstNumbers
  <2>2. iter[1 .. k] = Edited(iter[(1 .. k) \ {Max(1 .. k)}], polled[Max(1 .. k)])
    BY <1>1, <1>6, <2>1
  <2>3. QED
    BY <2>1, <2>2
<1>9. h[0] = edited /\ h[n] = iter[1 .. n] /\ \A k \in 1 .. n : h[k] = Edited(h[k - 1], polled[k])
  BY <1>1, <1>7, <1>8
<1>10. \A k \in 0 .. n : h[k] \in Lines
  <2> HIDE DEF h, n
  <2>1. ASSUME NEW k \in 1 .. n, h[k - 1] \in Lines PROVE h[k] \in Lines
    <3>1. polled[k] \in Keys /\ h[k] = Edited(h[k - 1], polled[k])
      BY <1>1, <1>9
    <3>2. QED
      BY <2>1, <3>1, EditedLine
  <2>2. QED
    BY <1>1, <1>9, <2>1, StaysIn
<1>11. h \in [0 .. n -> Lines]
  BY <1>10
<1> HIDE DEF h
<1>12. QED
  BY <1>6, <1>9, <1>11

(* Two folds that go in step.                                              *)
InStep(h, g, n) ==
  /\ n \in Nat
  /\ h[0] = g[0]
  /\ \A k \in 1 .. n : h[k - 1] = g[k - 1] => h[k] = g[k]

Agree(h, g, n) == \A k \in 0 .. n : h[k] = g[k]

LEMMA SameFold ==
  ASSUME NEW n, NEW h, NEW g, InStep(h, g, n) PROVE Agree(h, g, n)
<1> DEFINE Alike(k) == h[k] = g[k]
           Good == {k \in Nat : k <= n => Alike(k)}
<1>1. 0 \in Good /\ n \in Nat
  BY DEF InStep
<1>2. ASSUME NEW k \in Nat, k \in Good, k + 1 <= n PROVE Alike(k + 1)
  <2>1. k + 1 \in 1 .. n /\ (k + 1) - 1 = k /\ k <= n
    BY <1>1, <1>2
  <2>2. Alike(k)
    BY <1>2, <2>1
  <2>3. QED
    BY <2>1, <2>2 DEF InStep
<1> HIDE DEF Alike
<1>3. \A k \in Nat : k \in Good => k + 1 \in Good
  BY <1>2
<1>4. Nat \subseteq Good
  <2> HIDE DEF Good
  <2>1. QED
    BY <1>1, <1>3, Induction
<1>5. QED
  BY <1>1, <1>4 DEF Alike, Agree

-----------------------------------------------------------------------------
(* What threads print, and what the window shows of it.                    *)
Printed == Printable \cup {CarriageReturn}

LEMMA WrittenWindow ==
  ASSUME NEW window \in Seq(Printable), NEW b \in Printed
  PROVE  Written(window, b) \in Seq(Printable)
BY DEF Written, Printed

LEMMA ShownFolds ==
  ASSUME NEW bytes \in Seq(Printed)
  PROVE  \E h \in [0 .. Len(bytes) -> Seq(Printable)] :
           /\ h[0] = <<>>
           /\ \A k \in 1 .. Len(bytes) : h[k] = Written(h[k - 1], bytes[k])
           /\ Shown(bytes) = h[Len(bytes)]
<1> DEFINE n == Len(bytes)
           V == Seq(Printable)
           F == [p \in (1 .. n) \X V |-> Written(p[2], bytes[p[1]])]
           Solves(iter) == iter = [s \in SUBSET DOMAIN bytes |->
             IF s = {} THEN <<>> ELSE Written(iter[s \ {Max(s)}], bytes[Max(s)])]
<1>1. n \in Nat /\ DOMAIN bytes = 1 .. n /\ (\A i \in 1 .. n : bytes[i] \in Printed)
      /\ <<>> \in V
  OBVIOUS
<1>2. F \in [(1 .. n) \X V -> V]
  BY <1>1, WrittenWindow
<1>3. Shown(bytes) = (CHOOSE iter : Solves(iter))[DOMAIN bytes]
  BY DEF Shown, FoldLeft, MapThenFoldSet
<1>4. PICK g \in [SUBSET (1 .. n) -> V] : FoldsUp(g, n, F, <<>>)
  <2> HIDE DEF F, V
  <2>1. QED
    BY <1>1, <1>2, FoldExists
<1>5. Solves(g)
  <2>1. ASSUME NEW s \in SUBSET (1 .. n)
        PROVE  g[s] = IF s = {} THEN <<>> ELSE Written(g[s \ {Max(s)}], bytes[Max(s)])
    <3>1. g[s] = IF s = {} THEN <<>> ELSE F[<<Max(s), g[s \ {Max(s)}]>>]
      BY <1>4 DEF FoldsUp
    <3>2. ASSUME s # {}
          PROVE  F[<<Max(s), g[s \ {Max(s)}]>>] = Written(g[s \ {Max(s)}], bytes[Max(s)])
      <4>1. Max(s) \in 1 .. n /\ g[s \ {Max(s)}] \in V
        BY <1>1, <3>2, MaxIsLast
      <4>2. QED
        BY <4>1
    <3> HIDE DEF F
    <3>3. QED
      BY <3>1, <3>2
  <2>2. QED
    BY <1>1, <2>1
<1>6. PICK iter : Solves(iter) /\ Shown(bytes) = iter[1 .. n]
  <2> HIDE DEF Solves
  <2>1. QED
    BY <1>1, <1>3, <1>5
<1> DEFINE h == [k \in 0 .. n |-> iter[1 .. k]]
<1>7. iter[1 .. 0] = <<>>
  BY <1>1, <1>6, FirstNumbers
<1>8. ASSUME NEW k \in 1 .. n PROVE iter[1 .. k] = Written(iter[1 .. k - 1], bytes[k])
  <2>1. (1 .. k) \in SUBSET (1 .. n) /\ (1 .. k) # {} /\ Max(1 .. k) = k
        /\ (1 .. k) \ {k} = 1 .. k - 1
    BY <1>1, FirstNumbers
  <2>2. iter[1 .. k] = Written(iter[(1 .. k) \ {Max(1 .. k)}], bytes[Max(1 .. k)])
    BY <1>1, <1>6, <2>1
  <2>3. QED
    BY <2>1, <2>2
<1>9. h[0] = <<>> /\ h[n] = iter[1 .. n] /\ \A k \in 1 .. n : h[k] = Written(h[k - 1], bytes[k])
  BY <1>1, <1>7, <1>8
<1>10. \A k \in 0 .. n : h[k] \in V
  <2> HIDE DEF h, n
  <2>1. ASSUME NEW k \in 1 .. n, h[k - 1] \in V PROVE h[k] \in V
    <3>1. bytes[k] \in Printed /\ h[k] = Written(h[k - 1], bytes[k])
      BY <1>1, <1>9
    <3>2. QED
      BY <2>1, <3>1, WrittenWindow
  <2> HIDE DEF V
  <2>2. QED
    BY <1>1, <1>9, <2>1, StaysIn
<1>11. h \in [0 .. n -> V]
  BY <1>10
<1> HIDE DEF h
<1>12. QED
  BY <1>6, <1>9, <1>11

(* One more byte is shown behind the others.                               *)
LEMMA ShownOneMore ==
  ASSUME NEW bytes \in Seq(Printed), NEW b \in Printed
  PROVE  Shown(Append(bytes, b)) = Written(Shown(bytes), b)
<1> DEFINE n == Len(bytes)
           more == Append(bytes, b)
<1>1. n \in Nat /\ more \in Seq(Printed) /\ Len(more) = n + 1 /\ more[n + 1] = b
      /\ \A k \in 1 .. n : more[k] = bytes[k]
  OBVIOUS
<1>2. PICK h :
        /\ h \in [0 .. n -> Seq(Printable)] /\ h[0] = <<>>
        /\ \A k \in 1 .. n : h[k] = Written(h[k - 1], bytes[k])
        /\ Shown(bytes) = h[n]
  BY ShownFolds
<1> HIDE DEF more
<1>3. PICK g :
        /\ g \in [0 .. n + 1 -> Seq(Printable)] /\ g[0] = <<>>
        /\ \A k \in 1 .. n + 1 : g[k] = Written(g[k - 1], more[k])
        /\ Shown(more) = g[n + 1]
  <2>1. PICK g \in [0 .. Len(more) -> Seq(Printable)] :
          /\ g[0] = <<>>
          /\ \A k \in 1 .. Len(more) : g[k] = Written(g[k - 1], more[k])
          /\ Shown(more) = g[Len(more)]
    BY <1>1, ShownFolds
  <2>2. QED
    BY <1>1, <2>1
<1> HIDE DEF n
<1>4. \A k \in 0 .. n : h[k] = g[k]
  <2>1. ASSUME NEW k \in 1 .. n, h[k - 1] = g[k - 1] PROVE h[k] = g[k]
    <3>1. k \in 1 .. n + 1 /\ more[k] = bytes[k]
      BY <1>1
    <3>2. QED
      BY <1>2, <1>3, <2>1, <3>1
  <2>2. InStep(h, g, n)
    BY <1>1, <1>2, <1>3, <2>1 DEF InStep
  <2>3. QED
    BY <2>2, SameFold DEF Agree
<1>5. g[n + 1] = Written(g[n], b)
  <2>1. n + 1 \in 1 .. n + 1 /\ (n + 1) - 1 = n
    BY <1>1
  <2>2. QED
    BY <1>1, <1>3, <2>1
<1>6. g[n] = h[n]
  BY <1>1, <1>4
<1>7. QED
  BY <1>2, <1>3, <1>5, <1>6 DEF more

LEMMA ShownEmpty == Shown(<<>>) = <<>>
<1>1. <<>> \in Seq(Printed) /\ Len(<<>>) = 0
  OBVIOUS
<1>2. PICK h \in [0 .. Len(<<>>) -> Seq(Printable)] : h[0] = <<>> /\ Shown(<<>>) = h[Len(<<>>)]
  BY <1>1, ShownFolds
<1>3. QED
  BY <1>1, <1>2

(* The window shows itself.                                                *)
LEMMA ShownAgain ==
  ASSUME ConsoleAssumption, NEW window \in Seq(Printable)
  PROVE  Shown(window) = window
<1> DEFINE n == Len(window)
           g == [k \in 0 .. n |-> SubSeq(window, 1, k)]
<1>1. n \in Nat /\ window \in Seq(Printed)
      /\ \A k \in 1 .. n : window[k] \in Printable /\ window[k] # CarriageReturn
  BY DEF Printed, ConsoleAssumption
<1>2. PICK h :
        /\ h \in [0 .. n -> Seq(Printable)] /\ h[0] = <<>>
        /\ \A k \in 1 .. n : h[k] = Written(h[k - 1], window[k])
        /\ Shown(window) = h[n]
  BY <1>1, ShownFolds
<1>3. SubSeq(window, 1, 0) = <<>> /\ SubSeq(window, 1, n) = window
  BY SubSeqEmpty, SubSeqFull
<1>4. ASSUME NEW k \in 1 .. n
      PROVE  SubSeq(window, 1, k) = Append(SubSeq(window, 1, k - 1), window[k])
  <2>1. SubSeq(window, 1, k - 1) \in Seq(Printable)
    BY <1>1, SubSeqProperties
  <2>2. 1 \in 1 .. n /\ k \in 1 .. n
    BY <1>1
  <2>3. SubSeq(window, 1, k) = SubSeq(window, 1, k - 1) \o <<window[k]>>
    BY <2>2, SubSeqRecursiveSecond
  <2>4. QED
    BY <1>1, <2>1, <2>3, AppendIsConcat
<1>5. g[0] = <<>> /\ g[n] = window /\ \A k \in 1 .. n : g[k] = Append(g[k - 1], window[k])
  BY <1>1, <1>3, <1>4
<1> HIDE DEF g, n
<1>6. \A k \in 0 .. n : h[k] = g[k]
  <2>1. ASSUME NEW k \in 1 .. n, h[k - 1] = g[k - 1] PROVE h[k] = g[k]
    BY <1>1, <1>2, <1>5, <2>1 DEF Written
  <2>2. InStep(h, g, n)
    BY <1>1, <1>2, <1>5, <2>1 DEF InStep
  <2>3. QED
    BY <2>2, SameFold DEF Agree
<1>7. QED
  BY <1>1, <1>2, <1>5, <1>6

-----------------------------------------------------------------------------
(* The typist, key by key.                                                 *)
TypistStates == [lines : Seq(Printable), line : Lines]

Blank == [lines |-> <<>>, line |-> <<>>]

LEMMA TypingStep ==
  ASSUME ConsoleAssumption, NEW t \in TypistStates, NEW k \in Keys
  PROVE  /\ Typing(t, k) \in TypistStates
         /\ k = "enter" => Typing(t, k) = [lines |-> t.lines \o t.line, line |-> <<>>]
         /\ k # "enter" => Typing(t, k) = [lines |-> t.lines, line |-> Edited(t.line, k)]
<1>1. /\ t = [lines |-> t.lines, line |-> t.line] /\ t.lines \in Seq(Printable)
      /\ t.line \in Seq(Printable) /\ t.line \in Lines /\ Len(t.line) \in Nat
      /\ InputSize \in Nat \ {0, 1}
  BY DEF TypistStates, Lines, ConsoleAssumption
<1>2. CASE k = "enter"
  <2>1. Typing(t, k) = [lines |-> t.lines \o t.line, line |-> <<>>]
    BY <1>2 DEF Typing
  <2>2. t.lines \o t.line \in Seq(Printable) /\ <<>> \in Lines
    BY <1>1, ConcatProperties DEF Lines
  <2>3. [lines |-> t.lines \o t.line, line |-> <<>>] \in TypistStates
    BY <2>2 DEF TypistStates
  <2>4. QED
    BY <1>2, <2>1, <2>3
<1>3. ASSUME k # "enter" PROVE Typing(t, k) = [lines |-> t.lines, line |-> Edited(t.line, k)]
  <2>1. CASE k = "backspace"
    <3>1. k \notin Printable
      BY <2>1 DEF ConsoleAssumption
    <3>2. Typing(t, k) = [t EXCEPT !.line =
                            SubSeq(@, 1, IF @ = <<>> THEN 0 ELSE Len(@) - 1)]
      BY <1>3, <2>1, <3>1 DEF Typing
    <3>3. CASE t.line = <<>>
      <4>1. SubSeq(t.line, 1, 0) = <<>>
        BY SubSeqEmpty
      <4>2. Edited(t.line, k) = t.line
        BY <3>1, <3>3 DEF Edited
      <4>3. QED
        BY <1>1, <3>2, <3>3, <4>1, <4>2
    <3>4. CASE t.line # <<>>
      <4>1. Edited(t.line, k) = SubSeq(t.line, 1, Len(t.line) - 1)
        BY <2>1, <3>1, <3>4 DEF Edited, Front
      <4>2. QED
        BY <1>1, <3>2, <3>4, <4>1
    <3>5. QED
      BY <3>3, <3>4
  <2>2. CASE k # "backspace" /\ k \in Printable /\ Len(t.line) + 1 < InputSize
    <3>1. Typing(t, k) = [t EXCEPT !.line = Append(@, k)]
      BY <1>3, <2>2 DEF Typing
    <3>2. Edited(t.line, k) = Append(t.line, k)
      BY <1>1, <2>2 DEF Edited
    <3>3. QED
      BY <1>1, <3>1, <3>2
  <2>3. CASE k # "backspace" /\ ~(k \in Printable /\ Len(t.line) + 1 < InputSize)
    <3>1. Typing(t, k) = t
      BY <1>3, <2>3 DEF Typing
    <3>2. Edited(t.line, k) = t.line
      BY <1>1, <2>3 DEF Edited
    <3>3. QED
      BY <1>1, <3>1, <3>2
  <2>4. QED
    BY <2>1, <2>2, <2>3
<1>4. CASE k # "enter"
  <2>1. Edited(t.line, k) \in Lines
    BY <1>1, EditedLine
  <2>2. QED
    BY <1>1, <1>3, <1>4, <2>1 DEF TypistStates
<1>5. QED
  BY <1>2, <1>4, <1>3

LEMMA TypistFolds ==
  ASSUME ConsoleAssumption, NEW all \in Seq(Keys)
  PROVE  \E h \in [0 .. Len(all) -> TypistStates] :
           /\ h[0] = Blank
           /\ \A k \in 1 .. Len(all) : h[k] = Typing(h[k - 1], all[k])
           /\ Typist(all) = h[Len(all)]
<1> DEFINE n == Len(all)
           V == TypistStates
           F == [p \in (1 .. n) \X V |-> Typing(p[2], all[p[1]])]
           Solves(iter) == iter = [s \in SUBSET DOMAIN all |->
             IF s = {} THEN Blank ELSE Typing(iter[s \ {Max(s)}], all[Max(s)])]
<1>1. n \in Nat /\ DOMAIN all = 1 .. n /\ (\A i \in 1 .. n : all[i] \in Keys)
      /\ Blank \in V
  BY DEF Blank, TypistStates, Lines, ConsoleAssumption
<1>2. F \in [(1 .. n) \X V -> V]
  BY <1>1, TypingStep
<1>3. Typist(all) = (CHOOSE iter : Solves(iter))[DOMAIN all]
  BY DEF Typist, Blank, FoldLeft, MapThenFoldSet
<1>4. PICK g \in [SUBSET (1 .. n) -> V] : FoldsUp(g, n, F, Blank)
  <2> HIDE DEF F, V
  <2>1. QED
    BY <1>1, <1>2, FoldExists
<1>5. Solves(g)
  <2>1. ASSUME NEW s \in SUBSET (1 .. n)
        PROVE  g[s] = IF s = {} THEN Blank ELSE Typing(g[s \ {Max(s)}], all[Max(s)])
    <3>1. g[s] = IF s = {} THEN Blank ELSE F[<<Max(s), g[s \ {Max(s)}]>>]
      BY <1>4 DEF FoldsUp
    <3>2. ASSUME s # {}
          PROVE  F[<<Max(s), g[s \ {Max(s)}]>>] = Typing(g[s \ {Max(s)}], all[Max(s)])
      <4>1. Max(s) \in 1 .. n /\ g[s \ {Max(s)}] \in V
        BY <1>1, <3>2, MaxIsLast
      <4>2. QED
        BY <4>1
    <3> HIDE DEF F
    <3>3. QED
      BY <3>1, <3>2
  <2>2. QED
    BY <1>1, <2>1
<1>6. PICK iter : Solves(iter) /\ Typist(all) = iter[1 .. n]
  <2> HIDE DEF Solves
  <2>1. QED
    BY <1>1, <1>3, <1>5
<1> DEFINE h == [k \in 0 .. n |-> iter[1 .. k]]
<1>7. iter[1 .. 0] = Blank
  BY <1>1, <1>6, FirstNumbers
<1>8. ASSUME NEW k \in 1 .. n PROVE iter[1 .. k] = Typing(iter[1 .. k - 1], all[k])
  <2>1. (1 .. k) \in SUBSET (1 .. n) /\ (1 .. k) # {} /\ Max(1 .. k) = k
        /\ (1 .. k) \ {k} = 1 .. k - 1
    BY <1>1, FirstNumbers
  <2>2. iter[1 .. k] = Typing(iter[(1 .. k) \ {Max(1 .. k)}], all[Max(1 .. k)])
    BY <1>1, <1>6, <2>1
  <2>3. QED
    BY <2>1, <2>2
<1>9. h[0] = Blank /\ h[n] = iter[1 .. n] /\ \A k \in 1 .. n : h[k] = Typing(h[k - 1], all[k])
  BY <1>1, <1>7, <1>8
<1>10. \A k \in 0 .. n : h[k] \in V
  <2> HIDE DEF h, n
  <2>1. ASSUME NEW k \in 1 .. n, h[k - 1] \in V PROVE h[k] \in V
    <3>1. all[k] \in Keys /\ h[k] = Typing(h[k - 1], all[k])
      BY <1>1, <1>9
    <3>2. QED
      BY <2>1, <3>1, TypingStep
  <2> HIDE DEF V
  <2>2. QED
    BY <1>1, <1>9, <2>1, StaysIn
<1>11. h \in [0 .. n -> V]
  BY <1>10
<1> HIDE DEF h
<1>12. QED
  BY <1>6, <1>9, <1>11


(* More keys are typed after the others.                                   *)
LEMMA TypistGoesOn ==
  ASSUME ConsoleAssumption, NEW all \in Seq(Keys), NEW polled \in Seq(Keys)
  PROVE  \E h : /\ h \in [0 .. Len(polled) -> TypistStates] /\ h[0] = Typist(all)
               /\ \A k \in 1 .. Len(polled) : h[k] = Typing(h[k - 1], polled[k])
               /\ Typist(all \o polled) = h[Len(polled)]
<1> DEFINE n == Len(all)
           m == Len(polled)
           more == all \o polled
<1>1. /\ n \in Nat /\ m \in Nat /\ more \in Seq(Keys) /\ Len(more) = n + m
      /\ \A k \in 1 .. n : more[k] = all[k]
      /\ \A k \in 1 .. m : more[n + k] = polled[k]
  BY ConcatProperties
<1>2. PICK a : /\ a \in [0 .. n -> TypistStates] /\ a[0] = Blank
               /\ \A k \in 1 .. n : a[k] = Typing(a[k - 1], all[k])
               /\ Typist(all) = a[n]
  BY TypistFolds
<1> HIDE DEF more
<1>3. PICK b : /\ b \in [0 .. n + m -> TypistStates] /\ b[0] = Blank
               /\ \A k \in 1 .. n + m : b[k] = Typing(b[k - 1], more[k])
               /\ Typist(more) = b[n + m]
  BY <1>1, TypistFolds
<1> HIDE DEF n, m
<1>4. a[n] = b[n]
  <2>1. ASSUME NEW k \in 1 .. n, a[k - 1] = b[k - 1] PROVE a[k] = b[k]
    <3>1. k \in 1 .. n + m /\ more[k] = all[k]
      BY <1>1
    <3>2. QED
      BY <1>2, <1>3, <2>1, <3>1
  <2>2. InStep(a, b, n)
    BY <1>1, <1>2, <1>3, <2>1 DEF InStep
  <2>3. Agree(a, b, n) /\ n \in 0 .. n
    BY <1>1, <2>2, SameFold
  <2>4. QED
    BY <2>3 DEF Agree
<1> DEFINE h == [k \in 0 .. m |-> b[n + k]]
<1>5. h \in [0 .. m -> TypistStates]
  <2>1. \A k \in 0 .. m : n + k \in 0 .. n + m
    BY <1>1
  <2>2. QED
    BY <1>3, <2>1
<1>6. h[0] = b[n] /\ h[m] = b[n + m]
  BY <1>1
<1>7. ASSUME NEW k \in 1 .. m PROVE h[k] = Typing(h[k - 1], polled[k])
  <2>1. n + k \in 1 .. n + m /\ (n + k) - 1 = n + (k - 1) /\ k \in 0 .. m /\ k - 1 \in 0 .. m
    BY <1>1
  <2>2. b[n + k] = Typing(b[n + (k - 1)], more[n + k])
    BY <1>3, <2>1
  <2>3. QED
    BY <1>1, <2>1, <2>2
<1> HIDE DEF h
<1>8. QED
  BY <1>2, <1>3, <1>4, <1>5, <1>6, <1>7 DEF m, more

(* A poll up to the first submitting key edits one line, and a submitting  *)
(* key hands it over whole.                                                *)
Submits(polled) == polled # <<>> /\ polled[Len(polled)] = "enter"

LEMMA PolledLine ==
  ASSUME ConsoleAssumption, NEW all \in Seq(Keys), NEW polled \in Seq(Keys),
         \A k \in 1 .. Len(polled) - 1 : polled[k] # "enter"
  PROVE  LET edited == LineAfter(Typist(all).line, polled)
         IN  /\ edited \in Lines /\ Typist(all) \in TypistStates
             /\ Typist(all \o polled) =
                  IF Submits(polled) THEN [lines |-> Typist(all).lines \o edited, line |-> <<>>]
                  ELSE [lines |-> Typist(all).lines, line |-> edited]
<1> DEFINE m == Len(polled)
           start == Typist(all)
<1>1. m \in Nat /\ \A k \in 1 .. m : polled[k] \in Keys
  OBVIOUS
<1>2. PICK h : /\ h \in [0 .. m -> TypistStates] /\ h[0] = start
               /\ \A k \in 1 .. m : h[k] = Typing(h[k - 1], polled[k])
               /\ Typist(all \o polled) = h[m]
  BY TypistGoesOn
<1>3. start \in TypistStates /\ start.line \in Lines /\ start.lines \in Seq(Printable)
      /\ start = [lines |-> start.lines, line |-> start.line]
  <2>1. start \in TypistStates
    BY <1>1, <1>2
  <2> HIDE DEF start
  <2>2. QED
    BY <2>1 DEF TypistStates
<1> HIDE DEF start
<1> DEFINE edited == LineAfter(start.line, polled)
<1>4. PICK e : /\ e \in [0 .. m -> Lines] /\ e[0] = start.line
               /\ \A k \in 1 .. m : e[k] = Edited(e[k - 1], polled[k])
               /\ edited = e[m]
  <2>1. PICK base \in Lines : base = start.line
    BY <1>3
  <2>2. PICK e : /\ e \in [0 .. m -> Lines] /\ e[0] = base
                 /\ \A k \in 1 .. m : e[k] = Edited(e[k - 1], polled[k])
                 /\ LineAfter(base, polled) = e[m]
    BY LineFolds
  <2>3. QED
    BY <2>1, <2>2
<1> HIDE DEF edited
<1> DEFINE g == [k \in 0 .. m |-> [lines |-> start.lines, line |-> e[k]]]
           last == IF Submits(polled) THEN m - 1 ELSE m
<1>5. last \in 0 .. m /\ (Submits(polled) => m >= 1 /\ last + 1 = m)
      /\ (~Submits(polled) => last = m)
  <2>1. Submits(polled) => m >= 1
    BY DEF Submits
  <2>2. QED
    BY <1>1, <2>1 DEF last
<1>6. ASSUME NEW k \in 1 .. last PROVE polled[k] # "enter"
  <2>1. CASE k = m
    <3>1. ~Submits(polled) /\ polled # <<>>
      BY <1>1, <1>5, <2>1
    <3>2. QED
      BY <2>1, <3>1 DEF Submits
  <2>2. CASE k # m
    BY <1>1, <1>5, <2>2
  <2>3. QED
    BY <2>1, <2>2
<1> HIDE DEF last, m
<1>7. ASSUME NEW k \in 1 .. last, h[k - 1] = g[k - 1] PROVE h[k] = g[k]
  <2>1. k \in 1 .. m /\ k \in 0 .. m /\ k - 1 \in 0 .. m
    BY <1>1, <1>5
  <2>2. h[k - 1] \in TypistStates /\ h[k - 1] = [lines |-> start.lines, line |-> e[k - 1]]
    BY <1>2, <1>7, <2>1
  <2>3. h[k] = [lines |-> h[k - 1].lines, line |-> Edited(h[k - 1].line, polled[k])]
    BY <1>1, <1>2, <1>6, <2>1, <2>2, TypingStep
  <2>4. e[k] = Edited(e[k - 1], polled[k])
    BY <1>4, <2>1
  <2>5. QED
    BY <2>1, <2>2, <2>3, <2>4
<1>8. h[last] = [lines |-> start.lines, line |-> e[last]]
  <2>1. g[0] = [lines |-> start.lines, line |-> start.line]
    BY <1>1, <1>4
  <2>2. g[last] = [lines |-> start.lines, line |-> e[last]]
    BY <1>5
  <2> HIDE DEF g
  <2>3. InStep(h, g, last)
    BY <1>1, <1>2, <1>3, <1>5, <1>7, <2>1 DEF InStep
  <2>4. QED
    BY <1>1, <1>5, <2>2, <2>3, SameFold DEF Agree
<1>9. CASE ~Submits(polled)
  BY <1>1, <1>2, <1>3, <1>4, <1>5, <1>8, <1>9 DEF start, edited
<1>10. CASE Submits(polled)
  <2>1. m \in 1 .. m /\ m - 1 = last /\ polled[m] = "enter" /\ m \in 0 .. m
    BY <1>1, <1>5, <1>10 DEF Submits, m
  <2>2. h[last] \in TypistStates /\ e[last] \in Lines
    BY <1>2, <1>4, <1>5
  <2>3. h[m] = [lines |-> h[last].lines \o h[last].line, line |-> <<>>]
    BY <1>1, <1>2, <2>1, <2>2, TypingStep
  <2>4. e[m] = e[last]
    <3>1. e[m] = Edited(e[last], "enter")
      BY <1>4, <2>1
    <3>2. Edited(e[last], "enter") = e[last]
      BY DEF Edited, ConsoleAssumption
    <3>3. QED
      BY <3>1, <3>2
  <2>5. QED
    BY <1>2, <1>3, <1>4, <1>8, <1>10, <2>1, <2>3, <2>4 DEF start, edited
<1>11. edited \in Lines
  BY <1>1, <1>4, <1>5 DEF m
<1>12. QED
  BY <1>3, <1>9, <1>10, <1>11 DEF start, edited

-----------------------------------------------------------------------------
(* The console's state.  A line handed out is empty once it is consumed,   *)
(* and what a thread stores goes inside the buffer.                        *)
Prints == [busy : BOOLEAN, byte : Printed, index : 0 .. TxSize - 1]

InputTypes ==
  /\ keys \in Seq(Keys) /\ typed \in Seq(Keys)
  /\ edit \in Lines /\ ready \in Lines /\ delivered \in Seq(Printable)
  /\ readyIndex \in 0 .. Len(ready) /\ (readyIndex = Len(ready) => ready = <<>>)

OutputTypes ==
  /\ txBytes \in [0 .. TxSize - 1 -> Printed] /\ txLength \in 0 .. TxSize
  /\ printing \in [Printers -> Prints]
  /\ screen \in Seq(Printable) /\ accepted \in Seq(Printed)

ConsoleTypes ==
  /\ hostUsart \in Tables({"usart"})
  /\ consoleUp \in BOOLEAN /\ halted \in BOOLEAN /\ mingled \in BOOLEAN
  /\ prints \in Nat /\ Activity <= MaxActivity
  /\ InputTypes /\ OutputTypes

ConsoleInvariant == ConsoleTypes /\ InputIsTyped /\ OutputIsPrinted

-----------------------------------------------------------------------------
(* The driver's status beside it.                                          *)
LEMMA HostUsartAsked ==
  ASSUME NEW table \in Tables({"usart"})
  PROVE  HostUsartRunning(table).table \in Tables({"usart"})
<1>1. Proper(HostStatus(table, "usart"), {"usart"}, "usart")
      /\ Keeps(HostStatus(table, "usart"), table) /\ DOMAIN table = {"usart"}
  BY HostReply DEF Tables
<1>2. Proper(HostUsartRunning(table), {"usart"}, "usart")
  BY <1>1, RequireReply DEF HostUsartRunning, HostUsartStatus
<1>3. QED
  BY <1>2 DEF Proper

LEMMA ErrorLeft ==
  ASSUME NEW table \in Tables({"usart"}), NEW error \in DriverErrors
  PROVE  LastError(table, "usart", error) \in Tables({"usart"})
BY DEF Tables, LastError, DriverRecords

LEMMA HostUsartControlled ==
  ASSUME NEW table \in Tables({"usart"}), NEW op \in LifeOps, NEW fits \in BOOLEAN
  PROVE  HostUsartControl(table, Plain(op), fits).table \in Tables({"usart"})
<1> DEFINE c == Plain(op)
           initialized == IF fits THEN HostInit(table, "usart")
                          ELSE SetError(table, "usart", "DEPENDENCY")
           started == HostStart(table, "usart")
           stopped == HostStatus(ClearStart(table, "usart"), "usart")
           status  == HostStatus(Store(table, "usart", c), "usart")
           reply   == HostUsartControl(table, c, fits)
<1>1. c.op = op
  BY DEF Plain
<1>2. Proper(initialized, {"usart"}, "usart")
  <2>1. Proper(HostInit(table, "usart"), {"usart"}, "usart")
    BY InitReply
  <2>2. Proper(SetError(table, "usart", "DEPENDENCY"), {"usart"}, "usart")
    BY ErrorReply DEF DriverErrors
  <2>3. QED
    BY <2>1, <2>2
<1>3. Proper(started, {"usart"}, "usart")
  BY StartReply DEF DriverErrors
<1>4. Proper(stopped, {"usart"}, "usart")
  BY ClearedTable, HostReply
<1>5. reply = Control(table, "usart", c, initialized, started, stopped, status)
  BY DEF HostUsartControl, HostUsartStatus
<1> HIDE DEF initialized, started, stopped, status, reply, c
<1>6. reply \in {initialized, started, stopped}
  BY <1>1, <1>5, ControlBranch DEF LifeOps
<1>7. QED
  BY <1>2, <1>3, <1>4, <1>6 DEF Proper, reply, c

-----------------------------------------------------------------------------
LEMMA ConsoleInitially ==
  ASSUME LevelAssumption, ConsoleAssumption, ConsoleInit PROVE ConsoleInvariant
<1>1. InputSize \in Nat \ {0, 1} /\ TxSize \in Nat \ {0} /\ MaxActivity \in Nat
  BY DEF ConsoleAssumption
<1>2. /\ ColdDriver \in DriverRecords
      /\ [ColdDriver EXCEPT !.bits = {"init", "start"}] \in DriverRecords
  BY DEF ColdDriver, DriverRecords, DriverErrors, StatusBits, LevelAssumption
<1>3. hostUsart \in Tables({"usart"})
  BY <1>2 DEF ConsoleInit, Tables
<1>4. InputTypes
  BY <1>1 DEF ConsoleInit, InputTypes, Lines
<1>5. OutputTypes
  <2>1. NotPrinting \in Prints
    BY <1>1 DEF NotPrinting, Prints, Printed
  <2>2. txBytes \in [0 .. TxSize - 1 -> Printed]
    BY DEF ConsoleInit, Printed
  <2>3. QED
    BY <1>1, <2>1, <2>2 DEF ConsoleInit, OutputTypes
<1>6. Activity <= MaxActivity
  BY <1>1 DEF ConsoleInit, Activity
<1>7. ConsoleTypes
  BY <1>3, <1>4, <1>5, <1>6 DEF ConsoleTypes, ConsoleInit
<1>8. Typist(<<>>) = Blank
  <2>1. <<>> \in Seq(Keys) /\ Len(<<>>) = 0
    OBVIOUS
  <2>2. PICK h : /\ h \in [0 .. Len(<<>>) -> TypistStates] /\ h[0] = Blank
                 /\ Typist(<<>>) = h[Len(<<>>)]
    BY <2>1, TypistFolds
  <2>3. QED
    BY <2>1, <2>2
<1>9. InputIsTyped
  <2>1. delivered = <<>> /\ ready = <<>> /\ readyIndex = 0 /\ edit = <<>> /\ typed = <<>>
    BY DEF ConsoleInit
  <2>2. SubSeq(<<>>, 0 + 1, Len(<<>>)) = <<>> /\ <<>> \o <<>> = <<>>
    BY SubSeqEmpty
  <2>3. Typist(typed).lines = <<>> /\ Typist(typed).line = <<>>
    BY <1>8, <2>1 DEF Blank
  <2>4. delivered \o SubSeq(ready, readyIndex + 1, Len(ready)) = <<>>
    BY <2>1, <2>2, Zenon
  <2>5. QED
    BY <2>1, <2>3, <2>4, Zenon DEF InputIsTyped
<1>10. OutputIsPrinted
  <2>1. accepted = <<>> /\ screen = <<>> /\ txLength = 0
    BY DEF ConsoleInit
  <2>2. Collected = <<>>
    BY <2>1 DEF Collected
  <2>3. <<>> \o <<>> = <<>>
    OBVIOUS
  <2>4. QED
    BY <2>1, <2>2, <2>3, ShownEmpty DEF OutputIsPrinted
<1>11. QED
  BY <1>7, <1>9, <1>10 DEF ConsoleInvariant

(* A key pressed waits in the terminal.                                    *)
LEMMA PressKeeps ==
  ASSUME ConsoleAssumption, ConsoleInvariant, NEW k \in Keys, PressKey(k)
  PROVE  ConsoleInvariant'
<1>1. /\ keys' = Append(keys, k) /\ Activity < MaxActivity
      /\ UNCHANGED <<hostUsart, consoleUp, halted, edit, ready, readyIndex, typed, delivered,
                     txBytes, txLength, screen, printing, accepted, mingled, prints>>
  BY DEF PressKey, output
<1>2. /\ keys \in Seq(Keys) /\ typed \in Seq(Keys) /\ prints \in Nat /\ MaxActivity \in Nat
  BY DEF ConsoleInvariant, ConsoleTypes, InputTypes, ConsoleAssumption
<1>3. keys' \in Seq(Keys) /\ Len(keys') = Len(keys) + 1
  BY <1>1, <1>2
<1>4. Activity' <= MaxActivity
  <2>1. Activity' = Activity + 1 /\ Activity \in Nat
    BY <1>1, <1>2, <1>3 DEF Activity
  <2>2. QED
    BY <1>1, <1>2, <2>1
<1>5. ConsoleTypes'
  BY <1>1, <1>3, <1>4 DEF ConsoleInvariant, ConsoleTypes, InputTypes, OutputTypes
<1>6. InputIsTyped' /\ OutputIsPrinted'
  BY <1>1 DEF ConsoleInvariant, InputIsTyped, OutputIsPrinted, Collected
<1>7. QED
  BY <1>5, <1>6 DEF ConsoleInvariant

(* What a print or a command counts.                                       *)
LEMMA PrintCounted ==
  ASSUME ConsoleAssumption, ConsoleTypes, CountPrint, UNCHANGED <<keys, typed>>
  PROVE  prints' \in Nat /\ Activity' <= MaxActivity
<1>1. /\ keys \in Seq(Keys) /\ typed \in Seq(Keys) /\ prints \in Nat /\ MaxActivity \in Nat
      /\ Activity < MaxActivity /\ prints' = prints + 1
  BY DEF ConsoleTypes, InputTypes, ConsoleAssumption, CountPrint
<1>2. Activity' = Activity + 1 /\ Activity \in Nat
  BY <1>1 DEF Activity
<1>3. QED
  BY <1>1, <1>2

-----------------------------------------------------------------------------
(* The terminal is polled.                                                 *)
LEMMA PollReads ==
  ASSUME ConsoleAssumption, ConsoleInvariant
  PROVE  \E polled \in Seq(Keys), rest \in Seq(Keys) :
           /\ keys = polled \o rest
           /\ \A k \in 1 .. Len(polled) - 1 : polled[k] # "enter"
           /\ LET line == LineAfter(edit, polled)
                  submits == Submits(polled)
              IN  /\ Poll.keys = rest /\ Poll.typed = typed \o polled
                  /\ Poll.edit = (IF submits THEN <<>> ELSE line)
                  /\ Poll.ready = (IF submits THEN line ELSE ready)
                  /\ Poll.index = (IF submits THEN 0 ELSE readyIndex)
                  /\ Poll.halts \in BOOLEAN
<1> DEFINE ends == {i \in DOMAIN keys : keys[i] \in {"enter", "F10"}}
           count == PolledCount
           polled == SubSeq(keys, 1, count)
           rest == SubSeq(keys, count + 1, Len(keys))
<1>1. keys \in Seq(Keys) /\ Len(keys) \in Nat /\ DOMAIN keys = 1 .. Len(keys)
  BY DEF ConsoleInvariant, ConsoleTypes, InputTypes
<1>2. count \in 0 .. Len(keys) /\ \A i \in 1 .. count - 1 : keys[i] # "enter"
  <2>1. CASE ends = {}
    <3>1. count = Len(keys)
      BY <2>1 DEF PolledCount
    <3>2. \A i \in 1 .. Len(keys) : keys[i] # "enter"
      BY <1>1, <2>1
    <3> HIDE DEF count
    <3>3. QED
      BY <1>1, <3>1, <3>2
  <2>2. CASE ends # {}
    <3>1. ends \subseteq Nat
      BY <1>1
    <3>2. PICK least \in ends : \A j \in ends : least <= j
      BY <2>2, <3>1, Least
    <3>3. count = CHOOSE i \in ends : \A j \in ends : i <= j
      BY <2>2 DEF PolledCount
    <3> HIDE DEF count
    <3>4. count \in ends /\ \A j \in ends : count <= j
      BY <3>2, <3>3
    <3>5. count \in 1 .. Len(keys)
      BY <1>1, <3>4
    <3>6. ASSUME NEW i \in 1 .. count - 1, keys[i] = "enter" PROVE FALSE
      <4>1. i \in ends
        BY <1>1, <3>5, <3>6
      <4>2. QED
        BY <3>4, <3>5, <4>1
    <3>7. QED
      BY <3>5, <3>6
  <2>3. QED
    BY <2>1, <2>2
<1>3. /\ polled \in Seq(Keys) /\ Len(polled) = count
      /\ \A i \in 1 .. count : polled[i] = keys[i]
  <2> HIDE DEF count
  <2>1. count \in Int /\ \A i \in 1 .. count : keys[i] \in Keys
    BY <1>1, <1>2
  <2>2. polled \in Seq(Keys) /\ Len(polled) = (IF 1 <= count THEN count - 1 + 1 ELSE 0)
        /\ \A i \in 1 .. count - 1 + 1 : polled[i] = keys[1 + i - 1]
    BY <2>1, SubSeqProperties
  <2>3. QED
    BY <1>2, <2>2
<1>4. rest \in Seq(Keys) /\ keys = polled \o rest
  <2> HIDE DEF count
  <2>1. rest \in Seq(Keys)
    <3>1. count + 1 \in Int /\ Len(keys) \in Int
          /\ \A i \in count + 1 .. Len(keys) : keys[i] \in Keys
      BY <1>1, <1>2
    <3>2. QED
      BY <3>1, SubSeqProperties
  <2>2. polled \o rest = SubSeq(keys, 1, Len(keys))
    <3>1. 1 \in 1 .. Len(keys) + 1 /\ count \in 1 - 1 .. Len(keys)
          /\ Len(keys) \in count .. Len(keys)
      BY <1>1, <1>2
    <3>2. QED
      BY <1>1, <3>1, ConcatAdjacentSubSeq
  <2>3. QED
    BY <1>1, <2>1, <2>2, SubSeqFull
<1> DEFINE last == IF polled = <<>> THEN "other" ELSE polled[Len(polled)]
<1>5. (last = "enter") <=> Submits(polled)
  BY DEF Submits
<1>6. Poll = [keys |-> rest, typed |-> typed \o polled,
              edit |-> IF last = "enter" THEN <<>> ELSE LineAfter(edit, polled),
              ready |-> IF last = "enter" THEN LineAfter(edit, polled) ELSE ready,
              index |-> IF last = "enter" THEN 0 ELSE readyIndex, halts |-> last = "F10"]
  BY DEF Poll, LineAfter
<1> HIDE DEF count, polled, rest, last
<1>7. \A k \in 1 .. Len(polled) - 1 : polled[k] # "enter"
  BY <1>2, <1>3
<1>8. /\ Poll.keys = rest /\ Poll.typed = typed \o polled
      /\ Poll.edit = (IF Submits(polled) THEN <<>> ELSE LineAfter(edit, polled))
      /\ Poll.ready = (IF Submits(polled) THEN LineAfter(edit, polled) ELSE ready)
      /\ Poll.index = (IF Submits(polled) THEN 0 ELSE readyIndex)
      /\ Poll.halts \in BOOLEAN
  BY <1>5, <1>6
<1>9. QED
  BY <1>3, <1>4, <1>7, <1>8

(* A read delivers the next byte of the line handed out, or polls first    *)
(* when there is none.                                                     *)
LEMMA ReadKeeps ==
  ASSUME ConsoleAssumption, ConsoleInvariant, HostUsartRead
  PROVE  ConsoleInvariant'
<1>1. UNCHANGED <<consoleUp, txBytes, txLength, screen, printing, accepted, mingled, prints>>
  BY DEF HostUsartRead, output
<1>2. /\ keys \in Seq(Keys) /\ typed \in Seq(Keys) /\ prints \in Nat
      /\ edit \in Lines /\ ready \in Lines /\ delivered \in Seq(Printable)
      /\ readyIndex \in 0 .. Len(ready) /\ (readyIndex = Len(ready) => ready = <<>>)
      /\ hostUsart \in Tables({"usart"}) /\ Activity <= MaxActivity /\ halted \in BOOLEAN
  BY DEF ConsoleInvariant, ConsoleTypes, InputTypes
<1>3. OutputIsPrinted'
  BY <1>1 DEF ConsoleInvariant, OutputIsPrinted, Collected
<1>4. OutputTypes' /\ consoleUp' \in BOOLEAN /\ mingled' \in BOOLEAN /\ prints' \in Nat
  BY <1>1 DEF ConsoleInvariant, ConsoleTypes, OutputTypes
<1> DEFINE asked == HostUsartRunning(hostUsart)
           after == IF PollsNow THEN Poll
                    ELSE [keys |-> keys, typed |-> typed, edit |-> edit, ready |-> ready,
                          index |-> readyIndex, halts |-> FALSE]
           have  == after.index < Len(after.ready)
           final == after.index + 1 = Len(after.ready)
<1>5. asked.table \in Tables({"usart"})
  BY <1>2, HostUsartAsked
<1>6. CASE asked.state # "running"
  <2>1. hostUsart' = asked.table
        /\ UNCHANGED <<halted, keys, edit, ready, readyIndex, typed, delivered>>
    BY <1>6 DEF HostUsartRead, input
  <2> HIDE DEF asked
  <2>2. ConsoleTypes'
    BY <1>1, <1>2, <1>4, <1>5, <2>1 DEF ConsoleTypes, InputTypes, Activity
  <2>3. InputIsTyped'
    BY <2>1 DEF ConsoleInvariant, InputIsTyped
  <2>4. QED
    BY <1>3, <2>2, <2>3 DEF ConsoleInvariant
<1>7. CASE asked.state = "running"
  <2>1. /\ hostUsart' \in {asked.table, LastError(asked.table, "usart", "READ_FAILED")}
        /\ halted' = after.halts
        /\ keys' = after.keys /\ typed' = after.typed /\ edit' = after.edit
        /\ ready' = IF have /\ final THEN <<>> ELSE after.ready
        /\ readyIndex' = IF have /\ ~final THEN after.index + 1 ELSE 0
        /\ delivered' = IF have THEN Append(delivered, after.ready[after.index + 1])
                        ELSE delivered
    BY <1>7 DEF HostUsartRead
  <2>2. hostUsart' \in Tables({"usart"})
    BY <1>5, <2>1, ErrorLeft DEF DriverErrors
  <2>3. /\ after.keys \in Seq(Keys) /\ after.typed \in Seq(Keys)
        /\ Len(after.keys) + Len(after.typed) = Len(keys) + Len(typed)
        /\ after.edit \in Lines /\ after.ready \in Lines /\ after.halts \in BOOLEAN
        /\ after.index \in 0 .. Len(after.ready)
        /\ (after.index = Len(after.ready) => after.ready = <<>>)
        /\ delivered \o SubSeq(after.ready, after.index + 1, Len(after.ready))
             = Typist(after.typed).lines
        /\ after.edit = Typist(after.typed).line
    <3>1. CASE ~PollsNow
      <4>1. after = [keys |-> keys, typed |-> typed, edit |-> edit, ready |-> ready,
                     index |-> readyIndex, halts |-> FALSE]
        BY <3>1
      <4> HIDE DEF after
      <4>2. /\ after.keys = keys /\ after.typed = typed /\ after.edit = edit
            /\ after.ready = ready /\ after.index = readyIndex /\ after.halts = FALSE
        BY <4>1
      <4>3. /\ delivered \o SubSeq(ready, readyIndex + 1, Len(ready)) = Typist(typed).lines
            /\ edit = Typist(typed).line
        BY DEF ConsoleInvariant, InputIsTyped
      <4>4. QED
        BY <1>2, <4>2, <4>3
    <3>2. CASE PollsNow
      <4>1. PICK polled \in Seq(Keys), rest \in Seq(Keys) :
              /\ keys = polled \o rest
              /\ \A k \in 1 .. Len(polled) - 1 : polled[k] # "enter"
              /\ LET line == LineAfter(edit, polled)
                     submits == Submits(polled)
                 IN  /\ Poll.keys = rest /\ Poll.typed = typed \o polled
                     /\ Poll.edit = (IF submits THEN <<>> ELSE line)
                     /\ Poll.ready = (IF submits THEN line ELSE ready)
                     /\ Poll.index = (IF submits THEN 0 ELSE readyIndex)
                     /\ Poll.halts \in BOOLEAN
        BY PollReads
      <4> DEFINE line == LineAfter(edit, polled)
      <4>2. readyIndex = Len(ready) /\ ready = <<>> /\ readyIndex = 0
        <5>1. Len(ready) \in Nat /\ readyIndex >= Len(ready)
          BY <1>2, <3>2 DEF PollsNow, Lines
        <5>2. QED
          BY <1>2, <5>1
      <4>3. SubSeq(ready, readyIndex + 1, Len(ready)) = <<>>
        <5>1. SubSeq(<<>>, 0 + 1, Len(<<>>)) = <<>>
          BY SubSeqEmpty
        <5>2. QED
          BY <4>2, <5>1, Zenon
      <4>4. Typist(typed).lines = delivered /\ Typist(typed).line = edit
        BY <1>2, <4>3, ConcatEmptySeq DEF ConsoleInvariant, InputIsTyped
      <4>5. /\ line \in Lines
            /\ Typist(typed \o polled) =
                 IF Submits(polled) THEN [lines |-> delivered \o line, line |-> <<>>]
                 ELSE [lines |-> delivered, line |-> line]
        BY <1>2, <4>1, <4>4, PolledLine
      <4>6. after = Poll
        BY <3>2
      <4> HIDE DEF after, line
      <4>7. /\ after.keys = rest /\ after.typed = typed \o polled
            /\ after.edit = (IF Submits(polled) THEN <<>> ELSE line)
            /\ after.ready = (IF Submits(polled) THEN line ELSE <<>>)
            /\ after.index = 0 /\ after.halts \in BOOLEAN
        BY <4>1, <4>2, <4>6 DEF line
      <4>8. typed \o polled \in Seq(Keys) /\ Len(typed \o polled) = Len(typed) + Len(polled)
            /\ Len(keys) = Len(polled) + Len(rest)
        BY <1>2, <4>1, ConcatProperties
      <4>9. Len(rest) + Len(typed \o polled) = Len(keys) + Len(typed)
        BY <1>2, <4>1, <4>8
      <4>10. <<>> \in Lines /\ Len(<<>>) = 0
        BY DEF Lines, ConsoleAssumption
      <4>11. line \in Seq(Printable) /\ Len(line) \in Nat /\ (Len(line) = 0 => line = <<>>)
        BY <4>5 DEF Lines
      <4>12. CASE Submits(polled)
        <5>1. /\ after.edit = <<>> /\ after.ready = line
              /\ Typist(after.typed) = [lines |-> delivered \o line, line |-> <<>>]
          BY <4>5, <4>7, <4>12
        <5>2. SubSeq(line, 0 + 1, Len(line)) = line
          BY <4>11, SubSeqFull
        <5>3. delivered \o SubSeq(after.ready, after.index + 1, Len(after.ready))
                = delivered \o line
          BY <4>7, <5>1, <5>2, Zenon
        <5>4. Typist(after.typed).lines = delivered \o line /\ Typist(after.typed).line = <<>>
          BY <5>1
        <5>5. after.index \in 0 .. Len(after.ready)
              /\ (after.index = Len(after.ready) => after.ready = <<>>)
          BY <4>7, <4>11, <5>1
        <5>6. QED
          BY <4>1, <4>5, <4>7, <4>8, <4>9, <4>10, <5>1, <5>3, <5>4, <5>5
      <4>13. CASE ~Submits(polled)
        <5>1. /\ after.edit = line /\ after.ready = <<>>
              /\ Typist(after.typed) = [lines |-> delivered, line |-> line]
          BY <4>5, <4>7, <4>13
        <5>2. SubSeq(<<>>, 0 + 1, Len(<<>>)) = <<>> /\ delivered \o <<>> = delivered
          BY <1>2, SubSeqEmpty, ConcatEmptySeq
        <5>3. delivered \o SubSeq(after.ready, after.index + 1, Len(after.ready)) = delivered
          BY <4>7, <5>1, <5>2, Zenon
        <5>4. Typist(after.typed).lines = delivered /\ Typist(after.typed).line = line
          BY <5>1
        <5>5. after.index \in 0 .. Len(after.ready)
              /\ (after.index = Len(after.ready) => after.ready = <<>>)
          BY <4>7, <4>10, <5>1
        <5>6. QED
          BY <4>1, <4>5, <4>7, <4>8, <4>9, <4>10, <5>1, <5>3, <5>4, <5>5
      <4>14. QED
        BY <4>12, <4>13
    <3>3. QED
      BY <3>1, <3>2
  <2> HIDE DEF after, asked
  <2>4. after.ready \in Seq(Printable) /\ Len(after.ready) \in Nat /\ after.index \in Nat
    BY <2>3 DEF Lines
  <2> DEFINE handed == after.ready
             from == after.index
  <2>5. /\ ready' \in Lines /\ readyIndex' \in 0 .. Len(ready')
        /\ (readyIndex' = Len(ready') => ready' = <<>>)
        /\ delivered' \in Seq(Printable)
        /\ delivered' \o SubSeq(ready', readyIndex' + 1, Len(ready'))
             = delivered \o SubSeq(handed, from + 1, Len(handed))
    <3>1. CASE ~have
      <4>1. handed = <<>> /\ from = 0
        BY <2>3, <2>4, <3>1
      <4>2. ready' = handed /\ readyIndex' = from /\ delivered' = delivered
        BY <2>1, <3>1, <4>1
      <4>3. QED
        BY <1>2, <2>3, <4>2
    <3>2. CASE have
      <4>1. from + 1 \in 1 .. Len(handed) /\ Len(handed) \in from + 1 .. Len(handed) /\ handed[from + 1] \in Printable
        BY <2>4, <3>2
      <4>2. SubSeq(handed, from + 1, Len(handed)) = <<handed[from + 1]>> \o SubSeq(handed, (from + 1) + 1, Len(handed))
        BY <2>4, <4>1, SubSeqRecursiveFirst
      <4>3. delivered' = Append(delivered, handed[from + 1]) /\ delivered' \in Seq(Printable)
            /\ delivered' = delivered \o <<handed[from + 1]>>
        BY <1>2, <2>1, <3>2, <4>1, AppendIsConcat, SMTT(30)
      <4>4. SubSeq(handed, (from + 1) + 1, Len(handed)) \in Seq(Printable)
        <5>1. \A i \in (from + 1) + 1 .. Len(handed) : handed[i] \in Printable
          BY <2>4
        <5>2. (from + 1) + 1 \in Int /\ Len(handed) \in Int
          BY <2>4
        <5>3. QED
          BY <5>1, <5>2, SubSeqProperties
      <4>5. delivered' \o SubSeq(handed, (from + 1) + 1, Len(handed))
              = delivered \o SubSeq(handed, from + 1, Len(handed))
        <5>1. <<handed[from + 1]>> \in Seq(Printable)
          BY <4>1
        <5>2. (delivered \o <<handed[from + 1]>>) \o SubSeq(handed, (from + 1) + 1, Len(handed))
               = delivered \o (<<handed[from + 1]>> \o SubSeq(handed, (from + 1) + 1, Len(handed)))
          <6>1. PICK rest : rest \in Seq(Printable) /\ rest = SubSeq(handed, (from + 1) + 1, Len(handed))
            BY <4>4
          <6>2. PICK first : first \in Seq(Printable) /\ first = <<handed[from + 1]>>
            BY <5>1
          <6>3. delivered \in Seq(Printable)
            BY <1>2
          <6>4. (delivered \o first) \o rest = delivered \o (first \o rest)
            <7>1. \A s, t, u \in Seq(Printable) : (s \o t) \o u = s \o (t \o u)
              BY ConcatAssociative
            <7>2. QED
              BY <6>1, <6>2, <6>3, <7>1, Zenon
          <6>5. QED
            BY <6>1, <6>2, <6>4, Zenon
        <5>3. QED
          BY <4>2, <4>3, <5>2, Zenon
      <4>6. CASE final
        <5>1. ready' = <<>> /\ readyIndex' = 0
          BY <2>1, <3>2, <4>6
        <5>2. SubSeq(handed, (from + 1) + 1, Len(handed)) = <<>> /\ SubSeq(<<>>, 0 + 1, Len(<<>>)) = <<>>
          <6>1. Len(handed) < (from + 1) + 1 /\ (from + 1) + 1 \in Int /\ Len(handed) \in Int
            BY <2>4, <4>6
          <6>2. QED
            BY <6>1, SubSeqEmpty
        <5>3. delivered' \o SubSeq(ready', readyIndex' + 1, Len(ready'))
                = delivered \o SubSeq(handed, from + 1, Len(handed))
          BY <4>5, <5>1, <5>2, Zenon
        <5>4. <<>> \in Lines /\ Len(<<>>) = 0
          BY DEF Lines, ConsoleAssumption
        <5>5. readyIndex' \in 0 .. Len(ready') /\ ready' \in Lines
          BY <5>1, <5>4
        <5>6. QED
          BY <4>3, <5>1, <5>3, <5>5, Zenon
      <4>7. CASE ~final
        <5>1. ready' = handed /\ readyIndex' = from + 1
          BY <2>1, <3>2, <4>7
        <5>2. readyIndex' \in 0 .. Len(ready') /\ readyIndex' # Len(ready')
          BY <2>4, <4>1, <4>7, <5>1
        <5>3. QED
          BY <2>3, <4>3, <4>5, <5>1, <5>2
      <4>8. QED
        BY <4>6, <4>7
    <3>3. QED
      BY <3>1, <3>2
  <2>6. Activity' <= MaxActivity
    <3>1. Len(keys') + Len(typed') = Len(keys) + Len(typed)
      BY <2>1, <2>3
    <3>2. Activity' = Activity
      BY <1>1, <3>1 DEF Activity
    <3>3. QED
      BY <1>2, <3>2
  <2>7. ConsoleTypes'
    BY <1>4, <2>1, <2>2, <2>3, <2>5, <2>6 DEF ConsoleTypes, InputTypes
  <2>8. InputIsTyped'
    BY <2>1, <2>3, <2>5 DEF InputIsTyped
  <2>9. QED
    BY <1>3, <2>7, <2>8 DEF ConsoleInvariant
<1>8. QED
  BY <1>6, <1>7

-----------------------------------------------------------------------------
(* A thread that prints.                                                   *)
LEMMA WriteBeginKeeps ==
  ASSUME ConsoleAssumption, ConsoleInvariant, NEW t \in Printers, NEW b \in Printed,
         WriteByteBegin(t, b)
  PROVE  ConsoleInvariant'
<1>1. /\ CountPrint
      /\ UNCHANGED <<consoleUp, halted, keys, edit, ready, readyIndex, typed, delivered,
                     txBytes, txLength, screen, accepted, mingled>>
  BY DEF WriteByteBegin, input
<1>2. ConsoleTypes /\ InputIsTyped /\ OutputIsPrinted /\ hostUsart \in Tables({"usart"})
  BY DEF ConsoleInvariant, ConsoleTypes
<1>3. prints' \in Nat /\ Activity' <= MaxActivity
  BY <1>1, <1>2, PrintCounted
<1> DEFINE asked == HostUsartRunning(hostUsart)
<1>4. /\ \/ hostUsart' = asked.table
         \/ hostUsart' = LastError(asked.table, "usart", "WRITE_FAILED")
      /\ \/ printing' = printing
         \/ /\ ~(txLength >= TxSize)
            /\ printing' = [printing EXCEPT ![t] =
                             [busy |-> TRUE, byte |-> b, index |-> txLength]]
  BY DEF WriteByteBegin
<1>5. asked.table \in Tables({"usart"})
  BY <1>2, HostUsartAsked
<1> HIDE DEF asked
<1>6. hostUsart' \in Tables({"usart"})
  BY <1>4, <1>5, ErrorLeft DEF DriverErrors
<1>7. printing' \in [Printers -> Prints]
  <2>1. printing \in [Printers -> Prints] /\ txLength \in 0 .. TxSize /\ TxSize \in Nat
    BY <1>2 DEF ConsoleTypes, OutputTypes, ConsoleAssumption
  <2>2. ASSUME ~(txLength >= TxSize)
        PROVE  [busy |-> TRUE, byte |-> b, index |-> txLength] \in Prints
    BY <2>1, <2>2 DEF Prints
  <2>3. QED
    BY <1>4, <2>1, <2>2
<1>8. OutputTypes' /\ InputTypes'
  BY <1>1, <1>2, <1>7 DEF ConsoleTypes, OutputTypes, InputTypes
<1>9. ConsoleTypes'
  BY <1>1, <1>2, <1>3, <1>6, <1>8 DEF ConsoleTypes
<1>10. InputIsTyped' /\ OutputIsPrinted'
  BY <1>1, <1>2 DEF InputIsTyped, OutputIsPrinted, Collected
<1>11. QED
  BY <1>9, <1>10 DEF ConsoleInvariant

(* The collected bytes are characters or carriage returns.                 *)
LEMMA CollectedBytes ==
  ASSUME ConsoleAssumption, ConsoleTypes PROVE Collected \in Seq(Printed)
<1>1. txBytes \in [0 .. TxSize - 1 -> Printed] /\ txLength \in 0 .. TxSize /\ TxSize \in Nat
  BY DEF ConsoleTypes, OutputTypes, ConsoleAssumption
<1>2. \A i \in 1 .. txLength : txBytes[i - 1] \in Printed
  BY <1>1
<1>3. QED
  BY <1>1, <1>2 DEF Collected

(* What is shown is a window.                                              *)
LEMMA ShownIsAWindow ==
  ASSUME NEW bytes \in Seq(Printed) PROVE Shown(bytes) \in Seq(Printable)
BY ShownFolds

LEMMA WriteEndKeeps ==
  ASSUME ConsoleAssumption, ConsoleInvariant, NEW t \in Printers, WriteByteEnd(t)
  PROVE  ConsoleInvariant'
<1> DEFINE b == printing[t].byte
           i == printing[t].index
<1>1. /\ txBytes' = [txBytes EXCEPT ![i] = b] /\ txLength' = i + 1
      /\ accepted' = Append(accepted, b) /\ mingled' = (mingled \/ txLength # i)
      /\ printing' = [printing EXCEPT ![t] = NotPrinting]
      /\ UNCHANGED <<hostUsart, consoleUp, halted, keys, edit, ready, readyIndex, typed,
                     delivered, screen, prints>>
  BY DEF WriteByteEnd, input
<1>2. ConsoleTypes /\ InputIsTyped /\ OutputIsPrinted
  BY DEF ConsoleInvariant
<1>3. /\ txBytes \in [0 .. TxSize - 1 -> Printed] /\ txLength \in 0 .. TxSize
      /\ printing \in [Printers -> Prints] /\ TxSize \in Nat \ {0}
      /\ screen \in Seq(Printable) /\ accepted \in Seq(Printed) /\ mingled \in BOOLEAN
  BY <1>2 DEF ConsoleTypes, OutputTypes, ConsoleAssumption
<1>4. NotPrinting \in Prints
  BY <1>3 DEF NotPrinting, Prints, Printed
<1>5. b \in Printed
  BY <1>3 DEF Prints
<1>6. i \in 0 .. TxSize - 1
  BY <1>3 DEF Prints
<1> HIDE DEF b, i
<1>7. txBytes' \in [0 .. TxSize - 1 -> Printed] /\ txLength' \in 0 .. TxSize
      /\ printing' \in [Printers -> Prints] /\ accepted' \in Seq(Printed)
  BY <1>1, <1>3, <1>4, <1>5, <1>6
<1>8. OutputTypes' /\ InputTypes'
  BY <1>1, <1>2, <1>3, <1>7 DEF ConsoleTypes, OutputTypes, InputTypes
<1>9. Activity' = Activity /\ prints' = prints
  BY <1>1 DEF Activity
<1>10. mingled' \in BOOLEAN
  BY <1>1
<1>11. ConsoleTypes'
  BY <1>1, <1>2, <1>8, <1>9, <1>10 DEF ConsoleTypes
<1>12. InputIsTyped'
  BY <1>1, <1>2 DEF InputIsTyped
<1>13. OutputIsPrinted'
  <2>1. SUFFICES ASSUME ~mingled' PROVE Shown(accepted') = screen' \o Shown(Collected')
    BY DEF OutputIsPrinted
  <2>2. ~mingled /\ txLength = i
    BY <1>1, <2>1
  <2>3. Shown(accepted) = screen \o Shown(Collected)
    BY <1>2, <2>2 DEF OutputIsPrinted
  <2>4. Collected' = Append(Collected, b)
    <3>1. /\ Collected = [k \in 1 .. i |-> txBytes[k - 1]]
          /\ Collected' = [k \in 1 .. i + 1 |-> txBytes'[k - 1]]
      BY <1>1, <2>2 DEF Collected
    <3>2. \A k \in 1 .. i : k - 1 \in 0 .. TxSize - 1 /\ txBytes'[k - 1] = txBytes[k - 1]
      BY <1>1, <1>3, <1>6
    <3>3. txBytes'[(i + 1) - 1] = b
      BY <1>1, <1>3, <1>6
    <3>4. Collected \in Seq(Printed) /\ Len(Collected) = i
      <4>1. Collected \in Seq(Printed)
        BY <1>2, CollectedBytes
      <4>2. QED
        BY <1>6, <3>1, <4>1
    <3>5. \A k \in 1 .. i : Collected[k] = txBytes[k - 1]
      BY <3>1
    <3>6. PICK before : before \in Seq(Printed) /\ before = Collected
      BY <3>4
    <3>7. PICK after : after = Collected'
      OBVIOUS
    <3>8. after \in Seq(Printed) /\ Len(after) = i + 1
      <4>1. \A k \in 1 .. i + 1 : txBytes'[k - 1] \in Printed
        BY <1>3, <1>5, <1>6, <3>2, <3>3
      <4>2. QED
        BY <1>6, <3>1, <3>7, <4>1
    <3>9. Len(before) = i /\ \A k \in 1 .. i : after[k] = before[k]
      BY <1>6, <3>1, <3>2, <3>4, <3>5, <3>6, <3>7
    <3>10. after[i + 1] = b
      BY <1>6, <3>1, <3>3, <3>7
    <3>11. after = Append(before, b)
      BY <1>5, <1>6, <3>6, <3>8, <3>9, <3>10
    <3>12. QED
      BY <3>6, <3>7, <3>11, Zenon
  <2>5. Collected \in Seq(Printed)
    BY <1>2, CollectedBytes
  <2>6. Shown(accepted') = Written(Shown(accepted), b)
        /\ Shown(Collected') = Written(Shown(Collected), b)
    BY <1>1, <1>3, <1>5, <2>4, <2>5, ShownOneMore
  <2>7. Shown(Collected) \in Seq(Printable) /\ screen \in Seq(Printable)
    BY <1>3, <2>5, ShownIsAWindow
  <2>8. Written(screen \o Shown(Collected), b) = screen \o Written(Shown(Collected), b)
    <3>1. PICK window : window \in Seq(Printable) /\ window = Shown(Collected)
      BY <2>7
    <3>2. CASE b = CarriageReturn
      BY <3>2 DEF Written
    <3>3. CASE b # CarriageReturn
      <4>1. b \in Printable
        BY <1>5, <3>3 DEF Printed
      <4>2. Append(screen \o window, b) = screen \o Append(window, b)
        BY <2>7, <3>1, <4>1
      <4>3. QED
        BY <3>1, <3>3, <4>2 DEF Written
    <3>4. QED
      BY <3>2, <3>3
  <2>9. screen' = screen
    BY <1>1
  <2>10. QED
    BY <2>3, <2>6, <2>8, <2>9, Zenon
<1>14. QED
  BY <1>11, <1>12, <1>13 DEF ConsoleInvariant

(* An empty buffer shows nothing.                                          *)
LEMMA NothingCollected ==
  ASSUME NEW window \in Seq(Printable), txLength' = 0
  PROVE  window \o Shown(Collected') = window
<1>1. Collected' = <<>>
  BY DEF Collected
<1>2. window \o <<>> = window
  BY ConcatEmptySeq
<1>3. QED
  BY <1>1, <1>2, ShownEmpty

LEMMA SendKeeps ==
  ASSUME ConsoleAssumption, ConsoleInvariant, NEW t \in Printers, SendTXBuffer(t)
  PROVE  ConsoleInvariant'
<1>1. /\ CountPrint
      /\ UNCHANGED <<consoleUp, halted, keys, edit, ready, readyIndex, typed, delivered,
                     txBytes, printing, accepted, mingled>>
  BY DEF SendTXBuffer, input
<1>2. ConsoleTypes /\ InputIsTyped /\ OutputIsPrinted /\ hostUsart \in Tables({"usart"})
      /\ screen \in Seq(Printable) /\ TxSize \in Nat \ {0}
  BY DEF ConsoleInvariant, ConsoleTypes, OutputTypes, ConsoleAssumption
<1>3. prints' \in Nat /\ Activity' <= MaxActivity
  BY <1>1, <1>2, PrintCounted
<1>4. hostUsart' \in Tables({"usart"})
  BY <1>2, HostUsartAsked DEF SendTXBuffer
<1>5. \/ screen' = screen \o Shown(Collected) /\ txLength' = 0
      \/ screen' = screen /\ txLength' = txLength
  BY DEF SendTXBuffer
<1>6. Shown(Collected) \in Seq(Printable)
  BY <1>2, CollectedBytes, ShownIsAWindow
<1>7. screen' \in Seq(Printable) /\ txLength' \in 0 .. TxSize
  <2>1. txLength \in 0 .. TxSize
    BY <1>2 DEF ConsoleTypes, OutputTypes
  <2>2. PICK window : window \in Seq(Printable) /\ window = Shown(Collected)
    BY <1>6
  <2>3. screen \o window \in Seq(Printable)
    BY <1>2, <2>2
  <2>4. screen \o Shown(Collected) \in Seq(Printable)
    BY <2>2, <2>3, Zenon
  <2>5. 0 \in 0 .. TxSize
    BY <1>2
  <2>6. QED
    BY <1>2, <1>5, <2>1, <2>4, <2>5, Zenon
<1>8. OutputTypes' /\ InputTypes'
  BY <1>1, <1>2, <1>7 DEF ConsoleTypes, OutputTypes, InputTypes
<1>9. ConsoleTypes'
  BY <1>1, <1>2, <1>3, <1>4, <1>8 DEF ConsoleTypes
<1>10. InputIsTyped'
  BY <1>1, <1>2 DEF InputIsTyped
<1>11. OutputIsPrinted'
  <2>1. CASE screen' = screen \o Shown(Collected) /\ txLength' = 0
    <3>1. screen' \o Shown(Collected') = screen'
      BY <1>7, <2>1, NothingCollected
    <3>2. QED
      BY <1>1, <1>2, <2>1, <3>1 DEF OutputIsPrinted
  <2>2. CASE screen' = screen /\ txLength' = txLength
    BY <1>1, <1>2, <2>2 DEF OutputIsPrinted, Collected
  <2>3. QED
    BY <1>5, <2>1, <2>2
<1>12. QED
  BY <1>9, <1>10, <1>11 DEF ConsoleInvariant

(* A command.  An initialization drops what was collected.                 *)
LEMMA CommandKeeps ==
  ASSUME ConsoleAssumption, ConsoleInvariant, NEW op \in LifeOps, NEW fits \in BOOLEAN,
         HostUsartCommand(Plain(op), fits)
  PROVE  ConsoleInvariant'
<1>1. ConsoleTypes /\ InputIsTyped /\ OutputIsPrinted /\ hostUsart \in Tables({"usart"})
      /\ consoleUp \in BOOLEAN /\ mingled \in BOOLEAN
      /\ screen \in Seq(Printable) /\ screen \in Seq(Printed) /\ txLength \in 0 .. TxSize
      /\ TxSize \in Nat \ {0}
  BY DEF ConsoleInvariant, ConsoleTypes, OutputTypes, ConsoleAssumption, Printed
<1> DEFINE able == consoleUp \/ fits
<1>2. /\ CountPrint
      /\ hostUsart' = HostUsartControl(hostUsart, Plain(op), able).table
      /\ UNCHANGED <<halted, keys, edit, ready, readyIndex, typed, delivered,
                     txBytes, screen, printing>>
  BY DEF HostUsartCommand, input
<1>3. PICK opened \in BOOLEAN :
        /\ consoleUp' = (consoleUp \/ opened)
        /\ txLength' = (IF opened THEN 0 ELSE txLength)
        /\ accepted' = (IF opened THEN screen ELSE accepted)
        /\ mingled' = (mingled \/ (opened /\ \E t \in Printers : printing[t].busy))
  <2>1. (Plain(op).op = "INIT" /\ able) \in BOOLEAN
    OBVIOUS
  <2>2. QED
    BY <2>1, Zenon DEF HostUsartCommand
<1>4. prints' \in Nat /\ Activity' <= MaxActivity
  BY <1>1, <1>2, PrintCounted
<1>5. hostUsart' \in Tables({"usart"})
  <2>1. able \in BOOLEAN
    BY <1>1
  <2> HIDE DEF able
  <2>2. QED
    BY <1>1, <1>2, <2>1, HostUsartControlled
<1>6. accepted' \in Seq(Printed) /\ txLength' \in 0 .. TxSize
  BY <1>1, <1>3 DEF ConsoleTypes, OutputTypes
<1>7. OutputTypes' /\ InputTypes'
  BY <1>1, <1>2, <1>6 DEF ConsoleTypes, OutputTypes, InputTypes
<1>8. consoleUp' \in BOOLEAN /\ mingled' \in BOOLEAN
  BY <1>3
<1>9. ConsoleTypes'
  BY <1>1, <1>2, <1>4, <1>5, <1>7, <1>8 DEF ConsoleTypes
<1>10. InputIsTyped'
  BY <1>1, <1>2 DEF InputIsTyped
<1>11. OutputIsPrinted'
  <2>1. CASE opened
    <3>1. screen \o Shown(Collected') = screen
      BY <1>1, <1>3, <2>1, NothingCollected
    <3>2. QED
      BY <1>1, <1>2, <1>3, <2>1, <3>1, ShownAgain DEF OutputIsPrinted
  <2>2. CASE ~opened
    <3>1. txLength' = txLength /\ accepted' = accepted
      BY <1>3, <2>2
    <3>2. ~mingled' => ~mingled
      BY <1>3, <2>2
    <3>3. QED
      BY <1>1, <1>2, <3>1, <3>2 DEF OutputIsPrinted, Collected
  <2>3. QED
    BY <2>1, <2>2
<1>12. QED
  BY <1>9, <1>10, <1>11 DEF ConsoleInvariant

LEMMA ConsoleStep ==
  ASSUME ConsoleAssumption, ConsoleInvariant, [ConsoleNext]_consoleVars
  PROVE  ConsoleInvariant'
<1>1. ASSUME NEW op \in LifeOps, NEW fits \in BOOLEAN, HostUsartCommand(Plain(op), fits)
      PROVE  ConsoleInvariant'
  BY <1>1, CommandKeeps
<1>2. ASSUME NEW k \in Keys, PressKey(k) PROVE ConsoleInvariant'
  BY <1>2, PressKeeps
<1>3. CASE HostUsartRead
  BY <1>3, ReadKeeps
<1>4. ASSUME NEW t \in Printers, NEW b \in Printable \cup {CarriageReturn}, WriteByteBegin(t, b)
      PROVE  ConsoleInvariant'
  BY <1>4, WriteBeginKeeps DEF Printed
<1>5. ASSUME NEW t \in Printers, WriteByteEnd(t) PROVE ConsoleInvariant'
  BY <1>5, WriteEndKeeps
<1>6. ASSUME NEW t \in Printers, SendTXBuffer(t) PROVE ConsoleInvariant'
  BY <1>6, SendKeeps
<1>7. CASE UNCHANGED consoleVars
  BY <1>7 DEF ConsoleInvariant, ConsoleTypes, InputTypes, OutputTypes, InputIsTyped,
              OutputIsPrinted, Collected, Activity, consoleVars
<1>8. QED
  BY <1>1, <1>2, <1>3, <1>4, <1>5, <1>6, <1>7 DEF ConsoleNext

(* What the invariant says of the types.                                   *)
LEMMA ConsoleTyped ==
  ASSUME ConsoleAssumption, ConsoleTypes PROVE ConsoleTypeOK
<1>1. hostUsart \in [{"usart"} -> DriverRecords]
  BY DEF ConsoleTypes, Tables
<1>2. prints \in 0 .. MaxActivity
  <2>1. keys \in Seq(Keys) /\ typed \in Seq(Keys) /\ prints \in Nat /\ MaxActivity \in Nat
        /\ Len(keys) + Len(typed) + prints <= MaxActivity
    BY DEF ConsoleTypes, InputTypes, ConsoleAssumption, Activity
  <2>2. QED
    BY <2>1
<1>3. \A t \in Printers : printing[t].index \in 0 .. TxSize
  <2>1. \A t \in Printers : printing[t] \in Prints
    BY DEF ConsoleTypes, OutputTypes
  <2>2. TxSize \in Nat
    BY DEF ConsoleAssumption
  <2>3. QED
    BY <2>1, <2>2 DEF Prints
<1>4. QED
  BY <1>1, <1>2, <1>3 DEF ConsoleTypes, InputTypes, OutputTypes, ConsoleTypeOK, Lines

-----------------------------------------------------------------------------
(* The value of a sequence of digits is a number.                          *)
LEMMA ValueIsANumber ==
  ASSUME NEW digits \in Seq(Nat) PROVE ValueOf(digits) \in Nat
<1> DEFINE n == Len(digits)
           F == [p \in (1 .. n) \X Nat |-> AddDigit(p[2], digits[p[1]])]
           Solves(iter) == iter = [s \in SUBSET DOMAIN digits |->
             IF s = {} THEN 0 ELSE AddDigit(iter[s \ {Max(s)}], digits[Max(s)])]
<1>1. n \in Nat /\ DOMAIN digits = 1 .. n /\ (\A i \in 1 .. n : digits[i] \in Nat)
  OBVIOUS
<1>2. F \in [(1 .. n) \X Nat -> Nat]
  BY <1>1 DEF AddDigit
<1>3. ValueOf(digits) = (CHOOSE iter : Solves(iter))[DOMAIN digits]
  BY DEF ValueOf, FoldLeft, MapThenFoldSet
<1>4. PICK g \in [SUBSET (1 .. n) -> Nat] : FoldsUp(g, n, F, 0)
  <2> HIDE DEF F
  <2>1. QED
    BY <1>1, <1>2, FoldExists
<1>5. Solves(g)
  <2>1. ASSUME NEW s \in SUBSET (1 .. n)
        PROVE  g[s] = IF s = {} THEN 0 ELSE AddDigit(g[s \ {Max(s)}], digits[Max(s)])
    <3>1. g[s] = IF s = {} THEN 0 ELSE F[<<Max(s), g[s \ {Max(s)}]>>]
      BY <1>4 DEF FoldsUp
    <3>2. ASSUME s # {}
          PROVE  F[<<Max(s), g[s \ {Max(s)}]>>] = AddDigit(g[s \ {Max(s)}], digits[Max(s)])
      <4>1. Max(s) \in 1 .. n /\ g[s \ {Max(s)}] \in Nat
        BY <1>1, <3>2, MaxIsLast
      <4>2. QED
        BY <4>1
    <3> HIDE DEF F
    <3>3. QED
      BY <3>1, <3>2
  <2>2. QED
    BY <1>1, <2>1
<1>6. PICK iter : Solves(iter) /\ ValueOf(digits) = iter[1 .. n]
  <2> HIDE DEF Solves
  <2>1. QED
    BY <1>1, <1>3, <1>5
<1> DEFINE h == [k \in 0 .. n |-> iter[1 .. k]]
<1>7. iter[1 .. 0] = 0
  BY <1>1, <1>6, FirstNumbers
<1>8. ASSUME NEW k \in 1 .. n PROVE iter[1 .. k] = AddDigit(iter[1 .. k - 1], digits[k])
  <2>1. (1 .. k) \in SUBSET (1 .. n) /\ (1 .. k) # {} /\ Max(1 .. k) = k
        /\ (1 .. k) \ {k} = 1 .. k - 1
    BY <1>1, FirstNumbers, SMTT(30)
  <2>2. iter[1 .. k] = AddDigit(iter[(1 .. k) \ {Max(1 .. k)}], digits[Max(1 .. k)])
    BY <1>1, <1>6, <2>1
  <2>3. QED
    BY <2>1, <2>2
<1>9. h[0] = 0 /\ h[n] = iter[1 .. n] /\ \A k \in 1 .. n : h[k] = AddDigit(h[k - 1], digits[k])
  BY <1>1, <1>7, <1>8
<1>10. \A k \in 0 .. n : h[k] \in Nat
  <2> HIDE DEF h, n
  <2>1. ASSUME NEW k \in 1 .. n, h[k - 1] \in Nat PROVE h[k] \in Nat
    <3>1. digits[k] \in Nat /\ h[k] = AddDigit(h[k - 1], digits[k])
      BY <1>1, <1>9
    <3>2. QED
      BY <2>1, <3>1 DEF AddDigit
  <2>2. PICK numbers : numbers = Nat
    OBVIOUS
  <2>3. h[0] \in numbers /\ \A k \in 1 .. n : h[k - 1] \in numbers => h[k] \in numbers
    BY <1>9, <2>1, <2>2
  <2>4. \A k \in 0 .. n : h[k] \in numbers
    BY <1>1, <2>3, StaysIn
  <2>5. QED
    BY <2>2, <2>4
<1> HIDE DEF h
<1>11. QED
  BY <1>1, <1>6, <1>9, <1>10

-----------------------------------------------------------------------------
(* The digits from an index on.                                            *)
TextTyped == text \in Seq(0 .. 11)

DigitRun(index, most, count) ==
  /\ \A i \in index .. index + count - 1 : i < TextSizeMax /\ CharAt(i) \in Digits
  /\ \/ count = most \/ index + count >= TextSizeMax
     \/ CharAt(index + count) \notin Digits

LEMMA CharsOfText ==
  ASSUME TextTyped
  PROVE  /\ Len(text) \in Nat /\ DOMAIN text = 1 .. Len(text)
         /\ \A i \in Nat : i < Len(text) <=> CharAt(i) # EndOfText
         /\ \A i \in Nat : CharAt(i) \in Digits => i < Len(text)
         /\ \A i \in Nat : i < Len(text) => CharAt(i) = text[i + 1] /\ text[i + 1] \in 0 .. 11
BY DEF TextTyped, CharAt, EndOfText, Digits

LEMMA DigitRunExists ==
  ASSUME NEW index \in Nat, NEW most \in Nat
  PROVE  \E count \in 0 .. most : DigitRun(index, most, count)
<1> DEFINE Stops(c) == \/ c = most \/ index + c >= TextSizeMax
                       \/ CharAt(index + c) \notin Digits
           stops == {c \in 0 .. most : Stops(c)}
<1>1. stops # {} /\ stops \subseteq Nat
  OBVIOUS
<1>2. PICK count \in stops : \A c \in stops : count <= c
  <2> HIDE DEF stops
  <2>1. QED
    BY <1>1, Least
<1>3. ASSUME NEW i \in index .. index + count - 1
      PROVE  i < TextSizeMax /\ CharAt(i) \in Digits
  <2>1. i - index \in 0 .. most /\ i - index < count
    BY <1>2
  <2>2. ~Stops(i - index)
    <3> HIDE DEF Stops
    <3>1. QED
      BY <1>2, <2>1
  <2>3. index + (i - index) = i
    OBVIOUS
  <2>4. QED
    BY <2>2, <2>3 DEF TextSizeMax
<1>4. QED
  BY <1>2, <1>3 DEF DigitRun

LEMMA DigitRunOnce ==
  ASSUME NEW index \in Nat, NEW most \in Nat, NEW c \in 0 .. most, NEW d \in 0 .. most,
         DigitRun(index, most, c), DigitRun(index, most, d)
  PROVE  ~(c < d)
<1>1. SUFFICES ASSUME c < d PROVE FALSE
  OBVIOUS
<1>2. index + c \in index .. index + d - 1
  BY <1>1
<1>3. index + c < TextSizeMax /\ CharAt(index + c) \in Digits
  BY <1>2 DEF DigitRun
<1>4. c # most /\ ~(index + c >= TextSizeMax)
  BY <1>1, <1>3 DEF TextSizeMax
<1>5. QED
  BY <1>3, <1>4 DEF DigitRun

LEMMA DigitsCounted ==
  ASSUME NEW index \in Nat, NEW most \in Nat
  PROVE  /\ DigitCount(index, most) \in 0 .. most
         /\ DigitRun(index, most, DigitCount(index, most))
         /\ \A c \in 0 .. most : DigitRun(index, most, c) => c = DigitCount(index, most)
<1>1. DigitCount(index, most) = CHOOSE count \in 0 .. most : DigitRun(index, most, count)
  BY DEF DigitCount, DigitRun
<1>2. DigitCount(index, most) \in 0 .. most /\ DigitRun(index, most, DigitCount(index, most))
  BY <1>1, DigitRunExists
<1>3. ASSUME NEW c \in 0 .. most, DigitRun(index, most, c) PROVE c = DigitCount(index, most)
  <2>1. PICK d : d = DigitCount(index, most)
    OBVIOUS
  <2>2. d \in 0 .. most /\ DigitRun(index, most, d)
    BY <1>2, <2>1
  <2>3. ~(c < d) /\ ~(d < c)
    BY <1>3, <2>2, DigitRunOnce
  <2>4. QED
    BY <2>1, <2>2, <2>3
<1>4. QED
  BY <1>2, <1>3

-----------------------------------------------------------------------------
(* threadRunLevelParse takes a text of one to three digits and nothing     *)
(* else for the level it shows.                                            *)
LevelIn(digits) == digits \in Seq(Digits) /\ Len(digits) \in 1 .. 3
                   /\ ValueOf(digits) \in 1 .. LevelCount - 1

LEMMA LevelRead ==
  ASSUME TextTyped
  PROVE  ParseLevel = IF LevelIn(text) THEN <<ValueOf(text)>> ELSE Refused
<1> DEFINE Ends(n) == /\ \A i \in 0 .. n - 1 : CharAt(i) \in Digits
                      /\ n = LevelDigitsMax \/ CharAt(n) \notin Digits
           count == CHOOSE n \in 0 .. LevelDigitsMax : Ends(n)
           value == ValueOf(SubSeq(text, 1, count))
<1>1. \A n \in 0 .. 3 : DigitRun(0, 3, n) <=> Ends(n)
  BY DEF DigitRun, TextSizeMax, LevelDigitsMax
<1>2. count \in 0 .. 3 /\ Ends(count)
  <2>1. \E n \in 0 .. LevelDigitsMax : Ends(n)
    <3>1. PICK n \in 0 .. 3 : DigitRun(0, 3, n)
      BY DigitRunExists
    <3> HIDE DEF Ends
    <3>2. QED
      BY <1>1, <3>1 DEF LevelDigitsMax
  <2> HIDE DEF Ends
  <2>2. QED
    BY <2>1 DEF LevelDigitsMax
<1>3. ParseLevel = IF count > 0 /\ CharAt(count) = EndOfText /\ value \in 1 .. LevelCount - 1
                   THEN <<value>> ELSE Refused
  BY DEF ParseLevel
<1> HIDE DEF count
<1>4. CASE count > 0 /\ CharAt(count) = EndOfText
  <2>1. count = Len(text)
    <3>1. ~(count < Len(text)) /\ count - 1 \in Nat /\ CharAt(count - 1) \in Digits
      BY <1>2, <1>4, CharsOfText
    <3>2. count - 1 < Len(text) /\ Len(text) \in Nat
      BY <3>1, CharsOfText
    <3>3. QED
      BY <1>2, <3>1, <3>2
  <2>2. SubSeq(text, 1, count) = text
    BY <2>1, SubSeqFull DEF TextTyped
  <2>3. text \in Seq(Digits) /\ Len(text) \in 1 .. 3
    <3>1. \A i \in 1 .. Len(text) : text[i] \in Digits
      <4>1. ASSUME NEW i \in 1 .. Len(text) PROVE text[i] \in Digits
        <5>1. i - 1 \in 0 .. count - 1 /\ i - 1 \in Nat /\ (i - 1) + 1 = i
          BY <1>2, <2>1
        <5>2. CharAt(i - 1) \in Digits
          BY <1>2, <5>1
        <5>3. QED
          BY <5>1, <5>2, CharsOfText
      <4>2. QED
        BY <4>1
    <3>2. QED
      BY <1>2, <1>4, <2>1, <3>1 DEF TextTyped
  <2>4. QED
    BY <1>3, <1>4, <2>2, <2>3 DEF LevelIn
<1>5. CASE ~(count > 0 /\ CharAt(count) = EndOfText)
  <2>1. ASSUME LevelIn(text) PROVE FALSE
    <3>1. text \in Seq(Digits) /\ Len(text) \in 1 .. 3
      BY <2>1 DEF LevelIn
    <3>2. \A i \in 0 .. Len(text) - 1 : CharAt(i) \in Digits
      BY <3>1, CharsOfText
    <3>3. CharAt(Len(text)) = EndOfText
      BY <3>1 DEF CharAt
    <3>4. count = Len(text)
      <4>1. CASE count < Len(text)
        <5>1. count \in 0 .. Len(text) - 1 /\ count < 3
          <6>1. count \in 0 .. 3
            BY <1>2, Zenon
          <6>2. Len(text) \in 1 .. 3
            BY <3>1, Zenon
          <6>3. QED
            BY <4>1, <6>1, <6>2
        <5>2. CharAt(count) \in Digits
          BY <3>2, <5>1
        <5>3. QED
          BY <1>2, <5>1, <5>2 DEF LevelDigitsMax
      <4>2. CASE count > Len(text)
        <5>1. CharAt(Len(text)) \in Digits
          BY <1>2, <3>1, <4>2
        <5>2. QED
          BY <3>3, <5>1 DEF EndOfText, Digits
      <4>3. QED
        BY <1>2, <3>1, <4>1, <4>2
    <3>5. QED
      BY <1>5, <3>1, <3>3, <3>4
  <2>2. QED
    BY <1>3, <1>5, <2>1
<1>6. QED
  BY <1>4, <1>5

-----------------------------------------------------------------------------
(* dateParseField reads so many digits, fewer than the most only before    *)
(* something else, and the separator behind them.                          *)
Reads(index, separator, least, most, count) ==
  /\ count \in least .. most
  /\ \A i \in index .. index + count - 1 : CharAt(i) \in Digits
  /\ index + count < TextSizeMax /\ CharAt(index + count) = separator

Piece(index, count) == SubSeq(text, index + 1, index + count)

LEMMA PieceOfText ==
  ASSUME TextTyped, NEW index \in Nat, NEW count \in Nat,
         \A i \in index .. index + count - 1 : CharAt(i) \in Digits
  PROVE  /\ Piece(index, count) \in Seq(Digits) /\ Len(Piece(index, count)) = count
         /\ Piece(index, count) = [i \in 1 .. count |-> CharAt(index + i - 1)]
         /\ ValueOf(Piece(index, count)) \in Nat
<1> DEFINE from == index + 1
           to == index + count
           piece == SubSeq(text, from, to)
           chars == [i \in 1 .. count |-> CharAt(index + i - 1)]
<1>1. ASSUME NEW i \in from .. to PROVE text[i] \in Digits /\ text[i] = CharAt(i - 1)
  <2>1. i - 1 \in index .. index + count - 1 /\ i - 1 \in Nat /\ (i - 1) + 1 = i
    OBVIOUS
  <2>2. CharAt(i - 1) \in Digits
    BY <2>1
  <2>3. i - 1 < Len(text)
    BY <2>1, <2>2, CharsOfText
  <2>4. QED
    BY <2>1, <2>2, <2>3, CharsOfText
<1>2. from \in Int /\ to \in Int /\ to - from + 1 = count /\ (IF from <= to THEN count ELSE 0) = count
      /\ \A i \in 1 .. count : from + i - 1 \in from .. to
  OBVIOUS
<1>3. piece \in Seq(Digits) /\ Len(piece) = (IF from <= to THEN to - from + 1 ELSE 0)
      /\ \A i \in 1 .. to - from + 1 : piece[i] = text[from + i - 1]
  <2>1. \A i \in from .. to : text[i] \in Digits
    BY <1>1
  <2> HIDE DEF from, to
  <2>2. QED
    BY <1>2, <2>1, SubSeqProperties
<1>4. Len(piece) = count
  <2> HIDE DEF piece
  <2>1. QED
    BY <1>2, <1>3
<1>5. \A i \in 1 .. count : piece[i] = CharAt(index + i - 1)
  <2>1. ASSUME NEW i \in 1 .. count PROVE piece[i] = CharAt(index + i - 1)
    <3>1. piece[i] = text[from + i - 1]
      <4> HIDE DEF piece, from, to
      <4>1. QED
        BY <1>2, <1>3
    <3>2. from + i - 1 \in from .. to /\ (from + i - 1) - 1 = index + i - 1
      OBVIOUS
    <3>3. text[from + i - 1] = CharAt((from + i - 1) - 1)
      <4> HIDE DEF from, to
      <4>1. QED
        BY <1>1, <3>2
    <3>4. QED
      BY <3>1, <3>2, <3>3
  <2>2. QED
    BY <2>1
<1>6. piece = chars
  <2> HIDE DEF piece
  <2>1. piece = [i \in 1 .. count |-> piece[i]]
    BY <1>3, <1>4
  <2>2. QED
    BY <1>5, <2>1
<1>7. ValueOf(piece) \in Nat
  <2> HIDE DEF piece
  <2>1. piece \in Seq(Nat)
    BY <1>3 DEF Digits
  <2>2. QED
    BY <2>1, ValueIsANumber
<1>8. QED
  BY <1>3, <1>4, <1>6, <1>7 DEF Piece

LEMMA ReadsOnce ==
  ASSUME TextTyped, NEW index \in Nat, NEW separator, separator \notin Digits,
         NEW least \in Nat, NEW most \in Nat,
         NEW c, NEW d, Reads(index, separator, least, most, c),
         Reads(index, separator, least, most, d)
  PROVE  c = d
<1>1. c \in Nat /\ d \in Nat
  BY DEF Reads
<1>2. CASE c < d
  <2>1. index + c \in index .. index + d - 1
    BY <1>1, <1>2
  <2>2. QED
    BY <2>1 DEF Reads
<1>3. CASE d < c
  <2>1. index + d \in index .. index + c - 1
    BY <1>1, <1>3
  <2>2. QED
    BY <2>1 DEF Reads
<1>4. QED
  BY <1>1, <1>2, <1>3

Read(index, count) ==
  [ok |-> TRUE, index |-> index + count + 1, value |-> ValueOf(Piece(index, count))]

FieldReads(parsed, index, separator, least, most) ==
  \/ \E count \in Nat : /\ Reads(index, separator, least, most, count)
                        /\ parsed = Read(index, count)
  \/ /\ \A count : ~Reads(index, separator, least, most, count)
     /\ parsed = Unreadable

LEMMA FieldRead ==
  ASSUME TextTyped, NEW field, field.ok = TRUE, field.index \in Nat,
         NEW separator, separator \notin Digits, NEW least \in Nat, NEW most \in Nat
  PROVE  FieldReads(ParseField(field, separator, least, most), field.index, separator,
                    least, most)
<1> DEFINE index == field.index
           count == DigitCount(index, most)
           parsed == ParseField(field, separator, least, most)
<1>1. parsed = IF count < least \/ index + count >= TextSizeMax
                  \/ CharAt(index + count) # separator
               THEN Unreadable
               ELSE [ok |-> TRUE, index |-> (index + count) + 1,
                     value |-> ValueOf([i \in 1 .. count |-> CharAt(index + i - 1)])]
  BY DEF ParseField
<1> HIDE DEF parsed
<1>2. PICK n : n = count
  OBVIOUS
<1>3. n \in 0 .. most /\ DigitRun(index, most, n)
      /\ \A c \in 0 .. most : DigitRun(index, most, c) => c = n
  BY <1>2, DigitsCounted
<1>4. ASSUME NEW c, Reads(index, separator, least, most, c) PROVE c = n
  <2>1. c \in 0 .. most /\ DigitRun(index, most, c)
    BY <1>4 DEF Reads, DigitRun, TextSizeMax
  <2>2. QED
    BY <1>3, <2>1
<1>5. CASE n < least \/ index + n >= TextSizeMax \/ CharAt(index + n) # separator
  <2>1. ~Reads(index, separator, least, most, n)
    BY <1>3, <1>5 DEF Reads, TextSizeMax
  <2>2. parsed = Unreadable
    BY <1>1, <1>2, <1>5
  <2>3. QED
    BY <1>4, <2>1, <2>2 DEF parsed, FieldReads
<1>6. CASE ~(n < least \/ index + n >= TextSizeMax \/ CharAt(index + n) # separator)
  <2>1. \A i \in index .. index + n - 1 : CharAt(i) \in Digits
    BY <1>3 DEF DigitRun
  <2>2. Reads(index, separator, least, most, n)
    BY <1>3, <1>6, <2>1 DEF Reads, TextSizeMax
  <2>3. Piece(index, n) = [i \in 1 .. n |-> CharAt(index + i - 1)]
    <3>1. n \in Nat /\ index \in Nat
      BY <1>3
    <3> HIDE DEF index
    <3>2. QED
      BY <2>1, <3>1, PieceOfText
  <2>4. parsed = [ok |-> TRUE, index |-> (index + n) + 1,
                  value |-> ValueOf([i \in 1 .. n |-> CharAt(index + i - 1)])]
    BY <1>1, <1>2, <1>6
  <2>5. parsed = Read(index, n)
    BY <2>3, <2>4, Zenon DEF Read
  <2>6. QED
    BY <1>3, <2>2, <2>5 DEF parsed, FieldReads
<1>7. QED
  BY <1>5, <1>6

(* Nothing is read behind what was unreadable. *)
LEMMA NothingRead ==
  ASSUME NEW separator, NEW least, NEW most
  PROVE  ParseField(Unreadable, separator, least, most) = Unreadable
BY DEF ParseField, Unreadable

-----------------------------------------------------------------------------
(* A text with two separators and digits before, between and behind them.  *)
Fits(piece, least, most) == piece \in Seq(Digits) /\ Len(piece) \in least .. most

IsCut(separator, least, most, a, b) ==
  /\ a \in DOMAIN text /\ b \in DOMAIN text
  /\ a < b /\ text[a] = separator /\ text[b] = separator
  /\ Fits(SubSeq(text, 1, a - 1), least[1], most[1])
  /\ Fits(SubSeq(text, a + 1, b - 1), least[2], most[2])
  /\ Fits(SubSeq(text, b + 1, Len(text)), least[3], most[3])

CutNumbers(a, b) ==
  <<ValueOf(SubSeq(text, 1, a - 1)), ValueOf(SubSeq(text, a + 1, b - 1)),
    ValueOf(SubSeq(text, b + 1, Len(text)))>>

LEMMA ReadingsAre ==
  ASSUME TextTyped, NEW separator, NEW least, NEW most, NEW r
  PROVE  r \in Readings(separator, least, most)
           <=> \E a, b : IsCut(separator, least, most, a, b) /\ r = CutNumbers(a, b)
<1> DEFINE Part(from, to) == SubSeq(text, from + 1, to - 1)
           Parts(cut) == <<Part(0, cut[1]), Part(cut[1], cut[2]), Part(cut[2], Len(text) + 1)>>
           cuts == {cut \in (DOMAIN text) \X (DOMAIN text) :
                      /\ cut[1] < cut[2] /\ text[cut[1]] = separator /\ text[cut[2]] = separator
                      /\ \A k \in 1 .. 3 : Parts(cut)[k] \in Seq(Digits)
                                         /\ Len(Parts(cut)[k]) \in least[k] .. most[k]}
<1>1. Readings(separator, least, most) = {[k \in 1 .. 3 |-> ValueOf(Parts(cut)[k])] : cut \in cuts}
  BY DEF Readings
<1>2. 0 + 1 = 1 /\ (Len(text) + 1) - 1 = Len(text)
  BY CharsOfText
<1>3. ASSUME NEW a, NEW b
      PROVE  Parts(<<a, b>>) = <<SubSeq(text, 1, a - 1), SubSeq(text, a + 1, b - 1),
                                 SubSeq(text, b + 1, Len(text))>>
  BY <1>2
<1>4. ASSUME NEW a, NEW b
      PROVE  [k \in 1 .. 3 |-> ValueOf(Parts(<<a, b>>)[k])] = CutNumbers(a, b)
  <2> HIDE DEF Parts
  <2>1. PICK parts : parts = Parts(<<a, b>>)
    OBVIOUS
  <2>2. /\ parts[1] = SubSeq(text, 1, a - 1) /\ parts[2] = SubSeq(text, a + 1, b - 1)
        /\ parts[3] = SubSeq(text, b + 1, Len(text))
    BY <1>3, <2>1
  <2>3. [k \in 1 .. 3 |-> ValueOf(parts[k])]
          = <<ValueOf(parts[1]), ValueOf(parts[2]), ValueOf(parts[3])>>
    OBVIOUS
  <2>4. QED
    BY <2>1, <2>2, <2>3, Zenon DEF CutNumbers
<1>5. ASSUME NEW a, NEW b
      PROVE  <<a, b>> \in cuts <=> IsCut(separator, least, most, a, b)
  <2> HIDE DEF Parts
  <2>1. \A k \in 1 .. 3 : k = 1 \/ k = 2 \/ k = 3
    OBVIOUS
  <2>2. /\ Parts(<<a, b>>)[1] = SubSeq(text, 1, a - 1)
        /\ Parts(<<a, b>>)[2] = SubSeq(text, a + 1, b - 1)
        /\ Parts(<<a, b>>)[3] = SubSeq(text, b + 1, Len(text))
    BY <1>3
  <2>3. (\A k \in 1 .. 3 : Parts(<<a, b>>)[k] \in Seq(Digits)
                           /\ Len(Parts(<<a, b>>)[k]) \in least[k] .. most[k])
         <=> /\ Fits(SubSeq(text, 1, a - 1), least[1], most[1])
             /\ Fits(SubSeq(text, a + 1, b - 1), least[2], most[2])
             /\ Fits(SubSeq(text, b + 1, Len(text)), least[3], most[3])
    <3> DEFINE Good(k) == Fits(Parts(<<a, b>>)[k], least[k], most[k])
    <3>1. (\A k \in 1 .. 3 : Good(k)) <=> Good(1) /\ Good(2) /\ Good(3)
      <4> HIDE DEF Good
      <4>1. QED
        BY <2>1
    <3>2. QED
      BY <2>2, <3>1 DEF Fits
  <2>4. QED
    BY <2>3 DEF IsCut
<1> HIDE DEF Parts
<1>6. \A cut \in cuts : cut = <<cut[1], cut[2]>>
  OBVIOUS
<1> HIDE DEF cuts
<1>7. ASSUME r \in Readings(separator, least, most)
      PROVE  \E a, b : IsCut(separator, least, most, a, b) /\ r = CutNumbers(a, b)
  <2>1. PICK cut \in cuts : r = [k \in 1 .. 3 |-> ValueOf(Parts(cut)[k])]
    BY <1>1, <1>7
  <2>2. PICK a, b : cut = <<a, b>>
    BY <1>6
  <2>3. QED
    BY <1>4, <1>5, <2>1, <2>2, Zenon
<1>8. ASSUME NEW a, NEW b, IsCut(separator, least, most, a, b), r = CutNumbers(a, b)
      PROVE  r \in Readings(separator, least, most)
  BY <1>1, <1>4, <1>5, <1>8
<1>9. QED
  BY <1>7, <1>8

-----------------------------------------------------------------------------
(* Three fields read one behind the other are such a text.                 *)
AllRead(separator, least, most, c1, c2, c3) ==
  /\ Reads(0, separator, least[1], most[1], c1)
  /\ Reads(c1 + 1, separator, least[2], most[2], c2)
  /\ Reads(c1 + c2 + 2, EndOfText, least[3], most[3], c3)

Values(c1, c2, c3) ==
  <<ValueOf(Piece(0, c1)), ValueOf(Piece(c1 + 1, c2)), ValueOf(Piece(c1 + c2 + 2, c3))>>

(* The lengths the command line asks for. *)
Lengths(least, most) ==
  /\ \A k \in 1 .. 3 : least[k] \in Nat \ {0} /\ most[k] \in Nat
  /\ most[1] + most[2] + most[3] + 2 < TextSizeMax

LEMMA CutIsRead ==
  ASSUME TextTyped, NEW separator \in {Colon, Slash}, NEW least, NEW most,
         Lengths(least, most), NEW a, NEW b, IsCut(separator, least, most, a, b)
  PROVE  /\ AllRead(separator, least, most, a - 1, b - a - 1, Len(text) - b)
         /\ Values(a - 1, b - a - 1, Len(text) - b) = CutNumbers(a, b)
<1>1. Len(text) \in Nat /\ a \in 1 .. Len(text) /\ b \in 1 .. Len(text) /\ a < b
      /\ text[a] = separator /\ text[b] = separator
  BY CharsOfText DEF IsCut
<1>2. Piece(0, a - 1) = SubSeq(text, 1, a - 1)
      /\ Piece(a, b - a - 1) = SubSeq(text, a + 1, b - 1)
      /\ Piece(b, Len(text) - b) = SubSeq(text, b + 1, Len(text))
  <2>1. 0 + 1 = 1 /\ 0 + (a - 1) = a - 1 /\ a + (b - a - 1) = b - 1
        /\ b + (Len(text) - b) = Len(text)
    BY <1>1
  <2>2. QED
    BY <2>1 DEF Piece
<1>3. ASSUME NEW from \in Nat, NEW to \in Nat, from <= to, to <= Len(text),
             SubSeq(text, from + 1, to) \in Seq(Digits)
      PROVE  /\ Len(SubSeq(text, from + 1, to)) = to - from
             /\ \A i \in from .. to - 1 : CharAt(i) \in Digits
  <2> DEFINE first == from + 1
             piece == SubSeq(text, first, to)
  <2>1. \A i \in first .. to : text[i] \in 0 .. 11
    BY <1>1, <1>3 DEF TextTyped
  <2>2. first \in Int /\ to \in Int /\ (IF first <= to THEN to - first + 1 ELSE 0) = to - from
        /\ \A i \in from .. to - 1 : /\ i - from + 1 \in 1 .. to - first + 1
                                     /\ first + (i - from + 1) - 1 = i + 1
    BY <1>3
  <2>3. Len(piece) = (IF first <= to THEN to - first + 1 ELSE 0)
        /\ \A i \in 1 .. to - first + 1 : piece[i] = text[first + i - 1]
    <3> HIDE DEF first
    <3>1. QED
      BY <2>1, <2>2, SubSeqProperties
  <2>4. Len(piece) = to - from
    BY <2>2, <2>3
  <2>5. ASSUME NEW i \in from .. to - 1 PROVE CharAt(i) \in Digits
    <3>1. CharAt(i) = text[i + 1]
      BY <1>1, <1>3 DEF CharAt
    <3>2. piece[i - from + 1] = text[i + 1]
      <4> HIDE DEF piece, first
      <4>1. QED
        BY <2>2, <2>3
    <3>3. piece[i - from + 1] \in Digits
      <4>1. i - from + 1 \in 1 .. Len(piece)
        <5> HIDE DEF piece
        <5>1. QED
          BY <2>4
      <4>2. piece \in Seq(Digits)
        BY <1>3
      <4> HIDE DEF piece
      <4>3. QED
        BY <4>1, <4>2
    <3>4. QED
      BY <3>1, <3>2, <3>3
  <2>6. QED
    BY <2>4, <2>5
<1>4. /\ Fits(SubSeq(text, 0 + 1, a - 1), least[1], most[1])
      /\ Fits(SubSeq(text, a + 1, b - 1), least[2], most[2])
      /\ Fits(SubSeq(text, b + 1, Len(text)), least[3], most[3])
  BY DEF IsCut
<1>5. /\ a - 1 \in least[1] .. most[1] /\ \A i \in 0 .. (a - 1) - 1 : CharAt(i) \in Digits
      /\ (b - 1) - a \in least[2] .. most[2] /\ \A i \in a .. (b - 1) - 1 : CharAt(i) \in Digits
      /\ Len(text) - b \in least[3] .. most[3]
      /\ \A i \in b .. Len(text) - 1 : CharAt(i) \in Digits
  <2>1. 0 \in Nat /\ a - 1 \in Nat /\ a \in Nat /\ b - 1 \in Nat /\ b \in Nat
        /\ 0 <= a - 1 /\ a <= b - 1 /\ b <= Len(text) /\ a - 1 <= Len(text)
        /\ b - 1 <= Len(text) /\ (a - 1) - 0 = a - 1
    BY <1>1
  <2>2. Len(SubSeq(text, 0 + 1, a - 1)) = (a - 1) - 0
        /\ \A i \in 0 .. (a - 1) - 1 : CharAt(i) \in Digits
    BY <1>3, <1>4, <2>1 DEF Fits
  <2>3. Len(SubSeq(text, a + 1, b - 1)) = (b - 1) - a
        /\ \A i \in a .. (b - 1) - 1 : CharAt(i) \in Digits
    <3>1. SubSeq(text, a + 1, b - 1) \in Seq(Digits)
      BY <1>4 DEF Fits
    <3>2. PICK to : to = b - 1
      OBVIOUS
    <3>3. to \in Nat /\ a <= to /\ to <= Len(text) /\ SubSeq(text, a + 1, to) \in Seq(Digits)
      BY <2>1, <3>1, <3>2
    <3>4. Len(SubSeq(text, a + 1, to)) = to - a /\ \A i \in a .. to - 1 : CharAt(i) \in Digits
      BY <1>3, <2>1, <3>3
    <3>5. QED
      BY <3>2, <3>4
  <2>4. Len(SubSeq(text, b + 1, Len(text))) = Len(text) - b
        /\ \A i \in b .. Len(text) - 1 : CharAt(i) \in Digits
    <3>1. SubSeq(text, b + 1, Len(text)) \in Seq(Digits)
      BY <1>4 DEF Fits
    <3>2. PICK to : to = Len(text)
      OBVIOUS
    <3>3. to \in Nat /\ b <= to /\ to <= Len(text) /\ SubSeq(text, b + 1, to) \in Seq(Digits)
      BY <1>1, <2>1, <3>1, <3>2
    <3>4. Len(SubSeq(text, b + 1, to)) = to - b /\ \A i \in b .. to - 1 : CharAt(i) \in Digits
      BY <1>3, <2>1, <3>3
    <3>5. QED
      BY <3>2, <3>4
  <2>5. QED
    BY <1>4, <2>1, <2>2, <2>3, <2>4 DEF Fits
<1>6. CharAt(a - 1) = separator /\ CharAt(b - 1) = separator /\ CharAt(Len(text)) = EndOfText
  BY <1>1 DEF CharAt
<1>7. Len(text) < 11
  <2>1. most[1] \in Nat /\ most[2] \in Nat /\ most[3] \in Nat /\ most[1] + most[2] + most[3] + 2 < 11
    BY DEF Lengths, TextSizeMax
  <2>2. a - 1 <= most[1] /\ (b - 1) - a <= most[2] /\ Len(text) - b <= most[3]
    BY <1>5
  <2>3. QED
    BY <1>1, <2>1, <2>2
<1>8. /\ (a - 1) + 1 = a /\ (a - 1) + (b - a - 1) + 2 = b /\ (b - 1) - a = b - a - 1
      /\ 0 + (a - 1) = a - 1 /\ a + (b - a - 1) = b - 1 /\ b + (Len(text) - b) = Len(text)
      /\ a + (b - a - 1) - 1 = (b - 1) - 1
  BY <1>1
<1>9. Reads(0, separator, least[1], most[1], a - 1)
  BY <1>1, <1>5, <1>6, <1>7, <1>8 DEF Reads, TextSizeMax
<1>10. Reads(a, separator, least[2], most[2], b - a - 1)
  BY <1>1, <1>5, <1>6, <1>7, <1>8 DEF Reads, TextSizeMax
<1>11. Reads(b, EndOfText, least[3], most[3], Len(text) - b)
  BY <1>1, <1>5, <1>6, <1>7, <1>8 DEF Reads, TextSizeMax
<1>12. AllRead(separator, least, most, a - 1, b - a - 1, Len(text) - b)
  BY <1>8, <1>9, <1>10, <1>11 DEF AllRead
<1>13. Values(a - 1, b - a - 1, Len(text) - b) = CutNumbers(a, b)
  BY <1>2, <1>8 DEF Values, CutNumbers
<1>14. QED
  BY <1>12, <1>13

LEMMA ReadIsCut ==
  ASSUME TextTyped, NEW separator \in {Colon, Slash}, NEW least, NEW most,
         Lengths(least, most), NEW c1, NEW c2, NEW c3,
         AllRead(separator, least, most, c1, c2, c3)
  PROVE  /\ IsCut(separator, least, most, c1 + 1, c1 + c2 + 2)
         /\ Values(c1, c2, c3) = CutNumbers(c1 + 1, c1 + c2 + 2)
         /\ \A k \in 1 .. 3 : Values(c1, c2, c3)[k] \in Nat
<1> DEFINE a == c1 + 1
           b == c1 + c2 + 2
<1>1. /\ c1 \in Nat \ {0} /\ c2 \in Nat \ {0} /\ c3 \in Nat \ {0}
      /\ c1 \in least[1] .. most[1] /\ c2 \in least[2] .. most[2] /\ c3 \in least[3] .. most[3]
  BY DEF AllRead, Reads, Lengths
<1>2. /\ \A i \in 0 .. 0 + c1 - 1 : CharAt(i) \in Digits
      /\ \A i \in c1 + 1 .. (c1 + 1) + c2 - 1 : CharAt(i) \in Digits
      /\ \A i \in b .. b + c3 - 1 : CharAt(i) \in Digits
      /\ CharAt(0 + c1) = separator /\ CharAt((c1 + 1) + c2) = separator
      /\ CharAt(b + c3) = EndOfText
  BY DEF AllRead, Reads
<1>3. Len(text) = b + c3
  <2>1. b + c3 - 1 \in Nat /\ b + c3 \in Nat /\ b + c3 - 1 \in b .. b + c3 - 1
    BY <1>1
  <2>2. b + c3 - 1 < Len(text)
    BY <1>2, <2>1, CharsOfText
  <2>3. ~(b + c3 < Len(text)) /\ Len(text) \in Nat
    BY <1>2, <2>1, CharsOfText
  <2>4. QED
    BY <1>1, <2>2, <2>3
<1>4. /\ 0 + 1 = 1 /\ 0 + c1 = a - 1 /\ (c1 + 1) + c2 = b - 1 /\ b + c3 = Len(text)
      /\ a \in 1 .. Len(text) /\ b \in 1 .. Len(text) /\ a < b
      /\ a - 1 \in Nat /\ b - 1 \in Nat /\ a - 1 < Len(text) /\ b - 1 < Len(text)
      /\ (a - 1) + 1 = a /\ (b - 1) + 1 = b /\ a \in Nat /\ b \in Nat
  BY <1>1, <1>3
<1>5. text[a] = separator /\ text[b] = separator
  BY <1>2, <1>4 DEF CharAt
<1>6. /\ Piece(0, c1) = SubSeq(text, 1, a - 1)
      /\ Piece(a, c2) = SubSeq(text, a + 1, b - 1)
      /\ Piece(b, c3) = SubSeq(text, b + 1, Len(text))
  <2> HIDE DEF b
  <2>1. QED
    BY <1>4 DEF Piece
<1>7. /\ Piece(0, c1) \in Seq(Digits) /\ Len(Piece(0, c1)) = c1 /\ ValueOf(Piece(0, c1)) \in Nat
      /\ Piece(a, c2) \in Seq(Digits) /\ Len(Piece(a, c2)) = c2 /\ ValueOf(Piece(a, c2)) \in Nat
      /\ Piece(b, c3) \in Seq(Digits) /\ Len(Piece(b, c3)) = c3 /\ ValueOf(Piece(b, c3)) \in Nat
  <2>1. c1 \in Nat /\ c2 \in Nat /\ c3 \in Nat /\ 0 \in Nat
    BY <1>1
  <2> HIDE DEF b
  <2>2. QED
    BY <1>2, <1>4, <2>1, PieceOfText
<1>8. IsCut(separator, least, most, a, b)
  <2>1. Fits(SubSeq(text, 1, a - 1), least[1], most[1])
    BY <1>1, <1>6, <1>7 DEF Fits
  <2>2. Fits(SubSeq(text, a + 1, b - 1), least[2], most[2])
    BY <1>1, <1>6, <1>7 DEF Fits
  <2>3. Fits(SubSeq(text, b + 1, Len(text)), least[3], most[3])
    BY <1>1, <1>6, <1>7 DEF Fits
  <2>4. a \in DOMAIN text /\ b \in DOMAIN text
    BY <1>4, CharsOfText
  <2> HIDE DEF a, b
  <2>5. QED
    BY <1>4, <1>5, <2>1, <2>2, <2>3, <2>4 DEF IsCut
<1>9. Values(c1, c2, c3) = CutNumbers(a, b)
  BY <1>6 DEF Values, CutNumbers
<1>10. \A k \in 1 .. 3 : Values(c1, c2, c3)[k] \in Nat
  <2>1. \A k \in 1 .. 3 : k = 1 \/ k = 2 \/ k = 3
    OBVIOUS
  <2>2. QED
    BY <1>7, <2>1 DEF Values
<1>11. QED
  BY <1>8, <1>9, <1>10

-----------------------------------------------------------------------------
(* Three fields read one after the other, and what the text says.          *)
LEMMA FieldsRead ==
  ASSUME TextTyped, NEW separator \in {Colon, Slash}, NEW least, NEW most,
         Lengths(least, most)
  PROVE  LET first  == ParseField(FirstField, separator, least[1], most[1])
             second == ParseField(first, separator, least[2], most[2])
             third  == ParseField(second, EndOfText, least[3], most[3])
             all    == <<first.value, second.value, third.value>>
         IN  \/ /\ third.ok = TRUE /\ \A k \in 1 .. 3 : all[k] \in Nat
                /\ \A r : r \in Readings(separator, least, most) <=> r = all
             \/ third.ok = FALSE /\ \A r : r \notin Readings(separator, least, most)
<1> DEFINE first  == ParseField(FirstField, separator, least[1], most[1])
           second == ParseField(first, separator, least[2], most[2])
           third  == ParseField(second, EndOfText, least[3], most[3])
<1>1. least[1] \in Nat /\ least[2] \in Nat /\ least[3] \in Nat
      /\ most[1] \in Nat /\ most[2] \in Nat /\ most[3] \in Nat
  BY DEF Lengths
<1>2. separator \notin Digits /\ EndOfText \notin Digits
      /\ FirstField.ok = TRUE /\ FirstField.index = 0 /\ 0 \in Nat
  BY DEF Colon, Slash, EndOfText, Digits, FirstField
<1>3. \/ \E c \in Nat : Reads(0, separator, least[1], most[1], c) /\ first = Read(0, c)
      \/ (\A c : ~Reads(0, separator, least[1], most[1], c)) /\ first = Unreadable
  <2>1. FieldReads(first, FirstField.index, separator, least[1], most[1])
    BY <1>1, <1>2, FieldRead, Zenon
  <2> HIDE DEF first
  <2>2. QED
    BY <1>2, <2>1 DEF FieldReads
<1> DEFINE Done == \E c1, c2, c3 \in Nat :
                     /\ AllRead(separator, least, most, c1, c2, c3)
                     /\ first = Read(0, c1) /\ second = Read(c1 + 1, c2)
                     /\ third = Read(c1 + c2 + 2, c3)
           None == /\ \A c1, c2, c3 : ~AllRead(separator, least, most, c1, c2, c3)
                   /\ third = Unreadable
<1>4. ASSUME first = Unreadable PROVE second = Unreadable
  BY <1>4, NothingRead
<1>5. ASSUME second = Unreadable PROVE third = Unreadable
  BY <1>5, NothingRead
<1>6. ASSUME NEW c \in Nat, first = Read(0, c)
      PROVE  \/ \E d \in Nat : Reads(c + 1, separator, least[2], most[2], d)
                               /\ second = Read(c + 1, d)
             \/ /\ \A d : ~Reads(c + 1, separator, least[2], most[2], d)
                /\ second = Unreadable
  <2>1. first.ok = TRUE /\ first.index = c + 1 /\ c + 1 \in Nat
    <3> HIDE DEF first
    <3>1. QED
      BY <1>6 DEF Read
  <2> HIDE DEF first
  <2>2. first.index \in Nat
    BY <2>1
  <2>3. FieldReads(second, first.index, separator, least[2], most[2])
    BY <1>1, <1>2, <2>1, <2>2, FieldRead, Zenon
  <2> HIDE DEF second
  <2>4. QED
    BY <2>1, <2>3 DEF FieldReads
<1>7. ASSUME NEW c \in Nat, NEW d \in Nat, second = Read(c + 1, d)
      PROVE  \/ \E e \in Nat : Reads(c + d + 2, EndOfText, least[3], most[3], e)
                               /\ third = Read(c + d + 2, e)
             \/ /\ \A e : ~Reads(c + d + 2, EndOfText, least[3], most[3], e)
                /\ third = Unreadable
  <2>1. second.ok = TRUE /\ second.index = c + d + 2 /\ c + d + 2 \in Nat
    <3>1. second.ok = TRUE /\ second.index = (c + 1) + d + 1
      <4> HIDE DEF second
      <4>1. QED
        BY <1>7 DEF Read
    <3>2. (c + 1) + d + 1 = c + d + 2 /\ c + d + 2 \in Nat
      OBVIOUS
    <3> HIDE DEF second
    <3>3. QED
      BY <3>1, <3>2
  <2> HIDE DEF second
  <2>2. second.index \in Nat
    BY <2>1
  <2>3. FieldReads(third, second.index, EndOfText, least[3], most[3])
    BY <1>1, <1>2, <2>1, <2>2, FieldRead, Zenon
  <2> HIDE DEF third
  <2>4. QED
    BY <2>1, <2>3 DEF FieldReads
<1> HIDE DEF first, second, third
<1>8. ASSUME NEW c1, NEW c2, NEW c3, NEW d1, NEW d2, NEW d3,
             AllRead(separator, least, most, c1, c2, c3), Reads(0, separator, least[1], most[1], d1)
      PROVE  /\ c1 = d1
             /\ Reads(d1 + 1, separator, least[2], most[2], d2) => c2 = d2
             /\ Reads(d1 + 1, separator, least[2], most[2], d2)
                /\ Reads(d1 + d2 + 2, EndOfText, least[3], most[3], d3) => c3 = d3
  <2>1. c1 \in Nat /\ c2 \in Nat /\ Reads(0, separator, least[1], most[1], c1)
        /\ Reads(c1 + 1, separator, least[2], most[2], c2)
        /\ Reads(c1 + c2 + 2, EndOfText, least[3], most[3], c3)
    BY <1>1, <1>8 DEF AllRead, Reads
  <2>2. c1 = d1
    BY <1>1, <1>2, <1>8, <2>1, ReadsOnce
  <2>3. c1 + 1 \in Nat /\ c1 + c2 + 2 \in Nat
    BY <2>1
  <2>4. Reads(d1 + 1, separator, least[2], most[2], d2) => c2 = d2
    BY <1>1, <1>2, <2>1, <2>2, <2>3, ReadsOnce
  <2>5. Reads(d1 + 1, separator, least[2], most[2], d2)
        /\ Reads(d1 + d2 + 2, EndOfText, least[3], most[3], d3) => c3 = d3
    BY <1>1, <1>2, <2>1, <2>2, <2>3, <2>4, ReadsOnce
  <2>6. QED
    BY <2>2, <2>4, <2>5
<1>9. Done \/ None
  <2>1. CASE (\A c : ~Reads(0, separator, least[1], most[1], c)) /\ first = Unreadable
    BY <1>4, <1>5, <2>1 DEF AllRead
  <2>2. ASSUME NEW c1 \in Nat, Reads(0, separator, least[1], most[1], c1), first = Read(0, c1)
        PROVE  Done \/ None
    <3>1. CASE /\ \A d : ~Reads(c1 + 1, separator, least[2], most[2], d)
               /\ second = Unreadable
      <4>1. ASSUME NEW d1, NEW d2, NEW d3, AllRead(separator, least, most, d1, d2, d3)
            PROVE  FALSE
        <5>1. d1 = c1
          BY <1>8, <2>2, <4>1
        <5>2. QED
          BY <3>1, <4>1, <5>1 DEF AllRead
      <4>2. QED
        BY <1>5, <3>1, <4>1
    <3>2. ASSUME NEW c2 \in Nat, Reads(c1 + 1, separator, least[2], most[2], c2),
                 second = Read(c1 + 1, c2)
          PROVE  Done \/ None
      <4>1. ASSUME NEW c3 \in Nat, Reads(c1 + c2 + 2, EndOfText, least[3], most[3], c3),
                   third = Read(c1 + c2 + 2, c3)
            PROVE  Done
        BY <2>2, <3>2, <4>1 DEF AllRead
      <4>2. ASSUME \A e : ~Reads(c1 + c2 + 2, EndOfText, least[3], most[3], e),
                   third = Unreadable
            PROVE  None
        <5>1. ASSUME NEW d1, NEW d2, NEW d3, AllRead(separator, least, most, d1, d2, d3)
              PROVE  FALSE
          <6>1. d1 = c1 /\ d2 = c2
            BY <1>8, <2>2, <3>2, <5>1
          <6>2. QED
            BY <4>2, <5>1, <6>1 DEF AllRead
        <5>2. QED
          BY <4>2, <5>1
      <4> HIDE DEF Done, None
      <4>3. QED
        BY <1>7, <3>2, <4>1, <4>2
    <3> HIDE DEF Done, None
    <3>3. QED
      BY <1>6, <2>2, <3>1, <3>2
  <2> HIDE DEF Done, None
  <2>3. QED
    BY <1>3, <2>1, <2>2
<1> DEFINE all == <<first.value, second.value, third.value>>
<1>10. ASSUME Done
       PROVE  /\ third.ok = TRUE /\ \A k \in 1 .. 3 : all[k] \in Nat
              /\ \A r : r \in Readings(separator, least, most) <=> r = all
  <2>1. PICK c1, c2, c3 \in Nat :
          /\ AllRead(separator, least, most, c1, c2, c3)
          /\ first = Read(0, c1) /\ second = Read(c1 + 1, c2) /\ third = Read(c1 + c2 + 2, c3)
    BY <1>10
  <2>2. all = Values(c1, c2, c3) /\ third.ok = TRUE
    BY <2>1 DEF Read, Values
  <2> HIDE DEF all
  <2>3. IsCut(separator, least, most, c1 + 1, c1 + c2 + 2)
        /\ Values(c1, c2, c3) = CutNumbers(c1 + 1, c1 + c2 + 2)
        /\ \A k \in 1 .. 3 : Values(c1, c2, c3)[k] \in Nat
    BY <2>1, ReadIsCut
  <2>4. ASSUME NEW a, NEW b, IsCut(separator, least, most, a, b) PROVE CutNumbers(a, b) = all
    <3>1. PICK d1, d2, d3 : /\ d1 = a - 1 /\ d2 = b - a - 1 /\ d3 = Len(text) - b
      OBVIOUS
    <3>2. AllRead(separator, least, most, d1, d2, d3) /\ Values(d1, d2, d3) = CutNumbers(a, b)
      BY <2>4, <3>1, CutIsRead
    <3>3. d1 = c1 /\ d2 = c2 /\ d3 = c3
      <4>1. /\ Reads(0, separator, least[1], most[1], c1)
            /\ Reads(c1 + 1, separator, least[2], most[2], c2)
            /\ Reads(c1 + c2 + 2, EndOfText, least[3], most[3], c3)
        BY <2>1 DEF AllRead
      <4>2. QED
        BY <1>8, <3>2, <4>1
    <3>4. QED
      BY <2>2, <3>2, <3>3
  <2>5. \A r : r \in Readings(separator, least, most) <=> r = all
    BY <2>2, <2>3, <2>4, ReadingsAre
  <2>6. QED
    BY <2>2, <2>3, <2>5
<1>11. ASSUME None PROVE third.ok = FALSE /\ \A r : r \notin Readings(separator, least, most)
  <2>1. third.ok = FALSE
    BY <1>11 DEF Unreadable
  <2>2. ASSUME NEW a, NEW b, IsCut(separator, least, most, a, b) PROVE FALSE
    BY <1>11, <2>2, CutIsRead
  <2>3. QED
    BY <2>1, <2>2, ReadingsAre
<1> HIDE DEF Done, None
<1>12. QED
  BY <1>9, <1>10, <1>11 DEF first, second, third

-----------------------------------------------------------------------------
(* A time, a date and a level are taken for what they show.                *)
LEMMA TimeUnderstood ==
  ASSUME TextTyped, form = "time" PROVE TextIsUnderstood
<1> DEFINE hours   == ParseField(FirstField, Colon, 2, 2)
           minutes == ParseField(hours, Colon, 2, 2)
           seconds == ParseField(minutes, EndOfText, 2, 2)
           all     == <<hours.value, minutes.value, seconds.value>>
           said    == Readings(Colon, <<2, 2, 2>>, <<2, 2, 2>>)
<1>1. \/ /\ seconds.ok = TRUE /\ \A k \in 1 .. 3 : all[k] \in Nat
         /\ \A r : r \in said <=> r = all
      \/ seconds.ok = FALSE /\ \A r : r \notin said
  <2>1. PICK two : two = <<2, 2, 2>>
    OBVIOUS
  <2>2. two[1] = 2 /\ two[2] = 2 /\ two[3] = 2
    BY <2>1
  <2>3. Lengths(two, two) /\ Colon \in {Colon, Slash}
    BY <2>1 DEF Lengths, TextSizeMax
  <2>4. LET first  == ParseField(FirstField, Colon, two[1], two[1])
            second == ParseField(first, Colon, two[2], two[2])
            third  == ParseField(second, EndOfText, two[3], two[3])
            every  == <<first.value, second.value, third.value>>
        IN  \/ /\ third.ok = TRUE /\ \A k \in 1 .. 3 : every[k] \in Nat
               /\ \A r : r \in Readings(Colon, two, two) <=> r = every
            \/ third.ok = FALSE /\ \A r : r \notin Readings(Colon, two, two)
    BY <2>3, FieldsRead
  <2>5. QED
    BY <2>1, <2>2, <2>4
<1>2. ParseTime = (IF seconds.ok /\ hours.value <= 23 /\ minutes.value <= 59
                      /\ seconds.value <= 59 THEN all ELSE <<>>)
  BY DEF ParseTime, Refused
<1>3. Parsed = ParseTime /\ Meant = {t \in said : t[1] < 24 /\ t[2] < 60 /\ t[3] < 60}
  BY DEF Parsed, Meant
<1>4. all[1] = hours.value /\ all[2] = minutes.value /\ all[3] = seconds.value /\ all # <<>>
  <2> HIDE DEF hours, minutes, seconds
  <2>1. QED
    OBVIOUS
<1> HIDE DEF all
<1>5. CASE seconds.ok = TRUE
  <2>1. all[1] \in Nat /\ all[2] \in Nat /\ all[3] \in Nat /\ \A r : r \in said <=> r = all
    BY <1>1, <1>5
  <2> HIDE DEF hours, minutes, seconds, said
  <2>2. CASE all[1] < 24 /\ all[2] < 60 /\ all[3] < 60
    <3>1. Meant = {all}
      BY <1>3, <2>1, <2>2
    <3>2. Parsed = all
      BY <1>2, <1>3, <1>4, <1>5, <2>1, <2>2
    <3>3. QED
      BY <1>4, <3>1, <3>2 DEF TextIsUnderstood, Refused
  <2>3. CASE ~(all[1] < 24 /\ all[2] < 60 /\ all[3] < 60)
    <3>1. Meant = {}
      BY <1>3, <2>1, <2>3
    <3>2. Parsed = <<>>
      BY <1>2, <1>3, <1>4, <1>5, <2>1, <2>3
    <3>3. QED
      BY <3>1, <3>2 DEF TextIsUnderstood, Refused
  <2>4. QED
    BY <2>2, <2>3
<1>6. CASE seconds.ok = FALSE
  <2>1. \A r : r \notin said
    BY <1>1, <1>6
  <2> HIDE DEF hours, minutes, seconds, said
  <2>2. Meant = {} /\ Parsed = <<>>
    BY <1>2, <1>3, <1>6, <2>1
  <2>3. QED
    BY <2>2 DEF TextIsUnderstood, Refused
<1>7. QED
  BY <1>1, <1>5, <1>6

LEMMA DateUnderstood ==
  ASSUME TextTyped, form = "date" PROVE TextIsUnderstood
<1> DEFINE day   == ParseField(FirstField, Slash, 1, 2)
           month == ParseField(day, Slash, 1, 2)
           year  == ParseField(month, EndOfText, 4, 4)
           all   == <<day.value, month.value, year.value>>
           said  == Readings(Slash, <<1, 1, 4>>, <<2, 2, 4>>)
           stored == <<day.value, month.value, year.value - 2000>>
<1>1. \/ /\ year.ok = TRUE /\ \A k \in 1 .. 3 : all[k] \in Nat
         /\ \A r : r \in said <=> r = all
      \/ year.ok = FALSE /\ \A r : r \notin said
  <2>1. PICK few, many : few = <<1, 1, 4>> /\ many = <<2, 2, 4>>
    OBVIOUS
  <2>2. few[1] = 1 /\ few[2] = 1 /\ few[3] = 4 /\ many[1] = 2 /\ many[2] = 2 /\ many[3] = 4
    BY <2>1
  <2>3. Lengths(few, many) /\ Slash \in {Colon, Slash}
    BY <2>1 DEF Lengths, TextSizeMax
  <2>4. LET first  == ParseField(FirstField, Slash, few[1], many[1])
            second == ParseField(first, Slash, few[2], many[2])
            third  == ParseField(second, EndOfText, few[3], many[3])
            every  == <<first.value, second.value, third.value>>
        IN  \/ /\ third.ok = TRUE /\ \A k \in 1 .. 3 : every[k] \in Nat
               /\ \A r : r \in Readings(Slash, few, many) <=> r = every
            \/ third.ok = FALSE /\ \A r : r \notin Readings(Slash, few, many)
    BY <2>3, FieldsRead
  <2>5. QED
    BY <2>1, <2>2, <2>4
<1>2. ParseDate = (IF year.ok /\ year.value \in 2000 .. 2099 /\ month.value \in 1 .. 12
                   THEN stored ELSE <<>>)
  BY DEF ParseDate, Refused
<1>3. Parsed = ParseDate
      /\ Meant = {<<d[1], d[2], d[3] - 2000>> :
                    d \in {r \in said : r[2] \in 1 .. 12 /\ r[3] \div 100 = 20}}
  BY DEF Parsed, Meant
<1>4. all[1] = day.value /\ all[2] = month.value /\ all[3] = year.value /\ stored # <<>>
      /\ stored = <<all[1], all[2], all[3] - 2000>>
  <2> HIDE DEF day, month, year
  <2>1. QED
    OBVIOUS
<1> HIDE DEF all, stored
<1>5. CASE year.ok = TRUE
  <2>1. all[1] \in Nat /\ all[2] \in Nat /\ all[3] \in Nat /\ \A r : r \in said <=> r = all
    BY <1>1, <1>5
  <2> HIDE DEF day, month, year, said
  <2>2. all[3] \div 100 = 20 <=> all[3] \in 2000 .. 2099
    BY <2>1
  <2>3. CASE all[2] \in 1 .. 12 /\ all[3] \in 2000 .. 2099
    <3>1. {r \in said : r[2] \in 1 .. 12 /\ r[3] \div 100 = 20} = {all}
      BY <2>1, <2>2, <2>3
    <3>2. Meant = {stored}
      BY <1>3, <1>4, <3>1
    <3>3. Parsed = stored
      BY <1>2, <1>3, <1>4, <1>5, <2>3
    <3>4. QED
      BY <1>4, <3>2, <3>3 DEF TextIsUnderstood, Refused
  <2>4. CASE ~(all[2] \in 1 .. 12 /\ all[3] \in 2000 .. 2099)
    <3>1. {r \in said : r[2] \in 1 .. 12 /\ r[3] \div 100 = 20} = {}
      BY <2>1, <2>2, <2>4
    <3>2. Meant = {}
      BY <1>3, <3>1
    <3>3. Parsed = <<>>
      BY <1>2, <1>3, <1>4, <1>5, <2>4
    <3>4. QED
      BY <3>2, <3>3 DEF TextIsUnderstood, Refused
  <2>5. QED
    BY <2>3, <2>4
<1>6. CASE year.ok = FALSE
  <2>1. \A r : r \notin said
    BY <1>1, <1>6
  <2> HIDE DEF day, month, year, said
  <2>2. Meant = {} /\ Parsed = <<>>
    BY <1>2, <1>3, <1>6, <2>1
  <2>3. QED
    BY <2>2 DEF TextIsUnderstood, Refused
<1>7. QED
  BY <1>1, <1>5, <1>6

LEMMA LevelUnderstood ==
  ASSUME TextTyped, form = "level" PROVE TextIsUnderstood
<1>1. Parsed = ParseLevel
      /\ Meant = {<<n>> : n \in {level \in 1 .. LevelCount - 1 :
                                 /\ text \in Seq(Digits) /\ Len(text) \in 1 .. 3
                                 /\ level = ValueOf(text)}}
  BY DEF Parsed, Meant
<1>2. ParseLevel = (IF LevelIn(text) THEN <<ValueOf(text)>> ELSE <<>>)
  BY LevelRead DEF Refused
<1>3. CASE LevelIn(text)
  <2>1. Meant = {<<ValueOf(text)>>}
    BY <1>1, <1>3 DEF LevelIn
  <2>2. Parsed = <<ValueOf(text)>>
    BY <1>1, <1>2, <1>3
  <2>3. QED
    BY <2>1, <2>2 DEF TextIsUnderstood, Refused
<1>4. CASE ~LevelIn(text)
  <2>1. Meant = {}
    BY <1>1, <1>4 DEF LevelIn
  <2>2. Parsed = <<>>
    BY <1>1, <1>2, <1>4
  <2>3. QED
    BY <2>1, <2>2 DEF TextIsUnderstood, Refused
<1>5. QED
  BY <1>3, <1>4

LEMMA Understood ==
  ASSUME TextTypeOK PROVE TextIsUnderstood
BY TimeUnderstood, DateUnderstood, LevelUnderstood DEF TextTypeOK, TextTyped

-----------------------------------------------------------------------------
(* Characters come and go, and the text stays one.                         *)
Texts == Seq(0 .. 11)

LEMMA TextsJoin ==
  ASSUME NEW s \in Texts, NEW t \in Texts PROVE s \o t \in Texts
BY ConcatProperties DEF Texts

LEMMA TwoDigitText ==
  ASSUME NEW n \in Nat PROVE TwoDigits(n) \in Texts
<1>1. (n \div 10) % 10 \in 0 .. 11 /\ n % 10 \in 0 .. 11
  OBVIOUS
<1>2. QED
  BY <1>1 DEF TwoDigits, Texts

LEMMA TimesAreTexts ==
  ASSUME NEW h \in Nat, NEW m \in Nat, NEW n \in Nat PROVE TimeText(h, m, n) \in Texts
<1>1. TwoDigits(h) \in Texts /\ TwoDigits(m) \in Texts /\ TwoDigits(n) \in Texts
      /\ <<Colon>> \in Texts
  BY TwoDigitText DEF Colon, Texts
<1>2. QED
  BY <1>1, TextsJoin, Zenon DEF TimeText

LEMMA DatesAreTexts ==
  ASSUME NEW d \in Nat, NEW m \in Nat, NEW y \in Nat PROVE DateText(d, m, y) \in Texts
<1>1. y \div 100 \in Nat /\ y % 100 \in Nat
  OBVIOUS
<1>2. TwoDigits(d) \in Texts /\ TwoDigits(m) \in Texts /\ TwoDigits(y \div 100) \in Texts
      /\ TwoDigits(y % 100) \in Texts
  BY <1>1, TwoDigitText
<1>3. <<Slash>> \in Texts
  BY DEF Slash, Texts
<1>4. QED
  BY <1>2, <1>3, TextsJoin, Zenon DEF DateText

LEMMA LevelsAreTexts ==
  ASSUME LevelAssumption, NEW s \in {<< 1 >>, TwoDigits(LevelCount), <<0, 0, 1>>, <<2, 5, 6>>}
  PROVE  s \in Texts
<1>1. TwoDigits(LevelCount) \in Texts
  BY TwoDigitText DEF LevelAssumption
<1>2. << 1 >> \in Texts /\ <<0, 0, 1>> \in Texts /\ <<2, 5, 6>> \in Texts
  BY DEF Texts
<1>3. QED
  BY <1>1, <1>2, Zenon

LEMMA TextInitially ==
  ASSUME LevelAssumption, TextAssumption, TextInit PROVE TextTypeOK
<1>1. ASSUME NEW t \in TypedTimes PROVE TimeText(t[1], t[2], t[3]) \in Texts
  <2>1. t \in (0 .. 99) \X (0 .. 99) \X (0 .. 99)
    BY DEF TextAssumption
  <2>2. t[1] \in 0 .. 99 /\ t[2] \in 0 .. 99 /\ t[3] \in 0 .. 99
    BY <2>1
  <2>3. PICK h, m, n : h = t[1] /\ m = t[2] /\ n = t[3]
    OBVIOUS
  <2>4. h \in Nat /\ m \in Nat /\ n \in Nat
    BY <2>2, <2>3
  <2>5. TimeText(h, m, n) \in Texts
    BY <2>4, TimesAreTexts
  <2>6. QED
    BY <2>3, <2>5
<1>2. ASSUME NEW d \in TypedDates PROVE DateText(d[1], d[2], d[3]) \in Texts
  <2>1. d \in (0 .. 99) \X (0 .. 99) \X (0 .. 9999)
    BY DEF TextAssumption
  <2>2. PICK a, m, y : a \in 0 .. 99 /\ m \in 0 .. 99 /\ y \in 0 .. 9999 /\ d = <<a, m, y>>
    BY <2>1
  <2>3. a \in Nat /\ m \in Nat /\ y \in Nat
    BY <2>2
  <2>4. DateText(a, m, y) \in Texts
    BY <2>3, DatesAreTexts
  <2>5. d[1] = a /\ d[2] = m /\ d[3] = y
    BY <2>2
  <2>6. QED
    BY <2>4, <2>5
<1>3. text \in Texts
  <2>1. CASE form = "time"
    <3>1. text \in {TimeText(t[1], t[2], t[3]) : t \in TypedTimes}
      BY <2>1 DEF TextInit
    <3>2. QED
      BY <1>1, <3>1
  <2>2. CASE form = "date"
    <3>1. text \in {DateText(d[1], d[2], d[3]) : d \in TypedDates}
      BY <2>2 DEF TextInit
    <3>2. QED
      BY <1>2, <3>1
  <2>3. CASE form = "level"
    <3>1. text \in {<< 1 >>, TwoDigits(LevelCount), <<0, 0, 1>>, <<2, 5, 6>>}
      BY <2>3 DEF TextInit
    <3>2. QED
      BY <3>1, LevelsAreTexts
  <2>4. QED
    BY <2>1, <2>2, <2>3 DEF TextInit
<1>4. QED
  BY <1>3 DEF Texts, TextInit, TextTypeOK, TextAssumption

LEMMA PieceIsText ==
  ASSUME NEW s \in Texts, NEW m \in Nat \ {0}, NEW n \in Nat, n <= Len(s)
  PROVE  SubSeq(s, m, n) \in Texts
<1>1. m \in Int /\ n \in Int /\ \A i \in m .. n : s[i] \in 0 .. 11
  BY DEF Texts
<1>2. QED
  BY <1>1, SubSeqProperties DEF Texts

LEMMA MistypedText ==
  ASSUME NEW s \in Texts, NEW i \in 1 .. Len(s) + 1, NEW c \in Characters
  PROVE  /\ InsertAt(s, i, c) \in Texts
         /\ i <= Len(s) => RemoveAt(s, i) \in Texts /\ ReplaceAt(s, i, c) \in Texts
<1>1. Len(s) \in Nat /\ c \in 0 .. 11 /\ <<c>> \in Texts
  BY DEF Texts, Characters
<1>2. SubSeq(s, 1, i - 1) \in Texts /\ SubSeq(s, i, Len(s)) \in Texts
      /\ SubSeq(s, i + 1, Len(s)) \in Texts
  <2>1. i - 1 \in Nat /\ i - 1 <= Len(s) /\ i \in Nat \ {0} /\ i + 1 \in Nat \ {0}
        /\ Len(s) \in Nat /\ Len(s) <= Len(s) /\ 1 \in Nat \ {0}
    BY <1>1
  <2>2. QED
    BY <2>1, PieceIsText
<1>3. InsertAt(s, i, c) \in Texts
  BY <1>1, <1>2, TextsJoin, Zenon DEF InsertAt
<1>4. RemoveAt(s, i) \in Texts
  BY <1>2, TextsJoin, Zenon DEF RemoveAt
<1>5. ASSUME i <= Len(s) PROVE ReplaceAt(s, i, c) \in Texts
  <2>1. i \in 1 .. Len(s) /\ s \in Seq(0 .. 11)
    BY <1>1, <1>5 DEF Texts
  <2>2. QED
    BY <1>1, <2>1, ExceptSeq DEF ReplaceAt, Texts
<1>6. QED
  BY <1>3, <1>4, <1>5

LEMMA TextStep ==
  ASSUME TextAssumption, TextTypeOK, [TextNext]_textVars PROVE TextTypeOK'
<1>1. CASE UNCHANGED textVars
  BY <1>1 DEF textVars, TextTypeOK
<1>2. CASE Mistype
  <2>1. form' = form /\ typos' \in 0 .. MaxTypos
    BY <1>2 DEF Mistype, TextTypeOK, TextAssumption
  <2>2. text \in Texts /\ Len(text) \in Nat /\ 0 \in Characters
    BY DEF Texts, TextTypeOK, Characters
  <2>3. text' \in Texts
    <3>1. PICK s : s = text
      OBVIOUS
    <3>2. s \in Texts /\ Len(s) \in Nat
      BY <2>2, <3>1
    <3>3. \/ \E i \in 1 .. Len(s) : text' = RemoveAt(s, i)
          \/ \E c \in Characters :
               \/ \E i \in 1 .. Len(s) + 1 : text' = InsertAt(s, i, c)
               \/ \E i \in 1 .. Len(s) : text' = ReplaceAt(s, i, c)
      BY <1>2, <3>1 DEF Mistype
    <3>4. \A i \in 1 .. Len(s) : i \in 1 .. Len(s) + 1 /\ i <= Len(s)
      BY <3>2
    <3>5. QED
      BY <2>2, <3>2, <3>3, <3>4, MistypedText
  <2>4. QED
    BY <2>1, <2>3 DEF TextTypeOK, Texts
<1>3. QED
  BY <1>1, <1>2 DEF TextNext

-----------------------------------------------------------------------------
(* Reads hand out the lines that were submitted, each byte once and in     *)
(* order, and what was printed is on the screen or still collected, over   *)
(* any keys, lengths of lines and buffers, commands and printing threads   *)
(* (pc_consolePollInput, pc_consoleReadByte, hal_usartWriteByte).          *)
THEOREM ConsoleIsFaithful == ConsoleSpec => [](InputIsTyped /\ OutputIsPrinted)
<1>1. ConsoleInit => ConsoleInvariant
  BY LevelAssumption, ConsoleAssumption, ConsoleInitially
<1>2. ConsoleInvariant /\ [ConsoleNext]_consoleVars => ConsoleInvariant'
  BY ConsoleAssumption, ConsoleStep
<1>3. ConsoleInvariant => InputIsTyped /\ OutputIsPrinted
  BY DEF ConsoleInvariant
<1>4. QED
  BY <1>1, <1>2, <1>3, PTL DEF ConsoleSpec

(* A text is taken for a time, a date or a run level exactly if it is one  *)
(* from its first to its last character, and for the numbers it shows,     *)
(* whatever was typed (dateParseTime, dateParseDate, threadRunLevelParse). *)
THEOREM TextIsTakenRight == TextSpec => []TextIsUnderstood
<1>1. TextInit => TextTypeOK
  BY LevelAssumption, TextAssumption, TextInitially
<1>2. TextTypeOK /\ [TextNext]_textVars => TextTypeOK'
  BY TextAssumption, TextStep
<1>3. TextTypeOK => TextIsUnderstood
  BY Understood
<1>4. QED
  BY <1>1, <1>2, <1>3, PTL DEF TextSpec

(* The types of each part, with the invariants they rest on.               *)
LEMMA SignalTypesHold == SignalSpec => []SignalTypeOK
<1> DEFINE Inv == SignalInvariant /\ PinsInvariant /\ SignalBounds
<1>1. SignalInit => Inv
  BY LevelAssumption, SignalAssumption, SignalInitially, PinsInitially, SignalTypesInitially
<1>2. Inv /\ [SignalNext]_signalVars => Inv'
  BY SignalAssumption, SignalStep, PinsStep, SignalsStayTyped
<1>3. Inv => SignalTypeOK
  BY SignalsTyped
<1>4. QED
  BY <1>1, <1>2, <1>3, PTL DEF SignalSpec

LEMMA ClockTypesHold == ClockSpec => []ClockTypeOK
<1> DEFINE Inv == ClockInvariant /\ ClockBounds
<1>1. ClockInit => Inv
  BY LevelAssumption, ClockAssumption, ClockInitially, ClockTypesInitially
<1>2. Inv /\ [ClockNext]_clockVars => Inv'
  BY LevelAssumption, ClockAssumption, ClockStep, ClockStaysTyped
<1>3. Inv => ClockTypeOK
  BY ClockAssumption, ClockTyped
<1>4. QED
  BY <1>1, <1>2, <1>3, PTL DEF ClockSpec

LEMMA ControlTypesHold == ControlSpec => []ControlTypeOK
<1>1. ControlInit => ControlInvariant
  BY LevelAssumption, ControlInitially
<1>2. ControlInvariant /\ [ControlNext]_controlVars => ControlInvariant'
  BY LevelAssumption, ControlStep
<1>3. ControlInvariant => ControlTypeOK
  BY DEF ControlInvariant
<1>4. QED
  BY <1>1, <1>2, <1>3, PTL DEF ControlSpec

LEMMA ConsoleTypesHold == ConsoleSpec => []ConsoleTypeOK
<1>1. ConsoleInit => ConsoleInvariant
  BY LevelAssumption, ConsoleAssumption, ConsoleInitially
<1>2. ConsoleInvariant /\ [ConsoleNext]_consoleVars => ConsoleInvariant'
  BY ConsoleAssumption, ConsoleStep
<1>3. ConsoleInvariant => ConsoleTypeOK
  BY ConsoleAssumption, ConsoleTyped DEF ConsoleInvariant
<1>4. QED
  BY <1>1, <1>2, <1>3, PTL DEF ConsoleSpec

LEMMA TextTypesHold == TextSpec => []TextTypeOK
<1>1. TextInit => TextTypeOK
  BY LevelAssumption, TextAssumption, TextInitially
<1>2. TextTypeOK /\ [TextNext]_textVars => TextTypeOK'
  BY TextAssumption, TextStep
<1>3. QED
  BY <1>1, <1>2, PTL DEF TextSpec
=============================================================================
