---------------------------- MODULE DriverTable ----------------------------
(***************************************************************************)
(* The state machine the static drivers share, as operators on the table   *)
(* of their status bits.  No code sets DRV_BIT_ERROR, so the bit is not    *)
(* represented.  Drivers with an I2C address depend on the bus driver;     *)
(* a chatty driver (the LCD) also talks to its device in init and start.   *)
(***************************************************************************)
EXTENDS Integers

CONSTANTS
  DriverCount,    \* MOD_DRIVER_COUNT
  DriverLevel,    \* the run level each driver is generated with
  DriverAddress,  \* its I2C address, or
  NoAddress,      \* DRV_ADDRESS_NONE
  BusDriver,      \* the i2c driver
  Chatty          \* the drivers whose init and start send I2C commands

Drivers == 0 .. DriverCount - 1

OnBus == {d \in Drivers : DriverAddress[d] # NoAddress}

ASSUME DriverAssumption ==
  /\ DriverCount \in Nat \ {0}
  /\ DriverLevel \in [Drivers -> Nat]
  /\ DOMAIN DriverAddress = Drivers
  /\ BusDriver \in Drivers \ OnBus
  /\ Chatty \subseteq OnBus

DriverBits == [init : BOOLEAN, start : BOOLEAN, dead : BOOLEAN]

Off == [init |-> FALSE, start |-> FALSE, dead |-> FALSE]
Up  == [init |-> TRUE, start |-> TRUE, dead |-> FALSE]

(* The state a driver derives from its own bits. *)
LifeState(bits) ==
  IF bits.dead THEN "dead"
  ELSE IF bits.init
       THEN IF bits.start THEN "running" ELSE "initialized"
       ELSE IF bits.start THEN "error" ELSE "off"

BusUp(table) == LifeState(table[BusDriver]) = "running"

(* DRV_CTRL_GETSTATUS: without a running bus its clients report an error. *)
State(table, d) ==
  IF d \in OnBus /\ ~table[d].dead /\ ~BusUp(table)
  THEN "error"
  ELSE LifeState(table[d])

Running(table, d) == State(table, d) = "running"

(* DRV_CTRL_INIT; answers says whether a chatty driver's device obeys. *)
InitControl(table, d, answers) ==
  IF /\ ~table[d].dead
     /\ d \in OnBus => BusUp(table)
     /\ d \in Chatty => answers
  THEN [table EXCEPT ![d].init = TRUE]
  ELSE table

(* DRV_CTRL_START: refused without initialization. *)
StartControl(table, d, answers) ==
  IF /\ ~table[d].dead
     /\ table[d].init
     /\ d \in Chatty => BusUp(table) /\ answers
  THEN [table EXCEPT ![d].start = TRUE]
  ELSE table

(* DRV_CTRL_STOP. *)
StopControl(table, d) == [table EXCEPT ![d].start = FALSE]
=============================================================================
