---------------------------- MODULE I2cDiscovery ----------------------------
(***************************************************************************)
(* I2C discovery: sc_i2cScan collects the addresses hal_i2cScan finds, one *)
(* probe at a time, then marks declared drivers dead or brings them back.  *)
(* Devices come and go while the scan runs, and a START may fail.          *)
(***************************************************************************)
EXTENDS DriverTable, FiniteSets

CONSTANTS
  AddressMax,    \* DRV_I2C_ADDRESS_MAX
  BufferSize     \* I2C_SCAN_ADDRESS_COUNT_MAX

Addresses == 0 .. AddressMax

ASSUME DiscoveryAssumption ==
  /\ AddressMax \in Nat
  /\ BufferSize \in Nat
  /\ NoAddress \notin Addresses
  /\ \A d \in Drivers : DriverAddress[d] \in Addresses \cup {NoAddress}

VARIABLES
  drv,           \* status bits of every driver
  present,       \* addresses whose device answers now
  scanAddress,   \* i2c_scan_address, kept between scans
  found,         \* i2c_scan_addresses
  bufferFull,    \* address_buffer_full
  phase,         \* idle, gathering addresses, or updating the drivers
  fresh,         \* auxiliary: this scan started from the first address
  stable         \* auxiliary: addresses whose device stayed as it was in this scan

bus  == <<scanAddress, found, bufferFull, phase>>
vars == <<drv, present, scanAddress, found, bufferFull, phase, fresh, stable>>

TypeOK ==
  /\ drv \in [Drivers -> DriverBits]
  /\ present \subseteq Addresses
  /\ scanAddress \in 0 .. AddressMax + 1
  /\ found \subseteq Addresses
  /\ Cardinality(found) <= BufferSize
  /\ bufferFull \in BOOLEAN
  /\ phase \in {"idle", "gather", "update"}
  /\ fresh \in BOOLEAN
  /\ stable \subseteq Addresses

Init ==
  /\ drv = [d \in Drivers |-> Off]
  /\ present \in SUBSET Addresses
  /\ scanAddress = 0
  /\ found = {}
  /\ bufferFull = FALSE
  /\ phase = "idle"
  /\ fresh = TRUE
  /\ stable = {}

-----------------------------------------------------------------------------
(* The caller of a scan also issues the driver commands, so none runs      *)
(* during a scan.                                                          *)
DriverCommand(d, answers) ==
  /\ phase = "idle"
  /\ drv' \in {InitControl(drv, d, answers), StartControl(drv, d, answers),
               StopControl(drv, d)}
  /\ UNCHANGED <<present, bus, fresh, stable>>

(* A device is unplugged, resets, or answers again. *)
DeviceChange(a) ==
  /\ present' = IF a \in present THEN present \ {a} ELSE present \cup {a}
  /\ stable' = stable \ {a}
  /\ UNCHANGED <<drv, bus, fresh>>

(* Mutated form: the buffer of the last scan is not emptied. *)
ScanBeginKeepsBuffer ==
  /\ phase = "idle"
  /\ phase' = "gather"
  /\ bufferFull' = FALSE
  /\ fresh' = (scanAddress = 0)
  /\ stable' = Addresses
  /\ UNCHANGED <<drv, present, scanAddress, found>>

(* sc_i2cScan starts gathering with an empty buffer. *)
ScanBegin ==
  /\ phase = "idle"
  /\ phase' = "gather"
  /\ found' = {}
  /\ bufferFull' = FALSE
  /\ fresh' = (scanAddress = 0)
  /\ stable' = Addresses
  /\ UNCHANGED <<drv, present, scanAddress>>

(* hal_i2cScan on a bus driver that is not running. *)
ScanRefused ==
  /\ phase = "gather"
  /\ ~BusUp(drv)
  /\ phase' = "idle"
  /\ UNCHANGED <<drv, present, scanAddress, found, bufferFull, fresh, stable>>

(* The bus refuses the START condition: the scan is abandoned. *)
ScanStartFailed ==
  /\ phase = "gather"
  /\ BusUp(drv)
  /\ scanAddress <= AddressMax
  /\ phase' = "idle"
  /\ UNCHANGED <<drv, present, scanAddress, found, bufferFull, fresh, stable>>

(* Mutated form: no test for room in the buffer. *)
ScanProbeUnbounded ==
  /\ phase = "gather"
  /\ BusUp(drv)
  /\ scanAddress <= AddressMax
  /\ scanAddress' = scanAddress + 1
  /\ found' = found \cup ({scanAddress} \cap present)
  /\ UNCHANGED <<drv, present, phase, bufferFull, fresh, stable>>

(* One address probed; an acknowledging one is stored if there is room. *)
ScanProbe ==
  /\ phase = "gather"
  /\ BusUp(drv)
  /\ scanAddress <= AddressMax
  /\ scanAddress' = scanAddress + 1
  /\ IF scanAddress \notin present
     THEN UNCHANGED <<found, bufferFull>>
     ELSE IF Cardinality(found) < BufferSize
          THEN found' = found \cup {scanAddress} /\ UNCHANGED bufferFull
          ELSE bufferFull' = TRUE /\ UNCHANGED found
  /\ UNCHANGED <<drv, present, phase, fresh, stable>>

(* Mutated form: the end of the walk is not reported. *)
ScanCompleteWraps ==
  /\ phase = "gather"
  /\ BusUp(drv)
  /\ scanAddress > AddressMax
  /\ scanAddress' = 0
  /\ UNCHANGED <<drv, present, found, bufferFull, phase, fresh, stable>>

(* Past the last address: ERR_HAL_I2C_SCAN_COMPLETE. *)
ScanComplete ==
  /\ phase = "gather"
  /\ BusUp(drv)
  /\ scanAddress > AddressMax
  /\ scanAddress' = 0
  /\ phase' = "update"
  /\ UNCHANGED <<drv, present, found, bufferFull, fresh, stable>>

(* Mark declared devices absent from the bus as dead. *)
MarkAbsent(table) ==
  [d \in Drivers |->
    IF d \in OnBus /\ DriverAddress[d] \notin found
    THEN [table[d] EXCEPT !.dead = TRUE]
    ELSE table[d]]

(* Clear the stale state of dead devices that are present again. *)
Revive(table) ==
  [d \in Drivers |->
    IF table[d].dead /\ DriverAddress[d] \in found THEN Off ELSE table[d]]

ScanUpdate ==
  /\ phase = "update"
  /\ drv' = IF bufferFull THEN drv ELSE Revive(MarkAbsent(drv))
  /\ phase' = "idle"
  /\ UNCHANGED <<present, scanAddress, found, bufferFull, fresh, stable>>

ScanStep == ScanRefused \/ ScanStartFailed \/ ScanProbe \/ ScanComplete \/ ScanUpdate

Next ==
  \/ \E d \in Drivers, answers \in BOOLEAN : DriverCommand(d, answers)
  \/ \E a \in Addresses : DeviceChange(a)
  \/ ScanBegin
  \/ ScanStep

Spec == Init /\ [][Next]_vars

(* The scanning thread keeps running. *)
LiveSpec == Spec /\ WF_vars(ScanStep)

-----------------------------------------------------------------------------
(* What a scan that starts from the first address concludes: a driver      *)
(* whose device answered throughout the scan is alive afterwards, one      *)
(* whose device was missing throughout is dead, unless the scan failed or  *)
(* overflowed its buffer, which leaves the driver as it was.               *)
Verdict(d) ==
  LET a == DriverAddress[d] IN
  a \in stable =>
    \/ drv'[d] = drv[d] /\ bufferFull
    \/ drv'[d].dead = (a \notin present)

(* A scan that starts from the first address judges every device as the    *)
(* bus has it; and a driver that returns from the dead is off: its device  *)
(* lost whatever init and start had set up, so it may not count as running.*)
FreshScanVerdict ==
  [][/\ ScanUpdate /\ fresh => \A d \in OnBus : Verdict(d)
     /\ \A d \in Drivers : drv[d].dead /\ ~drv'[d].dead
          => State(drv', d) \in {"off", "error"}]_vars

(* "Gather the complete bus scan before changing any declared driver       *)
(* state" (sc_driver.c): the verdict should hold of every scan.            *)
EveryScanVerdict ==
  [][ScanUpdate => \A d \in OnBus : Verdict(d)]_vars

(* The gathering loop of sc_i2cScan ends whatever the devices do: it has   *)
(* no other bound than hal_i2cScan's own walk through the addresses.       *)
ScanEnds == phase = "gather" ~> phase = "idle"
=============================================================================
