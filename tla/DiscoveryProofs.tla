--------------------------- MODULE DiscoveryProofs ---------------------------
(***************************************************************************)
(* The verdict of a bus scan, for every bus, table of drivers and size of  *)
(* the scan's buffer, while devices come and go.                           *)
(***************************************************************************)
EXTENDS I2cDiscovery, FiniteSetTheorems, TLAPS

(* What the scan has found is right of the device at a, if it stayed as it *)
(* was.                                                                    *)
Judged(a) == a \in stable /\ ~bufferFull => (a \in found <=> a \in present)

(* The invariant: a scan that started from the first address is right of   *)
(* every address behind it while it gathers, and of all of them when it    *)
(* updates the drivers; and a scan, resumed or not, has found nothing      *)
(* ahead of the address it probes next.                                    *)
ScanIsRight ==
  /\ phase = "gather" => \A a \in found : a < scanAddress
  /\ phase = "gather" /\ fresh => \A a \in 0 .. scanAddress - 1 : Judged(a)
  /\ phase = "update" /\ fresh => \A a \in Addresses : Judged(a)

DiscoveryInvariant == TypeOK /\ ScanIsRight

-----------------------------------------------------------------------------
(* The control calls keep the table's type, and none of them brings a dead *)
(* driver back.                                                            *)
LEMMA ControlsKeepTable ==
  ASSUME NEW table \in [Drivers -> DriverBits], NEW d \in Drivers, NEW answers \in BOOLEAN,
         NEW next \in {InitControl(table, d, answers), StartControl(table, d, answers),
                       StopControl(table, d)}
  PROVE  /\ next \in [Drivers -> DriverBits]
         /\ \A e \in Drivers : next[e].dead = table[e].dead
<1>1. /\ [table[d] EXCEPT !.init = TRUE] \in DriverBits
      /\ [table[d] EXCEPT !.start = TRUE] \in DriverBits
      /\ [table[d] EXCEPT !.start = FALSE] \in DriverBits
  BY DEF DriverBits
<1>2. CASE next = table
  BY <1>2
<1>3. CASE next = [table EXCEPT ![d].init = TRUE]
  BY <1>1, <1>3 DEF DriverBits
<1>4. CASE next = [table EXCEPT ![d].start = TRUE]
  BY <1>1, <1>4 DEF DriverBits
<1>5. CASE next = [table EXCEPT ![d].start = FALSE]
  BY <1>1, <1>5 DEF DriverBits
<1>6. QED
  BY <1>2, <1>3, <1>4, <1>5 DEF InitControl, StartControl, StopControl

(* So does the update at the end of a scan; the drivers it revives are off.*)
LEMMA UpdateKeepsTable ==
  ASSUME NEW table \in [Drivers -> DriverBits], NEW d \in Drivers
  PROVE  /\ Revive(MarkAbsent(table)) \in [Drivers -> DriverBits]
         /\ d \in OnBus => (Revive(MarkAbsent(table))[d].dead <=> DriverAddress[d] \notin found)
         /\ table[d].dead /\ ~Revive(MarkAbsent(table))[d].dead
              => Revive(MarkAbsent(table))[d] = Off
<1> DEFINE marked == MarkAbsent(table)
<1>1. /\ marked \in [Drivers -> DriverBits]
      /\ marked[d].dead <=> table[d].dead \/ (d \in OnBus /\ DriverAddress[d] \notin found)
  BY DEF MarkAbsent, DriverBits
<1> HIDE DEF marked
<1>2. /\ Revive(marked) \in [Drivers -> DriverBits]
      /\ Revive(marked)[d] = IF marked[d].dead /\ DriverAddress[d] \in found
                             THEN Off ELSE marked[d]
  BY <1>1 DEF Revive, DriverBits, Off
<1>3. ~Off.dead
  BY DEF Off
<1>4. QED
  BY <1>1, <1>2, <1>3 DEF marked

(* The buffer takes one address more only when there is room for it.       *)
LEMMA RoomForOne ==
  ASSUME NEW S, S \subseteq Addresses, NEW a \in Addresses, Cardinality(S) < BufferSize
  PROVE  Cardinality(S \cup {a}) <= BufferSize
<1>1. IsFiniteSet(S)
  <2>1. 0 \in Int /\ AddressMax \in Int /\ BufferSize \in Nat
    BY DiscoveryAssumption
  <2>2. IsFiniteSet(Addresses)
    BY <2>1, FS_Interval DEF Addresses
  <2>3. QED
    BY <2>2, FS_Subset
<1>2. /\ Cardinality(S) \in Nat
      /\ Cardinality(S \cup {a}) \in {Cardinality(S), Cardinality(S) + 1}
  BY <1>1, FS_CardinalityType, FS_AddElement
<1>3. QED
  BY <1>2, DiscoveryAssumption

LEMMA NothingFits == Cardinality({}) <= BufferSize
BY FS_EmptySet, DiscoveryAssumption

-----------------------------------------------------------------------------
LEMMA DiscoveryInitially == Init => DiscoveryInvariant
<1> SUFFICES ASSUME Init PROVE DiscoveryInvariant
  OBVIOUS
<1>1. Cardinality(found) <= BufferSize
  BY NothingFits DEF Init
<1>2. drv \in [Drivers -> DriverBits] /\ AddressMax \in Nat
  BY DiscoveryAssumption DEF Init, DriverBits, Off
<1>3. scanAddress \in 0 .. AddressMax + 1 /\ found = {} /\ stable = {}
  BY <1>2 DEF Init
<1>4. TypeOK
  BY <1>1, <1>2, <1>3 DEF Init, TypeOK
<1>5. ScanIsRight
  BY DEF Init, ScanIsRight
<1>6. QED
  BY <1>4, <1>5 DEF DiscoveryInvariant

(* Every step, of the scan, of a driver command and of the devices on the  *)
(* bus, keeps the invariant.                                               *)
LEMMA DiscoveryStep ==
  ASSUME DiscoveryInvariant, [Next]_vars
  PROVE  DiscoveryInvariant'
<1> USE DEF DiscoveryInvariant
<1>1. ASSUME NEW d \in Drivers, NEW answers \in BOOLEAN, DriverCommand(d, answers)
      PROVE  DiscoveryInvariant'
  <2>1. drv' \in [Drivers -> DriverBits]
    BY <1>1, ControlsKeepTable DEF DriverCommand, TypeOK
  <2>2. QED
    BY <1>1, <2>1 DEF DriverCommand, bus, TypeOK, ScanIsRight, Judged
<1>2. ASSUME NEW a \in Addresses, DeviceChange(a) PROVE DiscoveryInvariant'
  BY <1>2 DEF DeviceChange, bus, TypeOK, ScanIsRight, Judged
<1>3. CASE ScanBegin
  <2>1. Cardinality(found') <= BufferSize
    BY <1>3, NothingFits DEF ScanBegin
  <2>2. TypeOK'
    BY <1>3, <2>1 DEF ScanBegin, TypeOK
  <2>3. found' = {} /\ phase' = "gather" /\ (fresh' => scanAddress' = 0)
    BY <1>3 DEF ScanBegin
  <2>4. ScanIsRight'
    BY <2>3 DEF ScanIsRight
  <2>5. QED
    BY <2>2, <2>4
<1>4. CASE ScanRefused \/ ScanStartFailed
  BY <1>4 DEF ScanRefused, ScanStartFailed, TypeOK, ScanIsRight
<1>5. CASE ScanProbe
  <2>1. scanAddress \in Addresses /\ scanAddress + 1 \in 0 .. AddressMax + 1
    BY <1>5, DiscoveryAssumption DEF ScanProbe, TypeOK, Addresses
  <2>2. TypeOK'
    BY <1>5, <2>1, RoomForOne DEF ScanProbe, TypeOK
  <2>3. \A a \in found' : a < scanAddress'
    <3>1. \A a \in found : a \in Int /\ a < scanAddress
      BY <1>5 DEF ScanProbe, ScanIsRight, TypeOK, Addresses
    <3>2. found' \subseteq found \cup {scanAddress} /\ scanAddress' = scanAddress + 1
      BY <1>5 DEF ScanProbe
    <3>3. QED
      BY <2>1, <3>1, <3>2 DEF Addresses
  <2>4. ASSUME fresh, NEW a \in 0 .. scanAddress PROVE Judged(a)'
    <3>1. CASE a = scanAddress
      BY <1>5, <2>1, <3>1 DEF ScanProbe, ScanIsRight, Judged, TypeOK, Addresses
    <3>2. CASE a # scanAddress
      <4>1. a \in 0 .. scanAddress - 1
        BY <2>1, <3>2 DEF Addresses
      <4>2. Judged(a)
        BY <1>5, <2>4, <4>1 DEF ScanProbe, ScanIsRight
      <4>3. QED
        BY <1>5, <3>2, <4>2 DEF ScanProbe, Judged, TypeOK
    <3>3. QED
      BY <3>1, <3>2
  <2>5. ScanIsRight'
    BY <1>5, <2>1, <2>3, <2>4 DEF ScanProbe, ScanIsRight, Addresses
  <2>6. QED
    BY <2>2, <2>5
<1>6. CASE ScanComplete
  <2>1. scanAddress = AddressMax + 1
    BY <1>6, DiscoveryAssumption DEF ScanComplete, TypeOK
  <2>2. \A a \in Addresses : a \in 0 .. scanAddress - 1
    BY <2>1, DiscoveryAssumption DEF Addresses
  <2>3. QED
    BY <1>6, <2>2, DiscoveryAssumption DEF ScanComplete, TypeOK, ScanIsRight, Judged
<1>7. CASE ScanUpdate
  <2>1. drv' \in [Drivers -> DriverBits]
    BY <1>7, UpdateKeepsTable, DriverAssumption DEF ScanUpdate, TypeOK
  <2>2. QED
    BY <1>7, <2>1 DEF ScanUpdate, TypeOK, ScanIsRight
<1>8. CASE UNCHANGED vars
  BY <1>8 DEF vars, TypeOK, ScanIsRight, Judged
<1>9. QED
  BY <1>1, <1>2, <1>3, <1>4, <1>5, <1>6, <1>7, <1>8 DEF Next, ScanStep

LEMMA DiscoveryAlways == Spec => []DiscoveryInvariant
BY DiscoveryInitially, DiscoveryStep, PTL DEF Spec

-----------------------------------------------------------------------------
(* The scan never stores more addresses than its buffer holds, and its     *)
(* place on the bus stays on the bus or one behind it (sc_i2cScan,         *)
(* hal_i2cScan).                                                           *)
THEOREM ScanTypeCorrect == Spec => []TypeOK
<1>1. DiscoveryInvariant => TypeOK
  BY DEF DiscoveryInvariant
<1>2. QED
  BY <1>1, DiscoveryAlways, PTL

(* A step of a correct scan judges every device right, and what it brings  *)
(* back is off.                                                            *)
LEMMA VerdictStep ==
  ASSUME DiscoveryInvariant, Next
  PROVE  /\ ScanUpdate /\ fresh => \A d \in OnBus : Verdict(d)
         /\ \A d \in Drivers : drv[d].dead /\ ~drv'[d].dead => State(drv', d) \in {"off", "error"}
<1>1. drv \in [Drivers -> DriverBits]
  BY DEF DiscoveryInvariant, TypeOK
<1>2. ASSUME ScanUpdate, fresh, NEW d \in OnBus PROVE Verdict(d)
  <2>1. d \in Drivers /\ DriverAddress[d] \in Addresses
    BY DiscoveryAssumption DEF OnBus
  <2>2. ASSUME ~bufferFull, DriverAddress[d] \in stable
        PROVE  drv'[d].dead <=> DriverAddress[d] \notin present
    <3>1. DriverAddress[d] \in found <=> DriverAddress[d] \in present
      BY <1>2, <2>1, <2>2 DEF ScanUpdate, DiscoveryInvariant, ScanIsRight, Judged
    <3>2. drv'[d].dead <=> DriverAddress[d] \notin found
      BY <1>1, <1>2, <2>1, <2>2, UpdateKeepsTable DEF ScanUpdate
    <3>3. QED
      BY <3>1, <3>2
  <2>3. drv' \in [Drivers -> DriverBits]
    BY <1>1, <1>2, UpdateKeepsTable, DriverAssumption DEF ScanUpdate
  <2>4. drv'[d].dead \in BOOLEAN
    BY <2>1, <2>3 DEF DriverBits
  <2>5. bufferFull => drv'[d] = drv[d]
    BY <1>2 DEF ScanUpdate
  <2>6. QED
    BY <2>2, <2>4, <2>5 DEF Verdict
<1>3. ASSUME NEW d \in Drivers, drv[d].dead, ~drv'[d].dead
      PROVE  State(drv', d) \in {"off", "error"}
  <2>1. CASE ScanUpdate
    <3>1. drv'[d] = Off
      BY <1>1, <1>3, <2>1, UpdateKeepsTable DEF ScanUpdate
    <3>2. QED
      BY <3>1 DEF State, LifeState, Off
  <2>2. CASE \E e \in Drivers, answers \in BOOLEAN : DriverCommand(e, answers)
    BY <1>1, <1>3, <2>2, ControlsKeepTable DEF DriverCommand
  <2>3. CASE drv' = drv
    BY <1>3, <2>3
  <2>4. QED
    BY <2>1, <2>2, <2>3 DEF Next, ScanStep, DeviceChange, ScanBegin, ScanRefused, ScanStartFailed,
                            ScanProbe, ScanComplete
<1>4. QED
  BY <1>2, <1>3

(* A scan from the first address judges every device as the bus has it,    *)
(* however devices come and go meanwhile, and a driver that returns from   *)
(* the dead is off (sc_i2cScan, sc_driver.c).                              *)
THEOREM FreshScansJudgeRight == Spec => FreshScanVerdict
<1>1. DiscoveryInvariant /\ [Next]_vars =>
        [/\ ScanUpdate /\ fresh => \A d \in OnBus : Verdict(d)
         /\ \A d \in Drivers :
              drv[d].dead /\ ~drv'[d].dead => State(drv', d) \in {"off", "error"}]_vars
  BY VerdictStep
<1>2. QED
  BY <1>1, DiscoveryAlways, PTL DEF Spec, FreshScanVerdict
=============================================================================
