----------------------------- MODULE BusDevices -----------------------------
(***************************************************************************)
(* The I2C bus, the display and the clock chip on it, and the scripts of   *)
(* bus operations with which the LCD and RTC drivers and their system      *)
(* calls use them.                                                         *)
(*                                                                         *)
(* A system call is a sequence of driver functions, a driver function a    *)
(* sequence of steps: a bus operation or a piece of local work.            *)
(***************************************************************************)
EXTENDS DriverControl, SequencesExt

CONSTANT Registers   \* the RTC registers modelled, by name, in chip order

RegisterCount == Len(Registers)
Fields == 1 .. RegisterCount

RegisterNames == {"seconds", "minutes", "hours", "weekday", "day", "month", "year"}

ASSUME RegisterAssumption == Registers \in Seq(RegisterNames) /\ RegisterCount > 0

(* The range hal_rtcWrite accepts for a register. *)
MaxOf == [seconds |-> 59, minutes |-> 59, hours |-> 23, weekday |-> 7, day |-> 31,
          month |-> 12, year |-> 99]
MinOf == [seconds |-> 0, minutes |-> 0, hours |-> 0, weekday |-> 1, day |-> 1,
          month |-> 1, year |-> 0]

(* The bits that belong to the value, as a modulus. *)
Modulus == [seconds |-> 128, minutes |-> 256, hours |-> 64, weekday |-> 256,
            day |-> 256, month |-> 32, year |-> 256]

InRange(time) ==
  \A i \in Fields : time[i] \in MinOf[Registers[i]] .. MaxOf[Registers[i]]

BcdToBin(bcd) == (((bcd \div 16) * 10) % 256) + (bcd % 16)
BinToBcd(val) == (((val \div 10) * 16) % 256) + (val % 10)

Decode(bytes) ==
  [i \in Fields |-> BcdToBin(bytes[i] % Modulus[Registers[i]])]

(* Seconds and month are masked before the conversion, hours after it.     *)
Encode(time) ==
  [i \in Fields |->
     IF Registers[i] = "hours" THEN BinToBcd(time[i]) % Modulus["hours"]
     ELSE BinToBcd(time[i] % Modulus[Registers[i]])]

-----------------------------------------------------------------------------
(* The display, LCDAMC2004.  A transaction starts with a control byte that *)
(* announces one command or a series of data.                              *)
CMD         == 128
DATA        == 64
SETUP       == 56
DISPLAYMODE == 12
CLEAR       == 1
ENTRYMODE   == 6
SETCURSOR   == 128
Rows    == 4    \* LCDAMC2004_VAL_RAW
Columns == 20   \* LCDAMC2004_VAL_COL

RowAddress(row) == <<0, 64, 20, 84>>[row + 1]

(* Its memory holds blanks where nothing was written since the last clear. *)
BlankPanel == [expect |-> "control", at |-> 0, cells |-> <<>>, setup |-> {}]
ReadyPanel == [BlankPanel EXCEPT !.setup = {SETUP, DISPLAYMODE, ENTRYMODE}]

Obey(panel, b) ==
  LET next == [panel EXCEPT !.expect = "control"]
  IN  CASE b = CLEAR      -> [next EXCEPT !.at = 0, !.cells = <<>>]
        [] b >= SETCURSOR -> [next EXCEPT !.at = b - SETCURSOR]
        [] OTHER          -> [next EXCEPT !.setup = @ \cup {b}]

PanelReceives(panel, b) ==
  CASE panel.expect = "control" ->
         [panel EXCEPT !.expect = CASE b = CMD -> "command" [] b = DATA -> "data"
                                    [] OTHER -> "control"]
    [] panel.expect = "command" -> Obey(panel, b)
    [] OTHER ->
         [panel EXCEPT !.at = @ + 1,
            !.cells = [x \in DOMAIN @ \cup {panel.at} |->
                         IF x = panel.at THEN b ELSE panel.cells[x]]]

(* The clock chip, ZS042: the first byte written selects a register, and   *)
(* each byte moves on to the next.  What is read is what the registers     *)
(* were when the reading started.  Beyond stands for the registers that    *)
(* are not modelled.                                                       *)
Clock(registers) ==
  [expect |-> "data", pointer |-> 1, registers |-> registers, latch |-> registers]

Beyond == RegisterCount + 1

ClockReceives(clock, b) ==
  CASE clock.expect = "pointer" ->
         [clock EXCEPT !.expect = "data", !.pointer = IF b < RegisterCount THEN b + 1 ELSE Beyond]
    [] clock.pointer \in Fields /\ clock.expect = "data" ->
         [clock EXCEPT !.registers[clock.pointer] = b, !.pointer = @ + 1]
    [] OTHER -> clock

-----------------------------------------------------------------------------
(* Steps. *)
Start(device, direction) == [do |-> "start", device |-> device, direction |-> direction]
Write(b) == [do |-> "write", byte |-> b]
Put(i)   == [do |-> "put", index |-> i]      \* hal_i2cWrite(buf[i])
Get(i)   == [do |-> "get", index |-> i]      \* hal_i2cRead(&buf[i])
Stop     == [do |-> "stop"]
BusOps   == {"start", "write", "put", "get", "stop"}

Require      == [do |-> "require"]                  \* lcd/rtcRequireRunning
Refuse(e)    == [do |-> "refuse", error |-> e]
Command(c)   == [do |-> "command", control |-> c]   \* control(command, data)
Commit(bit)  == [do |-> "commit", bit |-> bit]
ToRegisters  == [do |-> "encode"]
FromRegisters == [do |-> "decode"]
Edit(field, value) == [do |-> "edit", field |-> field, value |-> value]
KeepTime     == [do |-> "keep"]

(* Driver functions.  A "text" function is followed by the end of the      *)
(* transaction when it fails.                                              *)
Function(driver, kind, steps) == [driver |-> driver, kind |-> kind, steps |-> steps]

(* Mutated form: the transaction is not started. *)
SendCommandUnstarted(b) == <<Write(CMD), Write(b), Stop>>

SendCommand(b) == <<Start("lcd", "W"), Write(CMD), Write(b), Stop>>

LcdClear == Function("lcd", "call", <<Require>> \o SendCommand(CLEAR))

LcdSetCursor(row, col) ==
  Function("lcd", "call", <<Require>> \o
    IF row < Rows /\ col < Columns THEN SendCommand(SETCURSOR + RowAddress(row) + col)
    ELSE <<Refuse("OUT_OF_RANGE")>>)

LcdWriteStart   == Function("lcd", "call", <<Require, Start("lcd", "W"), Write(DATA)>>)
LcdWriteByte(b) == Function("lcd", "text", <<Write(b)>>)
LcdWriteEnd     == Function("lcd", "call", <<Stop>>)

RtcRead ==
  <<Require, Start("rtc", "W"), Write(0), Start("rtc", "R")>>
     \o [i \in Fields |-> Get(i)] \o <<Stop, FromRegisters>>

RtcWrite ==
  <<Require, ToRegisters, Start("rtc", "W"), Write(0)>>
     \o [i \in Fields |-> Put(i)] \o <<Stop>>

(* Mutated form: the driver counts as initialized before its display is.   *)
LcdInitEarly ==
  <<Command(Plain("INIT")), Commit("init")>> \o SendCommand(SETUP) \o
  SendCommand(DISPLAYMODE) \o SendCommand(CLEAR) \o SendCommand(ENTRYMODE)

LcdInit ==
  <<Command(Plain("INIT"))>> \o SendCommand(SETUP) \o SendCommand(DISPLAYMODE)
     \o SendCommand(CLEAR) \o SendCommand(ENTRYMODE) \o <<Commit("init")>>

LcdStart == <<Command(Plain("START"))>> \o SendCommand(CLEAR) \o <<Commit("start")>>

(* sc_driverGetInfo: the run level, then every status bit. *)
InfoSteps ==
  <<Command(With("RLGET", 0)), Command(With("GETBIT", "init")),
    Command(With("GETBIT", "start")), Command(With("GETBIT", "error")),
    Command(With("GETBIT", "dead"))>>

-----------------------------------------------------------------------------
(* System calls, and the commands of the "date" service. *)
Callable(call) ==
  \/ call.name \in {"lcdClear", "rtcRead", "rtcSaveStartupTime"}
  \/ /\ call.name = "lcdWriteString"
     /\ {call.row, call.col} \subseteq 0 .. 255 /\ call.text \in Seq(0 .. 255)
  \/ call.name = "rtcWrite" /\ call.time \in [Fields -> 0 .. 255]
  \/ call.name = "dateSet" /\ call.field \in Fields /\ call.value \in 0 .. 255
  \/ /\ call.name = "driverControl"
     /\ call.driver \in {"i2c", "lcd", "rtc"} /\ call.op \in LifeOps
  \/ call.name = "driverGetInfo" /\ call.driver \in {"i2c", "lcd", "rtc"}

ControlScript(d, op) ==
  CASE d = "lcd" /\ op = "INIT"  -> LcdInit
    [] d = "lcd" /\ op = "START" -> LcdStart
    [] OTHER -> <<Command(Plain(op))>>

Script(call) ==
  CASE call.name = "lcdClear" -> <<LcdClear>>
    [] call.name = "lcdWriteString" ->
         <<LcdSetCursor(call.row, call.col), LcdWriteStart>>
           \o [i \in DOMAIN call.text |-> LcdWriteByte(call.text[i])] \o <<LcdWriteEnd>>
    [] call.name = "rtcRead"  -> <<Function("rtc", "call", RtcRead)>>
    [] call.name = "rtcWrite" -> <<Function("rtc", "call", RtcWrite)>>
    [] call.name = "rtcSaveStartupTime" ->
         <<Function("rtc", "call", RtcRead), Function("rtc", "call", <<KeepTime>>)>>
    [] call.name = "dateSet" ->
         <<Function("rtc", "call", RtcRead),
           Function("rtc", "call", <<Edit(call.field, call.value)>>),
           Function("rtc", "call", RtcWrite)>>
    [] call.name = "driverControl" ->
         <<Function(call.driver, "command", ControlScript(call.driver, call.op))>>
    [] call.name = "driverGetInfo" -> <<Function(call.driver, "info", InfoSteps)>>
=============================================================================
