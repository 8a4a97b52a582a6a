---------------------------- MODULE ResultProofs ----------------------------
(***************************************************************************)
(* That what a system call reports of the display or the clock is true,    *)
(* for any threads, calls, faults and overlaps: a call that no other one   *)
(* has overlapped has, wherever it is in its script, made the devices what *)
(* the steps behind it were to make of them, and a failure it has met is   *)
(* on record until its caller has asked for it.                            *)
(***************************************************************************)
EXTENDS BusProofs, FiniteSetTheorems

-----------------------------------------------------------------------------
(* What a call reports is what it did to the devices.  The codes of the    *)
(* clock chip: a value in a register's range is what its code stands for.  *)
CodeOf(r, v) == IF r = "hours" THEN BinToBcd(v) % 64 ELSE BinToBcd(v % Modulus[r])

(* The bytes of a time, none of them a code of a value out of range.       *)
Coded(bytes) ==
  \A i \in Fields : \E v \in MinOf[Registers[i]] .. MaxOf[Registers[i]] :
    bytes[i] = CodeOf(Registers[i], v)

LEMMA CodeAndBack ==
  ASSUME NEW v \in 0 .. 99
  PROVE  /\ BinToBcd(v) \in 0 .. 153 /\ BcdToBin(BinToBcd(v)) = v
         /\ v <= 59 => BinToBcd(v) <= 89
         /\ v <= 23 => BinToBcd(v) <= 35
         /\ v <= 12 => BinToBcd(v) <= 18
<1>1. PICK q \in 0 .. 9, m \in 0 .. 9 : q = v \div 10 /\ m = v % 10 /\ v = q * 10 + m
  BY SMT
<1>2. (q * 16) % 256 = q * 16
  OBVIOUS
<1>3. BinToBcd(v) = q * 16 + m
  BY <1>1, <1>2 DEF BinToBcd
<1>4. (q * 16 + m) \div 16 = q /\ (q * 16 + m) % 16 = m /\ (q * 10) % 256 = q * 10
  OBVIOUS
<1>5. BcdToBin(BinToBcd(v)) = v
  BY <1>1, <1>3, <1>4 DEF BcdToBin
<1>6. (v <= 59 => q <= 5) /\ (v <= 23 => q <= 2) /\ (v <= 12 => q <= 1)
  BY <1>1
<1>7. q * 16 + m \in 0 .. 153 /\ (q <= 5 => q * 16 + m <= 89)
  OBVIOUS
<1>8. v <= 23 => q * 16 + m <= 35
  BY <1>1
<1>9. v <= 12 => q * 16 + m <= 18
  BY <1>1
<1>10. QED
  BY <1>3, <1>5, <1>6, <1>7, <1>8, <1>9

LEMMA CodeStandsFor ==
  ASSUME NEW r \in RegisterNames, NEW v \in MinOf[r] .. MaxOf[r]
  PROVE  /\ v \in Nat /\ CodeOf(r, v) \in Bytes
         /\ BcdToBin(CodeOf(r, v) % Modulus[r]) = v
<1>1. \/ r = "seconds" /\ MinOf[r] = 0 /\ MaxOf[r] = 59 /\ Modulus[r] = 128
      \/ r = "minutes" /\ MinOf[r] = 0 /\ MaxOf[r] = 59 /\ Modulus[r] = 256
      \/ r = "hours" /\ MinOf[r] = 0 /\ MaxOf[r] = 23 /\ Modulus[r] = 64
      \/ r = "weekday" /\ MinOf[r] = 1 /\ MaxOf[r] = 7 /\ Modulus[r] = 256
      \/ r = "day" /\ MinOf[r] = 1 /\ MaxOf[r] = 31 /\ Modulus[r] = 256
      \/ r = "month" /\ MinOf[r] = 1 /\ MaxOf[r] = 12 /\ Modulus[r] = 32
      \/ r = "year" /\ MinOf[r] = 0 /\ MaxOf[r] = 99 /\ Modulus[r] = 256
  BY DEF RegisterNames, MinOf, MaxOf, Modulus
<1>2. PICK low, high, modulus : low = MinOf[r] /\ high = MaxOf[r] /\ modulus = Modulus[r]
  OBVIOUS
<1>3. v \in low .. high
  BY <1>2
<1>4. /\ v \in 0 .. 99
      /\ \/ modulus = 128 /\ v <= 59 /\ r # "hours"
         \/ modulus = 256 /\ r # "hours"
         \/ modulus = 64 /\ v <= 23 /\ r = "hours"
         \/ modulus = 32 /\ v <= 12 /\ r # "hours"
  <2>1. low \in {0, 1} /\ high \in {59, 23, 7, 31, 12, 99}
    BY <1>1, <1>2
  <2>2. v \in 0 .. 99
    BY <1>3, <2>1
  <2>3. v <= high
    BY <1>3, <2>1
  <2>4. QED
    BY <1>1, <1>2, <2>2, <2>3
<1>5. PICK c \in 0 .. 153 :
        /\ c = BinToBcd(v) /\ BcdToBin(c) = v
        /\ (v <= 59 => c <= 89) /\ (v <= 23 => c <= 35) /\ (v <= 12 => c <= 18)
  BY <1>4, CodeAndBack
<1>6. v % modulus = v /\ c % modulus = c
  BY <1>4, <1>5
<1>7. CodeOf(r, v) = c
  <2>1. CASE r = "hours"
    BY <1>4, <1>5, <1>6, <2>1 DEF CodeOf
  <2>2. CASE r # "hours"
    BY <1>2, <1>5, <1>6, <2>2 DEF CodeOf
  <2>3. QED
    BY <2>1, <2>2
<1>8. QED
  BY <1>2, <1>4, <1>5, <1>6, <1>7 DEF Bytes

(* Encoding a time in range and decoding it again.                         *)
LEMMA TimeAndBack ==
  ASSUME RegisterAssumption, NEW time \in Times, InRange(time)
  PROVE  /\ Encode(time) \in Times /\ Coded(Encode(time)) /\ Decode(Encode(time)) = time
         /\ \A i \in Fields : Encode(time)[i] = CodeOf(Registers[i], time[i])
<1>1. \A i \in Fields : Encode(time)[i] = CodeOf(Registers[i], time[i])
  <2>1. Modulus["hours"] = 64
    BY DEF Modulus
  <2>2. QED
    BY <2>1, Zenon DEF Encode, CodeOf
<1>2. ASSUME NEW i \in Fields
      PROVE  BcdToBin(Encode(time)[i] % Modulus[Registers[i]]) = time[i]
  <2>1. time[i] \in MinOf[Registers[i]] .. MaxOf[Registers[i]] /\ Registers[i] \in RegisterNames
    BY RegisterFacts DEF InRange
  <2>2. BcdToBin(CodeOf(Registers[i], time[i]) % Modulus[Registers[i]]) = time[i]
    BY <2>1, CodeStandsFor
  <2>3. QED
    BY <1>1, <2>2
<1>3. Decode(Encode(time)) = time
  BY <1>2 DEF Decode, Times
<1>4. Coded(Encode(time))
  BY <1>1 DEF Coded, InRange
<1>5. QED
  BY <1>1, <1>3, <1>4, CodedTimes

LEMMA CodedAndBack ==
  ASSUME RegisterAssumption, NEW bytes \in Times, Coded(bytes)
  PROVE  InRange(Decode(bytes)) /\ Encode(Decode(bytes)) = bytes
<1>1. ASSUME NEW i \in Fields
      PROVE  /\ Decode(bytes)[i] \in MinOf[Registers[i]] .. MaxOf[Registers[i]]
             /\ bytes[i] = CodeOf(Registers[i], Decode(bytes)[i])
  <2>1. PICK v \in MinOf[Registers[i]] .. MaxOf[Registers[i]] : bytes[i] = CodeOf(Registers[i], v)
    BY DEF Coded
  <2>2. BcdToBin(bytes[i] % Modulus[Registers[i]]) = v
    BY <2>1, CodeStandsFor, RegisterFacts
  <2>3. QED
    BY <2>1, <2>2 DEF Decode
<1>2. InRange(Decode(bytes))
  BY <1>1 DEF InRange
<1>3. Decode(bytes) \in Times
  BY CodedTimes
<1>4. Encode(Decode(bytes)) \in Times /\ \A i \in Fields : Encode(Decode(bytes))[i] = bytes[i]
  BY <1>1, <1>2, <1>3, TimeAndBack
<1>5. QED
  BY <1>2, <1>4 DEF Times

(* An hour later the time is in range still.                               *)
LEMMA HourInRange ==
  ASSUME RegisterAssumption, NEW time \in Times, InRange(time)
  PROVE  InRange(HourLater(time))
<1>1. ASSUME NEW i \in Fields
      PROVE  HourLater(time)[i] \in MinOf[Registers[i]] .. MaxOf[Registers[i]]
  <2>1. time[i] \in MinOf[Registers[i]] .. MaxOf[Registers[i]] /\ time[i] \in Nat
    <3>1. time[i] \in MinOf[Registers[i]] .. MaxOf[Registers[i]] /\ time[i] \in Bytes
      BY DEF InRange, Times
    <3>2. \A b \in Bytes : b \in Nat
      BY DEF Bytes
    <3>3. QED
      BY <3>1, <3>2, Zenon
  <2>2. /\ MinOf["hours"] = 0 /\ MaxOf["hours"] = 23
        /\ MinOf["day"] = 1 /\ MaxOf["day"] = 31
    BY DEF MinOf, MaxOf
  <2>3. \A n \in Nat : (n + 1) % 24 \in 0 .. 23 /\ (n % 31) + 1 \in 1 .. 31
    OBVIOUS
  <2>4. (time[i] + 1) % 24 \in 0 .. 23 /\ (time[i] % 31) + 1 \in 1 .. 31
    BY <2>1, <2>3
  <2>5. \/ Registers[i] = "hours" /\ HourLater(time)[i] = (time[i] + 1) % 24
        \/ Registers[i] = "day" /\ HourLater(time)[i] = (time[i] % 31) + 1
        \/ HourLater(time)[i] = time[i]
    BY DEF HourLater
  <2>6. QED
    BY <2>1, <2>2, <2>4, <2>5
<1>2. QED
  BY <1>1 DEF InRange

-----------------------------------------------------------------------------
(* Where a thread is in its script: at step k of function n.               *)
Position(todo, S, n, k) ==
  /\ n \in 1 .. Len(S) /\ k \in 1 .. Len(S[n].steps)
  /\ Len(todo) = Len(S) - n + 1
  /\ \A i \in 2 .. Len(todo) : todo[i] = S[n + i - 1]
  /\ todo[1].driver = S[n].driver /\ todo[1].kind = S[n].kind
  /\ Len(todo[1].steps) = Len(S[n].steps) - k + 1
  /\ \A j \in 1 .. Len(todo[1].steps) : todo[1].steps[j] = S[n].steps[k + j - 1]

LEMMA AtFirst ==
  ASSUME NEW S, Planned(S)
  PROVE  Position(S, S, 1, 1)
<1>1. /\ Len(S) \in Nat /\ Len(S) >= 1 /\ Len(S[1].steps) \in Nat /\ Len(S[1].steps) >= 1
  BY PlannedHead
<1>2. PICK x, y : x = Len(S) /\ y = Len(S[1].steps)
  OBVIOUS
<1>3. x = x - 1 + 1 /\ y = y - 1 + 1 /\ 1 \in 1 .. x /\ 1 \in 1 .. y
  BY <1>1, <1>2
<1>4. (\A i \in 2 .. x : S[i] = S[1 + i - 1]) /\ \A j \in 1 .. y : S[1].steps[j] = S[1].steps[1 + j - 1]
  <2>1. \A i \in Int : 1 + i - 1 = i
    OBVIOUS
  <2>2. QED
    BY <1>1, <1>2, <2>1
<1>5. QED
  BY <1>2, <1>3, <1>4 DEF Position

(* The step it takes there, and whether it is the last one.                *)
LEMMA HereIs ==
  ASSUME NEW S, Planned(S), NEW todo, Planned(todo), NEW n, NEW k, Position(todo, S, n, k)
  PROVE  /\ n \in 1 .. Len(S) /\ k \in 1 .. Len(S[n].steps)
         /\ Len(S) \in Nat /\ Len(S[n].steps) \in Nat /\ n \in Nat /\ k \in Nat
         /\ todo[1].steps[1] = S[n].steps[k]
         /\ todo[1].driver = S[n].driver /\ todo[1].kind = S[n].kind
         /\ Len(todo[1].steps) = 1 <=> k = Len(S[n].steps)
         /\ Len(todo) = 1 <=> n = Len(S)
<1>1. /\ Len(S) \in Nat /\ Len(todo) \in Nat /\ Len(todo) >= 1
      /\ Len(todo[1].steps) \in Nat /\ Len(todo[1].steps) >= 1
      /\ \A i \in 1 .. Len(S) : FunctionOK(S[i])
  BY PlannedHead
<1>2. n \in 1 .. Len(S) /\ k \in 1 .. Len(S[n].steps)
  BY DEF Position
<1>3. Len(S[n].steps) \in Nat
  <2>1. S[n].steps \in Seq(Steps)
    BY <1>1, <1>2 DEF FunctionOK
  <2>2. QED
    BY <2>1, LenProperties
<1>4. PICK a, b, c, e \in Nat :
        a = Len(S) /\ b = Len(S[n].steps) /\ c = Len(todo) /\ e = Len(todo[1].steps)
  BY <1>1, <1>3
<1>5. /\ n \in 1 .. a /\ k \in 1 .. b /\ c = a - n + 1 /\ e = b - k + 1 /\ e >= 1
  BY <1>1, <1>2, <1>4 DEF Position
<1>6. todo[1].steps[1] = S[n].steps[k + 1 - 1]
  <2>1. 1 \in 1 .. e
    BY <1>5
  <2>2. QED
    BY <1>4, <2>1 DEF Position
<1>7. k + 1 - 1 = k /\ (e = 1 <=> k = b) /\ (c = 1 <=> n = a) /\ n \in Nat /\ k \in Nat
  BY <1>4, <1>5
<1>8. todo[1].driver = S[n].driver /\ todo[1].kind = S[n].kind
  BY DEF Position
<1>9. QED
  BY <1>1, <1>2, <1>3, <1>4, <1>6, <1>7, <1>8

(* One step further in the same function, or at the next one.              *)
LEMMA NextStepOf ==
  ASSUME NEW S, Planned(S), NEW todo, Planned(todo), NEW n, NEW k, Position(todo, S, n, k),
         Len(todo[1].steps) # 1
  PROVE  Position(Stepped(todo), S, n, k + 1)
<1> DEFINE next == Stepped(todo)
<1>1. PICK a \in Nat, b \in Nat, c \in Nat, e \in Nat :
        /\ a = Len(S) /\ b = Len(S[n].steps) /\ c = Len(todo) /\ e = Len(todo[1].steps)
        /\ n \in 1 .. a /\ k \in 1 .. b /\ c >= 1 /\ e > 1 /\ e = b - k + 1 /\ c = a - n + 1
  <2>1. /\ Len(S) \in Nat /\ Len(S[n].steps) \in Nat /\ n \in 1 .. Len(S) /\ k \in 1 .. Len(S[n].steps)
    BY HereIs
  <2>2. /\ Len(todo) \in Nat /\ Len(todo[1].steps) \in Nat /\ Len(todo[1].steps) >= 1 /\ Len(todo) >= 1
    BY PlannedHead
  <2>3. Len(todo[1].steps) > 1
    BY <2>2, MoreThanOne, Zenon
  <2>4. Len(todo[1].steps) = Len(S[n].steps) - k + 1 /\ Len(todo) = Len(S) - n + 1
    BY DEF Position
  <2>5. QED
    BY <2>1, <2>2, <2>3, <2>4
<1>2. /\ Len(next) = c /\ \A i \in 2 .. c : next[i] = todo[i]
      /\ next[1].steps = Tail(todo[1].steps)
      /\ next[1].driver = todo[1].driver /\ next[1].kind = todo[1].kind
  <2>1. Planned(todo)
    OBVIOUS
  <2>2. FunctionOK(todo[1])
    BY PlannedHead
  <2>3. PICK moved : moved = [todo[1] EXCEPT !.steps = Tail(todo[1].steps)]
    OBVIOUS
  <2>4. moved.steps = Tail(todo[1].steps) /\ moved.driver = todo[1].driver /\ moved.kind = todo[1].kind
    BY <2>2, <2>3 DEF FunctionOK
  <2>5. next = [todo EXCEPT ![1] = moved]
    BY <2>3 DEF Stepped
  <2>6. DOMAIN todo = 1 .. c
    <3>1. \E T : todo \in Seq(T)
      BY DEF Planned
    <3>2. QED
      BY <1>1, <3>1, LenProperties
  <2>7. DOMAIN next = 1 .. c /\ next[1] = moved /\ \A i \in 2 .. c : next[i] = todo[i]
    BY <1>1, <2>5, <2>6
  <2>8. Len(next) = c
    <3>1. Len(todo[1].steps) > 1
      BY <1>1
    <3>2. Planned(next)
      BY <3>1, SteppedIsPlanned
    <3>3. Len(next) \in Nat /\ DOMAIN next = 1 .. Len(next)
      <4>1. \E T : next \in Seq(T)
        BY <3>2 DEF Planned
      <4> HIDE DEF next
      <4>2. QED
        BY <4>1, LenProperties
    <3> HIDE DEF next
    <3>4. PICK m \in Nat : m = Len(next) /\ 1 .. m = 1 .. c
      BY <2>7, <3>3
    <3>5. m = c
      <4>1. c \in 1 .. m /\ (m >= 1 => m \in 1 .. c)
        BY <1>1, <3>4
      <4>2. QED
        BY <1>1, <4>1
    <3>6. QED
      BY <3>4, <3>5
  <2>9. QED
    BY <2>4, <2>7, <2>8
<1>3. /\ Len(next[1].steps) = e - 1 /\ \A j \in 1 .. e - 1 : next[1].steps[j] = todo[1].steps[j + 1]
  <2>1. todo[1].steps \in Seq(Steps) /\ todo[1].steps # <<>>
    BY PlannedHead DEF FunctionOK
  <2>2. /\ Len(Tail(todo[1].steps)) = Len(todo[1].steps) - 1
        /\ \A j \in 1 .. Len(todo[1].steps) - 1 : Tail(todo[1].steps)[j] = todo[1].steps[j + 1]
    BY <2>1, TailOf, Zenon
  <2> HIDE DEF next
  <2>3. QED
    BY <1>1, <1>2, <2>2
<1> HIDE DEF next
<1>4. ASSUME NEW j \in 1 .. e - 1 PROVE next[1].steps[j] = S[n].steps[(k + 1) + j - 1]
  <2>1. j + 1 \in 1 .. e /\ k + (j + 1) - 1 = (k + 1) + j - 1
    BY <1>1
  <2>2. todo[1].steps[j + 1] = S[n].steps[k + (j + 1) - 1]
    BY <1>1, <2>1 DEF Position
  <2>3. QED
    BY <1>3, <2>1, <2>2
<1>5. k + 1 \in 1 .. b /\ e - 1 = b - (k + 1) + 1
  BY <1>1
<1>6. QED
  BY <1>1, <1>2, <1>3, <1>4, <1>5 DEF Position, next

LEMMA NextFunctionOf ==
  ASSUME NEW S, Planned(S), NEW todo, Planned(todo), NEW n, NEW k, Position(todo, S, n, k),
         Len(todo) # 1
  PROVE  Position(Tail(todo), S, n + 1, 1)
<1> DEFINE next == Tail(todo)
<1>1. PICK a \in Nat, c \in Nat :
        a = Len(S) /\ c = Len(todo) /\ n \in 1 .. a /\ c > 1 /\ c = a - n + 1
  <2>1. Len(S) \in Nat /\ n \in 1 .. Len(S)
    BY HereIs
  <2>2. Len(todo) \in Nat /\ Len(todo) >= 1
    BY PlannedHead
  <2>3. Len(todo) > 1
    BY <2>2, MoreThanOne, Zenon
  <2>4. Len(todo) = Len(S) - n + 1
    BY DEF Position
  <2>5. QED
    BY <2>1, <2>2, <2>3, <2>4
<1>2. Len(next) = c - 1 /\ \A i \in 1 .. c - 1 : next[i] = todo[i + 1]
  <2>1. PICK T : todo \in Seq(T) /\ todo # <<>>
    BY DEF Planned
  <2>2. QED
    BY <1>1, <2>1, TailOf
<1> HIDE DEF next
<1>3. ASSUME NEW i \in 1 .. c - 1 PROVE next[i] = S[(n + 1) + i - 1]
  <2>1. i + 1 \in 2 .. c /\ n + (i + 1) - 1 = (n + 1) + i - 1
    BY <1>1
  <2>2. todo[i + 1] = S[n + (i + 1) - 1]
    BY <1>1, <2>1 DEF Position
  <2>3. QED
    BY <1>2, <2>1, <2>2
<1>4. n + 1 \in 1 .. a /\ c - 1 = a - (n + 1) + 1 /\ 1 \in 1 .. c - 1 /\ (n + 1) + 1 - 1 = n + 1
  BY <1>1
<1>5. next[1] = S[n + 1]
  BY <1>3, <1>4
<1>6. PICK b \in Nat : b = Len(S[n + 1].steps) /\ b >= 1
  <2>1. FunctionOK(S[n + 1])
    BY <1>1, <1>4, PlannedHead
  <2>2. S[n + 1].steps \in Seq(Steps) /\ S[n + 1].steps # <<>>
    BY <2>1 DEF FunctionOK
  <2>3. QED
    BY <2>2, TailOf
<1>7. \A j \in 1 .. b : S[n + 1].steps[j] = S[n + 1].steps[1 + j - 1]
  <2>1. \A j \in 1 .. b : 1 + j - 1 = j
    OBVIOUS
  <2>2. QED
    BY <2>1
<1>8. 1 \in 1 .. b /\ b = b - 1 + 1
  BY <1>6
<1>9. \A i \in 2 .. c - 1 : next[i] = S[(n + 1) + i - 1]
  BY <1>1, <1>3
<1>10. QED
  BY <1>1, <1>2, <1>4, <1>5, <1>6, <1>7, <1>8, <1>9 DEF Position, next

LEMMA MovesOn ==
  ASSUME NEW w, WorkOK(w), w.busy, w.failed = "none", NEW v, GoesOn(w, v),
         NEW S, Planned(S), NEW n, NEW k, Position(w.todo, S, n, k)
  PROVE  /\ v.busy => \/ k # Len(S[n].steps) /\ Position(v.todo, S, n, k + 1)
                      \/ k = Len(S[n].steps) /\ n # Len(S) /\ Position(v.todo, S, n + 1, 1)
         /\ ~v.busy => k = Len(S[n].steps) /\ n = Len(S)
<1>1. Planned(w.todo)
  BY DEF WorkOK
<1>2. /\ Len(w.todo[1].steps) = 1 <=> k = Len(S[n].steps)
      /\ Len(w.todo) = 1 <=> n = Len(S)
  BY <1>1, HereIs
<1>3. ASSUME v.busy, Len(w.todo[1].steps) # 1, v.todo = Stepped(w.todo)
      PROVE  k # Len(S[n].steps) /\ Position(v.todo, S, n, k + 1)
  BY <1>1, <1>2, <1>3, NextStepOf
<1>4. ASSUME v.busy, Len(w.todo[1].steps) = 1, Len(w.todo) # 1, v.todo = Tail(w.todo)
      PROVE  k = Len(S[n].steps) /\ n # Len(S) /\ Position(v.todo, S, n + 1, 1)
  BY <1>1, <1>2, <1>4, NextFunctionOf
<1>5. QED
  BY <1>2, <1>3, <1>4 DEF GoesOn

-----------------------------------------------------------------------------
(* What a step does to the devices, the buffer and the time at hand, when  *)
(* no other call is under way.                                             *)
ByteIn(s) == IF s.do = "put" THEN buf[s.index] ELSE s.byte

(* Addressing a device, sending a byte, receiving one, and the rest.       *)
Addresses(s) ==
  /\ bus' = [device |-> s.device, direction |-> s.direction]
  /\ panel' = IF s.device = "lcd" THEN [panel EXCEPT !.expect = "control"] ELSE panel
  /\ clock' = CASE bus' = [device |-> "rtc", direction |-> "W"] -> [clock EXCEPT !.expect = "pointer"]
                [] bus' = [device |-> "rtc", direction |-> "R"] -> [clock EXCEPT !.latch = clock.registers]
                [] OTHER -> clock
  /\ buf' = buf

Transmits(s) ==
  /\ bus' = bus /\ bus.direction = "W" /\ buf' = buf
  /\ bus.device = "lcd" => panel' = PanelReceives(panel, ByteIn(s)) /\ clock' = clock
  /\ bus.device # "lcd" => clock' = ClockReceives(clock, ByteIn(s)) /\ panel' = panel

Receives(s) ==
  /\ bus' = bus /\ panel' = panel
  /\ buf' = [buf EXCEPT ![s.index] = IF clock.pointer \in Fields THEN clock.latch[clock.pointer] ELSE 0]
  /\ clock' = [clock EXCEPT !.pointer = IF clock.pointer \in Fields THEN clock.pointer + 1 ELSE clock.pointer]

Local(s, time) ==
  /\ clock' = clock /\ panel' = panel
  /\ s.do \in {"encode", "decode", "edit", "keep"} => bus' = bus
  /\ s.do # "encode" => buf' = buf
  /\ s.do = "encode" => InRange(time) /\ buf' = Encode(time)
  /\ s.do = "keep" => startup' = time

TimeAfter(s, time) ==
  CASE s.do = "decode" -> Decode(buf)
    [] s.do = "edit"   -> [time EXCEPT ![s.field] = s.value]
    [] OTHER           -> time

Takes(s, time, next) ==
  /\ s.do # "refuse" /\ next = TimeAfter(s, time)
  /\ s.do = "start" => Addresses(s)
  /\ s.do \in {"write", "put"} => Transmits(s)
  /\ s.do = "get" => Receives(s)
  /\ s.do \notin {"start", "write", "put", "get"} => Local(s, time)

(* What a thread keeps on its way, and what it reports at the end of it.   *)
Onward(w, v) ==
  /\ v.busy => /\ v.call = w.call /\ v.kept = w.kept /\ v.hit = w.hit
               /\ v.seen = w.seen /\ v.alone = w.alone
  /\ ~v.busy => v.error = w.kept

Advances(t) ==
  /\ task[t].failed = "none" /\ GoesOn(task[t], task'[t]) /\ Onward(task[t], task'[t])
  /\ Takes(Step(t), task[t].time, task'[t].time)

Carries(w, v) ==
  v.busy /\ v.call = w.call /\ v.seen = w.seen /\ v.alone = w.alone

Waits(t) ==
  /\ task[t].failed = "none" /\ task'[t].failed = "none"
  /\ Carries(task[t], task'[t]) /\ task'[t].todo = task[t].todo /\ task'[t].time = task[t].time
  /\ task'[t].kept = task[t].kept /\ task'[t].hit = task[t].hit
  /\ UNCHANGED <<bus, panel, clock, buf>>

Stumbles(t) ==
  /\ task[t].failed = "none" /\ task'[t].failed # "none"
  /\ Carries(task[t], task'[t]) /\ task'[t].todo = task[t].todo /\ task'[t].kept = task[t].kept
  /\ drv'[Doing(t).driver].error # "NO_ERROR"
  /\ task'[t].hit # task[t].hit => drv'[Doing(t).driver].error = "DEPENDENCY" /\ Step(t).do # "stop"
  /\ clock' = clock

Quits(t) ==
  /\ ~task'[t].busy /\ clock' = clock
  /\ task[t].kept # "NO_ERROR" => task'[t].error = task[t].kept
  /\ task[t].kept = "NO_ERROR" =>
       /\ task'[t].error # "NO_ERROR"
       /\ task[t].failed # "none" => task'[t].error = drv[Doing(t).driver].error

GoesToEnd(t) ==
  /\ task[t].failed # "none" /\ task'[t].failed = "none" /\ Doing(t).kind = "text"
  /\ Carries(task[t], task'[t]) /\ task'[t].hit = task[t].hit
  /\ task'[t].todo = <<LcdWriteEnd>> /\ task'[t].kept = drv[Doing(t).driver].error
  /\ clock' = clock

Comes(t) == Advances(t) \/ Waits(t) \/ Stumbles(t) \/ Quits(t) \/ GoesToEnd(t)

(* What the steps of the scripts are for. *)
Sensible(t) ==
  /\ Step(t).do = "encode" => Doing(t).driver = "rtc"
  /\ Step(t).do = "refuse" => Doing(t).kind # "info"

(* What each kind of step makes of it. *)
LEMMA KindsApart ==
  ASSUME NEW s
  PROVE  /\ s.do = "start" => /\ s.do # "refuse" /\ s.do \notin {"write", "put"} /\ s.do # "get"
                              /\ ~(s.do \notin {"start", "write", "put", "get"})
         /\ s.do \in {"write", "put"} =>
              /\ s.do # "refuse" /\ s.do # "start" /\ s.do # "get"
              /\ ~(s.do \notin {"start", "write", "put", "get"})
         /\ s.do = "get" => /\ s.do # "refuse" /\ s.do \notin {"write", "put"} /\ s.do # "start"
                            /\ ~(s.do \notin {"start", "write", "put", "get"})
         /\ s.do \notin {"start", "write", "put", "get"} =>
              s.do \notin {"write", "put"} /\ s.do # "start" /\ s.do # "get"
OBVIOUS

LEMMA TakesStart ==
  ASSUME NEW s, NEW m, s.do = "start", Addresses(s)
  PROVE  Takes(s, m, m)
<1>1. m = TimeAfter(s, m)
  BY DEF TimeAfter
<1>2. QED
  BY <1>1, KindsApart, Zenon DEF Takes

LEMMA TakesSent ==
  ASSUME NEW s, NEW m, s.do \in {"write", "put"}, Transmits(s)
  PROVE  Takes(s, m, m)
<1>1. m = TimeAfter(s, m)
  BY DEF TimeAfter
<1>2. QED
  BY <1>1, KindsApart, Zenon DEF Takes

LEMMA TakesGot ==
  ASSUME NEW s, NEW m, s.do = "get", Receives(s)
  PROVE  Takes(s, m, m)
<1>1. m = TimeAfter(s, m)
  BY DEF TimeAfter
<1>2. QED
  BY <1>1, KindsApart, Zenon DEF Takes

LEMMA TakesLocal ==
  ASSUME NEW s, NEW m, NEW next, s.do # "refuse", s.do \notin {"start", "write", "put", "get"},
         next = TimeAfter(s, m), Local(s, m)
  PROVE  Takes(s, m, next)
BY KindsApart, Zenon DEF Takes

(* A thread as it was but for the time at hand. *)
Copies(u, w, time) ==
  /\ DOMAIN u = Members /\ u.busy = w.busy /\ u.todo = w.todo /\ u.failed = w.failed
  /\ u.alone = w.alone /\ u.call = w.call /\ u.kept = w.kept /\ u.hit = w.hit
  /\ u.seen = w.seen /\ u.time = time

LEMMA GoesOnward ==
  ASSUME NEW w, WorkOK(w), w.busy, w.failed = "none", NEW time,
         NEW u, Copies(u, w, time), NEW v, v = PastStep(u)
  PROVE  GoesOn(w, v) /\ Onward(w, v) /\ v.time = time
<1>1. /\ DOMAIN u = Members /\ u.busy = w.busy /\ u.todo = w.todo /\ u.failed = w.failed
      /\ u.alone = w.alone
  BY DEF Copies
<1>2. /\ DOMAIN u = Members /\ u.kept = w.kept /\ u.time = time /\ u.todo = w.todo
      /\ u.call = w.call /\ u.hit = w.hit /\ u.seen = w.seen /\ u.alone = w.alone
  BY DEF Copies
<1>3. GoesOn(w, v)
  BY <1>1, StepPassed
<1>4. Finish(u, v, "NO_ERROR") \/ Same(u, v)
  BY <1>2, PastStepKeeps
<1>5. v.time = time
  BY <1>2, <1>4 DEF Finish, Same
<1>6. CASE Finish(u, v, "NO_ERROR")
  <2>1. ~v.busy /\ v.error = u.kept
    BY <1>6 DEF Finish
  <2>2. v.error = w.kept
    BY <1>2, <2>1
  <2>3. QED
    BY <1>3, <1>5, <2>1, <2>2, Zenon DEF Onward
<1>7. CASE Same(u, v) /\ v.busy
  <2>1. /\ v.call = u.call /\ v.kept = u.kept /\ v.hit = u.hit
        /\ v.seen = u.seen /\ v.alone = u.alone
    BY <1>7 DEF Same
  <2>2. /\ v.call = w.call /\ v.kept = w.kept /\ v.hit = w.hit
        /\ v.seen = w.seen /\ v.alone = w.alone
    BY <1>2, <2>1
  <2>3. QED
    BY <1>3, <1>5, <1>7, <2>2, Zenon DEF Onward
<1>8. CASE Same(u, v) /\ ~v.busy
  <2>1. Len(w.todo[1].steps) = 1 /\ Len(w.todo) = 1 /\ Head(w.todo) = w.todo[1]
    BY <1>3, <1>8, PlannedHead DEF GoesOn, WorkOK
  <2>2. PICK still : still = [u EXCEPT !.ready = FALSE]
    OBVIOUS
  <2>3. still.todo = w.todo /\ DOMAIN still = Members /\ still.kept = w.kept
    BY <1>2, <2>2 DEF Members
  <2>4. v = PastFunction(still)
    <3>1. Len(Head(u.todo).steps) = 1
      BY <1>2, <2>1
    <3>2. QED
      BY <2>2, <3>1, Zenon DEF PastStep
  <2>5. Finish(still, v, "NO_ERROR")
    BY <2>1, <2>3, <2>4, PastFunctionKeeps
  <2>6. v.error = still.kept
    BY <2>5 DEF Finish
  <2>7. v.error = w.kept
    BY <2>3, <2>6
  <2>8. QED
    BY <1>3, <1>5, <1>8, <2>7, Zenon DEF Onward
<1>9. v.busy \in BOOLEAN
  BY <1>3 DEF GoesOn
<1>10. QED
  BY <1>3, <1>4, <1>5, <1>6, <1>7, <1>8, <1>9

LEMMA GoesOnwardAsIs ==
  ASSUME NEW w, WorkOK(w), w.busy, w.failed = "none", NEW v, v = PastStep(w)
  PROVE  GoesOn(w, v) /\ Onward(w, v) /\ v.time = w.time
<1>1. DOMAIN w = Members
  BY DEF WorkOK
<1>2. Copies(w, w, w.time)
  BY <1>1 DEF Copies
<1>3. QED
  BY <1>2, GoesOnward

LEMMA FailedCarries ==
  ASSUME NEW w, WorkOK(w), w.busy, NEW state \in {"error", "dead"},
         NEW v, v = Failed(w, state) \/ v = Failed([w EXCEPT !.hit = TRUE], state)
  PROVE  /\ Carries(w, v) /\ v.todo = w.todo /\ v.kept = w.kept /\ v.failed # "none"
         /\ v = Failed(w, state) => v.hit = w.hit
<1>1. DOMAIN w = Members
  BY DEF WorkOK
<1>2. CASE v = Failed(w, state)
  BY <1>1, <1>2 DEF Failed, Carries, Members
<1>3. CASE v = Failed([w EXCEPT !.hit = TRUE], state)
  BY <1>1, <1>3 DEF Failed, Carries, Members
<1>4. QED
  BY <1>2, <1>3

FailsAsIs(w, v) ==
  Carries(w, v) /\ v.todo = w.todo /\ v.kept = w.kept /\ v.failed # "none" /\ v.hit = w.hit

LEMMA FailedAsIs ==
  ASSUME NEW w, WorkOK(w), w.busy, NEW state, state \in {"error", "dead"}
  PROVE  FailsAsIs(w, Failed(w, state))
<1>1. PICK v : v = Failed(w, state)
  OBVIOUS
<1>2. Carries(w, v) /\ v.todo = w.todo /\ v.kept = w.kept /\ v.failed # "none"
  BY <1>1, FailedCarries
<1>3. v.hit = w.hit
  BY <1>1, FailedCarries
<1>4. QED
  BY <1>1, <1>2, <1>3 DEF FailsAsIs

LEMMA Blamed ==
  ASSUME NEW table \in Tables(BusDrivers), NEW d \in BusDrivers, NEW error \in DriverErrors
  PROVE  LastError(table, d, error)[d].error = error
BY DEF LastError, Tables, DriverRecords

(* The actions of a call, one by one. *)
LEMMA ComputeComes ==
  ASSUME BusInv, NEW t \in Tasks, Compute(t), Sensible(t)
  PROVE  Comes(t)
<1>1. /\ task[t].busy /\ task[t].failed = "none"
      /\ Step(t).do \in {"require", "refuse", "command", "commit"}
  BY DEF Compute, AtStep
<1>2. /\ WorkOK(task[t]) /\ Doing(t).driver \in BusDrivers /\ Step(t) \in Steps
      /\ Doing(t) = Head(task[t].todo) /\ drv \in Tables(BusDrivers) /\ DOMAIN task = Tasks
  BY <1>1, NextStep DEF BusInv, Sound, Doing
<1>3. PICK d, step : d = Doing(t).driver /\ step = Step(t)
  OBVIOUS
<1>4. PICK reply :
        /\ reply = CASE step.do = "require" -> DeviceRequireRunning(drv, d)
                     [] step.do = "refuse"  -> SetError(drv, d, step.error)
                     [] step.do = "command" -> ControlOf(d, drv, step.control)
                     [] step.do = "commit"  -> Reply(CommitBit(drv, d, step.bit), "running")
        /\ drv' = reply.table
        /\ task' = [task EXCEPT ![t] = After(task[t], reply)]
  BY <1>3 DEF Compute
<1>5. clock' = clock /\ panel' = panel /\ buf' = buf
  BY DEF Compute
<1>6. /\ reply.state \in {"error", "dead"} => reply.table[d].error # "NO_ERROR"
      /\ step.do = "refuse" => reply.state = "error"
  <2>1. CASE step.do = "require"
    <3>1. reply = RequireRunning(DeviceStatus(drv, d), d)
      BY <1>4, <2>1 DEF DeviceRequireRunning
    <3>2. Proper(DeviceStatus(drv, d), BusDrivers, d) /\ Keeps(DeviceStatus(drv, d), drv)
      BY <1>2, <1>3, DeviceReply
    <3>3. Proper(reply, BusDrivers, d)
      <4>1. DOMAIN drv = BusDrivers
        BY <1>2 DEF Tables
      <4>2. QED
        BY <1>2, <1>3, <3>1, <3>2, <4>1, RequireReply
    <3>4. QED
      BY <2>1, <3>3 DEF Proper
  <2>2. CASE step.do = "refuse"
    <3>1. reply = SetError(drv, d, step.error) /\ step.error \in Reasons
      BY <1>2, <1>3, <1>4, <2>2, StepKinds
    <3>2. Proper(reply, BusDrivers, d) /\ reply.state = "error"
      BY <1>2, <1>3, <3>1, ErrorReply DEF Reasons
    <3>3. QED
      BY <3>2 DEF Proper
  <2>3. CASE step.do = "command"
    <3>1. reply = ControlOf(d, drv, step.control) /\ step.control \in Controls
      BY <1>2, <1>3, <1>4, <2>3, StepKinds
    <3>2. BusAnswers(reply, drv, d, step.control)
      BY <1>2, <1>3, <3>1, ControlsStore, ControlAnswers
    <3>3. QED
      BY <2>3, <3>2 DEF BusAnswers, Proper
  <2>4. CASE step.do = "commit"
    BY <1>4, <2>4 DEF Reply
  <2>5. QED
    BY <1>1, <1>3, <2>1, <2>2, <2>3, <2>4
<1>7. PICK w, v : w = task[t] /\ v = After(w, reply) /\ task'[t] = v /\ w = task[t]
  BY <1>2, <1>4
<1>8. CASE Doing(t).kind = "info" /\ reply.state = "error"
  <2>1. v = Finished(w, "INVALID_STATE")
    BY <1>2, <1>7, <1>8 DEF After
  <2>2. ~v.busy /\ v.error = IF w.kept = "NO_ERROR" THEN "INVALID_STATE" ELSE w.kept
    BY <2>1, FinishedKeeps DEF Finish
  <2>3. QED
    BY <1>1, <1>5, <1>7, <2>2 DEF Quits, Comes
<1>9. CASE Doing(t).kind # "info" /\ reply.state \in {"error", "dead"}
  <2>1. v = Failed(w, reply.state)
    BY <1>2, <1>7, <1>9 DEF After
  <2>2. Carries(w, v) /\ v.todo = w.todo /\ v.kept = w.kept /\ v.failed # "none" /\ v.hit = w.hit
    <3>1. WorkOK(w) /\ w.busy /\ reply.state \in {"error", "dead"}
      BY <1>1, <1>2, <1>7, <1>9
    <3>2. FailsAsIs(w, Failed(w, reply.state))
      BY <3>1, FailedAsIs, Zenon
    <3>3. QED
      BY <2>1, <3>2 DEF FailsAsIs
  <2>3. Stumbles(t)
    BY <1>1, <1>3, <1>4, <1>5, <1>6, <1>7, <1>9, <2>2 DEF Stumbles
  <2>4. QED
    BY <2>3 DEF Comes
<1>10. CASE /\ ~(Doing(t).kind = "info" /\ reply.state = "error")
            /\ ~(Doing(t).kind # "info" /\ reply.state \in {"error", "dead"})
  <2>1. v = PastStep(w)
    BY <1>2, <1>7, <1>10 DEF After
  <2>2. GoesOn(w, v) /\ Onward(w, v) /\ v.time = w.time
    BY <1>1, <1>2, <1>7, <2>1, GoesOnwardAsIs
  <2>3. Step(t).do # "refuse"
    BY <1>3, <1>6, <1>10 DEF Sensible
  <2>4. Takes(Step(t), w.time, v.time)
    <3>1. w.time = TimeAfter(Step(t), w.time)
      BY <1>1 DEF TimeAfter
    <3>2. Local(Step(t), w.time)
      BY <1>1, <1>5 DEF Local
    <3>3. Step(t).do \notin {"start", "write", "put", "get"}
      BY <1>1
    <3>4. QED
      BY <2>2, <2>3, <3>1, <3>2, <3>3, TakesLocal
  <2>5. QED
    BY <1>1, <1>7, <2>2, <2>4 DEF Advances, Comes
<1>11. QED
  BY <1>8, <1>9, <1>10

LEMMA ConvertComes ==
  ASSUME BusInv, NEW t \in Tasks, Sensible(t),
         EncodeTime(t) \/ DecodeTime(t) \/ EditTime(t) \/ KeepStartupTime(t)
  PROVE  Comes(t)
<1>1. task[t].busy /\ task[t].failed = "none" /\ clock' = clock /\ panel' = panel /\ bus' = bus
  BY DEF EncodeTime, DecodeTime, EditTime, KeepStartupTime, AtStep, chips
<1>2. /\ WorkOK(task[t]) /\ drv \in Tables(BusDrivers) /\ DOMAIN task = Tasks
      /\ "rtc" \in BusDrivers /\ "OUT_OF_RANGE" \in DriverErrors
  BY <1>1, NextStep DEF BusInv, Sound, BusDrivers, DriverErrors
<1>3. PICK s, w, v, m : s = Step(t) /\ w = task[t] /\ v = task'[t] /\ m = w.time
  OBVIOUS
<1>4. ASSUME NEW time, task' = [task EXCEPT ![t] = PastStep([w EXCEPT !.time = time])],
             Takes(s, w.time, time)
      PROVE  Comes(t)
  <2>1. PICK u : u = [w EXCEPT !.time = time]
    OBVIOUS
  <2>2. v = PastStep(u)
    BY <1>2, <1>3, <1>4, <2>1
  <2>3. GoesOn(w, v) /\ Onward(w, v) /\ v.time = time
    <3>1. WorkOK(w) /\ w.busy /\ w.failed = "none" /\ DOMAIN w = Members
      BY <1>1, <1>2, <1>3 DEF WorkOK
    <3>2. Copies(u, w, time)
      BY <2>1, <3>1 DEF Members, Copies
    <3>3. QED
      BY <2>2, <3>1, <3>2, GoesOnward, Zenon
  <2>4. QED
    BY <1>1, <1>3, <1>4, <2>3 DEF Advances, Comes
<1>5. ASSUME task' = [task EXCEPT ![t] = PastStep(w)], Takes(s, w.time, w.time)
      PROVE  Comes(t)
  <2>1. v = PastStep(w)
    BY <1>2, <1>3, <1>5
  <2>2. GoesOn(w, v) /\ Onward(w, v) /\ v.time = w.time
    BY <1>1, <1>2, <1>3, <2>1, GoesOnwardAsIs
  <2>3. QED
    BY <1>1, <1>3, <1>5, <2>2 DEF Advances, Comes
<1>6. CASE EncodeTime(t) /\ InRange(w.time)
  <2>1. s.do = "encode" /\ buf' = Encode(w.time) /\ task' = [task EXCEPT ![t] = PastStep(w)]
    BY <1>3, <1>6 DEF EncodeTime, AtStep
  <2>2. Takes(s, w.time, w.time)
    <3>1. w.time = TimeAfter(s, w.time)
      BY <2>1 DEF TimeAfter
    <3>2. Local(s, w.time)
      BY <1>1, <1>6, <2>1 DEF Local
    <3>3. s.do # "refuse" /\ s.do \notin {"start", "write", "put", "get"}
      BY <2>1
    <3>4. QED
      BY <3>1, <3>2, <3>3, TakesLocal
  <2>3. QED
    BY <1>5, <2>1, <2>2
<1>7. CASE EncodeTime(t) /\ ~InRange(w.time)
  <2>1. /\ s.do = "encode" /\ drv' = LastError(drv, "rtc", "OUT_OF_RANGE")
        /\ task' = [task EXCEPT ![t] = Failed(w, "error")]
    BY <1>3, <1>7 DEF EncodeTime, AtStep
  <2>2. Doing(t).driver = "rtc"
    BY <1>3, <2>1 DEF Sensible
  <2>3. drv'["rtc"].error = "OUT_OF_RANGE"
    BY <1>2, <2>1, Blamed
  <2>4. v = Failed(w, "error")
    BY <1>2, <1>3, <2>1
  <2>5. Carries(w, v) /\ v.todo = w.todo /\ v.kept = w.kept /\ v.failed # "none" /\ v.hit = w.hit
    <3>1. WorkOK(w) /\ w.busy
      BY <1>1, <1>2, <1>3
    <3>2. QED
      BY <2>4, <3>1, FailedCarries
  <2>6. QED
    BY <1>1, <1>3, <2>2, <2>3, <2>5 DEF Stumbles, Comes
<1>8. CASE DecodeTime(t)
  <2>1. /\ s.do = "decode" /\ buf' = buf
        /\ task' = [task EXCEPT ![t] = PastStep([w EXCEPT !.time = Decode(buf)])]
    BY <1>3, <1>8 DEF DecodeTime, AtStep
  <2>2. Takes(s, w.time, Decode(buf))
    <3>1. Decode(buf) = TimeAfter(s, w.time)
      BY <2>1 DEF TimeAfter
    <3>2. Local(s, w.time)
      BY <1>1, <2>1 DEF Local
    <3>3. s.do # "refuse" /\ s.do \notin {"start", "write", "put", "get"}
      BY <2>1
    <3>4. QED
      BY <3>1, <3>2, <3>3, TakesLocal
  <2>3. QED
    BY <1>4, <2>1, <2>2
<1>9. CASE EditTime(t)
  <2>1. PICK edited : edited = [w.time EXCEPT ![s.field] = s.value]
    OBVIOUS
  <2>2. /\ s.do = "edit" /\ buf' = buf
        /\ task' = [task EXCEPT ![t] = PastStep([w EXCEPT !.time = edited])]
    BY <1>3, <1>9, <2>1 DEF EditTime, AtStep
  <2>3. Takes(s, w.time, edited)
    <3>1. edited = TimeAfter(s, w.time)
      BY <2>1, <2>2 DEF TimeAfter
    <3>2. Local(s, w.time)
      BY <1>1, <2>2 DEF Local
    <3>3. s.do # "refuse" /\ s.do \notin {"start", "write", "put", "get"}
      BY <2>2
    <3>4. QED
      BY <3>1, <3>2, <3>3, TakesLocal
  <2>4. QED
    BY <1>4, <2>2, <2>3
<1>10. CASE KeepStartupTime(t)
  <2>1. s.do = "keep" /\ buf' = buf /\ startup' = w.time /\ task' = [task EXCEPT ![t] = PastStep(w)]
    BY <1>3, <1>10 DEF KeepStartupTime, AtStep
  <2>2. Takes(s, w.time, w.time)
    <3>1. w.time = TimeAfter(s, w.time)
      BY <2>1 DEF TimeAfter
    <3>2. Local(s, w.time)
      BY <1>1, <2>1 DEF Local
    <3>3. s.do # "refuse" /\ s.do \notin {"start", "write", "put", "get"}
      BY <2>1
    <3>4. QED
      BY <3>1, <3>2, <3>3, TakesLocal
  <2>3. QED
    BY <1>5, <2>1, <2>2
<1>11. QED
  BY <1>6, <1>7, <1>8, <1>9, <1>10

LEMMA CheckComes ==
  ASSUME BusInv, NEW t \in Tasks, CheckBus(t)
  PROVE  Comes(t)
<1>1. /\ task[t].busy /\ task[t].failed = "none"
      /\ clock' = clock /\ panel' = panel /\ bus' = bus /\ buf' = buf
  BY DEF CheckBus, AtStep, chips
<1>2. /\ WorkOK(task[t]) /\ DOMAIN task[t] = Members /\ DOMAIN task = Tasks /\ Sound(drv)
      /\ Doing(t).driver \in BusDrivers /\ "DEPENDENCY" \in DriverErrors
  BY <1>1, NextStep DEF BusInv, WorkOK, DriverErrors
<1>3. PICK asked : asked = I2cRequireRunning(drv)
  OBVIOUS
<1>4. asked.table \in Tables(BusDrivers)
  BY <1>2, <1>3, BusAsked DEF Sound
<1>5. CASE asked.state = "error"
  <2>1. drv' = LastError(asked.table, Doing(t).driver, "DEPENDENCY")
        /\ task'[t] = Failed(task[t], "error")
    BY <1>2, <1>3, <1>5 DEF CheckBus, BlameBus, Doing
  <2>2. drv'[Doing(t).driver].error = "DEPENDENCY"
    BY <1>2, <1>4, <2>1, Blamed
  <2>3. /\ Carries(task[t], task'[t]) /\ task'[t].todo = task[t].todo
        /\ task'[t].kept = task[t].kept /\ task'[t].failed # "none" /\ task'[t].hit = task[t].hit
    <3>1. FailsAsIs(task[t], Failed(task[t], "error"))
      BY <1>1, <1>2, FailedAsIs, Zenon
    <3>2. QED
      BY <2>1, <3>1 DEF FailsAsIs
  <2>4. QED
    BY <1>1, <2>2, <2>3 DEF Stumbles, Comes
<1>6. CASE asked.state # "error"
  <2>1. task'[t] = [task[t] EXCEPT !.ready = TRUE]
    BY <1>2, <1>3, <1>6 DEF CheckBus
  <2>2. QED
    BY <1>1, <1>2, <2>1 DEF Waits, Carries, Members, Comes
<1>7. QED
  BY <1>5, <1>6

LEMMA TransferComes ==
  ASSUME BusInv, ChipTypes, NEW t \in Tasks, Transfer(t), Busy \subseteq {t}
  PROVE  Comes(t)
<1>1. /\ task[t].busy /\ task[t].failed = "none" /\ Step(t).do \in BusOps
      /\ Address(t) \/ SendByte(t) \/ ReceiveByte(t) \/ Release(t)
      /\ task' = [task EXCEPT ![t] = PastStep(task[t])]
  BY DEF Transfer, AtStep
<1>2. WorkOK(task[t]) /\ DOMAIN task = Tasks /\ Step(t) \in Steps
  BY <1>1, NextStep DEF BusInv
<1>3. /\ GoesOn(task[t], task'[t]) /\ Onward(task[t], task'[t])
      /\ task'[t].time = task[t].time
  <2>1. task'[t] = PastStep(task[t])
    BY <1>1, <1>2
  <2>2. QED
    BY <1>1, <1>2, <2>1, GoesOnwardAsIs
<1>4. PICK s, m : s = Step(t) /\ m = task[t].time
  OBVIOUS
<1>5. ASSUME Address(t) PROVE Takes(s, m, m)
  <2>1. s.do = "start" /\ Addresses(s)
    BY <1>4, <1>5 DEF Address, Addresses
  <2>2. QED
    BY <2>1, TakesStart
<1>6. ASSUME SendByte(t) PROVE Takes(s, m, m)
  <2>1. BytesOnTheirWay(t) = {ByteIn(s)}
    <3>1. \A v \in Tasks \ {t} : ~AtStep(v, {"write", "put"})
      BY DEF AtStep, Busy
    <3>2. ByteOf(t) = ByteIn(s)
      BY <1>4 DEF ByteOf, ByteIn
    <3>3. QED
      BY <3>1, <3>2 DEF BytesOnTheirWay
  <2>2. /\ s.do \in {"write", "put"} /\ bus.direction = "W" /\ bus' = bus /\ buf' = buf
        /\ IF bus.device = "lcd"
           THEN panel' = PanelReceives(panel, ByteIn(s)) /\ clock' = clock
           ELSE clock' = ClockReceives(clock, ByteIn(s)) /\ panel' = panel
    BY <1>4, <1>6, <2>1 DEF SendByte
  <2>3. Transmits(s)
    BY <2>2 DEF Transmits
  <2>4. QED
    BY <2>2, <2>3, TakesSent
<1>7. ASSUME ReceiveByte(t) PROVE Takes(s, m, m)
  <2>1. s.do = "get" /\ Receives(s)
    BY <1>4, <1>7 DEF ReceiveByte, Receives
  <2>2. QED
    BY <2>1, TakesGot
<1>8. ASSUME Release(t) PROVE Takes(s, m, m)
  <2>1. s.do = "stop" /\ clock' = clock /\ panel' = panel /\ buf' = buf
    BY <1>4, <1>8 DEF Release
  <2>2. m = TimeAfter(s, m) /\ Local(s, m)
    BY <2>1 DEF TimeAfter, Local
  <2>3. QED
    <3>1. s.do # "refuse" /\ s.do \notin {"start", "write", "put", "get"}
      BY <2>1
    <3>2. QED
      BY <2>2, <3>1, TakesLocal
<1>9. Takes(s, m, m)
  BY <1>1, <1>5, <1>6, <1>7, <1>8, Zenon
<1>10. QED
  BY <1>1, <1>3, <1>4, <1>9 DEF Advances, Comes

LEMMA FaultComes ==
  ASSUME BusInv, NEW t \in Tasks, Fault(t)
  PROVE  Comes(t)
<1>1. task[t].busy /\ task[t].failed = "none" /\ clock' = clock /\ Step(t).do # "stop"
  BY DEF Fault, AtStep
<1>2. /\ WorkOK(task[t]) /\ DOMAIN task = Tasks /\ Sound(drv)
      /\ Doing(t).driver \in BusDrivers /\ "i2c" \in BusDrivers
      /\ "DEPENDENCY" \in DriverErrors /\ OperationError(t) \in DriverErrors
  BY <1>1, NextStep DEF BusInv, BusDrivers, DriverErrors, OperationError
<1>3. PICK between : between = LastError(drv, "i2c", OperationError(t))
  OBVIOUS
<1>4. between \in Tables(BusDrivers)
  BY <1>2, <1>3, ErrorTable DEF Sound
<1>5. /\ drv' = LastError(between, Doing(t).driver, "DEPENDENCY")
      /\ task' = [task EXCEPT ![t] = Failed([task[t] EXCEPT !.hit = TRUE], "error")]
  BY <1>3 DEF Fault, GiveUp, BlameBus, Doing
<1>6. drv'[Doing(t).driver].error = "DEPENDENCY"
  BY <1>2, <1>4, <1>5, Blamed
<1>7. /\ Carries(task[t], task'[t]) /\ task'[t].todo = task[t].todo
      /\ task'[t].kept = task[t].kept /\ task'[t].failed # "none"
  <2>1. task'[t] = Failed([task[t] EXCEPT !.hit = TRUE], "error")
    BY <1>2, <1>5
  <2>2. QED
    BY <1>1, <1>2, <2>1, FailedCarries
<1>8. QED
  BY <1>1, <1>6, <1>7 DEF Stumbles, Comes

LEMMA AskComes ==
  ASSUME BusInv, NEW t \in Tasks, SnapshotError(t), drv[Doing(t).driver].error # "NO_ERROR"
  PROVE  Comes(t)
<1>1. task[t].busy /\ task[t].failed # "none" /\ clock' = clock
  BY DEF SnapshotError, chips
<1>2. WorkOK(task[t]) /\ DOMAIN task[t] = Members /\ DOMAIN task = Tasks
  BY <1>1, NextStep DEF BusInv, WorkOK
<1>3. PICK w, v, error : w = task[t] /\ v = task'[t] /\ error = drv[Doing(t).driver].error
  OBVIOUS
<1>4. v = AfterError(w, error)
  BY <1>2, <1>3 DEF SnapshotError
<1>5. \/ v = Finished(w, error)
      \/ /\ Doing(t).kind = "text"
         /\ v = [w EXCEPT !.todo = <<LcdWriteEnd>>, !.failed = "none", !.kept = error]
  BY <1>3, <1>4 DEF AfterError, Doing
<1>6. CASE v = Finished(w, error)
  <2>1. ~v.busy /\ v.error = IF w.kept = "NO_ERROR" THEN error ELSE w.kept
    BY <1>6, FinishedKeeps DEF Finish
  <2>2. QED
    BY <1>1, <1>3, <2>1 DEF Quits, Comes
<1>7. CASE /\ Doing(t).kind = "text"
           /\ v = [w EXCEPT !.todo = <<LcdWriteEnd>>, !.failed = "none", !.kept = error]
  BY <1>1, <1>2, <1>3, <1>7 DEF GoesToEnd, Carries, Members, Comes
<1>8. QED
  BY <1>5, <1>6, <1>7

LEMMA StepsCome ==
  ASSUME BusInv, ChipTypes, NEW t \in Tasks, CallStep(t), Busy \subseteq {t},
         task[t].failed = "none" => Sensible(t),
         task[t].failed # "none" => drv[Doing(t).driver].error # "NO_ERROR"
  PROVE  Comes(t)
<1>1. CASE SnapshotError(t)
  <2>1. task[t].failed # "none"
    BY <1>1 DEF SnapshotError
  <2>2. QED
    BY <1>1, <2>1, AskComes
<1>2. CASE Compute(t) \/ EncodeTime(t) \/ DecodeTime(t) \/ EditTime(t) \/ KeepStartupTime(t)
  <2>1. task[t].failed = "none"
    BY <1>2 DEF Compute, EncodeTime, DecodeTime, EditTime, KeepStartupTime, AtStep
  <2>2. QED
    BY <1>2, <2>1, ComputeComes, ConvertComes
<1>3. QED
  BY <1>1, <1>2, CheckComes, TransferComes, FaultComes DEF CallStep

-----------------------------------------------------------------------------
(* The scripts, step by step. *)
ReadSteps(s) ==
  /\ s \in Seq(Steps) /\ Len(s) = RegisterCount + 6
  /\ s[1] = Require /\ s[2] = Start("rtc", "W") /\ s[3] = Write(0) /\ s[4] = Start("rtc", "R")
  /\ \A i \in Fields : s[4 + i] = Get(i)
  /\ s[RegisterCount + 5] = Stop /\ s[RegisterCount + 6] = FromRegisters

WriteSteps(s) ==
  /\ s \in Seq(Steps) /\ Len(s) = RegisterCount + 5
  /\ s[1] = Require /\ s[2] = ToRegisters /\ s[3] = Start("rtc", "W") /\ s[4] = Write(0)
  /\ \A i \in Fields : s[4 + i] = Put(i)
  /\ s[RegisterCount + 5] = Stop

LEMMA ManyRegisters ==
  ASSUME RegisterAssumption
  PROVE  RegisterCount \in Nat /\ RegisterCount >= 1 /\ Fields = 1 .. RegisterCount
<1>1. RegisterCount \in Nat /\ RegisterCount > 0
  BY LenProperties DEF RegisterAssumption, RegisterCount
<1>2. QED
  BY <1>1 DEF Fields

(* Three sequences one behind the other. *)
Trio(S, a, b, c, s, x, y, z) ==
  /\ x = Len(a) /\ y = Len(b) /\ z = Len(c) /\ x \in Nat /\ y \in Nat /\ z \in Nat
  /\ s \in Seq(S) /\ Len(s) = x + y + z
  /\ \A i \in 1 .. x : s[i] = a[i]
  /\ \A i \in 1 .. y : s[x + i] = b[i]
  /\ \A i \in 1 .. z : s[x + y + i] = c[i]

LEMMA ThreeJoined ==
  ASSUME NEW S, NEW a \in Seq(S), NEW b \in Seq(S), NEW c \in Seq(S), NEW s, s = (a \o b) \o c
  PROVE  Trio(S, a, b, c, s, Len(a), Len(b), Len(c))
<1>1. PICK front : front = a \o b
  OBVIOUS
<1>2. PICK x \in Nat, y \in Nat : Joint(S, a, b, front, x, y)
  BY <1>1, Joined
<1>3. front \in Seq(S)
  BY <1>2 DEF Joint
<1>4. PICK v \in Nat, z \in Nat : Joint(S, front, c, s, v, z)
  BY <1>1, <1>3, Joined
<1>5. /\ x = Len(a) /\ y = Len(b) /\ z = Len(c) /\ v = x + y /\ s \in Seq(S) /\ Len(s) = x + y + z
      /\ \A i \in 1 .. x : front[i] = a[i]
      /\ \A i \in 1 .. y : front[x + i] = b[i]
      /\ \A i \in 1 .. v : s[i] = front[i]
      /\ \A i \in 1 .. z : s[v + i] = c[i]
  BY <1>2, <1>4 DEF Joint
<1>6. \A i \in 1 .. x : s[i] = a[i]
  BY <1>5
<1>7. \A i \in 1 .. y : s[x + i] = b[i]
  <2>1. \A i \in 1 .. y : x + i \in 1 .. v
    BY <1>5
  <2>2. QED
    BY <1>5, <2>1
<1>8. Trio(S, a, b, c, s, x, y, z)
  BY <1>5, <1>6, <1>7 DEF Trio
<1>9. QED
  BY <1>5, <1>8

LEMMA ReadScript ==
  ASSUME RegisterAssumption
  PROVE  ReadSteps(RtcRead) /\ WriteSteps(RtcWrite)
<1>1. RegisterCount \in Nat /\ Fields = 1 .. RegisterCount
  BY ManyRegisters
<1>2. PICK gets, puts : gets = [i \in Fields |-> Get(i)] /\ puts = [i \in Fields |-> Put(i)]
  OBVIOUS
<1>3. /\ gets \in Seq(Steps) /\ Len(gets) = RegisterCount /\ \A i \in Fields : gets[i] = Get(i)
      /\ puts \in Seq(Steps) /\ Len(puts) = RegisterCount /\ \A i \in Fields : puts[i] = Put(i)
  <2>1. gets \in Seq(Steps) /\ puts \in Seq(Steps)
    BY <1>2, RegisterSteps
  <2>2. DOMAIN gets = 1 .. RegisterCount /\ DOMAIN puts = 1 .. RegisterCount
    BY <1>1, <1>2
  <2>3. Len(gets) = RegisterCount /\ Len(puts) = RegisterCount
    BY <1>1, <2>1, <2>2, LenProperties
  <2>4. QED
    BY <1>2, <2>1, <2>3
<1>4. /\ {Stop, Require, ToRegisters, FromRegisters, Write(0)} \subseteq Steps
      /\ Start("rtc", "W") \in Steps /\ Start("rtc", "R") \in Steps
  BY StepsKnown
<1>5. PICK headR, headW, lastR, lastW :
        /\ headR = <<Require, Start("rtc", "W"), Write(0), Start("rtc", "R")>>
        /\ headW = <<Require, ToRegisters, Start("rtc", "W"), Write(0)>>
        /\ lastR = <<Stop, FromRegisters>> /\ lastW = <<Stop>>
  OBVIOUS
<1>6. /\ headR \in Seq(Steps) /\ headW \in Seq(Steps) /\ lastR \in Seq(Steps) /\ lastW \in Seq(Steps)
      /\ Len(headR) = 4 /\ Len(headW) = 4 /\ Len(lastR) = 2 /\ Len(lastW) = 1
      /\ headR[1] = Require /\ headR[2] = Start("rtc", "W") /\ headR[3] = Write(0)
      /\ headR[4] = Start("rtc", "R") /\ lastR[1] = Stop /\ lastR[2] = FromRegisters
      /\ headW[1] = Require /\ headW[2] = ToRegisters /\ headW[3] = Start("rtc", "W")
      /\ headW[4] = Write(0) /\ lastW[1] = Stop
  BY <1>4, <1>5
<1>7. PICK read, wrote : read = RtcRead /\ wrote = RtcWrite
  OBVIOUS
<1>8. read = (headR \o gets) \o lastR /\ wrote = (headW \o puts) \o lastW
  BY <1>2, <1>5, <1>7 DEF RtcRead, RtcWrite
<1>9. PICK r \in Nat : r = RegisterCount
  BY <1>1
<1>0. Trio(Steps, headR, gets, lastR, read, 4, r, 2) /\ Trio(Steps, headW, puts, lastW, wrote, 4, r, 1)
  <2>1. Trio(Steps, headR, gets, lastR, read, Len(headR), Len(gets), Len(lastR))
    BY <1>3, <1>6, <1>8, ThreeJoined, Zenon
  <2>2. Trio(Steps, headW, puts, lastW, wrote, Len(headW), Len(puts), Len(lastW))
    BY <1>3, <1>6, <1>8, ThreeJoined, Zenon
  <2>3. QED
    BY <1>3, <1>6, <1>9, <2>1, <2>2
<1>10. /\ read \in Seq(Steps) /\ Len(read) = 4 + r + 2 /\ \A i \in 1 .. 4 : read[i] = headR[i]
       /\ \A i \in 1 .. r : read[4 + i] = gets[i]
       /\ \A i \in 1 .. 2 : read[4 + r + i] = lastR[i]
  BY <1>0 DEF Trio
<1>11. /\ wrote \in Seq(Steps) /\ Len(wrote) = 4 + r + 1 /\ \A i \in 1 .. 4 : wrote[i] = headW[i]
       /\ \A i \in 1 .. r : wrote[4 + i] = puts[i]
       /\ \A i \in 1 .. 1 : wrote[4 + r + i] = lastW[i]
  BY <1>0 DEF Trio
<1>12. 4 + r + 2 = r + 6 /\ 4 + r + 1 = r + 5
  OBVIOUS
<1>13. read[4 + r + 1] = Stop /\ read[4 + r + 2] = FromRegisters /\ wrote[4 + r + 1] = Stop
  BY <1>6, <1>10, <1>11
<1>14. ReadSteps(read)
  BY <1>1, <1>3, <1>6, <1>9, <1>10, <1>12, <1>13 DEF ReadSteps
<1>15. WriteSteps(wrote)
  BY <1>1, <1>3, <1>6, <1>9, <1>11, <1>12, <1>13 DEF WriteSteps
<1>16. QED
  BY <1>7, <1>14, <1>15

(* Steps that use the bus for the display only, and write to it when it is *)
(* addressed.                                                              *)
OnDisplay(s) ==
  /\ s \in Seq(Steps)
  /\ \A k \in 1 .. Len(s) :
       /\ s[k].do \in {"require", "start", "write", "stop", "command", "commit"}
       /\ s[k].do = "start" => s[k] = Start("lcd", "W")
       /\ s[k].do = "write" => k > 1 /\ s[k - 1].do \in {"start", "write"}

LEMMA OnDisplayJoined ==
  ASSUME NEW s, NEW t, OnDisplay(s), OnDisplay(t)
  PROVE  OnDisplay(s \o t)
<1>1. s \in Seq(Steps) /\ t \in Seq(Steps)
  BY DEF OnDisplay
<1>2. PICK u : u = s \o t
  OBVIOUS
<1>3. PICK x \in Nat, y \in Nat : Joint(Steps, s, t, u, x, y)
  BY <1>1, <1>2, Joined
<1>4. ASSUME NEW k \in 1 .. x + y
      PROVE  /\ u[k].do \in {"require", "start", "write", "stop", "command", "commit"}
             /\ u[k].do = "start" => u[k] = Start("lcd", "W")
             /\ u[k].do = "write" => k > 1 /\ u[k - 1].do \in {"start", "write"}
  <2>1. CASE k \in 1 .. x
    <3>1. u[k] = s[k] /\ k \in 1 .. Len(s) /\ (k > 1 => k - 1 \in 1 .. x)
      BY <1>3, <2>1 DEF Joint
    <3>2. k > 1 => u[k - 1] = s[k - 1]
      BY <1>3, <3>1 DEF Joint
    <3>3. QED
      BY <3>1, <3>2 DEF OnDisplay
  <2>2. CASE k \in x + 1 .. x + y
    <3>1. PICK i \in 1 .. y : i = k - x
      BY <2>2
    <3>2. u[k] = t[i] /\ i \in 1 .. Len(t) /\ (i > 1 => k - 1 \in x + 1 .. x + y /\ (k - 1) - x = i - 1 /\ k > 1)
      BY <1>3, <2>2, <3>1 DEF Joint
    <3>3. i > 1 => u[k - 1] = t[i - 1]
      BY <1>3, <3>2 DEF Joint
    <3>4. QED
      BY <3>2, <3>3 DEF OnDisplay
  <2>3. QED
    BY <2>1, <2>2
<1>5. QED
  BY <1>2, <1>3, <1>4 DEF Joint, OnDisplay

LEMMA CommandOnDisplay ==
  ASSUME NEW b \in 0 .. 255
  PROVE  OnDisplay(SendCommand(b))
<1> DEFINE s == SendCommand(b)
<1>1. Start("lcd", "W") \in Steps /\ Write(CMD) \in Steps /\ Write(b) \in Steps /\ Stop \in Steps
  BY StepsKnown DEF CMD
<1>2. /\ s \in Seq(Steps) /\ Len(s) = 4 /\ s[1] = Start("lcd", "W") /\ s[2] = Write(CMD)
      /\ s[3] = Write(b) /\ s[4] = Stop
  BY <1>1 DEF SendCommand
<1> HIDE DEF s
<1>3. s[1].do = "start" /\ s[2].do = "write" /\ s[3].do = "write" /\ s[4].do = "stop"
  BY <1>2, StepDoes
<1>4. QED
  BY <1>2, <1>3 DEF OnDisplay, s

LEMMA SingleOnDisplay ==
  ASSUME NEW s \in Steps, s.do \in {"require", "stop", "command", "commit"}
  PROVE  OnDisplay(<<s>>)
BY DEF OnDisplay

QuietNames == {"lcdClear", "driverControl", "driverGetInfo"}

LEMMA QuietScript ==
  ASSUME NEW call, Callable(call), call.name \in QuietNames
  PROVE  Len(Script(call)) = 1 /\ OnDisplay(Script(call)[1].steps)
<1>1. ASSUME NEW d, NEW kind, NEW steps, OnDisplay(steps), Script(call) = <<Function(d, kind, steps)>>
      PROVE  Len(Script(call)) = 1 /\ OnDisplay(Script(call)[1].steps)
  BY <1>1 DEF Function
<1>2. /\ CLEAR \in 0 .. 255 /\ SETUP \in 0 .. 255 /\ DISPLAYMODE \in 0 .. 255 /\ ENTRYMODE \in 0 .. 255
      /\ Require \in Steps /\ Require.do = "require"
      /\ \A c \in Controls : Command(c) \in Steps /\ Command(c).do = "command"
      /\ \A b \in {"init", "start"} : Commit(b) \in Steps /\ Commit(b).do = "commit"
      /\ \A op \in LifeOps : Plain(op) \in Controls
      /\ "INIT" \in LifeOps /\ "START" \in LifeOps
  BY StepsKnown, StepDoes DEF CLEAR, SETUP, DISPLAYMODE, ENTRYMODE, Controls, LifeOps
<1>3. CASE call.name = "lcdClear"
  <2>1. OnDisplay(<<Require>> \o SendCommand(CLEAR))
    BY <1>2, SingleOnDisplay, CommandOnDisplay, OnDisplayJoined
  <2>2. Script(call) = <<Function("lcd", "call", <<Require>> \o SendCommand(CLEAR))>>
    BY <1>3 DEF Script, LcdClear
  <2>3. QED
    BY <1>1, <2>1, <2>2
<1>4. CASE call.name = "driverGetInfo"
  <2>1. /\ With("RLGET", 0) \in Controls /\ With("GETBIT", "init") \in Controls
        /\ With("GETBIT", "start") \in Controls /\ With("GETBIT", "error") \in Controls
        /\ With("GETBIT", "dead") \in Controls
    BY DEF Controls, StatusBits
  <2>2. InfoSteps \in Seq(Steps) /\ Len(InfoSteps) = 5
    BY <2>1, StepsKnown DEF InfoSteps
  <2>3. \A k \in 1 .. 5 : InfoSteps[k].do = "command"
    BY StepDoes DEF InfoSteps
  <2>4. OnDisplay(InfoSteps)
    BY <2>2, <2>3 DEF OnDisplay
  <2>5. Script(call) = <<Function(call.driver, "info", InfoSteps)>>
    BY <1>4 DEF Script
  <2>6. QED
    BY <1>1, <2>4, <2>5
<1>5. CASE call.name = "driverControl"
  <2>1. PICK op \in LifeOps : op = call.op
    BY <1>5 DEF Callable
  <2>2. Script(call) = <<Function(call.driver, "command", ControlScript(call.driver, call.op))>>
    BY <1>5 DEF Script
  <2>3. CASE call.driver = "lcd" /\ call.op = "INIT"
    <3>1. PICK a, b, c, e, f, g :
            /\ a = <<Command(Plain("INIT"))>> /\ b = SendCommand(SETUP) /\ c = SendCommand(DISPLAYMODE)
            /\ e = SendCommand(CLEAR) /\ f = SendCommand(ENTRYMODE) /\ g = <<Commit("init")>>
      OBVIOUS
    <3>2. /\ OnDisplay(a) /\ OnDisplay(b) /\ OnDisplay(c) /\ OnDisplay(e) /\ OnDisplay(f)
          /\ OnDisplay(g)
      BY <1>2, <3>1, SingleOnDisplay, CommandOnDisplay
    <3>3. OnDisplay(((((a \o b) \o c) \o e) \o f) \o g)
      BY <3>2, OnDisplayJoined
    <3>4. ControlScript(call.driver, call.op) = ((((a \o b) \o c) \o e) \o f) \o g
      BY <2>3, <3>1 DEF ControlScript, LcdInit
    <3>5. QED
      BY <1>1, <2>2, <3>3, <3>4
  <2>4. CASE call.driver = "lcd" /\ call.op = "START"
    <3>1. PICK a, b, g :
            a = <<Command(Plain("START"))>> /\ b = SendCommand(CLEAR) /\ g = <<Commit("start")>>
      OBVIOUS
    <3>2. OnDisplay(a) /\ OnDisplay(b) /\ OnDisplay(g)
      BY <1>2, <3>1, SingleOnDisplay, CommandOnDisplay
    <3>3. OnDisplay((a \o b) \o g)
      BY <3>2, OnDisplayJoined
    <3>4. ControlScript(call.driver, call.op) = (a \o b) \o g
      BY <2>4, <3>1 DEF ControlScript, LcdStart
    <3>5. QED
      BY <1>1, <2>2, <3>3, <3>4
  <2>5. CASE ~(call.driver = "lcd" /\ call.op \in {"INIT", "START"})
    <3>1. ControlScript(call.driver, call.op) = <<Command(Plain(op))>>
      BY <2>1, <2>5 DEF ControlScript
    <3>2. OnDisplay(<<Command(Plain(op))>>)
      BY <1>2, SingleOnDisplay
    <3>3. QED
      BY <1>1, <2>2, <3>1, <3>2
  <2>6. QED
    BY <2>3, <2>4, <2>5
<1>6. QED
  BY <1>3, <1>4, <1>5 DEF QuietNames

-----------------------------------------------------------------------------
(* The functions that write a text. *)
FitsDisplay(call)  == call.row < Rows /\ call.col < Columns
Place(call) == RowAddress(call.row) + call.col

CursorSteps(call, s) ==
  /\ FitsDisplay(call) =>
       /\ Len(s) = 5 /\ s[1] = Require /\ s[2] = Start("lcd", "W") /\ s[3] = Write(CMD)
       /\ s[4] = Write(SETCURSOR + Place(call)) /\ s[5] = Stop
  /\ ~FitsDisplay(call) => Len(s) = 2 /\ s[1] = Require /\ s[2] = Refuse("OUT_OF_RANGE")

TextFunctions(call, S) ==
  /\ Len(S) = Len(call.text) + 3
  /\ CursorSteps(call, S[1].steps) /\ S[1].kind = "call" /\ S[1].driver = "lcd"
  /\ S[2].steps = <<Require, Start("lcd", "W"), Write(DATA)>> /\ S[2].kind = "call"
  /\ \A i \in 1 .. Len(call.text) : S[2 + i].steps = <<Write(call.text[i])>>
  /\ S[Len(call.text) + 3].steps = <<Stop>>

LEMMA PlaceFits ==
  ASSUME NEW call, call.row \in 0 .. 255, call.col \in 0 .. 255, FitsDisplay(call)
  PROVE  Place(call) \in 0 .. 103 /\ SETCURSOR + Place(call) \in 128 .. 231
         /\ <<0, 64, 20, 84>>[call.row + 1] + call.col - 1 = Place(call) - 1
<1>1. call.row \in {0, 1, 2, 3} /\ call.col \in 0 .. 19
  BY DEF FitsDisplay, Rows, Columns
<1>2. RowAddress(call.row) \in 0 .. 84 /\ RowAddress(call.row) = <<0, 64, 20, 84>>[call.row + 1]
  BY <1>1 DEF RowAddress
<1>3. \A a \in 0 .. 84, c \in 0 .. 19 : a + c \in 0 .. 103 /\ 128 + (a + c) \in 128 .. 231
  OBVIOUS
<1>4. QED
  BY <1>1, <1>2, <1>3, SMTT(30) DEF Place, SETCURSOR

LEMMA CursorScript ==
  ASSUME NEW call, call.row \in 0 .. 255, call.col \in 0 .. 255
  PROVE  CursorSteps(call, LcdSetCursor(call.row, call.col).steps)
<1>1. CASE FitsDisplay(call)
  <2>1. PICK b : b = SETCURSOR + Place(call)
    OBVIOUS
  <2>2. b = SETCURSOR + RowAddress(call.row) + call.col
    <3>1. call.row \in {0, 1, 2, 3} /\ call.col \in 0 .. 19
      BY <1>1 DEF FitsDisplay, Rows, Columns
    <3>2. RowAddress(call.row) \in 0 .. 84
      BY <3>1 DEF RowAddress
    <3>3. \A a \in 0 .. 84, c \in 0 .. 19 : 128 + (a + c) = 128 + a + c
      OBVIOUS
    <3>4. QED
      BY <2>1, <3>1, <3>2, <3>3 DEF SETCURSOR, Place
  <2>3. PICK s : s = LcdSetCursor(call.row, call.col).steps
    OBVIOUS
  <2>4. s = <<Require>> \o SendCommand(b)
    BY <1>1, <2>2, <2>3 DEF LcdSetCursor, Function, FitsDisplay
  <2>5. PICK c1, c2, c3, c4, c5 :
          c1 = Require /\ c2 = Start("lcd", "W") /\ c3 = Write(CMD) /\ c4 = Write(b) /\ c5 = Stop
    OBVIOUS
  <2>6. s = <<c1>> \o <<c2, c3, c4, c5>>
    BY <2>4, <2>5 DEF SendCommand
  <2>7. Len(s) = 5 /\ s[1] = c1 /\ s[2] = c2 /\ s[3] = c3 /\ s[4] = c4 /\ s[5] = c5
    BY <2>6
  <2>8. QED
    BY <1>1, <2>1, <2>3, <2>5, <2>7 DEF CursorSteps
<1>2. CASE ~FitsDisplay(call)
  <2>1. PICK s : s = LcdSetCursor(call.row, call.col).steps
    OBVIOUS
  <2>2. s = <<Require>> \o <<Refuse("OUT_OF_RANGE")>>
    BY <1>2, <2>1 DEF LcdSetCursor, Function, FitsDisplay
  <2>3. PICK c1, c2 : c1 = Require /\ c2 = Refuse("OUT_OF_RANGE")
    OBVIOUS
  <2>4. s = <<c1>> \o <<c2>>
    BY <2>2, <2>3
  <2>5. Len(s) = 2 /\ s[1] = c1 /\ s[2] = c2
    BY <2>4
  <2>6. QED
    BY <1>2, <2>1, <2>3, <2>5 DEF CursorSteps
<1>3. QED
  BY <1>1, <1>2

LEMMA TextParts ==
  ASSUME NEW call, Callable(call), call.name = "lcdWriteString"
  PROVE  /\ TextFunctions(call, Script(call)) /\ Len(call.text) \in Nat
         /\ DOMAIN call.text = 1 .. Len(call.text)
         /\ \A i \in 1 .. Len(call.text) : call.text[i] \in 0 .. 255
<1>1. /\ call.row \in 0 .. 255 /\ call.col \in 0 .. 255 /\ call.text \in Seq(0 .. 255)
  BY DEF Callable
<1>2. PICK n \in Nat :
        /\ n = Len(call.text) /\ DOMAIN call.text = 1 .. n
        /\ \A i \in 1 .. n : call.text[i] \in 0 .. 255
  <2>1. ASSUME NEW S, NEW chars \in Seq(S)
        PROVE  /\ Len(chars) \in Nat /\ DOMAIN chars = 1 .. Len(chars)
               /\ \A i \in 1 .. Len(chars) : chars[i] \in S
    OBVIOUS
  <2>2. QED
    BY <1>1, <2>1, Zenon
<1>3. PICK cursor, start, end, bytes, T :
        /\ cursor = LcdSetCursor(call.row, call.col) /\ start = LcdWriteStart /\ end = LcdWriteEnd
        /\ bytes = [i \in DOMAIN call.text |-> LcdWriteByte(call.text[i])]
        /\ T = {cursor, start, end} \cup {LcdWriteByte(call.text[i]) : i \in DOMAIN call.text}
  OBVIOUS
<1>4. /\ bytes \in Seq(T) /\ Len(bytes) = n
      /\ \A i \in 1 .. n : bytes[i] = LcdWriteByte(call.text[i])
  <2>1. bytes \in [1 .. n -> T] /\ \A i \in 1 .. n : bytes[i] = LcdWriteByte(call.text[i])
    BY <1>2, <1>3
  <2>2. bytes \in Seq(T)
    BY <2>1
  <2>3. QED
    BY <2>1, <2>2, LenProperties
<1>5. PICK head, last : head = <<cursor, start>> /\ last = <<end>>
  OBVIOUS
<1>6. /\ head \in Seq(T) /\ last \in Seq(T) /\ Len(head) = 2 /\ Len(last) = 1
      /\ head[1] = cursor /\ head[2] = start /\ last[1] = end
  BY <1>3, <1>5
<1>7. PICK S : S = Script(call)
  OBVIOUS
<1>8. S = (head \o bytes) \o last
  BY <1>3, <1>5, <1>7 DEF Script
<1>9. Trio(T, head, bytes, last, S, 2, n, 1)
  <2>1. Trio(T, head, bytes, last, S, Len(head), Len(bytes), Len(last))
    BY <1>4, <1>6, <1>8, ThreeJoined, Zenon
  <2>2. QED
    BY <1>4, <1>6, <2>1
<1>10. /\ Len(S) = n + 3 /\ S[1] = cursor /\ S[2] = start /\ S[n + 3] = end
       /\ \A i \in 1 .. n : S[2 + i] = LcdWriteByte(call.text[i])
  <2>1. /\ Len(S) = 2 + n + 1 /\ \A i \in 1 .. 2 : S[i] = head[i]
        /\ \A i \in 1 .. n : S[2 + i] = bytes[i]
        /\ \A i \in 1 .. 1 : S[2 + n + i] = last[i]
    BY <1>9 DEF Trio
  <2>2. S[2 + n + 1] = end /\ 2 + n + 1 = n + 3
    BY <1>6, <2>1
  <2>3. QED
    BY <1>4, <1>6, <2>1, <2>2
<1>11. /\ cursor.kind = "call" /\ cursor.driver = "lcd" /\ end.steps = <<Stop>>
       /\ start.steps = <<Require, Start("lcd", "W"), Write(DATA)>> /\ start.kind = "call"
       /\ \A i \in 1 .. n : LcdWriteByte(call.text[i]).steps = <<Write(call.text[i])>>
  BY <1>3 DEF LcdSetCursor, LcdWriteStart, LcdWriteEnd, LcdWriteByte, Function
<1>12. CursorSteps(call, cursor.steps)
  BY <1>1, <1>3, CursorScript
<1>13. TextFunctions(call, S)
  BY <1>2, <1>10, <1>11, <1>12 DEF TextFunctions
<1>14. QED
  BY <1>2, <1>7, <1>13

-----------------------------------------------------------------------------
(* What a thread knows of the devices at each step of a function.  Reading *)
(* the time: the latch shows a time the clock has shown, and the registers *)
(* taken so far are that time's.                                           *)
To(d, direction) == [device |-> d, direction |-> direction]

ReadKnows(seen, b, c, f, k) ==
  /\ c.registers \in seen
  /\ k = 3 => b = To("rtc", "W") /\ c.expect = "pointer"
  /\ k = 4 => c.pointer = 1
  /\ k \in 5 .. RegisterCount + 5 =>
       c.pointer = k - 4 /\ c.latch \in seen /\ \A j \in Fields : j < k - 4 => f[j] = c.latch[j]
  /\ k = RegisterCount + 6 => f \in seen

(* Writing it: the registers written so far are those of the time.         *)
WriteKnows(time, b, c, f, k) ==
  /\ k > 2 => InRange(time) /\ f = Encode(time)
  /\ k = 4 => b = To("rtc", "W") /\ c.expect = "pointer"
  /\ k > 4 => /\ b = To("rtc", "W") /\ c.expect = "data" /\ c.pointer = k - 4
              /\ \A j \in Fields : j < k - 4 => c.registers[j] = f[j]

(* The clock's registers change one at a time, to that of a time in range. *)
StaysTime ==
  \/ clock'.registers = clock.registers
  \/ \E m \in Times, i \in Fields :
       InRange(m) /\ clock'.registers = [clock.registers EXCEPT ![i] = Encode(m)[i]]

LEMMA Taken ==
  ASSUME NEW s, NEW m, NEW next, Takes(s, m, next)
  PROVE  /\ s.do # "refuse"
         /\ s.do = "start" => Addresses(s) /\ next = m
         /\ s.do \in {"write", "put"} => Transmits(s) /\ next = m
         /\ s.do = "get" => Receives(s) /\ next = m
         /\ s.do \in {"require", "stop", "encode", "keep", "command", "commit"} => Local(s, m) /\ next = m
         /\ s.do = "decode" => Local(s, m) /\ next = Decode(buf)
         /\ s.do = "edit" => Local(s, m) /\ next = [m EXCEPT ![s.field] = s.value]
<1>1. s.do # "refuse" /\ next = TimeAfter(s, m)
  BY DEF Takes
<1>2. /\ s.do \notin {"decode", "edit"} => next = m
      /\ s.do = "decode" => next = Decode(buf)
      /\ s.do = "edit" => next = [m EXCEPT ![s.field] = s.value]
  BY <1>1 DEF TimeAfter
<1>3. s.do = "start" => Addresses(s)
  BY Zenon DEF Takes
<1>4. s.do \in {"write", "put"} => Transmits(s)
  BY Zenon DEF Takes
<1>5. s.do = "get" => Receives(s)
  BY Zenon DEF Takes
<1>6. s.do \notin {"start", "write", "put", "get"} => Local(s, m)
  BY Zenon DEF Takes
<1>7. /\ s.do \in {"require", "stop", "encode", "keep", "command", "commit", "decode", "edit"} =>
           s.do \notin {"start", "write", "put", "get"}
      /\ s.do \in {"require", "stop", "encode", "keep", "command", "commit", "start", "write", "put", "get"} =>
           s.do \notin {"decode", "edit"}
  OBVIOUS
<1>8. ASSUME s.do = "start" PROVE Addresses(s) /\ next = m
  BY <1>2, <1>3, <1>7, <1>8
<1>9. ASSUME s.do \in {"write", "put"} PROVE Transmits(s) /\ next = m
  BY <1>2, <1>4, <1>7, <1>9
<1>10. ASSUME s.do = "get" PROVE Receives(s) /\ next = m
  BY <1>2, <1>5, <1>7, <1>10
<1>11. ASSUME s.do \in {"require", "stop", "encode", "keep", "command", "commit"}
       PROVE  Local(s, m) /\ next = m
  BY <1>2, <1>6, <1>7, <1>11
<1>12. ASSUME s.do \in {"decode", "edit"} PROVE Local(s, m)
  BY <1>6, <1>7, <1>12
<1>13. QED
  BY <1>1, <1>2, <1>8, <1>9, <1>10, <1>11, <1>12

LEMMA ReadMoves ==
  ASSUME RegisterAssumption, ChipTypes, NEW steps, ReadSteps(steps), NEW k \in 1 .. Len(steps),
         NEW seen, seen \subseteq Times, ReadKnows(seen, bus, clock, buf, k),
         NEW time, NEW next, Takes(steps[k], time, next)
  PROVE  /\ clock'.registers = clock.registers
         /\ k # Len(steps) => ReadKnows(seen, bus', clock', buf', k + 1)
         /\ k = Len(steps) => \E bytes \in seen : next = Decode(bytes)
<1>1. PICK r \in Nat : r = RegisterCount /\ r >= 1 /\ Fields = 1 .. r
  BY ManyRegisters
<1>2. k \in 1 .. r + 6 /\ Len(steps) = r + 6
  BY <1>1 DEF ReadSteps
<1>3. PICK s : s = steps[k]
  OBVIOUS
<1>4. Takes(s, time, next)
  BY <1>3
<1>5. /\ clock \in Clocks /\ buf \in Times /\ DOMAIN buf = Fields /\ DOMAIN clock.latch = Fields
      /\ clock.latch \in Times /\ clock.registers \in seen
  BY DEF ChipTypes, Clocks, Times, ReadKnows
<1>6. CASE k = 1
  <2>1. s.do = "require"
    BY <1>3, <1>6, StepDoes DEF ReadSteps
  <2>2. clock' = clock
    BY <1>4, <2>1, Taken DEF Local
  <2>3. ReadKnows(seen, bus', clock', buf', 2)
    BY <1>1, <1>5, <2>2 DEF ReadKnows
  <2>4. QED
    BY <1>1, <1>2, <1>6, <2>2, <2>3
<1>7. CASE k = 2
  <2>1. s.do = "start" /\ s.device = "rtc" /\ s.direction = "W"
    BY <1>3, <1>7 DEF ReadSteps, Start
  <2>2. Addresses(s)
    BY <1>4, <2>1, Taken
  <2>3. bus' = To("rtc", "W") /\ clock' = [clock EXCEPT !.expect = "pointer"]
    BY <2>1, <2>2 DEF Addresses, To
  <2>4. clock'.registers = clock.registers /\ clock'.expect = "pointer"
    BY <1>5, <2>3 DEF Clocks
  <2>5. ReadKnows(seen, bus', clock', buf', 3)
    BY <1>1, <1>5, <2>3, <2>4 DEF ReadKnows
  <2>6. QED
    BY <1>1, <1>2, <1>7, <2>4, <2>5
<1>8. CASE k = 3
  <2>1. s.do = "write" /\ s.byte = 0
    BY <1>3, <1>8 DEF ReadSteps, Write
  <2>2. Transmits(s)
    BY <1>4, <2>1, Taken
  <2>3. bus.device = "rtc" /\ clock.expect = "pointer"
    BY <1>8 DEF ReadKnows, To
  <2>4. clock' = ClockReceives(clock, 0)
    BY <2>1, <2>2, <2>3 DEF Transmits, ByteIn
  <2>5. clock' = [clock EXCEPT !.expect = "data", !.pointer = 1]
    BY <1>1, <2>3, <2>4 DEF ClockReceives
  <2>6. clock'.registers = clock.registers /\ clock'.pointer = 1
    BY <1>5, <2>5 DEF Clocks
  <2>7. ReadKnows(seen, bus', clock', buf', 4)
    BY <1>1, <1>5, <2>6 DEF ReadKnows
  <2>8. QED
    BY <1>1, <1>2, <1>8, <2>6, <2>7
<1>9. CASE k = 4
  <2>1. s.do = "start" /\ s.device = "rtc" /\ s.direction = "R"
    BY <1>3, <1>9 DEF ReadSteps, Start
  <2>2. Addresses(s)
    BY <1>4, <2>1, Taken
  <2>3. clock' = [clock EXCEPT !.latch = clock.registers]
    BY <2>1, <2>2 DEF Addresses
  <2>4. clock'.registers = clock.registers /\ clock'.pointer = 1 /\ clock'.latch = clock.registers
    BY <1>5, <1>9, <2>3 DEF Clocks, ReadKnows
  <2>5. ReadKnows(seen, bus', clock', buf', 5)
    BY <1>1, <1>5, <2>4 DEF ReadKnows
  <2>6. QED
    BY <1>1, <1>2, <1>9, <2>4, <2>5
<1>10. CASE k \in 5 .. r + 4
  <2>1. PICK i \in Fields : i = k - 4 /\ k = 4 + i
    BY <1>1, <1>10
  <2>2. s.do = "get" /\ s.index = i
    <3>1. steps[4 + i] = Get(i)
      BY DEF ReadSteps
    <3>2. s = Get(i)
      BY <1>3, <2>1, <3>1
    <3>3. QED
      BY <3>2 DEF Get
  <2>3. Receives(s)
    BY <1>4, <2>2, Taken
  <2>4. k \in 5 .. RegisterCount + 5
    BY <1>1, <1>10
  <2>5. clock.pointer = i /\ clock.latch \in seen /\ \A j \in Fields : j < i => buf[j] = clock.latch[j]
    BY <2>1, <2>4 DEF ReadKnows
  <2>6. buf' = [buf EXCEPT ![i] = clock.latch[i]] /\ clock' = [clock EXCEPT !.pointer = i + 1]
    BY <2>2, <2>3, <2>5 DEF Receives
  <2>7. clock'.registers = clock.registers /\ clock'.latch = clock.latch /\ clock'.pointer = i + 1
    BY <1>5, <2>6 DEF Clocks
  <2>8. \A j \in Fields : j < i + 1 => buf'[j] = clock'.latch[j]
    BY <1>1, <1>5, <2>5, <2>6, <2>7
  <2>9. k + 1 \in 5 .. r + 5 /\ (k + 1) - 4 = i + 1 /\ k + 1 # 3 /\ k + 1 # 4 /\ k + 1 # r + 6
    BY <1>1, <1>10, <2>1
  <2>10. ReadKnows(seen, bus', clock', buf', k + 1)
    BY <1>1, <1>5, <2>5, <2>7, <2>8, <2>9 DEF ReadKnows
  <2>11. k # Len(steps)
    BY <1>2, <1>10
  <2>12. QED
    BY <2>7, <2>10, <2>11
<1>11. CASE k = r + 5
  <2>1. s.do = "stop"
    BY <1>1, <1>3, <1>11, StepDoes DEF ReadSteps
  <2>2. clock' = clock /\ buf' = buf
    BY <1>4, <2>1, Taken DEF Local
  <2>3. buf \in seen
    <3>1. k \in 5 .. RegisterCount + 5 /\ \A j \in Fields : j < k - 4
      BY <1>1, <1>11
    <3>2. clock.latch \in seen /\ \A j \in Fields : buf[j] = clock.latch[j]
      BY <3>1 DEF ReadKnows
    <3>3. buf = clock.latch
      BY <1>5, <3>2 DEF Times
    <3>4. QED
      BY <3>2, <3>3
  <2>4. k + 1 \notin 5 .. r + 5 /\ k + 1 # 3 /\ k + 1 # 4 /\ k # Len(steps)
    BY <1>1, <1>2, <1>11
  <2>5. ReadKnows(seen, bus', clock', buf', k + 1)
    BY <1>1, <1>5, <2>2, <2>3, <2>4 DEF ReadKnows
  <2>6. QED
    BY <2>2, <2>4, <2>5
<1>12. CASE k = r + 6
  <2>1. s.do = "decode"
    BY <1>1, <1>3, <1>12, StepDoes DEF ReadSteps
  <2>2. clock' = clock /\ next = Decode(buf)
    BY <1>4, <2>1, Taken DEF Local
  <2>3. buf \in seen
    BY <1>1, <1>12 DEF ReadKnows
  <2>4. k = Len(steps)
    BY <1>2, <1>12
  <2>5. QED
    BY <2>2, <2>3, <2>4
<1>13. k \in {1, 2, 3, 4} \/ k \in 5 .. r + 4 \/ k = r + 5 \/ k = r + 6
  BY <1>1, <1>2
<1>14. QED
  BY <1>6, <1>7, <1>8, <1>9, <1>10, <1>11, <1>12, <1>13

LEMMA WriteMoves ==
  ASSUME RegisterAssumption, ChipTypes, NEW steps, WriteSteps(steps), NEW k \in 1 .. Len(steps),
         NEW time \in Times, WriteKnows(time, bus, clock, buf, k),
         NEW next, Takes(steps[k], time, next)
  PROVE  /\ StaysTime /\ next = time
         /\ k # Len(steps) => WriteKnows(time, bus', clock', buf', k + 1)
         /\ k = Len(steps) => InRange(time) /\ clock.registers = Encode(time) /\ clock' = clock
<1>1. PICK r \in Nat : r = RegisterCount /\ r >= 1 /\ Fields = 1 .. r
  BY ManyRegisters
<1>2. k \in 1 .. r + 5 /\ Len(steps) = r + 5
  BY <1>1 DEF WriteSteps
<1>3. PICK s : s = steps[k]
  OBVIOUS
<1>4. Takes(s, time, next)
  BY <1>3
<1>5. clock \in Clocks /\ buf \in Times /\ clock.registers \in Times
  BY DEF ChipTypes, Clocks
<1>6. CASE k = 1
  <2>1. s.do = "require"
    BY <1>3, <1>6, StepDoes DEF WriteSteps
  <2>2. clock' = clock /\ next = time
    BY <1>4, <2>1, Taken DEF Local
  <2>3. WriteKnows(time, bus', clock', buf', 2)
    BY DEF WriteKnows
  <2>4. QED
    BY <1>1, <1>2, <1>6, <2>2, <2>3 DEF StaysTime
<1>7. CASE k = 2
  <2>1. s.do = "encode"
    BY <1>3, <1>7, StepDoes DEF WriteSteps
  <2>2. Local(s, time) /\ next = time
    BY <1>4, <2>1, Taken
  <2>3. clock' = clock /\ InRange(time) /\ buf' = Encode(time)
    BY <2>1, <2>2 DEF Local
  <2>4. WriteKnows(time, bus', clock', buf', 3)
    BY <2>3 DEF WriteKnows
  <2>5. QED
    BY <1>1, <1>2, <1>7, <2>2, <2>3, <2>4 DEF StaysTime
<1>8. k > 2 => InRange(time) /\ buf = Encode(time)
  BY DEF WriteKnows
<1>9. CASE k = 3
  <2>1. s.do = "start" /\ s.device = "rtc" /\ s.direction = "W"
    BY <1>3, <1>9 DEF WriteSteps, Start
  <2>2. Addresses(s) /\ next = time
    BY <1>4, <2>1, Taken
  <2>3. bus' = To("rtc", "W") /\ clock' = [clock EXCEPT !.expect = "pointer"] /\ buf' = buf
    BY <2>1, <2>2 DEF Addresses, To
  <2>4. clock'.registers = clock.registers /\ clock'.expect = "pointer"
    BY <1>5, <2>3 DEF Clocks
  <2>5. WriteKnows(time, bus', clock', buf', 4)
    BY <1>8, <1>9, <2>3, <2>4 DEF WriteKnows
  <2>6. QED
    BY <1>1, <1>2, <1>9, <2>2, <2>4, <2>5 DEF StaysTime
<1>10. CASE k = 4
  <2>1. s.do = "write" /\ s.byte = 0
    BY <1>3, <1>10 DEF WriteSteps, Write
  <2>2. Transmits(s) /\ next = time
    BY <1>4, <2>1, Taken
  <2>3. bus = To("rtc", "W") /\ bus.device = "rtc" /\ clock.expect = "pointer"
    BY <1>10 DEF WriteKnows, To
  <2>4. clock' = ClockReceives(clock, 0) /\ bus' = bus /\ buf' = buf
    BY <2>1, <2>2, <2>3 DEF Transmits, ByteIn
  <2>5. clock' = [clock EXCEPT !.expect = "data", !.pointer = 1]
    BY <1>1, <2>3, <2>4 DEF ClockReceives
  <2>6. clock'.registers = clock.registers /\ clock'.pointer = 1 /\ clock'.expect = "data"
    BY <1>5, <2>5 DEF Clocks
  <2>7. WriteKnows(time, bus', clock', buf', 5)
    BY <1>1, <1>8, <1>10, <2>3, <2>4, <2>6 DEF WriteKnows
  <2>8. QED
    BY <1>1, <1>2, <1>10, <2>2, <2>6, <2>7 DEF StaysTime
<1>11. k > 4 => /\ bus = To("rtc", "W") /\ bus.device = "rtc" /\ clock.expect = "data"
                /\ clock.pointer = k - 4 /\ \A j \in Fields : j < k - 4 => clock.registers[j] = buf[j]
  BY DEF WriteKnows, To
<1>12. CASE k \in 5 .. r + 4
  <2>1. PICK i \in Fields : i = k - 4 /\ k = 4 + i /\ k > 4
    BY <1>1, <1>12
  <2>2. s.do = "put" /\ s.index = i
    <3>1. steps[4 + i] = Put(i)
      BY DEF WriteSteps
    <3>2. s = Put(i)
      BY <1>3, <2>1, <3>1
    <3>3. QED
      BY <3>2 DEF Put
  <2>3. Transmits(s) /\ next = time
    BY <1>4, <2>2, Taken
  <2>4. /\ clock.pointer = i /\ clock.expect = "data" /\ bus.device = "rtc"
        /\ \A j \in Fields : j < i => clock.registers[j] = buf[j]
    BY <1>11, <2>1
  <2>5. clock' = ClockReceives(clock, buf[i]) /\ bus' = bus /\ buf' = buf
    BY <2>2, <2>3, <2>4 DEF Transmits, ByteIn
  <2>6. PICK regs : regs = [clock.registers EXCEPT ![i] = buf[i]]
    OBVIOUS
  <2>7. clock' = [clock EXCEPT !.registers = regs, !.pointer = i + 1]
    <3>1. clock.pointer \in Fields /\ clock.expect # "pointer"
      BY <2>4
    <3>2. ClockReceives(clock, buf[i])
            = [clock EXCEPT !.registers[clock.pointer] = buf[i], !.pointer = clock.pointer + 1]
      BY <2>4, <3>1 DEF ClockReceives
    <3>3. QED
      BY <1>5, <2>4, <2>5, <2>6, <3>2 DEF Clocks
  <2>8. clock'.registers = regs /\ clock'.pointer = i + 1 /\ clock'.expect = "data"
    BY <1>5, <2>4, <2>7 DEF Clocks
  <2>9. \A j \in Fields : j < i + 1 => regs[j] = buf[j]
    BY <1>1, <1>5, <2>4, <2>6 DEF Times
  <2>10. (k + 1) - 4 = i + 1 /\ k + 1 > 4 /\ k + 1 # 4 /\ k > 2 /\ k # Len(steps)
    BY <1>1, <1>2, <1>12, <2>1
  <2>11. WriteKnows(time, bus', clock', buf', k + 1)
    BY <1>8, <1>11, <2>1, <2>5, <2>8, <2>9, <2>10 DEF WriteKnows
  <2>12. StaysTime
    BY <1>8, <2>6, <2>8, <2>10 DEF StaysTime
  <2>13. QED
    BY <2>3, <2>10, <2>11, <2>12
<1>13. CASE k = r + 5
  <2>1. s.do = "stop"
    BY <1>1, <1>3, <1>13, StepDoes DEF WriteSteps
  <2>2. clock' = clock /\ next = time
    BY <1>4, <2>1, Taken DEF Local
  <2>3. k > 4 /\ k > 2 /\ \A j \in Fields : j < k - 4
    BY <1>1, <1>13
  <2>4. \A j \in Fields : clock.registers[j] = buf[j]
    BY <1>11, <2>3
  <2>5. clock.registers = buf
    BY <1>5, <2>4 DEF Times
  <2>6. QED
    BY <1>2, <1>8, <1>13, <2>2, <2>3, <2>5 DEF StaysTime
<1>14. k \in {1, 2, 3, 4} \/ k \in 5 .. r + 4 \/ k = r + 5
  BY <1>1, <1>2
<1>15. QED
  BY <1>6, <1>7, <1>9, <1>10, <1>12, <1>13, <1>14

-----------------------------------------------------------------------------
(* Writing a text: the display's address is behind the last character.     *)
Stands(call, p, m) ==
  \A j \in 1 .. m :
    /\ Place(call) + j - 1 \in DOMAIN p.cells
    /\ p.cells[Place(call) + j - 1] = call.text[j]

TextKnows(call, b, p, n, k) ==
  /\ n > 1 => FitsDisplay(call)
  /\ n = 1 /\ FitsDisplay(call) =>
       /\ k \in {3, 4} => b.device = "lcd"
       /\ k = 3 => p.expect = "control"
       /\ k = 4 => p.expect = "command"
       /\ k = 5 => p.at = Place(call)
  /\ n = 2 => p.at = Place(call) /\ (k = 3 => b.device = "lcd" /\ p.expect = "control")
  /\ n > 2 => /\ b.device = "lcd" /\ p.expect = "data" /\ p.at = Place(call) + (n - 3)
              /\ Stands(call, p, n - 3)

LEMMA PanelControl ==
  ASSUME NEW p, DOMAIN p = Parts, p.expect = "control"
  PROVE  /\ PanelReceives(p, CMD).expect = "command" /\ PanelReceives(p, CMD).at = p.at
         /\ PanelReceives(p, DATA).expect = "data" /\ PanelReceives(p, DATA).at = p.at
<1>1. PanelReceives(p, CMD) = [p EXCEPT !.expect = "command"]
  BY DEF PanelReceives, CMD, DATA
<1>2. PanelReceives(p, DATA) = [p EXCEPT !.expect = "data"]
  BY DEF PanelReceives, CMD, DATA
<1>3. QED
  BY <1>1, <1>2 DEF Parts

\* The cursor a panel `p` has once it has taken the byte `b`.
CursorAfter(p, b) == PanelReceives(p, b).at

LEMMA PanelCommand ==
  ASSUME NEW p, DOMAIN p = Parts, p.expect = "command", NEW x \in 0 .. 103,
         NEW b, b = SETCURSOR + x
  PROVE  CursorAfter(p, b) = x
<1>1. b # CLEAR /\ b >= SETCURSOR /\ b - SETCURSOR = x
  BY DEF SETCURSOR, CLEAR
<1>0. PICK next : next = [p EXCEPT !.expect = "control"]
  OBVIOUS
<1>2. next = [p EXCEPT !.expect = "control"] /\ DOMAIN next = Parts
  BY <1>0 DEF Parts
<1>3. Obey(p, b) = [next EXCEPT !.at = x]
  BY <1>1, <1>2 DEF Obey
<1>4. PanelReceives(p, b) = Obey(p, b)
  BY DEF PanelReceives
<1>5. QED
  BY <1>1, <1>2, <1>3, <1>4 DEF Parts, CursorAfter

LEMMA PanelData ==
  ASSUME NEW p, DOMAIN p = Parts, p.expect = "data", NEW b
  PROVE  LET q == PanelReceives(p, b)
         IN  /\ q.expect = "data" /\ q.at = p.at + 1
             /\ DOMAIN q.cells = {p.at} \cup DOMAIN p.cells /\ q.cells[p.at] = b
             /\ \A x \in DOMAIN p.cells : x # p.at => q.cells[x] = p.cells[x]
<1>1. PICK cells, x : /\ cells = [y \in DOMAIN p.cells \cup {x} |-> IF y = x THEN b ELSE p.cells[y]]
                      /\ x = p.at
  OBVIOUS
<1>2. PanelReceives(p, b) = [p EXCEPT !.cells = cells, !.at = x + 1]
  <2>1. PanelReceives(p, b) =
          [p EXCEPT !.at = p.at + 1,
             !.cells = [y \in DOMAIN p.cells \cup {p.at} |-> IF y = p.at THEN b ELSE p.cells[y]]]
    BY DEF PanelReceives
  <2>2. QED
    BY <1>1, <2>1 DEF Parts
<1>4. /\ DOMAIN cells = {x} \cup DOMAIN p.cells /\ cells[x] = b
      /\ \A y \in DOMAIN p.cells : y # x => cells[y] = p.cells[y]
  BY <1>1
<1>5. PICK q : q = PanelReceives(p, b) /\ q.expect = "data" /\ q.at = x + 1 /\ q.cells = cells
  BY <1>2 DEF Parts
<1>6. QED
  BY <1>1, <1>4, <1>5

LEMMA DisplaySteps ==
  ASSUME NEW s, NEW time, NEW next, Takes(s, time, next)
  PROVE  /\ s.do \in {"require", "stop", "command", "commit"} => clock' = clock /\ panel' = panel
         /\ s = Start("lcd", "W") =>
              /\ clock' = clock /\ bus'.device = "lcd"
              /\ panel' = [panel EXCEPT !.expect = "control"]
         /\ bus.device = "lcd" => \A b : s = Write(b) =>
              clock' = clock /\ bus' = bus /\ panel' = PanelReceives(panel, b)
<1>1. ASSUME s.do \in {"require", "stop", "command", "commit"}
      PROVE  clock' = clock /\ panel' = panel
  BY <1>1, Taken DEF Local
<1>2. ASSUME s = Start("lcd", "W")
      PROVE  clock' = clock /\ bus'.device = "lcd" /\ panel' = [panel EXCEPT !.expect = "control"]
  <2>1. s.do = "start" /\ s.device = "lcd" /\ s.direction = "W"
    BY <1>2 DEF Start
  <2>2. Addresses(s)
    BY <2>1, Taken
  <2>3. bus' = [device |-> "lcd", direction |-> "W"] /\ panel' = [panel EXCEPT !.expect = "control"]
    BY <2>1, <2>2 DEF Addresses
  <2>4. /\ bus' # [device |-> "rtc", direction |-> "W"] /\ bus' # [device |-> "rtc", direction |-> "R"]
        /\ bus'.device = "lcd"
    BY <2>3
  <2>5. clock' = clock
    BY <2>2, <2>4 DEF Addresses
  <2>6. QED
    BY <2>3, <2>4, <2>5
<1>3. ASSUME bus.device = "lcd", NEW b, s = Write(b)
      PROVE  clock' = clock /\ bus' = bus /\ panel' = PanelReceives(panel, b)
  <2>1. s.do = "write" /\ s.byte = b
    BY <1>3 DEF Write
  <2>2. Transmits(s)
    BY <2>1, Taken
  <2>3. QED
    BY <1>3, <2>1, <2>2 DEF Transmits, ByteIn
<1>4. QED
  BY <1>1, <1>2, <1>3

(* The outcome of a step of a text's functions. *)
TextGoes(call, S, n, k) ==
  /\ clock' = clock
  /\ k # Len(S[n].steps) => TextKnows(call, bus', panel', n, k + 1)
  /\ k = Len(S[n].steps) /\ n # Len(S) => TextKnows(call, bus', panel', n + 1, 1)
  /\ k = Len(S[n].steps) /\ n = Len(S) => FitsDisplay(call) /\ Stands(call, panel', Len(call.text))

LEMMA CursorMoves ==
  ASSUME DOMAIN panel = Parts, NEW call, call.row \in 0 .. 255, call.col \in 0 .. 255,
         NEW S, CursorSteps(call, S[1].steps), Len(S) # 1, NEW k \in 1 .. Len(S[1].steps),
         TextKnows(call, bus, panel, 1, k), NEW time, NEW next, Takes(S[1].steps[k], time, next)
  PROVE  TextGoes(call, S, 1, k)
<1>1. PICK s, steps : s = steps[k] /\ steps = S[1].steps
  OBVIOUS
<1>2. Takes(s, time, next) /\ CursorSteps(call, steps)
  BY <1>1
<1>3. CASE ~FitsDisplay(call)
  <2>2. Len(steps) = 2 /\ steps[1] = Require /\ steps[2] = Refuse("OUT_OF_RANGE")
    BY <1>2, <1>3 DEF CursorSteps
  <2>3. k = 1 \/ k = 2
    BY <1>1, <2>2
  <2>4. k # 2
    <3>1. SUFFICES ASSUME k = 2 PROVE FALSE
      OBVIOUS
    <3>2. s.do = "refuse"
      BY <1>1, <2>2, <3>1, StepDoes
    <3>3. QED
      BY <1>2, <3>2, Taken
  <2>5. s.do = "require"
    BY <1>1, <2>2, <2>3, <2>4, StepDoes
  <2>6. clock' = clock
    BY <1>2, <2>5, DisplaySteps
  <2>7. TextKnows(call, bus', panel', 1, 2)
    BY <1>3 DEF TextKnows
  <2>8. QED
    BY <1>1, <2>2, <2>3, <2>4, <2>6, <2>7 DEF TextGoes
<1>4. CASE FitsDisplay(call)
  <2>1. /\ Len(steps) = 5 /\ steps[1] = Require /\ steps[2] = Start("lcd", "W")
        /\ steps[3] = Write(CMD) /\ steps[4] = Write(SETCURSOR + Place(call)) /\ steps[5] = Stop
    BY <1>2, <1>4 DEF CursorSteps
  <2>2. PICK p : p = panel /\ DOMAIN p = Parts
    OBVIOUS
  <2>3. /\ k \in {3, 4} => bus.device = "lcd"
        /\ k = 3 => p.expect = "control"
        /\ k = 4 => p.expect = "command"
        /\ k = 5 => p.at = Place(call)
    BY <1>4, <2>2 DEF TextKnows
  <2>4. CASE k = 1
    <3>1. s.do = "require"
      BY <1>1, <2>1, <2>4, StepDoes
    <3>2. clock' = clock
      BY <1>2, <3>1, DisplaySteps
    <3>3. TextKnows(call, bus', panel', 1, 2)
      BY DEF TextKnows
    <3>4. QED
      BY <1>1, <2>1, <2>4, <3>2, <3>3 DEF TextGoes
  <2>5. CASE k = 2
    <3>1. s = Start("lcd", "W")
      BY <1>1, <2>1, <2>5
    <3>2. clock' = clock /\ bus'.device = "lcd" /\ panel' = [p EXCEPT !.expect = "control"]
      BY <1>2, <2>2, <3>1, DisplaySteps
    <3>3. panel'.expect = "control"
      BY <2>2, <3>2 DEF Parts
    <3>4. TextKnows(call, bus', panel', 1, 3)
      BY <3>2, <3>3 DEF TextKnows
    <3>5. QED
      BY <1>1, <2>1, <2>5, <3>2, <3>4 DEF TextGoes
  <2>6. CASE k = 3
    <3>1. s = Write(CMD) /\ bus.device = "lcd"
      BY <1>1, <2>1, <2>3, <2>6
    <3>2. clock' = clock /\ bus' = bus /\ panel' = PanelReceives(panel, CMD)
      BY <1>2, <3>1, DisplaySteps
    <3>3. panel'.expect = "command"
      BY <2>2, <2>3, <2>6, <3>2, PanelControl
    <3>4. TextKnows(call, bus', panel', 1, 4)
      BY <3>1, <3>2, <3>3 DEF TextKnows
    <3>5. QED
      BY <1>1, <2>1, <2>6, <3>2, <3>4 DEF TextGoes
  <2>7. CASE k = 4
    <3>1. s = Write(SETCURSOR + Place(call)) /\ bus.device = "lcd"
      BY <1>1, <2>1, <2>3, <2>7
    <3>2. clock' = clock /\ bus' = bus /\ panel' = PanelReceives(panel, SETCURSOR + Place(call))
      BY <1>2, <3>1, DisplaySteps
    <3>3. Place(call) \in 0 .. 103
      BY <1>4, PlaceFits
    <3>0. PICK x \in 0 .. 103 : x = Place(call)
      BY <3>3
    <3>8. PICK b : b = SETCURSOR + x
      OBVIOUS
    <3>6. CursorAfter(p, b) = x
      <4>1. DOMAIN p = Parts /\ p.expect = "command"
        BY <2>2, <2>3, <2>7
      <4>2. QED
        BY <3>8, <4>1, PanelCommand, Zenon
    <3>9. panel' = PanelReceives(p, b)
      BY <2>2, <3>0, <3>2, <3>8
    <3>4. panel'.at = Place(call)
      BY <3>0, <3>6, <3>9 DEF CursorAfter
    <3>5. TextKnows(call, bus', panel', 1, 5)
      BY <3>4 DEF TextKnows
    <3>7. QED
      BY <1>1, <2>1, <2>7, <3>2, <3>5 DEF TextGoes
  <2>8. CASE k = 5
    <3>1. s.do = "stop"
      BY <1>1, <2>1, <2>8, StepDoes
    <3>2. clock' = clock /\ panel' = panel
      BY <1>2, <3>1, DisplaySteps
    <3>3. TextKnows(call, bus', panel', 2, 1)
      BY <1>4, <2>2, <2>3, <2>8, <3>2 DEF TextKnows
    <3>4. QED
      BY <1>1, <2>1, <2>8, <3>2, <3>3 DEF TextGoes
  <2>9. k \in {1, 2, 3, 4, 5}
    BY <1>1, <2>1
  <2>10. QED
    BY <2>4, <2>5, <2>6, <2>7, <2>8, <2>9
<1>5. QED
  BY <1>3, <1>4

LEMMA AnnounceMoves ==
  ASSUME DOMAIN panel = Parts, NEW call, NEW S, Len(S) # 2,
         S[2].steps = <<Require, Start("lcd", "W"), Write(DATA)>>, NEW k \in 1 .. Len(S[2].steps),
         Place(call) \in 0 .. 103,
         TextKnows(call, bus, panel, 2, k), NEW time, NEW next, Takes(S[2].steps[k], time, next)
  PROVE  TextGoes(call, S, 2, k)
<1>1. PICK s, steps, p : s = steps[k] /\ steps = S[2].steps /\ p = panel /\ DOMAIN p = Parts
  OBVIOUS
<1>2. Takes(s, time, next)
  BY <1>1
<1>3. PICK c1, c2, c3 : c1 = Require /\ c2 = Start("lcd", "W") /\ c3 = Write(DATA)
  OBVIOUS
<1>4. steps = <<c1, c2, c3>>
  BY <1>1, <1>3
<1>5. Len(steps) = 3 /\ steps[1] = c1 /\ steps[2] = c2 /\ steps[3] = c3
  BY <1>4
<1>6. FitsDisplay(call) /\ p.at = Place(call) /\ (k = 3 => bus.device = "lcd" /\ p.expect = "control")
  BY <1>1 DEF TextKnows
<1>7. CASE k = 1
  <2>1. s.do = "require"
    BY <1>1, <1>3, <1>5, <1>7, StepDoes
  <2>2. clock' = clock /\ panel' = panel
    BY <1>2, <2>1, DisplaySteps
  <2>3. TextKnows(call, bus', panel', 2, 2)
    BY <1>1, <1>6, <2>2 DEF TextKnows
  <2>4. QED
    BY <1>1, <1>5, <1>7, <2>2, <2>3 DEF TextGoes
<1>8. CASE k = 2
  <2>1. s = Start("lcd", "W")
    BY <1>1, <1>3, <1>5, <1>8
  <2>2. clock' = clock /\ bus'.device = "lcd" /\ panel' = [p EXCEPT !.expect = "control"]
    BY <1>1, <1>2, <2>1, DisplaySteps
  <2>3. panel'.expect = "control" /\ panel'.at = p.at
    BY <1>1, <2>2 DEF Parts
  <2>4. TextKnows(call, bus', panel', 2, 3)
    BY <1>6, <2>2, <2>3 DEF TextKnows
  <2>5. QED
    BY <1>1, <1>5, <1>8, <2>2, <2>4 DEF TextGoes
<1>9. CASE k = 3
  <2>1. s = Write(DATA)
    BY <1>1, <1>3, <1>5, <1>9
  <2>2. clock' = clock /\ bus' = bus /\ panel' = PanelReceives(p, DATA)
    BY <1>1, <1>2, <1>6, <1>9, <2>1, DisplaySteps
  <2>3. panel'.expect = "data" /\ panel'.at = p.at
    BY <1>1, <1>6, <1>9, <2>2, PanelControl
  <2>4. Stands(call, panel', 0)
    BY DEF Stands
  <2>5. TextKnows(call, bus', panel', 3, 1)
    BY <1>6, <1>9, <2>2, <2>3, <2>4 DEF TextKnows
  <2>6. QED
    BY <1>1, <1>5, <1>9, <2>2, <2>5 DEF TextGoes
<1>10. QED
  BY <1>1, <1>5, <1>7, <1>8, <1>9

LEMMA CharacterMoves ==
  ASSUME DOMAIN panel = Parts, NEW call, NEW S, NEW m \in Nat, m = Len(call.text), Len(S) = m + 3,
         NEW i \in 1 .. m, NEW n, n = 2 + i, S[n].steps = <<Write(call.text[i])>>,
         NEW k \in 1 .. Len(S[n].steps), Place(call) \in 0 .. 103,
         TextKnows(call, bus, panel, n, k), NEW time, NEW next, Takes(S[n].steps[k], time, next)
  PROVE  TextGoes(call, S, n, k)
<1>1. PICK s, p, c, x :
        s = S[n].steps[k] /\ p = panel /\ c = call.text[i] /\ x = Place(call) /\ x \in 0 .. 103
  OBVIOUS
<1>2. Len(S[n].steps) = 1 /\ k = 1 /\ s = Write(c) /\ Takes(s, time, next) /\ DOMAIN p = Parts
  <2>1. PICK one : one = Write(c)
    OBVIOUS
  <2>2. S[n].steps = <<one>>
    BY <1>1, <2>1
  <2>3. QED
    BY <1>1, <2>1, <2>2
<1>3. n > 2 /\ n > 1 /\ n # 1 /\ n # 2 /\ n - 3 = i - 1 /\ (n + 1) - 3 = i /\ n # m + 3 /\ n + 1 > 2 /\ n + 1 # 1 /\ n + 1 # 2
  OBVIOUS
<1>4. /\ FitsDisplay(call) /\ bus.device = "lcd" /\ p.expect = "data" /\ p.at = x + (i - 1)
      /\ Stands(call, p, i - 1)
  BY <1>1, <1>3 DEF TextKnows
<1>5. clock' = clock /\ bus' = bus /\ panel' = PanelReceives(p, c)
  BY <1>1, <1>2, <1>4, DisplaySteps
<1>6. PICK q : /\ q = panel' /\ q.expect = "data" /\ q.at = p.at + 1
               /\ DOMAIN q.cells = {p.at} \cup DOMAIN p.cells /\ q.cells[p.at] = c
               /\ \A y \in DOMAIN p.cells : y # p.at => q.cells[y] = p.cells[y]
  BY <1>2, <1>4, <1>5, PanelData
<1>7. ASSUME NEW j \in 1 .. i
      PROVE  x + j - 1 \in DOMAIN q.cells /\ q.cells[x + j - 1] = call.text[j]
  <2>1. CASE j = i
    <3>1. x + j - 1 = p.at
      BY <1>1, <1>4, <2>1
    <3>2. QED
      BY <1>1, <1>6, <2>1, <3>1
  <2>2. CASE j # i
    <3>0. \A a \in Nat, b \in Nat, d \in Nat : a + b - 1 = a + (d - 1) => b = d
      OBVIOUS
    <3>4. x \in Nat /\ i \in Nat /\ j \in Nat
      <4>1. x \in 0 .. 103
        BY <1>1
      <4>2. \A y \in 0 .. 103 : y \in Nat
        OBVIOUS
      <4>3. x \in Nat
        BY <4>1, <4>2, Zenon
      <4>4. i \in Nat /\ j \in Nat
        OBVIOUS
      <4>5. QED
        BY <4>3, <4>4
    <3>1. j \in 1 .. i - 1 /\ x + j - 1 # x + (i - 1)
      BY <2>2, <3>0, <3>4
    <3>2. x + j - 1 \in DOMAIN p.cells /\ p.cells[x + j - 1] = call.text[j]
      BY <1>1, <1>4, <3>1 DEF Stands
    <3>3. QED
      BY <1>4, <1>6, <3>1, <3>2
  <2>3. QED
    BY <2>1, <2>2
<1>8. Stands(call, q, i)
  BY <1>1, <1>7 DEF Stands
<1>9. q.at = x + i
  BY <1>1, <1>4, <1>6
<1>10. TextKnows(call, bus', panel', n + 1, 1)
  BY <1>1, <1>3, <1>4, <1>5, <1>6, <1>8, <1>9 DEF TextKnows
<1>11. QED
  BY <1>2, <1>3, <1>5, <1>10 DEF TextGoes

LEMMA TextMoves ==
  ASSUME ChipTypes, NEW call, Callable(call), call.name = "lcdWriteString", NEW S,
         TextFunctions(call, S), NEW n \in 1 .. Len(S), NEW k \in 1 .. Len(S[n].steps),
         TextKnows(call, bus, panel, n, k), NEW time, NEW next, Takes(S[n].steps[k], time, next)
  PROVE  TextGoes(call, S, n, k)
<1>1. PICK m \in Nat : m = Len(call.text)
  BY TextParts
<1>2. /\ call.row \in 0 .. 255 /\ call.col \in 0 .. 255 /\ DOMAIN panel = Parts
  BY DEF Callable, ChipTypes
<1>3. /\ Len(S) = m + 3 /\ CursorSteps(call, S[1].steps)
      /\ S[2].steps = <<Require, Start("lcd", "W"), Write(DATA)>>
      /\ \A i \in 1 .. m : S[2 + i].steps = <<Write(call.text[i])>>
      /\ S[m + 3].steps = <<Stop>>
  BY <1>1 DEF TextFunctions
<1>4. CASE n = 1
  <2>1. /\ k \in 1 .. Len(S[1].steps) /\ TextKnows(call, bus, panel, 1, k)
        /\ Takes(S[1].steps[k], time, next) /\ Len(S) # 1
    BY <1>3, <1>4
  <2>2. TextGoes(call, S, 1, k)
    BY <1>2, <1>3, <2>1, CursorMoves
  <2>3. QED
    BY <1>4, <2>2
<1>5. n > 1 => Place(call) \in 0 .. 103
  BY <1>2, PlaceFits DEF TextKnows
<1>6. CASE n = 2
  <2>1. /\ k \in 1 .. Len(S[2].steps) /\ TextKnows(call, bus, panel, 2, k)
        /\ Takes(S[2].steps[k], time, next) /\ Len(S) # 2 /\ Place(call) \in 0 .. 103
    BY <1>3, <1>5, <1>6
  <2>2. TextGoes(call, S, 2, k)
    BY <1>2, <1>3, <2>1, AnnounceMoves
  <2>3. QED
    BY <1>6, <2>2
<1>7. CASE n \in 3 .. m + 2
  <2>1. PICK i \in 1 .. m : n = 2 + i
    <3>1. n - 2 \in 1 .. m /\ n = 2 + (n - 2)
      BY <1>7
    <3>2. QED
      BY <3>1
  <2>2. S[n].steps = <<Write(call.text[i])>> /\ Place(call) \in 0 .. 103
    <3>1. n > 1
      BY <1>7
    <3>2. S[2 + i].steps = <<Write(call.text[i])>>
      BY <1>3
    <3>3. QED
      BY <1>5, <2>1, <3>1, <3>2
  <2>3. QED
    BY <1>1, <1>2, <1>3, <2>1, <2>2, CharacterMoves
<1>8. CASE n = m + 3
  <2>1. PICK s, stop : s = S[n].steps[k] /\ stop = Stop
    OBVIOUS
  <2>2. S[n].steps = <<stop>>
    BY <1>3, <1>8, <2>1
  <2>3. Len(S[n].steps) = 1 /\ k = 1 /\ s = stop
    BY <2>1, <2>2
  <2>4. s.do = "stop" /\ Takes(s, time, next)
    BY <2>1, <2>3, StepDoes
  <2>5. clock' = clock /\ panel' = panel
    BY <2>4, DisplaySteps
  <2>6. n > 2 /\ n - 3 = m
    BY <1>8
  <2>7. FitsDisplay(call) /\ Stands(call, panel, m)
    BY <2>6 DEF TextKnows
  <2>8. QED
    BY <1>1, <1>3, <1>8, <2>3, <2>5, <2>7 DEF TextGoes
<1>9. n = 1 \/ n = 2 \/ n \in 3 .. m + 2 \/ n = m + 3
  BY <1>1, <1>3
<1>10. QED
  BY <1>4, <1>6, <1>7, <1>8, <1>9

(* The steps of the other calls keep to the display. *)
QuietMeans(s, b) == s.do = "write" => b.device = "lcd"

LEMMA WritesAre ==
  ASSUME NEW s \in Steps, s.do = "write"
  PROVE  \E b : s = Write(b)
BY DEF Steps, Start, Write, Put, Get, Stop, Require, ToRegisters, FromRegisters, KeepTime,
       Refuse, Command, Commit, Edit

LEMMA QuietMoves ==
  ASSUME NEW steps, OnDisplay(steps), NEW k \in 1 .. Len(steps), QuietMeans(steps[k], bus),
         NEW time, NEW next, Takes(steps[k], time, next)
  PROVE  clock' = clock /\ (k # Len(steps) => QuietMeans(steps[k + 1], bus'))
<1>1. PICK m \in Nat : m = Len(steps)
  BY LenProperties DEF OnDisplay
<1>2. PICK s : s = steps[k]
  OBVIOUS
<1>3. /\ Takes(s, time, next) /\ s \in Steps
      /\ s.do \in {"require", "start", "write", "stop", "command", "commit"}
      /\ s.do = "start" => s = Start("lcd", "W")
      /\ s.do = "write" => bus.device = "lcd"
  BY <1>1, <1>2, ElementOfSeq DEF OnDisplay, QuietMeans
<1>4. clock' = clock /\ (s.do \in {"start", "write"} => bus'.device = "lcd")
  <2>1. CASE s.do = "start"
    BY <1>3, <2>1, DisplaySteps
  <2>2. CASE s.do = "write"
    <3>1. PICK b : s = Write(b)
      BY <1>3, <2>2, WritesAre
    <3>2. QED
      BY <1>3, <2>2, <3>1, DisplaySteps
  <2>3. CASE s.do \in {"require", "stop", "command", "commit"}
    BY <1>3, <2>3, DisplaySteps
  <2>4. QED
    BY <1>3, <2>1, <2>2, <2>3
<1>5. ASSUME k # m, steps[k + 1].do = "write" PROVE bus'.device = "lcd"
  <2>1. k + 1 \in 1 .. m /\ (k + 1) - 1 = k
    BY <1>1, <1>5
  <2>2. s.do \in {"start", "write"}
    BY <1>1, <1>2, <1>5, <2>1 DEF OnDisplay
  <2>3. QED
    BY <1>4, <2>2
<1>6. QED
  BY <1>1, <1>4, <1>5 DEF QuietMeans

-----------------------------------------------------------------------------
(* The outcome of a step of a writing of the time.                         *)
WriteGoes(time, m, next, k) ==
  /\ StaysTime /\ next = time
  /\ k # m => WriteKnows(time, bus', clock', buf', k + 1)
  /\ k = m => InRange(time) /\ clock.registers = Encode(time)

LEMMA WriteStepMoves ==
  ASSUME RegisterAssumption, ChipTypes, NEW steps, WriteSteps(steps), NEW k \in 1 .. Len(steps),
         NEW time \in Times, WriteKnows(time, bus, clock, buf, k),
         NEW next, Takes(steps[k], time, next)
  PROVE  WriteGoes(time, Len(steps), next, k)
<1>1. /\ StaysTime /\ next = time
      /\ k # Len(steps) => WriteKnows(time, bus', clock', buf', k + 1)
      /\ k = Len(steps) => InRange(time) /\ clock.registers = Encode(time) /\ clock' = clock
  BY WriteMoves
<1>2. QED
  BY <1>1 DEF WriteGoes

(* What a call knows where it is in its script, and what it tells when it  *)
(* comes to the end of it.                                                 *)
Readers == {"rtcRead", "rtcSaveStartupTime", "dateSet"}

EditedTime(call, bytes) == [Decode(bytes) EXCEPT ![call.field] = call.value]

Knows(w, b, p, c, f, n, k) ==
  /\ w.call.name \in QuietNames => QuietMeans(Script(w.call)[n].steps[k], b)
  /\ w.call.name = "lcdWriteString" => TextKnows(w.call, b, p, n, k)
  /\ w.call.name = "rtcWrite" => w.time = w.call.time /\ WriteKnows(w.time, b, c, f, k)
  /\ w.call.name \in Readers =>
       /\ n = 1 => ReadKnows(w.seen, b, c, f, k)
       /\ n = 2 => \E bytes \in w.seen : w.time = Decode(bytes)
       /\ n = 3 => /\ \E bytes \in w.seen : w.time = EditedTime(w.call, bytes)
                   /\ WriteKnows(w.time, b, c, f, k)

Told(w, v) ==
  /\ w.call.name = "lcdWriteString" =>
       FitsDisplay(w.call) /\ Stands(w.call, panel', Len(w.call.text))
  /\ w.call.name = "rtcWrite" => InRange(w.call.time) /\ clock.registers = Encode(w.call.time)
  /\ w.call.name = "rtcRead" => \E bytes \in w.seen : v.time = Decode(bytes)
  /\ w.call.name = "rtcSaveStartupTime" => \E bytes \in w.seen : startup' = Decode(bytes)
  /\ w.call.name = "dateSet" => \E bytes \in w.seen :
       LET m == EditedTime(w.call, bytes)
       IN  m \in Times /\ InRange(m) /\ clock.registers = Encode(m)

Outcome(w, v) ==
  /\ StaysTime
  /\ v.busy => \E n, k : /\ Position(v.todo, Script(w.call), n, k)
                         /\ Knows(v, bus', panel', clock', buf', n, k)
  /\ ~v.busy => Told(w, v)

Here(w, v, n, k) ==
  /\ WorkOK(w) /\ w.busy /\ w.failed = "none" /\ GoesOn(w, v) /\ Onward(w, v)
  /\ Callable(w.call) /\ w.time \in Times /\ w.seen \subseteq Times
  /\ Planned(Script(w.call)) /\ Position(w.todo, Script(w.call), n, k)
  /\ Knows(w, bus, panel, clock, buf, n, k)
  /\ Takes(Script(w.call)[n].steps[k], w.time, v.time)

(* The next step's knowledge, here and in the next function. *)
NextKnows(w, v, n, k) ==
  LET S == Script(w.call)
  IN  /\ v.busy /\ k # Len(S[n].steps) => Knows(v, bus', panel', clock', buf', n, k + 1)
      /\ v.busy /\ k = Len(S[n].steps) /\ n # Len(S) => Knows(v, bus', panel', clock', buf', n + 1, 1)
      /\ k = Len(S[n].steps) /\ n = Len(S) => Told(w, v)

LEMMA ComesOut ==
  ASSUME NEW w, NEW v, NEW n, NEW k, Here(w, v, n, k), StaysTime, NextKnows(w, v, n, k)
  PROVE  Outcome(w, v)
<1>1. PICK S : S = Script(w.call)
  OBVIOUS
<1>2. /\ WorkOK(w) /\ w.busy /\ w.failed = "none" /\ GoesOn(w, v)
      /\ Planned(S) /\ Position(w.todo, S, n, k)
  BY <1>1 DEF Here
<1>3. /\ v.busy => \/ k # Len(S[n].steps) /\ Position(v.todo, S, n, k + 1)
                   \/ k = Len(S[n].steps) /\ n # Len(S) /\ Position(v.todo, S, n + 1, 1)
      /\ ~v.busy => k = Len(S[n].steps) /\ n = Len(S)
  BY <1>2, MovesOn
<1>4. /\ v.busy /\ k # Len(S[n].steps) => Knows(v, bus', panel', clock', buf', n, k + 1)
      /\ v.busy /\ k = Len(S[n].steps) /\ n # Len(S) => Knows(v, bus', panel', clock', buf', n + 1, 1)
      /\ k = Len(S[n].steps) /\ n = Len(S) => Told(w, v)
  BY <1>1 DEF NextKnows
<1>5. ASSUME v.busy
      PROVE  \E i, j : Position(v.todo, S, i, j) /\ Knows(v, bus', panel', clock', buf', i, j)
  BY <1>3, <1>4, <1>5
<1>6. ASSUME ~v.busy PROVE Told(w, v)
  BY <1>3, <1>4, <1>6
<1>7. QED
  BY <1>1, <1>5, <1>6 DEF Outcome

LEMMA NamesApart ==
  ASSUME NEW name
  PROVE  /\ name \in QuietNames => name # "lcdWriteString" /\ name # "rtcWrite" /\ name \notin Readers
         /\ name = "lcdWriteString" => name \notin QuietNames /\ name # "rtcWrite" /\ name \notin Readers
         /\ name = "rtcWrite" => name \notin QuietNames /\ name # "lcdWriteString" /\ name \notin Readers
         /\ name \in Readers => name \notin QuietNames /\ name # "lcdWriteString" /\ name # "rtcWrite"
         /\ name \in {"rtcRead", "rtcSaveStartupTime", "dateSet"} <=> name \in Readers
BY DEF QuietNames, Readers

LEMMA Located ==
  ASSUME NEW w, NEW v, NEW n, NEW k, Here(w, v, n, k)
  PROVE  /\ n \in 1 .. Len(Script(w.call)) /\ k \in 1 .. Len(Script(w.call)[n].steps)
         /\ Len(Script(w.call)) \in Nat /\ Len(Script(w.call)[n].steps) \in Nat
         /\ v.busy => v.call = w.call /\ v.seen = w.seen
<1>1. WorkOK(w) /\ Planned(Script(w.call)) /\ Position(w.todo, Script(w.call), n, k) /\ Onward(w, v)
  BY DEF Here
<1>2. Planned(w.todo)
  BY <1>1, Zenon DEF WorkOK, Here
<1>3. QED
  BY <1>1, <1>2, HereIs DEF Onward

LEMMA QuietAdvances ==
  ASSUME NEW w, NEW v, NEW n, NEW k, Here(w, v, n, k), w.call.name \in QuietNames
  PROVE  Outcome(w, v)
<1>1. PICK S : S = Script(w.call)
  OBVIOUS
<1>2. /\ n = 1 /\ k \in 1 .. Len(S[1].steps) /\ Len(S) = 1 /\ OnDisplay(S[1].steps)
      /\ v.busy => v.call = w.call
  BY <1>1, Located, QuietScript DEF Here
<1>3. QuietMeans(S[1].steps[k], bus) /\ Takes(S[1].steps[k], w.time, v.time)
  BY <1>1, <1>2 DEF Here, Knows
<1>4. clock' = clock /\ (k # Len(S[1].steps) => QuietMeans(S[1].steps[k + 1], bus'))
  BY <1>2, <1>3, QuietMoves
<1>5. ASSUME v.busy, k # Len(S[1].steps)
      PROVE  Knows(v, bus', panel', clock', buf', 1, k + 1)
  BY <1>1, <1>2, <1>4, <1>5, NamesApart DEF Knows
<1>6. Told(w, v)
  BY NamesApart DEF Told
<1>7. NextKnows(w, v, n, k)
  BY <1>1, <1>2, <1>5, <1>6 DEF NextKnows
<1>8. QED
  BY <1>4, <1>7, ComesOut DEF StaysTime

LEMMA TextAdvances ==
  ASSUME ChipTypes, NEW w, NEW v, NEW n, NEW k, Here(w, v, n, k), w.call.name = "lcdWriteString"
  PROVE  Outcome(w, v)
<1>1. PICK S, call : S = Script(call) /\ call = w.call
  OBVIOUS
<1>2. /\ n \in 1 .. Len(S) /\ k \in 1 .. Len(S[n].steps) /\ TextFunctions(call, S)
      /\ Callable(call) /\ call.name = "lcdWriteString" /\ (v.busy => v.call = call)
  BY <1>1, Located, TextParts DEF Here
<1>3. TextKnows(call, bus, panel, n, k) /\ Takes(S[n].steps[k], w.time, v.time)
  BY <1>1, <1>2 DEF Here, Knows
<1>4. TextGoes(call, S, n, k)
  BY <1>2, <1>3, TextMoves
<1>5. ASSUME v.busy, NEW i, NEW j, TextKnows(call, bus', panel', i, j)
      PROVE  Knows(v, bus', panel', clock', buf', i, j)
  BY <1>2, <1>5, NamesApart DEF Knows
<1>6. ASSUME FitsDisplay(call), Stands(call, panel', Len(call.text)) PROVE Told(w, v)
  BY <1>1, <1>2, <1>6 DEF Told
<1>7. NextKnows(w, v, n, k)
  BY <1>1, <1>4, <1>5, <1>6 DEF NextKnows, TextGoes
<1>8. QED
  BY <1>4, <1>7, ComesOut DEF StaysTime, TextGoes

LEMMA WriteAdvances ==
  ASSUME RegisterAssumption, ChipTypes, NEW w, NEW v, NEW n, NEW k, Here(w, v, n, k),
         w.call.name = "rtcWrite"
  PROVE  Outcome(w, v)
<1>1. PICK S, call : S = Script(call) /\ call = w.call
  OBVIOUS
<1>0. PICK f : f = Function("rtc", "call", RtcWrite)
  OBVIOUS
<1>2. f.steps = RtcWrite
  BY <1>0 DEF Function
<1>3. S = <<f>>
  BY <1>0, <1>1 DEF Script
<1>4. /\ n = 1 /\ k \in 1 .. Len(RtcWrite) /\ Len(S) = 1 /\ S[1].steps = RtcWrite
      /\ v.busy => v.call = call
  <2>1. Len(S) = 1 /\ S[1].steps = RtcWrite
    BY <1>2, <1>3
  <2>2. n \in 1 .. Len(S) /\ k \in 1 .. Len(S[n].steps) /\ (v.busy => v.call = call)
    BY <1>1, Located
  <2>3. QED
    BY <2>1, <2>2
<1>5. PICK time \in Times : time = w.time /\ time = call.time
  BY <1>1 DEF Here, Knows
<1>6. WriteKnows(time, bus, clock, buf, k) /\ Takes(RtcWrite[k], time, v.time) /\ WriteSteps(RtcWrite)
  BY <1>1, <1>4, <1>5, ReadScript DEF Here, Knows
<1>12. k \in 1 .. Len(RtcWrite) /\ time \in Times
  BY <1>4, <1>5
<1>13. WriteGoes(time, Len(RtcWrite), v.time, k)
  BY <1>6, <1>12, WriteStepMoves, Zenon
<1>7. /\ StaysTime /\ v.time = time
      /\ k # Len(RtcWrite) => WriteKnows(time, bus', clock', buf', k + 1)
      /\ k = Len(RtcWrite) => InRange(time) /\ clock.registers = Encode(time)
  BY <1>13, Zenon DEF WriteGoes
<1>8. ASSUME v.busy, WriteKnows(time, bus', clock', buf', k + 1)
      PROVE  Knows(v, bus', panel', clock', buf', 1, k + 1)
  BY <1>1, <1>4, <1>5, <1>7, <1>8, NamesApart DEF Knows
<1>9. ASSUME InRange(time), clock.registers = Encode(time) PROVE Told(w, v)
  BY <1>1, <1>5, <1>9 DEF Told
<1>10. NextKnows(w, v, n, k)
  BY <1>1, <1>4, <1>7, <1>8, <1>9 DEF NextKnows
<1>11. QED
  BY <1>7, <1>10, ComesOut

LEMMA ReaderScript ==
  ASSUME NEW call, call.name \in Readers, NEW S, S = Script(call)
  PROVE  /\ S[1].steps = RtcRead
         /\ call.name = "rtcRead" => Len(S) = 1
         /\ call.name = "rtcSaveStartupTime" => Len(S) = 2 /\ S[2].steps = <<KeepTime>>
         /\ call.name = "dateSet" =>
              /\ Len(S) = 3 /\ S[2].steps = <<Edit(call.field, call.value)>> /\ S[3].steps = RtcWrite
<1>1. PICK read, keep, change, write :
        /\ read = Function("rtc", "call", RtcRead) /\ keep = Function("rtc", "call", <<KeepTime>>)
        /\ change = Function("rtc", "call", <<Edit(call.field, call.value)>>)
        /\ write = Function("rtc", "call", RtcWrite)
  OBVIOUS
<1>2. /\ read.steps = RtcRead /\ keep.steps = <<KeepTime>> /\ write.steps = RtcWrite
      /\ change.steps = <<Edit(call.field, call.value)>>
  BY <1>1 DEF Function
<1>3. /\ call.name = "rtcRead" => S = <<read>>
      /\ call.name = "rtcSaveStartupTime" => S = <<read, keep>>
      /\ call.name = "dateSet" => S = <<read, change, write>>
  BY <1>1 DEF Script
<1>4. CASE call.name = "rtcRead"
  BY <1>2, <1>3, <1>4
<1>5. CASE call.name = "rtcSaveStartupTime"
  <2>1. S[1] = read /\ S[2] = keep /\ Len(S) = 2
    BY <1>3, <1>5
  <2>2. QED
    BY <1>2, <1>5, <2>1
<1>6. CASE call.name = "dateSet"
  <2>1. S[1] = read /\ S[2] = change /\ S[3] = write /\ Len(S) = 3
    BY <1>3, <1>6
  <2>2. QED
    BY <1>2, <1>6, <2>1
<1>7. QED
  BY <1>4, <1>5, <1>6 DEF Readers

LEMMA ReaderAdvances ==
  ASSUME RegisterAssumption, ChipTypes, NEW w, NEW v, NEW n, NEW k, Here(w, v, n, k),
         w.call.name \in Readers
  PROVE  Outcome(w, v)
<1>1. PICK S, call : S = Script(call) /\ call = w.call
  OBVIOUS
<1>2. /\ n \in 1 .. Len(S) /\ k \in 1 .. Len(S[n].steps)
      /\ v.busy => v.call = call /\ v.seen = w.seen
  BY <1>1, Located
<1>3. /\ S[1].steps = RtcRead /\ call.name \in Readers
      /\ call.name = "rtcRead" => Len(S) = 1
      /\ call.name = "rtcSaveStartupTime" => Len(S) = 2 /\ S[2].steps = <<KeepTime>>
      /\ call.name = "dateSet" =>
           /\ Len(S) = 3 /\ S[2].steps = <<Edit(call.field, call.value)>> /\ S[3].steps = RtcWrite
  BY <1>1, ReaderScript
<1>4. /\ n = 1 => ReadKnows(w.seen, bus, clock, buf, k)
      /\ n = 2 => \E bytes \in w.seen : w.time = Decode(bytes)
      /\ n = 3 => /\ \E bytes \in w.seen : w.time = EditedTime(call, bytes)
                  /\ WriteKnows(w.time, bus, clock, buf, k)
      /\ Takes(S[n].steps[k], w.time, v.time) /\ w.time \in Times /\ w.seen \subseteq Times
  BY <1>1, <1>3 DEF Here, Knows
<1>5. ASSUME v.busy, NEW i, NEW j,
             i = 1 => ReadKnows(w.seen, bus', clock', buf', j),
             i = 2 => \E bytes \in w.seen : v.time = Decode(bytes),
             i = 3 => /\ \E bytes \in w.seen : v.time = EditedTime(call, bytes)
                      /\ WriteKnows(v.time, bus', clock', buf', j)
      PROVE  Knows(v, bus', panel', clock', buf', i, j)
  <2>1. v.call = call /\ v.seen = w.seen /\ v.call.name \in Readers
    BY <1>2, <1>3, <1>5
  <2>2. /\ v.call.name \notin QuietNames /\ v.call.name # "lcdWriteString" /\ v.call.name # "rtcWrite"
    BY <2>1, NamesApart
  <2>3. QED
    BY <1>5, <2>1, <2>2 DEF Knows
<1>6. CASE n = 1
  <2>1. /\ k \in 1 .. Len(RtcRead) /\ ReadSteps(RtcRead) /\ ReadKnows(w.seen, bus, clock, buf, k)
        /\ Takes(RtcRead[k], w.time, v.time)
    BY <1>2, <1>3, <1>4, <1>6, ReadScript
  <2>2. /\ clock'.registers = clock.registers
        /\ k # Len(RtcRead) => ReadKnows(w.seen, bus', clock', buf', k + 1)
        /\ k = Len(RtcRead) => \E bytes \in w.seen : v.time = Decode(bytes)
    BY <1>4, <2>1, ReadMoves
  <2>3. ASSUME v.busy, k # Len(RtcRead) PROVE Knows(v, bus', panel', clock', buf', 1, k + 1)
    BY <1>5, <2>2, <2>3
  <2>4. ASSUME v.busy, k = Len(RtcRead) PROVE Knows(v, bus', panel', clock', buf', 2, 1)
    BY <1>5, <2>2, <2>4
  <2>5. ASSUME k = Len(RtcRead), Len(S) = 1 PROVE Told(w, v)
    <3>1. w.call.name = "rtcRead"
      BY <1>1, <1>3, <2>5 DEF Readers
    <3>2. QED
      BY <2>2, <2>5, <3>1 DEF Told
  <2>6. NextKnows(w, v, 1, k)
    BY <1>1, <1>3, <2>3, <2>4, <2>5 DEF NextKnows
  <2>7. QED
    BY <1>6, <2>2, <2>6, ComesOut DEF StaysTime
<1>7. CASE n = 2 /\ call.name = "rtcSaveStartupTime"
  <2>1. PICK s, keep : s = S[2].steps[k] /\ keep = KeepTime
    OBVIOUS
  <2>2. S[2].steps = <<keep>>
    BY <1>3, <1>7, <2>1
  <2>3. Len(S[2].steps) = 1 /\ k = 1 /\ s.do = "keep"
    BY <1>2, <1>7, <2>1, <2>2, StepDoes
  <2>4. Takes(s, w.time, v.time)
    BY <1>4, <1>7, <2>1
  <2>5. clock' = clock /\ startup' = w.time
    BY <2>3, <2>4, Taken DEF Local
  <2>6. Told(w, v)
    BY <1>1, <1>4, <1>7, <2>5 DEF Told
  <2>7. NextKnows(w, v, 2, k)
    BY <1>1, <1>3, <1>7, <2>3, <2>6 DEF NextKnows
  <2>8. QED
    BY <1>7, <2>5, <2>7, ComesOut DEF StaysTime
<1>8. CASE n = 2 /\ call.name = "dateSet"
  <2>1. PICK s, change : s = S[2].steps[k] /\ change = Edit(call.field, call.value)
    OBVIOUS
  <2>2. S[2].steps = <<change>>
    BY <1>3, <1>8, <2>1
  <2>3. Len(S[2].steps) = 1 /\ k = 1 /\ s = change
    BY <1>2, <1>8, <2>1, <2>2
  <2>4. s.do = "edit" /\ s.field = call.field /\ s.value = call.value
    BY <2>1, <2>3 DEF Edit
  <2>5. Takes(s, w.time, v.time)
    BY <1>4, <1>8, <2>1
  <2>6. Local(s, w.time) /\ v.time = [w.time EXCEPT ![s.field] = s.value]
    BY <2>4, <2>5, Taken
  <2>7. clock' = clock
    BY <2>6 DEF Local
  <2>8. \E bytes \in w.seen : v.time = EditedTime(call, bytes)
    BY <1>4, <1>8, <2>4, <2>6 DEF EditedTime
  <2>9. WriteKnows(v.time, bus', clock', buf', 1)
    BY DEF WriteKnows
  <2>10. ASSUME v.busy PROVE Knows(v, bus', panel', clock', buf', 3, 1)
    BY <1>5, <2>8, <2>9, <2>10
  <2>11. NextKnows(w, v, 2, k)
    BY <1>1, <1>3, <1>8, <2>3, <2>10 DEF NextKnows
  <2>12. QED
    BY <1>8, <2>7, <2>11, ComesOut DEF StaysTime
<1>9. CASE n = 3
  <2>0. call.name = "dateSet" /\ Len(S) = 3 /\ S[3].steps = RtcWrite
    BY <1>2, <1>3, <1>9 DEF Readers
  <2>1. /\ k \in 1 .. Len(RtcWrite) /\ WriteSteps(RtcWrite) /\ WriteKnows(w.time, bus, clock, buf, k)
        /\ Takes(RtcWrite[k], w.time, v.time)
    BY <1>2, <1>4, <1>9, <2>0, ReadScript
  <2>2. /\ StaysTime /\ v.time = w.time
        /\ k # Len(RtcWrite) => WriteKnows(w.time, bus', clock', buf', k + 1)
        /\ k = Len(RtcWrite) => InRange(w.time) /\ clock.registers = Encode(w.time)
    <3>1. w.time \in Times
      BY <1>4
    <3>2. WriteGoes(w.time, Len(RtcWrite), v.time, k)
      BY <2>1, <3>1, WriteStepMoves, Zenon
    <3>3. QED
      BY <3>2, Zenon DEF WriteGoes
  <2>3. \E bytes \in w.seen : w.time = EditedTime(call, bytes)
    BY <1>4, <1>9
  <2>4. ASSUME v.busy, k # Len(RtcWrite) PROVE Knows(v, bus', panel', clock', buf', 3, k + 1)
    BY <1>5, <2>2, <2>3, <2>4
  <2>5. ASSUME k = Len(RtcWrite) PROVE Told(w, v)
    BY <1>1, <1>4, <2>0, <2>2, <2>3, <2>5 DEF Told
  <2>6. NextKnows(w, v, 3, k)
    BY <1>1, <2>0, <2>4, <2>5 DEF NextKnows
  <2>7. QED
    BY <1>9, <2>2, <2>6, ComesOut
<1>10. \/ n = 1
       \/ n = 2 /\ call.name \in {"rtcSaveStartupTime", "dateSet"}
       \/ n = 3
  BY <1>2, <1>3 DEF Readers
<1>11. QED
  BY <1>6, <1>7, <1>8, <1>9, <1>10

LEMMA CallAdvances ==
  ASSUME RegisterAssumption, ChipTypes, NEW w, NEW v, NEW n, NEW k, Here(w, v, n, k)
  PROVE  Outcome(w, v)
<1>1. w.call.name \in QuietNames \/ w.call.name = "lcdWriteString" \/ w.call.name = "rtcWrite"
      \/ w.call.name \in Readers
  BY DEF Here, Callable, QuietNames, Readers
<1>2. QED
  BY <1>1, QuietAdvances, TextAdvances, WriteAdvances, ReaderAdvances

-----------------------------------------------------------------------------
(* What a function of a script does not do.                                *)
Suited(f) ==
  \A k \in 1 .. Len(f.steps) :
    /\ f.steps[k].do = "encode" => f.driver = "rtc"
    /\ f.steps[k].do = "refuse" => f.kind # "info"

LEMMA ClockFunctionsSuited ==
  ASSUME NEW steps
  PROVE  Suited(Function("rtc", "call", steps))
BY DEF Suited, Function

LEMMA TextSuited ==
  ASSUME NEW call, NEW S, TextFunctions(call, S), NEW n \in 1 .. Len(S), Len(call.text) \in Nat
  PROVE  Suited(S[n])
<1>1. PICK m \in Nat : m = Len(call.text)
  OBVIOUS
<1>2. /\ Len(S) = m + 3 /\ CursorSteps(call, S[1].steps) /\ S[1].kind = "call"
      /\ S[2].steps = <<Require, Start("lcd", "W"), Write(DATA)>>
      /\ \A i \in 1 .. m : S[2 + i].steps = <<Write(call.text[i])>>
      /\ S[m + 3].steps = <<Stop>>
  BY <1>1 DEF TextFunctions
<1>3. CASE n = 1
  <2>1. PICK steps : steps = S[1].steps
    OBVIOUS
  <2>2. ASSUME NEW k \in 1 .. Len(steps) PROVE steps[k].do # "encode"
    <3>1. CASE FitsDisplay(call)
      <4>1. /\ Len(steps) = 5 /\ steps[1] = Require /\ steps[2] = Start("lcd", "W")
            /\ steps[3] = Write(CMD) /\ steps[4] = Write(SETCURSOR + Place(call)) /\ steps[5] = Stop
        BY <1>2, <2>1, <3>1 DEF CursorSteps
      <4>2. /\ steps[1].do = "require" /\ steps[2].do = "start" /\ steps[3].do = "write"
            /\ steps[4].do = "write" /\ steps[5].do = "stop"
        BY <4>1, StepDoes
      <4>3. k \in {1, 2, 3, 4, 5}
        BY <4>1
      <4>4. QED
        BY <4>2, <4>3
    <3>2. CASE ~FitsDisplay(call)
      <4>1. Len(steps) = 2 /\ steps[1] = Require /\ steps[2] = Refuse("OUT_OF_RANGE")
        BY <1>2, <2>1, <3>2 DEF CursorSteps
      <4>2. steps[1].do = "require" /\ steps[2].do = "refuse" /\ k \in {1, 2}
        BY <4>1, StepDoes
      <4>3. QED
        BY <4>2
    <3>3. QED
      BY <3>1, <3>2
  <2>3. QED
    BY <1>2, <1>3, <2>1, <2>2 DEF Suited
<1>4. ASSUME \A k \in 1 .. Len(S[n].steps) : S[n].steps[k].do \in {"require", "start", "write", "stop"}
      PROVE  Suited(S[n])
  BY <1>4 DEF Suited
<1>5. CASE n = 2
  <2>1. PICK c1, c2, c3 : c1 = Require /\ c2 = Start("lcd", "W") /\ c3 = Write(DATA)
    OBVIOUS
  <2>2. S[n].steps = <<c1, c2, c3>>
    BY <1>2, <1>5, <2>1
  <2>3. c1.do = "require" /\ c2.do = "start" /\ c3.do = "write"
    BY <2>1, StepDoes
  <2>4. QED
    BY <1>4, <2>2, <2>3
<1>6. CASE n \in 3 .. m + 2
  <2>1. PICK c : c = Write(call.text[n - 2])
    OBVIOUS
  <2>2. n - 2 \in 1 .. m /\ 2 + (n - 2) = n
    BY <1>6
  <2>3. S[n].steps = <<c>> /\ c.do = "write"
    BY <1>2, <2>1, <2>2, StepDoes
  <2>4. QED
    BY <1>4, <2>3
<1>7. CASE n = m + 3
  <2>1. PICK c : c = Stop
    OBVIOUS
  <2>2. S[n].steps = <<c>> /\ c.do = "stop"
    BY <1>2, <1>7, <2>1, StepDoes
  <2>3. QED
    BY <1>4, <2>2
<1>8. n = 1 \/ n = 2 \/ n \in 3 .. m + 2 \/ n = m + 3
  BY <1>2
<1>9. QED
  BY <1>3, <1>5, <1>6, <1>7, <1>8

LEMMA ScriptsSuited ==
  ASSUME NEW call, Callable(call), NEW n \in 1 .. Len(Script(call))
  PROVE  Suited(Script(call)[n])
<1>1. PICK S : S = Script(call)
  OBVIOUS
<1>2. CASE call.name \in QuietNames
  <2>0. Len(S) = 1 /\ OnDisplay(S[1].steps)
    BY <1>1, <1>2, QuietScript
  <2>1. n = 1 /\ OnDisplay(S[1].steps)
    BY <1>1, <2>0
  <2>2. QED
    BY <1>1, <2>1 DEF OnDisplay, Suited
<1>3. CASE call.name = "lcdWriteString"
  BY <1>3, TextParts, TextSuited
<1>4. PICK read, keep, change, write :
        /\ read = Function("rtc", "call", RtcRead) /\ keep = Function("rtc", "call", <<KeepTime>>)
        /\ change = Function("rtc", "call", <<Edit(call.field, call.value)>>)
        /\ write = Function("rtc", "call", RtcWrite)
  OBVIOUS
<1>5. Suited(read) /\ Suited(keep) /\ Suited(change) /\ Suited(write)
  BY <1>4, ClockFunctionsSuited
<1>6. CASE call.name = "rtcWrite"
  <2>1. S = <<write>>
    BY <1>1, <1>4, <1>6 DEF Script
  <2>2. QED
    BY <1>1, <1>5, <2>1
<1>7. CASE call.name = "rtcRead"
  <2>1. S = <<read>>
    BY <1>1, <1>4, <1>7 DEF Script
  <2>2. QED
    BY <1>1, <1>5, <2>1
<1>8. CASE call.name = "rtcSaveStartupTime"
  <2>1. S = <<read, keep>>
    BY <1>1, <1>4, <1>8 DEF Script
  <2>2. QED
    BY <1>1, <1>5, <2>1
<1>9. CASE call.name = "dateSet"
  <2>1. S = <<read, change, write>>
    BY <1>1, <1>4, <1>9 DEF Script
  <2>2. QED
    BY <1>1, <1>5, <2>1
<1>10. QED
  BY <1>2, <1>3, <1>6, <1>7, <1>8, <1>9 DEF Callable, QuietNames

(* Registers that hold legal codes stay legal while a time is written.     *)
LEMMA LegalStays ==
  ASSUME RegisterAssumption, ChipTypes, StaysTime, Legal(clock.registers)
  PROVE  Legal(clock'.registers)
<1>1. CASE clock'.registers = clock.registers
  BY <1>1
<1>2. ASSUME NEW m \in Times, NEW i \in Fields, InRange(m),
             clock'.registers = [clock.registers EXCEPT ![i] = Encode(m)[i]]
      PROVE  Legal(clock'.registers)
  <2>1. PICK regs, next, code :
          regs = clock.registers /\ next = clock'.registers /\ code = Encode(m)[i]
    OBVIOUS
  <2>2. regs \in Times /\ next = [regs EXCEPT ![i] = code]
    BY <1>2, <2>1 DEF ChipTypes, Clocks
  <2>3. code = CodeOf(Registers[i], m[i]) /\ m[i] \in MinOf[Registers[i]] .. MaxOf[Registers[i]]
        /\ Registers[i] \in RegisterNames
    BY <1>2, <2>1, TimeAndBack, RegisterFacts DEF InRange
  <2>4. BcdToBin(code % Modulus[Registers[i]]) = m[i]
    BY <2>3, CodeStandsFor
  <2>5. ASSUME NEW j \in Fields
        PROVE  Decode(next)[j] \in MinOf[Registers[j]] .. MaxOf[Registers[j]]
    <3>1. CASE j = i
      <4>1. next[j] = code
        BY <2>2, <3>1 DEF Times
      <4>2. Decode(next)[j] = m[i]
        BY <2>4, <3>1, <4>1 DEF Decode
      <4>3. QED
        BY <2>3, <3>1, <4>2
    <3>2. CASE j # i
      <4>1. next[j] = regs[j]
        BY <2>2, <3>2 DEF Times
      <4>2. Decode(next)[j] = Decode(regs)[j]
        BY <4>1 DEF Decode
      <4>3. QED
        BY <2>1, <4>2 DEF Legal
    <3>3. QED
      BY <3>1, <3>2
  <2>6. QED
    BY <2>1, <2>5 DEF Legal
<1>3. QED
  BY <1>1, <1>2 DEF StaysTime

LEMMA CodedStays ==
  ASSUME RegisterAssumption, ChipTypes, StaysTime, Coded(clock.registers)
  PROVE  Coded(clock'.registers)
<1>1. CASE clock'.registers = clock.registers
  BY <1>1
<1>2. ASSUME NEW m \in Times, NEW i \in Fields, InRange(m),
             clock'.registers = [clock.registers EXCEPT ![i] = Encode(m)[i]]
      PROVE  Coded(clock'.registers)
  <2>1. PICK regs, next, code :
          regs = clock.registers /\ next = clock'.registers /\ code = Encode(m)[i]
    OBVIOUS
  <2>2. regs \in Times /\ next = [regs EXCEPT ![i] = code]
    BY <1>2, <2>1 DEF ChipTypes, Clocks
  <2>3. code = CodeOf(Registers[i], m[i]) /\ m[i] \in MinOf[Registers[i]] .. MaxOf[Registers[i]]
    BY <1>2, <2>1, TimeAndBack DEF InRange
  <2>4. ASSUME NEW j \in Fields
        PROVE  \E v \in MinOf[Registers[j]] .. MaxOf[Registers[j]] : next[j] = CodeOf(Registers[j], v)
    <3>1. CASE j = i
      <4>1. next[j] = code
        BY <2>2, <3>1 DEF Times
      <4>2. QED
        BY <2>3, <3>1, <4>1
    <3>2. CASE j # i
      <4>1. next[j] = regs[j]
        BY <2>2, <3>2 DEF Times
      <4>2. QED
        BY <2>1, <4>1 DEF Coded
    <3>3. QED
      BY <3>1, <3>2
  <2>5. QED
    BY <2>1, <2>4 DEF Coded
<1>3. QED
  BY <1>1, <1>2 DEF StaysTime

-----------------------------------------------------------------------------
(* What a thread has to tell that no other one has overlapped: a failure   *)
(* it has met is on record, and otherwise it knows what its place in the   *)
(* script implies.                                                         *)
Heard(w, table) ==
  LET error == table[Head(w.todo).driver].error
  IN  /\ w.failed # "none" => error # "NO_ERROR"
      /\ w.hit => \/ w.kept = "DEPENDENCY"
                  \/ w.kept = "NO_ERROR" /\ w.failed # "none" /\ error = "DEPENDENCY"

Tells(w, table, b, p, c, f) ==
  /\ Callable(w.call) /\ w.seen \subseteq Times /\ IsFiniteSet(w.seen)
  /\ (\A s \in w.seen : Legal(s)) => Legal(c.registers)
  /\ Heard(w, table)
  /\ w.kept # "NO_ERROR" => w.todo = <<LcdWriteEnd>>
  /\ w.kept = "NO_ERROR" /\ w.failed = "none" =>
       \E n, k : Position(w.todo, Script(w.call), n, k) /\ Knows(w, b, p, c, f, n, k)

TellsInv ==
  \A t \in Tasks : task[t].busy /\ task[t].alone => Tells(task[t], drv, bus, panel, clock, buf)

(* At its end a call tells the truth. *)
Reports(w, v) ==
  /\ w.hit => v.error = "DEPENDENCY"
  /\ v.error = "NO_ERROR" => Told(w, v)

LEMMA EndStep ==
  ASSUME BusInv, NEW t \in Tasks, task[t].busy, task[t].todo = <<LcdWriteEnd>>
  PROVE  /\ Len(task[t].todo) = 1 /\ Len(task[t].todo[1].steps) = 1
         /\ Step(t) = Stop /\ Step(t).do = "stop" /\ Doing(t).kind = "call"
<1>1. PICK f, stop : f = LcdWriteEnd /\ stop = Stop
  OBVIOUS
<1>2. f.steps = <<stop>> /\ f.kind = "call"
  BY <1>1 DEF LcdWriteEnd, Function
<1>3. task[t].todo = <<f>>
  BY <1>1
<1>4. Len(task[t].todo) = 1 /\ task[t].todo[1] = f
  BY <1>3
<1>5. Step(t) = f.steps[1] /\ Doing(t) = f
  BY <1>4, NextStep
<1>6. Len(f.steps) = 1 /\ f.steps[1] = stop
  BY <1>2
<1>7. QED
  BY <1>1, <1>2, <1>4, <1>5, <1>6, StepDoes

-----------------------------------------------------------------------------
(* A step of a call that no other one has overlapped. *)
(* What it leaves: knowledge while the call goes on, the truth at its end. *)
GoesOnKnowing(t) ==
  /\ StaysTime
  /\ task'[t].busy => Tells(task'[t], drv', bus', panel', clock', buf')
  /\ ~task'[t].busy => Reports(task[t], task'[t])

(* A thread's place in its script, when it has one. *)
Placed(w, n, k) ==
  /\ WorkOK(w) /\ w.busy /\ w.kept = "NO_ERROR" /\ w.failed = "none"
  /\ Callable(w.call) /\ Planned(Script(w.call)) /\ Position(w.todo, Script(w.call), n, k)
  /\ Knows(w, bus, panel, clock, buf, n, k)

LEMMA PlacesIt ==
  ASSUME RegisterAssumption, BusInv, NEW t \in Tasks, task[t].busy,
         Tells(task[t], drv, bus, panel, clock, buf),
         task[t].kept = "NO_ERROR", task[t].failed = "none"
  PROVE  \E n, k : Placed(task[t], n, k) /\ Script(task[t].call)[n].steps[k] = Step(t)
                   /\ Doing(t).driver = Script(task[t].call)[n].driver
                   /\ Doing(t).kind = Script(task[t].call)[n].kind
                   /\ n \in 1 .. Len(Script(task[t].call)) /\ k \in 1 .. Len(Script(task[t].call)[n].steps)
<1>1. PICK w : w = task[t]
  OBVIOUS
<1>2. /\ WorkOK(w) /\ Planned(w.todo) /\ Doing(t) = w.todo[1] /\ Step(t) = w.todo[1].steps[1]
  BY <1>1, NextStep
<1>3. Callable(w.call)
  BY <1>1 DEF Tells
<1>4. Planned(Script(w.call))
  BY <1>3, ScriptsAreScripted DEF Scripted
<1>5. PICK n, k : Position(w.todo, Script(w.call), n, k) /\ Knows(w, bus, panel, clock, buf, n, k)
  BY <1>1 DEF Tells
<1>6. /\ n \in 1 .. Len(Script(w.call)) /\ k \in 1 .. Len(Script(w.call)[n].steps)
      /\ w.todo[1].steps[1] = Script(w.call)[n].steps[k]
      /\ w.todo[1].driver = Script(w.call)[n].driver /\ w.todo[1].kind = Script(w.call)[n].kind
  BY <1>2, <1>4, <1>5, HereIs
<1>7. Placed(w, n, k)
  BY <1>1, <1>2, <1>3, <1>4, <1>5 DEF Placed
<1>8. QED
  BY <1>1, <1>2, <1>6, <1>7

LEMMA TellsSensible ==
  ASSUME RegisterAssumption, BusInv, NEW t \in Tasks, task[t].busy, task[t].failed = "none",
         Tells(task[t], drv, bus, panel, clock, buf)
  PROVE  Sensible(t)
<1>1. CASE task[t].kept # "NO_ERROR"
  <2>1. task[t].todo = <<LcdWriteEnd>>
    BY <1>1 DEF Tells
  <2>2. Step(t).do = "stop"
    BY <2>1, EndStep
  <2>3. QED
    BY <2>2 DEF Sensible
<1>2. CASE task[t].kept = "NO_ERROR"
  <2>1. PICK f, k :
          k \in 1 .. Len(f.steps) /\ Suited(f) /\ f.steps[k] = Step(t)
          /\ Doing(t).driver = f.driver /\ Doing(t).kind = f.kind
    <3>1. PICK n, k :
            /\ Placed(task[t], n, k) /\ Script(task[t].call)[n].steps[k] = Step(t)
            /\ Doing(t).driver = Script(task[t].call)[n].driver
            /\ Doing(t).kind = Script(task[t].call)[n].kind
            /\ n \in 1 .. Len(Script(task[t].call)) /\ k \in 1 .. Len(Script(task[t].call)[n].steps)
      BY <1>2, PlacesIt
    <3>2. Suited(Script(task[t].call)[n])
      BY <3>1, ScriptsSuited DEF Placed
    <3>3. QED
      BY <3>1, <3>2
  <2>2. QED
    BY <2>1 DEF Suited, Sensible
<1>3. QED
  BY <1>1, <1>2

LEMMA AdvanceKeeps ==
  ASSUME RegisterAssumption, BusInv, BusTypes, NEW t \in Tasks, task[t].busy,
         Tells(task[t], drv, bus, panel, clock, buf), Advances(t)
  PROVE  GoesOnKnowing(t)
<1>1. PICK w, v : w = task[t] /\ v = task'[t]
  OBVIOUS
<1>2. /\ w.busy /\ w.failed = "none" /\ GoesOn(w, v) /\ Onward(w, v) /\ Takes(Step(t), w.time, v.time)
      /\ ChipTypes /\ w.time \in Times
  BY <1>1 DEF Advances, BusTypes, WorkTyped
<1>3. /\ Callable(w.call) /\ w.seen \subseteq Times /\ IsFiniteSet(w.seen)
      /\ (\A s \in w.seen : Legal(s)) => Legal(clock.registers)
      /\ w.hit => w.kept = "DEPENDENCY"
  BY <1>1, <1>2 DEF Tells, Heard
<1>4. CASE w.kept # "NO_ERROR"
  <2>1. task[t].todo = <<LcdWriteEnd>>
    BY <1>1, <1>4 DEF Tells
  <2>2. Len(w.todo) = 1 /\ Len(w.todo[1].steps) = 1 /\ Step(t).do = "stop"
    BY <1>1, <2>1, EndStep
  <2>3. ~v.busy
    BY <1>2, <2>2 DEF GoesOn
  <2>4. v.error = w.kept
    BY <1>2, <2>3 DEF Onward
  <2>5. clock' = clock
    BY <1>2, <2>2, Taken DEF Local
  <2>6. Reports(w, v)
    BY <1>3, <1>4, <2>4 DEF Reports
  <2>7. QED
    BY <1>1, <2>3, <2>5, <2>6 DEF GoesOnKnowing, StaysTime
<1>5. CASE w.kept = "NO_ERROR"
  <2>1. PICK n, k : Placed(w, n, k) /\ Script(w.call)[n].steps[k] = Step(t)
    BY <1>1, <1>2, <1>5, PlacesIt
  <2>2. Here(w, v, n, k)
    BY <1>2, <1>3, <2>1 DEF Here, Placed
  <2>3. Outcome(w, v)
    BY <1>2, <2>2, CallAdvances
  <2>4. ASSUME v.busy PROVE Tells(v, drv', bus', panel', clock', buf')
    <3>1. /\ v.call = w.call /\ v.seen = w.seen /\ v.kept = "NO_ERROR" /\ v.failed = "none"
          /\ ~v.hit
      BY <1>2, <1>3, <1>5, <2>4 DEF Onward, GoesOn
    <3>2. PICK i, j : Position(v.todo, Script(w.call), i, j) /\ Knows(v, bus', panel', clock', buf', i, j)
      BY <2>3, <2>4 DEF Outcome
    <3>3. (\A s \in v.seen : Legal(s)) => Legal(clock'.registers)
      BY <1>2, <1>3, <2>3, <3>1, LegalStays DEF Outcome
    <3>4. Heard(v, drv')
      BY <3>1 DEF Heard
    <3>5. QED
      BY <1>3, <3>1, <3>2, <3>3, <3>4 DEF Tells
  <2>5. ASSUME ~v.busy PROVE Reports(w, v)
    BY <1>3, <1>5, <2>3, <2>5 DEF Outcome, Reports
  <2>6. QED
    BY <1>1, <2>3, <2>4, <2>5 DEF GoesOnKnowing, Outcome
<1>6. QED
  BY <1>4, <1>5

LEMMA WaitKeeps ==
  ASSUME NEW t \in Tasks, Tells(task[t], drv, bus, panel, clock, buf), Waits(t)
  PROVE  GoesOnKnowing(t)
<1>1. PICK w, v : w = task[t] /\ v = task'[t]
  OBVIOUS
<1>2. /\ w.failed = "none" /\ v.failed = "none" /\ v.busy /\ v.call = w.call /\ v.seen = w.seen
      /\ v.todo = w.todo /\ v.time = w.time /\ v.kept = w.kept /\ v.hit = w.hit
      /\ UNCHANGED <<bus, panel, clock, buf>>
  BY <1>1 DEF Waits, Carries
<1>3. /\ Callable(w.call) /\ w.seen \subseteq Times /\ IsFiniteSet(w.seen)
      /\ (\A s \in w.seen : Legal(s)) => Legal(clock.registers)
      /\ Heard(w, drv)
      /\ w.kept # "NO_ERROR" => w.todo = <<LcdWriteEnd>>
      /\ w.kept = "NO_ERROR" /\ w.failed = "none" =>
           \E n, k : Position(w.todo, Script(w.call), n, k) /\ Knows(w, bus, panel, clock, buf, n, k)
  BY <1>1 DEF Tells
<1>4. ASSUME NEW n, NEW k, Knows(w, bus, panel, clock, buf, n, k)
      PROVE  Knows(v, bus', panel', clock', buf', n, k)
  BY <1>2, <1>4 DEF Knows
<1>5. w.kept = "NO_ERROR" =>
        \E n, k : Position(v.todo, Script(v.call), n, k) /\ Knows(v, bus', panel', clock', buf', n, k)
  BY <1>2, <1>3, <1>4
<1>6. Heard(v, drv')
  BY <1>2, <1>3 DEF Heard
<1>7. Tells(v, drv', bus', panel', clock', buf')
  BY <1>2, <1>3, <1>5, <1>6 DEF Tells
<1>8. QED
  BY <1>1, <1>2, <1>7 DEF GoesOnKnowing, StaysTime

LEMMA StumbleKeeps ==
  ASSUME BusInv, NEW t \in Tasks, task[t].busy,
         Tells(task[t], drv, bus, panel, clock, buf), Stumbles(t)
  PROVE  GoesOnKnowing(t)
<1>1. PICK w, v, error : w = task[t] /\ v = task'[t] /\ error = drv'[Doing(t).driver].error
  OBVIOUS
<1>2. /\ w.failed = "none" /\ v.failed # "none" /\ v.busy /\ v.call = w.call /\ v.seen = w.seen
      /\ v.todo = w.todo /\ v.kept = w.kept /\ clock' = clock /\ error # "NO_ERROR"
      /\ v.hit # w.hit => error = "DEPENDENCY" /\ Step(t).do # "stop"
      /\ Doing(t) = Head(w.todo)
  BY <1>1 DEF Stumbles, Carries, Doing
<1>3. /\ Callable(w.call) /\ w.seen \subseteq Times /\ IsFiniteSet(w.seen)
      /\ (\A s \in w.seen : Legal(s)) => Legal(clock.registers)
      /\ w.hit => w.kept = "DEPENDENCY"
      /\ w.kept # "NO_ERROR" => w.todo = <<LcdWriteEnd>>
  BY <1>1, <1>2 DEF Tells, Heard
<1>4. w.kept # "NO_ERROR" => Step(t).do = "stop"
  BY <1>1, <1>3, EndStep
<1>5. Heard(v, drv')
  BY <1>1, <1>2, <1>3, <1>4 DEF Heard
<1>6. Tells(v, drv', bus', panel', clock', buf')
  BY <1>2, <1>3, <1>5 DEF Tells
<1>7. QED
  BY <1>1, <1>2, <1>6 DEF GoesOnKnowing, StaysTime

LEMMA QuitKeeps ==
  ASSUME BusInv, NEW t \in Tasks, task[t].busy,
         Tells(task[t], drv, bus, panel, clock, buf), Quits(t)
  PROVE  GoesOnKnowing(t)
<1>1. PICK w, v, error : w = task[t] /\ v = task'[t] /\ error = drv[Doing(t).driver].error
  OBVIOUS
<1>2. /\ ~v.busy /\ clock' = clock /\ Doing(t) = Head(w.todo)
      /\ w.kept # "NO_ERROR" => v.error = w.kept
      /\ w.kept = "NO_ERROR" => v.error # "NO_ERROR" /\ (w.failed # "none" => v.error = error)
  BY <1>1 DEF Quits, Doing
<1>3. w.hit => \/ w.kept = "DEPENDENCY"
               \/ w.kept = "NO_ERROR" /\ w.failed # "none" /\ error = "DEPENDENCY"
  BY <1>1, <1>2 DEF Tells, Heard
<1>4. Reports(w, v)
  BY <1>2, <1>3 DEF Reports
<1>5. QED
  BY <1>1, <1>2, <1>4 DEF GoesOnKnowing, StaysTime

LEMMA EndingKeeps ==
  ASSUME BusInv, NEW t \in Tasks, task[t].busy,
         Tells(task[t], drv, bus, panel, clock, buf), GoesToEnd(t)
  PROVE  GoesOnKnowing(t)
<1>1. PICK w, v, error : w = task[t] /\ v = task'[t] /\ error = drv[Doing(t).driver].error
  OBVIOUS
<1>2. /\ w.failed # "none" /\ v.failed = "none" /\ v.busy /\ v.call = w.call /\ v.seen = w.seen
      /\ v.todo = <<LcdWriteEnd>> /\ v.kept = error /\ v.hit = w.hit /\ clock' = clock
      /\ Doing(t) = Head(w.todo) /\ Doing(t).kind = "text"
  BY <1>1 DEF GoesToEnd, Carries, Doing
<1>3. /\ Callable(w.call) /\ w.seen \subseteq Times /\ IsFiniteSet(w.seen)
      /\ (\A s \in w.seen : Legal(s)) => Legal(clock.registers)
      /\ error # "NO_ERROR"
      /\ w.hit => \/ w.kept = "DEPENDENCY"
                  \/ w.kept = "NO_ERROR" /\ error = "DEPENDENCY"
      /\ w.kept # "NO_ERROR" => w.todo = <<LcdWriteEnd>>
  BY <1>1, <1>2 DEF Tells, Heard
<1>4. w.kept = "NO_ERROR"
  BY <1>1, <1>2, <1>3, EndStep
<1>5. Heard(v, drv')
  BY <1>2, <1>3, <1>4 DEF Heard
<1>6. Tells(v, drv', bus', panel', clock', buf')
  BY <1>2, <1>3, <1>5 DEF Tells
<1>7. QED
  BY <1>1, <1>2, <1>6 DEF GoesOnKnowing, StaysTime

LEMMA StepKeeps ==
  ASSUME RegisterAssumption, BusInv, BusTypes, AloneInv, TellsInv, NEW t \in Tasks,
         CallStep(t), task[t].alone
  PROVE  Busy \subseteq {t} /\ Comes(t) /\ GoesOnKnowing(t)
<1>1. task[t].busy
  BY CallSteps DEF Steadily
<1>2. Busy \subseteq {t} /\ Tells(task[t], drv, bus, panel, clock, buf)
  BY <1>1 DEF AloneInv, TellsInv
<1>3. task[t].failed = "none" => Sensible(t)
  BY <1>1, <1>2, TellsSensible
<1>4. task[t].failed # "none" => drv[Doing(t).driver].error # "NO_ERROR"
  BY <1>2 DEF Tells, Heard, Doing
<1>5. Comes(t)
  BY <1>2, <1>3, <1>4, StepsCome DEF BusTypes
<1>6. QED
  BY <1>1, <1>2, <1>5, AdvanceKeeps, WaitKeeps, StumbleKeeps, QuitKeeps, EndingKeeps DEF Comes

-----------------------------------------------------------------------------
(* What the clock shows while no calls have overlapped is a time.          *)
ShownInv ==
  "overlap" \notin past =>
    /\ Coded(clock.registers)
    /\ \A t \in Tasks : task[t].busy => task[t].alone /\ \A s \in task[t].seen : Coded(s)

(* The first step of a call. *)
LEMMA BegunKnows ==
  ASSUME RegisterAssumption, NEW call, Callable(call), NEW v,
         v.call = call, v.seen = {clock.registers}, call.name = "rtcWrite" => v.time = call.time
  PROVE  Knows(v, bus', panel', clock, buf', 1, 1)
<1>1. PICK r \in Nat : r = RegisterCount /\ r >= 1
  BY ManyRegisters
<1>2. 1 \notin 5 .. r + 5 /\ 1 # r + 6
  BY <1>1
<1>3. ReadKnows(v.seen, bus', clock, buf', 1)
  BY <1>1, <1>2 DEF ReadKnows
<1>4. WriteKnows(v.time, bus', clock, buf', 1)
  BY DEF WriteKnows
<1>5. TextKnows(call, bus', panel', 1, 1)
  BY DEF TextKnows
<1>6. call.name \in QuietNames => QuietMeans(Script(call)[1].steps[1], bus')
  <2>1. SUFFICES ASSUME call.name \in QuietNames
                 PROVE  Script(call)[1].steps[1].do # "write"
    BY DEF QuietMeans
  <2>2. PICK s : s = Script(call)[1].steps /\ OnDisplay(s)
    BY <2>1, QuietScript
  <2>3. Planned(Script(call))
    BY ScriptsAreScripted DEF Scripted
  <2>4. 1 \in 1 .. Len(s)
    BY <2>2, <2>3, PlannedHead
  <2>5. s[1].do # "write"
    BY <2>2, <2>4 DEF OnDisplay
  <2>6. QED
    BY <2>2, <2>5
<1>7. QED
  BY <1>3, <1>4, <1>5, <1>6 DEF Knows

LEMMA Beginning ==
  ASSUME RegisterAssumption, BusAssumption, BusInv, BusTypes,
         NEW t \in Tasks, NEW call \in BusCalls[t], Begin(t, call)
  PROVE  /\ t \notin Busy /\ clock' = clock
         /\ past' = IF Busy = {} THEN past ELSE past \cup {"overlap"}
         /\ task'[t].busy /\ task'[t].alone = (Busy = {}) /\ task'[t].seen = {clock.registers}
         /\ Tells(task'[t], drv', bus', panel', clock', buf')
         /\ \A u \in Tasks \ {t} : /\ task'[u].busy => task[u].busy /\ ~task'[u].alone
                                   /\ task'[u].busy => u \in Busy
<1>1. /\ t \notin Busy /\ clock' = clock
      /\ past' = IF Busy = {} THEN past ELSE past \cup {"overlap"}
  BY DEF Begin, chips
<1>2. task' = [u \in Tasks |->
        IF u = t
        THEN [IdleTask EXCEPT !.busy = TRUE, !.call = call, !.todo = Script(call),
                !.alone = (Busy = {}), !.seen = {clock.registers},
                !.time = IF call.name = "rtcWrite" THEN call.time ELSE @]
        ELSE IF u \in Busy THEN [task[u] EXCEPT !.alone = FALSE] ELSE task[u]]
  BY DEF Begin
<1>3. Callable(call)
  BY DEF BusAssumption
<1>4. PICK v, time, script, seen :
        /\ v = task'[t] /\ script = Script(call) /\ seen = {clock.registers}
        /\ time = IF call.name = "rtcWrite" THEN call.time ELSE IdleTask.time
  OBVIOUS
<1>0. v = [IdleTask EXCEPT !.busy = TRUE, !.call = call, !.todo = script,
             !.alone = (Busy = {}), !.seen = seen, !.time = time]
  BY <1>2, <1>4
<1>5. /\ v.busy = TRUE /\ v.call = call /\ v.todo = script /\ v.alone = (Busy = {})
      /\ v.seen = seen /\ v.time = time /\ v.failed = "none" /\ v.kept = "NO_ERROR" /\ v.hit = FALSE
  BY <1>0, IdleMembers DEF IdleTask, Members
<1>6. Knows(v, bus', panel', clock', buf', 1, 1)
  <2>1. Knows(v, bus', panel', clock, buf', 1, 1)
    BY <1>3, <1>4, <1>5, BegunKnows
  <2>2. QED
    BY <1>1, <2>1
<1>7. Position(v.todo, Script(v.call), 1, 1)
  <2>1. Planned(Script(call))
    BY <1>3, ScriptsAreScripted DEF Scripted
  <2>2. QED
    BY <1>4, <1>5, <2>1, AtFirst
<1>8. v.seen \subseteq Times /\ IsFiniteSet(v.seen)
  <2>1. clock.registers \in Times
    BY DEF BusTypes, ChipTypes, Clocks
  <2>2. IsFiniteSet({clock.registers})
    BY FS_Singleton
  <2>3. QED
    BY <1>4, <1>5, <2>1, <2>2
<1>9. (\A s \in v.seen : Legal(s)) => Legal(clock'.registers)
  BY <1>1, <1>4, <1>5
<1>10. Tells(v, drv', bus', panel', clock', buf')
  BY <1>3, <1>5, <1>6, <1>7, <1>8, <1>9 DEF Tells, Heard
<1>11. ASSUME NEW u \in Tasks \ {t}, task'[u].busy
       PROVE  task[u].busy /\ ~task'[u].alone /\ u \in Busy
  <2>1. \/ task'[u] = [task[u] EXCEPT !.alone = FALSE] /\ u \in Busy
        \/ task'[u] = task[u] /\ u \notin Busy
    BY <1>2
  <2>2. {"busy", "alone"} \subseteq DOMAIN task[u]
    BY DEF BusInv, WorkOK, Members
  <2>3. QED
    BY <1>11, <2>1, <2>2 DEF Busy
<1>12. QED
  BY <1>1, <1>4, <1>5, <1>10, <1>11

(* An hour passes. *)
LEMMA HourKnows ==
  ASSUME NEW w, NEW v, v.call = w.call, v.time = w.time, w.seen \subseteq v.seen,
         NEW b, b # To("rtc", "W"), NEW c, NEW d, d.expect = c.expect, d.pointer = c.pointer,
         d.latch = c.latch, d.registers \in v.seen,
         NEW p, NEW f, NEW n, NEW k, Knows(w, b, p, c, f, n, k)
  PROVE  Knows(v, b, p, d, f, n, k)
<1>1. ASSUME NEW time, WriteKnows(time, b, c, f, k) PROVE WriteKnows(time, b, d, f, k)
  BY <1>1 DEF WriteKnows
<1>2. ReadKnows(w.seen, b, c, f, k) => ReadKnows(v.seen, b, d, f, k)
  BY DEF ReadKnows
<1>3. \A bytes \in w.seen : bytes \in v.seen
  OBVIOUS
<1>4. QED
  BY <1>1, <1>2, <1>3 DEF Knows

LEMMA HourTells ==
  ASSUME RegisterAssumption, BusAssumption, BusInv, BusTypes, PassHour
  PROVE  /\ clock'.registers \in Times /\ Coded(clock'.registers) /\ past' = past
         /\ \A t \in Tasks :
              /\ task'[t].busy = task[t].busy /\ task'[t].alone = task[t].alone
              /\ task'[t].seen = task[t].seen \cup {clock'.registers}
              /\ Tells(task[t], drv, bus, panel, clock, buf) =>
                   Tells(task'[t], drv', bus', panel', clock', buf')
<1>1. /\ bus # To("rtc", "W") /\ InRange(Decode(clock.registers))
      /\ drv' = drv /\ bus' = bus /\ panel' = panel /\ buf' = buf /\ past' = past
      /\ task' = [t \in Tasks |-> [task[t] EXCEPT !.seen = @ \cup {clock'.registers}]]
  BY DEF PassHour, To
<1>2. PICK regs : regs = Encode(HourLater(Decode(clock.registers)))
                  /\ clock' = [clock EXCEPT !.registers = regs]
  BY DEF PassHour
<1>3. clock \in Clocks /\ clock.registers \in Times
  BY DEF BusTypes, ChipTypes, Clocks
<1>4. regs \in Times /\ Coded(regs)
  <2>1. PICK time : time = Decode(clock.registers) /\ time \in Times /\ InRange(time)
    BY <1>1, <1>3, CodedTimes
  <2>2. HourLater(time) \in Times /\ InRange(HourLater(time))
    BY <2>1, HoursTyped, HourInRange
  <2>3. QED
    BY <1>2, <2>1, <2>2, TimeAndBack
<1>5. /\ clock'.registers = regs /\ clock'.expect = clock.expect /\ clock'.pointer = clock.pointer
      /\ clock'.latch = clock.latch
  BY <1>2, <1>3 DEF Clocks
<1>6. ASSUME NEW t \in Tasks
      PROVE  /\ task'[t].busy = task[t].busy /\ task'[t].alone = task[t].alone
             /\ task'[t].seen = task[t].seen \cup {regs}
             /\ Tells(task[t], drv, bus, panel, clock, buf) =>
                  Tells(task'[t], drv', bus', panel', clock', buf')
  <2>1. PICK w, v, seen : w = task[t] /\ v = task'[t] /\ seen = w.seen \cup {regs}
    OBVIOUS
  <2>2. v = [w EXCEPT !.seen = seen] /\ DOMAIN w = Members
    BY <1>1, <1>5, <2>1 DEF BusInv, WorkOK
  <2>3. /\ v.busy = w.busy /\ v.alone = w.alone /\ v.seen = seen /\ v.call = w.call
        /\ v.time = w.time /\ v.todo = w.todo /\ v.failed = w.failed /\ v.kept = w.kept
        /\ v.hit = w.hit
    BY <2>2 DEF Members
  <2>4. ASSUME Tells(w, drv, bus, panel, clock, buf)
        PROVE  Tells(v, drv', bus', panel', clock', buf')
    <3>1. /\ Callable(w.call) /\ w.seen \subseteq Times /\ IsFiniteSet(w.seen)
          /\ Heard(w, drv)
          /\ w.kept # "NO_ERROR" => w.todo = <<LcdWriteEnd>>
          /\ w.kept = "NO_ERROR" /\ w.failed = "none" =>
               \E n, k : /\ Position(w.todo, Script(w.call), n, k)
                         /\ Knows(w, bus, panel, clock, buf, n, k)
      BY <2>4 DEF Tells
    <3>2. seen \subseteq Times /\ regs \in seen /\ w.seen \subseteq seen
      BY <1>4, <2>1, <3>1
    <3>3. IsFiniteSet(seen)
      BY <2>1, <3>1, FS_AddElement
    <3>4. (\A s \in v.seen : Legal(s)) => Legal(clock'.registers)
      BY <1>5, <2>3, <3>2
    <3>5. ASSUME NEW n, NEW k, Knows(w, bus, panel, clock, buf, n, k)
          PROVE  Knows(v, bus', panel', clock', buf', n, k)
      <4>1. /\ v.call = w.call /\ v.time = w.time /\ w.seen \subseteq v.seen
            /\ clock'.registers \in v.seen
        BY <1>5, <2>3, <3>2
      <4>2. Knows(v, bus, panel, clock', buf, n, k)
        BY <1>1, <1>5, <3>5, <4>1, HourKnows
      <4>3. QED
        BY <1>1, <4>2
    <3>6. Heard(v, drv')
      BY <1>1, <2>3, <3>1 DEF Heard
    <3>7. v.kept = "NO_ERROR" /\ v.failed = "none" =>
            \E n, k : Position(v.todo, Script(v.call), n, k) /\ Knows(v, bus', panel', clock', buf', n, k)
      BY <2>3, <3>1, <3>5
    <3>8. QED
      BY <2>3, <3>1, <3>2, <3>3, <3>4, <3>6, <3>7 DEF Tells
  <2>5. QED
    BY <2>1, <2>3, <2>4
<1>7. QED
  BY <1>1, <1>4, <1>5, <1>6

LEMMA TellsInvNext ==
  ASSUME RegisterAssumption, BusAssumption, BusInv, BusTypes, AloneInv, TellsInv, [BusNext]_busVars
  PROVE  TellsInv'
<1>1. CASE \E t \in Tasks : \E call \in BusCalls[t] : Begin(t, call)
  <2>1. PICK t \in Tasks : \E call \in BusCalls[t] : Begin(t, call)
    BY <1>1
  <2>2. PICK call \in BusCalls[t] : Begin(t, call)
    BY <2>1
  <2>3. /\ Tells(task'[t], drv', bus', panel', clock', buf')
        /\ \A u \in Tasks \ {t} : task'[u].busy => ~task'[u].alone
    BY <2>2, Beginning
  <2>4. QED
    BY <2>3 DEF TellsInv
<1>2. CASE \E t \in Tasks : CallStep(t)
  <2>1. PICK t \in Tasks : CallStep(t)
    BY <1>2
  <2>2. Steadily(t)
    BY <2>1, CallSteps
  <2>3. ASSUME NEW u \in Tasks, task'[u].busy, task'[u].alone
        PROVE  Tells(task'[u], drv', bus', panel', clock', buf')
    <3>1. CASE u = t
      <4>1. task[t].alone
        BY <2>1, <2>3, <3>1, StaysAlone
      <4>2. QED
        BY <2>1, <2>3, <3>1, <4>1, StepKeeps DEF GoesOnKnowing
    <3>2. CASE u # t
      <4>1. task[u].busy /\ task[u].alone /\ t \in Busy
        BY <2>2, <2>3, <3>2 DEF Steadily, Busy
      <4>2. QED
        BY <3>2, <4>1 DEF AloneInv
    <3>3. QED
      BY <3>1, <3>2
  <2>4. QED
    BY <2>3 DEF TellsInv
<1>3. CASE PassHour
  <2>1. \A t \in Tasks :
          /\ task'[t].busy = task[t].busy /\ task'[t].alone = task[t].alone
          /\ Tells(task[t], drv, bus, panel, clock, buf) =>
               Tells(task'[t], drv', bus', panel', clock', buf')
    BY <1>3, HourTells
  <2>2. QED
    BY <2>1 DEF TellsInv
<1>4. CASE \E d \in {"lcd", "rtc"} : Scan(d)
  <2>1. Busy = {} /\ task' = task
    BY <1>4 DEF Scan
  <2>2. \A u \in Tasks : ~task'[u].busy
    BY <2>1 DEF Busy
  <2>3. QED
    BY <2>2 DEF TellsInv
<1>5. CASE UNCHANGED busVars
  <2>1. drv' = drv /\ bus' = bus /\ panel' = panel /\ clock' = clock /\ buf' = buf /\ task' = task
    BY <1>5 DEF busVars, chips
  <2>2. QED
    BY <2>1 DEF TellsInv
<1>6. QED
  BY <1>1, <1>2, <1>3, <1>4, <1>5 DEF BusNext

LEMMA PastGrows ==
  ASSUME BusInv, NEW t \in Tasks, CallStep(t)
  PROVE  "overlap" \in past' <=> "overlap" \in past
<1>1. \/ past' = past \/ past' = past \cup {"cut"}
  BY CallSteps DEF Locally, Checking, Transferring, Faulting, Asking
<1>2. QED
  BY <1>1

LEMMA ShownInvNext ==
  ASSUME RegisterAssumption, BusAssumption, BusInv, BusTypes, AloneInv, TellsInv, ShownInv,
         [BusNext]_busVars
  PROVE  ShownInv'
<1>0. SUFFICES ASSUME "overlap" \notin past'
               PROVE  /\ Coded(clock'.registers)
                      /\ \A t \in Tasks :
                           task'[t].busy => task'[t].alone /\ \A s \in task'[t].seen : Coded(s)
  BY DEF ShownInv
<1>1. CASE \E t \in Tasks : \E call \in BusCalls[t] : Begin(t, call)
  <2>1. PICK t \in Tasks : \E call \in BusCalls[t] : Begin(t, call)
    BY <1>1
  <2>2. PICK call \in BusCalls[t] : Begin(t, call)
    BY <2>1
  <2>3. /\ clock' = clock /\ past' = IF Busy = {} THEN past ELSE past \cup {"overlap"}
        /\ task'[t].alone = (Busy = {}) /\ task'[t].seen = {clock.registers}
        /\ \A u \in Tasks \ {t} : task'[u].busy => u \in Busy
    BY <2>2, Beginning
  <2>4. Busy = {} /\ past' = past
    BY <1>0, <2>3
  <2>5. Coded(clock.registers)
    BY <1>0, <2>4 DEF ShownInv
  <2>6. QED
    BY <2>3, <2>4, <2>5
<1>2. CASE \E t \in Tasks : CallStep(t)
  <2>1. PICK t \in Tasks : CallStep(t)
    BY <1>2
  <2>2. Steadily(t) /\ "overlap" \notin past
    BY <1>0, <2>1, CallSteps, PastGrows
  <2>3. /\ Coded(clock.registers)
        /\ \A u \in Tasks : task[u].busy => task[u].alone /\ \A s \in task[u].seen : Coded(s)
    BY <2>2 DEF ShownInv
  <2>4. task[t].busy /\ task[t].alone
    BY <2>2, <2>3 DEF Steadily
  <2>5. Busy \subseteq {t} /\ Comes(t) /\ StaysTime
    BY <2>1, <2>4, StepKeeps DEF GoesOnKnowing
  <2>6. Coded(clock'.registers)
    BY <2>3, <2>5, CodedStays DEF BusTypes
  <2>7. task'[t].busy => task'[t].alone = task[t].alone /\ task'[t].seen = task[t].seen
    BY <2>4, <2>5 DEF Comes, Advances, Onward, Waits, Stumbles, Quits, GoesToEnd, Carries
  <2>8. \A u \in Tasks \ {t} : task'[u] = task[u]
    BY <2>2 DEF Steadily
  <2>9. QED
    BY <2>3, <2>4, <2>6, <2>7, <2>8
<1>3. CASE PassHour
  <2>1. /\ Coded(clock'.registers) /\ past' = past
        /\ \A t \in Tasks : /\ task'[t].busy = task[t].busy /\ task'[t].alone = task[t].alone
                            /\ task'[t].seen = task[t].seen \cup {clock'.registers}
    BY <1>3, HourTells
  <2>2. \A t \in Tasks : task[t].busy => task[t].alone /\ \A s \in task[t].seen : Coded(s)
    BY <1>0, <2>1 DEF ShownInv
  <2>3. QED
    BY <2>1, <2>2
<1>4. CASE \E d \in {"lcd", "rtc"} : Scan(d)
  <2>1. task' = task /\ clock' = clock /\ past' = past
    BY <1>4 DEF Scan, chips
  <2>2. QED
    BY <1>0, <2>1 DEF ShownInv
<1>5. CASE UNCHANGED busVars
  <2>1. task' = task /\ clock' = clock /\ past' = past
    BY <1>5 DEF busVars, chips
  <2>2. QED
    BY <1>0, <2>1 DEF ShownInv
<1>6. QED
  BY <1>1, <1>2, <1>3, <1>4, <1>5 DEF BusNext

-----------------------------------------------------------------------------
(* At the start nobody is busy, and the clock shows a time. *)
LEMMA ShownInitially ==
  ASSUME RegisterAssumption, BusAssumption, BusInit
  PROVE  TellsInv /\ ShownInv
<1>1. \A t \in Tasks : ~task[t].busy
  BY IdleMembers DEF BusInit
<1>2. PICK time \in ClockStarts : clock = Clock(Encode(time))
  BY DEF BusInit
<1>3. time \in Times /\ InRange(time)
  BY RangedTimes DEF BusAssumption
<1>4. clock.registers = Encode(time)
  BY <1>2 DEF Clock
<1>5. Coded(clock.registers)
  BY <1>3, <1>4, TimeAndBack
<1>6. QED
  BY <1>1, <1>5 DEF TellsInv, ShownInv

(* A call ends in a step of its own. *)
LEMMA EndsKnowing ==
  ASSUME RegisterAssumption, BusAssumption, BusInv, BusTypes, AloneInv, TellsInv,
         [BusNext]_busVars, NEW t \in Tasks, task[t].busy, ~task'[t].busy, task[t].alone
  PROVE  /\ StaysTime /\ Reports(task[t], task'[t])
         /\ Tells(task[t], drv, bus, panel, clock, buf)
<1>0. t \in Busy /\ {"busy", "alone"} \subseteq DOMAIN task[t]
  BY DEF Busy, BusInv, WorkOK, Members
<1>1. CASE \E u \in Tasks : \E call \in BusCalls[u] : Begin(u, call)
  <2>1. PICK u \in Tasks : \E call \in BusCalls[u] : Begin(u, call)
    BY <1>1
  <2>2. PICK call \in BusCalls[u] : Begin(u, call)
    BY <2>1
  <2>3. u # t /\ task'[t] = [task[t] EXCEPT !.alone = FALSE]
    BY <1>0, <2>2 DEF Begin
  <2>4. QED
    BY <1>0, <2>3
<1>2. CASE \E u \in Tasks : CallStep(u)
  <2>1. PICK u \in Tasks : CallStep(u)
    BY <1>2
  <2>2. u = t
    BY <2>1, CallSteps DEF Steadily
  <2>3. GoesOnKnowing(t)
    BY <2>1, <2>2, StepKeeps
  <2>4. QED
    BY <2>3 DEF GoesOnKnowing, TellsInv
<1>3. CASE PassHour
  <2>1. task'[t].busy = task[t].busy
    BY <1>3, HourTells
  <2>2. QED
    BY <2>1
<1>4. CASE \E d \in {"lcd", "rtc"} : Scan(d)
  BY <1>0, <1>4 DEF Scan
<1>5. CASE UNCHANGED busVars
  BY <1>5 DEF busVars
<1>6. QED
  BY <1>1, <1>2, <1>3, <1>4, <1>5 DEF BusNext

(* What it reports is what the properties say. *)
Truthful(t) ==
  /\ ReadsOneMoment(t) /\ WritesWholeTime(t) /\ ClockStaysLegal(t)
  /\ TextIsShown(t) /\ FailureIsReported(t)

LEMMA ReturnsTrue ==
  ASSUME RegisterAssumption, BusAssumption, BusInv, BusTypes, AloneInv, TellsInv, ShownInv,
         [BusNext]_busVars, NEW t \in Tasks, task[t].busy, ~task'[t].busy, task[t].alone
  PROVE  Truthful(t)
<1>1. PICK w, v : w = task[t] /\ v = task'[t]
  OBVIOUS
<1>2. /\ StaysTime /\ Reports(w, v) /\ Tells(w, drv, bus, panel, clock, buf)
  BY <1>1, EndsKnowing
<1>3. /\ Callable(w.call) /\ w.seen \subseteq Times /\ IsFiniteSet(w.seen)
      /\ (\A s \in w.seen : Legal(s)) => Legal(clock.registers)
  BY <1>2 DEF Tells
<1>4. v.error = "NO_ERROR" => Told(w, v)
  BY <1>2 DEF Reports
<1>5. FailureIsReported(t)
  BY <1>1, <1>2 DEF FailureIsReported, ReturnsAlone, Returns, Reports
<1>6. ClockStaysLegal(t)
  <2>1. (\A s \in w.seen : Legal(s)) => Legal(clock'.registers)
    BY <1>2, <1>3, LegalStays DEF BusTypes
  <2>2. QED
    BY <1>1, <2>1 DEF ClockStaysLegal
<1>7. ASSUME NEW time, \E bytes \in w.seen : time = Decode(bytes)
      PROVE  WasShown(t, time)
  <2>1. PICK bytes \in w.seen : time = Decode(bytes)
    BY <1>7
  <2>2. "overlap" \notin past => Coded(bytes)
    BY <1>1, <2>1 DEF ShownInv
  <2>3. "overlap" \notin past => bytes = Encode(time)
    BY <1>3, <2>1, <2>2, CodedAndBack
  <2>4. QED
    BY <1>1, <2>1, <2>3 DEF WasShown
<1>8. ReadsOneMoment(t)
  <2>1. ASSUME Succeeds(t, {"rtcRead"}) PROVE WasShown(t, task'[t].time)
    <3>1. v.error = "NO_ERROR" /\ w.call.name = "rtcRead"
      BY <1>1, <2>1 DEF Succeeds, Returns
    <3>2. \E bytes \in w.seen : v.time = Decode(bytes)
      BY <1>4, <3>1 DEF Told
    <3>3. QED
      BY <1>1, <1>7, <3>2
  <2>2. ASSUME Succeeds(t, {"rtcSaveStartupTime"}) PROVE WasShown(t, startup')
    <3>1. v.error = "NO_ERROR" /\ w.call.name = "rtcSaveStartupTime"
      BY <1>1, <2>2 DEF Succeeds, Returns
    <3>2. \E bytes \in w.seen : startup' = Decode(bytes)
      BY <1>4, <3>1 DEF Told
    <3>3. QED
      BY <1>7, <3>2
  <2>3. QED
    BY <2>1, <2>2 DEF ReadsOneMoment
<1>9. WritesWholeTime(t)
  <2>1. ASSUME Succeeds(t, {"rtcWrite"}) PROVE Decode(clock.registers) = w.call.time
    <3>1. v.error = "NO_ERROR" /\ w.call.name = "rtcWrite"
      BY <1>1, <2>1 DEF Succeeds, Returns
    <3>2. InRange(w.call.time) /\ clock.registers = Encode(w.call.time)
      BY <1>4, <3>1 DEF Told
    <3>3. w.call.time \in Times
      BY <1>3, <3>1 DEF Callable, Times, Bytes
    <3>4. QED
      BY <3>2, <3>3, TimeAndBack
  <2>2. ASSUME Succeeds(t, {"dateSet"}), Cardinality(w.seen) = 1, NEW seen \in w.seen
        PROVE  Decode(clock.registers) = [Decode(seen) EXCEPT ![w.call.field] = w.call.value]
    <3>1. v.error = "NO_ERROR" /\ w.call.name = "dateSet"
      BY <1>1, <2>2 DEF Succeeds, Returns
    <3>2. PICK bytes \in w.seen :
            LET m == EditedTime(w.call, bytes)
            IN  m \in Times /\ InRange(m) /\ clock.registers = Encode(m)
      BY <1>4, <3>1 DEF Told
    <3>3. PICK only : w.seen = {only}
      BY <1>3, <2>2, FS_Singleton
    <3>4. bytes = seen
      BY <2>2, <3>2, <3>3
    <3>5. PICK m : m = EditedTime(w.call, seen) /\ m \in Times /\ InRange(m) /\ clock.registers = Encode(m)
      BY <3>2, <3>4
    <3>6. Decode(clock.registers) = m
      BY <3>5, TimeAndBack
    <3>7. QED
      BY <3>5, <3>6 DEF EditedTime
  <2>3. QED
    BY <1>1, <2>1, <2>2 DEF WritesWholeTime
<1>10. TextIsShown(t)
  <2>1. SUFFICES ASSUME Succeeds(t, {"lcdWriteString"})
                 PROVE  \A i \in DOMAIN w.call.text :
                          LET at == <<0, 64, 20, 84>>[w.call.row + 1] + w.call.col - 1
                          IN  /\ at + i \in DOMAIN panel'.cells
                              /\ panel'.cells[at + i] = w.call.text[i]
    BY <1>1 DEF TextIsShown
  <2>2. v.error = "NO_ERROR" /\ w.call.name = "lcdWriteString"
    BY <1>1, <2>1 DEF Succeeds, Returns
  <2>3. FitsDisplay(w.call) /\ Stands(w.call, panel', Len(w.call.text))
    BY <1>4, <2>2 DEF Told
  <2>4. w.call.row \in 0 .. 255 /\ w.call.col \in 0 .. 255 /\ DOMAIN w.call.text = 1 .. Len(w.call.text)
    BY <1>3, <2>2, TextParts DEF Callable
  <2>5. PICK x, at : x = Place(w.call) /\ at = <<0, 64, 20, 84>>[w.call.row + 1] + w.call.col - 1
    OBVIOUS
  <2>6. at = x - 1 /\ x \in 0 .. 103
    BY <2>3, <2>4, <2>5, PlaceFits
  <2>7. Len(w.call.text) \in Nat
    BY <1>3, <2>2, TextParts
  <2>8. ASSUME NEW i \in DOMAIN w.call.text
        PROVE  at + i \in DOMAIN panel'.cells /\ panel'.cells[at + i] = w.call.text[i]
    <3>1. i \in 1 .. Len(w.call.text) /\ i \in Nat
      BY <2>4, <2>7
    <3>2. x + i - 1 \in DOMAIN panel'.cells /\ panel'.cells[x + i - 1] = w.call.text[i]
      BY <2>3, <2>5, <3>1 DEF Stands
    <3>3. at + i = x + i - 1
      BY <2>6, <3>1
    <3>4. QED
      BY <3>2, <3>3
  <2>9. QED
    BY <2>5, <2>8
<1>11. QED
  BY <1>5, <1>6, <1>8, <1>9, <1>10 DEF Truthful

(* What a call reports is what it did to the devices, and what it read is  *)
(* what they showed.                                                       *)
THEOREM ResultsAreTrue == BusSpec => BusResultsAreTrue
<1> DEFINE Inv == BusInv /\ BusTypes /\ AloneInv /\ TellsInv /\ ShownInv
<1>1. BusInit => Inv
  <2>1. BusInit => BusInv /\ BusTypes
    BY LevelAssumption, RegisterAssumption, BusAssumption, StartUp, BusTypesInitially
  <2>2. BusInit => AloneInv
    BY IdleMembers DEF BusInit, AloneInv
  <2>3. BusInit => TellsInv /\ ShownInv
    BY RegisterAssumption, BusAssumption, ShownInitially
  <2>4. QED
    BY <2>1, <2>2, <2>3
<1>2. Inv /\ [BusNext]_busVars => Inv'
  BY RegisterAssumption, BusAssumption, BusInvNext, BusTypesNext, AloneInvNext, TellsInvNext,
     ShownInvNext
<1>3. Inv /\ [BusNext]_busVars => [\A t \in Tasks : Truthful(t)]_busVars
  <2>1. SUFFICES ASSUME Inv, [BusNext]_busVars, NEW t \in Tasks
                 PROVE  Truthful(t)
    OBVIOUS
  <2>2. CASE task[t].busy /\ ~task'[t].busy /\ task[t].alone
    BY <2>1, <2>2, RegisterAssumption, BusAssumption, ReturnsTrue
  <2>3. CASE ~(task[t].busy /\ ~task'[t].busy /\ task[t].alone)
    BY <2>3 DEF Truthful, ReadsOneMoment, WritesWholeTime, ClockStaysLegal, TextIsShown,
                FailureIsReported, ReturnsAlone, Succeeds, Returns
  <2>4. QED
    BY <2>2, <2>3
<1>4. BusResultsAreTrue <=> [][\A t \in Tasks : Truthful(t)]_busVars
  BY DEF BusResultsAreTrue, Truthful
<1>5. QED
  BY <1>1, <1>2, <1>3, <1>4, PTL DEF BusSpec
=============================================================================
