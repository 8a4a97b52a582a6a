----------------------------- MODULE BusProofs -----------------------------
(***************************************************************************)
(* The calls of several threads over one bus, for every number of threads, *)
(* calls, faults and overlaps: when none is under way the bus is free, a   *)
(* display driver that runs has set up its display, the status bits follow *)
(* the driver table, and every byte, record and local variable keeps its   *)
(* type.  A thread that has addressed a device has the end of its          *)
(* transaction ahead of it.  At the end the parts of MCDevices together:   *)
(* their types, the status that is true, and the text that goes through.   *)
(***************************************************************************)
EXTENDS MCDevices, DriverProofs

(* Facts about sequences, by position. *)
LEMMA TailOf ==
  ASSUME NEW S, NEW s \in Seq(S), s # <<>>
  PROVE  /\ Tail(s) \in Seq(S) /\ Len(s) \in Nat /\ Len(s) >= 1
         /\ Len(Tail(s)) = Len(s) - 1 /\ Head(s) = s[1] /\ s[1] \in S
         /\ \A i \in 1 .. Len(s) - 1 : Tail(s)[i] = s[i + 1]
BY HeadTailProperties, LenProperties

Joint(S, s, t, u, x, y) ==
  /\ x = Len(s) /\ y = Len(t) /\ u \in Seq(S) /\ Len(u) = x + y
  /\ \A i \in 1 .. x : u[i] = s[i]
  /\ \A i \in 1 .. y : u[x + i] = t[i]
  /\ \A i \in x + 1 .. x + y : u[i] = t[i - x]

LEMMA Joined ==
  ASSUME NEW S, NEW s \in Seq(S), NEW t \in Seq(S)
  PROVE  \E x \in Nat, y \in Nat : Joint(S, s, t, s \o t, x, y)
<1>1. PICK x \in Nat, y \in Nat : x = Len(s) /\ y = Len(t)
  BY LenProperties
<1>2. Joint(S, s, t, s \o t, x, y)
  BY <1>1, ConcatProperties DEF Joint
<1>3. QED
  BY <1>2

-----------------------------------------------------------------------------
(* The steps and functions scripts are made of.                            *)
Controls ==
  {Plain(op) : op \in LifeOps} \cup {With("RLGET", 0)} \cup {With("GETBIT", bit) : bit \in StatusBits}

Reasons == DriverErrors \ {"NO_ERROR"}

Steps ==
  {Start(device, direction) : device \in {"lcd", "rtc"}, direction \in {"R", "W"}} \cup
  {Write(b) : b \in 0 .. 255} \cup {Put(i) : i \in Fields} \cup {Get(i) : i \in Fields} \cup
  {Stop, Require, ToRegisters, FromRegisters, KeepTime} \cup
  {Refuse(e) : e \in Reasons} \cup {Command(c) : c \in Controls} \cup
  {Commit(bit) : bit \in {"init", "start"}} \cup
  {Edit(field, value) : field \in Fields, value \in 0 .. 255}

Kinds == {"call", "text", "command", "info"}

(* Only the display's driver sets a status bit with a step of its own, the *)
(* last one of a command.                                                  *)
FunctionOK(f) ==
  /\ f \in [driver : BusDrivers, kind : Kinds, steps : Seq(Steps)]
  /\ f.steps # <<>>
  /\ \A k \in 1 .. Len(f.steps) : f.steps[k].do = "commit" =>
       f.driver = "lcd" /\ f.kind = "command" /\ k = Len(f.steps)

(* What is left of a script from its k-th step on is bus operations up to  *)
(* the end of a transaction, or all of it, and so through the functions    *)
(* that follow.                                                            *)
Closes(steps, k) ==
  \E m \in k .. Len(steps) :
    steps[m].do = "stop" /\ \A j \in k .. m : steps[j].do \in BusOps

OnBus(steps, k) == \A j \in k .. Len(steps) : steps[j].do \in BusOps

Ends(todo, i) ==
  \E n \in i .. Len(todo) :
    Closes(todo[n].steps, 1) /\ \A j \in i .. n - 1 : OnBus(todo[j].steps, 1)

Leads(todo, i, k) ==
  Closes(todo[i].steps, k) \/ (OnBus(todo[i].steps, k) /\ Ends(todo, i + 1))

(* A transaction that is started will be ended, and only a script's first  *)
(* function sets the bit of an initialization.                             *)
Ordered(todo) ==
  \A i \in 1 .. Len(todo) : \A k \in 1 .. Len(todo[i].steps) :
    todo[i].steps[k].do = "start" => Leads(todo, i, k + 1)

Planned(todo) ==
  /\ todo \in Seq({f \in [driver : BusDrivers, kind : Kinds, steps : Seq(Steps)] : FunctionOK(f)})
  /\ todo # <<>>
  /\ Ordered(todo)
  /\ \A i \in 2 .. Len(todo) : \A k \in 1 .. Len(todo[i].steps) : todo[i].steps[k].do # "commit"

(* What a step is. *)
LEMMA StepKinds ==
  ASSUME NEW s \in Steps
  PROVE  /\ s.do = "start" => s.device \in {"lcd", "rtc"} /\ s.direction \in {"R", "W"}
         /\ s.do = "command" => s.control \in Controls
         /\ s.do = "commit" => s.bit \in {"init", "start"}
         /\ s.do = "refuse" => s.error \in Reasons
         /\ s.do = "write" => s.byte \in 0 .. 255
         /\ s.do \in {"put", "get"} => s.index \in Fields
         /\ s.do = "edit" => s.field \in Fields /\ s.value \in 0 .. 255
BY DEF Steps, Start, Write, Put, Get, Stop, Require, ToRegisters, FromRegisters, KeepTime,
       Refuse, Command, Commit, Edit

LEMMA PlannedHead ==
  ASSUME NEW todo, Planned(todo)
  PROVE  /\ Head(todo) = todo[1] /\ FunctionOK(todo[1]) /\ Len(todo) \in Nat /\ Len(todo) >= 1
         /\ \A i \in 1 .. Len(todo) : FunctionOK(todo[i])
         /\ Head(todo[1].steps) = todo[1].steps[1] /\ todo[1].steps[1] \in Steps
         /\ Len(todo[1].steps) \in Nat /\ Len(todo[1].steps) >= 1
<1> DEFINE S == {f \in [driver : BusDrivers, kind : Kinds, steps : Seq(Steps)] : FunctionOK(f)}
<1>1. todo \in Seq(S) /\ todo # <<>>
  BY DEF Planned
<1>2. /\ Head(todo) = todo[1] /\ Len(todo) \in Nat /\ Len(todo) >= 1
      /\ \A i \in 1 .. Len(todo) : todo[i] \in S
  BY <1>1, TailOf, ElementOfSeq
<1>3. FunctionOK(todo[1]) /\ \A i \in 1 .. Len(todo) : FunctionOK(todo[i])
  BY <1>2
<1>4. todo[1].steps \in Seq(Steps) /\ todo[1].steps # <<>>
  BY <1>3 DEF FunctionOK
<1> HIDE DEF S
<1>5. QED
  BY <1>2, <1>3, <1>4, TailOf

(* Past a step that is not the last of its function.                       *)
Stepped(todo) == [todo EXCEPT ![1].steps = Tail(@)]

LEMMA SteppedIsPlanned ==
  ASSUME NEW todo, Planned(todo), Len(todo[1].steps) > 1
  PROVE  Planned(Stepped(todo)) /\ (Leads(todo, 1, 2) => Leads(Stepped(todo), 1, 1))
<1> DEFINE S     == {f \in [driver : BusDrivers, kind : Kinds, steps : Seq(Steps)] : FunctionOK(f)}
           first == todo[1].steps
           rest  == Tail(first)
           n     == Len(todo)
           next  == Stepped(todo)
           moved == [todo[1] EXCEPT !.steps = rest]
<1>1. todo \in Seq(S) /\ n \in Nat /\ n >= 1 /\ FunctionOK(todo[1]) /\ todo \in [1 .. n -> S]
  <2>1. todo \in Seq(S)
    BY DEF Planned
  <2>2. QED
    BY <2>1, PlannedHead, LenProperties
<1>2. first \in Seq(Steps) /\ first # <<>> /\ Len(first) \in Nat /\ Len(first) > 1
  BY <1>1, LenProperties DEF FunctionOK
<1>3. /\ rest \in Seq(Steps) /\ Len(rest) = Len(first) - 1 /\ rest # <<>>
      /\ \A i \in 1 .. Len(first) - 1 : rest[i] = first[i + 1]
  <2>1. /\ rest \in Seq(Steps) /\ Len(rest) = Len(first) - 1
        /\ \A i \in 1 .. Len(first) - 1 : rest[i] = first[i + 1]
    BY <1>2, TailOf
  <2> HIDE DEF rest, first
  <2>2. rest # <<>>
    BY <1>2, <2>1, EmptySeq
  <2>3. QED
    BY <2>1, <2>2
<1>4. /\ next[1] = moved /\ next[1].steps = rest
      /\ \A i \in 2 .. n : next[i] = todo[i]
      /\ next = [i \in 1 .. n |-> IF i = 1 THEN moved ELSE todo[i]]
  <2>1. todo[1] \in [driver : BusDrivers, kind : Kinds, steps : Seq(Steps)] /\ 1 \in 1 .. n
        /\ DOMAIN todo = 1 .. n
    BY <1>1 DEF FunctionOK
  <2>2. moved.steps = rest
    BY <2>1
  <2>3. next = [todo EXCEPT ![1] = moved]
    BY DEF Stepped
  <2>4. next = [i \in 1 .. n |-> IF i = 1 THEN moved ELSE todo[i]]
    <3> HIDE DEF next, moved, n, S
    <3>1. QED
      BY <1>1, <2>1, <2>3
  <2> HIDE DEF S, n, next, moved
  <2>5. QED
    BY <2>1, <2>2, <2>4
<1>5. FunctionOK(next[1])
  <2>1. next[1] \in [driver : BusDrivers, kind : Kinds, steps : Seq(Steps)]
        /\ next[1].driver = todo[1].driver /\ next[1].kind = todo[1].kind
    BY <1>1, <1>3, <1>4 DEF FunctionOK
  <2>2. ASSUME NEW k \in 1 .. Len(rest), rest[k].do = "commit"
        PROVE  todo[1].driver = "lcd" /\ todo[1].kind = "command" /\ k = Len(rest)
    <3>1. k + 1 \in 1 .. Len(first) /\ first[k + 1].do = "commit"
      BY <1>2, <1>3, <2>2
    <3>2. QED
      BY <1>1, <1>2, <1>3, <3>1 DEF FunctionOK
  <2> HIDE DEF next, rest, first
  <2>3. QED
    BY <1>3, <1>4, <2>1, <2>2 DEF FunctionOK
<1>6. next \in Seq(S) /\ Len(next) = n /\ next # <<>>
  <2>0. next[1] \in [driver : BusDrivers, kind : Kinds, steps : Seq(Steps)]
    BY <1>5 DEF FunctionOK
  <2>1. next \in [1 .. n -> S]
    <3>1. next[1] \in S
      BY <1>5, <2>0
    <3> HIDE DEF S, next, n, moved
    <3>2. moved \in S
      BY <1>4, <3>1
    <3>3. \A i \in 1 .. n : todo[i] \in S
      BY <1>1
    <3>4. next = [i \in 1 .. n |-> IF i = 1 THEN moved ELSE todo[i]]
      BY <1>4
    <3>5. QED
      BY <3>2, <3>3, <3>4
  <2> HIDE DEF next, S, n
  <2>2. next \in Seq(S) /\ Len(next) = n
    BY <1>1, <2>1, LenProperties
  <2>3. QED
    BY <1>1, <2>2
<1> HIDE DEF next, rest, first, n, S
<1>7. ASSUME NEW i \in 2 .. n + 1, Ends(todo, i) PROVE Ends(next, i)
  <2>1. PICK m \in i .. n : Closes(todo[m].steps, 1) /\ \A j \in i .. m - 1 : OnBus(todo[j].steps, 1)
    BY <1>7 DEF Ends, n
  <2>2. m \in i .. Len(next) /\ next[m] = todo[m] /\ \A j \in i .. m - 1 : next[j] = todo[j]
    BY <1>1, <1>4, <1>6, <2>1
  <2>3. QED
    BY <2>1, <2>2 DEF Ends
<1>8. \A k \in 2 .. Len(first) + 1 :
        (Closes(first, k) => Closes(rest, k - 1)) /\ (OnBus(first, k) => OnBus(rest, k - 1))
  <2>1. ASSUME NEW k \in 2 .. Len(first) + 1, Closes(first, k) PROVE Closes(rest, k - 1)
    <3>1. PICK m \in k .. Len(first) :
            first[m].do = "stop" /\ \A j \in k .. m : first[j].do \in BusOps
      BY <2>1 DEF Closes
    <3>2. m - 1 \in k - 1 .. Len(rest) /\ rest[m - 1].do = "stop"
      BY <1>2, <1>3, <3>1
    <3>3. ASSUME NEW j \in k - 1 .. m - 1 PROVE rest[j].do \in BusOps
      <4>1. j \in 1 .. Len(first) - 1 /\ j + 1 \in k .. m
        BY <1>2, <3>1
      <4>2. QED
        BY <1>3, <3>1, <4>1
    <3>4. QED
      BY <3>2, <3>3 DEF Closes
  <2>2. ASSUME NEW k \in 2 .. Len(first) + 1, OnBus(first, k) PROVE OnBus(rest, k - 1)
    <3>1. ASSUME NEW j \in k - 1 .. Len(rest) PROVE rest[j].do \in BusOps
      <4>1. j \in 1 .. Len(first) - 1 /\ j + 1 \in k .. Len(first)
        BY <1>2, <1>3
      <4>2. QED
        BY <1>3, <2>2, <4>1 DEF OnBus
    <3>2. QED
      BY <3>1 DEF OnBus
  <2>3. QED
    BY <2>1, <2>2
<1>9. \A k \in 2 .. Len(first) + 1 : Leads(todo, 1, k) => Leads(next, 1, k - 1)
  <2>1. Ends(todo, 2) => Ends(next, 2)
    BY <1>1, <1>7
  <2>2. QED
    BY <1>4, <1>8, <2>1 DEF Leads, first
<1>10. Ordered(next)
  <2>1. ASSUME NEW k \in 1 .. Len(rest), rest[k].do = "start" PROVE Leads(next, 1, k + 1)
    <3>1. k + 1 \in 1 .. Len(first) /\ first[k + 1].do = "start"
      BY <1>2, <1>3, <2>1
    <3>2. Leads(todo, 1, (k + 1) + 1)
      BY <1>1, <3>1 DEF Planned, Ordered, first, n
    <3>3. QED
      BY <1>2, <1>9, <3>1, <3>2
  <2>2. ASSUME NEW i \in 2 .. n, NEW k \in 1 .. Len(todo[i].steps), todo[i].steps[k].do = "start"
        PROVE  Leads(next, i, k + 1)
    <3>1. Leads(todo, i, k + 1) /\ i + 1 \in 2 .. n + 1
      BY <1>1, <2>2 DEF Planned, Ordered, n
    <3>2. QED
      BY <1>4, <1>7, <3>1 DEF Leads
  <2>3. SUFFICES ASSUME NEW i \in 1 .. n, NEW k \in 1 .. Len(next[i].steps),
                        next[i].steps[k].do = "start"
                 PROVE  Leads(next, i, k + 1)
    BY <1>6 DEF Ordered
  <2>4. CASE i = 1
    BY <1>4, <2>1, <2>3, <2>4
  <2>5. CASE i \in 2 .. n
    BY <1>4, <2>2, <2>3, <2>5
  <2>6. QED
    BY <1>1, <2>4, <2>5
<1>11. \A i \in 2 .. n : \A k \in 1 .. Len(next[i].steps) : next[i].steps[k].do # "commit"
  BY <1>4 DEF Planned, n
<1>12. Planned(next)
  BY <1>6, <1>10, <1>11 DEF Planned, S
<1>13. 2 \in 2 .. Len(first) + 1 /\ 2 - 1 = 1
  BY <1>2
<1>14. Leads(todo, 1, 2) => Leads(next, 1, 1)
  BY <1>9, <1>13
<1>15. QED
  BY <1>12, <1>14 DEF next

(* Past a function that is not the last one.                               *)
LEMMA TailIsPlanned ==
  ASSUME NEW todo, Planned(todo), Len(todo) > 1
  PROVE  Planned(Tail(todo)) /\ (Ends(todo, 2) => Leads(Tail(todo), 1, 1))
<1> DEFINE S    == {f \in [driver : BusDrivers, kind : Kinds, steps : Seq(Steps)] : FunctionOK(f)}
           n    == Len(todo)
           next == Tail(todo)
<1>1. todo \in Seq(S) /\ todo # <<>> /\ n \in Nat /\ n > 1
  BY LenProperties DEF Planned
<1>2. /\ next \in Seq(S) /\ Len(next) = n - 1 /\ next # <<>>
      /\ \A i \in 1 .. n - 1 : next[i] = todo[i + 1]
  <2> HIDE DEF S
  <2>1. /\ next \in Seq(S) /\ Len(next) = n - 1
        /\ \A i \in 1 .. n - 1 : next[i] = todo[i + 1]
    BY <1>1, TailOf
  <2> HIDE DEF next, n
  <2>2. next # <<>>
    BY <1>1, <2>1, EmptySeq
  <2>3. QED
    BY <2>1, <2>2
<1>3. ASSUME NEW i \in 2 .. n + 1, Ends(todo, i) PROVE Ends(next, i - 1)
  <2>1. PICK m \in i .. n : Closes(todo[m].steps, 1) /\ \A j \in i .. m - 1 : OnBus(todo[j].steps, 1)
    BY <1>3 DEF Ends
  <2>2. m - 1 \in i - 1 .. Len(next) /\ next[m - 1] = todo[m]
    BY <1>1, <1>2, <2>1
  <2>3. ASSUME NEW j \in i - 1 .. (m - 1) - 1 PROVE OnBus(next[j].steps, 1)
    <3>1. j \in 1 .. n - 1 /\ j + 1 \in i .. m - 1
      BY <1>1, <2>1
    <3>2. QED
      BY <1>2, <2>1, <3>1
  <2> HIDE DEF next, n
  <2>4. QED
    BY <2>1, <2>2, <2>3 DEF Ends
<1> HIDE DEF next, n, S
<1>4. Ordered(next)
  <2>1. SUFFICES ASSUME NEW i \in 1 .. Len(next), NEW k \in 1 .. Len(next[i].steps),
                        next[i].steps[k].do = "start"
                 PROVE  Leads(next, i, k + 1)
    BY DEF Ordered
  <2>2. next[i] = todo[i + 1] /\ i + 1 \in 1 .. n /\ (i + 1) + 1 \in 2 .. n + 1
    BY <1>1, <1>2
  <2>3. Leads(todo, i + 1, k + 1)
    BY <2>1, <2>2 DEF Planned, Ordered, n
  <2>4. Ends(todo, (i + 1) + 1) => Ends(next, ((i + 1) + 1) - 1)
    BY <1>3, <2>2
  <2>5. ((i + 1) + 1) - 1 = i + 1
    OBVIOUS
  <2>6. QED
    BY <2>2, <2>3, <2>4, <2>5 DEF Leads
<1>5. ASSUME NEW i \in 2 .. Len(next), NEW k \in 1 .. Len(next[i].steps)
      PROVE  next[i].steps[k].do # "commit"
  <2>1. next[i] = todo[i + 1] /\ i + 1 \in 2 .. n
    BY <1>1, <1>2
  <2>2. QED
    BY <2>1 DEF Planned, n
<1>6. Planned(next)
  BY <1>2, <1>4, <1>5 DEF Planned, S
<1>7. ASSUME Ends(todo, 2) PROVE Leads(next, 1, 1)
  <2>1. 2 \in 2 .. n + 1 /\ 2 - 1 = 1
    BY <1>1
  <2>2. Ends(next, 1)
    BY <1>3, <1>7, <2>1
  <2>3. PICK m \in 1 .. Len(next) :
          Closes(next[m].steps, 1) /\ \A j \in 1 .. m - 1 : OnBus(next[j].steps, 1)
    BY <2>2 DEF Ends
  <2>4. CASE m = 1
    BY <2>3, <2>4 DEF Leads
  <2>5. CASE m > 1
    <3>1. OnBus(next[1].steps, 1)
      BY <2>3, <2>5
    <3>2. Ends(next, 1 + 1)
      BY <2>3, <2>5 DEF Ends
    <3>3. QED
      BY <3>1, <3>2 DEF Leads
  <2>6. QED
    BY <2>3, <2>4, <2>5
<1>8. QED
  BY <1>6, <1>7 DEF next

-----------------------------------------------------------------------------
(* Scripts.  The commands an initialization must have sent to the display. *)
Needed == {SETUP, DISPLAYMODE, ENTRYMODE}

Sends(steps, b) ==
  \E j \in 1 .. Len(steps) - 2 :
    steps[j] = Start("lcd", "W") /\ steps[j + 1] = Write(CMD) /\ steps[j + 2] = Write(b)

(* A sequence of steps ends its transactions, and sends these commands.    *)
Part(steps, sent) ==
  /\ steps \in Seq(Steps)
  /\ \A k \in 1 .. Len(steps) :
       /\ steps[k].do = "start" => Closes(steps, k + 1)
       /\ steps[k].do # "commit"
  /\ \A b \in sent : Sends(steps, b)

(* A status bit is set behind the driver's own check and the operations on *)
(* the bus that follow it.                                                 *)
Operation(bit) == IF bit = "init" THEN "INIT" ELSE "START"

Asks(steps) ==
  \E bit \in {"init", "start"} :
    /\ Len(steps) > 2 /\ steps[Len(steps)] = Commit(bit)
    /\ steps[1] = Command(Plain(Operation(bit)))
    /\ \A j \in 2 .. Len(steps) - 1 : steps[j].do \in BusOps

LEMMA JoinedParts ==
  ASSUME NEW s, NEW t, NEW sent, NEW more, Part(s, sent), Part(t, more)
  PROVE  Part(s \o t, sent \cup more)
<1> DEFINE u == s \o t
<1>1. s \in Seq(Steps) /\ t \in Seq(Steps)
  BY DEF Part
<1>2. PICK x \in Nat, y \in Nat : Joint(Steps, s, t, u, x, y)
  BY <1>1, Joined
<1> USE DEF Joint
<1> HIDE DEF u
<1>3. ASSUME NEW k \in 1 .. x + y, u[k].do = "start" PROVE Closes(u, k + 1)
  <2>1. CASE k \in 1 .. x
    <3>1. PICK m \in k + 1 .. x :
            s[m].do = "stop" /\ \A j \in k + 1 .. m : s[j].do \in BusOps
      BY <1>2, <1>3, <2>1 DEF Part, Closes
    <3>2. m \in k + 1 .. x + y /\ \A j \in k + 1 .. m : j \in 1 .. x
      BY <2>1
    <3>3. m \in k + 1 .. Len(u) /\ u[m] = s[m] /\ \A j \in k + 1 .. m : u[j] = s[j]
      BY <1>2, <2>1, <3>2
    <3>4. QED
      BY <3>1, <3>3 DEF Closes
  <2>2. CASE k \in x + 1 .. x + y
    <3>1. PICK i \in 1 .. y : i = k - x /\ u[k] = t[i]
      <4>1. k - x \in 1 .. y
        BY <2>2
      <4>2. u[k] = t[k - x]
        BY <1>2, <2>2
      <4>3. QED
        BY <4>1, <4>2
    <3>2. PICK m \in i + 1 .. y :
            t[m].do = "stop" /\ \A j \in i + 1 .. m : t[j].do \in BusOps
      <4>1. i \in 1 .. Len(t) /\ t[i].do = "start" /\ y = Len(t)
        BY <1>2, <1>3, <3>1
      <4>2. Closes(t, i + 1)
        BY <4>1 DEF Part
      <4>3. QED
        BY <4>1, <4>2 DEF Closes
    <3>3. PICK n \in k + 1 .. x + y : n = x + m
      BY <3>1
    <3>4. u[n] = t[m] /\ n \in k + 1 .. Len(u)
      BY <1>2, <3>1, <3>3
    <3>5. ASSUME NEW j \in k + 1 .. n PROVE u[j].do \in BusOps
      <4>1. j \in x + 1 .. x + y /\ j - x \in i + 1 .. m
        BY <3>1, <3>3
      <4>2. QED
        BY <1>2, <3>2, <4>1
    <3>6. QED
      BY <3>2, <3>4, <3>5 DEF Closes
  <2>3. QED
    BY <2>1, <2>2
<1>4. ASSUME NEW k \in 1 .. x + y PROVE u[k].do # "commit"
  <2>1. CASE k \in 1 .. x
    BY <1>2, <2>1 DEF Part
  <2>2. CASE k \in x + 1 .. x + y
    <3>1. k - x \in 1 .. y /\ u[k] = t[k - x]
      BY <1>2, <2>2
    <3>2. QED
      BY <1>2, <3>1 DEF Part
  <2>3. QED
    BY <2>1, <2>2
<1>5. ASSUME NEW b, Sends(s, b) PROVE Sends(u, b)
  <2>1. PICK j \in 1 .. x - 2 :
          s[j] = Start("lcd", "W") /\ s[j + 1] = Write(CMD) /\ s[j + 2] = Write(b)
    BY <1>2, <1>5 DEF Sends
  <2>2. j \in 1 .. (x + y) - 2 /\ j \in 1 .. x /\ j + 1 \in 1 .. x /\ j + 2 \in 1 .. x
    OBVIOUS
  <2>3. u[j] = s[j] /\ u[j + 1] = s[j + 1] /\ u[j + 2] = s[j + 2]
    BY <1>2, <2>2
  <2>4. QED
    BY <1>2, <2>1, <2>2, <2>3 DEF Sends
<1>6. ASSUME NEW b, Sends(t, b) PROVE Sends(u, b)
  <2>1. PICK j \in 1 .. y - 2 :
          t[j] = Start("lcd", "W") /\ t[j + 1] = Write(CMD) /\ t[j + 2] = Write(b)
    BY <1>2, <1>6 DEF Sends
  <2>2. PICK i \in 1 .. (x + y) - 2 : i = x + j
    OBVIOUS
  <2>3. u[i] = t[j] /\ u[i + 1] = t[j + 1] /\ u[i + 2] = t[j + 2]
    <3>1. i + 1 = x + (j + 1) /\ i + 2 = x + (j + 2)
          /\ j \in 1 .. y /\ j + 1 \in 1 .. y /\ j + 2 \in 1 .. y
      BY <2>2
    <3>2. QED
      BY <1>2, <2>2, <3>1
  <2>4. QED
    BY <1>2, <2>1, <2>3 DEF Sends
<1>7. QED
  BY <1>2, <1>3, <1>4, <1>5, <1>6 DEF Part, u

LEMMA SingleStep ==
  ASSUME NEW s \in Steps, s.do \notin {"start", "commit"}
  PROVE  Part(<<s>>, {})
BY DEF Part

(* The constants of the steps.                                             *)
LEMMA StepsKnown ==
  /\ \A device \in {"lcd", "rtc"}, direction \in {"R", "W"} : Start(device, direction) \in Steps
  /\ \A b \in 0 .. 255 : Write(b) \in Steps
  /\ \A i \in Fields : Put(i) \in Steps /\ Get(i) \in Steps
  /\ {Stop, Require, ToRegisters, FromRegisters, KeepTime} \subseteq Steps
  /\ Refuse("OUT_OF_RANGE") \in Steps
  /\ \A c \in Controls : Command(c) \in Steps
  /\ Commit("init") \in Steps /\ Commit("start") \in Steps
  /\ \A field \in Fields, value \in 0 .. 255 : Edit(field, value) \in Steps
<1>1. \A device \in {"lcd", "rtc"}, direction \in {"R", "W"} : Start(device, direction) \in Steps
  BY DEF Steps
<1>2. \A b \in 0 .. 255 : Write(b) \in Steps
  BY DEF Steps
<1>3. \A i \in Fields : Put(i) \in Steps /\ Get(i) \in Steps
  BY DEF Steps
<1>4. {Stop, Require, ToRegisters, FromRegisters, KeepTime} \subseteq Steps
  BY DEF Steps
<1>5. Refuse("OUT_OF_RANGE") \in Steps
  <2>1. "OUT_OF_RANGE" \in Reasons
    BY DEF Reasons, DriverErrors
  <2>2. QED
    BY <2>1 DEF Steps
<1>6. \A c \in Controls : Command(c) \in Steps
  BY DEF Steps
<1>7. Commit("init") \in Steps /\ Commit("start") \in Steps
  BY DEF Steps
<1>8. \A field \in Fields, value \in 0 .. 255 : Edit(field, value) \in Steps
  BY DEF Steps
<1>9. QED
  BY <1>1, <1>2, <1>3, <1>4, <1>5, <1>6, <1>7, <1>8

LEMMA StepDoes ==
  /\ \A device, direction : Start(device, direction).do = "start"
  /\ \A b : Write(b).do = "write"
  /\ \A i : Put(i).do = "put" /\ Get(i).do = "get"
  /\ Stop.do = "stop" /\ Require.do = "require" /\ ToRegisters.do = "encode"
  /\ FromRegisters.do = "decode" /\ KeepTime.do = "keep"
  /\ \A e : Refuse(e).do = "refuse"
  /\ \A c : Command(c).do = "command"
  /\ \A b : Commit(b).do = "commit"
  /\ \A field, value : Edit(field, value).do = "edit"
BY DEF Start, Write, Put, Get, Stop, Require, ToRegisters, FromRegisters, KeepTime, Refuse,
       Command, Commit, Edit

LEMMA SentCommand == ASSUME NEW b \in 0 .. 255 PROVE Part(SendCommand(b), {b})
<1> DEFINE s == SendCommand(b)
<1>1. Start("lcd", "W") \in Steps /\ Write(CMD) \in Steps /\ Write(b) \in Steps /\ Stop \in Steps
  BY StepsKnown DEF CMD
<1>2. /\ s \in Seq(Steps) /\ Len(s) = 4 /\ s[1] = Start("lcd", "W") /\ s[2] = Write(CMD)
      /\ s[3] = Write(b) /\ s[4] = Stop
  BY <1>1 DEF SendCommand
<1> HIDE DEF s
<1>3. s[1].do = "start" /\ s[2].do = "write" /\ s[3].do = "write" /\ s[4].do = "stop"
  BY <1>2, StepDoes
<1>4. Closes(s, 2)
  BY <1>2, <1>3 DEF Closes, BusOps
<1>5. Sends(s, b)
  BY <1>2 DEF Sends
<1>6. QED
  BY <1>2, <1>3, <1>4, <1>5 DEF Part, s

(* A function whose steps are such a part is one that scripts are made of. *)
LEMMA PartFunction ==
  ASSUME NEW d \in BusDrivers, NEW kind \in Kinds, NEW steps, NEW sent, Part(steps, sent), steps # <<>>
  PROVE  FunctionOK(Function(d, kind, steps)) /\ Function(d, kind, steps).steps = steps
BY DEF FunctionOK, Part, Function

(* The display is set up, or cleared, before the status bit is set.        *)
LEMMA Committed ==
  ASSUME NEW steps, NEW sent, Part(steps, sent), NEW bit \in {"init", "start"},
         NEW f, f = Function("lcd", "command", steps \o <<Commit(bit)>>)
  PROVE  /\ Planned(<<f>>) /\ f.steps = steps \o <<Commit(bit)>>
         /\ \A b \in sent : Sends(f.steps, b)
         /\ \A k \in 1 .. Len(f.steps) : f.steps[k].do = "commit" => f.steps[k] = Commit(bit)
<1> DEFINE last == <<Commit(bit)>>
           all  == steps \o last
<1>1. Commit(bit) \in Steps /\ Commit(bit).do = "commit"
  BY StepsKnown, StepDoes
<1>2. last \in Seq(Steps) /\ Len(last) = 1 /\ last[1] = Commit(bit) /\ steps \in Seq(Steps)
  BY <1>1 DEF Part
<1> HIDE DEF last
<1>3. PICK n \in Nat :
        /\ n = Len(steps) /\ all \in Seq(Steps) /\ Len(all) = n + 1
        /\ \A i \in 1 .. n : all[i] = steps[i]
        /\ all[n + 1] = Commit(bit)
  <2>1. PICK x \in Nat, y \in Nat : Joint(Steps, steps, last, all, x, y)
    BY <1>2, Joined
  <2> HIDE DEF all
  <2>2. y = 1 /\ 1 \in 1 .. y
    BY <1>2, <2>1 DEF Joint
  <2>3. QED
    BY <1>2, <2>1, <2>2 DEF Joint
<1> HIDE DEF all
<1>4. all # <<>>
  BY <1>3, EmptySeq
<1>5. f = [driver |-> "lcd", kind |-> "command", steps |-> all]
  BY DEF Function, all, last
<1>6. FunctionOK(f) /\ f.steps = all
  <2>1. ASSUME NEW k \in 1 .. n + 1, all[k].do = "commit" PROVE k = n + 1
    BY <1>3, <2>1 DEF Part
  <2>2. QED
    BY <1>3, <1>4, <1>5, <2>1 DEF FunctionOK, BusDrivers, Kinds
<1>7. ASSUME NEW k \in 1 .. n + 1, all[k].do = "start" PROVE Closes(all, k + 1)
  <2>1. k \in 1 .. n
    BY <1>1, <1>3, <1>7
  <2>2. PICK m \in k + 1 .. n :
          steps[m].do = "stop" /\ \A j \in k + 1 .. m : steps[j].do \in BusOps
    BY <1>3, <1>7, <2>1 DEF Part, Closes
  <2>3. m \in k + 1 .. n + 1 /\ m \in 1 .. n /\ \A j \in k + 1 .. m : j \in 1 .. n
    BY <2>1
  <2>4. all[m] = steps[m] /\ \A j \in k + 1 .. m : all[j] = steps[j]
    BY <1>3, <2>3
  <2>5. QED
    BY <1>3, <2>2, <2>3, <2>4 DEF Closes
<1>8. Ordered(<<f>>)
  BY <1>3, <1>6, <1>7 DEF Ordered, Leads
<1>9. Planned(<<f>>)
  <2>1. f \in [driver : BusDrivers, kind : Kinds, steps : Seq(Steps)]
    BY <1>6 DEF FunctionOK
  <2>2. QED
    BY <1>6, <1>8, <2>1 DEF Planned
<1>10. ASSUME NEW b \in sent PROVE Sends(all, b)
  <2>1. PICK j \in 1 .. n - 2 :
          steps[j] = Start("lcd", "W") /\ steps[j + 1] = Write(CMD) /\ steps[j + 2] = Write(b)
    BY <1>3 DEF Part, Sends
  <2>2. j \in 1 .. (n + 1) - 2 /\ j \in 1 .. n /\ j + 1 \in 1 .. n /\ j + 2 \in 1 .. n
    OBVIOUS
  <2>3. all[j] = steps[j] /\ all[j + 1] = steps[j + 1] /\ all[j + 2] = steps[j + 2]
    BY <1>3, <2>2
  <2>4. QED
    BY <1>3, <2>1, <2>2, <2>3 DEF Sends
<1>11. ASSUME NEW k \in 1 .. n + 1, all[k].do = "commit" PROVE all[k] = Commit(bit)
  BY <1>3, <1>11 DEF Part
<1>12. QED
  BY <1>3, <1>6, <1>9, <1>10, <1>11 DEF all, last

(* A script of one function that ends what it starts.                      *)
LEMMA OneFunction ==
  ASSUME NEW d \in BusDrivers, NEW kind \in Kinds, NEW steps, NEW sent, Part(steps, sent), steps # <<>>
  PROVE  /\ Planned(<<Function(d, kind, steps)>>)
         /\ \A k \in 1 .. Len(steps) : steps[k].do # "commit"
<1> DEFINE f == Function(d, kind, steps)
<1>1. FunctionOK(f) /\ f.steps = steps
  BY PartFunction
<1> HIDE DEF f
<1>2. Ordered(<<f>>)
  BY <1>1 DEF Ordered, Leads, Part
<1>3. f \in [driver : BusDrivers, kind : Kinds, steps : Seq(Steps)]
  BY <1>1 DEF FunctionOK
<1>4. Planned(<<f>>)
  BY <1>1, <1>2, <1>3 DEF Planned
<1>5. QED
  BY <1>4 DEF f, Part

(* A command, and what it goes on to send.                                 *)
Opens(steps, op) ==
  /\ steps \in Seq(Steps) /\ Len(steps) \in Nat /\ Len(steps) >= 1
  /\ steps[1] = Command(Plain(op)) /\ OnBus(steps, 2)

LEMMA SentOnBus == ASSUME NEW b PROVE OnBus(SendCommand(b), 1) /\ Len(SendCommand(b)) = 4
<1>1. Start("lcd", "W").do = "start" /\ Write(CMD).do = "write" /\ Write(b).do = "write"
      /\ Stop.do = "stop"
  BY StepDoes
<1>2. PICK s : s = SendCommand(b)
  OBVIOUS
<1>3. Len(s) = 4 /\ s[1] = Start("lcd", "W") /\ s[2] = Write(CMD) /\ s[3] = Write(b) /\ s[4] = Stop
  BY <1>2 DEF SendCommand
<1>4. QED
  BY <1>1, <1>2, <1>3 DEF OnBus, BusOps

LEMMA OpenedOnBus ==
  ASSUME NEW op, NEW s, NEW t, Opens(s, op), t \in Seq(Steps), OnBus(t, 1)
  PROVE  Opens(s \o t, op) /\ Len(s \o t) = Len(s) + Len(t)
<1>1. s \in Seq(Steps)
  BY DEF Opens
<1>2. PICK u : u = s \o t
  OBVIOUS
<1>3. PICK x \in Nat, y \in Nat : Joint(Steps, s, t, u, x, y)
  BY <1>1, <1>2, Joined
<1>4. /\ x >= 1 /\ Len(u) = x + y /\ u \in Seq(Steps) /\ u[1] = s[1]
      /\ x = Len(s) /\ y = Len(t)
  BY <1>3 DEF Joint, Opens
<1>5. ASSUME NEW j \in 2 .. x + y PROVE u[j].do \in BusOps
  <2>1. CASE j \in 2 .. x
    BY <1>3, <2>1 DEF Joint, Opens, OnBus
  <2>2. CASE j \in x + 1 .. x + y
    <3>1. j - x \in 1 .. y /\ u[j] = t[j - x]
      BY <1>3, <2>2 DEF Joint
    <3>2. QED
      BY <1>4, <3>1 DEF OnBus
  <2>3. QED
    BY <1>4, <2>1, <2>2
<1>6. QED
  BY <1>2, <1>4, <1>5 DEF Opens, OnBus

LEMMA AsksInBetween ==
  ASSUME NEW bit \in {"init", "start"}, NEW s, Opens(s, Operation(bit)), Len(s) > 1
  PROVE  Asks(s \o <<Commit(bit)>>)
<1>1. s \in Seq(Steps) /\ <<Commit(bit)>> \in Seq(Steps)
  <2>1. PICK commit : commit = Commit(bit) /\ commit \in Steps
    BY StepsKnown
  <2>2. QED
    BY <2>1 DEF Opens
<1>2. PICK t : t = <<Commit(bit)>>
  OBVIOUS
<1> DEFINE u == s \o t
<1>3. PICK x \in Nat, y \in Nat : Joint(Steps, s, t, u, x, y)
  BY <1>1, <1>2, Joined
<1>4. /\ y = 1 /\ x > 1 /\ Len(u) = x + 1 /\ u[1] = s[1] /\ u[x + 1] = Commit(bit)
      /\ \A j \in 2 .. x : u[j] = s[j]
  <2> HIDE DEF u
  <2>1. Len(t) = 1 /\ t[1] = Commit(bit)
    BY <1>2
  <2>2. y = 1 /\ 1 \in 1 .. y /\ x > 1
    BY <1>3, <2>1 DEF Joint
  <2>3. 1 \in 1 .. x /\ \A j \in 2 .. x : j \in 1 .. x
    BY <2>2
  <2>4. QED
    BY <1>3, <2>1, <2>2, <2>3 DEF Joint
<1> HIDE DEF u
<1>5. \A j \in 2 .. (x + 1) - 1 : u[j].do \in BusOps
  BY <1>3, <1>4 DEF Opens, OnBus, Joint
<1>6. QED
  BY <1>2, <1>4, <1>5 DEF Asks, Opens, u

-----------------------------------------------------------------------------
(* The scripts of the display's driver.                                    *)
LEMMA DisplayScripts ==
  /\ Planned(<<Function("lcd", "command", LcdInit)>>)
  /\ \A b \in Needed : Sends(LcdInit, b)
  /\ Planned(<<Function("lcd", "command", LcdStart)>>)
  /\ \A k \in 1 .. Len(LcdStart) : LcdStart[k].do = "commit" => LcdStart[k] = Commit("start")
  /\ Asks(LcdInit) /\ Asks(LcdStart)
<1>1. /\ Part(SendCommand(SETUP), {SETUP}) /\ Part(SendCommand(DISPLAYMODE), {DISPLAYMODE})
      /\ Part(SendCommand(CLEAR), {CLEAR}) /\ Part(SendCommand(ENTRYMODE), {ENTRYMODE})
  BY SentCommand DEF SETUP, DISPLAYMODE, CLEAR, ENTRYMODE
<1>2. Part(<<Command(Plain("INIT"))>>, {}) /\ Part(<<Command(Plain("START"))>>, {})
  <2>1. Plain("INIT") \in Controls /\ Plain("START") \in Controls
    BY DEF Controls, LifeOps
  <2>2. QED
    BY <2>1, StepsKnown, StepDoes, SingleStep
<1> DEFINE first  == <<Command(Plain("INIT"))>> \o SendCommand(SETUP)
           second == first \o SendCommand(DISPLAYMODE)
           third  == second \o SendCommand(CLEAR)
           fourth == third \o SendCommand(ENTRYMODE)
           start  == <<Command(Plain("START"))>> \o SendCommand(CLEAR)
<1>3. PICK sent : Part(fourth, sent) /\ Needed \subseteq sent
  <2>1. Part(first, {} \cup {SETUP})
    BY <1>1, <1>2, JoinedParts
  <2> HIDE DEF first
  <2>2. Part(second, ({} \cup {SETUP}) \cup {DISPLAYMODE})
    BY <1>1, <2>1, JoinedParts
  <2> HIDE DEF second
  <2>3. Part(third, (({} \cup {SETUP}) \cup {DISPLAYMODE}) \cup {CLEAR})
    BY <1>1, <2>2, JoinedParts
  <2> HIDE DEF third
  <2>4. Part(fourth, ((({} \cup {SETUP}) \cup {DISPLAYMODE}) \cup {CLEAR}) \cup {ENTRYMODE})
    BY <1>1, <2>3, JoinedParts
  <2>5. QED
    BY <2>4 DEF Needed
<1>4. Part(start, {} \cup {CLEAR})
  BY <1>1, <1>2, JoinedParts
<1>5. LcdInit = fourth \o <<Commit("init")>> /\ LcdStart = start \o <<Commit("start")>>
  BY DEF LcdInit, LcdStart
<1> HIDE DEF fourth, start
<1>6. PICK f : f = Function("lcd", "command", LcdInit)
  OBVIOUS
<1>7. Planned(<<f>>) /\ f.steps = LcdInit /\ \A b \in Needed : Sends(f.steps, b)
  BY <1>3, <1>5, <1>6, Committed
<1>8. PICK g : g = Function("lcd", "command", LcdStart)
  OBVIOUS
<1>9. /\ Planned(<<g>>) /\ g.steps = LcdStart
      /\ \A k \in 1 .. Len(g.steps) : g.steps[k].do = "commit" => g.steps[k] = Commit("start")
  BY <1>4, <1>5, <1>8, Committed
<1>10. Asks(LcdInit) /\ Asks(LcdStart)
  <2>1. /\ OnBus(SendCommand(SETUP), 1) /\ OnBus(SendCommand(DISPLAYMODE), 1)
        /\ OnBus(SendCommand(CLEAR), 1) /\ OnBus(SendCommand(ENTRYMODE), 1)
    BY SentOnBus DEF SETUP, DISPLAYMODE, CLEAR, ENTRYMODE
  <2>2. Opens(<<Command(Plain("INIT"))>>, "INIT") /\ Opens(<<Command(Plain("START"))>>, "START")
    BY <1>2 DEF Opens, OnBus, Part
  <2>3. Opens(first, "INIT") /\ Len(first) > 1
    BY <1>1, <2>1, <2>2, OpenedOnBus, SentOnBus DEF Part, first
  <2> HIDE DEF first
  <2>4. Opens(second, "INIT") /\ Len(second) > 1
    BY <1>1, <2>1, <2>3, OpenedOnBus DEF Part, second
  <2> HIDE DEF second
  <2>5. Opens(third, "INIT") /\ Len(third) > 1
    BY <1>1, <2>1, <2>4, OpenedOnBus DEF Part, third
  <2> HIDE DEF third
  <2>6. Opens(fourth, "INIT") /\ Len(fourth) > 1
    BY <1>1, <2>1, <2>5, OpenedOnBus DEF Part, fourth
  <2>7. Opens(start, "START") /\ Len(start) > 1
    BY <1>1, <2>1, <2>2, OpenedOnBus, SentOnBus DEF Part, start
  <2>8. Operation("init") = "INIT" /\ Operation("start") = "START"
    BY DEF Operation
  <2>9. QED
    BY <1>5, <2>6, <2>7, <2>8, AsksInBetween
<1>11. QED
  BY <1>6, <1>7, <1>8, <1>9, <1>10

(* The steps that fetch or send the registers.                             *)
LEMMA RegisterSteps ==
  ASSUME RegisterAssumption, NEW s, s \in {[i \in Fields |-> Get(i)], [i \in Fields |-> Put(i)]}
  PROVE  /\ s \in Seq(Steps) /\ RegisterCount \in Nat /\ Len(s) = RegisterCount
         /\ \A i \in 1 .. RegisterCount : s[i].do \in {"get", "put"}
<1>1. RegisterCount \in Nat /\ Fields = 1 .. RegisterCount
  BY LenProperties DEF RegisterAssumption, RegisterCount, Fields
<1>2. s \in [1 .. RegisterCount -> Steps] /\ \A i \in 1 .. RegisterCount : s[i].do \in {"get", "put"}
  <2>1. \A i \in 1 .. RegisterCount : s[i] \in {Get(i), Put(i)}
    BY <1>1
  <2>2. ASSUME NEW i \in 1 .. RegisterCount
        PROVE  s[i] \in Steps /\ s[i].do \in {"get", "put"}
    <3>1. i \in Fields /\ s[i] \in {Get(i), Put(i)}
      BY <1>1, <2>1
    <3>2. Get(i) \in Steps /\ Put(i) \in Steps
      BY <3>1, StepsKnown
    <3>3. Get(i).do = "get" /\ Put(i).do = "put"
      BY DEF Get, Put
    <3>4. QED
      BY <3>1, <3>2, <3>3
  <2>3. s = [i \in 1 .. RegisterCount |-> s[i]]
    BY <1>1
  <2>4. QED
    BY <2>2, <2>3
<1>3. s \in Seq(Steps)
  BY <1>1, <1>2
<1>4. QED
  BY <1>1, <1>2, <1>3, LenProperties

(* What is read or written between a start and a stop is bus operations.   *)
LEMMA Enclosed ==
  ASSUME NEW head, NEW middle, NEW last, head \in Seq(Steps), middle \in Seq(Steps),
         last \in Seq(Steps), last # <<>>, last[1] = Stop,
         \A i \in 1 .. Len(middle) : middle[i].do \in {"get", "put"},
         \A i \in 1 .. Len(last) : last[i].do \notin {"start", "commit"},
         \A i \in 1 .. Len(head) :
           /\ head[i].do # "commit"
           /\ head[i].do = "start" => \A j \in i + 1 .. Len(head) : head[j].do \in BusOps
  PROVE  Part((head \o middle) \o last, {})
<1> DEFINE front == head \o middle
           all   == front \o last
<1>1. PICK x \in Nat, y \in Nat : Joint(Steps, head, middle, front, x, y)
  BY Joined
<1> HIDE DEF front
<1>2. front \in Seq(Steps) /\ Len(front) = x + y
  BY <1>1 DEF Joint
<1>3. PICK v \in Nat, z \in Nat : Joint(Steps, front, last, all, v, z)
  BY <1>2, Joined
<1>4. v = x + y /\ z = Len(last) /\ z >= 1 /\ x = Len(head) /\ y = Len(middle)
  <2>1. v = x + y /\ z = Len(last) /\ x = Len(head) /\ y = Len(middle)
    BY <1>1, <1>2, <1>3 DEF Joint
  <2>2. Len(last) # 0
    BY EmptySeq
  <2>3. QED
    BY <2>1, <2>2
<1> HIDE DEF all
<1>5. /\ all \in Seq(Steps) /\ Len(all) = (x + y) + z
      /\ \A i \in 1 .. x : all[i] = head[i]
      /\ \A i \in x + 1 .. x + y : all[i] = middle[i - x]
      /\ \A i \in (x + y) + 1 .. (x + y) + z : all[i] = last[i - (x + y)]
  <2>1. \A i \in 1 .. x : all[i] = head[i]
    <3>1. SUFFICES ASSUME NEW i \in 1 .. x PROVE all[i] = head[i]
      OBVIOUS
    <3>2. i \in 1 .. v
      BY <1>4
    <3>3. QED
      BY <1>1, <1>3, <3>2 DEF Joint
  <2>2. \A i \in x + 1 .. x + y : all[i] = middle[i - x]
    <3>1. SUFFICES ASSUME NEW i \in x + 1 .. x + y PROVE all[i] = middle[i - x]
      OBVIOUS
    <3>2. i \in 1 .. v
      BY <1>4
    <3>3. QED
      BY <1>1, <1>3, <3>2 DEF Joint
  <2>3. QED
    BY <1>3, <1>4, <2>1, <2>2 DEF Joint
<1>6. all[(x + y) + 1] = Stop
  <2>1. (x + y) + 1 \in (x + y) + 1 .. (x + y) + z /\ ((x + y) + 1) - (x + y) = 1
    BY <1>4
  <2>2. QED
    BY <1>5, <2>1
<1>7. \A j \in x + 1 .. x + y : all[j].do \in BusOps /\ all[j].do \notin {"start", "commit"}
  <2>1. SUFFICES ASSUME NEW j \in x + 1 .. x + y
                 PROVE  all[j].do \in BusOps /\ all[j].do \notin {"start", "commit"}
    OBVIOUS
  <2>2. j - x \in 1 .. y /\ all[j] = middle[j - x]
    BY <1>5
  <2>3. QED
    BY <1>4, <2>2 DEF BusOps
<1>8. \A j \in (x + y) + 1 .. (x + y) + z : all[j].do \notin {"start", "commit"}
  <2>1. SUFFICES ASSUME NEW j \in (x + y) + 1 .. (x + y) + z PROVE all[j].do \notin {"start", "commit"}
    OBVIOUS
  <2>2. j - (x + y) \in 1 .. z /\ all[j] = last[j - (x + y)]
    BY <1>5
  <2>3. QED
    BY <1>4, <2>2
<1>9. ASSUME NEW k \in 1 .. (x + y) + z, all[k].do = "start" PROVE Closes(all, k + 1)
  <2>1. k \in 1 .. x
    <3>1. k \notin x + 1 .. x + y
      BY <1>7, <1>9
    <3>2. k \notin (x + y) + 1 .. (x + y) + z
      BY <1>8, <1>9
    <3>3. QED
      BY <1>1, <1>4, <3>1, <3>2
  <2>2. \A j \in k + 1 .. x : all[j].do \in BusOps
    <3>1. head[k].do = "start" /\ k \in 1 .. Len(head)
      BY <1>4, <1>5, <1>9, <2>1
    <3>2. SUFFICES ASSUME NEW j \in k + 1 .. x PROVE all[j].do \in BusOps
      OBVIOUS
    <3>3. j \in 1 .. x /\ head[j].do \in BusOps
      BY <1>4, <2>1, <3>1
    <3>4. QED
      BY <1>5, <3>3
  <2>3. all[(x + y) + 1].do = "stop" /\ all[(x + y) + 1].do \in BusOps
    BY <1>6, StepDoes DEF BusOps
  <2>4. \A j \in k + 1 .. (x + y) + 1 : all[j].do \in BusOps
    <3>1. SUFFICES ASSUME NEW j \in k + 1 .. (x + y) + 1 PROVE all[j].do \in BusOps
      OBVIOUS
    <3>2. j \in k + 1 .. x \/ j \in x + 1 .. x + y \/ j = (x + y) + 1
      BY <2>1
    <3>3. QED
      BY <1>7, <2>2, <2>3, <3>2
  <2>5. (x + y) + 1 \in k + 1 .. (x + y) + z
    BY <1>4, <2>1
  <2>6. QED
    BY <1>5, <2>3, <2>4, <2>5 DEF Closes
<1>10. ASSUME NEW k \in 1 .. (x + y) + z PROVE all[k].do # "commit"
  <2>1. CASE k \in 1 .. x
    BY <1>4, <1>5, <2>1
  <2>2. QED
    BY <1>7, <1>8, <2>1
<1>11. QED
  BY <1>5, <1>9, <1>10 DEF Part, all, front

LEMMA ClockScripts ==
  ASSUME RegisterAssumption
  PROVE  Part(RtcRead, {}) /\ RtcRead # <<>> /\ Part(RtcWrite, {}) /\ RtcWrite # <<>>
<1>1. PICK gets, puts : gets = [i \in Fields |-> Get(i)] /\ puts = [i \in Fields |-> Put(i)]
  OBVIOUS
<1>2. /\ gets \in Seq(Steps) /\ \A i \in 1 .. Len(gets) : gets[i].do \in {"get", "put"}
      /\ puts \in Seq(Steps) /\ \A i \in 1 .. Len(puts) : puts[i].do \in {"get", "put"}
  BY <1>1, RegisterSteps
<1>3. /\ {Stop, Require, ToRegisters, FromRegisters, Write(0)} \subseteq Steps
      /\ Start("rtc", "W") \in Steps /\ Start("rtc", "R") \in Steps
  BY StepsKnown
<1>4. PICK headR, headW, lastR, lastW :
        /\ headR = <<Require, Start("rtc", "W"), Write(0), Start("rtc", "R")>>
        /\ headW = <<Require, ToRegisters, Start("rtc", "W"), Write(0)>>
        /\ lastR = <<Stop, FromRegisters>> /\ lastW = <<Stop>>
  OBVIOUS
<1>5. /\ headR \in Seq(Steps) /\ headW \in Seq(Steps) /\ lastR \in Seq(Steps) /\ lastW \in Seq(Steps)
      /\ Len(headR) = 4 /\ Len(headW) = 4 /\ Len(lastR) = 2 /\ Len(lastW) = 1
      /\ lastR # <<>> /\ lastW # <<>> /\ lastR[1] = Stop /\ lastW[1] = Stop
  BY <1>3, <1>4
<1>6. /\ headR[1].do = "require" /\ headR[2].do = "start" /\ headR[3].do = "write"
      /\ headR[4].do = "start"
      /\ headW[1].do = "require" /\ headW[2].do = "encode" /\ headW[3].do = "start"
      /\ headW[4].do = "write"
      /\ lastR[1].do = "stop" /\ lastR[2].do = "decode" /\ lastW[1].do = "stop"
  BY <1>4, StepDoes
<1>7. Part((headR \o gets) \o lastR, {})
  <2>1. \A i \in 1 .. 4 :
          /\ headR[i].do # "commit"
          /\ headR[i].do = "start" => \A j \in i + 1 .. 4 : headR[j].do \in BusOps
    BY <1>6 DEF BusOps
  <2>2. \A i \in 1 .. Len(lastR) : lastR[i].do \notin {"start", "commit"}
    BY <1>5, <1>6
  <2>3. QED
    BY <1>2, <1>5, <2>1, <2>2, Enclosed
<1>8. Part((headW \o puts) \o lastW, {})
  <2>1. \A i \in 1 .. 4 :
          /\ headW[i].do # "commit"
          /\ headW[i].do = "start" => \A j \in i + 1 .. 4 : headW[j].do \in BusOps
    BY <1>6 DEF BusOps
  <2>2. \A i \in 1 .. Len(lastW) : lastW[i].do \notin {"start", "commit"}
    BY <1>5, <1>6
  <2>3. QED
    BY <1>2, <1>5, <2>1, <2>2, Enclosed
<1>9. RtcRead = (headR \o gets) \o lastR /\ RtcWrite = (headW \o puts) \o lastW
  BY <1>1, <1>4 DEF RtcRead, RtcWrite
<1>10. (headR \o gets) \o lastR # <<>> /\ (headW \o puts) \o lastW # <<>>
  <2>1. headR \o gets \in Seq(Steps) /\ headW \o puts \in Seq(Steps)
    BY <1>2, <1>5, ConcatProperties
  <2>2. PICK x \in Seq(Steps), y \in Seq(Steps) : x = headR \o gets /\ y = headW \o puts
    BY <2>1
  <2>3. Len(x \o lastR) = Len(x) + 2 /\ Len(x) \in Nat /\ Len(y \o lastW) = Len(y) + 1 /\ Len(y) \in Nat
    <3>1. Len(x) \in Nat /\ Len(y) \in Nat
      BY LenProperties
    <3>2. Len(x \o lastR) = Len(x) + Len(lastR) /\ Len(y \o lastW) = Len(y) + Len(lastW)
      BY <1>5, ConcatProperties
    <3>3. QED
      BY <1>5, <3>1, <3>2
  <2>4. x \o lastR \in Seq(Steps) /\ y \o lastW \in Seq(Steps)
    BY <1>7, <1>8, <2>2 DEF Part
  <2>5. x \o lastR # <<>> /\ y \o lastW # <<>>
    BY <2>3, <2>4, EmptySeq
  <2>6. QED
    BY <2>2, <2>5
<1>11. QED
  BY <1>7, <1>8, <1>9, <1>10

(* A script is planned, and one that will set a status bit asks before,    *)
(* and sends the commands needed for the display's "init" bit.             *)
Prepared(todo) ==
  \A k \in 1 .. Len(todo[1].steps) :
    todo[1].steps[k].do = "commit" =>
      /\ Asks(todo[1].steps)
      /\ todo[1].steps[k] = Commit("init") => \A b \in Needed : Sends(todo[1].steps, b)

Scripted(todo) == Planned(todo) /\ Prepared(todo)

LEMMA PartsScript ==
  ASSUME NEW todo, todo # <<>>,
         todo \in Seq({f \in [driver : BusDrivers, kind : Kinds, steps : Seq(Steps)] : FunctionOK(f)}),
         \A i \in 1 .. Len(todo) : Part(todo[i].steps, {})
  PROVE  Scripted(todo)
<1>1. Len(todo) \in Nat /\ Len(todo) >= 1
  BY TailOf
<1>2. Ordered(todo)
  BY DEF Part, Ordered, Leads
<1>3. \A i \in 1 .. Len(todo) : \A k \in 1 .. Len(todo[i].steps) : todo[i].steps[k].do # "commit"
  BY DEF Part
<1>4. Planned(todo)
  BY <1>1, <1>2, <1>3 DEF Planned
<1>5. Prepared(todo)
  <2>1. 1 \in 1 .. Len(todo)
    BY <1>1
  <2>2. \A k \in 1 .. Len(todo[1].steps) : todo[1].steps[k].do # "commit"
    BY <1>3, <2>1
  <2>3. QED
    BY <2>2 DEF Prepared
<1>6. QED
  BY <1>4, <1>5 DEF Scripted

LEMMA OnePart ==
  ASSUME NEW d \in BusDrivers, NEW kind \in Kinds, NEW steps, NEW sent, Part(steps, sent), steps # <<>>
  PROVE  Scripted(<<Function(d, kind, steps)>>)
<1> DEFINE f == Function(d, kind, steps)
<1>1. FunctionOK(f) /\ f.steps = steps /\ Part(steps, {})
  BY PartFunction DEF Part
<1> HIDE DEF f
<1>2. f \in [driver : BusDrivers, kind : Kinds, steps : Seq(Steps)]
  BY <1>1 DEF FunctionOK
<1>3. PICK todo : todo = <<f>>
  OBVIOUS
<1>4. /\ todo \in Seq({g \in [driver : BusDrivers, kind : Kinds, steps : Seq(Steps)] : FunctionOK(g)})
      /\ todo # <<>> /\ Len(todo) = 1 /\ todo[1] = f
  BY <1>1, <1>2, <1>3
<1>5. Scripted(todo)
  BY <1>1, <1>4, PartsScript
<1>6. QED
  BY <1>3, <1>5 DEF f

(* Several functions of the clock's driver.                                *)
LEMMA ClockParts ==
  ASSUME NEW a, NEW b, NEW c, Part(a, {}), Part(b, {}), Part(c, {}), a # <<>>, b # <<>>, c # <<>>
  PROVE  /\ Scripted(<<Function("rtc", "call", a), Function("rtc", "call", b)>>)
         /\ Scripted(<<Function("rtc", "call", a), Function("rtc", "call", b),
                       Function("rtc", "call", c)>>)
<1> DEFINE S == {f \in [driver : BusDrivers, kind : Kinds, steps : Seq(Steps)] : FunctionOK(f)}
<1>1. PICK f, g, h : /\ f = Function("rtc", "call", a) /\ g = Function("rtc", "call", b)
                     /\ h = Function("rtc", "call", c)
  OBVIOUS
<1>2. FunctionOK(f) /\ FunctionOK(g) /\ FunctionOK(h)
      /\ f.steps = a /\ g.steps = b /\ h.steps = c
  BY <1>1, PartFunction DEF BusDrivers, Kinds
<1>3. f \in S /\ g \in S /\ h \in S
  <2>1. /\ f \in [driver : BusDrivers, kind : Kinds, steps : Seq(Steps)]
        /\ g \in [driver : BusDrivers, kind : Kinds, steps : Seq(Steps)]
        /\ h \in [driver : BusDrivers, kind : Kinds, steps : Seq(Steps)]
    BY <1>2 DEF FunctionOK
  <2>2. QED
    BY <1>2, <2>1
<1>4. PICK two, three : two = <<f, g>> /\ three = <<f, g, h>>
  OBVIOUS
<1> HIDE DEF S
<1>5. /\ two \in Seq(S) /\ two # <<>> /\ Len(two) = 2 /\ two[1] = f /\ two[2] = g
      /\ three \in Seq(S) /\ three # <<>> /\ Len(three) = 3 /\ three[1] = f /\ three[2] = g
      /\ three[3] = h
  BY <1>3, <1>4
<1>6. Scripted(two)
  <2>1. \A i \in 1 .. Len(two) : Part(two[i].steps, {})
    BY <1>2, <1>5
  <2>2. QED
    BY <1>5, <2>1, PartsScript DEF S
<1>7. Scripted(three)
  <2>1. \A i \in 1 .. Len(three) : Part(three[i].steps, {})
    BY <1>2, <1>5
  <2>2. QED
    BY <1>5, <2>1, PartsScript DEF S
<1>8. QED
  BY <1>1, <1>4, <1>6, <1>7

(* A text is written between a start and an end that other functions hold. *)
LEMMA TextScript ==
  ASSUME NEW row \in 0 .. 255, NEW col \in 0 .. 255, NEW str \in Seq(0 .. 255)
  PROVE  Scripted(<<LcdSetCursor(row, col), LcdWriteStart>>
                    \o [i \in DOMAIN str |-> LcdWriteByte(str[i])] \o <<LcdWriteEnd>>)
<1> DEFINE S == {f \in [driver : BusDrivers, kind : Kinds, steps : Seq(Steps)] : FunctionOK(f)}
           bytes == [i \in DOMAIN str |-> LcdWriteByte(str[i])]
<1>1. /\ Part(LcdSetCursor(row, col).steps, {}) /\ FunctionOK(LcdSetCursor(row, col))
  <2>1. Part(<<Require>>, {}) /\ Part(<<Refuse("OUT_OF_RANGE")>>, {})
    BY StepsKnown, StepDoes, SingleStep
  <2>0. "lcd" \in BusDrivers /\ "call" \in Kinds
    BY DEF BusDrivers, Kinds
  <2>2. CASE row < Rows /\ col < Columns
    <3>1. PICK b \in 0 .. 255 : b = SETCURSOR + RowAddress(row) + col
      <4>1. row \in {0, 1, 2, 3} /\ col \in 0 .. 19
        BY <2>2 DEF Rows, Columns
      <4>2. RowAddress(row) \in 0 .. 84
        BY <4>1 DEF RowAddress
      <4>3. \A a \in 0 .. 84, c \in 0 .. 19 : 128 + a + c \in 0 .. 255
        OBVIOUS
      <4>4. SETCURSOR + RowAddress(row) + col \in 0 .. 255
        BY <4>1, <4>2, <4>3 DEF SETCURSOR
      <4>5. QED
        BY <4>4
    <3>2. Part(SendCommand(b), {b})
      BY SentCommand
    <3>3. PICK steps : steps = <<Require>> \o SendCommand(b)
      OBVIOUS
    <3>4. Part(steps, {} \cup {b}) /\ steps # <<>>
      <4>1. Part(steps, {} \cup {b})
        BY <2>1, <3>2, <3>3, JoinedParts
      <4>2. Len(<<Require>> \o SendCommand(b)) = Len(<<Require>>) + Len(SendCommand(b))
        BY <2>1, <3>2, ConcatProperties DEF Part
      <4>3. Len(steps) >= 1
        BY <2>1, <3>2, <3>3, <4>2, LenProperties DEF Part
      <4>4. QED
        BY <4>1, <4>3, EmptySeq DEF Part
    <3>5. LcdSetCursor(row, col) = Function("lcd", "call", steps)
      BY <2>2, <3>1, <3>3 DEF LcdSetCursor
    <3>6. Part(steps, {})
      BY <3>4 DEF Part
    <3>7. QED
      BY <2>0, <3>4, <3>5, <3>6, PartFunction
  <2>3. CASE ~(row < Rows /\ col < Columns)
    <3>1. PICK steps : steps = <<Require>> \o <<Refuse("OUT_OF_RANGE")>>
      OBVIOUS
    <3>2. Part(steps, {})
      <4>1. Part(steps, {} \cup {})
        BY <2>1, <3>1, JoinedParts
      <4>2. {} \cup {} = {}
        OBVIOUS
      <4>3. QED
        BY <4>1, <4>2
    <3>3. steps # <<>>
      BY <3>1
    <3>4. LcdSetCursor(row, col) = Function("lcd", "call", steps)
      BY <2>3, <3>1 DEF LcdSetCursor
    <3>5. QED
      BY <2>0, <3>2, <3>3, <3>4, PartFunction
  <2>4. QED
    BY <2>2, <2>3
<1>2. /\ FunctionOK(LcdWriteStart) /\ Len(LcdWriteStart.steps) = 3
      /\ LcdWriteStart.steps[1].do = "require" /\ LcdWriteStart.steps[2].do = "start"
      /\ LcdWriteStart.steps[3].do = "write"
  <2>1. Require \in Steps /\ Start("lcd", "W") \in Steps /\ Write(DATA) \in Steps
    BY StepsKnown DEF DATA
  <2>2. PICK steps : steps = <<Require, Start("lcd", "W"), Write(DATA)>>
    OBVIOUS
  <2>3. /\ steps \in Seq(Steps) /\ Len(steps) = 3 /\ steps # <<>>
        /\ steps[1] = Require /\ steps[2] = Start("lcd", "W") /\ steps[3] = Write(DATA)
    BY <2>1, <2>2
  <2>4. LcdWriteStart = [driver |-> "lcd", kind |-> "call", steps |-> steps]
    BY <2>2 DEF LcdWriteStart, Function
  <2>5. steps[1].do = "require" /\ steps[2].do = "start" /\ steps[3].do = "write"
    BY <2>3, StepDoes
  <2>6. FunctionOK(LcdWriteStart)
    <3>1. /\ LcdWriteStart \in [driver : BusDrivers, kind : Kinds, steps : Seq(Steps)]
          /\ LcdWriteStart.steps = steps
      BY <2>3, <2>4 DEF BusDrivers, Kinds
    <3>2. \A k \in 1 .. 3 : steps[k].do # "commit"
      BY <2>5
    <3>3. QED
      BY <2>3, <3>1, <3>2 DEF FunctionOK
  <2>7. QED
    BY <2>3, <2>4, <2>5, <2>6
<1>3. /\ FunctionOK(LcdWriteEnd) /\ Len(LcdWriteEnd.steps) = 1 /\ LcdWriteEnd.steps[1].do = "stop"
  <2>1. Part(<<Stop>>, {})
    BY StepsKnown, StepDoes, SingleStep
  <2>2. FunctionOK(LcdWriteEnd) /\ LcdWriteEnd.steps = <<Stop>>
    BY <2>1, PartFunction DEF LcdWriteEnd, BusDrivers, Kinds
  <2>3. QED
    BY <2>2, StepDoes
<1>4. ASSUME NEW b \in 0 .. 255
      PROVE  /\ FunctionOK(LcdWriteByte(b)) /\ Len(LcdWriteByte(b).steps) = 1
             /\ LcdWriteByte(b).steps[1].do = "write"
  <2>1. Part(<<Write(b)>>, {})
    BY StepsKnown, StepDoes, SingleStep
  <2>2. FunctionOK(LcdWriteByte(b)) /\ LcdWriteByte(b).steps = <<Write(b)>>
    BY <2>1, PartFunction DEF LcdWriteByte, BusDrivers, Kinds
  <2>3. QED
    BY <2>2, StepDoes
<1>5. \A f : FunctionOK(f) => f \in S
  BY DEF FunctionOK
<1>6. PICK n \in Nat :
        /\ n = Len(str) /\ bytes \in Seq(S) /\ Len(bytes) = n
        /\ \A i \in 1 .. n : Len(bytes[i].steps) = 1 /\ bytes[i].steps[1].do = "write"
  <2>1. Len(str) \in Nat /\ DOMAIN str = 1 .. Len(str) /\ \A i \in 1 .. Len(str) : str[i] \in 0 .. 255
    BY LenProperties, ElementOfSeq
  <2>2. \A i \in 1 .. Len(str) : LcdWriteByte(str[i]) \in S
    BY <1>4, <1>5, <2>1
  <2>3. \A i \in 1 .. Len(str) :
          Len(LcdWriteByte(str[i]).steps) = 1 /\ LcdWriteByte(str[i]).steps[1].do = "write"
    BY <1>4, <2>1
  <2> HIDE DEF S
  <2>4. bytes \in [1 .. Len(str) -> S]
    BY <2>1, <2>2
  <2>5. bytes \in Seq(S) /\ Len(bytes) = Len(str)
    BY <2>1, <2>4, LenProperties
  <2>6. QED
    BY <2>1, <2>3, <2>5
<1>7. PICK head, end : head = <<LcdSetCursor(row, col), LcdWriteStart>> /\ end = <<LcdWriteEnd>>
  OBVIOUS
<1> HIDE DEF bytes, S
<1>8. /\ head \in Seq(S) /\ Len(head) = 2 /\ head[1] = LcdSetCursor(row, col)
      /\ head[2] = LcdWriteStart
      /\ end \in Seq(S) /\ Len(end) = 1 /\ end[1] = LcdWriteEnd
  <2>1. LcdSetCursor(row, col) \in S /\ LcdWriteStart \in S /\ LcdWriteEnd \in S
    BY <1>1, <1>2, <1>3, <1>5
  <2>2. QED
    BY <1>7, <2>1
<1>9. PICK front \in Seq(S) :
        /\ front = head \o bytes /\ Len(front) = n + 2 /\ front[1] = head[1] /\ front[2] = head[2]
        /\ \A i \in 3 .. n + 2 : front[i] = bytes[i - 2]
  <2>1. PICK x \in Nat, y \in Nat : Joint(S, head, bytes, head \o bytes, x, y)
    BY <1>6, <1>8, Joined
  <2>2. PICK front : front = head \o bytes
    OBVIOUS
  <2>3. x = 2 /\ y = n
    BY <1>6, <1>8, <2>1 DEF Joint
  <2>4. Joint(S, head, bytes, front, 2, n)
    BY <2>1, <2>2, <2>3
  <2>5. /\ front \in Seq(S) /\ Len(front) = 2 + n
        /\ \A i \in 1 .. 2 : front[i] = head[i]
        /\ \A i \in 2 + 1 .. 2 + n : front[i] = bytes[i - 2]
    BY <2>4 DEF Joint
  <2>6. 2 + n = n + 2 /\ 2 + 1 = 3
    OBVIOUS
  <2>7. /\ Len(front) = n + 2
        /\ \A i \in 3 .. n + 2 : front[i] = bytes[i - 2]
    BY <2>5, <2>6
  <2>8. front[1] = head[1] /\ front[2] = head[2]
    BY <2>5
  <2>9. QED
    BY <2>2, <2>5, <2>7, <2>8
<1>10. PICK todo \in Seq(S) :
         /\ todo = front \o end /\ Len(todo) = n + 3
         /\ \A i \in 1 .. n + 2 : todo[i] = front[i]
         /\ todo[n + 3] = LcdWriteEnd
  <2>1. PICK x \in Nat, y \in Nat : Joint(S, front, end, front \o end, x, y)
    BY <1>8, Joined
  <2>2. PICK todo : todo = front \o end
    OBVIOUS
  <2>3. x = n + 2 /\ y = 1
    BY <1>8, <1>9, <2>1 DEF Joint
  <2>4. Joint(S, front, end, todo, n + 2, 1)
    BY <2>1, <2>2, <2>3
  <2>5. /\ todo \in Seq(S) /\ Len(todo) = (n + 2) + 1
        /\ \A i \in 1 .. n + 2 : todo[i] = front[i]
        /\ \A i \in 1 .. 1 : todo[(n + 2) + i] = end[i]
    BY <2>4 DEF Joint
  <2>6. (n + 2) + 1 = n + 3
    OBVIOUS
  <2>7. todo[(n + 2) + 1] = end[1]
    BY <2>5
  <2>8. QED
    BY <1>8, <2>2, <2>5, <2>6, <2>7
<1>11. /\ todo[1] = LcdSetCursor(row, col) /\ todo[2] = LcdWriteStart
       /\ \A i \in 3 .. n + 2 : Len(todo[i].steps) = 1 /\ todo[i].steps[1].do = "write"
  <2>1. 1 \in 1 .. n + 2 /\ 2 \in 1 .. n + 2
    OBVIOUS
  <2>2. ASSUME NEW i \in 3 .. n + 2 PROVE Len(todo[i].steps) = 1 /\ todo[i].steps[1].do = "write"
    <3>1. i - 2 \in 1 .. n /\ i \in 1 .. n + 2
      OBVIOUS
    <3>2. todo[i] = bytes[i - 2]
      BY <1>9, <1>10, <3>1
    <3>3. QED
      BY <1>6, <3>1, <3>2
  <2>3. QED
    BY <1>8, <1>9, <1>10, <2>1, <2>2
<1>12. Ends(todo, 3)
  <2>1. Closes(LcdWriteEnd.steps, 1)
    BY <1>3 DEF Closes, BusOps
  <2>2. ASSUME NEW j \in 3 .. n + 2 PROVE OnBus(todo[j].steps, 1)
    <3>1. Len(todo[j].steps) = 1 /\ todo[j].steps[1].do \in BusOps
      BY <1>11 DEF BusOps
    <3>2. \A k \in 1 .. 1 : k = 1
      OBVIOUS
    <3>3. QED
      BY <3>1, <3>2 DEF OnBus
  <2>3. n + 3 \in 3 .. Len(todo) /\ (n + 3) - 1 = n + 2
    BY <1>10
  <2>4. todo[n + 3] = LcdWriteEnd
    BY <1>10
  <2>5. QED
    BY <2>1, <2>2, <2>3, <2>4 DEF Ends
<1>13. Ordered(todo)
  <2>1. SUFFICES ASSUME NEW i \in 1 .. n + 3, NEW k \in 1 .. Len(todo[i].steps),
                        todo[i].steps[k].do = "start"
                 PROVE  Leads(todo, i, k + 1)
    BY <1>10 DEF Ordered
  <2>2. CASE i = 1
    BY <1>1, <1>11, <2>1, <2>2 DEF Part, Leads
  <2>3. CASE i = 2
    <3>0. todo[i] = LcdWriteStart /\ k \in 1 .. 3
      BY <1>2, <1>11, <2>3
    <3>1. k = 2 /\ Len(todo[2].steps) = 3 /\ todo[2].steps[3].do = "write"
      BY <1>2, <1>11, <2>1, <3>0
    <3>2. OnBus(todo[2].steps, 3)
      BY <3>1 DEF OnBus, BusOps
    <3>3. QED
      BY <1>12, <2>3, <3>1, <3>2 DEF Leads
  <2>4. CASE i \in 3 .. n + 2
    <3>1. Len(todo[i].steps) = 1 /\ todo[i].steps[1].do = "write"
      BY <1>11, <2>4
    <3>2. k = 1
      BY <3>1
    <3>3. QED
      BY <2>1, <3>1, <3>2
  <2>5. CASE i = n + 3
    <3>0. todo[i] = LcdWriteEnd
      BY <1>10, <2>5
    <3>1. todo[i] = LcdWriteEnd /\ Len(todo[i].steps) = 1
      BY <1>3, <3>0
    <3>2. k = 1
      BY <3>1
    <3>3. QED
      BY <1>3, <2>1, <3>1, <3>2
  <2>6. QED
    BY <2>2, <2>3, <2>4, <2>5
<1>14. ASSUME NEW i \in 1 .. n + 3, NEW k \in 1 .. Len(todo[i].steps)
       PROVE  todo[i].steps[k].do # "commit"
  <2>1. CASE i = 1
    BY <1>1, <1>11, <2>1 DEF Part
  <2>2. CASE i = 2
    <3>0. todo[i] = LcdWriteStart
      BY <1>11, <2>2
    <3>1. k \in {1, 2, 3}
      <4>1. Len(todo[i].steps) = 3
        BY <1>2, <3>0
      <4>2. QED
        BY <4>1
    <3>2. QED
      BY <1>2, <1>11, <2>2, <3>1
  <2>3. CASE i \in 3 .. n + 2
    <3>1. Len(todo[i].steps) = 1 /\ todo[i].steps[1].do = "write"
      BY <1>11, <2>3
    <3>2. k = 1
      BY <3>1
    <3>3. QED
      BY <3>1, <3>2
  <2>4. CASE i = n + 3
    <3>0. todo[i] = LcdWriteEnd
      BY <1>10, <2>4
    <3>1. todo[i] = LcdWriteEnd /\ Len(todo[i].steps) = 1
      BY <1>3, <3>0
    <3>2. k = 1
      BY <3>1
    <3>3. QED
      BY <1>3, <3>1, <3>2
  <2>5. QED
    BY <2>1, <2>2, <2>3, <2>4
<1>15. todo # <<>>
  BY <1>10, EmptySeq
<1>16. Planned(todo)
  <2>1. todo \in Seq({f \in [driver : BusDrivers, kind : Kinds, steps : Seq(Steps)] : FunctionOK(f)})
    BY <1>10 DEF S
  <2>2. ASSUME NEW i \in 2 .. Len(todo), NEW k \in 1 .. Len(todo[i].steps)
        PROVE  todo[i].steps[k].do # "commit"
    <3>1. i \in 1 .. n + 3
      BY <1>10
    <3>2. QED
      BY <1>14, <3>1
  <2>3. QED
    BY <1>13, <1>15, <2>1, <2>2 DEF Planned
<1>17. Prepared(todo)
  <2>1. 1 \in 1 .. n + 3
    OBVIOUS
  <2>2. QED
    BY <1>14, <2>1 DEF Prepared
<1>18. QED
  BY <1>7, <1>9, <1>10, <1>16, <1>17 DEF Scripted, bytes

(* Every call's script is as it should be.                                 *)
LEMMA ScriptsAreScripted ==
  ASSUME RegisterAssumption, NEW call, Callable(call)
  PROVE  Scripted(Script(call))
<1>1. Part(RtcRead, {}) /\ RtcRead # <<>> /\ Part(RtcWrite, {}) /\ RtcWrite # <<>>
  BY ClockScripts
<1>2. "lcd" \in BusDrivers /\ "rtc" \in BusDrivers /\ {"call", "text", "command", "info"} \subseteq Kinds
  BY DEF BusDrivers, Kinds
<1>3. CASE call.name = "lcdClear"
  <2>1. PICK steps : steps = <<Require>> \o SendCommand(CLEAR)
    OBVIOUS
  <2>2. Part(<<Require>>, {}) /\ Part(SendCommand(CLEAR), {CLEAR})
    <3>1. Part(<<Require>>, {})
      BY StepsKnown, StepDoes, SingleStep
    <3>2. CLEAR \in 0 .. 255
      BY DEF CLEAR
    <3>3. QED
      BY <3>1, <3>2, SentCommand
  <2>3. Part(steps, {} \cup {CLEAR})
    BY <2>1, <2>2, JoinedParts
  <2>4. steps # <<>>
    BY <2>1 DEF SendCommand
  <2>5. Script(call) = <<Function("lcd", "call", steps)>>
    BY <1>3, <2>1 DEF Script, LcdClear
  <2>6. QED
    BY <1>2, <2>3, <2>4, <2>5, OnePart
<1>4. CASE call.name = "rtcRead"
  BY <1>1, <1>2, <1>4, OnePart DEF Script
<1>5. CASE call.name = "rtcWrite"
  BY <1>1, <1>2, <1>5, OnePart DEF Script
<1>6. CASE call.name = "rtcSaveStartupTime"
  <2>1. Part(<<KeepTime>>, {})
    BY StepsKnown, StepDoes, SingleStep
  <2>2. QED
    BY <1>1, <1>6, <2>1, ClockParts DEF Script
<1>7. CASE call.name = "dateSet"
  <2>1. call.field \in Fields /\ call.value \in 0 .. 255
    BY <1>7 DEF Callable
  <2>2. PICK change : change = Edit(call.field, call.value)
    OBVIOUS
  <2>3. Part(<<change>>, {})
    BY <2>1, <2>2, StepsKnown, StepDoes, SingleStep
  <2>4. QED
    BY <1>1, <1>7, <2>2, <2>3, ClockParts DEF Script
<1>8. CASE call.name = "lcdWriteString"
  <2>1. call.row \in 0 .. 255 /\ call.col \in 0 .. 255 /\ call.text \in Seq(0 .. 255)
    BY <1>8 DEF Callable
  <2>2. Script(call) = <<LcdSetCursor(call.row, call.col), LcdWriteStart>>
                         \o [i \in DOMAIN call.text |-> LcdWriteByte(call.text[i])]
                         \o <<LcdWriteEnd>>
    BY <1>8 DEF Script
  <2>3. QED
    BY <2>1, <2>2, TextScript
<1>9. CASE call.name = "driverGetInfo"
  <2>1. call.driver \in BusDrivers
    BY <1>9 DEF Callable, BusDrivers
  <2>2. /\ With("RLGET", 0) \in Controls /\ With("GETBIT", "init") \in Controls
        /\ With("GETBIT", "start") \in Controls /\ With("GETBIT", "error") \in Controls
        /\ With("GETBIT", "dead") \in Controls
    BY DEF Controls, StatusBits
  <2>3. InfoSteps \in Seq(Steps) /\ Len(InfoSteps) = 5 /\ InfoSteps # <<>>
    BY <2>2, StepsKnown DEF InfoSteps
  <2>4. \A k \in 1 .. 5 : InfoSteps[k].do = "command"
    BY StepDoes DEF InfoSteps
  <2>5. Part(InfoSteps, {})
    BY <2>3, <2>4 DEF Part
  <2>6. QED
    BY <1>2, <1>9, <2>1, <2>3, <2>5, OnePart DEF Script
<1>10. CASE call.name = "driverControl"
  <2>1. call.driver \in BusDrivers /\ call.op \in LifeOps
    BY <1>10 DEF Callable, BusDrivers
  <2>2. CASE call.driver = "lcd" /\ call.op = "INIT"
    <3>1. PICK f : f = Function("lcd", "command", LcdInit)
      OBVIOUS
    <3>2. Script(call) = <<f>> /\ f.steps = LcdInit
      BY <1>10, <2>2, <3>1 DEF Script, ControlScript, Function
    <3>3. QED
      BY <3>1, <3>2, DisplayScripts DEF Scripted, Prepared
  <2>3. CASE call.driver = "lcd" /\ call.op = "START"
    <3>1. PICK f : f = Function("lcd", "command", LcdStart)
      OBVIOUS
    <3>2. Script(call) = <<f>> /\ f.steps = LcdStart
      BY <1>10, <2>3, <3>1 DEF Script, ControlScript, Function
    <3>3. Commit("init") # Commit("start")
      BY DEF Commit
    <3>4. QED
      BY <3>1, <3>2, <3>3, DisplayScripts DEF Scripted, Prepared
  <2>4. CASE ~(call.driver = "lcd" /\ call.op \in {"INIT", "START"})
    <3>1. Plain(call.op) \in Controls
      BY <2>1 DEF Controls
    <3>2. PICK command : command = Command(Plain(call.op))
      OBVIOUS
    <3>3. Part(<<command>>, {})
      BY <3>1, <3>2, StepsKnown, StepDoes, SingleStep
    <3>4. Script(call) = <<Function(call.driver, "command", <<command>>)>>
      BY <1>10, <2>4, <3>2 DEF Script, ControlScript
    <3>5. QED
      BY <1>2, <2>1, <3>3, <3>4, OnePart
  <2>5. QED
    BY <2>2, <2>3, <2>4
<1>11. QED
  BY <1>3, <1>4, <1>5, <1>6, <1>7, <1>8, <1>9, <1>10 DEF Callable

-----------------------------------------------------------------------------
(* The control calls of the drivers on the bus.  Asking the bus first      *)
(* changes no status bit of either driver.                                 *)
LEMMA AskedBus ==
  ASSUME NEW table \in Tables(BusDrivers)
  PROVE  /\ OwnStatus(table, "i2c").table \in Tables(BusDrivers)
         /\ Keeps(OwnStatus(table, "i2c"), table)
         /\ \A e \in BusDrivers : OwnStatus(table, "i2c").table[e].bits = table[e].bits
<1>1. "i2c" \in BusDrivers /\ DOMAIN table = BusDrivers
  BY DEF BusDrivers, Tables
<1>2. QED
  BY <1>1, OwnReply DEF Proper, Keeps

LEMMA KeptThrough ==
  ASSUME NEW table \in Tables(BusDrivers), NEW between \in Tables(BusDrivers), NEW reply,
         \A e \in BusDrivers : between[e].bits = table[e].bits, Keeps(reply, between)
  PROVE  Keeps(reply, table)
BY DEF Keeps, Tables

LEMMA DeviceReply ==
  ASSUME NEW d \in BusDrivers, NEW table \in Tables(BusDrivers)
  PROVE  Proper(DeviceStatus(table, d), BusDrivers, d) /\ Keeps(DeviceStatus(table, d), table)
<1>1. PICK asked : asked = OwnStatus(table, "i2c")
  OBVIOUS
<1>2. /\ asked.table \in Tables(BusDrivers)
      /\ \A e \in BusDrivers : asked.table[e].bits = table[e].bits
  BY <1>1, AskedBus
<1>3. PICK rest : rest = IF asked.state = "running" THEN LifeCycle(asked.table, d)
                         ELSE SetError(asked.table, d, "DEPENDENCY")
  OBVIOUS
<1>4. Proper(rest, BusDrivers, d) /\ Keeps(rest, asked.table)
  <2>1. "DEPENDENCY" \in DriverErrors \ {"NO_ERROR"}
    BY DEF DriverErrors
  <2>2. QED
    BY <1>2, <1>3, <2>1, LifeReply, ErrorReply
<1>5. Keeps(rest, table)
  BY <1>2, <1>4, KeptThrough
<1>6. DeviceStatus(table, d) = Status(table, d, rest)
  BY <1>1, <1>3 DEF DeviceStatus, BusStatus
<1>7. QED
  BY <1>4, <1>5, <1>6, StatusReply

LEMMA OverReply ==
  ASSUME NEW d \in {"lcd", "rtc"}, NEW table \in Tables(BusDrivers)
  PROVE  /\ Proper(OverBus(table, d), BusDrivers, d) /\ Keeps(OverBus(table, d), table)
         /\ OverBus(table, d).state \in {"off", "error"}
<1>0. d \in BusDrivers
  BY DEF BusDrivers
<1>1. PICK asked : asked = OwnStatus(table, "i2c")
  OBVIOUS
<1>2. /\ asked.table \in Tables(BusDrivers) /\ Keeps(asked, table)
      /\ \A e \in BusDrivers : asked.table[e].bits = table[e].bits
  BY <1>1, AskedBus
<1>3. {"DEPENDENCY", "DEAD"} \subseteq DriverErrors \ {"NO_ERROR"}
  BY DEF DriverErrors
<1>4. CASE OverBus(table, d) = SetError(table, d, "DEAD")
  BY <1>0, <1>3, <1>4, ErrorReply
<1>5. CASE OverBus(table, d) = Reply(asked.table, "off")
  BY <1>2, <1>5 DEF Proper, Keeps, Reply, DriverStates
<1>6. CASE OverBus(table, d) = SetError(asked.table, d, "DEPENDENCY")
  <2>1. /\ Proper(OverBus(table, d), BusDrivers, d)
        /\ Keeps(OverBus(table, d), asked.table)
        /\ OverBus(table, d).state = "error"
    BY <1>0, <1>2, <1>3, <1>6, ErrorReply
  <2>2. QED
    BY <1>2, <2>1, KeptThrough
<1>7. QED
  BY <1>1, <1>4, <1>5, <1>6 DEF OverBus

(* What a control call leaves of the status bits: an initialization or a   *)
(* start may add to them, the display's do that in a step of their own.    *)
BusAnswers(reply, table, d, c) ==
  /\ Proper(reply, BusDrivers, d)
  /\ \A e \in BusDrivers \ {d} : reply.table[e].bits = table[e].bits
  /\ c.op \in {"INIT", "START"} =>
       \/ reply.table[d].bits = table[d].bits
       \/ /\ d # "lcd"
          /\ \/ reply.table[d].bits = table[d].bits \cup {"init"}
             \/ reply.table[d].bits = table[d].bits \cup {"start"}
  /\ c.op = "STOP" => reply.table[d].bits = table[d].bits \ {"start"}
  /\ c.op \notin LifeOps =>
       \/ reply.table[d].bits = table[d].bits
       \/ /\ Refusal(c) = "NO_ERROR"
          /\ reply.table[d].bits = Stored(table[d], c).bits

LEMMA I2cAnswers ==
  ASSUME NEW table \in Tables(BusDrivers), NEW c, Storable(c)
  PROVE  BusAnswers(I2cControl(table, c), table, "i2c", c)
<1>1. "i2c" \in BusDrivers /\ DOMAIN table = BusDrivers /\ "NO_ERROR" \in DriverErrors
  BY DEF BusDrivers, Tables, DriverErrors
<1>2. OwnAnswers(I2cControl(table, c), table, BusDrivers, "i2c", c)
  BY <1>1, OwnControl DEF I2cControl
<1>3. QED
  BY <1>1, <1>2 DEF OwnAnswers, BusAnswers, Keeps, Leaves, LifeOps

(* The rest is the same for both devices, from their init and start.       *)
LEMMA DeviceAnswers ==
  ASSUME NEW d \in {"lcd", "rtc"}, NEW table \in Tables(BusDrivers), NEW c, Storable(c),
         NEW initialized, NEW started, NEW reply,
         reply = Control(table, d, c, initialized, started,
                         DeviceStatus(ClearStart(table, d), d), DeviceStatus(Store(table, d, c), d)),
         Proper(initialized, BusDrivers, d), Proper(started, BusDrivers, d),
         \/ Keeps(initialized, table)
         \/ d # "lcd" /\ Leaves(initialized, table, d, table[d].bits \cup {"init"}),
         \/ Keeps(started, table)
         \/ d # "lcd" /\ Leaves(started, table, d, table[d].bits \cup {"start"})
  PROVE  BusAnswers(reply, table, d, c)
<1>1. d \in BusDrivers /\ DOMAIN table = BusDrivers
  BY DEF BusDrivers, Tables
<1>2. PICK stopped, status :
        stopped = DeviceStatus(ClearStart(table, d), d) /\ status = DeviceStatus(Store(table, d, c), d)
  OBVIOUS
<1>3. Proper(stopped, BusDrivers, d) /\ Keeps(stopped, ClearStart(table, d))
  BY <1>1, <1>2, ClearedTable, DeviceReply
<1>4. Store(table, d, c) \in Tables(BusDrivers) =>
        Proper(status, BusDrivers, d) /\ Keeps(status, Store(table, d, c))
  BY <1>1, <1>2, DeviceReply
<1>5. Answers(reply, table, BusDrivers, d, c, initialized, started)
  BY <1>1, <1>2, <1>3, <1>4, ControlReply
<1>6. QED
  BY <1>1, <1>5 DEF Answers, BusAnswers, Keeps, Leaves, LifeOps

LEMMA RtcAnswers ==
  ASSUME NEW table \in Tables(BusDrivers), NEW c, Storable(c)
  PROVE  BusAnswers(RtcControl(table, c), table, "rtc", c)
<1>1. "rtc" \in BusDrivers /\ DOMAIN table = BusDrivers
  BY DEF BusDrivers, Tables
<1>2. PICK granted : granted = OverBus(table, "rtc")
  OBVIOUS
<1>3. PICK initialized, started :
        /\ initialized = IF granted.state = "error" THEN granted ELSE Initialize(granted.table, "rtc")
        /\ started = StartInitialized(table, "rtc", table["rtc"].error)
  OBVIOUS
<1>4. Proper(granted, BusDrivers, "rtc") /\ Keeps(granted, table)
  BY <1>2, OverReply
<1>5. /\ Proper(initialized, BusDrivers, "rtc")
      /\ \/ Keeps(initialized, table)
         \/ Leaves(initialized, table, "rtc", table["rtc"].bits \cup {"init"})
  <2>1. CASE granted.state = "error"
    BY <1>3, <1>4, <2>1
  <2>2. CASE granted.state # "error"
    <3>1. granted.table \in Tables(BusDrivers) /\ initialized = Initialize(granted.table, "rtc")
      BY <1>3, <1>4, <2>2 DEF Proper
    <3>2. /\ Proper(initialized, BusDrivers, "rtc")
          /\ \/ Keeps(initialized, granted.table)
             \/ Leaves(initialized, granted.table, "rtc", granted.table["rtc"].bits \cup {"init"})
      BY <1>1, <3>1, InitReply
    <3>3. DOMAIN granted.table = BusDrivers
      BY <3>1 DEF Tables
    <3>4. QED
      BY <1>1, <1>4, <3>2, <3>3 DEF Keeps, Leaves
  <2>3. QED
    BY <2>1, <2>2
<1>6. table["rtc"].error \in DriverErrors
  BY <1>1 DEF Tables, DriverRecords
<1>7. /\ Proper(started, BusDrivers, "rtc")
      /\ \/ Keeps(started, table)
         \/ Leaves(started, table, "rtc", table["rtc"].bits \cup {"start"})
  BY <1>1, <1>3, <1>6, StartReply
<1>8. RtcControl(table, c) =
        Control(table, "rtc", c, initialized, started,
                DeviceStatus(ClearStart(table, "rtc"), "rtc"),
                DeviceStatus(Store(table, "rtc", c), "rtc"))
  BY <1>2, <1>3 DEF RtcControl
<1>9. QED
  BY <1>5, <1>7, <1>8, DeviceAnswers

LEMMA LcdAnswers ==
  ASSUME NEW table \in Tables(BusDrivers), NEW c, Storable(c)
  PROVE  BusAnswers(LcdControl(table, c), table, "lcd", c)
<1>1. "lcd" \in BusDrivers /\ DOMAIN table = BusDrivers
  BY DEF BusDrivers, Tables
<1>2. PICK step : step = StartInitialized(table, "lcd", table["lcd"].error)
  OBVIOUS
<1>3. PICK initialized, started :
        /\ initialized = OverBus(table, "lcd")
        /\ started = IF step.state = "error" THEN step ELSE Reply(table, "initialized")
  OBVIOUS
<1>4. Proper(initialized, BusDrivers, "lcd") /\ Keeps(initialized, table)
  BY <1>3, OverReply
<1>5. table["lcd"].error \in DriverErrors
  BY <1>1 DEF Tables, DriverRecords
<1>6. Proper(started, BusDrivers, "lcd") /\ Keeps(started, table)
  <2>1. CASE step.state = "error"
    <3>1. Proper(step, BusDrivers, "lcd") /\ Keeps(step, table)
      BY <1>1, <1>2, <1>5, <2>1, StartReply
    <3>2. QED
      BY <1>3, <2>1, <3>1
  <2>2. CASE step.state # "error"
    BY <1>3, <2>2 DEF Reply, Proper, Keeps, DriverStates
  <2>3. QED
    BY <2>1, <2>2
<1>7. LcdControl(table, c) =
        Control(table, "lcd", c, initialized, started,
                DeviceStatus(ClearStart(table, "lcd"), "lcd"),
                DeviceStatus(Store(table, "lcd", c), "lcd"))
  BY <1>2, <1>3 DEF LcdControl
<1>8. QED
  BY <1>4, <1>6, <1>7, DeviceAnswers

LEMMA ControlAnswers ==
  ASSUME NEW d \in BusDrivers, NEW table \in Tables(BusDrivers), NEW c, Storable(c)
  PROVE  BusAnswers(ControlOf(d, table, c), table, d, c)
<1>1. CASE d = "i2c"
  BY <1>1, I2cAnswers DEF ControlOf
<1>2. CASE d = "lcd"
  BY <1>2, LcdAnswers DEF ControlOf
<1>3. CASE d = "rtc"
  BY <1>3, RtcAnswers DEF ControlOf
<1>4. QED
  BY <1>1, <1>2, <1>3 DEF BusDrivers

-----------------------------------------------------------------------------
(* What a thread is doing.  A thread that knows its next step to be a bus  *)
(* operation has not failed.                                               *)
Members ==
  {"busy", "call", "todo", "ready", "failed", "kept", "error", "time", "alone", "hit", "seen"}

WorkOK(w) ==
  /\ DOMAIN w = Members
  /\ w.busy \in BOOLEAN /\ w.ready \in BOOLEAN
  /\ w.failed \in {"none", "error", "dead"}
  /\ w.busy => Planned(w.todo)
  /\ w.ready => w.busy /\ w.failed = "none" /\ w.todo[1].steps[1].do \in BusOps

(* It will end the transaction it is in, if it is in one.                  *)
Holds(w) == w.busy /\ w.failed = "none" /\ Leads(w.todo, 1, 1)

(* It is past a step or a function.                                        *)
GoesOn(w, v) ==
  /\ DOMAIN v = Members /\ v.busy \in BOOLEAN /\ v.ready \in BOOLEAN /\ ~v.ready /\ v.failed = "none"
  /\ v.busy => \/ Len(w.todo[1].steps) # 1 /\ v.todo = Stepped(w.todo)
               \/ Len(w.todo[1].steps) = 1 /\ Len(w.todo) # 1 /\ v.todo = Tail(w.todo)
  /\ ~v.busy => Len(w.todo[1].steps) = 1 /\ Len(w.todo) = 1
  /\ v.busy => v.alone = w.alone

Fails(w, v) ==
  /\ DOMAIN v = Members /\ v.busy = w.busy /\ v.todo = w.todo /\ v.ready \in BOOLEAN /\ ~v.ready
  /\ v.failed \in {"error", "dead"} /\ v.alone = w.alone

(* It is done, or told to end a transaction, or past a failed function.    *)
Recovers(w, v) ==
  /\ DOMAIN v = Members /\ v.busy \in BOOLEAN /\ v.ready \in BOOLEAN /\ ~v.ready /\ v.failed = "none"
  /\ v.busy => \/ Len(w.todo) # 1 /\ v.todo = Tail(w.todo)
               \/ v.todo = <<LcdWriteEnd>>
  /\ v.busy => v.alone = w.alone

LEMMA MoreThanOne == \A n \in Nat : n >= 1 /\ n # 1 => n > 1
OBVIOUS

LEMMA IdleMembers ==
  /\ DOMAIN IdleTask = Members /\ ~IdleTask.busy /\ ~IdleTask.ready
  /\ IdleTask.busy \in BOOLEAN /\ IdleTask.ready \in BOOLEAN
  /\ IdleTask.failed = "none" /\ IdleTask.todo = <<>>
BY DEF IdleTask, Members

LEMMA FinishedWork ==
  ASSUME NEW w, NEW error
  PROVE  /\ DOMAIN Finished(w, error) = Members /\ ~Finished(w, error).busy
         /\ ~Finished(w, error).ready /\ Finished(w, error).failed = "none"
         /\ Finished(w, error).busy \in BOOLEAN /\ Finished(w, error).ready \in BOOLEAN
BY IdleMembers DEF Finished, Members

LEMMA FunctionPassed ==
  ASSUME NEW w, DOMAIN w = Members, Len(w.todo) \in Nat, Len(w.todo) >= 1
  PROVE  /\ Len(w.todo) = 1 => PastFunction(w) = Finished(w, "NO_ERROR")
         /\ Len(w.todo) # 1 =>
              /\ DOMAIN PastFunction(w) = Members /\ PastFunction(w).failed = "none"
              /\ PastFunction(w).busy = w.busy /\ PastFunction(w).ready = w.ready
              /\ PastFunction(w).todo = Tail(w.todo) /\ PastFunction(w).alone = w.alone
<1>1. Len(w.todo) = 1 => PastFunction(w) = Finished(w, "NO_ERROR")
  BY DEF PastFunction
<1>2. ASSUME Len(w.todo) # 1
      PROVE  PastFunction(w) = [w EXCEPT !.todo = Tail(@), !.failed = "none"]
  BY <1>2, Zenon DEF PastFunction
<1>3. PICK u : u = [w EXCEPT !.todo = Tail(@), !.failed = "none"]
  OBVIOUS
<1>4. /\ DOMAIN u = Members /\ u.failed = "none" /\ u.busy = w.busy /\ u.ready = w.ready
      /\ u.todo = Tail(w.todo) /\ u.alone = w.alone
  BY <1>3 DEF Members
<1>5. QED
  BY <1>1, <1>2, <1>3, <1>4

LEMMA StepPassed ==
  ASSUME NEW w, WorkOK(w), w.busy, w.failed = "none",
         NEW u, DOMAIN u = Members, u.busy = w.busy, u.todo = w.todo, u.failed = w.failed,
         u.alone = w.alone
  PROVE  GoesOn(w, PastStep(u))
<1>1. /\ Head(w.todo) = w.todo[1] /\ Len(w.todo) \in Nat /\ Len(w.todo) >= 1
      /\ Len(w.todo[1].steps) \in Nat /\ Len(w.todo[1].steps) >= 1
  BY PlannedHead DEF WorkOK
<1>2. CASE Len(w.todo[1].steps) = 1
  <2>1. PICK still : still = [u EXCEPT !.ready = FALSE]
    OBVIOUS
  <2>2. /\ DOMAIN still = Members /\ still.todo = w.todo /\ still.busy = w.busy
        /\ ~still.ready /\ still.ready \in BOOLEAN /\ still.alone = w.alone
    BY <2>1 DEF Members
  <2>3. PastStep(u) = PastFunction(still)
    <3>1. Len(Head(u.todo).steps) = 1
      BY <1>1, <1>2
    <3>2. QED
      BY <2>1, <3>1, Zenon DEF PastStep
  <2>4. CASE Len(w.todo) = 1
    <3>1. PastFunction(still) = Finished(still, "NO_ERROR")
      BY <1>1, <2>2, <2>4, FunctionPassed
    <3>2. QED
      BY <1>2, <2>3, <2>4, <3>1, FinishedWork DEF GoesOn
  <2>5. CASE Len(w.todo) # 1
    <3>1. /\ DOMAIN PastFunction(still) = Members /\ PastFunction(still).failed = "none"
          /\ PastFunction(still).busy = w.busy /\ PastFunction(still).ready = still.ready
          /\ PastFunction(still).todo = Tail(w.todo) /\ PastFunction(still).alone = w.alone
      BY <1>1, <2>2, <2>5, FunctionPassed
    <3>2. w.busy \in BOOLEAN
      BY DEF WorkOK
    <3>3. QED
      BY <1>2, <2>2, <2>3, <2>5, <3>1, <3>2 DEF GoesOn
  <2>6. QED
    BY <1>1, <2>4, <2>5
<1>3. CASE Len(w.todo[1].steps) # 1
  <2>1. PastStep(u) = [u EXCEPT !.todo = Stepped(u.todo), !.ready = FALSE]
    <3>1. ~(Len(Head(u.todo).steps) = 1)
      BY <1>1, <1>3
    <3>2. PastStep(u) = [u EXCEPT !.todo[1].steps = Tail(@), !.ready = FALSE]
      BY <3>1, Zenon DEF PastStep
    <3>3. QED
      BY <3>2 DEF Stepped
  <2>2. PICK v : v = [u EXCEPT !.todo = Stepped(u.todo), !.ready = FALSE]
    OBVIOUS
  <2>3. /\ DOMAIN v = Members /\ v.failed = "none" /\ v.busy = w.busy /\ ~v.ready
        /\ v.ready \in BOOLEAN /\ v.todo = Stepped(w.todo) /\ v.alone = w.alone
    BY <2>2 DEF Members
  <2>4. w.busy \in BOOLEAN
    BY DEF WorkOK
  <2>5. QED
    BY <1>3, <2>1, <2>2, <2>3, <2>4 DEF GoesOn
<1>4. QED
  BY <1>1, <1>2, <1>3

(* A thread that goes on keeps to its plan, and to the end of its          *)
(* transaction.                                                            *)
LEMMA GoingOn ==
  ASSUME NEW w, NEW v, WorkOK(w), w.busy, w.failed = "none", GoesOn(w, v)
  PROVE  WorkOK(v) /\ (Leads(w.todo, 1, 2) => Holds(v))
<1>1. /\ Len(w.todo) \in Nat /\ Len(w.todo) >= 1 /\ Planned(w.todo)
      /\ Len(w.todo[1].steps) \in Nat /\ Len(w.todo[1].steps) >= 1
  BY PlannedHead DEF WorkOK
<1>2. CASE Len(w.todo[1].steps) # 1
  <2>1. v.busy /\ v.todo = Stepped(w.todo)
    BY <1>2 DEF GoesOn
  <2>2. Len(w.todo[1].steps) > 1
    BY <1>1, <1>2, MoreThanOne, Zenon
  <2>3. QED
    BY <1>1, <2>1, <2>2, SteppedIsPlanned DEF GoesOn, WorkOK, Holds
<1>3. CASE Len(w.todo[1].steps) = 1 /\ Len(w.todo) # 1
  <2>1. v.busy /\ v.todo = Tail(w.todo)
    BY <1>3 DEF GoesOn
  <2>2. Len(w.todo) > 1
    BY <1>1, <1>3, MoreThanOne, Zenon
  <2>3. Leads(w.todo, 1, 2) => Ends(w.todo, 2)
    <3>1. ~Closes(w.todo[1].steps, 2)
      BY <1>3 DEF Closes
    <3>2. QED
      BY <3>1 DEF Leads
  <2>4. QED
    BY <1>1, <1>3, <2>1, <2>2, <2>3, TailIsPlanned DEF GoesOn, WorkOK, Holds
<1>4. CASE Len(w.todo[1].steps) = 1 /\ Len(w.todo) = 1
  <2>1. ~v.busy
    BY <1>4 DEF GoesOn
  <2>2. ~Closes(w.todo[1].steps, 2) /\ ~Ends(w.todo, 2)
    BY <1>4 DEF Closes, Ends
  <2>3. ~Leads(w.todo, 1, 2)
    <3>1. 1 + 1 = 2
      OBVIOUS
    <3>2. QED
      BY <2>2, <3>1 DEF Leads
  <2>4. QED
    BY <2>1, <2>3 DEF GoesOn, WorkOK
<1>5. QED
  BY <1>1, <1>2, <1>3, <1>4

LEMMA Failing ==
  ASSUME NEW w, NEW v, WorkOK(w), Fails(w, v)
  PROVE  WorkOK(v)
BY DEF Fails, WorkOK

LEMMA Recovering ==
  ASSUME NEW w, NEW v, WorkOK(w), w.busy, Recovers(w, v)
  PROVE  WorkOK(v)
<1>1. Planned(<<LcdWriteEnd>>)
  <2>1. Part(<<Stop>>, {}) /\ <<Stop>> # <<>>
    BY StepsKnown, StepDoes, SingleStep
  <2>2. "lcd" \in BusDrivers /\ "call" \in Kinds
    BY DEF BusDrivers, Kinds
  <2>3. QED
    BY <2>1, <2>2, OneFunction DEF LcdWriteEnd
<1>2. Planned(w.todo) /\ Len(w.todo) \in Nat /\ Len(w.todo) >= 1
  BY PlannedHead DEF WorkOK
<1>3. Len(w.todo) # 1 => Len(w.todo) > 1
  BY <1>2, MoreThanOne, Zenon
<1>4. v.busy => Planned(v.todo)
  BY <1>1, <1>2, <1>3, TailIsPlanned DEF Recovers
<1>5. QED
  BY <1>4 DEF Recovers, WorkOK

(* The next step of a thread that holds the bus is a bus operation, and    *)
(* unless it ends the transaction the thread still holds it after that.    *)
LEMMA HolderSteps ==
  ASSUME NEW w, WorkOK(w), Holds(w)
  PROVE  /\ w.todo[1].steps[1].do \in BusOps
         /\ w.todo[1].steps[1].do # "stop" => Leads(w.todo, 1, 2)
<1>1. Len(w.todo[1].steps) \in Nat /\ Len(w.todo[1].steps) >= 1
  BY PlannedHead DEF WorkOK, Holds
<1>2. CASE Closes(w.todo[1].steps, 1)
  <2>1. PICK m \in 1 .. Len(w.todo[1].steps) :
          w.todo[1].steps[m].do = "stop" /\ \A j \in 1 .. m : w.todo[1].steps[j].do \in BusOps
    BY <1>2 DEF Closes
  <2>2. w.todo[1].steps[1].do # "stop" => m \in 2 .. Len(w.todo[1].steps)
    BY <1>1, <2>1
  <2>3. QED
    BY <1>1, <2>1, <2>2 DEF Closes, Leads
<1>3. CASE OnBus(w.todo[1].steps, 1) /\ Ends(w.todo, 2)
  BY <1>1, <1>3 DEF OnBus, Leads
<1>4. QED
  BY <1>2, <1>3 DEF Holds, Leads

LEMMA StartHolds ==
  ASSUME NEW w, WorkOK(w), w.busy, w.todo[1].steps[1].do = "start"
  PROVE  Leads(w.todo, 1, 2)
<1>1. /\ Len(w.todo) \in Nat /\ Len(w.todo) >= 1 /\ Planned(w.todo)
      /\ Len(w.todo[1].steps) \in Nat /\ Len(w.todo[1].steps) >= 1
  BY PlannedHead DEF WorkOK
<1>2. 1 \in 1 .. Len(w.todo) /\ 1 \in 1 .. Len(w.todo[1].steps) /\ 1 + 1 = 2
  BY <1>1
<1>3. Leads(w.todo, 1, 1 + 1)
  BY <1>1, <1>2 DEF Planned, Ordered
<1>4. QED
  BY <1>2, <1>3

-----------------------------------------------------------------------------
(* The steps of a thread, by what they do to it and to the bus.            *)
Ended(v) ==
  /\ DOMAIN v = Members /\ v.busy \in BOOLEAN /\ ~v.busy
  /\ v.ready \in BOOLEAN /\ ~v.ready /\ v.failed = "none"

Carried(table) == {"init", "start"} \subseteq table["i2c"].bits

Sound(table) ==
  table \in Tables(BusDrivers) /\ table["i2c"].bits \cap {"dead", "error"} = {}

(* A bus that a device has been addressed on, or is about to be used, has  *)
(* its driver running and somebody who will free it.                       *)
BusInv ==
  /\ Sound(drv)
  /\ DOMAIN task = Tasks /\ \A t \in Tasks : WorkOK(task[t])
  /\ "cut" \notin past /\ (bus # FreeBus \/ \E t \in Tasks : task[t].ready) => Carried(drv)
  /\ "cut" \notin past /\ bus # FreeBus => \E t \in Tasks : Holds(task[t])

SameBits == \A e \in BusDrivers : drv'[e].bits = drv[e].bits

(* Every step of a call.                                                   *)
Steadily(t) ==
  /\ task[t].busy /\ Sound(drv')
  /\ DOMAIN task' = Tasks /\ \A u \in Tasks \ {t} : task'[u] = task[u]

(* A driver changes the bits with a control call, or the display's own.    *)
Sets(next, table, bit) ==
  /\ next["lcd"].bits = table["lcd"].bits \cup {bit}
  /\ \A e \in BusDrivers \ {"lcd"} : next[e].bits = table[e].bits

Locally(t) ==
  /\ task[t].failed = "none" /\ Step(t).do \notin BusOps
  /\ GoesOn(task[t], task'[t]) \/ Fails(task[t], task'[t]) \/ Ended(task'[t])
  /\ "init" \in drv'["lcd"].bits => "init" \in drv["lcd"].bits \/ Step(t) = Commit("init")
  /\ \/ SameBits \/ Step(t).do = "command"
     \/ \E bit \in {"init", "start"} : Step(t) = Commit(bit) /\ Sets(drv', drv, bit)
  /\ panel' = panel
  /\ \/ bus' = bus /\ past' = past /\ (Carried(drv) => Carried(drv'))
     \/ bus' = FreeBus /\ past' = IF Busy = {t} THEN past ELSE past \cup {"cut"}

Checking(t) ==
  /\ task[t].failed = "none" /\ Step(t).do \in BusOps /\ SameBits
  /\ \/ task'[t] = [task[t] EXCEPT !.ready = TRUE] /\ Carried(drv')
     \/ Fails(task[t], task'[t]) /\ ~Carried(drv)
  /\ bus' = bus /\ panel' = panel /\ past' = past

Transferring(t) ==
  /\ task[t].failed = "none" /\ Step(t).do \in BusOps /\ task[t].ready
  /\ GoesOn(task[t], task'[t])
  /\ Address(t) \/ SendByte(t) \/ ReceiveByte(t) \/ Release(t)
  /\ drv' = drv /\ past' = past

Faulting(t) ==
  /\ Fails(task[t], task'[t]) /\ SameBits
  /\ bus' = FreeBus /\ panel' = panel /\ past' = past

Asking(t) ==
  /\ task[t].failed # "none" /\ SameBits
  /\ Recovers(task[t], task'[t])
  /\ bus' = bus /\ panel' = panel /\ past' = past

LEMMA NextStep ==
  ASSUME BusInv, NEW t \in Tasks, task[t].busy
  PROVE  /\ WorkOK(task[t]) /\ Planned(task[t].todo)
         /\ Doing(t) = task[t].todo[1] /\ FunctionOK(Doing(t)) /\ Doing(t).driver \in BusDrivers
         /\ Step(t) = task[t].todo[1].steps[1] /\ Step(t) \in Steps
<1>1. WorkOK(task[t]) /\ Planned(task[t].todo)
  BY DEF BusInv, WorkOK
<1>2. /\ Head(task[t].todo) = task[t].todo[1] /\ FunctionOK(task[t].todo[1])
      /\ Head(task[t].todo[1].steps) = task[t].todo[1].steps[1]
      /\ task[t].todo[1].steps[1] \in Steps
  BY <1>1, PlannedHead
<1>3. QED
  BY <1>1, <1>2 DEF Doing, Step, FunctionOK

(* The table of the drivers after an error or a reply.                     *)
LEMMA ErrorTable ==
  ASSUME NEW table, Sound(table), NEW d \in BusDrivers, NEW error \in DriverErrors
  PROVE  /\ Sound(LastError(table, d, error))
         /\ \A e \in BusDrivers : LastError(table, d, error)[e].bits = table[e].bits
<1>1. "i2c" \in BusDrivers
  BY DEF BusDrivers
<1>2. LastError(table, d, error) \in Tables(BusDrivers)
  BY DEF Sound, LastError, Tables, DriverRecords
<1>3. \A e \in BusDrivers : LastError(table, d, error)[e].bits = table[e].bits
  BY DEF Sound, LastError, Tables, DriverRecords
<1>4. QED
  BY <1>1, <1>2, <1>3 DEF Sound

LEMMA KeptTable ==
  ASSUME NEW table, Sound(table), NEW reply, NEW d \in BusDrivers, Proper(reply, BusDrivers, d),
         Keeps(reply, table)
  PROVE  Sound(reply.table) /\ \A e \in BusDrivers : reply.table[e].bits = table[e].bits
BY DEF Sound, Keeps, Proper, Tables, BusDrivers

LEMMA ControlsStore ==
  ASSUME NEW c \in Controls \cup {With("GETLASTERROR", 0)}
  PROVE  /\ Storable(c)
         /\ c.op \notin LifeOps => \A record : Stored(record, c) = record
<1>1. c.op \notin {"RLSET", "SETBIT", "CLEARBIT"}
  BY DEF Controls, Plain, With, LifeOps
<1>2. QED
  BY <1>1 DEF Storable, Stored

(* Only stopping the bus driver takes it from the others.                  *)
Allowed(reply, table, d, c) ==
  /\ Sound(reply.table) /\ reply.state \in DriverStates
  /\ "init" \in reply.table["lcd"].bits => "init" \in table["lcd"].bits
  /\ (d # "i2c" \/ c.op # "STOP") /\ Carried(table) => Carried(reply.table)
  /\ c.op \notin LifeOps => \A e \in BusDrivers : reply.table[e].bits = table[e].bits

LEMMA ControlTable ==
  ASSUME NEW table, Sound(table), NEW d \in BusDrivers,
         NEW c \in Controls \cup {With("GETLASTERROR", 0)}
  PROVE  Allowed(ControlOf(d, table, c), table, d, c)
<1>0. PICK reply : reply = ControlOf(d, table, c)
  OBVIOUS
<1>1. BusAnswers(reply, table, d, c)
  BY <1>0, ControlsStore, ControlAnswers DEF Sound
<1>2. "i2c" \in BusDrivers /\ "lcd" \in BusDrivers
  BY DEF BusDrivers
<1>3. c.op \notin LifeOps => \A e \in BusDrivers : reply.table[e].bits = table[e].bits
  BY <1>1, ControlsStore DEF BusAnswers
<1>4. reply.table \in Tables(BusDrivers) /\ reply.state \in DriverStates
  BY <1>1 DEF BusAnswers, Proper
<1>5. \A e \in BusDrivers :
        \/ reply.table[e].bits = table[e].bits
        \/ e = d /\ e # "lcd" /\ reply.table[e].bits = table[e].bits \cup {"init"}
        \/ e = d /\ e # "lcd" /\ reply.table[e].bits = table[e].bits \cup {"start"}
        \/ e = d /\ c.op = "STOP" /\ reply.table[e].bits = table[e].bits \ {"start"}
  BY <1>1, <1>3 DEF BusAnswers, LifeOps
<1>6. reply.table["i2c"].bits \cap {"dead", "error"} = {}
  BY <1>2, <1>5 DEF Sound
<1>7. "init" \in reply.table["lcd"].bits => "init" \in table["lcd"].bits
  BY <1>2, <1>5
<1>8. (d # "i2c" \/ c.op # "STOP") /\ Carried(table) => Carried(reply.table)
  BY <1>2, <1>5 DEF Carried
<1>9. QED
  BY <1>0, <1>3, <1>4, <1>6, <1>7, <1>8 DEF Allowed, Sound

(* Each of a thread's actions is one of these.                             *)
LEMMA Replying ==
  ASSUME NEW w, WorkOK(w), w.busy, w.failed = "none", NEW reply, reply.state \in DriverStates,
         NEW v, v = After(w, reply)
  PROVE  GoesOn(w, v) \/ Fails(w, v) \/ Ended(v)
<1>1. \/ v = Finished(w, "INVALID_STATE") \/ v = PastStep(w)
      \/ v = Failed(w, reply.state) /\ reply.state \in {"error", "dead"}
  <2>1. CASE Head(w.todo).kind = "info" /\ reply.state = "error"
    BY <2>1 DEF After
  <2>2. CASE Head(w.todo).kind # "info" /\ reply.state \in {"error", "dead"}
    BY <2>2 DEF After
  <2>3. CASE /\ ~(Head(w.todo).kind = "info" /\ reply.state = "error")
             /\ ~(Head(w.todo).kind # "info" /\ reply.state \in {"error", "dead"})
    BY <2>3 DEF After
  <2>4. QED
    BY <2>1, <2>2, <2>3
<1>2. CASE v = Finished(w, "INVALID_STATE")
  BY <1>2, FinishedWork DEF Ended
<1>3. CASE v = PastStep(w)
  <2>1. DOMAIN w = Members
    BY DEF WorkOK
  <2>2. QED
    BY <1>3, <2>1, StepPassed
<1>4. CASE v = Failed(w, reply.state) /\ reply.state \in {"error", "dead"}
  BY <1>4 DEF Failed, Fails, WorkOK, Members
<1>5. QED
  BY <1>1, <1>2, <1>3, <1>4

LEMMA FailedWork ==
  ASSUME NEW w, WorkOK(w), NEW u, u = [w EXCEPT !.hit = TRUE]
  PROVE  Fails(w, Failed(w, "error")) /\ Fails(w, Failed(u, "error"))
BY DEF Failed, Fails, WorkOK, Members

LEMMA ComputesLocally ==
  ASSUME BusInv, NEW t \in Tasks, Compute(t)
  PROVE  Steadily(t) /\ Locally(t)
<1>1. /\ task[t].busy /\ task[t].failed = "none"
      /\ Step(t).do \in {"require", "refuse", "command", "commit"}
  BY DEF Compute, AtStep
<1>2. /\ WorkOK(task[t]) /\ FunctionOK(Doing(t)) /\ Doing(t).driver \in BusDrivers
      /\ Step(t) = Doing(t).steps[1] /\ Step(t) \in Steps
      /\ Len(Doing(t).steps) \in Nat /\ Len(Doing(t).steps) >= 1
  BY <1>1, NextStep, PlannedHead
<1>3. PICK d, step : d = Doing(t).driver /\ step = Step(t)
  OBVIOUS
<1>4. PICK reply :
        /\ reply = CASE step.do = "require" -> DeviceRequireRunning(drv, d)
                     [] step.do = "refuse"  -> SetError(drv, d, step.error)
                     [] step.do = "command" -> ControlOf(d, drv, step.control)
                     [] step.do = "commit"  -> Reply(CommitBit(drv, d, step.bit), "running")
        /\ drv' = reply.table
        /\ task' = [task EXCEPT ![t] = After(task[t], reply)]
        /\ IF d = "i2c" /\ step.do = "command" /\ step.control.op = "STOP"
           THEN bus' = FreeBus /\ past' = IF Busy = {t} THEN past ELSE past \cup {"cut"}
           ELSE bus' = bus /\ past' = past
  BY <1>3 DEF Compute
<1>5. panel' = panel
  BY DEF Compute
<1>6. /\ reply.state \in DriverStates /\ Sound(reply.table)
      /\ "init" \in reply.table["lcd"].bits => "init" \in drv["lcd"].bits \/ step = Commit("init")
      /\ \/ Carried(drv) => Carried(reply.table)
         \/ d = "i2c" /\ step.do = "command" /\ step.control.op = "STOP"
      /\ \/ \A e \in BusDrivers : reply.table[e].bits = drv[e].bits
         \/ step.do = "command"
         \/ \E bit \in {"init", "start"} : step = Commit(bit) /\ Sets(reply.table, drv, bit)
  <2>0. Sound(drv) /\ drv \in Tables(BusDrivers) /\ "lcd" \in BusDrivers /\ "i2c" \in BusDrivers
        /\ d \in BusDrivers
    BY <1>2, <1>3 DEF BusInv, Sound, BusDrivers
  <2>1. CASE step.do = "require"
    <3>1. reply = RequireRunning(DeviceStatus(drv, d), d)
      BY <1>4, <2>1 DEF DeviceRequireRunning
    <3>2. Proper(DeviceStatus(drv, d), BusDrivers, d) /\ Keeps(DeviceStatus(drv, d), drv)
      BY <2>0, DeviceReply
    <3>3. Proper(reply, BusDrivers, d) /\ Keeps(reply, drv)
      <4>1. DOMAIN drv = BusDrivers
        BY <2>0 DEF Tables
      <4>2. QED
        BY <2>0, <3>1, <3>2, <4>1, RequireReply
    <3>4. QED
      BY <2>0, <3>3, KeptTable DEF Carried, Proper
  <2>2. CASE step.do = "refuse"
    <3>1. reply = SetError(drv, d, step.error) /\ step.error \in Reasons
      BY <1>2, <1>3, <1>4, <2>2, StepKinds
    <3>2. Proper(reply, BusDrivers, d) /\ Keeps(reply, drv)
      BY <2>0, <3>1, ErrorReply DEF Reasons
    <3>3. QED
      BY <2>0, <3>2, KeptTable DEF Carried, Proper
  <2>3. CASE step.do = "command"
    <3>1. reply = ControlOf(d, drv, step.control) /\ step.control \in Controls
      BY <1>2, <1>3, <1>4, <2>3, StepKinds
    <3>2. Allowed(reply, drv, d, step.control)
      BY <2>0, <3>1, ControlTable
    <3>3. QED
      BY <2>3, <3>2 DEF Allowed
  <2>4. CASE step.do = "commit"
    <3>1. d = "lcd" /\ step.bit \in {"init", "start"} /\ step = Commit(step.bit)
      <4>1. d = "lcd"
        BY <1>2, <1>3, <2>4 DEF FunctionOK
      <4>2. step.bit \in {"init", "start"}
        BY <1>2, <1>3, <2>4, StepKinds
      <4>3. step = Commit(step.bit)
        <5>1. step \in Steps
          BY <1>2, <1>3
        <5>2. \/ \E device, direction : step = Start(device, direction)
              \/ \E b : step = Write(b) \/ step = Put(b) \/ step = Get(b)
              \/ step \in {Stop, Require, ToRegisters, FromRegisters, KeepTime}
              \/ \E e : step = Refuse(e) \/ step = Command(e) \/ step = Commit(e)
              \/ \E field, value : step = Edit(field, value)
          BY <5>1 DEF Steps
        <5>3. PICK bit : step = Commit(bit)
          BY <2>4, <5>2, StepDoes
        <5>4. step.bit = bit
          BY <5>3 DEF Commit
        <5>5. QED
          BY <5>3, <5>4
      <4>4. QED
        BY <4>1, <4>2, <4>3
    <3>2. PICK set : set = WithBits(drv, d, drv[d].bits \cup {step.bit})
      OBVIOUS
    <3>3. /\ Sound(set)
          /\ \A e \in BusDrivers :
               set[e].bits = IF e = "lcd" THEN drv["lcd"].bits \cup {step.bit} ELSE drv[e].bits
      <4>1. drv["lcd"].bits \cup {step.bit} \in SUBSET StatusBits
        BY <2>0, <3>1 DEF Tables, DriverRecords, StatusBits
      <4>2. set \in Tables(BusDrivers)
        BY <2>0, <3>1, <3>2, <4>1 DEF WithBits, Tables, DriverRecords
      <4>3. \A e \in BusDrivers :
              set[e].bits = IF e = "lcd" THEN drv["lcd"].bits \cup {step.bit} ELSE drv[e].bits
        BY <2>0, <3>1, <3>2 DEF WithBits, Tables, DriverRecords
      <4>4. QED
        BY <2>0, <4>2, <4>3 DEF Sound
    <3>4. "NO_ERROR" \in DriverErrors /\ "running" \in DriverStates
      BY DEF DriverErrors, DriverStates
    <3>5. /\ Sound(reply.table) /\ reply.state = "running"
          /\ \A e \in BusDrivers : reply.table[e].bits = set[e].bits
      <4>1. reply = Reply(CommitBit(drv, d, step.bit), "running")
        BY <1>4, <2>4
      <4>2. CommitBit(drv, d, step.bit) \in {set, LastError(set, d, "NO_ERROR")}
        BY <3>2 DEF CommitBit
      <4>3. reply.table \in {set, LastError(set, d, "NO_ERROR")} /\ reply.state = "running"
        BY <4>1, <4>2 DEF Reply
      <4>4. CASE reply.table = set
        BY <3>3, <4>3, <4>4
      <4>5. CASE reply.table = LastError(set, d, "NO_ERROR")
        <5>1. /\ Sound(LastError(set, d, "NO_ERROR"))
              /\ \A e \in BusDrivers : LastError(set, d, "NO_ERROR")[e].bits = set[e].bits
          BY <2>0, <3>3, <3>4, ErrorTable
        <5>2. QED
          BY <4>3, <4>5, <5>1
      <4>6. QED
        BY <4>3, <4>4, <4>5
    <3>6. "init" \in reply.table["lcd"].bits => "init" \in drv["lcd"].bits \/ step = Commit("init")
      <4>1. reply.table["lcd"].bits = drv["lcd"].bits \cup {step.bit}
        BY <2>0, <3>3, <3>5
      <4>2. QED
        BY <3>1, <4>1
    <3>7. Carried(drv) => Carried(reply.table)
      <4>1. reply.table["i2c"].bits = drv["i2c"].bits
        BY <2>0, <3>3, <3>5
      <4>2. QED
        BY <4>1 DEF Carried
    <3>8. Sets(reply.table, drv, step.bit)
      BY <2>0, <3>3, <3>5 DEF Sets
    <3>9. QED
      BY <3>1, <3>4, <3>5, <3>6, <3>7, <3>8
  <2>5. QED
    BY <1>1, <1>3, <2>1, <2>2, <2>3, <2>4
<1>7. /\ GoesOn(task[t], After(task[t], reply)) \/ Fails(task[t], After(task[t], reply))
           \/ Ended(After(task[t], reply))
      /\ DOMAIN task = Tasks
  BY <1>1, <1>2, <1>6, Replying DEF BusInv
<1>8. Steadily(t)
  BY <1>1, <1>4, <1>6, <1>7 DEF Steadily
<1>9. GoesOn(task[t], task'[t]) \/ Fails(task[t], task'[t]) \/ Ended(task'[t])
  BY <1>4, <1>7
<1>10. Step(t).do \notin BusOps
  BY <1>1 DEF BusOps
<1>11. \/ bus' = bus /\ past' = past /\ (Carried(drv) => Carried(drv'))
       \/ bus' = FreeBus /\ past' = IF Busy = {t} THEN past ELSE past \cup {"cut"}
  BY <1>4, <1>6
<1>12. \/ SameBits \/ Step(t).do = "command"
       \/ \E bit \in {"init", "start"} : Step(t) = Commit(bit) /\ Sets(drv', drv, bit)
  BY <1>3, <1>4, <1>6 DEF SameBits
<1>13. "init" \in drv'["lcd"].bits => "init" \in drv["lcd"].bits \/ Step(t) = Commit("init")
  BY <1>3, <1>4, <1>6
<1>14. QED
  BY <1>1, <1>5, <1>8, <1>9, <1>10, <1>11, <1>12, <1>13 DEF Locally

LEMMA ConvertsLocally ==
  ASSUME BusInv, NEW t \in Tasks, EncodeTime(t) \/ DecodeTime(t) \/ EditTime(t) \/ KeepStartupTime(t)
  PROVE  Steadily(t) /\ Locally(t)
<1>1. /\ task[t].busy /\ task[t].failed = "none"
      /\ Step(t).do \in {"encode", "decode", "edit", "keep"}
  BY DEF EncodeTime, DecodeTime, EditTime, KeepStartupTime, AtStep
<1>2. WorkOK(task[t]) /\ DOMAIN task[t] = Members /\ DOMAIN task = Tasks /\ Sound(drv)
  BY <1>1, NextStep DEF BusInv, WorkOK
<1>3. bus' = bus /\ panel' = panel /\ past' = past
  BY DEF EncodeTime, DecodeTime, EditTime, KeepStartupTime, chips
<1>4. /\ "lcd" \in BusDrivers /\ "i2c" \in BusDrivers /\ "rtc" \in BusDrivers
      /\ "OUT_OF_RANGE" \in DriverErrors
  BY DEF BusDrivers, DriverErrors
<1>5. drv' \in {drv, LastError(drv, "rtc", "OUT_OF_RANGE")}
  BY DEF EncodeTime, DecodeTime, EditTime, KeepStartupTime
<1>6. Sound(drv') /\ \A e \in BusDrivers : drv'[e].bits = drv[e].bits
  BY <1>2, <1>4, <1>5, ErrorTable
<1>7. PICK v : /\ task' = [task EXCEPT ![t] = v]
               /\ \/ v = Failed(task[t], "error")
                  \/ \E x : v = PastStep([task[t] EXCEPT !.time = x])
                  \/ v = PastStep(task[t])
  BY DEF EncodeTime, DecodeTime, EditTime, KeepStartupTime
<1>8. GoesOn(task[t], v) \/ Fails(task[t], v)
  <2>1. CASE v = Failed(task[t], "error")
    BY <1>2, <2>1, FailedWork
  <2>2. CASE \E x : v = PastStep([task[t] EXCEPT !.time = x])
    <3>1. PICK u, x : u = [task[t] EXCEPT !.time = x] /\ v = PastStep(u)
      BY <2>2
    <3>2. DOMAIN u = Members /\ u.busy = task[t].busy /\ u.todo = task[t].todo
          /\ u.failed = task[t].failed /\ u.alone = task[t].alone
      BY <1>2, <3>1 DEF Members
    <3>3. QED
      BY <1>1, <1>2, <3>1, <3>2, StepPassed
  <2>3. CASE v = PastStep(task[t])
    BY <1>1, <1>2, <2>3, StepPassed
  <2>4. QED
    BY <1>7, <2>1, <2>2, <2>3
<1>9. Steadily(t)
  BY <1>1, <1>2, <1>6, <1>7 DEF Steadily
<1>10. GoesOn(task[t], task'[t]) \/ Fails(task[t], task'[t])
  BY <1>2, <1>7, <1>8
<1>11. Step(t).do \notin BusOps
  BY <1>1 DEF BusOps
<1>12. "init" \in drv'["lcd"].bits => "init" \in drv["lcd"].bits
  BY <1>4, <1>6
<1>13. Carried(drv) => Carried(drv')
  BY <1>4, <1>6 DEF Carried
<1>14. QED
  BY <1>1, <1>3, <1>6, <1>9, <1>10, <1>11, <1>12, <1>13 DEF Locally, SameBits

(* The bus driver is asked before each operation.                          *)
LEMMA BusAsked ==
  ASSUME NEW table, Sound(table), NEW asked, asked = I2cRequireRunning(table)
  PROVE  /\ Sound(asked.table) /\ \A e \in BusDrivers : asked.table[e].bits = table[e].bits
         /\ asked.state = "error" => ~Carried(table)
         /\ asked.state # "error" => Carried(table)
<1>1. "i2c" \in BusDrivers /\ DOMAIN table = BusDrivers /\ table \in Tables(BusDrivers)
  BY DEF BusDrivers, Sound, Tables
<1>2. PICK own : own = OwnStatus(table, "i2c")
  OBVIOUS
<1>3. Proper(own, BusDrivers, "i2c") /\ Keeps(own, table)
  BY <1>1, <1>2, OwnReply
<1>4. asked = RequireRunning(own, "i2c")
  BY <1>2 DEF I2cRequireRunning
<1>5. Proper(asked, BusDrivers, "i2c") /\ Keeps(asked, table)
  BY <1>1, <1>3, <1>4, RequireReply
<1>6. own = LifeCycle(table, "i2c")
  BY <1>2 DEF Sound, OwnStatus, Status
<1>7. CASE Carried(table)
  <2>1. own = Reply(table, "running")
    BY <1>6, <1>7 DEF LifeCycle, Carried
  <2>2. asked.state = "running"
    BY <1>4, <2>1 DEF RequireRunning, Reply
  <2>3. QED
    BY <1>1, <1>5, <1>7, <2>2, KeptTable
<1>8. CASE ~Carried(table)
  <2>1. own.state \in {"initialized", "off", "error"}
    BY <1>6, <1>8 DEF LifeCycle, Carried, Reply, SetError
  <2>2. asked.state = "error"
    BY <1>4, <2>1 DEF RequireRunning, SetError, Reply
  <2>3. QED
    BY <1>1, <1>5, <1>8, <2>2, KeptTable
<1>9. QED
  BY <1>7, <1>8

LEMMA ChecksBus ==
  ASSUME BusInv, NEW t \in Tasks, CheckBus(t)
  PROVE  Steadily(t) /\ Checking(t)
<1>1. task[t].busy /\ task[t].failed = "none" /\ Step(t).do \in BusOps
  BY DEF CheckBus, AtStep
<1>2. /\ WorkOK(task[t]) /\ DOMAIN task[t] = Members /\ DOMAIN task = Tasks /\ Sound(drv)
      /\ Head(task[t].todo).driver \in BusDrivers /\ "i2c" \in BusDrivers
  BY <1>1, NextStep DEF BusInv, WorkOK, Doing, BusDrivers
<1>3. bus' = bus /\ panel' = panel /\ past' = past
  BY DEF CheckBus, chips
<1>4. PICK asked : asked = I2cRequireRunning(drv)
  OBVIOUS
<1>5. /\ Sound(asked.table) /\ \A e \in BusDrivers : asked.table[e].bits = drv[e].bits
      /\ asked.state = "error" => ~Carried(drv)
      /\ asked.state # "error" => Carried(drv)
  BY <1>2, <1>4, BusAsked
<1>6. CASE asked.state = "error"
  <2>1. drv' = LastError(asked.table, Head(task[t].todo).driver, "DEPENDENCY")
        /\ task' = [task EXCEPT ![t] = Failed(task[t], "error")]
    BY <1>4, <1>6 DEF CheckBus, BlameBus
  <2>2. "DEPENDENCY" \in DriverErrors
    BY DEF DriverErrors
  <2>3. Sound(drv') /\ SameBits
    BY <1>2, <1>5, <2>1, <2>2, ErrorTable DEF SameBits
  <2>4. Fails(task[t], task'[t])
    BY <1>2, <2>1, FailedWork
  <2>5. Steadily(t)
    BY <1>1, <1>2, <2>1, <2>3 DEF Steadily
  <2>6. QED
    BY <1>1, <1>3, <1>5, <1>6, <2>3, <2>4, <2>5 DEF Checking
<1>7. CASE asked.state # "error"
  <2>1. drv' = asked.table /\ task' = [task EXCEPT ![t].ready = TRUE]
    BY <1>4, <1>7 DEF CheckBus
  <2>2. Sound(drv') /\ SameBits
    BY <1>5, <2>1 DEF SameBits
  <2>3. task'[t] = [task[t] EXCEPT !.ready = TRUE]
    BY <1>2, <2>1
  <2>4. Carried(drv')
    BY <1>2, <1>5, <1>7, <2>1 DEF Carried
  <2>5. Steadily(t)
    BY <1>1, <1>2, <2>1, <2>2 DEF Steadily
  <2>6. QED
    BY <1>1, <1>3, <2>2, <2>3, <2>4, <2>5 DEF Checking
<1>8. QED
  BY <1>6, <1>7

LEMMA Transfers ==
  ASSUME BusInv, NEW t \in Tasks, Transfer(t)
  PROVE  Steadily(t) /\ Transferring(t)
<1>1. /\ task[t].busy /\ task[t].failed = "none" /\ Step(t).do \in BusOps /\ task[t].ready
      /\ Address(t) \/ SendByte(t) \/ ReceiveByte(t) \/ Release(t)
      /\ task' = [task EXCEPT ![t] = PastStep(task[t])]
      /\ drv' = drv /\ past' = past
  BY DEF Transfer, AtStep
<1>2. WorkOK(task[t]) /\ DOMAIN task[t] = Members /\ DOMAIN task = Tasks /\ Sound(drv')
  BY <1>1, NextStep DEF BusInv, WorkOK
<1>3. GoesOn(task[t], PastStep(task[t]))
  BY <1>1, <1>2, StepPassed
<1>4. Steadily(t)
  BY <1>1, <1>2 DEF Steadily
<1>5. GoesOn(task[t], task'[t])
  BY <1>1, <1>2, <1>3
<1>6. QED
  BY <1>1, <1>4, <1>5 DEF Transferring

LEMMA Faults ==
  ASSUME BusInv, NEW t \in Tasks, Fault(t)
  PROVE  Steadily(t) /\ Faulting(t)
<1>1. task[t].busy
  BY DEF Fault, AtStep
<1>2. /\ WorkOK(task[t]) /\ DOMAIN task = Tasks /\ Sound(drv)
      /\ Head(task[t].todo).driver \in BusDrivers /\ "i2c" \in BusDrivers
  BY <1>1, NextStep DEF BusInv, WorkOK, Doing, BusDrivers
<1>3. /\ drv' = LastError(LastError(drv, "i2c", OperationError(t)), Head(task[t].todo).driver,
                          "DEPENDENCY")
      /\ bus' = FreeBus /\ panel' = panel /\ past' = past
  BY DEF Fault, GiveUp, BlameBus
<1>4. PICK u : u = [task[t] EXCEPT !.hit = TRUE] /\ task' = [task EXCEPT ![t] = Failed(u, "error")]
  BY DEF Fault, GiveUp
<1>5. Fails(task[t], task'[t])
  BY <1>2, <1>4, FailedWork
<1>6. "DEPENDENCY" \in DriverErrors /\ OperationError(t) \in DriverErrors
  BY DEF DriverErrors, OperationError
<1>7. PICK between : between = LastError(drv, "i2c", OperationError(t))
  OBVIOUS
<1>8. Sound(between) /\ \A e \in BusDrivers : between[e].bits = drv[e].bits
  BY <1>2, <1>6, <1>7, ErrorTable
<1>9. Sound(drv') /\ SameBits
  <2>1. drv' = LastError(between, Head(task[t].todo).driver, "DEPENDENCY")
    BY <1>3, <1>7
  <2>2. Sound(drv') /\ \A e \in BusDrivers : drv'[e].bits = between[e].bits
    BY <1>2, <1>6, <1>8, <2>1, ErrorTable
  <2>3. QED
    BY <1>8, <2>2 DEF SameBits
<1>10. Steadily(t)
  BY <1>1, <1>2, <1>4, <1>9 DEF Steadily
<1>11. QED
  BY <1>3, <1>5, <1>9, <1>10 DEF Faulting

LEMMA AfterErrorRecovers ==
  ASSUME NEW w, WorkOK(w), w.busy, NEW error, NEW v, NEW u,
         DOMAIN u = Members, u.busy = w.busy, u.todo = w.todo, u.failed = w.failed, ~u.ready,
         u.ready \in BOOLEAN, u.alone = w.alone, v = AfterError(u, error)
  PROVE  Recovers(w, v)
<1>1. /\ Len(w.todo) \in Nat /\ Len(w.todo) >= 1 /\ w.busy \in BOOLEAN
  BY PlannedHead DEF WorkOK
<1>2. \/ \E x : v = Finished(u, x)
      \/ v = PastFunction(u)
      \/ v = [u EXCEPT !.todo = <<LcdWriteEnd>>, !.failed = "none", !.kept = error]
  BY DEF AfterError
<1>3. CASE \E x : v = Finished(u, x)
  BY <1>3, FinishedWork DEF Recovers
<1>4. CASE v = PastFunction(u) /\ Len(w.todo) = 1
  <2>1. v = Finished(u, "NO_ERROR")
    BY <1>1, <1>4, FunctionPassed
  <2>2. QED
    BY <2>1, FinishedWork DEF Recovers
<1>5. CASE v = PastFunction(u) /\ Len(w.todo) # 1
  <2>1. /\ DOMAIN v = Members /\ v.failed = "none" /\ v.busy = u.busy /\ v.ready = u.ready
        /\ v.todo = Tail(u.todo) /\ v.alone = u.alone
    BY <1>1, <1>5, FunctionPassed
  <2>2. QED
    BY <1>1, <1>5, <2>1 DEF Recovers
<1>6. CASE v = [u EXCEPT !.todo = <<LcdWriteEnd>>, !.failed = "none", !.kept = error]
  <2>1. /\ DOMAIN v = Members /\ v.failed = "none" /\ v.busy = u.busy /\ v.ready = u.ready
        /\ v.todo = <<LcdWriteEnd>> /\ v.alone = u.alone
    BY <1>6 DEF Members
  <2>2. QED
    BY <1>1, <2>1 DEF Recovers
<1>7. QED
  BY <1>2, <1>3, <1>4, <1>5, <1>6

LEMMA AsksError ==
  ASSUME BusInv, NEW t \in Tasks, SnapshotError(t)
  PROVE  Steadily(t) /\ Asking(t)
<1>1. task[t].busy /\ task[t].failed # "none"
  BY DEF SnapshotError
<1>2. /\ WorkOK(task[t]) /\ DOMAIN task[t] = Members /\ ~task[t].ready /\ task[t].ready \in BOOLEAN
      /\ DOMAIN task = Tasks /\ Sound(drv) /\ Doing(t).driver \in BusDrivers
  BY <1>1, NextStep DEF BusInv, WorkOK
<1>3. /\ drv' = ControlOf(Doing(t).driver, drv, With("GETLASTERROR", 0)).table
      /\ bus' = bus /\ panel' = panel /\ past' = past
  BY DEF SnapshotError, chips
<1>4. PICK c : c = With("GETLASTERROR", 0)
  OBVIOUS
<1>5. Allowed(ControlOf(Doing(t).driver, drv, c), drv, Doing(t).driver, c)
  BY <1>2, <1>4, ControlTable
<1>6. c.op \notin LifeOps
  BY <1>4 DEF With, LifeOps
<1>7. Sound(drv') /\ SameBits
  BY <1>3, <1>4, <1>5, <1>6 DEF Allowed, SameBits
<1>8. PICK error, v :
        /\ task' = [task EXCEPT ![t] = v]
        /\ v = AfterError(task[t], error) \/ \E x : v = AfterError([task[t] EXCEPT !.time = x], error)
  BY DEF SnapshotError
<1>9. Recovers(task[t], v)
  <2>1. CASE v = AfterError(task[t], error)
    BY <1>1, <1>2, <2>1, AfterErrorRecovers
  <2>2. CASE \E x : v = AfterError([task[t] EXCEPT !.time = x], error)
    <3>1. PICK u, x : u = [task[t] EXCEPT !.time = x] /\ v = AfterError(u, error)
      BY <2>2
    <3>2. DOMAIN u = Members /\ u.busy = task[t].busy /\ u.todo = task[t].todo
          /\ u.failed = task[t].failed /\ ~u.ready /\ u.ready \in BOOLEAN
          /\ u.alone = task[t].alone
      BY <1>2, <3>1 DEF Members
    <3>3. QED
      BY <1>1, <1>2, <3>1, <3>2, AfterErrorRecovers
  <2>3. QED
    BY <1>8, <2>1, <2>2
<1>10. Steadily(t)
  BY <1>1, <1>2, <1>7, <1>8 DEF Steadily
<1>11. Recovers(task[t], task'[t])
  BY <1>2, <1>8, <1>9
<1>12. QED
  BY <1>1, <1>3, <1>7, <1>10, <1>11 DEF Asking

LEMMA CallSteps ==
  ASSUME BusInv, NEW t \in Tasks, CallStep(t)
  PROVE  /\ Steadily(t)
         /\ Locally(t) \/ Checking(t) \/ Transferring(t) \/ Faulting(t) \/ Asking(t)
BY ComputesLocally, ConvertsLocally, ChecksBus, Transfers, Faults, AsksError DEF CallStep

(* What a step leaves of the invariant, if it leaves the bus driver to     *)
(* those who are about to use it.                                          *)
LEMMA WorkKept ==
  ASSUME BusInv, NEW t \in Tasks, Steadily(t),
         Locally(t) \/ Checking(t) \/ Transferring(t) \/ Faulting(t) \/ Asking(t)
  PROVE  \A u \in Tasks : WorkOK(task'[u])
<1>1. WorkOK(task[t]) /\ task[t].busy /\ Step(t) = task[t].todo[1].steps[1]
  BY NextStep DEF Steadily
<1>2. SUFFICES WorkOK(task'[t])
  BY DEF BusInv, Steadily
<1>3. CASE task[t].failed = "none" /\ GoesOn(task[t], task'[t])
  BY <1>1, <1>3, GoingOn
<1>4. CASE Fails(task[t], task'[t])
  BY <1>1, <1>4, Failing
<1>5. CASE Ended(task'[t])
  BY <1>5 DEF Ended, WorkOK
<1>6. CASE Recovers(task[t], task'[t])
  BY <1>1, <1>6, Recovering
<1>7. CASE /\ task[t].failed = "none" /\ Step(t).do \in BusOps
           /\ task'[t] = [task[t] EXCEPT !.ready = TRUE]
  <2>1. PICK w, v : w = task[t] /\ v = [w EXCEPT !.ready = TRUE] /\ v = task'[t]
    BY <1>7
  <2>2. /\ DOMAIN v = Members /\ v.busy = w.busy /\ v.todo = w.todo /\ v.failed = w.failed
        /\ v.ready /\ v.ready \in BOOLEAN
    BY <1>1, <2>1 DEF WorkOK, Members
  <2>3. w.todo[1].steps[1].do \in BusOps
    BY <1>1, <1>7, <2>1
  <2>4. QED
    BY <1>1, <1>7, <2>1, <2>2, <2>3 DEF WorkOK
<1>8. QED
  BY <1>3, <1>4, <1>5, <1>6, <1>7 DEF Locally, Checking, Transferring, Faulting, Asking

LEMMA BusInvStep ==
  ASSUME BusInv, NEW t \in Tasks, CallStep(t)
  PROVE  BusInv'
<1>1. Steadily(t) /\ (Locally(t) \/ Checking(t) \/ Transferring(t) \/ Faulting(t) \/ Asking(t))
  BY CallSteps
<1>2. Sound(drv') /\ DOMAIN task' = Tasks /\ \A u \in Tasks : WorkOK(task'[u])
  BY <1>1, WorkKept DEF Steadily
<1>3. /\ WorkOK(task[t]) /\ task[t].busy /\ Step(t) = task[t].todo[1].steps[1]
      /\ \A u \in Tasks \ {t} : task'[u] = task[u]
      /\ "i2c" \in BusDrivers
  BY <1>1, NextStep DEF Steadily, BusDrivers
<1>4. SUFFICES ASSUME "cut" \notin past'
               PROVE  /\ bus' # FreeBus \/ (\E u \in Tasks : task'[u].ready) => Carried(drv')
                      /\ bus' # FreeBus => \E u \in Tasks : Holds(task'[u])
  BY <1>2 DEF BusInv
<1>5. "cut" \notin past
  BY <1>1, <1>4 DEF Locally, Checking, Transferring, Faulting, Asking
<1>6. /\ bus # FreeBus \/ (\E u \in Tasks : task[u].ready) => Carried(drv)
      /\ bus # FreeBus => \E u \in Tasks : Holds(task[u])
  BY <1>5 DEF BusInv
<1>7. CASE Locally(t)
  <2>1. ~task'[t].ready
    BY <1>7 DEF Locally, GoesOn, Fails, Ended
  <2>2. ~Holds(task[t])
    BY <1>3, <1>7, HolderSteps DEF Locally
  <2>3. CASE bus' = bus /\ past' = past /\ (Carried(drv) => Carried(drv'))
    BY <1>3, <1>6, <2>1, <2>2, <2>3
  <2>4. CASE bus' = FreeBus /\ past' = IF Busy = {t} THEN past ELSE past \cup {"cut"}
    <3>1. Busy = {t}
      BY <1>4, <2>4
    <3>2. \A u \in Tasks \ {t} : ~task[u].ready
      BY <3>1 DEF Busy, BusInv, WorkOK
    <3>3. QED
      BY <1>3, <2>1, <2>4, <3>2
  <2>5. QED
    BY <1>7, <2>3, <2>4 DEF Locally
<1>8. CASE Checking(t)
  <2>1. bus' = bus /\ (Carried(drv) <=> Carried(drv'))
    BY <1>3, <1>8 DEF Checking, SameBits, Carried
  <2>2. CASE task'[t] = [task[t] EXCEPT !.ready = TRUE] /\ Carried(drv')
    <3>1. task'[t].busy = task[t].busy /\ task'[t].todo = task[t].todo
          /\ task'[t].failed = task[t].failed
      <4>1. PICK w : w = task[t] /\ task'[t] = [w EXCEPT !.ready = TRUE] /\ DOMAIN w = Members
        BY <1>3, <2>2 DEF WorkOK
      <4>2. QED
        BY <4>1 DEF Members
    <3>2. Holds(task[t]) => Holds(task'[t])
      BY <3>1 DEF Holds
    <3>3. QED
      BY <1>3, <1>6, <2>1, <2>2, <3>2
  <2>3. CASE Fails(task[t], task'[t]) /\ ~Carried(drv)
    <3>1. ~task'[t].ready
      BY <2>3 DEF Fails
    <3>2. QED
      BY <1>3, <1>6, <2>1, <2>3, <3>1
  <2>4. QED
    BY <1>8, <2>2, <2>3 DEF Checking
<1>9. CASE Transferring(t)
  <2>1. Carried(drv') /\ task[t].failed = "none" /\ GoesOn(task[t], task'[t])
    BY <1>6, <1>9 DEF Transferring
  <2>2. Leads(task[t].todo, 1, 2) => Holds(task'[t])
    BY <1>3, <2>1, GoingOn
  <2>3. CASE Step(t).do = "start"
    BY <1>3, <2>1, <2>2, <2>3, StartHolds
  <2>4. CASE Step(t).do # "start" /\ Step(t).do # "stop"
    <3>1. bus' = bus
      BY <1>9, <2>4 DEF Transferring, Address, SendByte, ReceiveByte, Release
    <3>2. Holds(task[t]) => Holds(task'[t])
      BY <1>3, <2>2, <2>4, HolderSteps
    <3>3. QED
      BY <1>3, <1>6, <2>1, <3>1, <3>2
  <2>5. CASE Step(t).do = "stop"
    <3>1. bus' = FreeBus
      BY <1>9, <2>5 DEF Transferring, Address, SendByte, ReceiveByte, Release
    <3>2. QED
      BY <2>1, <3>1
  <2>6. QED
    BY <2>3, <2>4, <2>5
<1>10. CASE Faulting(t)
  <2>1. bus' = FreeBus /\ ~task'[t].ready /\ (Carried(drv) => Carried(drv'))
    BY <1>3, <1>10 DEF Faulting, Fails, SameBits, Carried
  <2>2. QED
    BY <1>3, <1>6, <2>1
<1>11. CASE Asking(t)
  <2>1. /\ bus' = bus /\ ~task'[t].ready /\ (Carried(drv) => Carried(drv'))
        /\ ~Holds(task[t])
    BY <1>3, <1>11 DEF Asking, Recovers, SameBits, Carried, Holds
  <2>2. QED
    BY <1>3, <1>6, <2>1
<1>12. QED
  BY <1>1, <1>7, <1>8, <1>9, <1>10, <1>11

(* The steps that are no thread's own change nothing the invariant is      *)
(* about, but that a call begins.                                          *)
Alike(w, v) ==
  /\ DOMAIN v = Members /\ v.busy = w.busy /\ v.todo = w.todo /\ v.ready = w.ready
  /\ v.failed = w.failed

LEMMA AlikeKept ==
  ASSUME NEW w, NEW v, WorkOK(w), Alike(w, v)
  PROVE  WorkOK(v) /\ (Holds(v) <=> Holds(w))
BY DEF Alike, WorkOK, Holds

Begun(w, v, call) ==
  /\ DOMAIN v = Members /\ v.busy = TRUE /\ v.todo = Script(call) /\ v.ready = FALSE
  /\ v.failed = "none"

LEMMA BegunWork ==
  ASSUME NEW w, NEW v, NEW call, RegisterAssumption, Callable(call), Begun(w, v, call)
  PROVE  WorkOK(v) /\ Scripted(v.todo) /\ ~v.ready
BY ScriptsAreScripted DEF Begun, WorkOK, Scripted

LEMMA Begins ==
  ASSUME BusInv, NEW t \in Tasks, NEW call \in BusCalls[t], Begin(t, call)
  PROVE  /\ t \notin Busy /\ DOMAIN task' = Tasks /\ Begun(task[t], task'[t], call)
         /\ \A u \in Tasks \ {t} : Alike(task[u], task'[u])
         /\ drv' = drv /\ bus' = bus /\ panel' = panel
         /\ past' = IF Busy = {} THEN past ELSE past \cup {"overlap"}
<1>1. /\ t \notin Busy /\ drv' = drv /\ bus' = bus /\ panel' = panel
      /\ past' = IF Busy = {} THEN past ELSE past \cup {"overlap"}
  BY DEF Begin, chips
<1>2. task' = [u \in Tasks |->
        IF u = t
        THEN [IdleTask EXCEPT !.busy = TRUE, !.call = call, !.todo = Script(call),
                !.alone = (Busy = {}), !.seen = {clock.registers},
                !.time = IF call.name = "rtcWrite" THEN call.time ELSE @]
        ELSE IF u \in Busy THEN [task[u] EXCEPT !.alone = FALSE] ELSE task[u]]
  BY DEF Begin
<1>3. DOMAIN task' = Tasks
  BY <1>2
<1>4. Begun(task[t], task'[t], call)
  <2>1. PICK x, y, z :
          task'[t] = [IdleTask EXCEPT !.busy = TRUE, !.call = call, !.todo = Script(call),
                        !.alone = x, !.seen = y, !.time = z]
    BY <1>2
  <2>2. QED
    BY <2>1, IdleMembers DEF Begun, Members
<1>5. ASSUME NEW u \in Tasks \ {t} PROVE Alike(task[u], task'[u])
  <2>1. task'[u] = [task[u] EXCEPT !.alone = FALSE] \/ task'[u] = task[u]
    BY <1>2
  <2>2. DOMAIN task[u] = Members
    BY DEF BusInv, WorkOK
  <2>3. QED
    BY <2>1, <2>2 DEF Alike, Members
<1>6. QED
  BY <1>1, <1>3, <1>4, <1>5

LEMMA HourPasses ==
  ASSUME BusInv, PassHour
  PROVE  /\ DOMAIN task' = Tasks /\ \A u \in Tasks : Alike(task[u], task'[u])
         /\ drv' = drv /\ bus' = bus /\ panel' = panel /\ past' = past
<1>1. drv' = drv /\ bus' = bus /\ panel' = panel /\ past' = past
  BY DEF PassHour
<1>2. task' = [t \in Tasks |-> [task[t] EXCEPT !.seen = @ \cup {clock'.registers}]]
  BY DEF PassHour
<1>3. ASSUME NEW u \in Tasks PROVE Alike(task[u], task'[u])
  <2>1. PICK x : task'[u] = [task[u] EXCEPT !.seen = x]
    BY <1>2
  <2>2. DOMAIN task[u] = Members
    BY DEF BusInv, WorkOK
  <2>3. QED
    BY <2>1, <2>2 DEF Alike, Members
<1>4. QED
  BY <1>1, <1>2, <1>3

(* A scan marks a device of the bus dead or sets it off; the bus driver    *)
(* stays as it is, and no device becomes initialized by it.                *)
Marked(next, table) ==
  /\ Sound(next) /\ next["i2c"].bits = table["i2c"].bits
  /\ "init" \in next["lcd"].bits => "init" \in table["lcd"].bits

LEMMA MarksOne ==
  ASSUME NEW table, Sound(table), NEW d \in {"lcd", "rtc"},
         NEW c \in {With("SETBIT", "dead")} \cup {With("CLEARBIT", bit) : bit \in StatusBits}
  PROVE  Marked(ControlOf(d, table, c).table, table)
<1>1. /\ c.op \in {"SETBIT", "CLEARBIT"} /\ c.data # <<>> /\ c.data[1] \in StatusBits
      /\ c.op = "SETBIT" => c.data[1] = "dead"
  BY DEF With, StatusBits
<1>2. Storable(c) /\ c.op \notin LifeOps
  BY <1>1 DEF Storable, LifeOps
<1>3. d \in BusDrivers /\ "i2c" \in BusDrivers /\ "lcd" \in BusDrivers /\ d # "i2c"
  BY DEF BusDrivers
<1>4. PICK reply : reply = ControlOf(d, table, c)
  OBVIOUS
<1>5. BusAnswers(reply, table, d, c)
  BY <1>2, <1>3, <1>4, ControlAnswers DEF Sound
<1>6. table[d] \in DriverRecords
  BY <1>3 DEF Sound, Tables
<1>7. Refusal(c) = "NO_ERROR" => ("init" \in Stored(table[d], c).bits => "init" \in table[d].bits)
  BY <1>1, <1>2, <1>6, StoredRecord
<1>8. /\ reply.table \in Tables(BusDrivers)
      /\ \A e \in BusDrivers \ {d} : reply.table[e].bits = table[e].bits
      /\ "init" \in reply.table[d].bits => "init" \in table[d].bits
  BY <1>2, <1>5, <1>7 DEF BusAnswers, Proper
<1>9. reply.table["i2c"].bits = table["i2c"].bits
  BY <1>3, <1>8
<1>10. "init" \in reply.table["lcd"].bits => "init" \in table["lcd"].bits
  BY <1>3, <1>8
<1>11. QED
  BY <1>4, <1>8, <1>9, <1>10 DEF Marked, Sound

LEMMA ScanMarks ==
  ASSUME BusInv, NEW d \in {"lcd", "rtc"}, Scan(d)
  PROVE  Marked(drv', drv) /\ bus' = bus /\ panel' = panel /\ task' = task /\ past' = past
<1>1. bus' = bus /\ panel' = panel /\ task' = task /\ past' = past
  BY DEF Scan, chips
<1>2. Sound(drv)
  BY DEF BusInv
<1>3. ASSUME NEW table, Sound(table), NEW bit \in StatusBits
      PROVE  Marked(ControlOf(d, table, With("CLEARBIT", bit)).table, table)
  BY <1>3, MarksOne
<1>4. CASE drv' = SetOff(d, drv)
  <2>1. PICK one, two, three :
          /\ one = ControlOf(d, drv, With("CLEARBIT", "start")).table
          /\ two = ControlOf(d, one, With("CLEARBIT", "init")).table
          /\ three = ControlOf(d, two, With("CLEARBIT", "error")).table
    OBVIOUS
  <2>2. drv' = ControlOf(d, three, With("CLEARBIT", "dead")).table
    BY <1>4, <2>1 DEF SetOff
  <2>3. "start" \in StatusBits /\ "init" \in StatusBits /\ "error" \in StatusBits /\ "dead" \in StatusBits
    BY DEF StatusBits
  <2>4. Marked(one, drv)
    BY <1>2, <1>3, <2>1, <2>3
  <2>5. Marked(two, one)
    BY <1>3, <2>1, <2>3, <2>4 DEF Marked
  <2>6. Marked(three, two)
    BY <1>3, <2>1, <2>3, <2>5 DEF Marked
  <2>7. Marked(drv', three)
    BY <1>3, <2>2, <2>3, <2>6 DEF Marked
  <2>8. QED
    BY <1>1, <2>4, <2>5, <2>6, <2>7 DEF Marked
<1>5. CASE drv' = ControlOf(d, drv, With("SETBIT", "dead")).table
  BY <1>1, <1>2, <1>5, MarksOne
<1>6. QED
  BY <1>4, <1>5 DEF Scan

LEMMA StartUp ==
  ASSUME LevelAssumption, BusInit
  PROVE  BusInv
<1>1. ColdDriver \in DriverRecords /\ RunningDriver \in DriverRecords
      /\ RunningDriver.bits = {"init", "start"}
  BY DEF LevelAssumption, ColdDriver, RunningDriver, DriverRecords, DriverErrors, StatusBits
<1>2. PICK client \in {RunningDriver, ColdDriver} :
        drv = [d \in BusDrivers |-> IF d = "i2c" THEN RunningDriver ELSE client]
  BY DEF BusInit
<1>3. drv \in Tables(BusDrivers) /\ drv["i2c"].bits = {"init", "start"}
  BY <1>1, <1>2 DEF Tables, BusDrivers
<1>4. Sound(drv) /\ Carried(drv)
  BY <1>3 DEF Sound, Carried
<1>5. DOMAIN task = Tasks /\ \A t \in Tasks : WorkOK(task[t])
  BY IdleMembers DEF BusInit, WorkOK
<1>6. bus = FreeBus
  BY DEF BusInit
<1>7. QED
  BY <1>4, <1>5, <1>6 DEF BusInv

LEMMA BusInvNext ==
  ASSUME RegisterAssumption, BusAssumption, BusInv, [BusNext]_busVars
  PROVE  BusInv'
<1>1. CASE \E t \in Tasks : \E call \in BusCalls[t] : Begin(t, call)
  <2>1. PICK t \in Tasks : \E call \in BusCalls[t] : Begin(t, call)
    BY <1>1
  <2>2. PICK call \in BusCalls[t] : Begin(t, call)
    BY <2>1
  <2>3. /\ t \notin Busy /\ DOMAIN task' = Tasks /\ Begun(task[t], task'[t], call)
        /\ \A u \in Tasks \ {t} : Alike(task[u], task'[u])
        /\ drv' = drv /\ bus' = bus
        /\ past' = IF Busy = {} THEN past ELSE past \cup {"overlap"}
    BY <2>2, Begins
  <2>4. Callable(call)
    BY DEF BusAssumption
  <2>5. WorkOK(task'[t]) /\ ~task'[t].ready
    BY <2>3, <2>4, BegunWork
  <2>6. \A u \in Tasks \ {t} :
          /\ WorkOK(task'[u]) /\ (task'[u].ready => task[u].ready)
          /\ Holds(task[u]) => Holds(task'[u])
    BY <2>3, AlikeKept DEF BusInv, Alike
  <2>7. ~Holds(task[t])
    BY <2>3 DEF Busy, Holds
  <2>8. "cut" \notin past' => "cut" \notin past
    BY <2>3
  <2>9. QED
    BY <2>3, <2>5, <2>6, <2>7, <2>8 DEF BusInv
<1>2. CASE \E t \in Tasks : CallStep(t)
  BY <1>2, BusInvStep
<1>3. CASE PassHour
  <2>1. /\ DOMAIN task' = Tasks /\ \A u \in Tasks : Alike(task[u], task'[u])
        /\ drv' = drv /\ bus' = bus /\ past' = past
    BY <1>3, HourPasses
  <2>2. \A u \in Tasks : /\ WorkOK(task'[u]) /\ (task'[u].ready => task[u].ready)
                         /\ Holds(task[u]) => Holds(task'[u])
    BY <2>1, AlikeKept DEF BusInv, Alike
  <2>3. QED
    BY <2>1, <2>2 DEF BusInv
<1>4. CASE \E d \in {"lcd", "rtc"} : Scan(d)
  <2>1. Marked(drv', drv) /\ bus' = bus /\ task' = task /\ past' = past
    BY <1>4, ScanMarks
  <2>2. Sound(drv') /\ (Carried(drv) => Carried(drv'))
    BY <2>1 DEF Marked, Carried
  <2>3. QED
    BY <2>1, <2>2 DEF BusInv
<1>5. CASE UNCHANGED busVars
  BY <1>5 DEF busVars, chips, BusInv
<1>6. QED
  BY <1>1, <1>2, <1>3, <1>4, <1>5 DEF BusNext

(* The bus is free when no call is under way, whatever operations failed   *)
(* and whoever overlapped, unless the bus driver was stopped during a      *)
(* transaction (at2560_i2c.c, lcd_AMC2004.c, rtc_ZS042.c): the thread that *)
(* addressed a device has not ended its transaction, and will.             *)
THEOREM BusIsFreed == BusSpec => []QuietBusIsFree
<1>1. BusInit => BusInv
  BY StartUp, LevelAssumption
<1>2. BusInv /\ [BusNext]_busVars => BusInv'
  BY BusInvNext, RegisterAssumption, BusAssumption
<1>3. BusInv => QuietBusIsFree
  BY DEF BusInv, QuietBusIsFree, Busy, Holds
<1>4. QED
  BY <1>1, <1>2, <1>3, PTL DEF BusSpec

-----------------------------------------------------------------------------
(* The display.  What it has been set up with it keeps.                    *)
Parts == {"expect", "at", "cells", "setup"}

LEMMA PanelGrows ==
  ASSUME NEW p, DOMAIN p = Parts, NEW b
  PROVE  /\ DOMAIN PanelReceives(p, b) = Parts /\ p.setup \subseteq PanelReceives(p, b).setup
         /\ p.expect = "control" /\ b = CMD => PanelReceives(p, b).expect = "command"
         /\ p.expect = "command" /\ b \in Needed => b \in PanelReceives(p, b).setup
<1>1. PICK next : next = [p EXCEPT !.expect = "control"]
  OBVIOUS
<1>2. DOMAIN next = Parts /\ next.setup = p.setup
  BY <1>1 DEF Parts
<1>3. PICK obeyed : obeyed = Obey(p, b)
  OBVIOUS
<1>4. DOMAIN obeyed = Parts /\ p.setup \subseteq obeyed.setup
      /\ (b \in Needed => b \in obeyed.setup)
  <2>1. CASE b = CLEAR
    <3>1. obeyed = [next EXCEPT !.at = 0, !.cells = <<>>]
      BY <1>1, <1>3, <2>1 DEF Obey, CLEAR, SETCURSOR
    <3>2. b \notin Needed
      BY <2>1 DEF CLEAR, Needed, SETUP, DISPLAYMODE, ENTRYMODE
    <3>3. QED
      BY <1>2, <3>1, <3>2 DEF Parts
  <2>2. CASE b # CLEAR /\ b >= SETCURSOR
    <3>1. obeyed = [next EXCEPT !.at = b - SETCURSOR]
      BY <1>1, <1>3, <2>2 DEF Obey
    <3>2. b \notin Needed
      BY <2>2 DEF SETCURSOR, Needed, SETUP, DISPLAYMODE, ENTRYMODE
    <3>3. QED
      BY <1>2, <3>1, <3>2 DEF Parts
  <2>3. CASE b # CLEAR /\ ~(b >= SETCURSOR)
    <3>1. obeyed = [next EXCEPT !.setup = @ \cup {b}]
      BY <1>1, <1>3, <2>3 DEF Obey
    <3>2. QED
      BY <1>2, <3>1 DEF Parts
  <2>4. QED
    BY <2>1, <2>2, <2>3
<1>5. CASE p.expect = "control"
  <2>1. PICK e : e = CASE b = CMD -> "command" [] b = DATA -> "data" [] OTHER -> "control"
    OBVIOUS
  <2>2. b = CMD => e = "command"
    BY <2>1 DEF CMD, DATA
  <2>3. PanelReceives(p, b) = [p EXCEPT !.expect = e]
    BY <1>5, <2>1 DEF PanelReceives
  <2>4. QED
    BY <1>5, <2>2, <2>3 DEF Parts
<1>6. CASE p.expect = "command"
  <2>1. PanelReceives(p, b) = obeyed
    BY <1>3, <1>6 DEF PanelReceives
  <2>2. QED
    BY <1>4, <1>6, <2>1
<1>7. CASE p.expect \notin {"control", "command"}
  <2>1. PICK x, y : PanelReceives(p, b) = [p EXCEPT !.cells = x, !.at = y]
    BY <1>7 DEF PanelReceives
  <2>2. QED
    BY <1>7, <2>1 DEF Parts
<1>8. QED
  BY <1>5, <1>6, <1>7

(* A thread that will set the "init" bit has sent, will send or is sending *)
(* each command the display needs.                                         *)
ToDisplay == [device |-> "lcd", direction |-> "W"]

Midway(steps, b, p, at) ==
  /\ at = ToDisplay
  /\ \/ /\ p.expect = "control" /\ 2 \in 1 .. Len(steps)
        /\ steps[1] = Write(CMD) /\ steps[2] = Write(b)
     \/ p.expect = "command" /\ steps[1] = Write(b)

Ahead(w, p, at) ==
  /\ w.busy /\ w.failed = "none"
  /\ \E k \in 1 .. Len(w.todo[1].steps) : w.todo[1].steps[k] = Commit("init")
  => \A b \in Needed : \/ b \in p.setup
                       \/ Sends(w.todo[1].steps, b)
                       \/ Midway(w.todo[1].steps, b, p, at)

DisplayInv ==
  /\ DOMAIN panel = Parts
  /\ "overlap" \notin past =>
       /\ \A t \in Busy, u \in Busy : t = u
       /\ "init" \in drv["lcd"].bits => Needed \subseteq panel.setup
       /\ \A t \in Tasks : Ahead(task[t], panel, bus)

(* What a step does to the display it does for a command under way.        *)
Serves(w, p, q, at, to) ==
  LET step == w.todo[1].steps[1]
  IN  /\ p.setup \subseteq q.setup
      /\ step = Start("lcd", "W") => to = ToDisplay /\ q.expect = "control"
      /\ step = Write(CMD) /\ at = ToDisplay /\ p.expect = "control" =>
           to = ToDisplay /\ q.expect = "command"
      /\ \A b \in Needed : step = Write(b) /\ at = ToDisplay /\ p.expect = "command" =>
           b \in q.setup

(* Functions that follow the first one set no bit.                         *)
LEMMA LaterCommits ==
  ASSUME NEW todo, Planned(todo), Len(todo) # 1,
         NEW k \in 1 .. Len(Tail(todo)[1].steps)
  PROVE  Tail(todo)[1].steps[k].do # "commit"
<1>1. Len(todo) \in Nat /\ Len(todo) >= 1
  BY PlannedHead
<1>2. Len(todo) > 1
  BY <1>1, MoreThanOne, Zenon
<1>3. PICK n \in Nat : n = Len(todo) /\ n > 1
  BY <1>1, <1>2
<1>4. Tail(todo)[1] = todo[1 + 1]
  <2>1. todo # <<>>
    BY <1>3
  <2>2. PICK S : todo \in Seq(S)
    BY DEF Planned
  <2>3. \A i \in 1 .. Len(todo) - 1 : Tail(todo)[i] = todo[i + 1]
    BY <2>1, <2>2, TailOf
  <2>4. 1 \in 1 .. n - 1
    BY <1>3
  <2>5. QED
    BY <1>3, <2>3, <2>4
<1>5. 1 + 1 \in 2 .. n
  BY <1>3
<1>6. QED
  BY <1>3, <1>4, <1>5 DEF Planned

LEMMA NoMoreCommits ==
  ASSUME NEW todo, Planned(todo), Len(todo) # 1,
         NEW k \in 1 .. Len(Tail(todo)[1].steps), Tail(todo)[1].steps[k] = Commit("init")
  PROVE  FALSE
BY LaterCommits, StepDoes

LEMMA AheadStays ==
  ASSUME NEW w, NEW v, WorkOK(w), w.busy, w.failed = "none", GoesOn(w, v),
         NEW p, NEW q, NEW at, NEW to, Ahead(w, p, at), Serves(w, p, q, at, to)
  PROVE  Ahead(v, q, to)
<1>0. PICK s : s = w.todo[1].steps
  OBVIOUS
<1>1. SUFFICES ASSUME v.busy, v.failed = "none",
                      NEW k \in 1 .. Len(v.todo[1].steps), v.todo[1].steps[k] = Commit("init"),
                      NEW b \in Needed
               PROVE  \/ b \in q.setup
                      \/ Sends(v.todo[1].steps, b)
                      \/ Midway(v.todo[1].steps, b, q, to)
  BY DEF Ahead
<1>2. Planned(w.todo) /\ FunctionOK(w.todo[1]) /\ Len(w.todo) \in Nat /\ Len(w.todo) >= 1
  BY PlannedHead DEF WorkOK
<1>3. Len(w.todo[1].steps) # 1 /\ v.todo = Stepped(w.todo)
  BY <1>1, <1>2, NoMoreCommits DEF GoesOn
<1>4. PICK n \in Nat : s \in Seq(Steps) /\ n = Len(s) /\ n > 1
  <2>1. s \in Seq(Steps) /\ Len(s) \in Nat /\ Len(s) >= 1
    BY <1>0, <1>2, PlannedHead DEF FunctionOK
  <2>2. Len(s) > 1
    BY <1>0, <1>3, <2>1, MoreThanOne, Zenon
  <2>3. QED
    BY <2>1, <2>2
<1>5. v.todo[1].steps = Tail(s)
  <2>1. 1 \in DOMAIN w.todo /\ "steps" \in DOMAIN w.todo[1]
    <3>1. \E S : w.todo \in Seq(S)
      BY <1>2 DEF Planned
    <3>2. DOMAIN w.todo = 1 .. Len(w.todo)
      BY <3>1, LenProperties
    <3>3. PICK m \in Nat : m = Len(w.todo) /\ m >= 1
      BY <1>2
    <3>4. QED
      BY <1>2, <3>2, <3>3 DEF FunctionOK
  <2>2. QED
    BY <1>0, <1>3, <2>1 DEF Stepped
<1>6. PICK r : /\ r = Tail(s) /\ Len(r) = n - 1 /\ v.todo[1].steps = r
               /\ \A i \in 1 .. n - 1 : r[i] = s[i + 1]
  <2>1. s # <<>>
    BY <1>4, EmptySeq
  <2>2. PICK r : r = Tail(s)
    OBVIOUS
  <2>3. /\ Len(r) = Len(s) - 1
        /\ \A i \in 1 .. Len(s) - 1 : r[i] = s[i + 1]
    BY <1>4, <2>1, <2>2, TailOf
  <2>4. QED
    BY <1>4, <1>5, <2>2, <2>3
<1>7. \/ b \in p.setup \/ Sends(s, b) \/ Midway(s, b, p, at)
  <2>1. k + 1 \in 1 .. n /\ s[k + 1] = Commit("init")
    BY <1>1, <1>4, <1>6
  <2>2. QED
    BY <1>0, <1>4, <2>1 DEF Ahead
<1>8. CASE b \in p.setup
  BY <1>8 DEF Serves
<1>9. CASE Sends(s, b)
  <2>1. PICK j \in 1 .. n - 2 :
          s[j] = Start("lcd", "W") /\ s[j + 1] = Write(CMD) /\ s[j + 2] = Write(b)
    BY <1>4, <1>9 DEF Sends
  <2>2. CASE j = 1
    <3>1. to = ToDisplay /\ q.expect = "control"
      BY <1>0, <2>1, <2>2 DEF Serves
    <3>2. 1 \in 1 .. n - 1 /\ 2 \in 1 .. n - 1
      BY <2>1, <2>2
    <3>3. r[1] = Write(CMD) /\ r[2] = Write(b)
      BY <1>6, <2>1, <2>2, <3>2
    <3>4. QED
      BY <1>6, <3>1, <3>2, <3>3 DEF Midway
  <2>3. CASE j # 1
    <3>1. PICK i \in 1 .. (n - 1) - 2 : i = j - 1
      BY <2>1, <2>3
    <3>2. i \in 1 .. n - 1 /\ i + 1 \in 1 .. n - 1 /\ i + 2 \in 1 .. n - 1
          /\ i + 1 = j /\ (i + 1) + 1 = j + 1 /\ (i + 2) + 1 = j + 2
      BY <3>1
    <3>3. r[i] = Start("lcd", "W") /\ r[i + 1] = Write(CMD) /\ r[i + 2] = Write(b)
      BY <1>6, <2>1, <3>2
    <3>4. QED
      BY <1>6, <3>1, <3>3 DEF Sends
  <2>4. QED
    BY <2>2, <2>3
<1>10. CASE Midway(s, b, p, at)
  <2>1. CASE p.expect = "control"
    <3>1. at = ToDisplay /\ 2 \in 1 .. n /\ s[1] = Write(CMD) /\ s[2] = Write(b)
      BY <1>4, <1>10, <2>1 DEF Midway
    <3>2. to = ToDisplay /\ q.expect = "command"
      BY <1>0, <2>1, <3>1 DEF Serves
    <3>3. 1 \in 1 .. n - 1 /\ 1 + 1 = 2
      BY <3>1
    <3>4. r[1] = Write(b)
      BY <1>6, <3>1, <3>3
    <3>5. QED
      BY <1>6, <3>2, <3>4 DEF Midway
  <2>2. CASE p.expect # "control"
    <3>1. at = ToDisplay /\ p.expect = "command" /\ s[1] = Write(b)
      BY <1>10, <2>2 DEF Midway
    <3>2. QED
      BY <1>0, <3>1 DEF Serves
  <2>3. QED
    BY <2>1, <2>2
<1>11. QED
  BY <1>7, <1>8, <1>9, <1>10

LEMMA TransferServes ==
  ASSUME DOMAIN panel = Parts, NEW t \in Tasks, Transferring(t),
         Step(t) = task[t].todo[1].steps[1]
  PROVE  /\ DOMAIN panel' = Parts /\ panel.setup \subseteq panel'.setup
         /\ Busy \subseteq {t} => Serves(task[t], panel, panel', bus, bus')
<1>1. \A b : Write(b).do = "write" /\ Start("lcd", "W").do = "start"
  BY StepDoes
<1>2. CASE Address(t)
  <2>1. /\ Step(t).do = "start"
        /\ bus' = [device |-> Step(t).device, direction |-> Step(t).direction]
        /\ panel' = IF Step(t).device = "lcd" THEN [panel EXCEPT !.expect = "control"] ELSE panel
    BY <1>2 DEF Address
  <2>2. DOMAIN panel' = Parts /\ panel'.setup = panel.setup
    BY <2>1 DEF Parts
  <2>3. Step(t) = Start("lcd", "W") => bus' = ToDisplay /\ panel'.expect = "control"
    BY <2>1 DEF Start, ToDisplay, Parts
  <2>4. \A b : Step(t) # Write(b)
    BY <1>1, <2>1
  <2>5. QED
    BY <2>2, <2>3, <2>4 DEF Serves
<1>3. CASE SendByte(t)
  <2>1. /\ Step(t).do \in {"write", "put"} /\ bus' = bus
        /\ \E b \in BytesOnTheirWay(t) :
             panel' = IF bus.device = "lcd" THEN PanelReceives(panel, b) ELSE panel
    BY <1>3 DEF SendByte
  <2>2. PICK b \in BytesOnTheirWay(t) :
          panel' = IF bus.device = "lcd" THEN PanelReceives(panel, b) ELSE panel
    BY <2>1
  <2>3. /\ DOMAIN panel' = Parts /\ panel.setup \subseteq panel'.setup
        /\ bus.device = "lcd" /\ panel.expect = "control" /\ b = CMD => panel'.expect = "command"
        /\ bus.device = "lcd" /\ panel.expect = "command" /\ b \in Needed => b \in panel'.setup
    BY <2>2, PanelGrows
  <2>4. ASSUME Busy \subseteq {t}, NEW x, Step(t) = Write(x) PROVE b = x
    <3>1. b = ByteOf(t)
      BY <2>2, <2>4 DEF BytesOnTheirWay, AtStep, Busy
    <3>2. QED
      BY <2>4, <3>1 DEF ByteOf, Write
  <2>5. Step(t) # Start("lcd", "W")
    BY <1>1, <2>1
  <2>6. ToDisplay.device = "lcd"
    BY DEF ToDisplay
  <2>7. QED
    BY <2>1, <2>3, <2>4, <2>5, <2>6 DEF Serves
<1>4. CASE ReceiveByte(t) \/ Release(t)
  <2>1. panel' = panel /\ Step(t).do \in {"get", "stop"}
    BY <1>4 DEF ReceiveByte, Release
  <2>2. QED
    BY <1>1, <2>1 DEF Serves
<1>5. QED
  BY <1>2, <1>3, <1>4 DEF Transferring

(* The bit of the initialization is set when nothing is left to send.      *)
LEMMA CommitsLast ==
  ASSUME NEW w, WorkOK(w), w.busy, w.failed = "none", w.todo[1].steps[1] = Commit("init"),
         NEW p, NEW at, Ahead(w, p, at)
  PROVE  Needed \subseteq p.setup
<1>1. /\ FunctionOK(w.todo[1]) /\ Len(w.todo[1].steps) \in Nat /\ Len(w.todo[1].steps) >= 1
  BY PlannedHead DEF WorkOK
<1>2. PICK s, x : s = w.todo[1].steps /\ x = Len(s)
  OBVIOUS
<1>3. x = 1 /\ s[1] = Commit("init") /\ s[1].do = "commit"
  <2>1. s[1] = Commit("init") /\ s[1].do = "commit" /\ x \in Nat /\ x >= 1
    BY <1>1, <1>2, StepDoes
  <2>2. 1 \in 1 .. x
    BY <2>1
  <2>3. \A k \in 1 .. x : s[k].do = "commit" => k = x
    BY <1>1, <1>2 DEF FunctionOK
  <2>4. QED
    BY <2>1, <2>2, <2>3
<1>4. ASSUME NEW b \in Needed PROVE b \in p.setup
  <2>1. b \in p.setup \/ Sends(s, b) \/ Midway(s, b, p, at)
    BY <1>2, <1>3 DEF Ahead
  <2>2. ~Sends(s, b)
    BY <1>2, <1>3 DEF Sends
  <2>3. Write(CMD).do = "write" /\ Write(b).do = "write"
    BY StepDoes
  <2>4. ~Midway(s, b, p, at)
    BY <1>3, <2>3 DEF Midway
  <2>5. QED
    BY <2>1, <2>2, <2>4
<1>5. QED
  BY <1>4

LEMMA NothingAhead ==
  ASSUME NEW v, NEW p, NEW at, ~v.busy \/ v.failed # "none"
  PROVE  Ahead(v, p, at)
BY DEF Ahead

LEMMA AheadStep ==
  ASSUME BusInv, DisplayInv, NEW t \in Tasks, Steadily(t), "overlap" \notin past,
         Locally(t) \/ Checking(t) \/ Transferring(t) \/ Faulting(t) \/ Asking(t)
  PROVE  Ahead(task'[t], panel', bus')
<1>1. /\ WorkOK(task[t]) /\ task[t].busy /\ Step(t) = task[t].todo[1].steps[1]
      /\ DOMAIN panel = Parts /\ Ahead(task[t], panel, bus)
  BY NextStep DEF Steadily, DisplayInv
<1>2. Busy \subseteq {t}
  BY <1>1 DEF DisplayInv, Busy
<1>3. CASE Fails(task[t], task'[t]) \/ Ended(task'[t])
  BY <1>3, NothingAhead DEF Fails, Ended
<1>4. CASE Locally(t) /\ GoesOn(task[t], task'[t])
  <2>1. \A b : Write(b).do = "write" /\ Start("lcd", "W").do = "start"
    BY StepDoes
  <2>2. Serves(task[t], panel, panel', bus, bus')
    BY <1>1, <1>4, <2>1 DEF Locally, Serves, BusOps
  <2>3. QED
    BY <1>1, <1>4, <2>2, AheadStays DEF Locally
<1>5. CASE Checking(t) /\ task'[t] = [task[t] EXCEPT !.ready = TRUE]
  <2>1. PICK w : w = task[t] /\ task'[t] = [w EXCEPT !.ready = TRUE] /\ DOMAIN w = Members
    BY <1>1, <1>5 DEF WorkOK
  <2>2. task'[t].busy = w.busy /\ task'[t].todo = w.todo /\ task'[t].failed = w.failed
    BY <2>1 DEF Members
  <2>3. QED
    BY <1>1, <1>5, <2>1, <2>2 DEF Ahead, Checking
<1>6. CASE Transferring(t)
  <2>1. Serves(task[t], panel, panel', bus, bus')
    BY <1>1, <1>2, <1>6, TransferServes
  <2>2. QED
    BY <1>1, <1>6, <2>1, AheadStays DEF Transferring
<1>7. CASE Recovers(task[t], task'[t])
  <2>1. Planned(task[t].todo)
    BY <1>1 DEF WorkOK
  <2>2. CASE task'[t].busy /\ task'[t].todo = <<LcdWriteEnd>>
    <3>1. \A k \in 1 .. Len(LcdWriteEnd.steps) : LcdWriteEnd.steps[k] # Commit("init")
      BY StepDoes DEF LcdWriteEnd, Function
    <3>2. QED
      BY <2>2, <3>1 DEF Ahead
  <2>3. CASE task'[t].busy /\ Len(task[t].todo) # 1 /\ task'[t].todo = Tail(task[t].todo)
    BY <2>1, <2>3, NoMoreCommits DEF Ahead
  <2>4. QED
    BY <1>7, <2>2, <2>3, NothingAhead DEF Recovers
<1>8. QED
  BY <1>3, <1>4, <1>5, <1>6, <1>7 DEF Locally, Checking, Faulting, Asking

LEMMA DisplayStep ==
  ASSUME BusInv, DisplayInv, NEW t \in Tasks, CallStep(t)
  PROVE  DisplayInv'
<1>1. Steadily(t) /\ (Locally(t) \/ Checking(t) \/ Transferring(t) \/ Faulting(t) \/ Asking(t))
  BY CallSteps
<1>2. /\ WorkOK(task[t]) /\ task[t].busy /\ Step(t) = task[t].todo[1].steps[1]
      /\ "lcd" \in BusDrivers
  BY <1>1, NextStep DEF Steadily, BusDrivers
<1>3. DOMAIN panel' = Parts /\ panel.setup \subseteq panel'.setup
  <2>1. CASE Transferring(t)
    BY <1>2, <2>1, TransferServes DEF DisplayInv
  <2>2. CASE panel' = panel
    BY <2>2 DEF DisplayInv
  <2>3. QED
    BY <1>1, <2>1, <2>2 DEF Locally, Checking, Faulting, Asking
<1>4. SUFFICES ASSUME "overlap" \notin past'
               PROVE  /\ \A u \in Busy', v \in Busy' : u = v
                      /\ "init" \in drv'["lcd"].bits => Needed \subseteq panel'.setup
                      /\ \A u \in Tasks : Ahead(task'[u], panel', bus')
  BY <1>3 DEF DisplayInv
<1>5. "overlap" \notin past
  BY <1>1, <1>4 DEF Locally, Checking, Transferring, Faulting, Asking
<1>6. /\ \A u \in Busy, v \in Busy : u = v
      /\ "init" \in drv["lcd"].bits => Needed \subseteq panel.setup
      /\ Ahead(task[t], panel, bus)
  BY <1>5 DEF DisplayInv
<1>7. Busy \subseteq {t} /\ Busy' \subseteq {t}
  BY <1>1, <1>2, <1>6 DEF Busy, Steadily
<1>8. ASSUME NEW u \in Tasks PROVE Ahead(task'[u], panel', bus')
  <2>1. CASE u = t
    BY <1>1, <1>5, <2>1, AheadStep
  <2>2. CASE u # t
    <3>1. ~task'[u].busy
      BY <1>7, <2>2 DEF Busy
    <3>2. QED
      BY <3>1, NothingAhead
  <2>3. QED
    BY <2>1, <2>2
<1>9. "init" \in drv'["lcd"].bits => Needed \subseteq panel'.setup
  <2>1. CASE Locally(t)
    <3>1. Step(t) = Commit("init") => Needed \subseteq panel.setup
      BY <1>2, <1>6, <2>1, CommitsLast DEF Locally
    <3>2. QED
      BY <1>3, <1>6, <2>1, <3>1 DEF Locally
  <2>2. CASE SameBits \/ drv' = drv
    BY <1>2, <1>3, <1>6, <2>2 DEF SameBits
  <2>3. QED
    BY <1>1, <2>1, <2>2 DEF Checking, Transferring, Faulting, Asking
<1>10. QED
  BY <1>7, <1>8, <1>9

LEMMA AheadAlike ==
  ASSUME NEW w, NEW v, Alike(w, v), NEW p, NEW at, Ahead(w, p, at)
  PROVE  Ahead(v, p, at)
BY DEF Alike, Ahead

LEMMA DisplayInitially ==
  ASSUME LevelAssumption, BusInit
  PROVE  DisplayInv
<1>1. PICK client \in {RunningDriver, ColdDriver} :
        /\ drv = [d \in BusDrivers |-> IF d = "i2c" THEN RunningDriver ELSE client]
        /\ panel = IF client = RunningDriver THEN ReadyPanel ELSE BlankPanel
  BY DEF BusInit
<1>2. DOMAIN BlankPanel = Parts /\ DOMAIN ReadyPanel = Parts /\ ReadyPanel.setup = Needed
  BY DEF BlankPanel, ReadyPanel, Parts, Needed
<1>3. drv["lcd"] = client
  BY <1>1 DEF BusDrivers
<1>4. "init" \notin ColdDriver.bits
  BY DEF ColdDriver
<1>5. "init" \in drv["lcd"].bits => Needed \subseteq panel.setup
  BY <1>1, <1>2, <1>3, <1>4
<1>6. \A t \in Tasks : ~task[t].busy
  BY IdleMembers DEF BusInit
<1>7. DOMAIN panel = Parts
  BY <1>1, <1>2
<1>8. \A t \in Tasks : Ahead(task[t], panel, bus)
  BY <1>6, NothingAhead
<1>9. QED
  BY <1>5, <1>6, <1>7, <1>8 DEF DisplayInv, Busy

LEMMA DisplayInvNext ==
  ASSUME RegisterAssumption, BusAssumption, BusInv, DisplayInv, [BusNext]_busVars
  PROVE  DisplayInv'
<1>1. CASE \E t \in Tasks : \E call \in BusCalls[t] : Begin(t, call)
  <2>1. PICK t \in Tasks : \E call \in BusCalls[t] : Begin(t, call)
    BY <1>1
  <2>2. PICK call \in BusCalls[t] : Begin(t, call)
    BY <2>1
  <2>3. /\ t \notin Busy /\ DOMAIN task' = Tasks /\ Begun(task[t], task'[t], call)
        /\ \A u \in Tasks \ {t} : Alike(task[u], task'[u])
        /\ drv' = drv /\ bus' = bus /\ panel' = panel
        /\ past' = IF Busy = {} THEN past ELSE past \cup {"overlap"}
    BY <2>2, Begins
  <2>4. Callable(call)
    BY DEF BusAssumption
  <2>5. Prepared(task'[t].todo)
    BY <2>3, <2>4, BegunWork DEF Scripted
  <2>6. Ahead(task'[t], panel, bus)
    BY <2>5, StepDoes DEF Prepared, Ahead
  <2>7. SUFFICES ASSUME "overlap" \notin past'
                 PROVE  /\ \A u \in Busy', v \in Busy' : u = v
                        /\ \A u \in Tasks : Ahead(task'[u], panel, bus)
    BY <2>3 DEF DisplayInv
  <2>8. Busy = {}
    BY <2>3, <2>7
  <2>9. \A u \in Tasks \ {t} : ~task[u].busy /\ task'[u].busy = task[u].busy
    BY <2>3, <2>8 DEF Busy, Alike
  <2>10. Busy' \subseteq {t}
    BY <2>9 DEF Busy
  <2>11. ASSUME NEW u \in Tasks PROVE Ahead(task'[u], panel, bus)
    BY <2>6, <2>9, NothingAhead
  <2>12. QED
    BY <2>10, <2>11
<1>2. CASE \E t \in Tasks : CallStep(t)
  BY <1>2, DisplayStep
<1>3. CASE PassHour
  <2>1. /\ DOMAIN task' = Tasks /\ \A u \in Tasks : Alike(task[u], task'[u])
        /\ drv' = drv /\ bus' = bus /\ panel' = panel /\ past' = past
    BY <1>3, HourPasses
  <2>2. Busy' = Busy
    BY <2>1 DEF Busy, Alike
  <2>3. QED
    BY <2>1, <2>2, AheadAlike DEF DisplayInv
<1>4. CASE \E d \in {"lcd", "rtc"} : Scan(d)
  <2>1. Marked(drv', drv) /\ bus' = bus /\ panel' = panel /\ task' = task /\ past' = past
    BY <1>4, ScanMarks
  <2>2. Busy' = Busy
    BY <2>1 DEF Busy
  <2>3. QED
    BY <2>1, <2>2 DEF Marked, DisplayInv
<1>5. CASE UNCHANGED busVars
  <2>1. drv' = drv /\ bus' = bus /\ panel' = panel /\ task' = task /\ past' = past
    BY <1>5 DEF busVars
  <2>2. Busy' = Busy
    BY <2>1 DEF Busy
  <2>3. QED
    BY <2>1, <2>2 DEF DisplayInv
<1>6. QED
  BY <1>1, <1>2, <1>3, <1>4, <1>5 DEF BusNext

(* A display driver that says it runs has sent its display every command   *)
(* of the setup (hal_lcdInit), whatever failed in between and however the  *)
(* driver was stopped, set off and started again, unless calls overlapped: *)
(* the thread that will set the bit has sent, will send or is sending each *)
(* of them.                                                                *)
THEOREM DisplayIsSetUp == BusSpec => []RunningDisplayIsSetUp
<1>1. BusInit => BusInv /\ DisplayInv
  BY StartUp, DisplayInitially, LevelAssumption
<1>2. BusInv /\ DisplayInv /\ [BusNext]_busVars => BusInv' /\ DisplayInv'
  BY BusInvNext, DisplayInvNext, RegisterAssumption, BusAssumption
<1>3. BusInv /\ DisplayInv => RunningDisplayIsSetUp
  BY DEF DisplayInv, RunningDisplayIsSetUp, Needed
<1>4. QED
  BY <1>1, <1>2, <1>3, PTL DEF BusSpec

-----------------------------------------------------------------------------
(* The state machine of the drivers.  What a control call leaves of the    *)
(* status bits: the display's driver sets its own later.                   *)
Adds(next, table, d, bit) ==
  /\ next[d].bits = table[d].bits \cup {bit} /\ "dead" \notin table[d].bits
  /\ \A e \in BusDrivers \ {d} : next[e].bits = table[e].bits

Effect(next, table, d) ==
  \/ \A e \in BusDrivers : next[e].bits = table[e].bits
  \/ /\ next[d].bits = table[d].bits \ {"start"}
     /\ \A e \in BusDrivers \ {d} : next[e].bits = table[e].bits
  \/ Adds(next, table, d, "init") /\ (d # "i2c" => Carried(table))
  \/ /\ Adds(next, table, d, "start") /\ "init" \in table[d].bits
     /\ d = "lcd" => Carried(table)

(* What the display's driver has found out when it goes on.                *)
Granted(table, bit) ==
  /\ "dead" \notin table["lcd"].bits
  /\ bit = "init" => Carried(table)
  /\ bit = "start" => "init" \in table["lcd"].bits

(* A dead driver refuses to start.                                         *)
LEMMA StartsAlive ==
  ASSUME NEW d \in BusDrivers, NEW table \in Tables(BusDrivers), NEW left \in DriverErrors,
         NEW reply, reply = StartInitialized(table, d, left)
  PROVE  \/ reply.state = "error" /\ \A e \in BusDrivers : reply.table[e].bits = table[e].bits
         \/ /\ reply.state = "running" /\ "init" \in table[d].bits
            /\ Adds(reply.table, table, d, "start")
<1>1. DOMAIN table = BusDrivers
  BY DEF Tables
<1>2. /\ Proper(reply, BusDrivers, d)
      /\ \/ reply.state = "error" /\ Keeps(reply, table)
         \/ /\ reply.state = "running" /\ "init" \in table[d].bits
            /\ Leaves(reply, table, d, table[d].bits \cup {"start"})
  BY StartReply
<1>3. CASE "dead" \in table[d].bits
  <2>1. reply = SetError(table, d, "DEAD")
    BY <1>3 DEF StartInitialized
  <2>2. reply.state = "error"
    BY <2>1 DEF SetError, Reply
  <2>3. QED
    BY <1>1, <1>2, <2>2 DEF Keeps
<1>4. CASE "dead" \notin table[d].bits
  BY <1>1, <1>2, <1>4 DEF Keeps, Leaves, Adds
<1>5. QED
  BY <1>3, <1>4

LEMMA InitsAlive ==
  ASSUME NEW d \in BusDrivers, NEW table \in Tables(BusDrivers),
         NEW reply, reply = Initialize(table, d)
  PROVE  \/ reply.state = "error" /\ \A e \in BusDrivers : reply.table[e].bits = table[e].bits
         \/ reply.state = "initialized" /\ Adds(reply.table, table, d, "init")
<1>1. DOMAIN table = BusDrivers
  BY DEF Tables
<1>2. /\ Proper(reply, BusDrivers, d)
      /\ \/ reply.state = "error" /\ Keeps(reply, table)
         \/ /\ reply.state = "initialized"
            /\ Leaves(reply, table, d, table[d].bits \cup {"init"})
  BY InitReply
<1>3. CASE "dead" \in table[d].bits
  <2>1. reply = SetError(table, d, "DEAD")
    BY <1>3 DEF Initialize
  <2>2. reply.state = "error"
    BY <2>1 DEF SetError, Reply
  <2>3. QED
    BY <1>1, <1>2, <2>2 DEF Keeps
<1>4. CASE "dead" \notin table[d].bits
  BY <1>1, <1>2, <1>4 DEF Keeps, Leaves, Adds
<1>5. QED
  BY <1>3, <1>4

(* A device's driver finds itself alive and the bus running, or refuses.   *)
LEMMA OverLives ==
  ASSUME NEW d \in {"lcd", "rtc"}, NEW table \in Tables(BusDrivers), NEW granted,
         granted = OverBus(table, d), granted.state # "error"
  PROVE  "dead" \notin table[d].bits /\ Carried(table)
<1>1. "i2c" \in BusDrivers
  BY DEF BusDrivers
<1>2. PICK asked : asked = OwnStatus(table, "i2c")
  OBVIOUS
<1>3. CASE "dead" \in table[d].bits
  BY <1>3 DEF OverBus, SetError, Reply
<1>4. CASE "dead" \notin table[d].bits
  <2>1. granted = IF asked.state = "running" THEN Reply(asked.table, "off")
                  ELSE SetError(asked.table, d, "DEPENDENCY")
    BY <1>2, <1>4 DEF OverBus
  <2>2. asked.state = "running"
    BY <2>1 DEF SetError, Reply
  <2>3. QED
    BY <1>1, <1>2, <1>4, <2>2, OwnReply DEF Carried
<1>5. QED
  BY <1>3, <1>4

LEMMA I2cEffect ==
  ASSUME NEW table, Sound(table), NEW c, c.op \in {"INIT", "START"},
         NEW reply, reply = I2cControl(table, c)
  PROVE  Effect(reply.table, table, "i2c")
<1>1. "i2c" \in BusDrivers /\ table \in Tables(BusDrivers) /\ "NO_ERROR" \in DriverErrors
  BY DEF BusDrivers, Sound, DriverErrors
<1>2. CASE c.op = "INIT"
  <2>1. reply = Initialize(table, "i2c")
    BY <1>2, ControlBranch DEF I2cControl
  <2>2. QED
    BY <1>1, <2>1, InitsAlive DEF Effect
<1>3. CASE c.op = "START"
  <2>1. reply = StartInitialized(table, "i2c", "NO_ERROR")
    BY <1>3, ControlBranch DEF I2cControl
  <2>2. QED
    BY <1>1, <2>1, StartsAlive DEF Effect
<1>4. QED
  BY <1>2, <1>3

LEMMA RtcEffect ==
  ASSUME NEW table, Sound(table), NEW c, c.op \in {"INIT", "START"},
         NEW reply, reply = RtcControl(table, c)
  PROVE  Effect(reply.table, table, "rtc")
<1>1. /\ "rtc" \in BusDrivers /\ "i2c" \in BusDrivers /\ table \in Tables(BusDrivers)
      /\ DOMAIN table = BusDrivers
  BY DEF BusDrivers, Sound, Tables
<1>2. PICK granted : granted = OverBus(table, "rtc")
  OBVIOUS
<1>3. Proper(granted, BusDrivers, "rtc") /\ Keeps(granted, table)
  BY <1>1, <1>2, OverReply
<1>4. granted.table \in Tables(BusDrivers) /\ \A e \in BusDrivers : granted.table[e].bits = table[e].bits
  BY <1>1, <1>3 DEF Proper, Keeps
<1>5. CASE c.op = "INIT"
  <2>1. reply = IF granted.state = "error" THEN granted ELSE Initialize(granted.table, "rtc")
    BY <1>2, <1>5, ControlBranch DEF RtcControl
  <2>2. CASE granted.state = "error"
    BY <1>4, <2>1, <2>2 DEF Effect
  <2>3. CASE granted.state # "error"
    <3>1. Carried(table)
      BY <1>1, <1>2, <2>3, OverLives
    <3>2. \/ \A e \in BusDrivers : reply.table[e].bits = granted.table[e].bits
          \/ Adds(reply.table, granted.table, "rtc", "init")
      BY <1>1, <1>4, <2>1, <2>3, InitsAlive
    <3>3. QED
      BY <1>1, <1>4, <3>1, <3>2 DEF Effect, Adds
  <2>4. QED
    BY <2>2, <2>3
<1>6. CASE c.op = "START"
  <2>1. reply = StartInitialized(table, "rtc", table["rtc"].error)
    BY <1>6, ControlBranch DEF RtcControl
  <2>2. table["rtc"].error \in DriverErrors
    BY <1>1 DEF Tables, DriverRecords
  <2>3. QED
    BY <1>1, <2>1, <2>2, StartsAlive DEF Effect
<1>7. QED
  BY <1>5, <1>6

(* The display's driver sets no bit yet, but has seen that it may.         *)
LEMMA LcdEffect ==
  ASSUME NEW table, Sound(table), NEW bit \in {"init", "start"},
         NEW c, c = Plain(Operation(bit)), NEW reply, reply = LcdControl(table, c)
  PROVE  /\ \A e \in BusDrivers : reply.table[e].bits = table[e].bits
         /\ reply.state \in DriverStates /\ reply.state # "dead"
         /\ reply.state # "error" => Granted(table, bit)
<1>1. /\ "lcd" \in BusDrivers /\ table \in Tables(BusDrivers) /\ DOMAIN table = BusDrivers
  BY DEF BusDrivers, Sound, Tables
<1>2. table["lcd"].error \in DriverErrors
  BY <1>1 DEF Tables, DriverRecords
<1>3. CASE bit = "init"
  <2>1. c.op = "INIT"
    BY <1>3 DEF Plain, Operation
  <2>2. reply = OverBus(table, "lcd")
    BY <2>1, ControlBranch DEF LcdControl
  <2>3. Keeps(reply, table) /\ reply.state \in {"off", "error"}
    BY <1>1, <2>2, OverReply
  <2>4. reply.state # "error" => "dead" \notin table["lcd"].bits /\ Carried(table)
    BY <1>1, <2>2, OverLives
  <2>5. QED
    BY <1>1, <1>3, <2>3, <2>4 DEF Keeps, Granted, DriverStates
<1>4. CASE bit = "start"
  <2>1. c.op = "START"
    BY <1>4 DEF Plain, Operation
  <2>2. PICK started : started = StartInitialized(table, "lcd", table["lcd"].error)
    OBVIOUS
  <2>3. reply = IF started.state = "error" THEN started ELSE Reply(table, "initialized")
    BY <2>1, <2>2, ControlBranch DEF LcdControl
  <2>4. \/ started.state = "error" /\ \A e \in BusDrivers : started.table[e].bits = table[e].bits
        \/ /\ started.state = "running" /\ "init" \in table["lcd"].bits
           /\ Adds(started.table, table, "lcd", "start")
    BY <1>1, <1>2, <2>2, StartsAlive
  <2>5. CASE started.state = "error"
    BY <2>3, <2>4, <2>5 DEF DriverStates
  <2>6. CASE started.state # "error"
    BY <1>4, <2>3, <2>4, <2>6 DEF Reply, Adds, Granted, DriverStates
  <2>7. QED
    BY <2>5, <2>6
<1>5. QED
  BY <1>3, <1>4

(* A control call of a script.                                             *)
LEMMA ControlEffect ==
  ASSUME NEW table, Sound(table), NEW d \in BusDrivers, NEW c \in Controls,
         NEW reply, reply = ControlOf(d, table, c)
  PROVE  Effect(reply.table, table, d)
<1>1. BusAnswers(reply, table, d, c)
  BY ControlsStore, ControlAnswers DEF Sound
<1>2. CASE c.op \notin LifeOps
  <2>1. Stored(table[d], c).bits = table[d].bits
    BY <1>2, ControlsStore
  <2>2. QED
    BY <1>1, <1>2, <2>1 DEF BusAnswers, Effect
<1>3. CASE c.op = "STOP"
  BY <1>1, <1>3 DEF BusAnswers, Effect
<1>4. CASE c.op \in {"INIT", "START"} /\ d = "i2c"
  BY <1>4, I2cEffect DEF ControlOf
<1>5. CASE c.op \in {"INIT", "START"} /\ d = "rtc"
  BY <1>5, RtcEffect DEF ControlOf
<1>6. CASE c.op \in {"INIT", "START"} /\ d = "lcd"
  BY <1>1, <1>6 DEF BusAnswers, Effect
<1>7. QED
  BY <1>2, <1>3, <1>4, <1>5, <1>6 DEF LifeOps, BusDrivers

(* A thread about to set a status bit of the display's driver has yet to   *)
(* ask, or may: nobody but the thread itself can take that away.           *)
May(steps, table) ==
  \E bit \in {"init", "start"} :
    /\ steps[Len(steps)] = Commit(bit) /\ Granted(table, bit)
    /\ \A j \in 1 .. Len(steps) - 1 : steps[j].do \in BusOps
    /\ Len(steps) = 1 => Carried(table)

Poised(w, table) ==
  /\ w.busy /\ w.failed = "none"
  /\ \E k \in 1 .. Len(w.todo[1].steps) : w.todo[1].steps[k].do = "commit"
  => Asks(w.todo[1].steps) \/ May(w.todo[1].steps, table)

(* A call that no other one has overlapped is the only one under way.      *)
AloneInv ==
  \A t \in Tasks : task[t].busy /\ task[t].alone =>
    /\ Busy \subseteq {t}
    /\ task[t].ready => Carried(drv)
    /\ Poised(task[t], drv)

LEMMA NotPoised ==
  ASSUME NEW w, NEW table, ~w.busy \/ w.failed # "none"
  PROVE  Poised(w, table)
BY DEF Poised

LEMMA PoisedBits ==
  ASSUME NEW w, NEW v, NEW table, NEW next, Poised(w, table),
         v.busy = w.busy, v.failed = w.failed, v.todo = w.todo,
         \A e \in BusDrivers : next[e].bits = table[e].bits
  PROVE  Poised(v, next)
<1>1. "lcd" \in BusDrivers /\ "i2c" \in BusDrivers
  BY DEF BusDrivers
<1>2. \A bit : Granted(table, bit) => Granted(next, bit)
  BY <1>1 DEF Granted, Carried
<1>3. Carried(table) => Carried(next)
  BY <1>1 DEF Carried
<1>4. QED
  BY <1>2, <1>3 DEF Poised, May

(* What is left after a step of the first function.                        *)
LEMMA Remainder ==
  ASSUME NEW w, NEW v, WorkOK(w), w.busy, GoesOn(w, v), v.busy,
         Len(w.todo[1].steps) # 1
  PROVE  \E n \in Nat : LET s == w.todo[1].steps  r == v.todo[1].steps
         IN  /\ n = Len(s) /\ n > 1 /\ Len(r) = n - 1
             /\ \A i \in 1 .. n - 1 : r[i] = s[i + 1]
<1>0. PICK s : s = w.todo[1].steps
  OBVIOUS
<1>1. Planned(w.todo) /\ FunctionOK(w.todo[1]) /\ Len(w.todo) \in Nat /\ Len(w.todo) >= 1
  BY PlannedHead DEF WorkOK
<1>2. v.todo = Stepped(w.todo)
  BY DEF GoesOn
<1>3. PICK n \in Nat : s \in Seq(Steps) /\ n = Len(s) /\ n > 1
  <2>1. s \in Seq(Steps) /\ Len(s) \in Nat /\ Len(s) >= 1
    BY <1>0, <1>1, PlannedHead DEF FunctionOK, WorkOK
  <2>2. Len(s) > 1
    BY <1>0, <2>1, MoreThanOne, Zenon
  <2>3. QED
    BY <2>1, <2>2
<1>4. v.todo[1].steps = Tail(s)
  <2>1. 1 \in DOMAIN w.todo /\ "steps" \in DOMAIN w.todo[1]
    <3>1. \E S : w.todo \in Seq(S)
      BY <1>1 DEF Planned
    <3>2. DOMAIN w.todo = 1 .. Len(w.todo)
      BY <3>1, LenProperties
    <3>3. PICK m \in Nat : m = Len(w.todo) /\ m >= 1
      BY <1>1
    <3>4. QED
      BY <1>1, <3>2, <3>3 DEF FunctionOK
  <2>2. QED
    BY <1>0, <1>2, <2>1 DEF Stepped
<1>5. PICK r : r = Tail(s)
  OBVIOUS
<1>6. Len(r) = n - 1 /\ \A i \in 1 .. n - 1 : r[i] = s[i + 1]
  <2>1. s # <<>>
    BY <1>3, EmptySeq
  <2>2. QED
    BY <1>3, <1>5, <2>1, TailOf
<1>7. QED
  BY <1>0, <1>3, <1>4, <1>5, <1>6

(* A thread that goes on may set its bit, or will be allowed to.           *)
LEMMA PoisedStays ==
  ASSUME NEW w, NEW v, WorkOK(w), w.busy, w.failed = "none", GoesOn(w, v),
         NEW table, NEW next, Poised(w, table),
         v.busy /\ w.todo[1].driver = "lcd" =>
           \A bit \in {"init", "start"} :
             w.todo[1].steps[1] = Command(Plain(Operation(bit))) => Granted(next, bit),
         w.todo[1].steps[1].do \in BusOps => next = table /\ Carried(table)
  PROVE  Poised(v, next)
<1> DEFINE s == w.todo[1].steps
           r == v.todo[1].steps
<1>1. SUFFICES ASSUME v.busy, NEW k \in 1 .. Len(r), r[k].do = "commit"
               PROVE  May(r, next)
  BY DEF Poised
<1>2. Planned(w.todo) /\ FunctionOK(w.todo[1])
  BY PlannedHead DEF WorkOK
<1>3. Len(s) # 1
  BY <1>1, <1>2, LaterCommits DEF GoesOn
<1>4. PICK n \in Nat : /\ n = Len(s) /\ n > 1 /\ Len(r) = n - 1
                       /\ \A i \in 1 .. n - 1 : r[i] = s[i + 1]
  BY <1>1, <1>3, Remainder
<1> HIDE DEF s, r
<1>5. k + 1 \in 1 .. Len(s) /\ s[k + 1].do = "commit"
  BY <1>1, <1>4
<1>6. Asks(s) \/ May(s, table)
  BY <1>5 DEF Poised, s
<1>7. (n - 1) + 1 = n /\ n - 1 \in 1 .. n - 1 /\ r[n - 1] = s[n]
  BY <1>4
<1>8. CASE Asks(s)
  <2>1. PICK bit \in {"init", "start"} :
          /\ n > 2 /\ s[n] = Commit(bit) /\ s[1] = Command(Plain(Operation(bit)))
          /\ \A j \in 2 .. n - 1 : s[j].do \in BusOps
    BY <1>4, <1>8 DEF Asks
  <2>2. w.todo[1].driver = "lcd"
    BY <1>2, <1>5 DEF FunctionOK, s
  <2>3. Granted(next, bit)
    BY <1>1, <2>1, <2>2 DEF s
  <2>4. \A j \in 1 .. (n - 1) - 1 : r[j].do \in BusOps
    <3>1. SUFFICES ASSUME NEW j \in 1 .. (n - 1) - 1 PROVE r[j].do \in BusOps
      OBVIOUS
    <3>2. j + 1 \in 2 .. n - 1 /\ j \in 1 .. n - 1
      OBVIOUS
    <3>3. QED
      BY <1>4, <2>1, <3>2
  <2>5. Len(r) # 1
    BY <1>4, <2>1
  <2>6. QED
    BY <1>4, <1>7, <2>1, <2>3, <2>4, <2>5 DEF May
<1>9. CASE May(s, table)
  <2>1. PICK bit \in {"init", "start"} :
          /\ s[n] = Commit(bit) /\ Granted(table, bit)
          /\ \A j \in 1 .. n - 1 : s[j].do \in BusOps
    BY <1>4, <1>9 DEF May
  <2>2. 1 \in 1 .. n - 1
    BY <1>4
  <2>3. next = table /\ Carried(table)
    BY <2>1, <2>2 DEF s
  <2>4. \A j \in 1 .. (n - 1) - 1 : r[j].do \in BusOps
    <3>1. SUFFICES ASSUME NEW j \in 1 .. (n - 1) - 1 PROVE r[j].do \in BusOps
      OBVIOUS
    <3>2. j + 1 \in 1 .. n - 1 /\ j \in 1 .. n - 1
      OBVIOUS
    <3>3. QED
      BY <1>4, <2>1, <3>2
  <2>5. QED
    BY <1>4, <1>7, <2>1, <2>3, <2>4 DEF May
<1>10. QED
  BY <1>6, <1>8, <1>9

(* The bit is set by a thread that may.                                    *)
LEMMA CommitsGranted ==
  ASSUME NEW w, WorkOK(w), w.busy, w.failed = "none", NEW bit \in {"init", "start"},
         w.todo[1].steps[1] = Commit(bit), NEW table, Poised(w, table)
  PROVE  Granted(table, bit) /\ Carried(table)
<1>1. /\ FunctionOK(w.todo[1]) /\ Len(w.todo[1].steps) \in Nat /\ Len(w.todo[1].steps) >= 1
  BY PlannedHead DEF WorkOK
<1>2. PICK s, n : s = w.todo[1].steps /\ n = Len(s)
  OBVIOUS
<1>3. s[1] = Commit(bit) /\ s[1].do = "commit" /\ n \in Nat /\ n >= 1
  BY <1>1, <1>2, StepDoes
<1>4. 1 \in 1 .. n
  BY <1>3
<1>5. n = 1
  <2>1. \A k \in 1 .. n : s[k].do = "commit" => k = n
    BY <1>1, <1>2 DEF FunctionOK
  <2>2. QED
    BY <1>3, <1>4, <2>1
<1>6. Asks(s) \/ May(s, table)
  BY <1>2, <1>3, <1>4 DEF Poised
<1>7. ~Asks(s)
  BY <1>2, <1>5 DEF Asks
<1>8. PICK other \in {"init", "start"} :
        s[1] = Commit(other) /\ Granted(table, other) /\ Carried(table)
  BY <1>2, <1>5, <1>6, <1>7 DEF May
<1>9. other = bit
  BY <1>3, <1>8 DEF Commit
<1>10. QED
  BY <1>8, <1>9

(* A control call of the display's driver that a thread goes on after has  *)
(* found the driver alive and the bus running, or initialized.             *)
LEMMA CommandGrants ==
  ASSUME BusInv, NEW t \in Tasks, CallStep(t), task[t].busy, task[t].failed = "none",
         NEW bit \in {"init", "start"}, Step(t) = Command(Plain(Operation(bit))),
         Doing(t).driver = "lcd", task'[t].busy, task'[t].failed = "none"
  PROVE  Granted(drv', bit)
<1>1. Step(t).do = "command" /\ Step(t).control = Plain(Operation(bit))
  BY DEF Command
<1>2. Compute(t)
  BY <1>1 DEF CallStep, EncodeTime, DecodeTime, EditTime, KeepStartupTime, CheckBus, Transfer,
              Fault, SnapshotError, AtStep, BusOps
<1>3. PICK reply : /\ reply = LcdControl(drv, Plain(Operation(bit)))
                   /\ drv' = reply.table /\ task' = [task EXCEPT ![t] = After(task[t], reply)]
  BY <1>1, <1>2 DEF Compute, ControlOf
<1>4. Sound(drv) /\ DOMAIN task = Tasks /\ "lcd" \in BusDrivers /\ "i2c" \in BusDrivers
  BY DEF BusInv, BusDrivers
<1>5. /\ \A e \in BusDrivers : reply.table[e].bits = drv[e].bits
      /\ reply.state # "error" => Granted(drv, bit)
  BY <1>3, <1>4, LcdEffect
<1>6. reply.state # "error"
  <2>1. SUFFICES ASSUME reply.state = "error" PROVE FALSE
    OBVIOUS
  <2>2. task'[t] = After(task[t], reply)
    BY <1>3, <1>4
  <2>3. CASE Head(task[t].todo).kind = "info"
    <3>1. task'[t] = Finished(task[t], "INVALID_STATE")
      BY <2>1, <2>2, <2>3 DEF After
    <3>2. QED
      BY <3>1, FinishedWork
  <2>4. CASE Head(task[t].todo).kind # "info"
    <3>1. task'[t] = Failed(task[t], reply.state)
      BY <2>1, <2>2, <2>4 DEF After
    <3>2. "failed" \in DOMAIN task[t]
      BY DEF BusInv, WorkOK, Members
    <3>3. QED
      BY <2>1, <3>1, <3>2 DEF Failed
  <2>5. QED
    BY <2>3, <2>4
<1>7. QED
  BY <1>3, <1>4, <1>5, <1>6 DEF Granted, Carried

(* Whether others have overlapped a call its own steps do not tell.        *)
LEMMA StaysAlone ==
  ASSUME BusInv, NEW t \in Tasks, CallStep(t), task'[t].busy
  PROVE  task'[t].alone = task[t].alone
<1>1. Steadily(t) /\ (Locally(t) \/ Checking(t) \/ Transferring(t) \/ Faulting(t) \/ Asking(t))
  BY CallSteps
<1>2. DOMAIN task[t] = Members
  BY DEF BusInv, WorkOK
<1>3. CASE task'[t] = [task[t] EXCEPT !.ready = TRUE]
  BY <1>2, <1>3 DEF Members
<1>4. CASE GoesOn(task[t], task'[t]) \/ Fails(task[t], task'[t]) \/ Recovers(task[t], task'[t])
           \/ Ended(task'[t])
  BY <1>4 DEF GoesOn, Fails, Recovers, Ended
<1>5. QED
  BY <1>1, <1>3, <1>4 DEF Locally, Checking, Transferring, Faulting, Asking

(* The steps of the only thread that has a call.                           *)
LEMMA AloneSteps ==
  ASSUME BusInv, NEW t \in Tasks, CallStep(t), Poised(task[t], drv), Busy \subseteq {t},
         task[t].ready => Carried(drv), task'[t].busy
  PROVE  /\ task'[t].ready => Carried(drv')
         /\ Poised(task'[t], drv')
<1>1. Steadily(t) /\ (Locally(t) \/ Checking(t) \/ Transferring(t) \/ Faulting(t) \/ Asking(t))
  BY CallSteps
<1>2. /\ WorkOK(task[t]) /\ task[t].busy /\ Step(t) = task[t].todo[1].steps[1]
      /\ Doing(t) = task[t].todo[1] /\ Planned(task[t].todo)
  BY <1>1, NextStep DEF Steadily
<1>3. CASE Fails(task[t], task'[t])
  BY <1>3, NotPoised DEF Fails
<1>4. CASE Ended(task'[t])
  BY <1>4 DEF Ended
<1>5. CASE Locally(t) /\ GoesOn(task[t], task'[t])
  <2>1. task'[t].failed = "none" /\ ~task'[t].ready
    BY <1>5 DEF GoesOn
  <2>2. task[t].failed = "none" /\ Step(t).do \notin BusOps
    BY <1>5 DEF Locally
  <2>3. \A bit \in {"init", "start"} :
          Doing(t).driver = "lcd" /\ Step(t) = Command(Plain(Operation(bit))) => Granted(drv', bit)
    BY <1>2, <2>1, <2>2, CommandGrants
  <2>4. Poised(task'[t], drv')
    BY <1>2, <1>5, <2>2, <2>3, PoisedStays
  <2>5. QED
    BY <2>1, <2>4
<1>6. CASE Checking(t) /\ task'[t] = [task[t] EXCEPT !.ready = TRUE] /\ Carried(drv')
  <2>1. /\ task'[t].busy = task[t].busy /\ task'[t].failed = task[t].failed
        /\ task'[t].todo = task[t].todo
    BY <1>2, <1>6 DEF WorkOK, Members
  <2>2. \A e \in BusDrivers : drv'[e].bits = drv[e].bits
    BY <1>6 DEF Checking, SameBits
  <2>3. Poised(task'[t], drv')
    BY <2>1, <2>2, PoisedBits
  <2>4. QED
    BY <1>6, <2>3
<1>7. CASE Transferring(t)
  <2>1. GoesOn(task[t], task'[t]) /\ drv' = drv /\ task[t].failed = "none" /\ task[t].ready
        /\ Step(t).do \in BusOps
    BY <1>7 DEF Transferring
  <2>2. ~task'[t].ready
    BY <2>1 DEF GoesOn
  <2>3. \A bit : Command(Plain(Operation(bit))).do \notin BusOps
    BY StepDoes DEF BusOps
  <2>4. \A bit \in {"init", "start"} : Step(t) # Command(Plain(Operation(bit)))
    BY <2>1, <2>3
  <2>5. Poised(task'[t], drv')
    BY <1>2, <2>1, <2>4, PoisedStays
  <2>6. QED
    BY <2>2, <2>5
<1>8. CASE Recovers(task[t], task'[t])
  <2>1. ~task'[t].ready
    BY <1>8 DEF Recovers
  <2>2. CASE task'[t].todo = <<LcdWriteEnd>>
    <3>1. \A k \in 1 .. Len(LcdWriteEnd.steps) : LcdWriteEnd.steps[k].do # "commit"
      BY StepDoes DEF LcdWriteEnd, Function
    <3>2. QED
      BY <2>1, <2>2, <3>1 DEF Poised
  <2>3. CASE Len(task[t].todo) # 1 /\ task'[t].todo = Tail(task[t].todo)
    <3>1. \A k \in 1 .. Len(task'[t].todo[1].steps) : task'[t].todo[1].steps[k].do # "commit"
      BY <1>2, <2>3, LaterCommits
    <3>2. QED
      BY <2>1, <3>1 DEF Poised
  <2>4. QED
    BY <1>8, <2>2, <2>3 DEF Recovers
<1>9. QED
  BY <1>1, <1>3, <1>4, <1>5, <1>6, <1>7, <1>8 DEF Locally, Checking, Faulting, Asking

(* A step of a call leaves the others as they are.                         *)
LEMMA AloneKept ==
  ASSUME BusInv, AloneInv, NEW t \in Tasks, CallStep(t)
  PROVE  AloneInv'
<1>1. Steadily(t)
  BY CallSteps
<1>2. SUFFICES ASSUME NEW x \in Tasks, task'[x].busy, task'[x].alone
               PROVE  /\ Busy' \subseteq {x}
                      /\ task'[x].ready => Carried(drv')
                      /\ Poised(task'[x], drv')
  BY DEF AloneInv
<1>3. CASE x # t
  <2>1. task[x].busy /\ task[x].alone /\ t \in Busy
    BY <1>1, <1>2, <1>3 DEF Steadily, Busy
  <2>2. Busy \subseteq {x}
    BY <2>1 DEF AloneInv
  <2>3. QED
    BY <1>3, <2>1, <2>2
<1>4. CASE x = t
  <2>1. task'[t].alone = task[t].alone
    BY <1>1, <1>2, <1>4, StaysAlone
  <2>2. task[t].busy /\ task[t].alone
    BY <1>1, <1>2, <1>4, <2>1 DEF Steadily
  <2>3. /\ Busy \subseteq {t} /\ Poised(task[t], drv)
        /\ task[t].ready => Carried(drv)
    BY <2>2 DEF AloneInv
  <2>4. Busy' \subseteq {t}
    BY <1>1, <2>3 DEF Busy, Steadily
  <2>5. QED
    BY <1>2, <1>4, <2>3, <2>4, AloneSteps
<1>5. QED
  BY <1>3, <1>4

LEMMA AloneInvNext ==
  ASSUME RegisterAssumption, BusAssumption, BusInv, AloneInv, [BusNext]_busVars
  PROVE  AloneInv'
<1>1. CASE \E t \in Tasks : \E call \in BusCalls[t] : Begin(t, call)
  <2>1. PICK t \in Tasks : \E call \in BusCalls[t] : Begin(t, call)
    BY <1>1
  <2>2. PICK call \in BusCalls[t] : Begin(t, call)
    BY <2>1
  <2>3. /\ t \notin Busy /\ DOMAIN task' = Tasks /\ Begun(task[t], task'[t], call)
        /\ \A u \in Tasks \ {t} : Alike(task[u], task'[u])
    BY <2>2, Begins
  <2>4. Prepared(task'[t].todo)
    <3>1. Callable(call)
      BY DEF BusAssumption
    <3>2. QED
      BY <2>3, <3>1, BegunWork DEF Scripted
  <2>5. /\ task'[t].alone = (Busy = {})
        /\ \A u \in Tasks \ {t} : task[u].busy => ~task'[u].alone
    <3>1. task' = [u \in Tasks |->
            IF u = t
            THEN [IdleTask EXCEPT !.busy = TRUE, !.call = call, !.todo = Script(call),
                    !.alone = (Busy = {}), !.seen = {clock.registers},
                    !.time = IF call.name = "rtcWrite" THEN call.time ELSE @]
            ELSE IF u \in Busy THEN [task[u] EXCEPT !.alone = FALSE] ELSE task[u]]
      BY <2>2 DEF Begin
    <3>2. PICK x, y :
            task'[t] = [IdleTask EXCEPT !.busy = TRUE, !.call = call, !.todo = Script(call),
                          !.alone = (Busy = {}), !.seen = x, !.time = y]
      BY <3>1
    <3>3. task'[t].alone = (Busy = {})
      BY <3>2, IdleMembers DEF Members
    <3>4. ASSUME NEW u \in Tasks \ {t}, task[u].busy PROVE ~task'[u].alone
      <4>1. task'[u] = [task[u] EXCEPT !.alone = FALSE]
        BY <3>1, <3>4 DEF Busy
      <4>2. "alone" \in DOMAIN task[u]
        BY DEF BusInv, WorkOK, Members
      <4>3. QED
        BY <4>1, <4>2
    <3>5. QED
      BY <3>3, <3>4
  <2>6. Poised(task'[t], drv')
    BY <2>4 DEF Prepared, Poised
  <2>7. SUFFICES ASSUME NEW x \in Tasks, task'[x].busy, task'[x].alone
                 PROVE  /\ Busy' \subseteq {x}
                        /\ task'[x].ready => Carried(drv')
                        /\ Poised(task'[x], drv')
    BY DEF AloneInv
  <2>8. x = t
    BY <2>3, <2>5, <2>7 DEF Alike
  <2>9. Busy = {}
    BY <2>5, <2>7, <2>8
  <2>10. Busy' \subseteq {t}
    BY <2>3, <2>9 DEF Busy, Alike
  <2>11. ~task'[t].ready
    BY <2>3 DEF Begun
  <2>12. QED
    BY <2>6, <2>8, <2>10, <2>11
<1>2. CASE \E t \in Tasks : CallStep(t)
  BY <1>2, AloneKept
<1>3. CASE PassHour
  <2>1. /\ DOMAIN task' = Tasks /\ \A u \in Tasks : Alike(task[u], task'[u]) /\ drv' = drv
    BY <1>3, HourPasses
  <2>2. ASSUME NEW u \in Tasks PROVE task'[u].alone = task[u].alone
    <3>1. PICK x : task'[u] = [task[u] EXCEPT !.seen = x]
      BY <1>3 DEF PassHour
    <3>2. QED
      BY <3>1 DEF BusInv, WorkOK, Members
  <2>3. Busy' = Busy
    BY <2>1 DEF Busy, Alike
  <2>4. ASSUME NEW x \in Tasks, task'[x].busy, task'[x].alone
        PROVE  /\ Busy' \subseteq {x}
               /\ task'[x].ready => Carried(drv')
               /\ Poised(task'[x], drv')
    <3>1. task[x].busy /\ task[x].alone
      BY <2>1, <2>2, <2>4 DEF Alike
    <3>2. Busy \subseteq {x} /\ (task[x].ready => Carried(drv)) /\ Poised(task[x], drv)
      BY <3>1 DEF AloneInv
    <3>3. Poised(task'[x], drv')
      BY <2>1, <3>2, PoisedBits DEF Alike
    <3>4. QED
      BY <2>1, <2>3, <3>2, <3>3 DEF Alike
  <2>5. QED
    BY <2>4 DEF AloneInv
<1>4. CASE \E d \in {"lcd", "rtc"} : Scan(d)
  <2>1. Busy = {} /\ task' = task
    BY <1>4 DEF Scan
  <2>2. \A u \in Tasks : ~task'[u].busy
    BY <2>1 DEF Busy
  <2>3. QED
    BY <2>2 DEF AloneInv
<1>5. CASE UNCHANGED busVars
  <2>1. drv' = drv /\ task' = task
    BY <1>5 DEF busVars
  <2>2. QED
    BY <2>1 DEF AloneInv, Busy
<1>6. QED
  BY <1>1, <1>2, <1>3, <1>4, <1>5 DEF BusNext

(* What a step does to the status bits while no call is overlapped.        *)
LEMMA StepsEffect ==
  ASSUME BusInv, AloneInv, NEW t \in Tasks, CallStep(t), task[t].alone
  PROVE  \E d \in BusDrivers : Effect(drv', drv, d)
<1>1. Steadily(t) /\ (Locally(t) \/ Checking(t) \/ Transferring(t) \/ Faulting(t) \/ Asking(t))
  BY CallSteps
<1>2. /\ WorkOK(task[t]) /\ task[t].busy /\ Step(t) = task[t].todo[1].steps[1]
      /\ Step(t) \in Steps /\ Doing(t).driver \in BusDrivers /\ "lcd" \in BusDrivers
      /\ Sound(drv)
  BY <1>1, NextStep DEF Steadily, BusDrivers, BusInv
<1>3. CASE SameBits \/ drv' = drv
  BY <1>2, <1>3 DEF SameBits, Effect
<1>4. CASE Locally(t) /\ Step(t).do = "command"
  <2>1. task[t].failed = "none"
    BY <1>4 DEF Locally
  <2>2. Compute(t)
    BY <1>4, <2>1 DEF CallStep, EncodeTime, DecodeTime, EditTime, KeepStartupTime, CheckBus,
                     Transfer, Fault, SnapshotError, AtStep, BusOps
  <2>3. drv' = ControlOf(Doing(t).driver, drv, Step(t).control).table
    BY <1>4, <2>2 DEF Compute
  <2>4. Step(t).control \in Controls
    BY <1>2, <1>4, StepKinds
  <2>5. QED
    BY <1>2, <2>3, <2>4, ControlEffect
<1>5. ASSUME Locally(t), NEW bit \in {"init", "start"}, Step(t) = Commit(bit), Sets(drv', drv, bit)
      PROVE  Effect(drv', drv, "lcd")
  <2>1. task[t].failed = "none" /\ Poised(task[t], drv)
    BY <1>2, <1>5 DEF Locally, AloneInv
  <2>2. Granted(drv, bit) /\ Carried(drv)
    BY <1>2, <1>5, <2>1, CommitsGranted
  <2>3. QED
    BY <1>5, <2>2 DEF Sets, Granted, Effect, Adds
<1>6. QED
  BY <1>1, <1>2, <1>3, <1>4, <1>5 DEF Locally, Checking, Transferring, Faulting, Asking

(* The drivers by their numbers.                                           *)
BitRow(bits) == [init |-> "init" \in bits, start |-> "start" \in bits, dead |-> "dead" \in bits]

LEMMA BitRows ==
  ASSUME NEW table
  PROVE  /\ BitsOf(table) = [n \in 0 .. 2 |-> BitRow(table[Numbered[n + 1]].bits)]
         /\ \A n \in 0 .. 2 : BitsOf(table)[n] = BitRow(table[Numbered[n + 1]].bits)
BY DEF BitsOf, BitRow

LEMMA Numbers ==
  /\ \A n \in 0 .. 2 : Numbered[n + 1] \in BusDrivers
  /\ \A n \in 0 .. 2, m \in 0 .. 2 : Numbered[n + 1] = Numbered[m + 1] => n = m
  /\ \A d \in BusDrivers : \E n \in 0 .. 2 : Numbered[n + 1] = d
  /\ Numbered[0 + 1] = "i2c" /\ Numbered[1 + 1] = "lcd"
  /\ Table!OnBus = {1, 2}
<1>1. Numbered[1] = "i2c" /\ Numbered[2] = "lcd" /\ Numbered[3] = "rtc"
  BY DEF Numbered
<1>2. \A n \in 0 .. 2 : n = 0 \/ n = 1 \/ n = 2
  OBVIOUS
<1>3. \A n \in 0 .. 2 : [d \in 0 .. 2 |-> <<255, 60, 104>>[d + 1]][n] = <<255, 60, 104>>[n + 1]
  OBVIOUS
<1>4. Table!OnBus = {n \in 0 .. 2 : <<255, 60, 104>>[n + 1] # 255}
  BY <1>3 DEF Table!OnBus, Table!Drivers
<1>5. Table!OnBus = {1, 2}
  BY <1>2, <1>4
<1>6. QED
  BY <1>1, <1>2, <1>5 DEF BusDrivers

(* A driver's bits change, the others' stay.                               *)
LEMMA SameRows ==
  ASSUME NEW table, NEW next, \A d \in BusDrivers : next[d].bits = table[d].bits
  PROVE  BitsOf(next) = BitsOf(table)
<1>1. \A n \in 0 .. 2 : BitRow(next[Numbered[n + 1]].bits) = BitRow(table[Numbered[n + 1]].bits)
  BY Numbers
<1>2. BitsOf(next) = [n \in 0 .. 2 |-> BitRow(table[Numbered[n + 1]].bits)]
  BY <1>1, BitRows
<1>3. QED
  BY <1>2, BitRows

LEMMA OneRow ==
  ASSUME NEW table, NEW next, NEW n \in 0 .. 2, NEW d, d = Numbered[n + 1],
         \A e \in BusDrivers \ {d} : next[e].bits = table[e].bits
  PROVE  BitsOf(next) = [BitsOf(table) EXCEPT ![n] = BitRow(next[d].bits)]
<1>1. PICK row : row = BitRow(next[d].bits)
  OBVIOUS
<1>2. \A m \in 0 .. 2 : BitRow(next[Numbered[m + 1]].bits)
                        = IF m = n THEN row ELSE BitRow(table[Numbered[m + 1]].bits)
  BY <1>1, Numbers
<1>3. BitsOf(next) = [m \in 0 .. 2 |-> IF m = n THEN row ELSE BitRow(table[Numbered[m + 1]].bits)]
  BY <1>2, BitRows
<1>4. [BitsOf(table) EXCEPT ![n] = row]
        = [m \in 0 .. 2 |-> IF m = n THEN row ELSE BitRow(table[Numbered[m + 1]].bits)]
  BY BitRows
<1>5. QED
  BY <1>1, <1>3, <1>4

LEMMA RowReads ==
  ASSUME NEW bits, NEW row, row = BitRow(bits)
  PROVE  /\ row.init <=> "init" \in bits
         /\ row.start <=> "start" \in bits
         /\ row.dead <=> "dead" \in bits
<1>1. PICK a : a = ("init" \in bits)
  OBVIOUS
<1>2. PICK b : b = ("start" \in bits)
  OBVIOUS
<1>3. PICK c : c = ("dead" \in bits)
  OBVIOUS
<1>4. row = [init |-> a, start |-> b, dead |-> c]
  BY <1>1, <1>2, <1>3, Zenon DEF BitRow
<1>5. row.init = a /\ row.start = b /\ row.dead = c
  BY <1>4
<1>6. QED
  BY <1>1, <1>2, <1>3, <1>5, Zenon

LEMMA RowAdds ==
  ASSUME NEW bits
  PROVE  /\ BitRow(bits \cup {"init"}) = [BitRow(bits) EXCEPT !.init = TRUE]
         /\ BitRow(bits \cup {"start"}) = [BitRow(bits) EXCEPT !.start = TRUE]
         /\ BitRow(bits \ {"start"}) = [BitRow(bits) EXCEPT !.start = FALSE]
<1>1. PICK a : a = ("init" \in bits)
  OBVIOUS
<1>2. PICK b : b = ("start" \in bits)
  OBVIOUS
<1>3. PICK c : c = ("dead" \in bits)
  OBVIOUS
<1>4. /\ ("init" \in bits \cup {"init"}) = TRUE /\ ("start" \in bits \cup {"start"}) = TRUE
      /\ ("start" \in bits \ {"start"}) = FALSE
  OBVIOUS
<1>5. /\ ("start" \in bits \cup {"init"}) = b /\ ("dead" \in bits \cup {"init"}) = c
      /\ ("init" \in bits \cup {"start"}) = a /\ ("dead" \in bits \cup {"start"}) = c
      /\ ("init" \in bits \ {"start"}) = a /\ ("dead" \in bits \ {"start"}) = c
  BY <1>1, <1>2, <1>3
<1>6. PICK row : row = [init |-> a, start |-> b, dead |-> c]
  OBVIOUS
<1>7. BitRow(bits) = row
  BY <1>1, <1>2, <1>3, <1>6, Zenon DEF BitRow
<1>8. /\ BitRow(bits \cup {"init"}) = [init |-> TRUE, start |-> b, dead |-> c]
      /\ BitRow(bits \cup {"start"}) = [init |-> a, start |-> TRUE, dead |-> c]
      /\ BitRow(bits \ {"start"}) = [init |-> a, start |-> FALSE, dead |-> c]
  BY <1>4, <1>5, Zenon DEF BitRow
<1>9. ASSUME NEW x
      PROVE  /\ [row EXCEPT !.init = x] = [init |-> x, start |-> b, dead |-> c]
             /\ [row EXCEPT !.start = x] = [init |-> a, start |-> x, dead |-> c]
  BY <1>6
<1>10. /\ [row EXCEPT !.init = TRUE] = [init |-> TRUE, start |-> b, dead |-> c]
       /\ [row EXCEPT !.start = TRUE] = [init |-> a, start |-> TRUE, dead |-> c]
       /\ [row EXCEPT !.start = FALSE] = [init |-> a, start |-> FALSE, dead |-> c]
  BY <1>9, Zenon
<1>11. QED
  BY <1>7, <1>8, <1>10

(* The state machine the startup relies on does the same to the bits.      *)
Follows(next, table) ==
  \/ BitsOf(next) = BitsOf(table)
  \/ \E d \in 0 .. 2, answers \in BOOLEAN :
       BitsOf(next) \in {Table!InitControl(BitsOf(table), d, answers),
                         Table!StartControl(BitsOf(table), d, answers),
                         Table!StopControl(BitsOf(table), d)}

LEMMA BusIsUp ==
  ASSUME NEW table, Sound(table), Carried(table)
  PROVE  Table!BusUp(BitsOf(table))
<1>1. BitsOf(table)[0] = BitRow(table["i2c"].bits)
  BY BitRows, Numbers
<1>2. "init" \in table["i2c"].bits /\ "start" \in table["i2c"].bits /\ "dead" \notin table["i2c"].bits
  BY DEF Sound, Carried
<1>3. PICK row : row = BitsOf(table)[0]
  OBVIOUS
<1>4. row.init /\ row.start /\ ~row.dead
  BY <1>1, <1>2, <1>3, RowReads
<1>5. Table!LifeState(row) = "running"
  BY <1>4, Zenon DEF Table!LifeState
<1>6. QED
  BY <1>3, <1>5 DEF Table!BusUp

LEMMA EffectFollows ==
  ASSUME NEW table, Sound(table), NEW next, NEW d \in BusDrivers, Effect(next, table, d)
  PROVE  Follows(next, table)
<1>1. PICK n \in 0 .. 2 : d = Numbered[n + 1]
  BY Numbers
<1>2. BitsOf(table)[n] = BitRow(table[d].bits)
  BY <1>1, BitRows
<1>3. (d = "i2c" <=> n = 0) /\ (d = "lcd" <=> n = 1)
  BY <1>1, Numbers
<1>4. CASE \A e \in BusDrivers : next[e].bits = table[e].bits
  <2>1. BitsOf(next) = BitsOf(table)
    BY <1>4, SameRows
  <2>2. QED
    BY <2>1 DEF Follows
<1>5. CASE /\ next[d].bits = table[d].bits \ {"start"}
           /\ \A e \in BusDrivers \ {d} : next[e].bits = table[e].bits
  <2>1. BitsOf(next) = [BitsOf(table) EXCEPT ![n] = BitRow(next[d].bits)]
    <3>1. \A e \in BusDrivers \ {d} : next[e].bits = table[e].bits
      BY <1>5
    <3>2. QED
      BY <1>1, <3>1, OneRow
  <2>2. BitRow(next[d].bits) = [BitsOf(table)[n] EXCEPT !.start = FALSE]
    BY <1>2, <1>5, RowAdds
  <2>3. BitsOf(next) = Table!StopControl(BitsOf(table), n)
    BY <2>1, <2>2 DEF Table!StopControl
  <2>4. QED
    BY <2>3 DEF Follows
<1>6. CASE Adds(next, table, d, "init") /\ (d # "i2c" => Carried(table))
  <2>1. BitsOf(next) = [BitsOf(table) EXCEPT ![n] = BitRow(next[d].bits)]
    <3>1. \A e \in BusDrivers \ {d} : next[e].bits = table[e].bits
      BY <1>6 DEF Adds
    <3>2. QED
      BY <1>1, <3>1, OneRow
  <2>2. BitRow(next[d].bits) = [BitsOf(table)[n] EXCEPT !.init = TRUE]
    BY <1>2, <1>6, RowAdds DEF Adds
  <2>3. ~BitsOf(table)[n].dead
    BY <1>2, <1>6, RowReads DEF Adds
  <2>4. n \in Table!OnBus => Table!BusUp(BitsOf(table))
    BY <1>3, <1>6, Numbers, BusIsUp
  <2>5. Table!InitControl(BitsOf(table), n, TRUE) = [BitsOf(table) EXCEPT ![n].init = TRUE]
    BY <2>3, <2>4 DEF Table!InitControl
  <2>6. BitsOf(next) = Table!InitControl(BitsOf(table), n, TRUE)
    BY <2>1, <2>2, <2>5
  <2>7. QED
    BY <2>6 DEF Follows
<1>7. CASE /\ Adds(next, table, d, "start") /\ "init" \in table[d].bits
           /\ d = "lcd" => Carried(table)
  <2>1. BitsOf(next) = [BitsOf(table) EXCEPT ![n] = BitRow(next[d].bits)]
    <3>1. \A e \in BusDrivers \ {d} : next[e].bits = table[e].bits
      BY <1>7 DEF Adds
    <3>2. QED
      BY <1>1, <3>1, OneRow
  <2>2. BitRow(next[d].bits) = [BitsOf(table)[n] EXCEPT !.start = TRUE]
    BY <1>2, <1>7, RowAdds DEF Adds
  <2>3. ~BitsOf(table)[n].dead /\ BitsOf(table)[n].init
    BY <1>2, <1>7, RowReads DEF Adds
  <2>4. n \in {1} => Table!BusUp(BitsOf(table))
    BY <1>3, <1>7, BusIsUp
  <2>5. Table!StartControl(BitsOf(table), n, TRUE) = [BitsOf(table) EXCEPT ![n].start = TRUE]
    BY <2>3, <2>4 DEF Table!StartControl
  <2>6. BitsOf(next) = Table!StartControl(BitsOf(table), n, TRUE)
    BY <2>1, <2>2, <2>5
  <2>7. QED
    BY <2>6 DEF Follows
<1>8. QED
  BY <1>4, <1>5, <1>6, <1>7 DEF Effect

LEMMA StepFollows ==
  ASSUME RegisterAssumption, BusAssumption, BusInv, AloneInv, [BusNext]_busVars,
         Busy # {}, \A t \in Busy : task[t].alone
  PROVE  Follows(drv', drv)
<1>1. CASE drv' = drv
  BY <1>1 DEF Follows
<1>2. ASSUME NEW t \in Tasks, CallStep(t) PROVE Follows(drv', drv)
  <2>1. task[t].alone
    BY <1>2, CallSteps DEF Steadily, Busy
  <2>2. PICK d \in BusDrivers : Effect(drv', drv, d)
    BY <1>2, <2>1, StepsEffect
  <2>3. QED
    BY <2>2, EffectFollows DEF BusInv
<1>3. ASSUME NEW t \in Tasks, NEW call \in BusCalls[t], Begin(t, call) PROVE drv' = drv
  BY <1>3, Begins
<1>4. CASE PassHour
  BY <1>1, <1>4, HourPasses
<1>5. ~Scan("lcd") /\ ~Scan("rtc")
  BY DEF Scan
<1>6. UNCHANGED busVars => drv' = drv
  BY DEF busVars
<1>7. QED
  BY <1>1, <1>2, <1>3, <1>4, <1>5, <1>6 DEF BusNext

(* The drivers of the bus and its devices follow, whatever the calls and   *)
(* the faults, the state machine the startup relies on (hal_init,          *)
(* lcd_AMC2004.c, rtc_ZS042.c): as long as no call overlaps another one a  *)
(* step leaves the status bits as they are or takes them where an          *)
(* initialization, a start or a stop would.  The display's bit is set      *)
(* behind a check that no step of the same call can have outdated.         *)
THEOREM DriversFollowTable == BusSpec => ImplementsDriverTable
<1>1. BusInit => BusInv /\ AloneInv
  <2>1. BusInit => AloneInv
    BY IdleMembers DEF BusInit, AloneInv
  <2>2. QED
    BY <2>1, StartUp, LevelAssumption
<1>2. BusInv /\ AloneInv /\ [BusNext]_busVars => BusInv' /\ AloneInv'
  BY BusInvNext, AloneInvNext, RegisterAssumption, BusAssumption
<1>3. BusInv /\ AloneInv /\ [BusNext]_busVars =>
        [Busy # {} /\ (\A t \in Busy : task[t].alone) =>
           \/ BitsOf(drv') = BitsOf(drv)
           \/ \E d \in 0 .. 2, answers \in BOOLEAN :
                BitsOf(drv') \in {Table!InitControl(BitsOf(drv), d, answers),
                                  Table!StartControl(BitsOf(drv), d, answers),
                                  Table!StopControl(BitsOf(drv), d)}]_busVars
  BY StepFollows, RegisterAssumption, BusAssumption DEF Follows
<1>4. QED
  BY <1>1, <1>2, <1>3, PTL DEF BusSpec, ImplementsDriverTable

-----------------------------------------------------------------------------
(* The types of the devices on the bus and of the calls.                   *)
Bytes == 0 .. 255
Times == [Fields -> Bytes]

(* A thread has ended its call, or goes on with what it has found out.     *)
Finish(w, v, error) ==
  /\ DOMAIN v = Members /\ ~v.busy /\ v.failed = "none" /\ v.kept = "NO_ERROR"
  /\ v.time = w.time /\ v.error = IF w.kept = "NO_ERROR" THEN error ELSE w.kept

Same(w, v) ==
  /\ DOMAIN v = Members /\ v.call = w.call /\ v.kept = w.kept /\ v.error = w.error
  /\ v.time = w.time /\ v.hit = w.hit /\ v.seen = w.seen /\ v.alone = w.alone

LEMMA FinishedKeeps ==
  ASSUME NEW w, NEW error
  PROVE  Finish(w, Finished(w, error), error)
BY DEF Finish, Finished, IdleTask, Members

LEMMA PastFunctionKeeps ==
  ASSUME NEW w, DOMAIN w = Members
  PROVE  Finish(w, PastFunction(w), "NO_ERROR") \/ (Same(w, PastFunction(w)) /\ Len(w.todo) # 1)
<1>1. CASE Len(w.todo) = 1
  BY <1>1, FinishedKeeps DEF PastFunction
<1>2. CASE Len(w.todo) # 1
  <2>1. PastFunction(w) = [w EXCEPT !.todo = Tail(@), !.failed = "none"]
    BY <1>2, Zenon DEF PastFunction
  <2>2. PICK u : u = [w EXCEPT !.todo = Tail(@), !.failed = "none"]
    OBVIOUS
  <2>3. Same(w, u)
    BY <2>2 DEF Same, Members
  <2>4. QED
    BY <1>2, <2>1, <2>2, <2>3
<1>3. QED
  BY <1>1, <1>2

LEMMA PastStepKeeps ==
  ASSUME NEW w, DOMAIN w = Members
  PROVE  Finish(w, PastStep(w), "NO_ERROR") \/ Same(w, PastStep(w))
<1>1. CASE Len(Head(w.todo).steps) = 1
  <2>1. PICK u : u = [w EXCEPT !.ready = FALSE]
    OBVIOUS
  <2>2. PastStep(w) = PastFunction(u)
    BY <1>1, <2>1, Zenon DEF PastStep
  <2>3. DOMAIN u = Members /\ Same(w, u)
    BY <2>1 DEF Same, Members
  <2>4. Finish(u, PastFunction(u), "NO_ERROR") \/ Same(u, PastFunction(u))
    BY <2>3, PastFunctionKeeps
  <2>5. QED
    BY <2>2, <2>3, <2>4 DEF Same, Finish
<1>2. CASE Len(Head(w.todo).steps) # 1
  <2>1. PICK x : x = [w.todo EXCEPT ![1].steps = Tail(@)]
    OBVIOUS
  <2>2. PastStep(w) = [w EXCEPT !.todo = x, !.ready = FALSE]
    BY <1>2, <2>1 DEF PastStep
  <2>3. PICK u : u = [w EXCEPT !.todo = x, !.ready = FALSE]
    OBVIOUS
  <2>4. Same(w, u)
    BY <2>3 DEF Same, Members
  <2>5. QED
    BY <2>2, <2>3, <2>4
<1>3. QED
  BY <1>1, <1>2

LEMMA FailedKeeps ==
  ASSUME NEW w, DOMAIN w = Members, NEW state
  PROVE  Same(w, Failed(w, state)) /\ Failed(w, state).failed = state
BY DEF Failed, Same, Members

LEMMA AfterKeeps ==
  ASSUME NEW w, DOMAIN w = Members, NEW reply
  PROVE  \/ Finish(w, After(w, reply), "INVALID_STATE")
            /\ Head(w.todo).kind = "info" /\ reply.state = "error"
         \/ Finish(w, After(w, reply), "NO_ERROR") /\ After(w, reply) = PastStep(w)
         \/ Same(w, After(w, reply)) /\ After(w, reply) = PastStep(w)
         \/ Same(w, After(w, reply)) /\ After(w, reply) = Failed(w, reply.state)
            /\ reply.state \in {"error", "dead"}
<1>1. CASE Head(w.todo).kind = "info" /\ reply.state = "error"
  BY <1>1, FinishedKeeps DEF After
<1>2. CASE Head(w.todo).kind # "info" /\ reply.state \in {"error", "dead"}
  BY <1>2, FailedKeeps DEF After
<1>3. CASE /\ ~(Head(w.todo).kind = "info" /\ reply.state = "error")
           /\ ~(Head(w.todo).kind # "info" /\ reply.state \in {"error", "dead"})
  <2>1. After(w, reply) = PastStep(w)
    BY <1>3 DEF After
  <2>2. QED
    BY <2>1, PastStepKeeps
<1>4. QED
  BY <1>1, <1>2, <1>3

(* Values and codes fit a byte; a register's value in its range is what    *)
(* its code stands for.                                                    *)
LEMMA CodesAreBytes ==
  ASSUME NEW b \in Bytes
  PROVE  BcdToBin(b) \in Bytes /\ BinToBcd(b) \in Bytes
<1>1. b \div 16 \in 0 .. 15 /\ b % 16 \in 0 .. 15 /\ b \div 10 \in 0 .. 25 /\ b % 10 \in 0 .. 9
  BY DEF Bytes
<1>2. ((b \div 16) * 10) % 256 = (b \div 16) * 10
  BY <1>1
<1>3. ((b \div 10) * 16) % 256 \in 0 .. 240
  <2>1. ASSUME NEW q \in 0 .. 25 PROVE (q * 16) % 256 \in 0 .. 240
    <3>1. CASE q <= 15
      BY <3>1
    <3>2. CASE q > 15
      <4>1. (q * 16) % 256 = q * 16 - 256
        BY <3>2
      <4>2. QED
        BY <3>2, <4>1
    <3>3. QED
      BY <3>1, <3>2
  <2>2. QED
    BY <1>1, <2>1
<1>4. ASSUME NEW x \in 0 .. 240, NEW y \in 0 .. 15 PROVE x + y \in Bytes
  BY DEF Bytes
<1>5. (((b \div 10) * 16) % 256) + (b % 10) \in Bytes
  BY <1>1, <1>3, <1>4
<1>6. (((b \div 16) * 10) % 256) + (b % 16) \in Bytes
  <2>1. (b \div 16) * 10 \in 0 .. 240
    BY <1>1
  <2>2. QED
    BY <1>1, <1>2, <1>4, <2>1
<1>7. QED
  BY <1>5, <1>6 DEF BcdToBin, BinToBcd

LEMMA RegisterFacts ==
  ASSUME RegisterAssumption, NEW i \in Fields
  PROVE  /\ RegisterCount \in Nat /\ RegisterCount >= 1 /\ i \in Nat /\ i <= RegisterCount /\ i >= 1
         /\ Registers[i] \in RegisterNames
         /\ Modulus[Registers[i]] \in {32, 64, 128, 256}
         /\ MinOf[Registers[i]] \in {0, 1} /\ MaxOf[Registers[i]] \in 7 .. 99
         /\ MaxOf[Registers[i]] \in Nat
<1>1. RegisterCount \in Nat /\ RegisterCount > 0
  BY LenProperties DEF RegisterAssumption, RegisterCount
<1>2. i \in Nat /\ i <= RegisterCount /\ i >= 1 /\ RegisterCount >= 1
  BY <1>1 DEF Fields
<1>3. Registers[i] \in RegisterNames
  BY <1>1, ElementOfSeq DEF RegisterAssumption, RegisterCount, Fields
<1>4. ASSUME NEW r \in RegisterNames
      PROVE  Modulus[r] \in {32, 64, 128, 256} /\ MinOf[r] \in {0, 1} /\ MaxOf[r] \in {7, 12, 23, 31, 59, 99}
  <2>1. Modulus[r] \in {32, 64, 128, 256}
    BY DEF RegisterNames, Modulus
  <2>2. MinOf[r] \in {0, 1}
    BY DEF RegisterNames, MinOf
  <2>3. MaxOf[r] \in {7, 12, 23, 31, 59, 99}
    BY DEF RegisterNames, MaxOf
  <2>4. QED
    BY <2>1, <2>2, <2>3
<1>5. {7, 12, 23, 31, 59, 99} \subseteq 7 .. 99 /\ {7, 12, 23, 31, 59, 99} \subseteq Nat
  OBVIOUS
<1>6. QED
  BY <1>1, <1>2, <1>3, <1>4, <1>5

LEMMA CodedTimes ==
  ASSUME RegisterAssumption, NEW time \in Times
  PROVE  Encode(time) \in Times /\ Decode(time) \in Times
<1>1. ASSUME NEW i \in Fields
      PROVE  /\ IF Registers[i] = "hours" THEN BinToBcd(time[i]) % Modulus["hours"] \in Bytes
                 ELSE BinToBcd(time[i] % Modulus[Registers[i]]) \in Bytes
             /\ BcdToBin(time[i] % Modulus[Registers[i]]) \in Bytes
  <2>1. time[i] \in Bytes /\ Modulus[Registers[i]] \in {32, 64, 128, 256}
    BY RegisterFacts DEF Times
  <2>2. ASSUME NEW b \in Bytes, NEW m \in {32, 64, 128, 256} PROVE b % m \in Bytes
    BY DEF Bytes
  <2>3. Modulus["hours"] = 64
    BY DEF Modulus
  <2>4. PICK b \in Bytes, m \in {32, 64, 128, 256} : b = time[i] /\ m = Modulus[Registers[i]]
    BY <2>1
  <2>5. b % m \in Bytes /\ BinToBcd(b) % 64 \in Bytes
    BY <2>2, CodesAreBytes
  <2>6. BinToBcd(b % m) \in Bytes /\ BcdToBin(b % m) \in Bytes
    BY <2>5, CodesAreBytes
  <2>7. QED
    BY <2>3, <2>4, <2>5, <2>6
<1>2. QED
  BY <1>1 DEF Encode, Decode, Times

Clocks == [expect : {"pointer", "data"}, pointer : 1 .. Beyond, registers : Times, latch : Times]

ChipTypes ==
  /\ bus \in [device : {"none", "lcd", "rtc"}, direction : {"R", "W"}]
  /\ DOMAIN panel = Parts /\ panel.expect \in {"control", "command", "data"}
  /\ clock \in Clocks /\ buf \in Times

WorkTyped(w) == {w.kept, w.error} \subseteq DriverErrors /\ w.time \in Times

BusTypes ==
  /\ ChipTypes /\ startup \in Times
  /\ \A t \in Tasks : WorkTyped(task[t])
  /\ past \subseteq {"overlap", "cut"} /\ calls \in 0 .. MaxCalls /\ trouble \in 0 .. MaxTrouble

LEMMA ClockTakesByte ==
  ASSUME RegisterAssumption, NEW c \in Clocks, NEW b \in Bytes
  PROVE  ClockReceives(c, b) \in Clocks
<1>1. RegisterCount \in Nat /\ RegisterCount >= 1
  BY LenProperties DEF RegisterAssumption, RegisterCount
<1>2. c.pointer \in Fields => c.pointer + 1 \in 1 .. Beyond
  BY <1>1 DEF Fields, Beyond
<1>3. PICK q0 \in 1 .. Beyond : q0 = (IF b < RegisterCount THEN b + 1 ELSE Beyond)
  BY <1>1 DEF Bytes, Beyond
<1>4. c.registers \in Times /\ [c.registers EXCEPT ![c.pointer] = b] \in Times
  BY DEF Clocks, Times
<1>5. CASE c.expect = "pointer"
  <2>1. ClockReceives(c, b) =
          [c EXCEPT !.expect = "data", !.pointer = q0]
    BY <1>3, <1>5 DEF ClockReceives
  <2>2. QED
    BY <1>3, <2>1 DEF Clocks
<1>6. CASE c.pointer \in Fields /\ c.expect = "data"
  <2>1. PICK regs \in Times, q \in 1 .. Beyond :
          regs = [c.registers EXCEPT ![c.pointer] = b] /\ q = c.pointer + 1
    BY <1>2, <1>4, <1>6
  <2>2. ClockReceives(c, b) = [c EXCEPT !.registers = regs, !.pointer = q]
    BY <1>6, <2>1 DEF ClockReceives
  <2>3. QED
    BY <2>2 DEF Clocks
<1>7. CASE c.expect # "pointer" /\ ~(c.pointer \in Fields /\ c.expect = "data")
  BY <1>7, Zenon DEF ClockReceives
<1>8. \/ c.expect = "pointer"
      \/ c.pointer \in Fields /\ c.expect = "data"
      \/ c.expect # "pointer" /\ ~(c.pointer \in Fields /\ c.expect = "data")
  OBVIOUS
<1>9. QED
  BY <1>5, <1>6, <1>7, <1>8

LEMMA PanelTypes ==
  ASSUME NEW p, DOMAIN p = Parts, p.expect \in {"control", "command", "data"}, NEW b
  PROVE  LET q == PanelReceives(p, b)
         IN  DOMAIN q = Parts /\ q.expect \in {"control", "command", "data"}
<1>1. CASE p.expect = "control"
  <2>1. PICK x \in {"control", "command", "data"} : PanelReceives(p, b) = [p EXCEPT !.expect = x]
    BY <1>1 DEF PanelReceives
  <2>2. QED
    BY <2>1 DEF Parts
<1>2. CASE p.expect = "command"
  <2>1. PICK n : n = [p EXCEPT !.expect = "control"]
    OBVIOUS
  <2>2. DOMAIN n = Parts /\ n.expect = "control"
    BY <2>1 DEF Parts
  <2>3. PanelReceives(p, b) = Obey(p, b)
    BY <1>2 DEF PanelReceives
  <2>4. \/ Obey(p, b) = [n EXCEPT !.at = 0, !.cells = <<>>]
        \/ Obey(p, b) = [n EXCEPT !.at = b - SETCURSOR]
        \/ Obey(p, b) = [n EXCEPT !.setup = @ \cup {b}]
    <3>1. PICK w : w = Obey(p, b)
      OBVIOUS
    <3>2. w = CASE b = CLEAR      -> [n EXCEPT !.at = 0, !.cells = <<>>]
                [] b >= SETCURSOR -> [n EXCEPT !.at = b - SETCURSOR]
                [] OTHER          -> [n EXCEPT !.setup = @ \cup {b}]
      BY <2>1, <3>1 DEF Obey
    <3>3. QED
      BY <3>1, <3>2
  <2>5. QED
    BY <2>2, <2>3, <2>4 DEF Parts
<1>3. CASE p.expect = "data"
  <2>1. PICK x, y : PanelReceives(p, b) = [p EXCEPT !.cells = x, !.at = y]
    BY <1>3 DEF PanelReceives
  <2>2. QED
    BY <1>3, <2>1 DEF Parts
<1>4. QED
  BY <1>1, <1>2, <1>3

LEMMA BytesTyped ==
  ASSUME BusInv, ChipTypes, NEW t \in Tasks, AtStep(t, {"write", "put"})
  PROVE  ByteOf(t) \in Bytes
<1>1. Step(t) \in Steps /\ Step(t).do \in {"write", "put"}
  BY NextStep DEF AtStep
<1>2. Step(t).do = "write" => Step(t).byte \in Bytes
  BY <1>1, StepKinds DEF Bytes
<1>3. Step(t).do = "put" => Step(t).index \in Fields
  BY <1>1, StepKinds
<1>4. QED
  BY <1>1, <1>2, <1>3 DEF ByteOf, ChipTypes, Times

(* A time the clock may show, and one it shows an hour later.              *)
LEMMA RangedTimes ==
  ASSUME RegisterAssumption, NEW time \in [Fields -> Nat], InRange(time)
  PROVE  time \in Times
<1>1. ASSUME NEW i \in Fields PROVE time[i] \in Bytes
  <2>1. PICK a, b : a = MinOf[Registers[i]] /\ b = MaxOf[Registers[i]]
    OBVIOUS
  <2>2. time[i] \in MinOf[Registers[i]] .. MaxOf[Registers[i]]
    BY DEF InRange
  <2>3. a \in {0, 1} /\ b \in 7 .. 99
    BY <2>1, RegisterFacts
  <2>4. time[i] \in a .. b
    BY <2>1, <2>2
  <2>5. ASSUME NEW x \in {0, 1}, NEW y \in 7 .. 99, NEW v \in Nat, v \in x .. y PROVE v \in Bytes
    BY <2>5 DEF Bytes
  <2>6. QED
    BY <2>3, <2>4, <2>5
<1>2. QED
  BY <1>1 DEF Times

LEMMA HoursTyped ==
  ASSUME NEW time \in Times
  PROVE  HourLater(time) \in Times
<1>1. ASSUME NEW b \in Bytes PROVE (b + 1) % 24 \in Bytes /\ (b % 31) + 1 \in Bytes
  BY DEF Bytes
<1>2. ASSUME NEW i \in Fields
      PROVE  time[i] \in Bytes /\ (time[i] + 1) % 24 \in Bytes /\ (time[i] % 31) + 1 \in Bytes
  <2>1. time[i] \in Bytes
    BY DEF Times
  <2>2. QED
    BY <1>1, <2>1
<1>3. QED
  BY <1>2 DEF HourLater, Times

LEMMA FoundTime ==
  ASSUME RegisterAssumption, BusAssumption, NEW w, w.time \in Times, NEW time \in Uninitialized(w)
  PROVE  time \in Times
<1>1. \A start \in ClockStarts : start \in Times
  BY RangedTimes DEF BusAssumption
<1>2. [i \in Fields |-> 0] \in Times
  BY DEF Times, Bytes
<1>3. QED
  BY <1>1, <1>2 DEF Uninitialized

(* What a thread knows stays of its type.                                  *)
LEMMA MovesTyped ==
  ASSUME NEW u, WorkTyped(u), NEW v, NEW error \in DriverErrors, Finish(u, v, error) \/ Same(u, v)
  PROVE  WorkTyped(v)
BY DEF WorkTyped, Finish, Same, DriverErrors

LEMMA AskedTyped ==
  ASSUME NEW w, DOMAIN w = Members, WorkTyped(w), NEW error \in DriverErrors,
         NEW v, v = AfterError(w, error)
  PROVE  WorkTyped(v)
<1>1. {"NO_ERROR", "DEAD", "INVALID_STATE"} \subseteq DriverErrors
  BY DEF DriverErrors
<1>2. \/ \E x \in DriverErrors : v = Finished(w, x)
      \/ v = PastFunction(w)
      \/ v = [w EXCEPT !.todo = <<LcdWriteEnd>>, !.failed = "none", !.kept = error]
  BY <1>1 DEF AfterError
<1>3. CASE \E x \in DriverErrors : v = Finished(w, x)
  BY <1>3, FinishedKeeps, MovesTyped
<1>4. CASE v = PastFunction(w)
  BY <1>1, <1>4, PastFunctionKeeps, MovesTyped
<1>5. CASE v = [w EXCEPT !.todo = <<LcdWriteEnd>>, !.failed = "none", !.kept = error]
  BY <1>5 DEF WorkTyped, Members
<1>6. QED
  BY <1>2, <1>3, <1>4, <1>5

LEMMA WorkStaysTyped ==
  ASSUME RegisterAssumption, BusAssumption, BusInv, BusTypes, NEW t \in Tasks, CallStep(t)
  PROVE  WorkTyped(task'[t])
<1>1. /\ WorkOK(task[t]) /\ DOMAIN task[t] = Members /\ WorkTyped(task[t]) /\ task[t].time \in Times
      /\ DOMAIN task = Tasks /\ buf \in Times /\ Step(t) \in Steps /\ Doing(t).driver \in BusDrivers
      /\ {"NO_ERROR", "INVALID_STATE"} \subseteq DriverErrors
  <2>1. task[t].busy
    BY CallSteps DEF Steadily
  <2>2. QED
    BY <2>1, NextStep DEF BusInv, WorkOK, BusTypes, ChipTypes, WorkTyped, DriverErrors
<1>2. CASE Compute(t)
  <2>1. PICK reply : task' = [task EXCEPT ![t] = After(task[t], reply)]
    BY <1>2 DEF Compute
  <2>2. QED
    BY <1>1, <2>1, AfterKeeps, MovesTyped
<1>3. ASSUME NEW time \in Times, task' = [task EXCEPT ![t] = PastStep([task[t] EXCEPT !.time = time])]
      PROVE  WorkTyped(task'[t])
  <2>1. PICK u : u = [task[t] EXCEPT !.time = time]
    OBVIOUS
  <2>2. DOMAIN u = Members /\ WorkTyped(u)
    BY <1>1, <2>1 DEF Members, WorkTyped
  <2>3. WorkTyped(PastStep(u))
    BY <1>1, <2>2, PastStepKeeps, MovesTyped
  <2>4. QED
    BY <1>1, <1>3, <2>1, <2>3
<1>4. ASSUME task' = [task EXCEPT ![t] = PastStep(task[t])]
      PROVE  WorkTyped(task'[t])
  <2>1. WorkTyped(PastStep(task[t]))
    BY <1>1, PastStepKeeps, MovesTyped
  <2>2. QED
    BY <1>1, <1>4, <2>1
<1>5. ASSUME task' = [task EXCEPT ![t] = Failed(task[t], "error")]
      PROVE  WorkTyped(task'[t])
  <2>1. WorkTyped(Failed(task[t], "error"))
    BY <1>1, FailedKeeps, MovesTyped
  <2>2. QED
    BY <1>1, <1>5, <2>1
<1>6. CASE EncodeTime(t)
  BY <1>4, <1>5, <1>6 DEF EncodeTime
<1>7. CASE DecodeTime(t)
  BY <1>1, <1>3, <1>7, CodedTimes DEF DecodeTime
<1>8. CASE EditTime(t)
  <2>1. Step(t).field \in Fields /\ Step(t).value \in Bytes
    BY <1>1, <1>8, StepKinds DEF EditTime, AtStep, Bytes
  <2>2. [task[t].time EXCEPT ![Step(t).field] = Step(t).value] \in Times
    BY <1>1, <2>1 DEF Times
  <2>3. PICK time \in Times : time = [task[t].time EXCEPT ![Step(t).field] = Step(t).value]
    BY <2>2
  <2>4. task' = [task EXCEPT ![t] = PastStep([task[t] EXCEPT !.time = time])]
    <3>1. task' = [task EXCEPT ![t] = PastStep([task[t] EXCEPT !.time =
                    [task[t].time EXCEPT ![Step(t).field] = Step(t).value]])]
      BY <1>8 DEF EditTime
    <3>2. QED
      BY <2>3, <3>1
  <2>5. QED
    BY <1>3, <2>4
<1>9. CASE KeepStartupTime(t)
  BY <1>4, <1>9 DEF KeepStartupTime
<1>10. CASE CheckBus(t)
  <2>1. CASE task' = [task EXCEPT ![t].ready = TRUE]
    <3>1. task'[t] = [task[t] EXCEPT !.ready = TRUE]
      BY <1>1, <2>1
    <3>2. QED
      BY <1>1, <3>1 DEF WorkTyped, Members
  <2>2. QED
    BY <1>5, <1>10, <2>1 DEF CheckBus
<1>11. CASE Transfer(t)
  BY <1>4, <1>11 DEF Transfer
<1>12. CASE Fault(t)
  <2>1. PICK u : u = [task[t] EXCEPT !.hit = TRUE] /\ task' = [task EXCEPT ![t] = Failed(u, "error")]
    BY <1>12 DEF Fault, GiveUp
  <2>2. DOMAIN u = Members /\ WorkTyped(u)
    BY <1>1, <2>1 DEF Members, WorkTyped
  <2>3. WorkTyped(Failed(u, "error"))
    BY <1>1, <2>2, FailedKeeps, MovesTyped
  <2>4. QED
    BY <1>1, <2>1, <2>3
<1>13. CASE SnapshotError(t)
  <2>0. PICK error :
          /\ error = drv[Doing(t).driver].error
          /\ \/ task' = [task EXCEPT ![t] = AfterError(task[t], error)]
             \/ \E time \in Uninitialized(task[t]) :
                  task' = [task EXCEPT ![t] = AfterError([task[t] EXCEPT !.time = time], error)]
    BY <1>13 DEF SnapshotError
  <2>1. PICK u :
          /\ u = task[t] \/ \E time \in Times : u = [task[t] EXCEPT !.time = time]
          /\ task' = [task EXCEPT ![t] = AfterError(u, error)]
    <3>1. CASE task' = [task EXCEPT ![t] = AfterError(task[t], error)]
      BY <1>1, <3>1
    <3>2. CASE \E time \in Uninitialized(task[t]) :
                 task' = [task EXCEPT ![t] = AfterError([task[t] EXCEPT !.time = time], error)]
      <4>1. PICK time \in Uninitialized(task[t]) :
              task' = [task EXCEPT ![t] = AfterError([task[t] EXCEPT !.time = time], error)]
        BY <3>2
      <4>2. time \in Times
        BY <1>1, FoundTime
      <4>3. PICK u : u = [task[t] EXCEPT !.time = time]
        OBVIOUS
      <4>4. QED
        BY <4>1, <4>2, <4>3
    <3>3. QED
      BY <2>0, <3>1, <3>2
  <2>2. error \in DriverErrors
    BY <1>1, <2>0 DEF BusInv, Sound, Tables, DriverRecords
  <2>3. DOMAIN u = Members /\ WorkTyped(u)
    BY <1>1, <2>1 DEF Members, WorkTyped
  <2>4. WorkTyped(AfterError(u, error))
    BY <2>2, <2>3, AskedTyped
  <2>5. QED
    BY <1>1, <2>1, <2>4
<1>14. QED
  BY <1>2, <1>6, <1>7, <1>8, <1>9, <1>10, <1>11, <1>12, <1>13 DEF CallStep


(* What is on the bus stays of its type.                                   *)
LEMMA SendsBytes ==
  ASSUME BusInv, ChipTypes, NEW t \in Tasks, AtStep(t, {"write", "put"})
  PROVE  BytesOnTheirWay(t) \subseteq Bytes
BY BytesTyped DEF BytesOnTheirWay

LEMMA AddressTyped ==
  ASSUME ChipTypes, NEW t \in Tasks, Address(t), Step(t) \in Steps
  PROVE  ChipTypes'
<1>1. Step(t).do = "start" /\ Step(t).device \in {"lcd", "rtc"} /\ Step(t).direction \in {"R", "W"}
  BY StepKinds DEF Address
<1>2. bus' \in [device : {"none", "lcd", "rtc"}, direction : {"R", "W"}]
  BY <1>1 DEF Address
<1>3. DOMAIN panel' = Parts /\ panel'.expect \in {"control", "command", "data"}
  BY <1>1 DEF Address, ChipTypes, Parts
<1>4. clock' \in Clocks
  <2>1. clock \in Clocks
    BY DEF ChipTypes
  <2>2. [clock EXCEPT !.expect = "pointer"] \in Clocks /\ [clock EXCEPT !.latch = clock.registers] \in Clocks
    BY <2>1 DEF Clocks
  <2>3. clock' \in {clock, [clock EXCEPT !.expect = "pointer"], [clock EXCEPT !.latch = clock.registers]}
    BY DEF Address
  <2>4. QED
    BY <2>1, <2>2, <2>3
<1>5. buf' = buf
  BY DEF Address
<1>6. QED
  BY <1>2, <1>3, <1>4, <1>5 DEF ChipTypes

LEMMA ReceiveTyped ==
  ASSUME RegisterAssumption, ChipTypes, NEW t \in Tasks, ReceiveByte(t), Step(t) \in Steps
  PROVE  ChipTypes'
<1>1. Step(t).index \in Fields /\ clock \in Clocks /\ buf \in Times
  BY StepKinds DEF ReceiveByte, ChipTypes
<1>2. RegisterCount \in Nat /\ RegisterCount >= 1
  BY LenProperties DEF RegisterAssumption, RegisterCount
<1>3. PICK b \in Bytes :
        buf' = [buf EXCEPT ![Step(t).index] = b]
  <2>1. PICK b : /\ b = (IF clock.pointer \in Fields THEN clock.latch[clock.pointer] ELSE 0)
                 /\ buf' = [buf EXCEPT ![Step(t).index] = b]
    BY DEF ReceiveByte
  <2>2. b \in Bytes
    BY <1>1, <2>1 DEF Clocks, Times, Bytes
  <2>3. QED
    BY <2>1, <2>2
<1>4. buf' \in Times
  BY <1>1, <1>3 DEF Times
<1>5. clock' \in Clocks
  <2>1. PICK q : /\ q = (IF clock.pointer \in Fields THEN clock.pointer + 1 ELSE clock.pointer)
                 /\ clock' = [clock EXCEPT !.pointer = q]
    BY DEF ReceiveByte
  <2>2. q \in 1 .. Beyond
    BY <1>1, <1>2, <2>1 DEF Clocks, Fields, Beyond
  <2>3. QED
    BY <1>1, <2>1, <2>2 DEF Clocks
<1>6. QED
  BY <1>4, <1>5 DEF ChipTypes, ReceiveByte

LEMMA ChipsStayTyped ==
  ASSUME RegisterAssumption, BusInv, BusTypes, NEW t \in Tasks, CallStep(t)
  PROVE  ChipTypes' /\ startup' \in Times /\ past' \subseteq {"overlap", "cut"}
<1>1. /\ ChipTypes /\ startup \in Times /\ past \subseteq {"overlap", "cut"}
      /\ Step(t) \in Steps /\ task[t].time \in Times
      /\ FreeBus \in [device : {"none", "lcd", "rtc"}, direction : {"R", "W"}]
  <2>1. task[t].busy
    BY CallSteps DEF Steadily
  <2>2. QED
    BY <2>1, NextStep DEF BusTypes, FreeBus, WorkTyped
<1>2. CASE Compute(t)
  <2>1. /\ panel' = panel /\ clock' = clock /\ buf' = buf /\ startup' = startup
        /\ bus' \in {bus, FreeBus} /\ past' \in {past, past \cup {"cut"}}
    BY <1>2 DEF Compute
  <2>2. QED
    BY <1>1, <2>1 DEF ChipTypes
<1>3. CASE EncodeTime(t)
  <2>1. /\ panel' = panel /\ clock' = clock /\ bus' = bus /\ startup' = startup /\ past' = past
        /\ buf' \in {buf, Encode(task[t].time)}
    BY <1>3 DEF EncodeTime, chips
  <2>2. Encode(task[t].time) \in Times
    BY <1>1, CodedTimes
  <2>3. QED
    BY <1>1, <2>1, <2>2 DEF ChipTypes
<1>4. CASE DecodeTime(t) \/ EditTime(t) \/ KeepStartupTime(t) \/ CheckBus(t) \/ SnapshotError(t)
  <2>1. /\ panel' = panel /\ clock' = clock /\ bus' = bus /\ buf' = buf /\ past' = past
        /\ startup' \in {startup, task[t].time}
    BY <1>4 DEF DecodeTime, EditTime, KeepStartupTime, CheckBus, SnapshotError, chips
  <2>2. QED
    BY <1>1, <2>1 DEF ChipTypes
<1>5. CASE Transfer(t)
  <2>1. startup' = startup /\ past' = past
    BY <1>5 DEF Transfer
  <2>2. CASE Address(t)
    BY <1>1, <2>1, <2>2, AddressTyped
  <2>3. CASE SendByte(t)
    <3>1. AtStep(t, {"write", "put"})
      BY <1>5, <2>3 DEF Transfer, SendByte, AtStep
    <3>2. PICK b \in BytesOnTheirWay(t) :
            /\ bus.device = "lcd" => panel' = PanelReceives(panel, b) /\ clock' = clock
            /\ bus.device # "lcd" => clock' = ClockReceives(clock, b) /\ panel' = panel
            /\ bus' = bus /\ buf' = buf
      BY <2>3 DEF SendByte
    <3>3. b \in Bytes
      BY <1>1, <3>1, SendsBytes
    <3>4. clock' \in Clocks
      BY <1>1, <3>2, <3>3, ClockTakesByte DEF ChipTypes
    <3>5. DOMAIN panel' = Parts /\ panel'.expect \in {"control", "command", "data"}
      <4>1. LET q == PanelReceives(panel, b)
            IN  DOMAIN q = Parts /\ q.expect \in {"control", "command", "data"}
        BY <1>1, PanelTypes DEF ChipTypes
      <4>2. QED
        BY <1>1, <3>2, <4>1 DEF ChipTypes
    <3>6. QED
      BY <1>1, <2>1, <3>2, <3>4, <3>5 DEF ChipTypes
  <2>4. CASE ReceiveByte(t)
    BY <1>1, <2>1, <2>4, ReceiveTyped
  <2>5. CASE Release(t)
    BY <1>1, <2>1, <2>5 DEF Release, ChipTypes
  <2>6. QED
    BY <1>5, <2>2, <2>3, <2>4, <2>5 DEF Transfer
<1>6. CASE Fault(t)
  BY <1>1, <1>6 DEF Fault, GiveUp, ChipTypes
<1>7. QED
  BY <1>2, <1>3, <1>4, <1>5, <1>6 DEF CallStep

LEMMA BusTypesInitially ==
  ASSUME RegisterAssumption, BusAssumption, BusInit
  PROVE  BusTypes
<1>1. PICK time \in ClockStarts : clock = Clock(Encode(time))
  BY DEF BusInit
<1>2. Encode(time) \in Times
  <2>1. time \in Times
    BY RangedTimes DEF BusAssumption
  <2>2. QED
    BY <2>1, CodedTimes
<1>3. RegisterCount \in Nat /\ RegisterCount >= 1
  BY LenProperties DEF RegisterAssumption, RegisterCount
<1>4. clock \in Clocks
  BY <1>1, <1>2, <1>3 DEF Clock, Clocks, Beyond
<1>5. [i \in Fields |-> 0] \in Times
  BY DEF Times, Bytes
<1>6. bus \in [device : {"none", "lcd", "rtc"}, direction : {"R", "W"}]
  BY DEF BusInit, FreeBus
<1>7. DOMAIN panel = Parts /\ panel.expect \in {"control", "command", "data"}
  <2>1. panel \in {ReadyPanel, BlankPanel}
    BY DEF BusInit
  <2>2. QED
    BY <2>1 DEF ReadyPanel, BlankPanel, Parts
<1>8. \A t \in Tasks : WorkTyped(task[t])
  BY <1>5 DEF BusInit, IdleTask, WorkTyped, DriverErrors
<1>9. QED
  BY <1>4, <1>5, <1>6, <1>7, <1>8 DEF BusInit, BusTypes, ChipTypes, BusAssumption

LEMMA BegunTyped ==
  ASSUME RegisterAssumption, BusAssumption, BusInv, BusTypes,
         NEW t \in Tasks, NEW call \in BusCalls[t], Begin(t, call)
  PROVE  \A u \in Tasks : WorkTyped(task'[u])
<1>1. [i \in Fields |-> 0] \in Times
  BY DEF Times, Bytes
<1>2. call.name = "rtcWrite" => call.time \in Times
  BY DEF BusAssumption, Callable, Times, Bytes
<1>3. task' = [u \in Tasks |->
        IF u = t
        THEN [IdleTask EXCEPT !.busy = TRUE, !.call = call, !.todo = Script(call),
                !.alone = (Busy = {}), !.seen = {clock.registers},
                !.time = IF call.name = "rtcWrite" THEN call.time ELSE @]
        ELSE IF u \in Busy THEN [task[u] EXCEPT !.alone = FALSE] ELSE task[u]]
  BY DEF Begin
<1>4. WorkTyped(task'[t])
  <2>1. PICK x, y, z, s :
          /\ task'[t] = [IdleTask EXCEPT !.busy = TRUE, !.call = call, !.todo = s,
                          !.alone = x, !.seen = y, !.time = z]
          /\ z = IF call.name = "rtcWrite" THEN call.time ELSE IdleTask.time
    BY <1>3
  <2>2. z \in Times
    BY <1>1, <1>2, <2>1 DEF IdleTask
  <2>3. QED
    BY <2>1, <2>2 DEF IdleTask, WorkTyped, DriverErrors
<1>5. ASSUME NEW u \in Tasks \ {t} PROVE WorkTyped(task'[u])
  <2>1. task'[u] = [task[u] EXCEPT !.alone = FALSE] \/ task'[u] = task[u]
    BY <1>3
  <2>2. DOMAIN task[u] = Members /\ WorkTyped(task[u])
    BY DEF BusInv, WorkOK, BusTypes
  <2>3. QED
    BY <2>1, <2>2 DEF WorkTyped, Members
<1>6. QED
  BY <1>4, <1>5

LEMMA HourTyped ==
  ASSUME RegisterAssumption, BusAssumption, BusInv, BusTypes, PassHour
  PROVE  BusTypes'
<1>1. clock \in Clocks /\ clock.registers \in Times
  BY DEF BusTypes, ChipTypes, Clocks
<1>2. PICK regs : regs = Encode(HourLater(Decode(clock.registers)))
                  /\ clock' = [clock EXCEPT !.registers = regs]
  BY DEF PassHour
<1>3. regs \in Times
  BY <1>1, <1>2, CodedTimes, HoursTyped
<1>4. clock' \in Clocks
  BY <1>1, <1>2, <1>3 DEF Clocks
<1>5. ASSUME NEW u \in Tasks PROVE WorkTyped(task'[u])
  <2>1. PICK x : task'[u] = [task[u] EXCEPT !.seen = x]
    BY DEF PassHour
  <2>2. DOMAIN task[u] = Members /\ WorkTyped(task[u])
    BY DEF BusInv, WorkOK, BusTypes
  <2>3. QED
    BY <2>1, <2>2 DEF WorkTyped, Members
<1>6. trouble \in 0 .. MaxTrouble /\ trouble < MaxTrouble /\ trouble' = trouble + 1 /\ MaxTrouble \in Nat
  BY DEF PassHour, BusTypes, BusAssumption
<1>7. trouble' \in 0 .. MaxTrouble
  BY <1>6
<1>8. QED
  BY <1>4, <1>5, <1>7 DEF PassHour, BusTypes, ChipTypes

LEMMA BusTypesNext ==
  ASSUME RegisterAssumption, BusAssumption, BusInv, BusTypes, [BusNext]_busVars
  PROVE  BusTypes'
<1>1. MaxCalls \in Nat /\ MaxTrouble \in Nat /\ calls \in 0 .. MaxCalls /\ trouble \in 0 .. MaxTrouble
  BY DEF BusAssumption, BusTypes
<1>2. CASE \E t \in Tasks : \E call \in BusCalls[t] : Begin(t, call)
  <2>1. PICK t \in Tasks : \E call \in BusCalls[t] : Begin(t, call)
    BY <1>2
  <2>2. PICK call \in BusCalls[t] : Begin(t, call)
    BY <2>1
  <2>3. \A u \in Tasks : WorkTyped(task'[u])
    BY <2>2, BegunTyped
  <2>4. /\ calls < MaxCalls /\ calls' = calls + 1
        /\ trouble' = trouble \/ (trouble < MaxTrouble /\ trouble' = trouble + 1)
        /\ past' \in {past, past \cup {"overlap"}} /\ chips' = chips /\ buf' = buf /\ startup' = startup
    BY <2>2 DEF Begin
  <2>5. calls' \in 0 .. MaxCalls /\ trouble' \in 0 .. MaxTrouble
    BY <1>1, <2>4
  <2>6. QED
    BY <2>3, <2>4, <2>5 DEF BusTypes, ChipTypes, chips
<1>3. CASE \E t \in Tasks : CallStep(t)
  <2>1. PICK t \in Tasks : CallStep(t)
    BY <1>3
  <2>2. ChipTypes' /\ startup' \in Times /\ past' \subseteq {"overlap", "cut"}
    BY <2>1, ChipsStayTyped
  <2>3. \A u \in Tasks : WorkTyped(task'[u])
    <3>1. \A u \in Tasks \ {t} : task'[u] = task[u]
      BY <2>1, CallSteps DEF Steadily
    <3>2. QED
      BY <2>1, <3>1, WorkStaysTyped DEF BusTypes
  <2>4. calls' = calls /\ (trouble' = trouble \/ (trouble < MaxTrouble /\ trouble' = trouble + 1))
    BY <2>1 DEF CallStep, Compute, EncodeTime, DecodeTime, EditTime, KeepStartupTime, CheckBus,
                Transfer, Fault, SnapshotError
  <2>5. trouble' \in 0 .. MaxTrouble
    BY <1>1, <2>4
  <2>6. QED
    BY <1>1, <2>2, <2>3, <2>4, <2>5 DEF BusTypes
<1>4. CASE PassHour
  BY <1>4, HourTyped
<1>5. CASE \E d \in {"lcd", "rtc"} : Scan(d)
  <2>1. /\ calls < MaxCalls /\ calls' = calls + 1 /\ trouble < MaxTrouble /\ trouble' = trouble + 1
        /\ chips' = chips /\ buf' = buf /\ startup' = startup /\ task' = task /\ past' = past
    BY <1>5 DEF Scan
  <2>2. calls' \in 0 .. MaxCalls /\ trouble' \in 0 .. MaxTrouble
    BY <1>1, <2>1
  <2>3. QED
    BY <2>1, <2>2 DEF BusTypes, ChipTypes, chips
<1>6. CASE UNCHANGED busVars
  BY <1>6 DEF busVars, chips, BusTypes, ChipTypes
<1>7. QED
  BY <1>2, <1>3, <1>4, <1>5, <1>6 DEF BusNext

LEMMA TypesAreOK ==
  ASSUME BusInv, BusTypes
  PROVE  BusTypeOK
<1>1. Members = DOMAIN IdleTask
  BY IdleMembers
<1>2. drv \in [BusDrivers -> DriverRecords]
  BY DEF BusInv, Sound, Tables
<1>3. \A t \in Tasks :
        /\ DOMAIN task[t] = DOMAIN IdleTask /\ task[t].failed \in {"none", "error", "dead"}
        /\ {task[t].kept, task[t].error} \subseteq DriverErrors
        /\ task[t].time \in [Fields -> 0 .. 255]
  BY <1>1 DEF BusInv, WorkOK, BusTypes, WorkTyped, Times, Bytes
<1>4. QED
  BY <1>2, <1>3 DEF BusTypes, ChipTypes, Clocks, Times, Bytes, BusTypeOK

(* The place of every thread in its call, the devices' registers and the   *)
(* drivers' status keep their types.                                       *)
LEMMA BusTypesHold == BusSpec => []BusTypeOK
<1>1. BusInit => BusInv /\ BusTypes
  BY LevelAssumption, RegisterAssumption, BusAssumption, StartUp, BusTypesInitially
<1>2. BusInv /\ BusTypes /\ [BusNext]_busVars => (BusInv /\ BusTypes)'
  BY RegisterAssumption, BusAssumption, BusInvNext, BusTypesNext
<1>3. BusInv /\ BusTypes => BusTypeOK
  BY TypesAreOK
<1>4. QED
  BY <1>1, <1>2, <1>3, PTL DEF BusSpec

-----------------------------------------------------------------------------
(* The composition: what the parts guarantee they guarantee together,      *)
(* since no step of one touches the state of another.                      *)
LEMMA PartsTogether ==
  DeviceSpec => /\ BusSpec /\ SignalSpec /\ ClockSpec
                /\ ConsoleSpec /\ TextSpec /\ ControlSpec
<1>1. DeviceInit => /\ BusInit /\ SignalInit /\ ClockInit
                     /\ ConsoleInit /\ TextInit /\ ControlInit
  BY DEF DeviceInit
<1>2. [DeviceNext]_deviceVars =>
        /\ [BusNext]_busVars /\ [SignalNext]_signalVars /\ [ClockNext]_clockVars
        /\ [ConsoleNext]_consoleVars /\ [TextNext]_textVars /\ [ControlNext]_controlVars
  BY DEF DeviceNext, deviceVars
<1>3. QED
  BY <1>1, <1>2, PTL DEF DeviceSpec, BusSpec, SignalSpec, ClockSpec, ConsoleSpec, TextSpec,
                      ControlSpec

(* Over any calls of any threads a driver that says it runs is ready to,   *)
(* on the bus, the pins, the timers and the host, and one that answers an  *)
(* error has left a reason.                                                *)
THEOREM StatusStaysTrue == DeviceSpec => []StatusIsTrue
<1>1. /\ BusSpec => []RunningDisplayIsSetUp
      /\ SignalSpec => []RunningPinsAreConfigured
      /\ ClockSpec => []RunningTimerCounts
      /\ ControlSpec => []RunningDriverIsAwake
      /\ ControlSpec => []FailureHasReason
  BY DisplayIsSetUp, PinsConfigured, TimerCounts, RunningIsAwake, FailuresHaveReasons,
     LevelAssumption
<1>2. ASSUME RunningDisplayIsSetUp, RunningPinsAreConfigured, RunningTimerCounts,
             RunningDriverIsAwake, FailureHasReason
      PROVE  StatusIsTrue
  BY <1>2 DEF StatusIsTrue
<1>3. QED
  BY <1>1, <1>2, PartsTogether, PTL

(* Every driver's state keeps its type, for every number of threads, calls *)
(* and faults and every size of a buffer.                                  *)
THEOREM DeviceTypesCorrect == DeviceSpec => []DeviceTypeOK
<1>1. BusTypeOK /\ SignalTypeOK /\ ClockTypeOK /\ ConsoleTypeOK /\ TextTypeOK /\ ControlTypeOK
        => DeviceTypeOK
  BY DEF DeviceTypeOK
<1>2. QED
  BY <1>1, PartsTogether, BusTypesHold, SignalTypesHold, ClockTypesHold, ConsoleTypesHold,
     TextTypesHold, ControlTypesHold, PTL

(* What is typed reaches the reader and what is printed the screen, once   *)
(* and in order, and a text is taken for what it says.                     *)
THEOREM TextAlwaysGoesThrough == DeviceSpec => []TextGoesThrough
<1>1. (InputIsTyped /\ OutputIsPrinted) /\ TextIsUnderstood => TextGoesThrough
  BY DEF TextGoesThrough
<1>2. QED
  BY <1>1, PartsTogether, ConsoleIsFaithful, TextIsTakenRight, PTL
=============================================================================
