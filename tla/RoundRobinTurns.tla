-------------------------- MODULE RoundRobinTurns --------------------------
(***************************************************************************)
(* The kernel with a memory of each thread's turn: what the round-robin    *)
(* policy has dispatched since the thread last ran or was last admitted.   *)
(* The two auxiliary variables are read by the properties only.            *)
(***************************************************************************)
EXTENDS Kernel

VARIABLES
  turns,   \* turns[t][u]: dispatches of u in t's current turn (2 means many)
  steady   \* steady[t]: threads runnable ever since t was last dispatched

turnVars == <<turns, steady>>
roundVars  == <<vars, turns, steady>>

NoTurns == [u \in Threads |-> 0]

TurnsInit ==
  /\ Init
  /\ turns = [t \in Threads |-> NoTurns]
  /\ steady = [t \in Threads |-> {}]

(* Dispatching t ends its turn and adds t to the turn of everyone else. *)
RecordDispatch(t) ==
  /\ turns' = [w \in Threads |->
       IF w = t THEN NoTurns
       ELSE [turns[w] EXCEPT ![t] = IF turns[w][t] = 0 THEN 1 ELSE 2]]
  /\ steady' = [steady EXCEPT ![t] = {u \in Threads : Runnable(u)}]

(* Any other step may admit threads, whose turn starts, or exclude them. *)
RecordAdmission ==
  /\ turns' = [w \in Threads |->
       IF Runnable(w)' /\ ~Runnable(w) THEN NoTurns ELSE turns[w]]
  /\ steady' = [w \in Threads |->
       IF Runnable(w)' THEN {u \in steady[w] : Runnable(u)'} ELSE {}]

OtherStep ==
  \/ SchedulerStart
  \/ TimerCompare
  \/ HaltOutgoing
  \/ SearchForever
  \/ \E c \in Threads : ThreadStep(c)

TurnsNext ==
  \/ \E t \in Threads : Dispatch(t) /\ RecordDispatch(t)
  \/ OtherStep /\ RecordAdmission

TurnsSpec == TurnsInit /\ [][TurnsNext]_roundVars

TurnsTypeOK ==
  /\ TypeOK
  /\ turns \in [Threads -> [Threads -> 0 .. 2]]
  /\ steady \in [Threads -> SUBSET Threads]

-----------------------------------------------------------------------------
(* No thread is overtaken: while a thread is admitted and waits for the    *)
(* CPU, tm_schedulerRR dispatches every other thread at most once, however *)
(* threads are started, stopped and admitted meanwhile.                    *)
NoOvertaking ==
  \A t, u \in Threads : Runnable(t) => turns[t][u] <= 1

(* "As thread zero, returning here means one complete round-robin turn     *)
(* elapsed" (system.c), for every thread: when a thread is dispatched      *)
(* again, all threads admitted since its last dispatch have run once.      *)
CompleteTurn ==
  [][\A t \in Threads : Dispatch(t) =>
        \A u \in steady[t] \ {t} : turns[t][u] = 1]_roundVars

(* Position of the round-robin index in each waiting thread's turn: the    *)
(* threads dispatched are those between the thread and the index.          *)
PassedAreBehind ==
  \A t, u \in Threads :
    Runnable(t) /\ turns[t][u] # 0 =>
      /\ t # current
      /\ u # t
      /\ Distance(t, u) <= Distance(t, current)

BehindArePassed ==
  \A t \in Threads : \A u \in steady[t] :
    /\ Runnable(t) /\ Runnable(u)
    /\ (t # current /\ u # t /\ Distance(t, u) <= Distance(t, current))
         => turns[t][u] # 0

(* The inductive invariant both properties follow from. *)
TurnInvariant ==
  TurnsTypeOK /\ NoOvertaking /\ PassedAreBehind /\ BehindArePassed
=============================================================================
