------------------------------ MODULE Scheduler ------------------------------
(***************************************************************************)
(* The priority scheduler of core/ps_sched.c: interrupt handlers mark a    *)
(* task ready in a two-level bit table, ps_task_shedule dispatches the     *)
(* ready task of the lowest number, runs it to its end and clears it.      *)
(*                                                                         *)
(* set_ready_task and clr_ready_task run with interrupts disabled, so each *)
(* is one step.  The loop reads the two levels of the table without a      *)
(* lock, and an interrupt may come between any two of its steps.           *)
(*                                                                         *)
(* The work of a task is left out but for the two VIPRE tasks, which share *)
(* one FIFO of frames: each takes the frames of its own parity only, and   *)
(* the task_empty_check of the lower one depends on the FIFO.              *)
(***************************************************************************)
EXTENDS Integers, Sequences

CONSTANTS
  Tasks,          \* priorities in use, of task_table's 0..15
  Idle,           \* the last one: ps_idle_task
  High, Low,      \* the two VIPRE tasks; high_pri_task is High
  MaxFrames       \* bound: frames in the VIPRE FIFO

\* init_scheduler makes the last task the idle one; dsp_search_higher_prio_task
\* found High for Low.
ASSUME TasksAssumption ==
  /\ Tasks \subseteq 0..15
  /\ Idle \in Tasks /\ \A t \in Tasks : t <= Idle
  /\ High \in Tasks \ {Idle} /\ Low \in Tasks \ {Idle} /\ High < Low
  /\ MaxFrames \in Nat

VARIABLES
  grp,            \* g_task_rdy_grp, as the set of its bits
  tbl,            \* g_task_rdy_Tbl, likewise
  pc,             \* where ps_task_shedule is
  msb,            \* local variable of get_ready_task
  current,        \* local variable task
  vipre,          \* the frames in the VIPRE FIFO, by the task each belongs to
  seen,           \* history: the tasks ready when the loop read g_task_rdy_grp
  taken           \* history: turns over when a frame leaves the FIFO

tableVars == <<grp, tbl>>
loopVars == <<pc, msb, current, seen>>
vars == <<tableVars, loopVars, vipre, taken>>

Bits == 0..7                    \* of a char
GroupUnshifted(t) == t          \* mutation: the priority is not shifted
Group(t) == (t \div 8) % 8      \* pri>>3&0x7
Bit(t) == t % 8                 \* pri&0x7

\* task_ummap[map], for the char whose bits are S.  Mutation: the last bit.
Lowest(S) == CHOOSE b \in S : \A c \in S : b <= c
HighestBit(S) == CHOOSE b \in S : \A c \in S : c <= b

IsReady(t) == Bit(t) \in tbl[Group(t)]
ReadyTasks == {t \in Tasks : IsReady(t)}
Points == {"group", "bit", "run", "asleep", "clear"}

TypeOK ==
  /\ grp \subseteq Bits
  /\ tbl \in [Bits -> SUBSET Bits]
  /\ pc \in Points /\ msb \in Bits /\ current \in 0..63
  /\ vipre \in Seq({High, Low}) /\ Len(vipre) <= MaxFrames
  /\ seen \subseteq Tasks /\ taken \in BOOLEAN

Init ==
  /\ grp = {Group(Idle)}
  /\ tbl = [g \in Bits |-> IF g = Group(Idle) THEN {Bit(Idle)} ELSE {}]
  /\ pc = "group" /\ msb = 0 /\ current = Idle
  /\ vipre = <<>> /\ seen = {} /\ taken = FALSE

-----------------------------------------------------------------------------
(* The ready table. *)

\* set_ready_task for each task of a chain, with no step of the loop between.
SetReady(chain) ==
  /\ tbl' = [g \in Bits |-> tbl[g] \union {Bit(t) : t \in {u \in chain : Group(u) = g}}]
  /\ grp' = grp \union {Group(t) : t \in chain}

\* Mutation: the group's bit is cleared whatever is left of the group.
ClearGroupToo(t) ==
  /\ tbl' = [tbl EXCEPT ![Group(t)] = @ \ {Bit(t)}]
  /\ grp' = grp \ {Group(t)}

ClearReady(t) ==
  /\ tbl' = [tbl EXCEPT ![Group(t)] = @ \ {Bit(t)}]
  /\ grp' = IF tbl[Group(t)] \ {Bit(t)} = {} THEN grp \ {Group(t)} ELSE grp

-----------------------------------------------------------------------------
(* Interrupts: ps_task_trigger_intr_handler runs the task's own handler and *)
(* sets the task ready; it also ends the idle task's wait.                  *)

WakeUp == pc' = IF pc = "asleep" THEN "clear" ELSE pc

Interrupt(t) ==
  /\ SetReady({t})
  /\ WakeUp
  /\ UNCHANGED <<msb, current, seen, vipre, taken>>

OtherInterrupt == \E t \in Tasks \ {Idle, High, Low} : Interrupt(t)

\* The VIPRE's interrupt pushes a frame of either parity; its overflow is left
\* out.  The task started last is chained to the other, so both become ready.
VipreInterrupt ==
  /\ Len(vipre) < MaxFrames
  /\ \E owner \in {High, Low} : vipre' = Append(vipre, owner)
  /\ SetReady({High, Low})
  /\ WakeUp
  /\ UNCHANGED <<msb, current, seen, taken>>

-----------------------------------------------------------------------------
(* The loop of ps_task_shedule. *)

ReadGroup ==
  /\ pc = "group" /\ grp # {}
  /\ msb' = Lowest(grp)
  /\ seen' = ReadyTasks
  /\ pc' = "bit"
  /\ UNCHANGED <<tableVars, current, vipre, taken>>

\* Mutations: the group is read a second time; the table finds the last bit.
ReadGroupAgain ==
  /\ pc = "bit"
  /\ current' = 8 * msb + Lowest(tbl[Lowest(grp)])
  /\ pc' = "run"
  /\ UNCHANGED <<tableVars, msb, seen, vipre, taken>>

ReadLastBit ==
  /\ pc = "bit"
  /\ current' = 8 * msb + HighestBit(tbl[msb])
  /\ pc' = "run"
  /\ UNCHANGED <<tableVars, msb, seen, vipre, taken>>

ReadBit ==
  /\ pc = "bit"
  /\ current' = 8 * msb + Lowest(tbl[msb])
  /\ pc' = "run"
  /\ UNCHANGED <<tableVars, msb, seen, vipre, taken>>

\* XT_WAITI waits for the next interrupt, whatever came since the task was read.
Sleep ==
  /\ pc = "run" /\ current = Idle
  /\ pc' = "asleep"
  /\ UNCHANGED <<tableVars, msb, current, seen, vipre, taken>>

\* A VIPRE task whose parity is not the frame's gets no entry.
RunTask ==
  /\ pc = "run" /\ current # Idle
  /\ IF vipre # <<>> /\ current = Head(vipre)
       THEN vipre' = Tail(vipre) /\ taken' = ~taken
       ELSE UNCHANGED <<vipre, taken>>
  /\ pc' = "clear"
  /\ UNCHANGED <<tableVars, msb, current, seen>>

\* clr_ready_task with task_empty_check: the idle task's is never true, Low's
\* (dsp_vipre_task_check) is true of an empty FIFO and makes High ready
\* otherwise, the others have none.
\* Mutations: no check at all; a check that leaves High alone.
ClearUnchecked ==
  ClearReady(current)

ClearWithoutHigh ==
  IF current = Idle \/ (current = Low /\ vipre # <<>>)
    THEN UNCHANGED tableVars
    ELSE ClearReady(current)

ClearChecked ==
  CASE current = Idle -> UNCHANGED tableVars
    [] current = Low /\ vipre # <<>> -> SetReady({High})
    [] OTHER -> ClearReady(current)

Clear ==
  /\ pc = "clear"
  /\ ClearChecked
  /\ pc' = "group"
  /\ UNCHANGED <<msb, current, seen, vipre, taken>>

Loop == ReadGroup \/ ReadBit \/ Sleep \/ RunTask \/ Clear

Next == OtherInterrupt \/ VipreInterrupt \/ Loop

\* The loop runs, and interrupts of some kind keep coming: the idle task waits
\* for the next one even when a task became ready after it was dispatched.
Fairness == WF_vars(Loop) /\ WF_vars(OtherInterrupt)

Spec == Init /\ [][Next]_vars
FairSpec == Spec /\ Fairness

-----------------------------------------------------------------------------
(* Properties. *)

\* The two levels of the table agree whenever the loop may read them: a bit of
\* g_task_rdy_grp is set exactly when its g_task_rdy_Tbl is not zero.
TableConsistent == grp = {g \in Bits : tbl[g] # {}}

\* The loop never finds the table empty, nor reads a zero g_task_rdy_Tbl: the
\* idle task stays ready, and no interrupt clears what the loop is looking at.
AlwaysATask ==
  /\ Idle \in ReadyTasks
  /\ pc = "bit" => tbl[msb] # {}

\* The task that runs is one that is ready, although the two levels were read
\* in two steps, and stays so until its own clr_ready_task.
DispatchedIsReady == pc \in {"run", "asleep", "clear"} => current \in ReadyTasks

\* No task is dispatched ahead of one of a higher priority that was ready when
\* the loop started to look.  In particular the idle task sleeps only when
\* nothing else was.
HighestFirst == pc = "run" => \A t \in seen : current <= t

\* Every frame at the head of the VIPRE FIFO is taken by the task it belongs
\* to, also when the VIPRE raises no further interrupt: this is what
\* dsp_vipre_task_check is for.
VipreDrained ==
  \A b \in BOOLEAN : (vipre # <<>> /\ taken = b) ~> (taken # b)
=============================================================================
