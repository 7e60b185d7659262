--------------------------- MODULE SchedulerProofs ---------------------------
(***************************************************************************)
(* Proofs about the priority scheduler, for every set of tasks of          *)
(* task_table: the ready table and the dispatching loop stay consistent    *)
(* whatever interrupts come between the loop's steps.                      *)
(***************************************************************************)
EXTENDS Scheduler, SequenceTheorems, TLAPS

\* A priority is its group and its bit: set_ready_task takes it apart, and
\* get_ready_task puts it together again, without a loss.
LEMMA PriorityParts ==
  ASSUME NEW t \in 0..15
  PROVE  /\ Group(t) \in Bits /\ Bit(t) \in Bits
         /\ t = 8 * Group(t) + Bit(t)
BY DEF Group, Bit, Bits

\* A group and a bit put together give both back.
LEMMA PartsPriority ==
  ASSUME NEW g \in 0..1, NEW b \in Bits
  PROVE  Group(8 * g + b) = g /\ Bit(8 * g + b) = b
BY DEF Group, Bit, Bits

\* The priority table finds the lowest bit of every non-zero char.
LEMMA LowestBit ==
  ASSUME NEW S \in SUBSET Bits, S # {}
  PROVE  /\ Lowest(S) \in S
         /\ \A c \in S : Lowest(S) <= c
<1>1. \E b \in S : \A c \in S : b <= c
  <2>. SUFFICES ASSUME \A b \in S : \E c \in S : c < b
                PROVE  FALSE
    BY DEF Bits
  <2>0. 0 \notin S  BY DEF Bits
  <2>1. 1 \notin S  BY <2>0 DEF Bits
  <2>2. 2 \notin S  BY <2>0, <2>1 DEF Bits
  <2>3. 3 \notin S  BY <2>0, <2>1, <2>2 DEF Bits
  <2>4. 4 \notin S  BY <2>0, <2>1, <2>2, <2>3 DEF Bits
  <2>5. 5 \notin S  BY <2>0, <2>1, <2>2, <2>3, <2>4 DEF Bits
  <2>6. 6 \notin S  BY <2>0, <2>1, <2>2, <2>3, <2>4, <2>5 DEF Bits
  <2>7. 7 \notin S  BY <2>0, <2>1, <2>2, <2>3, <2>4, <2>5, <2>6 DEF Bits
  <2>8. PICK b \in S : TRUE
    OBVIOUS
  <2>9. b \in 0..7
    BY DEF Bits
  <2> QED  BY <2>0, <2>1, <2>2, <2>3, <2>4, <2>5, <2>6, <2>7, <2>8, <2>9
<1> QED  BY <1>1 DEF Lowest

-----------------------------------------------------------------------------
(* The inductive invariant. *)

\* Only tasks are ever marked in the table.
OnlyTasks == \A g \in Bits : \A b \in tbl[g] : g \in 0..1 /\ 8 * g + b \in Tasks

\* Between the two reads of get_ready_task, the tasks that were ready at the
\* first are still ready, in the group it found or in a later one.
SeenStillReady == pc = "bit" => seen \subseteq ReadyTasks /\ \A t \in seen : msb <= Group(t)

SchedInv ==
  /\ TypeOK
  /\ TableConsistent
  /\ OnlyTasks
  /\ AlwaysATask
  /\ DispatchedIsReady
  /\ SeenStillReady
  /\ HighestFirst

\* Two tasks do not share a bit of the table.
LEMMA OwnBit ==
  ASSUME NEW t \in Tasks, NEW u \in Tasks, Group(t) = Group(u), Bit(t) = Bit(u)
  PROVE  t = u
BY PriorityParts, TasksAssumption

\* set_ready_task, of any chain of tasks: a ready task stays ready, and the two
\* levels of the table still agree.
LEMMA SetReadyStep ==
  ASSUME SchedInv, NEW chain \in SUBSET Tasks, SetReady(chain)
  PROVE  /\ grp' \subseteq Bits /\ tbl' \in [Bits -> SUBSET Bits]
         /\ TableConsistent'
         /\ OnlyTasks'
         /\ \A g \in Bits : tbl[g] \subseteq tbl'[g]
         /\ ReadyTasks \subseteq ReadyTasks'
<1>. USE DEF SchedInv, TypeOK
<1>1. \A t \in chain : /\ Group(t) \in Bits /\ Bit(t) \in Bits
                       /\ Group(t) \in 0..1 /\ t = 8 * Group(t) + Bit(t)
  <2>. SUFFICES ASSUME NEW t \in chain
                PROVE  /\ Group(t) \in Bits /\ Bit(t) \in Bits
                       /\ Group(t) \in 0..1 /\ t = 8 * Group(t) + Bit(t)
    OBVIOUS
  <2>1. t \in 0..15  BY TasksAssumption
  <2>2. Group(t) \in 0..1
    BY <2>1 DEF Group
  <2> QED  BY <2>1, <2>2, PriorityParts
<1>2. grp' \subseteq Bits /\ tbl' \in [Bits -> SUBSET Bits]
  BY <1>1 DEF SetReady
<1>3. \A g \in Bits : tbl'[g] = tbl[g] \union {Bit(t) : t \in {u \in chain : Group(u) = g}}
  BY DEF SetReady
<1>4. TableConsistent'
  <2>1. ASSUME NEW g \in Bits
        PROVE  g \in grp' <=> tbl'[g] # {}
    <3>1. CASE \E t \in chain : Group(t) = g
      BY SMTT(30), <1>3, <3>1 DEF SetReady
    <3>2. CASE ~ \E t \in chain : Group(t) = g
      <4>1. tbl'[g] = tbl[g]
        BY <1>3, <3>2
      <4>2. g \in grp' <=> g \in grp
        BY <3>2 DEF SetReady
      <4> QED  BY <4>1, <4>2 DEF TableConsistent
    <3> QED  BY <3>1, <3>2
  <2> QED  BY <1>2, <2>1 DEF TableConsistent
<1>5. OnlyTasks'
  BY <1>1, <1>3 DEF OnlyTasks
<1>6. \A g \in Bits : tbl[g] \subseteq tbl'[g]
  BY <1>3
<1>7. ReadyTasks \subseteq ReadyTasks'
  BY <1>6, PriorityParts, TasksAssumption DEF ReadyTasks, IsReady
<1> QED  BY <1>2, <1>4, <1>5, <1>6, <1>7

\* clr_ready_task, of any task: the other tasks stay ready, and the two levels
\* of the table still agree.
LEMMA ClearReadyStep ==
  ASSUME SchedInv, NEW t \in Tasks, ClearReady(t)
  PROVE  /\ grp' \subseteq Bits /\ tbl' \in [Bits -> SUBSET Bits]
         /\ TableConsistent'
         /\ OnlyTasks'
         /\ ReadyTasks \ {t} \subseteq ReadyTasks'
<1>. USE DEF SchedInv, TypeOK
<1>1. Group(t) \in Bits /\ Bit(t) \in Bits
  BY PriorityParts, TasksAssumption
<1>2. grp' \subseteq Bits /\ tbl' \in [Bits -> SUBSET Bits]
  BY <1>1 DEF ClearReady
<1>3. \A g \in Bits : tbl'[g] = IF g = Group(t) THEN tbl[g] \ {Bit(t)} ELSE tbl[g]
  BY DEF ClearReady
<1>4. TableConsistent'
  <2>1. \A g \in Bits : g \in grp' <=> tbl'[g] # {}
    BY <1>1, <1>3 DEF TableConsistent, ClearReady
  <2> QED  BY <1>2, <2>1 DEF TableConsistent
<1>5. OnlyTasks'
  BY <1>3 DEF OnlyTasks
<1>6. ReadyTasks \ {t} \subseteq ReadyTasks'
  BY <1>3, OwnBit, PriorityParts, TasksAssumption DEF ReadyTasks, IsReady
<1> QED  BY <1>2, <1>4, <1>5, <1>6

-----------------------------------------------------------------------------
(* Every action keeps the invariant. *)

\* The tables as the scheduler is initialised.
LEMMA SchedInit == Init => SchedInv
<1>. SUFFICES ASSUME Init PROVE SchedInv
  OBVIOUS
<1>. USE DEF Init
<1>1. Group(Idle) \in 0..1 /\ Bit(Idle) \in Bits /\ Idle = 8 * Group(Idle) + Bit(Idle)
  <2>1. Idle \in 0..15
    BY TasksAssumption
  <2>2. Group(Idle) \in 0..1
    BY <2>1 DEF Group
  <2> QED  BY <2>1, <2>2, PriorityParts
<1>2. grp \subseteq Bits /\ tbl \in [Bits -> SUBSET Bits]
  BY <1>1 DEF Bits
<1>3. TypeOK
  <2>1. vipre \in Seq({High, Low}) /\ Len(vipre) <= MaxFrames
    BY EmptySeq, TasksAssumption
  <2>2. current \in 0..63 /\ msb \in Bits
    BY TasksAssumption DEF Bits
  <2> QED  BY <1>2, <2>1, <2>2 DEF TypeOK, Points
<1>4. TableConsistent
  <2>1. \A g \in Bits : g \in grp <=> tbl[g] # {}
    BY <1>1
  <2> QED  BY <1>2, <2>1 DEF TableConsistent
<1>5. OnlyTasks
  BY <1>1, TasksAssumption DEF OnlyTasks
<1>6. AlwaysATask
  BY <1>1, TasksAssumption DEF AlwaysATask, ReadyTasks, IsReady, Bits
<1> QED  BY <1>3, <1>4, <1>5, <1>6 DEF SchedInv, DispatchedIsReady, SeenStillReady, HighestFirst

\* An interrupt: it only makes tasks ready, and wakes the idle task.
LEMMA InterruptStep ==
  ASSUME SchedInv, NEW chain \in SUBSET Tasks, SetReady(chain), WakeUp,
         UNCHANGED <<msb, current, seen, taken>>,
         vipre' \in Seq({High, Low}), Len(vipre') <= MaxFrames
  PROVE  SchedInv'
<1>. USE DEF SchedInv
<1>1. /\ TableConsistent' /\ OnlyTasks' /\ ReadyTasks \subseteq ReadyTasks'
      /\ \A g \in Bits : tbl[g] \subseteq tbl'[g]
      /\ grp' \subseteq Bits /\ tbl' \in [Bits -> SUBSET Bits]
  BY SetReadyStep
<1>2. TypeOK'
  BY <1>1 DEF TypeOK, WakeUp, Points
<1>3. AlwaysATask'
  BY <1>1 DEF AlwaysATask, TypeOK, WakeUp
<1>4. DispatchedIsReady'
  BY <1>1 DEF DispatchedIsReady, WakeUp
<1>5. SeenStillReady' /\ HighestFirst'
  BY <1>1 DEF SeenStillReady, HighestFirst, WakeUp
<1> QED  BY <1>1, <1>2, <1>3, <1>4, <1>5

\* Nothing but the loop's own variables and the FIFO changes.
LEMMA TableUnchanged ==
  ASSUME UNCHANGED tbl
  PROVE  ReadyTasks' = ReadyTasks
BY DEF ReadyTasks, IsReady

\* The first read of get_ready_task finds the first group with a ready task.
LEMMA ReadGroupStep ==
  ASSUME SchedInv, ReadGroup
  PROVE  SchedInv'
<1>. USE DEF SchedInv, ReadGroup
<1>1. UNCHANGED <<grp, tbl, current, vipre, taken>> /\ ReadyTasks' = ReadyTasks
  BY TableUnchanged DEF tableVars
<1>2. msb' \in grp /\ \A g \in grp : msb' <= g
  BY LowestBit DEF TypeOK
<1>3. TypeOK'
  BY <1>1, <1>2 DEF TypeOK, Points, ReadyTasks
<1>4. AlwaysATask'
  BY <1>1, <1>2 DEF AlwaysATask, TableConsistent, TypeOK
<1>5. SeenStillReady'
  <2>1. \A t \in ReadyTasks : Group(t) \in grp
    BY PriorityParts, TasksAssumption DEF ReadyTasks, IsReady, TableConsistent
  <2> QED  BY <1>1, <1>2, <2>1 DEF SeenStillReady
<1> QED  BY <1>1, <1>3, <1>4, <1>5 DEF TableConsistent, OnlyTasks, DispatchedIsReady, HighestFirst

\* The second read finds the first task of that group, and so of all that were
\* ready at the first read.
LEMMA ReadBitStep ==
  ASSUME SchedInv, ReadBit
  PROVE  SchedInv'
<1>. USE DEF SchedInv, ReadBit
<1>1. UNCHANGED <<grp, tbl, msb, seen, vipre, taken>> /\ ReadyTasks' = ReadyTasks
  BY TableUnchanged DEF tableVars
<1>2. PICK bit \in tbl[msb] : current' = 8 * msb + bit /\ \A b \in tbl[msb] : bit <= b
  <2>1. /\ Lowest(tbl[msb]) \in tbl[msb]
        /\ \A b \in tbl[msb] : Lowest(tbl[msb]) <= b
    BY LowestBit DEF TypeOK, AlwaysATask
  <2> QED  BY <2>1
<1>3. bit \in Bits /\ msb \in 0..1
  BY <1>2 DEF TypeOK, OnlyTasks
<1>4. current' \in Tasks
  BY <1>2, <1>3 DEF TypeOK, OnlyTasks
<1>5. Group(current') = msb /\ Bit(current') = bit
  BY <1>2, <1>3, PartsPriority
<1>6. TypeOK'
  <2>1. current' \in 0..63
    BY <1>4, TasksAssumption
  <2> QED  BY <1>1, <2>1 DEF TypeOK, Points
<1>7. DispatchedIsReady'
  BY <1>1, <1>2, <1>4, <1>5 DEF DispatchedIsReady, ReadyTasks, IsReady
<1>8. HighestFirst'
  <2>. SUFFICES ASSUME NEW t \in seen
                PROVE  current' <= t
    BY <1>1 DEF HighestFirst
  <2>1. t \in ReadyTasks /\ msb <= Group(t)
    BY DEF SeenStillReady
  <2>2. Group(t) \in 0..7 /\ Bit(t) \in 0..7 /\ t = 8 * Group(t) + Bit(t)
    BY <2>1, PriorityParts, TasksAssumption DEF ReadyTasks, Bits
  <2>3. CASE msb = Group(t)
    <3>1. bit <= Bit(t)
      BY <1>2, <2>1, <2>3 DEF ReadyTasks, IsReady
    <3>2. t = 8 * msb + Bit(t)
      BY <2>2, <2>3
    <3> QED  BY <1>2, <1>3, <2>2, <3>1, <3>2 DEF Bits
  <2>4. CASE msb < Group(t)
    BY <1>2, <1>3, <2>2, <2>4 DEF Bits
  <2>5. msb = Group(t) \/ msb < Group(t)
    BY <1>3, <2>1, <2>2
  <2> QED  BY <2>3, <2>4, <2>5
<1> QED  BY <1>1, <1>6, <1>7, <1>8 DEF TableConsistent, OnlyTasks, AlwaysATask, SeenStillReady

\* clr_ready_task: the idle task is never cleared, and nothing runs.
LEMMA ClearStep ==
  ASSUME SchedInv, Clear
  PROVE  SchedInv'
<1>. USE DEF SchedInv, Clear
<1>1. current \in ReadyTasks
  BY DEF DispatchedIsReady
<1>2. /\ TableConsistent' /\ OnlyTasks' /\ Idle \in ReadyTasks'
      /\ grp' \subseteq Bits /\ tbl' \in [Bits -> SUBSET Bits]
  <2>1. CASE current = Idle
    <3>1. UNCHANGED tableVars
      BY <2>1, TasksAssumption DEF ClearChecked
    <3>2. UNCHANGED <<grp, tbl>> /\ ReadyTasks' = ReadyTasks
      BY <3>1, TableUnchanged DEF tableVars
    <3> QED  BY <3>2 DEF TableConsistent, OnlyTasks, AlwaysATask, TypeOK
  <2>2. CASE current # Idle /\ current = Low /\ vipre # <<>>
    <3>1. SetReady({High})
      BY <2>2 DEF ClearChecked
    <3> QED  BY <3>1, SetReadyStep, TasksAssumption DEF AlwaysATask
  <2>3. CASE current # Idle /\ ~(current = Low /\ vipre # <<>>)
    <3>1. ClearReady(current)
      BY <2>3 DEF ClearChecked
    <3>2. current \in Tasks
      BY <1>1 DEF ReadyTasks
    <3> QED  BY <2>3, <3>1, <3>2, ClearReadyStep DEF AlwaysATask
  <2> QED  BY <2>1, <2>2, <2>3
<1>3. TypeOK'
  BY <1>2 DEF TypeOK, Points
<1> QED  BY <1>2, <1>3 DEF AlwaysATask, DispatchedIsReady, SeenStillReady, HighestFirst

\* An interrupt, a command or a step of the dispatch loop.
LEMMA SchedNext == SchedInv /\ [Next]_vars => SchedInv'
<1>. SUFFICES ASSUME SchedInv, [Next]_vars PROVE SchedInv'
  OBVIOUS
<1>1. CASE OtherInterrupt
  <2>1. PICK t \in Tasks \ {Idle, High, Low} : Interrupt(t)
    BY <1>1 DEF OtherInterrupt
  <2>2. vipre' \in Seq({High, Low}) /\ Len(vipre') <= MaxFrames
    BY <2>1 DEF Interrupt, SchedInv, TypeOK
  <2> QED  BY <2>1, <2>2, InterruptStep DEF Interrupt
<1>2. CASE VipreInterrupt
  <2>1. PICK owner \in {High, Low} : vipre' = Append(vipre, owner)
    BY <1>2 DEF VipreInterrupt
  <2>2. vipre' \in Seq({High, Low}) /\ Len(vipre') = Len(vipre) + 1
    BY <2>1, AppendProperties DEF SchedInv, TypeOK
  <2>3. Len(vipre') <= MaxFrames
    BY <1>2, <2>2, LenProperties, TasksAssumption DEF VipreInterrupt, SchedInv, TypeOK
  <2>4. {High, Low} \in SUBSET Tasks
    BY TasksAssumption
  <2> QED  BY <1>2, <2>2, <2>3, <2>4, InterruptStep DEF VipreInterrupt
<1>3. CASE ReadGroup
  BY <1>3, ReadGroupStep
<1>4. CASE ReadBit
  BY <1>4, ReadBitStep
<1>5. CASE Sleep
  <2>1. ReadyTasks' = ReadyTasks
    BY <1>5, TableUnchanged DEF Sleep, tableVars
  <2> QED  BY <1>5, <2>1 DEF Sleep, tableVars, SchedInv, TypeOK, Points, TableConsistent, OnlyTasks,
              AlwaysATask, DispatchedIsReady, SeenStillReady, HighestFirst
<1>6. CASE RunTask
  <2>1. ReadyTasks' = ReadyTasks
    BY <1>6, TableUnchanged DEF RunTask, tableVars
  <2>2. vipre' \in Seq({High, Low}) /\ Len(vipre') <= MaxFrames /\ taken' \in BOOLEAN
    <3>1. CASE UNCHANGED <<vipre, taken>>
      BY <3>1 DEF SchedInv, TypeOK
    <3>2. CASE vipre # <<>> /\ vipre' = Tail(vipre) /\ taken' = ~taken
      BY <3>2, HeadTailProperties, LenProperties, TasksAssumption DEF SchedInv, TypeOK
    <3> QED  BY <1>6, <3>1, <3>2 DEF RunTask
  <2> QED  BY <1>6, <2>1, <2>2 DEF RunTask, tableVars, SchedInv, TypeOK, Points, TableConsistent,
              OnlyTasks, AlwaysATask, DispatchedIsReady, SeenStillReady, HighestFirst
<1>7. CASE Clear
  BY <1>7, ClearStep
<1>8. CASE UNCHANGED vars
  BY <1>8, TableUnchanged DEF vars, tableVars, loopVars, SchedInv, TypeOK, TableConsistent,
     OnlyTasks, AlwaysATask, DispatchedIsReady, SeenStillReady, HighestFirst
<1> QED  BY <1>1, <1>2, <1>3, <1>4, <1>5, <1>6, <1>7, <1>8 DEF Next, Loop

-----------------------------------------------------------------------------
(* Theorems. *)

\* All that the scheduler's invariants say, and what they rest on, holds
\* whatever tasks there are and whenever the interrupts of their front ends and
\* of the host come (set_ready_task, get_ready_task, clr_ready_task and
\* ps_task_shedule of ps_sched.c).
THEOREM SchedulerInvariant == Spec => []SchedInv
BY SchedInit, SchedNext, PTL DEF Spec

\* The two chars of the ready table keep their width and the loop its points,
\* and the VIPRE FIFO holds frames of the two tasks only.
THEOREM SchedulerTyped == Spec => []TypeOK
<1>1. SchedInv => TypeOK
  BY DEF SchedInv
<1> QED  BY <1>1, SchedulerInvariant, PTL

\* The two levels of the ready table agree at every step of the loop.
THEOREM TableStaysConsistent == Spec => []TableConsistent
<1>1. SchedInv => TableConsistent
  BY DEF SchedInv
<1> QED  BY <1>1, SchedulerInvariant, PTL

\* ps_task_shedule never finds the table empty, in either of its two reads.
THEOREM AlwaysATaskToRun == Spec => []AlwaysATask
<1>1. SchedInv => AlwaysATask
  BY DEF SchedInv
<1> QED  BY <1>1, SchedulerInvariant, PTL

\* The number get_ready_task makes of its two reads is that of a task, which is
\* ready and stays so while it runs.
THEOREM DispatchedStaysReady == Spec => []DispatchedIsReady
<1>1. SchedInv => DispatchedIsReady
  BY DEF SchedInv
<1> QED  BY <1>1, SchedulerInvariant, PTL

\* No ready task is overtaken by one of a lower priority: interrupts between
\* the two reads of get_ready_task do not change that.
THEOREM HighestPriorityFirst == Spec => []HighestFirst
<1>1. SchedInv => HighestFirst
  BY DEF SchedInv
<1> QED  BY <1>1, SchedulerInvariant, PTL
=============================================================================
