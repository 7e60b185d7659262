------------------------- MODULE TaskLifecycleProofs -------------------------
(***************************************************************************)
(* Proofs about the life cycle of tasks, for every set of tasks and        *)
(* interrupts.  Tasks, slots and namespaces stay in step whatever the host *)
(* asks for, in whatever order, and whichever algorithms fail to load; a   *)
(* running task stays hooked, and a task that is dispatched has its        *)
(* algorithm, under a host that is careful and gives each task a front end *)
(* of its own.                                                             *)
(***************************************************************************)
EXTENDS TaskLifecycle, FiniteSetTheorems, WellFoundedInduction, TLAPS

\* Sets of tasks and slots have a least element.
LEMMA LeastOf ==
  ASSUME NEW S \in SUBSET Nat, S # {}
  PROVE  \E m \in S : \A k \in S : m <= k
<1>. DEFINE Less == {ss \in Nat \X Nat : ss[1] < ss[2]}
<1>1. IsWellFoundedOn(Less, Nat)
  BY NatLessThanWellFounded DEF OpToRel
<1>2. \E m \in S : \A k \in S : ~ (<<k, m>> \in Less)
  <2>. HIDE DEF Less
  <2> QED  BY <1>1, WFMin, Zenon
<1>3. PICK m \in S : \A k \in S : ~ (<<k, m>> \in Less)
  BY <1>2
<1>4. ASSUME NEW k \in S  PROVE  m <= k
  <2>1. k \in Nat /\ m \in Nat /\ <<k, m>> \in Nat \X Nat
    OBVIOUS
  <2>2. ~ (k < m)
    BY <1>3, <2>1
  <2> QED  BY <2>1, <2>2
<1> QED  BY <1>4

\* The task table is finite, with the common and the idle task, and a slot for each
\* task.
LEMMA TasksFinite ==
  /\ IsFiniteSet(Tasks) /\ Cardinality(Tasks) \in Nat /\ 2 <= Cardinality(Tasks)
  /\ IsFiniteSet(Slots) /\ Cardinality(Slots) = Cardinality(Tasks)
  /\ Tasks \subseteq Nat /\ Slots \subseteq Nat /\ 0 \in Slots /\ 1 \in Slots
<1>1. IsFiniteSet(Tasks)
  <2>1. Tasks \in SUBSET Nat /\ 15 \in Nat /\ \A t \in Tasks : t <= 15
    BY TableAssumption
  <2> QED  BY <2>1, FS_BoundedSetOfNaturals
<1>2. Cardinality(Tasks) \in Nat
  BY <1>1, FS_CardinalityType
<1>3. 2 <= Cardinality(Tasks)
  <2>1. Cardinality({Common}) = 1 /\ IsFiniteSet({Common})
    BY FS_Singleton
  <2>2. Cardinality({Common} \union {Idle}) = 2
    <3>1. Cardinality({Common} \union {Idle}) =
            IF Idle \in {Common} THEN Cardinality({Common}) ELSE Cardinality({Common}) + 1
      BY <2>1, FS_AddElement
    <3>2. Idle \notin {Common}
      BY TableAssumption
    <3> QED  BY <2>1, <3>1, <3>2
  <2>3. {Common} \union {Idle} \subseteq Tasks
    BY DEF Tasks
  <2> QED  BY <1>1, <2>2, <2>3, FS_Subset
<1>4. IsFiniteSet(Slots) /\ Cardinality(Slots) = Cardinality(Tasks)
  <2>1. PICK k \in Nat : k = Cardinality(Tasks) /\ 2 <= k
    BY <1>2, <1>3
  <2>2. Slots = 0..(k - 1)
    BY <2>1 DEF Slots
  <2>3. k - 1 \in Int /\ ~(0 > k - 1) /\ (k - 1) - 0 + 1 = k
    BY <2>1
  <2>4. IsFiniteSet(0..(k - 1)) /\ Cardinality(0..(k - 1)) = (k - 1) - 0 + 1
    BY <2>3, FS_Interval
  <2> QED  BY <2>1, <2>2, <2>3, <2>4
<1> QED  BY <1>1, <1>2, <1>3, <1>4, TableAssumption DEF Slots

-----------------------------------------------------------------------------
(* The commands, as far as the proofs need them. *)

\* A command on t leaves the records of the other tasks alone.
OthersKept(t) == \A u \in Tasks \ {t} : task'[u] = task[u]

\* A hardware task has a front end's interrupt before it can be started.
FrontEndFirst ==
  \A t \in HwTasks :
    /\ task[t].type = "HW"
    /\ task[t].fe => task[t].irq \in Irqs
    /\ task[t].status \in {"READY", "RUNING"} => task[t].fe

\* update_task_status changes nothing but the status, and that of a configured
\* task only.
LEMMA UpdatedRecord ==
  ASSUME NEW r \in TaskRecords
  PROVE  /\ Updated(r) \in TaskRecords
         /\ Updated(r).type = r.type /\ Updated(r).fe = r.fe
         /\ Updated(r).irq = r.irq /\ Updated(r).handler = r.handler
         /\ Updated(r).status = r.status \/ (r.status = "IDEL" /\ Updated(r).status = "READY")
         /\ Updated(r).status # r.status => (r.type = "HW" => r.fe)
BY DEF Updated, Configured, TaskRecords

\* The search for another running task of an interrupt finds a task or none.
LEMMA LatestRunningTyped ==
  ASSUME NEW t, NEW i
  PROVE  LatestRunning(t, i) \in Tasks \union {NoTask}
<1>. DEFINE running == {u \in HwTasks \ {t} : task[u].status = "RUNING" /\ task[u].irq = i}
<1>1. CASE running = {}
  BY <1>1 DEF LatestRunning
<1>2. CASE running # {}
  <2>1. running \subseteq Nat
    BY TasksFinite DEF Tasks
  <2>2. \E u \in running : \A v \in running : u <= v
    BY <1>2, <2>1, LeastOf
  <2>3. LatestRunning(t, i) \in running
    BY <1>2, <2>2 DEF LatestRunning
  <2> QED  BY <2>3 DEF Tasks
<1> QED  BY <1>1, <1>2

-----------------------------------------------------------------------------
(* Types. *)

TypedInv == TypeOK /\ FrontEndFirst

\* At start only the two system tasks are allocated.
LEMMA InitTyped == Init => TypedInv
<1>. SUFFICES ASSUME Init PROVE TypedInv
  OBVIOUS
<1>1. \A t \in Tasks : FreshTask(t) \in TaskRecords
  BY DEF FreshTask, TaskRecords, Driver, Handlers
<1>2. TypeOK
  <2>1. slot \in [Slots -> Tasks \union {NoTask}]
    BY DEF Init, Tasks
  <2>2. taskNum \in 0..Cardinality(Tasks)
    BY TasksFinite DEF Init
  <2> QED  BY <1>1, <2>1, <2>2 DEF Init, TypeOK, Tasks, Driver, Handlers
<1>3. FrontEndFirst
  <2>1. ASSUME NEW t \in HwTasks
        PROVE  task[t] = FreshTask(t) /\ FreshTask(t).status = "FREE"
               /\ FreshTask(t).type = "HW" /\ ~FreshTask(t).fe
    <3>1. t \in Tasks /\ t \notin {Common, Idle}
      BY TableAssumption DEF Tasks
    <3> QED  BY <3>1 DEF Init, FreshTask
  <2> QED  BY <2>1 DEF FrontEndFirst
<1> QED  BY <1>2, <1>3 DEF TypedInv

\* A hardware task's record, as FrontEndFirst wants it.
HwRecord(r) ==
  /\ r.type = "HW"
  /\ r.fe => r.irq \in Irqs
  /\ r.status \in {"READY", "RUNING"} => r.fe

\* The record that a command leaves at t is all there is to show of it.
LEMMA RecordSet ==
  ASSUME TypedInv, NEW t \in Tasks, NEW r \in TaskRecords, task' = [task EXCEPT ![t] = r],
         t \in HwTasks => HwRecord(r)
  PROVE  /\ task' \in [Tasks -> TaskRecords]
         /\ FrontEndFirst'
         /\ OthersKept(t) /\ task'[t] = r
<1>1. task' \in [Tasks -> TaskRecords] /\ OthersKept(t) /\ task'[t] = r
  BY DEF TypedInv, TypeOK, OthersKept
<1>2. ASSUME NEW u \in HwTasks
      PROVE  HwRecord(task'[u])
  <2>1. u \in Tasks
    BY DEF Tasks
  <2>2. CASE u = t
    BY <1>1, <2>2
  <2>3. CASE u # t
    <3>1. task'[u] = task[u]
      BY <1>1, <2>1, <2>3 DEF OthersKept
    <3> QED  BY <3>1 DEF TypedInv, FrontEndFirst, HwRecord
  <2> QED  BY <2>2, <2>3
<1>3. FrontEndFirst'
  BY <1>2 DEF FrontEndFirst, HwRecord
<1> QED  BY <1>1, <1>3

\* Free slots are slots.
LEMMA FreeSlotsAreSlots == TypeOK => FreeSlots \subseteq Slots
BY TasksFinite DEF TypeOK, FreeSlots, Slots

\* ps_create_task.
LEMMA AddTaskTyped ==
  ASSUME TypedInv, NEW t \in HwTasks \union SwTasks,
         NEW type \in {"HW", "SW_TO_SW", "SW_TO_HW"}, AddTask(t, type),
         t \in HwTasks => type = "HW"
  PROVE  /\ task' \in [Tasks -> TaskRecords] /\ FrontEndFirst' /\ OthersKept(t)
         /\ task'[t].status \in {"IDEL", "READY"} /\ ~task'[t].fe
         /\ slot' \in [Slots -> Tasks \union {NoTask}] /\ taskNum' \in 0..Cardinality(Tasks)
<1>. DEFINE r == [task[t] EXCEPT !.status = IF type = "SW_TO_SW" THEN "READY" ELSE "IDEL",
                                 !.type = type, !.fe = FALSE, !.be = FALSE, !.param = "NULL"]
<1>0. t \in Tasks /\ task[t] \in TaskRecords
  BY DEF Tasks, TypedInv, TypeOK
<1>1. task' = [task EXCEPT ![t] = r]
  BY <1>0 DEF AddTask, TypedInv, TypeOK
<1>2. r \in TaskRecords /\ r.status \in {"IDEL", "READY"} /\ ~r.fe /\ (t \in HwTasks => HwRecord(r))
  BY <1>0 DEF TaskRecords, HwRecord
<1>3. slot' \in [Slots -> Tasks \union {NoTask}] /\ taskNum' \in 0..Cardinality(Tasks)
  BY <1>0, FreeSlotsAreSlots, TasksFinite DEF AddTask, TypedInv, TypeOK
<1>. HIDE DEF r
<1> QED  BY <1>0, <1>1, <1>2, <1>3, RecordSet

\* What every command on t does, and whether it frees the task.
CommandEffect(s, t) ==
  /\ task' \in [Tasks -> TaskRecords] /\ FrontEndFirst' /\ OthersKept(t)
  /\ vector' \in [Irqs -> Handlers] /\ enabled' \subseteq Irqs
  /\ ready' = ready /\ broken' \subseteq Tasks /\ busy' = FALSE
  /\ \/ /\ UNCHANGED <<slot, taskNum, namespaces>>
        /\ task'[t].status = "FREE" <=> task[t].status = "FREE"
     \/ Destroy(s, t) /\ task'[t].status = "FREE"

\* dsp_task_fe_config: the task has interrupt i, and nothing starts.
LEMMA FeConfigTyped ==
  ASSUME TypedInv, NEW s, NEW t \in Tasks, NEW i \in Irqs, FeConfig(s, t, i)
  PROVE  /\ CommandEffect(s, t)
         /\ task'[t].irq = i
         /\ task'[t].status = "RUNING" => task[t].status = "RUNING"
<1>. DEFINE q == [task[t] EXCEPT !.fe = TRUE, !.irq = i]
            r == Updated(q)
<1>0. task[t] \in TaskRecords /\ t \in HwTasks
  BY DEF TypedInv, TypeOK, FeConfig
<1>1. q \in TaskRecords /\ q.fe /\ q.irq = i /\ q.status = task[t].status /\ q.type = task[t].type
  BY <1>0 DEF TaskRecords
<1>. HIDE DEF q
<1>2. /\ r \in TaskRecords /\ r.type = q.type /\ r.fe /\ r.irq = i
      /\ r.status = q.status \/ (q.status = "IDEL" /\ r.status = "READY")
  BY <1>1, UpdatedRecord
<1>3. task' = [task EXCEPT ![t] = r]
  BY DEF FeConfig, q
<1>. HIDE DEF r
<1>4. HwRecord(r)
  BY <1>0, <1>1, <1>2 DEF HwRecord, TypedInv, FrontEndFirst
<1>5. task' \in [Tasks -> TaskRecords] /\ FrontEndFirst' /\ OthersKept(t) /\ task'[t] = r
  BY <1>2, <1>3, <1>4, RecordSet
<1>6. vector' \in [Irqs -> Handlers] /\ enabled' \subseteq Irqs
  BY DEF FeConfig, TypedInv, TypeOK, Driver, Handlers
<1>7. /\ UNCHANGED <<slot, taskNum, namespaces>>
      /\ ready' = ready /\ broken' \subseteq Tasks /\ busy' = FALSE
  BY DEF FeConfig, Done, TypedInv, TypeOK
<1> QED  BY <1>1, <1>2, <1>5, <1>6, <1>7 DEF CommandEffect

\* The back end's configuration hooks nothing and starts nothing.
LEMMA BeConfigTyped ==
  ASSUME TypedInv, NEW s, NEW t \in Tasks, BeConfig(s, t)
  PROVE  /\ CommandEffect(s, t) /\ UNCHANGED <<vector, enabled>>
         /\ task'[t].irq = task[t].irq /\ task'[t].fe = task[t].fe
         /\ task'[t].status = "RUNING" => task[t].status = "RUNING"
<1>. DEFINE q == [task[t] EXCEPT !.be = TRUE]
            r == Updated(q)
<1>0. task[t] \in TaskRecords
  BY DEF TypedInv, TypeOK
<1>1. /\ q \in TaskRecords /\ q.fe = task[t].fe /\ q.irq = task[t].irq
      /\ q.status = task[t].status /\ q.type = task[t].type
  BY <1>0 DEF TaskRecords
<1>. HIDE DEF q
<1>2. /\ r \in TaskRecords /\ r.type = q.type /\ r.fe = q.fe /\ r.irq = q.irq
      /\ r.status = q.status \/ (q.status = "IDEL" /\ r.status = "READY")
      /\ r.status # q.status => (q.type = "HW" => q.fe)
  BY <1>1, UpdatedRecord
<1>3. task' = [task EXCEPT ![t] = r]
  BY DEF BeConfig, q
<1>. HIDE DEF r
<1>4. t \in HwTasks => HwRecord(r)
  BY <1>0, <1>1, <1>2 DEF HwRecord, TypedInv, FrontEndFirst
<1>5. task' \in [Tasks -> TaskRecords] /\ FrontEndFirst' /\ OthersKept(t) /\ task'[t] = r
  BY <1>2, <1>3, <1>4, RecordSet
<1>6. /\ UNCHANGED <<slot, taskNum, namespaces, vector, enabled>>
      /\ ready' = ready /\ broken' \subseteq Tasks /\ busy' = FALSE
  BY DEF BeConfig, Done, TypedInv, TypeOK
<1> QED  BY <1>1, <1>2, <1>5, <1>6 DEF CommandEffect, TypedInv, TypeOK

\* The record of t with its algorithm and parameters changed.
WithAlgorithm(t, a, p) == [task[t] EXCEPT !.algo = a, !.param = p]
Params == {"NULL", "allocated", "freed"}

\* dsp_task_algo_config and csi_dsp_task_algo_load change a task's algorithm and
\* parameters, and leave broken only with both in place.
LEMMA AlgorithmChange ==
  ASSUME TypedInv, NEW s, NEW t \in Tasks, AlgoConfig(s, t) \/ AlgoLoad(s, t)
  PROVE  \E a \in BOOLEAN, p \in Params :
           /\ \/ task' = [task EXCEPT ![t] = WithAlgorithm(t, a, p)]
              \/ task' = [task EXCEPT ![t] = Updated(WithAlgorithm(t, a, p))]
           /\ \/ broken' = broken \union {t}
              \/ broken' = broken \ {t} /\ a = TRUE /\ p = "allocated"
<1>0. task \in [Tasks -> TaskRecords] /\ task[t] \in TaskRecords
  BY DEF TypedInv, TypeOK
<1>1. ParamToConfig(t) \in {"allocated", "freed"}
  BY <1>0 DEF ParamToConfig, TaskRecords
<1>. DEFINE Set(a, p) == task' = [task EXCEPT ![t].algo = a, ![t].param = p]
            Goal == \E a \in BOOLEAN, p \in Params :
                      /\ \/ task' = [task EXCEPT ![t] = WithAlgorithm(t, a, p)]
                         \/ task' = [task EXCEPT ![t] = Updated(WithAlgorithm(t, a, p))]
                      /\ \/ broken' = broken \union {t}
                         \/ broken' = broken \ {t} /\ a = TRUE /\ p = "allocated"
<1>2. ASSUME NEW a \in BOOLEAN, NEW p \in Params, Set(a, p),
             broken' = broken \union {t} \/ (broken' = broken \ {t} /\ a = TRUE /\ p = "allocated")
      PROVE  Goal
  <2>1. task' = [task EXCEPT ![t] = WithAlgorithm(t, a, p)]
    BY <1>0, <1>2 DEF WithAlgorithm
  <2> QED  BY Zenon, <1>2, <2>1
<1>3. CASE AlgoConfig(s, t)
  <2>1. CASE /\ task' = [task EXCEPT ![t] = Updated([@ EXCEPT !.algo = TRUE,
                                                             !.param = ParamToConfig(t)])]
             /\ broken' = IF ParamToConfig(t) = "freed" THEN broken \union {t}
                                                        ELSE broken \ {t}
    <3>1. task' = [task EXCEPT ![t] = Updated(WithAlgorithm(t, TRUE, ParamToConfig(t)))]
      BY Zenon, <1>0, <2>1 DEF WithAlgorithm
    <3>2. (ParamToConfig(t) = "allocated" /\ broken' = broken \ {t})
            \/ broken' = broken \union {t}
      BY <1>1, <2>1
    <3>3. ParamToConfig(t) \in Params /\ TRUE \in BOOLEAN
      BY <1>1 DEF Params
    <3> QED  BY Zenon, <3>1, <3>2, <3>3
  <2>2. CASE /\ broken' = broken \union {t}
             /\ task' = [task EXCEPT ![t].algo = FALSE, ![t].param = "NULL"]
    <3>1. Set(FALSE, "NULL") /\ FALSE \in BOOLEAN /\ "NULL" \in Params
      BY <2>2 DEF Params
    <3> QED  BY <1>2, <2>2, <3>1
  <2>3. CASE /\ broken' = broken \union {t}
             /\ \E left \in {"NULL", ParamToConfig(t)} :
                  task' = [task EXCEPT ![t].algo = TRUE, ![t].param = left]
    <3>1. PICK left \in {"NULL", ParamToConfig(t)} :
                 task' = [task EXCEPT ![t].algo = TRUE, ![t].param = left]
      BY <2>3
    <3>2. left \in Params
      BY <1>1 DEF Params
    <3>3. Set(TRUE, left)
      BY <3>1
    <3> QED  BY <1>2, <2>3, <3>2, <3>3
  <2> QED  BY Zenon, <1>3, <2>1, <2>2, <2>3 DEF AlgoConfig
<1>4. CASE AlgoLoad(s, t)
  <2>1. CASE /\ task' = [task EXCEPT ![t].algo = TRUE, ![t].param = "allocated"]
             /\ broken' = broken \ {t}
    <3>1. Set(TRUE, "allocated") /\ TRUE \in BOOLEAN /\ "allocated" \in Params
      BY <2>1 DEF Params
    <3> QED  BY <1>2, <2>1, <3>1
  <2>2. CASE broken' = broken \union {t} /\ task' = [task EXCEPT ![t].param = "NULL"]
    <3>1. [task EXCEPT ![t].param = "NULL"]
            = [task EXCEPT ![t] = WithAlgorithm(t, task[t].algo, "NULL")]
      BY <1>0 DEF WithAlgorithm, TaskRecords
    <3>2. task[t].algo \in BOOLEAN
      BY <1>0 DEF TaskRecords
    <3>3. "NULL" \in Params
      BY DEF Params
    <3> QED  BY Zenon, <2>2, <3>1, <3>2, <3>3
  <2>3. CASE /\ broken' = broken \union {t}
             /\ \/ task' = [task EXCEPT ![t].algo = FALSE, ![t].param = "freed"]
                \/ task' = [task EXCEPT ![t].algo = TRUE, ![t].param = "freed"]
    <3>1. PICK a \in BOOLEAN : Set(a, "freed")
      BY <2>3
    <3>2. "freed" \in Params
      BY DEF Params
    <3> QED  BY <1>2, <2>3, <3>1, <3>2
  <2> QED  BY Zenon, <1>4, <2>1, <2>2, <2>3 DEF AlgoLoad
<1> QED  BY <1>3, <1>4

\* The two commands, whether they fail or not.
LEMMA AlgorithmTyped ==
  ASSUME TypedInv, NEW s, NEW t \in Tasks, AlgoConfig(s, t) \/ AlgoLoad(s, t)
  PROVE  /\ CommandEffect(s, t) /\ UNCHANGED <<vector, enabled>>
         /\ task'[t].irq = task[t].irq /\ task'[t].fe = task[t].fe
         /\ task'[t].status = "RUNING" => task[t].status = "RUNING"
<1>0. task[t] \in TaskRecords
  BY DEF TypedInv, TypeOK
<1>1. PICK q \in TaskRecords :
        /\ q.fe = task[t].fe /\ q.irq = task[t].irq
        /\ q.status = task[t].status /\ q.type = task[t].type
        /\ task' = [task EXCEPT ![t] = q] \/ task' = [task EXCEPT ![t] = Updated(q)]
  <2>1. ASSUME NEW a \in BOOLEAN, NEW p \in Params
        PROVE  LET q == WithAlgorithm(t, a, p)
               IN  /\ q \in TaskRecords /\ q.fe = task[t].fe /\ q.irq = task[t].irq
                   /\ q.status = task[t].status /\ q.type = task[t].type
    BY <1>0 DEF TaskRecords, WithAlgorithm, Params
  <2> QED  BY <2>1, AlgorithmChange
<1>. DEFINE r == IF task' = [task EXCEPT ![t] = q] THEN q ELSE Updated(q)
<1>2. /\ r \in TaskRecords /\ r.type = q.type /\ r.fe = q.fe /\ r.irq = q.irq
      /\ r.status = q.status \/ (q.status = "IDEL" /\ r.status = "READY")
      /\ r.status # q.status => (q.type = "HW" => q.fe)
  BY <1>1, UpdatedRecord
<1>3. task' = [task EXCEPT ![t] = r]
  BY <1>1
<1>. HIDE DEF r
<1>4. t \in HwTasks => HwRecord(r)
  BY <1>0, <1>1, <1>2 DEF HwRecord, TypedInv, FrontEndFirst
<1>5. task' \in [Tasks -> TaskRecords] /\ FrontEndFirst' /\ OthersKept(t) /\ task'[t] = r
  BY <1>2, <1>3, <1>4, RecordSet
<1>6. /\ UNCHANGED <<slot, taskNum, namespaces, vector, enabled>>
      /\ ready' = ready /\ broken' \subseteq Tasks /\ busy' = FALSE
  BY DEF AlgoConfig, AlgoLoad, Done, TypedInv, TypeOK
<1> QED  BY <1>1, <1>2, <1>5, <1>6 DEF CommandEffect, TypedInv, TypeOK

\* dsp_task_start of a hardware task: its interrupt triggers it from now on.
LEMMA StartHwTyped ==
  ASSUME TypedInv, NEW s, NEW t \in Tasks, StartHw(s, t)
  PROVE  /\ CommandEffect(s, t)
         /\ t \in HwTasks /\ task[t].irq \in Irqs /\ task[t].fe
         /\ task'[t].irq = task[t].irq /\ task'[t].fe = task[t].fe
         /\ vector' = [vector EXCEPT ![task[t].irq] = Trigger(t)]
         /\ enabled' = enabled \union {task[t].irq}
<1>. DEFINE h == IF vector[task[t].irq].trigger THEN Trigger(LatestRunning(t, task[t].irq)) ELSE Driver
            r == [task[t] EXCEPT !.status = "RUNING", !.handler = h]
<1>0. task[t] \in TaskRecords /\ t \in HwTasks /\ task[t].status = "READY"
  BY DEF TypedInv, TypeOK, StartHw
<1>1. task[t].irq \in Irqs /\ task[t].fe
  BY <1>0 DEF TypedInv, FrontEndFirst
<1>2. h \in Handlers
  BY LatestRunningTyped DEF Handlers, Trigger, Driver
<1>3. task' = [task EXCEPT ![t] = r]
  BY DEF StartHw, TypedInv, TypeOK
<1>. HIDE DEF h
<1>4. r \in TaskRecords /\ r.fe = task[t].fe /\ r.irq = task[t].irq /\ r.status = "RUNING" /\ r.type = task[t].type
  BY <1>0, <1>2 DEF TaskRecords
<1>. HIDE DEF r
<1>5. HwRecord(r)
  BY <1>0, <1>1, <1>4 DEF HwRecord, TypedInv, FrontEndFirst
<1>6. task' \in [Tasks -> TaskRecords] /\ FrontEndFirst' /\ OthersKept(t) /\ task'[t] = r
  BY <1>3, <1>4, <1>5, RecordSet
<1>7. /\ vector' = [vector EXCEPT ![task[t].irq] = Trigger(t)]
      /\ enabled' = enabled \union {task[t].irq}
  BY DEF StartHw
<1>8. Trigger(t) \in Handlers
  BY DEF Trigger, Handlers
<1>9. vector' \in [Irqs -> Handlers] /\ enabled' \subseteq Irqs
  BY <1>1, <1>7, <1>8 DEF TypedInv, TypeOK
<1>10. /\ UNCHANGED <<slot, taskNum, namespaces>>
       /\ ready' = ready /\ broken' \subseteq Tasks /\ busy' = FALSE
  BY DEF StartHw, Done, TypedInv, TypeOK
<1> QED  BY <1>0, <1>1, <1>4, <1>6, <1>7, <1>9, <1>10 DEF CommandEffect

\* dsp_task_start of a software task hooks nothing.
LEMMA StartSwTyped ==
  ASSUME TypedInv, NEW s, NEW t \in Tasks, StartSw(s, t)
  PROVE  /\ CommandEffect(s, t) /\ UNCHANGED <<vector, enabled>>
         /\ t \notin HwTasks
<1>. DEFINE r == [task[t] EXCEPT !.status = "RUNING"]
<1>0. task[t] \in TaskRecords /\ t \notin HwTasks /\ task[t].status = "READY"
  BY TableAssumption DEF TypedInv, TypeOK, StartSw
<1>1. task' = [task EXCEPT ![t] = r]
  BY DEF StartSw, TypedInv, TypeOK
<1>2. r \in TaskRecords /\ r.status = "RUNING"
  BY <1>0 DEF TaskRecords
<1>. HIDE DEF r
<1>3. task' \in [Tasks -> TaskRecords] /\ FrontEndFirst' /\ OthersKept(t) /\ task'[t] = r
  BY <1>0, <1>1, <1>2, RecordSet
<1>4. /\ UNCHANGED <<slot, taskNum, namespaces, vector, enabled>>
      /\ ready' = ready /\ broken' \subseteq Tasks /\ busy' = FALSE
  BY DEF StartSw, Done, TypedInv, TypeOK
<1> QED  BY <1>0, <1>2, <1>3, <1>4 DEF CommandEffect, TypedInv, TypeOK

\* dsp_task_stop: the task is ready again, and a hardware task is unhooked.
LEMMA StopTaskTyped ==
  ASSUME TypedInv, NEW s, NEW t \in Tasks, StopTask(s, t)
  PROVE  /\ CommandEffect(s, t)
         /\ task'[t].irq = task[t].irq /\ task'[t].fe = task[t].fe /\ task'[t].status = "READY"
         /\ t \notin HwTasks => UNCHANGED <<vector, enabled>>
         /\ t \in HwTasks =>
              /\ task[t].fe
              /\ \A i \in Irqs \ {task[t].irq} :
                   vector'[i] = vector[i] /\ (i \in enabled => i \in enabled')
<1>. DEFINE r == [task[t] EXCEPT !.status = "READY"]
<1>0. task[t] \in TaskRecords /\ task[t].status = "RUNING"
  BY DEF TypedInv, TypeOK, StopTask
<1>1. task' = [task EXCEPT ![t] = r]
  BY DEF StopTask, TypedInv, TypeOK
<1>2. r \in TaskRecords /\ r.fe = task[t].fe /\ r.irq = task[t].irq /\ r.status = "READY" /\ r.type = task[t].type
  BY <1>0 DEF TaskRecords
<1>. HIDE DEF r
<1>3. t \in HwTasks => HwRecord(r) /\ task[t].fe /\ task[t].irq \in Irqs
  BY <1>0, <1>2 DEF HwRecord, TypedInv, FrontEndFirst
<1>4. task' \in [Tasks -> TaskRecords] /\ FrontEndFirst' /\ OthersKept(t) /\ task'[t] = r
  BY <1>1, <1>2, <1>3, RecordSet
<1>5. /\ UNCHANGED <<slot, taskNum, namespaces>>
      /\ ready' = ready /\ broken' \subseteq Tasks /\ busy' = FALSE
  BY DEF StopTask, Done, TypedInv, TypeOK
<1>6. /\ vector' \in [Irqs -> Handlers] /\ enabled' \subseteq Irqs
      /\ t \notin HwTasks => UNCHANGED <<vector, enabled>>
      /\ t \in HwTasks =>
           \A i \in Irqs \ {task[t].irq} : vector'[i] = vector[i] /\ (i \in enabled => i \in enabled')
  <2>1. CASE t \in HwTasks
    <3>1. Driver \in Handlers /\ Trigger(t) \in Handlers
      BY DEF Driver, Trigger, Handlers
    <3>2. PICK h \in Handlers : vector' = [vector EXCEPT ![task[t].irq] = h]
      BY <2>1, <3>1 DEF StopTask
    <3>3. enabled' = enabled \ {task[t].irq}
      BY <2>1 DEF StopTask
    <3> QED  BY <2>1, <3>2, <3>3 DEF TypedInv, TypeOK
  <2>2. CASE t \notin HwTasks
    BY <2>2 DEF StopTask, TypedInv, TypeOK
  <2> QED  BY <2>1, <2>2
<1> QED  BY <1>0, <1>2, <1>3, <1>4, <1>5, <1>6 DEF CommandEffect

\* The task is freed and leaves its slot; the interrupts stay as they are.
LEMMA DestroyTyped ==
  ASSUME TypedInv, NEW s \in Slots, NEW t \in Tasks, Destroy(s, t)
  PROVE  /\ CommandEffect(s, t) /\ UNCHANGED <<vector, enabled>>
         /\ slot' \in [Slots -> Tasks \union {NoTask}] /\ taskNum' \in 0..Cardinality(Tasks)
<1>. DEFINE r == [task[t] EXCEPT !.status = "FREE", !.algo = FALSE, !.param = "NULL"]
<1>0. task[t] \in TaskRecords
  BY DEF TypedInv, TypeOK
<1>1. task' = [task EXCEPT ![t] = r]
  BY DEF Destroy, TypedInv, TypeOK
<1>2. r \in TaskRecords /\ r.fe = task[t].fe /\ r.irq = task[t].irq /\ r.status = "FREE" /\ r.type = task[t].type
  BY <1>0 DEF TaskRecords
<1>. HIDE DEF r
<1>3. t \in HwTasks => HwRecord(r)
  BY <1>2 DEF HwRecord, TypedInv, FrontEndFirst
<1>4. task' \in [Tasks -> TaskRecords] /\ FrontEndFirst' /\ OthersKept(t) /\ task'[t] = r
  BY <1>1, <1>2, <1>3, RecordSet
<1>5. /\ UNCHANGED <<vector, enabled>>
      /\ ready' = ready /\ broken' \subseteq Tasks /\ busy' = FALSE
  BY DEF Destroy, Done, TypedInv, TypeOK
<1>6. slot' \in [Slots -> Tasks \union {NoTask}] /\ taskNum' \in 0..Cardinality(Tasks)
  BY TasksFinite DEF Destroy, TypedInv, TypeOK, Slots
<1> QED  BY <1>2, <1>4, <1>5, <1>6 DEF CommandEffect, TypedInv, TypeOK

\* Every command on a task, from those above.
LEMMA CommandTyped ==
  ASSUME TypedInv, NEW s \in Slots, NEW t \in Tasks, CommandOn(s, t)
  PROVE  CommandEffect(s, t)
BY FeConfigTyped, BeConfigTyped, AlgorithmTyped, StartHwTyped, StartSwTyped, StopTaskTyped,
   DestroyTyped DEF CommandOn

\* A command, an interrupt or a run of a task.
LEMMA TypedStep == TypedInv /\ [Next]_vars => TypedInv'
<1>. SUFFICES ASSUME TypedInv, [Next]_vars PROVE TypedInv'
  OBVIOUS
<1>1. ASSUME NEW i \in Irqs, Interrupt(i) PROVE TypedInv'
  BY <1>1 DEF Interrupt, TypedInv, TypeOK, FrontEndFirst
<1>2. ASSUME NEW t \in HwTasks, RunHwTask(t) PROVE TypedInv'
  BY <1>2 DEF RunHwTask, TypedInv, TypeOK, FrontEndFirst
<1>3. CASE TakeCommand
  BY <1>3 DEF TakeCommand, TypedInv, TypeOK, FrontEndFirst
<1>4. ASSUME NEW t \in HwTasks, CreateHw(t) PROVE TypedInv'
  <2>1. /\ task' \in [Tasks -> TaskRecords] /\ FrontEndFirst'
        /\ slot' \in [Slots -> Tasks \union {NoTask}] /\ taskNum' \in 0..Cardinality(Tasks)
    BY <1>4, AddTaskTyped DEF CreateHw
  <2>2. broken' \subseteq Tasks /\ busy' = FALSE /\ UNCHANGED <<namespaces, vector, enabled, ready>>
    BY <1>4 DEF CreateHw, Done, TypedInv, TypeOK
  <2> QED  BY <2>1, <2>2 DEF TypedInv, TypeOK
<1>5. ASSUME NEW t \in SwTasks, NEW type \in {"SW_TO_SW", "SW_TO_HW"}, CreateSw(t, type) PROVE TypedInv'
  <2>0. t \notin HwTasks /\ t \in Tasks
    BY TableAssumption DEF Tasks
  <2>1. /\ task' \in [Tasks -> TaskRecords] /\ FrontEndFirst'
        /\ slot' \in [Slots -> Tasks \union {NoTask}] /\ taskNum' \in 0..Cardinality(Tasks)
    BY <1>5, <2>0, AddTaskTyped DEF CreateSw
  <2>2. /\ broken' \subseteq Tasks /\ busy' = FALSE /\ UNCHANGED <<vector, enabled, ready>>
        /\ namespaces' \subseteq Tasks
    BY <1>5, <2>0 DEF CreateSw, Done, TypedInv, TypeOK
  <2> QED  BY <2>1, <2>2 DEF TypedInv, TypeOK
<1>6. ASSUME NEW s \in Slots, NEW t \in Tasks, CommandOn(s, t) PROVE TypedInv'
  <2>1. CommandEffect(s, t)
    BY <1>6, CommandTyped
  <2>2. CASE Destroy(s, t)
    <3>1. slot' \in [Slots -> Tasks \union {NoTask}] /\ taskNum' \in 0..Cardinality(Tasks)
      BY <2>2, DestroyTyped
    <3>2. namespaces' \subseteq Tasks
      BY <2>2 DEF Destroy, TypedInv, TypeOK
    <3> QED  BY <2>1, <3>1, <3>2 DEF CommandEffect, TypedInv, TypeOK
  <2>3. CASE ~Destroy(s, t)
    BY <2>1, <2>3 DEF CommandEffect, TypedInv, TypeOK
  <2> QED  BY <2>2, <2>3
<1>7. CASE UNCHANGED vars
  BY <1>7 DEF vars, TypedInv, TypeOK, FrontEndFirst
<1> QED  BY <1>1, <1>2, <1>3, <1>4, <1>5, <1>6, <1>7 DEF Next, Create

\* Tasks, slots and handlers keep their types, whatever the host does.
THEOREM LifecycleTyped == Spec => []TypeOK
<1>1. TypedInv => TypeOK
  BY DEF TypedInv
<1> QED  BY InitTyped, TypedStep, <1>1, PTL DEF Spec

-----------------------------------------------------------------------------
(* Namespaces. *)

\* The two tasks of init_scheduler are never freed.
OwnTasksKept == task[Common].status # "FREE" /\ task[Idle].status # "FREE"

NamesInv == TypedInv /\ OwnTasksKept /\ NamespaceOfAllocated

\* The steps that neither allocate nor free.
LEMMA SameAllocated ==
  ASSUME \A u \in Tasks : task'[u].status = "FREE" <=> task[u].status = "FREE"
  PROVE  Allocated' = Allocated /\ (OwnTasksKept => OwnTasksKept')
BY DEF Allocated, OwnTasksKept, Tasks

\* Of the commands on a task only the one that destroys it changes who is allocated.
LEMMA CommandSameAllocated ==
  ASSUME NEW s, NEW t \in Tasks, CommandEffect(s, t)
  PROVE  \/ Allocated' = Allocated /\ (OwnTasksKept => OwnTasksKept')
            /\ UNCHANGED <<slot, taskNum, namespaces>>
         \/ Destroy(s, t) /\ Allocated' = Allocated \ {t}
<1>1. CASE Destroy(s, t) /\ task'[t].status = "FREE"
  BY <1>1 DEF CommandEffect, OthersKept, Allocated
<1>2. CASE task'[t].status = "FREE" <=> task[t].status = "FREE"
  <2>1. \A u \in Tasks : task'[u].status = "FREE" <=> task[u].status = "FREE"
    BY <1>2 DEF CommandEffect, OthersKept
  <2>2. Allocated' = Allocated /\ (OwnTasksKept => OwnTasksKept')
    BY <2>1, SameAllocated
  <2>3. CASE UNCHANGED <<slot, taskNum, namespaces>>
    BY <2>2, <2>3
  <2>4. CASE ~UNCHANGED <<slot, taskNum, namespaces>>
    BY <1>1, <2>4 DEF CommandEffect
  <2> QED  BY <2>3, <2>4
<1> QED  BY <1>1, <1>2 DEF CommandEffect

\* A task that is added is allocated, and nobody else.
LEMMA AddTaskAllocates ==
  ASSUME TypedInv, NEW t \in HwTasks \union SwTasks,
         NEW type \in {"HW", "SW_TO_SW", "SW_TO_HW"}, AddTask(t, type),
         t \in HwTasks => type = "HW"
  PROVE  Allocated' = Allocated \union {t} /\ (OwnTasksKept => OwnTasksKept')
<1>1. t \in Tasks /\ t \notin {Common, Idle} /\ Common \in Tasks /\ Idle \in Tasks
  BY TableAssumption DEF Tasks
<1>2. OthersKept(t) /\ task'[t].status \in {"IDEL", "READY"}
  BY AddTaskTyped
<1> QED  BY <1>1, <1>2 DEF OthersKept, Allocated, OwnTasksKept

\* A step keeps a name for every task of a user.
LEMMA NamesStep == NamesInv /\ [Next]_vars => NamesInv'
<1>. SUFFICES ASSUME NamesInv, [Next]_vars PROVE NamesInv'
  OBVIOUS
<1>. USE DEF NamesInv
<1>0. TypedInv'
  BY TypedStep
<1>1. CASE UNCHANGED <<task, namespaces>>
  BY <1>0, <1>1 DEF OwnTasksKept, NamespaceOfAllocated, Allocated
<1>2. ASSUME NEW t \in HwTasks, CreateHw(t) PROVE NamesInv'
  <2>1. Allocated' = Allocated \union {t} /\ OwnTasksKept'
    BY <1>2, AddTaskAllocates DEF CreateHw
  <2>2. namespaces' = namespaces
    BY <1>2 DEF CreateHw
  <2> QED  BY <1>0, <2>1, <2>2 DEF NamespaceOfAllocated
<1>3. ASSUME NEW t \in SwTasks, NEW type \in {"SW_TO_SW", "SW_TO_HW"}, CreateSw(t, type) PROVE NamesInv'
  <2>0. t \notin HwTasks /\ t # Idle
    BY TableAssumption
  <2>1. Allocated' = Allocated \union {t} /\ OwnTasksKept'
    BY <1>3, <2>0, AddTaskAllocates DEF CreateSw
  <2>2. namespaces' = namespaces \union {t}
    BY <1>3 DEF CreateSw
  <2> QED  BY <1>0, <2>0, <2>1, <2>2 DEF NamespaceOfAllocated
<1>4. ASSUME NEW s \in Slots, NEW t \in Tasks, CommandOn(s, t) PROVE NamesInv'
  <2>1. CommandEffect(s, t)
    BY <1>4, CommandTyped
  <2>2. CASE Destroy(s, t) /\ Allocated' = Allocated \ {t}
    <3>1. namespaces' = namespaces \ {t} /\ t \notin {Common, Idle}
      BY <2>2 DEF Destroy, Named
    <3>2. OwnTasksKept'
      BY <2>1, <3>1 DEF CommandEffect, OthersKept, OwnTasksKept, Tasks
    <3> QED  BY <1>0, <2>2, <3>1, <3>2 DEF NamespaceOfAllocated
  <2>3. CASE Allocated' = Allocated /\ OwnTasksKept' /\ UNCHANGED namespaces
    BY <1>0, <2>3 DEF NamespaceOfAllocated
  <2> QED  BY <2>1, <2>2, <2>3, CommandSameAllocated
<1>5. CASE \E i \in Irqs : Interrupt(i)
  BY <1>1, <1>5 DEF Interrupt
<1>6. CASE \E t \in HwTasks : RunHwTask(t)
  BY <1>1, <1>6 DEF RunHwTask
<1>7. CASE TakeCommand
  BY <1>1, <1>7 DEF TakeCommand
<1>8. CASE UNCHANGED vars
  BY <1>1, <1>8 DEF vars
<1> QED  BY <1>2, <1>3, <1>4, <1>5, <1>6, <1>7, <1>8 DEF Next, Create

\* At start no task has a user.
LEMMA InitNames == Init => NamesInv
<1>. SUFFICES ASSUME Init PROVE NamesInv
  OBVIOUS
<1>1. \A t \in Tasks : task[t].status = IF t \in {Common, Idle} THEN "IDEL" ELSE "FREE"
  BY DEF Init, FreshTask
<1>2. Allocated = {Common, Idle}
  BY <1>1 DEF Allocated, Tasks
<1>3. NamespaceOfAllocated
  BY <1>2, TableAssumption DEF NamespaceOfAllocated, Init
<1> QED  BY <1>1, <1>3, InitTyped DEF NamesInv, OwnTasksKept, Tasks

\* The host can send requests to exactly the software tasks it has allocated.
THEOREM NamespacesStayAllocated == Spec => []NamespaceOfAllocated
<1>1. NamesInv => NamespaceOfAllocated
  BY DEF NamesInv
<1> QED  BY InitNames, NamesStep, <1>1, PTL DEF Spec

-----------------------------------------------------------------------------
(* Slots. *)

\* What makes SlotsHoldAllocated inductive: the slots are an enumeration of the
\* allocated tasks, with holes below task_num only.
SlotsInjective == \A r, s \in Slots : slot[r] # NoTask /\ slot[r] = slot[s] => r = s
AllHaveSlots == \A t \in Allocated : \E s \in Slots : slot[s] = t
SlotsBelowNum == \A s \in Slots : slot[s] # NoTask => slot[s] \in Allocated /\ s < taskNum

SlotsInv == TypedInv /\ SlotsInjective /\ AllHaveSlots /\ SlotsBelowNum

\* The mark of an empty slot is no task.
LEMMA NoTaskIsNone == NoTask \notin Tasks
BY TableAssumption DEF NoTask

\* While a task is free there is a slot for it, a hole if need be: pigeons and
\* holes.
LEMMA RoomForTasks ==
  ASSUME SlotsInv, Allocated # Tasks
  PROVE  FreeSlots # {}
<1>. USE DEF SlotsInv
<1>1. CASE taskNum < Cardinality(Tasks)
  BY <1>1 DEF FreeSlots
<1>2. CASE ~(taskNum < Cardinality(Tasks))
  <2>1. \E s \in Slots : slot[s] = NoTask
    <3>. SUFFICES ASSUME \A s \in Slots : slot[s] # NoTask PROVE FALSE
      OBVIOUS
    <3>1. slot \in [Slots -> Allocated]
      BY DEF SlotsBelowNum, TypedInv, TypeOK
    <3>2. slot \in Injection(Slots, Allocated)
      BY <3>1 DEF Injection, IsInjective, SlotsInjective
    <3>3. IsFiniteSet(Allocated) /\ Cardinality(Allocated) <= Cardinality(Tasks)
          /\ Cardinality(Allocated) # Cardinality(Tasks)
      <4>1. Allocated \in SUBSET Tasks
        BY DEF Allocated
      <4> QED  BY <4>1, TasksFinite, FS_Subset
    <3>4. Cardinality(Slots) <= Cardinality(Allocated)
      BY <3>2, <3>3, FS_Injection
    <3>5. Cardinality(Allocated) \in Nat
      BY <3>3, FS_CardinalityType
    <3> QED  BY <3>3, <3>4, <3>5, TasksFinite
  <2>2. PICK s \in {r \in Slots : slot[r] = NoTask} : \A r \in {q \in Slots : slot[q] = NoTask} : s <= r
    <3>1. {r \in Slots : slot[r] = NoTask} \in SUBSET Nat /\ {r \in Slots : slot[r] = NoTask} # {}
      BY <2>1, TasksFinite
    <3> QED  BY <3>1, LeastOf
  <2>3. ASSUME NEW r \in 0..(s - 1) PROVE slot[r] # NoTask
    <3>1. s \in Slots /\ s \in Nat
      BY <2>2, TasksFinite
    <3>2. r \in Slots /\ ~ (s <= r)
      BY <3>1, TasksFinite DEF Slots
    <3> QED  BY <2>2, <3>2
  <2>4. s \in FreeSlots
    BY <1>2, <2>2, <2>3 DEF FreeSlots
  <2> QED  BY <2>4
<1> QED  BY <1>1, <1>2

\* A new task is put where there is none.
LEMMA FreeSlotsEmpty ==
  ASSUME SlotsInv, NEW s \in FreeSlots
  PROVE  s \in Slots /\ slot[s] = NoTask /\ (taskNum < Cardinality(Tasks) => s = taskNum)
<1>. USE DEF SlotsInv
<1>1. CASE taskNum < Cardinality(Tasks)
  <2>1. s = taskNum
    BY <1>1 DEF FreeSlots
  <2>2. s \in Slots /\ ~ (s < taskNum)
    BY <1>1, <2>1, TasksFinite DEF TypedInv, TypeOK, Slots
  <2> QED  BY <2>1, <2>2 DEF SlotsBelowNum
<1>2. CASE ~(taskNum < Cardinality(Tasks))
  BY <1>2 DEF FreeSlots
<1> QED  BY <1>1, <1>2

\* Found in a slot, and no two tasks in one: one slot each.
LEMMA SlotsInvImplies == SlotsInv => SlotsHoldAllocated
<1>. SUFFICES ASSUME SlotsInv PROVE SlotsHoldAllocated
  OBVIOUS
<1>1. ASSUME NEW t \in Allocated PROVE Cardinality({s \in Slots : slot[s] = t}) = 1
  <2>1. PICK s \in Slots : slot[s] = t
    BY DEF SlotsInv, AllHaveSlots
  <2>2. t # NoTask
    BY NoTaskIsNone DEF Allocated
  <2>3. {r \in Slots : slot[r] = t} = {s}
    BY <2>1, <2>2 DEF SlotsInv, SlotsInjective
  <2> QED  BY <2>3, FS_Singleton
<1>2. \A s \in Slots : slot[s] # NoTask => slot[s] \in Allocated /\ s < taskNum
  BY DEF SlotsInv, SlotsBelowNum
<1>3. Allocated # Tasks => FreeSlots # {} /\ \A s \in FreeSlots : slot[s] = NoTask
  BY RoomForTasks, FreeSlotsEmpty
<1> QED  BY <1>1, <1>2, <1>3 DEF SlotsHoldAllocated

\* ps_add_task: the task goes to the first hole, or to the end.
LEMMA AddTaskSlots ==
  ASSUME SlotsInv, NEW t \in HwTasks \union SwTasks,
         NEW type \in {"HW", "SW_TO_SW", "SW_TO_HW"}, AddTask(t, type),
         t \in HwTasks => type = "HW", task[t].status = "FREE"
  PROVE  SlotsInjective' /\ AllHaveSlots' /\ SlotsBelowNum'
<1>. USE DEF SlotsInv
<1>1. Allocated' = Allocated \union {t}
  BY AddTaskAllocates
<1>2. t \notin Allocated /\ t # NoTask
  BY NoTaskIsNone DEF Allocated, Tasks
<1>3. PICK s \in FreeSlots : slot' = [slot EXCEPT ![s] = t]
  BY DEF AddTask
<1>4. s \in Slots /\ slot[s] = NoTask /\ (taskNum < Cardinality(Tasks) => s = taskNum)
  BY FreeSlotsEmpty
<1>5. slot'[s] = t /\ \A r \in Slots \ {s} : slot'[r] = slot[r]
  BY <1>3, <1>4 DEF TypedInv, TypeOK
<1>6. \A r \in Slots \ {s} : slot[r] # t
  BY <1>2 DEF SlotsBelowNum
<1>7. SlotsInjective'
  BY <1>5, <1>6 DEF SlotsInjective
<1>8. AllHaveSlots'
  <2>1. ASSUME NEW u \in Allocated PROVE \E r \in Slots : slot'[r] = u
    <3>1. PICK r \in Slots : slot[r] = u
      BY DEF AllHaveSlots
    <3>2. r # s
      BY <1>4, <3>1, NoTaskIsNone DEF Allocated
    <3> QED  BY <1>5, <3>1, <3>2
  <2> QED  BY <1>1, <1>4, <1>5, <2>1 DEF AllHaveSlots
<1>9. SlotsBelowNum'
  <2>1. s < taskNum' /\ taskNum <= taskNum' /\ taskNum \in Nat /\ taskNum' \in Nat
    BY <1>4, TasksFinite DEF AddTask, TypedInv, TypeOK, Slots
  <2>2. ASSUME NEW r \in Slots, slot'[r] # NoTask PROVE slot'[r] \in Allocated' /\ r < taskNum'
    <3>1. CASE r = s
      BY <1>1, <1>5, <2>1, <3>1
    <3>2. CASE r # s
      <4>1. slot[r] \in Allocated /\ r < taskNum /\ slot'[r] = slot[r]
        BY <1>5, <2>2, <3>2 DEF SlotsBelowNum
      <4>2. r \in Nat
        BY TasksFinite
      <4> QED  BY <1>1, <2>1, <4>1, <4>2
    <3> QED  BY <3>1, <3>2
  <2> QED  BY <2>2 DEF SlotsBelowNum
<1> QED  BY <1>7, <1>8, <1>9

\* The destroyed task's slot becomes a hole; the others keep theirs.
LEMMA DestroySlots ==
  ASSUME SlotsInv, NEW s \in Slots, NEW t \in Tasks, Destroy(s, t), Allocated' = Allocated \ {t}
  PROVE  SlotsInjective' /\ AllHaveSlots' /\ SlotsBelowNum'
<1>. USE DEF SlotsInv
<1>1. slot[s] = t /\ t # NoTask
  BY NoTaskIsNone DEF Destroy, Named
<1>2. slot'[s] = NoTask /\ \A r \in Slots \ {s} : slot'[r] = slot[r]
  BY DEF Destroy, TypedInv, TypeOK
<1>3. \A r \in Slots \ {s} : slot[r] # t
  BY <1>1 DEF SlotsInjective
<1>4. SlotsInjective'
  BY <1>2 DEF SlotsInjective
<1>5. AllHaveSlots'
  BY <1>1, <1>2 DEF AllHaveSlots
<1>6. SlotsBelowNum'
  <2>1. ASSUME NEW r \in Slots, slot'[r] # NoTask PROVE slot'[r] \in Allocated' /\ r < taskNum'
    <3>1. r # s /\ slot'[r] = slot[r] /\ slot[r] \in Allocated /\ r < taskNum /\ slot[r] # t
      BY <1>2, <1>3, <2>1 DEF SlotsBelowNum
    <3>2. r \in Nat /\ s \in Nat /\ taskNum \in Nat
      BY TasksFinite DEF TypedInv, TypeOK
    <3>3. taskNum' = IF taskNum = s + 1 THEN taskNum - 1 ELSE taskNum
      BY DEF Destroy
    <3>4. r < taskNum'
      BY <3>1, <3>2, <3>3
    <3> QED  BY <3>1, <3>4
  <2> QED  BY <2>1 DEF SlotsBelowNum
<1> QED  BY <1>4, <1>5, <1>6

\* A step that allocates takes a slot, one that frees gives one back.
LEMMA SlotsStep == SlotsInv /\ [Next]_vars => SlotsInv'
<1>. SUFFICES ASSUME SlotsInv, [Next]_vars PROVE SlotsInv'
  OBVIOUS
<1>0. TypedInv /\ TypedInv'
  BY TypedStep DEF SlotsInv
<1>1. ASSUME Allocated' = Allocated, UNCHANGED <<slot, taskNum>> PROVE SlotsInv'
  BY <1>0, <1>1 DEF SlotsInv, SlotsInjective, AllHaveSlots, SlotsBelowNum
<1>2. ASSUME NEW t \in HwTasks, CreateHw(t) PROVE SlotsInv'
  <2>1. AddTask(t, "HW") /\ task[t].status = "FREE"
    BY <1>2 DEF CreateHw, LowestFree
  <2> QED  BY <1>0, <2>1, AddTaskSlots DEF SlotsInv
<1>3. ASSUME NEW t \in SwTasks, NEW type \in {"SW_TO_SW", "SW_TO_HW"}, CreateSw(t, type) PROVE SlotsInv'
  <2>1. AddTask(t, type) /\ task[t].status = "FREE" /\ t \notin HwTasks
    BY <1>3, TableAssumption DEF CreateSw, LowestFree
  <2> QED  BY <1>0, <2>1, AddTaskSlots DEF SlotsInv
<1>4. ASSUME NEW s \in Slots, NEW t \in Tasks, CommandOn(s, t) PROVE SlotsInv'
  <2>1. CommandEffect(s, t)
    BY <1>0, <1>4, CommandTyped
  <2>2. CASE Destroy(s, t) /\ Allocated' = Allocated \ {t}
    BY <1>0, <2>2, DestroySlots DEF SlotsInv
  <2> QED  BY <1>1, <2>1, <2>2, CommandSameAllocated
<1>5. CASE UNCHANGED <<task, slot, taskNum>>
  BY <1>1, <1>5 DEF Allocated
<1>6. CASE \E i \in Irqs : Interrupt(i)
  BY <1>5, <1>6 DEF Interrupt
<1>7. CASE \E t \in HwTasks : RunHwTask(t)
  BY <1>5, <1>7 DEF RunHwTask
<1>8. CASE TakeCommand
  BY <1>5, <1>8 DEF TakeCommand
<1>9. CASE UNCHANGED vars
  BY <1>5, <1>9 DEF vars
<1> QED  BY <1>2, <1>3, <1>4, <1>6, <1>7, <1>8, <1>9 DEF Next, Create

\* At start the two system tasks have the first two slots.
LEMMA InitSlots == Init => SlotsInv
<1>. SUFFICES ASSUME Init PROVE SlotsInv
  OBVIOUS
<1>1. \A t \in Tasks : task[t].status = IF t \in {Common, Idle} THEN "IDEL" ELSE "FREE"
  BY DEF Init, FreshTask
<1>2. Allocated = {Common, Idle}
  BY <1>1 DEF Allocated, Tasks
<1>3. \A s \in Slots : slot[s] = IF s = 0 THEN Common ELSE IF s = 1 THEN Idle ELSE NoTask
  BY DEF Init
<1>4. Common # Idle /\ Common # NoTask /\ Idle # NoTask
  BY TableAssumption, NoTaskIsNone DEF Tasks
<1>5. SlotsInjective
  BY <1>3, <1>4 DEF SlotsInjective
<1>6. AllHaveSlots
  BY <1>2, <1>3, TasksFinite DEF AllHaveSlots
<1>7. SlotsBelowNum
  BY <1>2, <1>3 DEF SlotsBelowNum, Init
<1> QED  BY <1>5, <1>6, <1>7, InitTyped DEF SlotsInv

\* Whatever the host allocates and frees in whatever order, every allocated
\* task has one slot and every slot an allocated task, and there is a slot left
\* for every task that is.
THEOREM SlotsStayAllocated == Spec => []SlotsHoldAllocated
BY InitSlots, SlotsStep, SlotsInvImplies, PTL DEF Spec

-----------------------------------------------------------------------------
(* Hooks, under a careful host with a front end for each task. *)

InUse(t) == task[t].status # "FREE" /\ task[t].fe
OwnFrontEnds == \A t, u \in HwTasks : t # u /\ InUse(t) /\ InUse(u) => task[t].irq # task[u].irq

\* Stronger than RunningIsHooked: the trigger of a running task is not reached
\* through another's.
RunningIsFirst ==
  \A t \in HwTasks : task[t].status = "RUNING" =>
    task[t].irq \in enabled /\ vector[task[t].irq] = Trigger(t)

HooksInv == TypedInv /\ OwnFrontEnds /\ RunningIsFirst

\* A step that keeps the front end of every task, starts none, and changes the
\* hooks of no running task.
LEMMA HooksKept ==
  ASSUME HooksInv, TypedInv',
         \A t \in HwTasks : InUse(t)' => InUse(t) /\ task'[t].irq = task[t].irq,
         \A t \in HwTasks : task'[t].status = "RUNING" =>
           /\ task[t].status = "RUNING"
           /\ task[t].irq \in enabled'
           /\ vector'[task[t].irq] = vector[task[t].irq]
  PROVE  HooksInv'
<1>1. OwnFrontEnds'
  BY DEF HooksInv, OwnFrontEnds
<1>2. ASSUME NEW t \in HwTasks, task'[t].status = "RUNING"
      PROVE  task'[t].irq \in enabled' /\ vector'[task'[t].irq] = Trigger(t)
  <2>1. task'[t].fe
    BY <1>2 DEF TypedInv, FrontEndFirst
  <2>2. task'[t].irq = task[t].irq
    BY <1>2, <2>1 DEF InUse
  <2> QED  BY <1>2, <2>2 DEF HooksInv, RunningIsFirst
<1> QED  BY <1>1, <1>2 DEF HooksInv, RunningIsFirst

\* A step keeps the running tasks hooked, under a careful host that shares no front
\* end.
LEMMA HooksStep ==
  ASSUME Careful, ~Shared, HooksInv, [Next]_vars
  PROVE  HooksInv'
<1>. USE DEF HooksInv
<1>0. TypedInv'
  BY TypedStep
<1>01. \A t \in HwTasks : t \in Tasks
  BY DEF Tasks
<1>02. \A t \in HwTasks : task[t].status = "RUNING" => InUse(t) /\ task[t].irq \in Irqs
  BY DEF TypedInv, FrontEndFirst, InUse
<1>1. ASSUME UNCHANGED <<task, vector, enabled>> PROVE HooksInv'
  BY <1>0, <1>1 DEF OwnFrontEnds, RunningIsFirst, InUse
<1>2. ASSUME NEW t \in HwTasks \union SwTasks, NEW type \in {"HW", "SW_TO_SW", "SW_TO_HW"},
             AddTask(t, type), t \in HwTasks => type = "HW", UNCHANGED <<vector, enabled>>
      PROVE  HooksInv'
  <2>1. OthersKept(t) /\ ~task'[t].fe
    BY <1>2, AddTaskTyped
  <2>2. \A u \in HwTasks : InUse(u)' => u # t
    BY <2>1 DEF InUse
  <2>3. \A u \in HwTasks : task'[u].status = "RUNING" => u # t
    BY <1>0, <2>1 DEF TypedInv, FrontEndFirst
  <2>4. \A u \in HwTasks : u # t => task'[u] = task[u]
    BY <1>01, <2>1 DEF OthersKept
  <2> QED  BY <1>0, <1>2, <2>2, <2>3, <2>4, HooksKept DEF InUse, RunningIsFirst
<1>3. ASSUME NEW s \in Slots, NEW t \in Tasks, NEW i \in Irqs, FeConfig(s, t, i) PROVE HooksInv'
  <2>1. OthersKept(t) /\ task'[t].irq = i /\ (task'[t].status = "RUNING" => task[t].status = "RUNING")
    BY <1>3, FeConfigTyped DEF CommandEffect
  <2>2. /\ t \in HwTasks /\ task[t].status # "RUNING"
        /\ \A u \in HwTasks : task[u].status = "RUNING" => task[u].irq # i
        /\ \A u \in HwTasks \ {t} : task[u].status # "FREE" => task[u].irq # i
        /\ vector' = [vector EXCEPT ![i] = Driver] /\ enabled' = enabled \union {i}
    BY <1>3 DEF FeConfig
  <2>3. \A u \in HwTasks : u # t => task'[u] = task[u]
    BY <1>01, <2>1 DEF OthersKept
  <2>4. OwnFrontEnds'
    BY <2>1, <2>2, <2>3 DEF OwnFrontEnds, InUse
  <2>5. ASSUME NEW u \in HwTasks, task'[u].status = "RUNING"
        PROVE  task'[u].irq \in enabled' /\ vector'[task'[u].irq] = Trigger(u)
    <3>1. u # t /\ task'[u] = task[u]
      BY <2>1, <2>2, <2>3, <2>5
    <3>2. task[u].irq \in enabled /\ vector[task[u].irq] = Trigger(u) /\ task[u].irq # i /\ task[u].irq \in Irqs
      BY <1>02, <2>2, <2>5, <3>1 DEF RunningIsFirst
    <3> QED  BY <2>2, <3>1, <3>2 DEF TypedInv, TypeOK
  <2> QED  BY <1>0, <2>4, <2>5 DEF RunningIsFirst
<1>4. ASSUME NEW s \in Slots, NEW t \in Tasks, BeConfig(s, t) \/ AlgoConfig(s, t) \/ AlgoLoad(s, t)
      PROVE  HooksInv'
  <2>1. /\ CommandEffect(s, t) /\ UNCHANGED <<vector, enabled>>
        /\ task'[t].irq = task[t].irq /\ task'[t].fe = task[t].fe
        /\ task'[t].status = "RUNING" => task[t].status = "RUNING"
    BY <1>4, BeConfigTyped, AlgorithmTyped
  <2>2. task'[t].status = "FREE" <=> task[t].status = "FREE"
    <3>1. slot[s] = t => slot'[s] # NoTask \/ ~Destroy(s, t)
      BY <1>4, NoTaskIsNone DEF BeConfig, AlgoConfig, AlgoLoad
    <3>2. slot[s] = t
      BY <1>4 DEF BeConfig, AlgoConfig, AlgoLoad, Named
    <3>3. Destroy(s, t) => slot'[s] = NoTask
      BY DEF Destroy, TypedInv, TypeOK
    <3> QED  BY <2>1, <3>1, <3>2, <3>3 DEF CommandEffect
  <2>3. \A u \in HwTasks : u # t => task'[u] = task[u]
    BY <1>01, <2>1 DEF CommandEffect, OthersKept
  <2> QED  BY <1>0, <2>1, <2>2, <2>3, HooksKept DEF InUse, RunningIsFirst
<1>5. ASSUME NEW s \in Slots, NEW t \in Tasks, StartHw(s, t) PROVE HooksInv'
  <2>1. /\ OthersKept(t) /\ t \in HwTasks /\ task[t].irq \in Irqs /\ task[t].fe
        /\ task'[t].irq = task[t].irq /\ task'[t].fe = task[t].fe
        /\ vector' = [vector EXCEPT ![task[t].irq] = Trigger(t)]
        /\ enabled' = enabled \union {task[t].irq}
    BY <1>5, StartHwTyped DEF CommandEffect
  <2>2. InUse(t)
    BY <1>5, <2>1 DEF InUse, StartHw
  <2>3. \A u \in HwTasks : u # t => task'[u] = task[u]
    BY <1>01, <2>1 DEF OthersKept
  <2>4. OwnFrontEnds'
    BY <2>1, <2>2, <2>3 DEF OwnFrontEnds, InUse
  <2>5. ASSUME NEW u \in HwTasks, task'[u].status = "RUNING"
        PROVE  task'[u].irq \in enabled' /\ vector'[task'[u].irq] = Trigger(u)
    <3>1. CASE u = t
      BY <2>1, <3>1 DEF TypedInv, TypeOK
    <3>2. CASE u # t
      <4>1. task'[u] = task[u] /\ InUse(u) /\ task[u].irq \in Irqs
        BY <1>02, <2>3, <2>5, <3>2
      <4>2. task[u].irq # task[t].irq /\ task[u].irq \in enabled /\ vector[task[u].irq] = Trigger(u)
        BY <2>1, <2>2, <2>5, <3>2, <4>1 DEF OwnFrontEnds, RunningIsFirst
      <4> QED  BY <2>1, <4>1, <4>2 DEF TypedInv, TypeOK
    <3> QED  BY <3>1, <3>2
  <2> QED  BY <1>0, <2>4, <2>5 DEF RunningIsFirst
<1>6. ASSUME NEW s \in Slots, NEW t \in Tasks, StartSw(s, t) PROVE HooksInv'
  <2>1. OthersKept(t) /\ UNCHANGED <<vector, enabled>> /\ t \notin HwTasks
    BY <1>6, StartSwTyped DEF CommandEffect
  <2>2. \A u \in HwTasks : task'[u] = task[u]
    BY <1>01, <2>1 DEF OthersKept
  <2> QED  BY <1>0, <2>1, <2>2, HooksKept DEF InUse, RunningIsFirst
<1>7. ASSUME NEW s \in Slots, NEW t \in Tasks, StopTask(s, t) PROVE HooksInv'
  <2>1. /\ OthersKept(t)
        /\ task'[t].irq = task[t].irq /\ task'[t].fe = task[t].fe /\ task'[t].status = "READY"
        /\ t \notin HwTasks => UNCHANGED <<vector, enabled>>
        /\ t \in HwTasks =>
             /\ task[t].fe
             /\ \A i \in Irqs \ {task[t].irq} :
                  vector'[i] = vector[i] /\ (i \in enabled => i \in enabled')
    BY <1>7, StopTaskTyped DEF CommandEffect
  <2>2. task[t].status = "RUNING"
    BY <1>7 DEF StopTask
  <2>3. \A u \in HwTasks : u # t => task'[u] = task[u]
    BY <1>01, <2>1 DEF OthersKept
  <2>4. \A u \in HwTasks : InUse(u)' => InUse(u) /\ task'[u].irq = task[u].irq
    BY <2>1, <2>2, <2>3 DEF InUse
  <2>5. ASSUME NEW u \in HwTasks, task'[u].status = "RUNING"
        PROVE  /\ task[u].status = "RUNING"
               /\ task[u].irq \in enabled'
               /\ vector'[task[u].irq] = vector[task[u].irq]
    <3>1. u # t /\ task[u].status = "RUNING"
      BY <2>1, <2>3, <2>5
    <3>2. task[u].irq \in enabled /\ task[u].irq \in Irqs /\ InUse(u)
      BY <1>02, <3>1 DEF RunningIsFirst
    <3>3. CASE t \in HwTasks
      <4>1. InUse(t)
        BY <2>1, <2>2, <3>3 DEF InUse
      <4>2. task[u].irq # task[t].irq
        BY <3>1, <3>2, <3>3, <4>1 DEF OwnFrontEnds
      <4> QED  BY <2>1, <3>1, <3>2, <3>3, <4>2
    <3>4. CASE t \notin HwTasks
      BY <2>1, <3>1, <3>2, <3>4
    <3> QED  BY <3>3, <3>4
  <2> QED  BY <1>0, <2>4, <2>5, HooksKept
<1>8. ASSUME NEW s \in Slots, NEW t \in Tasks, Destroy(s, t) PROVE HooksInv'
  <2>1. OthersKept(t) /\ UNCHANGED <<vector, enabled>>
    BY <1>8, DestroyTyped DEF CommandEffect
  <2>2. task'[t].status = "FREE"
    BY <1>8 DEF Destroy, TypedInv, TypeOK
  <2>3. \A u \in HwTasks : u # t => task'[u] = task[u]
    BY <1>01, <2>1 DEF OthersKept
  <2> QED  BY <1>0, <2>1, <2>2, <2>3, HooksKept DEF InUse, RunningIsFirst
<1>9. CASE \E i \in Irqs : Interrupt(i)
  BY <1>1, <1>9 DEF Interrupt
<1>10. CASE \E t \in HwTasks : RunHwTask(t)
  BY <1>1, <1>10 DEF RunHwTask
<1>11. CASE TakeCommand
  BY <1>1, <1>11 DEF TakeCommand
<1>12. CASE Create
  <2>1. CASE \E t \in HwTasks : CreateHw(t)
    BY <1>2, <2>1 DEF CreateHw
  <2>2. CASE \E t \in SwTasks : \E type \in {"SW_TO_SW", "SW_TO_HW"} : CreateSw(t, type)
    BY <1>2, <2>2, TableAssumption DEF CreateSw
  <2> QED  BY <1>12, <2>1, <2>2 DEF Create
<1>13. CASE \E s \in Slots, t \in Tasks : CommandOn(s, t)
  BY <1>3, <1>4, <1>5, <1>6, <1>7, <1>8, <1>13 DEF CommandOn
<1>14. CASE UNCHANGED vars
  BY <1>1, <1>14 DEF vars
<1> QED  BY <1>9, <1>10, <1>11, <1>12, <1>13, <1>14 DEF Next

\* At start no hardware task runs.
LEMMA InitHooks == Init => HooksInv
<1>. SUFFICES ASSUME Init PROVE HooksInv
  OBVIOUS
<1>1. \A t \in HwTasks : task[t].status = "FREE"
  BY TableAssumption DEF Init, FreshTask, Tasks
<1> QED  BY <1>1, InitTyped DEF HooksInv, OwnFrontEnds, RunningIsFirst, InUse

\* A running hardware task hears its interrupt, if the host stops a task before
\* it frees it or configures its front end, and gives each a front end of its
\* own.
THEOREM RunningStaysHooked ==
  ASSUME Careful, ~Shared
  PROVE  Spec => []RunningIsHooked
<1>1. HooksInv => RunningIsHooked
  BY DEF HooksInv, RunningIsFirst, RunningIsHooked, Chain
<1>2. HooksInv /\ [Next]_vars => HooksInv'
  BY HooksStep
<1> QED  BY InitHooks, <1>1, <1>2, PTL DEF Spec

-----------------------------------------------------------------------------
(* What a dispatched task finds, under the same host. *)

\* The handler a trigger calls first.
CalledBy(h) == IF h.trigger /\ h.arg \in Tasks THEN task[h.arg].handler ELSE h

\* A trigger that leads to the driver's handler calls that one and no further.
LEMMA ChainOfOne ==
  ASSUME NEW h, CalledBy(h) = Driver
  PROVE  Chain(h) \subseteq {h, Driver}
<1>. DEFINE K == Cardinality(Tasks)
            Step(g) == [n \in 0..K |-> IF n = 0 THEN h ELSE CalledBy(g[n - 1])]
            after == CHOOSE g : g = Step(g)
            f == [n \in 0..K |-> IF n = 0 THEN h ELSE Driver]
<1>0. K \in Nat /\ CalledBy(Driver) = Driver
  BY TasksFinite DEF CalledBy, Driver
<1>1. Chain(h) = {h} \union {after[n] : n \in 1..K}
  BY DEF Chain, CalledBy
<1>. HIDE DEF K
<1>2. f = Step(f)
  <2>1. ASSUME NEW n \in 0..K PROVE f[n] = Step(f)[n]
    <3>1. CASE n = 0
      BY <3>1
    <3>2. CASE n # 0
      <4>1. n - 1 \in 0..K /\ f[n] = Driver /\ Step(f)[n] = CalledBy(f[n - 1])
        BY <1>0, <3>2
      <4>2. f[n - 1] = h \/ f[n - 1] = Driver
        BY <4>1
      <4> QED  BY <1>0, <4>1, <4>2
    <3> QED  BY <3>1, <3>2
  <2> QED  BY <2>1
<1>3. after = Step(after)
  <2>. HIDE DEF f, Step
  <2> QED  BY <1>2
<1>. HIDE DEF after
<1>4. /\ after[0] = h
      /\ \A n \in 1..K : after[n] = CalledBy(after[n - 1])
  BY <1>0, <1>3
<1>5. ASSUME NEW n \in 1..K, after[n] # Driver
      PROVE  FALSE
  <2>. DEFINE B == {m \in 1..K : after[m] # Driver}
  <2>1. PICK m \in B : \A k \in B : m <= k
    <3>1. B \in SUBSET Nat /\ B # {}
      BY <1>0, <1>5
    <3>. HIDE DEF B
    <3> QED  BY <3>1, LeastOf
  <2>2. after[m - 1] = h \/ after[m - 1] = Driver
    BY <1>0, <1>4, <2>1
  <2> QED  BY <1>0, <1>4, <2>1, <2>2
<1> QED  BY <1>1, <1>5

\* An interrupt is the driver's own, or that of the one running task hooked to
\* it, which has the driver's own to call.
HookedBy(i, t) == task[t].status = "RUNING" /\ task[t].irq = i /\ vector[i] = Trigger(t)
HooksOfRunning == \A i \in Irqs : vector[i] = Driver \/ \E t \in HwTasks : HookedBy(i, t)

\* A task's algorithm and parameters: a free task has none, and a task that is
\* configured or started has both unless it is broken.
HasAlgorithm(r, failed) ==
  /\ r.status = "FREE" => ~r.algo
  /\ ~failed => /\ r.algo => r.param = "allocated"
                /\ r.status \in {"READY", "RUNING"} => r.algo

\* While a command runs no hardware task is ready but those made ready during
\* it, which run; the command may stop one of them.
ReadyWasStarted(t) ==
  t \in ready => task[t].status \in IF busy THEN {"RUNING"} ELSE {"READY", "RUNING"}

Runnable(t) ==
  /\ HasAlgorithm(task[t], t \in broken)
  /\ task[t].status = "RUNING" => task[t].handler = Driver
  /\ ReadyWasStarted(t)

RunnableInv ==
  SlotsInv /\ HooksInv /\ HooksOfRunning /\ \A t \in HwTasks : Runnable(t)

\* update_task_status makes a task READY that has its algorithm.
LEMMA UpdatedHasAlgorithm ==
  ASSUME NEW r \in TaskRecords, NEW failed \in BOOLEAN, HasAlgorithm(r, failed)
  PROVE  /\ HasAlgorithm(Updated(r), failed)
         /\ Updated(r).status = "RUNING" <=> r.status = "RUNING"
BY DEF HasAlgorithm, Updated, Configured, TaskRecords

\* A command on t, as far as the tasks are concerned.
LEMMA CommandRunnable ==
  ASSUME RunnableInv, NEW t \in Tasks, OthersKept(t), busy, ~busy', ready' = ready,
         broken' \ {t} = broken \ {t},
         t \in HwTasks =>
           /\ HasAlgorithm(task'[t], t \in broken')
           /\ task'[t].status = "RUNING" => task'[t].handler = Driver
           /\ task[t].status = "RUNING" => task'[t].status \in {"READY", "RUNING"}
  PROVE  \A u \in HwTasks : Runnable(u)'
<1>1. ASSUME NEW u \in HwTasks
      PROVE  Runnable(u)'
  <2>1. u \in Tasks /\ Runnable(u)
    BY DEF RunnableInv, Tasks
  <2>2. CASE u = t
    BY <2>1, <2>2 DEF Runnable, ReadyWasStarted
  <2>3. CASE u # t
    <3>1. task'[u] = task[u] /\ (u \in broken' <=> u \in broken)
      BY <2>1, <2>3 DEF OthersKept
    <3> QED  BY <2>1, <3>1 DEF Runnable, ReadyWasStarted
  <2> QED  BY <2>2, <2>3
<1> QED  BY <1>1

\* A step that keeps the vectors and the running tasks on their interrupts.
LEMMA HooksOfRunningKept ==
  ASSUME HooksOfRunning, UNCHANGED vector,
         \A u \in HwTasks : task[u].status = "RUNING" =>
           task'[u].status = "RUNING" /\ task'[u].irq = task[u].irq
  PROVE  HooksOfRunning'
BY DEF HooksOfRunning, HookedBy

\* The tasks an interrupt makes ready run.
LEMMA InterruptRunnable ==
  ASSUME RunnableInv, NEW i \in Irqs, Interrupt(i)
  PROVE  \A u \in HwTasks : Runnable(u)'
<1>. DEFINE Made == {h.arg : h \in {g \in Chain(vector[i]) : g.arg \in Tasks}}
<1>1. \A u \in Made : u \in HwTasks => task[u].status = "RUNING"
  <2>1. CASE vector[i] = Driver
    <3>1. CalledBy(vector[i]) = Driver /\ Driver.arg \notin Tasks
      BY <2>1, NoTaskIsNone DEF CalledBy, Driver
    <3>2. Chain(vector[i]) \subseteq {Driver}
      BY <2>1, <3>1, ChainOfOne
    <3> QED  BY <3>1, <3>2
  <2>2. CASE \E t \in HwTasks : HookedBy(i, t)
    <3>1. PICK t \in HwTasks : HookedBy(i, t)
      BY <2>2
    <3>2. t \in Tasks /\ task[t].handler = Driver /\ task[t].status = "RUNING"
      BY <3>1 DEF Tasks, HookedBy, RunnableInv, Runnable
    <3>3. vector[i] = Trigger(t) /\ Trigger(t).trigger /\ Trigger(t).arg = t
      BY <3>1 DEF HookedBy, Trigger
    <3>4. CalledBy(vector[i]) = Driver
      BY <3>2, <3>3 DEF CalledBy
    <3>5. Chain(vector[i]) \subseteq {Trigger(t), Driver}
      BY <3>3, <3>4, ChainOfOne
    <3>6. Driver.arg \notin Tasks
      BY NoTaskIsNone DEF Driver
    <3> QED  BY <3>2, <3>3, <3>5, <3>6
  <2> QED  BY <2>1, <2>2 DEF RunnableInv, HooksOfRunning
<1>2. ready' = ready \union Made /\ UNCHANGED <<task, busy, broken>>
  BY DEF Interrupt
<1>. HIDE DEF Made
<1> QED  BY <1>1, <1>2 DEF RunnableInv, Runnable, ReadyWasStarted

\* ps_create_task.
LEMMA CreateRunnable ==
  ASSUME RunnableInv, NEW t \in HwTasks \union SwTasks,
         NEW type \in {"HW", "SW_TO_SW", "SW_TO_HW"}, AddTask(t, type),
         t \in HwTasks => type = "HW", task[t].status = "FREE", busy,
         ~busy', broken' = broken \ {t}, UNCHANGED <<vector, ready>>
  PROVE  HooksOfRunning' /\ \A u \in HwTasks : Runnable(u)'
<1>1. TypedInv /\ t \in Tasks /\ task[t] \in TaskRecords /\ \A u \in HwTasks : u \in Tasks
  BY DEF RunnableInv, HooksInv, TypedInv, TypeOK, Tasks
<1>2. OthersKept(t)
  BY <1>1, AddTaskTyped
<1>3. t \in HwTasks => task'[t].status = "IDEL" /\ task'[t].algo = task[t].algo
  BY <1>1 DEF AddTask, TypedInv, TypeOK, TaskRecords
<1>4. t \in HwTasks => ~task[t].algo
  BY DEF RunnableInv, Runnable, HasAlgorithm
<1>5. \A u \in HwTasks : Runnable(u)'
  BY <1>1, <1>2, <1>3, <1>4, CommandRunnable DEF HasAlgorithm
<1>6. HooksOfRunning'
  BY <1>1, <1>2, HooksOfRunningKept DEF RunnableInv, OthersKept
<1> QED  BY <1>5, <1>6

\* A task that can be named is allocated.
LEMMA NamedIsAllocated ==
  ASSUME SlotsInv, NEW s \in Slots, NEW t \in Tasks, Named(s, t)
  PROVE  task[t].status # "FREE"
BY NoTaskIsNone DEF SlotsInv, SlotsBelowNum, Named, Allocated

\* A front end that is configured puts the driver's handler back, under no running
\* task.
LEMMA FeConfigRunnable ==
  ASSUME Careful, RunnableInv, NEW s \in Slots, NEW t \in Tasks, NEW i \in Irqs, FeConfig(s, t, i)
  PROVE  HooksOfRunning' /\ \A u \in HwTasks : Runnable(u)'
<1>. DEFINE q == [task[t] EXCEPT !.fe = TRUE, !.irq = i]
<1>0. TypedInv /\ task[t] \in TaskRecords /\ t \in HwTasks /\ \A u \in HwTasks : u \in Tasks
  BY DEF RunnableInv, HooksInv, TypedInv, TypeOK, Tasks, FeConfig
<1>1. OthersKept(t)
  BY <1>0, FeConfigTyped DEF CommandEffect
<1>2. task'[t] = Updated(q)
  BY <1>0 DEF FeConfig, TypedInv, TypeOK
<1>3. /\ q \in TaskRecords /\ q.status = task[t].status
      /\ q.algo = task[t].algo /\ q.param = task[t].param
  BY <1>0 DEF TaskRecords
<1>. HIDE DEF q
<1>4. /\ \A u \in HwTasks : task[u].status = "RUNING" => u # t /\ task[u].irq # i
      /\ vector' = [vector EXCEPT ![i] = Driver]
      /\ busy /\ ~busy' /\ UNCHANGED <<ready, broken>>
  BY DEF FeConfig, Named, Done
<1>5. HasAlgorithm(q, t \in broken)
  BY <1>0, <1>3 DEF RunnableInv, Runnable, HasAlgorithm
<1>6. HasAlgorithm(task'[t], t \in broken') /\ task'[t].status # "RUNING"
  <2>1. (t \in broken) \in BOOLEAN
    OBVIOUS
  <2>2. HasAlgorithm(Updated(q), t \in broken) /\ Updated(q).status # "RUNING"
    BY <1>0, <1>3, <1>4, <1>5, <2>1, UpdatedHasAlgorithm
  <2> QED  BY <1>2, <1>4, <2>2
<1>7. \A u \in HwTasks : Runnable(u)'
  BY <1>0, <1>1, <1>4, <1>6, CommandRunnable
<1>8. ASSUME NEW j \in Irqs, vector'[j] # Driver
      PROVE  \E u \in HwTasks : HookedBy(j, u)'
  <2>1. j # i /\ vector'[j] = vector[j]
    BY <1>0, <1>4, <1>8 DEF TypedInv, TypeOK
  <2>2. PICK u \in HwTasks : HookedBy(j, u)
    BY <1>8, <2>1 DEF RunnableInv, HooksOfRunning
  <2>3. u # t /\ task'[u] = task[u]
    BY <1>0, <1>1, <1>4, <2>2 DEF HookedBy, OthersKept
  <2> QED  BY <2>1, <2>2, <2>3 DEF HookedBy
<1> QED  BY <1>7, <1>8 DEF HooksOfRunning

\* The commands that touch neither vector nor interrupts, and keep the status
\* but for update_task_status.
LEMMA ConfigRunnable ==
  ASSUME RunnableInv, NEW s \in Slots, NEW t \in Tasks,
         BeConfig(s, t) \/ AlgoConfig(s, t) \/ AlgoLoad(s, t)
  PROVE  HooksOfRunning' /\ \A u \in HwTasks : Runnable(u)'
<1>0. TypedInv /\ task[t] \in TaskRecords /\ \A u \in HwTasks : u \in Tasks
  BY DEF RunnableInv, HooksInv, TypedInv, TypeOK, Tasks
<1>1. OthersKept(t) /\ UNCHANGED vector /\ task'[t].irq = task[t].irq
  BY <1>0, BeConfigTyped, AlgorithmTyped DEF CommandEffect
<1>2. /\ busy /\ ~busy' /\ UNCHANGED ready /\ broken' \ {t} = broken \ {t}
      /\ task[t].status # "FREE"
  <2>1. Named(s, t)
    BY DEF BeConfig, AlgoConfig, AlgoLoad
  <2> QED  BY <2>1, NamedIsAllocated DEF BeConfig, AlgoConfig, AlgoLoad, Named, Done, RunnableInv
<1>3. PICK q \in TaskRecords :
        /\ q.status = task[t].status /\ q.handler = task[t].handler
        /\ task'[t] = q \/ task'[t] = Updated(q)
        /\ t \in HwTasks => HasAlgorithm(q, t \in broken')
  <2>2. CASE BeConfig(s, t)
    <3>. DEFINE B == [task[t] EXCEPT !.be = TRUE]
    <3>1. /\ B \in TaskRecords /\ B.status = task[t].status /\ B.handler = task[t].handler
          /\ B.algo = task[t].algo /\ B.param = task[t].param
      BY <1>0 DEF TaskRecords
    <3>2. task'[t] = Updated(B) /\ broken' = broken
      BY <1>0, <2>2 DEF BeConfig, TypedInv, TypeOK
    <3>. HIDE DEF B
    <3>3. t \in HwTasks => HasAlgorithm(B, t \in broken')
      BY <3>1, <3>2 DEF RunnableInv, Runnable, HasAlgorithm
    <3> QED  BY <3>1, <3>2, <3>3
  <2>3. CASE AlgoConfig(s, t) \/ AlgoLoad(s, t)
    <3>1. PICK a \in BOOLEAN, p \in Params :
                 /\ \/ task' = [task EXCEPT ![t] = WithAlgorithm(t, a, p)]
                    \/ task' = [task EXCEPT ![t] = Updated(WithAlgorithm(t, a, p))]
                 /\ \/ broken' = broken \union {t}
                    \/ broken' = broken \ {t} /\ a = TRUE /\ p = "allocated"
      BY <1>0, <2>3, AlgorithmChange
    <3>. DEFINE Q == WithAlgorithm(t, a, p)
    <3>2. /\ Q \in TaskRecords /\ Q.algo = a /\ Q.param = p
          /\ Q.status = task[t].status /\ Q.handler = task[t].handler
      BY <1>0 DEF TaskRecords, WithAlgorithm, Params
    <3>3. task'[t] = Q \/ task'[t] = Updated(Q)
      BY <1>0, <3>1 DEF TypedInv, TypeOK
    <3>. HIDE DEF Q
    <3>4. HasAlgorithm(Q, t \in broken')
      BY <1>2, <3>1, <3>2 DEF HasAlgorithm
    <3> QED  BY <3>2, <3>3, <3>4
  <2> QED  BY <2>2, <2>3
<1>4. /\ task'[t].handler = task[t].handler
      /\ task'[t].status = "RUNING" <=> task[t].status = "RUNING"
      /\ t \in HwTasks => HasAlgorithm(task'[t], t \in broken')
  <2>1. (t \in broken') \in BOOLEAN
    OBVIOUS
  <2>2. Updated(q).handler = q.handler
    BY UpdatedRecord
  <2>3. /\ Updated(q).status = "RUNING" <=> q.status = "RUNING"
        /\ t \in HwTasks => HasAlgorithm(Updated(q), t \in broken')
    <3>1. CASE t \in HwTasks
      BY <1>3, <2>1, <3>1, UpdatedHasAlgorithm
    <3>2. CASE t \notin HwTasks
      BY <3>2, UpdatedRecord DEF Updated, TaskRecords
    <3> QED  BY <3>1, <3>2
  <2> QED  BY <1>3, <2>2, <2>3
<1>5. \A u \in HwTasks : Runnable(u)'
  BY <1>0, <1>1, <1>2, <1>4, CommandRunnable DEF RunnableInv, Runnable
<1>6. HooksOfRunning'
  BY <1>0, <1>1, <1>4, HooksOfRunningKept DEF RunnableInv, OthersKept
<1> QED  BY <1>5, <1>6

\* A task that starts finds the driver's own handler.
LEMMA StartHwRunnable ==
  ASSUME RunnableInv, NEW s \in Slots, NEW t \in Tasks, StartHw(s, t)
  PROVE  HooksOfRunning' /\ \A u \in HwTasks : Runnable(u)'
<1>0. TypedInv /\ task[t] \in TaskRecords /\ t \in HwTasks /\ \A u \in HwTasks : u \in Tasks
  BY DEF RunnableInv, HooksInv, TypedInv, TypeOK, Tasks, StartHw
<1>1. /\ OthersKept(t) /\ task[t].irq \in Irqs /\ task[t].fe /\ task'[t].irq = task[t].irq
      /\ vector' = [vector EXCEPT ![task[t].irq] = Trigger(t)]
  BY <1>0, StartHwTyped DEF CommandEffect
<1>2. task[t].status = "READY" /\ busy /\ ~busy' /\ UNCHANGED <<ready, broken>>
  BY DEF StartHw, Named, Done
<1>3. vector[task[t].irq] = Driver
  <2>1. ASSUME NEW u \in HwTasks, HookedBy(task[t].irq, u) PROVE FALSE
    <3>1. u # t /\ task[u].irq = task[t].irq /\ task[u].status = "RUNING"
      BY <1>2, <2>1 DEF HookedBy
    <3>2. InUse(u) /\ InUse(t)
      BY <1>0, <1>1, <1>2, <3>1 DEF InUse, TypedInv, FrontEndFirst
    <3> QED  BY <1>0, <3>1, <3>2 DEF RunnableInv, HooksInv, OwnFrontEnds
  <2> QED  BY <1>1, <2>1 DEF RunnableInv, HooksOfRunning
<1>4. task'[t] = [task[t] EXCEPT !.status = "RUNING", !.handler = Driver]
  BY <1>0, <1>3 DEF StartHw, TypedInv, TypeOK, Driver
<1>5. /\ task'[t].status = "RUNING" /\ task'[t].handler = Driver
      /\ task'[t].algo = task[t].algo /\ task'[t].param = task[t].param
  BY <1>0, <1>4 DEF TaskRecords
<1>6. HasAlgorithm(task'[t], t \in broken')
  BY <1>0, <1>2, <1>5 DEF RunnableInv, Runnable, HasAlgorithm
<1>7. \A u \in HwTasks : Runnable(u)'
  BY <1>0, <1>1, <1>2, <1>5, <1>6, CommandRunnable
<1>8. ASSUME NEW j \in Irqs, vector'[j] # Driver
      PROVE  \E u \in HwTasks : HookedBy(j, u)'
  <2>1. CASE j = task[t].irq
    <3>1. vector'[j] = Trigger(t)
      BY <1>0, <1>1, <2>1 DEF TypedInv, TypeOK
    <3> QED  BY <1>0, <1>1, <1>5, <2>1, <3>1 DEF HookedBy
  <2>2. CASE j # task[t].irq
    <3>1. vector'[j] = vector[j]
      BY <1>0, <1>1, <2>2 DEF TypedInv, TypeOK
    <3>2. PICK u \in HwTasks : HookedBy(j, u)
      BY <1>8, <3>1 DEF RunnableInv, HooksOfRunning
    <3>3. u # t /\ task'[u] = task[u]
      BY <1>0, <1>1, <2>2, <3>2 DEF HookedBy, OthersKept
    <3> QED  BY <3>1, <3>2, <3>3 DEF HookedBy
  <2> QED  BY <2>1, <2>2
<1> QED  BY <1>7, <1>8 DEF HooksOfRunning

\* The start of a software task is nothing to the hardware tasks.
LEMMA StartSwRunnable ==
  ASSUME RunnableInv, NEW s \in Slots, NEW t \in Tasks, StartSw(s, t)
  PROVE  HooksOfRunning' /\ \A u \in HwTasks : Runnable(u)'
<1>0. TypedInv /\ \A u \in HwTasks : u \in Tasks
  BY DEF RunnableInv, HooksInv, Tasks
<1>1. OthersKept(t) /\ UNCHANGED vector /\ t \notin HwTasks
  BY <1>0, StartSwTyped DEF CommandEffect
<1>2. busy /\ ~busy' /\ UNCHANGED <<ready, broken>>
  BY DEF StartSw, Named, Done
<1>3. \A u \in HwTasks : Runnable(u)'
  BY <1>1, <1>2, CommandRunnable
<1>4. HooksOfRunning'
  BY <1>0, <1>1, HooksOfRunningKept DEF RunnableInv, OthersKept
<1> QED  BY <1>3, <1>4

\* A task that stops gives the interrupt back to the driver.
LEMMA StopTaskRunnable ==
  ASSUME RunnableInv, NEW s \in Slots, NEW t \in Tasks, StopTask(s, t)
  PROVE  HooksOfRunning' /\ \A u \in HwTasks : Runnable(u)'
<1>0. TypedInv /\ task[t] \in TaskRecords /\ \A u \in HwTasks : u \in Tasks
  BY DEF RunnableInv, HooksInv, TypedInv, TypeOK, Tasks
<1>1. OthersKept(t)
  BY <1>0, StopTaskTyped DEF CommandEffect
<1>2. task[t].status = "RUNING" /\ busy /\ ~busy' /\ UNCHANGED <<ready, broken>>
  BY DEF StopTask, Named, Done
<1>3. task'[t] = [task[t] EXCEPT !.status = "READY"]
  BY <1>0 DEF StopTask, TypedInv, TypeOK
<1>4. /\ task'[t].status = "READY"
      /\ task'[t].algo = task[t].algo /\ task'[t].param = task[t].param
  BY <1>0, <1>3 DEF TaskRecords
<1>5. t \in HwTasks => HasAlgorithm(task'[t], t \in broken')
  BY <1>2, <1>4 DEF RunnableInv, Runnable, HasAlgorithm
<1>6. \A u \in HwTasks : Runnable(u)'
  BY <1>1, <1>2, <1>4, <1>5, CommandRunnable
<1>7. CASE t \in HwTasks
  <2>1. task[t].handler = Driver /\ ~Driver.trigger /\ task[t].irq \in Irqs
    BY <1>0, <1>2, <1>7 DEF RunnableInv, Runnable, Driver, TypedInv, FrontEndFirst
  <2>2. vector' = [vector EXCEPT ![task[t].irq] = Driver]
    BY <1>7, <2>1 DEF StopTask
  <2>3. ASSUME NEW j \in Irqs, vector'[j] # Driver
        PROVE  \E u \in HwTasks : HookedBy(j, u)'
    <3>1. j # task[t].irq /\ vector'[j] = vector[j]
      BY <1>0, <2>2, <2>3 DEF TypedInv, TypeOK
    <3>2. PICK u \in HwTasks : HookedBy(j, u)
      BY <2>3, <3>1 DEF RunnableInv, HooksOfRunning
    <3>3. u # t /\ task'[u] = task[u]
      BY <1>0, <1>1, <3>1, <3>2 DEF HookedBy, OthersKept
    <3> QED  BY <3>1, <3>2, <3>3 DEF HookedBy
  <2> QED  BY <1>6, <2>3 DEF HooksOfRunning
<1>8. CASE t \notin HwTasks
  <2>1. UNCHANGED vector
    BY <1>8 DEF StopTask
  <2> QED  BY <1>0, <1>1, <1>6, <1>8, <2>1, HooksOfRunningKept DEF RunnableInv, OthersKept
<1> QED  BY <1>7, <1>8

\* A task that is destroyed was not running, under a careful host.
LEMMA DestroyRunnable ==
  ASSUME Careful, RunnableInv, NEW s \in Slots, NEW t \in Tasks, Destroy(s, t)
  PROVE  HooksOfRunning' /\ \A u \in HwTasks : Runnable(u)'
<1>0. TypedInv /\ task[t] \in TaskRecords /\ \A u \in HwTasks : u \in Tasks
  BY DEF RunnableInv, HooksInv, TypedInv, TypeOK, Tasks
<1>1. OthersKept(t) /\ UNCHANGED vector
  BY <1>0, DestroyTyped DEF CommandEffect
<1>2. task[t].status # "RUNING" /\ busy /\ ~busy' /\ UNCHANGED <<ready, broken>>
  BY DEF Destroy, Named, Done
<1>3. task'[t] = [task[t] EXCEPT !.status = "FREE", !.algo = FALSE, !.param = "NULL"]
  BY <1>0 DEF Destroy, TypedInv, TypeOK
<1>4. task'[t].status = "FREE" /\ ~task'[t].algo
  BY <1>0, <1>3 DEF TaskRecords
<1>5. HasAlgorithm(task'[t], t \in broken')
  BY <1>4 DEF HasAlgorithm
<1>6. \A u \in HwTasks : Runnable(u)'
  BY <1>1, <1>2, <1>4, <1>5, CommandRunnable
<1>7. HooksOfRunning'
  BY <1>0, <1>1, <1>2, HooksOfRunningKept DEF RunnableInv, OthersKept
<1> QED  BY <1>6, <1>7

\* A step keeps every hardware task fit to run.
LEMMA RunnableStep ==
  ASSUME Careful, ~Shared, RunnableInv, [Next]_vars
  PROVE  RunnableInv'
<1>. DEFINE Held == HooksOfRunning' /\ \A u \in HwTasks : Runnable(u)'
<1>0. SlotsInv' /\ HooksInv'
  BY SlotsStep, HooksStep DEF RunnableInv
<1>1. CASE \E i \in Irqs : Interrupt(i)
  <2>1. PICK i \in Irqs : Interrupt(i)
    BY <1>1
  <2>2. HooksOfRunning'
    BY <2>1, HooksOfRunningKept DEF Interrupt, RunnableInv
  <2> QED  BY <1>0, <2>1, <2>2, InterruptRunnable DEF RunnableInv
<1>2. CASE \E t \in HwTasks : RunHwTask(t)
  <2>1. ready' \subseteq ready /\ UNCHANGED <<task, vector, busy, broken>>
    BY <1>2 DEF RunHwTask
  <2>2. HooksOfRunning'
    BY <2>1, HooksOfRunningKept DEF RunnableInv
  <2>3. \A u \in HwTasks : Runnable(u)'
    BY <2>1 DEF RunnableInv, Runnable, ReadyWasStarted
  <2> QED  BY <1>0, <2>2, <2>3 DEF RunnableInv
<1>3. CASE TakeCommand
  <2>1. \A t \in HwTasks : t \notin ready
    <3>1. ASSUME NEW t \in HwTasks, t \in ready PROVE FALSE
      <4>1. t < Common /\ Common < t /\ t \in Nat /\ Common \in Nat
        BY <1>3, <3>1, TableAssumption, TasksFinite DEF TakeCommand, Tasks
      <4> QED  BY <4>1
    <3> QED  BY <3>1
  <2>2. UNCHANGED <<task, vector, ready, broken>>
    BY <1>3 DEF TakeCommand
  <2>3. HooksOfRunning'
    BY <2>2, HooksOfRunningKept DEF RunnableInv
  <2>4. \A u \in HwTasks : Runnable(u)'
    BY <2>1, <2>2 DEF RunnableInv, Runnable, ReadyWasStarted
  <2> QED  BY <1>0, <2>3, <2>4 DEF RunnableInv
<1>4. CASE Create
  <2>1. ASSUME NEW t \in HwTasks, CreateHw(t) PROVE Held
    BY <2>1, CreateRunnable DEF CreateHw, LowestFree, Done
  <2>2. ASSUME NEW t \in SwTasks, NEW type \in {"SW_TO_SW", "SW_TO_HW"}, CreateSw(t, type)
        PROVE  Held
    BY <2>2, CreateRunnable, TableAssumption DEF CreateSw, LowestFree, Done
  <2> QED  BY <1>0, <1>4, <2>1, <2>2 DEF Create, RunnableInv
<1>5. CASE \E s \in Slots, t \in Tasks : CommandOn(s, t)
  <2>1. PICK s \in Slots, t \in Tasks : CommandOn(s, t)
    BY <1>5
  <2>2. Held
    BY <2>1, FeConfigRunnable, ConfigRunnable, StartHwRunnable, StartSwRunnable,
       StopTaskRunnable, DestroyRunnable DEF CommandOn
  <2> QED  BY <1>0, <2>2 DEF RunnableInv
<1>6. CASE UNCHANGED vars
  <2>1. UNCHANGED <<task, vector, ready, busy, broken>>
    BY <1>6 DEF vars
  <2>2. HooksOfRunning' /\ \A u \in HwTasks : Runnable(u)'
    BY <2>1 DEF RunnableInv, HooksOfRunning, HookedBy, Runnable, ReadyWasStarted
  <2> QED  BY <1>0, <2>2 DEF RunnableInv
<1> QED  BY <1>1, <1>2, <1>3, <1>4, <1>5, <1>6 DEF Next

\* At start every hardware task is free.
LEMMA InitRunnable == Init => RunnableInv
<1>. SUFFICES ASSUME Init PROVE RunnableInv
  OBVIOUS
<1>1. \A t \in HwTasks : task[t].status = "FREE" /\ ~task[t].algo
  BY TableAssumption DEF Init, FreshTask, Tasks
<1>2. \A t \in HwTasks : Runnable(t)
  BY <1>1 DEF Init, Runnable, HasAlgorithm, ReadyWasStarted
<1> QED  BY <1>2, InitSlots, InitHooks DEF RunnableInv, HooksOfRunning, Init

\* Under the same host, a hardware task that is dispatched has the algorithm
\* and the parameters that dsp_process_hw_task uses unchecked, unless it is in
\* broken: its last algorithm failed to load, or was loaded through parameters
\* that a failed load had freed.
THEOREM DispatchedStaysRunnable ==
  ASSUME Careful, ~Shared
  PROVE  Spec => []DispatchedIsRunnable
<1>1. RunnableInv => DispatchedIsRunnable
  BY DEF RunnableInv, Runnable, HasAlgorithm, ReadyWasStarted, DispatchedIsRunnable, NextToRun
<1>2. RunnableInv /\ [Next]_vars => RunnableInv'
  BY RunnableStep
<1> QED  BY InitRunnable, <1>1, <1>2, PTL DEF Spec
=============================================================================
