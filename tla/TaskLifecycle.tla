---------------------------- MODULE TaskLifecycle ----------------------------
(***************************************************************************)
(* Tasks from creation to destruction (core/ps_sched.c): the host's        *)
(* commands allocate a task of the static task_table, configure its front  *)
(* end, back end and algorithm, start it by hooking the scheduler into the *)
(* front end's interrupt, stop it and free it.                             *)
(*                                                                         *)
(* A command runs in the common task, whose priority is below that of the  *)
(* hardware tasks, one command a dispatch; interrupts come at any time.    *)
(* Ready bits and dispatch are those of module Scheduler, the work of a    *)
(* task is left out.  Requests that name no task, that fail before they    *)
(* change anything, or that only update the settings of an algorithm are   *)
(* left out as well.                                                       *)
(***************************************************************************)
EXTENDS Integers, FiniteSets

CONSTANTS
  HwTasks, SwTasks,     \* free entries of task_table, by type
  Common, Idle,         \* the two tasks init_scheduler sets up
  Irqs,                 \* interrupts of the front ends
  LoadFails,            \* tasks whose algorithm may fail to load, or its buffers to be allocated
  Careful,              \* the host stops a task before it frees it or configures its front end
  Shared                \* the host configures one front end for several tasks

Tasks == HwTasks \union SwTasks \union {Common, Idle}
NoTask == -1            \* NULL in task_handler, -1 in intr_arg
NoIrq == "none"

ASSUME TableAssumption ==
  /\ Tasks \subseteq 0..15 /\ HwTasks \intersect SwTasks = {}
  /\ Common # Idle /\ {Common, Idle} \intersect (HwTasks \union SwTasks) = {}
  /\ \A t \in Tasks \ {Idle} : t < Idle
  /\ \A t \in HwTasks : t < Common
  /\ NoIrq \notin Irqs
  /\ LoadFails \subseteq Tasks /\ Careful \in BOOLEAN /\ Shared \in BOOLEAN

\* PS_MAX_TASK_TYPE is the length of task_table and of task_handler.
Slots == 0..(Cardinality(Tasks) - 1)

VARIABLES
  task,           \* task_table
  slot, taskNum,  \* g_scheduler.task_handler and task_num
  namespaces,     \* software tasks registered with xrp_device_register_namespace
  vector,         \* what xtos_set_interrupt_handler set for each interrupt
  enabled,        \* interrupts enabled
  ready,          \* the ready table
  busy,           \* the common task is dispatched and about to run a command
  broken          \* history: the tasks whose last algorithm failed to load, or was
                  \* loaded through parameters already freed

vars == <<task, slot, taskNum, namespaces, vector, enabled, ready, busy, broken>>

\* Interrupt handlers: the front end's own, or ps_task_trigger_intr_handler
\* with the task it is called for.
Driver == [trigger |-> FALSE, arg |-> NoTask]
Trigger(t) == [trigger |-> TRUE, arg |-> t]
Handlers == [trigger : BOOLEAN, arg : Tasks \union {NoTask}]

TaskRecords ==
  [status : {"FREE", "IDEL", "READY", "RUNING"},
   type : {"HW", "SW_TO_SW", "SW_TO_HW"},
   fe : BOOLEAN, be : BOOLEAN, algo : BOOLEAN,         \* configured
   param : {"NULL", "allocated", "freed"},             \* task_algo.param
   irq : Irqs \union {NoIrq},
   handler : Handlers]                                 \* intr_handler, intr_arg

TypeOK ==
  /\ task \in [Tasks -> TaskRecords]
  /\ slot \in [Slots -> Tasks \union {NoTask}] /\ taskNum \in 0..Cardinality(Tasks)
  /\ namespaces \subseteq Tasks
  /\ vector \in [Irqs -> Handlers] /\ enabled \subseteq Irqs
  /\ ready \subseteq Tasks /\ busy \in BOOLEAN /\ broken \subseteq Tasks

FreshTask(t) ==
  [status |-> IF t \in {Common, Idle} THEN "IDEL" ELSE "FREE",
   type |-> IF t \in HwTasks THEN "HW" ELSE "SW_TO_SW",
   fe |-> FALSE, be |-> FALSE, algo |-> FALSE, param |-> "NULL",
   irq |-> NoIrq, handler |-> Driver]

Init ==
  /\ task = [t \in Tasks |-> FreshTask(t)]
  /\ slot = [s \in Slots |-> IF s = 0 THEN Common ELSE IF s = 1 THEN Idle ELSE NoTask]
  /\ taskNum = 2
  /\ namespaces = {Common}
  /\ vector = [i \in Irqs |-> Driver] /\ enabled = {}
  /\ ready = {} /\ busy = FALSE /\ broken = {}

-----------------------------------------------------------------------------
(* The scheduler and the interrupts. *)

\* The tasks a handler makes ready: ps_task_trigger_intr_handler calls the
\* handler of its task first, which may be the trigger of another one.
Chain(h) ==
  LET after[n \in 0..Cardinality(Tasks)] ==
        IF n = 0 THEN h
        ELSE IF after[n - 1].trigger /\ after[n - 1].arg \in Tasks
          THEN task[after[n - 1].arg].handler
          ELSE after[n - 1]
  IN  {h} \union {after[n] : n \in 1..Cardinality(Tasks)}

Interrupt(i) ==
  /\ i \in enabled
  /\ ready' = ready \union {h.arg : h \in {g \in Chain(vector[i]) : g.arg \in Tasks}}
  /\ UNCHANGED <<task, slot, taskNum, namespaces, vector, enabled, busy, broken>>

NextToRun(t) == ~busy /\ t \in ready /\ \A u \in ready : t <= u

RunHwTask(t) ==
  /\ NextToRun(t)
  /\ ready' = ready \ {t}
  /\ UNCHANGED <<task, slot, taskNum, namespaces, vector, enabled, busy, broken>>

\* A command is taken when no hardware task is ready.  Mutation: at once.
TakeCommandFirst ==
  /\ ~busy
  /\ busy' = TRUE
  /\ UNCHANGED <<task, slot, taskNum, namespaces, vector, enabled, ready, broken>>

TakeCommand ==
  /\ ~busy /\ \A t \in ready : Common < t
  /\ busy' = TRUE
  /\ UNCHANGED <<task, slot, taskNum, namespaces, vector, enabled, ready, broken>>

-----------------------------------------------------------------------------
(* The commands. *)

\* The host names a task by the slot it was given.
Named(s, t) == busy /\ slot[s] = t /\ t \notin {Common, Idle}
Done == busy' = FALSE

\* update_task_status, of a task record.
Configured(r) ==
  /\ r.type # "SW_TO_SW" /\ r.be /\ r.algo
  /\ r.type = "HW" => r.fe
Updated(r) == IF r.status = "IDEL" /\ Configured(r) THEN [r EXCEPT !.status = "READY"] ELSE r

LowestFree(S) ==
  {t \in S : task[t].status = "FREE" /\ \A u \in S : task[u].status = "FREE" => t <= u}

\* dsp_add_task_to_scheduler: at the end, or where a task was removed when the
\* table has been full.
FreeSlots ==
  IF taskNum < Cardinality(Tasks) THEN {taskNum}
  ELSE {s \in Slots : slot[s] = NoTask /\ \A r \in 0..(s - 1) : slot[r] # NoTask}

\* ps_create_task.  Mutations: the task's former state is kept; task_num counts
\* the task that fills a hole.
AddCountsAlways(t, type) ==
  /\ \E s \in FreeSlots : slot' = [slot EXCEPT ![s] = t]
  /\ taskNum' = taskNum + 1
  /\ task' = [task EXCEPT ![t].status = IF type = "SW_TO_SW" THEN "READY" ELSE "IDEL",
                          ![t].type = type, ![t].fe = FALSE, ![t].be = FALSE,
                          ![t].param = "NULL"]

CreateWithoutReset(t, type) ==
  /\ \E s \in FreeSlots : slot' = [slot EXCEPT ![s] = t]
  /\ taskNum' = IF taskNum < Cardinality(Tasks) THEN taskNum + 1 ELSE taskNum
  /\ task' = [task EXCEPT ![t].status = IF type = "SW_TO_SW" THEN "READY" ELSE "IDEL",
                          ![t].type = type]

AddTask(t, type) ==
  /\ \E s \in FreeSlots : slot' = [slot EXCEPT ![s] = t]
  /\ taskNum' = IF taskNum < Cardinality(Tasks) THEN taskNum + 1 ELSE taskNum
  /\ task' = [task EXCEPT ![t].status = IF type = "SW_TO_SW" THEN "READY" ELSE "IDEL",
                          ![t].type = type, ![t].fe = FALSE, ![t].be = FALSE,
                          ![t].param = "NULL"]

CreateHw(t) ==
  /\ busy /\ t \in LowestFree(HwTasks)
  /\ AddTask(t, "HW") /\ broken' = broken \ {t}
  /\ Done /\ UNCHANGED <<namespaces, vector, enabled, ready>>

CreateSw(t, type) ==
  /\ busy /\ t \in LowestFree(SwTasks)
  /\ AddTask(t, type) /\ broken' = broken \ {t}
  /\ namespaces' = namespaces \union {t}
  /\ Done /\ UNCHANGED <<vector, enabled, ready>>

\* dsp_task_fe_config: configuring a front end puts the driver's own handler
\* back, whoever uses the interrupt.  The host's part, which the code does not
\* ask for: it configures front ends of hardware tasks only, and Careful, Shared.
FeConfig(s, t, i) ==
  /\ Named(s, t)
  /\ t \in HwTasks
  /\ Careful => \A u \in HwTasks : task[u].status = "RUNING" => u # t /\ task[u].irq # i
  /\ ~Shared => \A u \in HwTasks \ {t} : task[u].status # "FREE" => task[u].irq # i
  /\ task' = [task EXCEPT ![t] = Updated([@ EXCEPT !.fe = TRUE, !.irq = i])]
  /\ vector' = [vector EXCEPT ![i] = Driver]
  /\ enabled' = enabled \union {i}
  /\ Done /\ UNCHANGED <<slot, taskNum, namespaces, ready, broken>>

BeConfig(s, t) ==
  /\ Named(s, t)
  /\ task' = [task EXCEPT ![t] = Updated([@ EXCEPT !.be = TRUE])]
  /\ Done /\ UNCHANGED <<slot, taskNum, namespaces, vector, enabled, ready, broken>>

\* dsp_task_algo_config allocates parameters only when there are none: those
\* csi_dsp_task_algo_load has freed are used as they are.
ParamToConfig(t) == IF task[t].param = "NULL" THEN "allocated" ELSE task[t].param

\* dsp_task_algo_config: the load fails and the parameters are freed (again, if
\* they were), or the buffers of a hardware task fail after it (too few, or none
\* defined, which leaves param); the task keeps its status.
AlgoConfig(s, t) ==
  /\ Named(s, t)
  /\ \/ /\ task' = [task EXCEPT ![t] = Updated([@ EXCEPT !.algo = TRUE,
                                                         !.param = ParamToConfig(t)])]
        /\ broken' = IF ParamToConfig(t) = "freed" THEN broken \union {t} ELSE broken \ {t}
     \/ /\ t \in LoadFails /\ broken' = broken \union {t}
        /\ task' = [task EXCEPT ![t].algo = FALSE, ![t].param = "NULL"]
     \/ /\ t \in LoadFails \intersect HwTasks /\ broken' = broken \union {t}
        /\ \E left \in {"NULL", ParamToConfig(t)} :
             task' = [task EXCEPT ![t].algo = TRUE, ![t].param = left]
  /\ Done /\ UNCHANGED <<slot, taskNum, namespaces, vector, enabled, ready>>

\* csi_dsp_task_algo_load: without update_task_status.  New parameters cannot be
\* allocated, or they are freed and kept when the load or its buffers fail.
AlgoLoad(s, t) ==
  /\ Named(s, t)
  /\ \/ /\ task' = [task EXCEPT ![t].algo = TRUE, ![t].param = "allocated"]
        /\ broken' = broken \ {t}
     \/ /\ t \in LoadFails /\ broken' = broken \union {t}
        /\ \/ task' = [task EXCEPT ![t].param = "NULL"]
           \/ task' = [task EXCEPT ![t].algo = FALSE, ![t].param = "freed"]
           \/ t \in HwTasks /\ task' = [task EXCEPT ![t].algo = TRUE, ![t].param = "freed"]
  /\ Done /\ UNCHANGED <<slot, taskNum, namespaces, vector, enabled, ready>>

\* dsp_get_latest_hw_task.
LatestRunning(t, i) ==
  LET running == {u \in HwTasks \ {t} : task[u].status = "RUNING" /\ task[u].irq = i}
  IN  IF running = {} THEN NoTask ELSE CHOOSE u \in running : \A v \in running : u <= v

\* dsp_task_start and ps_task_interrupt_register.  A software task of status
\* READY has no front end: what it hooks is no interrupt of Irqs.
StartHw(s, t) ==
  /\ Named(s, t) /\ t \in HwTasks /\ task[t].status = "READY"
  /\ LET i == task[t].irq
     IN  /\ task' = [task EXCEPT ![t].status = "RUNING",
                                 ![t].handler = IF vector[i].trigger
                                                  THEN Trigger(LatestRunning(t, i))
                                                  ELSE Driver]
         /\ vector' = [vector EXCEPT ![i] = Trigger(t)]
         /\ enabled' = enabled \union {i}
  /\ Done /\ UNCHANGED <<slot, taskNum, namespaces, ready, broken>>

StartSw(s, t) ==
  /\ Named(s, t) /\ t \in SwTasks /\ task[t].status = "READY"
  /\ task' = [task EXCEPT ![t].status = "RUNING"]
  /\ Done /\ UNCHANGED <<slot, taskNum, namespaces, vector, enabled, ready, broken>>

\* dsp_task_stop and ps_task_interrupt_disable, which gives the old handler the
\* number of the task that stops.
StopTask(s, t) ==
  /\ Named(s, t) /\ task[t].status = "RUNING"
  /\ task' = [task EXCEPT ![t].status = "READY"]
  /\ IF t \in HwTasks
       THEN /\ vector' = [vector EXCEPT ![task[t].irq] =
                            IF task[t].handler.trigger THEN Trigger(t) ELSE Driver]
            /\ enabled' = enabled \ {task[t].irq}
       ELSE UNCHANGED <<vector, enabled>>
  /\ Done /\ UNCHANGED <<slot, taskNum, namespaces, ready, broken>>

\* ps_destroy_task.
\* Mutations: the namespace stays; the last slot stays counted.
DestroyKeepsName(s, t) ==
  /\ Named(s, t)
  /\ taskNum' = IF taskNum = s + 1 THEN taskNum - 1 ELSE taskNum
  /\ slot' = [slot EXCEPT ![s] = NoTask]
  /\ task' = [task EXCEPT ![t].status = "FREE", ![t].algo = FALSE, ![t].param = "NULL"]
  /\ Done /\ UNCHANGED <<namespaces, vector, enabled, ready, broken>>

DestroyCountsDown(s, t) ==
  /\ Named(s, t)
  /\ taskNum' = taskNum - 1
  /\ slot' = [slot EXCEPT ![s] = NoTask]
  /\ task' = [task EXCEPT ![t].status = "FREE", ![t].algo = FALSE, ![t].param = "NULL"]
  /\ namespaces' = namespaces \ {t}
  /\ Done /\ UNCHANGED <<vector, enabled, ready, broken>>

Destroy(s, t) ==
  /\ Named(s, t)
  /\ Careful => task[t].status # "RUNING"
  /\ taskNum' = IF taskNum = s + 1 THEN taskNum - 1 ELSE taskNum
  /\ slot' = [slot EXCEPT ![s] = NoTask]
  /\ task' = [task EXCEPT ![t].status = "FREE", ![t].algo = FALSE, ![t].param = "NULL"]
  /\ namespaces' = namespaces \ {t}
  /\ Done /\ UNCHANGED <<vector, enabled, ready, broken>>

Create == \/ \E t \in HwTasks : CreateHw(t)
          \/ \E t \in SwTasks : \E type \in {"SW_TO_SW", "SW_TO_HW"} : CreateSw(t, type)

CommandOn(s, t) ==
  \/ \E i \in Irqs : FeConfig(s, t, i)
  \/ BeConfig(s, t) \/ AlgoConfig(s, t) \/ AlgoLoad(s, t)
  \/ StartHw(s, t) \/ StartSw(s, t) \/ StopTask(s, t) \/ Destroy(s, t)

Next ==
  \/ \E i \in Irqs : Interrupt(i)
  \/ \E t \in HwTasks : RunHwTask(t)
  \/ TakeCommand
  \/ Create
  \/ \E s \in Slots, t \in Tasks : CommandOn(s, t)

Spec == Init /\ [][Next]_vars

-----------------------------------------------------------------------------
(* Properties. *)

Allocated == {t \in Tasks : task[t].status # "FREE"}

\* Whatever the host allocates and frees in whatever order, the slots hold the
\* allocated tasks, each of them once and below task_num: an id the host has
\* names one task, and ps_create_task never runs out of slots before it runs
\* out of tasks (CSI_DSP_TASK_ADD_TO_SCHEDULER_FAIL cannot happen).
SlotsHoldAllocated ==
  /\ \A t \in Allocated : Cardinality({s \in Slots : slot[s] = t}) = 1
  /\ \A s \in Slots : slot[s] # NoTask => slot[s] \in Allocated /\ s < taskNum
  /\ Allocated # Tasks => FreeSlots # {} /\ \A s \in FreeSlots : slot[s] = NoTask

\* The host can send requests to exactly the software tasks it has allocated.
NamespaceOfAllocated == namespaces = (Allocated \ HwTasks) \ {Idle}

\* A running hardware task hears its interrupt.
RunningIsHooked ==
  \A t \in HwTasks : task[t].status = "RUNING" =>
    /\ task[t].irq \in enabled
    /\ Trigger(t) \in Chain(vector[task[t].irq])

\* When a started task finds ps_task_trigger_intr_handler installed, there is a
\* running task to chain to: ps_task_interrupt_register reports an error
\* otherwise, and goes on with task_table[-1].
ChainsToATask == \A i \in Irqs : Trigger(NoTask) \notin Chain(vector[i])

\* A hardware task of status READY is "config, ready to run" (ps_sched.h).
ReadyIsConfigured ==
  \A t \in HwTasks : task[t].status = "READY" => Configured(task[t])

\* A hardware task that is dispatched has the algorithm and the parameters that
\* dsp_process_hw_task uses unchecked.  A task stopped and freed may still have
\* been ready when the command began: that it runs before the next command is
\* a matter of priorities alone.  It does not hold of the tasks in broken: a failed
\* load leaves the status as it was, and a configuration after a failed
\* csi_dsp_task_algo_load makes a task READY with parameters already freed.
DispatchedIsRunnable ==
  \A t \in HwTasks \ broken : NextToRun(t) => task[t].algo /\ task[t].param = "allocated"
=============================================================================
