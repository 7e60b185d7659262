----------------------------- MODULE IspFrontEnd -----------------------------
(***************************************************************************)
(* The ISP front end of a hardware task: the ISP writes a frame into the   *)
(* circular buffer and raises an interrupt every EntryLines lines          *)
(* (isp_hw.c), the interrupt handler pushes the lines (isp_common.c), and  *)
(* the task the scheduler dispatches takes an entry, runs the algorithm on *)
(* it, pops it, hands it to the back end, or drives the recovery from an   *)
(* overrun (isp_handler.c, dsp_process_hw_task of ps_sched.c).             *)
(*                                                                         *)
(* The task's steps are separate actions, because the interrupt handler    *)
(* may run between any two of them; the handler itself runs to its end.    *)
(* The ISP is external: it writes on round the buffer without looking at   *)
(* the FIFO, and may be MaxLate entries ahead of the last handler run.     *)
(* The back end is reduced to the state the recovery reads.                *)
(***************************************************************************)
EXTENDS IspCommon

CONSTANT MaxLate        \* bound: entries written while an interrupt is pending

ASSUME LateAssumption == MaxLate \in Nat

VARIABLES
  hwLine,         \* N counter register: lines written of the current frame
  hwBase,         \* slot where the current frame starts
  hwDone,         \* the frame's PPW_FRAME_DONE was raised
  lineInts,       \* N-lines interrupts raised and not served (one MI3 bit)
  frameInt,       \* PPW_FRAME_DONE is pending (one MI2 bit)
  ready,          \* the task's bit in the scheduler's ready table
  pc,             \* where the task is in dsp_process_hw_task
  entry,          \* the entry it works on: in_info
  newBase,        \* base_index, a local variable of isp_fifo_reset
  beState,        \* task_be.get_state(), as far as the recovery reads it
  torn,           \* history: an interrupt told of lines written over the entry in use
  missed,         \* history: a frame ended that the recovery did not count
  late            \* history: the ISP wrote on while an interrupt was pending

hwVars == <<hwLine, hwBase, hwDone>>
intVars == <<lineInts, frameInt>>
taskVars == <<pc, entry, newBase, beState>>
histVars == <<torn, missed, late>>
vars == <<handlerVars, hwVars, intVars, taskVars, ready, histVars>>

Entries == [y : Nat, height : Nat, slot : 0..(BufferLines - 1)]
NoEntry == [y |-> 0, height |-> 0, slot |-> 0]

\* Points of dsp_process_hw_task where an interrupt can make a difference, those
\* in the two places it pops an entry among them.
PopAt ==
  [check |-> "pop", fifo |-> "pop_fifo", head |-> "pop_head", test |-> "pop_test",
   store |-> "pop_store", compare |-> "pop_compare", mismatch |-> "pop_mismatch",
   return |-> "fe_state"]
DropAt ==
  [check |-> "drop", fifo |-> "drop_fifo", head |-> "drop_head", test |-> "drop_test",
   store |-> "drop_store", compare |-> "drop_compare", mismatch |-> "drop_mismatch",
   return |-> "done"]

PopPoints ==
  {"pop", "pop_fifo", "pop_head", "pop_test", "pop_store", "pop_compare", "pop_mismatch"}
DropPoints ==
  {"drop", "drop_fifo", "drop_head", "drop_test", "drop_store", "drop_compare", "drop_mismatch"}
Points ==
  {"waiting", "algorithm", "fe_state", "be_start", "overrun", "recovering", "reset", "done"}
    \cup PopPoints \cup DropPoints

TypeOK ==
  /\ HandlerTypeOK
  /\ hwLine \in 0..FrameLines /\ hwBase \in 0..(BufferLines - 1) /\ hwDone \in BOOLEAN
  /\ lineInts \in Nat /\ frameInt \in BOOLEAN
  /\ ready \in BOOLEAN /\ torn \in BOOLEAN /\ missed \in BOOLEAN /\ late \in BOOLEAN
  /\ pc \in Points /\ entry \in Entries /\ newBase \in 0..(BufferLines - 1)
  /\ beState \in {"ok", "recovering", "recovery_done"}

Init ==
  /\ HandlerInit
  /\ hwLine = 0 /\ hwBase = 0 /\ hwDone = FALSE
  /\ lineInts = 0 /\ frameInt = FALSE
  /\ ready = FALSE /\ torn = FALSE /\ missed = FALSE /\ late = FALSE
  /\ pc = "waiting" /\ entry = NoEntry /\ newBase = 0 /\ beState = "ok"

-----------------------------------------------------------------------------
(* The ISP. *)

HwWrite(base, line, n) ==
  /\ lineInts <= MaxLate
  /\ frameInt => MaxLate > 0
  /\ hwLine' = line + n /\ hwBase' = base /\ hwDone' = FALSE
  /\ lineInts' = lineInts + 1
  /\ late' = (late \/ lineInts > 0 \/ frameInt)
  /\ UNCHANGED <<handlerVars, taskVars, ready, frameInt, torn, missed>>

HwLines ==
  \/ /\ hwLine < FrameLines
     /\ HwWrite(hwBase, hwLine,
                IF hwLine + EntryLines <= FrameLines THEN EntryLines ELSE FrameLines - hwLine)
  \/ /\ hwLine = FrameLines /\ hwDone
     /\ HwWrite((hwBase + FrameLines) % BufferLines, 0, EntryLines)

HwFrameEnd ==
  /\ hwLine = FrameLines /\ ~hwDone
  /\ hwDone' = TRUE /\ frameInt' = TRUE
  /\ UNCHANGED <<handlerVars, taskVars, ready, hwLine, hwBase, lineInts, histVars>>

-----------------------------------------------------------------------------
(* isp_interrupt_handler, called by ps_task_trigger_intr_handler, which then *)
(* sets the task ready.  A push needs status "ok" and leaves it or turns it  *)
(* into an error, the frame-done branches need a recovery state: the two     *)
(* parts of the handler never both change the state.                         *)

\* line_entry - ispc_get_pushed_line_num, as the uint16_t parameter takes it.
NewLines == (hwLine - fifo[producer].tail) % 65536

\* The entry's lines are being read: taken from the FIFO and not popped.
EntryInUse == pc \in {"algorithm", "pop", "pop_fifo", "pop_head"}

Slots(start, n) == {(start + i) % BufferLines : i \in 0..(n - 1)}

\* The slots of the lines this interrupt is about.
ServedSlots == Slots(hwBase + hwLine - lineInts * EntryLines, lineInts * EntryLines)

\* Mutation: the frame-done interrupt does not reset a recovering handler.
FrameDoneKeepsOffset ==
  /\ status' = IF status = "recovery_done" THEN "ok" ELSE status
  /\ UNCHANGED <<customer, producer, fifo>>

FrameDone ==
  \/ /\ status = "recovery_done"
     /\ status' = "ok"
     /\ UNCHANGED <<customer, producer, fifo>>
  \/ /\ status = "recovering"
     /\ ResetHandler(NextBase(fifo[producer], FrameLines))
     /\ UNCHANGED status
  \/ /\ status \notin {"recovery_done", "recovering"}
     /\ UNCHANGED handlerVars

Interrupt ==
  /\ lineInts > 0 \/ frameInt
  /\ \/ lineInts > 0 /\ PushNewLine(NewLines, FrameLines)
     \/ ~(lineInts > 0 /\ status = "ok") /\ frameInt /\ FrameDone
     \/ ~(lineInts > 0 /\ status = "ok") /\ ~frameInt /\ UNCHANGED handlerVars
  /\ lineInts' = 0 /\ frameInt' = FALSE
  /\ ready' = TRUE
  /\ torn' = (torn \/ (EntryInUse /\ ServedSlots \cap Slots(entry.slot, entry.height) # {}))
  /\ missed' = (missed \/ (frameInt /\ (status' = "over_flow" \/ pc = "reset")))
  /\ UNCHANGED <<hwVars, taskVars, late>>
-----------------------------------------------------------------------------
(* The task. *)

At(from, to) == pc = from /\ pc' = to

\* isp_get_next_entry prefers a whole entry and settles for the last one's size.
NextHeight ==
  IF EnoughElementsToPop(fifo[customer], EntryLines) THEN EntryLines ELSE LastEntryLines

CanGetEntry ==
  /\ status = "ok"
  /\ Elements(fifo[customer]) # 0
  /\ EnoughElementsToPop(fifo[customer], NextHeight)

\* An entry that crosses the buffer's bottom comes as two blocks.
CrossesBottom == HeadSlot(fifo[customer]) + NextHeight > BufferLines

GetNextEntry ==
  /\ ready /\ CanGetEntry /\ ~CrossesBottom
  /\ At("waiting", "algorithm")
  /\ entry' = [y |-> fifo[customer].head, height |-> NextHeight, slot |-> HeadSlot(fifo[customer])]
  /\ torn' = FALSE
  /\ UNCHANGED <<handlerVars, hwVars, intVars, ready, newBase, beState, missed, late>>

\* get_isp_next_entry refuses a second block; isp_get_next_entry returns early
\* on a status or an empty FIFO, and faults on a remainder that is no entry.
GetNoEntry ==
  /\ ready /\ (CrossesBottom \/ ~CanGetEntry)
  /\ At("waiting", "overrun")
  /\ status' = IF status = "ok" /\ Elements(fifo[customer]) # 0 /\ ~CanGetEntry
                 THEN "pop_fail" ELSE status
  /\ UNCHANGED <<customer, producer, fifo, hwVars, intVars, ready, entry, newBase, beState, histVars>>

\* The algorithm ran; it failed, or there was no back-end entry or no algorithm,
\* and the entry stays in the FIFO; or the back end has no buffer and the task
\* drops the entry (HW_TO_SW).
AlgorithmDone ==
  /\ At("algorithm", "pop") \/ At("algorithm", "done") \/ At("algorithm", "drop")
  /\ UNCHANGED <<handlerVars, hwVars, intVars, ready, entry, newBase, beState, histVars>>

\* fe.entry_done is isp_pop_n_line, in the steps of IspCommon.
EntryDone(at) ==
  /\ \/ /\ At(at.check, IF PopAllowed THEN at.fifo ELSE at.return)
        /\ UNCHANGED handlerVars
     \/ /\ At(at.fifo, IF PopFifoAllowed(entry.height) THEN at.head ELSE at.test)
        /\ UNCHANGED handlerVars
     \/ At(at.head, at.test) /\ AdvanceHead(entry.height)
     \/ At(at.test, at.return) /\ BeyondFrame(fifo[customer]) /\ FailPop
     \/ /\ At(at.test, IF LastEntryPopped(fifo[customer]) THEN at.store ELSE at.return)
        /\ ~BeyondFrame(fifo[customer]) /\ UNCHANGED handlerVars
     \/ At(at.store, at.compare) /\ SwitchCustomer
     \/ /\ At(at.compare, IF customer = producer THEN at.return ELSE at.mismatch)
        /\ UNCHANGED handlerVars
     \/ At(at.mismatch, at.return) /\ FailSwitch
  /\ UNCHANGED <<hwVars, intVars, ready, entry, newBase, beState, histVars>>

PopEntry == EntryDone(PopAt)
DropEntry == EntryDone(DropAt)

\* Mutation: the entry goes to the back end whatever the front end's state.
CheckNothing ==
  /\ At("fe_state", "be_start")
  /\ UNCHANGED <<handlerVars, hwVars, intVars, ready, entry, newBase, beState, histVars>>

CheckFrontEnd ==
  /\ At("fe_state", IF status = "ok" THEN "be_start" ELSE "done")
  /\ UNCHANGED <<handlerVars, hwVars, intVars, ready, entry, newBase, beState, histVars>>

StartBackEnd ==
  /\ At("be_start", "done")
  /\ UNCHANGED <<handlerVars, hwVars, intVars, ready, entry, newBase, beState, histVars>>

\* The recovery: an overrun front end and its back end start to recover.  The
\* back end of the host is done at once, the post-ISP when its frame is.
BackEndNext ==
  [ok |-> {"recovering", "recovery_done"}, recovering |-> {"recovery_done"},
   recovery_done |-> {"ok"}]
BackEndUpdate == beState' \in BackEndNext[beState]

\* Mutation: the task leaves the front end in its error state.
IgnoreOverrun ==
  /\ At("overrun", "done")
  /\ UNCHANGED <<handlerVars, beState>>
  /\ UNCHANGED <<hwVars, intVars, ready, entry, newBase, histVars>>

CheckOverrun ==
  /\ At("overrun", "recovering")
  /\ \/ /\ status = "over_flow"
        /\ status' = "recovering"
        /\ UNCHANGED <<customer, producer, fifo>>
        /\ BackEndUpdate
     \/ status # "over_flow" /\ UNCHANGED <<handlerVars, beState>>
  /\ UNCHANGED <<hwVars, intVars, ready, entry, newBase, histVars>>

\* isp_recovery_state_update out of "recovering": isp_fifo_reset reads the
\* offset here and stores it in FinishRecovery.
CheckRecovery ==
  /\ \/ /\ At("recovering", "reset")
        /\ status = "recovering" /\ beState = "recovery_done"
        /\ customer' = producer
        /\ newBase' = NextBase(fifo[producer], FrameLines)
     \/ /\ At("recovering", "done")
        /\ ~(status = "recovering" /\ beState = "recovery_done")
        /\ UNCHANGED <<customer, newBase>>
  /\ UNCHANGED <<producer, status, fifo, hwVars, intVars, ready, entry, beState, histVars>>

\* Mutation: the front end runs again without waiting for a frame to end.
RecoverAtOnce ==
  /\ At("reset", "done")
  /\ ResetHandler(newBase)
  /\ status' = "ok"
  /\ BackEndUpdate
  /\ UNCHANGED <<hwVars, intVars, ready, entry, newBase, histVars>>

FinishRecovery ==
  /\ At("reset", "done")
  /\ ResetHandler(newBase)
  /\ status' = "recovery_done"
  /\ BackEndUpdate
  /\ UNCHANGED <<hwVars, intVars, ready, entry, newBase, histVars>>

\* clr_ready_task: an ISP task has no task_empty_check.  The local variables of
\* this run are gone.
EndOfRun ==
  /\ At("done", "waiting")
  /\ ready' = FALSE
  /\ entry' = NoEntry /\ newBase' = 0 /\ torn' = FALSE
  /\ UNCHANGED <<handlerVars, hwVars, intVars, beState, missed, late>>

Task ==
  \/ GetNextEntry \/ GetNoEntry \/ AlgorithmDone \/ PopEntry \/ DropEntry
  \/ CheckFrontEnd \/ StartBackEnd \/ CheckOverrun \/ CheckRecovery
  \/ FinishRecovery \/ EndOfRun

\* The post-ISP reaches the end of the frame it was triggered through.
BackEndRecovered ==
  /\ beState = "recovering" /\ BackEndUpdate
  /\ UNCHANGED <<handlerVars, hwVars, intVars, ready, histVars, pc, entry, newBase>>

Next == HwLines \/ HwFrameEnd \/ Interrupt \/ Task \/ BackEndRecovered

\* The ISP streams, a raised interrupt is taken, the dispatched task runs and
\* the post-ISP finishes the frame it is triggered through.
Fairness ==
  /\ WF_vars(HwLines) /\ WF_vars(HwFrameEnd) /\ WF_vars(Interrupt)
  /\ WF_vars(Task) /\ WF_vars(BackEndRecovered)

Spec == Init /\ [][Next]_vars
FairSpec == Spec /\ Fairness

-----------------------------------------------------------------------------
(* Properties.  "In time" is: the ISP has never written on while an interrupt *)
(* was pending; what is said of it need not come back afterwards.            *)

\* A geometry of whole entries keeps every entry in one block: the FIFO never
\* hands the task an entry that crosses the buffer's bottom, which
\* get_isp_next_entry would refuse for ever.
EntryNeverSplit == CanGetEntry => ~CrossesBottom

\* With interrupts served in time, a working front end counts the same lines
\* as the ISP: the next line it will push is the next the ISP will write.
\* Recovery must bring the two together again after an overrun.
LineCursorInSync ==
  status = "ok" /\ lineInts = 0 /\ ~late => fifo[producer].tail = hwLine % FrameLines

\* ...and it sits in the same slot of the buffer, so an entry's address is
\* where the ISP wrote it.  The exception is what the code gets wrong: a frame
\* that ends while an overrun is still unnoticed, or between the two steps of
\* isp_fifo_reset in the task, is not added to the offset.
SlotCursorInSync ==
  status = "ok" /\ lineInts = 0 /\ ~missed /\ ~late =>
    TailSlot(fifo[producer]) = (hwBase + hwLine) % BufferLines

\* As long as nothing overruns, the producer never resets the FIFO the customer
\* is popping from: no line pushed is lost without an error.
CustomerSideKept ==
  [][status = "ok" /\ producer # customer =>
       fifo'[customer].tail = fifo[customer].tail]_vars

\* Whole entries and interrupts in time never take the front end to a fault
\* other than an overrun: no other fault is ever recovered from.
OnlyOverrunFaults ==
  late \/ status \in {"ok", "over_flow", "recovering", "recovery_done"}

\* The check of the front end's state after the algorithm (dsp_process_hw_task)
\* keeps from the back end every entry that lines of the ISP ran over while it
\* was in use, once an interrupt, served in time, has told of them.
TornEntryNotStarted ==
  [][pc = "fe_state" /\ torn /\ ~missed /\ ~late => pc' # "be_start"]_vars

\* An overrun is recovered from, whichever back end the task has.
OverrunRecovers == status = "over_flow" ~> status = "ok"
=============================================================================
