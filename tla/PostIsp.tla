------------------------------- MODULE PostIsp -------------------------------
(***************************************************************************)
(* The post-ISP back end of a hardware task: the task writes an entry into *)
(* the circular buffer, pushes it and triggers the post-ISP                *)
(* (post_isp_handler.c), whose interrupt pops the entries that it has read *)
(* (post_isp_hw.c).  When the front end is overrun, the back end triggers  *)
(* the rest of its frame without the task, and both ends start again with  *)
(* the next frame (dsp_process_hw_task of ps_sched.c).                     *)
(*                                                                         *)
(* The interrupt handler runs to its end between any two of the task's     *)
(* steps.  The post-ISP is external: it reads one entry for each trigger   *)
(* and goes on round the buffer from frame to frame.  The front end is     *)
(* reduced to its state and the line of the frame it hands out next, as    *)
(* IspFrontEnd shows them to be: a recovery ends at the start of a frame.  *)
(***************************************************************************)
EXTENDS IspCommon

VARIABLES
  pc,             \* where the task is in dsp_process_hw_task
  offset,         \* a local variable of ispc_push_new_line
  current,        \* handler.current_N_value: lines triggered of the frame
  fe,             \* task_fe.get_state()
  feLine,         \* the line of the frame that the front end hands out next
  triggers,       \* entries triggered that the post-ISP has not read
  hwLine,         \* lines read of the post-ISP's current frame
  hwBase,         \* slot where that frame starts
  doneInt,        \* the entry interrupt is pending (one bit)
  frameInt,       \* mp_ycbcr_frame_end is pending (one bit)
  late,           \* history: an entry interrupt merged with one still pending
  early,          \* history: a frame's end passed for that of a frame still to come
  stalled         \* history: a recovery's first entry was read before the state said so

taskVars == <<pc, offset>>
histVars == <<early, stalled>>
feVars == <<fe, feLine>>
hwVars == <<triggers, hwLine, hwBase, doneInt, frameInt, late>>
vars == <<handlerVars, taskVars, current, feVars, hwVars, histVars>>

Points == {"waiting", "algorithm", "push", "push_lines", "switch", "reset_side",
           "trigger", "overrun", "recover", "recovering", "recovered"}

\* line_num_used_per_frame: the frame, rounded up to whole entries.
Used == FrameLines - LastEntryLines + EntryLines

TypeOK ==
  /\ HandlerTypeOK
  /\ pc \in Points /\ offset \in Nat /\ current \in Nat
  /\ fe \in {"ok", "over_flow", "recovering", "recovery_done"} /\ feLine \in 0..(FrameLines - 1)
  /\ triggers \in Nat /\ hwLine \in 0..FrameLines /\ hwBase \in 0..(BufferLines - 1)
  /\ doneInt \in BOOLEAN /\ frameInt \in BOOLEAN /\ late \in BOOLEAN /\ early \in BOOLEAN /\ stalled \in BOOLEAN

Init ==
  /\ HandlerInit
  /\ pc = "waiting" /\ offset = 0 /\ current = 0
  /\ fe = "ok" /\ feLine = 0
  /\ triggers = 0 /\ hwLine = 0 /\ hwBase = 0
  /\ doneInt = FALSE /\ frameInt = FALSE
  /\ late = FALSE /\ early = FALSE /\ stalled = FALSE

-----------------------------------------------------------------------------
(* The front end. *)

\* Bound: no overrun follows one in which a frame's end came early.  Each would leave
\* a trigger more with the post-ISP than there are entries.
FeOverrun ==
  /\ ~early
  /\ fe = "ok" /\ fe' = "over_flow"
  /\ UNCHANGED <<handlerVars, taskVars, current, feLine, hwVars, histVars>>

\* Its frame-done interrupt ends the recovery.
FeRestart ==
  /\ fe = "recovery_done" /\ fe' = "ok" /\ feLine' = 0
  /\ UNCHANGED <<handlerVars, taskVars, current, hwVars, histVars>>

-----------------------------------------------------------------------------
(* The post-ISP. *)

HwEntry ==
  /\ triggers > 0 /\ hwLine < FrameLines
  /\ triggers' = triggers - 1
  /\ hwLine' = IF hwLine + EntryLines <= FrameLines THEN hwLine + EntryLines ELSE FrameLines
  /\ doneInt' = TRUE /\ late' = (late \/ doneInt)
  /\ UNCHANGED <<handlerVars, taskVars, current, feVars, hwBase, frameInt, histVars>>

HwFrameEnd ==
  /\ hwLine = FrameLines
  /\ hwLine' = 0 /\ hwBase' = (hwBase + Used) % BufferLines
  /\ frameInt' = TRUE
  /\ UNCHANGED <<handlerVars, taskVars, current, feVars, triggers, doneInt, late, histVars>>

-----------------------------------------------------------------------------
(* post_isp_interrupt_handler. *)

\* post_isp_pop_entry: ispc_pop_new_line without an interruption.
Popped(f, n) ==
  IF f.overflow \/ ~EnoughElementsToPop(f, n) THEN f ELSE [f EXCEPT !.head = @ + n]

PopEntry ==
  LET f == fifo[customer]
      n == IF f.head = FrameLines - LastEntryLines THEN LastEntryLines ELSE EntryLines
      g == Popped(f, n)
  IN  IF Elements(f) = 0
        THEN UNCHANGED handlerVars
        ELSE /\ fifo' = [fifo EXCEPT ![customer] = g]
             /\ UNCHANGED producer
             /\ customer' = IF LastEntryPopped(g) THEN Opposite(customer) ELSE customer
             /\ status' = CASE g.head > FrameLines -> "pop_fail"
                            [] LastEntryPopped(g) /\ customer' # producer -> "frame_switch_fail"
                            [] OTHER -> status

\* The rest of the frame is triggered entry by entry.
TriggersNext == doneInt /\ current < FrameLines

\* Mutation: the buffer is used from the same slot again.
RestartInPlace ==
  /\ ResetHandler(fifo[producer].offset)
  /\ status' = "recovery_done" /\ current' = 0

\* Mutation: the FIFO keeps what was pushed of the frame.
RestartUnreset ==
  /\ UNCHANGED <<customer, producer, fifo>>
  /\ status' = "recovery_done" /\ current' = 0

\* post_isp_recovery_state_update at the end of the frame.
Restart ==
  /\ ResetHandler(NextBase(fifo[producer], Used))
  /\ status' = "recovery_done" /\ current' = 0

\* Mutation: the entry triggered by the recovery is the last.
NoFurtherEntry ==
  /\ status = "recovering"
  /\ UNCHANGED triggers
  /\ \/ frameInt /\ Restart
     \/ ~frameInt /\ UNCHANGED <<handlerVars, current>>

InterruptRecovering ==
  /\ status = "recovering"
  /\ triggers' = IF TriggersNext THEN triggers + 1 ELSE triggers
  /\ \/ frameInt /\ Restart
     \/ /\ ~frameInt /\ UNCHANGED handlerVars
        /\ current' = IF TriggersNext THEN current + EntryLines ELSE current

Interrupt ==
  /\ doneInt \/ frameInt
  /\ \/ InterruptRecovering
     \/ status = "ok" /\ doneInt /\ PopEntry /\ UNCHANGED <<triggers, current>>
     \/ ~(status = "ok" /\ doneInt) /\ status # "recovering" /\ UNCHANGED <<handlerVars, triggers, current>>
  /\ doneInt' = FALSE /\ frameInt' = FALSE
  /\ early' = (early \/ (status = "recovering" /\ frameInt /\ (triggers' > 0 \/ current < FrameLines)))
  /\ stalled' = (stalled \/ (pc = "recovering" /\ doneInt /\ triggers = 0))
  /\ UNCHANGED <<taskVars, feVars, hwLine, hwBase, late>>

-----------------------------------------------------------------------------
(* The task. *)

At(from, to) == pc = from /\ pc' = to

\* post_isp_get_next_entry wants the buffer's next slot to start an entry; it asks
\* neither for room nor for the handler's state.
EntryAligned == TailSlot(fifo[producer]) % EntryLines = 0

GetEntries ==
  /\ fe = "ok"
  /\ At("waiting", IF EntryAligned THEN "algorithm" ELSE "waiting")
  /\ status' = IF EntryAligned THEN status ELSE "param_invalid"
  /\ UNCHANGED <<customer, producer, fifo, offset, current, feVars, hwVars, histVars>>

\* The algorithm fails, and the entry stays with the front end.
AlgorithmFails ==
  /\ At("algorithm", "waiting")
  /\ UNCHANGED <<handlerVars, offset, current, feVars, hwVars, histVars>>

\* The front end pops the entry and must not have been overrun.
AlgorithmDone ==
  /\ \/ /\ fe = "ok" /\ At("algorithm", "push")
        /\ feLine' = (feLine + EntryLines) % FrameLines
     \/ fe # "ok" /\ At("algorithm", "waiting") /\ UNCHANGED feLine
  /\ UNCHANGED <<handlerVars, offset, current, fe, hwVars, histVars>>

\* The height of the entry, which post_isp_push_entry pushes.
Height ==
  IF fifo[producer].tail = FrameLines - LastEntryLines THEN LastEntryLines ELSE EntryLines

\* ispc_push_new_line, step by step: the interrupt may pop meanwhile.
CheckPush ==
  /\ LET accepted == status = "ok" /\ ElementAccepted(Height)
     IN  /\ At("push", IF accepted THEN "push_lines" ELSE "waiting")
         /\ offset' = IF accepted THEN OtherSideLines ELSE 0
         /\ status' = IF status = "ok" /\ ~accepted THEN "param_invalid" ELSE status
  /\ UNCHANGED <<customer, producer, fifo, current, feVars, hwVars, histVars>>

PushLines ==
  /\ \/ /\ At("push_lines", "switch")
        /\ EnoughSpaceToPush(fifo[producer], EntryLines + offset)
        /\ fifo' = [fifo EXCEPT ![producer].tail = @ + EntryLines]
        /\ UNCHANGED status
     \/ /\ At("push_lines", "waiting")
        /\ ~EnoughSpaceToPush(fifo[producer], EntryLines + offset)
        /\ fifo' = [fifo EXCEPT ![producer].overflow = TRUE]
        /\ status' = "over_flow"
  /\ offset' = 0
  /\ UNCHANGED <<customer, producer, current, feVars, hwVars, histVars>>

SwitchSide ==
  /\ \/ At("switch", "reset_side") /\ LastEntryPushed(fifo[producer]) /\ producer' = Opposite(producer)
     \/ At("switch", "trigger") /\ ~LastEntryPushed(fifo[producer]) /\ UNCHANGED producer
  /\ UNCHANGED <<customer, status, fifo, offset, current, feVars, hwVars, histVars>>

ResetSide ==
  /\ At("reset_side", "trigger")
  /\ fifo' = [fifo EXCEPT ![producer] = ResetFifo(NextBase(fifo[Opposite(producer)], Used))]
  /\ UNCHANGED <<customer, producer, status, offset, current, feVars, hwVars, histVars>>

\* The rest of post_isp_push_entry.
Trigger ==
  /\ At("trigger", "waiting")
  /\ triggers' = triggers + 1
  /\ current' = fifo[producer].tail
  /\ UNCHANGED <<handlerVars, offset, feVars, hwLine, hwBase, doneInt, frameInt, late, histVars>>

\* Without an entry: the front end's state is updated, then the back end's.
NoEntry ==
  /\ fe # "ok"
  /\ \/ fe = "over_flow" /\ fe' = "recovering" /\ At("waiting", "recover")
     \/ fe # "over_flow" /\ UNCHANGED fe /\ At("waiting", "recovered")
  /\ UNCHANGED <<handlerVars, offset, current, feLine, hwVars, histVars>>

\* post_isp_recovery_state_update in the task: an entry is triggered before the state
\* changes.  An overflow of the back end itself stays.
StartRecovery ==
  /\ \/ /\ status \notin {"recovering", "over_flow", "recovery_done"}
        /\ At("recover", "recovering")
        /\ triggers' = triggers + 1
        /\ UNCHANGED status
     \/ /\ status \in {"recovering", "over_flow", "recovery_done"}
        /\ At("recover", "recovered")
        /\ status' = IF status = "recovery_done" THEN "ok" ELSE status
        /\ UNCHANGED triggers
  /\ UNCHANGED <<customer, producer, fifo, offset, current, feVars, hwLine, hwBase, doneInt, frameInt, late, histVars>>

SetRecovering ==
  /\ At("recovering", "recovered")
  /\ status' = "recovering" /\ current' = current + EntryLines
  /\ UNCHANGED <<customer, producer, fifo, offset, feVars, hwVars, histVars>>

FinishRecovery ==
  /\ At("recovered", "waiting")
  /\ \/ /\ fe = "recovering" /\ status = "recovery_done"
        /\ fe' = "recovery_done" /\ status' = "ok"
     \/ ~(fe = "recovering" /\ status = "recovery_done") /\ UNCHANGED <<fe, status>>
  /\ UNCHANGED <<customer, producer, fifo, offset, current, feLine, hwVars, histVars>>

Push == CheckPush \/ PushLines \/ SwitchSide \/ ResetSide \/ Trigger
Recover == NoEntry \/ StartRecovery \/ SetRecovering \/ FinishRecovery
Task == GetEntries \/ AlgorithmFails \/ AlgorithmDone \/ Push \/ Recover

Next == FeOverrun \/ FeRestart \/ HwEntry \/ HwFrameEnd \/ Interrupt \/ Task

\* The post-ISP reads what it is told to, its interrupt is taken, and the task goes on.
Fairness ==
  /\ WF_vars(HwEntry) /\ WF_vars(HwFrameEnd) /\ WF_vars(Interrupt) /\ WF_vars(Task)

Spec == Init /\ [][Next]_vars
FairSpec == Spec /\ Fairness

-----------------------------------------------------------------------------
(* Properties, for buffers no larger than a frame: in a larger one the         *)
(* producer may come round to the side that the customer is still on.  A       *)
(* frame's end that passes for another's (early) and entry interrupts that     *)
(* merge (late) are what the code gets wrong.                                  *)

\* The oldest entry in the FIFO is the one the post-ISP reads next, in the same slot
\* of the buffer, in every frame and after every recovery: post_isp_fifo_reset counts
\* the frame that the recovery has driven to its end, however much of it was pushed.
HeadIsRead ==
  status = "ok" /\ pc # "recovering" /\ ~late /\ ~early =>
    HeadSlot(fifo[customer]) = (hwBase + hwLine - (IF doneInt THEN EntryLines ELSE 0)) % BufferLines

\* As long as neither is in error, both ends of the task are at the same line of the
\* frame between two entries, after algorithms that fail and after overruns that come
\* while an entry is in hand: the frame that goes out is never shifted.
EndsAligned ==
  status = "ok" /\ fe = "ok" /\ pc = "waiting" => fifo[producer].tail = feLine

\* ispc_push_new_line has no lock against the pop of the interrupt: still the customer
\* never reaches the end of a frame before the producer has changed sides, and the
\* only fault of the back end is an overflow.
OnlyOverflowFaults ==
  early \/ status \in {"ok", "over_flow", "recovering", "recovery_done"}

\* The front end waits for the back end's recovery: the triggers of the interrupt
\* handler drive the post-ISP through the rest of its frame to the end.  They start
\* with an entry triggered before the state is set, and fail to when it is read by then.
RecoveryEnds == status = "recovering" /\ ~stalled /\ ~early ~> status = "recovery_done"
=============================================================================
