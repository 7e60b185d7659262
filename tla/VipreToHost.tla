----------------------------- MODULE VipreToHost -----------------------------
(***************************************************************************)
(* A task from the VIPRE into the host: the VIPRE fills whole frames into  *)
(* a ring of buffers (M-frame mode of vipre_handler.c and vipre_hw.c), the *)
(* interrupt handler pushes them, and the task takes one, runs the         *)
(* algorithm on it, pops it and hands the result to the host's back end    *)
(* (dsp_process_hw_task of ps_sched.c, HostBackEnd).                       *)
(*                                                                         *)
(* The VIPRE is external, modelled from how the handler uses it: a buffer  *)
(* it has filled is marked until the handler clears the mark, and finding  *)
(* the next one marked it raises its overflow interrupt.  One channel      *)
(* stands for those that are active, which are always treated alike.       *)
(***************************************************************************)
EXTENDS HostBackEnd

CONSTANTS
  FrameBuffers,   \* base_buffer_info.buffer_num
  Id,             \* task_fe.id: 0 takes every frame, 1 and 2 every second
  MaxLate         \* bound: 1 if a frame may end while the last one's interrupt is pending

\* The task has no entry of the back end.
NoBuffer == "no buffer"

ASSUME VipreAssumption ==
  /\ FrameBuffers \in 1 .. 4 /\ Id \in 0 .. 2 /\ MaxLate \in 0 .. 1
  /\ NoBuffer \notin Buffers

VARIABLES
  customer, producer, status, fifo,   \* of g_vipre_handler, as IspCommon has them
  hwNext,         \* the buffer the VIPRE fills, or will fill next
  hwFilling,      \* it is filling it
  hwFull,         \* VIPRE_M_FRAME_DONE_STATUS: the buffers that are marked
  doneInt,        \* the frame done interrupt is pending
  overInt,        \* the overflow interrupt is pending
  ready,          \* the task's bit in the scheduler's ready table
  pc,             \* where the task is in dsp_process_hw_task
  entry,          \* in_info's buffer, and the side and buffer_id of the pop
  popHead,        \* the head of the FIFO that pop_fifo has loaded
  out,            \* out_info, or that there was no back end entry
  stolen,         \* history: an overflow has given up the frame in use
  astray,         \* history: the VIPRE and the FIFO count different frames
  outrun          \* history: an overflow has emptied the FIFO between a step of the task
                  \* that found it not empty and one that uses that

\* A buffer is a line of the FIFO, a turn of the ring its frame.
INSTANCE IspCommon WITH FrameLines <- FrameBuffers, EntryLines <- 1, BufferLines <- FrameBuffers

vipreVars == <<customer, producer, status, fifo>>
hwVars == <<hwNext, hwFilling, hwFull>>
intVars == <<doneInt, overInt>>
localVars == <<entry, popHead, out>>
histVars == <<stolen, astray, outrun>>
vars == <<vipreVars, hwVars, intVars, ready, pc, localVars, histVars, beVars>>

FrameSlots == 0 .. FrameBuffers - 1
NoEntry == [side |-> 0, slot |-> 0]

Init ==
  /\ HandlerInit
  /\ hwNext = 0 /\ hwFilling = FALSE /\ hwFull = {}
  /\ doneInt = FALSE /\ overInt = FALSE
  /\ ready = FALSE /\ pc = "waiting" /\ entry = NoEntry /\ popHead = 0 /\ out = NoBuffer
  /\ stolen = FALSE /\ astray = FALSE /\ outrun = FALSE
  /\ BeInit

-----------------------------------------------------------------------------
(* The VIPRE. *)

\* A frame takes longer than the instructions of a pop: one that starts while
\* they run, starts before or after them.
Popping == pc \in {"pop_slot", "pop_regs", "pop_check", "pop_load", "pop_head",
                   "pop_test", "pop_store", "pop_compare"}

HwBegin ==
  /\ ~hwFilling /\ hwNext \notin hwFull /\ ~Popping
  /\ hwFilling' = TRUE
  /\ UNCHANGED <<vipreVars, hwNext, hwFull, intVars, ready, pc, localVars, histVars, beVars>>

\* Two frames on one interrupt are one too few for the FIFO.
HwDone ==
  /\ hwFilling /\ (doneInt => MaxLate = 1)
  /\ hwFilling' = FALSE
  /\ hwFull' = hwFull \union {hwNext} /\ hwNext' = (hwNext + 1) % FrameBuffers
  /\ doneInt' = TRUE /\ astray' = (astray \/ doneInt)
  /\ UNCHANGED <<vipreVars, overInt, ready, pc, localVars, stolen, outrun, beVars>>

HwOverflow ==
  /\ ~hwFilling /\ hwNext \in hwFull /\ ~overInt /\ ~Popping
  /\ overInt' = TRUE
  /\ UNCHANGED <<vipreVars, hwVars, doneInt, ready, pc, localVars, histVars, beVars>>

-----------------------------------------------------------------------------
(* vipre_interrupt_handler, then the task is ready. *)

\* Mutation: the producer stays on its side.
PushOneSided ==
  LET f == fifo[producer]
      pushed == [fifo EXCEPT ![producer].tail = @ + 1]
  IN  IF f.overflow
        THEN status' = "over_flow" /\ UNCHANGED <<producer, fifo>>
      ELSE IF ~EnoughSpaceToPush(f, 1)
        THEN fifo' = [fifo EXCEPT ![producer].overflow = TRUE] /\ UNCHANGED <<producer, status>>
      ELSE fifo' = pushed /\ UNCHANGED <<producer, status>>

\* vipre_push_new_entry: a turn of the ring done, the producer changes sides.
PushNewEntry ==
  LET f == fifo[producer]
      pushed == [fifo EXCEPT ![producer].tail = @ + 1]
  IN  IF f.overflow
        THEN status' = "over_flow" /\ UNCHANGED <<producer, fifo>>
      ELSE IF ~EnoughSpaceToPush(f, 1)
        THEN fifo' = [fifo EXCEPT ![producer].overflow = TRUE] /\ UNCHANGED <<producer, status>>
      ELSE IF LastEntryPushed(pushed[producer])
        THEN /\ producer' = Opposite(producer)
             /\ fifo' = [pushed EXCEPT ![Opposite(producer)] = ResetFifo(0)]
             /\ UNCHANGED status
      ELSE fifo' = pushed /\ UNCHANGED <<producer, status>>

ServeDone ==
  /\ doneInt
  /\ PushNewEntry
  /\ doneInt' = FALSE /\ ready' = TRUE
  /\ UNCHANGED <<customer, hwVars, overInt, pc, localVars, histVars, beVars>>

\* Mutation: the mark of the next buffer.
UnmarkNext(slot) == hwFull' = hwFull \ {(slot + 1) % FrameBuffers}

\* The three things vipre_pop_new_entry does to a side that is not empty.
Unmark(slot) == hwFull' = hwFull \ {slot}

CanPop(side) == ~fifo[side].overflow /\ EnoughElementsToPop(fifo[side], 1)
Popped(side) == IF CanPop(side) THEN [fifo EXCEPT ![side].head = @ + 1] ELSE fifo

\* The end of vipre_pop_new_entry in one: nothing interrupts the interrupt.
SwitchSide(side, f) ==
  IF LastEntryPopped(f[side])
    THEN /\ customer' = Opposite(side)
         /\ status' = IF Opposite(side) = producer THEN status ELSE "frame_switch_fail"
    ELSE UNCHANGED <<customer, status>>

InUse == pc \in {"algorithm", "pop", "pop_slot", "pop_regs"}

\* Where the task has found the FIFO not empty and goes on to read its head.
FoundFilled == pc \in {"get_match", "get_entry", "pop_slot", "pop_load"}

\* Mutation: no frame is dropped.
ServeOverflowOnly ==
  /\ ~doneInt /\ overInt
  /\ overInt' = FALSE /\ ready' = TRUE
  /\ UNCHANGED <<vipreVars, hwVars, doneInt, pc, localVars, histVars, beVars>>

ServeOverflow ==
  /\ ~doneInt /\ overInt
  /\ IF Elements(fifo[customer]) = 0
       THEN UNCHANGED <<vipreVars, hwFull, stolen, outrun>>
       ELSE /\ Unmark(HeadSlot(fifo[customer]))
            /\ fifo' = Popped(customer)
            /\ SwitchSide(customer, fifo')
            /\ stolen' = (stolen \/ InUse)
            /\ outrun' = (outrun \/ (FoundFilled /\ Elements(fifo[customer]) = 1))
            /\ UNCHANGED producer
  /\ overInt' = FALSE /\ ready' = TRUE
  /\ UNCHANGED <<hwNext, hwFilling, doneInt, pc, localVars, astray, beVars>>

-----------------------------------------------------------------------------
(* The task. *)

At(from, to) == pc = from /\ pc' = to

\* even_odd_frame_match: by the place in the ring.
EvenOddMatch(slot) == Id = 0 \/ slot % 2 = Id - 1

\* get_vipre_next_entry, and get_sw_be_next_entry: without a buffer the frame
\* is dropped.  The interrupt may come between the steps: each reads the head
\* anew.
FindEntry ==
  /\ ready /\ Elements(fifo[customer]) # 0
  /\ At("waiting", "get_match")
  /\ entry' = [entry EXCEPT !.side = customer]
  /\ UNCHANGED <<vipreVars, hwVars, intVars, ready, popHead, out, histVars, beVars>>

MatchEntry ==
  /\ EvenOddMatch(HeadSlot(fifo[entry.side]))
  /\ At("get_match", "get_entry")
  /\ UNCHANGED <<vipreVars, hwVars, intVars, ready, localVars, histVars, beVars>>

\* Mutation: the frame at the tail.
GetLastEntry ==
  /\ At("get_entry", "algorithm") /\ HasBuffer /\ out' = NextBuffer
  /\ entry' = [entry EXCEPT !.slot = TailSlot(fifo[entry.side])]
  /\ UNCHANGED <<vipreVars, hwVars, intVars, ready, popHead, histVars, beVars>>

GetNextEntry ==
  /\ \/ At("get_entry", "algorithm") /\ HasBuffer /\ out' = NextBuffer
     \/ At("get_entry", "pop") /\ ~HasBuffer /\ out' = NoBuffer
  /\ entry' = [entry EXCEPT !.slot = HeadSlot(fifo[entry.side])]
  /\ UNCHANGED <<vipreVars, hwVars, intVars, ready, popHead, histVars, beVars>>

\* vipre_recovery_state_update, when the handler has overflowed: a pop, and
\* with the host as back end the task is recovered in the same run.
Recover ==
  /\ Unmark(HeadSlot(fifo[customer]))
  /\ fifo' = Popped(customer)
  /\ customer' = IF LastEntryPopped(fifo'[customer]) THEN Opposite(customer) ELSE customer
  /\ status' = "ok"

GetNoEntry ==
  /\ \/ ready /\ Elements(fifo[customer]) = 0 /\ At("waiting", "done")
     \/ ~EvenOddMatch(HeadSlot(fifo[entry.side])) /\ At("get_match", "done")
  /\ IF status = "over_flow" THEN Recover ELSE UNCHANGED <<customer, status, fifo, hwFull>>
  /\ UNCHANGED <<producer, hwNext, hwFilling, intVars, ready, localVars, histVars, beVars>>

\* The algorithm ran, or failed and the frame stays.
AlgorithmDone ==
  /\ At("algorithm", "pop") \/ At("algorithm", "done")
  /\ UNCHANGED <<vipreVars, hwVars, intVars, ready, localVars, histVars, beVars>>

\* task_fe.entry_done is vipre_pop_new_entry: the interrupt, which may pop the
\* same side, may come between its steps and those of pop_fifo.
AfterPop == IF out = NoBuffer THEN "done" ELSE "fe_state"

StartPop ==
  /\ pc = "pop"
  /\ pc' = IF Elements(fifo[customer]) = 0 THEN AfterPop ELSE "pop_slot"
  /\ entry' = [entry EXCEPT !.side = customer]
  /\ UNCHANGED <<vipreVars, hwFull, popHead, astray>>

UnmarkEntry ==
  \/ /\ At("pop_slot", "pop_regs")
     /\ entry' = [entry EXCEPT !.slot = HeadSlot(fifo[entry.side])]
     /\ UNCHANGED <<vipreVars, hwFull, popHead, astray>>
  \/ /\ At("pop_regs", "pop_check")
     /\ Unmark(entry.slot)
     /\ UNCHANGED <<vipreVars, entry, popHead, astray>>

PopFifo ==
  \/ /\ At("pop_check", IF CanPop(entry.side) THEN "pop_load" ELSE "pop_test")
     /\ UNCHANGED <<vipreVars, entry, popHead, astray>>
  \/ /\ At("pop_load", "pop_head")
     /\ popHead' = fifo[entry.side].head
     /\ UNCHANGED <<vipreVars, entry, astray>>
  \/ /\ At("pop_head", "pop_test")
     /\ fifo' = [fifo EXCEPT ![entry.side].head = popHead + 1]
     /\ astray' = (astray \/ popHead # entry.slot)
     /\ popHead' = 0
     /\ UNCHANGED <<customer, producer, status, entry>>

EndPop ==
  \/ /\ At("pop_test", IF LastEntryPopped(fifo[entry.side]) THEN "pop_store" ELSE AfterPop)
     /\ UNCHANGED <<customer, status>>
  \/ /\ At("pop_store", "pop_compare")
     /\ customer' = Opposite(entry.side)
     /\ UNCHANGED status
  \/ /\ At("pop_compare", AfterPop)
     /\ status' = IF customer = producer THEN status ELSE "frame_switch_fail"
     /\ UNCHANGED customer

PopEntry ==
  /\ \/ StartPop
     \/ UnmarkEntry
     \/ PopFifo /\ UNCHANGED hwFull
     \/ EndPop /\ UNCHANGED <<producer, fifo, hwFull, entry, popHead, astray>>
  /\ UNCHANGED <<hwNext, hwFilling, intVars, ready, out, stolen, outrun, beVars>>

CheckFrontEnd ==
  /\ At("fe_state", IF status = "ok" THEN "be_start" ELSE "done")
  /\ UNCHANGED <<vipreVars, hwVars, intVars, ready, localVars, histVars, beVars>>

\* A failed start is reported only when it is the back end's own failure.
StartBackEnd ==
  /\ \/ At("be_start", "send") /\ (KeepLast \/ TakeBuffer(out))
     \/ At("be_start", "done") /\ DropFrame
  /\ UNCHANGED <<vipreVars, hwVars, intVars, ready, localVars, histVars, reportId, hands>>

\* The scheduler's loop sends the report, if the last one was read.
Report ==
  /\ At("send", "done")
  /\ SendReport
  /\ UNCHANGED <<vipreVars, hwVars, intVars, ready, localVars, histVars>>

\* clr_ready_task of a task that is alone on the VIPRE.
EndOfRun ==
  /\ At("done", "waiting")
  /\ ready' = FALSE
  /\ entry' = NoEntry /\ out' = NoBuffer /\ stolen' = FALSE
  /\ UNCHANGED <<vipreVars, hwVars, intVars, popHead, astray, outrun, beVars>>

Task ==
  \/ FindEntry \/ MatchEntry \/ GetNextEntry \/ GetNoEntry \/ AlgorithmDone \/ PopEntry
  \/ CheckFrontEnd \/ StartBackEnd \/ Report \/ EndOfRun

\* The host, and its command, which the common task runs between two runs of
\* this one.
feVars == <<vipreVars, hwVars, intVars, ready, pc, localVars, histVars>>
HostReadsReport == HostReads /\ UNCHANGED feVars
HostGivesBack == pc = "waiting" /\ (\E b \in hands : AssignBuffer(b)) /\ UNCHANGED feVars

Next ==
  \/ HwBegin \/ HwDone \/ HwOverflow \/ ServeDone \/ ServeOverflow
  \/ Task \/ HostReadsReport \/ HostGivesBack

\* The VIPRE streams, a raised interrupt is taken and a task that is ready runs.
\* The host may stop at any time.
Fairness ==
  /\ WF_vars(HwBegin) /\ WF_vars(HwDone) /\ WF_vars(HwOverflow)
  /\ WF_vars(ServeDone) /\ WF_vars(ServeOverflow) /\ WF_vars(Task)

Spec == Init /\ [][Next]_vars
FairSpec == Spec /\ Fairness

-----------------------------------------------------------------------------
(* Properties. *)

\* The frames in the FIFO, on both sides.
Queued ==
  {i % FrameBuffers : i \in fifo[customer].head .. fifo[customer].tail - 1}
    \union (IF producer = customer THEN {} ELSE {i \in FrameSlots : i < fifo[producer].tail})

\* The frame that the pop has unmarked and not taken yet.
Unmarked == IF pc \in {"pop_check", "pop_load", "pop_head"} THEN {entry.slot} ELSE {}

\* What the handler has queued is what the VIPRE has marked, but for the frame
\* whose interrupt is pending and the one that is being popped: no buffer is
\* filled while it waits for the task, none stays marked with nobody to take
\* it.  Until two frames come on one interrupt, or an overflow interrupt
\* between the steps of a pop (vipre_pop_new_entry has no lock).
MarkedAreQueued ==
  ~astray /\ ~outrun =>
    hwFull \ (IF doneInt THEN {(hwNext - 1) % FrameBuffers} ELSE {}) = Queued \ Unmarked

\* The frame that the task has in use stays marked, so that the VIPRE does not
\* fill its buffer, unless an overflow interrupt has given it up.
InUseStaysMarked == InUse /\ ~stolen /\ ~outrun => entry.slot \in hwFull

\* The handler is never in a fault: a ring of frames is left by the same number
\* of frames that have entered it, so its FIFO never overflows, and the customer
\* finds the producer on its side.  It takes an overflow interrupt that empties
\* the FIFO under a pop, which then moves the head past the tail.
NeverFaults == ~outrun => status = "ok" /\ SidesInOrder

\* The frame at the head makes room in the end, although a task that is alone
\* on the VIPRE takes one frame for an interrupt and leaves the others, and
\* leaves its frame where the algorithm fails: the VIPRE overflows, and the
\* interrupt drops it.
HeadMovesOn ==
  \A s \in FrameSlots :
    (Elements(fifo[customer]) # 0 /\ HeadSlot(fifo[customer]) = s)
      ~> (astray \/ outrun \/ Elements(fifo[customer]) = 0 \/ HeadSlot(fifo[customer]) # s)

Unread == {report} \intersect Buffers

\* Every buffer of the host is in one place, in the ring, in a report, or with
\* the host, unless its report was overwritten; the host never has a buffer
\* that the algorithm may be given.
BuffersConserved ==
  /\ Cardinality(InRing) = be.valid
  /\ InRing \intersect (Unread \union hands \union lost) = {}
  /\ Unread \intersect (hands \union lost) = {} /\ hands \intersect lost = {}
  /\ Buffers = InRing \union Unread \union hands \union lost
=============================================================================
