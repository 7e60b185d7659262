---------------------------- MODULE PostIspProofs ----------------------------
(***************************************************************************)
(* Proofs about the post-ISP back end, for every geometry of whole         *)
(* entries: both ends of a task stay at the same line, the interrupt's pop *)
(* never comes between a push's steps to do harm, and the head of the FIFO *)
(* is the entry that the post-ISP reads next.                              *)
(***************************************************************************)
EXTENDS PostIsp, TLAPS

-----------------------------------------------------------------------------
(* The geometry of a buffer of whole entries. *)

\* What most steps need of the geometry.
LEMMA GeometryFacts ==
  /\ FrameLines \in Nat /\ EntryLines \in Nat /\ BufferLines \in Nat
  /\ 0 < FrameLines /\ 0 < EntryLines /\ 0 < BufferLines
BY GeometryAssumption

\* A line number taken round the buffer is one of its slots.
LEMMA SlotInBuffer ==
  ASSUME NEW n \in Nat
  PROVE  n % BufferLines \in 0..(BufferLines - 1)
BY GeometryAssumption

\* A side that has been reset.
LEMMA ResetFifoTyped ==
  ASSUME NEW base \in 0..(BufferLines - 1)
  PROVE  /\ ResetFifo(base) \in Fifos
         /\ ResetFifo(base).head = 0 /\ ResetFifo(base).tail = 0
BY GeometryAssumption DEF ResetFifo, Fifos

\* The numbers a FIFO is made of.
LEMMA FifoFields ==
  ASSUME NEW f \in Fifos
  PROVE  f.head \in Nat /\ f.tail \in Nat /\ f.offset \in Nat
<1>1. f.head \in Nat /\ f.tail \in Nat /\ f.offset \in 0..(BufferLines - 1)
  BY DEF Fifos
<1> QED  BY <1>1, GeometryAssumption

\* The FIFO is empty at first.
LEMMA HandlerStarts ==
  ASSUME HandlerInit
  PROVE  HandlerTypeOK /\ \A s \in Sides : fifo[s].head = 0 /\ fifo[s].tail = 0
<1>1. 0 \in 0..(BufferLines - 1)
  BY GeometryAssumption
<1>2. HandlerTypeOK
  BY <1>1, ResetFifoTyped DEF HandlerInit, HandlerTypeOK, Sides, Statuses
<1> QED  BY <1>1, <1>2, ResetFifoTyped DEF HandlerInit

\* Line numbers at which a whole entry ends.
Wholes == {k * EntryLines : k \in Nat}

\* Lines are their own remainders.
LEMMA LineIsItself ==
  /\ \A n \in 0..(FrameLines - 1) : n % FrameLines = n
  /\ FrameLines % FrameLines = 0
BY GeometryFacts

\* A frame of whole entries.
LEMMA FrameIsWhole ==
  ASSUME FrameLines % EntryLines = 0
  PROVE  FrameLines \in Wholes
<1>. DEFINE n == FrameLines \div EntryLines
<1>1. n \in Nat /\ FrameLines = n * EntryLines
  BY GeometryFacts
<1>. HIDE DEF n
<1> QED  BY <1>1 DEF Wholes

\* Entry after entry.
LEMMA WholesGrow ==
  /\ 0 \in Wholes /\ EntryLines \in Wholes
  /\ \A n \in Wholes : n + EntryLines \in Wholes
<1>1. 0 \in Wholes
  <2>1. 0 * EntryLines = 0
    BY GeometryFacts
  <2> QED  BY <2>1 DEF Wholes
<1>2. EntryLines \in Wholes
  <2>1. 1 * EntryLines = EntryLines
    BY GeometryFacts
  <2> QED  BY <2>1 DEF Wholes
<1>3. ASSUME NEW n \in Wholes PROVE n + EntryLines \in Wholes
  <2>1. PICK k \in Nat : n = k * EntryLines
    BY DEF Wholes
  <2>2. n + EntryLines = (k + 1) * EntryLines /\ k + 1 \in Nat
    BY <2>1, GeometryFacts
  <2> QED  BY <2>2 DEF Wholes
<1> QED  BY <1>1, <1>2, <1>3

\* From one whole entry's end to a later one there is room for an entry.
LEMMA WholesApart ==
  ASSUME NEW m \in Wholes, NEW n \in Wholes, m < n
  PROVE  m + EntryLines <= n
<1>1. PICK j \in Nat : m = j * EntryLines
  BY DEF Wholes
<1>2. PICK k \in Nat : n = k * EntryLines
  BY DEF Wholes
<1>3. n \in Nat /\ m \in Nat
  BY <1>1, <1>2, GeometryFacts
<1>4. j < k
  <2>1. CASE k <= j
    <3>1. PICK d \in Nat : j = k + d
      <4>1. j = k + (j - k) /\ j - k \in Nat
        BY <2>1
      <4> QED  BY <4>1
    <3>2. m = n + d * EntryLines /\ d * EntryLines \in Nat
      BY <1>1, <1>2, <3>1, GeometryFacts
    <3> QED  BY <1>3, <3>2
  <2> QED  BY <2>1
<1>5. PICK d \in Nat : k = j + 1 + d
  <2>1. k = j + 1 + (k - j - 1) /\ k - j - 1 \in Nat
    BY <1>4
  <2> QED  BY <2>1
<1>6. n = m + EntryLines + d * EntryLines /\ d * EntryLines \in Nat
  BY <1>1, <1>2, <1>5, GeometryFacts
<1> QED  BY <1>3, <1>6, GeometryFacts

-----------------------------------------------------------------------------

InPush == {"push", "push_lines", "switch", "reset_side", "trigger"}

Tail == fifo[producer].tail

\* The line of the frame after the entry that ends at line n.
Rounded(n) == IF n = FrameLines THEN 0 ELSE n

\* Where the task and the recovery may be, by the states of the two ends.
RecoveryOrder ==
  /\ status \in {"recovering", "recovery_done"} => fe = "recovering" /\ pc \in {"waiting", "recovered"}
  /\ pc \in {"recover", "recovering"} => fe = "recovering"
  /\ pc \in InPush \union {"algorithm"} => fe \in {"ok", "over_flow"}

\* Whole entries: the producer's frame is complete only until it changes sides.
TailInFrame ==
  /\ feLine \in Wholes
  /\ pc # "reset_side" => Tail \in Wholes /\ Tail <= FrameLines
  /\ pc \notin {"switch", "reset_side"} => Tail < FrameLines

\* The line of the front end by the step of the push.
Aligned ==
  /\ status = "ok" /\ fe \in {"ok", "over_flow"} =>
       CASE pc \in {"push", "push_lines"} -> feLine = Rounded(Tail + EntryLines)
         [] pc = "switch" -> feLine = Rounded(Tail)
         [] pc = "reset_side" -> feLine = 0
         [] OTHER -> feLine = Tail
  /\ status = "recovery_done" => Tail = 0
  /\ status = "ok" /\ fe = "recovery_done" => Tail = 0

AlignedInv ==
  /\ TypeOK
  /\ \A s \in Sides : fifo[s].head <= fifo[s].tail
  /\ RecoveryOrder
  /\ TailInFrame
  /\ Aligned

-----------------------------------------------------------------------------
\* A frame of whole entries ends with a whole one.
LEMMA WholeFrame ==
  ASSUME FrameLines % EntryLines = 0
  PROVE  LastEntryLines = EntryLines /\ Used = FrameLines
BY GeometryFacts DEF LastEntryLines, Used

\* The fields of the state with their types.
LEMMA Fields ==
  ASSUME TypeOK
  PROVE  /\ producer \in Sides /\ customer \in Sides /\ status \in Statuses
         /\ fifo \in [Sides -> Fifos] /\ pc \in Points /\ offset \in Nat /\ current \in Nat
         /\ fe \in {"ok", "over_flow", "recovering", "recovery_done"} /\ feLine \in 0..(FrameLines - 1)
         /\ triggers \in Nat /\ hwLine \in 0..FrameLines /\ hwBase \in 0..(BufferLines - 1)
         /\ doneInt \in BOOLEAN /\ frameInt \in BOOLEAN /\ late \in BOOLEAN
         /\ early \in BOOLEAN /\ stalled \in BOOLEAN
         /\ \A s \in Sides : /\ fifo[s].head \in Nat /\ fifo[s].tail \in Nat
                             /\ fifo[s].offset \in 0..(BufferLines - 1)
<1>1. \A s \in Sides : fifo[s] \in Fifos
  BY DEF TypeOK, HandlerTypeOK
<1>2. \A s \in Sides : fifo[s].head \in Nat /\ fifo[s].tail \in Nat
  BY <1>1, FifoFields
<1>3. \A s \in Sides : fifo[s].offset \in 0..(BufferLines - 1)
  BY <1>1 DEF Fifos
<1> QED  BY <1>2, <1>3 DEF TypeOK, HandlerTypeOK

\* The next frame starts at a slot of the buffer.
LEMMA NextBaseInBuffer ==
  ASSUME NEW f \in Fifos, NEW used \in Nat
  PROVE  NextBase(f, used) \in 0..(BufferLines - 1)
<1>1. f.offset + used \in Nat
  BY FifoFields
<1> QED  BY <1>1, SlotInBuffer DEF NextBase

\* At first, both ends are at the first line.
LEMMA AlignedInit == Init => AlignedInv
<1>. SUFFICES ASSUME Init PROVE AlignedInv
  OBVIOUS
<1>1. HandlerTypeOK /\ fifo = [s \in Sides |-> ResetFifo(0)] /\ producer = 0 /\ status = "ok"
  BY HandlerStarts DEF Init, HandlerInit
<1>2. \A s \in Sides : fifo[s].head = 0 /\ fifo[s].tail = 0
  BY <1>1 DEF ResetFifo
<1>3. 0 \in 0..(FrameLines - 1) /\ 0 \in 0..(BufferLines - 1) /\ 0 \in 0..FrameLines
  BY GeometryFacts
<1>4. TypeOK
  BY <1>1, <1>3 DEF Init, TypeOK, Points
<1>5. Tail = 0
  BY <1>1, <1>2 DEF Tail, Sides
<1>6. TailInFrame
  BY <1>5, WholesGrow, GeometryFacts DEF Init, TailInFrame
<1>7. Aligned /\ RecoveryOrder
  BY <1>1, <1>5 DEF Init, Aligned, RecoveryOrder, InPush
<1> QED  BY <1>2, <1>4, <1>6, <1>7 DEF AlignedInv

\* The post-ISP's steps and the interrupt's pop change none of what is aligned.
LEMMA PopKeepsTails ==
  ASSUME AlignedInv, status = "ok", PopEntry
  PROVE  /\ HandlerTypeOK' /\ producer' = producer
         /\ \A s \in Sides : fifo'[s].head <= fifo'[s].tail /\ fifo'[s].tail = fifo[s].tail
         /\ status' \in {"ok", "pop_fail", "frame_switch_fail"}
<1>. DEFINE f == fifo[customer]
            n == IF f.head = FrameLines - LastEntryLines THEN LastEntryLines ELSE EntryLines
            g == Popped(f, n)
<1>1. /\ HandlerTypeOK /\ customer \in Sides /\ f \in Fifos /\ f.head <= f.tail
      /\ \A s \in Sides : fifo[s].head <= fifo[s].tail
  BY Fields DEF AlignedInv, TypeOK, HandlerTypeOK
<1>2. CASE Elements(f) = 0
  BY <1>1, <1>2 DEF PopEntry, handlerVars, HandlerTypeOK
<1>3. CASE Elements(f) # 0
  <2>1. n \in Nat
    BY GeometryFacts DEF LastEntryLines
  <2>. HIDE DEF n
  <2>2. g \in Fifos /\ g.head <= g.tail /\ g.tail = f.tail
    BY <1>1, <2>1, FifoFields DEF Popped, EnoughElementsToPop, Fifos
  <2>. HIDE DEF g
  <2>3. /\ fifo' = [fifo EXCEPT ![customer] = g] /\ producer' = producer
        /\ customer' = IF LastEntryPopped(g) THEN Opposite(customer) ELSE customer
        /\ status' = CASE g.head > FrameLines -> "pop_fail"
                       [] LastEntryPopped(g) /\ customer' # producer -> "frame_switch_fail"
                       [] OTHER -> status
    BY <1>3 DEF PopEntry, f, n, g
  <2>4. customer' \in Sides /\ status' \in {"ok", "pop_fail", "frame_switch_fail"}
    BY <1>1, <2>3 DEF Opposite, Sides
  <2>5. fifo' \in [Sides -> Fifos]
    BY <1>1, <2>2, <2>3 DEF HandlerTypeOK
  <2>6. \A s \in Sides : fifo'[s].head <= fifo'[s].tail /\ fifo'[s].tail = fifo[s].tail
    BY <1>1, <2>2, <2>3 DEF HandlerTypeOK
  <2> QED  BY <1>1, <2>3, <2>4, <2>5, <2>6 DEF HandlerTypeOK, Statuses
<1> QED  BY <1>2, <1>3

\* A recovery ends at the start of a frame.
LEMMA RestartStep ==
  ASSUME AlignedInv, Restart
  PROVE  /\ HandlerTypeOK' /\ producer' = producer /\ customer' = producer
         /\ \A s \in Sides : fifo'[s].head <= fifo'[s].tail
         /\ Tail' = 0 /\ fifo'[producer].head = 0
         /\ status' = "recovery_done" /\ current' = 0
<1>1. /\ HandlerTypeOK /\ producer \in Sides /\ fifo \in [Sides -> Fifos]
      /\ \A s \in Sides : fifo[s].head <= fifo[s].tail
  BY DEF AlignedInv, TypeOK, HandlerTypeOK
<1>2. NextBase(fifo[producer], Used) \in 0..(BufferLines - 1)
  <2>1. Used \in Nat
    BY GeometryFacts DEF Used, LastEntryLines
  <2> QED  BY <1>1, <2>1, NextBaseInBuffer
<1>. DEFINE r == ResetFifo(NextBase(fifo[producer], Used))
<1>3. r \in Fifos /\ r.head = 0 /\ r.tail = 0
  BY <1>2, ResetFifoTyped
<1>. HIDE DEF r
<1>4. fifo' = [fifo EXCEPT ![producer] = r] /\ customer' = producer /\ producer' = producer
      /\ status' = "recovery_done" /\ current' = 0
  BY DEF Restart, ResetHandler, r
<1>5. /\ fifo' \in [Sides -> Fifos] /\ fifo'[producer] = r
      /\ \A s \in Sides : fifo'[s].head <= fifo'[s].tail
  BY <1>1, <1>3, <1>4
<1> QED  BY <1>1, <1>3, <1>4, <1>5 DEF HandlerTypeOK, Statuses, Tail

\* Steps of the post-ISP, of the front end and of the interrupt.
LEMMA SurroundingsAligned ==
  ASSUME AlignedInv, FeOverrun \/ FeRestart \/ HwEntry \/ HwFrameEnd \/ Interrupt
  PROVE  AlignedInv'
<1>1. CASE FeOverrun
  <2>1. /\ fe = "ok" /\ fe' = "over_flow"
        /\ UNCHANGED <<handlerVars, taskVars, current, feLine, hwVars, histVars>>
    BY <1>1 DEF FeOverrun
  <2>2. TypeOK' /\ \A s \in Sides : fifo'[s].head <= fifo'[s].tail
    BY <2>1 DEF AlignedInv, TypeOK, HandlerTypeOK, handlerVars, taskVars, hwVars, histVars
  <2>3. RecoveryOrder' /\ TailInFrame' /\ Aligned'
    BY <2>1 DEF AlignedInv, RecoveryOrder, TailInFrame, Aligned, Tail, Rounded, handlerVars, taskVars
  <2> QED  BY <2>2, <2>3 DEF AlignedInv
<1>2. CASE FeRestart
  <2>1. /\ fe = "recovery_done" /\ fe' = "ok" /\ feLine' = 0
        /\ UNCHANGED <<handlerVars, taskVars, current, hwVars, histVars>>
    BY <1>2 DEF FeRestart
  <2>2. TypeOK' /\ \A s \in Sides : fifo'[s].head <= fifo'[s].tail
    BY <2>1, GeometryFacts DEF AlignedInv, TypeOK, HandlerTypeOK, handlerVars, taskVars, hwVars, histVars
  <2>3. RecoveryOrder' /\ pc' = pc /\ pc \notin InPush
    BY <2>1 DEF AlignedInv, RecoveryOrder, handlerVars, taskVars
  <2>4. TailInFrame' /\ Aligned'
    BY <2>1, <2>3, WholesGrow DEF AlignedInv, RecoveryOrder, TailInFrame, Aligned, Tail, Rounded, handlerVars, taskVars, InPush
  <2> QED  BY <2>2, <2>3, <2>4 DEF AlignedInv
<1>3. CASE HwEntry \/ HwFrameEnd
  <2>1. UNCHANGED <<handlerVars, taskVars, current, feVars, histVars>>
    BY <1>3 DEF HwEntry, HwFrameEnd
  <2>2. /\ triggers' \in Nat /\ hwLine' \in 0..FrameLines /\ hwBase' \in 0..(BufferLines - 1)
    <3>1. CASE HwEntry
      BY <3>1, Fields, GeometryFacts DEF HwEntry, AlignedInv
    <3>2. CASE HwFrameEnd
      <4>1. hwBase + Used \in Nat
        BY Fields, GeometryFacts DEF AlignedInv, Used, LastEntryLines
      <4> QED  BY <3>2, <4>1, Fields, SlotInBuffer, GeometryFacts DEF HwFrameEnd, AlignedInv
    <3> QED  BY <1>3, <3>1, <3>2
  <2>3. doneInt' \in BOOLEAN /\ frameInt' \in BOOLEAN /\ late' \in BOOLEAN
    BY <1>3, Fields DEF HwEntry, HwFrameEnd, AlignedInv
  <2>4. TypeOK' /\ \A s \in Sides : fifo'[s].head <= fifo'[s].tail
    BY <2>1, <2>2, <2>3 DEF AlignedInv, TypeOK, HandlerTypeOK, handlerVars, taskVars, feVars, histVars
  <2>5. RecoveryOrder' /\ TailInFrame' /\ Aligned'
    BY <2>1 DEF AlignedInv, RecoveryOrder, TailInFrame, Aligned, Tail, Rounded, handlerVars, taskVars, feVars
  <2> QED  BY <2>4, <2>5 DEF AlignedInv
<1>4. CASE Interrupt
  <2>1. /\ UNCHANGED <<taskVars, feVars, hwLine, hwBase, late>>
        /\ doneInt' = FALSE /\ frameInt' = FALSE
        /\ early' \in BOOLEAN /\ stalled' \in BOOLEAN
    <3>1. /\ early' = (early \/ (status = "recovering" /\ frameInt /\ (triggers' > 0 \/ current < FrameLines)))
          /\ stalled' = (stalled \/ (pc = "recovering" /\ doneInt /\ triggers = 0))
      BY <1>4 DEF Interrupt
    <3>2. early' \in BOOLEAN /\ stalled' \in BOOLEAN
      BY <3>1, Zenon
    <3> QED  BY <1>4, <3>2 DEF Interrupt
  <2>2. /\ HandlerTypeOK' /\ producer' = producer
        /\ \A s \in Sides : fifo'[s].head <= fifo'[s].tail
        /\ triggers' \in Nat /\ current' \in Nat
        /\ \/ Tail' = Tail /\ status' = status
           \/ Tail' = Tail /\ status = "ok" /\ status' \in {"pop_fail", "frame_switch_fail"}
           \/ Tail' = 0 /\ status = "recovering" /\ status' = "recovery_done"
    <3>1. CASE InterruptRecovering
      <4>1. triggers' \in Nat
        BY <3>1, Fields DEF InterruptRecovering, AlignedInv
      <4>2. CASE frameInt /\ Restart
        BY <3>1, <4>1, <4>2, RestartStep DEF InterruptRecovering
      <4>3. CASE ~(frameInt /\ Restart)
        <5>1. UNCHANGED handlerVars /\ current' \in Nat
          BY <3>1, <4>3, Fields, GeometryFacts DEF InterruptRecovering, AlignedInv
        <5> QED  BY <4>1, <5>1 DEF AlignedInv, TypeOK, HandlerTypeOK, handlerVars, Tail
      <4> QED  BY <4>2, <4>3
    <3>2. CASE status = "ok" /\ doneInt /\ PopEntry /\ UNCHANGED <<triggers, current>>
      BY <3>2, PopKeepsTails, Fields DEF AlignedInv, Tail
    <3>3. CASE UNCHANGED <<handlerVars, triggers, current>>
      BY <3>3, Fields DEF AlignedInv, TypeOK, HandlerTypeOK, handlerVars, Tail
    <3> QED  BY <1>4, <3>1, <3>2, <3>3 DEF Interrupt
  <2>3. TypeOK'
    BY <2>1, <2>2 DEF AlignedInv, TypeOK, taskVars, feVars
  <2>4. RecoveryOrder'
    BY <2>1, <2>2 DEF AlignedInv, RecoveryOrder, taskVars, feVars
  <2>5. TailInFrame'
    <3>1. status = "recovering" => pc \notin InPush
      BY DEF AlignedInv, RecoveryOrder, InPush
    <3> QED  BY <2>1, <2>2, <3>1, WholesGrow, GeometryFacts DEF AlignedInv, TailInFrame, taskVars, feVars
  <2>6. Aligned'
    BY <2>1, <2>2 DEF AlignedInv, Aligned, RecoveryOrder, taskVars, feVars, Rounded
  <2> QED  BY <2>2, <2>3, <2>4, <2>5, <2>6 DEF AlignedInv
<1> QED  BY <1>1, <1>2, <1>3, <1>4

\* Steps of the task that leave the FIFO alone.
LEMMA AlgorithmAligned ==
  ASSUME FrameLines % EntryLines = 0, AlignedInv, GetEntries \/ AlgorithmFails \/ AlgorithmDone
  PROVE  AlignedInv'
<1>1. CASE GetEntries
  <2>1. /\ fe = "ok" /\ pc = "waiting"
        /\ \/ pc' = "algorithm" /\ status' = status
           \/ pc' = "waiting" /\ status' = "param_invalid"
        /\ UNCHANGED <<customer, producer, fifo, offset, current, feVars, hwVars, histVars>>
    BY <1>1 DEF GetEntries, At
  <2>2. TypeOK' /\ \A s \in Sides : fifo'[s].head <= fifo'[s].tail
    BY <2>1 DEF AlignedInv, TypeOK, HandlerTypeOK, Statuses, feVars, hwVars, histVars, Points
  <2>3. RecoveryOrder' /\ TailInFrame' /\ Aligned'
    BY <2>1 DEF AlignedInv, RecoveryOrder, TailInFrame, Aligned, Tail, Rounded, feVars, InPush
  <2> QED  BY <2>2, <2>3 DEF AlignedInv
<1>2. CASE AlgorithmFails
  <2>1. pc = "algorithm" /\ pc' = "waiting"
        /\ UNCHANGED <<handlerVars, offset, current, feVars, hwVars, histVars>>
    BY <1>2 DEF AlgorithmFails, At
  <2>2. TypeOK' /\ \A s \in Sides : fifo'[s].head <= fifo'[s].tail
    BY <2>1 DEF AlignedInv, TypeOK, HandlerTypeOK, handlerVars, feVars, hwVars, histVars, Points
  <2>3. RecoveryOrder' /\ TailInFrame' /\ Aligned'
    BY <2>1 DEF AlignedInv, RecoveryOrder, TailInFrame, Aligned, Tail, Rounded, handlerVars, feVars, InPush
  <2> QED  BY <2>2, <2>3 DEF AlignedInv
<1>3. CASE AlgorithmDone
  <2>1. /\ pc = "algorithm"
        /\ \/ fe = "ok" /\ pc' = "push" /\ feLine' = (feLine + EntryLines) % FrameLines
           \/ fe # "ok" /\ pc' = "waiting" /\ feLine' = feLine
        /\ UNCHANGED <<handlerVars, offset, current, fe, hwVars, histVars>>
    BY <1>3 DEF AlgorithmDone, At
  <2>2. CASE fe = "ok" /\ pc' = "push" /\ feLine' = (feLine + EntryLines) % FrameLines
    <3>1. feLine \in Nat /\ feLine < FrameLines /\ feLine \in Wholes
      BY Fields, GeometryFacts DEF AlignedInv, TailInFrame
    <3>2. feLine + EntryLines <= FrameLines /\ feLine + EntryLines \in Wholes
      BY <3>1, FrameIsWhole, WholesApart, WholesGrow
    <3>3. feLine' = Rounded(feLine + EntryLines)
      <4>1. CASE feLine + EntryLines = FrameLines
        BY <2>2, <4>1, LineIsItself DEF Rounded
      <4>2. CASE feLine + EntryLines # FrameLines
        <5>1. feLine + EntryLines \in 0..(FrameLines - 1)
          BY <3>1, <3>2, <4>2, GeometryFacts
        <5> QED  BY <2>2, <4>2, <5>1, LineIsItself DEF Rounded
      <4> QED  BY <4>1, <4>2
    <3>4. feLine' \in 0..(FrameLines - 1) /\ feLine' \in Wholes
      BY <3>1, <3>2, <3>3, WholesGrow, GeometryFacts DEF Rounded
    <3>5. TypeOK' /\ \A s \in Sides : fifo'[s].head <= fifo'[s].tail
      BY <2>1, <2>2, <3>4 DEF AlignedInv, TypeOK, HandlerTypeOK, handlerVars, hwVars, histVars, Points
    <3>6. RecoveryOrder'
      BY <2>1, <2>2 DEF AlignedInv, RecoveryOrder, InPush, handlerVars
    <3>7. TailInFrame'
      BY <2>1, <2>2, <3>4 DEF AlignedInv, TailInFrame, Tail, handlerVars
    <3>8. status = "ok" => feLine = Tail
      BY <2>1, <2>2 DEF AlignedInv, Aligned
    <3>9. Aligned'
      BY <2>1, <2>2, <3>3, <3>8 DEF AlignedInv, Aligned, Tail, Rounded, handlerVars
    <3> QED  BY <3>5, <3>6, <3>7, <3>9 DEF AlignedInv
  <2>3. CASE fe # "ok" /\ pc' = "waiting" /\ feLine' = feLine
    <3>1. TypeOK' /\ \A s \in Sides : fifo'[s].head <= fifo'[s].tail
      BY <2>1, <2>3 DEF AlignedInv, TypeOK, HandlerTypeOK, handlerVars, hwVars, histVars, Points
    <3>2. RecoveryOrder' /\ TailInFrame' /\ Aligned'
      BY <2>1, <2>3 DEF AlignedInv, RecoveryOrder, TailInFrame, Aligned, Tail, Rounded, handlerVars, InPush
    <3> QED  BY <3>1, <3>2 DEF AlignedInv
  <2> QED  BY <2>1, <2>2, <2>3
<1> QED  BY <1>1, <1>2, <1>3

\* The steps of a push.
LEMMA PushAligned ==
  ASSUME FrameLines % EntryLines = 0, AlignedInv, Push
  PROVE  AlignedInv'
<1>1. CASE CheckPush
  <2>1. /\ pc = "push" /\ pc' \in {"push_lines", "waiting"}
        /\ offset' \in {OtherSideLines, 0}
        /\ \/ pc' = "push_lines" /\ status' = status
           \/ pc' = "waiting" /\ status # "ok" /\ status' = status
           \/ pc' = "waiting" /\ status' = "param_invalid"
        /\ UNCHANGED <<customer, producer, fifo, current, feVars, hwVars, histVars>>
    BY <1>1 DEF CheckPush, At
  <2>2. offset' \in Nat
    <3>1. OtherSideLines \in Nat
      BY Fields DEF AlignedInv, OtherSideLines, Elements
    <3> QED  BY <2>1, <3>1
  <2>3. TypeOK' /\ \A s \in Sides : fifo'[s].head <= fifo'[s].tail
    BY <2>1, <2>2 DEF AlignedInv, TypeOK, HandlerTypeOK, Statuses, feVars, hwVars, histVars, Points
  <2>4. RecoveryOrder' /\ TailInFrame'
    BY <2>1 DEF AlignedInv, RecoveryOrder, TailInFrame, Tail, feVars, InPush
  <2>5. Aligned'
    BY <2>1 DEF AlignedInv, RecoveryOrder, InPush, Aligned, Tail, Rounded, feVars
  <2> QED  BY <2>3, <2>4, <2>5 DEF AlignedInv
<1>2. CASE PushLines
  <2>1. /\ pc = "push_lines" /\ offset' = 0
        /\ UNCHANGED <<customer, producer, current, feVars, hwVars, histVars>>
    BY <1>2 DEF PushLines, At
  <2>2. /\ fifo \in [Sides -> Fifos] /\ producer \in Sides
        /\ \A s \in Sides : fifo[s].head \in Nat /\ fifo[s].tail \in Nat /\ fifo[s].head <= fifo[s].tail
    BY Fields DEF AlignedInv
  <2>3. CASE /\ pc' = "switch" /\ status' = status
             /\ fifo' = [fifo EXCEPT ![producer].tail = @ + EntryLines]
    <3>1. fifo' \in [Sides -> Fifos]
      BY <2>2, <2>3, GeometryFacts DEF Fifos
    <3>2. \A s \in Sides : fifo'[s].head <= fifo'[s].tail
      BY <2>2, <2>3, GeometryFacts
    <3>3. Tail' = Tail + EntryLines
      BY <2>1, <2>2, <2>3 DEF Tail
    <3>4. Tail' \in Wholes /\ Tail' <= FrameLines
      <4>1. Tail \in Wholes /\ Tail < FrameLines
        BY <2>1 DEF AlignedInv, TailInFrame
      <4> QED  BY <3>3, <4>1, FrameIsWhole, WholesApart, WholesGrow
    <3>5. TypeOK'
      BY <2>1, <2>3, <3>1 DEF AlignedInv, TypeOK, HandlerTypeOK, feVars, hwVars, histVars, Points
    <3>6. RecoveryOrder' /\ TailInFrame'
      BY <2>1, <2>3, <3>4 DEF AlignedInv, RecoveryOrder, TailInFrame, feVars, InPush
    <3>7. Aligned'
      BY <2>1, <2>3, <3>3 DEF AlignedInv, RecoveryOrder, InPush, Aligned, feVars
    <3> QED  BY <3>2, <3>5, <3>6, <3>7 DEF AlignedInv
  <2>4. CASE /\ pc' = "waiting" /\ status' = "over_flow"
             /\ fifo' = [fifo EXCEPT ![producer].overflow = TRUE]
    <3>1. fifo' \in [Sides -> Fifos] /\ \A s \in Sides : fifo'[s].head = fifo[s].head /\ fifo'[s].tail = fifo[s].tail
      BY <2>2, <2>4 DEF Fifos
    <3>2. TypeOK'
      BY <2>1, <2>4, <3>1 DEF AlignedInv, TypeOK, HandlerTypeOK, Statuses, feVars, hwVars, histVars, Points
    <3>3. RecoveryOrder' /\ TailInFrame' /\ Aligned'
      BY <2>1, <2>2, <2>4, <3>1 DEF AlignedInv, RecoveryOrder, TailInFrame, Aligned, Tail, feVars, InPush
    <3> QED  BY <2>2, <3>1, <3>2, <3>3 DEF AlignedInv
  <2> QED  BY <1>2, <2>3, <2>4 DEF PushLines, At
<1>3. CASE SwitchSide
  <2>1. /\ pc = "switch"
        /\ UNCHANGED <<customer, status, fifo, offset, current, feVars, hwVars, histVars>>
        /\ \/ pc' = "reset_side" /\ Tail = FrameLines /\ producer' = Opposite(producer)
           \/ pc' = "trigger" /\ Tail # FrameLines /\ producer' = producer
    BY <1>3 DEF SwitchSide, At, LastEntryPushed, Tail
  <2>2. TypeOK' /\ \A s \in Sides : fifo'[s].head <= fifo'[s].tail
    BY <2>1 DEF AlignedInv, TypeOK, HandlerTypeOK, Opposite, Sides, feVars, hwVars, histVars, Points
  <2>3. RecoveryOrder'
    BY <2>1 DEF AlignedInv, RecoveryOrder, InPush, feVars
  <2>4. TailInFrame'
    <3>1. feLine' = feLine
      BY <2>1 DEF feVars
    <3>2. CASE pc' = "reset_side"
      BY <3>1, <3>2 DEF AlignedInv, TailInFrame
    <3>3. CASE pc' = "trigger" /\ Tail # FrameLines /\ producer' = producer
      <4>1. Tail' = Tail /\ Tail \in Wholes /\ Tail <= FrameLines /\ Tail \in Nat
        BY <2>1, <3>3, Fields DEF AlignedInv, TailInFrame, Tail
      <4>2. Tail < FrameLines
        BY <3>3, <4>1, GeometryFacts
      <4> QED  BY <3>1, <3>3, <4>1, <4>2 DEF AlignedInv, TailInFrame
    <3> QED  BY <2>1, <3>2, <3>3
  <2>5. Aligned'
    BY <2>1 DEF AlignedInv, RecoveryOrder, InPush, Aligned, Tail, Rounded, feVars
  <2> QED  BY <2>2, <2>3, <2>4, <2>5 DEF AlignedInv
<1>4. CASE ResetSide
  <2>. DEFINE r == ResetFifo(NextBase(fifo[Opposite(producer)], Used))
  <2>1. /\ pc = "reset_side" /\ pc' = "trigger" /\ fifo' = [fifo EXCEPT ![producer] = r]
        /\ UNCHANGED <<customer, producer, status, offset, current, feVars, hwVars, histVars>>
    BY <1>4 DEF ResetSide, At
  <2>2. r \in Fifos /\ r.head = 0 /\ r.tail = 0
    <3>1. Opposite(producer) \in Sides /\ fifo[Opposite(producer)] \in Fifos
      BY Fields DEF AlignedInv, Opposite, Sides
    <3>2. Used \in Nat
      BY GeometryFacts DEF Used, LastEntryLines
    <3>3. NextBase(fifo[Opposite(producer)], Used) \in 0..(BufferLines - 1)
      BY <3>1, <3>2, NextBaseInBuffer
    <3> QED  BY <3>3, ResetFifoTyped
  <2>. HIDE DEF r
  <2>3. /\ fifo' \in [Sides -> Fifos] /\ Tail' = 0
        /\ \A s \in Sides : fifo'[s].head <= fifo'[s].tail
    BY <2>1, <2>2, Fields DEF AlignedInv, Tail
  <2>4. TypeOK'
    BY <2>1, <2>3 DEF AlignedInv, TypeOK, HandlerTypeOK, feVars, hwVars, histVars, Points
  <2>5. RecoveryOrder'
    BY <2>1 DEF AlignedInv, RecoveryOrder, InPush, feVars
  <2>6. TailInFrame'
    BY <2>1, <2>3, WholesGrow, GeometryFacts DEF AlignedInv, TailInFrame, feVars
  <2>7. Aligned'
    BY <2>1, <2>3 DEF AlignedInv, Aligned, RecoveryOrder, InPush, feVars
  <2> QED  BY <2>3, <2>4, <2>5, <2>6, <2>7 DEF AlignedInv
<1>5. CASE Trigger
  <2>1. /\ pc = "trigger" /\ pc' = "waiting"
        /\ triggers' = triggers + 1 /\ current' = fifo[producer].tail
        /\ UNCHANGED <<handlerVars, offset, feVars, hwLine, hwBase, doneInt, frameInt, late, histVars>>
    BY <1>5 DEF Trigger, At
  <2>2. triggers' \in Nat /\ current' \in Nat
    BY <2>1, Fields DEF AlignedInv
  <2>3. TypeOK' /\ \A s \in Sides : fifo'[s].head <= fifo'[s].tail
    BY <2>1, <2>2 DEF AlignedInv, TypeOK, HandlerTypeOK, handlerVars, feVars, histVars, Points
  <2>4. RecoveryOrder' /\ TailInFrame' /\ Aligned'
    BY <2>1 DEF AlignedInv, RecoveryOrder, InPush, TailInFrame, Aligned, Tail, Rounded, handlerVars, feVars
  <2> QED  BY <2>3, <2>4 DEF AlignedInv
<1> QED  BY <1>1, <1>2, <1>3, <1>4, <1>5 DEF Push

\* The steps that update the states of the two ends.
LEMMA RecoverAligned ==
  ASSUME AlignedInv, Recover
  PROVE  AlignedInv'
<1>1. CASE NoEntry
  <2>1. /\ pc = "waiting" /\ fe # "ok"
        /\ \/ fe = "over_flow" /\ fe' = "recovering" /\ pc' = "recover"
           \/ fe # "over_flow" /\ fe' = fe /\ pc' = "recovered"
        /\ UNCHANGED <<handlerVars, offset, current, feLine, hwVars, histVars>>
    BY <1>1 DEF NoEntry, At
  <2>2. TypeOK' /\ \A s \in Sides : fifo'[s].head <= fifo'[s].tail
    BY <2>1 DEF AlignedInv, TypeOK, HandlerTypeOK, handlerVars, hwVars, histVars, Points
  <2>3. RecoveryOrder' /\ TailInFrame' /\ Aligned'
    BY <2>1, Fields DEF AlignedInv, RecoveryOrder, InPush, TailInFrame, Aligned, Tail, Rounded, handlerVars
  <2> QED  BY <2>2, <2>3 DEF AlignedInv
<1>2. CASE StartRecovery
  <2>1. /\ pc = "recover" /\ pc' \in {"recovering", "recovered"} /\ status' = status
        /\ triggers' \in {triggers + 1, triggers}
        /\ UNCHANGED <<customer, producer, fifo, offset, current, feVars, hwLine, hwBase, doneInt, frameInt, late, histVars>>
    BY <1>2 DEF StartRecovery, At, AlignedInv, RecoveryOrder
  <2>2. triggers' \in Nat
    BY <2>1, Fields DEF AlignedInv
  <2>3. TypeOK' /\ \A s \in Sides : fifo'[s].head <= fifo'[s].tail
    BY <2>1, <2>2 DEF AlignedInv, TypeOK, HandlerTypeOK, feVars, histVars, Points
  <2>4. RecoveryOrder' /\ TailInFrame' /\ Aligned'
    BY <2>1 DEF AlignedInv, RecoveryOrder, InPush, TailInFrame, Aligned, Tail, Rounded, feVars
  <2> QED  BY <2>3, <2>4 DEF AlignedInv
<1>3. CASE SetRecovering
  <2>1. /\ pc = "recovering" /\ pc' = "recovered" /\ status' = "recovering"
        /\ current' = current + EntryLines
        /\ UNCHANGED <<customer, producer, fifo, offset, feVars, hwVars, histVars>>
    BY <1>3 DEF SetRecovering, At
  <2>2. current' \in Nat
    BY <2>1, Fields, GeometryFacts DEF AlignedInv
  <2>3. TypeOK' /\ \A s \in Sides : fifo'[s].head <= fifo'[s].tail
    BY <2>1, <2>2 DEF AlignedInv, TypeOK, HandlerTypeOK, Statuses, feVars, hwVars, histVars, Points
  <2>4. RecoveryOrder' /\ TailInFrame' /\ Aligned'
    BY <2>1 DEF AlignedInv, RecoveryOrder, InPush, TailInFrame, Aligned, Tail, Rounded, feVars
  <2> QED  BY <2>3, <2>4 DEF AlignedInv
<1>4. CASE FinishRecovery
  <2>1. /\ pc = "recovered" /\ pc' = "waiting"
        /\ \/ /\ fe = "recovering" /\ status = "recovery_done"
              /\ fe' = "recovery_done" /\ status' = "ok"
           \/ /\ ~(fe = "recovering" /\ status = "recovery_done")
              /\ fe' = fe /\ status' = status
        /\ UNCHANGED <<customer, producer, fifo, offset, current, feLine, hwVars, histVars>>
    BY <1>4 DEF FinishRecovery, At
  <2>2. TypeOK' /\ \A s \in Sides : fifo'[s].head <= fifo'[s].tail
    BY <2>1 DEF AlignedInv, TypeOK, HandlerTypeOK, Statuses, hwVars, histVars, Points
  <2>3. RecoveryOrder' /\ TailInFrame' /\ Aligned'
    BY <2>1 DEF AlignedInv, RecoveryOrder, InPush, TailInFrame, Aligned, Tail, Rounded
  <2> QED  BY <2>2, <2>3 DEF AlignedInv
<1> QED  BY <1>1, <1>2, <1>3, <1>4 DEF Recover

\* Every step keeps the two ends aligned.
LEMMA AlignedNext ==
  ASSUME FrameLines % EntryLines = 0, AlignedInv, [Next]_vars
  PROVE  AlignedInv'
<1>1. CASE UNCHANGED vars
  <2>1. TypeOK' /\ \A s \in Sides : fifo'[s].head <= fifo'[s].tail
    BY <1>1 DEF AlignedInv, TypeOK, HandlerTypeOK, vars, handlerVars, taskVars, feVars, hwVars, histVars
  <2>2. RecoveryOrder' /\ TailInFrame' /\ Aligned'
    BY <1>1 DEF AlignedInv, RecoveryOrder, TailInFrame, Aligned, Tail, Rounded,
                vars, handlerVars, taskVars, feVars
  <2> QED  BY <2>1, <2>2 DEF AlignedInv
<1>2. CASE Next
  BY <1>2, SurroundingsAligned, AlgorithmAligned, PushAligned, RecoverAligned DEF Next, Task
<1> QED  BY <1>1, <1>2

\* For frames of whole entries, buffers of any size and any schedule of the task, the
\* front end, the post-ISP and its interrupt, the state keeps its type and every side
\* of the FIFO its head behind its tail, through every recovery.
THEOREM AlignedInductive ==
  ASSUME FrameLines % EntryLines = 0
  PROVE  Spec => []AlignedInv
<1>1. Init => AlignedInv
  BY AlignedInit
<1>2. AlignedInv /\ [Next]_vars => AlignedInv'
  BY AlignedNext
<1> QED  BY <1>1, <1>2, PTL DEF Spec

\* The frame that a task puts out is never shifted against the one it takes in: the
\* back end goes back to a frame's first line exactly when the front end does.
THEOREM EndsStayAligned ==
  ASSUME FrameLines % EntryLines = 0
  PROVE  Spec => []EndsAligned
<1>1. AlignedInv => EndsAligned
  <2>. SUFFICES ASSUME AlignedInv, status = "ok", fe = "ok", pc = "waiting" PROVE fifo[producer].tail = feLine
    BY DEF EndsAligned
  <2> QED  BY DEF AlignedInv, Aligned, Tail
<1> QED  BY <1>1, AlignedInductive, PTL

-----------------------------------------------------------------------------
(* The triggers are never ahead of the lines pushed, so that the interrupt's   *)
(* pop cannot finish a frame before the push of its last entry is over.        *)

BetweenPushes == {"waiting", "algorithm", "push", "recover", "recovered"}

\* The entries triggered, and the one pushed that is yet to be.
Told == EntryLines * triggers + (IF doneInt THEN EntryLines ELSE 0)
Due == IF pc \in {"switch", "reset_side", "trigger"} THEN EntryLines ELSE 0
Owed == Told + Due

\* The lines of the two frames, the second not begun while its side is to be reset.
Lines == IF pc = "reset_side" THEN Elements(fifo[customer]) ELSE InFlight

Slots ==
  \A s \in Sides : fifo[s].offset \in Wholes /\ fifo[s].head \in Wholes

\* The customer is on the producer's side, or on the other with a frame to finish.
SideOrder ==
  \/ producer = customer /\ pc # "reset_side"
  \/ /\ producer # customer
     /\ fifo[customer].tail = FrameLines /\ fifo[customer].head < FrameLines
     /\ pc # "reset_side" => fifo[producer].head = 0

\* The producer comes to a frame's end on the customer's side only.
FrameEndOrder ==
  /\ pc = "push_lines" => OtherSideLines <= offset
  /\ pc = "switch" /\ LastEntryPushed(fifo[producer]) => producer = customer

ServedInOrder ==
  status = "ok" => /\ SideOrder
                   /\ FrameEndOrder
                   /\ pc # "recovering" => Owed <= Lines

NothingOwed ==
  status = "recovery_done" =>
    triggers = 0 /\ ~doneInt /\ producer = customer /\ fifo[producer].head = 0

CountInv ==
  /\ AlignedInv
  /\ Slots
  /\ early \/ (ServedInOrder /\ NothingOwed /\ OnlyOverflowFaults)

\* Lines of one entry more.
LEMMA Multiples ==
  /\ \A k \in Nat : EntryLines * k \in Nat /\ EntryLines * (k + 1) = EntryLines * k + EntryLines
  /\ EntryLines * 0 = 0
BY GeometryFacts

\* Sums of whole entries, and such a sum taken round a buffer of whole entries.
LEMMA WholesAdd ==
  ASSUME NEW m \in Wholes, NEW n \in Wholes
  PROVE  m + n \in Wholes
<1>1. PICK j \in Nat : m = j * EntryLines
  BY DEF Wholes
<1>2. PICK k \in Nat : n = k * EntryLines
  BY DEF Wholes
<1>3. m + n = (j + k) * EntryLines
  BY <1>1, <1>2, GeometryFacts
<1> QED  BY <1>3 DEF Wholes

\* A whole number of entries, taken round a buffer of whole entries.
LEMMA WholesWrap ==
  ASSUME BufferLines % EntryLines = 0, NEW n \in Wholes
  PROVE  n % BufferLines \in Wholes
<1>1. PICK k \in Nat : n = k * EntryLines
  BY DEF Wholes
<1>. DEFINE b == BufferLines \div EntryLines
            q == n \div BufferLines
            r == n % BufferLines
<1>2. b \in Nat /\ BufferLines = b * EntryLines
  BY GeometryFacts
<1>3. n \in Nat
  BY <1>1, GeometryFacts
<1>4. q \in Nat /\ r \in Nat /\ n = q * BufferLines + r
  BY <1>3, GeometryFacts
<1>. HIDE DEF b, q, r
<1>5. r = k * EntryLines - q * (b * EntryLines)
  BY <1>1, <1>2, <1>3, <1>4, GeometryFacts
<1>6. q * (b * EntryLines) = (q * b) * EntryLines /\ q * b \in Nat
  BY <1>2, <1>4, GeometryFacts
<1>7. r = (k - q * b) * EntryLines
  BY <1>1, <1>5, <1>6, GeometryFacts
<1>8. k - q * b \in Nat
  BY <1>1, <1>4, <1>6, <1>7, GeometryFacts
<1> QED  BY <1>7, <1>8 DEF Wholes, r

\* What the code tests a slot with.
LEMMA WholeDivides ==
  ASSUME NEW n \in Wholes
  PROVE  n % EntryLines = 0
<1>1. PICK k \in Nat : n = k * EntryLines
  BY DEF Wholes
<1> QED  BY <1>1, GeometryFacts

\* The next frame starts at the start of an entry.
LEMMA NextBaseWhole ==
  ASSUME FrameLines % EntryLines = 0, BufferLines % EntryLines = 0,
         NEW f \in Fifos, f.offset \in Wholes
  PROVE  NextBase(f, Used) \in Wholes
<1>1. f.offset + Used \in Wholes
  BY WholeFrame, FrameIsWhole, WholesAdd
<1> QED  BY <1>1, WholesWrap DEF NextBase

\* Fewer lines told are covered all the same.
LEMMA StillCovered ==
  \A told, less, due \in Nat, lines \in Int :
    less <= told /\ told + due <= lines => less + due <= lines
OBVIOUS

\* At first, nothing is owed.
LEMMA CountInit == Init => CountInv
<1>. SUFFICES ASSUME Init PROVE CountInv
  OBVIOUS
<1>1. /\ fifo = [s \in Sides |-> ResetFifo(0)] /\ producer = 0 /\ customer = 0 /\ status = "ok"
      /\ pc = "waiting" /\ triggers = 0 /\ doneInt = FALSE
  BY DEF Init, HandlerInit
<1>2. \A s \in Sides : fifo[s].head = 0 /\ fifo[s].tail = 0 /\ fifo[s].offset = 0
  BY <1>1 DEF ResetFifo
<1>3. Slots
  BY <1>2, WholesGrow DEF Slots
<1>4. Owed = 0 /\ Lines = 0
  BY <1>1, <1>2, Multiples DEF Owed, Due, Told, Lines, InFlight, OtherSideLines, Elements, Sides
<1>5. ServedInOrder /\ NothingOwed /\ OnlyOverflowFaults
  BY <1>1, <1>4 DEF ServedInOrder, SideOrder, FrameEndOrder, NothingOwed, OnlyOverflowFaults
<1> QED  BY <1>3, <1>5, AlignedInit DEF CountInv

\* Steps that leave the FIFO alone and take nothing but triggers.
LEMMA CountKept ==
  ASSUME CountInv, AlignedInv', UNCHANGED <<handlerVars, early>>,
         \/ pc' = pc /\ offset' = offset
         \/ pc \in BetweenPushes /\ pc' \in BetweenPushes,
         triggers' <= triggers, triggers = triggers' \/ triggers = triggers' + 1,
         triggers' = triggers => doneInt' = doneInt \/ doneInt' = FALSE
  PROVE  CountInv'
<1>1. triggers \in Nat /\ triggers' \in Nat /\ doneInt \in BOOLEAN /\ doneInt' \in BOOLEAN
  BY DEF CountInv, AlignedInv, TypeOK
<1>2. Told' <= Told /\ Told \in Nat /\ Told' \in Nat
  <2>1. /\ EntryLines * triggers \in Nat /\ EntryLines * triggers' \in Nat
        /\ triggers = triggers' + 1 => EntryLines * triggers = EntryLines * triggers' + EntryLines
        /\ triggers = triggers' => EntryLines * triggers = EntryLines * triggers'
    BY <1>1, Multiples
  <2>. DEFINE x == EntryLines * triggers
              y == EntryLines * triggers'
  <2>2. /\ Told = x + (IF doneInt THEN EntryLines ELSE 0)
        /\ Told' = y + (IF doneInt' THEN EntryLines ELSE 0)
    BY DEF Told
  <2>3. x \in Nat /\ y \in Nat /\ (x = y + EntryLines \/ (x = y /\ (doneInt' => doneInt)))
    BY <1>1, <2>1
  <2>. HIDE DEF x, y
  <2>4. /\ Told \in {x, x + EntryLines} /\ Told' \in {y, y + EntryLines}
        /\ (doneInt => Told = x + EntryLines) /\ (~doneInt' => Told' = y)
    <3>1. x + 0 = x /\ y + 0 = y
      BY <2>3
    <3> QED  BY <2>2, <3>1, Zenon
  <2> QED  BY <1>1, <2>3, <2>4, GeometryFacts
<1>3. Lines' = Lines
  BY DEF Lines, InFlight, OtherSideLines, Elements, handlerVars, BetweenPushes
<1>4. Lines \in Int
  BY Fields DEF CountInv, AlignedInv, Lines, InFlight, OtherSideLines, Elements
<1>5. Slots'
  BY DEF CountInv, Slots, handlerVars
<1>6. CASE early
  BY <1>5, <1>6 DEF CountInv
<1>7. CASE ~early
  <2>1. Owed <= Lines => Owed' <= Lines'
    <3>1. Due \in Nat /\ Due' = Due
      BY GeometryFacts DEF Due, BetweenPushes
    <3>2. Told + Due <= Lines => Told' + Due <= Lines
      BY <1>2, <1>4, <3>1, StillCovered
    <3> QED  BY <1>3, <3>1, <3>2, Zenon DEF Owed
  <2>2. ServedInOrder'
    <3>1. status = "ok" => (pc' # "recovering" => Owed' <= Lines')
      BY <1>7, <2>1 DEF CountInv, ServedInOrder, BetweenPushes
    <3>2. status = "ok" => SideOrder'
      BY <1>7 DEF CountInv, ServedInOrder, SideOrder, BetweenPushes, handlerVars
    <3>3. status = "ok" => FrameEndOrder'
      BY <1>7 DEF CountInv, ServedInOrder, FrameEndOrder, BetweenPushes, handlerVars,
                  OtherSideLines, Elements, LastEntryPushed
    <3> QED  BY <3>1, <3>2, <3>3 DEF ServedInOrder, handlerVars
  <2>3. OnlyOverflowFaults'
    BY <1>7 DEF CountInv, OnlyOverflowFaults, handlerVars
  <2>4. NothingOwed'
    BY <1>1, <1>7 DEF CountInv, NothingOwed, handlerVars
  <2> QED  BY <1>5, <2>2, <2>3, <2>4 DEF CountInv
<1> QED  BY <1>6, <1>7, <1>1, Fields DEF CountInv, AlignedInv

\* The pop of the interrupt, wherever the task is in its push.
LEMMA PopCounted ==
  ASSUME FrameLines % EntryLines = 0, CountInv, AlignedInv', ~early,
         status = "ok", PopEntry, doneInt, doneInt' = FALSE,
         UNCHANGED <<pc, offset, early, triggers>>
  PROVE  CountInv'
<1>. DEFINE f == fifo[customer]
            p == fifo[producer]
            g == Popped(f, EntryLines)
<1>1. /\ customer \in Sides /\ producer \in Sides /\ fifo \in [Sides -> Fifos] /\ f \in Fifos
      /\ f.head \in Nat /\ f.tail \in Nat /\ f.head <= f.tail /\ f.head \in Wholes
      /\ p.head \in Nat /\ p.tail \in Nat /\ p.head <= p.tail
  BY Fields DEF CountInv, AlignedInv, Slots
<1>2. SideOrder /\ FrameEndOrder /\ (pc # "recovering" => Owed <= Lines)
  BY DEF CountInv, ServedInOrder
<1>3. /\ pc # "reset_side" => p.tail <= FrameLines
      /\ pc \notin {"switch", "reset_side"} => p.tail < FrameLines
  BY DEF CountInv, AlignedInv, TailInFrame, Tail
<1>4. f.tail <= FrameLines
  BY <1>2, <1>3, GeometryFacts DEF SideOrder
<1>5. UNCHANGED handlerVars => CountInv'
  <2>1. triggers' <= triggers /\ triggers' = triggers
    BY Fields DEF CountInv, AlignedInv
  <2> QED  BY <2>1, CountKept
<1>6. CASE Elements(f) = 0
  BY <1>5, <1>6 DEF PopEntry
<1>7. CASE Elements(f) # 0
  <2>1. /\ fifo' = [fifo EXCEPT ![customer] = g] /\ producer' = producer
        /\ customer' = IF LastEntryPopped(g) THEN Opposite(customer) ELSE customer
        /\ status' = CASE g.head > FrameLines -> "pop_fail"
                       [] LastEntryPopped(g) /\ customer' # producer -> "frame_switch_fail"
                       [] OTHER -> status
    BY <1>7, WholeFrame DEF PopEntry
  <2>2. f.head < f.tail
    BY <1>1, <1>7 DEF Elements
  <2>3. CASE f.overflow \/ f.head + EntryLines > f.tail
    <3>1. g = f
      BY <1>1, <2>3, GeometryFacts DEF Popped, EnoughElementsToPop
    <3>2. f.head < FrameLines
      BY <1>1, <1>4, <2>2, GeometryFacts
    <3>3. fifo' = fifo /\ customer' = customer
      BY <1>1, <2>1, <3>1, <3>2, GeometryFacts DEF LastEntryPopped
    <3>4. status' = status
      BY <1>1, <2>1, <3>1, <3>2, GeometryFacts DEF LastEntryPopped
    <3> QED  BY <1>5, <2>1, <3>3, <3>4 DEF handlerVars
  <2>4. CASE ~f.overflow /\ f.head + EntryLines <= f.tail
    <3>1. /\ g = [f EXCEPT !.head = @ + EntryLines] /\ g.head = f.head + EntryLines
          /\ g.tail = f.tail /\ g.offset = f.offset /\ g.head <= FrameLines
      BY <1>1, <1>4, <2>4, GeometryFacts DEF Popped, EnoughElementsToPop, Fifos
    <3>. HIDE DEF g
    <3>2. fifo'[customer] = g /\ \A s \in Sides : s # customer => fifo'[s] = fifo[s]
      BY <1>1, <2>1
    <3>3. g.head \in Wholes
      BY <1>1, <3>1, WholesGrow
    <3>4. Slots'
      BY <1>1, <3>1, <3>2, <3>3 DEF CountInv, Slots
    <3>5. Owed = Owed' + EntryLines /\ Owed' \in Nat /\ Due <= Owed'
      <4>1. EntryLines * triggers \in Nat /\ Due \in Nat /\ Due' = Due
        BY Fields, Multiples, GeometryFacts DEF CountInv, AlignedInv, Due
      <4>. DEFINE x == EntryLines * triggers
      <4>2. Told = x + EntryLines /\ Told' = x + 0
        BY DEF Told
      <4>. HIDE DEF x
      <4>3. x \in Nat
        BY <4>1 DEF x
      <4> QED  BY <4>1, <4>2, <4>3, GeometryFacts DEF Owed
    <3>6. Elements(f) = Elements(g) + EntryLines /\ Elements(g) \in Nat
      BY <1>1, <2>4, <3>1, GeometryFacts DEF Elements
    <3>7. CASE producer = customer /\ pc # "reset_side"
      <4>1. g.head # FrameLines
        <5>1. CASE pc = "switch"
          <6>1. Due = EntryLines /\ Lines = 0 + Elements(f) /\ Owed <= Lines
            BY <1>2, <3>7, <5>1 DEF Due, Lines, InFlight, OtherSideLines
          <6>2. Elements(g) >= EntryLines
            BY <3>5, <3>6, <6>1, GeometryFacts
          <6> QED  BY <1>1, <1>4, <3>1, <6>2, GeometryFacts DEF Elements
        <5>2. CASE pc # "switch"
          BY <1>1, <1>3, <2>4, <3>1, <3>7, <5>2, GeometryFacts
        <5> QED  BY <5>1, <5>2
      <4>2. customer' = customer /\ status' = "ok"
        BY <1>1, <2>1, <3>1, <4>1, GeometryFacts DEF LastEntryPopped
      <4>3. Lines = Elements(f) /\ Lines' = Elements(g) /\ OtherSideLines' = 0 /\ OtherSideLines = 0
        BY <1>1, <2>1, <3>2, <3>6, <3>7, <4>2, GeometryFacts DEF Lines, InFlight, OtherSideLines
      <4>4. SideOrder' /\ FrameEndOrder'
        BY <1>2, <2>1, <3>7, <4>2, <4>3 DEF SideOrder, FrameEndOrder
      <4>5. pc # "recovering" => Owed' <= Lines'
        BY <1>2, <3>5, <3>6, <4>3, GeometryFacts
      <4> QED  BY <3>4, <4>2, <4>4, <4>5 DEF CountInv, ServedInOrder, NothingOwed, OnlyOverflowFaults
    <3>8. CASE producer # customer /\ pc = "reset_side"
      <4>1. f.tail = FrameLines
        BY <1>2, <3>8 DEF SideOrder
      <4>2. Due = EntryLines /\ Lines = Elements(f) /\ Owed <= Lines
        BY <1>2, <3>8 DEF Due, Lines
      <4>3. g.head < FrameLines
        <5>1. Elements(g) >= EntryLines
          BY <3>5, <3>6, <4>2, GeometryFacts
        <5> QED  BY <1>1, <3>1, <4>1, <5>1, GeometryFacts DEF Elements
      <4>4. customer' = customer /\ status' = "ok"
        BY <1>1, <2>1, <3>1, <4>3, GeometryFacts DEF LastEntryPopped
      <4>5. Lines' = Elements(g)
        BY <1>1, <3>2, <3>8, <4>4 DEF Lines
      <4>6. SideOrder' /\ FrameEndOrder'
        BY <2>1, <3>1, <3>2, <3>8, <4>1, <4>3, <4>4 DEF SideOrder, FrameEndOrder
      <4>7. Owed' <= Lines'
        BY <3>5, <3>6, <4>2, <4>5, GeometryFacts
      <4> QED  BY <3>4, <4>4, <4>6, <4>7 DEF CountInv, ServedInOrder, NothingOwed, OnlyOverflowFaults
    <3>9. CASE producer # customer /\ pc # "reset_side"
      <4>1. f.tail = FrameLines /\ p.head = 0
        BY <1>2, <3>9 DEF SideOrder
      <4>2. Lines = Elements(f) + Elements(p) /\ OtherSideLines = Elements(f) /\ Elements(p) \in Nat
        BY <1>1, <3>9 DEF Lines, InFlight, OtherSideLines, Elements
      <4>3. fifo'[producer'] = p
        BY <1>1, <2>1, <3>2, <3>9
      <4>4. ~(pc = "switch" /\ LastEntryPushed(p))
        BY <1>2, <3>9 DEF FrameEndOrder
      <4>5. CASE g.head = FrameLines
        <5>1. customer' = producer
          BY <1>1, <2>1, <3>9, <4>5 DEF LastEntryPopped, Opposite, Sides
        <5>2. status' = "ok"
          BY <2>1, <4>5, <5>1, GeometryFacts DEF LastEntryPopped
        <5>3. Lines' = 0 + Elements(p) /\ OtherSideLines' = 0
          BY <2>1, <3>9, <4>3, <5>1 DEF Lines, InFlight, OtherSideLines
        <5>4. Elements(g) = 0
          BY <3>1, <4>1, <4>5, GeometryFacts DEF Elements
        <5>5. SideOrder'
          BY <2>1, <3>9, <5>1 DEF SideOrder
        <5>6. offset \in Nat /\ FrameEndOrder'
          BY <1>2, <2>1, <4>3, <5>1, <5>3, Fields DEF FrameEndOrder, CountInv, AlignedInv
        <5>7. pc # "recovering" => Owed' <= Lines'
          BY <1>2, <3>5, <3>6, <4>2, <5>3, <5>4, GeometryFacts
        <5> QED  BY <3>4, <5>2, <5>5, <5>6, <5>7 DEF CountInv, ServedInOrder, NothingOwed, OnlyOverflowFaults
      <4>6. CASE g.head # FrameLines
        <5>1. customer' = customer /\ status' = "ok" /\ g.head < FrameLines
          BY <1>1, <2>1, <3>1, <4>6, GeometryFacts DEF LastEntryPopped
        <5>2. Lines' = Elements(g) + Elements(p) /\ OtherSideLines' = Elements(g)
          BY <1>1, <2>1, <3>2, <3>9, <4>3, <5>1 DEF Lines, InFlight, OtherSideLines
        <5>3. SideOrder'
          BY <2>1, <3>1, <3>2, <3>9, <4>1, <4>3, <5>1 DEF SideOrder
        <5>4. FrameEndOrder'
          <6>1. pc = "push_lines" => OtherSideLines' <= offset
            BY <1>2, <3>6, <4>2, <5>2, Fields, GeometryFacts DEF FrameEndOrder, CountInv, AlignedInv
          <6> QED  BY <4>3, <4>4, <6>1 DEF FrameEndOrder
        <5>5. pc # "recovering" => Owed' <= Lines'
          BY <1>2, <3>5, <3>6, <4>2, <5>2, GeometryFacts
        <5> QED  BY <3>4, <5>1, <5>3, <5>4, <5>5 DEF CountInv, ServedInOrder, NothingOwed, OnlyOverflowFaults
      <4> QED  BY <4>5, <4>6
    <3> QED  BY <1>2, <3>7, <3>8, <3>9 DEF SideOrder
  <2> QED  BY <1>1, <2>3, <2>4, GeometryFacts
<1> QED  BY <1>6, <1>7

\* The post-ISP takes triggers, and the interrupt pops what they were for.
LEMMA SurroundingsCounted ==
  ASSUME FrameLines % EntryLines = 0, BufferLines % EntryLines = 0, CountInv, AlignedInv',
         FeOverrun \/ FeRestart \/ HwEntry \/ HwFrameEnd \/ Interrupt
  PROVE  CountInv'
<1>1. triggers \in Nat /\ triggers' \in Nat /\ doneInt \in BOOLEAN /\ early \in BOOLEAN
  BY DEF CountInv, AlignedInv, TypeOK
<1>2. CASE FeOverrun \/ FeRestart \/ HwFrameEnd
  <2>1. UNCHANGED <<handlerVars, pc, offset, early, triggers, doneInt>>
    BY <1>2 DEF FeOverrun, FeRestart, HwFrameEnd, taskVars, hwVars, histVars
  <2> QED  BY <1>1, <2>1, CountKept
<1>3. CASE HwEntry
  <2>1. UNCHANGED <<handlerVars, pc, offset, early>> /\ triggers' = triggers - 1
    BY <1>3 DEF HwEntry, taskVars, histVars
  <2>2. triggers' <= triggers /\ triggers = triggers' + 1 /\ triggers' # triggers
    BY <1>1, <2>1
  <2> QED  BY <2>1, <2>2, CountKept
<1>4. CASE Interrupt
  <2>1. /\ UNCHANGED <<pc, offset>> /\ doneInt' = FALSE
        /\ early' = (early \/ (status = "recovering" /\ frameInt /\ (triggers' > 0 \/ current < FrameLines)))
    BY <1>4 DEF Interrupt, taskVars
  <2>2. CASE InterruptRecovering
    <3>1. CASE frameInt /\ Restart
      <4>1. /\ customer' = producer' /\ fifo'[producer].head = 0 /\ producer' = producer
            /\ status' = "recovery_done"
        BY <3>1, RestartStep DEF CountInv
      <4>2. Slots'
        <5>1. /\ producer \in Sides /\ fifo \in [Sides -> Fifos] /\ fifo[producer] \in Fifos
              /\ fifo[producer].offset \in Wholes
          BY Fields DEF CountInv, AlignedInv, Slots
        <5>. DEFINE base == NextBase(fifo[producer], Used)
        <5>2. base \in Wholes
          BY <5>1, NextBaseWhole
        <5>. HIDE DEF base
        <5>3. fifo' = [fifo EXCEPT ![producer] = ResetFifo(base)]
          BY <3>1 DEF Restart, ResetHandler, base
        <5>4. fifo'[producer].offset = base /\ \A s \in Sides : s # producer => fifo'[s] = fifo[s]
          BY <5>1, <5>3 DEF ResetFifo
        <5> QED  BY <4>1, <5>2, <5>4, WholesGrow DEF CountInv, Slots
      <4>3. early' \/ (triggers' = 0 /\ doneInt' = FALSE)
        <5>1. early' \/ ~(triggers' > 0)
          BY <2>1, <2>2, <3>1, Zenon DEF InterruptRecovering
        <5> QED  BY <1>1, <2>1, <5>1
      <4>4. NothingOwed' \/ early'
        BY <4>1, <4>3 DEF NothingOwed
      <4> QED  BY <4>1, <4>2, <4>4 DEF CountInv, ServedInOrder, OnlyOverflowFaults
    <3>2. CASE UNCHANGED handlerVars
      BY <2>2, <3>2 DEF InterruptRecovering, CountInv, Slots, ServedInOrder, NothingOwed, OnlyOverflowFaults, handlerVars
    <3> QED  BY <2>2, <3>1, <3>2 DEF InterruptRecovering
  <2>3. CASE status = "ok" /\ doneInt /\ PopEntry /\ UNCHANGED <<triggers, current>>
    <3>1. early' = early
      BY <2>1, <2>3, <1>1
    <3>2. CASE early
      <4>1. Slots'
        <5>1. CASE Elements(fifo[customer]) = 0
          BY <2>3, <5>1 DEF PopEntry, handlerVars, CountInv, Slots
        <5>2. CASE Elements(fifo[customer]) # 0
          <6>. DEFINE f == fifo[customer]
                      g == Popped(f, EntryLines)
          <6>1. /\ customer \in Sides /\ fifo \in [Sides -> Fifos] /\ f \in Fifos
                /\ f.offset \in Wholes /\ f.head \in Wholes
            BY Fields DEF CountInv, AlignedInv, Slots
          <6>2. fifo' = [fifo EXCEPT ![customer] = g]
            BY <2>3, <5>2, WholeFrame DEF PopEntry
          <6>3. g.offset \in Wholes /\ g.head \in Wholes
            BY <6>1, WholesGrow DEF Popped, Fifos
          <6>. HIDE DEF g
          <6> QED  BY <6>1, <6>2, <6>3 DEF CountInv, Slots
        <5> QED  BY <5>1, <5>2
      <4> QED  BY <3>1, <3>2, <4>1 DEF CountInv
    <3>3. CASE ~early
      BY <2>1, <2>3, <3>1, <3>3, PopCounted
    <3> QED  BY <3>2, <3>3
  <2>4. CASE status # "recovering" /\ UNCHANGED <<handlerVars, triggers, current>>
    <3>1. early' = early /\ triggers' <= triggers
      BY <1>1, <2>1, <2>4
    <3> QED  BY <2>1, <2>4, <3>1, CountKept
  <2> QED  BY <1>4, <2>2, <2>3, <2>4 DEF Interrupt
<1> QED  BY <1>2, <1>3, <1>4

\* The next slot always starts an entry, and the algorithm touches nothing of the handler.
LEMMA AlgorithmKeepsHandler ==
  ASSUME FrameLines % EntryLines = 0, BufferLines % EntryLines = 0, CountInv,
         GetEntries \/ AlgorithmFails \/ AlgorithmDone
  PROVE  UNCHANGED handlerVars
<1>1. CASE GetEntries
  <2>1. pc = "waiting" /\ Tail \in Wholes
    BY <1>1 DEF GetEntries, At, CountInv, AlignedInv, TailInFrame
  <2>2. fifo[producer].offset \in Wholes
    BY Fields DEF CountInv, AlignedInv, Slots
  <2>3. EntryAligned
    <3>1. fifo[producer].tail + fifo[producer].offset \in Wholes
      BY <2>1, <2>2, WholesAdd DEF Tail
    <3>2. TailSlot(fifo[producer]) \in Wholes
      BY <3>1, WholesWrap DEF TailSlot
    <3> QED  BY <3>2, WholeDivides DEF EntryAligned
  <2> QED  BY <1>1, <2>3 DEF GetEntries, handlerVars
<1>2. CASE AlgorithmFails \/ AlgorithmDone
  BY <1>2 DEF AlgorithmFails, AlgorithmDone
<1> QED  BY <1>1, <1>2

\* Steps of the task that leave the FIFO and the triggers alone.
LEMMA AlgorithmCounted ==
  ASSUME FrameLines % EntryLines = 0, BufferLines % EntryLines = 0, CountInv, AlignedInv',
         GetEntries \/ AlgorithmFails \/ AlgorithmDone
  PROVE  CountInv'
<1>1. triggers \in Nat /\ triggers' = triggers /\ doneInt' = doneInt /\ early' = early
  BY DEF GetEntries, AlgorithmFails, AlgorithmDone, hwVars, histVars, CountInv, AlignedInv, TypeOK
<1>2. UNCHANGED handlerVars
  BY AlgorithmKeepsHandler
<1>3. pc \in BetweenPushes /\ pc' \in BetweenPushes
  BY DEF GetEntries, AlgorithmFails, AlgorithmDone, At, BetweenPushes
<1>4. triggers' <= triggers
  BY <1>1
<1> QED  BY <1>1, <1>2, <1>3, <1>4, CountKept

\* The steps of the task's push, each with the pops that come before it behind it.
LEMMA PushCounted ==
  ASSUME FrameLines % EntryLines = 0, BufferLines % EntryLines = 0,
         BufferLines < FrameLines + EntryLines, CountInv, AlignedInv', Push
  PROVE  CountInv'
<1>. DEFINE f == fifo[customer]
            p == fifo[producer]
<1>1. /\ customer \in Sides /\ producer \in Sides /\ fifo \in [Sides -> Fifos]
      /\ f.head \in Nat /\ f.tail \in Nat /\ f.head <= f.tail /\ f.head \in Wholes
      /\ p.head \in Nat /\ p.tail \in Nat /\ p.head <= p.tail
      /\ triggers \in Nat /\ offset \in Nat
  BY Fields DEF CountInv, AlignedInv, Slots
<1>2. pc \in InPush /\ UNCHANGED <<customer, fe, doneInt, early>>
  <2>1. CASE CheckPush
    BY <2>1 DEF CheckPush, At, InPush, feVars, hwVars, histVars
  <2>2. CASE PushLines
    BY <2>2 DEF PushLines, At, InPush, feVars, hwVars, histVars
  <2>3. CASE SwitchSide \/ ResetSide \/ Trigger
    BY <2>3 DEF SwitchSide, ResetSide, Trigger, At, InPush, handlerVars, feVars, hwVars, histVars
  <2> QED  BY <2>1, <2>2, <2>3 DEF Push
<1>3. /\ ~early /\ status = "ok" => SideOrder /\ FrameEndOrder /\ Owed <= Lines
      /\ ~early => status \in {"ok", "over_flow"}
  BY <1>2 DEF CountInv, ServedInOrder, InPush, OnlyOverflowFaults, AlignedInv, RecoveryOrder
<1>4. Told \in Nat /\ Lines \in Int
  <2>1. Told \in Nat
    <3>1. EntryLines * triggers \in Nat
      BY <1>1, Multiples
    <3>. DEFINE x == EntryLines * triggers
    <3>2. Told \in {x, x + EntryLines}
      <4>1. x + 0 = x
        BY <3>1
      <4> QED  BY <4>1, Zenon DEF Told
    <3>. HIDE DEF x
    <3>3. x \in Nat
      BY <3>1 DEF x
    <3> QED  BY <3>2, <3>3, GeometryFacts
  <2>2. Lines \in Int
    BY <1>1 DEF Lines, InFlight, OtherSideLines, Elements
  <2> QED  BY <2>1, <2>2
<1>5. CASE CheckPush
  <2>1. ElementAccepted(Height)
    BY WholeFrame, GeometryFacts DEF ElementAccepted, Height
  <2>2. /\ pc = "push" /\ UNCHANGED <<handlerVars, triggers, early, doneInt>>
        /\ status = "ok" => pc' = "push_lines" /\ offset' = OtherSideLines
        /\ status # "ok" => pc' = "waiting"
    BY <1>5, <2>1 DEF CheckPush, At, handlerVars, hwVars, histVars
  <2>3. CASE status # "ok"
    <3>1. triggers' <= triggers /\ pc \in BetweenPushes /\ pc' \in BetweenPushes
      BY <1>1, <2>2, <2>3 DEF BetweenPushes
    <3> QED  BY <2>2, <3>1, CountKept
  <2>4. CASE status = "ok"
    <3>1. Slots'
      BY <2>2 DEF CountInv, Slots, handlerVars
    <3>2. Owed' = Owed /\ Lines' = Lines /\ OtherSideLines' = offset' /\ offset' \in Int
      <4>1. OtherSideLines \in Int
        BY <1>1 DEF OtherSideLines, Elements
      <4> QED  BY <2>2, <2>4, <4>1 DEF Owed, Told, Due, Lines, InFlight, OtherSideLines, Elements, handlerVars
    <3>3. ~early => SideOrder' /\ FrameEndOrder' /\ Owed' <= Lines'
      BY <1>3, <2>2, <2>4, <3>2 DEF SideOrder, FrameEndOrder, handlerVars
    <3> QED  BY <2>2, <2>4, <3>1, <3>3 DEF CountInv, ServedInOrder, NothingOwed, OnlyOverflowFaults, handlerVars
  <2> QED  BY <2>3, <2>4
<1>6. CASE PushLines
  <2>1. pc = "push_lines" /\ UNCHANGED <<customer, producer, triggers, early, doneInt>>
    BY <1>6 DEF PushLines, At, hwVars, histVars
  <2>2. CASE /\ pc' = "waiting" /\ status' = "over_flow"
             /\ fifo' = [fifo EXCEPT ![producer].overflow = TRUE]
    <3>1. \A s \in Sides : fifo'[s].head = fifo[s].head /\ fifo'[s].offset = fifo[s].offset
      BY <1>1, <2>2 DEF Fifos
    <3> QED  BY <2>2, <3>1 DEF CountInv, Slots, ServedInOrder, NothingOwed, OnlyOverflowFaults
  <2>3. CASE /\ pc' = "switch" /\ status' = status
             /\ EnoughSpaceToPush(p, EntryLines + offset)
             /\ fifo' = [fifo EXCEPT ![producer].tail = @ + EntryLines]
    <3>1. /\ \A s \in Sides : fifo'[s].head = fifo[s].head /\ fifo'[s].offset = fifo[s].offset
          /\ fifo'[producer].tail = p.tail + EntryLines
          /\ producer # customer => fifo'[customer].tail = f.tail
      BY <1>1, <2>3 DEF Fifos
    <3>2. Slots'
      BY <3>1 DEF CountInv, Slots
    <3>3. CASE early \/ status # "ok"
      <4>1. early' \/ status' = "over_flow"
        BY <1>3, <2>1, <2>3, <3>3
      <4> QED  BY <3>2, <4>1 DEF CountInv, ServedInOrder, NothingOwed, OnlyOverflowFaults
    <3>4. CASE ~early /\ status = "ok"
      <4>1. SideOrder /\ OtherSideLines <= offset /\ Owed <= Lines
        BY <1>3, <2>1, <3>4 DEF FrameEndOrder
      <4>2. SideOrder'
        BY <1>1, <2>1, <2>3, <3>1, <4>1 DEF SideOrder
      <4>3. Owed' = Owed + EntryLines
        <5>1. Due = 0 /\ Due' = EntryLines /\ Told' = Told
          BY <2>1, <2>3 DEF Due, Told
        <5> QED  BY <1>4, <5>1, GeometryFacts DEF Owed
      <4>4. Lines' = Lines + EntryLines
        <5>1. OtherSideLines' = OtherSideLines /\ OtherSideLines \in Int
          BY <1>1, <2>1, <3>1 DEF OtherSideLines, Elements
        <5>2. Elements(fifo'[producer]) = Elements(p) + EntryLines /\ Elements(p) \in Int
          BY <1>1, <3>1, GeometryFacts DEF Elements
        <5>3. Lines = OtherSideLines + Elements(p) /\ Lines' = OtherSideLines' + Elements(fifo'[producer])
          BY <2>1, <2>3 DEF Lines, InFlight
        <5> QED  BY <5>1, <5>2, <5>3, GeometryFacts
      <4>5. LastEntryPushed(fifo'[producer]) => producer = customer
        <5>. SUFFICES ASSUME p.tail + EntryLines = FrameLines, producer # customer PROVE FALSE
          BY <3>1 DEF LastEntryPushed
        <5>1. f.tail = FrameLines /\ f.head < FrameLines /\ p.head = 0
          BY <2>1, <4>1 DEF SideOrder
        <5>2. f.head + EntryLines <= FrameLines
          BY <1>1, <5>1, FrameIsWhole, WholesApart
        <5>3. OtherSideLines = FrameLines - f.head
          BY <5>1 DEF OtherSideLines, Elements
        <5>4. p.tail + (EntryLines + offset) - p.head <= BufferLines
          BY <2>3 DEF EnoughSpaceToPush
        <5> QED  BY <1>1, <4>1, <5>1, <5>2, <5>3, <5>4, GeometryFacts
      <4>6. FrameEndOrder'
        BY <2>1, <2>3, <4>5 DEF FrameEndOrder
      <4>7. Owed' <= Lines'
        <5>1. Owed \in Int
          BY <1>4, GeometryFacts DEF Owed, Due
        <5> QED  BY <1>4, <4>1, <4>3, <4>4, <5>1, GeometryFacts
      <4> QED  BY <2>3, <3>2, <3>4, <4>2, <4>6, <4>7 DEF CountInv, ServedInOrder, NothingOwed, OnlyOverflowFaults
    <3> QED  BY <3>3, <3>4
  <2> QED  BY <1>6, <2>2, <2>3 DEF PushLines, At
<1>7. CASE SwitchSide
  <2>1. /\ pc = "switch" /\ UNCHANGED <<customer, status, fifo, triggers, early, doneInt>>
        /\ \/ pc' = "reset_side" /\ LastEntryPushed(p) /\ producer' = Opposite(producer)
           \/ pc' = "trigger" /\ producer' = producer
    BY <1>7 DEF SwitchSide, At, hwVars, histVars
  <2>2. Slots'
    BY <2>1 DEF CountInv, Slots
  <2>3. CASE early \/ status # "ok"
    <3>1. early' \/ status' = "over_flow"
      BY <1>3, <2>1, <2>3
    <3> QED  BY <2>2, <3>1 DEF CountInv, ServedInOrder, NothingOwed, OnlyOverflowFaults
  <2>4. CASE ~early /\ status = "ok"
    <3>1. SideOrder /\ FrameEndOrder /\ Owed <= Lines
      BY <1>3, <2>4
    <3>2. Owed' = Owed /\ Owed = Told + EntryLines
      BY <2>1 DEF Owed, Told, Due
    <3>3. CASE pc' = "trigger" /\ producer' = producer
      <4>1. Lines' = Lines
        BY <2>1, <3>3 DEF Lines, InFlight, OtherSideLines, Elements
      <4>2. SideOrder' /\ FrameEndOrder'
        BY <2>1, <3>1, <3>3 DEF SideOrder, FrameEndOrder
      <4> QED  BY <2>1, <2>2, <2>4, <3>1, <3>2, <4>1, <4>2
               DEF CountInv, ServedInOrder, NothingOwed, OnlyOverflowFaults
    <3>4. CASE pc' = "reset_side" /\ LastEntryPushed(p) /\ producer' = Opposite(producer)
      <4>1. producer = customer
        BY <2>1, <3>1, <3>4 DEF FrameEndOrder
      <4>2. Lines = 0 + Elements(f) /\ Lines' = Elements(f)
        BY <2>1, <3>4, <4>1 DEF Lines, InFlight, OtherSideLines
      <4>3. Lines' = Lines
        BY <1>1, <4>2 DEF Elements
      <4>4. f.tail = FrameLines /\ f.head < FrameLines
        BY <1>1, <1>4, <3>1, <3>2, <3>4, <4>1, <4>2, GeometryFacts DEF LastEntryPushed, Elements
      <4>5. SideOrder' /\ FrameEndOrder'
        BY <1>1, <2>1, <3>4, <4>1, <4>4 DEF SideOrder, FrameEndOrder, Opposite, Sides
      <4> QED  BY <2>1, <2>2, <2>4, <3>1, <3>2, <4>3, <4>5
               DEF CountInv, ServedInOrder, NothingOwed, OnlyOverflowFaults
    <3> QED  BY <2>1, <3>3, <3>4
  <2> QED  BY <2>3, <2>4
<1>8. CASE ResetSide
  <2>. DEFINE base == NextBase(fifo[Opposite(producer)], Used)
  <2>1. /\ pc = "reset_side" /\ pc' = "trigger" /\ fifo' = [fifo EXCEPT ![producer] = ResetFifo(base)]
        /\ UNCHANGED <<customer, producer, status, triggers, early, doneInt>>
    BY <1>8 DEF ResetSide, At, hwVars, histVars
  <2>2. base \in Wholes
    <3>1. Opposite(producer) \in Sides
      BY <1>1 DEF Opposite, Sides
    <3>2. fifo[Opposite(producer)] \in Fifos /\ fifo[Opposite(producer)].offset \in Wholes
      BY <1>1, <3>1 DEF CountInv, Slots
    <3> QED  BY <3>2, NextBaseWhole
  <2>. HIDE DEF base
  <2>3. /\ fifo'[producer].head = 0 /\ fifo'[producer].tail = 0 /\ fifo'[producer].offset = base
        /\ \A s \in Sides : s # producer => fifo'[s] = fifo[s]
    BY <1>1, <2>1 DEF ResetFifo
  <2>4. Slots'
    BY <2>2, <2>3, WholesGrow DEF CountInv, Slots
  <2>5. CASE early \/ status # "ok"
    <3>1. early' \/ status' = "over_flow"
      BY <1>3, <2>1, <2>5
    <3> QED  BY <2>4, <3>1 DEF CountInv, ServedInOrder, NothingOwed, OnlyOverflowFaults
  <2>6. CASE ~early /\ status = "ok"
    <3>1. SideOrder /\ Owed <= Lines /\ producer # customer
      BY <1>3, <2>1, <2>6 DEF SideOrder
    <3>2. fifo'[customer] = f /\ SideOrder' /\ FrameEndOrder'
      BY <1>1, <2>1, <2>3, <3>1 DEF SideOrder, FrameEndOrder
    <3>3. Owed' = Owed
      BY <2>1 DEF Owed, Told, Due
    <3>4. Lines' = Lines
      <4>1. Lines = Elements(f) /\ Lines' = Elements(f) + Elements(fifo'[producer])
        BY <2>1, <3>1, <3>2 DEF Lines, InFlight, OtherSideLines
      <4>2. Elements(fifo'[producer]) = 0 /\ Elements(f) \in Int
        BY <1>1, <2>3 DEF Elements
      <4> QED  BY <4>1, <4>2
    <3> QED  BY <2>1, <2>4, <2>6, <3>1, <3>2, <3>3, <3>4
             DEF CountInv, ServedInOrder, NothingOwed, OnlyOverflowFaults
  <2> QED  BY <2>5, <2>6
<1>9. CASE Trigger
  <2>1. /\ pc = "trigger" /\ pc' = "waiting" /\ triggers' = triggers + 1
        /\ UNCHANGED <<handlerVars, early, doneInt>>
    BY <1>9 DEF Trigger, At, histVars
  <2>2. Slots'
    BY <2>1 DEF CountInv, Slots, handlerVars
  <2>3. CASE early \/ status # "ok"
    <3>1. early' \/ status' = "over_flow"
      BY <1>3, <2>1, <2>3 DEF handlerVars
    <3> QED  BY <2>2, <3>1 DEF CountInv, ServedInOrder, NothingOwed, OnlyOverflowFaults
  <2>4. CASE ~early /\ status = "ok"
    <3>1. SideOrder /\ FrameEndOrder /\ Owed <= Lines
      BY <1>3, <2>4
    <3>2. Owed' = Owed
      <4>1. EntryLines * triggers \in Nat /\ EntryLines * triggers' = EntryLines * triggers + EntryLines
        BY <1>1, <2>1, Multiples
      <4>. DEFINE x == EntryLines * triggers
                  y == EntryLines * triggers'
                  z == IF doneInt THEN EntryLines ELSE 0
      <4>2. Told = x + z /\ Told' = y + z
        BY <2>1 DEF Told
      <4>3. z \in Nat
        BY GeometryFacts
      <4>. HIDE DEF x, y, z
      <4>4. x \in Nat /\ y = x + EntryLines
        BY <4>1 DEF x, y
      <4>5. Due = EntryLines /\ Due' = 0
        BY <2>1 DEF Due
      <4>6. Told + EntryLines = Told' + 0
        BY <4>2, <4>3, <4>4, GeometryFacts
      <4> QED  BY <4>5, <4>6 DEF Owed
    <3>3. Lines' = Lines
      BY <2>1 DEF Lines, InFlight, OtherSideLines, Elements, handlerVars
    <3>4. SideOrder' /\ FrameEndOrder'
      BY <2>1, <3>1 DEF SideOrder, FrameEndOrder, handlerVars
    <3> QED  BY <2>1, <2>2, <2>4, <3>1, <3>2, <3>3, <3>4
             DEF CountInv, ServedInOrder, NothingOwed, OnlyOverflowFaults, handlerVars
  <2> QED  BY <2>3, <2>4
<1> QED  BY <1>5, <1>6, <1>7, <1>8, <1>9 DEF Push

\* A recovery starts between two pushes, and ends with nothing owed.
LEMMA RecoverCounted ==
  ASSUME CountInv, AlignedInv', Recover
  PROVE  CountInv'
<1>1. triggers \in Nat /\ early' = early /\ doneInt' = doneInt
  BY DEF Recover, NoEntry, StartRecovery, SetRecovering, FinishRecovery, hwVars, histVars,
         CountInv, AlignedInv, TypeOK
<1>2. ASSUME UNCHANGED <<handlerVars, triggers>>, pc \in BetweenPushes, pc' \in BetweenPushes
      PROVE  CountInv'
  <2>1. triggers' <= triggers
    BY <1>1, <1>2
  <2> QED  BY <1>1, <1>2, <2>1, CountKept
<1>3. CASE NoEntry
  BY <1>2, <1>3 DEF NoEntry, At, BetweenPushes, hwVars
<1>4. CASE StartRecovery
  <2>1. status # "recovery_done" /\ pc = "recover"
    BY <1>4 DEF StartRecovery, At, CountInv, AlignedInv, RecoveryOrder
  <2>2. CASE pc' = "recovered"
    <3>1. UNCHANGED <<handlerVars, triggers>>
      BY <1>4, <2>1, <2>2 DEF StartRecovery, At, handlerVars
    <3> QED  BY <1>2, <2>1, <2>2, <3>1 DEF BetweenPushes
  <2>3. CASE pc' = "recovering"
    <3>1. UNCHANGED <<customer, producer, fifo, status>>
      BY <1>4, <2>3 DEF StartRecovery, At
    <3>2. Slots'
      BY <3>1 DEF CountInv, Slots
    <3>3. CASE early \/ status # "ok"
      BY <1>1, <2>1, <3>1, <3>2, <3>3 DEF CountInv, ServedInOrder, NothingOwed, OnlyOverflowFaults
    <3>4. CASE ~early /\ status = "ok"
      <4>1. SideOrder' /\ FrameEndOrder'
        BY <2>1, <2>3, <3>1, <3>4 DEF CountInv, ServedInOrder, SideOrder, FrameEndOrder
      <4> QED  BY <2>3, <3>1, <3>2, <3>4, <4>1 DEF CountInv, ServedInOrder, NothingOwed, OnlyOverflowFaults
    <3> QED  BY <3>3, <3>4
  <2> QED  BY <1>4, <2>2, <2>3 DEF StartRecovery, At
<1>5. CASE SetRecovering
  BY <1>5 DEF SetRecovering, CountInv, Slots, ServedInOrder, NothingOwed, OnlyOverflowFaults
<1>6. CASE FinishRecovery
  <2>1. pc = "recovered" /\ pc' = "waiting" /\ triggers' = triggers /\ UNCHANGED <<customer, producer, fifo>>
    BY <1>6 DEF FinishRecovery, At, hwVars
  <2>2. CASE status' = status
    BY <1>2, <2>1, <2>2 DEF BetweenPushes, handlerVars
  <2>3. CASE status = "recovery_done" /\ status' = "ok"
    <3>1. Slots'
      BY <2>1 DEF CountInv, Slots
    <3>2. CASE early
      BY <1>1, <3>1, <3>2 DEF CountInv
    <3>3. CASE ~early
      <4>1. triggers = 0 /\ ~doneInt /\ producer = customer
        BY <2>3, <3>3 DEF CountInv, NothingOwed
      <4>2. Told' = 0 /\ Due' = 0
        BY <1>1, <2>1, <4>1, Multiples DEF Told, Due
      <4>3. Owed' = 0
        BY <4>2 DEF Owed
      <4>4. 0 <= Lines'
        <5>1. fifo[producer].head <= fifo[producer].tail /\ fifo[producer].head \in Nat /\ fifo[producer].tail \in Nat
          BY Fields DEF CountInv, AlignedInv
        <5> QED  BY <2>1, <4>1, <5>1 DEF Lines, InFlight, OtherSideLines, Elements
      <4>5. SideOrder' /\ FrameEndOrder'
        BY <2>1, <4>1 DEF SideOrder, FrameEndOrder
      <4> QED  BY <2>3, <3>1, <4>3, <4>4, <4>5 DEF CountInv, ServedInOrder, NothingOwed, OnlyOverflowFaults
    <3> QED  BY <3>2, <3>3
  <2> QED  BY <1>6, <2>2, <2>3 DEF FinishRecovery
<1> QED  BY <1>3, <1>4, <1>5, <1>6 DEF Recover

\* CountInv is inductive, for buffers of whole entries that a frame and an entry do not
\* fit in.
THEOREM CountInductive ==
  ASSUME FrameLines % EntryLines = 0, BufferLines % EntryLines = 0,
         BufferLines < FrameLines + EntryLines
  PROVE  Spec => []CountInv
<1>1. CountInv /\ [Next]_vars => CountInv'
  <2>. SUFFICES ASSUME CountInv, [Next]_vars PROVE CountInv'
    OBVIOUS
  <2>1. AlignedInv'
    BY AlignedNext DEF CountInv
  <2>2. CASE UNCHANGED vars
    <3>1. triggers' <= triggers /\ triggers' = triggers
      BY <2>2, Fields DEF vars, hwVars, CountInv, AlignedInv
    <3> QED  BY <2>1, <2>2, <3>1, CountKept DEF vars, handlerVars, taskVars, hwVars, histVars
  <2>3. CASE Next
    BY <2>1, <2>3, SurroundingsCounted, AlgorithmCounted, PushCounted, RecoverCounted DEF Next, Task
  <2> QED  BY <2>2, <2>3
<1> QED  BY <1>1, CountInit, PTL DEF Spec

\* The interrupt's pop takes no lock, and needs none: it never finishes a frame before
\* the task has changed sides, so that the back end has no fault but an overflow, for
\* buffers of whole entries that a frame and an entry do not fit in.
THEOREM OnlyOverflowsFault ==
  ASSUME FrameLines % EntryLines = 0, BufferLines % EntryLines = 0,
         BufferLines < FrameLines + EntryLines
  PROVE  Spec => []OnlyOverflowFaults
<1>1. CountInv => OnlyOverflowFaults
  BY DEF CountInv, OnlyOverflowFaults
<1> QED  BY <1>1, CountInductive, PTL

-----------------------------------------------------------------------------
(* Numbers of lines that name the same slot of the buffer. *)

\* The same slot of the buffer.
Same(x, y) == \E k \in Int : x = y + k * BufferLines

\* Both further by as much.
LEMMA SameAdd ==
  ASSUME NEW x \in Int, NEW y \in Int, NEW n \in Int, Same(x, y)
  PROVE  Same(x + n, y + n)
<1>1. PICK k \in Int : x = y + k * BufferLines
  BY DEF Same
<1>2. k * BufferLines \in Int
  BY GeometryFacts
<1>3. x + n = (y + n) + k * BufferLines
  BY <1>1, <1>2
<1> QED  BY <1>3 DEF Same

\* The same the other way round.
LEMMA SameBack ==
  ASSUME NEW x \in Int, NEW y \in Int, Same(x, y)
  PROVE  Same(y, x)
<1>1. PICK k \in Int : x = y + k * BufferLines
  BY DEF Same
<1>2. y = x + (-k) * BufferLines /\ -k \in Int
  BY <1>1, GeometryFacts
<1> QED  BY <1>2 DEF Same

\* The same by way of a third.
LEMMA SameOn ==
  ASSUME NEW x \in Int, NEW y \in Int, NEW z \in Int, Same(x, y), Same(y, z)
  PROVE  Same(x, z)
<1>1. PICK j \in Int : x = y + j * BufferLines
  BY DEF Same
<1>2. PICK k \in Int : y = z + k * BufferLines
  BY DEF Same
<1>3. x = z + (j + k) * BufferLines /\ j + k \in Int
  BY <1>1, <1>2, GeometryFacts
<1> QED  BY <1>3 DEF Same

\* A line is in its own slot.
LEMMA SameSelf ==
  ASSUME NEW x \in Int
  PROVE  Same(x, x)
<1>1. x = x + 0 * BufferLines
  BY GeometryFacts
<1> QED  BY <1>1 DEF Same

\* A slot is the line it was taken from, round the buffer.
LEMMA Rounds ==
  ASSUME NEW x \in Int
  PROVE  /\ x % BufferLines \in 0..(BufferLines - 1) /\ x \div BufferLines \in Int
         /\ x = (x \div BufferLines) * BufferLines + (x % BufferLines)
BY GeometryFacts

\* Taken round the buffer, a line stays in its slot.
LEMMA SlotIsSame ==
  ASSUME NEW x \in Int
  PROVE  Same(x % BufferLines, x)
<1>. DEFINE q == x \div BufferLines
            r == x % BufferLines
<1>1. q \in Int /\ r \in Int /\ x = q * BufferLines + r
  BY Rounds
<1>. HIDE DEF q, r
<1>2. r = x + (-q) * BufferLines /\ -q \in Int
  BY <1>1, GeometryFacts
<1>3. \E k \in Int : r = x + k * BufferLines
  BY <1>2
<1> QED  BY <1>3 DEF Same, r

\* Lines of the same slot have the same remainder.
LEMMA SameSlot ==
  ASSUME NEW x \in Int, NEW y \in Int, Same(x, y)
  PROVE  x % BufferLines = y % BufferLines
<1>1. PICK k \in Int : x = y + k * BufferLines
  BY DEF Same
<1>. DEFINE qx == x \div BufferLines
            rx == x % BufferLines
            qy == y \div BufferLines
            ry == y % BufferLines
<1>2. /\ qx \in Int /\ rx \in 0..(BufferLines - 1) /\ x = qx * BufferLines + rx
      /\ qy \in Int /\ ry \in 0..(BufferLines - 1) /\ y = qy * BufferLines + ry
  BY Rounds
<1>. HIDE DEF qx, rx, qy, ry
<1>. DEFINE d == qy + k - qx
<1>3. d \in Int /\ rx - ry = d * BufferLines
  BY <1>1, <1>2, GeometryFacts
<1>4. d = 0
  <2>1. CASE d >= 1
    <3>1. d * BufferLines >= BufferLines
      BY <1>3, <2>1, GeometryFacts
    <3> QED  BY <1>2, <1>3, <3>1, GeometryFacts
  <2>2. CASE d <= -1
    <3>1. d * BufferLines <= -BufferLines
      BY <1>3, <2>2, GeometryFacts
    <3> QED  BY <1>2, <1>3, <3>1, GeometryFacts
  <2> QED  BY <1>3, <2>1, <2>2
<1>5. rx = ry
  BY <1>2, <1>3, <1>4, GeometryFacts
<1> QED  BY <1>5 DEF rx, ry

-----------------------------------------------------------------------------
(* The post-ISP counts the frames by itself: its place in the buffer, the      *)
(* entries triggered and the lines pushed are three counts of the same lines.  *)

\* The lines pushed, counted round the buffer from its first slot.
PushedSide == IF pc = "reset_side" THEN Opposite(producer) ELSE producer
Pushed == fifo[PushedSide].offset + fifo[PushedSide].tail

\* Where the post-ISP will be when it has read all it was told to, and where the
\* entry starts that it has read and the interrupt has not popped.
Reached == hwBase + hwLine + EntryLines * triggers
Unpopped == IF doneInt THEN EntryLines ELSE 0
ReadFrom == hwBase + hwLine - Unpopped
HeadAt == fifo[customer].head + fifo[customer].offset

\* The entry that a recovery has triggered before the state says so.
Untold == IF pc = "recovering" THEN EntryLines ELSE 0

\* The producer's frame starts where the customer's ends.
OffsetsFollow ==
  status = "ok" /\ producer # customer /\ pc # "reset_side" =>
    fifo[producer].offset = NextBase(fifo[customer], Used)

\* An overflow stops all, and a recovery starts from a sound state.
NoOverflow ==
  /\ status # "over_flow" => \A s \in Sides : ~fifo[s].overflow
  /\ pc = "recovering" => status = "ok"

\* What was triggered is what was pushed; in a recovery, what handler.current_N_value says.
TriggersReach ==
  /\ status \in {"ok", "recovery_done"} => Same(Reached + Due, Pushed + Untold)
  /\ status = "recovering" => /\ Same(Reached, fifo[producer].offset + current)
                              /\ current \in Wholes /\ current <= FrameLines

\* Between two pushes, the lines triggered are those pushed.
CurrentIsTail ==
  /\ status = "ok" /\ pc \notin {"switch", "reset_side", "trigger"} => current = Tail
  /\ status = "recovery_done" => current = 0

\* The property, as the places of lines that share a slot.
HeadFollows ==
  status = "ok" /\ pc # "recovering" /\ ~late => Same(HeadAt, ReadFrom)

ReadInv ==
  /\ hwLine \in Wholes
  /\ early \/ (NoOverflow /\ OffsetsFollow /\ TriggersReach /\ CurrentIsTail /\ HeadFollows)

\* The numbers that the invariant is about.
LEMMA ReadTyped ==
  ASSUME CountInv
  PROVE  /\ customer \in Sides /\ producer \in Sides /\ PushedSide \in Sides /\ Opposite(producer) \in Sides
         /\ \A s \in Sides : /\ fifo[s] \in Fifos /\ fifo[s].head \in Nat /\ fifo[s].tail \in Nat
                             /\ fifo[s].offset \in Nat
         /\ triggers \in Nat /\ current \in Nat /\ hwLine \in Nat /\ hwBase \in Nat
         /\ EntryLines * triggers \in Nat /\ doneInt \in BOOLEAN /\ late \in BOOLEAN /\ early \in BOOLEAN
<1>1. TypeOK
  BY DEF CountInv, AlignedInv
<1>2. customer \in Sides /\ producer \in Sides /\ PushedSide \in Sides /\ Opposite(producer) \in Sides
  BY <1>1, Fields DEF PushedSide, Opposite, Sides
<1>3. \A s \in Sides : /\ fifo[s] \in Fifos /\ fifo[s].head \in Nat /\ fifo[s].tail \in Nat
                       /\ fifo[s].offset \in Nat
  <2>1. \A s \in Sides : fifo[s] \in Fifos
    BY <1>1, Fields
  <2> QED  BY <2>1, FifoFields
<1>4. triggers \in Nat /\ current \in Nat /\ hwLine \in Nat /\ hwBase \in Nat
  BY <1>1, GeometryFacts DEF TypeOK
<1>5. EntryLines * triggers \in Nat
  BY <1>4, Multiples
<1> QED  BY <1>1, <1>2, <1>3, <1>4, <1>5 DEF TypeOK

\* The counts are numbers.
LEMMA ReadCounts ==
  ASSUME CountInv
  PROVE  /\ Reached \in Int /\ Pushed \in Int /\ ReadFrom \in Int /\ HeadAt \in Int
         /\ Due \in Nat /\ Untold \in Nat
<1>1. Reached \in Int /\ Pushed \in Int /\ HeadAt \in Int
  BY ReadTyped, GeometryFacts DEF Reached, Pushed, HeadAt
<1>2. ReadFrom \in Int /\ Due \in Nat /\ Untold \in Nat
  BY ReadTyped, GeometryFacts DEF ReadFrom, Unpopped, Due, Untold
<1> QED  BY <1>1, <1>2

\* The same of the next state.
LEMMA ReadCountsNext ==
  CountInv' => Reached' \in Int /\ Pushed' \in Int /\ ReadFrom' \in Int /\ HeadAt' \in Int
<1>. DEFINE Counts == Reached \in Int /\ Pushed \in Int /\ ReadFrom \in Int /\ HeadAt \in Int
<1>1. CountInv => Counts
  BY ReadCounts
<1>. HIDE DEF Counts
<1>2. CountInv' => Counts'
  BY <1>1, PTL
<1> QED  BY <1>2 DEF Counts

\* At first, all is at slot 0.
LEMMA ReadInit == Init => ReadInv
<1>. SUFFICES ASSUME Init PROVE ReadInv
  OBVIOUS
<1>1. CountInv
  BY CountInit
<1>2. /\ fifo = [s \in Sides |-> ResetFifo(0)] /\ producer = 0 /\ customer = 0 /\ status = "ok"
      /\ pc = "waiting" /\ triggers = 0 /\ doneInt = FALSE /\ current = 0 /\ hwLine = 0 /\ hwBase = 0
  BY DEF Init, HandlerInit
<1>3. \A s \in Sides : fifo[s].head = 0 /\ fifo[s].tail = 0 /\ fifo[s].offset = 0 /\ ~fifo[s].overflow
  BY <1>2 DEF ResetFifo
<1>4. Reached = 0 /\ Pushed = 0 /\ HeadAt = 0 /\ ReadFrom = 0 /\ Due = 0 /\ Untold = 0
  <2>1. EntryLines * triggers = 0
    BY <1>2, Multiples
  <2> QED  BY <1>2, <1>3, <2>1 DEF Reached, Pushed, PushedSide, HeadAt, ReadFrom, Unpopped, Due, Untold, Sides
<1>5. Same(0, 0)
  BY SameSelf
<1>6. TriggersReach /\ HeadFollows
  BY <1>2, <1>4, <1>5 DEF TriggersReach, HeadFollows
<1>7. NoOverflow /\ OffsetsFollow /\ CurrentIsTail
  BY <1>2, <1>3 DEF NoOverflow, OffsetsFollow, CurrentIsTail, Tail, Sides
<1> QED  BY <1>2, <1>6, <1>7, WholesGrow DEF ReadInv

\* Where the task is neither counting a push nor starting a recovery.
Plain == BetweenPushes \union {"push_lines"}

\* Steps that touch none of the counts, the task being in no push before or after.
LEMMA ReadKept ==
  ASSUME CountInv, ReadInv,
         UNCHANGED <<handlerVars, current, triggers, hwLine, hwBase, doneInt, late, early>>,
         pc' = pc \/ (pc \in Plain /\ pc' \in Plain)
  PROVE  ReadInv'
<1>1. Due' = Due /\ Untold' = Untold /\ PushedSide' = PushedSide
  BY DEF Due, Untold, PushedSide, Plain, BetweenPushes, handlerVars
<1>2. Reached' = Reached /\ Pushed' = Pushed /\ ReadFrom' = ReadFrom /\ HeadAt' = HeadAt
  BY <1>1 DEF Reached, Pushed, ReadFrom, Unpopped, HeadAt, handlerVars
<1>3. CASE early
  BY <1>3 DEF ReadInv
<1>4. CASE ~early
  <2>1. NoOverflow' /\ OffsetsFollow'
    BY <1>4 DEF ReadInv, NoOverflow, OffsetsFollow, NextBase, Plain, BetweenPushes, handlerVars
  <2>2. TriggersReach'
    BY <1>1, <1>2, <1>4 DEF ReadInv, TriggersReach, handlerVars
  <2>3. CurrentIsTail'
    BY <1>4 DEF ReadInv, CurrentIsTail, Tail, Plain, BetweenPushes, handlerVars
  <2>4. HeadFollows'
    BY <1>2, <1>4 DEF ReadInv, HeadFollows, Plain, BetweenPushes, handlerVars
  <2> QED  BY <2>1, <2>2, <2>3, <2>4 DEF ReadInv
<1> QED  BY <1>3, <1>4

\* The post-ISP reads an entry, or goes on to the next frame.
LEMMA HwRead ==
  ASSUME FrameLines % EntryLines = 0, CountInv, CountInv', ReadInv, HwEntry \/ HwFrameEnd
  PROVE  ReadInv'
<1>1. UNCHANGED <<handlerVars, taskVars, current, histVars>>
  BY DEF HwEntry, HwFrameEnd
<1>2. /\ Due' = Due /\ Untold' = Untold /\ Pushed' = Pushed /\ HeadAt' = HeadAt
      /\ early' = early /\ pc' = pc
  BY <1>1 DEF Due, Untold, Pushed, PushedSide, HeadAt, handlerVars, taskVars, histVars
<1>3. hwLine' \in Wholes /\ Same(Reached', Reached) /\ (~late' => ~late /\ Same(ReadFrom, ReadFrom'))
  <2>1. CASE HwEntry
    <3>1. hwLine + EntryLines <= FrameLines
      BY <2>1, FrameIsWhole, WholesApart DEF HwEntry, ReadInv
    <3>2. /\ hwLine' = hwLine + EntryLines /\ triggers' = triggers - 1 /\ hwBase' = hwBase
          /\ doneInt' = TRUE /\ late' = (late \/ doneInt)
      BY <2>1, <3>1 DEF HwEntry
    <3>3. Reached' = Reached
      <4>1. triggers' \in Nat /\ triggers = triggers' + 1
        BY <2>1, <3>2, ReadTyped DEF HwEntry
      <4>2. EntryLines * triggers = EntryLines * triggers' + EntryLines /\ EntryLines * triggers' \in Nat
        BY <4>1, Multiples
      <4> QED  BY <3>2, <4>2, ReadTyped, GeometryFacts DEF Reached
    <3>4. ~late' => ~late /\ ReadFrom' = ReadFrom
      <4>1. ~late' => ~late /\ ~doneInt
        BY <3>2
      <4>2. ReadFrom' = hwBase + (hwLine + EntryLines) - EntryLines
        BY <3>2 DEF ReadFrom, Unpopped
      <4>3. ~doneInt => ReadFrom = hwBase + hwLine - 0
        BY DEF ReadFrom, Unpopped
      <4> QED  BY <4>1, <4>2, <4>3, ReadTyped, GeometryFacts
    <3>5. hwLine' \in Wholes
      BY <3>2, WholesGrow DEF ReadInv
    <3> QED  BY <3>3, <3>4, <3>5, ReadCounts, SameSelf
  <2>2. CASE HwFrameEnd
    <3>1. /\ hwLine = FrameLines /\ hwLine' = 0 /\ hwBase' = (hwBase + FrameLines) % BufferLines
          /\ triggers' = triggers /\ doneInt' = doneInt /\ late' = late
      BY <2>2, WholeFrame DEF HwFrameEnd
    <3>. DEFINE x == hwBase + FrameLines
                b == x % BufferLines
    <3>2. x \in Int /\ b \in Int /\ Same(b, x)
      <4>1. x \in Int
        BY ReadTyped, GeometryFacts
      <4> QED  BY <4>1, Rounds, SlotIsSame
    <3>3. Same(Reached', Reached)
      <4>1. Reached' = b + EntryLines * triggers /\ Reached = x + EntryLines * triggers
        <5>1. Reached' = b + 0 + EntryLines * triggers
          BY <3>1 DEF Reached
        <5> QED  BY <3>1, <3>2, <5>1, ReadTyped DEF Reached
      <4>2. EntryLines * triggers \in Int
        BY ReadTyped
      <4> HIDE DEF b, x
      <4> QED  BY <3>2, <4>1, <4>2, SameAdd
    <3>4. Same(ReadFrom, ReadFrom')
      <4>1. Unpopped \in Int /\ -Unpopped \in Int /\ Unpopped' = Unpopped
        BY <3>1, GeometryFacts DEF Unpopped
      <4>2. ReadFrom' = b + 0 - Unpopped /\ ReadFrom = x - Unpopped
        BY <3>1, <3>2, <4>1, ReadTyped, GeometryFacts DEF ReadFrom
      <4>. HIDE DEF b, x
      <4>3. ReadFrom' = b + (-Unpopped) /\ ReadFrom = x + (-Unpopped)
        BY <3>2, <4>1, <4>2
      <4>4. Same(ReadFrom', ReadFrom)
        BY <3>2, <4>1, <4>3, SameAdd
      <4> QED  BY <4>4, ReadCounts, ReadCountsNext, SameBack
    <3> QED  BY <3>1, <3>3, <3>4, WholesGrow
  <2> QED  BY <2>1, <2>2
<1>4. CASE early
  BY <1>2, <1>3, <1>4 DEF ReadInv
<1>5. CASE ~early
  <2>1. NoOverflow' /\ OffsetsFollow' /\ CurrentIsTail'
    BY <1>1, <1>2, <1>5 DEF ReadInv, NoOverflow, OffsetsFollow, NextBase, CurrentIsTail, Tail, handlerVars
  <2>2. Reached \in Int /\ Reached' \in Int /\ Pushed \in Int /\ Due \in Int /\ Untold \in Int
    BY ReadCounts, ReadCountsNext
  <2>3. TriggersReach'
    <3>1. Same(Reached + Due, Pushed + Untold) => Same(Reached' + Due, Pushed + Untold)
      <4>1. Same(Reached' + Due, Reached + Due)
        BY <1>3, <2>2, SameAdd
      <4> QED  BY <2>2, <4>1, SameOn
    <3>2. Same(Reached, fifo[producer].offset + current) => Same(Reached', fifo[producer].offset + current)
      BY <1>3, <2>2, SameOn, ReadTyped
    <3> QED  BY <1>1, <1>2, <1>5, <3>1, <3>2 DEF ReadInv, TriggersReach, handlerVars
  <2>4. HeadFollows'
    <3>1. Same(HeadAt, ReadFrom) /\ ~late' => Same(HeadAt, ReadFrom')
      BY <1>3, ReadCounts, ReadCountsNext, SameOn
    <3> QED  BY <1>1, <1>2, <1>3, <1>5, <3>1 DEF ReadInv, HeadFollows, handlerVars
  <2> QED  BY <1>3, <2>1, <2>3, <2>4 DEF ReadInv
<1> QED  BY <1>4, <1>5

\* The interrupt pops the entry that was read: the head goes on with the post-ISP.
LEMMA PopRead ==
  ASSUME FrameLines % EntryLines = 0, CountInv, CountInv', ReadInv, ~early,
         status = "ok", doneInt, PopEntry, doneInt' = FALSE,
         UNCHANGED <<pc, current, triggers, hwLine, hwBase, late, early>>
  PROVE  ReadInv'
<1>. DEFINE f == fifo[customer]
            g == Popped(f, EntryLines)
<1>1. /\ customer \in Sides /\ producer \in Sides /\ fifo \in [Sides -> Fifos] /\ f \in Fifos
      /\ f.head \in Nat /\ f.tail \in Nat /\ f.head <= f.tail /\ f.head \in Wholes /\ f.offset \in Nat
  BY Fields, ReadTyped DEF CountInv, AlignedInv, Slots
<1>2. NoOverflow /\ OffsetsFollow /\ TriggersReach /\ CurrentIsTail /\ HeadFollows
  BY DEF ReadInv
<1>3. /\ producer' = producer /\ status' = "ok"
      /\ \A s \in Sides : fifo'[s].tail = fifo[s].tail
  <2>1. /\ producer' = producer /\ status' \in {"ok", "pop_fail", "frame_switch_fail"}
        /\ \A s \in Sides : fifo'[s].tail = fifo[s].tail
    BY PopKeepsTails DEF CountInv
  <2>2. OnlyOverflowFaults'
    BY DEF CountInv
  <2> QED  BY <2>1, <2>2 DEF OnlyOverflowFaults
<1>4. \/ UNCHANGED <<fifo, customer>>
      \/ /\ Elements(f) # 0 /\ fifo' = [fifo EXCEPT ![customer] = g]
         /\ customer' = IF LastEntryPopped(g) THEN Opposite(customer) ELSE customer
         /\ LastEntryPopped(g) => customer' = producer
  <2>1. CASE Elements(f) = 0
    BY <2>1 DEF PopEntry, handlerVars
  <2>2. CASE Elements(f) # 0
    <3>1. /\ fifo' = [fifo EXCEPT ![customer] = g]
          /\ customer' = IF LastEntryPopped(g) THEN Opposite(customer) ELSE customer
          /\ status' = CASE g.head > FrameLines -> "pop_fail"
                         [] LastEntryPopped(g) /\ customer' # producer -> "frame_switch_fail"
                         [] OTHER -> status
      BY <2>2, WholeFrame DEF PopEntry
    <3>2. LastEntryPopped(g) => customer' = producer
      <4>. HIDE DEF g
      <4> QED  BY <1>3, <3>1, GeometryFacts DEF LastEntryPopped
    <3> QED  BY <2>2, <3>1, <3>2
  <2> QED  BY <2>1, <2>2
<1>5. /\ g \in Fifos /\ g.offset = f.offset /\ g.overflow = f.overflow
      /\ g.head = f.head \/ g.head = f.head + EntryLines
  BY <1>1, GeometryFacts DEF Popped, Fifos
<1>6. \A s \in Sides : fifo'[s].offset = fifo[s].offset /\ fifo'[s].overflow = fifo[s].overflow
  <2>. HIDE DEF g
  <2> QED  BY <1>1, <1>4, <1>5
<1>7. customer' = customer \/ customer' = producer
  BY <1>4
<1>8. NoOverflow' /\ OffsetsFollow' /\ CurrentIsTail'
  <2>1. NoOverflow'
    BY <1>2, <1>3, <1>6 DEF NoOverflow
  <2>2. OffsetsFollow'
    BY <1>1, <1>2, <1>3, <1>6, <1>7 DEF OffsetsFollow, NextBase
  <2>3. CurrentIsTail'
    BY <1>1, <1>2, <1>3 DEF CurrentIsTail, Tail
  <2> QED  BY <2>1, <2>2, <2>3
<1>9. TriggersReach'
  <2>1. Due' = Due /\ Untold' = Untold /\ Reached' = Reached
    BY DEF Due, Untold, Reached
  <2>2. Pushed' = Pushed
    BY <1>3, <1>6, ReadTyped DEF Pushed, PushedSide
  <2> QED  BY <1>2, <1>3, <2>1, <2>2 DEF TriggersReach
<1>10. HeadFollows'
  <2>. SUFFICES ASSUME pc # "recovering", ~late PROVE Same(HeadAt', ReadFrom')
    BY <1>3 DEF HeadFollows
  <2>1. Same(HeadAt, ReadFrom) /\ SideOrder /\ Owed <= Lines
    BY <1>2 DEF HeadFollows, CountInv, ServedInOrder
  <2>2. ReadFrom' = ReadFrom + EntryLines
    BY ReadTyped, GeometryFacts DEF ReadFrom, Unpopped
  <2>3. f.head + EntryLines <= f.tail /\ Elements(f) # 0
    <3>1. f.head < f.tail
      <4>1. CASE producer # customer
        BY <2>1, <4>1 DEF SideOrder
      <4>2. CASE producer = customer
        <5>1. Lines = 0 + Elements(f)
          BY <2>1, <4>2 DEF SideOrder, Lines, InFlight, OtherSideLines
        <5>2. EntryLines <= Owed /\ Owed \in Int
          <6>1. Told = EntryLines * triggers + EntryLines /\ Due \in Nat
            BY ReadCounts DEF Told
          <6> QED  BY <6>1, ReadTyped, GeometryFacts DEF Owed
        <5> QED  BY <1>1, <2>1, <5>1, <5>2, GeometryFacts DEF Elements
      <4> QED  BY <4>1, <4>2
    <3>2. f.tail \in Wholes
      <4>1. CASE producer # customer
        BY <2>1, <4>1, FrameIsWhole DEF SideOrder
      <4>2. CASE producer = customer
        BY <2>1, <4>2 DEF SideOrder, CountInv, AlignedInv, TailInFrame, Tail
      <4> QED  BY <4>1, <4>2
    <3> QED  BY <1>1, <3>1, <3>2, WholesApart DEF Elements
  <2>4. g.head = f.head + EntryLines
    <3>1. ~f.overflow
      BY <1>1, <1>2 DEF NoOverflow
    <3> QED  BY <1>1, <2>3, <3>1 DEF Popped, EnoughElementsToPop, Fifos
  <2>. HIDE DEF g
  <2>5. fifo'[customer] = g /\ \A s \in Sides : s # customer => fifo'[s] = fifo[s]
    <3>1. fifo' = [fifo EXCEPT ![customer] = g]
      <4>1. ~UNCHANGED <<fifo, customer>> \/ fifo' = [fifo EXCEPT ![customer] = g]
        <5>. SUFFICES ASSUME fifo' = fifo, customer' = customer PROVE fifo' = [fifo EXCEPT ![customer] = g]
          OBVIOUS
        <5>1. Elements(f) # 0
          BY <2>3
        <5> QED  BY <5>1, WholeFrame DEF PopEntry, g
      <4> QED  BY <1>4, <4>1
    <3> QED  BY <1>1, <3>1
  <2>6. HeadAt \in Int /\ ReadFrom \in Int /\ HeadAt = f.head + f.offset
    BY ReadCounts DEF HeadAt
  <2>7. Same(HeadAt + EntryLines, ReadFrom + EntryLines)
    BY <2>1, <2>6, GeometryFacts, SameAdd
  <2>8. customer' = IF LastEntryPopped(g) THEN Opposite(customer) ELSE customer
    <3>1. Elements(f) # 0
      BY <2>3
    <3> QED  BY <3>1, WholeFrame DEF PopEntry, g
  <2>9. CASE ~LastEntryPopped(g)
    <3>1. HeadAt' = HeadAt + EntryLines
      BY <1>1, <1>5, <2>4, <2>5, <2>6, <2>8, <2>9, GeometryFacts DEF HeadAt
    <3> QED  BY <2>2, <2>7, <3>1
  <2>10. CASE LastEntryPopped(g)
    <3>1. customer' = producer /\ producer # customer
      <4>1. customer' # customer
        BY <1>1, <2>8, <2>10 DEF Opposite, Sides
      <4> QED  BY <1>4, <2>10, <4>1
    <3>2. pc # "reset_side"
      <4>1. SideOrder'
        BY <1>3 DEF CountInv, ServedInOrder
      <4> QED  BY <1>3, <3>1, <4>1 DEF SideOrder
    <3>. DEFINE x == f.offset + FrameLines
                b == x % BufferLines
    <3>3. fifo[producer].head = 0 /\ fifo[producer].offset = b
      BY <1>2, <2>1, <3>1, <3>2, WholeFrame DEF SideOrder, OffsetsFollow, NextBase
    <3>4. x \in Int /\ b \in Int /\ Same(b, x)
      <4>1. x \in Int
        BY <1>1, GeometryFacts
      <4> QED  BY <4>1, Rounds, SlotIsSame
    <3>5. HeadAt + EntryLines = x
      <4>1. f.head + EntryLines = FrameLines
        BY <2>4, <2>10 DEF LastEntryPopped
      <4> QED  BY <1>1, <2>6, <4>1, GeometryFacts
    <3>6. HeadAt' = b
      <4>1. HeadAt' = 0 + b
        BY <1>1, <2>5, <3>1, <3>3 DEF HeadAt
      <4> QED  BY <3>4, <4>1
    <3>. HIDE DEF b, x
    <3>7. Same(x, ReadFrom')
      BY <2>2, <2>7, <3>5
    <3> QED  BY <3>4, <3>6, <3>7, ReadCountsNext, SameOn
  <2> QED  BY <2>9, <2>10
<1> QED  BY <1>8, <1>9, <1>10 DEF ReadInv

\* The end of a recovery: the frame that was driven to its end is counted.
LEMMA RestartRead ==
  ASSUME FrameLines % EntryLines = 0, CountInv, CountInv', ReadInv, ~early, ~early',
         InterruptRecovering, frameInt, Restart,
         early' = (early \/ (status = "recovering" /\ frameInt /\ (triggers' > 0 \/ current < FrameLines))),
         UNCHANGED <<pc, hwLine, hwBase, late>>
  PROVE  ReadInv'
<1>. DEFINE x == fifo[producer].offset + FrameLines
            b == x % BufferLines
<1>1. status = "recovering" /\ pc \in {"waiting", "recovered"}
  BY DEF InterruptRecovering, CountInv, AlignedInv, RecoveryOrder
<1>2. /\ producer' = producer /\ fifo'[producer].head = 0 /\ fifo'[producer].tail = 0
      /\ status' = "recovery_done" /\ current' = 0
  BY RestartStep DEF CountInv, Tail
<1>3. NoOverflow /\ TriggersReach
  BY DEF ReadInv
<1>4. current >= FrameLines /\ triggers' = triggers /\ triggers' = 0
  <2>1. ~(triggers' > 0 \/ current < FrameLines)
    BY <1>1, Zenon
  <2>2. triggers' = IF TriggersNext THEN triggers + 1 ELSE triggers
    BY DEF InterruptRecovering
  <2>3. ~(current < FrameLines) /\ ~(triggers' > 0)
    BY <2>1
  <2>4. triggers' = triggers
    BY <2>2, <2>3 DEF TriggersNext
  <2> QED  BY <2>3, <2>4, ReadTyped, GeometryFacts
<1>5. current = FrameLines /\ Same(Reached, x)
  BY <1>1, <1>3, <1>4, ReadTyped, GeometryFacts DEF TriggersReach
<1>6. x \in Int /\ b \in Int /\ Same(x, b)
  <2>1. x \in Int
    BY ReadTyped, GeometryFacts
  <2>2. b \in Int /\ Same(b, x)
    BY <2>1, Rounds, SlotIsSame
  <2> QED  BY <2>1, <2>2, SameBack
<1>7. fifo' = [fifo EXCEPT ![producer] = ResetFifo(b)]
  BY WholeFrame DEF Restart, ResetHandler, NextBase
<1>8. fifo'[producer].offset = b /\ \A s \in Sides : ~fifo'[s].overflow
  <2>. HIDE DEF b
  <2>1. fifo'[producer] = ResetFifo(b) /\ \A s \in Sides : s # producer => fifo'[s] = fifo[s]
    BY <1>7, Fields DEF CountInv, AlignedInv
  <2> QED  BY <1>1, <1>3, <2>1 DEF NoOverflow, ResetFifo
<1>. HIDE DEF b, x
<1>9. Same(Reached, b)
  BY <1>5, <1>6, ReadCounts, SameOn
<1>10. Reached' + Due' = Reached /\ Pushed' + Untold' = b
  <2>1. Reached' = Reached
    BY <1>4 DEF Reached
  <2>2. Due' = 0 /\ Untold' = 0 /\ Pushed' = b + 0
    BY <1>1, <1>2, <1>8 DEF Due, Untold, Pushed, PushedSide
  <2> QED  BY <1>6, <2>1, <2>2, ReadCounts
<1>11. NoOverflow' /\ OffsetsFollow' /\ TriggersReach' /\ CurrentIsTail' /\ HeadFollows'
  BY <1>1, <1>2, <1>8, <1>9, <1>10 DEF NoOverflow, OffsetsFollow, TriggersReach, CurrentIsTail, HeadFollows
<1> QED  BY <1>11 DEF ReadInv

\* Whatever the interrupt handler finds, the three counts still agree.
LEMMA InterruptRead ==
  ASSUME FrameLines % EntryLines = 0, CountInv, CountInv', ReadInv, Interrupt
  PROVE  ReadInv'
<1>1. /\ UNCHANGED <<taskVars, feVars, hwLine, hwBase, late>> /\ doneInt' = FALSE
      /\ early' = (early \/ (status = "recovering" /\ frameInt /\ (triggers' > 0 \/ current < FrameLines)))
  BY DEF Interrupt
<1>2. hwLine' \in Wholes /\ pc' = pc
  BY <1>1 DEF ReadInv, taskVars
<1>3. CASE early'
  BY <1>2, <1>3 DEF ReadInv
<1>4. CASE ~early'
  <2>1. ~early /\ early' = early
    BY <1>1, <1>4, ReadTyped
  <2>2. NoOverflow /\ OffsetsFollow /\ TriggersReach /\ CurrentIsTail /\ HeadFollows
    BY <2>1 DEF ReadInv
  <2>3. CASE InterruptRecovering
    <3>1. CASE frameInt /\ Restart
      BY <1>1, <1>2, <1>4, <2>1, <2>3, <3>1, RestartRead
    <3>2. CASE ~frameInt /\ UNCHANGED handlerVars /\ current' = IF TriggersNext THEN current + EntryLines ELSE current
      <4>1. status = "recovering" /\ status' = status /\ pc \in {"waiting", "recovered"}
        BY <2>3, <3>2 DEF InterruptRecovering, CountInv, AlignedInv, RecoveryOrder, handlerVars
      <4>2. /\ Same(Reached, fifo[producer].offset + current)
            /\ current \in Wholes /\ current <= FrameLines
        BY <2>2, <4>1 DEF TriggersReach
      <4>3. TriggersReach'
        <5>1. CASE TriggersNext
          <6>1. triggers' = triggers + 1 /\ current' = current + EntryLines /\ current < FrameLines
            BY <2>3, <3>2, <5>1 DEF InterruptRecovering, TriggersNext
          <6>2. Reached' = Reached + EntryLines
            <7>1. EntryLines * triggers' = EntryLines * triggers + EntryLines
              BY <6>1, ReadTyped, Multiples
            <7> QED  BY <1>1, <7>1, ReadTyped, GeometryFacts DEF Reached
          <6>3. current' \in Wholes /\ current' <= FrameLines
            BY <4>2, <6>1, WholesGrow, WholesApart, FrameIsWhole
          <6>4. Same(Reached', (fifo[producer].offset + current) + EntryLines)
            <7>. DEFINE at == fifo[producer].offset + current
            <7>1. at \in Int /\ Reached \in Int /\ EntryLines \in Int /\ Same(Reached, at)
              BY <4>2, ReadTyped, ReadCounts, GeometryFacts
            <7>. HIDE DEF at
            <7>2. Same(Reached + EntryLines, at + EntryLines)
              BY <7>1, SameAdd
            <7> QED  BY <6>2, <7>2 DEF at
          <6>5. fifo'[producer'].offset + current' = (fifo[producer].offset + current) + EntryLines
            BY <3>2, <6>1, ReadTyped, GeometryFacts DEF handlerVars
          <6> QED  BY <4>1, <6>3, <6>4, <6>5 DEF TriggersReach
        <5>2. CASE ~TriggersNext
          <6>1. triggers' = triggers /\ current' = current
            BY <2>3, <3>2, <5>2 DEF InterruptRecovering
          <6>2. Reached' = Reached
            BY <1>1, <6>1 DEF Reached
          <6> QED  BY <3>2, <4>1, <4>2, <6>1, <6>2 DEF TriggersReach, handlerVars
        <5> QED  BY <5>1, <5>2
      <4>4. NoOverflow' /\ OffsetsFollow' /\ CurrentIsTail' /\ HeadFollows'
        BY <1>2, <2>2, <3>2, <4>1 DEF NoOverflow, OffsetsFollow, CurrentIsTail, HeadFollows, handlerVars
      <4> QED  BY <1>2, <4>3, <4>4 DEF ReadInv
    <3> QED  BY <2>3, <3>1, <3>2 DEF InterruptRecovering
  <2>4. CASE status = "ok" /\ doneInt /\ PopEntry /\ UNCHANGED <<triggers, current>>
    BY <1>1, <1>2, <2>1, <2>4, PopRead
  <2>5. CASE ~(status = "ok" /\ doneInt) /\ status # "recovering" /\ UNCHANGED <<handlerVars, triggers, current>>
    <3>1. Due' = Due /\ Untold' = Untold /\ Pushed' = Pushed /\ Reached' = Reached /\ HeadAt' = HeadAt
      BY <1>1, <1>2, <2>5 DEF Due, Untold, Pushed, PushedSide, Reached, HeadAt, handlerVars
    <3>2. status = "ok" => ReadFrom' = ReadFrom
      BY <1>1, <2>5 DEF ReadFrom, Unpopped
    <3>3. NoOverflow' /\ OffsetsFollow' /\ CurrentIsTail'
      BY <1>2, <2>2, <2>5 DEF NoOverflow, OffsetsFollow, NextBase, CurrentIsTail, Tail, handlerVars
    <3>4. TriggersReach' /\ HeadFollows'
      BY <1>1, <1>2, <2>2, <2>5, <3>1, <3>2 DEF TriggersReach, HeadFollows, handlerVars
    <3> QED  BY <1>2, <3>3, <3>4 DEF ReadInv
  <2> QED  BY <2>3, <2>4, <2>5 DEF Interrupt
<1> QED  BY <1>3, <1>4

\* The steps of a push: a frame ends where the next one starts.
LEMMA PushRead ==
  ASSUME FrameLines % EntryLines = 0, CountInv, CountInv', ReadInv, Push
  PROVE  ReadInv'
<1>1. /\ UNCHANGED <<customer, feVars, hwLine, hwBase, doneInt, late, early>>
      /\ pc \in InPush
  <2>1. CASE CheckPush
    BY <2>1 DEF CheckPush, At, InPush, feVars, hwVars, histVars
  <2>2. CASE PushLines
    BY <2>2 DEF PushLines, At, InPush, feVars, hwVars, histVars
  <2>3. CASE SwitchSide \/ ResetSide \/ Trigger
    BY <2>3 DEF SwitchSide, ResetSide, Trigger, At, InPush, handlerVars, feVars, hwVars, histVars
  <2> QED  BY <2>1, <2>2, <2>3 DEF Push
<1>2. hwLine' \in Wholes
  BY <1>1 DEF ReadInv
<1>3. CASE early
  BY <1>1, <1>2, <1>3 DEF ReadInv
<1>4. ASSUME ~early, status' = "over_flow", pc' # "recovering"
      PROVE  ReadInv'
  BY <1>2, <1>4 DEF ReadInv, NoOverflow, OffsetsFollow, TriggersReach, CurrentIsTail, HeadFollows
<1>5. pc' # "recovering"
  BY DEF Push, CheckPush, PushLines, SwitchSide, ResetSide, Trigger, At
<1>6. CASE CheckPush
  <2>1. ElementAccepted(Height)
    BY WholeFrame, GeometryFacts DEF ElementAccepted, Height
  <2>2. UNCHANGED <<handlerVars, current, triggers>> /\ pc \in Plain /\ pc' \in Plain
    BY <1>6, <2>1 DEF CheckPush, At, Plain, BetweenPushes, handlerVars, hwVars
  <2> QED  BY <1>1, <2>2, ReadKept
<1>. SUFFICES ASSUME ~early, ~CheckPush PROVE ReadInv'
  BY <1>3, <1>6
<1>7. NoOverflow /\ OffsetsFollow /\ TriggersReach /\ CurrentIsTail /\ HeadFollows
  BY DEF ReadInv
<1>8. status \in {"ok", "over_flow"}
  BY <1>1 DEF CountInv, OnlyOverflowFaults, AlignedInv, RecoveryOrder, InPush
<1>9. CASE PushLines
  <2>1. pc = "push_lines" /\ UNCHANGED <<producer, current, triggers>>
    BY <1>9 DEF PushLines, At, hwVars
  <2>2. CASE pc' = "waiting" /\ status' = "over_flow"
    BY <1>4, <2>2
  <2>3. CASE /\ pc' = "switch" /\ status' = status
             /\ fifo' = [fifo EXCEPT ![producer].tail = @ + EntryLines]
    <3>1. CASE status = "over_flow"
      BY <1>4, <2>3, <3>1
    <3>2. CASE status = "ok"
      <4>1. /\ fifo'[producer].tail = fifo[producer].tail + EntryLines
            /\ \A s \in Sides : /\ fifo'[s].head = fifo[s].head /\ fifo'[s].offset = fifo[s].offset
                                /\ fifo'[s].overflow = fifo[s].overflow
        <5>1. fifo \in [Sides -> Fifos] /\ producer \in Sides
          BY Fields DEF CountInv, AlignedInv
        <5> QED  BY <2>3, <5>1 DEF Fifos
      <4>2. NoOverflow' /\ OffsetsFollow' /\ CurrentIsTail'
        BY <1>1, <1>7, <2>1, <2>3, <3>2, <4>1, ReadTyped DEF NoOverflow, OffsetsFollow, NextBase, CurrentIsTail
      <4>3. HeadFollows'
        <5>1. HeadAt' = HeadAt /\ ReadFrom' = ReadFrom
          BY <1>1, <4>1, ReadTyped DEF HeadAt, ReadFrom, Unpopped
        <5> QED  BY <1>1, <1>7, <2>1, <3>2, <5>1 DEF HeadFollows
      <4>4. TriggersReach'
        <5>1. Reached' + Due' = Reached + EntryLines
          BY <1>1, <2>1, <2>3 DEF Reached, Due
        <5>2. Pushed' + Untold' = Pushed + EntryLines
          <6>1. Pushed' = Pushed + EntryLines
            BY <2>1, <2>3, <4>1, ReadTyped, GeometryFacts DEF Pushed, PushedSide
          <6>2. Untold' = 0
            BY <2>3 DEF Untold
          <6> QED  BY <6>1, <6>2, ReadCounts, GeometryFacts
        <5>3. Same(Reached, Pushed)
          <6>1. Reached + Due = Reached /\ Pushed + Untold = Pushed
            BY <2>1, ReadCounts DEF Due, Untold
          <6> QED  BY <1>7, <3>2, <6>1 DEF TriggersReach
        <5>4. Same(Reached + EntryLines, Pushed + EntryLines)
          BY <5>3, ReadCounts, GeometryFacts, SameAdd
        <5> QED  BY <2>3, <3>2, <5>1, <5>2, <5>4 DEF TriggersReach
      <4> QED  BY <1>2, <4>2, <4>3, <4>4 DEF ReadInv
    <3> QED  BY <1>8, <3>1, <3>2
  <2> QED  BY <1>9, <2>2, <2>3 DEF PushLines, At
<1>10. CASE SwitchSide
  <2>1. /\ pc = "switch" /\ UNCHANGED <<status, fifo, current, triggers>>
        /\ \/ pc' = "reset_side" /\ producer' = Opposite(producer)
           \/ pc' = "trigger" /\ producer' = producer
    BY <1>10 DEF SwitchSide, At, hwVars
  <2>2. CASE status = "over_flow"
    BY <1>4, <1>5, <2>1, <2>2
  <2>3. CASE status = "ok"
    <3>1. Due' = Due /\ Untold' = Untold /\ Reached' = Reached /\ HeadAt' = HeadAt /\ ReadFrom' = ReadFrom
      BY <1>1, <2>1 DEF Due, Untold, Reached, HeadAt, ReadFrom, Unpopped
    <3>2. Pushed' = Pushed
      BY <2>1, ReadTyped DEF Pushed, PushedSide, Opposite, Sides
    <3>3. NoOverflow' /\ OffsetsFollow' /\ CurrentIsTail'
      BY <1>1, <1>7, <2>1, <2>3 DEF NoOverflow, OffsetsFollow, NextBase, CurrentIsTail
    <3>4. TriggersReach' /\ HeadFollows'
      BY <1>1, <1>7, <2>1, <2>3, <3>1, <3>2 DEF TriggersReach, HeadFollows
    <3> QED  BY <1>2, <3>3, <3>4 DEF ReadInv
  <2> QED  BY <1>8, <2>2, <2>3
<1>11. CASE ResetSide
  <2>. DEFINE x == fifo[Opposite(producer)].offset + FrameLines
              b == x % BufferLines
  <2>1. /\ pc = "reset_side" /\ pc' = "trigger" /\ fifo' = [fifo EXCEPT ![producer] = ResetFifo(b)]
        /\ UNCHANGED <<producer, status, current, triggers>>
    BY <1>11, WholeFrame DEF ResetSide, At, hwVars, NextBase
  <2>2. CASE status = "over_flow"
    BY <1>4, <1>5, <2>1, <2>2
  <2>3. CASE status = "ok"
    <3>1. producer # customer /\ fifo[customer].tail = FrameLines
      BY <2>1, <2>3 DEF CountInv, ServedInOrder, SideOrder
    <3>2. Opposite(producer) = customer
      BY <3>1, ReadTyped DEF Opposite, Sides
    <3>3. x \in Int /\ b \in Int /\ Same(x, b) /\ x = fifo[customer].offset + FrameLines
      <4>1. x \in Int
        BY ReadTyped, GeometryFacts
      <4>2. b \in Int /\ Same(b, x)
        BY <4>1, Rounds, SlotIsSame
      <4> QED  BY <3>2, <4>1, <4>2, SameBack
    <3>4. b = NextBase(fifo[customer], Used)
      BY <3>2, WholeFrame DEF NextBase
    <3>. HIDE DEF b, x
    <3>5. /\ fifo'[producer].tail = 0 /\ fifo'[producer].offset = b /\ ~fifo'[producer].overflow
          /\ \A s \in Sides : s # producer => fifo'[s] = fifo[s]
      <4>1. fifo \in [Sides -> Fifos] /\ producer \in Sides
        BY Fields DEF CountInv, AlignedInv
      <4> QED  BY <2>1, <4>1 DEF ResetFifo
    <3>6. NoOverflow'
      BY <1>7, <2>1, <2>3, <3>5 DEF NoOverflow
    <3>7. OffsetsFollow' /\ CurrentIsTail'
      BY <1>1, <2>1, <2>3, <3>1, <3>4, <3>5, ReadTyped DEF OffsetsFollow, NextBase, CurrentIsTail
    <3>8. HeadFollows'
      <4>1. HeadAt' = HeadAt /\ ReadFrom' = ReadFrom
        BY <1>1, <3>1, <3>5, ReadTyped DEF HeadAt, ReadFrom, Unpopped
      <4> QED  BY <1>1, <1>7, <2>1, <4>1 DEF HeadFollows
    <3>9. TriggersReach'
      <4>1. Reached' + Due' = Reached + Due /\ Reached + Due \in Int
        BY <1>1, <2>1, ReadCounts DEF Reached, Due
      <4>2. Pushed + Untold = x
        <5>1. Pushed = fifo[customer].offset + FrameLines /\ Untold = 0
          BY <2>1, <3>1, <3>2 DEF Pushed, PushedSide, Untold
        <5> QED  BY <3>3, <5>1
      <4>3. Pushed' + Untold' = b
        <5>1. Pushed' = b + 0 /\ Untold' = 0
          BY <2>1, <3>5 DEF Pushed, PushedSide, Untold
        <5> QED  BY <3>3, <5>1
      <4>4. Same(Reached + Due, x)
        BY <1>7, <2>3, <4>2 DEF TriggersReach
      <4>5. Same(Reached + Due, b)
        BY <3>3, <4>1, <4>4, SameOn
      <4> QED  BY <2>1, <2>3, <4>1, <4>3, <4>5 DEF TriggersReach
    <3> QED  BY <1>2, <3>6, <3>7, <3>8, <3>9 DEF ReadInv
  <2> QED  BY <1>8, <2>2, <2>3
<1>12. CASE Trigger
  <2>1. /\ pc = "trigger" /\ pc' = "waiting" /\ triggers' = triggers + 1
        /\ current' = fifo[producer].tail /\ UNCHANGED handlerVars
    BY <1>12 DEF Trigger, At
  <2>2. CASE status = "over_flow"
    BY <1>4, <1>5, <2>1, <2>2 DEF handlerVars
  <2>3. CASE status = "ok"
    <3>1. NoOverflow' /\ OffsetsFollow' /\ CurrentIsTail'
      BY <1>7, <2>1, <2>3 DEF NoOverflow, OffsetsFollow, NextBase, CurrentIsTail, Tail, handlerVars
    <3>2. HeadFollows'
      <4>1. HeadAt' = HeadAt /\ ReadFrom' = ReadFrom
        BY <1>1, <2>1 DEF HeadAt, ReadFrom, Unpopped, handlerVars
      <4> QED  BY <1>1, <1>7, <2>1, <2>3, <4>1 DEF HeadFollows
    <3>3. TriggersReach'
      <4>1. Reached' + Due' = Reached + Due
        <5>1. EntryLines * triggers' = EntryLines * triggers + EntryLines
          BY <2>1, ReadTyped, Multiples
        <5>2. Reached' = Reached + EntryLines
          BY <1>1, <5>1, ReadTyped, GeometryFacts DEF Reached
        <5>3. Due = EntryLines /\ Due' = 0
          BY <2>1 DEF Due
        <5> QED  BY <5>2, <5>3, ReadCounts, GeometryFacts
      <4>2. Pushed' + Untold' = Pushed + Untold
        BY <2>1 DEF Pushed, PushedSide, Untold, handlerVars
      <4> QED  BY <1>7, <2>1, <2>3, <4>1, <4>2 DEF TriggersReach, handlerVars
    <3> QED  BY <1>2, <3>1, <3>2, <3>3 DEF ReadInv
  <2> QED  BY <1>8, <2>2, <2>3
<1> QED  BY <1>9, <1>10, <1>11, <1>12 DEF Push

\* A recovery triggers an entry before it says so, and ends with both at a new frame.
LEMMA RecoverRead ==
  ASSUME FrameLines % EntryLines = 0, CountInv, CountInv', ReadInv, Recover
  PROVE  ReadInv'
<1>1. UNCHANGED <<customer, producer, fifo, hwLine, hwBase, doneInt, late, early>>
  BY DEF Recover, NoEntry, StartRecovery, SetRecovering, FinishRecovery, handlerVars, hwVars, histVars
<1>2. hwLine' \in Wholes
  BY <1>1 DEF ReadInv
<1>3. CASE early
  BY <1>1, <1>2, <1>3 DEF ReadInv
<1>. SUFFICES ASSUME ~early PROVE ReadInv'
  BY <1>3
<1>4. NoOverflow /\ OffsetsFollow /\ TriggersReach /\ CurrentIsTail /\ HeadFollows
  BY DEF ReadInv
<1>5. ASSUME UNCHANGED <<status, current, triggers>>, pc \in Plain, pc' \in Plain
      PROVE  ReadInv'
  BY <1>1, <1>5, ReadKept DEF handlerVars
<1>6. CASE NoEntry
  BY <1>5, <1>6 DEF NoEntry, At, Plain, BetweenPushes, handlerVars, hwVars
<1>7. CASE StartRecovery
  <2>1. status # "recovery_done" /\ pc = "recover" /\ current' = current
    BY <1>7 DEF StartRecovery, At, CountInv, AlignedInv, RecoveryOrder
  <2>2. CASE pc' = "recovered"
    BY <1>5, <1>7, <2>1, <2>2 DEF StartRecovery, At, Plain, BetweenPushes
  <2>3. CASE pc' = "recovering"
    <3>1. status = "ok" /\ status' = "ok" /\ triggers' = triggers + 1
      BY <1>7, <2>3 DEF StartRecovery, At, CountInv, OnlyOverflowFaults
    <3>2. NoOverflow' /\ OffsetsFollow' /\ CurrentIsTail' /\ HeadFollows'
      BY <1>1, <1>4, <2>1, <2>3, <3>1 DEF NoOverflow, OffsetsFollow, NextBase, CurrentIsTail, Tail, HeadFollows
    <3>3. TriggersReach'
      <4>1. Reached' + Due' = Reached + EntryLines
        <5>1. EntryLines * triggers' = EntryLines * triggers + EntryLines
          BY <3>1, ReadTyped, Multiples
        <5>2. Reached' = Reached + EntryLines /\ Due' = 0
          BY <1>1, <2>3, <5>1, ReadTyped, GeometryFacts DEF Reached, Due
        <5> QED  BY <5>2, ReadCounts, GeometryFacts
      <4>2. Pushed' + Untold' = Pushed + EntryLines
        BY <1>1, <2>1, <2>3 DEF Pushed, PushedSide, Untold
      <4>3. Same(Reached, Pushed)
        <5>1. Reached + Due = Reached /\ Pushed + Untold = Pushed
          BY <2>1, ReadCounts DEF Due, Untold
        <5> QED  BY <1>4, <3>1, <5>1 DEF TriggersReach
      <4>4. Same(Reached + EntryLines, Pushed + EntryLines)
        BY <4>3, ReadCounts, GeometryFacts, SameAdd
      <4> QED  BY <3>1, <4>1, <4>2, <4>4 DEF TriggersReach
    <3> QED  BY <1>2, <3>2, <3>3 DEF ReadInv
  <2> QED  BY <1>7, <2>2, <2>3 DEF StartRecovery, At
<1>8. CASE SetRecovering
  <2>1. /\ pc = "recovering" /\ pc' = "recovered" /\ triggers' = triggers
        /\ status' = "recovering" /\ current' = current + EntryLines /\ status = "ok"
    BY <1>4, <1>8 DEF SetRecovering, At, hwVars, NoOverflow
  <2>2. current = Tail /\ Tail \in Wholes /\ Tail < FrameLines
    BY <1>4, <2>1 DEF CurrentIsTail, CountInv, AlignedInv, TailInFrame
  <2>3. TriggersReach'
    <3>1. current' \in Wholes
      BY <2>1, <2>2, WholesGrow
    <3>2. Reached' = Reached + Due /\ fifo'[producer'].offset + current' = Pushed + Untold
      <4>1. Due = 0 /\ Untold = EntryLines /\ Reached' = Reached
        BY <1>1, <2>1 DEF Due, Untold, Reached
      <4>2. Pushed = fifo[producer].offset + current
        BY <2>1, <2>2 DEF Pushed, PushedSide, Tail
      <4> QED  BY <1>1, <2>1, <4>1, <4>2, ReadTyped, ReadCounts, GeometryFacts
    <3>3. Same(Reached', fifo'[producer'].offset + current')
      BY <1>4, <2>1, <3>2 DEF TriggersReach
    <3>4. current' <= FrameLines
      BY <2>1, <2>2, FrameIsWhole, WholesApart
    <3> QED  BY <2>1, <3>1, <3>3, <3>4 DEF TriggersReach
  <2>4. NoOverflow' /\ OffsetsFollow' /\ CurrentIsTail' /\ HeadFollows'
    BY <1>1, <1>4, <2>1 DEF NoOverflow, OffsetsFollow, CurrentIsTail, HeadFollows
  <2> QED  BY <1>2, <2>3, <2>4 DEF ReadInv
<1>9. CASE FinishRecovery
  <2>1. pc = "recovered" /\ pc' = "waiting" /\ UNCHANGED <<triggers, current>>
    BY <1>9 DEF FinishRecovery, At, hwVars
  <2>2. CASE status' = status
    BY <1>5, <2>1, <2>2 DEF Plain, BetweenPushes
  <2>3. CASE status = "recovery_done" /\ status' = "ok"
    <3>1. triggers = 0 /\ ~doneInt /\ producer = customer /\ fifo[producer].head = 0 /\ Tail = 0
      BY <2>3 DEF CountInv, NothingOwed, AlignedInv, Aligned
    <3>2. NoOverflow' /\ OffsetsFollow' /\ CurrentIsTail'
      BY <1>1, <1>4, <2>1, <2>3, <3>1 DEF NoOverflow, OffsetsFollow, CurrentIsTail, Tail
    <3>3. /\ Due = 0 /\ Due' = 0 /\ Untold = 0 /\ Untold' = 0 /\ Reached' = Reached /\ Pushed' = Pushed
      BY <1>1, <2>1 DEF Due, Untold, Reached, Pushed, PushedSide
    <3>4. Same(Reached + Due, Pushed + Untold)
      BY <1>4, <2>3 DEF TriggersReach
    <3>5. TriggersReach'
      BY <2>3, <3>3, <3>4 DEF TriggersReach
    <3>6. HeadFollows'
      <4>1. Reached + Due = Reached /\ Pushed + Untold = Pushed
        BY <3>3, ReadCounts
      <4>2. HeadAt' = Pushed
        BY <1>1, <2>1, <3>1, ReadTyped DEF HeadAt, Pushed, PushedSide, Tail
      <4>3. ReadFrom' = Reached
        <5>1. EntryLines * triggers = 0 /\ Unpopped' = 0
          BY <1>1, <3>1, Multiples DEF Unpopped
        <5> QED  BY <1>1, <5>1, ReadTyped DEF ReadFrom, Reached
      <4>4. Same(Pushed, Reached)
        BY <3>4, <4>1, ReadCounts, SameBack
      <4> QED  BY <4>2, <4>3, <4>4 DEF HeadFollows
    <3> QED  BY <1>2, <3>2, <3>5, <3>6 DEF ReadInv
  <2> QED  BY <1>9, <2>2, <2>3 DEF FinishRecovery
<1> QED  BY <1>6, <1>7, <1>8, <1>9 DEF Recover

\* The steps around the push leave what is read to the post-ISP.
LEMMA AlgorithmRead ==
  ASSUME FrameLines % EntryLines = 0, BufferLines % EntryLines = 0, CountInv, ReadInv,
         GetEntries \/ AlgorithmFails \/ AlgorithmDone
  PROVE  ReadInv'
<1>1. UNCHANGED handlerVars
  BY AlgorithmKeepsHandler
<1>2. UNCHANGED <<current, triggers, hwLine, hwBase, doneInt, late, early>>
  BY DEF GetEntries, AlgorithmFails, AlgorithmDone, hwVars, histVars
<1>3. pc \in Plain /\ pc' \in Plain
  BY DEF GetEntries, AlgorithmFails, AlgorithmDone, At, Plain, BetweenPushes
<1> QED  BY <1>1, <1>2, <1>3, ReadKept

\* For buffers of whole entries that a frame and an entry do not fit in, the oldest entry
\* of the FIFO is the one that the post-ISP reads next: in the same slot of the buffer, in
\* every frame, wherever the interrupt comes in the task's push, and after every recovery
\* in which no frame's end was taken for another's.
THEOREM HeadStaysRead ==
  ASSUME FrameLines % EntryLines = 0, BufferLines % EntryLines = 0,
         BufferLines < FrameLines + EntryLines
  PROVE  Spec => []HeadIsRead
<1>1. ReadInv /\ CountInv /\ CountInv' /\ [Next]_vars => ReadInv'
  <2>. SUFFICES ASSUME ReadInv, CountInv, CountInv', [Next]_vars PROVE ReadInv'
    OBVIOUS
  <2>1. CASE UNCHANGED vars
    BY <2>1, ReadKept DEF vars, taskVars, hwVars, histVars
  <2>2. CASE FeOverrun \/ FeRestart
    BY <2>2, ReadKept DEF FeOverrun, FeRestart, taskVars, hwVars, histVars
  <2>3. CASE HwEntry \/ HwFrameEnd
    BY <2>3, HwRead
  <2>4. CASE Interrupt
    BY <2>4, InterruptRead
  <2>5. CASE Task
    BY <2>5, AlgorithmRead, PushRead, RecoverRead DEF Task
  <2> QED  BY <2>1, <2>2, <2>3, <2>4, <2>5 DEF Next
<1>2. ReadInv /\ CountInv => HeadIsRead
  <2>. SUFFICES ASSUME ReadInv, CountInv, status = "ok", pc # "recovering", ~late, ~early
                PROVE  HeadSlot(fifo[customer]) = ReadFrom % BufferLines
    BY DEF HeadIsRead, ReadFrom, Unpopped
  <2>1. Same(HeadAt, ReadFrom)
    BY DEF ReadInv, HeadFollows
  <2>2. HeadAt % BufferLines = ReadFrom % BufferLines
    BY <2>1, ReadCounts, SameSlot
  <2> QED  BY <2>2 DEF HeadAt, HeadSlot
<1> QED  BY <1>1, <1>2, ReadInit, CountInductive, PTL DEF Spec

=============================================================================
