-------------------------- MODULE VipreToHostProofs -------------------------
(***************************************************************************)
(* Proofs about the VIPRE front end, with one to four frame buffers: its   *)
(* hardware, its two interrupts and the task that pops its frames share    *)
(* the marks of the buffers without a lock, and stay in step nevertheless, *)
(* until an overflow interrupt outruns the task; and about the buffers of  *)
(* the host that its results go to.                                        *)
(***************************************************************************)
EXTENDS VipreToHost, FiniteSetTheorems, TLAPS

\* The frame buffers, the head of the queue, and where it ends, counted on past the
\* last buffer when the two sides differ.
N == FrameBuffers
First == fifo[customer].head
Last == IF producer = customer THEN fifo[producer].tail ELSE N + fifo[producer].tail

\* Buffer s holds a frame from the a-th up to the b-th.
Between(s, a, b) == (a <= s /\ s < b) \/ (a <= s + N /\ s + N < b)
\* The frame that the hardware is writing, if there is one.
Filling == IF hwFilling THEN 1 ELSE 0

\* The steps of a pop in which it holds a frame, and those in which its mark is cleared.
Taken == pc \in {"pop_check", "pop_load", "pop_head"}
Held == pc = "pop_regs" \/ Taken

\* The entry in hand is the head of the queue; or it is no longer queued.
AtHead == entry.side = customer /\ Elements(fifo[customer]) > 0 /\ entry.slot = First
Gone(lag) == ~Between(entry.slot, First, Last + lag + Filling)

\* The head that pop_fifo has loaded is still the head; or the overflow interrupt, the
\* only one during the pop, has moved it on by the one that pop_fifo adds.
Loaded == entry.side = customer /\ Elements(fifo[customer]) > 0 /\ popHead = First
Overtaken == popHead + 1 = fifo[entry.side].head /\ popHead = entry.slot /\ ~overInt

\* A side of the FIFO: one line of an entry for each frame buffer.
FrameFifos == [head : 0 .. N, tail : 0 .. N, offset : {0}, overflow : {FALSE}]

\* The kinds of values, and that the handler never faults.
Typed ==
  /\ customer \in Sides /\ producer \in Sides /\ status = "ok"
  /\ fifo \in [Sides -> FrameFifos]
  /\ hwNext \in FrameSlots /\ hwFilling \in BOOLEAN /\ hwFull \subseteq FrameSlots
  /\ doneInt \in BOOLEAN /\ astray \in BOOLEAN
  /\ entry \in [side : Sides, slot : FrameSlots]

\* No side is popped before it is pushed, and the producer's is never complete. The
\* customer's may be complete only until vipre_pop_new_entry switches sides.
Order ==
  /\ \A s \in Sides : fifo[s].head <= fifo[s].tail
  /\ fifo[producer].tail < N /\ SidesInOrder
  /\ First = N => pc \in {"pop_test", "pop_store"} /\ entry.side = customer

\* lag frames are written and not pushed yet: with those that are queued and the one
\* being written they have room, and the hardware goes on where they end.
Room(lag) ==
  /\ Last + lag + Filling <= First + N
  /\ First = N => Last + lag + Filling < First + N
  /\ hwNext = Last + lag \/ hwNext + N = Last + lag
  /\ doneInt => lag >= 1

\* Whatever is queued or waits to be pushed is marked, except by a pop in progress.
Window(lag) ==
  /\ hwFilling => hwNext \notin hwFull
  /\ \A s \in FrameSlots : Between(s, First, Last + lag) =>
       s \in hwFull \/ (Taken /\ AtHead /\ s = entry.slot)

\* As long as no mark has gone astray, nothing else is marked, and the frame that waits
\* to be pushed is the one that the interrupt tells.
Exact(lag) ==
  ~astray => /\ lag = IF doneInt THEN 1 ELSE 0
             /\ \A s \in hwFull : Between(s, First, Last + lag)
                                  /\ ~(Taken /\ s = entry.slot)

\* Whatever comes between the steps of the task: its entry is the head of the queue, or
\* has been taken from it by the overflow interrupt and its buffer is not marked.
InHand(lag) ==
  /\ InUse /\ ~stolen => AtHead
  /\ Held => AtHead \/ Gone(lag)
  /\ Held /\ overInt => AtHead
  /\ Taken => entry.slot \notin hwFull
  /\ FoundFilled => entry.side = customer /\ Elements(fifo[customer]) > 0
  /\ pc = "pop_head" => Loaded \/ Overtaken
  /\ pc = "pop_store" /\ entry.side = customer => First = N
  /\ pc = "pop_compare" => entry.side # customer
  /\ Popping /\ entry.side # customer =>
       /\ producer = customer /\ fifo[entry.side].head = N /\ fifo[entry.side].tail = N
       /\ fifo[producer].tail + lag + Filling < N

\* The hardware, the queue and the task are in step, with lag frames between the first
\* two, until an overflow interrupt empties the FIFO under a step of the task.
InStep(lag) == Typed /\ Order /\ Room(lag) /\ Window(lag) /\ Exact(lag) /\ InHand(lag)
FramesInv == outrun \/ \E lag \in Nat : InStep(lag)

\* What the assumption says of the number of buffers.
LEMMA FrameBuffersPositive == N \in Nat /\ 1 <= N /\ N <= 4 /\ FrameSlots = 0 .. N - 1
BY VipreAssumption DEF N, FrameSlots

\* A buffer is its own slot.
LEMMA SlotIsItself ==
  ASSUME NEW n \in FrameSlots
  PROVE  n % N = n
BY FrameBuffersPositive

\* One more frame at the end of the window.
LEMMA BetweenNext ==
  ASSUME NEW a \in Nat, NEW b \in Nat, a <= b, b + 1 <= a + N, a <= N,
         NEW s \in FrameSlots, NEW n \in FrameSlots, n = b \/ n + N = b
  PROVE  Between(s, a, b + 1) <=> Between(s, a, b) \/ s = n
BY FrameBuffersPositive DEF Between

\* One frame less at its head.
LEMMA BetweenRest ==
  ASSUME NEW a \in Nat, NEW b \in Nat, a < b, b <= a + N, a < N, NEW s \in FrameSlots
  PROVE  Between(s, a + 1, b) <=> Between(s, a, b) /\ s # a
BY FrameBuffersPositive DEF Between

\* The window when the customer turns to the other side.
LEMMA BetweenTurn ==
  ASSUME NEW b \in Nat, b <= N, NEW s \in FrameSlots
  PROVE  Between(s, N, N + b) <=> Between(s, 0, b)
BY FrameBuffersPositive DEF Between

\* The head is in the window.
LEMMA BetweenFirst ==
  ASSUME NEW a \in Nat, NEW b \in Nat, a < b, a < N
  PROVE  Between(a, a, b)
BY FrameBuffersPositive DEF Between

\* The queue in numbers.
LEMMA Numbers ==
  ASSUME Typed, Order
  PROVE  /\ First \in Nat /\ First <= N /\ Last \in Nat /\ First <= Last
         /\ fifo[producer].tail \in Nat /\ fifo[producer].tail < N
         /\ producer = customer => Last = fifo[producer].tail /\ Elements(fifo[customer]) = Last - First
         /\ producer # customer =>
              /\ Last = N + fifo[producer].tail /\ Elements(fifo[customer]) = N - First
              /\ fifo[producer].head = 0 /\ fifo[customer].tail = N
              /\ producer = Opposite(customer) /\ customer = Opposite(producer)
         /\ First < N => HeadSlot(fifo[customer]) = First /\ First \in FrameSlots
<1>1. /\ fifo[customer] \in FrameFifos /\ fifo[producer] \in FrameFifos
      /\ fifo[customer].head <= fifo[customer].tail
  BY DEF Typed, Order
<1>2. /\ fifo[customer].head \in 0 .. N /\ fifo[customer].tail \in 0 .. N
      /\ fifo[producer].tail \in 0 .. N /\ fifo[customer].offset = 0
  BY <1>1 DEF FrameFifos
<1>3. producer # customer =>
        fifo[producer].head = 0 /\ fifo[customer].tail = N /\ producer = Opposite(customer) /\ customer = Opposite(producer)
  BY DEF Order, SidesInOrder, LastEntryPushed, N, Typed, Sides, Opposite
<1>4. First < N => HeadSlot(fifo[customer]) = First /\ First \in FrameSlots
  <2>1. SUFFICES ASSUME First < N PROVE HeadSlot(fifo[customer]) = First /\ First \in FrameSlots
    OBVIOUS
  <2>2. First \in FrameSlots
    BY <1>2, <2>1, FrameBuffersPositive DEF First
  <2>3. HeadSlot(fifo[customer]) = (First + 0) % N
    BY <1>2 DEF HeadSlot, First, N
  <2>4. First + 0 = First
    BY <2>2, FrameBuffersPositive
  <2> QED  BY <2>2, <2>3, <2>4, SlotIsItself
<1>5. fifo[producer].tail \in Nat /\ fifo[producer].tail < N
  BY <1>2 DEF Order
<1>6. First \in Nat /\ First <= N /\ First <= fifo[customer].tail /\ fifo[customer].tail <= N
  BY <1>1, <1>2, FrameBuffersPositive DEF First
<1>7. Elements(fifo[customer]) = fifo[customer].tail - First
  BY DEF Elements, First
<1>8. CASE producer = customer
  <2>1. Last = fifo[producer].tail
    BY <1>8 DEF Last
  <2> QED  BY <1>4, <1>5, <1>6, <1>7, <1>8, <2>1
<1>9. CASE producer # customer
  <2>1. Last = N + fifo[producer].tail
    BY <1>9 DEF Last
  <2>2. Last \in Nat /\ First <= Last
    BY <1>5, <1>6, <2>1, FrameBuffersPositive
  <2> QED  BY <1>3, <1>4, <1>5, <1>6, <1>7, <1>9, <2>1, <2>2
<1> QED  BY <1>8, <1>9

\* The steps of the task that leave the frames alone.
LEMMA TaskMoves ==
  ASSUME NEW lag \in Nat, InStep(lag),
         UNCHANGED <<vipreVars, hwVars, doneInt, astray>>,
         entry' \in [side : Sides, slot : FrameSlots],
         First = N => pc' \in {"pop_test", "pop_store"} /\ entry'.side = customer,
         \/ Taken /\ Taken' /\ entry' = entry
         \/ ~(Taken /\ AtHead) /\ ~Taken',
         InHand(lag)'
  PROVE  InStep(lag)'
<1>1. First' = First /\ Last' = Last /\ Filling' = Filling
  BY DEF First, Last, Filling, vipreVars, hwVars
<1>2. Taken' => entry' = entry /\ Taken /\ (AtHead' <=> AtHead)
  BY <1>1 DEF AtHead, Elements, vipreVars
<1>3. Typed' /\ Order'
  BY <1>1 DEF InStep, Typed, Order, SidesInOrder, LastEntryPushed, vipreVars, hwVars
<1>4. Room(lag)'
  BY <1>1 DEF InStep, Room, vipreVars, hwVars
<1>5. Window(lag)'
  BY <1>1, <1>2 DEF InStep, Window, Between, vipreVars, hwVars
<1>6. Exact(lag)'
  BY <1>1, <1>2 DEF InStep, Exact, Between, vipreVars, hwVars
<1> QED  BY <1>3, <1>4, <1>5, <1>6 DEF InStep

\* Those that are none of a pop.
LEMMA QuietStep ==
  ASSUME NEW lag \in Nat, InStep(lag), ~Popping, ~Popping',
         UNCHANGED <<vipreVars, hwVars, doneInt, astray>>,
         entry' \in [side : Sides, slot : FrameSlots],
         InUse' /\ ~stolen' => AtHead',
         FoundFilled' => entry'.side = customer /\ Elements(fifo[customer]) > 0
  PROVE  InStep(lag)'
<1>1. First # N
  BY DEF InStep, Order, Popping
<1>2. ~Taken /\ ~Taken' /\ ~Held'
  BY DEF Taken, Held, Popping
<1>3. InHand(lag)'
  BY <1>2 DEF InHand, Popping, vipreVars
<1> QED  BY <1>1, <1>2, <1>3, TaskMoves

\* The same of a state in step.
LEMMA NumbersTyped ==
  ASSUME NEW lag \in Nat, InStep(lag)
  PROVE  /\ N \in Nat /\ 1 <= N /\ FrameSlots = 0 .. N - 1
         /\ First \in Nat /\ First <= N /\ Last \in Nat /\ First <= Last
         /\ Last + lag <= First + N /\ Last + lag \in Nat
         /\ hwNext \in FrameSlots /\ (hwNext = Last + lag \/ hwNext + N = Last + lag)
         /\ ~Popping => First < N
<1>1. Typed /\ Order /\ Room(lag)
  BY DEF InStep
<1>2. First \in Nat /\ First <= N /\ Last \in Nat /\ First <= Last
  BY <1>1, Numbers
<1>3. Filling \in Nat
  BY DEF Filling
<1>4. Last + lag <= First + N /\ Last + lag \in Nat
  BY <1>1, <1>2, <1>3, FrameBuffersPositive DEF Room
<1>5. ~Popping => First < N
  <2>1. ~Popping => First # N
    BY <1>1 DEF Order, Popping
  <2> QED  BY <1>2, <2>1, FrameBuffersPositive
<1> QED  BY <1>1, <1>2, <1>4, <1>5, FrameBuffersPositive DEF Room, Typed

\* The hardware writes to a free buffer: there is room for one more.
LEMMA HwBeginInStep ==
  ASSUME NEW lag \in Nat, InStep(lag), HwBegin
  PROVE  InStep(lag)'
<1>. USE DEF InStep
<1>1. /\ First' = First /\ Last' = Last /\ Filling = 0 /\ Filling' = 1
      /\ AtHead' <=> AtHead
      /\ UNCHANGED <<customer, producer, status, fifo, hwNext, hwFull, doneInt, overInt, astray,
                     stolen, pc, entry, popHead>>
      /\ ~Popping /\ hwNext \notin hwFull /\ hwFilling' = TRUE
  BY DEF HwBegin, First, Last, Filling, AtHead, Elements, vipreVars, localVars, histVars, intVars
<1>2. First < N
  BY <1>1, NumbersTyped
<1>3. Last + lag + 1 <= First + N
  <2>1. SUFFICES ASSUME ~(Last + lag + 1 <= First + N) PROVE FALSE
    OBVIOUS
  <2>2. Last + lag = First + N
    BY <2>1, NumbersTyped
  <2>3. hwNext = First /\ First < Last + lag
    BY <1>2, <2>2, NumbersTyped
  <2>4. Between(hwNext, First, Last + lag)
    BY <1>2, <2>3, NumbersTyped, BetweenFirst
  <2>5. ~Taken
    BY <1>1 DEF Taken, Popping
  <2> QED  BY <1>1, <2>4, <2>5, NumbersTyped DEF Window
<1>4. Typed' /\ Order'
  BY <1>1 DEF Typed, Order, SidesInOrder, LastEntryPushed, First
<1>5. Room(lag)'
  <2>1. First # N
    BY <1>2, NumbersTyped
  <2> QED  BY <1>1, <1>3, <2>1 DEF Room
<1>6. Window(lag)'
  BY <1>1 DEF Window, Between, Taken
<1>7. Exact(lag)'
  BY <1>1 DEF Exact, Between, Taken
<1>8. InHand(lag)'
  BY <1>1 DEF InHand, Popping, InUse, Held, Taken, FoundFilled
<1> QED  BY <1>4, <1>5, <1>6, <1>7, <1>8

\* A frame that is complete waits to be pushed.
LEMMA HwDoneInStep ==
  ASSUME NEW lag \in Nat, InStep(lag), HwDone
  PROVE  InStep(lag + 1)'
<1>. USE DEF InStep
<1>1. /\ First' = First /\ Last' = Last /\ Filling = 1 /\ Filling' = 0
      /\ AtHead' <=> AtHead
      /\ UNCHANGED <<customer, producer, status, fifo, overInt, stolen, pc, entry, popHead>>
      /\ hwFilling /\ hwFilling' = FALSE /\ doneInt' = TRUE /\ astray' = (astray \/ doneInt)
      /\ hwFull' = hwFull \union {hwNext} /\ hwNext' = (hwNext + 1) % N
  BY DEF HwDone, First, Last, Filling, AtHead, Elements, vipreVars, localVars, N
<1>2. hwNext \in FrameSlots /\ hwNext \notin hwFull
  BY <1>1 DEF Typed, Window
<1>3. hwNext' \in FrameSlots /\ hwNext' = IF hwNext + 1 = N THEN 0 ELSE hwNext + 1
  BY <1>1, <1>2, FrameBuffersPositive
<1>4. Last + lag + 1 <= First + N /\ (First = N => Last + lag + 1 < First + N)
  BY <1>1 DEF Room
<1>5. Typed'
  BY <1>1, <1>2, <1>3 DEF Typed
<1>6. Order'
  BY <1>1 DEF Order, SidesInOrder, LastEntryPushed, First
<1>7. /\ Last + (lag + 1) + 0 <= First + N
      /\ First = N => Last + (lag + 1) + 0 < First + N
      /\ hwNext' = Last + (lag + 1) \/ hwNext' + N = Last + (lag + 1)
      /\ lag + 1 >= 1
  <2>1. /\ First \in Nat /\ Last \in Nat /\ N \in Nat /\ FrameSlots = 0 .. N - 1
        /\ hwNext \in FrameSlots /\ (hwNext = Last + lag \/ hwNext + N = Last + lag)
    BY NumbersTyped
  <2>2. ~(hwNext + N = Last + lag /\ hwNext + 1 = N)
    BY <1>4, <2>1, NumbersTyped
  <2>3. hwNext' = Last + (lag + 1) \/ hwNext' + N = Last + (lag + 1)
    BY <1>3, <2>1, <2>2
  <2> QED  BY <1>4, <2>1, <2>3
<1>8. Room(lag + 1)'
  BY <1>1, <1>7 DEF Room
<1>9. \A s \in FrameSlots : Between(s, First, Last + (lag + 1)) <=>
        Between(s, First, Last + lag) \/ s = hwNext
  <2>1. Last + (lag + 1) = (Last + lag) + 1
    BY NumbersTyped
  <2> QED  BY <1>4, <2>1, NumbersTyped, BetweenNext
<1>10. Window(lag + 1)'
  <2>1. \A s \in FrameSlots : Between(s, First, Last + (lag + 1)) =>
          s \in hwFull' \/ (Taken /\ AtHead /\ s = entry.slot)
    BY <1>1, <1>9 DEF Window
  <2> QED  BY <1>1, <2>1 DEF Window, Between, Taken
<1>11. Taken => entry.slot # hwNext
  <2>1. SUFFICES ASSUME Taken, entry.slot = hwNext PROVE FALSE
    OBVIOUS
  <2>2. CASE AtHead
    <3>1. hwNext = First
      BY <2>1, <2>2 DEF AtHead
    <3>2. First < Last
      <4>1. Elements(fifo[customer]) > 0
        BY <2>2 DEF AtHead
      <4>2. CASE producer = customer
        <5>1. First \in Nat /\ Last \in Nat /\ Elements(fifo[customer]) = Last - First
          BY <4>2, Numbers
        <5> QED  BY <4>1, <5>1
      <4>3. CASE producer # customer
        <5>1. /\ First \in Nat /\ fifo[producer].tail \in Nat
              /\ Last = N + fifo[producer].tail /\ Elements(fifo[customer]) = N - First
          BY <4>3, Numbers
        <5>2. N \in Nat
          BY FrameBuffersPositive
        <5> QED  BY <4>1, <5>1, <5>2
      <4> QED  BY <4>2, <4>3
    <3> QED  BY <1>4, <3>1, <3>2, NumbersTyped
  <2>3. CASE Gone(lag)
    <3>1. Between(hwNext, First, Last + lag + 1)
      <4>1. Last + lag + 1 = Last + (lag + 1)
        BY NumbersTyped
      <4> QED  BY <1>2, <1>9, <4>1
    <3> QED  BY <1>1, <2>1, <2>3, <3>1 DEF Gone
  <2> QED  BY <2>1, <2>2, <2>3 DEF InHand, Held
<1>12. Exact(lag + 1)'
  BY <1>1, <1>2, <1>9, <1>11 DEF Exact, Between, Typed, Taken
<1>13. InHand(lag + 1)'
  <2>0. Last + (lag + 1) + 0 = Last + lag + 1
    BY NumbersTyped
  <2>1. Gone(lag) => Gone(lag + 1)'
    BY <1>1, <2>0 DEF Gone, Between
  <2>2. Taken => entry.slot \notin hwFull'
    BY <1>1, <1>11 DEF InHand
  <2>3. Popping /\ entry.side # customer =>
          /\ producer = customer /\ fifo[entry.side].head = N /\ fifo[entry.side].tail = N
          /\ fifo[producer].tail + (lag + 1) + 0 < N
    BY <1>1, Numbers DEF InHand
  <2> QED  BY <1>1, <2>1, <2>2, <2>3
           DEF InHand, Popping, InUse, Held, Taken, FoundFilled, Loaded, Overtaken
<1> QED  BY <1>5, <1>6, <1>8, <1>10, <1>12, <1>13

\* The numbers a FIFO of frames is made of.
LEMMA FrameFifoFields ==
  ASSUME NEW f \in FrameFifos
  PROVE  /\ f.head \in 0 .. N /\ f.tail \in 0 .. N /\ f.offset = 0 /\ f.overflow = FALSE
         /\ f.head \in Nat /\ f.tail \in Nat /\ f.head <= N /\ f.tail <= N
<1>1. f.head \in 0 .. N /\ f.tail \in 0 .. N /\ f.offset = 0 /\ f.overflow = FALSE
  BY DEF FrameFifos
<1> QED  BY <1>1, FrameBuffersPositive

\* A side whose head or tail has moved.
LEMMA FrameFifoMoved ==
  ASSUME NEW f \in FrameFifos, NEW n \in 0 .. N
  PROVE  /\ [f EXCEPT !.tail = n] \in FrameFifos
         /\ [f EXCEPT !.tail = n].tail = n /\ [f EXCEPT !.tail = n].head = f.head
         /\ [f EXCEPT !.head = n] \in FrameFifos
         /\ [f EXCEPT !.head = n].head = n /\ [f EXCEPT !.head = n].tail = f.tail
BY DEF FrameFifos

\* A side that has been reset.
LEMMA FreshFifo ==
  ResetFifo(0) \in FrameFifos /\ ResetFifo(0).head = 0 /\ ResetFifo(0).tail = 0
<1>1. 0 \in 0 .. N
  BY FrameBuffersPositive
<1> QED  BY <1>1 DEF ResetFifo, FrameFifos

\* vipre_push_new_entry never finds the FIFO full.
LEMMA PushInOrder ==
  ASSUME NEW lag \in Nat, InStep(lag), lag >= 1, PushNewEntry, UNCHANGED <<customer, pc, entry>>
  PROVE  /\ producer' \in Sides /\ fifo' \in [Sides -> FrameFifos] /\ UNCHANGED status
         /\ Order' /\ First' = First /\ Last' = Last + 1
         /\ AtHead => AtHead'
         /\ Elements(fifo[customer]) > 0 => Elements(fifo[customer])' > 0
         /\ Popping /\ entry.side # customer =>
              /\ producer' = customer /\ fifo'[entry.side] = fifo[entry.side]
              /\ fifo'[producer'].tail = fifo[producer].tail + 1
<1>. DEFINE p == producer
            q == Opposite(producer)
            c == customer
<1>. USE DEF InStep
<1>1. /\ p \in Sides /\ q \in Sides /\ p # q /\ c \in Sides /\ Sides = {p, q}
      /\ fifo \in [Sides -> FrameFifos] /\ fifo[p] \in FrameFifos /\ fifo[c] \in FrameFifos
  BY DEF Typed, Sides, Opposite
<1>2. /\ \A s \in Sides : /\ fifo[s].head \in Nat /\ fifo[s].tail \in Nat
                          /\ fifo[s].head <= fifo[s].tail /\ fifo[s].tail <= N
      /\ fifo[p].tail < N /\ fifo[p].overflow = FALSE
      /\ N \in Nat /\ 1 <= N
  <2>1. \A s \in Sides : fifo[s] \in FrameFifos
    BY <1>1
  <2>2. \A s \in Sides : fifo[s].head <= fifo[s].tail
    BY DEF Order
  <2> QED  BY <1>1, <2>1, <2>2, FrameFifoFields, FrameBuffersPositive DEF Order
<1>3. EnoughSpaceToPush(fifo[p], 1)
  BY <1>1, <1>2 DEF EnoughSpaceToPush, N
<1>. DEFINE r == [fifo[p] EXCEPT !.tail = @ + 1]
<1>4. r \in FrameFifos /\ r.head = fifo[p].head /\ r.tail = fifo[p].tail + 1
  <2>1. fifo[p].tail + 1 \in 0 .. N
    BY <1>1, <1>2
  <2> QED  BY <1>1, <2>1, FrameFifoMoved
<1>. HIDE DEF r
<1>5. /\ [fifo EXCEPT ![p].tail = @ + 1] = [fifo EXCEPT ![p] = r]
      /\ LastEntryPushed([fifo EXCEPT ![p].tail = @ + 1][p]) <=> fifo[p].tail + 1 = N
  BY <1>1, <1>4 DEF LastEntryPushed, N, r
<1>6. /\ UNCHANGED status
      /\ \/ /\ fifo[p].tail + 1 = N /\ producer' = q
            /\ fifo' = [fifo EXCEPT ![p] = r, ![q] = ResetFifo(0)]
         \/ /\ fifo[p].tail + 1 # N /\ producer' = p
            /\ fifo' = [fifo EXCEPT ![p] = r]
  BY <1>2, <1>3, <1>5 DEF PushNewEntry
<1>7. fifo[p].tail + 1 = N => c = p
  <2>1. SUFFICES ASSUME fifo[p].tail + 1 = N, c # p PROVE FALSE
    OBVIOUS
  <2>2. Last = N + fifo[p].tail
    BY <2>1 DEF Last
  <2>3. Last + lag + Filling <= First + N /\ (First = N => Last + lag + Filling < First + N)
    BY DEF Room
  <2>4. Filling \in Nat /\ First \in Nat /\ First <= N
    BY Numbers DEF Filling
  <2> QED  BY <1>1, <1>2, <2>1, <2>2, <2>3, <2>4
<1>8. CASE fifo[p].tail + 1 = N
  <2>1. c = p /\ UNCHANGED status /\ producer' = q /\ q # c
    BY <1>1, <1>6, <1>7, <1>8
  <2>2. fifo'[p] = r /\ fifo'[q] = ResetFifo(0) /\ ResetFifo(0) \in FrameFifos
        /\ ResetFifo(0).head = 0 /\ ResetFifo(0).tail = 0
    BY <1>1, <1>6, <1>8, FreshFifo
  <2>3. fifo' \in [Sides -> FrameFifos]
    BY <1>1, <1>4, <1>6, <1>8, <2>2
  <2>4. First' = First /\ Last' = Last + 1
    BY <1>1, <1>2, <1>4, <1>8, <2>1, <2>2 DEF First, Last
  <2>5. SidesInOrder'
    BY <1>4, <1>8, <2>1, <2>2 DEF SidesInOrder, LastEntryPushed, N
  <2>6. Order'
    BY <1>1, <1>2, <1>4, <2>1, <2>2, <2>4, <2>5 DEF Order
  <2>7. AtHead => AtHead'
    BY <1>1, <1>2, <1>4, <2>1, <2>2, <2>4 DEF AtHead, Elements
  <2>9. Elements(fifo[customer]) > 0 => Elements(fifo[customer])' > 0
    BY <1>1, <1>2, <1>4, <2>1, <2>2, <2>4 DEF Elements
  <2>8. ~(Popping /\ entry.side # customer)
    <3>1. SUFFICES ASSUME Popping, entry.side # customer PROVE FALSE
      OBVIOUS
    <3>2. fifo[p].tail + lag + Filling < N /\ Filling \in Nat
      BY <3>1 DEF InHand, Filling
    <3> QED  BY <1>1, <1>2, <1>8, <3>2
  <2> QED  BY <1>1, <2>1, <2>3, <2>4, <2>6, <2>7, <2>8, <2>9
<1>9. CASE fifo[p].tail + 1 # N
  <2>1. UNCHANGED status /\ producer' = p
    BY <1>6, <1>9
  <2>2. fifo'[p] = r /\ fifo'[q] = fifo[q] /\ fifo' \in [Sides -> FrameFifos]
    BY <1>1, <1>4, <1>6, <1>9
  <2>3. First' = First /\ Last' = Last + 1
    BY <1>1, <1>2, <1>4, <2>1, <2>2 DEF First, Last
  <2>4. SidesInOrder'
    BY <1>1, <1>4, <2>1, <2>2 DEF Order, SidesInOrder, LastEntryPushed
  <2>5. Order'
    BY <1>1, <1>2, <1>4, <1>9, <2>1, <2>2, <2>3, <2>4 DEF Order
  <2>6. AtHead => AtHead'
    BY <1>1, <1>2, <1>4, <2>1, <2>2, <2>3 DEF AtHead, Elements
  <2>7. Popping /\ entry.side # customer =>
          /\ producer' = customer /\ fifo'[entry.side] = fifo[entry.side]
          /\ fifo'[producer'].tail = fifo[producer].tail + 1
    BY <1>1, <1>4, <2>1, <2>2 DEF InHand, Typed
  <2>8. Elements(fifo[customer]) > 0 => Elements(fifo[customer])' > 0
    BY <1>1, <1>2, <1>4, <2>1, <2>2, <2>3 DEF Elements
  <2> QED  BY <1>1, <2>1, <2>2, <2>3, <2>5, <2>6, <2>7, <2>8
<1> QED  BY <1>8, <1>9

\* The interrupt pushes the frame, which waits no more.
LEMMA ServeDoneInStep ==
  ASSUME NEW lag \in Nat, InStep(lag), ServeDone
  PROVE  lag - 1 \in Nat /\ InStep(lag - 1)'
<1>. USE DEF InStep
<1>0. lag >= 1 /\ lag - 1 \in Nat
  BY DEF ServeDone, Room
<1>1. /\ PushNewEntry /\ doneInt' = FALSE
      /\ UNCHANGED <<customer, hwNext, hwFilling, hwFull, overInt, astray, stolen, pc, entry, popHead>>
      /\ Filling' = Filling /\ doneInt = TRUE
  BY DEF ServeDone, hwVars, localVars, histVars, Filling, Typed
<1>2. /\ producer' \in Sides /\ fifo' \in [Sides -> FrameFifos] /\ UNCHANGED status
      /\ Order' /\ First' = First /\ Last' = Last + 1
      /\ AtHead => AtHead'
      /\ Elements(fifo[customer]) > 0 => Elements(fifo[customer])' > 0
      /\ Popping /\ entry.side # customer =>
           /\ producer' = customer /\ fifo'[entry.side] = fifo[entry.side]
           /\ fifo'[producer'].tail = fifo[producer].tail + 1
  BY <1>0, <1>1, PushInOrder
<1>3. Last \in Nat /\ Filling \in Nat /\ Last' + (lag - 1) = Last + lag
      /\ Last' + (lag - 1) + Filling = Last + lag + Filling
  <2>1. Last \in Nat /\ Filling \in Nat
    BY NumbersTyped DEF Filling
  <2>2. Last' = Last + 1
    BY <1>2
  <2> QED  BY <1>0, <2>1, <2>2
<1>4. Typed'
  BY <1>1, <1>2 DEF Typed
<1>5. Room(lag - 1)'
  BY <1>0, <1>1, <1>2, <1>3 DEF Room
<1>6. Window(lag - 1)'
  BY <1>1, <1>2, <1>3 DEF Window, Between, Taken
<1>7. Exact(lag - 1)'
  BY <1>1, <1>2, <1>3 DEF Exact, Between, Taken
<1>8. InHand(lag - 1)'
  <2>1. Gone(lag) => Gone(lag - 1)'
    BY <1>1, <1>2, <1>3 DEF Gone, Between
  <2>2. Popping /\ entry.side # customer =>
           /\ producer' = customer /\ fifo'[entry.side].head = N /\ fifo'[entry.side].tail = N
           /\ fifo'[producer'].tail + (lag - 1) + Filling < N
    <3>1. fifo[producer].tail \in Nat
      BY Numbers
    <3> QED  BY <1>0, <1>2, <1>3, <3>1 DEF InHand
  <2>3. (Taken' <=> Taken) /\ (Held' <=> Held) /\ (Popping' <=> Popping) /\ (InUse' <=> InUse)
        /\ (FoundFilled' <=> FoundFilled) /\ entry' = entry
    BY <1>1 DEF Taken, Held, Popping, InUse, FoundFilled
  <2>4. pc' = "pop_head" => Loaded' \/ Overtaken'
    <3>1. SUFFICES ASSUME pc = "pop_head" PROVE Loaded' \/ Overtaken'
      BY <1>1
    <3>2. CASE Loaded
      BY <1>1, <1>2, <3>2 DEF Loaded
    <3>3. CASE Overtaken
      <4>1. fifo'[entry.side].head = fifo[entry.side].head
        <5>1. CASE entry.side = customer
          BY <1>1, <1>2, <5>1 DEF First
        <5>2. CASE entry.side # customer
          BY <1>2, <3>1, <5>2 DEF Popping
        <5> QED  BY <5>1, <5>2
      <4> QED  BY <1>1, <3>3, <4>1 DEF Overtaken
    <3> QED  BY <3>1, <3>2, <3>3 DEF InHand
  <2> QED  BY <1>1, <1>2, <2>1, <2>2, <2>3, <2>4 DEF InHand
<1> QED  BY <1>0, <1>2, <1>4, <1>5, <1>6, <1>7, <1>8

\* A pop at the head of the customer's queue, as far as the FIFO is concerned.
LEMMA PopInOrder ==
  ASSUME NEW lag \in Nat, InStep(lag), Elements(fifo[customer]) > 0
  PROVE  /\ First < N /\ First < Last /\ CanPop(customer) /\ HeadSlot(fifo[customer]) = First
         /\ LET f == Popped(customer)
            IN  /\ f \in [Sides -> FrameFifos]
                /\ f[customer].head = First + 1 /\ f[customer].tail = fifo[customer].tail
                /\ \A s \in Sides \ {customer} : f[s] = fifo[s]
                /\ \A s \in Sides : f[s].head <= f[s].tail /\ f[s].tail = fifo[s].tail
         /\ First + 1 = N => producer # customer
<1>0. Typed /\ Order
  BY DEF InStep
<1>1. /\ customer \in Sides /\ fifo \in [Sides -> FrameFifos]
      /\ \A s \in Sides : fifo[s] \in FrameFifos /\ fifo[s].head <= fifo[s].tail
  BY <1>0 DEF Typed, Order
<1>2. /\ First \in Nat /\ fifo[customer].tail \in Nat /\ fifo[customer].tail <= N
      /\ fifo[customer].head \in Nat /\ fifo[customer].head = First
      /\ fifo[customer].overflow = FALSE /\ First < fifo[customer].tail
  <2>1. fifo[customer] \in FrameFifos
    BY <1>1
  <2>2. /\ fifo[customer].tail \in Nat /\ fifo[customer].tail <= N
        /\ fifo[customer].head \in Nat /\ fifo[customer].overflow = FALSE
    BY <2>1, FrameFifoFields
  <2>3. fifo[customer].tail - fifo[customer].head > 0
    BY DEF Elements
  <2> QED  BY <2>2, <2>3 DEF First
<1>3. First < N /\ First < Last /\ HeadSlot(fifo[customer]) = First
  <2>1. First < N
    BY <1>2, NumbersTyped
  <2> QED  BY <1>0, <1>2, <2>1, Numbers DEF Elements
<1>4. CanPop(customer)
  BY <1>2 DEF CanPop, EnoughElementsToPop
<1>5. First + 1 \in 0 .. N
  BY <1>2, <1>3, NumbersTyped
<1>. DEFINE r == [fifo[customer] EXCEPT !.head = First + 1]
<1>6. r \in FrameFifos /\ r.head = First + 1 /\ r.tail = fifo[customer].tail
  BY <1>1, <1>5, FrameFifoMoved
<1>7. Popped(customer) = [fifo EXCEPT ![customer] = r]
  BY <1>4 DEF Popped, First
<1>. HIDE DEF r
<1>. DEFINE f == Popped(customer)
<1>8. /\ f \in [Sides -> FrameFifos] /\ f[customer] = r
      /\ \A s \in Sides \ {customer} : f[s] = fifo[s]
  BY <1>1, <1>6, <1>7
<1>. HIDE DEF f
<1>9. \A s \in Sides : f[s].head <= f[s].tail /\ f[s].tail = fifo[s].tail
  BY <1>1, <1>2, <1>6, <1>8
<1>10. First + 1 = N => producer # customer
  BY <1>0, <1>2, Numbers
<1> QED  BY <1>3, <1>4, <1>6, <1>8, <1>9, <1>10 DEF f

\* The overflow interrupt gives up the frame at the head.
LEMMA DropFirstInStep ==
  ASSUME NEW lag \in Nat, InStep(lag), ServeOverflow, Elements(fifo[customer]) > 0, ~outrun'
  PROVE  InStep(lag)'
<1>0. Typed /\ Order /\ Room(lag) /\ Window(lag) /\ Exact(lag) /\ InHand(lag)
  BY DEF InStep
<1>. DEFINE f == Popped(customer)
<1>1. /\ hwFull' = hwFull \ {First} /\ fifo' = f /\ SwitchSide(customer, f)
      /\ stolen' = (stolen \/ InUse)
      /\ UNCHANGED <<producer, hwNext, hwFilling, doneInt, pc, entry, popHead, astray>>
      /\ Filling' = Filling /\ overInt /\ overInt' = FALSE
      /\ FoundFilled => Elements(fifo[customer]) # 1
  <2>1. HeadSlot(fifo[customer]) = First /\ Elements(fifo[customer]) # 0
    BY PopInOrder
  <2>2. FoundFilled => Elements(fifo[customer]) # 1
    BY <2>1 DEF ServeOverflow
  <2> QED  BY <2>1, <2>2 DEF ServeOverflow, Unmark, localVars, Filling
<1>2. /\ First < N /\ First < Last
      /\ f \in [Sides -> FrameFifos]
      /\ f[customer].head = First + 1 /\ f[customer].tail = fifo[customer].tail
      /\ \A s \in Sides \ {customer} : f[s] = fifo[s]
      /\ \A s \in Sides : f[s].head <= f[s].tail /\ f[s].tail = fifo[s].tail
      /\ First + 1 = N => producer # customer
  BY PopInOrder
<1>. HIDE DEF f
<1>3. /\ First \in Nat /\ Last \in Nat /\ N \in Nat /\ 1 <= N /\ Filling \in Nat
      /\ Last + lag \in Nat /\ Last + lag <= First + N
  BY NumbersTyped DEF Filling
<1>31. /\ Last + lag + Filling <= First + N /\ (doneInt => lag >= 1)
       /\ hwNext \in FrameSlots /\ (hwNext = Last + lag \/ hwNext + N = Last + lag)
  BY <1>0, NumbersTyped DEF Room
<1>4. /\ customer \in Sides /\ producer \in Sides /\ fifo[producer].tail \in Nat
      /\ fifo[producer].tail < N
      /\ producer # customer => /\ producer = Opposite(customer) /\ Last = N + fifo[producer].tail
                                /\ fifo[producer].head = 0 /\ fifo[customer].tail = N
  BY <1>0, Numbers DEF Typed
<1>5. \A s \in FrameSlots : Between(s, First + 1, Last + lag) <=> Between(s, First, Last + lag) /\ s # First
  <2>1. /\ First \in Nat /\ Last + lag \in Nat /\ First < Last + lag /\ Last + lag <= First + N
        /\ First < N
    BY <1>2, <1>3
  <2>2. \A b \in Nat : First < b /\ b <= First + N =>
          \A s \in FrameSlots : Between(s, First + 1, b) <=> Between(s, First, b) /\ s # First
    BY <2>1, BetweenRest
  <2> QED  BY <2>1, <2>2
<1>6. /\ UNCHANGED status /\ customer' \in Sides /\ Order'
      /\ \/ First' = First + 1 /\ Last' = Last /\ customer' = customer /\ First + 1 < N
         \/ First + 1 = N /\ First' = 0 /\ Last = N + Last'
            /\ customer' = producer /\ producer # customer /\ Last' \in Nat
  <2>1. CASE First + 1 = N
    <3>1. customer' = producer /\ UNCHANGED status /\ producer # customer
      BY <1>0, <1>1, <1>2, <1>4, <2>1 DEF SwitchSide, LastEntryPopped, N, Order, Typed
    <3>2. First' = 0 /\ Last' = fifo[producer].tail /\ Last = N + Last'
      BY <1>1, <1>2, <1>4, <3>1 DEF First, Last
    <3>3. SidesInOrder'
      BY <1>1, <3>1 DEF SidesInOrder
    <3>4. Order'
      BY <1>1, <1>2, <1>3, <1>4, <3>1, <3>2, <3>3 DEF Order, Typed
    <3> QED  BY <1>4, <2>1, <3>1, <3>2, <3>4
  <2>2. CASE First + 1 # N
    <3>1. UNCHANGED <<customer, status>>
      BY <1>1, <1>2, <2>2 DEF SwitchSide, LastEntryPopped, N
    <3>2. First' = First + 1 /\ Last' = Last /\ First + 1 < N
      BY <1>1, <1>2, <1>3, <1>4, <2>2, <3>1 DEF First, Last
    <3>3. SidesInOrder'
      BY <1>1, <1>2, <1>4, <3>1 DEF SidesInOrder, LastEntryPushed, N
    <3>4. Order'
      BY <1>1, <1>2, <1>3, <1>4, <3>1, <3>2, <3>3 DEF Order, Typed
    <3> QED  BY <1>4, <3>1, <3>2, <3>4
  <2> QED  BY <2>1, <2>2
<1>7. First + 1 = N /\ Last = N + Last' /\ Last' \in Nat =>
        /\ hwNext = Last' + lag /\ Last' + lag + Filling < N
        /\ Last + lag = N + (Last' + lag)
        /\ Last + lag + Filling = N + (Last' + lag + Filling)
        /\ Last' + lag \in Nat /\ Last' + lag <= N
        /\ Last' + lag + Filling \in Nat
  <2>1. SUFFICES ASSUME First + 1 = N, Last = N + Last', Last' \in Nat
                 PROVE  /\ hwNext = Last' + lag /\ Last' + lag + Filling < N
                        /\ Last + lag = N + (Last' + lag)
                        /\ Last + lag + Filling = N + (Last' + lag + Filling)
                        /\ Last' + lag \in Nat /\ Last' + lag <= N
                        /\ Last' + lag + Filling \in Nat
    OBVIOUS
  <2>2. /\ First \in Nat /\ Last \in Nat /\ Filling \in Nat /\ hwNext \in FrameSlots
        /\ Last + lag + Filling <= First + N
        /\ hwNext = Last + lag \/ hwNext + N = Last + lag
    BY <1>3, <1>31
  <2>3. N \in Nat /\ hwNext \in Nat /\ hwNext < N
    BY <1>3, <2>2, FrameBuffersPositive
  <2>4. PICK new \in Nat, old \in Nat, first \in Nat, filling \in Nat :
          new = Last' /\ old = Last /\ first = First /\ filling = Filling
    BY <2>1, <2>2
  <2>5. /\ first + 1 = N /\ old = N + new /\ old + lag + filling <= first + N
        /\ hwNext = old + lag \/ hwNext + N = old + lag
    BY <2>1, <2>2, <2>4
  <2>6. /\ hwNext = new + lag /\ new + lag + filling < N
        /\ old + lag = N + (new + lag)
        /\ old + lag + filling = N + (new + lag + filling)
        /\ new + lag \in Nat /\ new + lag <= N
        /\ new + lag + filling \in Nat
    BY <2>3, <2>5
  <2> QED  BY <2>4, <2>6
<1>8. \A s \in FrameSlots : Between(s, First', Last' + lag) <=> Between(s, First, Last + lag) /\ s # First
  <2>1. CASE First' = First + 1 /\ Last' = Last
    BY <1>5, <2>1
  <2>2. CASE First + 1 = N /\ First' = 0 /\ Last = N + Last' /\ Last' \in Nat
    <3>1. Last + lag = N + (Last' + lag) /\ Last' + lag <= N /\ Last' + lag \in Nat
      BY <1>7, <2>2
    <3>2. \A s \in FrameSlots : Between(s, N, N + (Last' + lag)) <=> Between(s, 0, Last' + lag)
      BY <3>1, BetweenTurn
    <3> QED  BY <1>5, <2>2, <3>1, <3>2
  <2> QED  BY <1>6, <2>1, <2>2
<1>9. Typed'
  BY <1>0, <1>1, <1>2, <1>6 DEF Typed
<1>10. Room(lag)'
  <2>1. CASE First' = First + 1 /\ Last' = Last /\ First + 1 < N
    <3>1. Last + lag + Filling <= (First + 1) + N /\ First + 1 # N
      BY <1>3, <1>31, <2>1
    <3> QED  BY <1>1, <1>31, <2>1, <3>1 DEF Room
  <2>2. CASE First + 1 = N /\ First' = 0 /\ Last = N + Last' /\ Last' \in Nat
    <3>1. Last' + lag + Filling < N /\ hwNext = Last' + lag /\ Last' + lag + Filling \in Nat
      BY <1>7, <2>2
    <3>2. Last' + lag + Filling <= 0 + N /\ 0 # N
      BY <1>3, <3>1
    <3> QED  BY <1>1, <1>31, <2>2, <3>1, <3>2 DEF Room
  <2> QED  BY <1>6, <2>1, <2>2
<1>11. Held => entry.slot = First \/ Gone(lag)
  BY <1>0 DEF InHand, AtHead
<1>12. Window(lag)'
  <2>1. \A s \in FrameSlots : Between(s, First', Last' + lag) => s \in hwFull'
    BY <1>0, <1>1, <1>8 DEF Window, AtHead
  <2> QED  BY <1>0, <1>1, <2>1 DEF Window, Between
<1>13. Exact(lag)'
  BY <1>0, <1>1, <1>8 DEF Exact, Between, Typed, Taken
<1>14. InHand(lag)'
  <2>1. ~InUse' \/ stolen'
    BY <1>1 DEF InUse
  <2>2. \A s \in FrameSlots : Between(s, First', Last' + lag + Filling) =>
          Between(s, First, Last + lag + Filling) /\ s # First
    <3>1. \A s \in FrameSlots :
            Between(s, First + 1, Last + lag + Filling) <=> Between(s, First, Last + lag + Filling) /\ s # First
      <4>1. Last + lag + Filling \in Nat /\ Last + lag + Filling <= First + N /\ First < Last + lag + Filling
        BY <1>2, <1>3, <1>31
      <4> QED  BY <1>2, <1>3, <4>1, BetweenRest
    <3>2. CASE First' = First + 1 /\ Last' = Last
      BY <3>1, <3>2
    <3>3. CASE First + 1 = N /\ First' = 0 /\ Last = N + Last' /\ Last' \in Nat
      <4>1. /\ Last + lag + Filling = N + (Last' + lag + Filling) /\ Last' + lag + Filling <= N
            /\ Last' + lag + Filling \in Nat
        <5>1. /\ Last + lag + Filling = N + (Last' + lag + Filling) /\ Last' + lag + Filling < N
              /\ Last' + lag + Filling \in Nat
          BY <1>7, <3>3
        <5> QED  BY <1>3, <5>1
      <4>2. \A s \in FrameSlots :
              Between(s, N, N + (Last' + lag + Filling)) <=> Between(s, 0, Last' + lag + Filling)
        BY <4>1, BetweenTurn
      <4> QED  BY <3>1, <3>3, <4>1, <4>2
    <3> QED  BY <1>6, <3>2, <3>3
  <2>3. entry.slot \in FrameSlots /\ entry.side \in Sides
    BY <1>0 DEF Typed
  <2>4. Held => Gone(lag)'
    BY <1>1, <1>11, <2>2, <2>3 DEF Gone, Between
  <2>5. Taken => entry.slot \notin hwFull'
    BY <1>0, <1>1 DEF InHand
  <2>6. Popping /\ entry.side # customer' =>
          /\ producer = customer' /\ f[entry.side].head = N /\ f[entry.side].tail = N
          /\ f[producer].tail + lag + Filling < N
    <3>1. SUFFICES ASSUME Popping, entry.side # customer'
                   PROVE  /\ producer = customer' /\ f[entry.side].head = N /\ f[entry.side].tail = N
                          /\ f[producer].tail + lag + Filling < N
      OBVIOUS
    <3>2. CASE customer' = customer
      BY <1>0, <1>2, <1>4, <2>3, <3>1, <3>2 DEF InHand
    <3>3. CASE customer' # customer
      <4>1. First + 1 = N /\ customer' = producer /\ producer # customer /\ entry.side = customer
        BY <1>4, <1>6, <2>3, <3>1, <3>3 DEF Sides, Opposite
      <4>2. fifo[producer].tail + lag + Filling < N
        <5>1. Last = N + fifo[producer].tail
          BY <1>4, <4>1
        <5> QED  BY <1>3, <1>31, <1>4, <4>1, <5>1
      <4> QED  BY <1>2, <1>4, <4>1, <4>2
    <3> QED  BY <3>2, <3>3
  <2>7. FoundFilled => entry.side = customer' /\ Elements(fifo[customer])' > 0
    <3>1. SUFFICES ASSUME FoundFilled PROVE entry.side = customer' /\ Elements(fifo[customer])' > 0
      OBVIOUS
    <3>2. entry.side = customer /\ Elements(fifo[customer]) # 1
      BY <1>0, <1>1, <3>1 DEF InHand
    <3>3. fifo[customer].tail \in Nat /\ fifo[customer].head = First
          /\ fifo[customer].tail - First > 1
      <4>1. fifo[customer].tail \in Nat
        BY <1>0, FrameFifoFields DEF Typed
      <4> QED  BY <1>3, <3>2, <4>1 DEF Elements, First
    <3>4. First + 1 # N
      BY <1>2, <1>3, <1>4, <3>3
    <3>5. customer' = customer
      BY <1>6, <3>4
    <3>6. fifo'[customer].tail - fifo'[customer].head > 0
      BY <1>1, <1>2, <1>3, <3>3
    <3> QED  BY <3>2, <3>5, <3>6 DEF Elements
  <2>8. pc = "pop_head" => Overtaken'
    <3>1. SUFFICES ASSUME pc = "pop_head" PROVE Overtaken'
      OBVIOUS
    <3>2. AtHead
      BY <1>0, <1>1, <3>1 DEF InHand, Held, Taken
    <3>3. popHead = First /\ entry.slot = First /\ entry.side = customer
      BY <1>0, <1>1, <3>1, <3>2 DEF InHand, Loaded, Overtaken, AtHead
    <3> QED  BY <1>1, <1>2, <3>3 DEF Overtaken
  <2>9. pc \in {"pop_store", "pop_compare"} => entry.side # customer'
    <3>1. SUFFICES ASSUME pc \in {"pop_store", "pop_compare"} PROVE entry.side # customer'
      OBVIOUS
    <3>2. entry.side # customer /\ producer = customer
      <4>1. First # N
        BY <1>2, <1>3
      <4> QED  BY <1>0, <3>1, <4>1 DEF InHand, Popping
    <3> QED  BY <1>6, <3>2
  <2> QED  BY <1>1, <2>1, <2>4, <2>5, <2>6, <2>7, <2>8, <2>9
           DEF InHand, Popping, Held, Taken, FoundFilled
<1> QED  BY <1>6, <1>9, <1>10, <1>12, <1>13, <1>14 DEF InStep

\* A step that touches nothing of the frames and the pop, whatever runs.
LEMMA StillStep ==
  ASSUME NEW lag \in Nat, InStep(lag),
         UNCHANGED <<vipreVars, hwVars, doneInt, astray, pc, entry, popHead, stolen>>,
         overInt' => overInt \/ ~Popping
  PROVE  InStep(lag)'
<1>1. First' = First /\ Last' = Last /\ Filling' = Filling /\ (AtHead' <=> AtHead)
  BY DEF First, Last, Filling, AtHead, Elements, vipreVars, hwVars
<1>2. (Taken' <=> Taken) /\ (Held' <=> Held) /\ (Popping' <=> Popping) /\ (InUse' <=> InUse)
      /\ (FoundFilled' <=> FoundFilled) /\ (Held => Popping)
  BY DEF Taken, Held, Popping, InUse, FoundFilled
<1>3. Gone(lag)' <=> Gone(lag)
  BY <1>1 DEF Gone, Between
<1>4. pc = "pop_head" => Popping
  BY DEF Popping
<1>5. InHand(lag)'
  BY <1>1, <1>2, <1>3, <1>4 DEF InStep, InHand, Loaded, Overtaken, vipreVars, hwVars
<1>6. entry' \in [side : Sides, slot : FrameSlots]
  BY DEF InStep, Typed
<1>7. First = N => pc' \in {"pop_test", "pop_store"} /\ entry'.side = customer
  BY DEF InStep, Order
<1> QED  BY <1>2, <1>5, <1>6, <1>7, TaskMoves

\* A side has no elements or some.
LEMMA ElementsCounted ==
  ASSUME NEW lag \in Nat, InStep(lag)
  PROVE  Elements(fifo[customer]) = 0 \/ Elements(fifo[customer]) > 0
<1>1. /\ fifo[customer] \in FrameFifos /\ fifo[customer].head <= fifo[customer].tail
  BY DEF InStep, Typed, Order
<1>2. fifo[customer].head \in Nat /\ fifo[customer].tail \in Nat
  BY <1>1, FrameFifoFields
<1> QED  BY <1>1, <1>2 DEF Elements

\* The overflow interrupt drops the first frame, if there is one, even if the algorithm
\* reads it.
LEMMA ServeOverflowInStep ==
  ASSUME NEW lag \in Nat, InStep(lag), ServeOverflow, ~outrun'
  PROVE  InStep(lag)'
<1>1. CASE Elements(fifo[customer]) > 0
  BY <1>1, DropFirstInStep
<1>2. CASE Elements(fifo[customer]) = 0
  <2>1. UNCHANGED <<vipreVars, hwVars, doneInt, astray, pc, entry, popHead, stolen>> /\ ~overInt'
    BY <1>2 DEF ServeOverflow, hwVars, localVars
  <2> QED  BY <2>1, StillStep
<1> QED  BY <1>1, <1>2, ElementsCounted

\* The task looks for the head of the queue, and takes it.
LEMMA GetNextEntryInStep ==
  ASSUME NEW lag \in Nat, InStep(lag), FindEntry \/ MatchEntry \/ GetNextEntry
  PROVE  InStep(lag)'
<1>0. entry \in [side : Sides, slot : FrameSlots] /\ customer \in Sides
  BY DEF InStep, Typed
<1>1. CASE FindEntry
  <2>1. /\ UNCHANGED <<vipreVars, hwVars, doneInt, astray>> /\ ~Popping /\ ~Popping' /\ ~InUse'
        /\ entry' = [entry EXCEPT !.side = customer] /\ Elements(fifo[customer]) # 0
    BY <1>1 DEF FindEntry, At, Popping, InUse, intVars, histVars
  <2>2. Elements(fifo[customer]) > 0
    BY <2>1, ElementsCounted
  <2>3. entry' \in [side : Sides, slot : FrameSlots] /\ entry'.side = customer
    BY <1>0, <2>1
  <2> QED  BY <2>1, <2>2, <2>3, QuietStep
<1>2. CASE MatchEntry
  <2>1. /\ UNCHANGED <<vipreVars, hwVars, doneInt, astray, entry>> /\ ~Popping /\ ~Popping' /\ ~InUse'
        /\ FoundFilled
    BY <1>2 DEF MatchEntry, At, Popping, InUse, FoundFilled, intVars, histVars, localVars
  <2>2. entry.side = customer /\ Elements(fifo[customer]) > 0
    BY <2>1 DEF InStep, InHand
  <2> QED  BY <1>0, <2>1, <2>2, QuietStep
<1>3. CASE GetNextEntry
  <2>1. /\ UNCHANGED <<vipreVars, hwVars, doneInt, astray>> /\ ~Popping /\ ~Popping'
        /\ entry' = [entry EXCEPT !.slot = HeadSlot(fifo[entry.side])]
        /\ FoundFilled /\ ~FoundFilled'
    BY <1>3 DEF GetNextEntry, At, Popping, FoundFilled, intVars, histVars
  <2>2. entry.side = customer /\ Elements(fifo[customer]) > 0
    BY <2>1 DEF InStep, InHand
  <2>3. HeadSlot(fifo[customer]) = First /\ First \in FrameSlots
    BY <2>2, PopInOrder, NumbersTyped
  <2>4. entry' \in [side : Sides, slot : FrameSlots] /\ entry'.side = customer /\ entry'.slot = First
    BY <1>0, <2>1, <2>2, <2>3
  <2>5. AtHead'
    BY <2>1, <2>2, <2>4 DEF AtHead, First, Elements, vipreVars
  <2> QED  BY <2>1, <2>4, <2>5, QuietStep
<1> QED  BY <1>1, <1>2, <1>3

\* The handler never overflows: nothing is recovered.
LEMMA GetNoEntryInStep ==
  ASSUME NEW lag \in Nat, InStep(lag), GetNoEntry
  PROVE  InStep(lag)'
<1>1. status = "ok" /\ entry \in [side : Sides, slot : FrameSlots]
  BY DEF InStep, Typed
<1>2. /\ UNCHANGED <<vipreVars, hwVars, doneInt, astray, entry>>
      /\ ~Popping /\ ~Popping' /\ ~InUse' /\ ~FoundFilled'
  BY <1>1 DEF GetNoEntry, At, Popping, InUse, FoundFilled, intVars, histVars, vipreVars, hwVars, localVars
<1> QED  BY <1>1, <1>2, QuietStep

\* The algorithm returns.
LEMMA AlgorithmDoneInStep ==
  ASSUME NEW lag \in Nat, InStep(lag), AlgorithmDone
  PROVE  InStep(lag)'
<1>1. /\ UNCHANGED <<vipreVars, hwVars, doneInt, astray, entry, stolen>>
      /\ ~Popping /\ ~Popping' /\ InUse /\ ~FoundFilled'
  BY DEF AlgorithmDone, At, Popping, InUse, FoundFilled, intVars, histVars, localVars
<1>2. entry \in [side : Sides, slot : FrameSlots] /\ (InUse /\ ~stolen => AtHead)
  BY DEF InStep, Typed, InHand
<1>3. AtHead => AtHead'
  BY <1>1 DEF AtHead, First, Elements, vipreVars
<1> QED  BY <1>1, <1>2, <1>3, QuietStep

\* What the task does after a pop.
LEMMA AfterPopInStep ==
  ASSUME NEW lag \in Nat, InStep(lag), CheckFrontEnd \/ StartBackEnd \/ Report \/ EndOfRun
  PROVE  InStep(lag)'
<1>1. /\ UNCHANGED <<vipreVars, hwVars, doneInt, astray>>
      /\ ~Popping /\ ~Popping' /\ ~InUse' /\ ~FoundFilled'
      /\ entry' = entry \/ entry' = NoEntry
  BY DEF CheckFrontEnd, StartBackEnd, Report, EndOfRun, At, Popping, InUse, FoundFilled, intVars, histVars, localVars
<1>2. entry \in [side : Sides, slot : FrameSlots] /\ NoEntry \in [side : Sides, slot : FrameSlots]
  BY FrameBuffersPositive DEF InStep, Typed, NoEntry, Sides
<1> QED  BY <1>1, <1>2, QuietStep

\* vipre_pop_new_entry looks whether the side is empty.
LEMMA PopStartsInStep ==
  ASSUME NEW lag \in Nat, InStep(lag), StartPop, stolen' = stolen, hwVars' = hwVars, doneInt' = doneInt
  PROVE  InStep(lag)'
<1>1. /\ UNCHANGED <<vipreVars, hwVars, doneInt, astray, stolen>> /\ pc = "pop"
      /\ entry' = [entry EXCEPT !.side = customer]
      /\ pc' = IF Elements(fifo[customer]) = 0 THEN AfterPop ELSE "pop_slot"
  BY DEF StartPop
<1>2. entry \in [side : Sides, slot : FrameSlots] /\ customer \in Sides
  BY DEF InStep, Typed
<1>3. /\ entry' \in [side : Sides, slot : FrameSlots]
      /\ entry'.side = customer /\ entry'.slot = entry.slot
  BY <1>1, <1>2
<1>4. CASE Elements(fifo[customer]) = 0
  <2>1. ~Popping /\ ~Popping' /\ ~InUse' /\ ~FoundFilled'
    BY <1>1, <1>4 DEF Popping, InUse, FoundFilled, AfterPop
  <2> QED  BY <1>1, <1>3, <2>1, QuietStep
<1>5. CASE Elements(fifo[customer]) # 0
  <2>1. pc' = "pop_slot" /\ Elements(fifo[customer]) > 0
    BY <1>1, <1>5, ElementsCounted
  <2>2. ~Taken /\ ~Taken' /\ ~Held' /\ InUse
    BY <1>1, <2>1 DEF Taken, Held, InUse
  <2>3. First # N
    BY <1>1 DEF InStep, Order
  <2>4. AtHead => AtHead'
    BY <1>1, <1>3 DEF AtHead, Elements, First, vipreVars
  <2>5. InHand(lag)'
    BY <1>1, <1>3, <2>1, <2>2, <2>4 DEF InStep, InHand, vipreVars
  <2> QED  BY <1>1, <1>3, <2>2, <2>3, <2>5, TaskMoves
<1> QED  BY <1>4, <1>5

\* It reads the head.
LEMMA PopReadsInStep ==
  ASSUME NEW lag \in Nat, InStep(lag), UnmarkEntry, pc = "pop_slot",
         stolen' = stolen, hwVars' = hwVars, doneInt' = doneInt
  PROVE  InStep(lag)'
<1>1. /\ UNCHANGED <<vipreVars, hwVars, doneInt, astray, stolen>> /\ pc' = "pop_regs"
      /\ entry' = [entry EXCEPT !.slot = HeadSlot(fifo[entry.side])]
  BY DEF UnmarkEntry, At
<1>2. entry \in [side : Sides, slot : FrameSlots]
  BY DEF InStep, Typed
<1>3. entry.side = customer /\ Elements(fifo[customer]) > 0
  BY DEF InStep, InHand, FoundFilled
<1>4. HeadSlot(fifo[customer]) = First /\ First \in FrameSlots
  BY <1>3, PopInOrder, NumbersTyped
<1>5. entry' \in [side : Sides, slot : FrameSlots] /\ entry'.side = customer /\ entry'.slot = First
  BY <1>1, <1>2, <1>3, <1>4
<1>6. AtHead' /\ customer' = customer
  BY <1>1, <1>3, <1>5 DEF AtHead, Elements, First, vipreVars
<1>7. ~Taken /\ ~Taken' /\ ~FoundFilled'
  BY <1>1 DEF Taken, FoundFilled
<1>8. First # N
  BY DEF InStep, Order
<1>9. InHand(lag)'
  BY <1>1, <1>5, <1>6, <1>7 DEF InHand
<1> QED  BY <1>1, <1>5, <1>7, <1>8, <1>9, TaskMoves

\* A frame being written comes behind those of the window.
LEMMA BetweenMore ==
  ASSUME NEW lag \in Nat, InStep(lag), NEW s \in FrameSlots, Between(s, First, Last + lag)
  PROVE  Between(s, First, Last + lag + Filling)
<1>1. CASE Filling = 0
  <2>1. Last + lag + 0 = Last + lag
    BY NumbersTyped
  <2> QED  BY <1>1, <2>1
<1>2. CASE Filling = 1
  <2>1. s \in Nat /\ N \in Nat /\ Last + lag \in Nat
    BY NumbersTyped
  <2>2. (s < Last + lag => s < Last + lag + 1) /\ (s + N < Last + lag => s + N < Last + lag + 1)
    BY <2>1
  <2> QED  BY <1>2, <2>2 DEF Between
<1> QED  BY <1>1, <1>2 DEF Filling

\* It clears the mark of that frame, or of one that the overflow interrupt has
\* given up meanwhile.
LEMMA PopUnmarksInStep ==
  ASSUME NEW lag \in Nat, InStep(lag), UnmarkEntry, pc = "pop_regs",
         UNCHANGED <<hwNext, hwFilling, intVars, stolen>>
  PROVE  InStep(lag)'
<1>0. Typed /\ Order /\ Room(lag) /\ Window(lag) /\ Exact(lag) /\ InHand(lag)
  BY DEF InStep
<1>1. /\ hwFull' = hwFull \ {entry.slot} /\ pc' = "pop_check"
      /\ UNCHANGED <<customer, producer, status, fifo, hwNext, hwFilling, doneInt, overInt, astray,
                     stolen, entry>>
  BY DEF UnmarkEntry, At, Unmark, intVars, vipreVars
<1>2. /\ First' = First /\ Last' = Last /\ Filling' = Filling
      /\ AtHead' <=> AtHead
  BY <1>1 DEF First, Last, Filling, AtHead, Elements
<1>3. Gone(lag)' <=> Gone(lag)
  BY <1>1, <1>2 DEF Gone, Between
<1>4. AtHead \/ Gone(lag)
  BY <1>0 DEF InHand, Held
<1>40. ~Taken /\ Taken' /\ ~FoundFilled' /\ Held
  BY <1>1 DEF Taken, Held, FoundFilled
<1>5. Typed' /\ Order'
  BY <1>0, <1>1, <1>2 DEF Typed, Order, SidesInOrder, LastEntryPushed
<1>6. Room(lag)'
  BY <1>0, <1>1, <1>2 DEF Room
<1>7. Window(lag)'
  <2>1. \A s \in FrameSlots : Between(s, First, Last + lag) => s \in hwFull' \/ (AtHead /\ s = entry.slot)
    <3>1. TAKE s \in FrameSlots
    <3>2. HAVE Between(s, First, Last + lag)
    <3>3. s \in hwFull
      BY <1>0, <1>40, <3>2 DEF Window
    <3>4. s = entry.slot => ~Gone(lag)
      BY <3>2, BetweenMore DEF Gone
    <3> QED  BY <1>1, <1>4, <3>3, <3>4
  <2> QED  BY <1>0, <1>1, <1>2, <1>40, <2>1 DEF Window, Between
<1>8. Exact(lag)'
  BY <1>0, <1>1, <1>2 DEF Exact, Between
<1>9. InHand(lag)'
  BY <1>0, <1>1, <1>2, <1>3, <1>4, <1>40 DEF InHand, InUse, Popping
<1> QED  BY <1>5, <1>6, <1>7, <1>8, <1>9 DEF InStep

\* pop_fifo finds a frame, which is then the customer's first, or none, because the
\* overflow interrupt has taken it.
LEMMA PopChecksInStep ==
  ASSUME NEW lag \in Nat, InStep(lag), PopFifo, pc = "pop_check",
         UNCHANGED <<hwVars, intVars, stolen>>
  PROVE  InStep(lag)'
<1>0. Typed /\ Order /\ InHand(lag)
  BY DEF InStep
<1>1. /\ UNCHANGED <<vipreVars, hwVars, doneInt, overInt, astray, stolen, entry>>
      /\ pc' = IF CanPop(entry.side) THEN "pop_load" ELSE "pop_test"
  BY DEF PopFifo, At, intVars
<1>2. Taken /\ Held /\ Popping /\ ~InUse'
  BY <1>1 DEF Taken, Held, Popping, InUse
<1>3. First' = First /\ (AtHead' <=> AtHead) /\ (Gone(lag)' <=> Gone(lag))
  BY <1>1 DEF First, Last, Filling, AtHead, Gone, Between, Elements, vipreVars, hwVars
<1>4. First # N /\ entry' \in [side : Sides, slot : FrameSlots]
  BY <1>0, <1>1 DEF Order, Typed
<1>5. /\ customer \in Sides /\ fifo[customer] \in FrameFifos
      /\ fifo[customer].head \in Nat /\ fifo[customer].tail \in Nat
      /\ fifo[customer].overflow = FALSE
  <2>1. customer \in Sides /\ fifo[customer] \in FrameFifos
    BY <1>0 DEF Typed
  <2> QED  BY <2>1, FrameFifoFields
<1>6. CASE CanPop(entry.side)
  <2>1. pc' = "pop_load" /\ Taken' /\ Held'
    BY <1>1, <1>6 DEF Taken, Held
  <2>2. entry.side = customer
    <3>1. SUFFICES ASSUME entry.side # customer PROVE FALSE
      OBVIOUS
    <3>2. fifo[entry.side].head = N /\ fifo[entry.side].tail = N
      BY <1>0, <1>2, <3>1 DEF InHand
    <3>3. ~(N - N > 0) /\ ~(N - N >= 1) /\ ~(N >= N + 1)
      BY FrameBuffersPositive
    <3> QED  BY <1>6, <3>2, <3>3 DEF CanPop, EnoughElementsToPop
  <2>3. Elements(fifo[customer]) > 0
    BY <1>5, <1>6, <2>2 DEF CanPop, EnoughElementsToPop, Elements
  <2>4. InHand(lag)'
    BY <1>0, <1>1, <1>2, <1>3, <2>1, <2>2, <2>3 DEF InHand, vipreVars, hwVars
  <2> QED  BY <1>1, <1>2, <1>4, <2>1, <2>4, TaskMoves
<1>7. CASE ~CanPop(entry.side)
  <2>1. pc' = "pop_test" /\ ~Taken' /\ ~Held' /\ ~FoundFilled'
    BY <1>1, <1>7 DEF Taken, Held, FoundFilled
  <2>2. ~AtHead
    BY <1>5, <1>7 DEF AtHead, CanPop, EnoughElementsToPop, Elements
  <2>3. Filling' = Filling
    BY <1>1 DEF Filling, hwVars
  <2>4. InHand(lag)'
    BY <1>0, <1>1, <1>2, <1>3, <2>1, <2>3 DEF InHand, vipreVars, hwVars
  <2> QED  BY <1>1, <1>4, <2>1, <2>2, <2>4, TaskMoves
<1> QED  BY <1>6, <1>7

\* It loads the head.
LEMMA PopLoadsInStep ==
  ASSUME NEW lag \in Nat, InStep(lag), PopFifo, pc = "pop_load",
         UNCHANGED <<hwVars, intVars, stolen>>
  PROVE  InStep(lag)'
<1>0. Typed /\ Order /\ InHand(lag)
  BY DEF InStep
<1>1. /\ UNCHANGED <<vipreVars, hwVars, doneInt, overInt, astray, stolen, entry>>
      /\ pc' = "pop_head" /\ popHead' = fifo[entry.side].head
  BY DEF PopFifo, At, intVars
<1>2. Taken /\ Taken' /\ Held /\ Held' /\ ~InUse' /\ ~FoundFilled'
  BY <1>1 DEF Taken, Held, InUse, FoundFilled
<1>3. First' = First /\ (AtHead' <=> AtHead) /\ (Gone(lag)' <=> Gone(lag))
  BY <1>1 DEF First, Last, Filling, AtHead, Gone, Between, Elements, vipreVars, hwVars
<1>4. First # N /\ entry' \in [side : Sides, slot : FrameSlots]
  BY <1>0, <1>1 DEF Order, Typed
<1>5. entry.side = customer /\ Elements(fifo[customer]) > 0
  BY <1>0 DEF InHand, FoundFilled
<1>6. Loaded' /\ entry'.side = customer'
  BY <1>1, <1>5 DEF Loaded, First, Elements, vipreVars
<1>7. InHand(lag)'
  BY <1>0, <1>1, <1>2, <1>3, <1>6 DEF InHand, hwVars
<1> QED  BY <1>1, <1>2, <1>4, <1>7, TaskMoves

\* It moves the head, past the frame it has unmarked or past another one; or the overflow
\* interrupt has moved it since it was loaded, and the store changes nothing.
LEMMA PopMovesInStep ==
  ASSUME NEW lag \in Nat, InStep(lag), PopFifo, pc = "pop_head",
         UNCHANGED <<hwVars, intVars, stolen>>
  PROVE  InStep(lag)'
<1>0. Typed /\ Order /\ Room(lag) /\ Window(lag) /\ Exact(lag) /\ InHand(lag)
  BY DEF InStep
<1>1. /\ fifo' = [fifo EXCEPT ![entry.side].head = popHead + 1] /\ pc' = "pop_test"
      /\ astray' = (astray \/ popHead # entry.slot)
      /\ UNCHANGED <<customer, producer, status, hwFull, hwNext, hwFilling, doneInt, stolen, entry>>
  BY DEF PopFifo, At, intVars, hwVars
<1>2. Filling' = Filling
  BY <1>1 DEF Filling
<1>3. ~InUse' /\ ~Held' /\ ~Taken' /\ ~FoundFilled' /\ Taken /\ Popping
  BY <1>1 DEF InUse, Held, Taken, FoundFilled, Popping
<1>30. entry.side \in Sides /\ entry \in [side : Sides, slot : FrameSlots] /\ fifo \in [Sides -> FrameFifos]
  BY <1>0 DEF Typed
<1>4. CASE Loaded
  <2>. DEFINE f == Popped(customer)
  <2>0. entry.side = customer /\ Elements(fifo[customer]) > 0 /\ popHead = First
    BY <1>4 DEF Loaded
  <2>1. /\ First < N /\ First < Last /\ CanPop(customer) /\ HeadSlot(fifo[customer]) = First
        /\ f \in [Sides -> FrameFifos]
        /\ f[customer].head = First + 1 /\ f[customer].tail = fifo[customer].tail
        /\ \A s \in Sides \ {customer} : f[s] = fifo[s]
        /\ \A s \in Sides : f[s].head <= f[s].tail /\ f[s].tail = fifo[s].tail
    BY <2>0, PopInOrder
  <2>2. fifo' = f
    BY <1>1, <2>0, <2>1 DEF Popped, First
  <2>. HIDE DEF f
  <2>3. customer \in Sides /\ producer \in Sides
    BY <1>0 DEF Typed
  <2>4. First' = First + 1 /\ Last' = Last
    BY <1>1, <2>1, <2>2, <2>3 DEF First, Last
  <2>5. Typed'
    BY <1>0, <1>1, <2>1, <2>2 DEF Typed
  <2>6. SidesInOrder'
    BY <1>0, <1>1, <2>1, <2>2, <2>3 DEF Order, SidesInOrder, LastEntryPushed
  <2>7. Order'
    BY <1>0, <1>1, <2>0, <2>1, <2>2, <2>3, <2>6 DEF Order
  <2>8. Room(lag)'
    <3>1. /\ First \in Nat /\ N \in Nat /\ Last + lag + Filling \in Nat
          /\ Last + lag + Filling <= First + N
      BY <1>0, NumbersTyped DEF Room, Filling
    <3>2. /\ Last + lag + Filling <= (First + 1) + N
          /\ Last + lag + Filling < (First + 1) + N
      BY <3>1
    <3> QED  BY <1>0, <1>1, <1>2, <2>4, <3>2 DEF Room
  <2>9. \A s \in FrameSlots : Between(s, First + 1, Last + lag) <=> Between(s, First, Last + lag) /\ s # First
    <3>1. /\ First \in Nat /\ Last + lag \in Nat /\ First < Last + lag /\ Last + lag <= First + N
          /\ First < N
      BY <2>1, NumbersTyped
    <3>2. \A b \in Nat : First < b /\ b <= First + N =>
            \A s \in FrameSlots : Between(s, First + 1, b) <=> Between(s, First, b) /\ s # First
      BY <3>1, BetweenRest
    <3> QED  BY <3>1, <3>2
  <2>10. Window(lag)'
    <3>1. \A s \in FrameSlots : Between(s, First + 1, Last + lag) => s \in hwFull
      BY <1>0, <2>9 DEF Window, AtHead
    <3> QED  BY <1>0, <1>1, <2>4, <3>1 DEF Window, Between
  <2>11. Exact(lag)'
    <3>1. SUFFICES ASSUME ~astray' PROVE Exact(lag)'
      BY DEF Exact
    <3>2. ~astray /\ entry.slot = First
      BY <1>1, <2>0, <3>1
    <3>3. \A s \in hwFull : Between(s, First + 1, Last + lag)
      BY <1>0, <1>3, <2>9, <3>2 DEF Exact, Typed
    <3> QED  BY <1>0, <1>1, <1>2, <1>3, <2>4, <3>2, <3>3 DEF Exact, Between
  <2>12. InHand(lag)'
    BY <1>1, <1>3, <2>0 DEF InHand
  <2> QED  BY <2>5, <2>7, <2>8, <2>10, <2>11, <2>12 DEF InStep
<1>5. CASE Overtaken
  <2>1. popHead + 1 = fifo[entry.side].head /\ popHead = entry.slot
    BY <1>5 DEF Overtaken
  <2>2. UNCHANGED <<fifo, astray>>
    BY <1>0, <1>1, <1>30, <2>1 DEF Typed, FrameFifos
  <2>3. ~AtHead
    <3>1. entry.slot \in Nat
      BY <1>30, FrameBuffersPositive
    <3> QED  BY <2>1, <3>1 DEF AtHead, First
  <2>4. First # N
    BY <1>0 DEF Order
  <2>5. InHand(lag)'
    BY <1>0, <1>1, <1>2, <1>3, <2>2 DEF InHand
  <2> QED  BY <1>1, <1>3, <1>30, <2>2, <2>3, <2>4, <2>5, TaskMoves DEF vipreVars, hwVars
<1> QED  BY <1>0, <1>4, <1>5 DEF InHand

\* The end of the pop looks whether the side is complete.
LEMMA PopTestsInStep ==
  ASSUME NEW lag \in Nat, InStep(lag), EndPop, pc = "pop_test",
         UNCHANGED <<producer, fifo, hwVars, intVars, entry, astray, stolen>>
  PROVE  InStep(lag)'
<1>0. Typed /\ Order /\ InHand(lag)
  BY DEF InStep
<1>1. /\ UNCHANGED <<vipreVars, hwVars, doneInt, overInt, astray, stolen, entry>>
      /\ pc' = IF LastEntryPopped(fifo[entry.side]) THEN "pop_store" ELSE AfterPop
  BY DEF EndPop, At, intVars, vipreVars
<1>2. ~Taken /\ ~Taken' /\ ~Held' /\ ~InUse' /\ ~FoundFilled' /\ Popping
  BY <1>1 DEF Taken, Held, InUse, FoundFilled, Popping, AfterPop
<1>3. First' = First /\ Filling' = Filling
  BY <1>1 DEF First, Filling, vipreVars, hwVars
<1>4. entry' \in [side : Sides, slot : FrameSlots]
  BY <1>0, <1>1 DEF Typed
<1>5. LastEntryPopped(fifo[entry.side]) <=> fifo[entry.side].head = N
  BY DEF LastEntryPopped, N
<1>6. First = N => pc' = "pop_store" /\ entry'.side = customer
  BY <1>0, <1>1, <1>5 DEF Order, First
<1>7. pc' = "pop_store" /\ entry'.side = customer => First = N
  <2>1. SUFFICES ASSUME pc' = "pop_store", entry'.side = customer PROVE First = N
    OBVIOUS
  <2>2. AfterPop # "pop_store"
    BY DEF AfterPop
  <2> QED  BY <1>1, <1>5, <2>1, <2>2 DEF First
<1>8. pc' \notin {"pop_head", "pop_compare"}
  BY <1>1 DEF AfterPop
<1>9. InHand(lag)'
  BY <1>0, <1>1, <1>2, <1>3, <1>7, <1>8 DEF InHand, vipreVars, hwVars
<1> QED  BY <1>1, <1>2, <1>4, <1>6, <1>9, TaskMoves

\* And at the bottom of the ring it changes sides, if the interrupt has not
\* done that for it.
LEMMA PopStoresInStep ==
  ASSUME NEW lag \in Nat, InStep(lag), EndPop, pc = "pop_store",
         UNCHANGED <<producer, fifo, hwVars, intVars, entry, astray, stolen>>
  PROVE  InStep(lag)'
<1>0. Typed /\ Order /\ Room(lag) /\ Window(lag) /\ Exact(lag) /\ InHand(lag)
  BY DEF InStep
<1>1. /\ customer' = Opposite(entry.side) /\ pc' = "pop_compare"
      /\ UNCHANGED <<producer, status, fifo, hwFull, hwNext, hwFilling, doneInt, overInt, astray,
                     stolen, entry>>
  BY DEF EndPop, At, intVars, hwVars
<1>2. Filling' = Filling
  BY <1>1 DEF Filling
<1>3. ~InUse' /\ ~Held' /\ ~Taken /\ ~Taken' /\ ~FoundFilled' /\ Popping
  BY <1>1 DEF InUse, Held, Taken, FoundFilled, Popping
<1>4. /\ customer \in Sides /\ producer \in Sides /\ entry.side \in Sides
      /\ status = "ok" /\ fifo \in [Sides -> FrameFifos]
  BY <1>0 DEF Typed
<1>5. CASE First = N
  <2>1. entry.side = customer /\ fifo[customer].head = N
    BY <1>0, <1>5 DEF Order, First
  <2>2. producer # customer
    <3>1. fifo[customer].head <= fifo[customer].tail /\ fifo[producer].tail < N
      BY <1>0, <1>4 DEF Order
    <3>2. fifo[customer] \in FrameFifos
      BY <1>4
    <3>3. fifo[customer].tail \in Nat /\ N \in Nat
      BY <3>2, FrameFifoFields, FrameBuffersPositive
    <3> QED  BY <2>1, <3>1, <3>3
  <2>3. /\ producer = Opposite(customer) /\ Last = N + fifo[producer].tail
        /\ fifo[producer].head = 0 /\ fifo[producer].tail \in Nat
    BY <1>0, <2>2, Numbers
  <2>4. customer' = producer /\ status' = "ok"
    BY <1>1, <1>4, <2>1, <2>3
  <2>5. First' = 0 /\ Last' = fifo[producer].tail
    BY <1>1, <2>3, <2>4 DEF First, Last
  <2>6. SidesInOrder'
    BY <1>1, <2>4 DEF SidesInOrder
  <2>7. Typed' /\ Order'
    BY <1>0, <1>1, <1>4, <2>4, <2>5, <2>6, FrameBuffersPositive DEF Typed, Order
  <2>8. PICK new \in Nat, old \in Nat, first \in Nat, filling \in Nat :
          new = Last' /\ old = Last /\ first = First /\ filling = Filling
    <3>1. Last' \in Nat /\ Last \in Nat /\ First \in Nat
      BY <2>3, <2>5, NumbersTyped
    <3>2. Filling \in Nat
      BY DEF Filling
    <3> QED  BY <3>1, <3>2
  <2>9. /\ hwNext = new + lag /\ new + lag + filling < N
        /\ old + lag = N + (new + lag) /\ new + lag \in Nat /\ new + lag <= N
    <3>1. /\ first = N /\ old = N + new
          /\ first = N => old + lag + filling < first + N
          /\ hwNext = old + lag \/ hwNext + N = old + lag
      BY <1>0, <1>5, <2>3, <2>5, <2>8 DEF Room
    <3>2. hwNext \in Nat /\ hwNext < N /\ N \in Nat
      BY <1>0, FrameBuffersPositive DEF Typed
    <3> QED  BY <3>1, <3>2
  <2>10. \A s \in FrameSlots : Between(s, First', Last' + lag) <=> Between(s, First, Last + lag)
    <3>1. \A b \in Nat : b <= N => \A s \in FrameSlots : Between(s, N, N + b) <=> Between(s, 0, b)
      BY BetweenTurn
    <3> QED  BY <1>5, <2>5, <2>8, <2>9, <3>1
  <2>11. Room(lag)'
    <3>1. new + lag + filling <= 0 + N /\ 0 # N
      BY <2>9, FrameBuffersPositive
    <3> QED  BY <1>0, <1>1, <1>2, <2>5, <2>8, <2>9, <3>1 DEF Room
  <2>12. Window(lag)'
    BY <1>0, <1>1, <1>3, <2>10 DEF Window, Between
  <2>13. Exact(lag)'
    BY <1>0, <1>1, <1>3, <2>10 DEF Exact, Between, Typed
  <2>14. InHand(lag)'
    <3>1. entry.side # customer' /\ producer' = customer'
      BY <1>1, <2>1, <2>2, <2>4
    <3>2. fifo[customer].tail = N
      BY <1>0, <2>2, Numbers
    <3>3. fifo[producer].tail + lag + Filling < N
      BY <2>5, <2>8, <2>9
    <3> QED  BY <1>1, <1>2, <1>3, <2>1, <3>1, <3>2, <3>3 DEF InHand
  <2> QED  BY <2>7, <2>11, <2>12, <2>13, <2>14 DEF InStep
<1>6. CASE First # N
  <2>1. entry.side # customer
    BY <1>0, <1>6 DEF InHand
  <2>2. UNCHANGED customer
    BY <1>0, <1>1, <1>3, <1>4, <2>1 DEF InHand, Sides, Opposite
  <2>3. InHand(lag)'
    BY <1>0, <1>1, <1>2, <1>3, <2>1, <2>2 DEF InHand
  <2>4. entry' \in [side : Sides, slot : FrameSlots]
    BY <1>0, <1>1 DEF Typed
  <2> QED  BY <1>1, <1>3, <1>6, <2>2, <2>3, <2>4, TaskMoves DEF vipreVars, hwVars
<1> QED  BY <1>5, <1>6

\* The producer is on that side too, and not at its end.
LEMMA PopComparesInStep ==
  ASSUME NEW lag \in Nat, InStep(lag), EndPop, pc = "pop_compare",
         UNCHANGED <<producer, fifo, hwVars, intVars, entry, astray, stolen>>
  PROVE  InStep(lag)'
<1>0. Typed /\ Order /\ InHand(lag)
  BY DEF InStep
<1>1. Popping /\ ~Taken /\ ~Taken' /\ ~Popping' /\ ~InUse' /\ ~Held' /\ ~FoundFilled'
  BY DEF EndPop, At, AfterPop, Popping, Taken, InUse, Held, FoundFilled
<1>2. producer = customer
  BY <1>0, <1>1 DEF InHand
<1>3. UNCHANGED <<vipreVars, hwVars, doneInt, astray, entry>>
  BY <1>2 DEF EndPop, At, vipreVars, intVars
<1>4. First # N /\ entry' \in [side : Sides, slot : FrameSlots]
  BY <1>0, <1>3 DEF Order, Typed
<1>5. pc' \notin {"pop_head", "pop_store", "pop_compare"}
  BY DEF EndPop, At, AfterPop
<1>6. InHand(lag)'
  BY <1>1, <1>5 DEF InHand
<1> QED  BY <1>1, <1>3, <1>4, <1>6, TaskMoves

\* The steps of the pop.
LEMMA PopInStep ==
  ASSUME NEW lag \in Nat, InStep(lag), PopEntry
  PROVE  InStep(lag)'
<1>1. CASE StartPop
  BY <1>1, PopStartsInStep DEF PopEntry, StartPop, hwVars, intVars
<1>2. CASE UnmarkEntry
  <2>1. pc \in {"pop_slot", "pop_regs"} /\ UNCHANGED <<hwNext, hwFilling, intVars, stolen>>
    BY <1>2 DEF PopEntry, UnmarkEntry, At
  <2>2. pc = "pop_slot" => UNCHANGED <<hwVars, doneInt>>
    BY <1>2, <2>1 DEF UnmarkEntry, At, hwVars, intVars
  <2> QED  BY <1>2, <2>1, <2>2, PopReadsInStep, PopUnmarksInStep
<1>3. CASE PopFifo
  <2>1. pc \in {"pop_check", "pop_load", "pop_head"} /\ UNCHANGED <<hwVars, intVars, stolen>>
    BY <1>3 DEF PopEntry, StartPop, UnmarkEntry, PopFifo, EndPop, At, hwVars
  <2> QED  BY <1>3, <2>1, PopChecksInStep, PopLoadsInStep, PopMovesInStep
<1>4. CASE EndPop
  <2>1. /\ pc \in {"pop_test", "pop_store", "pop_compare"}
        /\ UNCHANGED <<producer, fifo, hwVars, intVars, entry, astray, stolen>>
    BY <1>4 DEF PopEntry, StartPop, UnmarkEntry, PopFifo, EndPop, At, hwVars
  <2> QED  BY <1>4, <2>1, PopTestsInStep, PopStoresInStep, PopComparesInStep
<1> QED  BY <1>1, <1>2, <1>3, <1>4 DEF PopEntry

\* Everything is empty at first.
LEMMA FramesInit ==
  ASSUME Init
  PROVE  FramesInv
<1>1. /\ customer = 0 /\ producer = 0 /\ status = "ok" /\ fifo = [s \in Sides |-> ResetFifo(0)]
      /\ hwNext = 0 /\ hwFilling = FALSE /\ hwFull = {} /\ doneInt = FALSE /\ astray = FALSE
      /\ pc = "waiting" /\ entry = NoEntry /\ 0 \in Sides
  BY DEF Init, HandlerInit, Sides
<1>2. /\ fifo \in [Sides -> FrameFifos] /\ \A s \in Sides : fifo[s].head = 0 /\ fifo[s].tail = 0
  BY <1>1, FreshFifo
<1>3. First = 0 /\ Last = 0 /\ Filling = 0 /\ N \in Nat /\ 1 <= N
  BY <1>1, <1>2, FrameBuffersPositive DEF First, Last, Filling
<1>4. \A s \in FrameSlots : ~Between(s, 0, 0)
  BY FrameBuffersPositive DEF Between
<1>5. Typed
  <2>1. 0 \in FrameSlots /\ NoEntry \in [side : Sides, slot : FrameSlots]
    BY <1>1, FrameBuffersPositive DEF NoEntry
  <2> QED  BY <1>1, <1>2, <2>1 DEF Typed
<1>6. Order
  BY <1>1, <1>2, <1>3 DEF Order, SidesInOrder
<1>7. 0 + 0 = 0
  OBVIOUS
<1>8. Room(0) /\ Window(0) /\ Exact(0)
  BY <1>1, <1>3, <1>4, <1>7 DEF Room, Window, Exact
<1>9. InHand(0)
  BY <1>1 DEF InHand, InUse, Popping, Held, Taken, FoundFilled
<1> QED  BY <1>5, <1>6, <1>8, <1>9 DEF FramesInv, InStep

\* Every step keeps the three in step, with as many frames between hardware and queue
\* as before, one more or one less, unless it is the one that outruns the task.
LEMMA FramesStep ==
  ASSUME FramesInv, [Next]_vars
  PROVE  FramesInv'
<1>1. CASE outrun
  BY <1>1 DEF FramesInv, Next, Task, vars, HwBegin, HwDone, HwOverflow, ServeDone, ServeOverflow,
              FindEntry, MatchEntry, GetNextEntry, GetNoEntry, AlgorithmDone, PopEntry, CheckFrontEnd,
              StartBackEnd, Report, EndOfRun, HostReadsReport, HostGivesBack, feVars, histVars
<1>2. CASE outrun'
  BY <1>2 DEF FramesInv
<1>. SUFFICES ASSUME ~outrun, ~outrun' PROVE \E next \in Nat : InStep(next)'
  BY <1>1, <1>2 DEF FramesInv
<1>3. PICK lag \in Nat : InStep(lag)
  BY DEF FramesInv
<1>4. CASE HwBegin
  BY <1>3, <1>4, HwBeginInStep
<1>5. CASE HwDone
  <2>1. lag + 1 \in Nat
    OBVIOUS
  <2> QED  BY <1>3, <1>5, <2>1, HwDoneInStep
<1>6. CASE HwOverflow
  BY <1>3, <1>6, StillStep DEF HwOverflow, localVars, histVars
<1>7. CASE ServeDone
  BY <1>3, <1>7, ServeDoneInStep
<1>8. CASE ServeOverflow
  BY <1>3, <1>8, ServeOverflowInStep
<1>9. CASE Task
  BY <1>3, <1>9, GetNextEntryInStep, GetNoEntryInStep, AlgorithmDoneInStep, PopInStep, AfterPopInStep
     DEF Task
<1>10. CASE HostReadsReport \/ HostGivesBack \/ UNCHANGED vars
  BY <1>3, <1>10, StillStep DEF HostReadsReport, HostGivesBack, feVars, vars, intVars, localVars, histVars
<1> QED  BY <1>4, <1>5, <1>6, <1>7, <1>8, <1>9, <1>10 DEF Next

\* The inductive invariant: the marks of the hardware's buffers, the two sides of the
\* FIFO and the entry in the task's hand are in step at every interleaving of the
\* hardware, its two interrupts and the steps of vipre_pop_new_entry and pop_fifo, until
\* an overflow interrupt takes the last frame between a step of the task that has found
\* the FIFO not empty and one that goes on from there.
THEOREM FramesInOrder == Spec => []FramesInv
<1>1. Init => FramesInv
  BY FramesInit
<1>2. FramesInv /\ [Next]_vars => FramesInv'
  BY FramesStep
<1> QED  BY <1>1, <1>2, PTL DEF Spec

\* vipre_handler.c never enters its fault state, with any number of frame buffers: a push
\* never finds the FIFO full, and a customer that changes sides finds the producer there,
\* however late the interrupts are served and however they fall between the steps of a
\* pop; unless an overflow interrupt takes the last frame under the task.
THEOREM HandlerNeverFaults == Spec => []NeverFaults
<1>1. FramesInv => NeverFaults
  BY DEF FramesInv, InStep, Typed, Order, NeverFaults
<1> QED  BY <1>1, FramesInOrder, PTL

\* The buffer that the algorithm reads stays marked in the hardware's register, so that
\* the hardware does not write to it, until the overflow interrupt gives it up, or takes
\* the last frame under the task.
THEOREM FrameInUseIsMarked == Spec => []InUseStaysMarked
<1>1. FramesInv => InUseStaysMarked
  <2>1. SUFFICES ASSUME FramesInv, InUse, ~stolen, ~outrun PROVE entry.slot \in hwFull
    BY DEF InUseStaysMarked
  <2>2. PICK lag \in Nat : InStep(lag)
    BY <2>1 DEF FramesInv
  <2>3. AtHead /\ ~Taken /\ Typed /\ Order /\ Window(lag)
    BY <2>1, <2>2 DEF InStep, InHand, InUse, Taken
  <2>4. entry.slot = First /\ First \in FrameSlots /\ First < Last + lag /\ First < N
    <3>1. entry.slot = First /\ First \in FrameSlots
      BY <2>3 DEF AtHead, Typed
    <3>2. First < Last /\ First < N
      BY <2>2, <2>3, PopInOrder DEF AtHead
    <3> QED  BY <2>2, <3>1, <3>2, NumbersTyped
  <2>5. Between(First, First, Last + lag)
    BY <2>2, <2>4, NumbersTyped, BetweenFirst
  <2> QED  BY <2>3, <2>4, <2>5 DEF Window
<1> QED  BY <1>1, FramesInOrder, PTL

\* The frames in the FIFO are the buffers between its head and its tail.
LEMMA QueuedIsBetween ==
  ASSUME Typed, Order
  PROVE  Queued = {s \in FrameSlots : Between(s, First, Last)}
<1>1. /\ N \in Nat /\ FrameSlots = 0 .. N - 1
      /\ First \in Nat /\ First <= N /\ Last \in Nat /\ First <= Last
  BY FrameBuffersPositive, Numbers
<1>2. fifo[customer].head = First /\ fifo[customer].tail \in Nat /\ fifo[customer].tail <= N
  BY FrameFifoFields DEF First, Typed
<1>. DEFINE Direct == {i % N : i \in First .. fifo[customer].tail - 1}
<1>3. Direct = First .. fifo[customer].tail - 1
  <2>1. \A i \in First .. fifo[customer].tail - 1 : i \in FrameSlots
    BY <1>1, <1>2
  <2>2. \A i \in First .. fifo[customer].tail - 1 : i % N = i
    BY <2>1, SlotIsItself
  <2> QED  BY <2>2
<1>4. Queued = Direct \union (IF producer = customer THEN {} ELSE {i \in FrameSlots : i < fifo[producer].tail})
  BY <1>2 DEF Queued, N
<1>. HIDE DEF Direct
<1>5. CASE producer = customer
  <2>1. Last = fifo[customer].tail
    BY <1>5 DEF Last
  <2>2. \A s \in FrameSlots : Between(s, First, Last) <=> First <= s /\ s < Last
    BY <1>1, <1>2, <2>1 DEF Between
  <2>3. \A s : s \in First .. Last - 1 <=> s \in FrameSlots /\ First <= s /\ s < Last
    <3>1. PICK first \in Nat, last \in Nat, n \in Nat : first = First /\ last = Last /\ n = N
      BY <1>1
    <3>2. last <= n
      BY <1>2, <2>1, <3>1
    <3>3. \A s : s \in first .. last - 1 <=> s \in 0 .. n - 1 /\ first <= s /\ s < last
      BY <3>2
    <3> QED  BY <1>1, <3>1, <3>3
  <2> QED  BY <1>3, <1>4, <1>5, <2>1, <2>2, <2>3
<1>6. CASE producer # customer
  <2>1. /\ Last = N + fifo[producer].tail /\ fifo[producer].tail \in Nat
        /\ fifo[customer].tail = N /\ fifo[producer].tail < N
    BY <1>6, Numbers
  <2>2. \A s \in FrameSlots : Between(s, First, Last) <=> First <= s \/ s < fifo[producer].tail
    <3>1. PICK first \in Nat, last \in Nat, n \in Nat, tail \in Nat :
            first = First /\ last = Last /\ n = N /\ tail = fifo[producer].tail
      BY <1>1, <2>1
    <3>2. last = n + tail /\ first <= n
      BY <1>1, <2>1, <3>1
    <3>3. \A s \in 0 .. n - 1 : (first <= s /\ s < last) \/ (first <= s + n /\ s + n < last)
                                  <=> first <= s \/ s < tail
      BY <3>2
    <3> QED  BY <1>1, <3>1, <3>3 DEF Between
  <2>3. \A s : s \in First .. N - 1 <=> s \in FrameSlots /\ First <= s
    BY <1>1
  <2> QED  BY <1>3, <1>4, <1>6, <2>1, <2>2, <2>3
<1> QED  BY <1>5, <1>6

\* Unless a mark has gone astray, or an overflow interrupt has taken the last frame under
\* the task, the marked buffers are those of the queue and the one whose interrupt is
\* pending, and when the task is between the steps of a pop, less the one that it pops.
THEOREM MarksMatchTheQueue == Spec => []MarkedAreQueued
<1>1. FramesInv => MarkedAreQueued
  <2>1. SUFFICES ASSUME FramesInv, ~astray, ~outrun
                 PROVE  hwFull \ (IF doneInt THEN {(hwNext - 1) % N} ELSE {})
                          = Queued \ (IF Taken THEN {entry.slot} ELSE {})
    BY DEF MarkedAreQueued, N, Unmarked, Taken
  <2>2. PICK lag \in Nat : InStep(lag)
    BY <2>1 DEF FramesInv
  <2>3. Typed /\ Order /\ Room(lag) /\ Window(lag) /\ Exact(lag) /\ InHand(lag)
    BY <2>2 DEF InStep
  <2>4. /\ hwFull \subseteq FrameSlots
        /\ \A s \in hwFull : Between(s, First, Last + lag) /\ ~(Taken /\ s = entry.slot)
        /\ \A s \in FrameSlots : Between(s, First, Last + lag) =>
             s \in hwFull \/ (Taken /\ s = entry.slot)
    BY <2>1, <2>3 DEF Typed, Exact, Window
  <2>5. hwFull = {s \in FrameSlots : Between(s, First, Last + lag)}
                   \ (IF Taken THEN {entry.slot} ELSE {})
    BY <2>4
  <2>6. Queued = {s \in FrameSlots : Between(s, First, Last)}
    BY <2>3, QueuedIsBetween
  <2>7. CASE ~doneInt
    <3>1. lag = 0 /\ Last + 0 = Last
      BY <2>1, <2>2, <2>3, <2>7, NumbersTyped DEF Exact
    <3> QED  BY <2>5, <2>6, <2>7, <3>1
  <2>8. CASE doneInt
    <3>1. lag = 1
      BY <2>1, <2>3, <2>8 DEF Exact
    <3>. DEFINE done == (hwNext - 1) % N
    <3>2. done \in FrameSlots /\ (done = Last \/ done + N = Last) /\ Last + 1 <= First + N
      <4>1. PICK next \in Nat, last \in Nat, n \in Nat, first \in Nat :
              next = hwNext /\ last = Last /\ n = N /\ first = First
        BY <2>2, NumbersTyped
      <4>2. /\ 1 <= n /\ next < n /\ (next = last + 1 \/ next + n = last + 1)
            /\ last + 1 <= first + n /\ first <= n /\ first <= last
        BY <2>2, <3>1, <4>1, NumbersTyped
      <4>3. next # 0 => next - 1 \in FrameSlots /\ (next - 1) % N = next - 1
        BY <4>1, <4>2, SlotIsItself, FrameBuffersPositive
      <4>4. next = 0 => (next - 1) % n = n - 1
        BY <4>1, <4>2
      <4> QED  BY <4>1, <4>2, <4>3, <4>4, FrameBuffersPositive
    <3>. HIDE DEF done
    <3>3. \A s \in FrameSlots : Between(s, First, Last + 1) <=> Between(s, First, Last) \/ s = done
      BY <2>2, <3>2, NumbersTyped, BetweenNext
    <3>4. ~Between(done, First, Last)
      BY <2>2, <3>2, NumbersTyped DEF Between
    <3>5. Taken => entry.slot # done
      <4>1. SUFFICES ASSUME Taken, entry.slot = done PROVE FALSE
        OBVIOUS
      <4>2. AtHead \/ Gone(lag)
        BY <2>3, <4>1 DEF InHand, Held
      <4>3. ~AtHead
        BY <2>2, <3>2, <3>4, <4>1, PopInOrder, NumbersTyped, BetweenFirst DEF AtHead
      <4>4. ~Gone(lag)
        BY <2>2, <3>1, <3>2, <3>3, <4>1, BetweenMore DEF Gone
      <4> QED  BY <4>2, <4>3, <4>4
    <3>6. hwFull \ {done} = Queued \ (IF Taken THEN {entry.slot} ELSE {})
      BY <2>5, <2>6, <3>1, <3>3, <3>4, <3>5
    <3> QED  BY <2>8, <3>6 DEF done
  <2> QED  BY <2>7, <2>8
<1> QED  BY <1>1, FramesInOrder, PTL

-----------------------------------------------------------------------------
(***************************************************************************)
(* The host's buffers: they go round from the ring of the back end through  *)
(* the mailbox and the host's hands, and each is in one place at a time,    *)
(* until the host loses one to a report that is overwritten unread.         *)
(***************************************************************************)

\* The ring of the back end, and that no buffer is in it twice.
Places == 0 .. BufNum - 1
Place(i) == (be.head + i) % BufNum
OnceInRing ==
  \A i, j \in 0 .. be.valid - 1 : be.bufs[Place(i)] = be.bufs[Place(j)] => i = j

\* The kinds of values of the back end's ring.
BeTyped ==
  be \in [head : Places, valid : 0 .. BufNum, status : {"allocated", "no_memory"},
          bufs : [Places -> Buffers]]

\* The back end's entry of a run of the task stays at the head of the ring.
OutIsHead ==
  /\ pc \in {"algorithm", "pop", "fe_state", "be_start"} \/ Popping =>
       out = NoBuffer \/ (HasBuffer /\ out = NextBuffer)
  /\ pc \in {"algorithm", "fe_state", "be_start"} => out # NoBuffer

\* Where the buffers are.
AllPlaced ==
  /\ InRing \intersect (Unread \union hands \union lost) = {}
  /\ Unread \intersect (hands \union lost) = {} /\ hands \intersect lost = {}
  /\ Buffers = InRing \union Unread \union hands \union lost

\* The invariant of the buffers.
BuffersInv == BeTyped /\ OnceInRing /\ OutIsHead /\ AllPlaced

\* There is a place in the ring, and no report of a failure is a buffer.
LEMMA BufNumPositive ==
  BufNum \in Nat /\ 0 < BufNum /\ IsFiniteSet(Buffers) /\ Buffers \intersect NoResults = {}
<1>1. BufNum \in Nat
  BY BuffersAssumption, FS_CardinalityType DEF BufNum
<1>2. BufNum # 0
  BY BuffersAssumption, FS_EmptySet DEF BufNum
<1> QED  BY <1>1, <1>2, BuffersAssumption

\* Places are counted round the ring.
LEMMA RoundTheRing ==
  ASSUME NEW a \in Nat, a < 2 * BufNum
  PROVE  a % BufNum = IF a < BufNum THEN a ELSE a - BufNum
<1>. DEFINE n == BufNum
            q == a \div n
            r == a % n
<1>1. n \in Nat /\ 0 < n
  BY BufNumPositive
<1>. HIDE DEF n
<1>2. q \in Int /\ r \in 0 .. n - 1 /\ a = q * n + r
  BY <1>1
<1>. HIDE DEF q, r
<1>3. a < 2 * n
  BY DEF n
<1>4. q = 0 \/ q = 1
  <2>1. q >= 2 => q * n >= 2 * n
    BY <1>1, <1>2
  <2>2. q <= -1 => q * n <= -n
    BY <1>1, <1>2
  <2> QED  BY <1>1, <1>2, <1>3, <2>1, <2>2
<1>5. r = IF a < n THEN a ELSE a - n
  BY <1>1, <1>2, <1>4
<1> QED  BY <1>5 DEF n, r

\* Within one round of the ring, different counts are different places.
LEMMA PlacesApart ==
  ASSUME NEW h \in Places, NEW i \in Places, NEW j \in Places
  PROVE  /\ (h + i) % BufNum \in Places
         /\ (h + i) % BufNum = (h + j) % BufNum => i = j
<1>1. h + i \in Nat /\ h + i < 2 * BufNum /\ h + j \in Nat /\ h + j < 2 * BufNum
  BY BufNumPositive DEF Places
<1>2. /\ (h + i) % BufNum = IF h + i < BufNum THEN h + i ELSE (h + i) - BufNum
      /\ (h + j) % BufNum = IF h + j < BufNum THEN h + j ELSE (h + j) - BufNum
  BY <1>1, RoundTheRing
<1> QED  BY <1>2, BufNumPositive DEF Places

\* With the head moved on by one, the i-th place is the one that was the next after it.
LEMMA NextPlace ==
  ASSUME NEW h \in Places, NEW i \in Nat, i + 1 < BufNum
  PROVE  /\ (h + 1) % BufNum \in Places
         /\ (((h + 1) % BufNum) + i) % BufNum = (h + (i + 1)) % BufNum
<1>1. h + 1 \in Nat /\ h + 1 < 2 * BufNum /\ h + (i + 1) \in Nat /\ h + (i + 1) < 2 * BufNum
  BY BufNumPositive DEF Places
<1>. DEFINE x == (h + 1) % BufNum
<1>2. x = IF h + 1 < BufNum THEN h + 1 ELSE (h + 1) - BufNum
  BY <1>1, RoundTheRing
<1>. HIDE DEF x
<1>3. x \in Places /\ x + i \in Nat /\ x + i < 2 * BufNum
  BY <1>2, BufNumPositive DEF Places
<1>4. (x + i) % BufNum = IF x + i < BufNum THEN x + i ELSE (x + i) - BufNum
  BY <1>3, RoundTheRing
<1>5. (h + (i + 1)) % BufNum = IF h + (i + 1) < BufNum THEN h + (i + 1) ELSE (h + (i + 1)) - BufNum
  BY <1>1, RoundTheRing
<1>6. (x + i) % BufNum = (h + (i + 1)) % BufNum
  BY <1>2, <1>4, <1>5, BufNumPositive DEF Places
<1> QED  BY <1>3, <1>6 DEF x

\* The buffers in the ring, named by their places.
LEMMA RingIs ==
  ASSUME BeTyped
  PROVE  /\ InRing = {be.bufs[Place(i)] : i \in 0 .. be.valid - 1}
         /\ \A i \in 0 .. be.valid - 1 : i \in Places /\ Place(i) \in Places /\ be.bufs[Place(i)] \in Buffers
         /\ InRing \subseteq Buffers
<1>1. be.head \in Places /\ be.valid \in 0 .. BufNum /\ be.bufs \in [Places -> Buffers]
  BY DEF BeTyped
<1>2. \A i \in 0 .. be.valid - 1 : i \in Places
  BY <1>1, BufNumPositive DEF Places
<1>3. \A i \in 0 .. be.valid - 1 : Place(i) \in Places
  BY <1>1, <1>2, PlacesApart DEF Place
<1>4. InRing = {be.bufs[Place(i)] : i \in 0 .. be.valid - 1}
  BY DEF InRing, Ring, Place
<1> QED  BY <1>1, <1>2, <1>3, <1>4

\* As many buffers are in the ring as its count of valid entries says.
LEMMA RingCounted ==
  ASSUME BeTyped, OnceInRing
  PROVE  Cardinality(InRing) = be.valid
<1>. DEFINE f == [i \in 0 .. be.valid - 1 |-> be.bufs[Place(i)]]
<1>1. be.valid \in Nat
  BY BufNumPositive DEF BeTyped
<1>2. f \in Bijection(0 .. be.valid - 1, InRing)
  <2>1. f \in [0 .. be.valid - 1 -> InRing]
    BY RingIs
  <2>2. \A i, j \in 0 .. be.valid - 1 : f[i] = f[j] => i = j
    BY DEF OnceInRing
  <2>3. \A b \in InRing : \E i \in 0 .. be.valid - 1 : f[i] = b
    BY RingIs
  <2> QED  BY <2>1, <2>2, <2>3 DEF Bijection, Injection, Surjection, IsInjective
<1>3. IsFiniteSet(0 .. be.valid - 1) /\ Cardinality(0 .. be.valid - 1) = be.valid
  <2>1. PICK v \in Int : v = be.valid - 1 /\ -1 <= v
    BY <1>1
  <2>2. IsFiniteSet(0 .. v) /\ Cardinality(0 .. v) = IF 0 > v THEN 0 ELSE v - 0 + 1
    BY FS_Interval
  <2>3. (IF 0 > v THEN 0 ELSE v - 0 + 1) = be.valid
    BY <1>1, <2>1
  <2> QED  BY <2>1, <2>2, <2>3
<1>4. ExistsBijection(0 .. be.valid - 1, InRing)
  BY <1>2 DEF ExistsBijection
<1> QED  BY <1>3, <1>4, FS_Bijection

\* The host's buffers, numbered as it gave them: each has one number.
LEMMA GivenOnce ==
  /\ Given \in [Places -> Buffers]
  /\ \A b \in Buffers : \E i \in Places : Given[i] = b
  /\ \A i, j \in Places : Given[i] = Given[j] => i = j
<1>1. IsFiniteSet(Places) /\ Cardinality(Places) = BufNum
  <2>1. Cardinality(0 .. BufNum - 1) = IF 0 > BufNum - 1 THEN 0 ELSE BufNum - 1 - 0 + 1
    BY BufNumPositive, FS_Interval
  <2>2. IsFiniteSet(0 .. BufNum - 1)
    BY BufNumPositive, FS_Interval
  <2> QED  BY <2>1, <2>2, BufNumPositive DEF Places
<1>2. PICK g : g \in Bijection(Places, Buffers)
  <2>1. ExistsBijection(Places, Buffers)
    BY <1>1, BufNumPositive, FS_SameCardinalityBij DEF BufNum
  <2> QED  BY <2>1 DEF ExistsBijection
<1>3. /\ g \in [Places -> Buffers]
      /\ \A b \in Buffers : \E i \in DOMAIN g : g[i] = b
  BY <1>2 DEF Bijection, Injection, Surjection
<1>4. /\ Given \in [Places -> Buffers]
      /\ \A b \in Buffers : \E i \in DOMAIN Given : Given[i] = b
  BY <1>3 DEF Given, Places
<1>5. \A b \in Buffers : \E i \in Places : Given[i] = b
  BY <1>4
<1>6. Given \in Surjection(Places, Buffers)
  BY <1>4, <1>5 DEF Surjection
<1>7. Given \in Injection(Places, Buffers)
  BY <1>1, <1>6, FS_Surjection DEF BufNum
<1>8. \A i, j \in Places : Given[i] = Given[j] => i = j
  BY <1>7 DEF Injection, IsInjective
<1> QED  BY <1>4, <1>5, <1>8

\* At first the ring holds all the buffers.
LEMMA BuffersInit == Init => BuffersInv
<1>. SUFFICES ASSUME Init PROVE BuffersInv
  OBVIOUS
<1>1. /\ be = [head |-> 0, valid |-> BufNum, status |-> "allocated", bufs |-> Given]
      /\ report = "none" /\ hands = {} /\ lost = {} /\ pc = "waiting"
  BY DEF Init, BeInit
<1>2. BeTyped
  BY <1>1, GivenOnce, BufNumPositive DEF BeTyped, Places
<1>3. \A i \in 0 .. be.valid - 1 : i \in Places /\ Place(i) = i
  <2>. SUFFICES ASSUME NEW i \in Places PROVE (0 + i) % BufNum = i
    BY <1>1 DEF Place, Places
  <2>1. 0 + i \in Nat /\ 0 + i < 2 * BufNum /\ 0 + i < BufNum /\ 0 + i = i
    BY BufNumPositive DEF Places
  <2> QED  BY <2>1, RoundTheRing
<1>4. OnceInRing
  BY <1>1, <1>3, GivenOnce DEF OnceInRing
<1>5. InRing = Buffers
  <2>1. \A i \in Places : i \in 0 .. be.valid - 1
    BY <1>1 DEF Places
  <2> QED  BY <1>1, <1>2, <1>3, <2>1, RingIs, GivenOnce
<1>6. AllPlaced
  <2>1. Unread = {}
    BY <1>1, BufNumPositive DEF Unread, NoResults
  <2> QED  BY <1>1, <1>5, <2>1 DEF AllPlaced
<1>7. OutIsHead
  BY <1>1 DEF OutIsHead, Popping
<1> QED  BY <1>2, <1>4, <1>6, <1>7 DEF BuffersInv

\* The ring stays when the back end does.
LEMMA RingKept ==
  ASSUME BeTyped, OnceInRing, be' = be
  PROVE  BeTyped' /\ OnceInRing' /\ InRing' = InRing
<1>1. BeTyped' /\ OnceInRing'
  BY DEF BeTyped, OnceInRing, Place
<1>2. InRing' = InRing
  BY DEF InRing, Ring
<1> QED  BY <1>1, <1>2

\* Steps of the VIPRE, the interrupts and the task that leave the back end alone.
LEMMA BackEndKept ==
  ASSUME BuffersInv, UNCHANGED <<be, report, hands, lost>>, OutIsHead'
  PROVE  BuffersInv'
<1>1. BeTyped' /\ OnceInRing' /\ InRing' = InRing
  BY RingKept DEF BuffersInv
<1>2. AllPlaced'
  BY <1>1 DEF BuffersInv, AllPlaced, Unread
<1> QED  BY <1>1, <1>2 DEF BuffersInv

\* News of no buffer go over a report that may not have been read.
LEMMA NewsPlaced ==
  ASSUME BuffersInv, InRing' = InRing, hands' = hands,
         NEW r \in NoResults, FillReport(r)
  PROVE  AllPlaced'
<1>1. lost' = lost \union Unread /\ Unread' = {}
  BY BufNumPositive DEF FillReport, Unread
<1> QED  BY <1>1 DEF BuffersInv, AllPlaced

\* The buffer at the head goes into the report.
LEMMA HeadTaken ==
  ASSUME BuffersInv, TakeBuffer(out), out = NextBuffer, hands' = hands
  PROVE  BeTyped' /\ OnceInRing' /\ AllPlaced'
<1>1. /\ be.head \in Places /\ be.valid \in 0 .. BufNum /\ be.bufs \in [Places -> Buffers]
      /\ be.status \in {"allocated", "no_memory"}
  BY DEF BuffersInv, BeTyped
<1>2. /\ be.valid > 1 /\ report' = out /\ lost' = lost \union Unread
      /\ be' = [be EXCEPT !.head = (@ + 1) % BufNum, !.valid = @ - 1]
  BY DEF TakeBuffer, FillReport, Unread
<1>3. /\ be'.head = (be.head + 1) % BufNum /\ be'.valid = be.valid - 1
      /\ be'.bufs = be.bufs /\ be'.status = be.status
  BY <1>2 DEF BuffersInv, BeTyped
<1>4. be.valid - 1 \in Nat /\ be.valid \in Nat /\ be.valid <= BufNum
  BY <1>1, <1>2, BufNumPositive
<1>5. BeTyped'
  <2>1. be'.head \in Places
    <3>1. 0 \in Nat /\ 0 + 1 < BufNum
      BY <1>2, <1>4, BufNumPositive
    <3> QED  BY <1>1, <1>3, <3>1, NextPlace
  <2>2. be'.valid \in 0 .. BufNum
    BY <1>3, <1>4, BufNumPositive
  <2> QED  BY <1>1, <1>2, <1>3, <2>1, <2>2 DEF BuffersInv, BeTyped
<1>6. \A i \in 0 .. be'.valid - 1 : i + 1 \in 0 .. be.valid - 1 /\ (be'.head + i) % BufNum = Place(i + 1)
  <2>. SUFFICES ASSUME NEW i \in 0 .. be'.valid - 1
                PROVE  i + 1 \in 0 .. be.valid - 1 /\ (be'.head + i) % BufNum = Place(i + 1)
    OBVIOUS
  <2>1. i \in Nat /\ i + 1 < BufNum /\ i + 1 \in 0 .. be.valid - 1
    BY <1>3, <1>4, BufNumPositive
  <2> QED  BY <1>1, <1>3, <2>1, NextPlace DEF Place
<1>7. OnceInRing'
  <2>. SUFFICES ASSUME NEW i \in 0 .. be'.valid - 1, NEW j \in 0 .. be'.valid - 1,
                       be'.bufs[(be'.head + i) % BufNum] = be'.bufs[(be'.head + j) % BufNum]
                PROVE  i = j
    BY DEF OnceInRing, Place
  <2>1. i + 1 = j + 1
    BY <1>3, <1>6 DEF BuffersInv, OnceInRing
  <2> QED  BY <1>3, <1>4, <2>1
<1>8. be.head = Place(0) /\ 0 \in 0 .. be.valid - 1
  <2>1. be.head + 0 = be.head /\ be.head \in Nat /\ be.head < BufNum /\ be.head < 2 * BufNum
    BY <1>1, BufNumPositive DEF Places
  <2> QED  BY <1>2, <1>4, <2>1, RoundTheRing DEF Place
<1>9. InRing' = InRing \ {out}
  <2>1. InRing' = {be.bufs[(be'.head + i) % BufNum] : i \in 0 .. be'.valid - 1}
    BY <1>3 DEF InRing, Ring
  <2>2. InRing = {be.bufs[Place(i)] : i \in 0 .. be.valid - 1}
    BY RingIs DEF BuffersInv
  <2>3. ASSUME NEW b \in InRing' PROVE b \in InRing \ {out}
    <3>1. PICK i \in 0 .. be'.valid - 1 : b = be.bufs[Place(i + 1)]
      BY <1>6, <2>1, <2>3
    <3>2. i + 1 \in 0 .. be.valid - 1 /\ i + 1 # 0
      BY <1>3, <1>4, <1>6
    <3>3. b # out
      BY <1>8, <3>1, <3>2 DEF BuffersInv, OnceInRing, NextBuffer
    <3> QED  BY <2>2, <3>1, <3>2, <3>3
  <2>4. ASSUME NEW b \in InRing, b # out PROVE b \in InRing'
    <3>1. PICK k \in 0 .. be.valid - 1 : b = be.bufs[Place(k)]
      BY <2>2, <2>4
    <3>2. k # 0
      BY <1>8, <2>4, <3>1 DEF NextBuffer
    <3>3. k - 1 \in 0 .. be'.valid - 1 /\ (k - 1) + 1 = k
      BY <1>3, <1>4, <3>2
    <3> QED  BY <1>6, <2>1, <3>1, <3>3
  <2> QED  BY <2>3, <2>4
<1>10. out \in InRing /\ out \in Buffers
  BY <1>8, RingIs DEF BuffersInv, NextBuffer
<1>11. AllPlaced'
  <2>1. Unread' = {out}
    BY <1>2, <1>10 DEF Unread
  <2> QED  BY <1>2, <1>9, <1>10, <2>1 DEF BuffersInv, AllPlaced
<1> QED  BY <1>5, <1>7, <1>11

\* Each of the three ways in which the back end starts keeps the buffers where they are counted.
LEMMA StartPlaced ==
  ASSUME BuffersInv, StartBackEnd
  PROVE  BuffersInv'
<1>1. pc = "be_start" /\ pc' \in {"send", "done"} /\ hands' = hands /\ out' = out
  BY DEF StartBackEnd, At, localVars
<1>2. OutIsHead'
  BY <1>1 DEF OutIsHead, Popping
<1>3. out = NextBuffer
  BY <1>1 DEF BuffersInv, OutIsHead, Popping
<1>4. CASE KeepLast
  <2>1. be' = [be EXCEPT !.status = "no_memory"] /\ FillReport("no_buf")
    BY <1>4 DEF KeepLast
  <2>2. be'.head = be.head /\ be'.valid = be.valid /\ be'.bufs = be.bufs /\ BeTyped'
    BY <2>1 DEF BuffersInv, BeTyped
  <2>3. OnceInRing' /\ InRing' = InRing
    BY <2>2 DEF BuffersInv, OnceInRing, Place, InRing, Ring
  <2> QED  BY <1>1, <1>2, <2>1, <2>2, <2>3, NewsPlaced DEF BuffersInv, NoResults
<1>5. CASE TakeBuffer(out)
  BY <1>1, <1>2, <1>3, <1>5, HeadTaken DEF BuffersInv
<1>6. CASE DropFrame
  <2>1. be' = be /\ FillReport("frame_drop")
    BY <1>6 DEF DropFrame
  <2>2. BeTyped' /\ OnceInRing' /\ InRing' = InRing
    BY <2>1, RingKept DEF BuffersInv
  <2> QED  BY <1>1, <1>2, <2>1, <2>2, NewsPlaced DEF BuffersInv, NoResults
<1> QED  BY <1>4, <1>5, <1>6 DEF StartBackEnd

\* A buffer that comes back goes behind the last of the ring, where there is room for it.
LEMMA GivenBack ==
  ASSUME BuffersInv, NEW b \in hands, AssignBuffer(b)
  PROVE  BeTyped' /\ OnceInRing' /\ AllPlaced'
<1>1. /\ be.head \in Places /\ be.valid \in Nat /\ be.valid <= BufNum /\ be.bufs \in [Places -> Buffers]
      /\ be.status \in {"allocated", "no_memory"}
  BY BufNumPositive DEF BuffersInv, BeTyped
<1>2. b \in Buffers /\ b \notin InRing /\ InRing \subseteq Buffers
  BY DEF BuffersInv, AllPlaced
<1>3. be.valid + 1 <= BufNum
  <2>1. IsFiniteSet(Buffers \ {b}) /\ Cardinality(Buffers \ {b}) = BufNum - 1
    BY <1>2, BufNumPositive, FS_RemoveElement DEF BufNum
  <2>2. InRing \in SUBSET (Buffers \ {b})
    BY <1>2
  <2>3. Cardinality(InRing) <= Cardinality(Buffers \ {b})
    BY <2>1, <2>2, FS_Subset
  <2> QED  BY <1>1, <2>1, <2>3, RingCounted, BufNumPositive DEF BuffersInv
<1>. DEFINE p == (be.head + be.valid) % BufNum
<1>4. /\ be' = [be EXCEPT !.bufs[p] = b, !.valid = be.valid + 1,
                          !.status = IF @ = "no_memory" /\ be.valid + 1 > 1 THEN "allocated" ELSE @]
      /\ hands' = hands \ {b} /\ report' = report /\ lost' = lost
  BY <1>1, <1>3, BufNumPositive DEF AssignBuffer
<1>5. be.valid \in Places /\ p \in Places /\ \A i \in 0 .. be.valid - 1 : Place(i) # p
  <2>1. be.valid \in Places
    BY <1>1, <1>3, BufNumPositive DEF Places
  <2>2. \A i \in 0 .. be.valid - 1 : i \in Places /\ i # be.valid
    BY <1>1, <2>1, BufNumPositive DEF Places
  <2> QED  BY <1>1, <2>1, <2>2, PlacesApart DEF Place
<1>. HIDE DEF p
<1>6. /\ be'.head = be.head /\ be'.valid = be.valid + 1 /\ be'.bufs = [be.bufs EXCEPT ![p] = b]
      /\ be'.status \in {"allocated", "no_memory"}
  BY <1>1, <1>4 DEF BuffersInv, BeTyped
<1>7. BeTyped'
  <2>1. be'.bufs \in [Places -> Buffers]
    BY <1>1, <1>2, <1>6
  <2>2. be'.valid \in 0 .. BufNum
    BY <1>1, <1>3, <1>6, BufNumPositive
  <2>3. be' = [head |-> be'.head, valid |-> be'.valid, status |-> be'.status, bufs |-> be'.bufs]
    BY <1>4 DEF BuffersInv, BeTyped
  <2> QED  BY <1>1, <1>6, <2>1, <2>2, <2>3 DEF BeTyped
<1>8. /\ \A i \in 0 .. be.valid - 1 : be'.bufs[Place(i)] = be.bufs[Place(i)] /\ be.bufs[Place(i)] # b
      /\ be'.bufs[Place(be.valid)] = b
      /\ \A i \in 0 .. be'.valid - 1 : i \in 0 .. be.valid - 1 \/ i = be.valid
  <2>1. \A i \in 0 .. be.valid - 1 : be'.bufs[Place(i)] = be.bufs[Place(i)]
    BY <1>1, <1>5, <1>6, RingIs DEF BuffersInv
  <2>2. \A i \in 0 .. be.valid - 1 : be.bufs[Place(i)] # b
    BY <1>2, RingIs DEF BuffersInv
  <2>3. be'.bufs[Place(be.valid)] = b
    BY <1>1, <1>5, <1>6 DEF Place, p
  <2> QED  BY <1>1, <1>6, <2>1, <2>2, <2>3
<1>9. OnceInRing'
  <2>. SUFFICES ASSUME NEW i \in 0 .. be'.valid - 1, NEW j \in 0 .. be'.valid - 1,
                       be'.bufs[Place(i)] = be'.bufs[Place(j)]
                PROVE  i = j
    BY <1>6 DEF OnceInRing, Place
  <2> QED  BY <1>8 DEF BuffersInv, OnceInRing
<1>10. InRing' = InRing \union {b}
  <2>1. InRing' = {be'.bufs[Place(i)] : i \in 0 .. be'.valid - 1}
    BY <1>6 DEF InRing, Ring, Place
  <2>2. InRing = {be.bufs[Place(i)] : i \in 0 .. be.valid - 1}
    BY RingIs DEF BuffersInv
  <2>3. be.valid \in 0 .. be'.valid - 1 /\ \A i \in 0 .. be.valid - 1 : i \in 0 .. be'.valid - 1
    BY <1>1, <1>6
  <2> QED  BY <1>8, <2>1, <2>2, <2>3
<1>11. AllPlaced'
  <2>1. Unread' = Unread
    BY <1>4 DEF Unread
  <2> QED  BY <1>2, <1>4, <1>10, <2>1 DEF BuffersInv, AllPlaced
<1> QED  BY <1>7, <1>9, <1>11

\* Every step.
LEMMA BuffersStep ==
  ASSUME BuffersInv, [Next]_vars
  PROVE  BuffersInv'
<1>1. CASE UNCHANGED vars \/ HwBegin \/ HwDone \/ HwOverflow \/ ServeDone \/ ServeOverflow
  <2>1. UNCHANGED <<pc, out, be, report, hands, lost>>
    BY <1>1 DEF vars, HwBegin, HwDone, HwOverflow, ServeDone, ServeOverflow, localVars, beVars
  <2>2. OutIsHead'
    BY <2>1 DEF BuffersInv, OutIsHead, HasBuffer, NextBuffer, Popping
  <2> QED  BY <2>1, <2>2, BackEndKept
<1>2. CASE GetNextEntry
  <2>1. /\ UNCHANGED <<be, report, hands, lost>>
        /\ \/ pc' = "algorithm" /\ HasBuffer /\ out' = NextBuffer
           \/ pc' = "pop" /\ out' = NoBuffer
    BY <1>2 DEF GetNextEntry, At, beVars
  <2>2. NextBuffer \in Buffers
    BY DEF BuffersInv, BeTyped, NextBuffer
  <2>3. OutIsHead'
    BY <2>1, <2>2, VipreAssumption DEF OutIsHead, HasBuffer, NextBuffer, Popping
  <2> QED  BY <2>1, <2>3, BackEndKept
<1>3. CASE FindEntry \/ MatchEntry \/ GetNoEntry \/ AlgorithmDone \/ CheckFrontEnd \/ PopEntry
  <2>1. UNCHANGED <<out, be, report, hands, lost>>
    BY <1>3 DEF FindEntry, MatchEntry, GetNoEntry, AlgorithmDone, CheckFrontEnd, PopEntry, localVars, beVars
  <2>2. CASE FindEntry \/ MatchEntry \/ GetNoEntry \/ AlgorithmDone \/ CheckFrontEnd
    <3>1. OutIsHead'
      BY <2>1, <2>2 DEF BuffersInv, OutIsHead, HasBuffer, NextBuffer, At, Popping,
                        FindEntry, MatchEntry, GetNoEntry, AlgorithmDone, CheckFrontEnd
    <3> QED  BY <2>1, <3>1, BackEndKept
  <2>3. CASE PopEntry
    <3>1. (pc = "pop" \/ Popping) /\ (pc' = AfterPop \/ Popping')
      BY <2>3 DEF PopEntry, StartPop, UnmarkEntry, PopFifo, EndPop, At, Popping
    <3>2. OutIsHead'
      BY <2>1, <3>1 DEF BuffersInv, OutIsHead, HasBuffer, NextBuffer, AfterPop, Popping
    <3> QED  BY <2>1, <3>2, BackEndKept
  <2> QED  BY <1>3, <2>2, <2>3
<1>4. CASE StartBackEnd
  BY <1>4, StartPlaced
<1>5. CASE Report \/ EndOfRun
  <2>1. UNCHANGED <<be, report, hands, lost>> /\ pc' \in {"done", "waiting"}
    BY <1>5 DEF Report, EndOfRun, SendReport, At, beVars
  <2>2. OutIsHead'
    BY <2>1 DEF OutIsHead, Popping
  <2> QED  BY <2>1, <2>2, BackEndKept
<1>6. CASE HostReadsReport
  <2>1. /\ UNCHANGED <<pc, out, be, lost>> /\ report' = "none" /\ hands' = hands \union Unread
    BY <1>6 DEF HostReadsReport, HostReads, feVars, localVars, Unread
  <2>2. OutIsHead'
    BY <2>1 DEF BuffersInv, OutIsHead, HasBuffer, NextBuffer, Popping
  <2>3. BeTyped' /\ OnceInRing' /\ InRing' = InRing
    BY <2>1, RingKept DEF BuffersInv
  <2>4. Unread' = {}
    BY <2>1, BufNumPositive DEF Unread, NoResults
  <2> QED  BY <2>1, <2>2, <2>3, <2>4 DEF BuffersInv, AllPlaced
<1>7. CASE HostGivesBack
  <2>1. pc = "waiting" /\ pc' = pc
    BY <1>7 DEF HostGivesBack, feVars
  <2>2. OutIsHead'
    BY <2>1 DEF OutIsHead, Popping
  <2>3. PICK b \in hands : AssignBuffer(b)
    BY <1>7 DEF HostGivesBack
  <2> QED  BY <2>2, <2>3, GivenBack DEF BuffersInv
<1> QED  BY <1>1, <1>2, <1>3, <1>4, <1>5, <1>6, <1>7 DEF Next, Task

\* Every buffer of the host is in the ring, in a report that has not been read, with the
\* host, or named by a report that was overwritten; it is in one of these only, and in the
\* ring once: no result is written into a buffer that the host has.  For any number of
\* buffers, however the host reads the reports and gives its buffers back.
THEOREM BuffersStayPlaced == Spec => []BuffersConserved
<1>1. BuffersInv /\ [Next]_vars => BuffersInv'
  BY BuffersStep
<1>2. BuffersInv => BuffersConserved
  BY RingCounted DEF BuffersInv, AllPlaced, BuffersConserved
<1> QED  BY <1>1, <1>2, BuffersInit, PTL DEF Spec

=============================================================================
