-------------------------- MODULE IspFrontEndProofs --------------------------
(***************************************************************************)
(* Proofs about the ISP front end: first what holds however late its       *)
(* interrupts are served, then what holds as long as they are served in    *)
(* time.  Where the producer counts holds for every geometry of the        *)
(* buffer; what relates it to the customer needs a frame longer than the   *)
(* buffer, because nothing keeps the interrupt from coming between two     *)
(* steps of ispc_pop_new_line.                                             *)
(***************************************************************************)
EXTENDS IspFrontEnd, TLAPS

-----------------------------------------------------------------------------
(* The ping-pong line FIFO: what each step of its two ends keeps, whichever *)
(* handler it is a step of.                                                *)

\* What the producer's steps keep, whatever the customer does: no side runs past
\* its frame, and the producer's frame is not complete (it would have moved on).
FifoInv ==
  /\ HandlerTypeOK
  /\ \A s \in Sides : fifo[s].tail <= FrameLines
  /\ fifo[producer].tail < FrameLines

\* What relates the two: no line is popped before it is pushed, and the two
\* sides are in order.
OrderInv ==
  /\ \A s \in Sides : fifo[s].head <= fifo[s].tail
  /\ SidesInOrder
  /\ InFlightFitsBuffer

\* What most steps need of the geometry.
LEMMA GeometryFacts ==
  /\ FrameLines \in Nat /\ EntryLines \in Nat /\ BufferLines \in Nat
  /\ 0 < FrameLines /\ 0 < EntryLines /\ 0 < BufferLines
BY GeometryAssumption

\* A line number taken round the buffer is one of its slots.
LEMMA SlotInBuffer ==
  ASSUME NEW n \in Nat
  PROVE  n % BufferLines \in 0..(BufferLines - 1)
BY GeometryAssumption

\* A side that has been reset.
LEMMA ResetFifoTyped ==
  ASSUME NEW base \in 0..(BufferLines - 1)
  PROVE  /\ ResetFifo(base) \in Fifos
         /\ ResetFifo(base).head = 0 /\ ResetFifo(base).tail = 0
BY GeometryAssumption DEF ResetFifo, Fifos

\* The numbers a FIFO is made of.
LEMMA FifoFields ==
  ASSUME NEW f \in Fifos
  PROVE  f.head \in Nat /\ f.tail \in Nat /\ f.offset \in Nat
<1>1. f.head \in Nat /\ f.tail \in Nat /\ f.offset \in 0..(BufferLines - 1)
  BY DEF Fifos
<1> QED  BY <1>1, GeometryAssumption

\* The FIFO is empty at first.
LEMMA HandlerInitInv == HandlerInit => FifoInv /\ OrderInv
<1>. SUFFICES ASSUME HandlerInit PROVE FifoInv /\ OrderInv
  OBVIOUS
<1>1. 0 \in 0..(BufferLines - 1)
  BY GeometryAssumption
<1>2. HandlerTypeOK
  BY <1>1, ResetFifoTyped DEF HandlerInit, HandlerTypeOK, Sides, Statuses
<1>3. \A s \in Sides : fifo[s].head = 0 /\ fifo[s].tail = 0
  BY <1>1, ResetFifoTyped DEF HandlerInit
<1>4. producer = 0 /\ customer = 0 /\ 0 \in Sides
  BY DEF HandlerInit, Sides
<1>5. InFlight = 0
  BY <1>3, <1>4 DEF InFlight, OtherSideLines, Elements
<1>6. /\ \A s \in Sides : fifo[s].head <= fifo[s].tail /\ fifo[s].tail <= FrameLines
      /\ fifo[producer].tail < FrameLines
  <2>1. FrameLines \in Nat /\ 0 < FrameLines
    BY GeometryAssumption
  <2> QED  BY <1>3, <1>4, <2>1
<1>7. SidesInOrder /\ InFlightFitsBuffer
  BY <1>4, <1>5, GeometryAssumption DEF SidesInOrder, InFlightFitsBuffer
<1> QED  BY <1>2, <1>6, <1>7 DEF FifoInv, OrderInv

\* The producer's frame goes on or is complete, and the producer moves on: an
\* entry that is let through never runs past the frame.
LEMMA PushKeepsInv ==
  ASSUME FifoInv, NEW element \in Nat, PushNewLine(element, FrameLines),
         element \in EntryLines .. 2 * EntryLines =>
           fifo[producer].tail + EntryLines <= FrameLines
  PROVE  FifoInv' /\ (OrderInv => OrderInv')
<1>. DEFINE p == producer
            q == Opposite(producer)
<1>1. /\ p \in Sides /\ q \in Sides /\ p # q /\ customer \in Sides
      /\ fifo[p] \in Fifos /\ fifo[q] \in Fifos /\ fifo[customer] \in Fifos
      /\ customer # p => customer = q
      /\ Sides = {p, q}
  BY DEF FifoInv, HandlerTypeOK, Sides, Opposite
<1>2. /\ \A s \in Sides : fifo[s].head \in Nat /\ fifo[s].tail \in Nat /\ fifo[s].offset \in Nat
      /\ FrameLines \in Nat /\ EntryLines \in Nat /\ BufferLines \in Nat
      /\ 0 < FrameLines /\ 0 < EntryLines /\ 0 < BufferLines
  <2>1. \A s \in Sides : fifo[s] \in Fifos
    BY DEF FifoInv, HandlerTypeOK
  <2>2. \A s \in Sides : fifo[s].head \in Nat /\ fifo[s].tail \in Nat /\ fifo[s].offset \in Nat
    BY <2>1, FifoFields
  <2> QED  BY <2>2, GeometryFacts
<1>3. UNCHANGED customer
  BY DEF PushNewLine
<1>4. CASE UNCHANGED <<producer, fifo>> /\ status' = "param_invalid"
  BY <1>3, <1>4 DEF FifoInv, OrderInv, HandlerTypeOK, SidesInOrder, InFlightFitsBuffer, InFlight,
     OtherSideLines, LastEntryPushed, Elements, Statuses
<1>5. CASE UNCHANGED producer /\ status' = "over_flow"
           /\ fifo' = [fifo EXCEPT ![producer].overflow = TRUE]
  <2>1. fifo' \in [Sides -> Fifos]
    BY <1>1, <1>5 DEF FifoInv, HandlerTypeOK, Fifos
  <2>2. \A s \in Sides : fifo'[s].head = fifo[s].head /\ fifo'[s].tail = fifo[s].tail
    BY <1>1, <1>5 DEF FifoInv, HandlerTypeOK, Fifos
  <2> QED
    BY <1>1, <1>3, <1>5, <2>1, <2>2
    DEF FifoInv, OrderInv, HandlerTypeOK, SidesInOrder, InFlightFitsBuffer, InFlight, OtherSideLines,
        LastEntryPushed, Elements, Statuses
<1>6. CASE ElementAccepted(element)
           /\ EnoughSpaceToPush(fifo[producer], EntryLines + OtherSideLines)
           /\ PushEntry(FrameLines)
  <2>1. UNCHANGED status
    BY <1>6 DEF PushEntry
  <2>2. fifo[p].tail + EntryLines <= FrameLines
    BY <1>2, <1>6, <1>1 DEF ElementAccepted
  <2>3. CASE fifo[p].tail + EntryLines = FrameLines
    <3>. DEFINE base == NextBase(fifo[p], FrameLines)
    <3>1. base \in 0..(BufferLines - 1)
      <4>1. fifo[p].offset + FrameLines \in Nat
        BY <1>1, <1>2
      <4> QED  BY <4>1, SlotInBuffer DEF NextBase
    <3>2. /\ producer' = q
          /\ fifo' = [fifo EXCEPT ![p].tail = @ + EntryLines, ![q] = ResetFifo(base)]
      BY <1>6, <2>3 DEF PushEntry, SwitchProducer
    <3>. HIDE DEF base, p, q
    <3>3. fifo'[q] = ResetFifo(base) /\ fifo'[p] = [fifo[p] EXCEPT !.tail = @ + EntryLines]
      BY <1>1, <3>2 DEF FifoInv, HandlerTypeOK
    <3>4. /\ fifo'[q] \in Fifos /\ fifo'[q].head = 0 /\ fifo'[q].tail = 0
      BY <3>1, <3>3, ResetFifoTyped
    <3>5. /\ fifo'[p] \in Fifos
          /\ fifo'[p].head = fifo[p].head /\ fifo'[p].tail = FrameLines
      BY <1>1, <1>2, <2>3, <3>3 DEF Fifos
    <3>6. fifo' \in [Sides -> Fifos]
      BY <1>1, <3>2, <3>4, <3>5 DEF FifoInv, HandlerTypeOK
    <3>7. HandlerTypeOK'
      BY <1>1, <1>3, <2>1, <3>2, <3>6 DEF FifoInv, HandlerTypeOK
    <3>8. /\ \A s \in Sides : fifo'[s].tail <= FrameLines
          /\ fifo'[producer'].tail < FrameLines
      BY <1>1, <1>2, <3>2, <3>4, <3>5
    <3>11. ASSUME OrderInv PROVE \A s \in Sides : fifo'[s].head <= fifo'[s].tail
      <4>1. fifo[p].head <= FrameLines
        BY <1>1, <1>2, <3>11 DEF FifoInv, OrderInv
      <4> QED  BY <1>1, <1>2, <3>4, <3>5, <4>1
    <3>9. SidesInOrder'
      BY <1>1, <1>3, <3>2, <3>4, <3>5 DEF SidesInOrder, LastEntryPushed
    <3>10. InFlightFitsBuffer'
      <4>1. CASE customer = p
        <5>1. fifo[p].tail + EntryLines - fifo[p].head <= BufferLines
          BY <1>2, <1>1, <1>6, <4>1 DEF EnoughSpaceToPush, OtherSideLines, p
        <5>2. InFlight' = (FrameLines - fifo[p].head) + (0 - 0)
          BY <1>1, <1>3, <3>2, <3>4, <3>5, <4>1 DEF InFlight, OtherSideLines, Elements
        <5> QED  BY <1>1, <1>2, <2>3, <5>1, <5>2 DEF InFlightFitsBuffer
      <4>2. CASE customer = q
        <5>1. InFlight' = 0 + (0 - 0)
          BY <1>3, <3>2, <3>4, <4>2 DEF InFlight, OtherSideLines, Elements
        <5> QED  BY <1>2, <5>1 DEF InFlightFitsBuffer
      <4> QED  BY <1>1, <4>1, <4>2
    <3> QED  BY <3>7, <3>8, <3>9, <3>10, <3>11 DEF FifoInv, OrderInv
  <2>4. CASE fifo[p].tail + EntryLines < FrameLines
    <3>1. UNCHANGED producer /\ fifo' = [fifo EXCEPT ![p].tail = @ + EntryLines]
      BY <1>1, <1>2, <1>6, <2>4 DEF PushEntry
    <3>. HIDE DEF p, q
    <3>2. fifo'[q] = fifo[q] /\ fifo'[p] = [fifo[p] EXCEPT !.tail = @ + EntryLines]
      BY <1>1, <3>1 DEF FifoInv, HandlerTypeOK
    <3>3. /\ fifo'[p] \in Fifos
          /\ fifo'[p].head = fifo[p].head /\ fifo'[p].tail = fifo[p].tail + EntryLines
      BY <1>1, <1>2, <3>2 DEF Fifos
    <3>4. fifo' \in [Sides -> Fifos]
      BY <1>1, <3>1, <3>2, <3>3 DEF FifoInv, HandlerTypeOK
    <3>5. HandlerTypeOK'
      BY <1>1, <1>3, <2>1, <3>1, <3>4 DEF FifoInv, HandlerTypeOK
    <3>6. /\ \A s \in Sides : fifo'[s].tail <= FrameLines
          /\ fifo'[p].tail < FrameLines
      <4>1. fifo[q].tail <= FrameLines
        BY <1>1 DEF FifoInv
      <4>2. fifo'[p].tail <= FrameLines /\ fifo'[p].tail < FrameLines
        BY <1>1, <1>2, <2>4, <3>3
      <4> QED  BY <1>1, <3>2, <4>1, <4>2
    <3>7. ASSUME OrderInv PROVE SidesInOrder' /\ \A s \in Sides : fifo'[s].head <= fifo'[s].tail
      <4>1. fifo[p].head <= fifo[p].tail /\ fifo[q].head <= fifo[q].tail
        BY <1>1, <3>7 DEF OrderInv
      <4>2. fifo'[p].head <= fifo'[p].tail
        BY <1>1, <1>2, <3>3, <4>1
      <4>3. SidesInOrder'
        BY <1>1, <1>3, <3>1, <3>2, <3>3, <3>7 DEF OrderInv, SidesInOrder, LastEntryPushed, p
      <4> QED  BY <1>1, <3>2, <4>1, <4>2, <4>3
    <3>8. InFlightFitsBuffer'
      <4>1. CASE customer = p
        <5>1. fifo[p].tail + EntryLines - fifo[p].head <= BufferLines
          BY <1>2, <1>1, <1>6, <4>1 DEF EnoughSpaceToPush, OtherSideLines, p
        <5>2. InFlight' = 0 + (fifo[p].tail + EntryLines - fifo[p].head)
          BY <1>1, <1>2, <1>3, <3>1, <3>3, <4>1 DEF InFlight, OtherSideLines, Elements, p
        <5> QED  BY <1>1, <1>2, <5>1, <5>2 DEF InFlightFitsBuffer
      <4>2. CASE customer = q
        <5>1. fifo[p].tail + (EntryLines + (fifo[q].tail - fifo[q].head)) - fifo[p].head
                <= BufferLines
          BY <1>1, <1>6, <4>2 DEF EnoughSpaceToPush, OtherSideLines, Elements, p
        <5>2. InFlight' = (fifo[q].tail - fifo[q].head)
                            + (fifo[p].tail + EntryLines - fifo[p].head)
          BY <1>1, <1>2, <1>3, <3>1, <3>2, <3>3, <4>2 DEF InFlight, OtherSideLines, Elements, p
        <5> QED  BY <1>1, <1>2, <5>1, <5>2 DEF InFlightFitsBuffer
      <4> QED  BY <1>1, <4>1, <4>2
    <3> QED  BY <3>1, <3>5, <3>6, <3>7, <3>8 DEF FifoInv, OrderInv, p
  <2> QED  BY <1>1, <1>2, <2>2, <2>3, <2>4
<1> QED  BY <1>4, <1>5, <1>6 DEF PushNewLine

\* A step that only reports a fault, or moves the recovery on.
LEMMA StatusKeepsInv ==
  ASSUME FifoInv, UNCHANGED <<customer, producer, fifo>>, status' \in Statuses
  PROVE  FifoInv' /\ (OrderInv => OrderInv')
BY DEF FifoInv, OrderInv, HandlerTypeOK, SidesInOrder, InFlightFitsBuffer, InFlight,
   OtherSideLines, LastEntryPushed, Elements

\* The customer's head goes on by an entry.
LEMMA AdvanceKeepsInv ==
  ASSUME FifoInv, NEW n \in Nat, AdvanceHead(n)
  PROVE  /\ FifoInv'
         /\ \A s \in Sides : /\ fifo'[s].tail = fifo[s].tail /\ fifo'[s].offset = fifo[s].offset
                             /\ fifo'[s].overflow = fifo[s].overflow
         /\ fifo'[customer].head = fifo[customer].head + n
         /\ \A s \in Sides \ {customer} : fifo'[s] = fifo[s]
<1>. DEFINE c == customer
<1>1. /\ c \in Sides /\ producer \in Sides /\ fifo[c] \in Fifos /\ fifo \in [Sides -> Fifos]
      /\ \A s \in Sides : fifo[s].tail <= FrameLines
      /\ \A s \in Sides : fifo[s].head \in Nat /\ fifo[s].tail \in Nat
  BY FifoFields DEF FifoInv, HandlerTypeOK
<1>2. UNCHANGED <<customer, producer, status>> /\ fifo' = [fifo EXCEPT ![c].head = @ + n]
  BY DEF AdvanceHead
<1>. HIDE DEF c
<1>3. /\ \A s \in Sides \ {c} : fifo'[s] = fifo[s]
      /\ fifo'[c] = [fifo[c] EXCEPT !.head = @ + n]
  BY <1>1, <1>2
<1>4. /\ fifo'[c] \in Fifos /\ fifo'[c].head = fifo[c].head + n /\ fifo'[c].tail = fifo[c].tail
      /\ fifo'[c].offset = fifo[c].offset /\ fifo'[c].overflow = fifo[c].overflow
  BY <1>1, <1>3 DEF Fifos
<1>5. fifo' \in [Sides -> Fifos]
  BY <1>1, <1>2, <1>4
<1>6. \A s \in Sides : /\ fifo'[s].tail = fifo[s].tail /\ fifo'[s].offset = fifo[s].offset
                       /\ fifo'[s].overflow = fifo[s].overflow
  BY <1>3, <1>4
<1>7. FifoInv'
  BY <1>1, <1>2, <1>5, <1>6 DEF FifoInv, HandlerTypeOK
<1> QED  BY <1>3, <1>4, <1>6, <1>7 DEF c

\* ...and stays in order when the lines are there.
LEMMA AdvanceKeepsOrder ==
  ASSUME FifoInv, OrderInv, NEW n \in Nat, AdvanceHead(n),
         fifo[customer].head + n <= fifo[customer].tail
  PROVE  OrderInv'
<1>. DEFINE c == customer
<1>1. /\ c \in Sides /\ producer \in Sides
      /\ \A s \in Sides : fifo[s].head <= fifo[s].tail
      /\ \A s \in Sides : fifo[s].head \in Nat /\ fifo[s].tail \in Nat
  BY FifoFields DEF FifoInv, OrderInv, HandlerTypeOK
<1>2. UNCHANGED <<customer, producer, status>>
  BY DEF AdvanceHead
<1>3. /\ \A s \in Sides : fifo'[s].tail = fifo[s].tail
      /\ fifo'[c].head = fifo[c].head + n
      /\ \A s \in Sides \ {c} : fifo'[s] = fifo[s]
  BY AdvanceKeepsInv
<1>4. fifo[c].head + n <= fifo[c].tail
  OBVIOUS
<1>5. \A s \in Sides : fifo'[s].head <= fifo'[s].tail
  <2>. HIDE DEF c
  <2> QED  BY <1>1, <1>3, <1>4
<1>6. SidesInOrder'
  BY <1>1, <1>2, <1>3 DEF OrderInv, SidesInOrder, LastEntryPushed
<1>7. InFlightFitsBuffer'
  <2>1. InFlight' = InFlight - n
    <3>1. CASE producer = c
      BY <1>1, <1>2, <1>3, <3>1 DEF InFlight, OtherSideLines, Elements
    <3>2. CASE producer # c
      BY <1>1, <1>2, <1>3, <3>2 DEF InFlight, OtherSideLines, Elements
    <3> QED  BY <3>1, <3>2
  <2>2. InFlight \in Int
    BY <1>1 DEF InFlight, OtherSideLines, Elements
  <2> QED  BY <2>1, <2>2, GeometryFacts DEF OrderInv, InFlightFitsBuffer
<1> QED  BY <1>5, <1>6, <1>7 DEF OrderInv

\* The customer leaves its side.
LEMMA SwitchKeepsInv ==
  ASSUME FifoInv, SwitchCustomer
  PROVE  FifoInv'
BY DEF FifoInv, HandlerTypeOK, SwitchCustomer, Opposite, Sides

\* After the frame's last entry it finds the producer where it goes.
LEMMA SwitchKeepsOrder ==
  ASSUME FifoInv, OrderInv, SwitchCustomer, LastEntryPopped(fifo[customer])
  PROVE  OrderInv' /\ customer' = producer' /\ fifo'[customer'].head = 0
<1>1. /\ customer \in Sides /\ producer \in Sides
      /\ \A s \in Sides : fifo[s].head <= fifo[s].tail
      /\ \A s \in Sides : fifo[s].head \in Nat /\ fifo[s].tail \in Nat
  BY FifoFields DEF FifoInv, OrderInv, HandlerTypeOK
<1>2. producer # customer
  BY <1>1, GeometryFacts DEF LastEntryPopped, FifoInv
<1>3. customer' = producer /\ UNCHANGED <<producer, status, fifo>>
  BY <1>1, <1>2 DEF SwitchCustomer, Opposite, Sides
<1>4. InFlight' = Elements(fifo[producer]) /\ InFlight' \in Int
  BY <1>1, <1>3 DEF InFlight, OtherSideLines, Elements
<1>5. InFlight = Elements(fifo[customer]) + Elements(fifo[producer])
  BY <1>2 DEF InFlight, OtherSideLines
<1>6. Elements(fifo[customer]) \in Int /\ Elements(fifo[customer]) >= 0
  BY <1>1 DEF Elements
<1>7. InFlightFitsBuffer'
  BY <1>3, <1>4, <1>5, <1>6, GeometryFacts DEF OrderInv, InFlightFitsBuffer
<1>8. fifo[producer].head = 0
  BY <1>2 DEF OrderInv, SidesInOrder
<1> QED  BY <1>3, <1>7, <1>8 DEF OrderInv, SidesInOrder

\* The first half of a FIFO reset: the customer drops what it has not popped.
LEMMA FollowKeepsInv ==
  ASSUME FifoInv, customer' = producer, UNCHANGED <<producer, fifo>>, status' \in Statuses
  PROVE  FifoInv' /\ (OrderInv => OrderInv')
<1>0. FifoInv'
  BY DEF FifoInv, HandlerTypeOK
<1>. SUFFICES ASSUME OrderInv PROVE OrderInv'
  BY <1>0
<1>1. /\ customer \in Sides /\ producer \in Sides
      /\ \A s \in Sides : fifo[s].head <= fifo[s].tail
      /\ \A s \in Sides : fifo[s].head \in Nat /\ fifo[s].tail \in Nat
  BY FifoFields DEF FifoInv, OrderInv, HandlerTypeOK
<1>2. InFlight' = Elements(fifo[producer]) /\ InFlight' \in Int
  BY <1>1 DEF InFlight, OtherSideLines, Elements
<1>3. InFlight = OtherSideLines + Elements(fifo[producer])
  BY DEF InFlight
<1>4. OtherSideLines \in Int /\ OtherSideLines >= 0
  BY <1>1 DEF OtherSideLines, Elements
<1>5. InFlightFitsBuffer'
  BY <1>2, <1>3, <1>4, GeometryFacts DEF OrderInv, InFlightFitsBuffer
<1> QED  BY <1>1, <1>5 DEF OrderInv, SidesInOrder

\* The whole of a FIFO reset.
LEMMA ResetKeepsInv ==
  ASSUME FifoInv, NEW base \in 0..(BufferLines - 1), ResetHandler(base), status' \in Statuses
  PROVE  FifoInv' /\ (OrderInv => OrderInv')
<1>. DEFINE p == producer
<1>1. /\ p \in Sides /\ fifo \in [Sides -> Fifos]
      /\ \A s \in Sides : fifo[s].tail <= FrameLines
  BY DEF FifoInv, HandlerTypeOK
<1>2. customer' = p /\ producer' = p /\ fifo' = [fifo EXCEPT ![p] = ResetFifo(base)]
  BY DEF ResetHandler
<1>. HIDE DEF p
<1>3. /\ \A s \in Sides \ {p} : fifo'[s] = fifo[s]
      /\ fifo'[p] = ResetFifo(base)
  BY <1>1, <1>2
<1>4. fifo'[p] \in Fifos /\ fifo'[p].head = 0 /\ fifo'[p].tail = 0
  BY <1>3, ResetFifoTyped
<1>5. HandlerTypeOK'
  BY <1>1, <1>2, <1>4, ResetFifoTyped DEF HandlerTypeOK
<1>6. /\ \A s \in Sides : fifo'[s].tail <= FrameLines
      /\ fifo'[p].tail < FrameLines
      /\ OrderInv => \A s \in Sides : fifo'[s].head <= fifo'[s].tail
  BY <1>1, <1>3, <1>4, GeometryFacts DEF OrderInv
<1>7. InFlight' = 0
  BY <1>2, <1>4 DEF InFlight, OtherSideLines, Elements
<1>8. SidesInOrder' /\ InFlightFitsBuffer'
  BY <1>2, <1>7, GeometryFacts DEF SidesInOrder, InFlightFitsBuffer
<1> QED  BY <1>2, <1>5, <1>6, <1>8 DEF FifoInv, OrderInv

\* A push that is not an overrun touches the customer's side only to add to it,
\* as long as a frame is longer than the buffer.
LEMMA PushKeepsCustomerSide ==
  ASSUME FifoInv, OrderInv, NEW element \in Nat, PushNewLine(element, FrameLines),
         producer # customer, FrameLines > BufferLines
  PROVE  /\ UNCHANGED <<producer, customer>>
         /\ fifo'[customer] = fifo[customer]
<1>. DEFINE p == producer
<1>1. /\ customer \in Sides /\ p \in Sides /\ fifo \in [Sides -> Fifos]
      /\ fifo[p].head = 0
      /\ \A s \in Sides : fifo[s].head <= fifo[s].tail
      /\ \A s \in Sides : fifo[s].head \in Nat /\ fifo[s].tail \in Nat
  BY FifoFields DEF FifoInv, OrderInv, HandlerTypeOK, SidesInOrder
<1>2. CASE UNCHANGED <<producer, fifo>>
  BY <1>2 DEF PushNewLine
<1>3. CASE fifo' = [fifo EXCEPT ![p].overflow = TRUE] /\ UNCHANGED producer
  BY <1>1, <1>3 DEF PushNewLine
<1>4. CASE EnoughSpaceToPush(fifo[p], EntryLines + OtherSideLines) /\ PushEntry(FrameLines)
  <2>1. OtherSideLines \in Nat
    BY <1>1 DEF OtherSideLines, Elements
  <2>2. fifo[p].tail + EntryLines <= BufferLines
    BY <1>1, <1>4, <2>1, GeometryFacts DEF EnoughSpaceToPush
  <2>3. fifo[p].tail + EntryLines # FrameLines
    BY <1>1, <2>2, GeometryFacts
  <2>4. fifo' = [fifo EXCEPT ![p].tail = @ + EntryLines] /\ UNCHANGED producer
    BY <1>4, <2>3 DEF PushEntry
  <2> QED  BY <1>1, <2>4 DEF PushNewLine
<1> QED  BY <1>2, <1>3, <1>4 DEF PushNewLine

\* A producer that the customer has just caught up with stays on that side for the
\* whole of its frame, as long as a frame is longer than the buffer.
LEMMA PushStaysOnSide ==
  ASSUME FifoInv, NEW element \in Nat, PushNewLine(element, FrameLines),
         producer = customer, fifo[customer].head = 0, FrameLines > BufferLines
  PROVE  UNCHANGED <<producer, customer>> /\ fifo'[customer].head = 0
<1>. DEFINE p == producer
<1>1. p \in Sides /\ fifo \in [Sides -> Fifos] /\ fifo[p].tail \in Nat /\ fifo[p].head = 0
  BY FifoFields DEF FifoInv, HandlerTypeOK
<1>2. CASE UNCHANGED <<producer, fifo>>
  BY <1>2 DEF PushNewLine
<1>3. CASE fifo' = [fifo EXCEPT ![p].overflow = TRUE] /\ UNCHANGED producer
  BY <1>1, <1>3 DEF PushNewLine, Fifos
<1>4. CASE EnoughSpaceToPush(fifo[p], EntryLines + OtherSideLines) /\ PushEntry(FrameLines)
  <2>1. OtherSideLines = 0
    BY DEF OtherSideLines
  <2>2. fifo[p].tail + EntryLines <= BufferLines
    BY <1>1, <1>4, <2>1, GeometryFacts DEF EnoughSpaceToPush
  <2>3. fifo[p].tail + EntryLines # FrameLines
    BY <1>1, <2>2, GeometryFacts
  <2>4. fifo' = [fifo EXCEPT ![p].tail = @ + EntryLines] /\ UNCHANGED producer
    BY <1>4, <2>3 DEF PushEntry
  <2>5. fifo'[p].head = 0
    BY <1>1, <2>4 DEF Fifos
  <2> QED  BY <2>4, <2>5 DEF PushNewLine
<1> QED  BY <1>2, <1>3, <1>4 DEF PushNewLine

\* A push never takes a line, nor the head, from a customer on the producer's side.
LEMMA PushKeepsProducerSide ==
  ASSUME FifoInv, NEW element \in Nat, PushNewLine(element, FrameLines), producer = customer
  PROVE  /\ UNCHANGED customer
         /\ fifo'[customer].head = fifo[customer].head /\ fifo'[customer].tail >= fifo[customer].tail
         /\ fifo'[customer].offset = fifo[customer].offset
<1>. DEFINE p == producer
            q == Opposite(producer)
<1>1. /\ p \in Sides /\ q \in Sides /\ p # q /\ fifo \in [Sides -> Fifos]
      /\ fifo[p].tail \in Nat
  BY FifoFields DEF FifoInv, HandlerTypeOK, Sides, Opposite
<1>2. UNCHANGED customer
  BY DEF PushNewLine
<1>3. CASE UNCHANGED fifo
  BY <1>1, <1>2, <1>3
<1>4. CASE fifo' = [fifo EXCEPT ![p].overflow = TRUE]
  BY <1>1, <1>2, <1>4 DEF Fifos
<1>5. CASE fifo' = [fifo EXCEPT ![p].tail = @ + EntryLines]
  BY <1>1, <1>2, <1>5, GeometryFacts DEF Fifos
<1>6. CASE SwitchProducer(FrameLines)
  <2>. DEFINE r == ResetFifo(NextBase(fifo[p], FrameLines))
  <2>1. fifo' = [fifo EXCEPT ![p].tail = @ + EntryLines, ![q] = r]
    BY <1>6 DEF SwitchProducer
  <2>. HIDE DEF r, q
  <2>2. fifo'[p] = [fifo[p] EXCEPT !.tail = @ + EntryLines]
    BY <1>1, <2>1
  <2> QED  BY <1>1, <1>2, <2>2, GeometryFacts DEF Fifos
<1> QED  BY <1>3, <1>4, <1>5, <1>6 DEF PushNewLine, PushEntry

-----------------------------------------------------------------------------
(* Whole entries. *)

\* Line numbers at which a whole entry ends.
Wholes == {k * EntryLines : k \in Nat}

\* Slots and lines are their own remainders.
LEMMA SlotIsItself ==
  ASSUME NEW n \in 0..(BufferLines - 1)
  PROVE  n % BufferLines = n
BY GeometryFacts

\* A line of the frame is itself modulo the frame, and the line after the last is the
\* first.
LEMMA LineIsItself ==
  /\ \A n \in 0..(FrameLines - 1) : n % FrameLines = n
  /\ FrameLines % FrameLines = 0
BY GeometryFacts

\* A frame of whole entries, and entry after entry.
LEMMA FrameIsWhole ==
  ASSUME FrameLines % EntryLines = 0
  PROVE  FrameLines \in Wholes
<1>1. FrameLines = (FrameLines \div EntryLines) * EntryLines
  BY GeometryFacts
<1>2. FrameLines \div EntryLines \in Nat
  BY GeometryFacts
<1> QED  BY <1>1, <1>2 DEF Wholes

\* The whole numbers of entries start at none and go on entry by entry.
LEMMA WholesGrow ==
  /\ 0 \in Wholes /\ EntryLines \in Wholes
  /\ \A n \in Wholes : n + EntryLines \in Wholes
<1>1. 0 \in Wholes
  <2>1. 0 * EntryLines = 0
    BY GeometryFacts
  <2> QED  BY <2>1 DEF Wholes
<1>2. EntryLines \in Wholes
  <2>1. 1 * EntryLines = EntryLines
    BY GeometryFacts
  <2> QED  BY <2>1 DEF Wholes
<1>3. ASSUME NEW n \in Wholes PROVE n + EntryLines \in Wholes
  <2>1. PICK k \in Nat : n = k * EntryLines
    BY DEF Wholes
  <2>2. n + EntryLines = (k + 1) * EntryLines /\ k + 1 \in Nat
    BY <2>1, GeometryFacts
  <2> QED  BY <2>2 DEF Wholes
<1> QED  BY <1>1, <1>2, <1>3

\* From one whole entry's end to a later one there is room for an entry.
LEMMA WholesApart ==
  ASSUME NEW m \in Wholes, NEW n \in Wholes, m < n
  PROVE  m + EntryLines <= n
<1>1. PICK j \in Nat : m = j * EntryLines
  BY DEF Wholes
<1>2. PICK k \in Nat : n = k * EntryLines
  BY DEF Wholes
<1>3. n \in Nat /\ m \in Nat
  BY <1>1, <1>2, GeometryFacts
<1>4. j < k
  <2>1. CASE k <= j
    <3>1. PICK d \in Nat : j = k + d
      <4>1. j = k + (j - k) /\ j - k \in Nat
        BY <2>1
      <4> QED  BY <4>1
    <3>2. m = n + d * EntryLines /\ d * EntryLines \in Nat
      BY <1>1, <1>2, <3>1, GeometryFacts
    <3> QED  BY <1>3, <3>2
  <2> QED  BY <2>1
<1>5. PICK d \in Nat : k = j + 1 + d
  <2>1. k = j + 1 + (k - j - 1) /\ k - j - 1 \in Nat
    BY <1>4
  <2> QED  BY <2>1
<1>6. n = m + EntryLines + d * EntryLines /\ d * EntryLines \in Nat
  BY <1>1, <1>2, <1>5, GeometryFacts
<1> QED  BY <1>3, <1>6, GeometryFacts

-----------------------------------------------------------------------------
(* The front end. *)

\* From the entry it took to the end of the pop no recovery goes on: it would need
\* a later run of the task.
Working == {"algorithm"} \cup PopPoints \cup DropPoints

AtHead == pc \in {"pop_head", "drop_head"}
AtStore == pc \in {"pop_store", "drop_store"}
AtCompare == pc \in {"pop_compare", "drop_compare"}
AtMismatch == pc \in {"pop_mismatch", "drop_mismatch"}

\* What a pop has read is still so when it acts on it: the lines are there, the
\* frame is at its end, the producer is where the customer has gone.
PopInv ==
  /\ OrderInv
  /\ AtHead => fifo[customer].head + entry.height <= fifo[customer].tail
  /\ AtStore => LastEntryPopped(fifo[customer])
  /\ AtCompare => customer = producer /\ fifo[customer].head = 0
  /\ ~AtMismatch
  /\ status # "frame_switch_fail"

\* The FIFO's invariant holds at every step of the interrupt handler and of the
\* task, because a reset of the FIFO and the handler's pushes exclude each
\* other: the task resets it in a recovery only, and a recovering handler does
\* not push.  A frame longer than the buffer keeps the producer from ending its
\* frame between two steps of a pop.
FrontEndInv ==
  /\ TypeOK
  /\ FifoInv
  /\ pc = "reset" => status = "recovering"
  /\ pc \in Working => status \notin {"recovering", "recovery_done"}
  /\ FrameLines > BufferLines => PopInv

\* At the start, before the first interrupt.
LEMMA FrontEndInit == Init => FrontEndInv
<1>. SUFFICES ASSUME Init PROVE FrontEndInv
  OBVIOUS
<1>1. FifoInv /\ OrderInv
  BY HandlerInitInv DEF Init
<1>2. 0 \in 0..(BufferLines - 1) /\ 0 \in 0..FrameLines
  BY GeometryFacts
<1>3. pc = "waiting" /\ status = "ok"
  BY DEF Init, HandlerInit
<1>4. TypeOK
  BY <1>1, <1>2 DEF Init, TypeOK, FifoInv, NoEntry, Entries, Points
<1>5. PopInv
  BY <1>1, <1>3 DEF PopInv, AtHead, AtStore, AtCompare, AtMismatch
<1> QED  BY <1>1, <1>3, <1>4, <1>5 DEF FrontEndInv

\* The points of a pop.
LEMMA PopSteps ==
  ASSUME NEW at, at = PopAt \/ at = DropAt, EntryDone(at)
  PROVE  /\ UNCHANGED <<hwVars, intVars, ready, entry, newBase, beState, histVars>>
         /\ pc \in PopPoints \cup DropPoints
         /\ pc' \in (PopPoints \cup DropPoints) \cup {"fe_state", "done"}
         /\ \/ /\ UNCHANGED handlerVars /\ ~AtCompare'
               /\ AtHead' => fifo[customer].head + entry.height <= fifo[customer].tail
               /\ AtStore' => LastEntryPopped(fifo[customer])
               /\ AtMismatch' => AtCompare /\ customer # producer
            \/ AtHead /\ AdvanceHead(entry.height) /\ pc' \in {"pop_test", "drop_test"}
            \/ pc' \in {"fe_state", "done"} /\ BeyondFrame(fifo[customer]) /\ FailPop
            \/ AtStore /\ SwitchCustomer /\ AtCompare'
            \/ AtMismatch /\ FailSwitch /\ pc' \in {"fe_state", "done"}
<1>1. CASE at = PopAt
  BY <1>1 DEF EntryDone, At, PopAt, PopPoints, DropPoints, AtHead, AtStore, AtCompare, AtMismatch,
     PopFifoAllowed, EnoughElementsToPop
<1>2. CASE at = DropAt
  BY <1>2 DEF EntryDone, At, DropAt, PopPoints, DropPoints, AtHead, AtStore, AtCompare, AtMismatch,
     PopFifoAllowed, EnoughElementsToPop
<1> QED  BY <1>1, <1>2

\* The handler counts what the ISP wrote modulo 2^16.  An entry it accepts as
\* one that has been written is one: it ends within the frame.
LEMMA EntryWithinFrame ==
  ASSUME TypeOK, FifoInv
  PROVE  /\ NewLines \in Nat
         /\ NewLines \in EntryLines .. 2 * EntryLines =>
              fifo[producer].tail + EntryLines <= FrameLines
<1>. DEFINE t == fifo[producer].tail
<1>1. t \in Nat /\ t <= FrameLines /\ hwLine \in Nat /\ hwLine <= FrameLines
  BY GeometryFacts, FifoFields DEF TypeOK, FifoInv, HandlerTypeOK
<1>2. FrameLines <= 8191 /\ EntryLines <= 8191
  BY GeometryAssumption
<1>. HIDE DEF t
<1>3. (hwLine - t) % 65536 = IF t <= hwLine THEN hwLine - t ELSE 65536 + hwLine - t
  BY <1>1, <1>2, GeometryFacts
<1> QED  BY <1>1, <1>2, <1>3, GeometryFacts DEF NewLines, t

\* What the back end may do in a recovery keeps its type.
LEMMA BackEndTyped ==
  ASSUME beState \in {"ok", "recovering", "recovery_done"}, BackEndUpdate
  PROVE  beState' \in {"ok", "recovering", "recovery_done"}
BY DEF BackEndUpdate, BackEndNext

\* What getNextEntry hands out is an entry.
LEMMA EntryTyped ==
  ASSUME TypeOK
  PROVE  [y |-> fifo[customer].head, height |-> NextHeight, slot |-> HeadSlot(fifo[customer])]
           \in Entries
<1>1. fifo[customer].head \in Nat /\ fifo[customer].offset \in Nat
  BY FifoFields DEF TypeOK, HandlerTypeOK
<1>2. HeadSlot(fifo[customer]) \in 0..(BufferLines - 1)
  BY <1>1, SlotInBuffer DEF HeadSlot
<1>3. NextHeight \in Nat
  BY GeometryAssumption DEF NextHeight, LastEntryLines
<1> QED  BY <1>1, <1>2, <1>3 DEF Entries

\* Where the next frame starts is a slot of the buffer.
LEMMA NextBaseTyped ==
  ASSUME HandlerTypeOK
  PROVE  NextBase(fifo[producer], FrameLines) \in 0..(BufferLines - 1)
<1>1. fifo[producer].offset \in Nat
  BY FifoFields DEF HandlerTypeOK
<1> QED  BY <1>1, SlotInBuffer, GeometryFacts DEF NextBase

-----------------------------------------------------------------------------
(* The steps. *)

\* A step that the FIFO and the task have no part in.
LEMMA OtherStep ==
  ASSUME FrontEndInv, UNCHANGED <<customer, producer, status, fifo, pc, entry>>,
         FifoInv' => TypeOK'
  PROVE  FrontEndInv'
<1>1. FifoInv' /\ (OrderInv => OrderInv')
  BY StatusKeepsInv DEF FrontEndInv, FifoInv, HandlerTypeOK
<1>2. FrameLines > BufferLines => PopInv'
  BY <1>1 DEF FrontEndInv, PopInv, AtHead, AtStore, AtCompare, AtMismatch, LastEntryPopped
<1> QED  BY <1>1, <1>2 DEF FrontEndInv

\* The ISP does not touch the FIFO.
LEMMA HwStep ==
  ASSUME FrontEndInv, HwLines \/ HwFrameEnd
  PROVE  FrontEndInv'
<1>1. /\ UNCHANGED <<customer, producer, status, fifo, pc, entry, newBase, beState, ready, torn, missed>>
      /\ late' \in BOOLEAN
  BY DEF HwLines, HwFrameEnd, HwWrite, handlerVars, taskVars, histVars, FrontEndInv, TypeOK
<1>2. /\ hwLine' \in 0..FrameLines /\ hwBase' \in 0..(BufferLines - 1) /\ hwDone' \in BOOLEAN
      /\ lineInts' \in Nat /\ frameInt' \in BOOLEAN
  <2>1. CASE HwFrameEnd
    BY <2>1 DEF HwFrameEnd, FrontEndInv, TypeOK
  <2>2. ASSUME NEW base \in 0..(BufferLines - 1), NEW line \in Nat, NEW n \in Nat,
               line + n <= FrameLines, HwWrite(base, line, n)
        PROVE  /\ hwLine' \in 0..FrameLines /\ hwBase' = base
               /\ hwDone' \in BOOLEAN /\ lineInts' \in Nat /\ frameInt' \in BOOLEAN
    <3>1. lineInts \in Nat /\ frameInt \in BOOLEAN
      BY DEF FrontEndInv, TypeOK
    <3>2. /\ hwLine' = line + n /\ hwBase' = base /\ hwDone' = FALSE
          /\ lineInts' = lineInts + 1 /\ UNCHANGED frameInt
      BY <2>2 DEF HwWrite
    <3>3. line + n \in 0..FrameLines
      BY <2>2, GeometryFacts
    <3>4. lineInts + 1 \in Nat
      BY <3>1
    <3> QED  BY <3>1, <3>2, <3>3, <3>4
  <2>3. CASE hwLine < FrameLines /\ hwLine + EntryLines <= FrameLines
             /\ HwWrite(hwBase, hwLine, EntryLines)
    BY <2>2, <2>3, GeometryFacts DEF FrontEndInv, TypeOK
  <2>4. CASE hwLine < FrameLines /\ HwWrite(hwBase, hwLine, FrameLines - hwLine)
    BY <2>2, <2>4, GeometryFacts DEF FrontEndInv, TypeOK
  <2>5. CASE HwWrite((hwBase + FrameLines) % BufferLines, 0, EntryLines)
    <3>1. (hwBase + FrameLines) % BufferLines \in 0..(BufferLines - 1)
      BY SlotInBuffer, GeometryFacts DEF FrontEndInv, TypeOK
    <3>2. EntryLines <= FrameLines
      BY GeometryAssumption
    <3> QED  BY <2>2, <2>5, <3>1, <3>2, GeometryFacts
  <2> QED  BY <2>1, <2>3, <2>4, <2>5, GeometryFacts DEF HwLines, FrontEndInv, TypeOK
<1>3. FifoInv' => TypeOK'
  BY <1>1, <1>2 DEF FrontEndInv, TypeOK, FifoInv
<1> QED  BY <1>1, <1>3, OtherStep

\* A push between two steps of a pop takes nothing back of what the pop has read.
LEMMA PushKeepsPop ==
  ASSUME FrontEndInv, PushNewLine(NewLines, FrameLines), UNCHANGED <<pc, entry>>,
         FrameLines > BufferLines
  PROVE  PopInv'
<1>1. PopInv /\ FifoInv /\ NewLines \in Nat
  BY EntryWithinFrame DEF FrontEndInv
<1>2. OrderInv'
  BY <1>1, EntryWithinFrame, PushKeepsInv DEF FrontEndInv, PopInv
<1>3. /\ customer \in Sides /\ producer \in Sides /\ entry.height \in Nat
      /\ \A s \in Sides : fifo[s].head \in Nat /\ fifo[s].tail \in Nat
      /\ \A s \in Sides : fifo'[s].head \in Nat /\ fifo'[s].tail \in Nat
  <2>1. FifoInv'
    BY <1>1, EntryWithinFrame, PushKeepsInv DEF FrontEndInv
  <2> QED  BY <1>1, <2>1, FifoFields DEF FifoInv, HandlerTypeOK, FrontEndInv, TypeOK, Entries
<1>4. ASSUME AtHead' PROVE fifo'[customer'].head + entry'.height <= fifo'[customer'].tail
  <2>1. fifo[customer].head + entry.height <= fifo[customer].tail
    BY <1>1, <1>4 DEF PopInv, AtHead
  <2>2. CASE producer = customer
    <3>1. /\ customer' = customer /\ fifo'[customer].head = fifo[customer].head
          /\ fifo'[customer].tail >= fifo[customer].tail
      BY <1>1, <2>2, PushKeepsProducerSide
    <3> QED  BY <1>3, <2>1, <3>1
  <2>3. CASE producer # customer
    <3>1. customer' = customer /\ fifo'[customer] = fifo[customer]
      BY <1>1, <2>3, PushKeepsCustomerSide DEF PopInv
    <3> QED  BY <2>1, <3>1
  <2> QED  BY <2>2, <2>3
<1>5. ASSUME AtStore' PROVE LastEntryPopped(fifo[customer])'
  <2>1. fifo[customer].head = FrameLines
    BY <1>1, <1>5 DEF PopInv, AtStore, LastEntryPopped
  <2>2. producer # customer
    BY <1>1, <1>3, <2>1, GeometryFacts DEF PopInv, OrderInv, FifoInv
  <2>3. customer' = customer /\ fifo'[customer] = fifo[customer]
    BY <1>1, <2>2, PushKeepsCustomerSide DEF PopInv
  <2> QED  BY <2>1, <2>3 DEF LastEntryPopped
<1>6. ASSUME AtCompare' PROVE customer' = producer' /\ fifo'[customer'].head = 0
  <2>1. customer = producer /\ fifo[customer].head = 0
    BY <1>1, <1>6 DEF PopInv, AtCompare
  <2> QED  BY <1>1, <2>1, PushStaysOnSide
<1>7. ~AtMismatch' /\ status' # "frame_switch_fail"
  BY <1>1 DEF PopInv, AtMismatch, PushNewLine, PushEntry
<1> QED  BY <1>2, <1>4, <1>5, <1>6, <1>7 DEF PopInv

\* The interrupt handler pushes, or its frame-done branch moves the recovery on.
LEMMA InterruptStep ==
  ASSUME FrontEndInv, Interrupt
  PROVE  FrontEndInv'
<1>1. /\ lineInts' = 0 /\ frameInt' = FALSE /\ ready' = TRUE
      /\ torn' \in BOOLEAN /\ missed' \in BOOLEAN
      /\ UNCHANGED <<late, hwLine, hwBase, hwDone, pc, entry, newBase, beState>>
  BY Zenon DEF Interrupt, FrontEndInv, TypeOK, hwVars, taskVars
<1>2. /\ FifoInv /\ TypeOK /\ (pc = "reset" => status = "recovering")
      /\ pc \in Working => status \notin {"recovering", "recovery_done"}
      /\ FrameLines > BufferLines => PopInv
      /\ status \in Statuses
  BY DEF FrontEndInv, FifoInv, HandlerTypeOK
<1>3. AtHead \/ AtStore \/ AtCompare => pc \in Working
  BY DEF AtHead, AtStore, AtCompare, Working, PopPoints, DropPoints
<1>4. FifoInv' => TypeOK'
  BY <1>1, <1>2 DEF TypeOK, FifoInv
<1>5. CASE PushNewLine(NewLines, FrameLines)
  <2>1. FifoInv'
    BY <1>2, <1>5, EntryWithinFrame, PushKeepsInv
  <2>2. status = "ok" /\ status' \in {"ok", "param_invalid", "over_flow"}
    BY <1>5 DEF PushNewLine, PushEntry
  <2>3. FrameLines > BufferLines => PopInv'
    BY <1>1, <1>5, PushKeepsPop
  <2> QED  BY <1>1, <1>2, <1>4, <2>1, <2>2, <2>3 DEF FrontEndInv
<1>6. CASE FrameDone /\ status \in {"recovering", "recovery_done"}
  <2>1. FifoInv' /\ (OrderInv => OrderInv') /\ status' \in {"ok", "recovering"}
        /\ (status = "recovering" => status' = "recovering")
    <3>1. CASE status = "recovery_done" /\ status' = "ok" /\ UNCHANGED <<customer, producer, fifo>>
      BY <1>2, <3>1, StatusKeepsInv DEF Statuses
    <3>2. CASE status = "recovering" /\ ResetHandler(NextBase(fifo[producer], FrameLines))
               /\ UNCHANGED status
      BY <1>2, <3>2, NextBaseTyped, ResetKeepsInv DEF FifoInv, Statuses
    <3> QED  BY <1>6, <3>1, <3>2 DEF FrameDone
  <2>2. ~AtHead' /\ ~AtStore' /\ ~AtCompare'
    BY <1>1, <1>2, <1>3, <1>6 DEF AtHead, AtStore, AtCompare
  <2>3. FrameLines > BufferLines => PopInv'
    BY <1>1, <1>2, <2>1, <2>2 DEF PopInv, AtMismatch
  <2> QED  BY <1>1, <1>2, <1>4, <1>6, <2>1, <2>3 DEF FrontEndInv
<1>7. CASE UNCHANGED handlerVars
  <2>1. UNCHANGED <<customer, producer, status, fifo, pc, entry>>
    BY <1>1, <1>7 DEF handlerVars
  <2> QED  BY <1>4, <2>1, OtherStep
<1> QED  BY <1>5, <1>6, <1>7 DEF Interrupt, FrameDone

\* fe.entry_done, in any of its places.
LEMMA EntryDoneStep ==
  ASSUME FrontEndInv, PopEntry \/ DropEntry
  PROVE  FrontEndInv'
<1>1. PICK at : (at = PopAt \/ at = DropAt) /\ EntryDone(at)
  BY DEF PopEntry, DropEntry
<1>2. /\ UNCHANGED <<hwLine, hwBase, hwDone, lineInts, frameInt, ready, entry, newBase, beState,
                     torn, missed, late>>
      /\ pc \in Working /\ pc' \in Points \ {"reset"}
  BY <1>1, PopSteps DEF hwVars, intVars, histVars, Working, Points, PopPoints, DropPoints
<1>3. /\ FifoInv /\ TypeOK /\ status \in Statuses \ {"recovering", "recovery_done"}
      /\ FrameLines > BufferLines => PopInv
      /\ entry.height \in Nat
  BY <1>2 DEF FrontEndInv, FifoInv, HandlerTypeOK, TypeOK, Entries
<1>4. FifoInv' => TypeOK'
  BY <1>2, <1>3 DEF TypeOK, FifoInv
<1>5. ASSUME FifoInv', status' \notin {"recovering", "recovery_done"},
             FrameLines > BufferLines => PopInv'
      PROVE  FrontEndInv'
  BY <1>2, <1>4, <1>5 DEF FrontEndInv
<1>6. CASE /\ UNCHANGED handlerVars /\ ~AtCompare'
           /\ AtHead' => fifo[customer].head + entry.height <= fifo[customer].tail
           /\ AtStore' => LastEntryPopped(fifo[customer])
           /\ AtMismatch' => AtCompare /\ customer # producer
  <2>1. UNCHANGED <<customer, producer, status, fifo>>
    BY <1>6 DEF handlerVars
  <2>2. FifoInv' /\ (OrderInv => OrderInv')
    BY <1>3, <2>1, StatusKeepsInv
  <2>3. FrameLines > BufferLines => PopInv'
    BY <1>2, <1>3, <1>6, <2>1, <2>2 DEF PopInv, LastEntryPopped
  <2> QED  BY <1>3, <1>5, <2>1, <2>2, <2>3
<1>7. CASE AtHead /\ AdvanceHead(entry.height) /\ pc' \in {"pop_test", "drop_test"}
  <2>1. FifoInv' /\ UNCHANGED status
    BY <1>3, <1>7, AdvanceKeepsInv DEF AdvanceHead
  <2>2. ~AtHead' /\ ~AtStore' /\ ~AtCompare' /\ ~AtMismatch'
    BY <1>7 DEF AtHead, AtStore, AtCompare, AtMismatch
  <2>3. FrameLines > BufferLines => PopInv'
    BY <1>3, <1>7, <2>1, <2>2, AdvanceKeepsOrder DEF PopInv
  <2> QED  BY <1>3, <1>5, <2>1, <2>3
<1>8. CASE pc' \in {"fe_state", "done"} /\ BeyondFrame(fifo[customer]) /\ FailPop
  <2>1. status' = "pop_fail" /\ UNCHANGED <<customer, producer, fifo>>
    BY <1>8 DEF FailPop
  <2>2. FifoInv' /\ (OrderInv => OrderInv')
    BY <1>3, <2>1, StatusKeepsInv DEF Statuses
  <2>3. ~AtHead' /\ ~AtStore' /\ ~AtCompare' /\ ~AtMismatch'
    BY <1>8 DEF AtHead, AtStore, AtCompare, AtMismatch
  <2>4. FrameLines > BufferLines => PopInv'
    BY <1>3, <2>1, <2>2, <2>3 DEF PopInv
  <2> QED  BY <1>5, <2>1, <2>2, <2>4
<1>9. CASE AtStore /\ SwitchCustomer /\ AtCompare'
  <2>1. FifoInv' /\ UNCHANGED status
    BY <1>3, <1>9, SwitchKeepsInv DEF SwitchCustomer
  <2>2. ~AtHead' /\ ~AtStore' /\ ~AtMismatch'
    BY <1>9 DEF AtHead, AtStore, AtCompare, AtMismatch
  <2>3. ASSUME PopInv PROVE PopInv'
    <3>1. OrderInv' /\ customer' = producer' /\ fifo'[customer'].head = 0
      BY <1>3, <1>9, <2>3, SwitchKeepsOrder DEF PopInv
    <3> QED  BY <2>1, <2>2, <2>3, <3>1 DEF PopInv
  <2> QED  BY <1>3, <1>5, <2>1, <2>3
<1>10. CASE AtMismatch /\ FailSwitch /\ pc' \in {"fe_state", "done"}
  <2>1. status' = "frame_switch_fail" /\ UNCHANGED <<customer, producer, fifo>>
    BY <1>10 DEF FailSwitch
  <2>2. FifoInv'
    BY <1>3, <2>1, StatusKeepsInv DEF Statuses
  <2>3. ~(FrameLines > BufferLines)
    BY <1>3, <1>10 DEF PopInv
  <2> QED  BY <1>5, <2>1, <2>2, <2>3
<1> QED  BY <1>1, <1>6, <1>7, <1>8, <1>9, <1>10, PopSteps

\* The steps of the task that leave the FIFO alone.
LEMMA QuietStep ==
  ASSUME FrontEndInv, pc' \in Points \ {"reset"},
         ~AtHead', ~AtStore', ~AtCompare', ~AtMismatch',
         pc' \in Working => status' \notin {"recovering", "recovery_done"},
         status' \in Statuses, status' # "frame_switch_fail" \/ UNCHANGED status,
         entry' \in Entries,
         beState' \in {"ok", "recovering", "recovery_done"},
         ready' \in BOOLEAN, torn' \in BOOLEAN,
         newBase' \in 0..(BufferLines - 1),
         UNCHANGED <<customer, producer, fifo, hwVars, intVars, missed, late>>
  PROVE  FrontEndInv'
<1>1. FifoInv' /\ (OrderInv => OrderInv')
  BY StatusKeepsInv DEF FrontEndInv
<1>2. TypeOK'
  BY <1>1 DEF FrontEndInv, TypeOK, FifoInv, hwVars, intVars
<1>3. FrameLines > BufferLines => PopInv'
  BY <1>1 DEF FrontEndInv, PopInv
<1> QED  BY <1>1, <1>2, <1>3 DEF FrontEndInv

\* The recovery: what isp_fifo_reset does in its two steps.
LEMMA RecoveryStep ==
  ASSUME FrontEndInv, CheckRecovery \/ FinishRecovery
  PROVE  FrontEndInv'
<1>1. /\ FifoInv /\ TypeOK /\ status \in Statuses
      /\ FrameLines > BufferLines => PopInv
  BY DEF FrontEndInv, FifoInv, HandlerTypeOK
<1>2. pc' \in {"reset", "done"}
  BY DEF CheckRecovery, FinishRecovery, At
<1>3. ~AtHead' /\ ~AtStore' /\ ~AtCompare' /\ ~AtMismatch' /\ pc' \notin Working
  BY <1>2 DEF AtHead, AtStore, AtCompare, AtMismatch, Working, PopPoints, DropPoints
<1>4. CASE CheckRecovery /\ pc' = "reset"
  <2>1. /\ customer' = producer /\ newBase' = NextBase(fifo[producer], FrameLines)
        /\ status = "recovering" /\ UNCHANGED <<producer, status, fifo>>
        /\ UNCHANGED <<hwLine, hwBase, hwDone, lineInts, frameInt, ready, entry, beState,
                       torn, missed, late>>
    BY <1>4 DEF CheckRecovery, At, hwVars, intVars, histVars
  <2>2. FifoInv' /\ (OrderInv => OrderInv')
    BY <1>1, <2>1, FollowKeepsInv
  <2>3. newBase' \in 0..(BufferLines - 1)
    BY <1>1, <2>1, NextBaseTyped DEF FifoInv
  <2>4. TypeOK'
    BY <1>1, <1>4, <2>1, <2>2, <2>3 DEF TypeOK, FifoInv, Points
  <2>5. FrameLines > BufferLines => PopInv'
    BY <1>1, <1>3, <2>1, <2>2 DEF PopInv
  <2> QED  BY <1>3, <1>4, <2>1, <2>2, <2>4, <2>5 DEF FrontEndInv
<1>5. CASE CheckRecovery /\ pc' # "reset"
  <2>1. pc' = "done" /\ UNCHANGED <<customer, newBase, producer, status, fifo>>
        /\ UNCHANGED <<hwVars, intVars, ready, entry, beState, torn, missed, late>>
    BY <1>5 DEF CheckRecovery, At, histVars
  <2> QED  BY <1>1, <1>3, <2>1, QuietStep DEF TypeOK, Points
<1>6. CASE FinishRecovery
  <2>1. /\ pc' = "done" /\ ResetHandler(newBase) /\ status' = "recovery_done" /\ BackEndUpdate
        /\ UNCHANGED <<hwLine, hwBase, hwDone, lineInts, frameInt, ready, entry, newBase,
                       torn, missed, late>>
    BY <1>6 DEF FinishRecovery, At, hwVars, intVars, histVars
  <2>2. FifoInv' /\ (OrderInv => OrderInv')
    BY <1>1, <2>1, ResetKeepsInv DEF TypeOK, Statuses
  <2>3. TypeOK'
    BY <1>1, <2>1, <2>2, BackEndTyped DEF TypeOK, FifoInv, Points
  <2>4. FrameLines > BufferLines => PopInv'
    BY <1>1, <1>3, <2>1, <2>2 DEF PopInv
  <2> QED  BY <1>3, <2>1, <2>2, <2>3, <2>4 DEF FrontEndInv
<1> QED  BY <1>4, <1>5, <1>6

\* A step of the hardware, of an interrupt handler or of the task.
LEMMA FrontEndNext == FrontEndInv /\ [Next]_vars => FrontEndInv'
<1>. SUFFICES ASSUME FrontEndInv, [Next]_vars PROVE FrontEndInv'
  OBVIOUS
<1>0. /\ status \in Statuses /\ entry \in Entries /\ pc \in Points
      /\ beState \in {"ok", "recovering", "recovery_done"}
      /\ ready \in BOOLEAN /\ torn \in BOOLEAN
      /\ newBase \in 0..(BufferLines - 1)
      /\ pc \in Working => status \notin {"recovering", "recovery_done"}
  BY DEF FrontEndInv, TypeOK, HandlerTypeOK
<1>. DEFINE Quiet == {"waiting", "algorithm", "pop", "drop", "be_start", "overrun", "recovering", "done"}
<1>q. ASSUME pc' \in Quiet
      PROVE  /\ pc' \in Points \ {"reset"} /\ ~AtHead' /\ ~AtStore' /\ ~AtCompare' /\ ~AtMismatch'
             /\ pc' \in Working => pc' \in {"algorithm", "pop", "drop"}
  BY <1>q DEF Points, Working, PopPoints, DropPoints, AtHead, AtStore, AtCompare, AtMismatch
<1>1. CASE HwLines \/ HwFrameEnd
  BY <1>1, HwStep
<1>2. CASE Interrupt
  BY <1>2, InterruptStep
<1>3. CASE GetNextEntry
  <2>1. entry' \in Entries
    BY <1>3, EntryTyped DEF GetNextEntry, FrontEndInv
  <2>2. /\ pc' = "algorithm" /\ torn' \in BOOLEAN /\ status = "ok"
        /\ UNCHANGED <<customer, producer, fifo, status, hwVars, intVars, ready, newBase, beState, missed, late>>
    BY <1>3 DEF GetNextEntry, CanGetEntry, At, handlerVars
  <2> QED  BY <1>0, <1>q, <2>1, <2>2, QuietStep
<1>4. CASE GetNoEntry
  <2>1. /\ pc' = "overrun" /\ (status' = "pop_fail" \/ UNCHANGED status)
        /\ UNCHANGED <<customer, producer, fifo, hwVars, intVars, ready, entry, newBase, beState, torn, missed, late>>
    BY <1>4 DEF GetNoEntry, At, histVars
  <2>2. status' \in Statuses /\ (status' # "frame_switch_fail" \/ UNCHANGED status)
    BY <1>0, <2>1 DEF Statuses
  <2> QED  BY <1>0, <1>q, <2>1, <2>2, QuietStep
<1>5. CASE AlgorithmDone
  <2>1. /\ pc = "algorithm" /\ pc' \in {"pop", "drop", "done"}
        /\ UNCHANGED <<customer, producer, fifo, status, hwVars, intVars, ready, entry, newBase, beState, torn, missed, late>>
    BY <1>5 DEF AlgorithmDone, At, handlerVars, histVars
  <2>2. status \notin {"recovering", "recovery_done"}
    BY <1>0, <2>1 DEF Working
  <2> QED  BY <1>0, <1>q, <2>1, <2>2, QuietStep
<1>6. CASE PopEntry \/ DropEntry
  BY <1>6, EntryDoneStep
<1>7. CASE CheckFrontEnd \/ StartBackEnd
  <2>1. /\ pc' \in {"be_start", "done"}
        /\ UNCHANGED <<customer, producer, fifo, status, hwVars, intVars, ready, entry, newBase, beState, torn, missed, late>>
    BY <1>7 DEF CheckFrontEnd, StartBackEnd, At, handlerVars, histVars
  <2> QED  BY <1>0, <1>q, <2>1, QuietStep
<1>8. CASE CheckOverrun
  <2>1. /\ pc' = "recovering" /\ (status' = "recovering" \/ UNCHANGED status)
        /\ UNCHANGED <<customer, producer, fifo, hwVars, intVars, ready, entry, newBase, torn, missed, late>>
    BY <1>8 DEF CheckOverrun, At, handlerVars, histVars
  <2>2. status' \in Statuses /\ (status' # "frame_switch_fail" \/ UNCHANGED status)
    BY <1>0, <2>1 DEF Statuses
  <2>3. beState' \in {"ok", "recovering", "recovery_done"}
    BY <1>0, <1>8, BackEndTyped DEF CheckOverrun
  <2> QED  BY <1>0, <1>q, <2>1, <2>2, <2>3, QuietStep
<1>9. CASE CheckRecovery \/ FinishRecovery
  BY <1>9, RecoveryStep
<1>10. CASE EndOfRun
  <2>1. entry' \in Entries /\ newBase' \in 0..(BufferLines - 1)
    BY <1>10, GeometryFacts DEF EndOfRun, NoEntry, Entries
  <2>2. /\ pc' = "waiting" /\ ready' \in BOOLEAN /\ torn' \in BOOLEAN
        /\ UNCHANGED <<customer, producer, fifo, status, hwVars, intVars, beState, missed, late>>
    BY <1>10 DEF EndOfRun, At, handlerVars
  <2> QED  BY <1>0, <1>q, <2>1, <2>2, QuietStep
<1>11. CASE BackEndRecovered
  <2>1. /\ beState' \in {"ok", "recovering", "recovery_done"}
        /\ UNCHANGED <<customer, producer, status, fifo, pc, entry, newBase, ready, torn, missed, late>>
        /\ UNCHANGED <<hwLine, hwBase, hwDone, lineInts, frameInt>>
    BY <1>0, <1>11, BackEndTyped
    DEF BackEndRecovered, handlerVars, hwVars, intVars, histVars
  <2>2. FifoInv' => TypeOK'
    BY <2>1 DEF FrontEndInv, TypeOK, FifoInv
  <2> QED  BY <2>1, <2>2, OtherStep
<1>12. CASE UNCHANGED vars
  <2>1. /\ UNCHANGED <<customer, producer, status, fifo, pc, entry, newBase, beState, ready>>
        /\ UNCHANGED <<torn, missed, late, hwLine, hwBase, hwDone, lineInts, frameInt>>
    BY <1>12 DEF vars, handlerVars, hwVars, intVars, taskVars, histVars
  <2>2. FifoInv' => TypeOK'
    BY <2>1 DEF FrontEndInv, TypeOK, FifoInv
  <2> QED  BY <2>1, <2>2, OtherStep
<1> QED
  BY <1>1, <1>2, <1>3, <1>4, <1>5, <1>6, <1>7, <1>8, <1>9, <1>10, <1>11, <1>12
  DEF Next, Task

-----------------------------------------------------------------------------
(* Theorems. *)

\* The front end's state stays in its types: every offset and every entry's
\* slot is a slot of the buffer, however frames and recoveries wrap round it.
THEOREM FrontEndTyped == Spec => []TypeOK
<1>1. FrontEndInv => TypeOK
  BY DEF FrontEndInv
<1> QED  BY <1>1, FrontEndInit, FrontEndNext, PTL DEF Spec

\* The two sides of the FIFO are always in order, through every overrun,
\* recovery and late interrupt and wherever the interrupt meets a pop, when a
\* frame is longer than the buffer.  With a buffer that holds a frame the ISP can
\* end one between two steps of ispc_pop_new_line, and reset the customer's side.
THEOREM SidesStayInOrder ==
  ASSUME FrameLines > BufferLines
  PROVE  Spec => []SidesInOrder
<1>1. FrontEndInv => SidesInOrder
  BY DEF FrontEndInv, PopInv, OrderInv
<1> QED  BY <1>1, FrontEndInit, FrontEndNext, PTL DEF Spec

\* The two frames the FIFO works on never hold more lines than the buffer, when
\* a frame is longer than that.
THEOREM InFlightStaysInBuffer ==
  ASSUME FrameLines > BufferLines
  PROVE  Spec => []InFlightFitsBuffer
<1>1. FrontEndInv => InFlightFitsBuffer
  BY DEF FrontEndInv, PopInv, OrderInv
<1> QED  BY <1>1, FrontEndInit, FrontEndNext, PTL DEF Spec

\* ispc_pop_new_line never finds the customer and the producer on sides that do
\* not match, even though the interrupt may move the producer between its test,
\* its store and its comparison: the producer would have to end its frame there,
\* and a frame longer than the buffer has no room for that.  The fault it would
\* report has no way out.
THEOREM SwitchNeverFails ==
  ASSUME FrameLines > BufferLines
  PROVE  Spec => [](status # "frame_switch_fail")
<1>1. FrontEndInv => status # "frame_switch_fail"
  BY DEF FrontEndInv, PopInv
<1> QED  BY <1>1, FrontEndInit, FrontEndNext, PTL DEF Spec

\* While nothing overruns, no line of the frame the customer is still popping is
\* given up, provided a frame is longer than the buffer: a frame that just fits
\* can be complete before the customer has left the frame before it.
THEOREM CustomerSideStaysKept ==
  ASSUME FrameLines > BufferLines
  PROVE  Spec => CustomerSideKept
<1>1. ASSUME FrontEndInv, Next, status = "ok", producer # customer
      PROVE  fifo'[customer].tail = fifo[customer].tail
  <2>1. CASE Interrupt
    <3>1. CASE PushNewLine(NewLines, FrameLines)
      BY <1>1, <3>1, EntryWithinFrame, PushKeepsCustomerSide DEF FrontEndInv, PopInv
    <3>2. CASE UNCHANGED handlerVars
      BY <3>2 DEF handlerVars
    <3> QED  BY <1>1, <2>1, <3>1, <3>2 DEF Interrupt, FrameDone, handlerVars
  <2>2. CASE PopEntry \/ DropEntry
    <3>1. PICK at : (at = PopAt \/ at = DropAt) /\ EntryDone(at)
      BY <2>2 DEF PopEntry, DropEntry
    <3>2. CASE AdvanceHead(entry.height)
      BY <1>1, <3>2, AdvanceKeepsInv DEF FrontEndInv, FifoInv, HandlerTypeOK, TypeOK, Entries
    <3>3. CASE UNCHANGED fifo
      BY <3>3
    <3> QED
      BY <3>1, <3>2, <3>3, PopSteps DEF FailPop, FailSwitch, SwitchCustomer, handlerVars
  <2>3. CASE FinishRecovery
    BY <1>1, <2>3 DEF FinishRecovery, At, FrontEndInv
  <2>4. CASE UNCHANGED fifo
    BY <2>4
  <2> QED
    BY <1>1, <2>1, <2>2, <2>3, <2>4
    DEF Next, Task, HwLines, HwFrameEnd, HwWrite, GetNextEntry, GetNoEntry, AlgorithmDone,
        CheckFrontEnd, StartBackEnd, CheckOverrun, CheckRecovery, EndOfRun, BackEndRecovered,
        handlerVars
<1>2. FrontEndInv /\ [Next]_vars =>
        [status = "ok" /\ producer # customer =>
           fifo'[customer].tail = fifo[customer].tail]_vars
  BY <1>1
<1> QED  BY <1>2, FrontEndInit, FrontEndNext, PTL DEF Spec, CustomerSideKept

-----------------------------------------------------------------------------
(***************************************************************************)
(* An ISP whose frames are of whole entries and whose interrupts are       *)
(* served in time: the FIFO and the ISP agree on the line and on the slot, *)
(* across frames, overruns, recoveries and faults, however the buffer's    *)
(* size relates to the frame's.                                            *)
(***************************************************************************)


\* Every cursor is at the end of a whole entry.
WholeEntries ==
  /\ hwLine \in Wholes /\ entry.height \in {0, EntryLines}
  /\ \A s \in Sides : fifo[s].head \in Wholes /\ fifo[s].tail \in Wholes

\* The lines of the ISP's frame that interrupts have told of.
Told == IF lineInts = 0 THEN hwLine ELSE hwLine - EntryLines

\* Where the frame starts that is being written, or, when the end of one has
\* been told of, the next.
TellingFrame == IF hwDone /\ ~frameInt THEN (hwBase + FrameLines) % BufferLines ELSE hwBase

\* What the ISP leaves to be told of.
Pending ==
  /\ lineInts \in {0, 1}
  /\ lineInts = 1 => hwLine # 0
  /\ frameInt => hwDone
  /\ hwDone => hwLine = FrameLines
  /\ hwDone /\ lineInts = 1 => frameInt

\* The line the producer is at.  A recovery waits for a frame's end, and starts
\* at a frame's beginning.
LineInv ==
  /\ FrameLines > BufferLines => status \in {"ok", "over_flow", "recovering", "recovery_done"}
  /\ status = "ok" => fifo[producer].tail = IF Told = FrameLines THEN 0 ELSE Told
  /\ status = "recovery_done" => fifo[producer].tail = 0

\* The slot it is at: a recovery that misses no frame counts the one it drops.
SlotInv ==
  /\ status = "ok" =>
       fifo[producer].offset = IF Told = FrameLines THEN (hwBase + FrameLines) % BufferLines ELSE hwBase
  /\ status \in {"over_flow", "recovering"} => fifo[producer].offset = TellingFrame
  /\ pc = "reset" => newBase = (TellingFrame + FrameLines) % BufferLines
  /\ status = "recovery_done" => fifo[producer].offset = (TellingFrame + FrameLines) % BufferLines

InTimeInv ==
  /\ FrontEndInv
  /\ WholeEntries
  /\ ~late => Pending /\ LineInv
  /\ ~late /\ ~missed => SlotInv

-----------------------------------------------------------------------------
(* The steps. *)

\* The fields that the steps below read, with their types.
LEMMA Fields ==
  ASSUME FrontEndInv
  PROVE  /\ producer \in Sides /\ customer \in Sides
         /\ hwLine \in Nat /\ hwLine <= FrameLines
         /\ hwBase \in 0..(BufferLines - 1) /\ hwDone \in BOOLEAN
         /\ lineInts \in Nat /\ frameInt \in BOOLEAN /\ missed \in BOOLEAN /\ late \in BOOLEAN
         /\ fifo \in [Sides -> Fifos]
         /\ \A s \in Sides : /\ fifo[s].head \in Nat /\ fifo[s].tail \in Nat
                             /\ fifo[s].offset \in 0..(BufferLines - 1)
                             /\ fifo[s].tail <= FrameLines
         /\ fifo[producer].tail < FrameLines
         /\ FrameLines > BufferLines => \A s \in Sides : fifo[s].head <= fifo[s].tail
<1>1. TypeOK /\ HandlerTypeOK /\ FifoInv
  BY DEF FrontEndInv, FifoInv
<1>2. \A s \in Sides : fifo[s].offset \in 0..(BufferLines - 1)
  BY <1>1 DEF HandlerTypeOK, Fifos
<1>3. FrameLines > BufferLines => \A s \in Sides : fifo[s].head <= fifo[s].tail
  BY DEF FrontEndInv, PopInv, OrderInv
<1> QED  BY <1>1, <1>2, <1>3, FifoFields, GeometryFacts DEF TypeOK, HandlerTypeOK, FifoInv

\* At the start nothing is queued and nothing is served.
LEMMA InTimeInit == Init => InTimeInv
<1>. SUFFICES ASSUME Init PROVE InTimeInv
  OBVIOUS
<1>1. FrontEndInv
  BY FrontEndInit
<1>2. /\ fifo = [s \in Sides |-> ResetFifo(0)] /\ producer = 0 /\ status = "ok"
      /\ hwLine = 0 /\ hwBase = 0 /\ hwDone = FALSE /\ lineInts = 0 /\ frameInt = FALSE /\ pc = "waiting"
      /\ entry.height = 0
  BY DEF Init, HandlerInit, NoEntry
<1>3. \A s \in Sides : fifo[s].head = 0 /\ fifo[s].tail = 0 /\ fifo[s].offset = 0
  BY <1>2 DEF ResetFifo
<1>4. WholeEntries
  BY <1>2, <1>3, WholesGrow DEF WholeEntries
<1>5. Pending /\ LineInv /\ SlotInv
  BY <1>2, <1>3, GeometryFacts DEF Pending, LineInv, SlotInv, Told, Sides
<1> QED  BY <1>1, <1>4, <1>5 DEF InTimeInv

\* The ISP: what it writes is told of before it writes on.
LEMMA HwInTime ==
  ASSUME FrameLines \in Wholes, InTimeInv, HwLines \/ HwFrameEnd
  PROVE  InTimeInv'
<1>1. FrontEndInv'
  BY HwStep DEF InTimeInv
<1>2. UNCHANGED <<customer, producer, status, fifo, pc, newBase, entry, missed>>
  BY DEF HwLines, HwFrameEnd, HwWrite, handlerVars, taskVars, histVars
<1>3. /\ hwLine \in Nat /\ hwLine <= FrameLines /\ hwLine \in Wholes /\ lineInts \in Nat
      /\ hwDone \in BOOLEAN /\ frameInt \in BOOLEAN /\ late \in BOOLEAN
      /\ fifo[producer].tail < FrameLines
  BY Fields DEF InTimeInv, WholeEntries
<1>4. CASE HwFrameEnd
  <2>1. /\ hwLine = FrameLines /\ hwDone = FALSE /\ hwDone' = TRUE /\ frameInt' = TRUE
        /\ UNCHANGED <<hwLine, hwBase, lineInts, late, missed>>
    BY <1>3, <1>4 DEF HwFrameEnd, histVars
  <2>2. Told' = Told /\ TellingFrame' = TellingFrame
    BY <2>1 DEF Told, TellingFrame
  <2>3. WholeEntries'
    BY <1>2, <2>1 DEF InTimeInv, WholeEntries
  <2>4. ~late' => Pending' /\ LineInv'
    BY <1>2, <2>1, <2>2 DEF InTimeInv, Pending, LineInv
  <2>5. ~late' /\ ~missed' => SlotInv'
    BY <1>2, <2>1, <2>2 DEF InTimeInv, SlotInv
  <2> QED  BY <1>1, <2>3, <2>4, <2>5 DEF InTimeInv
<1>5. CASE HwLines
  <2>1. \/ hwLine < FrameLines /\ HwWrite(hwBase, hwLine, EntryLines)
        \/ hwLine = FrameLines /\ hwDone /\ HwWrite((hwBase + FrameLines) % BufferLines, 0, EntryLines)
    <3>1. hwLine < FrameLines => hwLine + EntryLines <= FrameLines
      BY <1>3, WholesApart
    <3> QED  BY <1>5, <3>1 DEF HwLines
  <2>2. PICK base \in {hwBase, (hwBase + FrameLines) % BufferLines}, line \in {hwLine, 0} :
          /\ HwWrite(base, line, EntryLines)
          /\ \/ hwLine < FrameLines /\ base = hwBase /\ line = hwLine
             \/ hwLine = FrameLines /\ hwDone /\ base = (hwBase + FrameLines) % BufferLines /\ line = 0
    BY <2>1
  <2>3. /\ hwLine' = line + EntryLines /\ hwBase' = base /\ hwDone' = FALSE
        /\ lineInts' = lineInts + 1 /\ frameInt' = frameInt
        /\ late' = (late \/ lineInts > 0 \/ frameInt)
    BY <2>2 DEF HwWrite
  <2>4. line \in Wholes /\ line \in Nat
    BY <1>3, <2>2, WholesGrow
  <2>5. hwLine' \in Wholes
    BY <2>3, <2>4, WholesGrow
  <2>6. WholeEntries'
    BY <1>2, <2>5 DEF InTimeInv, WholeEntries
  <2>7. ASSUME ~late' PROVE ~late /\ lineInts = 0 /\ ~frameInt
    <3>1. ~late /\ ~(lineInts > 0) /\ ~frameInt
      BY Zenon, <2>3, <2>7
    <3> QED  BY <1>3, <3>1
  <2>8. ASSUME ~late' PROVE hwDone => hwLine = FrameLines
    BY <2>7, <2>8 DEF InTimeInv, Pending
  <2>9. ASSUME ~late' PROVE Pending'
    BY <2>3, <2>4, <2>7, <2>9, GeometryFacts DEF Pending
  <2>10. ASSUME ~late' PROVE Told' = line /\ lineInts' = 1 /\ Told = hwLine
    BY <2>3, <2>4, <2>7, <2>10, GeometryFacts DEF Told
  <2>11. ASSUME ~late' PROVE LineInv'
    <3>1. LineInv /\ Told' = line /\ Told = hwLine
      BY <2>7, <2>10, <2>11 DEF InTimeInv
    <3>2. status = "ok" => fifo[producer].tail = line
      BY <1>3, <2>2, <3>1 DEF LineInv
    <3>3. line # FrameLines
      BY <1>3, <2>2, GeometryFacts
    <3> QED  BY <1>2, <3>1, <3>2, <3>3 DEF LineInv
  <2>12. ASSUME ~late', ~missed' PROVE SlotInv'
    <3>1. SlotInv /\ Told' = line /\ Told = hwLine
      BY <1>2, <2>7, <2>10, <2>12 DEF InTimeInv
    <3>2. line # FrameLines
      BY <1>3, <2>2, GeometryFacts
    <3>3. TellingFrame' = base
      BY <2>3 DEF TellingFrame
    <3>4. TellingFrame = base
      BY <1>3, <2>2, <2>7, <2>8, <2>12, GeometryFacts DEF TellingFrame
    <3>5. status = "ok" => fifo[producer].offset = base
      BY <1>3, <2>2, <3>1, GeometryFacts DEF SlotInv
    <3> QED  BY <1>2, <2>3, <3>1, <3>2, <3>3, <3>4, <3>5 DEF SlotInv
  <2> QED  BY <1>1, <2>6, <2>9, <2>11, <2>12 DEF InTimeInv
<1> QED  BY <1>4, <1>5
\* The interrupt handler: a push takes one entry, and a frame's end that the
\* recovery does not count is missed.
LEMMA InterruptInTime ==
  ASSUME FrameLines \in Wholes, InTimeInv, Interrupt
  PROVE  InTimeInv'
<1>1. FrontEndInv'
  BY InterruptStep DEF InTimeInv
<1>2. /\ lineInts' = 0 /\ frameInt' = FALSE /\ late' = late
      /\ hwLine' = hwLine /\ hwBase' = hwBase /\ hwDone' = hwDone /\ pc' = pc /\ newBase' = newBase
      /\ entry' = entry
      /\ missed' = (missed \/ (frameInt /\ (status' = "over_flow" \/ pc = "reset")))
  BY DEF Interrupt, hwVars, taskVars
<1>3. /\ producer \in Sides /\ Opposite(producer) \in Sides
      /\ hwLine \in Nat /\ hwLine <= FrameLines
      /\ hwBase \in 0..(BufferLines - 1) /\ hwDone \in BOOLEAN
      /\ lineInts \in Nat /\ frameInt \in BOOLEAN /\ missed \in BOOLEAN /\ late \in BOOLEAN
      /\ fifo \in [Sides -> Fifos] /\ fifo[producer].tail \in Nat
      /\ fifo[producer].tail < FrameLines
  BY Fields DEF InTimeInv, Sides, Opposite
<1>. DEFINE t == fifo[producer].tail
            o == fifo[producer].offset
<1>4. NextBase(fifo[producer], FrameLines) = (o + FrameLines) % BufferLines
  BY DEF NextBase
<1>5. CASE lineInts > 0 /\ PushNewLine(NewLines, FrameLines)
  <2>1. status = "ok" /\ status' \in {"ok", "param_invalid", "over_flow"} /\ status' # "recovering"
    BY <1>5 DEF PushNewLine, PushEntry
  <2>2. \/ status' # "ok" /\ producer' = producer
           /\ \A s \in Sides : /\ fifo'[s].head = fifo[s].head /\ fifo'[s].tail = fifo[s].tail
                               /\ fifo'[s].offset = fifo[s].offset
        \/ status' = "ok" /\ PushEntry(FrameLines)
    <3>1. CASE status' = "param_invalid" /\ UNCHANGED <<producer, fifo>>
      BY <3>1
    <3>2. CASE status' = "over_flow" /\ fifo' = [fifo EXCEPT ![producer].overflow = TRUE] /\ UNCHANGED producer
      <4>1. \A s \in Sides : /\ fifo'[s].head = fifo[s].head /\ fifo'[s].tail = fifo[s].tail
                             /\ fifo'[s].offset = fifo[s].offset
        BY <1>3, <3>2 DEF Fifos
      <4> QED  BY <3>2, <4>1
    <3>3. CASE PushEntry(FrameLines)
      BY <2>1, <3>3 DEF PushEntry
    <3> QED  BY <1>5, <3>1, <3>2, <3>3 DEF PushNewLine
  <2>3. CASE status' # "ok" /\ producer' = producer
           /\ \A s \in Sides : /\ fifo'[s].head = fifo[s].head /\ fifo'[s].tail = fifo[s].tail
                               /\ fifo'[s].offset = fifo[s].offset
    <3>1. WholeEntries'
      BY <1>2, <2>3 DEF InTimeInv, WholeEntries
    <3>2. ASSUME ~late
          PROVE  lineInts = 1 /\ hwLine # 0 /\ t = hwLine - EntryLines /\ hwLine - EntryLines # FrameLines
                 /\ (hwDone => frameInt /\ hwLine = FrameLines)
      <4>1. Pending /\ LineInv
        BY <3>2 DEF InTimeInv
      <4>2. lineInts = 1 /\ hwLine # 0 /\ (hwDone => frameInt /\ hwLine = FrameLines)
        BY <1>3, <1>5, <4>1 DEF Pending
      <4>3. Told = hwLine - EntryLines /\ hwLine - EntryLines # FrameLines
        BY <1>3, <4>2, GeometryFacts DEF Told
      <4> QED  BY <2>1, <4>1, <4>2, <4>3 DEF LineInv
    <3>3. ASSUME ~late PROVE status' = "over_flow"
      <4>1. NewLines = EntryLines
        <5>1. hwLine - t = EntryLines
          BY <1>3, <3>2, <3>3, GeometryFacts
        <5>2. EntryLines % 65536 = EntryLines
          BY GeometryAssumption
        <5> QED  BY <5>1, <5>2 DEF NewLines
      <4>2. ElementAccepted(NewLines)
        BY <4>1, GeometryFacts DEF ElementAccepted
      <4> QED  BY <1>5, <2>3, <4>2 DEF PushNewLine, PushEntry
    <3>4. ASSUME ~late' PROVE Pending' /\ LineInv'
      <4>1. ~late
        BY <1>2, <3>4
      <4>2. Pending'
        BY <1>2, <3>2, <4>1 DEF Pending, InTimeInv
      <4>3. LineInv'
        BY <3>3, <4>1 DEF LineInv
      <4> QED  BY <4>2, <4>3
    <3>5. ASSUME ~late', ~missed' PROVE SlotInv'
      <4>1. ~late /\ ~missed /\ ~ (frameInt /\ status' = "over_flow")
        BY <1>2, <3>5, Zenon
      <4>2. ~frameInt /\ ~hwDone
        BY <3>2, <3>3, <4>1
      <4>3. TellingFrame' = hwBase
        BY <1>2, <4>2 DEF TellingFrame
      <4>4. o = hwBase
        <5>1. SlotInv
          BY <4>1 DEF InTimeInv
        <5>2. Told # FrameLines
          BY <3>2, <4>1 DEF Told
        <5> QED  BY <2>1, <5>1, <5>2 DEF SlotInv
      <4>5. fifo'[producer'].offset = o
        BY <1>3, <2>3
      <4>6. pc' # "reset"
        BY <1>2, <2>1 DEF InTimeInv, FrontEndInv
      <4> QED  BY <3>3, <4>1, <4>3, <4>4, <4>5, <4>6 DEF SlotInv
    <3> QED  BY <1>1, <3>1, <3>4, <3>5 DEF InTimeInv
  <2>4. CASE status' = "ok" /\ PushEntry(FrameLines)
    <3>1. CASE t + EntryLines = FrameLines
      <4>1. /\ producer' = Opposite(producer)
            /\ fifo' = [fifo EXCEPT ![producer].tail = @ + EntryLines,
                                    ![Opposite(producer)] = ResetFifo(NextBase(fifo[producer], FrameLines))]
        BY <2>4, <3>1 DEF PushEntry, SwitchProducer
      <4>2. producer # Opposite(producer)
        BY <1>3 DEF Opposite, Sides
      <4>3. fifo'[Opposite(producer)] = ResetFifo(NextBase(fifo[producer], FrameLines))
        BY <1>3, <4>1, <4>2
      <4>4. fifo'[producer].head = fifo[producer].head /\ fifo'[producer].tail = t + EntryLines
        BY <1>3, <4>1, <4>2 DEF Fifos
      <4>5. /\ fifo'[producer'].tail = 0 /\ fifo'[producer'].head = 0
            /\ fifo'[producer'].offset = (o + FrameLines) % BufferLines
        BY <1>4, <4>1, <4>3 DEF ResetFifo
      <4>6. \A s \in Sides : s = producer \/ s = Opposite(producer)
        BY <1>3 DEF Sides, Opposite
      <4>7. WholeEntries'
        BY <1>2, <1>3, <4>1, <4>4, <4>5, <4>6, WholesGrow DEF InTimeInv, WholeEntries
      <4>8. ASSUME ~late
            PROVE  Pending' /\ hwLine = FrameLines /\ Told' = FrameLines /\ Told # FrameLines
        <5>1. Pending /\ LineInv
          BY <4>8 DEF InTimeInv
        <5>2. lineInts = 1 /\ hwLine # 0
          BY <1>3, <1>5, <5>1 DEF Pending
        <5>3. Told = hwLine - EntryLines /\ Told # FrameLines
          BY <1>3, <5>2, GeometryFacts DEF Told
        <5>4. t = hwLine - EntryLines
          BY <2>1, <5>1, <5>3 DEF LineInv
        <5>5. hwLine = FrameLines
          BY <1>3, <3>1, <5>4, GeometryFacts
        <5>6. Pending'
          BY <1>2, <5>1 DEF Pending
        <5> QED  BY <1>2, <5>3, <5>5, <5>6 DEF Told
      <4>9. ASSUME ~late' PROVE Pending' /\ LineInv'
        BY <1>2, <2>4, <4>5, <4>8, <4>9 DEF LineInv
      <4>10. ASSUME ~late', ~missed' PROVE SlotInv'
        <5>1. ~late /\ ~missed
          BY <1>2, <4>10, Zenon
        <5>2. o = hwBase
          BY <2>1, <4>8, <5>1 DEF InTimeInv, SlotInv
        <5>3. pc' # "reset"
          BY <1>2, <2>1 DEF InTimeInv, FrontEndInv
        <5> QED  BY <1>2, <2>4, <4>5, <4>8, <5>1, <5>2, <5>3 DEF SlotInv
      <4> QED  BY <1>1, <4>7, <4>9, <4>10 DEF InTimeInv
    <3>2. CASE t + EntryLines # FrameLines
      <4>1. producer' = producer /\ fifo' = [fifo EXCEPT ![producer].tail = @ + EntryLines]
        BY <2>4, <3>2 DEF PushEntry
      <4>2. /\ fifo'[producer].tail = t + EntryLines /\ fifo'[producer].head = fifo[producer].head
            /\ fifo'[producer].offset = o
            /\ \A s \in Sides \ {producer} : fifo'[s] = fifo[s]
        BY <1>3, <4>1 DEF Fifos
      <4>3. WholeEntries'
        BY <1>2, <1>3, <4>2, WholesGrow DEF InTimeInv, WholeEntries
      <4>4. ASSUME ~late
            PROVE  Pending' /\ t + EntryLines = hwLine /\ hwLine # FrameLines /\ Told' = hwLine /\ Told # FrameLines
        <5>1. Pending /\ LineInv
          BY <4>4 DEF InTimeInv
        <5>2. lineInts = 1 /\ hwLine # 0
          BY <1>3, <1>5, <5>1 DEF Pending
        <5>3. Told = hwLine - EntryLines /\ Told # FrameLines
          BY <1>3, <5>2, GeometryFacts DEF Told
        <5>4. t = hwLine - EntryLines
          BY <2>1, <5>1, <5>3 DEF LineInv
        <5>5. t + EntryLines = hwLine /\ hwLine # FrameLines
          BY <1>3, <3>2, <5>4, GeometryFacts
        <5>6. Pending'
          BY <1>2, <5>1, <5>5 DEF Pending
        <5> QED  BY <1>2, <5>3, <5>5, <5>6 DEF Told
      <4>5. ASSUME ~late' PROVE Pending' /\ LineInv'
        BY <1>2, <2>4, <4>1, <4>2, <4>4, <4>5 DEF LineInv
      <4>6. ASSUME ~late', ~missed' PROVE SlotInv'
        <5>1. ~late /\ ~missed
          BY <1>2, <4>6, Zenon
        <5>2. o = hwBase
          BY <2>1, <4>4, <5>1 DEF InTimeInv, SlotInv
        <5>3. pc' # "reset"
          BY <1>2, <2>1 DEF InTimeInv, FrontEndInv
        <5> QED  BY <1>2, <2>4, <4>1, <4>2, <4>4, <5>1, <5>2, <5>3 DEF SlotInv
      <4> QED  BY <1>1, <4>3, <4>5, <4>6 DEF InTimeInv
    <3> QED  BY <3>1, <3>2
  <2> QED  BY <2>2, <2>3, <2>4
<1>6. CASE ~(lineInts > 0 /\ status = "ok") /\ UNCHANGED handlerVars /\ (frameInt => status \notin {"recovery_done", "recovering"})
  <2>1. UNCHANGED <<customer, producer, status, fifo>>
    BY <1>6 DEF handlerVars
  <2>2. WholeEntries'
    BY <1>2, <2>1 DEF InTimeInv, WholeEntries
  <2>3. ASSUME ~late PROVE Pending' /\ LineInv' /\ (status = "ok" => Told' = Told)
    <3>1. Pending /\ LineInv
      BY <2>3 DEF InTimeInv
    <3>2. status = "ok" => lineInts = 0
      BY <1>3, <1>6
    <3>3. status = "ok" => Told' = Told
      BY <1>2, <3>2 DEF Told
    <3>4. Pending'
      BY <1>2, <3>1 DEF Pending
    <3>5. LineInv'
      BY <2>1, <3>1, <3>3 DEF LineInv
    <3> QED  BY <3>3, <3>4, <3>5
  <2>4. ASSUME ~late', ~missed' PROVE SlotInv'
    <3>1. ~late /\ ~missed /\ ~ (frameInt /\ status' = "over_flow") /\ ~ (frameInt /\ pc = "reset")
      BY <1>2, <2>4, Zenon
    <3>2. SlotInv /\ LineInv /\ Pending
      BY <3>1 DEF InTimeInv
    <3>3. ASSUME ~frameInt PROVE TellingFrame' = TellingFrame
      BY <1>2, <3>3 DEF TellingFrame
    <3>4. ASSUME frameInt
          PROVE  status \notin {"over_flow", "recovering", "recovery_done"} /\ pc # "reset"
      BY <1>6, <2>1, <3>1, <3>4
    <3>5. CASE frameInt
      BY <1>2, <2>1, <2>3, <3>1, <3>2, <3>4, <3>5 DEF SlotInv
    <3>6. CASE ~frameInt
      BY <1>2, <2>1, <2>3, <3>1, <3>2, <3>3, <3>6 DEF SlotInv
    <3> QED  BY <3>5, <3>6
  <2> QED  BY <1>1, <1>2, <2>2, <2>3, <2>4 DEF InTimeInv
<1>7. CASE frameInt /\ status = "recovery_done" /\ FrameDone
  <2>1. status' = "ok" /\ UNCHANGED <<customer, producer, fifo>>
    BY <1>7 DEF FrameDone
  <2>2. WholeEntries'
    BY <1>2, <2>1 DEF InTimeInv, WholeEntries
  <2>3. ASSUME ~late PROVE Pending' /\ LineInv' /\ hwLine = FrameLines /\ Told' = FrameLines /\ t = 0
    <3>1. Pending /\ LineInv
      BY <2>3 DEF InTimeInv
    <3>2. hwLine = FrameLines /\ Pending'
      BY <1>2, <1>7, <3>1 DEF Pending
    <3>3. Told' = FrameLines
      BY <1>2, <3>2 DEF Told
    <3>4. t = 0
      BY <1>7, <3>1 DEF LineInv
    <3> QED  BY <2>1, <3>2, <3>3, <3>4 DEF LineInv
  <2>4. ASSUME ~late', ~missed' PROVE SlotInv'
    <3>1. ~late /\ ~missed /\ pc # "reset"
      BY <1>2, <1>7, <2>4, Zenon
    <3>2. SlotInv
      BY <3>1 DEF InTimeInv
    <3>3. o = (hwBase + FrameLines) % BufferLines
      BY <1>7, <3>2 DEF SlotInv, TellingFrame
    <3> QED  BY <1>2, <2>1, <2>3, <3>1, <3>3 DEF SlotInv
  <2> QED  BY <1>1, <1>2, <2>2, <2>3, <2>4 DEF InTimeInv
<1>8. CASE frameInt /\ status = "recovering" /\ FrameDone
  <2>1. status' = status /\ producer' = producer
        /\ fifo' = [fifo EXCEPT ![producer] = ResetFifo(NextBase(fifo[producer], FrameLines))]
    BY <1>8 DEF FrameDone, ResetHandler
  <2>2. /\ fifo'[producer].head = 0 /\ fifo'[producer].tail = 0
        /\ fifo'[producer].offset = (o + FrameLines) % BufferLines
        /\ \A s \in Sides \ {producer} : fifo'[s] = fifo[s]
    BY <1>3, <1>4, <2>1 DEF ResetFifo
  <2>3. WholeEntries'
    BY <1>2, <1>3, <2>2, WholesGrow DEF InTimeInv, WholeEntries
  <2>4. ASSUME ~late PROVE Pending' /\ LineInv' /\ hwDone
    <3>1. Pending /\ LineInv
      BY <2>4 DEF InTimeInv
    <3>2. hwDone /\ Pending'
      BY <1>2, <1>8, <3>1 DEF Pending
    <3> QED  BY <1>8, <2>1, <3>2 DEF LineInv
  <2>5. ASSUME ~late', ~missed' PROVE SlotInv'
    <3>1. ~late /\ ~missed /\ pc # "reset"
      BY <1>2, <1>8, <2>5, Zenon
    <3>2. SlotInv
      BY <3>1 DEF InTimeInv
    <3>3. o = hwBase
      BY <1>8, <3>2 DEF SlotInv, TellingFrame
    <3>4. TellingFrame' = (hwBase + FrameLines) % BufferLines
      BY <1>2, <2>4, <3>1 DEF TellingFrame
    <3> QED  BY <1>2, <1>8, <2>1, <2>2, <3>1, <3>3, <3>4 DEF SlotInv
  <2> QED  BY <1>1, <1>2, <2>3, <2>4, <2>5 DEF InTimeInv
<1>9. \/ lineInts > 0 /\ PushNewLine(NewLines, FrameLines)
      \/ ~(lineInts > 0 /\ status = "ok") /\ UNCHANGED handlerVars /\ (frameInt => status \notin {"recovery_done", "recovering"})
      \/ frameInt /\ status = "recovery_done" /\ FrameDone
      \/ frameInt /\ status = "recovering" /\ FrameDone
  BY DEF Interrupt, FrameDone
<1> QED  BY <1>5, <1>6, <1>7, <1>8, <1>9
\* The steps of the task: they leave the producer's cursor alone, but for what
\* isp_fifo_reset does in two steps.
LEMMA TaskKeepsCursor ==
  ASSUME InTimeInv, FrontEndInv', UNCHANGED <<producer, hwVars, intVars, missed, late>>,
         entry'.height \in {0, EntryLines},
         \A s \in Sides : /\ fifo'[s].head \in Wholes
                          /\ fifo'[s].tail = fifo[s].tail /\ fifo'[s].offset = fifo[s].offset,
         \/ status' = status /\ pc' # "reset"
         \/ status' \in {"pop_fail", "frame_switch_fail"} /\ pc' # "reset"
              /\ ~(FrameLines > BufferLines)
         \/ status = "over_flow" /\ status' = "recovering" /\ pc' # "reset"
         \/ status = "recovering" /\ status' = "recovering" /\ newBase' = NextBase(fifo[producer], FrameLines)
  PROVE  InTimeInv'
<1>1. UNCHANGED <<producer, hwLine, hwBase, hwDone, lineInts, frameInt, missed, late>>
  BY DEF hwVars, intVars
<1>2. producer \in Sides
  BY Fields DEF InTimeInv
<1>3. fifo'[producer'].tail = fifo[producer].tail /\ fifo'[producer'].offset = fifo[producer].offset
  BY <1>1, <1>2
<1>4. Told' = Told /\ TellingFrame' = TellingFrame
  BY <1>1 DEF Told, TellingFrame
<1>5. WholeEntries'
  BY <1>1 DEF InTimeInv, WholeEntries
<1>6. ASSUME ~late PROVE Pending' /\ LineInv'
  <2>1. Pending'
    BY <1>1, <1>6 DEF InTimeInv, Pending
  <2>2. LineInv
    BY <1>6 DEF InTimeInv
  <2> QED  BY <1>3, <1>4, <2>1, <2>2 DEF LineInv
<1>7. ASSUME ~late, ~missed PROVE SlotInv'
  <2>1. SlotInv
    BY <1>7 DEF InTimeInv
  <2>2. CASE status' = status /\ pc' # "reset"
    BY <1>1, <1>3, <1>4, <2>1, <2>2 DEF SlotInv
  <2>5. CASE status' \in {"pop_fail", "frame_switch_fail"} /\ pc' # "reset"
    BY <2>5 DEF SlotInv
  <2>3. CASE status = "over_flow" /\ status' = "recovering" /\ pc' # "reset"
    BY <1>1, <1>3, <1>4, <2>1, <2>3 DEF SlotInv
  <2>4. CASE status = "recovering" /\ status' = "recovering" /\ newBase' = NextBase(fifo[producer], FrameLines)
    <3>1. newBase' = (TellingFrame + FrameLines) % BufferLines
      BY <2>1, <2>4 DEF SlotInv, NextBase
    <3> QED  BY <1>1, <1>3, <1>4, <2>1, <2>4, <3>1 DEF SlotInv
  <2> QED  BY <2>2, <2>3, <2>4, <2>5
<1> QED  BY <1>1, <1>5, <1>6, <1>7 DEF InTimeInv

\* The pop of an entry, in each of its steps, leaves the hardware's side in time.
LEMMA EntryDoneInTime ==
  ASSUME InTimeInv, FrontEndInv', PopEntry \/ DropEntry
  PROVE  InTimeInv'
<1>0. PICK at : (at = PopAt \/ at = DropAt) /\ EntryDone(at)
  BY DEF PopEntry, DropEntry
<1>1. UNCHANGED <<hwVars, intVars, entry, missed, late>> /\ pc' # "reset"
  BY <1>0, PopSteps DEF PopPoints, DropPoints, histVars
<1>2. /\ \A s \in Sides : fifo[s].head \in Nat /\ fifo[s].tail \in Nat
      /\ \A s \in Sides : fifo[s].head <= FrameLines \/ ~(FrameLines > BufferLines)
      /\ customer \in Sides /\ FifoInv /\ entry.height \in Nat
  BY Fields, GeometryFacts DEF InTimeInv, FrontEndInv, TypeOK, Entries
<1>3. entry.height \in {0, EntryLines} /\ \A s \in Sides : fifo[s].head \in Wholes
  BY DEF InTimeInv, WholeEntries
<1>4. CASE UNCHANGED <<producer, status, fifo>>
  BY <1>1, <1>3, <1>4, TaskKeepsCursor
<1>5. CASE AdvanceHead(entry.height)
  <2>1. UNCHANGED <<producer, status>>
    BY <1>5 DEF AdvanceHead
  <2>2. \A s \in Sides : /\ fifo'[s].head \in {fifo[s].head, fifo[s].head + entry.height}
                         /\ fifo'[s].tail = fifo[s].tail /\ fifo'[s].offset = fifo[s].offset
    BY <1>2, <1>5, AdvanceKeepsInv
  <2>3. \A s \in Sides : fifo'[s].head \in Wholes
    <3>1. ASSUME NEW s \in Sides PROVE fifo[s].head + entry.height \in Wholes
      BY <1>2, <1>3, WholesGrow
    <3> QED  BY <1>3, <2>2, <3>1
  <2> QED  BY <1>1, <1>3, <2>1, <2>2, <2>3, TaskKeepsCursor
<1>6. CASE BeyondFrame(fifo[customer]) /\ FailPop
  <2>1. ~(FrameLines > BufferLines)
    BY <1>2, <1>6, GeometryFacts DEF BeyondFrame
  <2>2. status' = "pop_fail" /\ UNCHANGED <<producer, fifo>>
    BY <1>6 DEF FailPop
  <2> QED  BY <1>1, <1>3, <2>1, <2>2, TaskKeepsCursor
<1>7. CASE AtMismatch /\ FailSwitch
  <2>1. ~(FrameLines > BufferLines)
    BY <1>7 DEF InTimeInv, FrontEndInv, PopInv
  <2>2. status' = "frame_switch_fail" /\ UNCHANGED <<producer, fifo>>
    BY <1>7 DEF FailSwitch
  <2> QED  BY <1>1, <1>3, <2>1, <2>2, TaskKeepsCursor
<1>8. \/ UNCHANGED <<producer, status, fifo>> \/ AdvanceHead(entry.height)
      \/ BeyondFrame(fifo[customer]) /\ FailPop
      \/ AtMismatch /\ FailSwitch
  BY <1>0, PopSteps DEF handlerVars, SwitchCustomer
<1> QED  BY <1>4, <1>5, <1>6, <1>7, <1>8

\* An entry is there when lines are, and it is a whole one.
LEMMA EntryIsWhole ==
  ASSUME FrameLines % EntryLines = 0, InTimeInv
  PROVE  /\ NextHeight = EntryLines
         /\ FrameLines > BufferLines =>
              (status = "ok" /\ Elements(fifo[customer]) # 0 => CanGetEntry)
<1>1. NextHeight = EntryLines
  BY DEF NextHeight, LastEntryLines
<1>2. /\ customer \in Sides
      /\ fifo[customer].head \in Nat /\ fifo[customer].tail \in Nat
      /\ FrameLines > BufferLines => fifo[customer].head <= fifo[customer].tail
  BY Fields DEF InTimeInv
<1>3. fifo[customer].head \in Wholes /\ fifo[customer].tail \in Wholes
  BY <1>2 DEF InTimeInv, WholeEntries
<1>4. ASSUME Elements(fifo[customer]) # 0, FrameLines > BufferLines
      PROVE  fifo[customer].head + EntryLines <= fifo[customer].tail
  BY <1>2, <1>3, <1>4, WholesApart DEF Elements
<1> QED  BY <1>1, <1>4 DEF CanGetEntry, EnoughElementsToPop

\* A step of the task: it pops whole entries and leaves the interrupts to the hardware.
LEMMA TaskInTime ==
  ASSUME FrameLines % EntryLines = 0, InTimeInv, FrontEndInv', Task
  PROVE  InTimeInv'
<1>1. /\ \A s \in Sides : fifo[s].head \in Wholes
      /\ entry.height \in {0, EntryLines}
  BY DEF InTimeInv, WholeEntries
<1>2. CASE GetNextEntry
  <2>1. entry'.height = EntryLines /\ pc' # "reset"
        /\ UNCHANGED <<producer, fifo, status, hwVars, intVars, missed, late>>
    BY <1>2, EntryIsWhole DEF GetNextEntry, At, handlerVars
  <2> QED  BY <1>1, <2>1, TaskKeepsCursor
<1>3. CASE GetNoEntry
  <2>1. /\ pc' # "reset"
        /\ status' = status \/ (status' = "pop_fail" /\ ~(FrameLines > BufferLines))
        /\ UNCHANGED <<producer, fifo, hwVars, intVars, entry, missed, late>>
    BY <1>3, EntryIsWhole DEF GetNoEntry, At, histVars
  <2> QED  BY <1>1, <2>1, TaskKeepsCursor
<1>4. CASE AlgorithmDone \/ CheckFrontEnd \/ StartBackEnd
  <2>1. pc' # "reset" /\ UNCHANGED <<producer, fifo, status, hwVars, intVars, entry, missed, late>>
    BY <1>4 DEF AlgorithmDone, CheckFrontEnd, StartBackEnd, At, handlerVars, histVars
  <2> QED  BY <1>1, <2>1, TaskKeepsCursor
<1>5. CASE PopEntry \/ DropEntry
  BY <1>5, EntryDoneInTime
<1>7. CASE CheckOverrun
  <2>1. /\ pc' # "reset" /\ UNCHANGED <<producer, fifo, hwVars, intVars, entry, missed, late>>
        /\ \/ status' = status
           \/ status = "over_flow" /\ status' = "recovering"
    BY <1>7 DEF CheckOverrun, At, handlerVars, histVars
  <2> QED  BY <1>1, <2>1, TaskKeepsCursor
<1>8. CASE CheckRecovery
  <2>1. /\ UNCHANGED <<producer, fifo, status, hwVars, intVars, entry, missed, late>>
        /\ \/ pc' = "done"
           \/ status = "recovering" /\ newBase' = NextBase(fifo[producer], FrameLines)
    BY <1>8 DEF CheckRecovery, At, histVars
  <2>2. \/ status' = status /\ pc' # "reset"
        \/ status = "recovering" /\ status' = "recovering" /\ newBase' = NextBase(fifo[producer], FrameLines)
    BY <2>1
  <2> QED  BY <1>1, <2>1, <2>2, TaskKeepsCursor
<1>9. CASE FinishRecovery
  <2>1. /\ pc = "reset" /\ pc' = "done" /\ status' = "recovery_done" /\ producer' = producer
        /\ fifo' = [fifo EXCEPT ![producer] = ResetFifo(newBase)]
        /\ UNCHANGED <<hwLine, hwBase, hwDone, lineInts, frameInt, entry, missed, late>>
    BY <1>9 DEF FinishRecovery, At, ResetHandler, hwVars, intVars, histVars
  <2>2. producer \in Sides /\ fifo \in [Sides -> Fifos]
    BY Fields DEF InTimeInv
  <2>3. /\ fifo'[producer].head = 0 /\ fifo'[producer].tail = 0 /\ fifo'[producer].offset = newBase
        /\ \A s \in Sides \ {producer} : fifo'[s] = fifo[s]
    BY <2>1, <2>2 DEF ResetFifo
  <2>4. WholeEntries'
    BY <2>1, <2>3, WholesGrow DEF InTimeInv, WholeEntries
  <2>5. ASSUME ~late PROVE Pending' /\ LineInv'
    <3>1. Pending
      BY <2>5 DEF InTimeInv
    <3>2. Pending'
      BY <2>1, <3>1 DEF Pending
    <3> QED  BY <2>1, <2>3, <3>2 DEF LineInv
  <2>6. ASSUME ~late, ~missed PROVE SlotInv'
    <3>1. TellingFrame' = TellingFrame
      BY <2>1 DEF TellingFrame
    <3>2. newBase = (TellingFrame + FrameLines) % BufferLines
      BY <2>1, <2>6 DEF InTimeInv, SlotInv
    <3> QED  BY <2>1, <2>3, <3>1, <3>2 DEF SlotInv
  <2> QED  BY <2>1, <2>4, <2>5, <2>6 DEF InTimeInv
<1>10. CASE EndOfRun
  <2>1. /\ pc' # "reset" /\ UNCHANGED <<producer, fifo, status, hwVars, intVars, missed, late>>
        /\ entry'.height = 0
    BY <1>10 DEF EndOfRun, At, NoEntry, handlerVars
  <2> QED  BY <1>1, <2>1, TaskKeepsCursor
<1> QED  BY <1>2, <1>3, <1>4, <1>5, <1>7, <1>8, <1>9, <1>10 DEF Task

\* In a frame of whole entries every step of the ISP, its interrupt handler and the task
\* leaves the producer where the interrupts have told it to be, in line and in slot,
\* through dsp_process_hw_task's recovery as well.
THEOREM InTimeInductive ==
  ASSUME FrameLines % EntryLines = 0
  PROVE  Spec => []InTimeInv
<1>1. FrameLines \in Wholes
  BY FrameIsWhole
<1>2. InTimeInv /\ [Next]_vars => InTimeInv'
  <2>. SUFFICES ASSUME InTimeInv, [Next]_vars PROVE InTimeInv'
    OBVIOUS
  <2>1. FrontEndInv'
    BY FrontEndNext DEF InTimeInv
  <2>2. CASE HwLines \/ HwFrameEnd
    BY <1>1, <2>2, HwInTime
  <2>3. CASE Interrupt
    BY <1>1, <2>3, InterruptInTime
  <2>4. CASE Task
    BY <2>1, <2>4, TaskInTime
  <2>5. CASE BackEndRecovered \/ UNCHANGED vars
    <3>1. UNCHANGED <<producer, fifo, status, hwLine, hwBase, hwDone, lineInts, frameInt, entry, missed, late, pc, newBase>>
      BY <2>5 DEF BackEndRecovered, vars, handlerVars, hwVars, intVars, taskVars, histVars
    <3>2. WholeEntries'
      BY <3>1 DEF InTimeInv, WholeEntries
    <3>3. ~late' => Pending' /\ LineInv'
      BY <3>1 DEF InTimeInv, Pending, LineInv, Told
    <3>4. ~late' /\ ~missed' => SlotInv'
      BY <3>1 DEF InTimeInv, SlotInv, Told, TellingFrame
    <3> QED  BY <2>1, <3>2, <3>3, <3>4 DEF InTimeInv
  <2> QED  BY <2>2, <2>3, <2>4, <2>5 DEF Next
<1> QED  BY <1>2, InTimeInit, PTL DEF Spec

-----------------------------------------------------------------------------
(* Theorems. *)

\* isp_fifo_reset and the frame-done branches of isp_interrupt_handler bring
\* the producer back to the line that the ISP writes next, whatever overran.
THEOREM LineCursorStaysInSync ==
  ASSUME FrameLines % EntryLines = 0
  PROVE  Spec => []LineCursorInSync
<1>1. InTimeInv => LineCursorInSync
  <2>. SUFFICES ASSUME InTimeInv, status = "ok", lineInts = 0, ~late
                PROVE  fifo[producer].tail = hwLine % FrameLines
    BY DEF LineCursorInSync
  <2>1. fifo[producer].tail = IF hwLine = FrameLines THEN 0 ELSE hwLine
    BY DEF InTimeInv, LineInv, Told
  <2>2. hwLine \in Nat /\ hwLine <= FrameLines
    BY Fields DEF InTimeInv
  <2>3. hwLine = FrameLines \/ hwLine \in 0..(FrameLines - 1)
    BY <2>2, GeometryFacts
  <2> QED  BY <2>1, <2>3, LineIsItself
<1> QED  BY <1>1, InTimeInductive, PTL

\* ...and to its slot of the circular buffer, unless a frame ends unnoticed.
THEOREM SlotCursorStaysInSync ==
  ASSUME FrameLines % EntryLines = 0
  PROVE  Spec => []SlotCursorInSync
<1>1. InTimeInv => SlotCursorInSync
  <2>. SUFFICES ASSUME InTimeInv, status = "ok", lineInts = 0, ~missed, ~late
                PROVE  TailSlot(fifo[producer]) = (hwBase + hwLine) % BufferLines
    BY DEF SlotCursorInSync
  <2>1. /\ fifo[producer].tail = IF hwLine = FrameLines THEN 0 ELSE hwLine
        /\ fifo[producer].offset = IF hwLine = FrameLines THEN (hwBase + FrameLines) % BufferLines ELSE hwBase
    BY DEF InTimeInv, LineInv, SlotInv, Told
  <2>2. /\ hwLine \in Nat /\ hwBase \in Nat /\ fifo[producer].offset \in 0..(BufferLines - 1)
    BY Fields, GeometryFacts DEF InTimeInv
  <2>3. CASE hwLine = FrameLines
    <3>1. fifo[producer].tail + fifo[producer].offset = fifo[producer].offset
      BY <2>1, <2>2, <2>3, GeometryFacts
    <3>2. fifo[producer].offset % BufferLines = fifo[producer].offset
      BY <2>2, SlotIsItself
    <3> QED  BY <2>1, <2>3, <3>1, <3>2 DEF TailSlot
  <2>4. CASE hwLine # FrameLines
    <3>1. fifo[producer].tail + fifo[producer].offset = hwBase + hwLine
      BY <2>1, <2>2, <2>4
    <3> QED  BY <3>1 DEF TailSlot
  <2> QED  BY <2>3, <2>4
<1> QED  BY <1>1, InTimeInductive, PTL

\* No whole entry, in time, takes the handler to a fault that nothing leaves:
\* isp_get_next_entry's remainder, ispc_push_new_line's bad element, the pop
\* beyond the frame, the sides that do not match; provided a frame is longer
\* than the buffer.
THEOREM OnlyOverrunsFault ==
  ASSUME FrameLines % EntryLines = 0, FrameLines > BufferLines
  PROVE  Spec => []OnlyOverrunFaults
<1>1. InTimeInv => OnlyOverrunFaults
  BY DEF InTimeInv, LineInv, OnlyOverrunFaults
<1> QED  BY <1>1, InTimeInductive, PTL
-----------------------------------------------------------------------------
(* An entry that is written over while it is in use. *)

\* Where the task holds the entry it took, up to the check of the front end.
Holding == {"algorithm", "fe_state"} \cup PopPoints

\* The sides' frames follow each other round the buffer; the entry in use is
\* the customer's first; once it is torn the front end is no longer "ok", and
\* nothing but a later run of the task can bring it back.
TornInv ==
  /\ producer # customer => fifo[producer].offset = NextBase(fifo[customer], FrameLines)
  /\ ~late /\ ~missed =>
       /\ EntryInUse /\ status = "ok" =>
            /\ entry.slot = HeadSlot(fifo[customer]) /\ entry.height = EntryLines
            /\ fifo[customer].head + EntryLines <= fifo[customer].tail
       /\ pc \in Holding => status \in {"ok", "over_flow"}
       /\ pc \in Holding /\ torn => status # "ok"

\* Two line numbers less than a buffer apart have different slots.
LEMMA SlotsDiffer ==
  ASSUME NEW x \in Nat, NEW y \in Nat, x < y, y < x + BufferLines
  PROVE  x % BufferLines # y % BufferLines
<1>. SUFFICES ASSUME x % BufferLines = y % BufferLines PROVE FALSE
  OBVIOUS
<1>. DEFINE q == x \div BufferLines
            p == y \div BufferLines
            r == x % BufferLines
<1>1. q \in Nat /\ p \in Nat /\ r \in Nat /\ BufferLines \in Nat
  BY GeometryFacts
<1>2. x = BufferLines * q + r /\ y = BufferLines * p + r
  BY GeometryFacts
<1>. HIDE DEF q, p, r
<1>3. CASE p <= q
  <2>1. PICK d \in Nat : q = p + d
    <3>1. q = p + (q - p) /\ q - p \in Nat
      BY <1>1, <1>3
    <3> QED  BY <3>1
  <2>2. x = y + BufferLines * d /\ BufferLines * d \in Nat
    BY <1>1, <1>2, <2>1
  <2> QED  BY <2>2
<1>4. CASE q < p
  <2>1. PICK d \in Nat : p = q + 1 + d
    <3>1. p = q + 1 + (p - q - 1) /\ p - q - 1 \in Nat
      BY <1>1, <1>4
    <3> QED  BY <3>1
  <2>2. y = x + BufferLines + BufferLines * d /\ BufferLines * d \in Nat
    BY <1>1, <1>2, <2>1
  <2> QED  BY <1>1, <2>2
<1> QED  BY <1>1, <1>3, <1>4

\* The slot of a line does not depend on the round its base is taken of.
LEMMA SlotRound ==
  ASSUME NEW x \in Nat, NEW k \in Nat
  PROVE  ((x % BufferLines) + k) % BufferLines = (x + k) % BufferLines
<1>. DEFINE a == (x % BufferLines) + k
            q == x \div BufferLines
<1>1. q \in Nat /\ a \in Nat /\ BufferLines \in Nat /\ x = BufferLines * q + (x % BufferLines)
  BY GeometryFacts
<1>2. x + k = a + BufferLines * q
  BY <1>1, GeometryFacts
<1>3. /\ a \div BufferLines \in Nat /\ a % BufferLines \in 0..(BufferLines - 1)
      /\ a = BufferLines * (a \div BufferLines) + (a % BufferLines)
  BY <1>1, GeometryFacts
<1>. DEFINE d == (a \div BufferLines) + q
            r == a % BufferLines
<1>4. x + k = BufferLines * d + r /\ d \in Nat /\ r \in 0..(BufferLines - 1)
  BY <1>1, <1>2, <1>3, GeometryFacts
<1>. HIDE DEF d, r
<1>5. (x + k) % BufferLines = r
  <2>1. /\ (x + k) \div BufferLines \in Nat /\ (x + k) % BufferLines \in 0..(BufferLines - 1)
        /\ x + k = BufferLines * ((x + k) \div BufferLines) + ((x + k) % BufferLines)
    BY GeometryFacts
  <2>. DEFINE e == (x + k) \div BufferLines
              u == (x + k) % BufferLines
  <2>2. e \in Nat /\ u \in 0..(BufferLines - 1) /\ BufferLines * d + r = BufferLines * e + u
    BY <1>4, <2>1
  <2>. HIDE DEF e, u
  <2>3. d = e
    <3>1. ASSUME NEW m \in Nat, NEW n \in Nat, NEW v \in 0..(BufferLines - 1), NEW w \in 0..(BufferLines - 1),
                 BufferLines * m + v = BufferLines * n + w, m < n
          PROVE  FALSE
      <4>1. PICK c \in Nat : n = m + 1 + c
        <5>1. n = m + 1 + (n - m - 1) /\ n - m - 1 \in Nat
          BY <3>1
        <5> QED  BY <5>1
      <4>2. BufferLines * n = BufferLines * m + BufferLines + BufferLines * c /\ BufferLines * c \in Nat
        BY <1>1, <4>1
      <4>3. BufferLines * m \in Nat
        BY <1>1
      <4> QED  BY <1>1, <3>1, <4>2, <4>3
    <3> QED  BY <1>4, <2>2, <3>1
  <2>4. BufferLines * d \in Nat
    BY <1>1, <1>4
  <2>5. u = r
    BY <1>1, <1>4, <2>2, <2>3, <2>4
  <2> QED  BY <2>5 DEF u
<1> QED  BY <1>5 DEF r

\* Lines counted from a line or from its slot are in the same slots.
LEMMA SlotsRound ==
  ASSUME NEW x \in Nat, NEW k \in Nat, NEW n \in Nat
  PROVE  Slots((x % BufferLines) + k, n) = Slots(x + k, n)
<1>1. ASSUME NEW i \in 0..(n - 1)
      PROVE  ((x % BufferLines) + k + i) % BufferLines = (x + k + i) % BufferLines
  <2>1. k + i \in Nat /\ x % BufferLines \in Nat
    BY SlotInBuffer, GeometryFacts
  <2>2. ((x % BufferLines) + (k + i)) % BufferLines = (x + (k + i)) % BufferLines
    BY <2>1, SlotRound
  <2>3. (x % BufferLines) + k + i = (x % BufferLines) + (k + i) /\ x + k + i = x + (k + i)
    BY <2>1
  <2> QED  BY <2>2, <2>3
<1>2. Slots((x % BufferLines) + k, n) = {((x % BufferLines) + k + i) % BufferLines : i \in 0..(n - 1)}
  BY DEF Slots
<1>3. Slots(x + k, n) = {(x + k + i) % BufferLines : i \in 0..(n - 1)}
  BY DEF Slots
<1> QED  BY <1>1, <1>2, <1>3

\* Lines that follow one another within one turn of the buffer share no slot.
LEMMA SlotsApart ==
  ASSUME NEW a \in Nat, NEW b \in Nat, NEW n \in Nat, NEW m \in Nat,
         a + n <= b, b + m <= a + BufferLines
  PROVE  Slots(b, m) \cap Slots(a, n) = {}
<1>. SUFFICES ASSUME NEW i \in 0..(n - 1), NEW j \in 0..(m - 1),
                     (a + i) % BufferLines = (b + j) % BufferLines
              PROVE  FALSE
  BY DEF Slots
<1>1. a + i \in Nat /\ b + j \in Nat /\ a + i < b + j /\ b + j < a + i + BufferLines
  BY GeometryFacts
<1> QED  BY <1>1, SlotsDiffer

\* A push that the producer accepts is of lines outside the entry in use.
LEMMA PushSparesEntry ==
  ASSUME FrameLines > BufferLines, InTimeInv, TornInv, ~late, ~missed, EntryInUse, lineInts > 0,
         PushNewLine(NewLines, FrameLines), status' = "ok"
  PROVE  ServedSlots \cap Slots(entry.slot, entry.height) = {}
<1>. DEFINE c == fifo[customer]
            p == fifo[producer]
<1>1. status = "ok" /\ EnoughSpaceToPush(p, EntryLines + OtherSideLines)
  BY DEF PushNewLine
<1>2. /\ c.head \in Nat /\ c.tail \in Nat /\ c.offset \in Nat /\ c.tail <= FrameLines
      /\ p.head \in Nat /\ p.tail \in Nat /\ p.offset \in Nat
      /\ hwLine \in Nat /\ hwBase \in Nat /\ lineInts \in Nat
  BY Fields, GeometryFacts DEF InTimeInv
<1>3. entry.slot = HeadSlot(c) /\ entry.height = EntryLines /\ c.head + EntryLines <= c.tail
  BY <1>1 DEF TornInv
<1>4. lineInts = 1 /\ hwLine # 0 /\ p.tail = hwLine - EntryLines /\ p.offset = hwBase
  <2>1. Pending /\ LineInv /\ SlotInv
    BY DEF InTimeInv
  <2>2. lineInts = 1 /\ hwLine # 0
    BY <1>2, <2>1 DEF Pending
  <2>3. Told = hwLine - EntryLines /\ Told # FrameLines
    <3>1. hwLine <= FrameLines
      BY Fields DEF InTimeInv
    <3> QED  BY <1>2, <2>2, <3>1, GeometryFacts DEF Told
  <2> QED  BY <1>1, <2>1, <2>2, <2>3 DEF LineInv, SlotInv
<1>. DEFINE a == c.head + c.offset
<1>5. Slots(entry.slot, entry.height) = Slots(a, EntryLines)
  <2>1. a \in Nat /\ a % BufferLines \in Nat
    BY <1>2, SlotInBuffer, GeometryFacts
  <2>2. Slots((a % BufferLines) + 0, EntryLines) = Slots(a + 0, EntryLines)
    <3>. HIDE DEF a
    <3> QED  BY <2>1, SlotsRound, GeometryFacts
  <2>3. (a % BufferLines) + 0 = a % BufferLines /\ a + 0 = a
    <3>. HIDE DEF a
    <3> QED  BY <2>1
  <2> QED  BY <1>3, <2>2, <2>3 DEF HeadSlot
<1>6. ServedSlots = Slots(p.offset + p.tail, EntryLines)
  <2>1. hwBase + hwLine - lineInts * EntryLines = p.offset + p.tail /\ lineInts * EntryLines = EntryLines
    BY <1>2, <1>4, GeometryFacts
  <2> QED  BY <2>1 DEF ServedSlots
<1>. HIDE DEF c, p
<1>7. CASE producer = customer
  <2>1. p = c /\ OtherSideLines = 0
    BY <1>7 DEF OtherSideLines, c, p
  <2>2. c.tail + EntryLines - c.head <= BufferLines
    BY <1>1, <1>2, <2>1, GeometryFacts DEF EnoughSpaceToPush
  <2>3. a \in Nat /\ p.offset + p.tail \in Nat /\ EntryLines \in Nat
        /\ a + EntryLines <= p.offset + p.tail /\ p.offset + p.tail + EntryLines <= a + BufferLines
    BY <1>2, <1>3, <2>1, <2>2, GeometryFacts
  <2> QED  BY <1>5, <1>6, <2>3, SlotsApart
<1>8. CASE producer # customer
  <2>1. /\ OtherSideLines = c.tail - c.head /\ c.tail = FrameLines /\ p.head = 0
        /\ p.offset = (c.offset + FrameLines) % BufferLines
    BY <1>8 DEF OtherSideLines, Elements, c, p, InTimeInv, FrontEndInv, PopInv, OrderInv, SidesInOrder,
                LastEntryPushed, TornInv, NextBase
  <2>2. p.tail + (EntryLines + (FrameLines - c.head)) - 0 <= BufferLines
    <3>1. OtherSideLines = FrameLines - c.head /\ p.head = 0
      BY <2>1
    <3> QED  BY <1>1, <3>1 DEF EnoughSpaceToPush
  <2>. DEFINE b == c.offset + FrameLines + p.tail
  <2>3. Slots(p.offset + p.tail, EntryLines) = Slots(b, EntryLines)
    <3>1. PICK n \in Nat : n = c.offset + FrameLines
      BY <1>2, GeometryFacts
    <3>2. PICK k \in Nat : k = p.tail
      BY <1>2
    <3>3. Slots((n % BufferLines) + k, EntryLines) = Slots(n + k, EntryLines)
      BY SlotsRound, GeometryFacts
    <3> QED  BY <2>1, <3>1, <3>2, <3>3
  <2>4. a \in Nat /\ b \in Nat /\ EntryLines \in Nat
        /\ a + EntryLines <= b /\ b + EntryLines <= a + BufferLines
    <3>1. a \in Nat /\ b \in Nat
      BY <1>2, GeometryFacts
    <3>2. a + EntryLines <= b
      <4>1. c.head + EntryLines <= FrameLines
        BY <1>3, <2>1
      <4> QED  BY <1>2, <4>1, GeometryFacts
    <3>3. p.tail + EntryLines + FrameLines <= c.head + BufferLines
      BY <1>2, <2>2, GeometryFacts
    <3>4. b + EntryLines <= a + BufferLines
      BY <1>2, <3>3, GeometryFacts
    <3> QED  BY <3>1, <3>2, <3>4, GeometryFacts
  <2> QED  BY <1>5, <1>6, <2>3, <2>4, SlotsApart
<1> QED  BY <1>7, <1>8

\* An interrupt: a push that is accepted spares the entry in use, one that is not says
\* so.
LEMMA InterruptTears ==
  ASSUME FrameLines > BufferLines, InTimeInv, InTimeInv', TornInv, Interrupt
  PROVE  TornInv'
<1>1. /\ pc' = pc /\ entry' = entry /\ late' = late
      /\ missed' = (missed \/ (frameInt /\ (status' = "over_flow" \/ pc = "reset")))
      /\ torn' = (torn \/ (EntryInUse /\ ServedSlots \cap Slots(entry.slot, entry.height) # {}))
  BY DEF Interrupt, taskVars
<1>2. /\ producer \in Sides /\ customer \in Sides /\ Opposite(producer) \in Sides
      /\ fifo \in [Sides -> Fifos] /\ hwLine \in Nat /\ hwBase \in Nat /\ lineInts \in Nat
      /\ \A s \in Sides : /\ fifo[s].head \in Nat /\ fifo[s].tail \in Nat /\ fifo[s].offset \in Nat
                          /\ fifo[s].head <= fifo[s].tail
  BY Fields, GeometryFacts DEF InTimeInv, Sides, Opposite
<1>3. \/ lineInts > 0 /\ PushNewLine(NewLines, FrameLines)
      \/ ~(lineInts > 0 /\ status = "ok") /\ UNCHANGED <<customer, producer, fifo>>
           /\ (status' = status \/ status = "recovery_done")
      \/ status = "recovering" /\ status' = "recovering" /\ customer' = producer' /\ producer' = producer
  BY DEF Interrupt, FrameDone, ResetHandler, handlerVars
\* What a push does to the two sides.
<1>4. ASSUME PushNewLine(NewLines, FrameLines)
      PROVE  /\ status = "ok" /\ customer' = customer
             /\ status' \in {"ok", "param_invalid", "over_flow"}
             /\ \/ /\ producer' = producer
                   /\ \A s \in Sides : /\ fifo'[s].head = fifo[s].head /\ fifo'[s].offset = fifo[s].offset
                                       /\ fifo'[s].tail >= fifo[s].tail
                \/ /\ producer' = Opposite(producer) /\ fifo[producer].tail + EntryLines = FrameLines
                   /\ EnoughSpaceToPush(fifo[producer], EntryLines + OtherSideLines)
                   /\ fifo'[producer].head = fifo[producer].head /\ fifo'[producer].offset = fifo[producer].offset
                   /\ fifo'[producer].tail >= fifo[producer].tail
                   /\ fifo'[producer'].offset = NextBase(fifo[producer], FrameLines)
  <2>1. status = "ok" /\ customer' = customer /\ status' \in {"ok", "param_invalid", "over_flow"}
    BY <1>4 DEF PushNewLine, PushEntry
  <2>2. CASE UNCHANGED <<producer, fifo>>
    BY <1>2, <2>1, <2>2
  <2>3. CASE fifo' = [fifo EXCEPT ![producer].overflow = TRUE] /\ UNCHANGED producer
    <3>1. \A s \in Sides : /\ fifo'[s].head = fifo[s].head /\ fifo'[s].offset = fifo[s].offset
                           /\ fifo'[s].tail = fifo[s].tail
      BY <1>2, <2>3 DEF Fifos
    <3> QED  BY <1>2, <2>1, <2>3, <3>1
  <2>4. CASE fifo' = [fifo EXCEPT ![producer].tail = @ + EntryLines] /\ UNCHANGED producer
    <3>1. \A s \in Sides : /\ fifo'[s].head = fifo[s].head /\ fifo'[s].offset = fifo[s].offset
                           /\ fifo'[s].tail \in {fifo[s].tail, fifo[s].tail + EntryLines}
      BY <1>2, <2>4 DEF Fifos
    <3> QED  BY <1>2, <2>1, <2>4, <3>1, GeometryFacts
  <2>5. CASE SwitchProducer(FrameLines) /\ fifo[producer].tail + EntryLines = FrameLines
             /\ EnoughSpaceToPush(fifo[producer], EntryLines + OtherSideLines)
    <3>1. /\ producer' = Opposite(producer) /\ producer # Opposite(producer)
          /\ fifo' = [fifo EXCEPT ![producer].tail = @ + EntryLines,
                                  ![Opposite(producer)] = ResetFifo(NextBase(fifo[producer], FrameLines))]
      BY <1>2, <2>5 DEF SwitchProducer, Sides, Opposite
    <3>2. fifo'[producer'] = ResetFifo(NextBase(fifo[producer], FrameLines))
      BY <1>2, <3>1
    <3>3. /\ fifo'[producer].head = fifo[producer].head /\ fifo'[producer].offset = fifo[producer].offset
          /\ fifo'[producer].tail = fifo[producer].tail + EntryLines
      BY <1>2, <3>1 DEF Fifos
    <3>4. fifo'[producer'].offset = NextBase(fifo[producer], FrameLines)
      BY <3>2 DEF ResetFifo
    <3> QED  BY <1>2, <2>1, <2>5, <3>1, <3>3, <3>4, GeometryFacts
  <2> QED  BY <1>4, <2>2, <2>3, <2>4, <2>5 DEF PushNewLine, PushEntry
<1>5. producer' # customer' => fifo'[producer'].offset = NextBase(fifo'[customer'], FrameLines)
  <2>1. CASE PushNewLine(NewLines, FrameLines)
    <3>1. customer' = customer
      BY <1>4, <2>1
    <3>2. CASE /\ producer' = producer
               /\ \A s \in Sides : /\ fifo'[s].head = fifo[s].head /\ fifo'[s].offset = fifo[s].offset
                                   /\ fifo'[s].tail >= fifo[s].tail
      BY <1>2, <3>1, <3>2 DEF TornInv, NextBase
    <3>3. CASE /\ producer' = Opposite(producer)
               /\ fifo'[producer].offset = fifo[producer].offset
               /\ fifo'[producer'].offset = NextBase(fifo[producer], FrameLines)
      <4>1. producer' # customer => customer = producer
        BY <1>2, <3>3 DEF Sides, Opposite
      <4> QED  BY <3>1, <3>3, <4>1 DEF NextBase
    <3> QED  BY <1>4, <2>1, <3>2, <3>3
  <2>2. CASE UNCHANGED <<customer, producer, fifo>>
    BY <2>2 DEF TornInv
  <2> QED  BY <1>3, <2>1, <2>2
<1>6. ASSUME ~late', ~missed'
      PROVE  /\ EntryInUse' /\ status' = "ok" =>
                  /\ entry'.slot = HeadSlot(fifo'[customer']) /\ entry'.height = EntryLines
                  /\ fifo'[customer'].head + EntryLines <= fifo'[customer'].tail
             /\ pc' \in Holding => status' \in {"ok", "over_flow"}
             /\ pc' \in Holding /\ torn' => status' # "ok"
  <2>1. ~late /\ ~missed
    BY <1>1, <1>6, Zenon
  <2>2. status' \in {"ok", "over_flow", "recovering", "recovery_done"}
    BY <1>6 DEF InTimeInv, LineInv
  <2>3. pc \in Holding => status \in {"ok", "over_flow"} /\ (torn => status # "ok")
    BY <2>1 DEF TornInv
  <2>4. EntryInUse' <=> EntryInUse
    BY <1>1 DEF EntryInUse
  <2>5. EntryInUse => pc \in Holding
    BY DEF EntryInUse, Holding, PopPoints
  <2>6. pc' \in Holding => status' \in {"ok", "over_flow"}
    BY <1>1, <1>3, <1>4, <2>2, <2>3
  <2>7. ASSUME pc \in Holding, status' = "ok"
        PROVE  status = "ok" /\ ~torn
               /\ (lineInts > 0 => PushNewLine(NewLines, FrameLines))
               /\ (~(lineInts > 0) => UNCHANGED <<customer, producer, fifo>>)
    <3>1. status = "ok"
      BY <1>3, <1>4, <2>3, <2>7
    <3> QED  BY <1>3, <2>3, <2>7, <3>1
  <2>8. ASSUME EntryInUse, status' = "ok"
        PROVE  /\ entry'.slot = HeadSlot(fifo'[customer']) /\ entry'.height = EntryLines
               /\ fifo'[customer'].head + EntryLines <= fifo'[customer'].tail
    <3>1. /\ entry.slot = HeadSlot(fifo[customer]) /\ entry.height = EntryLines
          /\ fifo[customer].head + EntryLines <= fifo[customer].tail /\ status = "ok"
      BY <2>1, <2>5, <2>7, <2>8 DEF TornInv
    <3>2. CASE ~(lineInts > 0)
      BY <1>1, <2>5, <2>7, <2>8, <3>1, <3>2
    <3>3. CASE lineInts > 0
      <4>1. PushNewLine(NewLines, FrameLines)
        BY <2>5, <2>7, <2>8, <3>3
      <4>2. customer' = customer
        BY <1>4, <4>1
      <4>3. /\ fifo'[customer].head = fifo[customer].head /\ fifo'[customer].offset = fifo[customer].offset
            /\ fifo'[customer].tail >= fifo[customer].tail /\ fifo'[customer].tail \in Nat
        <5>1. fifo'[customer].tail \in Nat
          <6>1. fifo' \in [Sides -> Fifos]
            BY DEF InTimeInv, FrontEndInv, FifoInv, HandlerTypeOK
          <6>2. fifo'[customer] \in Fifos
            BY <1>2, <6>1
          <6> QED  BY <6>2, FifoFields
        <5>2. CASE producer = customer
          BY <1>2, <1>4, <4>1, <5>1, <5>2
        <5>3. CASE producer # customer
          <6>1. OtherSideLines >= EntryLines /\ OtherSideLines \in Int /\ fifo[producer].head = 0
            BY <1>2, <3>1, <5>3, GeometryFacts
            DEF OtherSideLines, Elements, InTimeInv, FrontEndInv, PopInv, OrderInv, SidesInOrder
          <6>2. ~ (/\ fifo[producer].tail + EntryLines = FrameLines
                   /\ EnoughSpaceToPush(fifo[producer], EntryLines + OtherSideLines))
            BY <1>2, <6>1, GeometryFacts DEF EnoughSpaceToPush
          <6> QED  BY <1>2, <1>4, <4>1, <5>1, <6>2
        <5> QED  BY <5>2, <5>3
      <4>4. HeadSlot(fifo'[customer']) = HeadSlot(fifo[customer])
        BY <4>2, <4>3 DEF HeadSlot
      <4>5. fifo[customer].head \in Nat /\ fifo[customer].tail \in Nat
        BY <1>2
      <4>6. fifo[customer].head + EntryLines <= fifo'[customer].tail
        BY <3>1, <4>3, <4>5, GeometryFacts
      <4> QED  BY <1>1, <3>1, <4>2, <4>3, <4>4, <4>6
    <3> QED  BY <3>2, <3>3
  <2>9. ASSUME pc \in Holding, status' = "ok" PROVE ~torn'
    <3>1. ~torn
      BY <2>7, <2>9
    <3>2. ASSUME EntryInUse PROVE ServedSlots \cap Slots(entry.slot, entry.height) = {}
      <4>1. CASE lineInts > 0
        BY <2>1, <2>7, <2>9, <3>2, <4>1, PushSparesEntry
      <4>2. CASE ~(lineInts > 0)
        <5>1. lineInts = 0 /\ lineInts * EntryLines = 0
          BY <1>2, <4>2, GeometryFacts
        <5>2. ServedSlots = {}
          BY <5>1 DEF ServedSlots, Slots
        <5> QED  BY <5>2
      <4> QED  BY <4>1, <4>2
    <3> QED  BY <1>1, <3>1, <3>2, Zenon
  <2> QED  BY <1>1, <2>4, <2>6, <2>8, <2>9
<1> QED  BY <1>5, <1>6 DEF TornInv

\* A step of the task: it takes the first entry or gives one up.
LEMMA TaskTears ==
  ASSUME FrameLines % EntryLines = 0, FrameLines > BufferLines,
         InTimeInv, InTimeInv', TornInv, Task
  PROVE  TornInv'
<1>0. ASSUME PopEntry \/ DropEntry
      PROVE  \E at : (at = PopAt \/ at = DropAt) /\ EntryDone(at)
  BY <1>0 DEF PopEntry, DropEntry
<1>1. UNCHANGED <<hwVars, intVars, missed, late, producer>>
  <2>1. CASE PopEntry \/ DropEntry
    BY <1>0, <2>1, PopSteps DEF AdvanceHead, FailPop, SwitchCustomer, FailSwitch, handlerVars, histVars
  <2> QED
    BY <2>1
    DEF Task, GetNextEntry, GetNoEntry, AlgorithmDone, CheckFrontEnd, StartBackEnd, CheckOverrun,
        CheckRecovery, FinishRecovery, ResetHandler, EndOfRun, handlerVars, histVars
<1>2. fifo \in [Sides -> Fifos] /\ producer \in Sides /\ customer \in Sides
      /\ FifoInv /\ entry.height \in Nat /\ PopInv
  BY Fields DEF InTimeInv, FrontEndInv, TypeOK, Entries
<1>3. producer' # customer' => fifo'[producer'].offset = NextBase(fifo'[customer'], FrameLines)
  <2>1. CASE PopEntry \/ DropEntry
    <3>1. CASE AdvanceHead(entry.height)
      <4>1. UNCHANGED <<customer, producer>>
        BY <3>1 DEF AdvanceHead
      <4>2. \A s \in Sides : fifo'[s].offset = fifo[s].offset
        BY <1>2, <3>1, AdvanceKeepsInv
      <4> QED  BY <1>2, <4>1, <4>2 DEF TornInv, NextBase
    <3>2. CASE AtStore /\ SwitchCustomer
      BY <1>2, <3>2, SwitchKeepsOrder DEF PopInv
    <3>3. CASE UNCHANGED <<customer, producer, fifo>>
      BY <3>3 DEF TornInv
    <3> QED  BY <1>0, <2>1, <3>1, <3>2, <3>3, PopSteps DEF FailPop, FailSwitch, handlerVars
  <2>2. CASE FinishRecovery
    BY <1>1, <2>2 DEF FinishRecovery, ResetHandler
  <2>3. CASE UNCHANGED fifo /\ customer' \in {customer, producer}
    BY <1>1, <2>3 DEF TornInv
  <2> QED
    BY <2>1, <2>2, <2>3
    DEF Task, GetNextEntry, GetNoEntry, AlgorithmDone, CheckFrontEnd, StartBackEnd, CheckOverrun,
        CheckRecovery, EndOfRun, handlerVars
<1>4. ASSUME ~late', ~missed'
      PROVE  /\ EntryInUse' /\ status' = "ok" =>
                  /\ entry'.slot = HeadSlot(fifo'[customer']) /\ entry'.height = EntryLines
                  /\ fifo'[customer'].head + EntryLines <= fifo'[customer'].tail
             /\ pc' \in Holding => status' \in {"ok", "over_flow"}
             /\ pc' \in Holding /\ torn' => status' # "ok"
  <2>1. ~late /\ ~missed
    BY <1>1, <1>4
  <2>2. CASE pc' \notin Holding
    <3>1. ~EntryInUse'
      BY <2>2 DEF EntryInUse, Holding, PopPoints
    <3> QED  BY <2>2, <3>1
  <2>3. CASE GetNextEntry
    <3>1. /\ pc' = "algorithm" /\ torn' = FALSE /\ UNCHANGED <<customer, fifo, status>>
          /\ status = "ok" /\ fifo[customer].head + NextHeight <= fifo[customer].tail
          /\ entry' = [y |-> fifo[customer].head, height |-> NextHeight, slot |-> HeadSlot(fifo[customer])]
      BY <2>3 DEF GetNextEntry, CanGetEntry, EnoughElementsToPop, At, handlerVars
    <3>2. NextHeight = EntryLines
      BY EntryIsWhole
    <3> QED  BY <3>1, <3>2
  <2>4. CASE pc \in Holding /\ UNCHANGED <<handlerVars, entry, torn>> /\ (EntryInUse' => EntryInUse)
    <3>1. UNCHANGED <<customer, producer, status, fifo, entry, torn>>
      BY <2>4 DEF handlerVars
    <3> QED  BY <2>1, <2>4, <3>1 DEF TornInv
  <2>5. CASE pc \in Holding /\ UNCHANGED <<status, torn>> /\ ~EntryInUse'
    BY <2>1, <2>5 DEF TornInv
  <2>6. pc' \notin Holding \/ GetNextEntry
          \/ (pc \in Holding /\ UNCHANGED <<handlerVars, entry, torn>> /\ (EntryInUse' => EntryInUse))
          \/ (pc \in Holding /\ UNCHANGED <<status, torn>> /\ ~EntryInUse')
    <3>1. CASE AlgorithmDone
      BY <3>1 DEF AlgorithmDone, At, Holding, PopPoints, EntryInUse, histVars
    <3>2. CASE PopEntry
      <4>1. UNCHANGED <<handlerVars, entry, torn>> \/ ~EntryInUse'
        BY <3>2 DEF PopEntry, EntryDone, PopAt, At, EntryInUse, histVars
      <4>2. pc \in PopPoints /\ (EntryInUse' => EntryInUse) /\ UNCHANGED <<entry, torn>>
        BY <3>2 DEF PopEntry, EntryDone, PopAt, PopPoints, At, EntryInUse, histVars
      <4>3. UNCHANGED status
        <5>1. EntryDone(PopAt)
          BY <3>2 DEF PopEntry
        <5>2. ~BeyondFrame(fifo[customer])
          <6>1. fifo[customer].head \in Nat /\ fifo[customer].head <= FrameLines
            BY Fields, GeometryFacts DEF InTimeInv
          <6> QED  BY <6>1, GeometryFacts DEF BeyondFrame
        <5> QED  BY <1>2, <5>1, <5>2, PopSteps DEF AdvanceHead, SwitchCustomer, PopInv, handlerVars
      <4> QED  BY <4>1, <4>2, <4>3 DEF Holding
    <3>3. CASE DropEntry
      <4>1. pc' \in DropPoints \cup {"done"}
        BY <3>3 DEF DropEntry, EntryDone, DropAt, DropPoints, At
      <4> QED  BY <4>1 DEF DropPoints, PopPoints, Holding
    <3>4. CASE GetNoEntry \/ CheckFrontEnd \/ StartBackEnd \/ CheckOverrun \/ CheckRecovery
               \/ FinishRecovery \/ EndOfRun
      BY <3>4 DEF GetNoEntry, CheckFrontEnd, StartBackEnd, CheckOverrun, CheckRecovery,
                  FinishRecovery, EndOfRun, At, Holding, PopPoints
    <3> QED  BY <3>1, <3>2, <3>3, <3>4 DEF Task
  <2> QED  BY <2>2, <2>3, <2>4, <2>5, <2>6
<1> QED  BY <1>3, <1>4 DEF TornInv

\* dsp_process_hw_task's check of the front end after the algorithm: no entry
\* that was written over while in use goes to the back end, as long as a frame
\* is longer than the buffer.
THEOREM TornEntryStaysBack ==
  ASSUME FrameLines % EntryLines = 0, FrameLines > BufferLines
  PROVE  Spec => TornEntryNotStarted
<1>1. Init => TornInv
  <2>. SUFFICES ASSUME Init PROVE TornInv
    OBVIOUS
  <2>1. producer = customer /\ pc = "waiting"
    BY DEF Init, HandlerInit
  <2> QED  BY <2>1 DEF TornInv, EntryInUse, Holding, PopPoints
<1>2. InTimeInv /\ InTimeInv' /\ TornInv /\ [Next]_vars => TornInv'
  <2>. SUFFICES ASSUME InTimeInv, InTimeInv', TornInv, [Next]_vars PROVE TornInv'
    OBVIOUS
  <2>1. CASE Interrupt
    BY <2>1, InterruptTears
  <2>2. CASE Task
    BY <2>2, TaskTears
  <2>3. CASE HwLines \/ HwFrameEnd \/ BackEndRecovered \/ UNCHANGED vars
    <3>1. UNCHANGED <<customer, producer, status, fifo, entry, pc, torn, missed>> /\ (~late' => ~late)
      <4>1. late \in BOOLEAN
        BY Fields DEF InTimeInv
      <4> QED
        BY <2>3, <4>1 DEF HwLines, HwFrameEnd, HwWrite, BackEndRecovered, vars, handlerVars, hwVars,
                          intVars, taskVars, histVars
    <3> QED  BY <3>1 DEF TornInv, EntryInUse
  <2> QED  BY <2>1, <2>2, <2>3 DEF Next
<1>3. TornInv /\ InTimeInv /\ [Next]_vars =>
        [pc = "fe_state" /\ torn /\ ~missed /\ ~late => pc' # "be_start"]_vars
  <2>. SUFFICES ASSUME TornInv, InTimeInv, Next, pc = "fe_state", torn, ~missed, ~late
                PROVE  pc' # "be_start"
    OBVIOUS
  <2>1. status # "ok"
    BY DEF TornInv, Holding
  <2>2. CASE CheckFrontEnd
    BY <2>1, <2>2 DEF CheckFrontEnd, At
  <2>3. CASE Task /\ ~CheckFrontEnd
    BY <2>3 DEF Task, GetNextEntry, GetNoEntry, AlgorithmDone, PopEntry, DropEntry, EntryDone,
                PopAt, DropAt, StartBackEnd, CheckOverrun, CheckRecovery, FinishRecovery, EndOfRun, At
  <2>4. CASE HwLines \/ HwFrameEnd \/ Interrupt \/ BackEndRecovered
    BY <2>4 DEF HwLines, HwFrameEnd, HwWrite, Interrupt, BackEndRecovered, taskVars
  <2> QED  BY <2>2, <2>3, <2>4 DEF Next
<1> QED  BY <1>1, <1>2, <1>3, InTimeInductive, PTL DEF Spec, TornEntryNotStarted
=============================================================================
