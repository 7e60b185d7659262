------------------------------ MODULE IspCommon ------------------------------
(***************************************************************************)
(* The ping-pong line FIFO shared by the ISP front end and the post-ISP    *)
(* back end (driver/common/isp_common.c and .h).                           *)
(*                                                                         *)
(* One frame of FrameLines lines passes through a circular buffer of       *)
(* BufferLines lines, EntryLines lines at a time.  The handler keeps two   *)
(* FIFO control blocks, one per "side": the producer moves to the other    *)
(* side when it has pushed a whole frame, the customer follows when it has *)
(* popped one.  A FIFO counts the lines of its frame from 0, and `offset'  *)
(* is the slot of the circular buffer where that frame starts.             *)
(*                                                                         *)
(* Addresses, strides and formats are left out; the geometry is fixed, so  *)
(* info[0], info[1] and base always agree and ispc_switch_buffer is FALSE; *)
(* for the same reason depth and max_index are the constants BufferLines   *)
(* and FrameLines.                                                         *)
(***************************************************************************)
EXTENDS Integers

CONSTANTS
  FrameLines,     \* info.line_num_per_frame
  EntryLines,     \* info.line_num_per_entry
  BufferLines     \* info.line_num_per_buffer

\* What ispc_base_info_update enforces, and the two facts it leaves to its
\* caller: a line count divides nothing by zero, an entry fits in the buffer.
ASSUME GeometryAssumption ==
  /\ FrameLines \in Nat /\ EntryLines \in Nat /\ BufferLines \in Nat
  /\ 0 < EntryLines /\ EntryLines <= FrameLines /\ EntryLines <= BufferLines
  /\ FrameLines <= 8191 /\ BufferLines <= 65535

Sides == {0, 1}
Opposite(side) == 1 - side

\* ehw_error_code, as far as the two handlers use it.
Statuses == {"ok", "param_invalid", "over_flow", "pop_fail", "frame_switch_fail",
             "recovering", "recovery_done"}

VARIABLES
  customer,       \* handler.customer_ping_pong_flag
  producer,       \* handler.produce_ping_pong_flag
  status,         \* handler.status
  fifo            \* handler.fifo[2]; overflow is EFIFO_STATUS_OVERFLOW

handlerVars == <<customer, producer, status, fifo>>

Fifos == [head : Nat, tail : Nat, offset : 0..(BufferLines - 1), overflow : BOOLEAN]

HandlerTypeOK ==
  /\ customer \in Sides
  /\ producer \in Sides
  /\ status \in Statuses
  /\ fifo \in [Sides -> Fifos]

-----------------------------------------------------------------------------
(* The FIFO. *)

\* line_num_in_last_entry: the fragment the frame ends with, if there is one.
LastEntryLines ==
  IF FrameLines % EntryLines = 0 THEN EntryLines ELSE FrameLines % EntryLines

ResetFifo(base) == [head |-> 0, tail |-> 0, offset |-> base, overflow |-> FALSE]

Elements(f) == f.tail - f.head
HeadSlot(f) == (f.head + f.offset) % BufferLines
TailSlot(f) == (f.tail + f.offset) % BufferLines
LastEntryPushed(f) == f.tail = FrameLines
LastEntryPopped(f) == f.head = FrameLines

\* Mutations: the bound is off by one entry; the check forgets the other side.
RoomForOneMore(f, n) == f.tail + n - f.head <= BufferLines + EntryLines
RoomOnThisSide(f, n) == f.tail + EntryLines - f.head <= BufferLines

EnoughSpaceToPush(f, n) == f.tail + n - f.head <= BufferLines
EnoughElementsToPop(f, n) == f.head + n <= f.tail

\* Where the next frame starts: the hardware wraps round the buffer and goes
\* on, `used' lines further.  Mutations: it starts over at the buffer's bottom;
\* one line too far; the offset is not taken round the buffer.
StartOver(f, used) == 0
OneLineOn(f, used) == (f.offset + used + 1) % BufferLines
NoWrap(f, used) == f.offset + used
NextBase(f, used) == (f.offset + used) % BufferLines

HandlerInit ==
  /\ customer = 0 /\ producer = 0
  /\ status = "ok"
  /\ fifo = [s \in Sides |-> ResetFifo(0)]

-----------------------------------------------------------------------------
(* ispc_push_new_line, run by the producer. *)

\* The lines of the customer's frame that the producer must not run over.
OtherSideLines == IF producer = customer THEN 0 ELSE Elements(fifo[customer])

\* An entry of any size is let through where the last entry is due, and it is
\* an entry of the full size that is due there.
ElementAccepted(element) ==
  \/ element \in EntryLines .. 2 * EntryLines
  \/ fifo[producer].tail = FrameLines - EntryLines

SwitchProducer(used) ==
  /\ producer' = Opposite(producer)
  /\ fifo' = [fifo EXCEPT ![producer].tail = @ + EntryLines,
                          ![Opposite(producer)] = ResetFifo(NextBase(fifo[producer], used))]

\* Mutation: it switches when the last entry is still to come.
SwitchEarly(used) ==
  /\ IF fifo[producer].tail + 2 * EntryLines >= FrameLines
       THEN SwitchProducer(used)
       ELSE /\ fifo' = [fifo EXCEPT ![producer].tail = @ + EntryLines]
            /\ UNCHANGED producer
  /\ UNCHANGED status

PushEntry(used) ==
  /\ IF fifo[producer].tail + EntryLines = FrameLines
       THEN SwitchProducer(used)
       ELSE /\ fifo' = [fifo EXCEPT ![producer].tail = @ + EntryLines]
            /\ UNCHANGED producer
  /\ UNCHANGED status

PushNewLine(element, used) ==
  /\ status = "ok"
  /\ UNCHANGED customer
  /\ \/ /\ ~ElementAccepted(element)
        /\ status' = "param_invalid"
        /\ UNCHANGED <<producer, fifo>>
     \/ /\ ElementAccepted(element)
        /\ ~EnoughSpaceToPush(fifo[producer], EntryLines + OtherSideLines)
        /\ status' = "over_flow"
        /\ fifo' = [fifo EXCEPT ![producer].overflow = TRUE]
        /\ UNCHANGED producer
     \/ /\ ElementAccepted(element)
        /\ EnoughSpaceToPush(fifo[producer], EntryLines + OtherSideLines)
        /\ PushEntry(used)

-----------------------------------------------------------------------------
(* ispc_pop_new_line, run by the customer.  ISP_DISABLE_INTS is empty, so    *)
(* the interrupt of the other end may come between any two of its reads and  *)
(* writes: the caller's program counter keeps the order of the steps below.  *)

\* The two early returns; their complement lets the pop go on.
PopAllowed == status = "ok" /\ Elements(fifo[customer]) # 0

\* The checks of pop_fifo.  Its result is tested with `< 0', which no Eisp_bool
\* is, so a pop that takes nothing goes on like one that does.
PopFifoAllowed(n) ==
  ~fifo[customer].overflow /\ EnoughElementsToPop(fifo[customer], n)

\* ptr->head += element, one step: a handler leaves the head of the customer's
\* side alone.  The producer that resets that side (CustomerSideKept) needs a
\* buffer of a whole frame, where no more than its type is claimed of a head.
AdvanceHead(n) ==
  /\ fifo' = [fifo EXCEPT ![customer].head = @ + n]
  /\ UNCHANGED <<customer, producer, status>>

\* A head beyond the frame (its last entry was pushed longer than it is).
BeyondFrame(f) == f.head > FrameLines

FailPop ==
  /\ status' = "pop_fail"
  /\ UNCHANGED <<customer, producer, fifo>>

\* After the frame's last entry the customer follows the producer to the other
\* side; finding the producer anywhere else is an error.
SwitchCustomer ==
  /\ customer' = Opposite(customer)
  /\ UNCHANGED <<producer, status, fifo>>

FailSwitch ==
  /\ status' = "frame_switch_fail"
  /\ UNCHANGED <<customer, producer, fifo>>

-----------------------------------------------------------------------------
(* isp_fifo_reset and post_isp_fifo_reset have no lock against the handler's *)
(* interrupt: `base' is read in one step and written in another.             *)

ResetHandler(base) ==
  /\ customer' = producer
  /\ fifo' = [fifo EXCEPT ![producer] = ResetFifo(base)]
  /\ UNCHANGED producer

-----------------------------------------------------------------------------
(* Properties of a handler, whichever end of the pipeline it serves. *)

\* The lines pushed and not popped, on both sides.
InFlight == OtherSideLines + Elements(fifo[producer])

\* The handler serves one frame ahead at most: the producer is either on the
\* customer's side, or one side further with the customer's frame complete.
SidesInOrder ==
  producer # customer => /\ LastEntryPushed(fifo[customer])
                         /\ fifo[producer].head = 0

\* ispc_push_new_line never accepts more lines than the buffer holds, counted
\* over both frames the FIFO is working on.
InFlightFitsBuffer == InFlight <= BufferLines
=============================================================================
