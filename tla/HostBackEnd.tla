----------------------------- MODULE HostBackEnd -----------------------------
(***************************************************************************)
(* The software back end of a task into the host (ps_front_end_wrapper.c): *)
(* a ring of the host's buffers.  A result goes to the buffer at its head  *)
(* and the host is told which one in the report, a buffer of memory with   *)
(* one word, report_id, that says whether it has been read (xrp_dsp.c).    *)
(* The host gives a buffer back with a command.                            *)
(*                                                                         *)
(* The host is external: it reads a report once it is sent, and gives back *)
(* what it has been told of, in any order, and nothing else.               *)
(***************************************************************************)
EXTENDS Integers, FiniteSets

CONSTANTS Buffers       \* the host's buffers, num_buf of them

\* What a report tells the host when it does not name the buffer of a result.
NoResults == {"none", "no_buf", "frame_drop"}

ASSUME BuffersAssumption ==
  IsFiniteSet(Buffers) /\ Buffers # {} /\ Buffers \intersect NoResults = {}

BufNum == Cardinality(Buffers)

VARIABLES
  be,             \* g_sw_be_hands[id]: head_id, valid_buf_num, status, bufs
  report,         \* the report's memory, "none" once it has been read
  reportId,       \* share_region->report_id is not 0: sent and not read
  hands,          \* the buffers the host has been told of
  lost            \* history: results overwritten before the host has read them

beVars == <<be, report, reportId, hands, lost>>

\* ps_sw_task_out_config_message_handler: the ring is what the host has given,
\* in its order.
Given == CHOOSE f \in [0 .. BufNum - 1 -> Buffers] : \A b \in Buffers : \E i \in DOMAIN f : f[i] = b

BeInit ==
  /\ be = [head |-> 0, valid |-> BufNum, status |-> "allocated", bufs |-> Given]
  /\ report = "none" /\ reportId = FALSE /\ hands = {} /\ lost = {}

\* The buffers of the ring, from its head on.
Ring == [i \in 0 .. be.valid - 1 |-> be.bufs[(be.head + i) % BufNum]]
InRing == {Ring[i] : i \in DOMAIN Ring}

\* get_sw_be_next_entry.
HasBuffer == be.status = "allocated" /\ be.valid > 0
NextBuffer == be.bufs[be.head]

\* ps_fill_report and csi_dsp_result_report: whatever the memory held is gone.
FillReport(r) ==
  /\ report' = r
  /\ lost' = lost \union ({report} \intersect Buffers)

\* sw_be_entry_start, and the report of the result it leads to: the last buffer
\* is kept, a report is not written over one that was not read... but for the
\* news that it was not.
KeepLast ==
  /\ be.status = "allocated" /\ be.valid <= 1
  /\ be' = [be EXCEPT !.status = "no_memory"]
  /\ FillReport("no_buf")

DropFrame ==
  /\ be.status = "allocated" /\ be.valid > 1 /\ reportId
  /\ FillReport("frame_drop")
  /\ UNCHANGED be

\* Mutation: the number of buffers stays.
TakeUncounted(b) ==
  /\ be.status = "allocated" /\ be.valid > 1 /\ ~reportId
  /\ be' = [be EXCEPT !.head = (@ + 1) % BufNum]
  /\ FillReport(b)

TakeBuffer(b) ==
  /\ be.status = "allocated" /\ be.valid > 1 /\ ~reportId
  /\ be' = [be EXCEPT !.head = (@ + 1) % BufNum, !.valid = @ - 1]
  /\ FillReport(b)

\* xrp_send_report.
SendReport ==
  /\ reportId' = TRUE
  /\ UNCHANGED <<be, report, hands, lost>>

\* The host reads the report.
HostReads ==
  /\ reportId
  /\ reportId' = FALSE /\ report' = "none"
  /\ hands' = hands \union ({report} \intersect Buffers)
  /\ UNCHANGED <<be, lost>>

\* sw_be_asgin_buf, for one buffer: behind the last of the ring.  More than
\* one buffer lets the back end go on.
AssignBuffer(b) ==
  LET valid == be.valid + 1
  IN  /\ be' = IF valid > BufNum THEN be
               ELSE [be EXCEPT !.bufs[(be.head + be.valid) % BufNum] = b, !.valid = valid,
                               !.status = IF @ = "no_memory" /\ valid > 1 THEN "allocated" ELSE @]
      /\ hands' = hands \ {b}
      /\ UNCHANGED <<report, reportId, lost>>
=============================================================================
