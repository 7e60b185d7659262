---------------------------- MODULE TileTransfer ----------------------------
(***************************************************************************)
(* Transfers of two-dimensional tiles on one iDMA channel of the tile      *)
(* manager (TileManager/src/tileManager.c).  A request clips the tile to   *)
(* its frame and posts copies, which the iDMA carries out in order; what   *)
(* lies beyond the frame is padded by the processor when it finds the tile *)
(* done.  A request may take what it shares with another tile from there.  *)
(*                                                                         *)
(* The unit is a pixel, and what a pixel shows is the <<row, column>> of   *)
(* the frame that it came from.  The iDMA and the application are external:*)
(* the application requests a tile when it is ready and free, reuses a     *)
(* tile that it has not worked on, asks for an interrupt, pads what it     *)
(* requested with a Fast function, and does nothing more after an error.   *)
(***************************************************************************)
EXTENDS TileGeometry, Sequences, FiniteSets

CONSTANTS
  NumTiles, QueueLength,     \* MAX_NUM_DMA_QUEUE_LENGTH
  FrameHeight, FrameWidth, TileHeight, TileWidth,
  Edged, Edge,               \* the tiles that have edges, and how wide they are
  FramePads, Paddings,       \* what the frame may be set up with
  PadSign,                   \* 2^7: what an int8_t pad takes for negative
  Vector,                    \* pixels that one vector store writes
  Xs, Ys, Origin,            \* bound: where tiles are requested, counted from -Origin
  Requests,                  \* the functions that the application calls
  Faults                     \* whether the iDMA may fail

ASSUME TransferAssumption ==
  /\ {NumTiles, QueueLength, FrameHeight, FrameWidth, TileHeight, TileWidth,
      PadSign, Vector} \subseteq Nat \ {0}
  /\ NumTiles <= QueueLength
  /\ {Edge, Origin} \cup FramePads \cup Xs \cup Ys \subseteq Nat
  /\ Paddings \subseteq {"edge", "const"}
  /\ Requests \subseteq {"in", "reuse", "fast", "predicated", "out", "outFast",
                         "outPredicated", "outBeyond", "fastBeyond"}
  /\ Faults \in BOOLEAN

\* Pads are uint8_t; edges and what is cut off are kept in int16_t.
ASSUME TransferFieldsAssumption ==
  /\ \A n \in FramePads : n < 2 * PadSign
  /\ \A n \in {TileHeight + 2 * Edge, TileWidth + 2 * Edge} : n < 2^15

Tiles == 0 .. NumTiles - 1
None == NumTiles
NoCall == [tile |-> None, sleeps |-> FALSE, at |-> "look"]
Const == <<"const">>   \* the padding value
Old == <<"old">>       \* anything else
Sides == {"top", "bottom", "left", "right"}   \* XV_TILE_STATUS_EDGE_PADDING_NEEDED

VARIABLES
  frame,        \* [pad, padding] of the frame, the same for all tiles
  pos,          \* x and y
  status,       \* the flags that are set: Sides, "ongoing" and "dummy"
  prev,         \* pPrevTile
  reuseCount,
  dmaIndex,     \* descriptors of fifo up to the tile's last one; 0: it is done
  start, pending, queue,     \* tileDMAstartIndex, tileDMApendingCount, tileProcQueue
  data,         \* the pixels of the tiles
  fifo,         \* descriptors that the iDMA has to carry out
  errorFlag,    \* idmaErrorFlag
  waiter,       \* the application's call of a wait or sleep function
  interrupt,    \* an interrupt is pending while they are disabled
  holds,        \* history: the request that filled the tile, or "junk"
  overrun       \* history: a padding has been written outside its tile

queueVars == <<start, pending, queue>>
tileVars == <<pos, status, prev, reuseCount, dmaIndex, data, holds>>
waitVars == <<waiter, interrupt>>
vars == <<frame, tileVars, queueVars, fifo, errorFlag, waitVars, overrun>>

EdgeOf(t) == IF t \in Edged THEN Edge ELSE 0
Height(t) == TileHeight + 2 * EdgeOf(t)
Width(t) == TileWidth + 2 * EdgeOf(t)
Cells(t) == (0 .. Height(t) - 1) \X (0 .. Width(t) - 1)

\* The frame's pads, uint8_t, in an int8_t.
Pad(p) == IF p >= PadSign THEN p - 2 * PadSign ELSE p

-----------------------------------------------------------------------------
(* What a request transfers. *)

Rows(t, xy, p) == Clip(xy[2] - EdgeOf(t), xy[2] + TileHeight - 1 + EdgeOf(t), FrameHeight, p)
Cols(t, xy, p) == Clip(xy[1] - EdgeOf(t), xy[1] + TileWidth - 1 + EdgeOf(t), FrameWidth, p)

\* The flags that say where padding is needed.
Padded(rows, cols) ==
  {s \in Sides : CASE s = "top" -> rows.before > 0 [] s = "bottom" -> rows.after > 0
                   [] s = "left" -> cols.before > 0 [] s = "right" -> cols.after > 0}

\* A descriptor copies rows by cols pixels; to and from are tiles, or None for
\* the frame; a step of 0 repeats the first row; mask is what is predicated.
Copy(to, toRow, toCol, from, row, col, rows, cols, intr) ==
  [to |-> to, toRow |-> toRow, toCol |-> toCol, from |-> from, row |-> row, col |-> col,
   rows |-> rows, cols |-> cols, step |-> 1, mask |-> 0 .. rows - 1, intr |-> intr]

\* Rows r1 .. r2 and columns c1 .. c2 of the frame, for tile t at xy.
FromFrame(t, xy, r1, r2, c1, c2, intr) ==
  Copy(t, r1 - xy[2] + EdgeOf(t), c1 - xy[1] + EdgeOf(t), None, r1, c1,
       r2 - r1 + 1, c2 - c1 + 1, intr)

\* The same pixels, from tile q.
FromTile(t, xy, q, r1, r2, c1, c2, intr) ==
  Copy(t, r1 - xy[2] + EdgeOf(t), c1 - xy[1] + EdgeOf(t), q,
       r1 - pos[q][2] + EdgeOf(q), c1 - pos[q][1] + EdgeOf(q), r2 - r1 + 1, c2 - c1 + 1, intr)

\* solveForX: rows r1 .. r2 are in tile q, which has columns p1 .. p2.
solveForX(t, xy, q, r1, r2, x1, x2, p1, p2) ==
  LET frameTo(a, b, intr) == FromFrame(t, xy, r1, r2, a, b, intr)
      shared(a, b, intr) == FromTile(t, xy, q, r1, r2, a, b, intr)
  IN  CASE p1 <= x1 /\ p2 < x2 -> <<shared(x1, p2, FALSE), frameTo(p2 + 1, x2, TRUE)>>
        [] x1 < p1 /\ p2 < x2 -> <<frameTo(x1, p1 - 1, FALSE), shared(p1, p2, FALSE),
                                   frameTo(p2 + 1, x2, TRUE)>>
        [] x1 < p1 /\ x2 <= p2 -> <<frameTo(x1, p1 - 1, FALSE), shared(p1, x2, TRUE)>>
        [] p1 <= x1 /\ x2 <= p2 -> <<shared(x1, x2, TRUE)>>

\* The region of tile q, as it was requested and not clipped.
Region(q) == [y1 |-> pos[q][2] - EdgeOf(q), y2 |-> pos[q][2] + TileHeight - 1 + EdgeOf(q),
              x1 |-> pos[q][1] - EdgeOf(q), x2 |-> pos[q][1] + TileWidth - 1 + EdgeOf(q)]

Overlap(q, rows, cols) ==
  LET p == Region(q)
  IN  p.y2 >= rows.first /\ p.y1 <= rows.last /\ p.x2 >= cols.first /\ p.x1 <= cols.last

\* The rows that tile q lacks come from the frame.
Reuse(t, xy, q, rows, cols) ==
  LET p == Region(q)
      y1 == rows.first
      y2 == rows.last
      x1 == cols.first
      x2 == cols.last
      across(a, b) == solveForX(t, xy, q, a, b, x1, x2, p.x1, p.x2)
      above(b) == FromFrame(t, xy, y1, b, x1, x2, FALSE)
      below == FromFrame(t, xy, p.y2 + 1, y2, x1, x2, FALSE)
  IN  CASE p.y1 <= y1 /\ p.y2 < y2 -> <<below>> \o across(y1, p.y2)
        [] y1 < p.y1 /\ p.y2 < y2 -> <<above(p.y1), below>> \o across(p.y1, p.y2)
        [] y1 < p.y1 /\ y2 <= p.y2 -> <<above(p.y1 - 1)>> \o across(p.y1, y2)
        [] p.y1 <= y1 /\ y2 <= p.y2 -> across(y1, y2)

Whole(t, xy, rows, cols) == FromFrame(t, xy, rows.first, rows.last, cols.first, cols.last, TRUE)

\* The first copy of xvReqTileTransferInFast interrupts if it is the last.
WholeFast(t, xy, rows, cols, last) == [Whole(t, xy, rows, cols) EXCEPT !.intr = last]

\* The row repeated into n rows of t: the Fast functions pad with the iDMA.
RepeatRow(t, row, toRow, n, last) ==
  [Copy(t, toRow, 0, t, row, 0, n, Width(t), last) EXCEPT !.step = 0]

FastCopies(t, xy, rows, cols) ==
  LET edge == frame.padding = "edge"
      top == edge /\ rows.before > 0
      bottom == edge /\ rows.after > 0
      end == Height(t) - rows.after
  IN  <<WholeFast(t, xy, rows, cols, ~top /\ ~bottom)>>
      \o (IF top THEN <<RepeatRow(t, rows.before, 0, rows.before, ~bottom)>> ELSE <<>>)
      \o (IF bottom THEN <<RepeatRow(t, end - 1, end, rows.after, TRUE)>> ELSE <<>>)

-----------------------------------------------------------------------------
(* Requests. *)

Ready(t) == status[t] = {}

\* xvCheckInputTileFree.
CheckInputTileFree(t) == reuseCount[t] = 0

\* The tile is put behind the others that are waited for.
Enqueue(t) ==
  /\ queue' = [queue EXCEPT ![(start + pending) % QueueLength] = t]
  /\ pending' = pending + 1
  /\ UNCHANGED start

Post(t, copies) ==
  /\ fifo' = fifo \o copies
  /\ dmaIndex' = [dmaIndex EXCEPT ![t] = IF copies = <<>> THEN 0 ELSE Len(fifo) + Len(copies)]

SetStatus(t, flags, copies) ==
  status' = [status EXCEPT ![t] = flags \cup {"ongoing"}
                                        \cup (IF copies = <<>> THEN {"dummy"} ELSE {})]

Request(kind, t, xy) ==
  /\ kind \in Requests
  /\ waiter = NoCall /\ ~errorFlag
  /\ Ready(t) /\ CheckInputTileFree(t)
  /\ pos' = [pos EXCEPT ![t] = xy]
  /\ UNCHANGED <<frame, data, errorFlag, waitVars, overrun>>

Beyond(t, xy) == Nothing(Rows(t, xy, 0)) \/ Nothing(Cols(t, xy, 0))

\* Mutation: the tile that is reused does not know it.
CountNone(q) == reuseCount

CountReuse(q) == [reuseCount EXCEPT ![q] = @ + 1]

\* xvReqTileTransferIn.  q: pPrevTile.
ReqTileTransferIn(t, xy, q) ==
  LET rows == Rows(t, xy, Pad(frame.pad))
      cols == Cols(t, xy, Pad(frame.pad))
      shared == q # None /\ Overlap(q, rows, cols)
      copies == IF Nothing(rows) \/ Nothing(cols) THEN <<>>
                ELSE IF shared THEN Reuse(t, xy, q, rows, cols)
                ELSE <<Whole(t, xy, rows, cols)>>
      reused == shared /\ copies # <<>>
  IN  /\ Request(IF q = None THEN "in" ELSE "reuse", t, xy)
      /\ q # None => q # t /\ (holds[q] = "in" \/ (holds[q] = "fast" /\ frame.pad = 0))
      /\ prev' = [prev EXCEPT ![t] = IF reused THEN q ELSE None]
      /\ reuseCount' = IF reused THEN CountReuse(q) ELSE reuseCount
      /\ Post(t, copies)
      /\ SetStatus(t, Padded(rows, cols), copies)
      /\ Enqueue(t)
      /\ holds' = [holds EXCEPT ![t] = "in"]

\* xvReqTileTransferInPredicated: a tile without edges, never padded.
ReqTileTransferInPredicated(t, xy, mask) ==
  LET rows == Rows(t, xy, Pad(frame.pad))
      cols == Cols(t, xy, Pad(frame.pad))
      copies == IF Nothing(rows) \/ Nothing(cols) THEN <<>>
                ELSE <<[Whole(t, xy, rows, cols) EXCEPT !.mask = @ \cap mask]>>
  IN  /\ Request("predicated", t, xy)
      /\ EdgeOf(t) = 0
      /\ prev' = [prev EXCEPT ![t] = None]
      /\ Post(t, copies)
      /\ SetStatus(t, {}, copies)
      /\ Enqueue(t)
      /\ holds' = [holds EXCEPT ![t] = "predicated"]
      /\ UNCHANGED reuseCount

\* xvReqTileTransferInFast does not know pads, nor the queue.
ReqTileTransferInFast(t, xy) ==
  LET rows == Rows(t, xy, 0)
      cols == Cols(t, xy, 0)
      copies == IF Beyond(t, xy) THEN <<>> ELSE FastCopies(t, xy, rows, cols)
      done == IF copies # <<>> /\ frame.padding = "edge" THEN {"top", "bottom"} ELSE {}
  IN  /\ Request(IF Beyond(t, xy) /\ frame.padding = "edge" THEN "fastBeyond" ELSE "fast", t, xy)
      /\ Post(t, copies)
      /\ SetStatus(t, Padded(rows, cols) \ done, copies)
      /\ holds' = [holds EXCEPT ![t] = "fast"]
      /\ UNCHANGED <<prev, reuseCount, queueVars>>

\* Mutation: the copy starts at the tile's first column, whatever is cut off.
FirstKeptAlways(x) == 0

FirstKept(x) == Greater(0, -x)

\* What is written to the frame: the tile without its edges, less what lies
\* beyond the frame.
OutCopy(t, xy) ==
  LET x == xy[1]
      y == xy[2]
      cols == Lesser(TileWidth, FrameWidth - x) + Lesser(0, x)
      rows == Lesser(TileHeight, FrameHeight - y) + Lesser(0, y)
  IN  Copy(None, Greater(0, y), Greater(0, x), t, EdgeOf(t) + Greater(0, -y),
           EdgeOf(t) + FirstKept(x), rows, cols, TRUE)

TransferOut(kind, t, xy, mask) ==
  LET copy == OutCopy(t, xy)
      copies == IF copy.rows = 0 \/ copy.cols = 0 THEN <<>>
                ELSE <<[copy EXCEPT !.mask = @ \cap mask]>>
  IN  /\ Request(kind, t, xy)
      /\ copies # <<>> /\ (copy.rows < 0 \/ copy.cols < 0) => "outBeyond" \in Requests
      /\ Post(t, copies)
      /\ status' = [status EXCEPT ![t] = IF copies = <<>> THEN @ ELSE @ \cup {"ongoing"}]
      /\ IF copies = <<>> \/ kind = "outFast" THEN UNCHANGED queueVars ELSE Enqueue(t)
      /\ holds' = [holds EXCEPT ![t] = IF kind = "outFast" THEN "outFast" ELSE "out"]
      /\ UNCHANGED <<prev, reuseCount>>

AllRows == 0 .. TileHeight - 1

ReqTileTransferOut(t, xy) == TransferOut("out", t, xy, AllRows)
ReqTileTransferOutPredicated(t, xy, mask) == TransferOut("outPredicated", t, xy, mask)
ReqTileTransferOutFast(t, xy) == TransferOut("outFast", t, xy, AllRows)

\* The application works on the data of a tile, which it then moves home.
Work(t) ==
  /\ waiter = NoCall /\ ~errorFlag
  /\ Ready(t) /\ CheckInputTileFree(t) /\ holds[t] # "junk"
  /\ data' = [data EXCEPT ![t] = [c \in Cells(t) |-> Old]]
  /\ holds' = [holds EXCEPT ![t] = "junk"]
  /\ pos' = [pos EXCEPT ![t] = <<0, 0>>]
  /\ UNCHANGED <<frame, status, prev, reuseCount, dmaIndex, queueVars, fifo, errorFlag,
                 waitVars, overrun>>

-----------------------------------------------------------------------------
(* The iDMA. *)

Carried(d) ==
  {c \in (d.toRow .. d.toRow + d.rows - 1) \X (d.toCol .. d.toCol + d.cols - 1) :
     c[1] - d.toRow \in d.mask}

Source(d, c) == <<d.row + d.step * (c[1] - d.toRow), d.col + c[2] - d.toCol>>

\* Mutation: interrupts are disabled in the sleep only.
DisabledAsleep == waiter.at = "asleep"

\* IDMA_DISABLE_INTS: from the first look at the tile to the end of the sleep.
InterruptsDisabled == waiter.sleeps

\* The first descriptor is carried out.
Dma ==
  /\ fifo # <<>> /\ ~errorFlag
  /\ LET d == Head(fifo)
         value(c) == IF d.from = None THEN Source(d, c) ELSE data[d.from][Source(d, c)]
     IN  /\ data' = IF d.to = None THEN data
                    ELSE [data EXCEPT ![d.to] =
                            [c \in Cells(d.to) |-> IF c \in Carried(d) THEN value(c) ELSE @[c]]]
         /\ interrupt' = (interrupt \/ (d.intr /\ InterruptsDisabled))
  /\ fifo' = Tail(fifo)
  /\ dmaIndex' = [t \in Tiles |-> Greater(0, dmaIndex[t] - 1)]
  /\ UNCHANGED <<frame, pos, status, prev, reuseCount, holds, queueVars, errorFlag, waiter, overrun>>

\* It fails: the interrupt sets idmaErrorFlag, and the channel stops.
DmaFails ==
  /\ Faults /\ fifo # <<>> /\ ~errorFlag
  /\ errorFlag' = TRUE
  /\ interrupt' = (interrupt \/ InterruptsDisabled)
  /\ UNCHANGED <<frame, tileVars, queueVars, fifo, waiter, overrun>>

-----------------------------------------------------------------------------
(* Padding. *)

\* copyBufferEdgeDataH: n rows from row r, by the row given or the constant.
CopyH(m, from, r, n, edge) ==
  [c \in DOMAIN m |-> IF c[1] \notin r .. r + n - 1 THEN m[c]
                      ELSE IF edge THEN m[<<from, c[2]>>] ELSE Const]

\* copyBufferEdgeDataV: n columns from column k, in all rows.
CopyV(m, from, k, n, edge) ==
  [c \in DOMAIN m |-> IF c[2] \notin k .. k + n - 1 THEN m[c]
                      ELSE IF edge THEN m[<<c[1], from>>] ELSE Const]

\* Top and bottom, then left and right.
PadTile(t, m, flags, p) ==
  LET edge == frame.padding = "edge"
      rows == Rows(t, pos[t], p)
      cols == Cols(t, pos[t], p)
      bottom == Height(t) - rows.after
      right == Width(t) - cols.after
      m1 == IF "top" \in flags THEN CopyH(m, rows.before, 0, rows.before, edge) ELSE m
      m2 == IF "bottom" \in flags THEN CopyH(m1, bottom - 1, bottom, rows.after, edge) ELSE m1
      m3 == IF "left" \in flags THEN CopyV(m2, cols.before, 0, cols.before, edge) ELSE m2
  IN  IF "right" \in flags THEN CopyV(m3, right - 1, right, cols.after, edge) ELSE m3

\* A tile that is no part of the frame.
PadDummy(t, m) == IF frame.padding = "edge" THEN m ELSE CopyH(m, 0, 0, Height(t), FALSE)

\* What is done with a tile of the queue that is found done.
Finished(t) ==
  IF "dummy" \in status[t] THEN PadDummy(t, data[t])
  ELSE PadTile(t, data[t], status[t], Pad(frame.pad))

\* xvPadEdges, for tiles of the Fast functions; with edge padding, left and
\* right are one vector store a row, for dummies as well.
PadEdgesFast(t) ==
  LET cols == Cols(t, pos[t], 0)
      left == Lesser(Vector, cols.before)
      right == Lesser(Vector, cols.after)
      m1 == IF "left" \in status[t] THEN CopyV(data[t], cols.before, 0, left, TRUE) ELSE data[t]
  IN  IF "right" \in status[t]
      THEN CopyV(m1, Width(t) - cols.after - 1, Width(t) - cols.after, right, TRUE) ELSE m1

\* The zero and constant padding of xvPadEdges.
PadEdgesConst(t) ==
  IF "dummy" \in status[t] THEN PadDummy(t, data[t]) ELSE PadTile(t, data[t], status[t], 0)

\* The stores do not leave the row: that is so unless the tile is a dummy.
PadsInRow(t) == LET cols == Cols(t, pos[t], 0)
                IN  cols.before < Width(t) /\ cols.after < Width(t)

PadEdges(t) ==
  /\ waiter = NoCall
  /\ status[t] \cap Sides # {} /\ "ongoing" \notin status[t]
  /\ IF frame.padding = "edge"
     THEN /\ overrun' = (overrun \/ ~PadsInRow(t))
          /\ data' = IF PadsInRow(t) THEN [data EXCEPT ![t] = PadEdgesFast(t)] ELSE data
     ELSE /\ data' = [data EXCEPT ![t] = PadEdgesConst(t)]
          /\ UNCHANGED overrun
  /\ status' = [status EXCEPT ![t] = @ \ (Sides \cup {"dummy"})]
  /\ UNCHANGED <<frame, pos, prev, reuseCount, dmaIndex, holds, queueVars, fifo, errorFlag, waitVars>>

-----------------------------------------------------------------------------
(* Waiting. *)

Entry(i) == queue[(start + i) % QueueLength]
Settled(t) == "dummy" \in status[t] \/ dmaIndex[t] = 0

\* How many entries are taken from the queue when t is asked for.
DoneCount(t) ==
  CHOOSE n \in 0 .. pending :
    /\ \A i \in 0 .. n - 1 : Settled(Entry(i)) /\ (i < n - 1 => Entry(i) # t)
    /\ n = pending \/ ~Settled(Entry(n)) \/ (n > 0 /\ Entry(n - 1) = t)

\* Mutation: the next is the tile that was asked for.
NextStartSame(t, n) == (start + Greater(0, n - 1)) % QueueLength

\* tileDMAstartIndex afterwards; if t is not in the queue, its last entry.
NextStart(t, n) ==
  IF n > 0 /\ n = pending /\ Entry(n - 1) # t THEN (start + n - 1) % QueueLength
  ELSE (start + n) % QueueLength

\* xvCheckTileReady, of a tile that has a status.
CheckTileReady(t) ==
  LET n == DoneCount(t)
      done == {Entry(i) : i \in 0 .. n - 1}
      released(q) == {u \in done : "dummy" \notin status[u] /\ prev[u] = q}
  IN  /\ start' = NextStart(t, n)
      /\ pending' = pending - n
      /\ data' = [u \in Tiles |-> IF u \in done THEN Finished(u) ELSE data[u]]
      /\ status' = [u \in Tiles |-> IF u \in done THEN {} ELSE status[u]]
      /\ reuseCount' = [q \in Tiles |-> reuseCount[q] - Cardinality(released(q))]
      /\ prev' = [u \in Tiles |-> IF u \in done /\ "dummy" \notin status[u] THEN None ELSE prev[u]]
      /\ UNCHANGED queue

Poll(t) ==
  /\ waiter = NoCall /\ ~Ready(t)
  /\ CheckTileReady(t)
  /\ UNCHANGED <<frame, pos, dmaIndex, holds, fifo, errorFlag, waitVars, overrun>>

IsFast(t) == holds[t] \in {"fast", "outFast"}

\* The application waits for a tile that it requested: xvWaitForTile or
\* xvSleepForTile, and those of the Fast functions.
Wait(t, sleeps) ==
  /\ waiter = NoCall /\ "ongoing" \in status[t]
  /\ waiter' = [tile |-> t, sleeps |-> sleeps, at |-> "look"]
  /\ interrupt' = FALSE
  /\ UNCHANGED <<frame, tileVars, queueVars, fifo, errorFlag, overrun>>

\* What the loop does when it has looked at the tile.
Again(ready) ==
  waiter' = IF ready \/ errorFlag THEN NoCall
            ELSE [waiter EXCEPT !.at = IF waiter.sleeps THEN "sleep" ELSE "look"]

\* A round of xvWaitForTile and xvSleepForTile; the former does not look when
\* there is an error.
WaitForTile ==
  /\ waiter # NoCall /\ waiter.at = "look"
  /\ ~IsFast(waiter.tile)
  /\ IF errorFlag /\ ~waiter.sleeps
     THEN waiter' = NoCall /\ UNCHANGED <<tileVars, queueVars>>
     ELSE /\ IF Ready(waiter.tile) THEN UNCHANGED <<tileVars, queueVars>>
             ELSE CheckTileReady(waiter.tile) /\ UNCHANGED <<pos, dmaIndex, holds>>
          /\ Again(status'[waiter.tile] = {})
  /\ UNCHANGED <<frame, fifo, errorFlag, interrupt, overrun>>

\* A round of xvWaitForTileFast and xvSleepForTileFast.
WaitForTileFast ==
  /\ waiter # NoCall /\ waiter.at = "look"
  /\ IsFast(waiter.tile)
  /\ Again(dmaIndex[waiter.tile] = 0)
  /\ status' = IF waiter' = NoCall THEN [status EXCEPT ![waiter.tile] = @ \ {"ongoing"}] ELSE status
  /\ UNCHANGED <<frame, pos, prev, reuseCount, dmaIndex, data, holds, queueVars, fifo,
                 errorFlag, interrupt, overrun>>

\* idma_sleep, which returns when an interrupt is pending.
Sleep ==
  /\ waiter.at = "sleep"
  /\ waiter' = [waiter EXCEPT !.at = "asleep"]
  /\ UNCHANGED <<frame, tileVars, queueVars, fifo, errorFlag, interrupt, overrun>>

WakeUp ==
  /\ waiter.at = "asleep" /\ interrupt
  /\ waiter' = [waiter EXCEPT !.at = "look"]
  /\ interrupt' = FALSE
  /\ UNCHANGED <<frame, tileVars, queueVars, fifo, errorFlag, overrun>>

-----------------------------------------------------------------------------
Init ==
  /\ frame \in [pad : FramePads, padding : Paddings]
  /\ pos = [t \in Tiles |-> <<0, 0>>]
  /\ status = [t \in Tiles |-> {}]
  /\ prev = [t \in Tiles |-> None]
  /\ reuseCount = [t \in Tiles |-> 0]
  /\ dmaIndex = [t \in Tiles |-> 0]
  /\ start = 0 /\ pending = 0 /\ queue = [i \in 0 .. QueueLength - 1 |-> None]
  /\ data = [t \in Tiles |-> [c \in Cells(t) |-> Old]]
  /\ fifo = <<>>
  /\ errorFlag = FALSE
  /\ waiter = NoCall /\ interrupt = FALSE
  /\ holds = [t \in Tiles |-> "junk"]
  /\ overrun = FALSE

Masks == {AllRows, {0}}
Places == {<<x - Origin, y - Origin>> : x \in Xs, y \in Ys}

Next ==
  \/ \E t \in Tiles, xy \in Places :
       \/ \E q \in Tiles \cup {None} : ReqTileTransferIn(t, xy, q)
       \/ \E mask \in Masks : ReqTileTransferInPredicated(t, xy, mask)
       \/ ReqTileTransferInFast(t, xy)
       \/ ReqTileTransferOut(t, xy)
       \/ \E mask \in Masks : ReqTileTransferOutPredicated(t, xy, mask)
       \/ ReqTileTransferOutFast(t, xy)
  \/ \E t \in Tiles :
       \/ Work(t)
       \/ PadEdges(t)
       \/ Poll(t)
       \/ \E sleeps \in BOOLEAN : Wait(t, sleeps)
  \/ WaitForTile \/ WaitForTileFast \/ Sleep \/ WakeUp
  \/ Dma \/ DmaFails

Spec == Init /\ [][Next]_vars

\* The iDMA carries out what it is given, and a call that waits goes on.
FairSpec ==
  /\ Spec
  /\ WF_vars(Dma) /\ WF_vars(WaitForTile) /\ WF_vars(WaitForTileFast)
  /\ WF_vars(Sleep) /\ WF_vars(WakeUp)

-----------------------------------------------------------------------------
(* Properties. *)

\* The pixel that belongs at cell c of t, in a frame that has pads of p pixels.
Pixel(t, c, p) ==
  LET r == pos[t][2] - EdgeOf(t) + c[1]
      k == pos[t][1] - EdgeOf(t) + c[2]
      in == <<Clamp(r, -p, FrameHeight - 1 + p), Clamp(k, -p, FrameWidth - 1 + p)>>
  IN  IF <<r, k>> = in \/ frame.padding = "edge" THEN in ELSE Const

PadsKnown(t) == IF holds[t] = "fast" THEN 0 ELSE frame.pad

\* A tile that is ready shows its part of the frame and of the padding, pixel
\* for pixel, whatever was reused, and whatever was requested meanwhile
\* (a dummy tile under edge padding is the subject of DummyFilled).
TileShowsFrame ==
  \A t \in Tiles :
    (Ready(t) /\ holds[t] \in {"in", "fast"} /\ ~errorFlag
       /\ (frame.padding = "edge" => ~Nothing(Rows(t, pos[t], PadsKnown(t)))
                                     /\ ~Nothing(Cols(t, pos[t], PadsKnown(t)))))
    => \A c \in Cells(t) : data[t][c] = Pixel(t, c, PadsKnown(t))

\* A tile beyond the frame is filled with padding, as the comment at
\* tileManager.c:2316 says.
DummyFilled ==
  \A t \in Tiles :
    (Ready(t) /\ holds[t] = "in" /\ ~errorFlag) => \A c \in Cells(t) : data[t][c] # Old

\* reuseCount is the number of tiles that still take pixels from the tile: what
\* xvCheckInputTileFree answers is right.
ReuseCounted ==
  \A q \in Tiles : reuseCount[q] = Cardinality({t \in Tiles : prev[t] = q})

\* The queue holds the tiles that are waited for, each once, in the order of
\* their descriptors.
QueueHoldsBusy ==
  /\ pending <= QueueLength
  /\ {Entry(i) : i \in 0 .. pending - 1}
       = {t \in Tiles : "ongoing" \in status[t] /\ ~IsFast(t)}
  /\ \A i, j \in 0 .. pending - 1 :
       i < j => /\ Entry(i) # Entry(j)
                /\ {dmaIndex[Entry(i)], dmaIndex[Entry(j)]} # {0}
                     => "dummy" \in status[Entry(j)] \/ dmaIndex[Entry(i)] < dmaIndex[Entry(j)]

\* A copy moves something, between pixels that belong to the frame with its
\* pads or to the tile.
InFrame(r, k) == /\ r \in -frame.pad .. FrameHeight - 1 + frame.pad
                 /\ k \in -frame.pad .. FrameWidth - 1 + frame.pad
Within(o, r, k) == IF o = None THEN InFrame(r, k) ELSE <<r, k>> \in Cells(o)
CopiesInBounds ==
  \A i \in DOMAIN fifo :
    LET d == fifo[i]
    IN  /\ d.rows > 0 /\ d.cols > 0
        /\ Within(d.to, d.toRow, d.toCol)
        /\ Within(d.to, d.toRow + d.rows - 1, d.toCol + d.cols - 1)
        /\ Within(d.from, d.row, d.col)
        /\ Within(d.from, d.row + d.step * (d.rows - 1), d.col + d.cols - 1)

\* What is written to the frame goes where the tile was requested to be.
OutInPlace ==
  \A i \in DOMAIN fifo :
    LET d == fifo[i]
    IN  d.to = None => /\ d.toRow - (d.row - EdgeOf(d.from)) = pos[d.from][2]
                       /\ d.toCol - (d.col - EdgeOf(d.from)) = pos[d.from][1]

\* The padding stays in the tile.
PadsInTile == ~overrun

\* A call that waits or sleeps for a tile returns.
WaitEnds == waiter # NoCall ~> waiter = NoCall
=============================================================================
