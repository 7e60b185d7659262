------------------------------- MODULE Tile3D -------------------------------
(***************************************************************************)
(* Transfers of three-dimensional tiles on one iDMA channel                *)
(* (TileManager/src/tileManager.c).  As in TileTransfer the iDMA copies    *)
(* what lies in the frame, but the padding is done by the iDMA too: one    *)
(* side at a time, each posted by the call of xvCheckTileReady3D that      *)
(* finds the one before it done.                                           *)
(*                                                                         *)
(* A cell is <<plane, row, column>>, and what it shows is the pixel of the *)
(* frame that it came from.  The iDMA, the memory banks and the            *)
(* application are external: the application requests a tile when it is    *)
(* ready, asks for an interrupt, and requests nothing after an error.      *)
(***************************************************************************)
EXTENDS TileGeometry, Sequences, FiniteSets

CONSTANTS
  NumTiles, QueueLength,                   \* MAX_NUM_DMA_QUEUE_LENGTH
  FrameDepth, FrameHeight, FrameWidth,
  TileDepth, TileHeight, TileWidth, Edge,  \* with edges of the same width
  Pads, Paddings,                          \* what the frame may be set up with
  Positions,                               \* bound: z, y and x that are asked for
  InOrder,       \* whether the application asks for the oldest tile only
  BufferFails    \* whether there may be no buffer

ASSUME Tile3DAssumption ==
  /\ {NumTiles, QueueLength, FrameDepth, FrameHeight, FrameWidth,
      TileDepth, TileHeight, TileWidth} \subseteq Nat \ {0}
  /\ NumTiles <= QueueLength
  /\ {Edge} \cup Pads \subseteq Nat /\ Positions \subseteq Int \X Int \X Int
  /\ Paddings \subseteq {"edge", "const"}
  /\ {InOrder, BufferFails} \subseteq BOOLEAN

\* Pads, edges and what is cut off are kept in int16_t.
ASSUME Fields3DAssumption ==
  \A n \in Pads \cup {TileDepth + 2 * Edge, TileHeight + 2 * Edge, TileWidth + 2 * Edge} : n < 2^15

Tiles == 0 .. NumTiles - 1
NoTile == NumTiles
Dims == 1 .. 3     \* planes, rows, columns
Frame == <<FrameDepth, FrameHeight, FrameWidth>>
Tile == <<TileDepth, TileHeight, TileWidth>>
Extent == [d \in Dims |-> Tile[d] + 2 * Edge]
Cells == (0 .. Extent[1] - 1) \X (0 .. Extent[2] - 1) \X (0 .. Extent[3] - 1)

\* The sides, in the order in which xvCheckTileReady3D pads them.
Sides == <<"left", "right", "top", "bottom", "front", "back">>
SideSet == {Sides[i] : i \in DOMAIN Sides}
DimOf(s) == CASE s \in {"left", "right"} -> 3 [] s \in {"top", "bottom"} -> 2 [] OTHER -> 1
IsBefore(s) == s \in {"left", "top", "front"}

Const == <<"const">>   \* the padding value
Old == <<"old">>       \* anything else
NoCall == [tile |-> NoTile, sleeps |-> FALSE, at |-> "look"]

VARIABLES
  frame,        \* [pad, padding] of the frame, the same for all tiles
  pos,          \* z, y and x
  status,       \* the flags that are set: SideSet, "ongoing" and "dummy"
  padding,      \* the flag XX_PADDING_ONGOING that is set, or "none"
  temp,         \* pTemp: "none", a buffer "given", or the "bad" pointer XVTM_ERROR
  dmaIndex,     \* descriptors of fifo up to the tile's last one; 0: it is done
  start, pending, queue,     \* tile3DDMAstartIndex, -pendingCount, tile3DProcQueue
  data,
  fifo,
  waiter, interrupt,         \* as in TileTransfer
  holds,        \* history: what was last requested, or "junk"
  wild          \* history: XVTM_ERROR has been taken for a buffer

queueVars == <<start, pending, queue>>
tileVars == <<pos, status, padding, temp, dmaIndex, data, holds>>
vars3D == <<frame, tileVars, queueVars, fifo, waiter, interrupt, wild>>

Ready(t) == status[t] = {}

-----------------------------------------------------------------------------
(* Descriptors. *)

\* A box of size cells, for tile t: to the "tile" or the "frame", from cell
\* "at"; its source is the "tile", the "frame", its "temp" buffer or a "wild"
\* address, from coordinate "first", which a step of 0 does not leave.
Box(t, to, at, size, from, first, step) ==
  [tile |-> t, to |-> to, at |-> at, size |-> size, from |-> from, first |-> first,
   step |-> step]

InBox(b, c) == \A d \in Dims : c[d] \in b.at[d] .. b.at[d] + b.size[d] - 1
SourceOf(b, c) == [d \in Dims |-> b.first[d] + b.step[d] * (c[d] - b.at[d])]

Clips(p) == [d \in Dims |-> Clip(p[d] - Edge, p[d] + Tile[d] - 1 + Edge, Frame[d], frame.pad)]
Beyond(k) == \E d \in Dims : Nothing(k[d])
Size(k) == [d \in Dims |-> k[d].last - k[d].first + 1]
Flags(k) ==
  {s \in SideSet : IF IsBefore(s) THEN k[DimOf(s)].before > 0 ELSE k[DimOf(s)].after > 0}

\* What xvReqTileTransferIn3D asks for.
Inside(t, k) ==
  Box(t, "tile", [d \in Dims |-> k[d].before], Size(k), "frame", [d \in Dims |-> k[d].first],
      [d \in Dims |-> 1])

\* Mutation: a side is padded along what was transferred, without the corners.
NoDims(s) == {}

\* The dimensions that have been padded before side s is.
PaddedDims(s) == {d \in Dims : d > DimOf(s)}

\* The cells of t that side s pads, where k is how the tile is cut: in the
\* other dimensions the whole tile, if they have been padded, or what was
\* transferred; n of them, i cells off the frame.
SideAt(s, k, i) ==
  [d \in Dims |-> IF d \in PaddedDims(s) THEN 0
                  ELSE IF d # DimOf(s) THEN k[d].before
                  ELSE IF IsBefore(s) THEN k[d].before - i ELSE Extent[d] - k[d].after + i - 1]
SideSize(s, k, n) ==
  [d \in Dims |-> IF d \in PaddedDims(s) THEN Extent[d]
                  ELSE IF d # DimOf(s) THEN k[d].last - k[d].first + 1 ELSE n]
Still(s) == [d \in Dims |-> IF d = DimOf(s) THEN 0 ELSE 1]

\* A step for all cells that side s pads.  With edge padding, left and right
\* are a step for each column.  k is how the tile is cut that the call asks
\* for; the constant padding on the right also takes the place of t.
SideCopies(t, s, k) ==
  LET d == DimOf(s)
      n == IF IsBefore(s) THEN k[d].before ELSE k[d].after
      nearest == SideAt(s, k, 0)
      cells == IF IsBefore(s) THEN SideAt(s, k, n) ELSE SideAt(s, k, 1)
      filled == IF s = "right" THEN [cells EXCEPT ![3] = k[3].last + 1 - (pos[t][3] - Edge)]
                ELSE cells
      column(i) == Box(t, "tile", SideAt(s, k, i), SideSize(s, k, 1), "tile", nearest, Still(s))
  IN  IF frame.padding = "edge"
      THEN IF d = 3 THEN [i \in 1 .. n |-> column(i)]
           ELSE <<Box(t, "tile", cells, SideSize(s, k, n), "tile", nearest, Still(s))>>
      ELSE <<Box(t, "tile", filled, SideSize(s, k, n), "temp", cells, Still(s))>>

\* A tile beyond the frame: its first row is written by the processor, which
\* has it copied to the other rows, and then each plane to the next: the iDMA
\* goes from plane to plane, and it is the first one that reaches them all.
FirstRow == {c \in Cells : c[1] = 0 /\ c[2] = 0}
OtherRows(t) ==
  Box(t, "tile", <<0, 1, 0>>, <<1, Extent[2] - 1, Extent[3]>>, "tile", <<0, 0, 0>>, <<1, 0, 1>>)
OtherPlanes(t) ==
  Box(t, "tile", <<1, 0, 0>>, [Extent EXCEPT ![1] = @ - 1], "tile", <<0, 0, 0>>, <<0, 1, 1>>)

-----------------------------------------------------------------------------
(* Requests. *)

Request(t, p) ==
  /\ waiter = NoCall /\ Ready(t)
  /\ pos' = [pos EXCEPT ![t] = p]
  /\ UNCHANGED <<frame, padding, temp, waiter, interrupt, wild>>

Post(t, copies) ==
  /\ fifo' = fifo \o copies
  /\ dmaIndex' = [dmaIndex EXCEPT ![t] = Len(fifo) + Len(copies)]

Enqueue(t) ==
  /\ queue' = [queue EXCEPT ![(start + pending) % QueueLength] = t]
  /\ pending' = pending + 1
  /\ UNCHANGED start

\* xvReqTileTransferIn3D.
ReqTileTransferIn3D(t, p) ==
  LET k == Clips(p)
  IN  /\ Request(t, p)
      /\ Post(t, IF Beyond(k) THEN <<OtherRows(t)>> ELSE <<Inside(t, k)>>)
      /\ data' = IF Beyond(k)
                 THEN [data EXCEPT ![t] = [c \in Cells |-> IF c \in FirstRow THEN Const ELSE @[c]]]
                 ELSE data
      /\ status' = [status EXCEPT ![t] =
                      {"ongoing"} \cup (IF Beyond(k) THEN {"dummy"} ELSE Flags(k))]
      /\ Enqueue(t)
      /\ holds' = [holds EXCEPT ![t] = "in"]

\* Mutation: what is cut off at the end is not taken away.
CutNothing(size, f, p) == size + Lesser(0, p)

CutToFrame(size, f, p) == Lesser(size, f - p) + Lesser(0, p)

\* xvReqTileTransferOut3D.  The iDMA writes to the frame, which is not modelled.
OutBox(t, p) ==
  Box(t, "frame", [d \in Dims |-> Greater(0, p[d])],
      [d \in Dims |-> CutToFrame(Tile[d], Frame[d], p[d])],
      "tile", [d \in Dims |-> Edge + Greater(0, -p[d])], [d \in Dims |-> 1])

ReqTileTransferOut3D(t, p) ==
  LET b == OutBox(t, p)
      some == \A d \in Dims : b.size[d] > 0
  IN  /\ Request(t, p)
      /\ Post(t, IF some THEN <<b>> ELSE <<>>)
      /\ status' = [status EXCEPT ![t] = IF some THEN {"ongoing"} ELSE @]
      /\ IF some THEN Enqueue(t) ELSE UNCHANGED queueVars
      /\ holds' = [holds EXCEPT ![t] = "out"]
      /\ UNCHANGED data

\* The application works on the data of a tile, which it then moves home.
Work(t) ==
  /\ waiter = NoCall /\ Ready(t) /\ holds[t] # "junk"
  /\ data' = [data EXCEPT ![t] = [c \in Cells |-> Old]]
  /\ holds' = [holds EXCEPT ![t] = "junk"]
  /\ pos' = [pos EXCEPT ![t] = <<0, 0, 0>>]
  /\ dmaIndex' = [dmaIndex EXCEPT ![t] = 0]
  /\ UNCHANGED <<frame, status, padding, temp, queueVars, fifo, waiter, interrupt, wild>>

-----------------------------------------------------------------------------
(* The iDMA. *)

Value(b, c) ==
  CASE b.from = "frame" -> SourceOf(b, c) [] b.from = "temp" -> Const
    [] b.from = "wild" -> Old [] OTHER -> data[b.tile][SourceOf(b, c)]

Dma ==
  /\ fifo # <<>>
  /\ LET b == Head(fifo)
     IN  /\ data' = IF b.to = "frame" THEN data
                    ELSE [data EXCEPT ![b.tile] =
                            [c \in Cells |-> IF InBox(b, c) THEN Value(b, c) ELSE @[c]]]
         /\ interrupt' = (interrupt \/ waiter.sleeps)
  /\ fifo' = Tail(fifo)
  /\ dmaIndex' = [t \in Tiles |-> Greater(0, dmaIndex[t] - 1)]
  /\ UNCHANGED <<frame, pos, status, padding, temp, holds, queueVars, waiter, wild>>

-----------------------------------------------------------------------------
(* xvCheckTileReady3D. *)

Entry(i) == queue[(start + i) % QueueLength]
Settled(t) == dmaIndex[t] = 0

\* Mutation: the side that was being padded is still needed.
RemainingStill(t) == IF padding[t] = "dummy" THEN {} ELSE status[t] \ {"ongoing"}

\* What remains to be padded when the side that was being padded is done.
Remaining(t) ==
  IF padding[t] = "dummy" THEN {} ELSE status[t] \ {"ongoing", padding[t]}

OnePlane == Extent[1] = 1
Complete(t) == Settled(t) /\ (Remaining(t) = {} \/ (Remaining(t) = {"dummy"} /\ OnePlane))

\* How many entries are taken from the queue when a is asked for.
DoneCount(a) ==
  CHOOSE n \in 0 .. pending :
    /\ \A i \in 0 .. n - 1 : Complete(Entry(i)) /\ (i < n - 1 => Entry(i) # a)
    /\ n = pending \/ ~Complete(Entry(n)) \/ (n > 0 /\ Entry(n - 1) = a)

NextStart(a, n) ==
  IF n > 0 /\ n = pending /\ Entry(n - 1) # a THEN (start + n - 1) % QueueLength
  ELSE (start + n) % QueueLength

NextSide(t) == Sides[CHOOSE i \in DOMAIN Sides :
                        /\ Sides[i] \in Remaining(t)
                        /\ \A j \in 1 .. i - 1 : Sides[j] \notin Remaining(t)]

\* The copies that pad t next, cut as the tile that is asked for.
NextCopies(t, a) ==
  IF Remaining(t) = {"dummy"} THEN <<OtherPlanes(t)>> ELSE SideCopies(t, NextSide(t), Clips(pos[a]))

\* xvAllocateBuffer returns XVTM_ERROR if it fails, which is not NULL.
NeedsTemp(t) == Remaining(t) # {"dummy"} /\ frame.padding # "edge"

\* Mutation: the buffer of the side that is done is kept.
KeepTemp(t) == temp[t]

\* It is freed when the side is done.
FreeTemp(t) == "none"

\* a is what the call asks for; given, whether there is a buffer.
CheckTileReady3D(a, given) ==
  \E n \in {DoneCount(a)} :
  LET done == {Entry(i) : i \in 0 .. n - 1}
      u == Entry(n)
      pads == n < pending /\ ~(n > 0 /\ Entry(n - 1) = a) /\ Settled(u)
      buffer == IF ~NeedsTemp(u) THEN FreeTemp(u) ELSE IF given THEN "given" ELSE "bad"
      source(b) == IF NeedsTemp(u) /\ ~given THEN [b EXCEPT !.from = "wild"] ELSE b
  IN  /\ start' = NextStart(a, n)
      /\ pending' = pending - n
      /\ status' = [t \in Tiles |-> IF t \in done THEN {}
                                    ELSE IF pads /\ t = u THEN Remaining(u) \cup {"ongoing"}
                                    ELSE status[t]]
      /\ padding' = [t \in Tiles |-> IF t \in done THEN "none"
                                     ELSE IF ~pads \/ t # u THEN padding[t]
                                     ELSE IF Remaining(u) = {"dummy"} THEN "dummy" ELSE NextSide(u)]
      /\ temp' = [t \in Tiles |-> IF t \in done THEN FreeTemp(t)
                                  ELSE IF pads /\ t = u THEN buffer ELSE temp[t]]
      /\ wild' = (wild \/ (pads /\ NeedsTemp(u) /\ ~given))
      /\ IF pads
         THEN \E copies \in {NextCopies(u, a)} :
              LET posted == [i \in DOMAIN copies |-> source(copies[i])]
              IN  /\ fifo' = fifo \o posted
                  \* with no copy, dmaIndexTemp is uninitialized
                  /\ \E junk \in 0 .. Len(fifo) :
                       /\ posted # <<>> => junk = 0
                       /\ dmaIndex' = [dmaIndex EXCEPT ![u] =
                                         IF posted = <<>> THEN junk ELSE Len(fifo) + Len(posted)]
         ELSE UNCHANGED <<fifo, dmaIndex>>
      /\ UNCHANGED <<queue, frame, pos, data, holds, interrupt>>

Given == IF BufferFails THEN BOOLEAN ELSE {TRUE}
Asks(t) == InOrder => (pending > 0 => Entry(0) = t)

Poll(t) ==
  /\ waiter = NoCall /\ ~Ready(t) /\ Asks(t)
  /\ \E given \in Given : CheckTileReady3D(t, given)
  /\ UNCHANGED waiter

\* xvWaitForTile3D and xvSleepForTile3D.
Wait(t, sleeps) ==
  /\ waiter = NoCall /\ ~Ready(t) /\ Asks(t)
  /\ waiter' = [tile |-> t, sleeps |-> sleeps, at |-> "look"]
  /\ interrupt' = FALSE
  /\ UNCHANGED <<frame, tileVars, queueVars, fifo, wild>>

WaitForTile3D ==
  /\ waiter # NoCall /\ waiter.at = "look"
  /\ \E given \in Given : CheckTileReady3D(waiter.tile, given)
  /\ waiter' = IF status'[waiter.tile] = {} THEN NoCall
               ELSE [waiter EXCEPT !.at = IF waiter.sleeps THEN "sleep" ELSE "look"]

Sleep ==
  /\ waiter.at = "sleep"
  /\ waiter' = [waiter EXCEPT !.at = "asleep"]
  /\ UNCHANGED <<frame, tileVars, queueVars, fifo, interrupt, wild>>

WakeUp ==
  /\ waiter.at = "asleep" /\ interrupt
  /\ waiter' = [waiter EXCEPT !.at = "look"]
  /\ interrupt' = FALSE
  /\ UNCHANGED <<frame, tileVars, queueVars, fifo, wild>>

-----------------------------------------------------------------------------
Init3D ==
  /\ frame \in [pad : Pads, padding : Paddings]
  /\ pos = [t \in Tiles |-> <<0, 0, 0>>]
  /\ status = [t \in Tiles |-> {}]
  /\ padding = [t \in Tiles |-> "none"]
  /\ temp = [t \in Tiles |-> "none"]
  /\ dmaIndex = [t \in Tiles |-> 0]
  /\ start = 0 /\ pending = 0 /\ queue = [i \in 0 .. QueueLength - 1 |-> NoTile]
  /\ data = [t \in Tiles |-> [c \in Cells |-> Old]]
  /\ fifo = <<>>
  /\ waiter = NoCall /\ interrupt = FALSE
  /\ holds = [t \in Tiles |-> "junk"]
  /\ wild = FALSE

Next3D ==
  \/ \E t \in Tiles :
       \/ \E p \in Positions : ReqTileTransferIn3D(t, p) \/ ReqTileTransferOut3D(t, p)
       \/ Work(t)
       \/ Poll(t)
       \/ \E sleeps \in BOOLEAN : Wait(t, sleeps)
  \/ WaitForTile3D \/ Sleep \/ WakeUp
  \/ Dma

Spec3D == Init3D /\ [][Next3D]_vars3D

\* The iDMA carries out what it is given, and a call that waits goes on.
FairSpec3D ==
  Spec3D /\ WF_vars3D(Dma) /\ WF_vars3D(WaitForTile3D) /\ WF_vars3D(Sleep) /\ WF_vars3D(WakeUp)

-----------------------------------------------------------------------------
(* Properties. *)

\* The pixel that belongs at cell c of t.
Pixel(t, c) ==
  LET at == [d \in Dims |-> pos[t][d] - Edge + c[d]]
      in == [d \in Dims |-> Clamp(at[d], -frame.pad, Frame[d] - 1 + frame.pad)]
  IN  IF at = in \/ (frame.padding = "edge" /\ ~Beyond(Clips(pos[t]))) THEN in ELSE Const

\* A tile that is ready shows its part of the frame and of the padding, pixel
\* for pixel: the six paddings, each posted when the one before it is done,
\* compose.
TileShowsFrame ==
  \A t \in Tiles :
    (Ready(t) /\ holds[t] = "in") => \A c \in Cells : data[t][c] = Pixel(t, c)

\* The padding is written to a buffer of the tile manager.
TempChecked == ~wild

\* A tile has a temporary buffer only while a side of it is padded: none is
\* lost when a request ends.
TempReturned == \A t \in Tiles : temp[t] # "none" => padding[t] \in SideSet

Inner(place, v) ==
  IF place = "tile" THEN v \in Cells
  ELSE \A d \in Dims : v[d] \in -frame.pad .. Frame[d] - 1 + frame.pad

\* What the iDMA is given has cells, and all of them are cells of the tile or
\* pixels of the frame and its pads.
CopiesInBounds ==
  \A i \in DOMAIN fifo :
    LET b == fifo[i]
        last == [d \in Dims |-> b.at[d] + b.size[d] - 1]
    IN  /\ \A d \in Dims : b.size[d] > 0
        /\ Inner(b.to, b.at) /\ Inner(b.to, last)
        /\ b.from \in {"tile", "frame"} => Inner(b.from, b.first) /\ Inner(b.from, SourceOf(b, last))

\* A call that waits or sleeps for a tile returns.
WaitEnds == waiter # NoCall ~> waiter = NoCall
=============================================================================
