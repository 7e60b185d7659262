------------------------- MODULE TileTransferProofs -------------------------
(***************************************************************************)
(* Proofs about the tile transfers, for every frame, tile, edge and queue: *)
(* what the cut of TileGeometry keeps of a tile, however far beyond the    *)
(* frame it lies; that the copies of every request are in bounds, and those *)
(* to the frame in place; what the queue holds; how many tiles reuse one;  *)
(* and, from all of this, that a tile that is ready shows its part of the  *)
(* frame, pixel for pixel.                                                 *)
(***************************************************************************)
EXTENDS TileTransfer, FiniteSetTheorems, WellFoundedInduction, TLAPS

\* The pixels of a frame of n pixels and its pads of p pixels.
FrameAndPads(n, p) == -p .. (n - 1 + p)

\* The borders of the cut, as xvReqTileTransferIn computes them one after the
\* other: whatever the tile, the cut begins in the frame's pads or behind, and
\* ends in them or before.
LEMMA CutWithinFrame ==
  ASSUME NEW first \in Int, NEW last \in Int, NEW n \in Nat \ {0}, NEW p \in Nat,
         first <= last
  PROVE  LET k == Clip(first, last, n, p)
         IN  /\ k.first \in Int /\ k.last \in Int /\ k.before \in Nat /\ k.after \in Nat
             /\ -p <= k.first /\ k.last <= n - 1 + p
BY SMT DEF Clip, Before, LastInFrame, Lesser, Greater

\* The eight comparisons of a request take from the frame exactly what the tile and
\* the frame with its pads have in common: a pixel is copied if and only if both
\* have it, so nothing is read outside the frame and nothing of it is forgotten.
THEOREM CutIsIntersection ==
  ASSUME NEW first \in Int, NEW last \in Int, NEW n \in Nat \ {0}, NEW p \in Nat,
         first <= last
  PROVE  LET k == Clip(first, last, n, p)
         IN  k.first .. k.last = (first .. last) \cap FrameAndPads(n, p)
<1> DEFINE k == Clip(first, last, n, p)
<1>1. /\ k.first \in Int /\ k.last \in Int
  BY CutWithinFrame
<1>2. ASSUME NEW i \in Int
      PROVE  k.first <= i /\ i <= k.last
               <=> first <= i /\ i <= last /\ -p <= i /\ i <= n - 1 + p
  BY <1>2, SMT DEF Clip, Before, LastInFrame, Lesser, Greater
<1>3. \A i : i \in k.first .. k.last <=> i \in Int /\ k.first <= i /\ i <= k.last
  BY <1>1, SMT
<1>4. \A i : i \in (first .. last) \cap FrameAndPads(n, p)
               <=> i \in Int /\ first <= i /\ i <= last /\ -p <= i /\ i <= n - 1 + p
  BY SMT DEF FrameAndPads
<1> HIDE DEF k
<1>5. k.first .. k.last = (first .. last) \cap FrameAndPads(n, p)
  BY <1>2, <1>3, <1>4, Zenon
<1>6. QED
  BY <1>5 DEF k

\* A request takes the short way of a tile with nothing in the frame if and only if
\* the tile and the frame with its pads have nothing in common.
THEOREM NothingWhenDisjoint ==
  ASSUME NEW first \in Int, NEW last \in Int, NEW n \in Nat \ {0}, NEW p \in Nat,
         first <= last
  PROVE  Nothing(Clip(first, last, n, p))
           <=> (first .. last) \cap FrameAndPads(n, p) = {}
<1> DEFINE k == Clip(first, last, n, p)
<1>1. /\ k.first \in Int /\ k.last \in Int
  BY CutWithinFrame
<1>2. k.first .. k.last = (first .. last) \cap FrameAndPads(n, p)
  BY CutIsIntersection
<1> HIDE DEF k
<1>3. k.last < k.first <=> k.first .. k.last = {}
  <2>1. k.first <= k.last => k.first \in k.first .. k.last
    BY <1>1, SMT
  <2>2. k.last < k.first => k.first .. k.last = {}
    BY <1>1, SMT
  <2>3. QED
    BY <1>1, <2>1, <2>2, SMT
<1>4. QED
  BY <1>2, <1>3 DEF k, Nothing

\* What is padded before and behind and what is copied make up the whole tile: a
\* tile with any of the frame in it is filled once, without a gap or an overlap.
THEOREM CutFillsTile ==
  ASSUME NEW first \in Int, NEW last \in Int, NEW n \in Nat \ {0}, NEW p \in Nat,
         first <= last, ~Nothing(Clip(first, last, n, p))
  PROVE  LET k == Clip(first, last, n, p)
         IN  /\ k.before + (k.last - k.first + 1) + k.after = last - first + 1
             /\ k.first = first + k.before
             /\ k.last = last - k.after
BY SMT DEF Clip, Before, LastInFrame, Nothing, Lesser, Greater
-----------------------------------------------------------------------------

\* What CopiesInBounds says of one copy.
InBounds(d) ==
  /\ d.rows > 0 /\ d.cols > 0
  /\ Within(d.to, d.toRow, d.toCol)
  /\ Within(d.to, d.toRow + d.rows - 1, d.toCol + d.cols - 1)
  /\ Within(d.from, d.row, d.col)
  /\ Within(d.from, d.row + d.step * (d.rows - 1), d.col + d.cols - 1)

\* The descriptors that requests are made of; those that are in bounds; and those of
\* them that fill a tile.
Descriptors ==
  [to : 0 .. NumTiles, toRow : Int, toCol : Int, from : 0 .. NumTiles, row : Int, col : Int,
   rows : Int, cols : Int, step : {0, 1}, mask : SUBSET Int, intr : BOOLEAN]
Sound == {d \in Descriptors : InBounds(d)}
Inward == {d \in Sound : d.to \in Tiles}

\* The frame's pads, which no step changes.
FrameTyped == frame.pad \in Nat

\* What the assumption says of the sizes.
LEMMA Sizes ==
  /\ NumTiles \in Nat /\ None \notin Tiles /\ None \in 0 .. NumTiles /\ Tiles \subseteq 0 .. NumTiles
  /\ {TileHeight, TileWidth, FrameHeight, FrameWidth, QueueLength, PadSign} \subseteq Nat \ {0}
  /\ \A t \in 0 .. NumTiles : EdgeOf(t) \in Nat
BY TransferAssumption DEF None, Tiles, EdgeOf

\* A copy from the frame is in bounds when its rows and columns are in the frame with its
\* pads, and in the tile.
LEMMA FrameCopySound ==
  ASSUME FrameTyped, NEW t \in Tiles, NEW x \in Int, NEW y \in Int, NEW intr \in BOOLEAN,
         NEW r1 \in Int, NEW r2 \in Int, NEW c1 \in Int, NEW c2 \in Int, r1 <= r2, c1 <= c2,
         -frame.pad <= r1, r2 <= FrameHeight - 1 + frame.pad,
         -frame.pad <= c1, c2 <= FrameWidth - 1 + frame.pad,
         y - EdgeOf(t) <= r1, r2 <= y + TileHeight - 1 + EdgeOf(t),
         x - EdgeOf(t) <= c1, c2 <= x + TileWidth - 1 + EdgeOf(t)
  PROVE  FromFrame(t, <<x, y>>, r1, r2, c1, c2, intr) \in Inward
<1>. DEFINE d == FromFrame(t, <<x, y>>, r1, r2, c1, c2, intr)
<1>1. /\ d.to = t /\ d.toRow = r1 - y + EdgeOf(t) /\ d.toCol = c1 - x + EdgeOf(t)
      /\ d.from = None /\ d.row = r1 /\ d.col = c1 /\ d.step = 1
      /\ d.rows = r2 - r1 + 1 /\ d.cols = c2 - c1 + 1
  BY DEF FromFrame, Copy
<1>2. /\ EdgeOf(t) \in Nat /\ frame.pad \in Nat /\ t # None
      /\ TileHeight \in Nat /\ TileWidth \in Nat /\ FrameHeight \in Nat /\ FrameWidth \in Nat
  BY Sizes DEF FrameTyped
<1>3. d \in Descriptors
  BY <1>2, Sizes DEF FromFrame, Copy, Descriptors
<1>. HIDE DEF d
<1>4. d.rows > 0 /\ d.cols > 0
  BY <1>1
<1>5. Within(d.to, d.toRow, d.toCol) /\ Within(d.to, d.toRow + d.rows - 1, d.toCol + d.cols - 1)
  BY <1>1, <1>2 DEF Within, Cells, Height, Width
<1>6. Within(d.from, d.row, d.col) /\ Within(d.from, d.row + d.step * (d.rows - 1), d.col + d.cols - 1)
  <2>1. d.row + d.step * (d.rows - 1) = r2 /\ d.col + d.cols - 1 = c2
    BY <1>1
  <2> QED  BY <1>1, <1>2, <2>1 DEF Within, InFrame
<1>8. d \in Inward
  BY <1>1, <1>3, <1>4, <1>5, <1>6 DEF Inward, Sound, InBounds
<1> QED  BY <1>8 DEF d

\* A copy from a tile is in bounds when its rows and columns are in both tiles.
LEMMA TileCopySound ==
  ASSUME NEW t \in Tiles, NEW q \in Tiles, NEW x \in Int, NEW y \in Int, NEW intr \in BOOLEAN,
         pos[q][1] \in Int, pos[q][2] \in Int,
         NEW r1 \in Int, NEW r2 \in Int, NEW c1 \in Int, NEW c2 \in Int, r1 <= r2, c1 <= c2,
         Region(q).y1 <= r1, r2 <= Region(q).y2, Region(q).x1 <= c1, c2 <= Region(q).x2,
         y - EdgeOf(t) <= r1, r2 <= y + TileHeight - 1 + EdgeOf(t),
         x - EdgeOf(t) <= c1, c2 <= x + TileWidth - 1 + EdgeOf(t)
  PROVE  FromTile(t, <<x, y>>, q, r1, r2, c1, c2, intr) \in Inward
<1>. DEFINE d == FromTile(t, <<x, y>>, q, r1, r2, c1, c2, intr)
            a == pos[q][2]
            b == pos[q][1]
<1>1. /\ d.to = t /\ d.toRow = r1 - y + EdgeOf(t) /\ d.toCol = c1 - x + EdgeOf(t)
      /\ d.from = q /\ d.row = r1 - a + EdgeOf(q) /\ d.col = c1 - b + EdgeOf(q) /\ d.step = 1
      /\ d.rows = r2 - r1 + 1 /\ d.cols = c2 - c1 + 1
  BY DEF FromTile, Copy
<1>2. /\ EdgeOf(t) \in Nat /\ EdgeOf(q) \in Nat /\ t # None /\ q # None /\ a \in Int /\ b \in Int
      /\ TileHeight \in Nat /\ TileWidth \in Nat
  BY Sizes
<1>3. /\ a - EdgeOf(q) <= r1 /\ r2 <= a + TileHeight - 1 + EdgeOf(q)
      /\ b - EdgeOf(q) <= c1 /\ c2 <= b + TileWidth - 1 + EdgeOf(q)
  BY DEF Region
<1>4. d \in Descriptors
  BY <1>2, Sizes DEF FromTile, Copy, Descriptors
<1>. HIDE DEF d, a, b
<1>5. d.rows > 0 /\ d.cols > 0
  BY <1>1
<1>6. Within(d.to, d.toRow, d.toCol) /\ Within(d.to, d.toRow + d.rows - 1, d.toCol + d.cols - 1)
  BY <1>1, <1>2 DEF Within, Cells, Height, Width
<1>7. Within(d.from, d.row, d.col) /\ Within(d.from, d.row + d.step * (d.rows - 1), d.col + d.cols - 1)
  <2>1. d.row + d.step * (d.rows - 1) = r2 - a + EdgeOf(q) /\ d.col + d.cols - 1 = c2 - b + EdgeOf(q)
    BY <1>1, <1>2
  <2> QED  BY <1>1, <1>2, <1>3, <2>1 DEF Within, Cells, Height, Width
<1>8. d \in Inward
  BY <1>1, <1>4, <1>5, <1>6, <1>7 DEF Inward, Sound, InBounds
<1> QED  BY <1>8 DEF d

\* What is left of a cut is in the tile and in the frame with its pads, the negative pads
\* of Pad included; it and what is padded make up the tile.
LEMMA CutInBoth ==
  ASSUME NEW first \in Int, NEW last \in Int, NEW n \in Nat \ {0}, NEW p \in Int,
         first <= last, ~Nothing(Clip(first, last, n, p))
  PROVE  LET k == Clip(first, last, n, p)
         IN  /\ k.first \in Int /\ k.last \in Int /\ k.before \in Nat /\ k.after \in Nat
             /\ first <= k.first /\ k.first <= k.last /\ k.last <= last
             /\ -p <= k.first /\ k.last <= n - 1 + p
             /\ k.before + (k.last - k.first + 1) + k.after = last - first + 1
BY SMT DEF Clip, Before, LastInFrame, Nothing, Lesser, Greater
\* The rows and columns that a request has of a tile at x, y, when some are left.
CutTo(t, x, y, rows, cols) ==
  /\ rows.first \in Int /\ rows.last \in Int /\ cols.first \in Int /\ cols.last \in Int
  /\ rows.first <= rows.last /\ cols.first <= cols.last
  /\ -frame.pad <= rows.first /\ rows.last <= FrameHeight - 1 + frame.pad
  /\ -frame.pad <= cols.first /\ cols.last <= FrameWidth - 1 + frame.pad
  /\ y - EdgeOf(t) <= rows.first /\ rows.last <= y + TileHeight - 1 + EdgeOf(t)
  /\ x - EdgeOf(t) <= cols.first /\ cols.last <= x + TileWidth - 1 + EdgeOf(t)

\* What a request has of the frame, for pads that are no more than the frame's.
LEMMA RequestCut ==
  ASSUME FrameTyped, NEW t \in Tiles, NEW x \in Int, NEW y \in Int, NEW p \in Int, p <= frame.pad,
         ~Nothing(Rows(t, <<x, y>>, p)), ~Nothing(Cols(t, <<x, y>>, p))
  PROVE  CutTo(t, x, y, Rows(t, <<x, y>>, p), Cols(t, <<x, y>>, p))
<1>. DEFINE e == EdgeOf(t)
            rows == Rows(t, <<x, y>>, p)
            cols == Cols(t, <<x, y>>, p)
<1>1. /\ e \in Nat /\ frame.pad \in Nat /\ TileHeight \in Nat \ {0} /\ TileWidth \in Nat \ {0}
      /\ FrameHeight \in Nat \ {0} /\ FrameWidth \in Nat \ {0}
  BY Sizes DEF FrameTyped
<1>2. /\ rows = Clip(y - e, y + TileHeight - 1 + e, FrameHeight, p)
      /\ cols = Clip(x - e, x + TileWidth - 1 + e, FrameWidth, p)
  BY DEF Rows, Cols
<1>. HIDE DEF e, rows, cols
<1>3. /\ rows.first \in Int /\ rows.last \in Int
      /\ y - e <= rows.first /\ rows.first <= rows.last /\ rows.last <= y + TileHeight - 1 + e
      /\ -p <= rows.first /\ rows.last <= FrameHeight - 1 + p
  <2>1. ~Nothing(Clip(y - e, y + TileHeight - 1 + e, FrameHeight, p))
    BY <1>2 DEF rows
  <2>2. y - e \in Int /\ y + TileHeight - 1 + e \in Int /\ y - e <= y + TileHeight - 1 + e
    BY <1>1
  <2> QED  BY <1>1, <1>2, <2>1, <2>2, CutInBoth
<1>4. /\ cols.first \in Int /\ cols.last \in Int
      /\ x - e <= cols.first /\ cols.first <= cols.last /\ cols.last <= x + TileWidth - 1 + e
      /\ -p <= cols.first /\ cols.last <= FrameWidth - 1 + p
  <2>1. ~Nothing(Clip(x - e, x + TileWidth - 1 + e, FrameWidth, p))
    BY <1>2 DEF cols
  <2>2. x - e \in Int /\ x + TileWidth - 1 + e \in Int /\ x - e <= x + TileWidth - 1 + e
    BY <1>1
  <2> QED  BY <1>1, <1>2, <2>1, <2>2, CutInBoth
<1>5. /\ -frame.pad <= rows.first /\ rows.last <= FrameHeight - 1 + frame.pad
      /\ -frame.pad <= cols.first /\ cols.last <= FrameWidth - 1 + frame.pad
  BY <1>1, <1>3, <1>4
<1> QED  BY <1>3, <1>4, <1>5 DEF CutTo, e, rows, cols

\* The copy of a request that reuses nothing.
LEMMA WholeSound ==
  ASSUME FrameTyped, NEW t \in Tiles, NEW x \in Int, NEW y \in Int, NEW rows, NEW cols,
         CutTo(t, x, y, rows, cols)
  PROVE  Whole(t, <<x, y>>, rows, cols) \in Inward
BY FrameCopySound DEF CutTo, Whole

\* Copies that differ in their mask or interrupt only.
LEMMA SoundExcept ==
  ASSUME NEW d \in Sound
  PROVE  /\ \A mask \in SUBSET Int : [d EXCEPT !.mask = mask] \in Sound
         /\ \A intr \in BOOLEAN : [d EXCEPT !.intr = intr] \in Sound
         /\ d.mask \subseteq Int
BY DEF Sound, InBounds, Descriptors

\* Copies that differ in their mask or interrupt only.
LEMMA InwardExcept ==
  ASSUME NEW d \in Inward
  PROVE  /\ \A mask \in SUBSET Int : [d EXCEPT !.mask = mask] \in Inward
         /\ \A intr \in BOOLEAN : [d EXCEPT !.intr = intr] \in Inward
         /\ d.mask \subseteq Int
<1>1. d \in Sound /\ d.to \in Tiles
  BY DEF Inward
<1>2. \A mask : [d EXCEPT !.mask = mask].to = d.to /\ [d EXCEPT !.intr = mask].to = d.to
  BY <1>1 DEF Sound, Descriptors
<1> QED  BY <1>1, <1>2, SoundExcept DEF Inward

\* Columns x1 .. x2 of the request and p1 .. p2 of tile q; rows r1 .. r2 of both.
SharedCols(q, cols, x1, x2, p1, p2) ==
  x1 = cols.first /\ x2 = cols.last /\ p1 = Region(q).x1 /\ p2 = Region(q).x2

\* Rows r1 .. r2 are in the request and in tile q.
SharedRows(q, rows, r1, r2) ==
  rows.first <= r1 /\ r2 <= rows.last /\ Region(q).y1 <= r1 /\ r2 <= Region(q).y2

\* The tile has been given a place.
Placed(q) == pos[q][1] \in Int /\ pos[q][2] \in Int

\* The rows that t shares with q, in the at most three parts of solveForX.
LEMMA AcrossSound ==
  ASSUME FrameTyped, NEW t \in Tiles, NEW q \in Tiles, NEW x \in Int, NEW y \in Int,
         Placed(q), NEW rows, NEW cols, CutTo(t, x, y, rows, cols),
         NEW x1 \in Int, NEW x2 \in Int, NEW p1 \in Int, NEW p2 \in Int,
         SharedCols(q, cols, x1, x2, p1, p2), p1 <= p2, p2 >= x1, p1 <= x2,
         NEW r1 \in Int, NEW r2 \in Int, r1 <= r2, SharedRows(q, rows, r1, r2)
  PROVE  solveForX(t, <<x, y>>, q, r1, r2, x1, x2, p1, p2) \in Seq(Inward)
<1>. DEFINE F0(a, b) == FromFrame(t, <<x, y>>, r1, r2, a, b, FALSE)
            F1(a, b) == FromFrame(t, <<x, y>>, r1, r2, a, b, TRUE)
            T0(a, b) == FromTile(t, <<x, y>>, q, r1, r2, a, b, FALSE)
            T1(a, b) == FromTile(t, <<x, y>>, q, r1, r2, a, b, TRUE)
<1>1. /\ EdgeOf(t) \in Nat /\ EdgeOf(q) \in Nat /\ frame.pad \in Nat
      /\ TileHeight \in Nat /\ TileWidth \in Nat /\ FrameHeight \in Nat /\ FrameWidth \in Nat
  BY Sizes DEF FrameTyped
<1>2. /\ -frame.pad <= r1 /\ r2 <= FrameHeight - 1 + frame.pad
      /\ y - EdgeOf(t) <= r1 /\ r2 <= y + TileHeight - 1 + EdgeOf(t)
  BY <1>1 DEF CutTo, SharedRows
<1>3. /\ x1 <= x2 /\ -frame.pad <= x1 /\ x2 <= FrameWidth - 1 + frame.pad
      /\ x - EdgeOf(t) <= x1 /\ x2 <= x + TileWidth - 1 + EdgeOf(t)
  BY DEF CutTo, SharedCols
<1>4. \A a, b \in Int : x1 <= a /\ a <= b /\ b <= x2 =>
        F0(a, b) \in Inward /\ F1(a, b) \in Inward
  <2>1. TAKE a, b \in Int
  <2>2. HAVE x1 <= a /\ a <= b /\ b <= x2
  <2>3. /\ -frame.pad <= a /\ b <= FrameWidth - 1 + frame.pad
        /\ x - EdgeOf(t) <= a /\ b <= x + TileWidth - 1 + EdgeOf(t)
    BY <1>1, <1>3, <2>2
  <2> QED  BY <1>2, <2>2, <2>3, FrameCopySound
<1>5. \A a, b \in Int : x1 <= a /\ a <= b /\ b <= x2 /\ p1 <= a /\ b <= p2 =>
        T0(a, b) \in Inward /\ T1(a, b) \in Inward
  <2>1. TAKE a, b \in Int
  <2>2. HAVE x1 <= a /\ a <= b /\ b <= x2 /\ p1 <= a /\ b <= p2
  <2>3. x - EdgeOf(t) <= a /\ b <= x + TileWidth - 1 + EdgeOf(t)
    BY <1>1, <1>3, <2>2
  <2> QED  BY <1>2, <2>2, <2>3, TileCopySound DEF Placed, SharedRows, SharedCols
<1>. DEFINE X == solveForX(t, <<x, y>>, q, r1, r2, x1, x2, p1, p2)
<1>0. SUFFICES X \in Seq(Inward)
  OBVIOUS
<1>6. X
        = CASE p1 <= x1 /\ p2 < x2 -> <<T0(x1, p2), F1(p2 + 1, x2)>>
            [] x1 < p1 /\ p2 < x2 -> <<F0(x1, p1 - 1), T0(p1, p2), F1(p2 + 1, x2)>>
            [] x1 < p1 /\ x2 <= p2 -> <<F0(x1, p1 - 1), T1(p1, x2)>>
            [] p1 <= x1 /\ x2 <= p2 -> <<T1(x1, x2)>>
  BY DEF solveForX
<1>. HIDE DEF X, F0, F1, T0, T1
<1>7. p2 < x2 => F1(p2 + 1, x2) \in Inward
  <2>1. p2 + 1 \in Int /\ (p2 < x2 => p2 + 1 <= x2) /\ x1 <= p2 + 1
    OBVIOUS
  <2> QED  BY <1>4, <2>1
<1>8. x1 < p1 => F0(x1, p1 - 1) \in Inward
  <2>1. p1 - 1 \in Int /\ (x1 < p1 => x1 <= p1 - 1) /\ p1 - 1 <= x2
    OBVIOUS
  <2> QED  BY <1>4, <2>1
<1>9. CASE p1 <= x1 /\ p2 < x2
  <2>1. T0(x1, p2) \in Inward
    BY <1>5, <1>9
  <2>2. <<T0(x1, p2), F1(p2 + 1, x2)>> \in Seq(Inward)
    BY <1>7, <1>9, <2>1
  <2>3. X = <<T0(x1, p2), F1(p2 + 1, x2)>>
    BY <1>6, <1>9
  <2> QED  BY <2>2, <2>3, Zenon
<1>10. CASE x1 < p1 /\ p2 < x2
  <2>1. T0(p1, p2) \in Inward
    BY <1>5, <1>10
  <2>2. <<F0(x1, p1 - 1), T0(p1, p2), F1(p2 + 1, x2)>> \in Seq(Inward)
    BY <1>7, <1>8, <1>10, <2>1
  <2>3. X = <<F0(x1, p1 - 1), T0(p1, p2), F1(p2 + 1, x2)>>
    BY <1>6, <1>10
  <2> QED  BY <2>2, <2>3, Zenon
<1>11. CASE x1 < p1 /\ x2 <= p2
  <2>1. T1(p1, x2) \in Inward
    BY <1>5, <1>11
  <2>2. <<F0(x1, p1 - 1), T1(p1, x2)>> \in Seq(Inward)
    BY <1>8, <1>11, <2>1
  <2>3. X = <<F0(x1, p1 - 1), T1(p1, x2)>>
    BY <1>6, <1>11
  <2> QED  BY <2>2, <2>3, Zenon
<1>12. CASE p1 <= x1 /\ x2 <= p2
  <2>1. T1(x1, x2) \in Inward
    BY <1>3, <1>5, <1>12
  <2>2. <<T1(x1, x2)>> \in Seq(Inward)
    BY <2>1
  <2>3. X = <<T1(x1, x2)>>
    BY <1>6, <1>12
  <2> QED  BY <2>2, <2>3, Zenon
<1> QED  BY <1>9, <1>10, <1>11, <1>12

\* A request that reuses a tile: the rows above and below it come from the frame, whatever
\* the two tiles share, and no part is empty.
LEMMA ReuseSound ==
  ASSUME FrameTyped, NEW t \in Tiles, NEW q \in Tiles, NEW x \in Int, NEW y \in Int,
         Placed(q), NEW rows, NEW cols, CutTo(t, x, y, rows, cols), Overlap(q, rows, cols)
  PROVE  Reuse(t, <<x, y>>, q, rows, cols) \in Seq(Inward)
<1>1. PICK y1, y2, x1, x2, a1, a2, b1, b2 \in Int :
        /\ y1 = rows.first /\ y2 = rows.last /\ x1 = cols.first /\ x2 = cols.last
        /\ a1 = Region(q).y1 /\ a2 = Region(q).y2 /\ b1 = Region(q).x1 /\ b2 = Region(q).x2
  <2>1. /\ rows.first \in Int /\ rows.last \in Int /\ cols.first \in Int /\ cols.last \in Int
    BY DEF CutTo
  <2>2. /\ Region(q).y1 \in Int /\ Region(q).y2 \in Int /\ Region(q).x1 \in Int /\ Region(q).x2 \in Int
    BY Sizes DEF Region, Placed
  <2> QED  BY <2>1, <2>2
<1>. DEFINE across(a, b) == solveForX(t, <<x, y>>, q, a, b, x1, x2, b1, b2)
            strip(a, b) == FromFrame(t, <<x, y>>, a, b, x1, x2, FALSE)
            X == Reuse(t, <<x, y>>, q, rows, cols)
            S1 == <<strip(a2 + 1, y2)>> \o across(y1, a2)
            S2 == <<strip(y1, a1), strip(a2 + 1, y2)>> \o across(a1, a2)
            S3 == <<strip(y1, a1 - 1)>> \o across(a1, y2)
            S4 == across(y1, y2)
<1>2. SUFFICES X \in Seq(Inward)
  OBVIOUS
<1>3. /\ a1 <= a2 /\ b1 <= b2 /\ y1 <= y2 /\ a2 >= y1 /\ a1 <= y2 /\ b2 >= x1 /\ b1 <= x2
  <2>1. EdgeOf(q) \in Nat /\ TileHeight \in Nat \ {0} /\ TileWidth \in Nat \ {0}
    BY Sizes
  <2> QED  BY <1>1, <2>1 DEF Region, CutTo, Overlap, Placed
<1>4. \A a, b \in Int : y1 <= a /\ a <= b /\ b <= y2 /\ a1 <= a /\ b <= a2 =>
        across(a, b) \in Seq(Inward)
  <2>1. TAKE a, b \in Int
  <2>2. HAVE y1 <= a /\ a <= b /\ b <= y2 /\ a1 <= a /\ b <= a2
  <2>3. SharedRows(q, rows, a, b) /\ SharedCols(q, cols, x1, x2, b1, b2)
    BY <1>1, <2>2 DEF SharedRows, SharedCols
  <2> QED  BY <1>3, <2>2, <2>3, AcrossSound
<1>5. \A a, b \in Int : y1 <= a /\ a <= b /\ b <= y2 => strip(a, b) \in Inward
  <2>1. TAKE a, b \in Int
  <2>2. HAVE y1 <= a /\ a <= b /\ b <= y2
  <2>3. /\ EdgeOf(t) \in Nat /\ frame.pad \in Nat
        /\ TileHeight \in Nat /\ TileWidth \in Nat /\ FrameHeight \in Nat /\ FrameWidth \in Nat
    BY Sizes DEF FrameTyped
  <2>4. /\ -frame.pad <= a /\ b <= FrameHeight - 1 + frame.pad
        /\ y - EdgeOf(t) <= a /\ b <= y + TileHeight - 1 + EdgeOf(t)
    BY <1>1, <2>2, <2>3 DEF CutTo
  <2>5. /\ x1 <= x2 /\ -frame.pad <= x1 /\ x2 <= FrameWidth - 1 + frame.pad
        /\ x - EdgeOf(t) <= x1 /\ x2 <= x + TileWidth - 1 + EdgeOf(t)
    BY <1>1 DEF CutTo
  <2> QED  BY <2>2, <2>4, <2>5, FrameCopySound
<1>6. X = CASE a1 <= y1 /\ a2 < y2 -> S1
            [] y1 < a1 /\ a2 < y2 -> S2
            [] y1 < a1 /\ y2 <= a2 -> S3
            [] a1 <= y1 /\ y2 <= a2 -> S4
  BY <1>1 DEF Reuse
<1>. HIDE DEF across, strip, X, S1, S2, S3, S4
<1>7. a2 < y2 => strip(a2 + 1, y2) \in Inward
  <2>1. a2 + 1 \in Int /\ y1 <= a2 + 1 /\ (a2 < y2 => a2 + 1 <= y2)
    BY <1>3
  <2> QED  BY <1>5, <2>1
<1>8. CASE a1 <= y1 /\ a2 < y2
  <2>2. across(y1, a2) \in Seq(Inward) /\ strip(a2 + 1, y2) \in Inward
    BY <1>3, <1>4, <1>5, <1>7, <1>8
  <2>3. X = S1
    BY <1>6, <1>8
  <2>4. S1 \in Seq(Inward)
    BY <2>2 DEF S1
  <2> QED  BY <2>3, <2>4, Zenon
<1>9. CASE y1 < a1 /\ a2 < y2
  <2>2. across(a1, a2) \in Seq(Inward) /\ strip(y1, a1) \in Inward /\ strip(a2 + 1, y2) \in Inward
    BY <1>3, <1>4, <1>5, <1>7, <1>9
  <2>3. X = S2
    BY <1>6, <1>9
  <2>4. S2 \in Seq(Inward)
    BY <2>2 DEF S2
  <2> QED  BY <2>3, <2>4, Zenon
<1>10. CASE y1 < a1 /\ y2 <= a2
  <2>1. a1 - 1 \in Int /\ y1 <= a1 - 1 /\ a1 - 1 <= y2
    BY <1>3, <1>10
  <2>2. across(a1, y2) \in Seq(Inward) /\ strip(y1, a1 - 1) \in Inward
    BY <1>3, <1>4, <1>5, <1>10, <2>1
  <2>3. X = S3
    BY <1>6, <1>10
  <2>4. S3 \in Seq(Inward)
    BY <2>2 DEF S3
  <2> QED  BY <2>3, <2>4, Zenon
<1>11. CASE a1 <= y1 /\ y2 <= a2
  <2>2. across(y1, y2) \in Seq(Inward)
    BY <1>3, <1>4, <1>5, <1>7, <1>11
  <2>3. X = S4
    BY <1>6, <1>11
  <2>4. S4 \in Seq(Inward)
    BY <2>2 DEF S4
  <2> QED  BY <2>3, <2>4, Zenon
<1> QED  BY <1>8, <1>9, <1>10, <1>11
\* A row of a tile that is repeated into others of it.
LEMMA RepeatRowSound ==
  ASSUME NEW t \in Tiles, NEW row \in Int, NEW toRow \in Int, NEW n \in Int, NEW last \in BOOLEAN,
         0 <= row, row < Height(t), 0 <= toRow, 0 < n, toRow + n <= Height(t)
  PROVE  RepeatRow(t, row, toRow, n, last) \in Inward
<1>. DEFINE d == RepeatRow(t, row, toRow, n, last)
<1>1. /\ Height(t) \in Nat /\ Width(t) \in Nat /\ Width(t) > 0 /\ t \in 0 .. NumTiles /\ t # None
  BY Sizes DEF Height, Width
<1>2. /\ d.to = t /\ d.toRow = toRow /\ d.toCol = 0 /\ d.from = t /\ d.row = row /\ d.col = 0
      /\ d.step = 0 /\ d.rows = n /\ d.cols = Width(t)
  BY DEF RepeatRow, Copy
<1>3. d \in Descriptors
  BY <1>1 DEF RepeatRow, Copy, Descriptors
<1>. HIDE DEF d
<1>4. Within(d.to, d.toRow, d.toCol) /\ Within(d.to, d.toRow + d.rows - 1, d.toCol + d.cols - 1)
  BY <1>1, <1>2 DEF Within, Cells
<1>5. Within(d.from, d.row, d.col) /\ Within(d.from, d.row + d.step * (d.rows - 1), d.col + d.cols - 1)
  <2>1. d.row + d.step * (d.rows - 1) = row /\ d.col + d.cols - 1 = Width(t) - 1
    BY <1>1, <1>2
  <2> QED  BY <1>1, <1>2, <2>1 DEF Within, Cells
<1> QED  BY <1>1, <1>2, <1>3, <1>4, <1>5 DEF Inward, Sound, InBounds, d

\* The rows of a Fast request: some are in the frame.
LEMMA FastCut ==
  ASSUME NEW t \in Tiles, NEW x \in Int, NEW y \in Int, ~Nothing(Rows(t, <<x, y>>, 0))
  PROVE  \E before, after, h \in Nat :
           /\ before = Rows(t, <<x, y>>, 0).before /\ after = Rows(t, <<x, y>>, 0).after
           /\ h = Height(t) /\ before < h /\ after < h
<1>1. EdgeOf(t) \in Nat /\ TileHeight \in Nat \ {0} /\ FrameHeight \in Nat \ {0}
  BY Sizes DEF Tiles
<1>2. PICK a, b \in Int : a = y - EdgeOf(t) /\ b = y + TileHeight - 1 + EdgeOf(t)
  BY <1>1
<1>3. PICK h \in Nat : h = Height(t)
  BY <1>1 DEF Height
<1>4. a <= b /\ h = b - a + 1
  BY <1>1, <1>2, <1>3 DEF Height
<1>5. Rows(t, <<x, y>>, 0) = Clip(a, b, FrameHeight, 0)
  BY <1>2 DEF Rows
<1>6. ~Nothing(Clip(a, b, FrameHeight, 0))
  BY <1>5
<1>. DEFINE k == Clip(a, b, FrameHeight, 0)
<1>7. /\ k.before \in Nat /\ k.after \in Nat /\ k.first \in Int /\ k.last \in Int
      /\ k.first <= k.last /\ k.before + (k.last - k.first + 1) + k.after = b - a + 1
  BY <1>1, <1>4, <1>6, CutInBoth
<1>. HIDE DEF k
<1>8. k.before < h /\ k.after < h
  BY <1>4, <1>7
<1> QED  BY <1>3, <1>5, <1>7, <1>8 DEF k

\* The copies of the Fast functions, which repeat a row of the tile beyond the frame.
LEMMA FastSound ==
  ASSUME FrameTyped, NEW t \in Tiles, NEW x \in Int, NEW y \in Int, ~Beyond(t, <<x, y>>)
  PROVE  FastCopies(t, <<x, y>>, Rows(t, <<x, y>>, 0), Cols(t, <<x, y>>, 0)) \in Seq(Inward)
<1>. DEFINE rows == Rows(t, <<x, y>>, 0)
            cols == Cols(t, <<x, y>>, 0)
<1>1. ~Nothing(rows) /\ ~Nothing(cols)
  BY DEF Beyond
<1>2. CutTo(t, x, y, rows, cols)
  BY <1>1, RequestCut DEF FrameTyped
<1>3. PICK before, after, h \in Nat :
        before = rows.before /\ after = rows.after /\ h = Height(t) /\ before < h /\ after < h
  BY <1>1, FastCut
<1>. DEFINE top == frame.padding = "edge" /\ before > 0
            bottom == frame.padding = "edge" /\ after > 0
<1>4. \A last \in BOOLEAN : WholeFast(t, <<x, y>>, rows, cols, last) \in Inward
  BY <1>2, WholeSound, InwardExcept DEF WholeFast
<1>5. top => \A last \in BOOLEAN : RepeatRow(t, before, 0, before, last) \in Inward
  BY <1>3, RepeatRowSound
<1>6. bottom => RepeatRow(t, h - after - 1, h - after, after, TRUE) \in Inward
  <2>1. PICK z, w \in Int : z = h - after /\ w = h - after - 1
    BY <1>3
  <2>2. /\ 0 <= w /\ w < Height(t) /\ 0 <= z /\ z + after <= h
    BY <1>3, <2>1
  <2>3. \A n \in Int : 0 < n /\ z + n <= h => RepeatRow(t, w, z, n, TRUE) \in Inward
    BY <1>3, <2>2, RepeatRowSound
  <2>4. after \in Int
    OBVIOUS
  <2>. HIDE DEF Inward
  <2>5. 0 < after => RepeatRow(t, w, z, after, TRUE) \in Inward
    BY <2>2, <2>3, <2>4
  <2> QED  BY <2>1, <2>5
<1>. DEFINE A == WholeFast(t, <<x, y>>, rows, cols, ~top /\ ~bottom)
            B == RepeatRow(t, before, 0, before, ~bottom)
            C == RepeatRow(t, h - after - 1, h - after, after, TRUE)
            S1 == <<A>>
            S2 == IF top THEN <<B>> ELSE <<>>
            S3 == IF bottom THEN <<C>> ELSE <<>>
            X == FastCopies(t, <<x, y>>, rows, cols)
<1>7. A \in Inward /\ (top => B \in Inward) /\ (bottom => C \in Inward)
  <2>1. (~top /\ ~bottom) \in BOOLEAN /\ (~bottom) \in BOOLEAN
    OBVIOUS
  <2>. HIDE DEF top, bottom, rows, cols
  <2> QED  BY <1>4, <1>5, <1>6, <2>1, Zenon
<1>8. X = S1 \o S2 \o S3
  BY <1>3 DEF FastCopies
<1>. HIDE DEF A, B, C, X, top, bottom
<1>9. S1 \in Seq(Inward) /\ S2 \in Seq(Inward) /\ S3 \in Seq(Inward)
  BY <1>7
<1>. HIDE DEF S1, S2, S3
<1>10. S1 \o S2 \o S3 \in Seq(Inward)
  BY <1>9
<1> QED  BY <1>8, <1>10 DEF X

\* A copy to the frame that moves something is in bounds.
LEMMA OutSound ==
  ASSUME FrameTyped, NEW t \in Tiles, NEW x \in Int, NEW y \in Int,
         OutCopy(t, <<x, y>>).rows > 0, OutCopy(t, <<x, y>>).cols > 0
  PROVE  OutCopy(t, <<x, y>>) \in Sound
<1>. DEFINE d == OutCopy(t, <<x, y>>)
            e == EdgeOf(t)
<1>1. /\ e \in Nat /\ frame.pad \in Nat /\ t \in 0 .. NumTiles /\ t # None
      /\ TileHeight \in Nat /\ TileWidth \in Nat /\ FrameHeight \in Nat /\ FrameWidth \in Nat
      /\ None \in 0 .. NumTiles /\ Height(t) = TileHeight + 2 * e /\ Width(t) = TileWidth + 2 * e
  BY Sizes DEF FrameTyped, Height, Width
<1>2. /\ d.to = None /\ d.from = t /\ d.step = 1
      /\ d.toRow = Greater(0, y) /\ d.toCol = Greater(0, x)
      /\ d.row = e + Greater(0, -y) /\ d.col = e + Greater(0, -x)
      /\ d.rows = Lesser(TileHeight, FrameHeight - y) + Lesser(0, y)
      /\ d.cols = Lesser(TileWidth, FrameWidth - x) + Lesser(0, x)
  BY DEF OutCopy, Copy, FirstKept
<1>3. d \in Descriptors
  <2>1. /\ d.toRow \in Int /\ d.toCol \in Int /\ d.row \in Int /\ d.col \in Int
        /\ d.rows \in Int /\ d.cols \in Int
    BY <1>1, <1>2 DEF Greater, Lesser
  <2> QED  BY <1>1, <1>2, <2>1 DEF OutCopy, Copy, Descriptors
<1>4. d.rows > 0 /\ d.cols > 0
  OBVIOUS
<1>. HIDE DEF d, e
<1>5. /\ d.toRow \in Int /\ d.row \in Int /\ d.rows \in Int
      /\ 0 <= d.toRow /\ d.toRow + d.rows - 1 <= FrameHeight - 1
      /\ e <= d.row /\ d.row + (d.rows - 1) <= e + TileHeight - 1
  BY <1>1, <1>2, <1>4 DEF Greater, Lesser
<1>6. /\ d.toCol \in Int /\ d.col \in Int /\ d.cols \in Int
      /\ 0 <= d.toCol /\ d.toCol + d.cols - 1 <= FrameWidth - 1
      /\ e <= d.col /\ d.col + d.cols - 1 <= e + TileWidth - 1
  BY <1>1, <1>2, <1>4 DEF Greater, Lesser
<1>7. Within(d.to, d.toRow, d.toCol) /\ Within(d.to, d.toRow + d.rows - 1, d.toCol + d.cols - 1)
  BY <1>1, <1>2, <1>4, <1>5, <1>6 DEF Within, InFrame
<1>8. Within(d.from, d.row, d.col) /\ Within(d.from, d.row + d.step * (d.rows - 1), d.col + d.cols - 1)
  <2>1. d.row + d.step * (d.rows - 1) = d.row + (d.rows - 1)
    BY <1>2, <1>5
  <2> QED  BY <1>1, <1>2, <1>4, <1>5, <1>6, <2>1 DEF Within, Cells
<1> QED  BY <1>3, <1>4, <1>7, <1>8 DEF Sound, InBounds, d

-----------------------------------------------------------------------------

\* The flags of a tile, and what has been requested of it.
Flags == Sides \cup {"ongoing", "dummy"}
Kinds == {"in", "predicated", "fast", "out", "outFast", "junk"}

\* The kinds of values.
TransferTyped ==
  /\ frame \in [pad : FramePads, padding : Paddings]
  /\ pos \in [Tiles -> Int \X Int]
  /\ status \in [Tiles -> SUBSET Flags]
  /\ dmaIndex \in [Tiles -> Nat]
  /\ holds \in [Tiles -> Kinds]
  /\ start \in 0 .. QueueLength - 1 /\ pending \in Nat
  /\ queue \in [0 .. QueueLength - 1 -> 0 .. NumTiles]
  /\ waiter \in [tile : 0 .. NumTiles, sleeps : BOOLEAN, at : {"look", "sleep", "asleep"}]
  /\ errorFlag \in BOOLEAN
  /\ fifo \in Seq(Descriptors)

\* What the requests have in common: t is ready, and its copies go behind the others.
Requested(t, xy, copies) ==
  /\ waiter = NoCall /\ ~errorFlag /\ status[t] = {}
  /\ pos' = [pos EXCEPT ![t] = xy]
  /\ fifo' = fifo \o copies
  /\ dmaIndex' = [dmaIndex EXCEPT ![t] = IF copies = <<>> THEN 0 ELSE Len(fifo) + Len(copies)]
  /\ UNCHANGED <<frame, errorFlag, waiter>>

\* A request fills the tile: it goes behind the others in the queue, unless it is Fast.
InRequested(t, xy, copies) ==
  /\ Requested(t, xy, copies) /\ copies \in Seq(Inward)
  /\ \E flags \in SUBSET Sides : SetStatus(t, flags, copies)
  /\ \/ Enqueue(t) /\ \E kind \in {"in", "predicated"} : holds' = [holds EXCEPT ![t] = kind]
     \/ UNCHANGED queueVars /\ holds' = [holds EXCEPT ![t] = "fast"]

\* What is written to the frame goes where the tile is.
InPlace(d, t, xy) ==
  /\ d.to = None /\ d.from = t
  /\ d.toRow - (d.row - EdgeOf(t)) = xy[2] /\ d.toCol - (d.col - EdgeOf(t)) = xy[1]

\* The copies of a tile to its place.
Outward(t, xy) == {d \in Descriptors : InPlace(d, t, xy)}

\* A request writes the tile to the frame: it is put in the queue if it copies anything and
\* is not Fast.
OutRequested(t, xy, copies) ==
  /\ Requested(t, xy, copies) /\ copies \in Seq(Outward(t, xy))
  /\ status' = [status EXCEPT ![t] = IF copies = <<>> THEN {} ELSE {"ongoing"}]
  /\ \/ copies # <<>> /\ Enqueue(t) /\ holds' = [holds EXCEPT ![t] = "out"]
     \/ copies = <<>> /\ UNCHANGED queueVars /\ \E kind \in {"out", "outFast"} : holds' = [holds EXCEPT ![t] = kind]
     \/ copies # <<>> /\ UNCHANGED queueVars /\ holds' = [holds EXCEPT ![t] = "outFast"]

\* What the lemmas about requests need of the state.
LEMMA TypedFacts ==
  ASSUME TransferTyped
  PROVE  /\ FrameTyped /\ \A q \in Tiles : Placed(q)
         /\ Pad(frame.pad) \in Int /\ Pad(frame.pad) <= frame.pad
<1>1. frame.pad \in Nat /\ PadSign \in Nat
  BY TransferAssumption DEF TransferTyped
<1>2. Pad(frame.pad) \in Int /\ Pad(frame.pad) <= frame.pad
  BY <1>1 DEF Pad
<1> QED  BY <1>1, <1>2 DEF FrameTyped, Placed, TransferTyped

\* Places are pairs of coordinates.
LEMMA PlacesTyped == \A xy \in Places : \E x, y \in Int : xy = <<x, y>>
<1>1. Xs \subseteq Nat /\ Ys \subseteq Nat /\ Origin \in Nat
  BY TransferAssumption
<1> QED  BY <1>1 DEF Places

\* xvReqTileTransferIn is such a request, whether it reuses a tile or not.
LEMMA InRequests ==
  ASSUME TransferTyped, NEW t \in Tiles, NEW xy \in Places, NEW q \in Tiles \cup {None},
         ReqTileTransferIn(t, xy, q)
  PROVE  \E copies : InRequested(t, xy, copies)
<1>1. PICK x, y \in Int : xy = <<x, y>>
  BY PlacesTyped
<1>2. PICK p \in Int : p = Pad(frame.pad) /\ p <= frame.pad
  BY TypedFacts
<1>. DEFINE rows == Rows(t, <<x, y>>, p)
            cols == Cols(t, <<x, y>>, p)
            R == Reuse(t, <<x, y>>, q, rows, cols)
            W == Whole(t, <<x, y>>, rows, cols)
            shared == q # None /\ Overlap(q, rows, cols)
            copies == IF Nothing(rows) \/ Nothing(cols) THEN <<>>
                      ELSE IF shared THEN R ELSE <<W>>
<1>3. ~Nothing(rows) /\ ~Nothing(cols) => CutTo(t, x, y, rows, cols)
  BY <1>2, RequestCut, TypedFacts
<1>4. ~Nothing(rows) /\ ~Nothing(cols) => W \in Inward
  BY <1>3, WholeSound, TypedFacts
<1>5. ~Nothing(rows) /\ ~Nothing(cols) /\ shared => R \in Seq(Inward)
  BY <1>3, ReuseSound, TypedFacts DEF None, Tiles
<1>6. copies \in Seq(Inward)
  <2>. HIDE DEF W, R, shared, rows, cols
  <2> QED  BY <1>4, <1>5
<1>7. /\ \E kind \in {"in", "reuse"} : Request(kind, t, xy)
      /\ Post(t, copies) /\ SetStatus(t, Padded(rows, cols), copies)
      /\ Enqueue(t) /\ holds' = [holds EXCEPT ![t] = "in"]
  BY <1>1, <1>2 DEF ReqTileTransferIn
<1>8. Padded(rows, cols) \in SUBSET Sides
  BY DEF Padded
<1>. HIDE DEF copies, rows, cols
<1>9. Requested(t, xy, copies)
  BY <1>7 DEF Request, Post, Requested, Ready, waitVars
<1> QED  BY <1>6, <1>7, <1>8, <1>9 DEF InRequested

\* Masks are sets of rows.
LEMMA MasksTyped == \A mask \in Masks : mask \subseteq Int
<1>1. TileHeight \in Nat
  BY Sizes
<1> QED  BY <1>1 DEF Masks, AllRows

\* So is xvReqTileTransferInPredicated.
LEMMA PredicatedRequests ==
  ASSUME TransferTyped, NEW t \in Tiles, NEW xy \in Places, NEW mask \in Masks,
         ReqTileTransferInPredicated(t, xy, mask)
  PROVE  \E copies : InRequested(t, xy, copies)
<1>1. PICK x, y \in Int : xy = <<x, y>>
  BY PlacesTyped
<1>2. PICK p \in Int : p = Pad(frame.pad) /\ p <= frame.pad
  BY TypedFacts
<1>. DEFINE rows == Rows(t, <<x, y>>, p)
            cols == Cols(t, <<x, y>>, p)
            W == Whole(t, <<x, y>>, rows, cols)
            M == [W EXCEPT !.mask = W.mask \cap mask]
            copies == IF Nothing(rows) \/ Nothing(cols) THEN <<>> ELSE <<M>>
<1>3. ~Nothing(rows) /\ ~Nothing(cols) => W \in Inward
  BY <1>2, RequestCut, WholeSound, TypedFacts
<1>4. ~Nothing(rows) /\ ~Nothing(cols) => M \in Inward
  <2>1. W.mask \cap mask \subseteq Int
    BY MasksTyped
  <2>. HIDE DEF W, rows, cols
  <2> QED  BY <1>3, <2>1, InwardExcept
<1>5. copies \in Seq(Inward)
  <2>. HIDE DEF M, rows, cols
  <2> QED  BY <1>4
<1>6. /\ Request("predicated", t, xy)
      /\ Post(t, copies) /\ SetStatus(t, {}, copies)
      /\ Enqueue(t) /\ holds' = [holds EXCEPT ![t] = "predicated"]
  BY <1>1, <1>2 DEF ReqTileTransferInPredicated
<1>. HIDE DEF copies, rows, cols
<1>7. Requested(t, xy, copies)
  BY <1>6 DEF Request, Post, Requested, Ready, waitVars
<1> QED  BY <1>5, <1>6, <1>7 DEF InRequested

\* So is xvReqTileTransferInFast.
LEMMA FastRequests ==
  ASSUME TransferTyped, NEW t \in Tiles, NEW xy \in Places, ReqTileTransferInFast(t, xy)
  PROVE  \E copies : InRequested(t, xy, copies)
<1>1. PICK x, y \in Int : xy = <<x, y>>
  BY PlacesTyped
<1>. DEFINE rows == Rows(t, xy, 0)
            cols == Cols(t, xy, 0)
            C == FastCopies(t, xy, rows, cols)
            copies == IF Beyond(t, xy) THEN <<>> ELSE C
            done == IF copies # <<>> /\ frame.padding = "edge" THEN {"top", "bottom"} ELSE {}
<1>2. ~Beyond(t, xy) => C \in Seq(Inward)
  BY <1>1, FastSound, TypedFacts
<1>3. copies \in Seq(Inward)
  <2>. HIDE DEF C
  <2> QED  BY <1>2
<1>4. /\ \E kind \in Requests : Request(kind, t, xy)
      /\ Post(t, copies) /\ SetStatus(t, Padded(rows, cols) \ done, copies)
      /\ UNCHANGED queueVars /\ holds' = [holds EXCEPT ![t] = "fast"]
  BY DEF ReqTileTransferInFast, Request
<1>5. Padded(rows, cols) \ done \in SUBSET Sides
  BY DEF Padded
<1>. HIDE DEF copies, rows, cols, done
<1>6. Requested(t, xy, copies)
  BY <1>4 DEF Request, Post, Requested, Ready, waitVars
<1> QED  BY <1>3, <1>4, <1>5, <1>6 DEF InRequested

\* What is cut off at the top and left of a tile moves its copy by as much.
LEMMA OutCopyInPlace ==
  ASSUME NEW t \in Tiles, NEW x \in Int, NEW y \in Int
  PROVE  OutCopy(t, <<x, y>>) \in Outward(t, <<x, y>>)
<1>. DEFINE d == OutCopy(t, <<x, y>>)
            e == EdgeOf(t)
<1>1. /\ e \in Nat /\ t \in 0 .. NumTiles /\ None \in 0 .. NumTiles
      /\ TileHeight \in Nat /\ TileWidth \in Nat /\ FrameHeight \in Nat /\ FrameWidth \in Nat
  BY Sizes
<1>2. /\ d.to = None /\ d.from = t /\ d.step = 1
      /\ d.toRow = Greater(0, y) /\ d.toCol = Greater(0, x)
      /\ d.row = e + Greater(0, -y) /\ d.col = e + Greater(0, -x)
      /\ d.rows = Lesser(TileHeight, FrameHeight - y) + Lesser(0, y)
      /\ d.cols = Lesser(TileWidth, FrameWidth - x) + Lesser(0, x)
  BY DEF OutCopy, Copy, FirstKept
<1>3. d \in Descriptors
  <2>1. /\ d.toRow \in Int /\ d.toCol \in Int /\ d.row \in Int /\ d.col \in Int
        /\ d.rows \in Int /\ d.cols \in Int
    BY <1>1, <1>2 DEF Greater, Lesser
  <2> QED  BY <1>1, <1>2, <2>1 DEF OutCopy, Copy, Descriptors
<1>. HIDE DEF d
<1>4. d.toRow - (d.row - e) = y /\ d.toCol - (d.col - e) = x
  BY <1>1, <1>2 DEF Greater
<1>5. InPlace(d, t, <<x, y>>)
  BY <1>2, <1>4 DEF InPlace
<1> QED  BY <1>3, <1>5 DEF Outward, d

\* A predicated copy goes to the same place.
LEMMA OutwardExcept ==
  ASSUME NEW t, NEW xy, NEW d \in Outward(t, xy), NEW mask \in SUBSET Int
  PROVE  [d EXCEPT !.mask = d.mask \cap mask] \in Outward(t, xy)
BY DEF Outward, InPlace, Descriptors

\* The three requests to write out a tile.
LEMMA OutRequests ==
  ASSUME TransferTyped, NEW t \in Tiles, NEW xy \in Places, NEW mask \in SUBSET Int,
         NEW kind \in {"out", "outPredicated", "outFast"}, TransferOut(kind, t, xy, mask)
  PROVE  \E copies : /\ OutRequested(t, xy, copies)
                     /\ "outBeyond" \notin Requests => copies \in Seq(Sound)
<1>1. PICK x, y \in Int : xy = <<x, y>>
  BY PlacesTyped
<1>. DEFINE d == OutCopy(t, xy)
            m == [d EXCEPT !.mask = d.mask \cap mask]
            copies == IF d.rows = 0 \/ d.cols = 0 THEN <<>> ELSE <<m>>
<1>2. d \in Outward(t, xy) /\ m \in Outward(t, xy)
  BY <1>1, OutCopyInPlace, OutwardExcept
<1>3. copies \in Seq(Outward(t, xy)) /\ copies \in {<<>>, <<m>>}
  <2>. HIDE DEF m
  <2> QED  BY <1>2
<1>4. /\ Request(kind, t, xy)
      /\ copies # <<>> /\ (d.rows < 0 \/ d.cols < 0) => "outBeyond" \in Requests
      /\ Post(t, copies)
      /\ status' = [status EXCEPT ![t] = IF copies = <<>> THEN @ ELSE @ \cup {"ongoing"}]
      /\ IF copies = <<>> \/ kind = "outFast" THEN UNCHANGED queueVars ELSE Enqueue(t)
      /\ holds' = [holds EXCEPT ![t] = IF kind = "outFast" THEN "outFast" ELSE "out"]
  BY DEF TransferOut
<1>5. "outBeyond" \notin Requests /\ copies # <<>> => d.rows > 0 /\ d.cols > 0
  <2>1. d.rows \in Int /\ d.cols \in Int
    BY <1>2 DEF Outward, Descriptors
  <2> QED  BY <1>4, <2>1
<1>6. "outBeyond" \notin Requests /\ copies # <<>> => m \in Sound
  <2>1. ASSUME d.rows > 0, d.cols > 0 PROVE d \in Sound
    BY <1>1, <2>1, OutSound, TypedFacts
  <2>2. ASSUME d \in Sound PROVE m \in Sound
    <3>1. d.mask \cap mask \in SUBSET Int
      OBVIOUS
    <3> QED  BY <2>2, <3>1, SoundExcept
  <2> QED  BY <1>5, <2>1, <2>2
<1>7. "outBeyond" \notin Requests => copies \in Seq(Sound)
  <2>. HIDE DEF m
  <2> QED  BY <1>6
<1>. HIDE DEF copies, d, m
<1>8. Requested(t, xy, copies)
  BY <1>4 DEF Request, Post, Requested, Ready, waitVars
<1>9. status' = [status EXCEPT ![t] = IF copies = <<>> THEN {} ELSE {"ongoing"}]
  BY <1>4, <1>8 DEF Requested
<1>10. \/ copies # <<>> /\ Enqueue(t) /\ holds' = [holds EXCEPT ![t] = "out"]
       \/ copies = <<>> /\ UNCHANGED queueVars /\ \E k \in {"out", "outFast"} : holds' = [holds EXCEPT ![t] = k]
       \/ copies # <<>> /\ UNCHANGED queueVars /\ holds' = [holds EXCEPT ![t] = "outFast"]
  BY <1>4, Zenon
<1> QED  BY <1>3, <1>7, <1>8, <1>9, <1>10 DEF OutRequested
-----------------------------------------------------------------------------

\* The waiting call.
WaiterTyped == waiter \in [tile : 0 .. NumTiles, sleeps : BOOLEAN, at : {"look", "sleep", "asleep"}]

\* A set of numbers has a least element.
LEMMA LeastOf ==
  ASSUME NEW S \in SUBSET Nat, S # {}
  PROVE  \E m \in S : \A k \in S : m <= k
<1>. DEFINE Less == {ss \in Nat \X Nat : ss[1] < ss[2]}
<1>1. IsWellFoundedOn(Less, Nat)
  BY NatLessThanWellFounded DEF OpToRel
<1>2. \E m \in S : \A k \in S : ~ (<<k, m>> \in Less)
  <2>. HIDE DEF Less
  <2> QED  BY <1>1, WFMin, Zenon
<1>3. PICK m \in S : \A k \in S : ~ (<<k, m>> \in Less)
  BY <1>2
<1>4. ASSUME NEW k \in S  PROVE  m <= k
  <2>1. k \in Nat /\ m \in Nat /\ <<k, m>> \in Nat \X Nat
    OBVIOUS
  <2>2. ~ (k < m)
    BY <1>3, <2>1
  <2> QED  BY <2>1, <2>2
<1> QED  BY <1>4

\* What is taken from the queue is settled, and t is its last, or there is no more
\* or what follows is not settled.
LEMMA DoneCounted ==
  ASSUME pending \in Nat, NEW t
  PROVE  /\ DoneCount(t) \in 0 .. pending
         /\ \A i \in 0 .. DoneCount(t) - 1 : Settled(Entry(i)) /\ (i < DoneCount(t) - 1 => Entry(i) # t)
         /\ \/ DoneCount(t) = pending \/ ~Settled(Entry(DoneCount(t)))
            \/ DoneCount(t) > 0 /\ Entry(DoneCount(t) - 1) = t
<1>. DEFINE Stop(n) == n = pending \/ ~Settled(Entry(n)) \/ (n > 0 /\ Entry(n - 1) = t)
            Good(n) == /\ \A i \in 0 .. n - 1 : Settled(Entry(i)) /\ (i < n - 1 => Entry(i) # t)
                       /\ Stop(n)
            S == {n \in 0 .. pending : Stop(n)}
<1>1. S \in SUBSET Nat /\ S # {}
  <2>1. pending \in S
    OBVIOUS
  <2> QED  BY <2>1
<1>2. PICK m \in S : \A k \in S : m <= k
  <2>. HIDE DEF S
  <2> QED  BY <1>1, LeastOf
<1>3. m \in 0 .. pending /\ Stop(m)
  OBVIOUS
<1>4. \A i \in 0 .. pending : i < m => ~Stop(i)
  <2>1. TAKE i \in 0 .. pending
  <2>2. HAVE i < m
  <2>3. i \notin S
    <3>. HIDE DEF S
    <3> QED  BY <1>2, <1>3, <2>2
  <2> QED  BY <2>3
<1>5. ASSUME NEW i \in 0 .. m - 1
      PROVE  Settled(Entry(i)) /\ (i < m - 1 => Entry(i) # t)
  <2>1. i \in 0 .. pending /\ i < m /\ m \in Nat
    BY <1>3
  <2>2. Settled(Entry(i))
    BY <1>4, <2>1
  <2>3. ASSUME i < m - 1 PROVE Entry(i) # t
    <3>1. i + 1 \in 0 .. pending /\ i + 1 < m /\ i + 1 > 0 /\ (i + 1) - 1 = i
      BY <1>3, <2>1, <2>3
    <3>2. ~(i + 1 > 0 /\ Entry((i + 1) - 1) = t)
      BY <1>4, <3>1
    <3> QED  BY <3>1, <3>2
  <2> QED  BY <2>2, <2>3
<1>6. Good(m)
  BY <1>3, <1>5
<1>7. DoneCount(t) = CHOOSE n \in 0 .. pending : Good(n)
  BY DEF DoneCount
<1>. HIDE DEF Good, S
<1>8. DoneCount(t) \in 0 .. pending /\ Good(DoneCount(t))
  BY <1>3, <1>6, <1>7
<1> QED  BY <1>8 DEF Good

\* The same for every kind of step.
LEMMA Steps ==
  ASSUME TransferTyped, [Next]_vars
  PROVE  \/ \E t \in Tiles, xy \in Places : \E copies : InRequested(t, xy, copies)
         \/ \E t \in Tiles, xy \in Places : \E copies :
              /\ OutRequested(t, xy, copies)
              /\ "outBeyond" \notin Requests => copies \in Seq(Sound)
         \/ \E t \in Tiles : Work(t) \/ PadEdges(t)
         \/ Dma
         \/ WaitForTileFast
         \/ \E t : /\ CheckTileReady(t)
                   /\ UNCHANGED <<frame, pos, dmaIndex, holds, fifo, errorFlag>> /\ WaiterTyped'
         \/ /\ UNCHANGED <<frame, pos, status, dmaIndex, holds, queueVars, fifo>> /\ WaiterTyped'
            /\ errorFlag' \in {errorFlag, TRUE}
<1>. DEFINE Checks == \E t : /\ CheckTileReady(t)
                             /\ UNCHANGED <<frame, pos, dmaIndex, holds, fifo, errorFlag>> /\ WaiterTyped'
            Rests == /\ UNCHANGED <<frame, pos, status, dmaIndex, holds, queueVars, fifo>> /\ WaiterTyped'
                     /\ errorFlag' \in {errorFlag, TRUE}
            Outs == \E t \in Tiles, xy \in Places : \E copies :
              /\ OutRequested(t, xy, copies)
              /\ "outBeyond" \notin Requests => copies \in Seq(Sound)
            Ins == \E t \in Tiles, xy \in Places : \E copies : InRequested(t, xy, copies)
<1>1. ASSUME NEW t \in Tiles, NEW xy \in Places, NEW q \in Tiles \cup {None}, ReqTileTransferIn(t, xy, q)
      PROVE  Ins
  BY <1>1, InRequests
<1>2. ASSUME NEW t \in Tiles, NEW xy \in Places, NEW mask \in Masks, ReqTileTransferInPredicated(t, xy, mask)
      PROVE  Ins
  BY <1>2, PredicatedRequests
<1>3. ASSUME NEW t \in Tiles, NEW xy \in Places, ReqTileTransferInFast(t, xy)
      PROVE  Ins
  BY <1>3, FastRequests
<1>4. ASSUME NEW t \in Tiles, NEW xy \in Places, ReqTileTransferOut(t, xy) \/ ReqTileTransferOutFast(t, xy)
      PROVE  Outs
  <2>1. PICK kind \in {"out", "outFast"} : TransferOut(kind, t, xy, AllRows)
    BY <1>4 DEF ReqTileTransferOut, ReqTileTransferOutFast
  <2>2. AllRows \in SUBSET Int
    BY MasksTyped DEF Masks
  <2> QED  BY <2>1, <2>2, OutRequests
<1>5. ASSUME NEW t \in Tiles, NEW xy \in Places, NEW mask \in Masks, ReqTileTransferOutPredicated(t, xy, mask)
      PROVE  Outs
  BY <1>5, MasksTyped, OutRequests DEF ReqTileTransferOutPredicated
<1>6. WaiterTyped /\ NoCall \in [tile : 0 .. NumTiles, sleeps : BOOLEAN, at : {"look", "sleep", "asleep"}]
  BY Sizes DEF TransferTyped, WaiterTyped, NoCall
<1>7. ASSUME NEW t \in Tiles, Poll(t)
      PROVE  Checks
  BY <1>6, <1>7 DEF Poll, waitVars, WaiterTyped
<1>8. ASSUME NEW t \in Tiles, NEW sleeps \in BOOLEAN, Wait(t, sleeps)
      PROVE  Rests
  BY <1>6, <1>8, Sizes DEF Wait, WaiterTyped, tileVars, queueVars
<1>9. ASSUME WaitForTile
      PROVE  Checks \/ Rests
  <2>1. WaiterTyped'
    BY <1>6, <1>9 DEF WaitForTile, Again, WaiterTyped
  <2>2. \/ UNCHANGED <<tileVars, queueVars>>
        \/ CheckTileReady(waiter.tile) /\ UNCHANGED <<pos, dmaIndex, holds>>
    BY <1>9 DEF WaitForTile
  <2>3. UNCHANGED <<frame, fifo, errorFlag>>
    BY <1>9 DEF WaitForTile
  <2> QED  BY <2>1, <2>2, <2>3 DEF tileVars
<1>10. ASSUME Sleep \/ WakeUp
       PROVE  Rests
  BY <1>6, <1>10 DEF Sleep, WakeUp, WaiterTyped, tileVars, queueVars
<1>11. ASSUME DmaFails
       PROVE  Rests
  BY <1>6, <1>11 DEF DmaFails, WaiterTyped, tileVars, queueVars
<1>12. ASSUME UNCHANGED vars
       PROVE  Rests
  BY <1>6, <1>12 DEF vars, WaiterTyped, tileVars, queueVars, waitVars
<1>. HIDE DEF Checks, Rests, Outs, Ins
<1>13. Ins \/ Outs \/ (\E t \in Tiles : Work(t) \/ PadEdges(t)) \/ Dma \/ WaitForTileFast \/ Checks \/ Rests
  BY <1>1, <1>2, <1>3, <1>4, <1>5, <1>7, <1>8, <1>9, <1>10, <1>11, <1>12, Zenon DEF Next
<1> QED  BY <1>13 DEF Checks, Rests, Outs, Ins

\* The copies of requests are descriptors.
LEMMA SoundTyped == Inward \subseteq Descriptors /\ \A t, xy : Outward(t, xy) \subseteq Descriptors
BY DEF Inward, Sound, Outward

\* The queue keeps its kind.
LEMMA EnqueueTyped ==
  ASSUME TransferTyped, NEW t \in Tiles, Enqueue(t) \/ UNCHANGED queueVars
  PROVE  /\ start' \in 0 .. QueueLength - 1 /\ pending' \in Nat
         /\ queue' \in [0 .. QueueLength - 1 -> 0 .. NumTiles]
<1>1. CASE Enqueue(t)
  <2>1. t \in 0 .. NumTiles
    BY Sizes
  <2>2. queue \in [0 .. QueueLength - 1 -> 0 .. NumTiles]
    BY DEF TransferTyped
  <2>3. queue' \in [0 .. QueueLength - 1 -> 0 .. NumTiles]
    BY <1>1, <2>1, <2>2, Zenon DEF Enqueue
  <2>4. start' \in 0 .. QueueLength - 1 /\ pending' \in Nat
    BY <1>1 DEF Enqueue, TransferTyped
  <2> QED  BY <2>3, <2>4
<1>2. CASE UNCHANGED queueVars
  BY <1>2 DEF queueVars, TransferTyped
<1> QED  BY <1>1, <1>2

\* So does the rest of what a request changes.
LEMMA RequestedTyped ==
  ASSUME TransferTyped, NEW t \in Tiles, NEW xy \in Places, NEW copies \in Seq(Descriptors),
         Requested(t, xy, copies)
  PROVE  /\ frame' \in [pad : FramePads, padding : Paddings]
         /\ pos' \in [Tiles -> Int \X Int] /\ dmaIndex' \in [Tiles -> Nat]
         /\ fifo' \in Seq(Descriptors) /\ WaiterTyped' /\ errorFlag' \in BOOLEAN
<1>1. xy \in Int \X Int
  BY PlacesTyped
<1>2. (IF copies = <<>> THEN 0 ELSE Len(fifo) + Len(copies)) \in Nat
  BY DEF TransferTyped
<1> QED  BY <1>1, <1>2 DEF TransferTyped, Requested, WaiterTyped

\* The start index stays in the queue.
LEMMA NextStartTyped ==
  ASSUME TransferTyped, NEW t, NEW n \in 0 .. pending
  PROVE  NextStart(t, n) \in 0 .. QueueLength - 1
<1>1. QueueLength \in Nat \ {0} /\ start \in Nat /\ n \in Nat
  BY Sizes DEF TransferTyped
<1>2. (start + n) % QueueLength \in 0 .. QueueLength - 1
  BY <1>1
<1>3. n > 0 => (start + n - 1) % QueueLength \in 0 .. QueueLength - 1
  BY <1>1
<1> QED  BY <1>2, <1>3 DEF NextStart

\* There may be nothing to carry out.
LEMMA EmptyTyped == \A S : <<>> \in Seq(S)
OBVIOUS

\* The values are of their kinds at first,
LEMMA TypedInit == ASSUME Init PROVE TransferTyped
<1>1. QueueLength \in Nat \ {0}
  BY Sizes
<1>2. \A t \in Tiles : <<0, 0>> \in Int \X Int
  OBVIOUS
<1>3. /\ frame \in [pad : FramePads, padding : Paddings]
      /\ pos \in [Tiles -> Int \X Int] /\ status \in [Tiles -> SUBSET Flags]
      /\ dmaIndex \in [Tiles -> Nat] /\ holds \in [Tiles -> Kinds]
  BY <1>2 DEF Init, Kinds
<1>4. /\ start \in 0 .. QueueLength - 1 /\ pending \in Nat
      /\ queue \in [0 .. QueueLength - 1 -> 0 .. NumTiles]
  BY <1>1, Sizes DEF Init
<1>5. /\ waiter \in [tile : 0 .. NumTiles, sleeps : BOOLEAN, at : {"look", "sleep", "asleep"}]
      /\ errorFlag \in BOOLEAN /\ fifo \in Seq(Descriptors)
  <2>1. NoCall \in [tile : 0 .. NumTiles, sleeps : BOOLEAN, at : {"look", "sleep", "asleep"}]
    BY Sizes DEF NoCall
  <2>2. waiter = NoCall /\ errorFlag = FALSE /\ fifo = <<>>
    BY DEF Init
  <2>3. fifo \in Seq(Descriptors)
    BY <2>2, EmptyTyped, Zenon
  <2> QED  BY <2>1, <2>2, <2>3
<1> QED  BY <1>3, <1>4, <1>5 DEF TransferTyped

\* and every step keeps them so.
LEMMA TypedStep == ASSUME TransferTyped, [Next]_vars PROVE TransferTyped'
<1>1. ASSUME NEW t \in Tiles, NEW xy \in Places, NEW copies, InRequested(t, xy, copies)
      PROVE  TransferTyped'
  <2>1. copies \in Seq(Descriptors) /\ Requested(t, xy, copies)
    BY <1>1, SoundTyped DEF InRequested
  <2>2. Enqueue(t) \/ UNCHANGED queueVars
    BY <1>1 DEF InRequested
  <2>3. status' \in [Tiles -> SUBSET Flags]
    <3>1. PICK flags \in SUBSET Sides : SetStatus(t, flags, copies)
      BY <1>1 DEF InRequested
    <3>2. flags \cup {"ongoing"} \cup (IF copies = <<>> THEN {"dummy"} ELSE {}) \in SUBSET Flags
      BY DEF Flags
    <3> QED  BY <3>1, <3>2 DEF SetStatus, TransferTyped
  <2>4. holds' \in [Tiles -> Kinds]
    BY <1>1 DEF InRequested, TransferTyped, Kinds
  <2> QED  BY <2>1, <2>2, <2>3, <2>4, EnqueueTyped, RequestedTyped DEF TransferTyped, WaiterTyped
<1>2. ASSUME NEW t \in Tiles, NEW xy \in Places, NEW copies, OutRequested(t, xy, copies)
      PROVE  TransferTyped'
  <2>1. copies \in Seq(Descriptors) /\ Requested(t, xy, copies)
    BY <1>2, SoundTyped DEF OutRequested
  <2>2. Enqueue(t) \/ UNCHANGED queueVars
    BY <1>2 DEF OutRequested
  <2>3. status' \in [Tiles -> SUBSET Flags]
    <3>1. (IF copies = <<>> THEN {} ELSE {"ongoing"}) \in SUBSET Flags
      BY DEF Flags
    <3> QED  BY <1>2, <3>1 DEF OutRequested, TransferTyped
  <2>4. holds' \in [Tiles -> Kinds]
    BY <1>2 DEF OutRequested, TransferTyped, Kinds
  <2> QED  BY <2>1, <2>2, <2>3, <2>4, EnqueueTyped, RequestedTyped DEF TransferTyped, WaiterTyped
<1>3. ASSUME NEW t \in Tiles, Work(t) PROVE TransferTyped'
  <2>1. pos' \in [Tiles -> Int \X Int] /\ holds' \in [Tiles -> Kinds]
    BY <1>3 DEF Work, TransferTyped, Kinds
  <2> QED  BY <1>3, <2>1 DEF Work, TransferTyped, queueVars, waitVars
<1>4. ASSUME NEW t \in Tiles, PadEdges(t) PROVE TransferTyped'
  <2>1. status' \in [Tiles -> SUBSET Flags]
    BY <1>4 DEF PadEdges, TransferTyped
  <2> QED  BY <1>4, <2>1 DEF PadEdges, TransferTyped, queueVars, waitVars
<1>5. ASSUME Dma PROVE TransferTyped'
  <2>1. dmaIndex' \in [Tiles -> Nat]
    BY <1>5 DEF Dma, TransferTyped, Greater
  <2>2. fifo' \in Seq(Descriptors)
    BY <1>5 DEF Dma, TransferTyped
  <2> QED  BY <1>5, <2>1, <2>2 DEF Dma, TransferTyped, queueVars
<1>6. ASSUME WaitForTileFast PROVE TransferTyped'
  <2>1. status' \in [Tiles -> SUBSET Flags]
    BY <1>6 DEF WaitForTileFast, TransferTyped
  <2>2. WaiterTyped'
    BY <1>6, Sizes DEF WaitForTileFast, Again, TransferTyped, WaiterTyped, NoCall
  <2> QED  BY <1>6, <2>1, <2>2 DEF WaitForTileFast, TransferTyped, queueVars, WaiterTyped
<1>7. ASSUME NEW t, CheckTileReady(t), WaiterTyped',
             UNCHANGED <<frame, pos, dmaIndex, holds, fifo, errorFlag>>
      PROVE  TransferTyped'
  <2>1. PICK n \in 0 .. pending : n = DoneCount(t)
    BY DoneCounted DEF TransferTyped
  <2>2. start' \in 0 .. QueueLength - 1 /\ pending' \in Nat /\ queue' = queue
    <3>1. queue' = queue /\ pending' = pending - n /\ start' = NextStart(t, n)
      BY <1>7, <2>1 DEF CheckTileReady
    <3>2. pending' \in Nat
      BY <2>1, <3>1 DEF TransferTyped
    <3> QED  BY <2>1, <3>1, <3>2, NextStartTyped DEF TransferTyped
  <2>3. status' \in [Tiles -> SUBSET Flags]
    BY <1>7 DEF CheckTileReady, TransferTyped
  <2> QED  BY <1>7, <2>2, <2>3 DEF TransferTyped, WaiterTyped
<1>8. ASSUME UNCHANGED <<frame, pos, status, dmaIndex, holds, queueVars, fifo>>, WaiterTyped',
             errorFlag' \in {errorFlag, TRUE}
      PROVE  TransferTyped'
  BY <1>8 DEF TransferTyped, WaiterTyped, queueVars
<1> QED  BY <1>1, <1>2, <1>3, <1>4, <1>5, <1>6, <1>7, <1>8, Steps
-----------------------------------------------------------------------------

\* What is in bounds depends on the frame only.
LEMMA SoundKept ==
  ASSUME frame' = frame
  PROVE  Sound' = Sound
BY DEF Sound, InBounds, Within, InFrame

\* The copies that wait are in bounds.
CopiesInv == TransferTyped /\ fifo \in Seq(Sound)

\* Every step keeps the copies in bounds.
LEMMA CopiesStep ==
  ASSUME "outBeyond" \notin Requests, CopiesInv, [Next]_vars
  PROVE  fifo' \in Seq(Sound')
<1>. DEFINE G == fifo' \in Seq(Sound) /\ frame' = frame
<1>0. TransferTyped /\ fifo \in Seq(Sound)
  BY DEF CopiesInv
<1>1. ASSUME NEW t \in Tiles, NEW xy \in Places, NEW copies, InRequested(t, xy, copies)
      PROVE  G
  <2>1. copies \in Seq(Sound)
    BY <1>1 DEF InRequested, Inward
  <2> QED  BY <1>0, <1>1, <2>1 DEF InRequested, Requested
<1>2. ASSUME NEW t \in Tiles, NEW xy \in Places, NEW copies, OutRequested(t, xy, copies),
             copies \in Seq(Sound)
      PROVE  G
  BY <1>0, <1>2 DEF OutRequested, Requested
<1>3. ASSUME NEW t \in Tiles, Work(t) \/ PadEdges(t) PROVE G
  BY <1>0, <1>3 DEF Work, PadEdges
<1>4. ASSUME Dma PROVE G
  BY <1>0, <1>4 DEF Dma
<1>5. ASSUME WaitForTileFast PROVE G
  BY <1>0, <1>5 DEF WaitForTileFast
<1>6. ASSUME UNCHANGED <<frame, fifo>> PROVE G
  BY <1>0, <1>6
<1>. HIDE DEF G
<1>7. G
  BY <1>0, <1>1, <1>2, <1>3, <1>4, <1>5, <1>6, Steps
<1> QED  BY <1>7, SoundKept DEF G

\* No request to write out a tile beyond the frame with a gap in between ("outBeyond",
\* whose size the code computes as negative): then every copy, whatever was clipped,
\* reused or repeated, moves something, between pixels that the frame with its pads,
\* or the tile, has.
THEOREM CopiesStayInBounds ==
  ASSUME "outBeyond" \notin Requests
  PROVE  Spec => []CopiesInBounds
<1>1. Init => CopiesInv
  <2>1. ASSUME Init PROVE CopiesInv
    <3>1. fifo = <<>>
      BY <2>1 DEF Init
    <3>2. fifo \in Seq(Sound)
      BY <3>1, EmptyTyped, Zenon
    <3> QED  BY <2>1, <3>2, TypedInit DEF CopiesInv
  <2> QED  BY <2>1
<1>2. CopiesInv /\ [Next]_vars => CopiesInv'
  BY TypedStep, CopiesStep DEF CopiesInv
<1>3. CopiesInv => CopiesInBounds
  <2>1. ASSUME CopiesInv, NEW i \in DOMAIN fifo PROVE InBounds(fifo[i])
    BY <2>1 DEF CopiesInv, Sound
  <2> QED  BY <2>1 DEF InBounds, CopiesInBounds
<1> QED  BY <1>1, <1>2, <1>3, PTL DEF Spec

-----------------------------------------------------------------------------
\* A copy to the frame that has not been carried out: it goes where its tile still is,
\* and unless the channel has failed its tile is busy and waits for it.
Held(d, i) ==
  /\ d.from \in Tiles /\ InPlace(d, d.from, pos[d.from])
  /\ ~errorFlag => /\ i <= dmaIndex[d.from]
                   /\ "ongoing" \in status[d.from] /\ "dummy" \notin status[d.from]

\* That is so of all that fifo holds.
OutHeld == \A i \in DOMAIN fifo : fifo[i].to = None => Held(fifo[i], i)

\* A tile that is taken from the queue has no copy in fifo, unless it is a dummy.
LEMMA TakenSettled ==
  ASSUME TransferTyped, NEW t, CheckTileReady(t)
  PROVE  \A u \in Tiles : Settled(u) \/ status'[u] = status[u]
<1>1. PICK n \in 0 .. pending : n = DoneCount(t)
  BY DoneCounted DEF TransferTyped
<1>2. \A i \in 0 .. n - 1 : Settled(Entry(i))
  BY <1>1, DoneCounted DEF TransferTyped
<1>3. status' = [u \in Tiles |-> IF u \in {Entry(i) : i \in 0 .. n - 1} THEN {} ELSE status[u]]
  BY <1>1 DEF CheckTileReady
<1> QED  BY <1>2, <1>3

\* It stays so when no busy tile moves, or is released before its copies are done.
LEMMA HeldKept ==
  ASSUME TransferTyped, OutHeld, fifo' = fifo,
         \A u \in Tiles : u \in Tiles => pos'[u] = pos[u],
         ~errorFlag' => ~errorFlag /\ \A u \in Tiles :
            \/ status[u] \cap {"ongoing", "dummy"} = status'[u] \cap {"ongoing", "dummy"} /\ dmaIndex'[u] = dmaIndex[u]
            \/ "ongoing" \notin status[u] \/ Settled(u)
  PROVE  OutHeld'
<1>1. SUFFICES ASSUME NEW i \in DOMAIN fifo, fifo[i].to = None
               PROVE  Held(fifo[i], i)'
  BY DEF OutHeld
<1>2. Held(fifo[i], i)
  BY <1>1 DEF OutHeld
<1>. DEFINE u == fifo[i].from
<1>3. u \in Tiles /\ pos'[u] = pos[u] /\ i \in Nat /\ i > 0
  BY <1>2 DEF Held, TransferTyped
<1>4. ASSUME ~errorFlag'
      PROVE  /\ i <= dmaIndex'[u]
             /\ "ongoing" \in status'[u] /\ "dummy" \notin status'[u]
  <2>1. i <= dmaIndex[u] /\ "ongoing" \in status[u] /\ "dummy" \notin status[u]
    BY <1>2, <1>4 DEF Held
  <2>2. ~Settled(u)
    BY <1>3, <2>1 DEF Settled, TransferTyped
  <2>3. /\ status[u] \cap {"ongoing", "dummy"} = status'[u] \cap {"ongoing", "dummy"}
        /\ dmaIndex'[u] = dmaIndex[u]
    BY <1>3, <1>4, <2>1, <2>2
  <2> QED  BY <2>1, <2>3
<1> QED  BY <1>2, <1>3, <1>4 DEF Held, InPlace

\* The goal of the steps below.
LEMMA AllHeld ==
  ASSUME \A d, i : i \in DOMAIN fifo' /\ d = fifo'[i] /\ d.to = None => Held(d, i)'
  PROVE  OutHeld'
BY DEF OutHeld

\* Every step keeps the tiles of outgoing copies where they are.
LEMMA OutStep ==
  ASSUME TransferTyped, OutHeld, [Next]_vars
  PROVE  OutHeld'
<1>1. ASSUME NEW t \in Tiles, NEW xy \in Places, NEW copies, Requested(t, xy, copies),
             copies \in Seq(Inward) \/ copies \in Seq(Outward(t, xy)),
             copies \in Seq(Inward) \/ copies = <<>> \/ status' = [status EXCEPT ![t] = {"ongoing"}],
             \A u \in Tiles \ {t} : status'[u] = status[u]
      PROVE  OutHeld'
  <2>1. SUFFICES ASSUME NEW d, NEW i, i \in DOMAIN fifo', d = fifo'[i], d.to = None
                 PROVE  Held(d, i)'
    BY AllHeld
  <2>2. fifo \in Seq(Descriptors) /\ copies \in Seq(Descriptors) /\ fifo' = fifo \o copies
    BY <1>1, SoundTyped DEF TransferTyped, Requested
  <2>3. CASE i \in DOMAIN fifo
    <3>1. d = fifo[i]
      BY <2>1, <2>2, <2>3
    <3>2. Held(d, i)
      BY <2>1, <2>3, <3>1 DEF OutHeld
    <3>3. d.from \in Tiles \ {t}
      <4>1. "ongoing" \in status[d.from] /\ d.from \in Tiles
        BY <1>1, <3>2 DEF Held, Requested
      <4> QED  BY <1>1, <4>1 DEF Requested
    <3>4. /\ pos'[d.from] = pos[d.from] /\ dmaIndex'[d.from] = dmaIndex[d.from]
          /\ status'[d.from] = status[d.from] /\ errorFlag' = errorFlag
      BY <1>1, <3>3 DEF Requested, TransferTyped
    <3> QED  BY <3>2, <3>4 DEF Held, InPlace
  <2>4. CASE i \notin DOMAIN fifo
    <3>1. PICK j \in DOMAIN copies : i = Len(fifo) + j /\ d = copies[j]
      <4>1. i \in 1 .. Len(fifo) + Len(copies)
        BY <2>1, <2>2
      <4>2. i - Len(fifo) \in DOMAIN copies /\ d = copies[i - Len(fifo)]
        BY <2>1, <2>2, <2>4, <4>1
      <4> QED  BY <2>2, <4>1, <4>2
    <3>2. copies # <<>> /\ j <= Len(copies)
      BY <2>2, <3>1
    <3>3. copies \notin Seq(Inward)
      <4>1. ASSUME copies \in Seq(Inward) PROVE FALSE
        <5>1. d \in Inward
          BY <3>1, <4>1
        <5> QED  BY <2>1, <3>1, <5>1, Sizes DEF Inward
      <4> QED  BY <4>1
    <3>4. InPlace(d, t, xy)
      <4>1. d \in Outward(t, xy)
        BY <1>1, <3>1, <3>3
      <4> QED  BY <4>1 DEF Outward
    <3>5. status'[t] = {"ongoing"}
      BY <1>1, <3>2, <3>3 DEF TransferTyped
    <3>6. dmaIndex'[t] = Len(fifo) + Len(copies) /\ pos'[t] = xy
      BY <1>1, <3>2 DEF Requested, TransferTyped
    <3>7. i <= dmaIndex'[t]
      BY <2>2, <3>1, <3>2, <3>6
    <3>8. d.from = t
      BY <3>4 DEF InPlace
    <3> QED  BY <3>4, <3>5, <3>6, <3>7, <3>8 DEF Held, InPlace
  <2> QED  BY <2>3, <2>4
<1>2. ASSUME NEW t \in Tiles, NEW xy \in Places, NEW copies, InRequested(t, xy, copies)
      PROVE  OutHeld'
  <2>1. \A u \in Tiles \ {t} : status'[u] = status[u]
    BY <1>2 DEF InRequested, SetStatus, TransferTyped
  <2> QED  BY <1>1, <1>2, <2>1 DEF InRequested
<1>3. ASSUME NEW t \in Tiles, NEW xy \in Places, NEW copies, OutRequested(t, xy, copies)
      PROVE  OutHeld'
  <2>1. \A u \in Tiles \ {t} : status'[u] = status[u]
    BY <1>3 DEF OutRequested, TransferTyped
  <2> QED  BY <1>1, <1>3, <2>1 DEF OutRequested
<1>4. ASSUME NEW t \in Tiles, Work(t)
      PROVE  OutHeld'
  <2>1. SUFFICES ASSUME NEW i \in DOMAIN fifo, fifo[i].to = None
                 PROVE  Held(fifo[i], i)'
    BY <1>4 DEF OutHeld, Work
  <2>2. Held(fifo[i], i)
    BY <2>1 DEF OutHeld
  <2>. DEFINE u == fifo[i].from
  <2>3. u \in Tiles /\ u # t
    BY <1>4, <2>2 DEF Held, Work, Ready
  <2>4. pos'[u] = pos[u]
    BY <1>4, <2>3 DEF Work, TransferTyped
  <2> QED  BY <1>4, <2>2, <2>4 DEF Work, Held, InPlace
<1>5. ASSUME NEW t \in Tiles, PadEdges(t)
      PROVE  OutHeld'
  <2>1. \A u \in Tiles :
          \/ status[u] \cap {"ongoing", "dummy"} = status'[u] \cap {"ongoing", "dummy"} /\ dmaIndex'[u] = dmaIndex[u]
          \/ "ongoing" \notin status[u]
    BY <1>5 DEF PadEdges, TransferTyped
  <2> QED  BY <1>5, <2>1, HeldKept DEF PadEdges
<1>6. ASSUME Dma
      PROVE  OutHeld'
  <2>1. SUFFICES ASSUME NEW d, NEW i, i \in DOMAIN fifo', d = fifo'[i], d.to = None
                 PROVE  Held(d, i)'
    BY AllHeld
  <2>2. fifo \in Seq(Descriptors) /\ fifo # <<>> /\ fifo' = Tail(fifo)
    BY <1>6 DEF Dma, TransferTyped
  <2>3. i \in Nat /\ i + 1 \in DOMAIN fifo /\ d = fifo[i + 1]
    BY <2>1, <2>2
  <2>4. Held(d, i + 1)
    BY <2>1, <2>3 DEF OutHeld
  <2>5. /\ d.from \in Tiles /\ i + 1 <= dmaIndex[d.from]
        /\ "ongoing" \in status[d.from] /\ "dummy" \notin status[d.from]
        /\ InPlace(d, d.from, pos[d.from])
    BY <1>6, <2>4 DEF Held, Dma
  <2>6. i <= dmaIndex'[d.from]
    <3>1. dmaIndex'[d.from] = Greater(0, dmaIndex[d.from] - 1) /\ dmaIndex[d.from] \in Nat
      BY <1>6, <2>5 DEF Dma, TransferTyped
    <3> QED  BY <2>3, <2>5, <3>1 DEF Greater
  <2> QED  BY <1>6, <2>5, <2>6 DEF Held, InPlace, Dma
<1>7. ASSUME WaitForTileFast
      PROVE  OutHeld'
  <2>1. ASSUME ~errorFlag'
        PROVE  ~errorFlag /\ \A u \in Tiles :
            \/ status[u] \cap {"ongoing", "dummy"} = status'[u] \cap {"ongoing", "dummy"} /\ dmaIndex'[u] = dmaIndex[u]
            \/ "ongoing" \notin status[u] \/ Settled(u)
    <3>1. ~errorFlag /\ dmaIndex' = dmaIndex
      BY <1>7, <2>1 DEF WaitForTileFast
    <3>2. waiter' = NoCall => dmaIndex[waiter.tile] = 0
      BY <1>7, <3>1 DEF WaitForTileFast, Again, NoCall, TransferTyped
    <3>3. \A u \in Tiles : status'[u] = status[u] \/ dmaIndex[u] = 0
      BY <1>7, <3>2 DEF WaitForTileFast, TransferTyped
    <3> QED  BY <3>1, <3>3 DEF Settled
  <2> QED  BY <1>7, <2>1, HeldKept DEF WaitForTileFast
<1>8. ASSUME NEW t, CheckTileReady(t),
             UNCHANGED <<frame, pos, dmaIndex, holds, fifo, errorFlag>>
      PROVE  OutHeld'
  BY <1>8, TakenSettled, HeldKept
<1>9. ASSUME UNCHANGED <<frame, pos, status, dmaIndex, holds, queueVars, fifo>>,
             errorFlag' \in {errorFlag, TRUE}
      PROVE  OutHeld'
  BY <1>9, HeldKept DEF TransferTyped
<1> QED  BY <1>2, <1>3, <1>4, <1>5, <1>6, <1>7, <1>8, <1>9, Steps

\* What is written to the frame goes where its tile was requested to be: no tile is
\* requested elsewhere, or its data worked on, before its copies to the frame are done.
THEOREM OutGoesInPlace == Spec => []OutInPlace
<1>1. Init => TransferTyped /\ OutHeld
  <2>1. ASSUME Init PROVE OutHeld
    BY <2>1 DEF Init, OutHeld
  <2> QED  BY <2>1, TypedInit
<1>2. TransferTyped /\ OutHeld /\ [Next]_vars => TransferTyped' /\ OutHeld'
  BY TypedStep, OutStep
<1>3. TransferTyped /\ OutHeld => OutInPlace
  BY DEF OutHeld, Held, InPlace, OutInPlace
<1> QED  BY <1>1, <1>2, <1>3, PTL DEF Spec
-----------------------------------------------------------------------------

\* The slots of the queue.
LEMMA QueueFacts ==
  /\ QueueLength \in Nat /\ 0 < QueueLength
  /\ \A n \in Nat : n % QueueLength \in 0 .. (QueueLength - 1)
BY TransferAssumption

\* Two positions less than the queue apart are different slots.
LEMMA SlotsDiffer ==
  ASSUME NEW x \in Nat, NEW y \in Nat, x < y, y < x + QueueLength
  PROVE  x % QueueLength # y % QueueLength
<1>. SUFFICES ASSUME x % QueueLength = y % QueueLength PROVE FALSE
  OBVIOUS
<1>. DEFINE q == x \div QueueLength
            p == y \div QueueLength
            r == x % QueueLength
<1>1. q \in Nat /\ p \in Nat /\ r \in Nat /\ QueueLength \in Nat
  BY QueueFacts
<1>2. x = QueueLength * q + r /\ y = QueueLength * p + r
  BY QueueFacts
<1>. HIDE DEF q, p, r
<1>3. CASE p <= q
  <2>1. PICK d \in Nat : q = p + d
    <3>1. q = p + (q - p) /\ q - p \in Nat
      BY <1>1, <1>3
    <3> QED  BY <3>1
  <2>2. x = y + QueueLength * d /\ QueueLength * d \in Nat
    BY <1>1, <1>2, <2>1
  <2> QED  BY <2>2
<1>4. CASE q < p
  <2>1. PICK d \in Nat : p = q + 1 + d
    <3>1. p = q + 1 + (p - q - 1) /\ p - q - 1 \in Nat
      BY <1>1, <1>4
    <3> QED  BY <3>1
  <2>2. y = x + QueueLength + QueueLength * d /\ QueueLength * d \in Nat
    BY <1>1, <1>2, <2>1
  <2> QED  BY <1>1, <2>2
<1> QED  BY <1>1, <1>3, <1>4

\* Nor does a slot depend on the round that its base is taken of.
LEMMA SlotRound ==
  ASSUME NEW x \in Nat, NEW k \in Nat
  PROVE  ((x % QueueLength) + k) % QueueLength = (x + k) % QueueLength
<1>. DEFINE a == (x % QueueLength) + k
            q == x \div QueueLength
<1>1. q \in Nat /\ a \in Nat /\ QueueLength \in Nat /\ x = QueueLength * q + (x % QueueLength)
  BY QueueFacts
<1>2. x + k = a + QueueLength * q
  BY <1>1, QueueFacts
<1>3. /\ a \div QueueLength \in Nat /\ a % QueueLength \in 0..(QueueLength - 1)
      /\ a = QueueLength * (a \div QueueLength) + (a % QueueLength)
  BY <1>1, QueueFacts
<1>. DEFINE d == (a \div QueueLength) + q
            r == a % QueueLength
<1>4. x + k = QueueLength * d + r /\ d \in Nat /\ r \in 0..(QueueLength - 1)
  BY <1>1, <1>2, <1>3, QueueFacts
<1>. HIDE DEF d, r
<1>5. (x + k) % QueueLength = r
  <2>1. /\ (x + k) \div QueueLength \in Nat /\ (x + k) % QueueLength \in 0..(QueueLength - 1)
        /\ x + k = QueueLength * ((x + k) \div QueueLength) + ((x + k) % QueueLength)
    BY QueueFacts
  <2>. DEFINE e == (x + k) \div QueueLength
              u == (x + k) % QueueLength
  <2>2. e \in Nat /\ u \in 0..(QueueLength - 1) /\ QueueLength * d + r = QueueLength * e + u
    BY <1>4, <2>1
  <2>. HIDE DEF e, u
  <2>3. d = e
    <3>1. ASSUME NEW m \in Nat, NEW n \in Nat, NEW v \in 0..(QueueLength - 1), NEW w \in 0..(QueueLength - 1),
                 QueueLength * m + v = QueueLength * n + w, m < n
          PROVE  FALSE
      <4>1. PICK c \in Nat : n = m + 1 + c
        <5>1. n = m + 1 + (n - m - 1) /\ n - m - 1 \in Nat
          BY <3>1
        <5> QED  BY <5>1
      <4>2. QueueLength * n = QueueLength * m + QueueLength + QueueLength * c /\ QueueLength * c \in Nat
        BY <1>1, <4>1
      <4>3. QueueLength * m \in Nat
        BY <1>1
      <4> QED  BY <1>1, <3>1, <4>2, <4>3
    <3> QED  BY <1>4, <2>2, <3>1
  <2>4. QueueLength * d \in Nat
    BY <1>1, <1>4
  <2>5. u = r
    BY <1>1, <1>4, <2>2, <2>3, <2>4
  <2> QED  BY <2>5 DEF u
<1> QED  BY <1>5 DEF r

\* The tiles that the queue ought to hold.
Busy == {t \in Tiles : "ongoing" \in status[t] /\ ~IsFast(t)}
\* Of two entries, the first is done first.
Ordered(i, j) ==
  {dmaIndex[Entry(i)], dmaIndex[Entry(j)]} # {0}
    => "dummy" \in status[Entry(j)] \/ dmaIndex[Entry(i)] < dmaIndex[Entry(j)]

\* The inductive invariant of the queue.
QueueInv ==
  /\ pending <= QueueLength
  /\ {Entry(i) : i \in 0 .. pending - 1} = Busy
  /\ \A i, j \in 0 .. pending - 1 : i < j => Entry(i) # Entry(j) /\ Ordered(i, j)
  /\ \A t \in Tiles : dmaIndex[t] <= Len(fifo)

\* What the queue holds is busy.
LEMMA EntriesBusy ==
  ASSUME TransferTyped, QueueInv, NEW i \in 0 .. pending - 1
  PROVE  Entry(i) \in Tiles /\ Entry(i) \in Busy
BY DEF QueueInv, Busy

\* The tiles of the queue are distinct: with one that is not in it, there is room.
LEMMA RoomForOne ==
  ASSUME TransferTyped, QueueInv, NEW t \in Tiles, t \notin Busy
  PROVE  pending + 1 <= QueueLength
<1>. DEFINE I == 0 .. pending - 1
            T == Tiles \ {t}
            f == [i \in I |-> Entry(i)]
<1>1. NumTiles \in Nat \ {0} /\ NumTiles <= QueueLength /\ QueueLength \in Nat /\ pending \in Nat
  BY TransferAssumption DEF TransferTyped
<1>2. IsFiniteSet(Tiles) /\ Cardinality(Tiles) = NumTiles
  BY <1>1, FS_Interval DEF Tiles
<1>3. IsFiniteSet(T) /\ Cardinality(T) = NumTiles - 1
  BY <1>2, FS_RemoveElement
<1>4. f \in [I -> T]
  BY EntriesBusy
<1>5. \A i, j \in I : f[i] = f[j] => i = j
  BY <1>1 DEF QueueInv
<1>6. f \in Injection(I, T)
  BY <1>4, <1>5 DEF Injection, IsInjective
<1>7. Cardinality(I) <= Cardinality(T)
  <2>. HIDE DEF f, I, T
  <2> QED  BY <1>3, <1>6, FS_Injection
<1>8. Cardinality(I) = pending
  BY <1>1, FS_Interval
<1> QED  BY <1>1, <1>3, <1>7, <1>8

\* A step that leaves the queue alone, and does nothing to the tiles in it.
LEMMA QueueKept ==
  ASSUME TransferTyped, QueueInv, UNCHANGED queueVars, NEW t,
         t \notin Busy, t \notin Busy',
         \A u \in Tiles \ {t} :
           status'[u] = status[u] /\ holds'[u] = holds[u] /\ dmaIndex'[u] = dmaIndex[u],
         \A u \in Tiles : dmaIndex'[u] <= Len(fifo')
  PROVE  QueueInv'
<1>1. pending' = pending /\ \A i : Entry(i)' = Entry(i)
  BY DEF queueVars, Entry
<1>2. Busy' = Busy
  BY DEF Busy, IsFast
<1>3. ASSUME NEW i \in 0 .. pending - 1, NEW j \in 0 .. pending - 1, i < j
      PROVE  Ordered(i, j)'
  <2>1. /\ Entry(i) \in Tiles \ {t} /\ Entry(j) \in Tiles \ {t} /\ Ordered(i, j)
    BY <1>3, EntriesBusy DEF QueueInv
  <2> QED  BY <1>1, <2>1 DEF Ordered
<1> QED  BY <1>1, <1>2, <1>3 DEF QueueInv

\* A tile that was not busy is put behind those that are.
LEMMA QueueGrows ==
  ASSUME TransferTyped, QueueInv, NEW t \in Tiles, t \notin Busy, t \in Busy', Enqueue(t),
         \A u \in Tiles \ {t} :
           status'[u] = status[u] /\ holds'[u] = holds[u] /\ dmaIndex'[u] = dmaIndex[u],
         \A u \in Tiles : dmaIndex'[u] <= Len(fifo') /\ dmaIndex'[u] \in Nat,
         "dummy" \in status'[t] \/ dmaIndex'[t] > Len(fifo)
  PROVE  QueueInv'
<1>0. PICK k \in Nat : k = pending
  BY DEF TransferTyped
<1>1. /\ start \in Nat /\ QueueLength \in Nat /\ k + 1 <= QueueLength
      /\ pending' = k + 1 /\ start' = start
  <2>1. pending + 1 <= QueueLength
    BY RoomForOne
  <2>2. start \in Nat
    BY QueueFacts DEF TransferTyped
  <2> QED  BY <1>0, <2>1, <2>2, QueueFacts DEF Enqueue
<1>2. \A i \in 0 .. k - 1 : Entry(i)' = Entry(i)
  <2>1. TAKE i \in 0 .. k - 1
  <2>2. /\ start + i \in Nat /\ start + k \in Nat
        /\ start + i < start + k /\ start + k < (start + i) + QueueLength
    BY <1>1
  <2>3. (start + i) % QueueLength # (start + k) % QueueLength
    BY <2>2, SlotsDiffer
  <2>4. (start + i) % QueueLength \in 0 .. QueueLength - 1
    BY <2>2, QueueFacts
  <2>5. queue'[(start + i) % QueueLength] = queue[(start + i) % QueueLength]
    BY <1>0, <2>3, <2>4 DEF Enqueue, TransferTyped
  <2> QED  BY <1>1, <2>5 DEF Entry
<1>3. Entry(k)' = t
  <2>1. (start + k) % QueueLength \in 0 .. QueueLength - 1
    BY <1>1, QueueFacts
  <2>2. queue'[(start + k) % QueueLength] = t
    BY <1>0, <2>1 DEF Enqueue, TransferTyped
  <2> QED  BY <1>1, <2>2 DEF Entry
<1>4. {Entry(i) : i \in 0 .. pending - 1}' = Busy \cup {t}
  <2>1. \A i \in 0 .. pending' - 1 : i \in 0 .. k - 1 \/ i = k
    BY <1>1
  <2>2. \A i \in 0 .. k - 1 : i \in 0 .. pending' - 1
    BY <1>1
  <2>3. k \in 0 .. pending' - 1
    BY <1>1
  <2>4. {Entry(i) : i \in 0 .. k - 1} = Busy
    BY <1>0 DEF QueueInv
  <2>5. ASSUME NEW u \in {Entry(i) : i \in 0 .. pending - 1}' PROVE u \in Busy \cup {t}
    BY <1>2, <1>3, <2>1, <2>4, <2>5
  <2>6. ASSUME NEW u \in Busy \cup {t} PROVE u \in {Entry(i) : i \in 0 .. pending - 1}'
    BY <1>2, <1>3, <2>2, <2>3, <2>4, <2>6
  <2> QED  BY <2>5, <2>6
<1>5. Busy' = Busy \cup {t}
  BY DEF Busy, IsFast
<1>6. ASSUME NEW i \in 0 .. k, NEW j \in 0 .. k, i < j
      PROVE  (Entry(i) # Entry(j))' /\ Ordered(i, j)'
  <2>1. i \in 0 .. k - 1 /\ Entry(i)' = Entry(i) /\ Entry(i) \in Tiles \ {t}
    BY <1>1, <1>2, <1>6, <1>0, EntriesBusy
  <2>2. CASE j = k
    <3>1. Entry(j)' = t
      BY <1>3, <2>2
    <3>2. dmaIndex'[Entry(i)] <= Len(fifo)
      BY <2>1 DEF QueueInv
    <3>3. Len(fifo) \in Nat /\ dmaIndex'[Entry(i)] \in Nat /\ dmaIndex'[t] \in Nat
      BY <2>1 DEF TransferTyped
    <3>4. "dummy" \in status'[t] \/ dmaIndex'[Entry(i)] < dmaIndex'[t]
      BY <3>2, <3>3
    <3> QED  BY <2>1, <3>1, <3>4 DEF Ordered
  <2>3. CASE j # k
    <3>1. j \in 0 .. k - 1
      BY <1>1, <2>3
    <3>2. Entry(j)' = Entry(j) /\ Entry(j) \in Tiles \ {t}
      BY <1>2, <3>1, <1>0, EntriesBusy
    <3>3. Entry(i) # Entry(j) /\ Ordered(i, j)
      BY <1>0, <1>6, <2>1, <3>1 DEF QueueInv
    <3> QED  BY <2>1, <3>2, <3>3 DEF Ordered
  <2> QED  BY <2>2, <2>3
<1>7. pending' <= QueueLength /\ pending' - 1 = k
  BY <1>1
<1> QED  BY <1>4, <1>5, <1>6, <1>7 DEF QueueInv
\* What is taken is the queue's first, and the rest moves up.
LEMMA QueueTaken ==
  ASSUME TransferTyped, QueueInv, NEW t, CheckTileReady(t), UNCHANGED <<dmaIndex, holds, fifo>>
  PROVE  QueueInv'
<1>0. PICK k \in Nat : k = pending
  BY DEF TransferTyped
<1>1. PICK n \in 0 .. k : n = DoneCount(t)
  BY <1>0, DoneCounted
<1>. DEFINE Done == {Entry(i) : i \in 0 .. n - 1}
<1>2. /\ pending' = k - n /\ queue' = queue /\ start' = NextStart(t, n)
      /\ status' = [u \in Tiles |-> IF u \in Done THEN {} ELSE status[u]]
  BY <1>0, <1>1 DEF CheckTileReady
<1>3. QueueLength \in Nat /\ start \in Nat
  BY QueueFacts DEF TransferTyped
<1>4. ASSUME NEW i \in 0 .. (k - n) - 1
      PROVE  Entry(i)' = Entry(n + i) /\ n + i \in 0 .. k - 1
  <2>1. n + i \in 0 .. k - 1 /\ n # k /\ i \in Nat /\ n \in Nat
    OBVIOUS
  <2>2. start' = (start + n) % QueueLength
    BY <1>0, <1>2, <2>1 DEF NextStart
  <2>3. start + n \in Nat /\ (start + n) + i = start + (n + i)
    BY <1>3, <2>1
  <2>4. (start' + i) % QueueLength = (start + (n + i)) % QueueLength
    BY <2>1, <2>2, <2>3, SlotRound
  <2> QED  BY <1>2, <2>1, <2>4 DEF Entry
<1>5. \A i, j \in 0 .. k - 1 : i < j => Entry(i) # Entry(j) /\ Ordered(i, j)
  BY <1>0 DEF QueueInv
<1>6. \A i \in 0 .. k - 1 : Entry(i) \in Busy
  BY <1>0, EntriesBusy
<1>7. \A i \in 0 .. n - 1 : i \in 0 .. k - 1
  OBVIOUS
<1>8. \A i \in 0 .. (k - n) - 1 : Entry(n + i) \notin Done
  <2>1. TAKE i \in 0 .. (k - n) - 1
  <2>2. \A j \in 0 .. n - 1 : j < n + i /\ n + i \in 0 .. k - 1
    OBVIOUS
  <2> QED  BY <1>5, <1>7, <2>2
<1>9. Busy' = Busy \ Done
  BY <1>2 DEF Busy, IsFast
<1>10. {Entry(i) : i \in 0 .. pending - 1}' = Busy \ Done
  <2>1. ASSUME NEW u \in {Entry(i) : i \in 0 .. pending - 1}' PROVE u \in Busy \ Done
    <3>1. PICK i \in 0 .. (k - n) - 1 : u = Entry(i)'
      BY <1>2
    <3> QED  BY <1>4, <1>6, <1>8, <3>1
  <2>2. ASSUME NEW u \in Busy \ Done PROVE u \in {Entry(i) : i \in 0 .. pending - 1}'
    <3>1. PICK j \in 0 .. k - 1 : u = Entry(j)
      BY <1>0 DEF QueueInv
    <3>2. j \notin 0 .. n - 1
      BY <3>1
    <3>3. j - n \in 0 .. (k - n) - 1 /\ n + (j - n) = j
      BY <3>2
    <3>4. Entry(j - n)' = Entry(j)
      BY <1>4, <3>3
    <3> QED  BY <1>2, <3>1, <3>3, <3>4
  <2> QED  BY <2>1, <2>2
<1>11. ASSUME NEW i \in 0 .. (k - n) - 1, NEW j \in 0 .. (k - n) - 1, i < j
       PROVE  (Entry(i) # Entry(j))' /\ Ordered(i, j)'
  <2>1. /\ Entry(i)' = Entry(n + i) /\ Entry(j)' = Entry(n + j)
        /\ n + i \in 0 .. k - 1 /\ n + j \in 0 .. k - 1 /\ n + i < n + j
    BY <1>4, <1>11
  <2>2. Entry(n + i) # Entry(n + j) /\ Ordered(n + i, n + j)
    BY <1>5, <2>1
  <2>3. status'[Entry(n + j)] = status[Entry(n + j)]
    BY <1>2, <1>6, <1>8, <2>1 DEF Busy
  <2> QED  BY <2>1, <2>2, <2>3 DEF Ordered
<1>12. pending' <= QueueLength
  BY <1>0, <1>2, <1>3 DEF QueueInv
<1>13. \A u \in Tiles : (dmaIndex[u] <= Len(fifo))'
  BY DEF QueueInv
<1> QED  BY <1>2, <1>9, <1>10, <1>11, <1>12, <1>13 DEF QueueInv

\* Every step keeps the queue.
LEMMA QueueStep ==
  ASSUME TransferTyped, TransferTyped', QueueInv, [Next]_vars
  PROVE  QueueInv'
<1>1. ASSUME NEW t \in Tiles, NEW xy \in Places, NEW copies \in Seq(Descriptors), Requested(t, xy, copies)
      PROVE  /\ \A u \in Tiles \ {t} : dmaIndex'[u] = dmaIndex[u]
             /\ \A u \in Tiles : dmaIndex'[u] <= Len(fifo') /\ dmaIndex'[u] \in Nat
             /\ copies # <<>> => dmaIndex'[t] > Len(fifo)
             /\ t \notin Busy
  <2>1. Len(fifo') = Len(fifo) + Len(copies) /\ Len(fifo) \in Nat /\ Len(copies) \in Nat
    BY <1>1 DEF Requested, TransferTyped
  <2>2. copies # <<>> => Len(copies) > 0
    OBVIOUS
  <2>3. dmaIndex'[t] = IF copies = <<>> THEN 0 ELSE Len(fifo) + Len(copies)
    BY <1>1 DEF Requested, TransferTyped
  <2>4. \A u \in Tiles \ {t} : dmaIndex'[u] = dmaIndex[u] /\ dmaIndex[u] \in Nat /\ dmaIndex[u] <= Len(fifo)
    BY <1>1 DEF Requested, TransferTyped, QueueInv
  <2>5. \A u \in Tiles : dmaIndex'[u] <= Len(fifo') /\ dmaIndex'[u] \in Nat
    BY <2>1, <2>2, <2>3, <2>4
  <2>6. copies # <<>> => dmaIndex'[t] > Len(fifo)
    BY <2>1, <2>2, <2>3
  <2>7. t \notin Busy
    BY <1>1 DEF Requested, Busy
  <2> QED  BY <2>4, <2>5, <2>6, <2>7
<1>2. ASSUME NEW t \in Tiles, NEW xy \in Places, NEW copies, InRequested(t, xy, copies)
      PROVE  QueueInv'
  <2>1. copies \in Seq(Descriptors) /\ Requested(t, xy, copies)
    BY <1>2, SoundTyped DEF InRequested
  <2>2. /\ \A u \in Tiles \ {t} : status'[u] = status[u] /\ holds'[u] = holds[u]
        /\ "ongoing" \in status'[t] /\ (copies = <<>> => "dummy" \in status'[t])
    <3>1. PICK flags \in SUBSET Sides : SetStatus(t, flags, copies)
      BY <1>2 DEF InRequested
    <3>2. PICK now : now = flags \cup {"ongoing"} \cup (IF copies = <<>> THEN {"dummy"} ELSE {})
      OBVIOUS
    <3>3. status' = [status EXCEPT ![t] = now] /\ status \in [Tiles -> SUBSET Flags]
      BY <3>1, <3>2 DEF SetStatus, TransferTyped
    <3>4. "ongoing" \in now /\ (copies = <<>> => "dummy" \in now)
      BY <3>2
    <3>5. \A u \in Tiles \ {t} : status'[u] = status[u]
      BY <3>3
    <3>6. status'[t] = now
      BY <3>3
    <3>7. \A u \in Tiles \ {t} : holds'[u] = holds[u]
      BY <1>2 DEF InRequested, TransferTyped
    <3> QED  BY <3>4, <3>5, <3>6, <3>7
  <2>3. CASE Enqueue(t) /\ \E kind \in {"in", "predicated"} : holds' = [holds EXCEPT ![t] = kind]
    <3>1. t \in Busy'
      BY <2>2, <2>3 DEF Busy, IsFast, TransferTyped
    <3> QED  BY <1>1, <2>1, <2>2, <2>3, <3>1, QueueGrows
  <2>4. CASE UNCHANGED queueVars /\ holds' = [holds EXCEPT ![t] = "fast"]
    <3>1. t \notin Busy'
      BY <2>4 DEF Busy, IsFast, TransferTyped
    <3> QED  BY <1>1, <2>1, <2>2, <2>4, <3>1, QueueKept
  <2> QED  BY <1>2, <2>3, <2>4 DEF InRequested
<1>3. ASSUME NEW t \in Tiles, NEW xy \in Places, NEW copies, OutRequested(t, xy, copies)
      PROVE  QueueInv'
  <2>1. copies \in Seq(Descriptors) /\ Requested(t, xy, copies)
    BY <1>3, SoundTyped DEF OutRequested
  <2>2. /\ \A u \in Tiles \ {t} : status'[u] = status[u] /\ holds'[u] = holds[u]
        /\ status'[t] = IF copies = <<>> THEN {} ELSE {"ongoing"}
    BY <1>3 DEF OutRequested, TransferTyped
  <2>3. CASE copies # <<>> /\ Enqueue(t) /\ holds' = [holds EXCEPT ![t] = "out"]
    <3>1. t \in Busy'
      BY <2>2, <2>3 DEF Busy, IsFast, TransferTyped
    <3> QED  BY <1>1, <2>1, <2>2, <2>3, <3>1, QueueGrows
  <2>4. CASE UNCHANGED queueVars /\ (copies = <<>> \/ holds' = [holds EXCEPT ![t] = "outFast"])
    <3>1. t \notin Busy'
      BY <2>2, <2>4 DEF Busy, IsFast, TransferTyped
    <3> QED  BY <1>1, <2>1, <2>2, <2>4, <3>1, QueueKept
  <2> QED  BY <1>3, <2>3, <2>4 DEF OutRequested
<1>4. ASSUME NEW t \in Tiles, Work(t) \/ PadEdges(t)
      PROVE  QueueInv'
  <2>1. /\ \A u \in Tiles \ {t} : status'[u] = status[u] /\ holds'[u] = holds[u]
        /\ dmaIndex' = dmaIndex /\ fifo' = fifo /\ UNCHANGED queueVars
        /\ "ongoing" \notin status[t] /\ "ongoing" \notin status'[t]
    BY <1>4 DEF Work, PadEdges, Ready, TransferTyped
  <2>2. t \notin Busy /\ t \notin Busy'
    BY <2>1 DEF Busy
  <2> QED  BY <2>1, <2>2, QueueKept DEF QueueInv
<1>5. ASSUME WaitForTileFast
      PROVE  QueueInv'
  <2>. DEFINE t == waiter.tile
  <2>1. /\ \A u \in Tiles \ {t} : status'[u] = status[u] /\ holds'[u] = holds[u]
        /\ dmaIndex' = dmaIndex /\ fifo' = fifo /\ UNCHANGED queueVars
        /\ IsFast(t) /\ IsFast(t)
    BY <1>5 DEF WaitForTileFast, TransferTyped
  <2>2. PICK w : w = t
    OBVIOUS
  <2>3. w \notin Busy /\ w \notin Busy'
    BY <1>5, <2>1, <2>2 DEF Busy, IsFast, WaitForTileFast
  <2>4. \A u \in Tiles \ {w} : status'[u] = status[u] /\ holds'[u] = holds[u] /\ dmaIndex'[u] = dmaIndex[u]
    BY <2>1, <2>2
  <2> QED  BY <2>1, <2>3, <2>4, QueueKept DEF QueueInv
<1>6. ASSUME Dma
      PROVE  QueueInv'
  <2>1. /\ UNCHANGED queueVars /\ status' = status /\ holds' = holds
        /\ \A u \in Tiles : dmaIndex'[u] = Greater(0, dmaIndex[u] - 1) /\ dmaIndex[u] \in Nat
    BY <1>6 DEF Dma, TransferTyped
  <2>2. Busy' = Busy /\ pending' = pending /\ \A i : Entry(i)' = Entry(i)
    BY <2>1 DEF Busy, IsFast, Entry, queueVars
  <2>3. ASSUME NEW i \in 0 .. pending - 1, NEW j \in 0 .. pending - 1, i < j
        PROVE  Ordered(i, j)'
    <3>1. Entry(i) \in Tiles /\ Entry(j) \in Tiles /\ Ordered(i, j)
      BY <2>3, EntriesBusy DEF QueueInv
    <3>2. PICK a, b \in Nat : a = dmaIndex[Entry(i)] /\ b = dmaIndex[Entry(j)]
      BY <2>1, <3>1
    <3>3. dmaIndex'[Entry(i)] = Greater(0, a - 1) /\ dmaIndex'[Entry(j)] = Greater(0, b - 1)
      BY <2>1, <3>1, <3>2
    <3>4. CASE "dummy" \in status[Entry(j)]
      BY <2>1, <2>2, <3>4 DEF Ordered
    <3>5. CASE {a, b} = {0}
      <4>1. Greater(0, a - 1) = 0 /\ Greater(0, b - 1) = 0
        BY <3>5 DEF Greater
      <4> QED  BY <2>2, <3>3, <4>1 DEF Ordered
    <3>6. CASE a < b
      <4>1. Greater(0, a - 1) < Greater(0, b - 1) \/ (Greater(0, a - 1) = 0 /\ Greater(0, b - 1) = 0)
        BY <3>6 DEF Greater
      <4> QED  BY <2>2, <3>3, <4>1 DEF Ordered
    <3> QED  BY <3>1, <3>2, <3>4, <3>5, <3>6 DEF Ordered
  <2>4. ASSUME NEW u \in Tiles PROVE dmaIndex'[u] <= Len(fifo')
    <3>1. Len(fifo') = Len(fifo) - 1 /\ Len(fifo) \in Nat /\ Len(fifo) > 0
      BY <1>6 DEF Dma, TransferTyped
    <3>2. PICK a \in Nat : a = dmaIndex[u] /\ a <= Len(fifo)
      BY <2>1 DEF QueueInv
    <3>3. dmaIndex'[u] = Greater(0, a - 1)
      BY <2>1, <3>2
    <3> QED  BY <3>1, <3>2, <3>3 DEF Greater
  <2> QED  BY <2>2, <2>3, <2>4 DEF QueueInv
<1>7. ASSUME NEW t, CheckTileReady(t), UNCHANGED <<frame, pos, dmaIndex, holds, fifo, errorFlag>>
      PROVE  QueueInv'
  BY <1>7, QueueTaken
<1>8. ASSUME UNCHANGED <<frame, pos, status, dmaIndex, holds, queueVars, fifo>>
      PROVE  QueueInv'
  <2>1. Busy' = Busy /\ pending' = pending /\ (\A i : Entry(i)' = Entry(i)) /\ dmaIndex' = dmaIndex
        /\ fifo' = fifo /\ status' = status
    BY <1>8 DEF Busy, IsFast, Entry, queueVars
  <2>2. \A i, j : Ordered(i, j)' <=> Ordered(i, j)
    BY <2>1 DEF Ordered
  <2> QED  BY <2>1, <2>2 DEF QueueInv
<1> QED  BY <1>2, <1>3, <1>4, <1>5, <1>6, <1>7, <1>8, Steps

\* The queue holds the tiles that are waited for, each once and no more than it has
\* slots, in the order of their last descriptors, whatever is asked for and in
\* whatever order the tiles are found done.
THEOREM QueueHoldsWhatIsBusy == Spec => []QueueHoldsBusy
<1>1. Init => TransferTyped /\ QueueInv
  <2>1. ASSUME Init PROVE QueueInv
    <3>1. pending = 0 /\ Busy = {} /\ fifo = <<>> /\ \A t \in Tiles : dmaIndex[t] = 0
      BY <2>1 DEF Init, Busy
    <3>2. 0 .. pending - 1 = {}
      BY <3>1
    <3> QED  BY <3>1, <3>2, QueueFacts DEF QueueInv
  <2> QED  BY <2>1, TypedInit
<1>2. TransferTyped /\ QueueInv /\ [Next]_vars => TransferTyped' /\ QueueInv'
  BY TypedStep, QueueStep
<1>3. TransferTyped /\ QueueInv => QueueHoldsBusy
  BY DEF QueueInv, QueueHoldsBusy, Busy, Ordered
<1> QED  BY <1>1, <1>2, <1>3, PTL DEF Spec

-----------------------------------------------------------------------------

\* Every step, with the requests one by one: what they copy matters to the pixels.
LEMMA PixelSteps ==
  ASSUME [Next]_vars
  PROVE  \/ \E t \in Tiles, xy \in Places, q \in Tiles \cup {None} : ReqTileTransferIn(t, xy, q)
         \/ \E t \in Tiles, xy \in Places, mask \in Masks : ReqTileTransferInPredicated(t, xy, mask)
         \/ \E t \in Tiles, xy \in Places : ReqTileTransferInFast(t, xy)
         \/ \E t \in Tiles, xy \in Places, mask \in SUBSET Int, kind \in {"out", "outPredicated", "outFast"} :
              TransferOut(kind, t, xy, mask)
         \/ \E t \in Tiles : Work(t) \/ PadEdges(t)
         \/ Dma
         \/ WaitForTileFast
         \/ \E t : CheckTileReady(t) /\ UNCHANGED <<frame, pos, dmaIndex, holds, fifo, errorFlag>>
         \/ UNCHANGED <<frame, tileVars, queueVars, fifo>> /\ errorFlag' \in {errorFlag, TRUE}
<1>. DEFINE Checks == \E t : CheckTileReady(t) /\ UNCHANGED <<frame, pos, dmaIndex, holds, fifo, errorFlag>>
            Rests == UNCHANGED <<frame, tileVars, queueVars, fifo>> /\ errorFlag' \in {errorFlag, TRUE}
            Outs == \E t \in Tiles, xy \in Places, mask \in SUBSET Int, kind \in {"out", "outPredicated", "outFast"} :
                      TransferOut(kind, t, xy, mask)
<1>1. ASSUME NEW t \in Tiles, NEW xy \in Places, ReqTileTransferOut(t, xy) \/ ReqTileTransferOutFast(t, xy)
      PROVE  Outs
  <2>1. AllRows \in SUBSET Int
    BY MasksTyped DEF Masks
  <2> QED  BY <1>1, <2>1 DEF ReqTileTransferOut, ReqTileTransferOutFast
<1>2. ASSUME NEW t \in Tiles, NEW xy \in Places, NEW mask \in Masks, ReqTileTransferOutPredicated(t, xy, mask)
      PROVE  Outs
  BY <1>2, MasksTyped DEF ReqTileTransferOutPredicated
<1>3. ASSUME NEW t \in Tiles, Poll(t) \/ \E sleeps \in BOOLEAN : Wait(t, sleeps)
      PROVE  Checks \/ Rests
  BY <1>3 DEF Poll, Wait
<1>4. ASSUME WaitForTile
      PROVE  Checks \/ Rests
  <2>1. \/ UNCHANGED <<tileVars, queueVars>>
        \/ CheckTileReady(waiter.tile) /\ UNCHANGED <<pos, dmaIndex, holds>>
    BY <1>4 DEF WaitForTile
  <2>2. UNCHANGED <<frame, fifo, errorFlag>>
    BY <1>4 DEF WaitForTile
  <2> QED  BY <2>1, <2>2
<1>5. ASSUME Sleep \/ WakeUp \/ DmaFails \/ UNCHANGED vars
      PROVE  Rests
  BY <1>5 DEF Sleep, WakeUp, DmaFails, vars, waitVars
<1>. HIDE DEF Checks, Rests, Outs
<1>6. \/ \E t \in Tiles, xy \in Places, q \in Tiles \cup {None} : ReqTileTransferIn(t, xy, q)
      \/ \E t \in Tiles, xy \in Places, mask \in Masks : ReqTileTransferInPredicated(t, xy, mask)
      \/ \E t \in Tiles, xy \in Places : ReqTileTransferInFast(t, xy)
      \/ Outs \/ (\E t \in Tiles : Work(t) \/ PadEdges(t)) \/ Dma \/ WaitForTileFast \/ Checks \/ Rests
  BY <1>1, <1>2, <1>3, <1>4, <1>5, Zenon DEF Next
<1> QED  BY <1>6 DEF Checks, Rests, Outs

\* The tiles that take pixels from q.
Users(q) == {t \in Tiles : prev[t] = q}

\* A tile that takes pixels from another has been asked for and is not done; a Fast
\* function does not take any.
PrevRight(t) == prev[t] # None => "ongoing" \in status[t] /\ "dummy" \notin status[t] /\ holds[t] = "in"

\* The inductive invariant of the counts.
ReuseInv ==
  /\ TransferTyped /\ QueueInv
  /\ prev \in [Tiles -> 0 .. NumTiles] /\ reuseCount \in [Tiles -> Int]
  /\ ~errorFlag => \A t \in Tiles : PrevRight(t)
  /\ ReuseCounted

\* There are finitely many of them.
LEMMA UsersFinite ==
  \A S \in SUBSET Tiles : IsFiniteSet(S) /\ Cardinality(S) \in Nat
<1>1. IsFiniteSet(Tiles)
  <2>1. PICK m, n \in Int : m = 0 /\ n = NumTiles - 1
    BY Sizes
  <2>2. IsFiniteSet(m .. n)
    BY FS_Interval
  <2> QED  BY <2>1, <2>2 DEF Tiles
<1> QED  BY <1>1, FS_Subset, FS_CardinalityType

\* Counts and tiles in use agree if neither changes.
LEMMA CountsKept ==
  ASSUME ReuseInv, \A u \in Tiles : prev'[u] = prev[u], reuseCount' = reuseCount
  PROVE  ReuseCounted'
<1>1. \A q : Users(q)' = Users(q)
  BY DEF Users
<1> QED  BY <1>1 DEF ReuseInv, ReuseCounted, Users

\* A tile with no status takes pixels from no other.
LEMMA ReadyTakesNone ==
  ASSUME ReuseInv, ~errorFlag, NEW t \in Tiles, "ongoing" \notin status[t]
  PROVE  prev[t] = None
BY DEF ReuseInv, PrevRight

\* The count of a tile that is taken from by one more.
LEMMA CountsGrow ==
  ASSUME ReuseInv, NEW t \in Tiles, prev[t] = None, NEW q \in Tiles,
         prev' = [prev EXCEPT ![t] = q], reuseCount' = CountReuse(q)
  PROVE  ReuseCounted'
<1>1. SUFFICES ASSUME NEW p \in Tiles PROVE reuseCount'[p] = Cardinality(Users(p)')
  BY DEF ReuseCounted, Users
<1>2. reuseCount[p] = Cardinality(Users(p)) /\ IsFiniteSet(Users(p)) /\ t \notin Users(p)
  BY UsersFinite, Sizes DEF ReuseInv, ReuseCounted, Users
<1>3. CASE p = q
  <2>1. Users(p)' = Users(p) \cup {t}
    BY <1>3, Sizes DEF Users, ReuseInv
  <2>2. reuseCount'[p] = reuseCount[p] + 1
    BY <1>3 DEF CountReuse, ReuseInv
  <2> QED  BY <1>2, <2>1, <2>2, FS_AddElement
<1>4. CASE p # q
  <2>1. Users(p)' = Users(p)
    BY <1>2, <1>4 DEF Users, ReuseInv
  <2>2. reuseCount'[p] = reuseCount[p]
    BY <1>4 DEF CountReuse, ReuseInv
  <2> QED  BY <1>2, <2>1, <2>2
<1> QED  BY <1>3, <1>4

\* The counts when tiles are taken from the queue: each gives back what it took.
LEMMA CountsTaken ==
  ASSUME ReuseInv, NEW t, CheckTileReady(t)
  PROVE  ReuseCounted' /\ prev' \in [Tiles -> 0 .. NumTiles] /\ reuseCount' \in [Tiles -> Int]
<1>. DEFINE n == DoneCount(t)
            done == {Entry(i) : i \in 0 .. n - 1}
            ends(u) == u \in done /\ "dummy" \notin status[u]
            released(q) == {u \in done : "dummy" \notin status[u] /\ prev[u] = q}
<1>1. /\ prev' = [u \in Tiles |-> IF u \in done /\ "dummy" \notin status[u] THEN None ELSE prev[u]]
      /\ reuseCount' = [q \in Tiles |-> reuseCount[q] - Cardinality(released(q))]
  BY DEF CheckTileReady
<1>2. done \subseteq Tiles
  <2>1. n \in 0 .. pending /\ pending \in Nat
    BY DoneCounted DEF ReuseInv, TransferTyped
  <2>2. \A i \in 0 .. n - 1 : i \in 0 .. pending - 1
    BY <2>1
  <2>3. \A i \in 0 .. pending - 1 : Entry(i) \in Tiles
    BY EntriesBusy DEF ReuseInv
  <2> QED  BY <2>2, <2>3
<1>. HIDE DEF n, done
<1>3. ASSUME NEW q \in Tiles
      PROVE  /\ released(q) \in SUBSET Users(q) /\ Users(q)' = Users(q) \ released(q)
             /\ Cardinality(Users(q)') = Cardinality(Users(q)) - Cardinality(released(q))
             /\ Cardinality(released(q)) \in Nat
  <2>1. released(q) \in SUBSET Users(q)
    BY <1>2 DEF Users
  <2>2. Users(q)' = Users(q) \ released(q)
    <3>1. \A u \in Tiles : prev'[u] = IF u \in done /\ "dummy" \notin status[u] THEN None ELSE prev[u]
      BY <1>1
    <3>2. None # q
      BY Sizes
    <3> QED  BY <1>2, <3>1, <3>2 DEF Users
  <2>3. Users(q) \cap released(q) = released(q)
    BY <2>1
  <2>4. IsFiniteSet(Users(q)) /\ Cardinality(released(q)) \in Nat
    BY <2>1, UsersFinite DEF Users
  <2>. HIDE DEF released
  <2> QED  BY <2>1, <2>2, <2>3, <2>4, FS_Difference
<1>4. ReuseCounted'
  <2>1. \A q \in Tiles : reuseCount[q] = Cardinality(Users(q))
    BY DEF ReuseInv, ReuseCounted, Users
  <2>2. \A q \in Tiles : reuseCount'[q] = Cardinality(Users(q)')
    BY <1>1, <1>3, <2>1
  <2> QED  BY <2>2 DEF ReuseCounted, Users
<1>5. prev' \in [Tiles -> 0 .. NumTiles]
  BY <1>1, Sizes DEF ReuseInv
<1>. HIDE DEF released
<1>6. reuseCount' \in [Tiles -> Int]
  <2>1. \A q \in Tiles : reuseCount[q] - Cardinality(released(q)) \in Int
    BY <1>3 DEF ReuseInv
  <2> QED  BY <1>1, <2>1
<1> QED  BY <1>4, <1>5, <1>6

\* Nothing of what the counts depend on changes.
LEMMA ReuseKept ==
  ASSUME ReuseInv, UNCHANGED <<prev, reuseCount>>, ~errorFlag' => ~errorFlag,
         \A u \in Tiles : prev[u] = None \/ PrevRight(u)'
  PROVE  /\ prev' \in [Tiles -> 0 .. NumTiles] /\ reuseCount' \in [Tiles -> Int]
         /\ ~errorFlag' => \A u \in Tiles : PrevRight(u)'
         /\ ReuseCounted'
BY CountsKept DEF ReuseInv, PrevRight

\* Every step keeps the counts.
LEMMA ReuseStep == ASSUME ReuseInv, [Next]_vars PROVE ReuseInv'
<1>. DEFINE Rest == /\ prev' \in [Tiles -> 0 .. NumTiles] /\ reuseCount' \in [Tiles -> Int]
                    /\ ~errorFlag' => \A u \in Tiles : PrevRight(u)'
                    /\ ReuseCounted'
<1>1. TransferTyped' /\ QueueInv'
  BY TypedStep, QueueStep DEF ReuseInv
<1>2. ASSUME NEW t \in Tiles, ~errorFlag, status[t] = {}, prev' = [prev EXCEPT ![t] = None], reuseCount' = reuseCount,
             \A u \in Tiles \ {t} : status'[u] = status[u] /\ holds'[u] = holds[u]
      PROVE  Rest
  <2>1. prev[t] = None
    BY <1>2, ReadyTakesNone
  <2>2. prev' = prev
    BY <1>2, <2>1 DEF ReuseInv
  <2>3. \A u \in Tiles : prev[u] = None \/ PrevRight(u)'
    BY <1>2, <2>1, <2>2 DEF ReuseInv, PrevRight
  <2> QED  BY <1>2, <2>2, <2>3, ReuseKept
<1>3. ASSUME NEW t \in Tiles, NEW xy \in Places, NEW q \in Tiles \cup {None}, ReqTileTransferIn(t, xy, q)
      PROVE  Rest
  <2>. DEFINE rows == Rows(t, xy, Pad(frame.pad))
              cols == Cols(t, xy, Pad(frame.pad))
              shared == q # None /\ Overlap(q, rows, cols)
              copies == IF Nothing(rows) \/ Nothing(cols) THEN <<>>
                        ELSE IF shared THEN Reuse(t, xy, q, rows, cols)
                        ELSE <<Whole(t, xy, rows, cols)>>
              reused == shared /\ copies # <<>>
              flags == Padded(rows, cols)
  <2>1. /\ ~errorFlag /\ status[t] = {} /\ errorFlag' = errorFlag
        /\ prev' = [prev EXCEPT ![t] = IF reused THEN q ELSE None]
        /\ reuseCount' = IF reused THEN CountReuse(q) ELSE reuseCount
        /\ SetStatus(t, flags, copies) /\ holds' = [holds EXCEPT ![t] = "in"] /\ flags \subseteq Sides
        /\ shared => q \in Tiles
    BY <1>3 DEF ReqTileTransferIn, Request, Ready, Padded
  <2>. HIDE DEF copies, flags, shared
  <2>2. /\ \A u \in Tiles \ {t} : status'[u] = status[u] /\ holds'[u] = holds[u]
        /\ holds'[t] = "in" /\ "ongoing" \in status'[t] /\ (copies # <<>> => "dummy" \notin status'[t])
    BY <2>1 DEF SetStatus, ReuseInv, TransferTyped, Sides
  <2>3. CASE reused
    <3>1. prev[t] = None
      BY <2>1, ReadyTakesNone
    <3>2. ReuseCounted'
      BY <2>1, <2>3, <3>1, CountsGrow
    <3>3. prev' \in [Tiles -> 0 .. NumTiles] /\ reuseCount' \in [Tiles -> Int]
      <4>1. q \in Tiles /\ prev' = [prev EXCEPT ![t] = q] /\ reuseCount' = CountReuse(q)
        BY <2>1, <2>3
      <4>2. prev' \in [Tiles -> 0 .. NumTiles]
        BY <4>1, Sizes DEF ReuseInv
      <4>3. reuseCount' \in [Tiles -> Int]
        BY <4>1 DEF ReuseInv, CountReuse
      <4> QED  BY <4>2, <4>3
    <3>4. \A u \in Tiles : PrevRight(u)'
      BY <2>1, <2>2, <2>3 DEF ReuseInv, PrevRight
    <3> QED  BY <3>2, <3>3, <3>4
  <2>4. CASE ~reused
    BY <1>2, <2>1, <2>2, <2>4
  <2> QED  BY <2>3, <2>4
<1>4. ASSUME NEW t \in Tiles, NEW xy \in Places, NEW mask \in Masks, ReqTileTransferInPredicated(t, xy, mask)
      PROVE  Rest
  BY <1>2, <1>4 DEF ReqTileTransferInPredicated, Request, Ready, SetStatus, ReuseInv, TransferTyped
<1>5. ASSUME NEW t \in Tiles, ~errorFlag, status[t] = {}, errorFlag' = errorFlag, UNCHANGED <<prev, reuseCount>>,
             \A u \in Tiles \ {t} : status'[u] = status[u] /\ holds'[u] = holds[u]
      PROVE  Rest
  <2>1. prev' = [prev EXCEPT ![t] = None]
    BY <1>5, ReadyTakesNone DEF ReuseInv
  <2> QED  BY <1>2, <1>5, <2>1
<1>6. ASSUME NEW t \in Tiles, NEW xy \in Places, ReqTileTransferInFast(t, xy)
      PROVE  Rest
  BY <1>5, <1>6 DEF ReqTileTransferInFast, Request, Ready, SetStatus, ReuseInv, TransferTyped
<1>7. ASSUME NEW t \in Tiles, NEW xy \in Places, NEW mask \in SUBSET Int, NEW kind, TransferOut(kind, t, xy, mask)
      PROVE  Rest
  BY <1>5, <1>7 DEF TransferOut, Request, Ready, ReuseInv, TransferTyped
<1>8. ASSUME NEW t \in Tiles, Work(t)
      PROVE  Rest
  BY <1>5, <1>8 DEF Work, Ready, ReuseInv, TransferTyped
<1>9. ASSUME NEW t \in Tiles, PadEdges(t)
      PROVE  Rest
  <2>1. \A u \in Tiles : PrevRight(u) => prev[u] = None \/ PrevRight(u)'
    BY <1>9 DEF PadEdges, PrevRight, ReuseInv, TransferTyped
  <2>2. UNCHANGED <<prev, reuseCount, errorFlag>>
    BY <1>9 DEF PadEdges
  <2> QED  BY <2>1, <2>2, CountsKept DEF ReuseInv, PrevRight
<1>10. ASSUME Dma
       PROVE  Rest
  BY <1>10, CountsKept DEF Dma, ReuseInv, PrevRight
<1>11. ASSUME WaitForTileFast
       PROVE  Rest
  <2>1. \A u \in Tiles : PrevRight(u) => PrevRight(u)'
    BY <1>11 DEF WaitForTileFast, IsFast, PrevRight, ReuseInv, TransferTyped
  <2>2. UNCHANGED <<prev, reuseCount, errorFlag>>
    BY <1>11 DEF WaitForTileFast
  <2> QED  BY <2>1, <2>2, CountsKept DEF ReuseInv
<1>12. ASSUME NEW t, CheckTileReady(t), UNCHANGED <<frame, pos, dmaIndex, holds, fifo, errorFlag>>
       PROVE  Rest
  <2>1. ASSUME NEW u \in Tiles, PrevRight(u) PROVE PrevRight(u)'
    <3>1. PICK done : /\ prev' = [v \in Tiles |-> IF v \in done /\ "dummy" \notin status[v] THEN None ELSE prev[v]]
                      /\ status' = [v \in Tiles |-> IF v \in done THEN {} ELSE status[v]]
      BY <1>12 DEF CheckTileReady
    <3> QED  BY <1>12, <2>1, <3>1 DEF PrevRight
  <2> QED  BY <1>12, <2>1, CountsTaken DEF ReuseInv
<1>13. ASSUME UNCHANGED <<frame, tileVars, queueVars, fifo>>, errorFlag' \in {errorFlag, TRUE}
       PROVE  Rest
  BY <1>13, CountsKept DEF tileVars, ReuseInv, PrevRight
<1>. HIDE DEF Rest
<1>14. Rest
  BY <1>3, <1>4, <1>6, <1>7, <1>8, <1>9, <1>10, <1>11, <1>12, <1>13, PixelSteps, Zenon
<1> QED  BY <1>1, <1>14 DEF Rest, ReuseInv

\* At first nothing is reused.
LEMMA ReuseInit == ASSUME Init PROVE ReuseInv
<1>1. QueueInv
  <2>1. pending = 0 /\ Busy = {} /\ fifo = <<>> /\ \A t \in Tiles : dmaIndex[t] = 0
    BY DEF Init, Busy
  <2>2. 0 .. pending - 1 = {}
    BY <2>1
  <2> QED  BY <2>1, <2>2, QueueFacts DEF QueueInv
<1>2. prev \in [Tiles -> 0 .. NumTiles] /\ reuseCount \in [Tiles -> Int]
      /\ \A t \in Tiles : prev[t] = None /\ reuseCount[t] = 0
  BY Sizes DEF Init
<1>3. ReuseCounted
  <2>1. \A q \in Tiles : {t \in Tiles : prev[t] = q} = {}
    BY <1>2, Sizes
  <2> QED  BY <1>2, <2>1, FS_EmptySet DEF ReuseCounted
<1> QED  BY <1>1, <1>2, <1>3, TypedInit DEF ReuseInv, PrevRight

\* The count of a tile is the number of tiles that still take pixels from it, in whatever
\* order tiles are asked for, reused and found done: xvCheckInputTileFree never lets a tile be
\* overwritten that another has yet to copy from, nor keeps one for ever.
THEOREM ReuseStaysCounted == Spec => []ReuseCounted
<1>1. Init => ReuseInv
  BY ReuseInit
<1>2. ReuseInv /\ [Next]_vars => ReuseInv'
  BY ReuseStep
<1>3. ReuseInv => ReuseCounted
  BY DEF ReuseInv
<1> QED  BY <1>1, <1>2, <1>3, PTL DEF Spec

-----------------------------------------------------------------------------

\* The row and the column of the frame where those of a tile at xy lie.
RowAt(t, xy, i) == xy[2] - EdgeOf(t) + i
ColAt(t, xy, k) == xy[1] - EdgeOf(t) + k

\* Of h pixels from first on, before lie before the n pixels of the frame and its pads, and
\* after behind them: what lies outside is nearest to the first or the last that does not.
Margins(first, h, n, p, before, after) ==
  /\ first \in Int /\ {h, before, after} \subseteq Nat /\ before + after < h
  /\ \A i \in 0 .. h - 1 : /\ first + i \in FrameAndPads(n, p) <=> before <= i /\ i < h - after
                           /\ Clamp(first + i, -p, n - 1 + p) = first + Clamp(i, before, h - after - 1)

\* The cut tells the margins.
LEMMA CutMargins ==
  ASSUME NEW first \in Int, NEW h \in Nat \ {0}, NEW n \in Nat \ {0}, NEW p \in Nat,
         NEW k, k = Clip(first, first + h - 1, n, p), ~Nothing(k)
  PROVE  Margins(first, h, n, p, k.before, k.after)
<1>1. PICK b, a \in Int : /\ b = k.before /\ a = k.after
                          /\ b = Before(Lesser(first, n + p), p)
                          /\ a = Greater(0, Greater(first + h - 1, -p - 1) - (n - 1 + p))
  <2>. DEFINE b == Before(Lesser(first, n + p), p)
              a == Greater(0, Greater(first + h - 1, -p - 1) - (n - 1 + p))
  <2>1. k.before = b /\ k.after = a
    BY DEF Clip
  <2>2. b \in Int /\ a \in Int
    BY SMT DEF Before, Greater, Lesser
  <2>. HIDE DEF a, b
  <2> QED  BY <2>1, <2>2 DEF a, b
<1>2. /\ first < n + p /\ -p - 1 < first + h - 1
  BY SMT DEF Clip, Nothing, LastInFrame, Greater, Lesser
<1>3. /\ b = Greater(0, -p - first) /\ a = Greater(0, first + h - n - p)
  BY <1>1, <1>2, SMT DEF Before, Greater, Lesser
<1>4. b \in Nat /\ a \in Nat /\ b + a < h
  BY <1>2, <1>3, SMT DEF Greater
<1>5. ASSUME NEW i \in 0 .. h - 1
      PROVE  /\ first + i \in FrameAndPads(n, p) <=> b <= i /\ i < h - a
             /\ Clamp(first + i, -p, n - 1 + p) = first + Clamp(i, b, h - a - 1)
  <2>1. i \in Int /\ 0 <= i /\ i <= h - 1
    BY <1>5
  <2>2. first + i \in FrameAndPads(n, p) <=> b <= i /\ i < h - a
    BY <1>2, <1>3, <2>1, SMT DEF FrameAndPads, Greater
  <2>3. Clamp(first + i, -p, n - 1 + p) = first + Clamp(i, b, h - a - 1)
    BY <1>2, <1>3, <1>4, <2>1, SMT DEF Clamp, Greater, Lesser
  <2> QED  BY <2>2, <2>3
<1> QED  BY <1>1, <1>4, <1>5 DEF Margins

\* Where a tile lies in both dimensions.
Lies(t, xy, p, top, bottom, left, right) ==
  /\ Margins(xy[2] - EdgeOf(t), Height(t), FrameHeight, p, top, bottom)
  /\ Margins(xy[1] - EdgeOf(t), Width(t), FrameWidth, p, left, right)

\* The sizes of tiles.
LEMMA TileSizes ==
  ASSUME NEW t \in Tiles
  PROVE  /\ Height(t) \in Nat \ {0} /\ Width(t) \in Nat \ {0} /\ EdgeOf(t) \in Nat
         /\ \A z \in Int : z + TileHeight - 1 + EdgeOf(t) = (z - EdgeOf(t)) + Height(t) - 1
         /\ \A z \in Int : z + TileWidth - 1 + EdgeOf(t) = (z - EdgeOf(t)) + Width(t) - 1
<1>1. EdgeOf(t) \in Nat /\ TileHeight \in Nat \ {0} /\ TileWidth \in Nat \ {0}
  BY Sizes
<1> QED  BY <1>1 DEF Height, Width

\* The rows and columns of a request tell where its tile lies.
LEMMA RequestLies ==
  ASSUME NEW t \in Tiles, NEW x \in Int, NEW y \in Int, NEW p \in Nat,
         ~Nothing(Rows(t, <<x, y>>, p)), ~Nothing(Cols(t, <<x, y>>, p))
  PROVE  Lies(t, <<x, y>>, p, Rows(t, <<x, y>>, p).before, Rows(t, <<x, y>>, p).after,
              Cols(t, <<x, y>>, p).before, Cols(t, <<x, y>>, p).after)
<1>1. /\ Rows(t, <<x, y>>, p) = Clip(y - EdgeOf(t), (y - EdgeOf(t)) + Height(t) - 1, FrameHeight, p)
      /\ Cols(t, <<x, y>>, p) = Clip(x - EdgeOf(t), (x - EdgeOf(t)) + Width(t) - 1, FrameWidth, p)
  BY TileSizes DEF Rows, Cols
<1>2. y - EdgeOf(t) \in Int /\ x - EdgeOf(t) \in Int /\ FrameHeight \in Nat \ {0} /\ FrameWidth \in Nat \ {0}
      /\ Height(t) \in Nat \ {0} /\ Width(t) \in Nat \ {0}
  <2>1. EdgeOf(t) \in Int /\ Height(t) \in Nat \ {0} /\ Width(t) \in Nat \ {0}
    BY TileSizes
  <2>2. FrameHeight \in Nat \ {0} /\ FrameWidth \in Nat \ {0}
    BY Sizes
  <2> QED  BY <2>1, <2>2
<1>3. Margins(y - EdgeOf(t), Height(t), FrameHeight, p, Rows(t, <<x, y>>, p).before, Rows(t, <<x, y>>, p).after)
  BY <1>1, <1>2, CutMargins
<1>4. Margins(x - EdgeOf(t), Width(t), FrameWidth, p, Cols(t, <<x, y>>, p).before, Cols(t, <<x, y>>, p).after)
  BY <1>1, <1>2, CutMargins
<1> QED  BY <1>3, <1>4 DEF Lies

\* A tile that has nothing of the frame in a dimension has no row or column there.
LEMMA NoneLies ==
  ASSUME NEW t \in Tiles, NEW x \in Int, NEW y \in Int, NEW p \in Nat
  PROVE  /\ Nothing(Rows(t, <<x, y>>, p))
              => \A i \in 0 .. Height(t) - 1 : RowAt(t, <<x, y>>, i) \notin FrameAndPads(FrameHeight, p)
         /\ Nothing(Cols(t, <<x, y>>, p))
              => \A k \in 0 .. Width(t) - 1 : ColAt(t, <<x, y>>, k) \notin FrameAndPads(FrameWidth, p)
<1>1. /\ Rows(t, <<x, y>>, p) = Clip(y - EdgeOf(t), (y - EdgeOf(t)) + Height(t) - 1, FrameHeight, p)
      /\ Cols(t, <<x, y>>, p) = Clip(x - EdgeOf(t), (x - EdgeOf(t)) + Width(t) - 1, FrameWidth, p)
  BY TileSizes DEF Rows, Cols
<1>2. \A first \in Int, h, n \in Nat \ {0} :
        Nothing(Clip(first, first + h - 1, n, p))
          => \A i \in 0 .. h - 1 : first + i \notin FrameAndPads(n, p)
  BY SMT DEF Clip, Nothing, LastInFrame, Greater, Lesser, FrameAndPads
<1>3. y - EdgeOf(t) \in Int /\ x - EdgeOf(t) \in Int /\ FrameHeight \in Nat \ {0} /\ FrameWidth \in Nat \ {0}
      /\ Height(t) \in Nat \ {0} /\ Width(t) \in Nat \ {0}
  <2>1. EdgeOf(t) \in Int /\ Height(t) \in Nat \ {0} /\ Width(t) \in Nat \ {0}
    BY TileSizes
  <2>2. FrameHeight \in Nat \ {0} /\ FrameWidth \in Nat \ {0}
    BY Sizes
  <2> QED  BY <2>1, <2>2
<1> QED  BY <1>1, <1>2, <1>3 DEF RowAt, ColAt

\* A cell is a row and a column of its tile.
LEMMA CellParts ==
  ASSUME NEW t \in Tiles
  PROVE  /\ \A c \in Cells(t) : /\ c = <<c[1], c[2]>> /\ c[1] \in 0 .. Height(t) - 1 /\ c[2] \in 0 .. Width(t) - 1
         /\ \A i \in 0 .. Height(t) - 1, k \in 0 .. Width(t) - 1 : <<i, k>> \in Cells(t)
BY DEF Cells

\* The place of a tile.
LEMMA PlaceOfTile ==
  ASSUME TransferTyped, NEW t \in Tiles
  PROVE  \E x, y \in Int : pos[t] = <<x, y>>
<1>1. pos[t] \in Int \X Int
  BY DEF TransferTyped
<1> QED  BY <1>1

\* The nearest row and column of a tile that the frame and its pads have.
RowNear(t, i, top, bottom) == Clamp(i, top, Height(t) - bottom - 1)
ColNear(t, k, left, right) == Clamp(k, left, Width(t) - right - 1)

\* They are in the tile, and those that the frame has are their own.
LEMMA NearInside ==
  ASSUME NEW t \in Tiles, NEW xy, NEW p, NEW top, NEW bottom, NEW left, NEW right,
         Lies(t, xy, p, top, bottom, left, right)
  PROVE  /\ \A i \in 0 .. Height(t) - 1 :
              LET a == RowNear(t, i, top, bottom)
              IN  /\ a \in 0 .. Height(t) - 1 /\ top <= a /\ a < Height(t) - bottom
                  /\ a = i <=> top <= i /\ i < Height(t) - bottom
         /\ \A k \in 0 .. Width(t) - 1 :
              LET b == ColNear(t, k, left, right)
              IN  /\ b \in 0 .. Width(t) - 1 /\ left <= b /\ b < Width(t) - right
                  /\ b = k <=> left <= k /\ k < Width(t) - right
<1>1. PICK h, w \in Nat : h = Height(t) /\ w = Width(t) /\ h > 0 /\ w > 0
  BY TileSizes
<1>2. top \in Nat /\ bottom \in Nat /\ left \in Nat /\ right \in Nat /\ top + bottom < h /\ left + right < w
  BY <1>1 DEF Lies, Margins
<1>3. ASSUME NEW i \in 0 .. h - 1, NEW a, a = Clamp(i, top, h - bottom - 1)
      PROVE  a \in 0 .. h - 1 /\ top <= a /\ a < h - bottom /\ (a = i <=> top <= i /\ i < h - bottom)
  BY <1>2, <1>3 DEF Clamp, Greater, Lesser
<1>4. ASSUME NEW k \in 0 .. w - 1, NEW b, b = Clamp(k, left, w - right - 1)
      PROVE  b \in 0 .. w - 1 /\ left <= b /\ b < w - right /\ (b = k <=> left <= k /\ k < w - right)
  BY <1>2, <1>4 DEF Clamp, Greater, Lesser
<1> QED  BY <1>1, <1>3, <1>4 DEF RowNear, ColNear

\* The pixel that belongs at a cell of a tile at xy.
PixelOf(t, xy, c, p) ==
  LET r == RowAt(t, xy, c[1])
      k == ColAt(t, xy, c[2])
      in == <<Clamp(r, -p, FrameHeight - 1 + p), Clamp(k, -p, FrameWidth - 1 + p)>>
  IN  IF <<r, k>> = in \/ frame.padding = "edge" THEN in ELSE Const

\* It is the one that the property asks for.
LEMMA PixelHere == \A t, c, p : Pixel(t, c, p) = PixelOf(t, pos[t], c, p)
BY DEF Pixel, PixelOf, RowAt, ColAt

\* Where a tile lies tells it.
LEMMA PixelAt ==
  ASSUME NEW t \in Tiles, NEW xy, NEW p \in Nat, NEW top, NEW bottom, NEW left, NEW right,
         Lies(t, xy, p, top, bottom, left, right), NEW i \in 0 .. Height(t) - 1, NEW k \in 0 .. Width(t) - 1
  PROVE  LET a == RowNear(t, i, top, bottom)
             b == ColNear(t, k, left, right)
         IN  PixelOf(t, xy, <<i, k>>, p) = IF (i = a /\ k = b) \/ frame.padding = "edge"
                                          THEN <<RowAt(t, xy, a), ColAt(t, xy, b)>> ELSE Const
<1>. DEFINE y == xy[2] - EdgeOf(t)
            x == xy[1] - EdgeOf(t)
            a == RowNear(t, i, top, bottom)
            b == ColNear(t, k, left, right)
<1>1. /\ y \in Int /\ x \in Int
      /\ Clamp(y + i, -p, FrameHeight - 1 + p) = y + a
      /\ Clamp(x + k, -p, FrameWidth - 1 + p) = x + b
  BY DEF Lies, Margins, RowNear, ColNear
<1>2. a \in Int /\ b \in Int
  BY NearInside, TileSizes
<1>. HIDE DEF a, b
<1>3. y + i = y + a <=> i = a
  BY <1>1, <1>2
<1>4. x + k = x + b <=> k = b
  BY <1>1, <1>2
<1>5. PixelOf(t, xy, <<i, k>>, p) = IF <<y + i, x + k>> = <<y + a, x + b>> \/ frame.padding = "edge"
                                   THEN <<y + a, x + b>> ELSE Const
  BY <1>1 DEF PixelOf, RowAt, ColAt
<1>6. <<y + i, x + k>> = <<y + a, x + b>> <=> i = a /\ k = b
  BY <1>3, <1>4
<1>7. PixelOf(t, xy, <<i, k>>, p) = IF (i = a /\ k = b) \/ frame.padding = "edge"
                                   THEN <<y + a, x + b>> ELSE Const
  BY <1>5, <1>6
<1> QED  BY <1>7 DEF a, b, RowAt, ColAt

\* What copyBufferEdgeDataH and copyBufferEdgeDataV leave in each cell.
LEMMA CopyCells ==
  ASSUME NEW t, NEW m, DOMAIN m = Cells(t), NEW from, NEW at, NEW n, NEW edge
  PROVE  /\ DOMAIN CopyH(m, from, at, n, edge) = Cells(t) /\ DOMAIN CopyV(m, from, at, n, edge) = Cells(t)
         /\ \A c \in Cells(t) :
              /\ CopyH(m, from, at, n, edge)[c] = IF c[1] \notin at .. at + n - 1 THEN m[c]
                                                 ELSE IF edge THEN m[<<from, c[2]>>] ELSE Const
              /\ CopyV(m, from, at, n, edge)[c] = IF c[2] \notin at .. at + n - 1 THEN m[c]
                                                 ELSE IF edge THEN m[<<c[1], from>>] ELSE Const
BY DEF CopyH, CopyV

\* The rows before and behind are padded: m2 from m.
RowsPadded(t, m, m2, top, bottom, edge) ==
  /\ DOMAIN m2 = Cells(t)
  /\ \A i \in 0 .. Height(t) - 1, k \in 0 .. Width(t) - 1 :
       LET near == RowNear(t, i, top, bottom)
       IN  m2[<<i, k>>] = IF i = near \/ edge THEN m[<<near, k>>] ELSE Const

\* So are the columns.
ColsPadded(t, m, m2, left, right, edge) ==
  /\ DOMAIN m2 = Cells(t)
  /\ \A i \in 0 .. Height(t) - 1, k \in 0 .. Width(t) - 1 :
       LET near == ColNear(t, k, left, right)
       IN  m2[<<i, k>>] = IF k = near \/ edge THEN m[<<i, near>>] ELSE Const

\* Rows of a tile, padded on both sides if there is anything to pad.
LEMMA PadRows ==
  ASSUME NEW t \in Tiles, NEW m, DOMAIN m = Cells(t), NEW top \in Nat, NEW bottom \in Nat,
         top + bottom < Height(t), NEW edge \in BOOLEAN,
         NEW m1, m1 = IF top > 0 THEN CopyH(m, top, 0, top, edge) ELSE m,
         NEW m2, m2 = IF bottom > 0 THEN CopyH(m1, Height(t) - bottom - 1, Height(t) - bottom, bottom, edge) ELSE m1
  PROVE  RowsPadded(t, m, m2, top, bottom, edge)
<1>1. PICK h, w \in Nat : h = Height(t) /\ w = Width(t) /\ h > 0 /\ w > 0
  BY TileSizes
<1>2. DOMAIN m1 = Cells(t) /\ DOMAIN m2 = Cells(t)
  <2>1. DOMAIN m1 = Cells(t)
    BY CopyCells
  <2> QED  BY <2>1, CopyCells
<1>3. ASSUME NEW i \in 0 .. h - 1, NEW k \in 0 .. w - 1
      PROVE  m1[<<i, k>>] = IF i >= top THEN m[<<i, k>>] ELSE IF edge THEN m[<<top, k>>] ELSE Const
  <2>1. <<i, k>> \in Cells(t)
    BY <1>1, CellParts
  <2>2. i \in 0 .. 0 + top - 1 <=> i < top
    OBVIOUS
  <2>3. CASE top > 0
    <3>1. m1 = CopyH(m, top, 0, top, edge)
      BY <2>3
    <3>2. m1[<<i, k>>] = IF i \notin 0 .. 0 + top - 1 THEN m[<<i, k>>] ELSE IF edge THEN m[<<top, k>>] ELSE Const
      BY <2>1, <3>1 DEF CopyH
    <3> QED  BY <2>2, <3>2
  <2>4. CASE top = 0
    BY <2>4
  <2> QED  BY <2>3, <2>4
<1>4. ASSUME NEW i \in 0 .. h - 1, NEW k \in 0 .. w - 1
      PROVE  m2[<<i, k>>] = IF i < h - bottom THEN m1[<<i, k>>] ELSE IF edge THEN m1[<<h - bottom - 1, k>>] ELSE Const
  <2>1. <<i, k>> \in Cells(t)
    BY <1>1, CellParts
  <2>2. i \in (h - bottom) .. (h - bottom) + bottom - 1 <=> ~(i < h - bottom)
    BY <1>1
  <2>3. CASE bottom > 0
    <3>1. m2 = CopyH(m1, h - bottom - 1, h - bottom, bottom, edge)
      BY <1>1, <2>3
    <3>2. m2[<<i, k>>] = IF i \notin (h - bottom) .. (h - bottom) + bottom - 1 THEN m1[<<i, k>>]
                         ELSE IF edge THEN m1[<<h - bottom - 1, k>>] ELSE Const
      BY <1>2, <2>1, <3>1 DEF CopyH
    <3> QED  BY <2>2, <3>2
  <2>4. CASE bottom = 0
    BY <1>1, <2>4
  <2> QED  BY <2>3, <2>4
<1>5. ASSUME NEW i \in 0 .. h - 1, NEW k \in 0 .. w - 1
      PROVE  m2[<<i, k>>] = IF i = Clamp(i, top, h - bottom - 1) \/ edge
                            THEN m[<<Clamp(i, top, h - bottom - 1), k>>] ELSE Const
  <2>1. top + bottom < h /\ h - bottom - 1 \in 0 .. h - 1 /\ h - bottom - 1 >= top
    BY <1>1
  <2>2. CASE i < top
    <3>1. Clamp(i, top, h - bottom - 1) = top /\ i # top /\ i < h - bottom /\ ~(i >= top)
      BY <2>1, <2>2 DEF Clamp, Greater, Lesser
    <3>2. m1[<<i, k>>] = IF edge THEN m[<<top, k>>] ELSE Const
      BY <1>3, <3>1
    <3>3. m2[<<i, k>>] = m1[<<i, k>>]
      BY <1>4, <3>1
    <3> QED  BY <3>1, <3>2, <3>3
  <2>3. CASE i >= top /\ i < h - bottom
    <3>1. Clamp(i, top, h - bottom - 1) = i
      BY <2>1, <2>3 DEF Clamp, Greater, Lesser
    <3> QED  BY <1>3, <1>4, <2>3, <3>1
  <2>4. CASE i >= h - bottom
    <3>1. Clamp(i, top, h - bottom - 1) = h - bottom - 1 /\ i # h - bottom - 1 /\ ~(i < h - bottom)
      BY <2>1, <2>4 DEF Clamp, Greater, Lesser
    <3>2. m1[<<h - bottom - 1, k>>] = m[<<h - bottom - 1, k>>]
      BY <1>3, <2>1
    <3> QED  BY <1>4, <2>4, <3>1, <3>2
  <2> QED  BY <2>1, <2>2, <2>3, <2>4
<1> QED  BY <1>1, <1>2, <1>5 DEF RowsPadded, RowNear

\* Columns likewise.
LEMMA PadCols ==
  ASSUME NEW t \in Tiles, NEW m, DOMAIN m = Cells(t), NEW left \in Nat, NEW right \in Nat,
         left + right < Width(t), NEW edge \in BOOLEAN,
         NEW m1, m1 = IF left > 0 THEN CopyV(m, left, 0, left, edge) ELSE m,
         NEW m2, m2 = IF right > 0 THEN CopyV(m1, Width(t) - right - 1, Width(t) - right, right, edge) ELSE m1
  PROVE  ColsPadded(t, m, m2, left, right, edge)
<1>1. PICK h, w \in Nat : h = Height(t) /\ w = Width(t) /\ h > 0 /\ w > 0
  BY TileSizes
<1>2. DOMAIN m1 = Cells(t) /\ DOMAIN m2 = Cells(t)
  <2>1. DOMAIN m1 = Cells(t)
    BY CopyCells
  <2> QED  BY <2>1, CopyCells
<1>3. ASSUME NEW i \in 0 .. h - 1, NEW k \in 0 .. w - 1
      PROVE  m1[<<i, k>>] = IF k >= left THEN m[<<i, k>>] ELSE IF edge THEN m[<<i, left>>] ELSE Const
  <2>1. <<i, k>> \in Cells(t)
    BY <1>1, CellParts
  <2>2. k \in 0 .. 0 + left - 1 <=> k < left
    OBVIOUS
  <2>3. CASE left > 0
    <3>1. m1 = CopyV(m, left, 0, left, edge)
      BY <2>3
    <3>2. m1[<<i, k>>] = IF k \notin 0 .. 0 + left - 1 THEN m[<<i, k>>] ELSE IF edge THEN m[<<i, left>>] ELSE Const
      BY <2>1, <3>1 DEF CopyV
    <3> QED  BY <2>2, <3>2
  <2>4. CASE left = 0
    BY <2>4
  <2> QED  BY <2>3, <2>4
<1>4. ASSUME NEW i \in 0 .. h - 1, NEW k \in 0 .. w - 1
      PROVE  m2[<<i, k>>] = IF k < w - right THEN m1[<<i, k>>] ELSE IF edge THEN m1[<<i, w - right - 1>>] ELSE Const
  <2>1. <<i, k>> \in Cells(t)
    BY <1>1, CellParts
  <2>2. k \in (w - right) .. (w - right) + right - 1 <=> ~(k < w - right)
    BY <1>1
  <2>3. CASE right > 0
    <3>1. m2 = CopyV(m1, w - right - 1, w - right, right, edge)
      BY <1>1, <2>3
    <3>2. m2[<<i, k>>] = IF k \notin (w - right) .. (w - right) + right - 1 THEN m1[<<i, k>>]
                         ELSE IF edge THEN m1[<<i, w - right - 1>>] ELSE Const
      BY <1>2, <2>1, <3>1 DEF CopyV
    <3> QED  BY <2>2, <3>2
  <2>4. CASE right = 0
    BY <1>1, <2>4
  <2> QED  BY <2>3, <2>4
<1>5. ASSUME NEW i \in 0 .. h - 1, NEW k \in 0 .. w - 1
      PROVE  m2[<<i, k>>] = IF k = Clamp(k, left, w - right - 1) \/ edge
                            THEN m[<<i, Clamp(k, left, w - right - 1)>>] ELSE Const
  <2>1. left + right < w /\ w - right - 1 \in 0 .. w - 1 /\ w - right - 1 >= left
    BY <1>1
  <2>2. CASE k < left
    <3>1. Clamp(k, left, w - right - 1) = left /\ k # left /\ k < w - right /\ ~(k >= left)
      BY <2>1, <2>2 DEF Clamp, Greater, Lesser
    <3>2. m1[<<i, k>>] = IF edge THEN m[<<i, left>>] ELSE Const
      BY <1>3, <3>1
    <3>3. m2[<<i, k>>] = m1[<<i, k>>]
      BY <1>4, <3>1
    <3> QED  BY <3>1, <3>2, <3>3
  <2>3. CASE k >= left /\ k < w - right
    <3>1. Clamp(k, left, w - right - 1) = k
      BY <2>1, <2>3 DEF Clamp, Greater, Lesser
    <3> QED  BY <1>3, <1>4, <2>3, <3>1
  <2>4. CASE k >= w - right
    <3>1. Clamp(k, left, w - right - 1) = w - right - 1 /\ k # w - right - 1 /\ ~(k < w - right)
      BY <2>1, <2>4 DEF Clamp, Greater, Lesser
    <3>2. m1[<<i, w - right - 1>>] = m[<<i, w - right - 1>>]
      BY <1>3, <2>1
    <3> QED  BY <1>4, <2>4, <3>1, <3>2
  <2> QED  BY <2>1, <2>2, <2>3, <2>4
<1> QED  BY <1>1, <1>2, <1>5 DEF ColsPadded, ColNear

-----------------------------------------------------------------------------

\* What the copies of a request at xy fill: the cells that lie in the frame and its
\* pads; in all rows, if rows are repeated.
ColumnsAt(t, xy, p) == {c \in Cells(t) : ColAt(t, xy, c[2]) \in FrameAndPads(FrameWidth, p)}
InnerAt(t, xy, p) == {c \in ColumnsAt(t, xy, p) : RowAt(t, xy, c[1]) \in FrameAndPads(FrameHeight, p)}

\* From the cells of S that are right the padding makes all right, and leaves those of S.
PadsWhole(t, m, m2, p, S) ==
  /\ DOMAIN m2 = Cells(t) /\ \A c \in S : m2[c] = m[c]
  /\ (\A c \in S : m[c] = Pixel(t, c, p)) => \A c \in Cells(t) : m2[c] = Pixel(t, c, p)

\* What is filled, in the tile's own rows and columns.
LEMMA FilledLies ==
  ASSUME NEW t \in Tiles, NEW xy, NEW p, NEW top, NEW bottom, NEW left, NEW right,
         Lies(t, xy, p, top, bottom, left, right)
  PROVE  /\ \A i \in 0 .. Height(t) - 1, k \in 0 .. Width(t) - 1 :
              <<i, k>> \in InnerAt(t, xy, p)
                <=> left <= k /\ k < Width(t) - right /\ top <= i /\ i < Height(t) - bottom
         /\ \A i \in 0 .. Height(t) - 1, k \in 0 .. Width(t) - 1 :
              <<i, k>> \in ColumnsAt(t, xy, p) <=> left <= k /\ k < Width(t) - right
<1>1. ASSUME NEW i \in 0 .. Height(t) - 1, NEW k \in 0 .. Width(t) - 1
      PROVE  /\ <<i, k>> \in Cells(t)
             /\ RowAt(t, xy, i) \in FrameAndPads(FrameHeight, p) <=> top <= i /\ i < Height(t) - bottom
             /\ ColAt(t, xy, k) \in FrameAndPads(FrameWidth, p) <=> left <= k /\ k < Width(t) - right
  BY CellParts DEF Lies, Margins, RowAt, ColAt
<1>2. ASSUME NEW i \in 0 .. Height(t) - 1, NEW k \in 0 .. Width(t) - 1
      PROVE  <<i, k>> \in InnerAt(t, xy, p)
               <=> left <= k /\ k < Width(t) - right /\ top <= i /\ i < Height(t) - bottom
  BY <1>1 DEF InnerAt, ColumnsAt
<1>3. ASSUME NEW i \in 0 .. Height(t) - 1, NEW k \in 0 .. Width(t) - 1
      PROVE  <<i, k>> \in ColumnsAt(t, xy, p) <=> left <= k /\ k < Width(t) - right
  BY <1>1 DEF ColumnsAt
<1> QED  BY <1>2, <1>3, Zenon

\* Cell by cell.
LEMMA WholeByCells ==
  ASSUME NEW t \in Tiles, NEW m, NEW m2, NEW p, NEW S, DOMAIN m2 = Cells(t), S \subseteq Cells(t),
         \A i \in 0 .. Height(t) - 1, k \in 0 .. Width(t) - 1 :
           /\ <<i, k>> \in S => m2[<<i, k>>] = m[<<i, k>>]
           /\ (\A c \in S : m[c] = Pixel(t, c, p)) => m2[<<i, k>>] = Pixel(t, <<i, k>>, p)
  PROVE  PadsWhole(t, m, m2, p, S)
<1>1. ASSUME NEW c \in Cells(t)
      PROVE  /\ c \in S => m2[c] = m[c]
             /\ (\A d \in S : m[d] = Pixel(t, d, p)) => m2[c] = Pixel(t, c, p)
  <2>1. PICK i \in 0 .. Height(t) - 1, k \in 0 .. Width(t) - 1 : c = <<i, k>>
    BY CellParts
  <2> QED  BY <2>1
<1> QED  BY <1>1 DEF PadsWhole

\* xvPadTile: with the flags that the request has set, what the copies left makes up
\* the tile.
LEMMA PadTileWhole ==
  ASSUME TransferTyped, NEW t \in Tiles, NEW p \in Nat, NEW m, DOMAIN m = Cells(t), NEW flags,
         ~Nothing(Rows(t, pos[t], p)), ~Nothing(Cols(t, pos[t], p)),
         flags \cap Sides = Padded(Rows(t, pos[t], p), Cols(t, pos[t], p))
  PROVE  PadsWhole(t, m, PadTile(t, m, flags, p), p, InnerAt(t, pos[t], p))
<1>1. PICK x, y \in Int : pos[t] = <<x, y>>
  BY PlaceOfTile
<1>2. PICK h, w \in Nat : h = Height(t) /\ w = Width(t) /\ h > 0 /\ w > 0
  BY TileSizes
<1>3. PICK top, bottom, left, right :
        /\ top = Rows(t, pos[t], p).before /\ bottom = Rows(t, pos[t], p).after
        /\ left = Cols(t, pos[t], p).before /\ right = Cols(t, pos[t], p).after
  OBVIOUS
<1>4. Lies(t, pos[t], p, top, bottom, left, right)
  BY <1>1, <1>3, RequestLies
<1>5. /\ top \in Nat /\ bottom \in Nat /\ left \in Nat /\ right \in Nat
      /\ top + bottom < h /\ left + right < w
  BY <1>2, <1>4 DEF Lies, Margins
<1>. DEFINE edge == frame.padding = "edge"
            m1 == IF top > 0 THEN CopyH(m, top, 0, top, edge) ELSE m
            m2 == IF bottom > 0 THEN CopyH(m1, Height(t) - bottom - 1, Height(t) - bottom, bottom, edge) ELSE m1
            m3 == IF left > 0 THEN CopyV(m2, left, 0, left, edge) ELSE m2
            m4 == IF right > 0 THEN CopyV(m3, Width(t) - right - 1, Width(t) - right, right, edge) ELSE m3
<1>6. /\ "top" \in flags <=> top > 0
      /\ "bottom" \in flags <=> bottom > 0
      /\ "left" \in flags <=> left > 0
      /\ "right" \in flags <=> right > 0
  <2>. DEFINE needed == Padded(Rows(t, pos[t], p), Cols(t, pos[t], p))
  <2>1. /\ "top" \in needed <=> top > 0
        /\ "bottom" \in needed <=> bottom > 0
        /\ "left" \in needed <=> left > 0
        /\ "right" \in needed <=> right > 0
    BY <1>3 DEF Padded, Sides
  <2>2. \A s \in Sides : s \in flags <=> s \in needed
    OBVIOUS
  <2>. HIDE DEF needed
  <2> QED  BY <2>1, <2>2 DEF Sides
<1>7. PadTile(t, m, flags, p) = m4
  BY <1>3, <1>6 DEF PadTile
<1>8. edge \in BOOLEAN
  OBVIOUS
<1>9. RowsPadded(t, m, m2, top, bottom, edge)
  <2>. HIDE DEF edge
  <2> QED  BY <1>2, <1>5, <1>8, PadRows
<1>. HIDE DEF m2
<1>10. ColsPadded(t, m2, m4, left, right, edge)
  <2>1. DOMAIN m2 = Cells(t)
    BY <1>9 DEF RowsPadded
  <2>. HIDE DEF edge
  <2> QED  BY <1>2, <1>5, <1>8, <2>1, PadCols
<1>. HIDE DEF m4
<1>14. \A i \in 0 .. h - 1, k \in 0 .. w - 1 :
         <<i, k>> \in InnerAt(t, pos[t], p) <=> left <= k /\ k < w - right /\ top <= i /\ i < h - bottom
  <2>1. \A i \in 0 .. Height(t) - 1, k \in 0 .. Width(t) - 1 :
          <<i, k>> \in InnerAt(t, pos[t], p)
            <=> left <= k /\ k < Width(t) - right /\ top <= i /\ i < Height(t) - bottom
    BY <1>4, FilledLies, Zenon
  <2> QED  BY <1>2, <2>1, Zenon
<1>11. ASSUME NEW i \in 0 .. h - 1, NEW k \in 0 .. w - 1
       PROVE  /\ <<i, k>> \in InnerAt(t, pos[t], p) => m4[<<i, k>>] = m[<<i, k>>]
              /\ (\A c \in InnerAt(t, pos[t], p) : m[c] = Pixel(t, c, p)) => m4[<<i, k>>] = Pixel(t, <<i, k>>, p)
  <2>. DEFINE a == RowNear(t, i, top, bottom)
              b == ColNear(t, k, left, right)
  <2>1. /\ a \in 0 .. h - 1 /\ top <= a /\ a < h - bottom /\ (a = i <=> top <= i /\ i < h - bottom)
        /\ b \in 0 .. w - 1 /\ left <= b /\ b < w - right /\ (b = k <=> left <= k /\ k < w - right)
    BY <1>2, <1>4, NearInside
  <2>2. Pixel(t, <<i, k>>, p) = IF (i = a /\ k = b) \/ edge
                                THEN <<RowAt(t, pos[t], a), ColAt(t, pos[t], b)>> ELSE Const
    BY <1>2, <1>4, PixelAt, PixelHere
  <2>3. Pixel(t, <<a, b>>, p) = <<RowAt(t, pos[t], a), ColAt(t, pos[t], b)>> /\ <<a, b>> \in InnerAt(t, pos[t], p)
    <3>. HIDE DEF a, b
    <3>1. RowNear(t, a, top, bottom) = a /\ ColNear(t, b, left, right) = b
      BY <1>2, <1>4, <2>1, NearInside
    <3>2. Pixel(t, <<a, b>>, p) = <<RowAt(t, pos[t], a), ColAt(t, pos[t], b)>>
      <4>1. PixelOf(t, pos[t], <<a, b>>, p) = <<RowAt(t, pos[t], a), ColAt(t, pos[t], b)>>
        <5>1. a \in 0 .. Height(t) - 1 /\ b \in 0 .. Width(t) - 1
          BY <1>2, <2>1
        <5> QED  BY <1>4, <3>1, <5>1, PixelAt
      <4> QED  BY <4>1, PixelHere
    <3>3. <<a, b>> \in InnerAt(t, pos[t], p)
      BY <1>14, <2>1
    <3> QED  BY <3>2, <3>3
  <2>4. m4[<<i, k>>] = IF (i = a /\ k = b) \/ edge THEN m[<<a, b>>] ELSE Const
    <3>1. m4[<<i, k>>] = IF k = b \/ edge THEN m2[<<i, b>>] ELSE Const
      BY <1>2, <1>10 DEF ColsPadded
    <3>. HIDE DEF b
    <3>2. m2[<<i, b>>] = IF i = a \/ edge THEN m[<<a, b>>] ELSE Const
      BY <1>2, <1>9, <2>1 DEF RowsPadded
    <3>. HIDE DEF edge, a
    <3> QED  BY <3>1, <3>2
  <2>5. <<i, k>> \in InnerAt(t, pos[t], p) => i = a /\ k = b
    BY <1>2, <1>4, <2>1, FilledLies
  <2>. HIDE DEF edge, a, b
  <2> QED  BY <2>2, <2>3, <2>4, <2>5
<1>12. DOMAIN m4 = Cells(t)
  BY <1>10 DEF ColsPadded
<1>13. InnerAt(t, pos[t], p) \subseteq Cells(t)
  BY DEF InnerAt, ColumnsAt
<1> QED  BY <1>2, <1>7, <1>11, <1>12, <1>13, WholeByCells

\* The edges of a tile of the Fast functions, whose rows are filled, if one vector
\* store is as wide as what is padded.
LEMMA PadFastWhole ==
  ASSUME TransferTyped, NEW t \in Tiles, DOMAIN data[t] = Cells(t), frame.padding = "edge", Width(t) - 1 <= Vector,
         ~Nothing(Rows(t, pos[t], 0)), ~Nothing(Cols(t, pos[t], 0)),
         status[t] \cap {"left", "right"} = Padded(Rows(t, pos[t], 0), Cols(t, pos[t], 0)) \cap {"left", "right"}
  PROVE  PadsWhole(t, data[t], PadEdgesFast(t), 0, ColumnsAt(t, pos[t], 0))
<1>1. PICK x, y \in Int : pos[t] = <<x, y>>
  BY PlaceOfTile
<1>2. PICK h, w \in Nat : h = Height(t) /\ w = Width(t) /\ h > 0 /\ w > 0
  BY TileSizes
<1>3. PICK top, bottom, left, right :
        /\ top = Rows(t, pos[t], 0).before /\ bottom = Rows(t, pos[t], 0).after
        /\ left = Cols(t, pos[t], 0).before /\ right = Cols(t, pos[t], 0).after
  OBVIOUS
<1>4. Lies(t, pos[t], 0, top, bottom, left, right)
  BY <1>1, <1>3, RequestLies
<1>5. /\ top \in Nat /\ bottom \in Nat /\ left \in Nat /\ right \in Nat
      /\ top + bottom < h /\ left + right < w
  BY <1>2, <1>4 DEF Lies, Margins
<1>. DEFINE m == data[t]
            m3 == IF left > 0 THEN CopyV(m, left, 0, left, TRUE) ELSE m
            m4 == IF right > 0 THEN CopyV(m3, Width(t) - right - 1, Width(t) - right, right, TRUE) ELSE m3
<1>6. /\ "left" \in status[t] <=> left > 0
      /\ "right" \in status[t] <=> right > 0
  <2>1. /\ "left" \in Padded(Rows(t, pos[t], 0), Cols(t, pos[t], 0)) <=> left > 0
        /\ "right" \in Padded(Rows(t, pos[t], 0), Cols(t, pos[t], 0)) <=> right > 0
    BY <1>3 DEF Padded, Sides
  <2> QED  BY <2>1
<1>7. PadEdgesFast(t) = m4
  <2>1. Lesser(Vector, left) = left /\ Lesser(Vector, right) = right
    <3>1. Vector \in Nat
      BY TransferAssumption
    <3> QED  BY <1>2, <1>5, <3>1 DEF Lesser
  <2>2. Width(t) - right - 1 = Width(t) - 1 - right
    BY <1>2, <1>5
  <2> QED  BY <1>3, <1>6, <2>1, <2>2 DEF PadEdgesFast
<1>10. ColsPadded(t, m, m4, left, right, TRUE)
  BY <1>2, <1>5, PadCols
<1>. HIDE DEF m4, m
<1>11. ASSUME NEW i \in 0 .. h - 1, NEW k \in 0 .. w - 1
       PROVE  /\ <<i, k>> \in ColumnsAt(t, pos[t], 0) => m4[<<i, k>>] = m[<<i, k>>]
              /\ (\A c \in ColumnsAt(t, pos[t], 0) : m[c] = Pixel(t, c, 0)) => m4[<<i, k>>] = Pixel(t, <<i, k>>, 0)
  <2>. DEFINE a == RowNear(t, i, top, bottom)
              b == ColNear(t, k, left, right)
  <2>1. b \in 0 .. w - 1 /\ left <= b /\ b < w - right /\ (b = k <=> left <= k /\ k < w - right)
    BY <1>2, <1>4, NearInside
  <2>2. Pixel(t, <<i, k>>, 0) = <<RowAt(t, pos[t], a), ColAt(t, pos[t], b)>>
    BY <1>2, <1>4, PixelAt, PixelHere
  <2>3. Pixel(t, <<i, b>>, 0) = <<RowAt(t, pos[t], a), ColAt(t, pos[t], b)>> /\ <<i, b>> \in ColumnsAt(t, pos[t], 0)
    <3>. HIDE DEF b
    <3>1. ColNear(t, b, left, right) = b
      BY <1>2, <1>4, <2>1, NearInside
    <3>2. Pixel(t, <<i, b>>, 0) = <<RowAt(t, pos[t], a), ColAt(t, pos[t], b)>>
      BY <1>2, <1>4, <2>1, <3>1, PixelAt, PixelHere
    <3>3. <<i, b>> \in ColumnsAt(t, pos[t], 0)
      BY <1>2, <1>4, <2>1, FilledLies
    <3> QED  BY <3>2, <3>3
  <2>4. m4[<<i, k>>] = m[<<i, b>>]
    BY <1>2, <1>10 DEF ColsPadded
  <2>5. <<i, k>> \in ColumnsAt(t, pos[t], 0) => k = b
    BY <1>2, <1>4, <2>1, FilledLies
  <2>. HIDE DEF a, b
  <2> QED  BY <2>2, <2>3, <2>4, <2>5
<1>12. DOMAIN m4 = Cells(t)
  BY <1>10 DEF ColsPadded
<1>13. ColumnsAt(t, pos[t], 0) \subseteq Cells(t)
  BY DEF InnerAt, ColumnsAt
<1> QED  BY <1>2, <1>7, <1>11, <1>12, <1>13, WholeByCells DEF m

\* A tile that has nothing of the frame has nothing that the copies fill; where the padding
\* is constant it makes up the tile.
LEMMA PadDummyWhole ==
  ASSUME TransferTyped, NEW t \in Tiles, NEW p \in Nat, NEW m, DOMAIN m = Cells(t),
         Nothing(Rows(t, pos[t], p)) \/ Nothing(Cols(t, pos[t], p))
  PROVE  /\ InnerAt(t, pos[t], p) = {} /\ DOMAIN PadDummy(t, m) = Cells(t)
         /\ frame.padding # "edge" => \A c \in Cells(t) : PadDummy(t, m)[c] = Pixel(t, c, p)
<1>1. PICK x, y \in Int : pos[t] = <<x, y>>
  BY PlaceOfTile
<1>2. \A c \in Cells(t) : \/ RowAt(t, pos[t], c[1]) \notin FrameAndPads(FrameHeight, p)
                         \/ ColAt(t, pos[t], c[2]) \notin FrameAndPads(FrameWidth, p)
  BY <1>1, NoneLies, CellParts
<1>3. InnerAt(t, pos[t], p) = {}
  BY <1>2 DEF InnerAt, ColumnsAt
<1>4. DOMAIN PadDummy(t, m) = Cells(t)
  BY DEF PadDummy, CopyH
<1>5. ASSUME frame.padding # "edge", NEW c \in Cells(t)
      PROVE  PadDummy(t, m)[c] = Pixel(t, c, p)
  <2>1. c[1] \in 0 .. 0 + Height(t) - 1
    BY CellParts, TileSizes
  <2>2. PadDummy(t, m)[c] = Const
    BY <1>5, <2>1 DEF PadDummy, CopyH
  <2>3. PICK r, k \in Int : r = y - EdgeOf(t) + c[1] /\ k = x - EdgeOf(t) + c[2]
    BY CellParts, TileSizes
  <2>4. r \notin FrameAndPads(FrameHeight, p) \/ k \notin FrameAndPads(FrameWidth, p)
    BY <1>1, <1>2, <2>3 DEF RowAt, ColAt
  <2>5. r # Clamp(r, -p, FrameHeight - 1 + p) \/ k # Clamp(k, -p, FrameWidth - 1 + p)
    <3>1. FrameHeight \in Nat \ {0} /\ FrameWidth \in Nat \ {0}
      BY Sizes
    <3> QED  BY <2>4, <3>1 DEF FrameAndPads, Clamp, Greater, Lesser
  <2>6. Pixel(t, c, p) = Const
    BY <1>1, <1>5, <2>3, <2>5 DEF Pixel
  <2> QED  BY <2>2, <2>6
<1> QED  BY <1>3, <1>4, <1>5

-----------------------------------------------------------------------------

\* Copy d takes cell c of tile t, at xy, from the same place: of the frame, or of tile q.
SamePlace(d, c, t, xy, q) ==
  LET s == Source(d, c)
  IN  \/ d.from = None /\ s = <<RowAt(t, xy, c[1]), ColAt(t, xy, c[2])>>
      \/ /\ d.from = q /\ q \in Tiles /\ s \in Cells(q)
         /\ RowAt(q, pos[q], s[1]) = RowAt(t, xy, c[1]) /\ ColAt(q, pos[q], s[2]) = ColAt(t, xy, c[2])

\* The copies to t that do so with all that they carry.
Faithful(t, xy, q) ==
  {d \in Descriptors : d.to = t /\ d.from \in {None, q} /\ \A c \in Cells(t) : c \in Carried(d) => SamePlace(d, c, t, xy, q)}

\* The cells of a tile at xy that lie in some rows and columns of the frame.
Part(t, xy, r1, r2, c1, c2) ==
  {c \in Cells(t) : RowAt(t, xy, c[1]) \in r1 .. r2 /\ ColAt(t, xy, c[2]) \in c1 .. c2}

\* Copies that bring a part.
Brings(copies, t, xy, q, part) ==
  /\ copies \in Seq(Faithful(t, xy, q))
  /\ \A c \in part : \E i \in DOMAIN copies : c \in Carried(copies[i])

\* A copy from the frame brings its rows and columns.
LEMMA FrameCopyBrings ==
  ASSUME NEW t \in Tiles, NEW x \in Int, NEW y \in Int, NEW q, NEW intr \in BOOLEAN,
         NEW r1 \in Int, NEW r2 \in Int, NEW c1 \in Int, NEW c2 \in Int
  PROVE  /\ FromFrame(t, <<x, y>>, r1, r2, c1, c2, intr) \in Faithful(t, <<x, y>>, q)
         /\ Part(t, <<x, y>>, r1, r2, c1, c2) \subseteq Carried(FromFrame(t, <<x, y>>, r1, r2, c1, c2, intr))
         /\ Carried(FromFrame(t, <<x, y>>, r1, r2, c1, c2, intr)) \cap Cells(t) \subseteq Part(t, <<x, y>>, r1, r2, c1, c2)
<1>. DEFINE d == FromFrame(t, <<x, y>>, r1, r2, c1, c2, intr)
<1>1. /\ d.to = t /\ d.toRow = r1 - y + EdgeOf(t) /\ d.toCol = c1 - x + EdgeOf(t)
      /\ d.from = None /\ d.row = r1 /\ d.col = c1 /\ d.step = 1
      /\ d.rows = r2 - r1 + 1 /\ d.cols = c2 - c1 + 1 /\ d.mask = 0 .. r2 - r1 + 1 - 1
  BY DEF FromFrame, Copy
<1>2. PICK e \in Nat : e = EdgeOf(t)
  BY Sizes
<1>3. d \in Descriptors
  BY <1>2, Sizes DEF FromFrame, Copy, Descriptors
<1>. HIDE DEF d
<1>4. ASSUME NEW i \in 0 .. Height(t) - 1, NEW k \in 0 .. Width(t) - 1
      PROVE  /\ Source(d, <<i, k>>) = <<y - e + i, x - e + k>>
             /\ y - e + i \in r1 .. r2 /\ x - e + k \in c1 .. c2 <=> <<i, k>> \in Carried(d)
  <2>1. i \in Int /\ k \in Int
    BY TileSizes
  <2>2. Source(d, <<i, k>>) = <<y - e + i, x - e + k>>
    <3>1. PICK n \in Int : n = i - d.toRow /\ n = i - (r1 - y + e)
      BY <1>1, <1>2, <2>1
    <3>2. d.step = 1 /\ d.row = r1 /\ d.col + k - d.toCol = x - e + k
      BY <1>1, <1>2, <2>1
    <3>3. d.step * n = n
      BY <3>2
    <3>4. d.row + d.step * (i - d.toRow) = y - e + i
      BY <2>1, <3>1, <3>2, <3>3
    <3> QED  BY <3>2, <3>4 DEF Source
  <2>3. ASSUME y - e + i \in r1 .. r2, x - e + k \in c1 .. c2 PROVE <<i, k>> \in Carried(d)
    <3>1. i \in d.toRow .. d.toRow + d.rows - 1 /\ k \in d.toCol .. d.toCol + d.cols - 1 /\ i - d.toRow \in d.mask
      <4>2. PICK a, b \in Int : a = d.toRow /\ b = d.toCol /\ a = r1 - y + e /\ b = c1 - x + e
        BY <1>1, <1>2
      <4>1. d.toRow + d.rows - 1 = r2 - y + e /\ d.toCol + d.cols - 1 = c2 - x + e
        <5>1. PICK m, n \in Int : m = d.rows /\ n = d.cols /\ m = r2 - r1 + 1 /\ n = c2 - c1 + 1
          BY <1>1
        <5> QED  BY <4>2, <5>1
      <4>3. i \in a .. r2 - y + e /\ k \in b .. c2 - x + e
        BY <2>1, <2>3, <4>2
      <4>4. i - a \in 0 .. r2 - r1 + 1 - 1
        BY <2>1, <2>3, <4>2
      <4> QED  BY <1>1, <4>1, <4>2, <4>3, <4>4
    <3> QED  BY <3>1 DEF Carried
  <2>4. ASSUME <<i, k>> \in Carried(d) PROVE y - e + i \in r1 .. r2 /\ x - e + k \in c1 .. c2
    <3>1. i \in d.toRow .. d.toRow + d.rows - 1 /\ k \in d.toCol .. d.toCol + d.cols - 1
      BY <2>4 DEF Carried
    <3>2. PICK a, b, m, n \in Int : /\ a = d.toRow /\ b = d.toCol /\ a = r1 - y + e /\ b = c1 - x + e
                                   /\ m = d.rows /\ n = d.cols /\ m = r2 - r1 + 1 /\ n = c2 - c1 + 1
      BY <1>1, <1>2
    <3> QED  BY <2>1, <3>1, <3>2
  <2> QED  BY <2>2, <2>3, <2>4
<1>5. \A c \in Cells(t) : /\ Source(d, c) = <<RowAt(t, <<x, y>>, c[1]), ColAt(t, <<x, y>>, c[2])>>
                          /\ c \in Part(t, <<x, y>>, r1, r2, c1, c2) <=> c \in Carried(d)
  BY <1>2, <1>4, CellParts DEF Part, RowAt, ColAt
<1>6. d \in Faithful(t, <<x, y>>, q)
  <2>1. \A c \in Cells(t) : SamePlace(d, c, t, <<x, y>>, q)
    BY <1>1, <1>5 DEF SamePlace
  <2>2. d.to = t /\ d.from \in {None, q}
    BY <1>1
  <2> QED  BY <1>3, <2>1, <2>2, Zenon DEF Faithful
<1>7. Part(t, <<x, y>>, r1, r2, c1, c2) \subseteq Carried(d)
  BY <1>5 DEF Part
<1>8. Carried(d) \cap Cells(t) \subseteq Part(t, <<x, y>>, r1, r2, c1, c2)
  BY <1>5
<1> QED  BY <1>6, <1>7, <1>8 DEF d

\* So does one from a tile that has them.
LEMMA TileCopyBrings ==
  ASSUME NEW t \in Tiles, NEW x \in Int, NEW y \in Int, NEW q \in Tiles, Placed(q), NEW intr \in BOOLEAN,
         NEW r1 \in Int, NEW r2 \in Int, NEW c1 \in Int, NEW c2 \in Int,
         Region(q).y1 <= r1, r2 <= Region(q).y2, Region(q).x1 <= c1, c2 <= Region(q).x2
  PROVE  /\ FromTile(t, <<x, y>>, q, r1, r2, c1, c2, intr) \in Faithful(t, <<x, y>>, q)
         /\ Part(t, <<x, y>>, r1, r2, c1, c2) \subseteq Carried(FromTile(t, <<x, y>>, q, r1, r2, c1, c2, intr))
<1>. DEFINE d == FromTile(t, <<x, y>>, q, r1, r2, c1, c2, intr)
<1>1. PICK e, f, h, w \in Nat : e = EdgeOf(t) /\ f = EdgeOf(q) /\ h = Height(q) /\ w = Width(q)
  BY TileSizes
<1>2. PICK a, b \in Int : a = pos[q][2] /\ b = pos[q][1]
  BY DEF Placed
<1>3. /\ d.to = t /\ d.toRow = r1 - y + e /\ d.toCol = c1 - x + e
      /\ d.from = q /\ d.row = r1 - a + f /\ d.col = c1 - b + f /\ d.step = 1
      /\ d.rows = r2 - r1 + 1 /\ d.cols = c2 - c1 + 1 /\ d.mask = 0 .. r2 - r1 + 1 - 1
  BY <1>1, <1>2 DEF FromTile, Copy
<1>4. d \in Descriptors
  BY <1>1, <1>2, Sizes DEF FromTile, Copy, Descriptors
<1>5. a - f <= r1 /\ r2 <= (a - f) + h - 1 /\ b - f <= c1 /\ c2 <= (b - f) + w - 1
  BY <1>1, <1>2, TileSizes DEF Region
<1>. HIDE DEF d
<1>6. ASSUME NEW i \in 0 .. Height(t) - 1, NEW k \in 0 .. Width(t) - 1
      PROVE  /\ <<i, k>> \in Carried(d) => SamePlace(d, <<i, k>>, t, <<x, y>>, q)
             /\ y - e + i \in r1 .. r2 /\ x - e + k \in c1 .. c2 => <<i, k>> \in Carried(d)
  <2>1. i \in Int /\ k \in Int
    BY TileSizes
  <2>2. <<i, k>> \in Carried(d) <=> i \in r1 - y + e .. r2 - y + e /\ k \in c1 - x + e .. c2 - x + e
    <3>1. d.toRow + d.rows - 1 = r2 - y + e /\ d.toCol + d.cols - 1 = c2 - x + e
      BY <1>3
    <3>2. i \in r1 - y + e .. r2 - y + e => i - d.toRow \in d.mask
      BY <1>3, <2>1
    <3> QED  BY <1>3, <3>1, <3>2 DEF Carried
  <2>3. ASSUME i \in r1 - y + e .. r2 - y + e, k \in c1 - x + e .. c2 - x + e
        PROVE  SamePlace(d, <<i, k>>, t, <<x, y>>, q)
    <3>1. PICK u, v \in Int : u = y - e + i - (a - f) /\ v = x - e + k - (b - f)
      BY <2>1
    <3>2. Source(d, <<i, k>>) = <<u, v>>
      <4>1. d.row + d.step * (i - d.toRow) = u
        <5>1. PICK n \in Int : n = i - d.toRow /\ n = i - (r1 - y + e)
          BY <1>3, <2>1
        <5>2. d.step = 1 /\ d.row = r1 - a + f
          BY <1>3
        <5>3. d.step * n = n
          BY <5>2
        <5> QED  BY <2>1, <3>1, <5>1, <5>2, <5>3
      <4>2. d.col + k - d.toCol = v
        BY <1>3, <2>1, <3>1
      <4> QED  BY <4>1, <4>2 DEF Source
    <3>3. u \in 0 .. h - 1 /\ v \in 0 .. w - 1
      BY <1>5, <2>1, <2>3, <3>1
    <3>4. a - f + u = y - e + i /\ b - f + v = x - e + k
      BY <2>1, <3>1
    <3>5. <<u, v>> \in Cells(q)
      BY <1>1, <3>3, CellParts
    <3>6. /\ RowAt(q, pos[q], u) = RowAt(t, <<x, y>>, i)
          /\ ColAt(q, pos[q], v) = ColAt(t, <<x, y>>, k)
      BY <1>1, <1>2, <3>4 DEF RowAt, ColAt
    <3>7. d.from = q
      BY <1>3
    <3> QED  BY <3>2, <3>5, <3>6, <3>7 DEF SamePlace
  <2>4. y - e + i \in r1 .. r2 /\ x - e + k \in c1 .. c2
          => i \in r1 - y + e .. r2 - y + e /\ k \in c1 - x + e .. c2 - x + e
    BY <2>1
  <2> QED  BY <2>2, <2>3, <2>4
<1>7. \A c \in Cells(t) : /\ c \in Carried(d) => SamePlace(d, c, t, <<x, y>>, q)
                          /\ c \in Part(t, <<x, y>>, r1, r2, c1, c2) => c \in Carried(d)
  BY <1>1, <1>6, CellParts DEF Part, RowAt, ColAt
<1>8. d \in Faithful(t, <<x, y>>, q)
  <2>1. d.to = t /\ d.from \in {None, q}
    BY <1>3
  <2> QED  BY <1>4, <1>7, <2>1, Zenon DEF Faithful
<1>9. Part(t, <<x, y>>, r1, r2, c1, c2) \subseteq Carried(d)
  BY <1>7 DEF Part
<1> QED  BY <1>8, <1>9 DEF d

\* One copy.
LEMMA OneBrings ==
  ASSUME NEW t, NEW xy, NEW q, NEW part, NEW d \in Faithful(t, xy, q), part \subseteq Carried(d)
  PROVE  Brings(<<d>>, t, xy, q, part)
BY DEF Brings

\* Copies one after the other bring what each brings.
LEMMA BothBring ==
  ASSUME NEW t, NEW xy, NEW q, NEW part, NEW one, NEW other, NEW s1, NEW s2,
         Brings(s1, t, xy, q, one), Brings(s2, t, xy, q, other), part \subseteq one \cup other
  PROVE  Brings(s1 \o s2, t, xy, q, part)
<1>1. s1 \in Seq(Faithful(t, xy, q)) /\ s2 \in Seq(Faithful(t, xy, q))
  BY DEF Brings
<1>2. s1 \o s2 \in Seq(Faithful(t, xy, q))
  BY <1>1
<1>3. /\ \A i \in DOMAIN s1 : i \in DOMAIN (s1 \o s2) /\ (s1 \o s2)[i] = s1[i]
      /\ \A i \in DOMAIN s2 : Len(s1) + i \in DOMAIN (s1 \o s2) /\ (s1 \o s2)[Len(s1) + i] = s2[i]
  BY <1>1
<1>4. ASSUME NEW c \in part PROVE \E i \in DOMAIN (s1 \o s2) : c \in Carried((s1 \o s2)[i])
  <2>1. CASE c \in one
    <3>1. PICK i \in DOMAIN s1 : c \in Carried(s1[i])
      BY <2>1 DEF Brings
    <3> QED  BY <1>3, <3>1
  <2>2. CASE c \in other
    <3>1. PICK i \in DOMAIN s2 : c \in Carried(s2[i])
      BY <2>2 DEF Brings
    <3> QED  BY <1>3, <3>1
  <2> QED  BY <2>1, <2>2
<1> QED  BY <1>2, <1>4 DEF Brings

\* Parts beside and above each other.
LEMMA PartsJoin ==
  ASSUME NEW t \in Tiles, NEW x \in Int, NEW y \in Int, NEW r1 \in Int, NEW r2 \in Int, NEW c1 \in Int, NEW c2 \in Int
  PROVE  /\ \A z, z2 \in Int : z2 <= z + 1 =>
              Part(t, <<x, y>>, r1, r2, c1, c2) \subseteq Part(t, <<x, y>>, r1, r2, c1, z) \cup Part(t, <<x, y>>, r1, r2, z2, c2)
         /\ \A z, z2 \in Int : z2 <= z + 1 =>
              Part(t, <<x, y>>, r1, r2, c1, c2) \subseteq Part(t, <<x, y>>, r1, z, c1, c2) \cup Part(t, <<x, y>>, z2, r2, c1, c2)
<1>1. \A c \in Cells(t) : RowAt(t, <<x, y>>, c[1]) \in Int /\ ColAt(t, <<x, y>>, c[2]) \in Int
  BY CellParts, TileSizes DEF RowAt, ColAt
<1>2. \A n, a, b, z, z2 \in Int : n \in a .. b /\ z2 <= z + 1 => n \in a .. z \/ n \in z2 .. b
  OBVIOUS
<1> QED  BY <1>1, <1>2 DEF Part

\* Two copies and three bring what each carries.
LEMMA FewBring ==
  ASSUME NEW t, NEW xy, NEW q, NEW part, NEW d1 \in Faithful(t, xy, q), NEW d2 \in Faithful(t, xy, q)
  PROVE  /\ part \subseteq Carried(d1) \cup Carried(d2) => Brings(<<d1, d2>>, t, xy, q, part)
         /\ \A d3 \in Faithful(t, xy, q) : part \subseteq Carried(d1) \cup Carried(d2) \cup Carried(d3)
              => Brings(<<d1, d2, d3>>, t, xy, q, part)
<1>1. part \subseteq Carried(d1) \cup Carried(d2) => Brings(<<d1, d2>>, t, xy, q, part)
  BY DEF Brings
<1>2. ASSUME NEW d3 \in Faithful(t, xy, q), part \subseteq Carried(d1) \cup Carried(d2) \cup Carried(d3)
      PROVE  Brings(<<d1, d2, d3>>, t, xy, q, part)
  BY <1>2 DEF Brings
<1> QED  BY <1>1, <1>2

\* The at most three copies of solveForX bring the rows that t shares with q.
LEMMA AcrossBrings ==
  ASSUME NEW t \in Tiles, NEW q \in Tiles, NEW x \in Int, NEW y \in Int, Placed(q),
         NEW x1 \in Int, NEW x2 \in Int, NEW p1 \in Int, NEW p2 \in Int,
         p1 = Region(q).x1, p2 = Region(q).x2, p2 >= x1, p1 <= x2, p1 <= p2,
         NEW r1 \in Int, NEW r2 \in Int, Region(q).y1 <= r1, r2 <= Region(q).y2
  PROVE  Brings(solveForX(t, <<x, y>>, q, r1, r2, x1, x2, p1, p2), t, <<x, y>>, q, Part(t, <<x, y>>, r1, r2, x1, x2))
<1>. DEFINE F0(a, b) == FromFrame(t, <<x, y>>, r1, r2, a, b, FALSE)
            F1(a, b) == FromFrame(t, <<x, y>>, r1, r2, a, b, TRUE)
            T0(a, b) == FromTile(t, <<x, y>>, q, r1, r2, a, b, FALSE)
            T1(a, b) == FromTile(t, <<x, y>>, q, r1, r2, a, b, TRUE)
            part(a, b) == Part(t, <<x, y>>, r1, r2, a, b)
            brings(d, a, b) == d \in Faithful(t, <<x, y>>, q) /\ part(a, b) \subseteq Carried(d)
            X == solveForX(t, <<x, y>>, q, r1, r2, x1, x2, p1, p2)
<1>6. PICK p3 \in Int : p3 = p1 - 1 /\ p1 <= p3 + 1
  OBVIOUS
<1>7. PICK p4 \in Int : p4 = p2 + 1 /\ p4 <= p2 + 1
  OBVIOUS
<1>0. SUFFICES Brings(X, t, <<x, y>>, q, part(x1, x2))
  OBVIOUS
<1>1. \A a, b \in Int : brings(F0(a, b), a, b) /\ brings(F1(a, b), a, b)
  BY FrameCopyBrings
<1>2. \A a, b \in Int : p1 <= a /\ b <= p2 => brings(T0(a, b), a, b) /\ brings(T1(a, b), a, b)
  BY TileCopyBrings
<1>3. \A a, b, c, e \in Int : c <= b + 1 => part(a, e) \subseteq part(a, b) \cup part(c, e)
  BY PartsJoin
<1>. DEFINE S1 == <<T0(x1, p2), F1(p4, x2)>>
            S2 == <<F0(x1, p3), T0(p1, p2), F1(p4, x2)>>
            S3 == <<F0(x1, p3), T1(p1, x2)>>
            S4 == <<T1(x1, x2)>>
<1>4. X = CASE p1 <= x1 /\ p2 < x2 -> S1
            [] x1 < p1 /\ p2 < x2 -> S2
            [] x1 < p1 /\ x2 <= p2 -> S3
            [] p1 <= x1 /\ x2 <= p2 -> S4
  BY <1>6, <1>7 DEF solveForX
<1>. HIDE DEF X, F0, F1, T0, T1, S1, S2, S3, S4, part
<1>8. CASE p1 <= x1 /\ p2 < x2
  <2>1. X = S1
    BY <1>4, <1>8
  <2>2. brings(T0(x1, p2), x1, p2) /\ brings(F1(p4, x2), p4, x2)
    BY <1>1, <1>2, <1>8
  <2>3. part(x1, x2) \subseteq part(x1, p2) \cup part(p4, x2)
    BY <1>3, <1>7
  <2> QED  BY <2>1, <2>2, <2>3, FewBring DEF S1
<1>9. CASE x1 < p1 /\ p2 < x2
  <2>1. X = S2
    BY <1>4, <1>9
  <2>2. brings(F0(x1, p3), x1, p3) /\ brings(T0(p1, p2), p1, p2) /\ brings(F1(p4, x2), p4, x2)
    BY <1>1, <1>2
  <2>3. part(x1, x2) \subseteq part(x1, p3) \cup part(p1, x2) /\ part(p1, x2) \subseteq part(p1, p2) \cup part(p4, x2)
    BY <1>3, <1>6, <1>7
  <2> QED  BY <2>1, <2>2, <2>3, FewBring DEF S2
<1>10. CASE x1 < p1 /\ x2 <= p2
  <2>1. X = S3
    BY <1>4, <1>10
  <2>2. brings(F0(x1, p3), x1, p3) /\ brings(T1(p1, x2), p1, x2)
    BY <1>1, <1>2, <1>10
  <2>3. part(x1, x2) \subseteq part(x1, p3) \cup part(p1, x2)
    BY <1>3, <1>6
  <2> QED  BY <2>1, <2>2, <2>3, FewBring DEF S3
<1>11. CASE p1 <= x1 /\ x2 <= p2
  <2>1. X = S4
    BY <1>4, <1>11
  <2>2. brings(T1(x1, x2), x1, x2)
    BY <1>2, <1>11
  <2> QED  BY <2>1, <2>2, OneBrings DEF S4
<1> QED  BY <1>8, <1>9, <1>10, <1>11

\* The copies of a request that reuses tile q bring all that the request has of the frame.
LEMMA ReuseBrings ==
  ASSUME FrameTyped, NEW t \in Tiles, NEW q \in Tiles, NEW x \in Int, NEW y \in Int,
         Placed(q), NEW rows, NEW cols, CutTo(t, x, y, rows, cols), Overlap(q, rows, cols)
  PROVE  Brings(Reuse(t, <<x, y>>, q, rows, cols), t, <<x, y>>, q,
                Part(t, <<x, y>>, rows.first, rows.last, cols.first, cols.last))
<1>1. PICK y1, y2, x1, x2, a1, a2, b1, b2 \in Int :
        /\ y1 = rows.first /\ y2 = rows.last /\ x1 = cols.first /\ x2 = cols.last
        /\ a1 = Region(q).y1 /\ a2 = Region(q).y2 /\ b1 = Region(q).x1 /\ b2 = Region(q).x2
  <2>1. /\ rows.first \in Int /\ rows.last \in Int /\ cols.first \in Int /\ cols.last \in Int
    BY DEF CutTo
  <2>2. /\ Region(q).y1 \in Int /\ Region(q).y2 \in Int /\ Region(q).x1 \in Int /\ Region(q).x2 \in Int
    BY Sizes DEF Region, Placed
  <2> QED  BY <2>1, <2>2
<1>. DEFINE across(a, b) == solveForX(t, <<x, y>>, q, a, b, x1, x2, b1, b2)
            strip(a, b) == FromFrame(t, <<x, y>>, a, b, x1, x2, FALSE)
            part(a, b) == Part(t, <<x, y>>, a, b, x1, x2)
            brings(s, a, b) == Brings(s, t, <<x, y>>, q, part(a, b))
            X == Reuse(t, <<x, y>>, q, rows, cols)
<1>2. SUFFICES brings(X, y1, y2)
  BY <1>1
<1>3. /\ a1 <= a2 /\ b1 <= b2 /\ y1 <= y2 /\ a2 >= y1 /\ a1 <= y2 /\ b2 >= x1 /\ b1 <= x2
  <2>1. EdgeOf(q) \in Nat /\ TileHeight \in Nat \ {0} /\ TileWidth \in Nat \ {0}
    BY Sizes
  <2> QED  BY <1>1, <2>1 DEF Region, CutTo, Overlap, Placed
<1>4. \A a, b \in Int : a1 <= a /\ b <= a2 => brings(across(a, b), a, b)
  BY <1>1, <1>3, AcrossBrings
<1>5. \A a, b \in Int : brings(<<strip(a, b)>>, a, b)
  BY FrameCopyBrings, OneBrings
<1>17. \A a, b \in Int : strip(a, b) \in Faithful(t, <<x, y>>, q) /\ part(a, b) \subseteq Carried(strip(a, b))
  BY FrameCopyBrings
<1>6. \A a, b, c, e \in Int : c <= b + 1 => part(a, e) \subseteq part(a, b) \cup part(c, e)
  BY PartsJoin
<1>7. \A a, e, b, c \in Int : c <= b + 1 => part(a, e) \subseteq part(c, e) \cup part(a, b)
  BY <1>6
<1>11. PICK a3 \in Int : a3 = a1 - 1 /\ a1 <= a3 + 1
  OBVIOUS
<1>12. PICK a4 \in Int : a4 = a2 + 1 /\ a4 <= a2 + 1
  OBVIOUS
<1>. DEFINE S1 == <<strip(a4, y2)>> \o across(y1, a2)
            S2 == <<strip(y1, a1), strip(a4, y2)>> \o across(a1, a2)
            S3 == <<strip(y1, a3)>> \o across(a1, y2)
            S4 == across(y1, y2)
<1>8. /\ a1 <= y1 /\ a2 < y2 => X = S1
      /\ y1 < a1 /\ a2 < y2 => X = S2
      /\ y1 < a1 /\ y2 <= a2 => X = S3
      /\ a1 <= y1 /\ y2 <= a2 => X = S4
  <2>1. /\ y1 = rows.first /\ y2 = rows.last /\ x1 = cols.first /\ x2 = cols.last
        /\ a1 = Region(q).y1 /\ a2 = Region(q).y2 /\ b1 = Region(q).x1 /\ b2 = Region(q).x2
    BY <1>1
  <2>2. X = CASE a1 <= y1 /\ a2 < y2 -> <<strip(a2 + 1, y2)>> \o across(y1, a2)
              [] y1 < a1 /\ a2 < y2 -> <<strip(y1, a1), strip(a2 + 1, y2)>> \o across(a1, a2)
              [] y1 < a1 /\ y2 <= a2 -> <<strip(y1, a1 - 1)>> \o across(a1, y2)
              [] a1 <= y1 /\ y2 <= a2 -> across(y1, y2)
    BY <2>1, Zenon DEF Reuse
  <2>. HIDE DEF X, across, strip
  <2>3. /\ a1 <= y1 /\ a2 < y2 => ~(y1 < a1) /\ ~(y2 <= a2)
        /\ y1 < a1 /\ a2 < y2 => ~(a1 <= y1) /\ ~(y2 <= a2)
        /\ y1 < a1 /\ y2 <= a2 => ~(a1 <= y1) /\ ~(a2 < y2)
        /\ a1 <= y1 /\ y2 <= a2 => ~(y1 < a1) /\ ~(a2 < y2)
    OBVIOUS
  <2> QED  BY <1>11, <1>12, <2>2, <2>3, Zenon
<1>. HIDE DEF X, across, strip, S1, S2, S3, S4, part
<1>9. /\ \A s1, s2 : \A a, b, c, e \in Int : brings(s1, a, b) /\ brings(s2, c, e) /\ c <= b + 1 => brings(s1 \o s2, a, e)
      /\ \A s1, s2 : \A a, b, c, e \in Int : brings(s1, c, e) /\ brings(s2, a, b) /\ c <= b + 1 => brings(s1 \o s2, a, e)
  <2>1. ASSUME NEW s1, NEW s2, NEW a \in Int, NEW b \in Int, NEW c \in Int, NEW e \in Int,
               brings(s1, a, b), brings(s2, c, e), c <= b + 1
        PROVE  brings(s1 \o s2, a, e)
    <3>1. part(a, e) \subseteq part(a, b) \cup part(c, e)
      BY <1>6, <2>1
    <3> QED  BY <2>1, <3>1, BothBring
  <2>2. ASSUME NEW s1, NEW s2, NEW a \in Int, NEW b \in Int, NEW c \in Int, NEW e \in Int,
               brings(s1, c, e), brings(s2, a, b), c <= b + 1
        PROVE  brings(s1 \o s2, a, e)
    <3>1. part(a, e) \subseteq part(c, e) \cup part(a, b)
      BY <1>7, <2>2
    <3> QED  BY <2>2, <3>1, BothBring
  <2>. HIDE DEF brings
  <2> QED  BY <2>1, <2>2, Zenon
<1>. HIDE DEF brings
<1>13. CASE a1 <= y1 /\ a2 < y2
  <2>1. X = S1
    BY <1>8, <1>13
  <2>2. brings(across(y1, a2), y1, a2) /\ brings(<<strip(a4, y2)>>, a4, y2)
    BY <1>4, <1>5, <1>13
  <2> QED  BY <1>9, <1>12, <2>1, <2>2, Zenon DEF S1
<1>14. CASE y1 < a1 /\ a2 < y2
  <2>1. X = S2
    BY <1>8, <1>14
  <2>2. strip(y1, a1) \in Faithful(t, <<x, y>>, q) /\ part(y1, a1) \subseteq Carried(strip(y1, a1))
    BY <1>17
  <2>3. strip(a4, y2) \in Faithful(t, <<x, y>>, q) /\ part(a4, y2) \subseteq Carried(strip(a4, y2))
    BY <1>17
  <2>4. Brings(<<strip(y1, a1), strip(a4, y2)>>, t, <<x, y>>, q, part(y1, a1) \cup part(a4, y2))
    BY <2>2, <2>3, FewBring
  <2>5. brings(across(a1, a2), a1, a2)
    BY <1>4
  <2>6. part(y1, y2) \subseteq part(y1, a1) \cup part(a1, y2) /\ part(a1, y2) \subseteq part(a1, a2) \cup part(a4, y2)
    BY <1>6, <1>12
  <2>7. part(y1, y2) \subseteq (part(y1, a1) \cup part(a4, y2)) \cup part(a1, a2)
    BY <2>6
  <2>8. brings(S2, y1, y2)
    BY <2>4, <2>5, <2>7, BothBring, Zenon DEF S2, brings
  <2> QED  BY <2>1, <2>8, Zenon
<1>15. CASE y1 < a1 /\ y2 <= a2
  <2>1. X = S3
    BY <1>8, <1>15
  <2>2. brings(across(a1, y2), a1, y2) /\ brings(<<strip(y1, a3)>>, y1, a3)
    BY <1>4, <1>5, <1>15
  <2> QED  BY <1>9, <1>11, <2>1, <2>2, Zenon DEF S3
<1>16. CASE a1 <= y1 /\ y2 <= a2
  <2>1. X = S4
    BY <1>8, <1>16
  <2> QED  BY <1>4, <1>16, <2>1 DEF S4
<1> QED  BY <1>13, <1>14, <1>15, <1>16

\* So does the copy of one that reuses nothing, whatever it is to interrupt.
LEMMA WholeBrings ==
  ASSUME NEW t \in Tiles, NEW x \in Int, NEW y \in Int, NEW q, NEW rows, NEW cols, CutTo(t, x, y, rows, cols),
         NEW intr \in BOOLEAN
  PROVE  LET part == Part(t, <<x, y>>, rows.first, rows.last, cols.first, cols.last)
             d1 == Whole(t, <<x, y>>, rows, cols)
             d2 == WholeFast(t, <<x, y>>, rows, cols, intr)
         IN  /\ d1 \in Faithful(t, <<x, y>>, q) /\ part \subseteq Carried(d1)
             /\ d2 \in Faithful(t, <<x, y>>, q) /\ part \subseteq Carried(d2)
             /\ Carried(d2) \cap Cells(t) \subseteq part
<1>1. WholeFast(t, <<x, y>>, rows, cols, intr) = FromFrame(t, <<x, y>>, rows.first, rows.last, cols.first, cols.last, intr)
  BY DEF WholeFast, Whole, FromFrame, Copy
<1>2. Whole(t, <<x, y>>, rows, cols) = FromFrame(t, <<x, y>>, rows.first, rows.last, cols.first, cols.last, TRUE)
  BY DEF Whole
<1>3. /\ rows.first \in Int /\ rows.last \in Int /\ cols.first \in Int /\ cols.last \in Int
  BY DEF CutTo
<1>. DEFINE copy(f) == FromFrame(t, <<x, y>>, rows.first, rows.last, cols.first, cols.last, f)
<1>4. ASSUME NEW f \in BOOLEAN
      PROVE  /\ copy(f) \in Faithful(t, <<x, y>>, q)
             /\ Part(t, <<x, y>>, rows.first, rows.last, cols.first, cols.last) \subseteq Carried(copy(f))
             /\ Carried(copy(f)) \cap Cells(t) \subseteq Part(t, <<x, y>>, rows.first, rows.last, cols.first, cols.last)
  BY <1>3, FrameCopyBrings
<1>5. TRUE \in BOOLEAN
  OBVIOUS
<1>. HIDE DEF copy
<1> QED  BY <1>1, <1>2, <1>4, <1>5, Zenon DEF copy

\* What the request has of the frame is what the frame and its pads have of the tile.
LEMMA InnerPart ==
  ASSUME NEW t \in Tiles, NEW x \in Int, NEW y \in Int, NEW p \in Nat
  PROVE  LET rows == Rows(t, <<x, y>>, p)
             cols == Cols(t, <<x, y>>, p)
         IN  InnerAt(t, <<x, y>>, p) = Part(t, <<x, y>>, rows.first, rows.last, cols.first, cols.last)
<1>1. /\ Rows(t, <<x, y>>, p) = Clip(y - EdgeOf(t), (y - EdgeOf(t)) + Height(t) - 1, FrameHeight, p)
      /\ Cols(t, <<x, y>>, p) = Clip(x - EdgeOf(t), (x - EdgeOf(t)) + Width(t) - 1, FrameWidth, p)
  BY TileSizes DEF Rows, Cols
<1>. DEFINE has(k, first, h, n) ==
              \A i \in 0 .. h - 1 : first + i \in FrameAndPads(n, p) <=> first + i \in k.first .. k.last
<1>2. ASSUME NEW first \in Int, NEW h \in Nat \ {0}, NEW n \in Nat \ {0}
      PROVE  has(Clip(first, first + h - 1, n, p), first, h, n)
  <2>1. TAKE i \in 0 .. h - 1
  <2>2. first + h - 1 \in Int /\ first <= first + h - 1 /\ first + i \in first .. first + h - 1
    OBVIOUS
  <2> QED  BY <2>2, CutIsIntersection
<1>3. y - EdgeOf(t) \in Int /\ x - EdgeOf(t) \in Int /\ FrameHeight \in Nat \ {0} /\ FrameWidth \in Nat \ {0}
      /\ Height(t) \in Nat \ {0} /\ Width(t) \in Nat \ {0}
  <2>1. EdgeOf(t) \in Int /\ Height(t) \in Nat \ {0} /\ Width(t) \in Nat \ {0}
    BY TileSizes
  <2>2. FrameHeight \in Nat \ {0} /\ FrameWidth \in Nat \ {0}
    BY Sizes
  <2> QED  BY <2>1, <2>2
<1>. HIDE DEF has
<1>4. /\ has(Rows(t, <<x, y>>, p), y - EdgeOf(t), Height(t), FrameHeight)
      /\ has(Cols(t, <<x, y>>, p), x - EdgeOf(t), Width(t), FrameWidth)
  BY <1>1, <1>2, <1>3, Zenon
<1>5. ASSUME NEW c \in Cells(t)
      PROVE  /\ RowAt(t, <<x, y>>, c[1]) \in FrameAndPads(FrameHeight, p)
                  <=> RowAt(t, <<x, y>>, c[1]) \in Rows(t, <<x, y>>, p).first .. Rows(t, <<x, y>>, p).last
             /\ ColAt(t, <<x, y>>, c[2]) \in FrameAndPads(FrameWidth, p)
                  <=> ColAt(t, <<x, y>>, c[2]) \in Cols(t, <<x, y>>, p).first .. Cols(t, <<x, y>>, p).last
  <2>1. c[1] \in 0 .. Height(t) - 1 /\ c[2] \in 0 .. Width(t) - 1
    BY CellParts
  <2>2. RowAt(t, <<x, y>>, c[1]) = (y - EdgeOf(t)) + c[1] /\ ColAt(t, <<x, y>>, c[2]) = (x - EdgeOf(t)) + c[2]
    BY DEF RowAt, ColAt
  <2> QED  BY <1>4, <2>1, <2>2, Zenon DEF has
<1> QED  BY <1>5 DEF InnerAt, ColumnsAt, Part

-----------------------------------------------------------------------------

\* Copy d takes the right pixel for cell c of t at xy: from the frame, or from one that
\* tile q has filled.
TakesFrom(d, c, t, xy, q, p) ==
  \/ d.from = None /\ Source(d, c) = PixelOf(t, xy, c, p)
  \/ /\ d.from = q /\ q \in Tiles /\ Source(d, c) \in InnerAt(q, pos[q], p)
     /\ PixelOf(q, pos[q], Source(d, c), p) = PixelOf(t, xy, c, p)

\* Or from one of the area that these copies fill, which no later one of them does.
TakesOwn(copies, i, c, t, xy, area, p) ==
  LET s == Source(copies[i], c)
  IN  /\ copies[i].from = t /\ s \in area /\ PixelOf(t, xy, s, p) = PixelOf(t, xy, c, p)
      /\ \A j \in i .. Len(copies) : s \notin Carried(copies[j])

\* Copies that fill an area of tile t with the pixels that belong there.
Fills(copies, t, xy, q, area, p) ==
  /\ copies \in Seq(Descriptors)
  /\ \A i \in DOMAIN copies :
       /\ copies[i].to = t /\ copies[i].from \in {None, q, t}
       /\ \A c \in area : c \in Carried(copies[i])
            => TakesFrom(copies[i], c, t, xy, q, p) \/ TakesOwn(copies, i, c, t, xy, area, p)
  /\ \A c \in area : \E i \in DOMAIN copies : c \in Carried(copies[i])

\* A cell in the frame and its pads shows the pixel where it lies.
LEMMA InnerPixel ==
  ASSUME NEW t \in Tiles, NEW xy, NEW p \in Nat, NEW c \in InnerAt(t, xy, p)
  PROVE  PixelOf(t, xy, c, p) = <<RowAt(t, xy, c[1]), ColAt(t, xy, c[2])>>
<1>1. PICK r, k : r = RowAt(t, xy, c[1]) /\ k = ColAt(t, xy, c[2])
  OBVIOUS
<1>2. r \in FrameAndPads(FrameHeight, p) /\ k \in FrameAndPads(FrameWidth, p)
  BY <1>1 DEF InnerAt, ColumnsAt
<1>3. \A n \in Nat : \A z \in FrameAndPads(n, p) : Clamp(z, -p, n - 1 + p) = z
  BY DEF FrameAndPads, Clamp, Greater, Lesser
<1>4. FrameHeight \in Nat /\ FrameWidth \in Nat
  BY Sizes
<1>5. Clamp(r, -p, FrameHeight - 1 + p) = r /\ Clamp(k, -p, FrameWidth - 1 + p) = k
  BY <1>2, <1>3, <1>4
<1> QED  BY <1>1, <1>5 DEF PixelOf

\* What brings a part fills what the frame and its pads have of the tile.
LEMMA BringsFills ==
  ASSUME NEW t \in Tiles, NEW xy, NEW p \in Nat, NEW q, NEW part, NEW copies,
         Brings(copies, t, xy, q, part), InnerAt(t, xy, p) \subseteq part
  PROVE  Fills(copies, t, xy, q, InnerAt(t, xy, p), p)
<1>1. copies \in Seq(Faithful(t, xy, q)) /\ \A c \in InnerAt(t, xy, p) : \E i \in DOMAIN copies : c \in Carried(copies[i])
  BY DEF Brings
<1>2. ASSUME NEW i \in DOMAIN copies
      PROVE  /\ copies[i].to = t /\ copies[i].from \in {None, q, t}
             /\ \A c \in InnerAt(t, xy, p) : c \in Carried(copies[i]) => TakesFrom(copies[i], c, t, xy, q, p)
  <2>1. copies[i] \in Faithful(t, xy, q)
    BY <1>1
  <2>2. PICK d : d = copies[i]
    OBVIOUS
  <2>3. ASSUME NEW c \in InnerAt(t, xy, p), c \in Carried(d)
        PROVE  TakesFrom(d, c, t, xy, q, p)
    <3>1. SamePlace(d, c, t, xy, q)
      BY <2>1, <2>2, <2>3 DEF Faithful, InnerAt, ColumnsAt
    <3>2. PixelOf(t, xy, c, p) = <<RowAt(t, xy, c[1]), ColAt(t, xy, c[2])>>
      BY <2>3, InnerPixel
    <3>3. PICK s : s = Source(d, c)
      OBVIOUS
    <3>4. CASE d.from = None /\ s = <<RowAt(t, xy, c[1]), ColAt(t, xy, c[2])>>
      BY <3>2, <3>3, <3>4 DEF TakesFrom
    <3>5. CASE /\ d.from = q /\ q \in Tiles /\ s \in Cells(q)
               /\ RowAt(q, pos[q], s[1]) = RowAt(t, xy, c[1]) /\ ColAt(q, pos[q], s[2]) = ColAt(t, xy, c[2])
      <4>1. s \in InnerAt(q, pos[q], p)
        BY <2>3, <3>5 DEF InnerAt, ColumnsAt
      <4>2. PixelOf(q, pos[q], s, p) = PixelOf(t, xy, c, p)
        BY <3>2, <3>5, <4>1, InnerPixel
      <4> QED  BY <3>3, <3>5, <4>1, <4>2 DEF TakesFrom
    <3> QED  BY <3>1, <3>3, <3>4, <3>5 DEF SamePlace
  <2> QED  BY <2>1, <2>2, <2>3 DEF Faithful
<1>3. copies \in Seq(Descriptors)
  BY <1>1 DEF Faithful
<1> QED  BY <1>1, <1>2, <1>3 DEF Fills

\* The copies of xvReqTileTransferIn.
LEMMA InFills ==
  ASSUME FrameTyped, NEW t \in Tiles, NEW x \in Int, NEW y \in Int, NEW q \in Tiles \cup {None}, q \in Tiles => Placed(q)
  PROVE  LET p == frame.pad
             rows == Rows(t, <<x, y>>, p)
             cols == Cols(t, <<x, y>>, p)
         IN  ~Nothing(rows) /\ ~Nothing(cols)
               => /\ q \in Tiles /\ Overlap(q, rows, cols)
                       => Fills(Reuse(t, <<x, y>>, q, rows, cols), t, <<x, y>>, q, InnerAt(t, <<x, y>>, p), p)
                  /\ Fills(<<Whole(t, <<x, y>>, rows, cols)>>, t, <<x, y>>, None, InnerAt(t, <<x, y>>, p), p)
<1>. DEFINE p == frame.pad
            rows == Rows(t, <<x, y>>, p)
            cols == Cols(t, <<x, y>>, p)
            part == Part(t, <<x, y>>, rows.first, rows.last, cols.first, cols.last)
<1>1. SUFFICES ASSUME ~Nothing(rows), ~Nothing(cols)
               PROVE  /\ q \in Tiles /\ Overlap(q, rows, cols)
                           => Fills(Reuse(t, <<x, y>>, q, rows, cols), t, <<x, y>>, q, InnerAt(t, <<x, y>>, p), p)
                      /\ Fills(<<Whole(t, <<x, y>>, rows, cols)>>, t, <<x, y>>, None, InnerAt(t, <<x, y>>, p), p)
  OBVIOUS
<1>2. p \in Nat
  BY DEF FrameTyped
<1>3. InnerAt(t, <<x, y>>, p) = part
  BY <1>2, InnerPart
<1>4. CutTo(t, x, y, rows, cols)
  BY <1>1, <1>2, RequestCut
<1>. HIDE DEF p, rows, cols
<1>5. q \in Tiles /\ Overlap(q, rows, cols)
        => Fills(Reuse(t, <<x, y>>, q, rows, cols), t, <<x, y>>, q, InnerAt(t, <<x, y>>, p), p)
  <2>1. SUFFICES ASSUME q \in Tiles, Overlap(q, rows, cols)
                 PROVE  Fills(Reuse(t, <<x, y>>, q, rows, cols), t, <<x, y>>, q, InnerAt(t, <<x, y>>, p), p)
    OBVIOUS
  <2>2. Brings(Reuse(t, <<x, y>>, q, rows, cols), t, <<x, y>>, q, part)
    BY <1>4, <2>1, ReuseBrings
  <2> QED  BY <1>2, <1>3, <2>2, BringsFills
<1>6. Fills(<<Whole(t, <<x, y>>, rows, cols)>>, t, <<x, y>>, None, InnerAt(t, <<x, y>>, p), p)
  <2>1. TRUE \in BOOLEAN
    OBVIOUS
  <2>2. /\ Whole(t, <<x, y>>, rows, cols) \in Faithful(t, <<x, y>>, None)
        /\ part \subseteq Carried(Whole(t, <<x, y>>, rows, cols))
    BY <1>4, <2>1, WholeBrings
  <2>3. Brings(<<Whole(t, <<x, y>>, rows, cols)>>, t, <<x, y>>, None, part)
    BY <2>2, OneBrings
  <2> QED  BY <1>2, <1>3, <2>3, BringsFills
<1> QED  BY <1>5, <1>6

\* Three, one after the other.
LEMMA ThreeInTurn ==
  ASSUME NEW S, NEW a \in S, NEW b \in S, NEW c \in S
  PROVE  LET X == <<a>> \o <<b>> \o <<c>>
         IN  X \in Seq(S) /\ Len(X) = 3 /\ X[1] = a /\ X[2] = b /\ X[3] = c
<1>. DEFINE Y == <<a>> \o <<b>>
            Z == <<c>>
            X == Y \o Z
<1>1. Y \in Seq(S) /\ Z \in Seq(S) /\ Len(Y) = 2 /\ Y[1] = a /\ Y[2] = b /\ Len(Z) = 1 /\ Z[1] = c
  OBVIOUS
<1>. HIDE DEF Y, Z
<1>2. /\ X \in Seq(S) /\ Len(X) = Len(Y) + Len(Z)
      /\ \A i \in 1 .. Len(Y) : X[i] = Y[i]
      /\ \A i \in 1 .. Len(Z) : X[Len(Y) + i] = Z[i]
  <2>1. Y \in Seq(S) /\ Z \in Seq(S)
    BY <1>1
  <2> QED  BY <2>1
<1>. HIDE DEF X
<1>3. X \in Seq(S) /\ Len(X) = 3 /\ X[1] = a /\ X[2] = b /\ X[3] = c
  BY <1>1, <1>2
<1> QED  BY <1>3 DEF X, Y, Z

\* What a repeated row carries, and from where.
LEMMA RepeatCarries ==
  ASSUME NEW t \in Tiles, NEW row \in Int, NEW toRow \in Int, NEW n \in Int, NEW last \in BOOLEAN
  PROVE  LET d == RepeatRow(t, row, toRow, n, last)
         IN  /\ d \in Descriptors /\ d.to = t /\ d.from = t
             /\ \A i \in 0 .. Height(t) - 1, k \in 0 .. Width(t) - 1 :
                  /\ <<i, k>> \in Carried(d) <=> toRow <= i /\ i < toRow + n
                  /\ Source(d, <<i, k>>) = <<row, k>>
<1>. DEFINE d == RepeatRow(t, row, toRow, n, last)
<1>1. PICK h, w \in Nat : h = Height(t) /\ w = Width(t)
  BY TileSizes
<1>2. /\ d.to = t /\ d.toRow = toRow /\ d.toCol = 0 /\ d.from = t /\ d.row = row /\ d.col = 0
      /\ d.step = 0 /\ d.rows = n /\ d.cols = w /\ d.mask = 0 .. n - 1
  BY <1>1 DEF RepeatRow, Copy
<1>3. d \in Descriptors
  <2>1. Width(t) \in Int /\ 0 .. n - 1 \in SUBSET Int /\ t \in 0 .. NumTiles
    BY <1>1, Sizes DEF Tiles
  <2> QED  BY <2>1 DEF RepeatRow, Copy, Descriptors
<1>. HIDE DEF d
<1>4. ASSUME NEW i \in 0 .. Height(t) - 1, NEW k \in 0 .. Width(t) - 1
      PROVE  /\ <<i, k>> \in Carried(d) <=> toRow <= i /\ i < toRow + n
             /\ Source(d, <<i, k>>) = <<row, k>>
  <2>1. i \in Int /\ k \in Int /\ 0 <= k /\ k <= w - 1
    BY <1>1
  <2>2. Source(d, <<i, k>>) = <<row, k>>
    <3>1. PICK z \in Int : z = i - toRow
      BY <2>1
    <3>2. d.step * z = 0
      BY <1>2
    <3>3. d.row + d.step * (i - d.toRow) = row
      BY <1>2, <3>1, <3>2
    <3>4. d.col + k - d.toCol = k
      BY <1>2, <2>1
    <3> QED  BY <3>3, <3>4 DEF Source
  <2>3. i - toRow \in 0 .. n - 1 <=> toRow <= i /\ i < toRow + n
    BY <2>1
  <2>4. i \in toRow .. toRow + n - 1 <=> toRow <= i /\ i < toRow + n
    BY <2>1
  <2>5. k \in 0 .. 0 + w - 1
    BY <2>1
  <2> QED  BY <1>2, <2>2, <2>3, <2>4, <2>5 DEF Carried
<1> QED  BY <1>2, <1>3, <1>4 DEF d

\* The copies of the Fast functions: the rows beyond the frame are repeated when the one
\* that they show is there.
LEMMA FastFills ==
  ASSUME NEW t \in Tiles, NEW x \in Int, NEW y \in Int, ~Beyond(t, <<x, y>>), FrameTyped
  PROVE  LET xy == <<x, y>>
         IN  Fills(FastCopies(t, xy, Rows(t, xy, 0), Cols(t, xy, 0)), t, xy, None,
                   IF frame.padding = "edge" THEN ColumnsAt(t, xy, 0) ELSE InnerAt(t, xy, 0), 0)
<1>. DEFINE xy == <<x, y>>
            rows == Rows(t, xy, 0)
            cols == Cols(t, xy, 0)
            X == FastCopies(t, xy, rows, cols)
            A(last) == WholeFast(t, xy, rows, cols, last)
            inner == InnerAt(t, xy, 0)
            area == ColumnsAt(t, xy, 0)
<1>1. ~Nothing(rows) /\ ~Nothing(cols) /\ 0 \in Nat
  BY DEF Beyond
<1>2. PICK h, w \in Nat : h = Height(t) /\ w = Width(t) /\ h > 0 /\ w > 0
  BY TileSizes
<1>3. PICK top, bottom, left, right : top = rows.before /\ bottom = rows.after /\ left = cols.before /\ right = cols.after
  OBVIOUS
<1>4. Lies(t, xy, 0, top, bottom, left, right)
  BY <1>1, <1>3, RequestLies
<1>5. /\ top \in Nat /\ bottom \in Nat /\ left \in Nat /\ right \in Nat
      /\ top + bottom < h /\ left + right < w
  BY <1>2, <1>4 DEF Lies, Margins
<1>6. PICK end, z \in Nat : end = h - bottom /\ z = end - 1 /\ top <= z
  <2>1. h - bottom \in Nat /\ h - bottom - 1 \in Nat /\ top <= h - bottom - 1
    BY <1>5
  <2> QED  BY <2>1
<1>7. ASSUME NEW last \in BOOLEAN
      PROVE  /\ A(last) \in Faithful(t, xy, None) /\ inner \subseteq Carried(A(last))
             /\ Carried(A(last)) \cap Cells(t) \subseteq inner
  <2>1. CutTo(t, x, y, rows, cols)
    <3>1. 0 <= frame.pad
      BY DEF FrameTyped
    <3> QED  BY <1>1, <3>1, RequestCut
  <2>2. InnerAt(t, <<x, y>>, 0) = Part(t, <<x, y>>, rows.first, rows.last, cols.first, cols.last)
    BY <1>1, InnerPart
  <2>3. /\ WholeFast(t, <<x, y>>, rows, cols, last) \in Faithful(t, <<x, y>>, None)
        /\ Part(t, <<x, y>>, rows.first, rows.last, cols.first, cols.last)
             \subseteq Carried(WholeFast(t, <<x, y>>, rows, cols, last))
        /\ Carried(WholeFast(t, <<x, y>>, rows, cols, last)) \cap Cells(t)
             \subseteq Part(t, <<x, y>>, rows.first, rows.last, cols.first, cols.last)
    <3>. HIDE DEF rows, cols
    <3> QED  BY <1>7, <2>1, WholeBrings
  <2> QED  BY <2>2, <2>3, Zenon
<1>8. CASE frame.padding # "edge"
  <2>1. PICK last \in BOOLEAN : X = <<A(last)>>
    <3>. DEFINE only == ~(frame.padding = "edge" /\ rows.before > 0) /\ ~(frame.padding = "edge" /\ rows.after > 0)
                S1 == <<A(only)>>
                S2 == IF frame.padding = "edge" /\ rows.before > 0
                      THEN <<RepeatRow(t, rows.before, 0, rows.before, ~(frame.padding = "edge" /\ rows.after > 0))>> ELSE <<>>
                S3 == IF frame.padding = "edge" /\ rows.after > 0
                      THEN <<RepeatRow(t, Height(t) - rows.after - 1, Height(t) - rows.after, rows.after, TRUE)>> ELSE <<>>
    <3>1. X = S1 \o S2 \o S3
      BY Zenon DEF FastCopies
    <3>2. S2 = <<>> /\ S3 = <<>>
      BY <1>8
    <3>3. only \in BOOLEAN
      OBVIOUS
    <3>. HIDE DEF only, S2, S3, X, A
    <3>4. A(only) \in Descriptors
      BY <1>7, <3>3 DEF Faithful
    <3>5. S1 \in Seq(Descriptors)
      BY <3>4
    <3>. HIDE DEF S1
    <3>6. X = S1
      BY <3>1, <3>2, <3>5
    <3> QED  BY <3>3, <3>6, Zenon DEF S1
  <2>2. Brings(<<A(last)>>, t, xy, None, inner)
    BY <1>7, OneBrings
  <2>3. Fills(<<A(last)>>, t, xy, None, inner, 0)
    BY <1>1, <2>2, BringsFills
  <2> QED  BY <1>8, <2>1, <2>3
<1>9. CASE frame.padding = "edge"
  <2>. DEFINE lastA == ~(top > 0) /\ ~(bottom > 0)
              lastB == ~(bottom > 0)
              a == A(lastA)
              b == RepeatRow(t, top, 0, top, lastB)
              c == RepeatRow(t, z, end, bottom, TRUE)
              S1 == <<a>>
              S2 == IF top > 0 THEN <<b>> ELSE <<>>
              S3 == IF bottom > 0 THEN <<c>> ELSE <<>>
  <2>1. X = S1 \o S2 \o S3
    BY <1>2, <1>3, <1>6, <1>9 DEF FastCopies
  <2>2. lastA \in BOOLEAN /\ lastB \in BOOLEAN /\ TRUE \in BOOLEAN
    OBVIOUS
  <2>. HIDE DEF lastA, lastB, xy, rows, cols
  <2>3. /\ a \in Faithful(t, xy, None) /\ inner \subseteq Carried(a) /\ Carried(a) \cap Cells(t) \subseteq inner
    BY <1>7, <2>2
  <2>4. /\ b \in Descriptors /\ b.to = t /\ b.from = t
        /\ \A i \in 0 .. h - 1, k \in 0 .. w - 1 : (<<i, k>> \in Carried(b) <=> i < top) /\ Source(b, <<i, k>>) = <<top, k>>
    <3>1. PICK zero \in Int : zero = 0
      OBVIOUS
    <3>. DEFINE d == RepeatRow(t, top, zero, top, lastB)
    <3>2. /\ d \in Descriptors /\ d.to = t /\ d.from = t
          /\ \A i \in 0 .. Height(t) - 1, k \in 0 .. Width(t) - 1 :
               /\ <<i, k>> \in Carried(d) <=> zero <= i /\ i < zero + top
               /\ Source(d, <<i, k>>) = <<top, k>>
      BY <1>5, <2>2, RepeatCarries
    <3>3. b = d
      BY <3>1
    <3>. HIDE DEF d, b
    <3> QED  BY <1>2, <1>5, <3>1, <3>2, <3>3
  <2>5. /\ c \in Descriptors /\ c.to = t /\ c.from = t
        /\ \A i \in 0 .. h - 1, k \in 0 .. w - 1 : (<<i, k>> \in Carried(c) <=> end <= i) /\ Source(c, <<i, k>>) = <<z, k>>
    <3>1. /\ c \in Descriptors /\ c.to = t /\ c.from = t
          /\ \A i \in 0 .. Height(t) - 1, k \in 0 .. Width(t) - 1 :
               /\ <<i, k>> \in Carried(c) <=> end <= i /\ i < end + bottom
               /\ Source(c, <<i, k>>) = <<z, k>>
      <4>1. \A f \in BOOLEAN : LET d == RepeatRow(t, z, end, bottom, f)
             IN  /\ d \in Descriptors /\ d.to = t /\ d.from = t
                 /\ \A i \in 0 .. Height(t) - 1, k \in 0 .. Width(t) - 1 :
                      /\ <<i, k>> \in Carried(d) <=> end <= i /\ i < end + bottom
                      /\ Source(d, <<i, k>>) = <<z, k>>
        BY <1>5, RepeatCarries
      <4> QED  BY <2>2, <4>1, Zenon
    <3>. HIDE DEF c
    <3>2. end + bottom = h
      BY <1>5, <1>6
    <3> QED  BY <1>2, <3>1, <3>2
  <2>. HIDE DEF a, b, c, A, X, inner, area
  <2>6. a \in Descriptors /\ a.to = t /\ a.from = None
    BY <2>3 DEF Faithful
  <2>7. /\ X \in Seq(Descriptors) /\ X[1] = a /\ 1 \in DOMAIN X
        /\ \A i \in DOMAIN X : i = 1 \/ (i > 1 /\ top > 0 /\ X[i] = b) \/ (i > 1 /\ bottom > 0 /\ X[i] = c)
        /\ top > 0 => \E i \in DOMAIN X : X[i] = b
        /\ bottom > 0 => \E i \in DOMAIN X : X[i] = c
    <3>1. CASE top > 0 /\ bottom > 0
      <4>1. X = <<a>> \o <<b>> \o <<c>>
        BY <2>1, <3>1
      <4>2. a \in Descriptors /\ b \in Descriptors /\ c \in Descriptors
        BY <2>4, <2>5, <2>6
      <4>5. X \in Seq(Descriptors) /\ Len(X) = 3 /\ X[1] = a /\ X[2] = b /\ X[3] = c
        <5>1. LET Y == <<a>> \o <<b>> \o <<c>>
              IN  Y \in Seq(Descriptors) /\ Len(Y) = 3 /\ Y[1] = a /\ Y[2] = b /\ Y[3] = c
          BY <4>2, ThreeInTurn
        <5> QED  BY <4>1, <5>1, Zenon
      <4> QED  BY <3>1, <4>5
    <3>2. CASE top > 0 /\ ~(bottom > 0)
      <4>1. X = <<a>> \o <<b>> \o <<>>
        BY <2>1, <3>2
      <4>2. X \in Seq(Descriptors) /\ Len(X) = 2 /\ X[1] = a /\ X[2] = b
        BY <2>4, <2>6, <4>1
      <4> QED  BY <3>2, <4>2
    <3>3. CASE ~(top > 0) /\ bottom > 0
      <4>1. X = <<a>> \o <<>> \o <<c>>
        BY <2>1, <3>3
      <4>2. X \in Seq(Descriptors) /\ Len(X) = 2 /\ X[1] = a /\ X[2] = c
        BY <2>5, <2>6, <4>1
      <4> QED  BY <3>3, <4>2
    <3>4. CASE ~(top > 0) /\ ~(bottom > 0)
      <4>1. X = <<a>> \o <<>> \o <<>>
        BY <2>1, <3>4
      <4>2. X \in Seq(Descriptors) /\ Len(X) = 1 /\ X[1] = a
        BY <2>6, <4>1
      <4> QED  BY <3>4, <4>2
    <3> QED  BY <3>1, <3>2, <3>3, <3>4
  <2>8. \A i \in 0 .. h - 1, k \in 0 .. w - 1 :
          /\ <<i, k>> \in area <=> left <= k /\ k < w - right
          /\ <<i, k>> \in inner <=> left <= k /\ k < w - right /\ top <= i /\ i < end
    <3>1. /\ \A i \in 0 .. Height(t) - 1, k \in 0 .. Width(t) - 1 :
               <<i, k>> \in inner <=> left <= k /\ k < Width(t) - right /\ top <= i /\ i < Height(t) - bottom
          /\ \A i \in 0 .. Height(t) - 1, k \in 0 .. Width(t) - 1 :
               <<i, k>> \in area <=> left <= k /\ k < Width(t) - right
      BY <1>4, FilledLies, Zenon DEF inner, area
    <3> QED  BY <1>2, <1>6, <3>1, Zenon
  <2>9. ASSUME NEW i \in 0 .. h - 1, NEW k \in 0 .. w - 1
        PROVE  /\ i < top => PixelOf(t, xy, <<i, k>>, 0) = PixelOf(t, xy, <<top, k>>, 0)
               /\ end <= i => PixelOf(t, xy, <<i, k>>, 0) = PixelOf(t, xy, <<z, k>>, 0)
    <3>1. \A j \in 0 .. h - 1 :
            PixelOf(t, xy, <<j, k>>, 0) = <<RowAt(t, xy, RowNear(t, j, top, bottom)), ColAt(t, xy, ColNear(t, k, left, right))>>
      BY <1>1, <1>2, <1>4, <1>9, PixelAt
    <3>2. \A j \in 0 .. h - 1 : RowNear(t, j, top, bottom) = Clamp(j, top, z)
      <4>1. Height(t) - bottom - 1 = z
        BY <1>2, <1>5, <1>6
      <4> QED  BY <4>1 DEF RowNear
    <3>3. i < top => Clamp(i, top, z) = Clamp(top, top, z)
      BY <1>5, <1>6 DEF Clamp, Greater, Lesser
    <3>4. end <= i => Clamp(i, top, z) = Clamp(z, top, z)
      BY <1>5, <1>6 DEF Clamp, Greater, Lesser
    <3>5. top \in 0 .. h - 1 /\ z \in 0 .. h - 1
      BY <1>5, <1>6
    <3> QED  BY <3>1, <3>2, <3>3, <3>4, <3>5
  <2>10. area \subseteq Cells(t)
    BY DEF area, ColumnsAt
  <2>11. ASSUME NEW e \in area, e \in Carried(a)
         PROVE  TakesFrom(a, e, t, xy, None, 0)
    <3>1. e \in inner /\ SamePlace(a, e, t, xy, None)
      BY <2>3, <2>10, <2>11 DEF Faithful
    <3>2. PixelOf(t, xy, e, 0) = <<RowAt(t, xy, e[1]), ColAt(t, xy, e[2])>>
      BY <1>1, <3>1, InnerPixel DEF inner
    <3> QED  BY <3>1, <3>2, Sizes DEF TakesFrom, SamePlace
  <2>12. ASSUME NEW i \in DOMAIN X, i > 1, top > 0, X[i] = b, NEW e \in area, e \in Carried(b)
         PROVE  TakesOwn(X, i, e, t, xy, area, 0)
    <3>1. PICK m \in 0 .. h - 1, k \in 0 .. w - 1 : e = <<m, k>>
      BY <1>2, <2>10, <2>12, CellParts
    <3>2. m < top /\ Source(b, e) = <<top, k>> /\ top \in 0 .. h - 1
      BY <1>2, <1>5, <2>4, <2>12, <3>1
    <3>3. <<top, k>> \in area
      BY <2>8, <2>12, <3>1, <3>2
    <3>4. <<top, k>> \notin Carried(b) /\ (bottom > 0 => <<top, k>> \notin Carried(c))
      <4>1. <<top, k>> \notin Carried(b)
        BY <1>5, <2>4, <3>2
      <4>2. ~(end <= top)
        BY <1>5, <1>6
      <4> QED  BY <2>5, <3>2, <4>1, <4>2
    <3>5. \A j \in DOMAIN X : j >= i => <<top, k>> \notin Carried(X[j])
      <4>1. \A j \in DOMAIN X : j >= i => X[j] = b \/ (bottom > 0 /\ X[j] = c)
        BY <2>7, <2>12
      <4> QED  BY <3>4, <4>1
    <3>6. PixelOf(t, xy, e, 0) = PixelOf(t, xy, Source(X[i], e), 0)
      BY <2>9, <2>12, <3>1, <3>2
    <3>7. Source(X[i], e) \in area /\ X[i].from = t
      BY <2>4, <2>12, <3>2, <3>3
    <3> QED  BY <2>12, <3>2, <3>5, <3>6, <3>7 DEF TakesOwn
  <2>13. ASSUME NEW i \in DOMAIN X, i > 1, bottom > 0, X[i] = c, NEW e \in area, e \in Carried(c)
         PROVE  TakesOwn(X, i, e, t, xy, area, 0)
    <3>1. PICK m \in 0 .. h - 1, k \in 0 .. w - 1 : e = <<m, k>>
      BY <1>2, <2>10, <2>13, CellParts
    <3>2. end <= m /\ Source(c, e) = <<z, k>> /\ z \in 0 .. h - 1
      BY <1>2, <1>5, <1>6, <2>5, <2>13, <3>1
    <3>3. <<z, k>> \in area
      BY <2>8, <2>13, <3>1, <3>2
    <3>4. <<z, k>> \notin Carried(b) /\ <<z, k>> \notin Carried(c)
      <4>1. ~(z < top) /\ ~(end <= z)
        BY <1>5, <1>6
      <4> QED  BY <2>4, <2>5, <3>2, <4>1
    <3>5. \A j \in DOMAIN X : j >= i => <<z, k>> \notin Carried(X[j])
      <4>1. \A j \in DOMAIN X : j >= i => X[j] = b \/ X[j] = c
        BY <2>7, <2>13
      <4> QED  BY <3>4, <4>1
    <3>6. PixelOf(t, xy, e, 0) = PixelOf(t, xy, Source(X[i], e), 0)
      BY <2>9, <2>13, <3>1, <3>2
    <3>7. Source(X[i], e) \in area /\ X[i].from = t
      BY <2>5, <2>13, <3>2, <3>3
    <3> QED  BY <2>13, <3>2, <3>5, <3>6, <3>7 DEF TakesOwn
  <2>14. ASSUME NEW e \in area
         PROVE  \E i \in DOMAIN X : e \in Carried(X[i])
    <3>1. PICK m \in 0 .. h - 1, k \in 0 .. w - 1 : e = <<m, k>>
      BY <1>2, <2>10, <2>14, CellParts
    <3>2. CASE m < top
      <4>1. e \in Carried(b) /\ top > 0
        BY <1>5, <2>4, <3>1, <3>2
      <4> QED  BY <2>7, <4>1
    <3>3. CASE end <= m
      <4>1. e \in Carried(c) /\ bottom > 0
        BY <1>5, <1>6, <2>5, <3>1, <3>3
      <4> QED  BY <2>7, <4>1
    <3>4. CASE top <= m /\ m < end
      BY <2>3, <2>7, <2>8, <2>14, <3>1, <3>4
    <3> QED  BY <1>5, <3>1, <3>2, <3>3, <3>4
  <2>15. ASSUME NEW i \in DOMAIN X
         PROVE  /\ X[i].to = t /\ X[i].from \in {None, t}
                /\ \A e \in area : e \in Carried(X[i])
                     => TakesFrom(X[i], e, t, xy, None, 0) \/ TakesOwn(X, i, e, t, xy, area, 0)
    <3>1. CASE i = 1
      BY <2>6, <2>7, <2>11, <3>1
    <3>2. CASE i > 1 /\ top > 0 /\ X[i] = b
      BY <2>4, <2>12, <3>2
    <3>3. CASE i > 1 /\ bottom > 0 /\ X[i] = c
      BY <2>5, <2>13, <3>3
    <3> QED  BY <2>7, <3>1, <3>2, <3>3
  <2>16. Fills(X, t, xy, None, area, 0)
    BY <2>7, <2>14, <2>15 DEF Fills
  <2> QED  BY <1>9, <2>16 DEF X, area, xy, rows, cols
<1> QED  BY <1>8, <1>9

-----------------------------------------------------------------------------

\* What is said of a tile that shows a part of the frame: where it lies in the frame with
\* the pads that its request knows, and the pixel that belongs at a cell.
Shown(t) == holds[t] \in {"in", "fast"}
KnownRows(t) == Rows(t, pos[t], PadsKnown(t))
KnownCols(t) == Cols(t, pos[t], PadsKnown(t))
Absent(t) == Nothing(KnownRows(t)) \/ Nothing(KnownCols(t))
Belongs(t, c) == PixelOf(t, pos[t], c, PadsKnown(t))

\* What its copies fill: the rest is padded by the processor.
RowsRepeated(t) == holds[t] = "fast" /\ frame.padding = "edge" /\ ~Absent(t)
Filled(t) == IF RowsRepeated(t) THEN ColumnsAt(t, pos[t], 0) ELSE InnerAt(t, pos[t], PadsKnown(t))

\* The flags that say what is left to pad.
Needs(t) == (Padded(KnownRows(t), KnownCols(t)) \ (IF RowsRepeated(t) THEN {"top", "bottom"} ELSE {}))
              \cup (IF Absent(t) THEN {"dummy"} ELSE {})

\* Every cell that copies fill is right, or has yet to be copied.
Carries(j, t, c) == fifo[j].to = t /\ c \in Carried(fifo[j])
Covered(t) == Shown(t) => \A c \in Filled(t) : data[t][c] = Belongs(t, c) \/ \E j \in DOMAIN fifo : Carries(j, t, c)

\* Copy d, the i-th, takes the right pixel for c: from the frame, or from a cell that is
\* filled when its turn comes.
RightSource(i, d, c) ==
  \/ d.from = None /\ Source(d, c) = Belongs(d.to, c)
  \/ /\ d.from \in Tiles /\ Shown(d.from) /\ Source(d, c) \in Filled(d.from)
     /\ Belongs(d.from, Source(d, c)) = Belongs(d.to, c)
     /\ \A j \in DOMAIN fifo : j >= i => ~Carries(j, d.from, Source(d, c))
RightCopy(i, d) ==
  d.to \in Tiles /\ Shown(d.to) => \A c \in Filled(d.to) : c \in Carried(d) => RightSource(i, d, c)

\* The tile that a copy fills is waited for, and says which other it takes pixels from.
Awaited(i, d) ==
  d.to \in Tiles => /\ i <= dmaIndex[d.to] /\ "ongoing" \in status[d.to] /\ "dummy" \notin status[d.to]
                    /\ d.from \in Tiles \ {d.to} => prev[d.to] = d.from

\* The status says what is left to pad.
StatusRight(t) ==
  /\ Shown(t) /\ status[t] # {} => status[t] \ {"ongoing"} = Needs(t) /\ (holds[t] = "in" => "ongoing" \in status[t])
  /\ RowsRepeated(t) => "fast" \in Requests

\* What the property says of one tile.
Shows(t) == Ready(t) /\ Shown(t) /\ (frame.padding = "edge" => ~Absent(t))
              => \A c \in Cells(t) : data[t][c] = Belongs(t, c)

\* The inductive invariant of the pixels.
DataTyped == DOMAIN data = Tiles /\ \A t \in Tiles : DOMAIN data[t] = Cells(t)
PixelsRight ==
  /\ \A i \in DOMAIN fifo : Awaited(i, fifo[i]) /\ RightCopy(i, fifo[i])
  /\ \A t \in Tiles : Covered(t) /\ StatusRight(t) /\ Shows(t)
PixelsInv == ReuseInv /\ DataTyped /\ (~errorFlag => PixelsRight)

\* The hypotheses of the theorem: no pad of the frame is taken for negative, and one vector
\* store pads a side of a row.
PadsFit ==
  /\ \A p \in FramePads : p < PadSign
  /\ "fast" \in Requests /\ "edge" \in Paddings => \A t \in Tiles : Width(t) - 1 <= Vector

\* All of it says what the property does.
LEMMA ShowsAll ==
  ASSUME ~errorFlag => \A t \in Tiles : Shows(t)
  PROVE  TileShowsFrame
<1>. SUFFICES ASSUME NEW t \in Tiles, Ready(t), holds[t] \in {"in", "fast"}, ~errorFlag,
                     frame.padding = "edge" => ~Nothing(Rows(t, pos[t], PadsKnown(t)))
                                               /\ ~Nothing(Cols(t, pos[t], PadsKnown(t))),
                     NEW c \in Cells(t)
              PROVE  data[t][c] = Pixel(t, c, PadsKnown(t))
  BY DEF TileShowsFrame
<1>1. data[t][c] = Belongs(t, c)
  BY DEF Shows, Shown, Absent, KnownRows, KnownCols
<1> QED  BY <1>1, PixelHere DEF Belongs

\* What is said of a tile depends on its place and kind only.
LEMMA SameTile ==
  ASSUME NEW t, frame' = frame, pos'[t] = pos[t], holds'[t] = holds[t]
  PROVE  /\ Shown(t)' = Shown(t) /\ Filled(t)' = Filled(t) /\ Needs(t)' = Needs(t) /\ Absent(t)' = Absent(t)
         /\ PadsKnown(t)' = PadsKnown(t) /\ RowsRepeated(t)' = RowsRepeated(t)
         /\ \A c : Belongs(t, c)' = Belongs(t, c)
<1>1. PadsKnown(t)' = PadsKnown(t) /\ Shown(t)' = Shown(t)
  BY DEF PadsKnown, Shown
<1>2. KnownRows(t)' = KnownRows(t) /\ KnownCols(t)' = KnownCols(t)
  BY <1>1 DEF KnownRows, KnownCols
<1>3. Absent(t)' = Absent(t)
  BY <1>2 DEF Absent
<1>4. RowsRepeated(t)' = RowsRepeated(t)
  BY <1>3 DEF RowsRepeated
<1>5. Filled(t)' = Filled(t)
  BY <1>1, <1>4 DEF Filled
<1>6. Needs(t)' = Needs(t)
  BY <1>2, <1>3, <1>4 DEF Needs
<1>7. \A c : Belongs(t, c)' = Belongs(t, c)
  BY <1>1 DEF Belongs, PixelOf
<1> QED  BY <1>1, <1>3, <1>4, <1>5, <1>6, <1>7

\* What the copies fill is of the tile.
LEMMA FilledCells == ASSUME NEW t PROVE Filled(t) \subseteq Cells(t)
BY DEF Filled, InnerAt, ColumnsAt

\* The padding is inside the tile's pixels.
LEMMA PaddedTyped ==
  ASSUME NEW t, NEW m, DOMAIN m = Cells(t), NEW flags, NEW p
  PROVE  DOMAIN PadTile(t, m, flags, p) = Cells(t) /\ DOMAIN PadDummy(t, m) = Cells(t)
<1>1. \A n, from, at, k, e : DOMAIN n = Cells(t) => /\ DOMAIN CopyH(n, from, at, k, e) = Cells(t)
                                                   /\ DOMAIN CopyV(n, from, at, k, e) = Cells(t)
  BY Zenon DEF CopyH, CopyV
<1>2. DOMAIN PadDummy(t, m) = Cells(t)
  BY <1>1 DEF PadDummy
<1>3. DOMAIN PadTile(t, m, flags, p) = Cells(t)
  <2>. DEFINE rows == Rows(t, pos[t], p)
              cols == Cols(t, pos[t], p)
              edge == frame.padding = "edge"
              bottom == Height(t) - rows.after
              right == Width(t) - cols.after
              m1 == IF "top" \in flags THEN CopyH(m, rows.before, 0, rows.before, edge) ELSE m
              m2 == IF "bottom" \in flags THEN CopyH(m1, bottom - 1, bottom, rows.after, edge) ELSE m1
              m3 == IF "left" \in flags THEN CopyV(m2, cols.before, 0, cols.before, edge) ELSE m2
              m4 == IF "right" \in flags THEN CopyV(m3, right - 1, right, cols.after, edge) ELSE m3
  <2>0. PadTile(t, m, flags, p) = m4
    BY Zenon DEF PadTile
  <2>. HIDE DEF rows, cols, edge, bottom, right
  <2>1. DOMAIN m1 = Cells(t)
    BY <1>1, Zenon
  <2>. HIDE DEF m1
  <2>2. DOMAIN m2 = Cells(t)
    BY <1>1, <2>1, Zenon
  <2>. HIDE DEF m2
  <2>3. DOMAIN m3 = Cells(t)
    BY <1>1, <2>2, Zenon
  <2>. HIDE DEF m3
  <2>4. DOMAIN m4 = Cells(t)
    BY <1>1, <2>3, Zenon
  <2> QED  BY <2>0, <2>4, Zenon
<1> QED  BY <1>2, <1>3

\* The Fast functions' as well.
LEMMA PaddedFastTyped ==
  ASSUME NEW t, DOMAIN data[t] = Cells(t)
  PROVE  DOMAIN PadEdgesFast(t) = Cells(t) /\ DOMAIN PadEdgesConst(t) = Cells(t)
<1>1. \A n, from, at, k, e : DOMAIN n = Cells(t) => DOMAIN CopyV(n, from, at, k, e) = Cells(t)
  BY Zenon DEF CopyV
<1>2. DOMAIN PadEdgesConst(t) = Cells(t)
  BY PaddedTyped DEF PadEdgesConst
<1>3. DOMAIN PadEdgesFast(t) = Cells(t)
  <2>. DEFINE cols == Cols(t, pos[t], 0)
              left == Lesser(Vector, cols.before)
              right == Lesser(Vector, cols.after)
              m1 == IF "left" \in status[t] THEN CopyV(data[t], cols.before, 0, left, TRUE) ELSE data[t]
              m2 == IF "right" \in status[t]
                    THEN CopyV(m1, Width(t) - cols.after - 1, Width(t) - cols.after, right, TRUE) ELSE m1
  <2>0. PadEdgesFast(t) = m2
    BY Zenon DEF PadEdgesFast
  <2>. HIDE DEF cols, left, right
  <2>1. DOMAIN m1 = Cells(t)
    BY <1>1, Zenon
  <2>. HIDE DEF m1
  <2>2. DOMAIN m2 = Cells(t)
    BY <1>1, <2>1, Zenon
  <2> QED  BY <2>0, <2>2, Zenon
<1> QED  BY <1>2, <1>3

\* Every step keeps the tiles' cells.
LEMMA DataStep == ASSUME TransferTyped, DataTyped, [Next]_vars PROVE DataTyped'
<1>1. ASSUME data' = data PROVE DataTyped'
  BY <1>1 DEF DataTyped
<1>2. ASSUME NEW t, NEW m, t \in Tiles => DOMAIN m = Cells(t), data' = [data EXCEPT ![t] = m] PROVE DataTyped'
  BY <1>2 DEF DataTyped
<1>3. ASSUME NEW t \in Tiles, Work(t) PROVE DataTyped'
  <2>1. data' = [data EXCEPT ![t] = [c \in Cells(t) |-> Old]]
    BY <1>3 DEF Work
  <2> QED  BY <1>2, <2>1
<1>4. ASSUME NEW t \in Tiles, PadEdges(t) PROVE DataTyped'
  <2>1. \/ data' = data \/ data' = [data EXCEPT ![t] = PadEdgesFast(t)]
        \/ data' = [data EXCEPT ![t] = PadEdgesConst(t)]
    BY <1>4 DEF PadEdges
  <2>2. DOMAIN PadEdgesFast(t) = Cells(t) /\ DOMAIN PadEdgesConst(t) = Cells(t)
    BY PaddedFastTyped DEF DataTyped
  <2> QED  BY <1>1, <1>2, <2>1, <2>2
<1>5. ASSUME Dma PROVE DataTyped'
  <2>1. \/ data' = data
        \/ \E t, f : data' = [data EXCEPT ![t] = [c \in Cells(t) |-> f[c]]]
    <3>. DEFINE d == Head(fifo)
                value(c) == IF d.from = None THEN Source(d, c) ELSE data[d.from][Source(d, c)]
                f == [c \in Cells(d.to) |-> IF c \in Carried(d) THEN value(c) ELSE data[d.to][c]]
    <3>1. data' = data \/ data' = [data EXCEPT ![d.to] = [c \in Cells(d.to) |-> IF c \in Carried(d) THEN value(c) ELSE @[c]]]
      BY <1>5 DEF Dma
    <3>2. data' = data \/ d.to \notin DOMAIN data \/ data' = [data EXCEPT ![d.to] = [c \in Cells(d.to) |-> f[c]]]
      BY <3>1
    <3> QED  BY <3>1, <3>2
  <2> QED  BY <1>1, <1>2, <2>1
<1>6. ASSUME NEW t, CheckTileReady(t) PROVE DataTyped'
  <2>1. PICK done : data' = [u \in Tiles |-> IF u \in done THEN Finished(u) ELSE data[u]]
    BY <1>6 DEF CheckTileReady
  <2>2. ASSUME NEW u \in Tiles PROVE DOMAIN Finished(u) = Cells(u)
    BY PaddedTyped DEF Finished, DataTyped
  <2> QED  BY <2>1, <2>2 DEF DataTyped
<1>7. \/ \E t \in Tiles : Work(t) \/ PadEdges(t)
      \/ Dma \/ (\E t : CheckTileReady(t)) \/ data' = data
  <2>1. ASSUME NEW t, NEW xy, NEW q, ReqTileTransferIn(t, xy, q) PROVE data' = data
    BY <2>1 DEF ReqTileTransferIn, Request
  <2>2. ASSUME NEW t, NEW xy, NEW mask, ReqTileTransferInPredicated(t, xy, mask) PROVE data' = data
    BY <2>2 DEF ReqTileTransferInPredicated, Request
  <2>3. ASSUME NEW t, NEW xy, ReqTileTransferInFast(t, xy) PROVE data' = data
    BY <2>3 DEF ReqTileTransferInFast, Request
  <2>4. ASSUME NEW t, NEW xy, NEW mask, NEW kind, TransferOut(kind, t, xy, mask) PROVE data' = data
    BY <2>4 DEF TransferOut, Request
  <2>5. WaitForTileFast => data' = data
    BY DEF WaitForTileFast
  <2>6. UNCHANGED tileVars => data' = data
    BY DEF tileVars
  <2> QED  BY <2>1, <2>2, <2>3, <2>4, <2>5, <2>6, PixelSteps, Zenon
<1> QED  BY <1>1, <1>3, <1>4, <1>5, <1>6, <1>7

\* Nothing is left to copy into a tile that is settled or not waited for: what its copies
\* fill is right.
LEMMA NothingLeft ==
  ASSUME PixelsInv, ~errorFlag, NEW t \in Tiles, "ongoing" \notin status[t] \/ Settled(t)
  PROVE  /\ \A i \in DOMAIN fifo : fifo[i].to # t
         /\ Shown(t) => \A c \in Filled(t) : data[t][c] = Belongs(t, c)
<1>1. \A i \in DOMAIN fifo : Awaited(i, fifo[i]) /\ i > 0
  BY DEF PixelsInv, PixelsRight, ReuseInv, TransferTyped
<1>2. ASSUME NEW i \in DOMAIN fifo, fifo[i].to = t PROVE FALSE
  <2>1. i <= dmaIndex[t] /\ "ongoing" \in status[t] /\ "dummy" \notin status[t]
    BY <1>1, <1>2 DEF Awaited
  <2>2. i \in Nat /\ i > 0
    BY <1>1 DEF PixelsInv, ReuseInv, TransferTyped
  <2>3. dmaIndex[t] # 0
    BY <2>1, <2>2
  <2> QED  BY <2>1, <2>3 DEF Settled
<1>3. Covered(t)
  BY DEF PixelsInv, PixelsRight
<1> QED  BY <1>2, <1>3 DEF Covered, Carries

\* Steps that post and carry out nothing, and keep what copies have filled.
LEMMA PixelsKept ==
  ASSUME PixelsRight, UNCHANGED <<frame, pos, holds, fifo, dmaIndex>>,
         \A t \in Tiles : Shown(t) => \A c \in Filled(t) : data'[t][c] = data[t][c],
         \A i \in DOMAIN fifo : fifo[i].to \in Tiles
           => status'[fifo[i].to] = status[fifo[i].to] /\ prev'[fifo[i].to] = prev[fifo[i].to],
         \A t \in Tiles : StatusRight(t)' /\ Shows(t)'
  PROVE  PixelsRight'
<1>1. ASSUME NEW t
      PROVE  /\ Shown(t)' = Shown(t) /\ Filled(t)' = Filled(t)
             /\ \A c : Belongs(t, c)' = Belongs(t, c)
  BY SameTile
<1>2. \A j, t, c : Carries(j, t, c)' = Carries(j, t, c)
  BY DEF Carries
<1>3. ASSUME NEW i \in DOMAIN fifo
      PROVE  Awaited(i, fifo[i])'
  BY DEF Awaited, PixelsRight
<1>4. ASSUME NEW i \in DOMAIN fifo
      PROVE  RightCopy(i, fifo[i])'
  <2>1. RightCopy(i, fifo[i])
    BY DEF PixelsRight
  <2>2. ASSUME NEW c, RightSource(i, fifo[i], c) PROVE RightSource(i, fifo[i], c)'
    <3>1. PICK d, s : d = fifo[i] /\ s = Source(d, c)
      OBVIOUS
    <3>2. CASE d.from = None /\ s = Belongs(d.to, c)
      BY <1>1, <3>1, <3>2 DEF RightSource
    <3>3. CASE /\ d.from \in Tiles /\ Shown(d.from) /\ s \in Filled(d.from)
               /\ Belongs(d.from, s) = Belongs(d.to, c)
               /\ \A j \in DOMAIN fifo : j >= i => ~Carries(j, d.from, s)
      BY <1>1, <1>2, <3>1, <3>3 DEF RightSource
    <3> QED  BY <2>2, <3>1, <3>2, <3>3 DEF RightSource
  <2> QED  BY <1>1, <2>1, <2>2 DEF RightCopy
<1>5. ASSUME NEW t \in Tiles PROVE Covered(t)'
  <2>1. Covered(t)
    BY DEF PixelsRight
  <2> QED  BY <1>1, <1>2, <2>1 DEF Covered
<1> QED  BY <1>3, <1>4, <1>5 DEF PixelsRight

\* Nothing of a tile changes that its status and pixels depend on.
LEMMA TileKept ==
  ASSUME PixelsRight, NEW t \in Tiles, frame' = frame, pos'[t] = pos[t], holds'[t] = holds[t],
         status'[t] = status[t], data'[t] = data[t]
  PROVE  StatusRight(t)' /\ Shows(t)'
<1>1. StatusRight(t) /\ Shows(t)
  BY DEF PixelsRight
<1>2. /\ Shown(t)' = Shown(t) /\ Needs(t)' = Needs(t) /\ Absent(t)' = Absent(t) /\ RowsRepeated(t)' = RowsRepeated(t)
      /\ \A c : Belongs(t, c)' = Belongs(t, c)
  BY SameTile
<1>3. StatusRight(t)'
  BY <1>1, <1>2 DEF StatusRight
<1>4. Shows(t)'
  BY <1>1, <1>2 DEF Shows, Ready
<1> QED  BY <1>3, <1>4

\* A tile that needs no padding is filled by its copies.
LEMMA NeedsNone ==
  ASSUME TransferTyped, NEW t \in Tiles, Shown(t), Needs(t) = {}
  PROVE  Filled(t) = Cells(t)
<1>1. PICK p \in Nat : p = PadsKnown(t)
  <2>1. PadsKnown(t) \in Nat
    BY TypedFacts DEF PadsKnown, FrameTyped
  <2> QED  BY <2>1
<1>2. PICK x, y \in Int : pos[t] = <<x, y>>
  BY PlaceOfTile
<1>3. ~Absent(t)
  BY DEF Needs
<1>4. PICK top, bottom, left, right :
        /\ top = KnownRows(t).before /\ bottom = KnownRows(t).after
        /\ left = KnownCols(t).before /\ right = KnownCols(t).after
  OBVIOUS
<1>5. Lies(t, pos[t], p, top, bottom, left, right)
  BY <1>1, <1>2, <1>3, <1>4, RequestLies DEF Absent, KnownRows, KnownCols
<1>6. top \in Nat /\ bottom \in Nat /\ left \in Nat /\ right \in Nat
  BY <1>5 DEF Lies, Margins
<1>7. \A s \in Sides : s \in Padded(KnownRows(t), KnownCols(t)) <=>
        CASE s = "top" -> top > 0 [] s = "bottom" -> bottom > 0 [] s = "left" -> left > 0 [] s = "right" -> right > 0
  BY <1>4 DEF Padded
<1>8. /\ left = 0 /\ right = 0
      /\ ~RowsRepeated(t) => top = 0 /\ bottom = 0
  <2>1. \A s \in Sides : s \notin Padded(KnownRows(t), KnownCols(t)) \/ (RowsRepeated(t) /\ s \in {"top", "bottom"})
    BY DEF Needs
  <2>2. "left" \in Sides /\ "right" \in Sides /\ "top" \in Sides /\ "bottom" \in Sides
    BY DEF Sides
  <2>3. ~(left > 0) /\ ~(right > 0)
    BY <1>7, <2>1, <2>2
  <2>4. ~RowsRepeated(t) => ~(top > 0) /\ ~(bottom > 0)
    BY <1>7, <2>1, <2>2
  <2> QED  BY <1>6, <2>3, <2>4
<1>9. PICK h, w \in Nat : h = Height(t) /\ w = Width(t)
  BY TileSizes
<1>10. ASSUME NEW c \in Cells(t) PROVE c \in Filled(t)
  <2>1. PICK i \in 0 .. h - 1, k \in 0 .. w - 1 : c = <<i, k>>
    BY <1>9, CellParts
  <2>2. 0 <= k /\ k < w - 0 /\ 0 <= i /\ i < h - 0
    OBVIOUS
  <2>3. RowsRepeated(t) => c \in ColumnsAt(t, pos[t], p)
    <3>1. left <= k /\ k < Width(t) - right
      BY <1>8, <1>9, <2>2
    <3> QED  BY <1>5, <1>9, <2>1, <3>1, FilledLies
  <2>4. ~RowsRepeated(t) => c \in InnerAt(t, pos[t], p)
    <3>1. ~RowsRepeated(t) => left <= k /\ k < Width(t) - right /\ top <= i /\ i < Height(t) - bottom
      BY <1>8, <1>9, <2>2
    <3> QED  BY <1>5, <1>9, <2>1, <3>1, FilledLies
  <2>5. RowsRepeated(t) => p = 0
    BY <1>1 DEF RowsRepeated, PadsKnown
  <2> QED  BY <1>1, <2>3, <2>4, <2>5 DEF Filled
<1> QED  BY <1>10, FilledCells

\* xvWaitForTileFast and xvSleepForTileFast.
LEMMA PixelsWaitFast ==
  ASSUME PixelsInv, ~errorFlag, WaitForTileFast
  PROVE  PixelsRight'
<1>. DEFINE u == waiter.tile
<1>1. UNCHANGED <<frame, pos, prev, dmaIndex, data, holds, fifo, errorFlag>>
  BY DEF WaitForTileFast
<1>2. \/ status' = status
      \/ dmaIndex[u] = 0 /\ holds[u] \in {"fast", "outFast"} /\ status' = [status EXCEPT ![u] = @ \ {"ongoing"}]
  <2>1. /\ waiter \in [tile : 0 .. NumTiles, sleeps : BOOLEAN, at : {"look", "sleep", "asleep"}]
        /\ waiter # NoCall /\ waiter.at = "look" /\ errorFlag = FALSE
    BY DEF PixelsInv, ReuseInv, TransferTyped, WaitForTileFast
  <2>2. CASE dmaIndex[u] = 0
    BY <2>2 DEF WaitForTileFast, IsFast
  <2>3. CASE dmaIndex[u] # 0
    <3>1. waiter' = [waiter EXCEPT !.at = IF waiter.sleeps THEN "sleep" ELSE "look"]
      BY <2>1, <2>3 DEF WaitForTileFast, Again
    <3>2. waiter' # NoCall
      <4>1. CASE waiter.sleeps
        BY <2>1, <3>1, <4>1 DEF NoCall
      <4>2. CASE ~waiter.sleeps
        <5>1. waiter' = waiter
          BY <2>1, <3>1, <4>2
        <5> QED  BY <2>1, <5>1
      <4> QED  BY <4>1, <4>2
    <3> QED  BY <3>2 DEF WaitForTileFast
  <2> QED  BY <2>2, <2>3
<1>3. status \in [Tiles -> SUBSET Flags] /\ TransferTyped /\ PixelsRight
  BY DEF PixelsInv, ReuseInv, TransferTyped
<1>. HIDE DEF u
<1>4. ASSUME NEW i \in DOMAIN fifo, fifo[i].to \in Tiles
      PROVE  status'[fifo[i].to] = status[fifo[i].to]
  <2>1. CASE status' = status
    BY <2>1
  <2>2. CASE dmaIndex[u] = 0 /\ status' = [status EXCEPT ![u] = @ \ {"ongoing"}]
    <3>1. u \in Tiles => fifo[i].to # u
      BY <2>2, NothingLeft DEF Settled
    <3> QED  BY <1>3, <1>4, <2>2, <3>1
  <2> QED  BY <1>2, <2>1, <2>2
<1>5. ASSUME NEW t \in Tiles
      PROVE  StatusRight(t)' /\ Shows(t)'
  <2>1. CASE status'[t] = status[t]
    BY <1>1, <1>3, <2>1, TileKept
  <2>2. CASE status'[t] # status[t]
    <3>1. t = u /\ dmaIndex[t] = 0 /\ holds[t] \in {"fast", "outFast"} /\ status'[t] = status[t] \ {"ongoing"} /\ status[t] # {}
      BY <1>2, <1>3, <2>2
    <3>2. /\ Shown(t)' = Shown(t) /\ Needs(t)' = Needs(t) /\ Absent(t)' = Absent(t) /\ RowsRepeated(t)' = RowsRepeated(t)
          /\ \A c : Belongs(t, c)' = Belongs(t, c)
      BY <1>1, SameTile
    <3>3. Shown(t) => status'[t] = Needs(t)
      BY <1>3, <3>1 DEF PixelsRight, StatusRight
    <3>4. StatusRight(t)'
      <4>1. Shown(t) => status'[t] \ {"ongoing"} = Needs(t)
        BY <3>1, <3>3
      <4>2. holds'[t] # "in"
        BY <1>1, <3>1
      <4>3. StatusRight(t)
        BY <1>3 DEF PixelsRight
      <4> QED  BY <3>2, <4>1, <4>2, <4>3 DEF StatusRight
    <3>5. Shows(t)'
      <4>1. SUFFICES ASSUME Ready(t)', Shown(t)
                     PROVE  \A c \in Cells(t) : data[t][c] = Belongs(t, c)
        BY <1>1, <3>2 DEF Shows
      <4>2. Filled(t) = Cells(t)
        BY <1>3, <3>3, <4>1, NeedsNone DEF Ready
      <4> QED  BY <3>1, <4>1, <4>2, NothingLeft DEF Settled
    <3> QED  BY <3>4, <3>5
  <2> QED  BY <2>1, <2>2
<1> QED  BY <1>1, <1>3, <1>4, <1>5, PixelsKept

\* Steps that change nothing of this.
LEMMA PixelsRest ==
  ASSUME PixelsRight, UNCHANGED <<frame, tileVars, fifo>>
  PROVE  PixelsRight'
<1>1. UNCHANGED <<frame, pos, holds, fifo, dmaIndex, status, prev, data>>
  BY DEF tileVars
<1>2. \A t \in Tiles : StatusRight(t)' /\ Shows(t)'
  BY <1>1, TileKept
<1> QED  BY <1>1, <1>2, PixelsKept

-----------------------------------------------------------------------------

\* Padding by the processor, of a tile whose rows the copies do not repeat.
LEMMA PadsRight ==
  ASSUME PixelsInv, ~errorFlag, NEW t \in Tiles, Shown(t), status[t] # {}, ~RowsRepeated(t),
         NEW m, m = IF "dummy" \in status[t] THEN PadDummy(t, data[t]) ELSE PadTile(t, data[t], status[t], PadsKnown(t))
  PROVE  /\ \A c \in Filled(t) : m[c] = data[t][c]
         /\ (frame.padding = "edge" => ~Absent(t)) /\ (\A c \in Filled(t) : data[t][c] = Belongs(t, c))
              => \A c \in Cells(t) : m[c] = Belongs(t, c)
<1>1. PICK p \in Nat : p = PadsKnown(t)
  <2>1. PadsKnown(t) \in Nat
    BY TypedFacts DEF PadsKnown, FrameTyped, PixelsInv, ReuseInv
  <2> QED  BY <2>1
<1>2. TransferTyped /\ DOMAIN data[t] = Cells(t) /\ StatusRight(t)
  BY DEF PixelsInv, PixelsRight, ReuseInv, DataTyped
<1>3. Filled(t) = InnerAt(t, pos[t], p) /\ \A c : Belongs(t, c) = Pixel(t, c, p)
  BY <1>1, PixelHere DEF Filled, Belongs
<1>4. KnownRows(t) = Rows(t, pos[t], p) /\ KnownCols(t) = Cols(t, pos[t], p)
  BY <1>1 DEF KnownRows, KnownCols
<1>5. status[t] \ {"ongoing"} = Padded(KnownRows(t), KnownCols(t)) \cup (IF Absent(t) THEN {"dummy"} ELSE {})
  BY <1>2 DEF StatusRight, Needs
<1>6. Padded(KnownRows(t), KnownCols(t)) \subseteq Sides /\ "dummy" \notin Sides /\ "ongoing" \notin Sides
  BY DEF Padded, Sides
<1>7. CASE Absent(t)
  <2>1. m = PadDummy(t, data[t])
    BY <1>5, <1>7
  <2>2. /\ InnerAt(t, pos[t], p) = {}
        /\ frame.padding # "edge" => \A c \in Cells(t) : PadDummy(t, data[t])[c] = Pixel(t, c, p)
    BY <1>2, <1>4, <1>7, PadDummyWhole DEF Absent
  <2> QED  BY <1>3, <1>7, <2>1, <2>2
<1>8. CASE ~Absent(t)
  <2>1. "dummy" \notin status[t] /\ status[t] \cap Sides = Padded(Rows(t, pos[t], p), Cols(t, pos[t], p))
    BY <1>4, <1>5, <1>6, <1>8
  <2>2. m = PadTile(t, data[t], status[t], p)
    BY <1>1, <2>1
  <2>3. ~Nothing(Rows(t, pos[t], p)) /\ ~Nothing(Cols(t, pos[t], p))
    BY <1>4, <1>8 DEF Absent
  <2>4. PadsWhole(t, data[t], m, p, InnerAt(t, pos[t], p))
    BY <1>2, <2>1, <2>2, <2>3, PadTileWhole
  <2> QED  BY <1>3, <2>4 DEF PadsWhole
<1> QED  BY <1>7, <1>8

\* xvPadEdges, of a tile that a Fast function has filled and edge padding.
LEMMA PadsFastRight ==
  ASSUME PixelsInv, PadsFit, ~errorFlag, NEW t \in Tiles, Shown(t), status[t] # {}, RowsRepeated(t)
  PROVE  /\ PadsInRow(t) /\ \A c \in Filled(t) : PadEdgesFast(t)[c] = data[t][c]
         /\ (\A c \in Filled(t) : data[t][c] = Belongs(t, c)) => \A c \in Cells(t) : PadEdgesFast(t)[c] = Belongs(t, c)
<1>1. TransferTyped /\ DOMAIN data[t] = Cells(t) /\ StatusRight(t)
  BY DEF PixelsInv, PixelsRight, ReuseInv, DataTyped
<1>2. /\ holds[t] = "fast" /\ frame.padding = "edge" /\ PadsKnown(t) = 0 /\ "fast" \in Requests
  BY <1>1 DEF RowsRepeated, PadsKnown, StatusRight
<1>3. Width(t) - 1 <= Vector
  <2>1. "edge" \in Paddings
    BY <1>1, <1>2 DEF TransferTyped
  <2> QED  BY <1>2, <2>1 DEF PadsFit
<1>4. /\ Filled(t) = ColumnsAt(t, pos[t], 0) /\ KnownRows(t) = Rows(t, pos[t], 0) /\ KnownCols(t) = Cols(t, pos[t], 0)
      /\ \A c : Belongs(t, c) = Pixel(t, c, 0)
  BY <1>2, PixelHere DEF Filled, Belongs, KnownRows, KnownCols
<1>5. ~Nothing(Rows(t, pos[t], 0)) /\ ~Nothing(Cols(t, pos[t], 0)) /\ ~Absent(t)
  BY <1>4 DEF RowsRepeated, Absent
<1>6. status[t] \cap {"left", "right"} = Padded(Rows(t, pos[t], 0), Cols(t, pos[t], 0)) \cap {"left", "right"}
  <2>1. status[t] \ {"ongoing"} = Padded(Rows(t, pos[t], 0), Cols(t, pos[t], 0)) \ {"top", "bottom"}
    BY <1>1, <1>4, <1>5 DEF StatusRight, Needs
  <2>2. \A s \in {"left", "right"} : s # "ongoing" /\ s # "top" /\ s # "bottom"
    OBVIOUS
  <2> QED  BY <2>1, <2>2
<1>7. PadsWhole(t, data[t], PadEdgesFast(t), 0, ColumnsAt(t, pos[t], 0))
  BY <1>1, <1>2, <1>3, <1>5, <1>6, PadFastWhole
<1>8. PadsInRow(t)
  <2>1. PICK x, y \in Int : pos[t] = <<x, y>>
    BY <1>1, PlaceOfTile
  <2>2. 0 \in Nat
    OBVIOUS
  <2>3. Lies(t, <<x, y>>, 0, Rows(t, <<x, y>>, 0).before, Rows(t, <<x, y>>, 0).after,
             Cols(t, <<x, y>>, 0).before, Cols(t, <<x, y>>, 0).after)
    BY <1>5, <2>1, <2>2, RequestLies
  <2>4. PICK left, right : left = Cols(t, <<x, y>>, 0).before /\ right = Cols(t, <<x, y>>, 0).after
    OBVIOUS
  <2>5. PICK w \in Nat : w = Width(t)
    BY TileSizes
  <2>6. left \in Nat /\ right \in Nat /\ left + right < w
    BY <2>3, <2>4, <2>5 DEF Lies, Margins
  <2>7. left < w /\ right < w
    BY <2>6
  <2> QED  BY <2>1, <2>4, <2>5, <2>7 DEF PadsInRow
<1> QED  BY <1>4, <1>7, <1>8 DEF PadsWhole

\* A tile whose status is cleared and whose pixels are padded.
LEMMA PixelsCleared ==
  ASSUME PixelsInv, ~errorFlag, NEW t \in Tiles, frame' = frame, pos'[t] = pos[t], holds'[t] = holds[t],
         status'[t] = {}, "ongoing" \notin status[t] \/ Settled(t),
         Shown(t) /\ (frame.padding = "edge" => ~Absent(t)) /\ (\A c \in Filled(t) : data[t][c] = Belongs(t, c))
           => \A c \in Cells(t) : data'[t][c] = Belongs(t, c)
  PROVE  StatusRight(t)' /\ Shows(t)'
<1>1. /\ Shown(t)' = Shown(t) /\ Absent(t)' = Absent(t) /\ RowsRepeated(t)' = RowsRepeated(t)
      /\ \A c : Belongs(t, c)' = Belongs(t, c)
  BY SameTile
<1>2. StatusRight(t)'
  <2>1. StatusRight(t)
    BY DEF PixelsInv, PixelsRight
  <2> QED  BY <1>1, <2>1 DEF StatusRight
<1>3. Shows(t)'
  <2>1. SUFFICES ASSUME Shown(t), frame.padding = "edge" => ~Absent(t)
                 PROVE  \A c \in Cells(t) : data'[t][c] = Belongs(t, c)
    BY <1>1 DEF Shows
  <2> QED  BY <2>1, NothingLeft
<1> QED  BY <1>2, <1>3

\* xvPadEdges.
LEMMA PixelsPadEdges ==
  ASSUME PixelsInv, PadsFit, ~errorFlag, NEW t \in Tiles, PadEdges(t)
  PROVE  PixelsRight'
<1>1. /\ UNCHANGED <<frame, pos, prev, dmaIndex, holds, fifo>> /\ "ongoing" \notin status[t] /\ status[t] # {}
      /\ status' = [status EXCEPT ![t] = @ \ (Sides \cup {"dummy"})]
  BY DEF PadEdges
<1>2. status \in [Tiles -> SUBSET Flags] /\ DOMAIN data = Tiles /\ PixelsRight
  BY DEF PixelsInv, ReuseInv, TransferTyped, DataTyped
<1>3. status'[t] = {} /\ \A u \in Tiles \ {t} : status'[u] = status[u]
  BY <1>1, <1>2 DEF Flags
<1>4. \/ frame.padding = "edge" /\ data' = IF PadsInRow(t) THEN [data EXCEPT ![t] = PadEdgesFast(t)] ELSE data
      \/ frame.padding # "edge" /\ data' = [data EXCEPT ![t] = PadEdgesConst(t)]
  BY DEF PadEdges
<1>5. \A u \in Tiles \ {t} : data'[u] = data[u]
  BY <1>2, <1>4
<1>6. /\ Shown(t) => \A c \in Filled(t) : data'[t][c] = data[t][c]
      /\ Shown(t) /\ (frame.padding = "edge" => ~Absent(t)) /\ (\A c \in Filled(t) : data[t][c] = Belongs(t, c))
           => \A c \in Cells(t) : data'[t][c] = Belongs(t, c)
  <2>1. SUFFICES ASSUME Shown(t)
                 PROVE  /\ \A c \in Filled(t) : data'[t][c] = data[t][c]
                        /\ (frame.padding = "edge" => ~Absent(t)) /\ (\A c \in Filled(t) : data[t][c] = Belongs(t, c))
                             => \A c \in Cells(t) : data'[t][c] = Belongs(t, c)
    OBVIOUS
  <2>2. holds[t] = "fast" /\ PadsKnown(t) = 0
    <3>1. StatusRight(t)
      BY <1>2 DEF PixelsRight
    <3>2. holds[t] # "in"
      BY <1>1, <2>1, <3>1 DEF StatusRight
    <3> QED  BY <2>1, <3>2 DEF Shown, PadsKnown
  <2>3. CASE frame.padding # "edge"
    <3>1. ~RowsRepeated(t) /\ data'[t] = PadEdgesConst(t)
      BY <1>2, <1>4, <2>3 DEF RowsRepeated
    <3>2. data'[t] = IF "dummy" \in status[t] THEN PadDummy(t, data[t]) ELSE PadTile(t, data[t], status[t], PadsKnown(t))
      BY <2>2, <3>1 DEF PadEdgesConst
    <3> QED  BY <1>1, <2>1, <3>1, <3>2, PadsRight
  <2>4. CASE RowsRepeated(t)
    <3>1. data'[t] = PadEdgesFast(t)
      BY <1>1, <1>2, <1>4, <2>1, <2>4, PadsFastRight DEF RowsRepeated
    <3> QED  BY <1>1, <2>1, <2>4, <3>1, PadsFastRight
  <2>5. CASE frame.padding = "edge" /\ Absent(t)
    <3>1. PICK p \in Nat : p = PadsKnown(t)
      BY <2>2
    <3>2. InnerAt(t, pos[t], p) = {}
      <4>1. TransferTyped /\ DOMAIN data[t] = Cells(t)
        BY DEF PixelsInv, ReuseInv, DataTyped
      <4> QED  BY <2>5, <3>1, <4>1, PadDummyWhole DEF Absent, KnownRows, KnownCols
    <3>3. Filled(t) = {}
      BY <2>5, <3>1, <3>2 DEF Filled, RowsRepeated
    <3> QED  BY <2>5, <3>3
  <2> QED  BY <2>2, <2>3, <2>4, <2>5 DEF RowsRepeated
<1>7. \A u \in Tiles : StatusRight(u)' /\ Shows(u)'
  <2>1. StatusRight(t)' /\ Shows(t)'
    BY <1>1, <1>3, <1>6, PixelsCleared
  <2>2. \A u \in Tiles \ {t} : StatusRight(u)' /\ Shows(u)'
    BY <1>1, <1>2, <1>3, <1>5, TileKept
  <2> QED  BY <2>1, <2>2
<1>8. \A i \in DOMAIN fifo : fifo[i].to \in Tiles => status'[fifo[i].to] = status[fifo[i].to]
  BY <1>1, <1>3, NothingLeft
<1>9. \A u \in Tiles : Shown(u) => \A c \in Filled(u) : data'[u][c] = data[u][c]
  BY <1>5, <1>6
<1> QED  BY <1>1, <1>2, <1>7, <1>8, <1>9, PixelsKept

\* xvCheckTileReady.
LEMMA PixelsCheck ==
  ASSUME PixelsInv, PadsFit, ~errorFlag, NEW t, CheckTileReady(t), UNCHANGED <<frame, pos, dmaIndex, holds, fifo, errorFlag>>
  PROVE  PixelsRight'
<1>. DEFINE n == DoneCount(t)
            done == {Entry(i) : i \in 0 .. n - 1}
<1>1. /\ data' = [u \in Tiles |-> IF u \in done THEN Finished(u) ELSE data[u]]
      /\ status' = [u \in Tiles |-> IF u \in done THEN {} ELSE status[u]]
      /\ prev' = [u \in Tiles |-> IF u \in done /\ "dummy" \notin status[u] THEN None ELSE prev[u]]
  BY DEF CheckTileReady
<1>2. TransferTyped /\ QueueInv /\ PixelsRight
  BY DEF PixelsInv, ReuseInv
<1>3. \A u \in done : u \in Tiles /\ "ongoing" \in status[u] /\ ~IsFast(u) /\ Settled(u)
  <2>1. n \in 0 .. pending /\ pending \in Nat /\ \A i \in 0 .. n - 1 : Settled(Entry(i))
    BY <1>2, DoneCounted DEF TransferTyped
  <2>2. \A i \in 0 .. n - 1 : i \in 0 .. pending - 1
    BY <2>1
  <2>3. \A i \in 0 .. pending - 1 : Entry(i) \in Busy
    BY <1>2, EntriesBusy
  <2> QED  BY <2>1, <2>2, <2>3 DEF Busy
<1>. HIDE DEF n, done
<1>4. ASSUME NEW u \in Tiles, u \in done
      PROVE  /\ StatusRight(u)' /\ Shows(u)'
             /\ Shown(u) => \A c \in Filled(u) : data'[u][c] = data[u][c]
  <2>1. status[u] # {} /\ Settled(u) /\ ~RowsRepeated(u) /\ (Shown(u) => PadsKnown(u) = frame.pad)
    BY <1>3, <1>4 DEF IsFast, RowsRepeated, Shown, PadsKnown
  <2>2. Pad(frame.pad) = frame.pad
    <3>1. frame.pad \in FramePads
      BY <1>2 DEF TransferTyped
    <3>2. frame.pad \in Nat /\ PadSign \in Nat /\ frame.pad < PadSign
      BY <3>1, TransferAssumption DEF PadsFit
    <3> QED  BY <3>2 DEF Pad
  <2>3. data'[u] = IF "dummy" \in status[u] THEN PadDummy(u, data[u]) ELSE PadTile(u, data[u], status[u], frame.pad)
    BY <1>1, <1>4, <2>2 DEF Finished
  <2>4. Shown(u)
          => /\ \A c \in Filled(u) : data'[u][c] = data[u][c]
             /\ (frame.padding = "edge" => ~Absent(u)) /\ (\A c \in Filled(u) : data[u][c] = Belongs(u, c))
                  => \A c \in Cells(u) : data'[u][c] = Belongs(u, c)
    <3>1. SUFFICES ASSUME Shown(u)
                   PROVE  /\ \A c \in Filled(u) : data'[u][c] = data[u][c]
                          /\ (frame.padding = "edge" => ~Absent(u)) /\ (\A c \in Filled(u) : data[u][c] = Belongs(u, c))
                               => \A c \in Cells(u) : data'[u][c] = Belongs(u, c)
      OBVIOUS
    <3>2. data'[u] = IF "dummy" \in status[u] THEN PadDummy(u, data[u]) ELSE PadTile(u, data[u], status[u], PadsKnown(u))
      BY <2>1, <2>3, <3>1
    <3> QED  BY <2>1, <3>1, <3>2, PadsRight
  <2>5. status'[u] = {}
    BY <1>1, <1>4
  <2> QED  BY <2>1, <2>4, <2>5, PixelsCleared
<1>5. \A u \in Tiles : u \notin done => status'[u] = status[u] /\ data'[u] = data[u] /\ prev'[u] = prev[u]
  BY <1>1
<1>6. ASSUME NEW u \in Tiles, u \notin done
      PROVE  StatusRight(u)' /\ Shows(u)'
  BY <1>2, <1>5, <1>6, TileKept
<1>7. \A i \in DOMAIN fifo : fifo[i].to \in Tiles => fifo[i].to \notin done
  BY <1>3, NothingLeft
<1>8. \A u \in Tiles : Shown(u) => \A c \in Filled(u) : data'[u][c] = data[u][c]
  BY <1>4, <1>5
<1>9. \A i \in DOMAIN fifo : fifo[i].to \in Tiles
        => status'[fifo[i].to] = status[fifo[i].to] /\ prev'[fifo[i].to] = prev[fifo[i].to]
  BY <1>5, <1>7
<1> QED  BY <1>2, <1>4, <1>6, <1>8, <1>9, PixelsKept

-----------------------------------------------------------------------------

\* The first copy is carried out.
LEMMA PixelsDma ==
  ASSUME PixelsInv, ~errorFlag, Dma
  PROVE  PixelsRight'
<1>1. PICK n \in Nat, d \in Descriptors :
        /\ n = Len(fifo) /\ n > 0 /\ d = fifo[1] /\ DOMAIN fifo = 1 .. n /\ 1 \in DOMAIN fifo
        /\ DOMAIN fifo' = 1 .. n - 1 /\ \A i \in 1 .. n - 1 : i + 1 \in 1 .. n /\ fifo'[i] = fifo[i + 1]
  <2>1. fifo \in Seq(Descriptors) /\ fifo # <<>> /\ fifo' = Tail(fifo)
    BY DEF PixelsInv, ReuseInv, TransferTyped, Dma
  <2>2. Len(fifo) \in Nat /\ Len(fifo) > 0 /\ fifo[1] \in Descriptors /\ DOMAIN fifo = 1 .. Len(fifo) /\ 1 \in DOMAIN fifo
    BY <2>1
  <2>3. DOMAIN fifo' = 1 .. Len(fifo) - 1 /\ \A i \in 1 .. Len(fifo) - 1 : i + 1 \in 1 .. Len(fifo) /\ fifo'[i] = fifo[i + 1]
    BY <2>1
  <2>4. PICK n \in Nat : n = Len(fifo)
    BY <2>2, Zenon
  <2>5. PICK d \in Descriptors : d = fifo[1]
    BY <2>2
  <2> QED  BY <2>2, <2>3, <2>4, <2>5, Zenon
<1>2. /\ UNCHANGED <<frame, pos, status, prev, holds>>
      /\ dmaIndex' = [t \in Tiles |-> Greater(0, dmaIndex[t] - 1)] /\ dmaIndex \in [Tiles -> Nat]
  BY DEF Dma, PixelsInv, ReuseInv, TransferTyped
<1>3. PixelsRight /\ DataTyped
  BY DEF PixelsInv
<1>4. ASSUME NEW t
      PROVE  /\ Shown(t)' = Shown(t) /\ Filled(t)' = Filled(t) /\ Needs(t)' = Needs(t) /\ Absent(t)' = Absent(t)
             /\ RowsRepeated(t)' = RowsRepeated(t)
             /\ \A c : Belongs(t, c)' = Belongs(t, c)
  BY <1>2, SameTile
<1>5. ASSUME NEW t \in Tiles
      PROVE  /\ d.to # t => data'[t] = data[t]
             /\ \A c \in Cells(t) : c \notin Carried(d) => data'[t][c] = data[t][c]
             /\ d.to = t => \A c \in Cells(t) : c \in Carried(d) =>
                  data'[t][c] = IF d.from = None THEN Source(d, c) ELSE data[d.from][Source(d, c)]
  <2>. DEFINE value(c) == IF d.from = None THEN Source(d, c) ELSE data[d.from][Source(d, c)]
              f(u) == [c \in Cells(u) |-> IF c \in Carried(d) THEN value(c) ELSE data[u][c]]
  <2>1. d = Head(fifo)
    BY <1>1
  <2>2. data' = IF d.to = None THEN data ELSE [data EXCEPT ![d.to] = f(d.to)]
    BY <2>1 DEF Dma
  <2>3. t # None /\ DOMAIN data = Tiles
    BY <1>3, Sizes DEF DataTyped
  <2>4. CASE d.to = t
    <3>1. data'[t] = f(t)
      BY <2>2, <2>3, <2>4
    <3> QED  BY <2>4, <3>1
  <2>5. CASE d.to # t
    <3>1. data'[t] = data[t]
      BY <2>2, <2>3, <2>5
    <3> QED  BY <2>5, <3>1
  <2> QED  BY <2>4, <2>5
<1>6. ASSUME NEW t \in Tiles, d.to = t, Shown(t), NEW c \in Filled(t), c \in Carried(d)
      PROVE  data'[t][c] = Belongs(t, c)
  <2>1. RightSource(1, d, c)
    BY <1>1, <1>3, <1>6 DEF PixelsRight, RightCopy
  <2>2. data'[t][c] = IF d.from = None THEN Source(d, c) ELSE data[d.from][Source(d, c)]
    BY <1>5, <1>6, FilledCells
  <2>3. PICK s, q : s = Source(d, c) /\ q = d.from
    OBVIOUS
  <2>4. CASE q = None /\ s = Belongs(t, c)
    BY <2>2, <2>3, <2>4
  <2>5. CASE /\ q \in Tiles /\ Shown(q) /\ s \in Filled(q) /\ Belongs(q, s) = Belongs(t, c)
             /\ \A j \in DOMAIN fifo : j >= 1 => ~Carries(j, q, s)
    <3>1. data[q][s] = Belongs(q, s)
      <4>1. Covered(q)
        BY <1>3, <2>5 DEF PixelsRight
      <4>2. \A j \in DOMAIN fifo : j >= 1
        BY <1>1
      <4> QED  BY <2>5, <4>1, <4>2 DEF Covered
    <3>2. q # None
      BY <2>5, Sizes
    <3> QED  BY <2>2, <2>3, <2>5, <3>1, <3>2
  <2> QED  BY <1>6, <2>1, <2>3, <2>4, <2>5 DEF RightSource
<1>7. \A i \in 1 .. n - 1 : \A t, c : Carries(i, t, c)' = Carries(i + 1, t, c)
  BY <1>1 DEF Carries
<1>8. ASSUME NEW i \in DOMAIN fifo'
      PROVE  Awaited(i, fifo[i])'
  <2>1. i \in 1 .. n - 1 /\ i + 1 \in DOMAIN fifo
    BY <1>1
  <2>2. Awaited(i + 1, fifo[i + 1])
    BY <1>3, <2>1 DEF PixelsRight
  <2>3. PICK e : e = fifo[i + 1]
    OBVIOUS
  <2>4. ASSUME e.to \in Tiles PROVE i <= dmaIndex'[e.to]
    <3>1. PICK m \in Nat : m = dmaIndex[e.to]
      BY <1>2, <2>4
    <3>2. i + 1 <= m /\ i \in Nat
      BY <2>1, <2>2, <2>3, <2>4, <3>1 DEF Awaited
    <3>3. i <= Greater(0, m - 1)
      BY <3>2 DEF Greater
    <3> QED  BY <1>2, <2>4, <3>1, <3>3
  <2>5. e = fifo'[i]
    BY <1>1, <2>1, <2>3
  <2>6. /\ e.to \in Tiles => /\ i <= dmaIndex'[e.to] /\ "ongoing" \in status'[e.to] /\ "dummy" \notin status'[e.to]
                             /\ e.from \in Tiles \ {e.to} => prev'[e.to] = e.from
    BY <1>2, <2>2, <2>3, <2>4 DEF Awaited
  <2> QED  BY <2>5, <2>6 DEF Awaited
<1>9. ASSUME NEW i \in DOMAIN fifo'
      PROVE  RightCopy(i, fifo[i])'
  <2>1. i \in 1 .. n - 1 /\ i + 1 \in DOMAIN fifo
    BY <1>1
  <2>2. PICK e : e = fifo[i + 1] /\ e = fifo'[i]
    BY <1>1, <2>1
  <2>3. RightCopy(i + 1, e)
    BY <1>3, <2>1, <2>2 DEF PixelsRight
  <2>4. ASSUME NEW c, RightSource(i + 1, e, c) PROVE RightSource(i, e, c)'
    <3>1. PICK s : s = Source(e, c)
      OBVIOUS
    <3>2. CASE e.from = None /\ s = Belongs(e.to, c)
      BY <1>4, <3>1, <3>2 DEF RightSource
    <3>3. CASE /\ e.from \in Tiles /\ Shown(e.from) /\ s \in Filled(e.from)
               /\ Belongs(e.from, s) = Belongs(e.to, c)
               /\ \A j \in DOMAIN fifo : j >= i + 1 => ~Carries(j, e.from, s)
      <4>1. ASSUME NEW j \in DOMAIN fifo', j >= i PROVE ~Carries(j, e.from, s)'
        <5>1. j \in 1 .. n - 1 /\ j + 1 \in DOMAIN fifo /\ j + 1 >= i + 1
          BY <1>1, <2>1, <4>1
        <5> QED  BY <1>7, <3>3, <5>1
      <4> QED  BY <1>4, <3>1, <3>3, <4>1 DEF RightSource
    <3> QED  BY <2>4, <3>1, <3>2, <3>3 DEF RightSource
  <2>5. RightCopy(i, e)'
    BY <1>4, <2>3, <2>4 DEF RightCopy
  <2> QED  BY <2>2, <2>5
<1>10. ASSUME NEW t \in Tiles
       PROVE  Covered(t)' /\ StatusRight(t)' /\ Shows(t)'
  <2>1. Covered(t) /\ StatusRight(t) /\ Shows(t)
    BY <1>3 DEF PixelsRight
  <2>2. ASSUME Shown(t), NEW c \in Filled(t)
        PROVE  data'[t][c] = Belongs(t, c) \/ \E j \in DOMAIN fifo' : Carries(j, t, c)'
    <3>1. c \in Cells(t)
      BY <2>2, FilledCells
    <3>2. CASE d.to = t /\ c \in Carried(d)
      BY <1>6, <2>2, <3>2
    <3>3. CASE d.to # t \/ c \notin Carried(d)
      <4>1. data'[t][c] = data[t][c]
        BY <1>5, <3>1, <3>3
      <4>2. CASE data[t][c] = Belongs(t, c)
        BY <4>1, <4>2
      <4>3. CASE \E j \in DOMAIN fifo : Carries(j, t, c)
        <5>1. PICK j \in DOMAIN fifo : Carries(j, t, c)
          BY <4>3
        <5>2. j # 1
          BY <1>1, <3>3, <5>1 DEF Carries
        <5>3. PICK k \in 1 .. n - 1 : j = k + 1
          <6>1. j \in 1 .. n
            BY <1>1
          <6>2. j - 1 \in 1 .. n - 1 /\ j = (j - 1) + 1
            BY <5>2, <6>1
          <6> QED  BY <6>2
        <5> QED  BY <1>1, <1>7, <5>1, <5>3
      <4> QED  BY <2>1, <2>2, <4>2, <4>3 DEF Covered
    <3> QED  BY <3>2, <3>3
  <2>3. Covered(t)'
    BY <1>4, <2>2 DEF Covered
  <2>4. StatusRight(t)'
    BY <1>2, <1>4, <2>1 DEF StatusRight
  <2>5. Shows(t)'
    <3>1. CASE status[t] = {}
      <4>1. d.to # t
        BY <1>1, <3>1, NothingLeft
      <4> QED  BY <1>2, <1>4, <1>5, <2>1, <4>1 DEF Shows, Ready
    <3>2. CASE status[t] # {}
      BY <1>2, <3>2 DEF Shows, Ready
    <3> QED  BY <3>1, <3>2
  <2> QED  BY <2>3, <2>4, <2>5
<1> QED  BY <1>8, <1>9, <1>10 DEF PixelsRight

\* The last tile's copies go behind the others.
Behind(copies) ==
  /\ DOMAIN fifo' = 1 .. Len(fifo) + Len(copies)
  /\ \A i \in 1 .. Len(fifo) : fifo'[i] = fifo[i] /\ i \in DOMAIN fifo'
  /\ \A i \in 1 .. Len(copies) : fifo'[Len(fifo) + i] = copies[i] /\ Len(fifo) + i \in DOMAIN fifo'
  /\ \A i \in DOMAIN fifo' : i \in 1 .. Len(fifo) \/ \E k \in 1 .. Len(copies) : i = Len(fifo) + k

\* Sequences of copies are appended so.
LEMMA PostedBehind ==
  ASSUME fifo \in Seq(Descriptors), NEW copies \in Seq(Descriptors), fifo' = fifo \o copies
  PROVE  /\ Behind(copies) /\ DOMAIN fifo = 1 .. Len(fifo) /\ DOMAIN copies = 1 .. Len(copies)
         /\ Len(fifo) \in Nat /\ Len(copies) \in Nat
<1>1. /\ Len(fifo) \in Nat /\ Len(copies) \in Nat
      /\ DOMAIN fifo' = 1 .. Len(fifo) + Len(copies) /\ DOMAIN fifo = 1 .. Len(fifo) /\ DOMAIN copies = 1 .. Len(copies)
  OBVIOUS
<1>2. \A i \in 1 .. Len(fifo) : fifo'[i] = fifo[i]
  OBVIOUS
<1>3. \A i \in 1 .. Len(copies) : fifo'[Len(fifo) + i] = copies[i]
  OBVIOUS
<1>4. PICK n, m \in Nat : n = Len(fifo) /\ m = Len(copies)
  BY <1>1, Zenon
<1>5. /\ \A i \in 1 .. n : i \in 1 .. n + m
      /\ \A i \in 1 .. m : n + i \in 1 .. n + m
      /\ \A i \in 1 .. n + m : i \in 1 .. n \/ \E k \in 1 .. m : i = n + k
  <2>1. ASSUME NEW i \in 1 .. n + m, i \notin 1 .. n PROVE \E k \in 1 .. m : i = n + k
    <3>1. i - n \in 1 .. m /\ i = n + (i - n)
      BY <2>1
    <3> QED  BY <3>1
  <2> QED  BY <2>1
<1>6. DOMAIN fifo' = 1 .. n + m
  BY <1>1, <1>4
<1>7. \A i \in 1 .. Len(fifo) : fifo'[i] = fifo[i] /\ i \in DOMAIN fifo'
  BY <1>2, <1>4, <1>5, <1>6, Zenon
<1>8. \A i \in 1 .. Len(copies) : fifo'[Len(fifo) + i] = copies[i] /\ Len(fifo) + i \in DOMAIN fifo'
  BY <1>3, <1>4, <1>5, <1>6, Zenon
<1>9. \A i \in DOMAIN fifo' : i \in 1 .. Len(fifo) \/ \E k \in 1 .. Len(copies) : i = Len(fifo) + k
  <2>1. SUFFICES ASSUME NEW i \in DOMAIN fifo', i \notin 1 .. Len(fifo)
                 PROVE  \E k \in 1 .. Len(copies) : i = Len(fifo) + k
    OBVIOUS
  <2>2. i \in 1 .. n + m /\ i \notin 1 .. n
    BY <1>4, <1>6, <2>1
  <2>3. PICK k \in 1 .. m : i = n + k
    BY <1>5, <2>2
  <2> QED  BY <1>4, <2>3
<1> QED  BY <1>1, <1>7, <1>8, <1>9, Zenon DEF Behind

\* No copy reads or writes a tile that is ready and free.
LEMMA ReadyUntouched ==
  ASSUME PixelsInv, ~errorFlag, NEW t \in Tiles, status[t] = {}, reuseCount[t] = 0, NEW i \in DOMAIN fifo
  PROVE  /\ fifo[i].to # t
         /\ fifo[i].to \in Tiles => fifo[i].from # t
<1>1. fifo[i].to # t
  BY NothingLeft
<1>2. ASSUME fifo[i].to \in Tiles, fifo[i].from = t PROVE FALSE
  <2>1. prev[fifo[i].to] = t
    BY <1>1, <1>2 DEF PixelsInv, PixelsRight, Awaited
  <2>2. fifo[i].to \in Users(t)
    BY <1>2, <2>1 DEF Users
  <2>3. Cardinality(Users(t)) = 0 /\ IsFiniteSet(Users(t))
    BY UsersFinite DEF PixelsInv, ReuseInv, ReuseCounted, Users
  <2> QED  BY <2>2, <2>3, FS_EmptySet
<1> QED  BY <1>1, <1>2

\* Where the copies of a tile go, and what they need of its state.
IntoTile(copies, t) ==
  \A i \in DOMAIN copies :
    \/ copies[i].to = None
    \/ /\ copies[i].to = t /\ dmaIndex'[t] = Len(fifo) + Len(copies)
       /\ "ongoing" \in status'[t] /\ "dummy" \notin status'[t]
       /\ copies[i].from \in Tiles \ {t} => prev'[t] = copies[i].from

\* They fill what they have to fill, from a tile whose pixels are known if from any.
FillsTile(copies, t) ==
  \E q : /\ q \in Tiles => q # t /\ Shown(q) /\ PadsKnown(q) = PadsKnown(t)'
         /\ Fills(copies, t, pos'[t], q, Filled(t)', PadsKnown(t)')

\* Only t changes.
OnlyTile(t) ==
  /\ frame' = frame
  /\ \A u \in Tiles \ {t} : /\ pos'[u] = pos[u] /\ holds'[u] = holds[u] /\ status'[u] = status[u]
                            /\ dmaIndex'[u] = dmaIndex[u] /\ data'[u] = data[u] /\ prev'[u] = prev[u]

\* A request posts the copies of a tile.
LEMMA PixelsPosted ==
  ASSUME PixelsInv, ~errorFlag, NEW t \in Tiles, status[t] = {}, reuseCount[t] = 0, OnlyTile(t),
         NEW copies \in Seq(Descriptors), fifo' = fifo \o copies, IntoTile(copies, t),
         StatusRight(t)', status'[t] # {} \/ ~Shown(t)', Shown(t)' => FillsTile(copies, t)
  PROVE  PixelsRight'
<1>1. PICK n, k \in Nat :
        /\ n = Len(fifo) /\ k = Len(copies) /\ DOMAIN fifo = 1 .. n /\ DOMAIN copies = 1 .. k
        /\ DOMAIN fifo' = 1 .. n + k
        /\ \A i \in 1 .. n : fifo'[i] = fifo[i] /\ i \in DOMAIN fifo'
        /\ \A i \in 1 .. k : fifo'[n + i] = copies[i] /\ n + i \in DOMAIN fifo'
        /\ \A i \in DOMAIN fifo' : i \in 1 .. n \/ \E m \in 1 .. k : i = n + m
  <2>1. /\ Behind(copies) /\ DOMAIN fifo = 1 .. Len(fifo) /\ DOMAIN copies = 1 .. Len(copies)
        /\ Len(fifo) \in Nat /\ Len(copies) \in Nat
    BY PostedBehind DEF PixelsInv, ReuseInv, TransferTyped
  <2> QED  BY <2>1, Zenon DEF Behind
<1>2. PixelsRight /\ None \notin Tiles
  BY Sizes DEF PixelsInv
<1>3. \A i \in 1 .. n : fifo[i].to # t /\ (fifo[i].to \in Tiles => fifo[i].from # t)
  BY <1>1, ReadyUntouched
<1>4. ASSUME NEW u \in Tiles, u # t
      PROVE  /\ Shown(u)' = Shown(u) /\ Filled(u)' = Filled(u) /\ Needs(u)' = Needs(u) /\ Absent(u)' = Absent(u)
             /\ PadsKnown(u)' = PadsKnown(u)
             /\ \A c : Belongs(u, c)' = Belongs(u, c)
  BY <1>4, SameTile DEF OnlyTile
<1>5. ASSUME NEW u \in Tiles, u # t, NEW c
      PROVE  /\ \A j \in DOMAIN fifo' : Carries(j, u, c)' => j \in 1 .. n /\ Carries(j, u, c)
             /\ \A j \in 1 .. n : Carries(j, u, c) => j \in DOMAIN fifo' /\ Carries(j, u, c)'
  <2>1. ASSUME NEW j \in DOMAIN fifo', Carries(j, u, c)' PROVE j \in 1 .. n /\ Carries(j, u, c)
    <3>1. CASE j \in 1 .. n
      BY <1>1, <2>1, <3>1 DEF Carries
    <3>2. ASSUME NEW m \in 1 .. k, j = n + m PROVE FALSE
      <4>1. copies[m].to = u
        BY <1>1, <2>1, <3>2 DEF Carries
      <4> QED  BY <1>1, <1>2, <1>5, <4>1 DEF IntoTile
    <3> QED  BY <1>1, <3>1, <3>2
  <2> QED  BY <1>1, <2>1 DEF Carries
<1>6. ASSUME NEW i \in 1 .. n
      PROVE  Awaited(i, fifo[i])' /\ RightCopy(i, fifo[i])'
  <2>1. PICK d : d = fifo[i] /\ d = fifo'[i]
    BY <1>1
  <2>2. Awaited(i, d) /\ RightCopy(i, d)
    BY <1>1, <1>2, <2>1 DEF PixelsRight
  <2>3. d.to \in Tiles => d.to # t /\ d.from # t
    BY <1>3, <2>1
  <2>4. Awaited(i, d)'
    BY <2>2, <2>3 DEF Awaited, OnlyTile
  <2>5. ASSUME d.to \in Tiles, NEW c, RightSource(i, d, c) PROVE RightSource(i, d, c)'
    <3>1. PICK s : s = Source(d, c)
      OBVIOUS
    <3>2. CASE d.from = None /\ s = Belongs(d.to, c)
      BY <1>4, <2>3, <2>5, <3>1, <3>2 DEF RightSource
    <3>3. CASE /\ d.from \in Tiles /\ Shown(d.from) /\ s \in Filled(d.from)
               /\ Belongs(d.from, s) = Belongs(d.to, c)
               /\ \A j \in DOMAIN fifo : j >= i => ~Carries(j, d.from, s)
      <4>1. \A j \in DOMAIN fifo' : j >= i => ~Carries(j, d.from, s)'
        BY <1>1, <1>5, <2>3, <2>5, <3>3
      <4>2. /\ Shown(d.from)' /\ s \in Filled(d.from)' /\ Belongs(d.from, s)' = Belongs(d.to, c)'
        BY <1>4, <2>3, <2>5, <3>3
      <4> QED  BY <3>1, <3>3, <4>1, <4>2 DEF RightSource
    <3> QED  BY <2>5, <3>1, <3>2, <3>3 DEF RightSource
  <2>6. RightCopy(i, d)'
    BY <1>4, <2>2, <2>3, <2>5 DEF RightCopy
  <2> QED  BY <2>1, <2>4, <2>6
<1>7. PICK area, xy, p : area = Filled(t)' /\ xy = pos'[t] /\ p = PadsKnown(t)'
  OBVIOUS
<1>8. \A c : Belongs(t, c)' = PixelOf(t, xy, c, p)
  BY <1>7 DEF Belongs, PixelOf, OnlyTile
<1>9. \A c : \A m \in 1 .. k : Carries(n + m, t, c)' <=> copies[m].to = t /\ c \in Carried(copies[m])
  BY <1>1 DEF Carries
<1>10. ASSUME NEW m \in 1 .. k
       PROVE  Awaited(n + m, fifo[n + m])'
  <2>1. PICK d : d = copies[m] /\ d = fifo'[n + m]
    BY <1>1
  <2>2. n + m <= n + k
    OBVIOUS
  <2>3. d.to \in Tiles => /\ n + m <= dmaIndex'[d.to] /\ "ongoing" \in status'[d.to] /\ "dummy" \notin status'[d.to]
                          /\ d.from \in Tiles \ {d.to} => prev'[d.to] = d.from
    BY <1>1, <1>2, <2>1, <2>2 DEF IntoTile
  <2> QED  BY <2>1, <2>3 DEF Awaited
<1>11. ASSUME NEW m \in 1 .. k
       PROVE  RightCopy(n + m, fifo[n + m])'
  <2>1. PICK d : d = copies[m] /\ d = fifo'[n + m]
    BY <1>1
  <2>2. SUFFICES ASSUME d.to \in Tiles, Shown(d.to)', NEW c \in Filled(d.to)', c \in Carried(d)
                 PROVE  RightSource(n + m, d, c)'
    BY <2>1 DEF RightCopy
  <2>3. d.to = t
    <3>1. copies[m].to \in {None, t}
      BY <1>1 DEF IntoTile
    <3> QED  BY <1>2, <2>1, <2>2, <3>1
  <2>4. PICK q : /\ q \in Tiles => q # t /\ Shown(q) /\ PadsKnown(q) = p
                 /\ Fills(copies, t, xy, q, area, p)
    BY <1>7, <2>2, <2>3 DEF FillsTile
  <2>5. TakesFrom(d, c, t, xy, q, p) \/ TakesOwn(copies, m, c, t, xy, area, p)
    BY <1>1, <1>7, <2>1, <2>2, <2>3, <2>4 DEF Fills
  <2>6. PICK s : s = Source(d, c)
    OBVIOUS
  <2>7. CASE d.from = None /\ s = PixelOf(t, xy, c, p)
    BY <1>8, <2>3, <2>6, <2>7 DEF RightSource
  <2>8. CASE d.from = q /\ q \in Tiles /\ s \in InnerAt(q, pos[q], p) /\ PixelOf(q, pos[q], s, p) = PixelOf(t, xy, c, p)
    <3>1. q # t /\ Shown(q) /\ PadsKnown(q) = p
      BY <2>4, <2>8
    <3>2. s \in Filled(q)
      <4>1. RowsRepeated(q) => p = 0
        BY <3>1 DEF RowsRepeated, PadsKnown
      <4>2. InnerAt(q, pos[q], p) \subseteq ColumnsAt(q, pos[q], p)
        BY DEF InnerAt
      <4> QED  BY <2>8, <3>1, <4>1, <4>2 DEF Filled
    <3>3. Belongs(q, s) = PixelOf(t, xy, c, p)
      BY <2>8, <3>1 DEF Belongs
    <3>4. \A j \in DOMAIN fifo' : j >= n + m => ~Carries(j, q, s)'
      <4>1. \A j \in 1 .. n : ~(j >= n + m)
        OBVIOUS
      <4> QED  BY <1>5, <2>8, <3>1, <4>1
    <3>5. Shown(q)' /\ s \in Filled(q)' /\ Belongs(q, s)' = Belongs(t, c)'
      BY <1>4, <1>8, <2>8, <3>1, <3>2, <3>3
    <3> QED  BY <2>3, <2>6, <2>8, <3>4, <3>5 DEF RightSource
  <2>9. CASE /\ d.from = t /\ s \in area /\ PixelOf(t, xy, s, p) = PixelOf(t, xy, c, p)
             /\ \A j \in m .. Len(copies) : s \notin Carried(copies[j])
    <3>1. ASSUME NEW j \in DOMAIN fifo', j >= n + m PROVE ~Carries(j, t, s)'
      <4>1. j \notin 1 .. n
        BY <1>1, <3>1
      <4>2. PICK e \in 1 .. k : j = n + e
        BY <1>1, <4>1
      <4>3. e \in m .. Len(copies)
        BY <1>1, <3>1, <4>2
      <4> QED  BY <1>9, <2>9, <4>2, <4>3
    <3>2. s \in Filled(t)' /\ Belongs(t, s)' = Belongs(t, c)'
      BY <1>7, <1>8, <2>9
    <3> QED  BY <2>2, <2>3, <2>6, <2>9, <3>1, <3>2 DEF RightSource
  <2> QED  BY <2>1, <2>5, <2>6, <2>7, <2>8, <2>9 DEF TakesFrom, TakesOwn
<1>12. ASSUME NEW i \in DOMAIN fifo'
       PROVE  Awaited(i, fifo[i])' /\ RightCopy(i, fifo[i])'
  BY <1>1, <1>6, <1>10, <1>11
<1>13. ASSUME NEW u \in Tiles, u # t
       PROVE  Covered(u)' /\ StatusRight(u)' /\ Shows(u)'
  <2>1. StatusRight(u)' /\ Shows(u)'
    BY <1>2, <1>13, TileKept DEF OnlyTile
  <2>2. Covered(u)
    BY <1>2 DEF PixelsRight
  <2>3. data'[u] = data[u]
    BY <1>13 DEF OnlyTile
  <2>4. ASSUME Shown(u), NEW c \in Filled(u)
        PROVE  data'[u][c] = Belongs(u, c) \/ \E j \in DOMAIN fifo' : Carries(j, u, c)'
    BY <1>1, <1>5, <1>13, <2>2, <2>3, <2>4 DEF Covered
  <2>5. Covered(u)'
    BY <1>4, <1>13, <2>4 DEF Covered
  <2> QED  BY <2>1, <2>5
<1>14. Covered(t)'
  <2>1. SUFFICES ASSUME Shown(t)', NEW c \in Filled(t)'
                 PROVE  \E j \in DOMAIN fifo' : Carries(j, t, c)'
    BY DEF Covered
  <2>2. PICK q : Fills(copies, t, xy, q, area, p)
    BY <1>7, <2>1 DEF FillsTile
  <2>3. PICK m \in 1 .. k : copies[m].to = t /\ c \in Carried(copies[m])
    BY <1>1, <1>7, <2>1, <2>2 DEF Fills
  <2> QED  BY <1>1, <1>9, <2>3
<1>15. Shows(t)'
  BY DEF Shows, Ready
<1> QED  BY <1>12, <1>13, <1>14, <1>15 DEF PixelsRight

\* A tile that is not beyond the frame has a pixel of it.
LEMMA InnerSome ==
  ASSUME NEW t \in Tiles, NEW x \in Int, NEW y \in Int, NEW p \in Nat,
         ~Nothing(Rows(t, <<x, y>>, p)), ~Nothing(Cols(t, <<x, y>>, p))
  PROVE  InnerAt(t, <<x, y>>, p) # {}
<1>1. PICK top, bottom, left, right :
        /\ top = Rows(t, <<x, y>>, p).before /\ bottom = Rows(t, <<x, y>>, p).after
        /\ left = Cols(t, <<x, y>>, p).before /\ right = Cols(t, <<x, y>>, p).after
  OBVIOUS
<1>2. Lies(t, <<x, y>>, p, top, bottom, left, right)
  BY <1>1, RequestLies
<1>3. PICK h, w \in Nat : h = Height(t) /\ w = Width(t)
  BY TileSizes
<1>4. top \in Nat /\ bottom \in Nat /\ left \in Nat /\ right \in Nat /\ top + bottom < h /\ left + right < w
  BY <1>2, <1>3 DEF Lies, Margins
<1>5. /\ top \in 0 .. h - 1 /\ left \in 0 .. w - 1
      /\ left <= left /\ left < w - right /\ top <= top /\ top < h - bottom
  BY <1>4
<1>6. <<top, left>> \in InnerAt(t, <<x, y>>, p)
  BY <1>2, <1>3, <1>5, FilledLies
<1> QED  BY <1>6

\* One that is beyond has none.
LEMMA InnerNone ==
  ASSUME NEW t \in Tiles, NEW x \in Int, NEW y \in Int, NEW p \in Nat,
         Nothing(Rows(t, <<x, y>>, p)) \/ Nothing(Cols(t, <<x, y>>, p))
  PROVE  InnerAt(t, <<x, y>>, p) = {}
<1>1. \A c \in Cells(t) : \/ RowAt(t, <<x, y>>, c[1]) \notin FrameAndPads(FrameHeight, p)
                         \/ ColAt(t, <<x, y>>, c[2]) \notin FrameAndPads(FrameWidth, p)
  BY NoneLies, CellParts
<1> QED  BY <1>1 DEF InnerAt, ColumnsAt

\* What a request of a tile that shows the frame does to the tile.
AskedFor(t, xy, p, copies) ==
  LET rows == Rows(t, xy, p)
      cols == Cols(t, xy, p)
  IN  /\ pos'[t] = xy /\ holds'[t] \in {"in", "fast"} /\ PadsKnown(t)' = p
      /\ fifo' = fifo \o copies
      /\ dmaIndex'[t] = IF copies = <<>> THEN 0 ELSE Len(fifo) + Len(copies)
      /\ status'[t] = (Padded(rows, cols) \ (IF RowsRepeated(t)' THEN {"top", "bottom"} ELSE {}))
                        \cup {"ongoing"} \cup (IF copies = <<>> THEN {"dummy"} ELSE {})
      /\ Nothing(rows) \/ Nothing(cols) => copies = <<>>
      /\ RowsRepeated(t)' => "fast" \in Requests

\* Its pixels are right when its copies fill what they have to fill.
LEMMA PixelsShown ==
  ASSUME PixelsInv, ~errorFlag, NEW t \in Tiles, status[t] = {}, reuseCount[t] = 0, OnlyTile(t),
         NEW x \in Int, NEW y \in Int, NEW p \in Nat, NEW copies, AskedFor(t, <<x, y>>, p, copies),
         ~Nothing(Rows(t, <<x, y>>, p)) /\ ~Nothing(Cols(t, <<x, y>>, p))
           => \E q \in Tiles \cup {None} :
                /\ q \in Tiles => q # t /\ Shown(q) /\ PadsKnown(q) = p /\ (copies # <<>> => prev'[t] = q)
                /\ Fills(copies, t, <<x, y>>, q, Filled(t)', p)
  PROVE  PixelsRight'
<1>1. PICK rows, cols, absent :
        /\ rows = Rows(t, <<x, y>>, p) /\ cols = Cols(t, <<x, y>>, p)
        /\ absent \in BOOLEAN /\ absent = (Nothing(rows) \/ Nothing(cols))
  <2>. DEFINE absent == Nothing(Rows(t, <<x, y>>, p)) \/ Nothing(Cols(t, <<x, y>>, p))
  <2>1. absent \in BOOLEAN
    OBVIOUS
  <2> QED  BY <2>1, Zenon
<1>2. /\ pos'[t] = <<x, y>> /\ holds'[t] \in {"in", "fast"} /\ PadsKnown(t)' = p
      /\ fifo' = fifo \o copies
      /\ dmaIndex'[t] = IF copies = <<>> THEN 0 ELSE Len(fifo) + Len(copies)
      /\ status'[t] = (Padded(rows, cols) \ (IF RowsRepeated(t)' THEN {"top", "bottom"} ELSE {}))
                        \cup {"ongoing"} \cup (IF copies = <<>> THEN {"dummy"} ELSE {})
      /\ absent => copies = <<>>
      /\ RowsRepeated(t)' => "fast" \in Requests
  BY <1>1 DEF AskedFor
<1>3. KnownRows(t)' = rows /\ KnownCols(t)' = cols /\ Absent(t)' = absent
  <2>1. KnownRows(t)' = rows /\ KnownCols(t)' = cols
    BY <1>1, <1>2 DEF KnownRows, KnownCols
  <2> QED  BY <1>1, <2>1 DEF Absent
<1>4. PICK area : area = Filled(t)'
  OBVIOUS
<1>5. absent => area = {}
  <2>1. absent => ~RowsRepeated(t)'
    BY <1>3 DEF RowsRepeated
  <2>2. ~RowsRepeated(t)' => area = InnerAt(t, <<x, y>>, p)
    BY <1>2, <1>4 DEF Filled
  <2>3. absent => InnerAt(t, <<x, y>>, p) = {}
    BY <1>1, InnerNone
  <2> QED  BY <2>1, <2>2, <2>3
<1>6. InnerAt(t, <<x, y>>, p) \subseteq area
  <2>1. RowsRepeated(t)' => p = 0
    BY <1>2 DEF RowsRepeated, PadsKnown
  <2>2. area = IF RowsRepeated(t)' THEN ColumnsAt(t, <<x, y>>, 0) ELSE InnerAt(t, <<x, y>>, p)
    BY <1>2, <1>4 DEF Filled
  <2>3. InnerAt(t, <<x, y>>, p) \subseteq ColumnsAt(t, <<x, y>>, p)
    BY DEF InnerAt
  <2> QED  BY <2>1, <2>2, <2>3
<1>7. PICK q \in Tiles \cup {None} :
        ~absent => /\ q \in Tiles => q # t /\ Shown(q) /\ PadsKnown(q) = p /\ (copies # <<>> => prev'[t] = q)
                   /\ Fills(copies, t, <<x, y>>, q, area, p)
  BY <1>1, <1>4
<1>8. absent <=> copies = <<>>
  <2>1. ASSUME ~absent, copies = <<>> PROVE FALSE
    <3>0. InnerAt(t, <<x, y>>, p) # {}
      <4>1. ~Nothing(Rows(t, <<x, y>>, p)) /\ ~Nothing(Cols(t, <<x, y>>, p))
        BY <1>1, <2>1, Zenon
      <4> QED  BY <4>1, InnerSome
    <3>1. PICK c : c \in InnerAt(t, <<x, y>>, p)
      BY <3>0
    <3>2. \E i \in DOMAIN copies : c \in Carried(copies[i])
      BY <1>6, <1>7, <2>1, <3>1 DEF Fills
    <3> QED  BY <2>1, <3>2
  <2> QED  BY <1>1, <1>2, <2>1
<1>9. copies \in Seq(Descriptors)
  <2>1. absent => copies \in Seq(Descriptors)
    BY <1>2, EmptyTyped, Zenon
  <2> QED  BY <1>1, <1>7, <2>1 DEF Fills
<1>10. "ongoing" \in status'[t] /\ ("dummy" \in status'[t] <=> absent)
  <2>1. "dummy" \notin Padded(rows, cols)
    BY DEF Padded, Sides
  <2> QED  BY <1>1, <1>2, <1>8, <2>1
<1>11. StatusRight(t)'
  <2>1. Needs(t)' = (Padded(rows, cols) \ (IF RowsRepeated(t)' THEN {"top", "bottom"} ELSE {}))
                      \cup (IF absent THEN {"dummy"} ELSE {})
    BY <1>3 DEF Needs
  <2>2. "ongoing" \notin Padded(rows, cols)
    BY DEF Padded, Sides
  <2>3. status'[t] \ {"ongoing"} = Needs(t)'
    <3>1. PICK flags : flags = Padded(rows, cols) \ (IF RowsRepeated(t)' THEN {"top", "bottom"} ELSE {})
      OBVIOUS
    <3>2. "ongoing" \notin flags
      BY <2>2, <3>1
    <3>3. CASE absent
      <4>1. status'[t] = flags \cup {"ongoing"} \cup {"dummy"}
        BY <1>2, <1>8, <3>1, <3>3
      <4>2. Needs(t)' = flags \cup {"dummy"}
        BY <2>1, <3>1, <3>3
      <4> QED  BY <3>2, <4>1, <4>2
    <3>4. CASE ~absent
      <4>1. status'[t] = flags \cup {"ongoing"}
        BY <1>2, <1>8, <3>1, <3>4
      <4>2. Needs(t)' = flags
        BY <2>1, <3>1, <3>4
      <4> QED  BY <3>2, <4>1, <4>2
    <3> QED  BY <3>3, <3>4
  <2> QED  BY <1>2, <1>10, <2>3 DEF StatusRight
<1>12. IntoTile(copies, t)
  <2>1. ASSUME NEW i \in DOMAIN copies
        PROVE  /\ copies[i].to = t /\ dmaIndex'[t] = Len(fifo) + Len(copies)
               /\ "ongoing" \in status'[t] /\ "dummy" \notin status'[t]
               /\ copies[i].from \in Tiles \ {t} => prev'[t] = copies[i].from
    <3>1. copies # <<>>
      BY <2>1
    <3>2. ~absent
      BY <1>8, <3>1
    <3>3. copies[i].to = t /\ copies[i].from \in {None, q, t}
      BY <1>7, <2>1, <3>2 DEF Fills
    <3>4. None \notin Tiles
      BY Sizes
    <3> QED  BY <1>2, <1>7, <1>10, <3>1, <3>2, <3>3, <3>4
  <2> QED  BY <2>1 DEF IntoTile
<1>13. FillsTile(copies, t)
  <2>1. CASE ~absent
    BY <1>2, <1>4, <1>7, <2>1 DEF FillsTile
  <2>2. CASE absent
    <3>1. copies = <<>> /\ area = {} /\ None \notin Tiles
      BY <1>5, <1>8, <2>2, Sizes
    <3>2. DOMAIN copies = {}
      BY <3>1
    <3>3. Fills(copies, t, <<x, y>>, None, area, p)
      BY <1>9, <3>1, <3>2 DEF Fills
    <3> QED  BY <1>2, <1>4, <3>1, <3>3 DEF FillsTile
  <2> QED  BY <1>1, <2>1, <2>2
<1> QED  BY <1>2, <1>9, <1>10, <1>11, <1>12, <1>13, PixelsPosted

-----------------------------------------------------------------------------

\* A request changes its tile only.
LEMMA RequestsOne ==
  ASSUME TransferTyped, NEW t \in Tiles, NEW xy, NEW copies, Requested(t, xy, copies), data' = data,
         \A u \in Tiles \ {t} : status'[u] = status[u] /\ holds'[u] = holds[u] /\ prev'[u] = prev[u]
  PROVE  /\ OnlyTile(t) /\ pos'[t] = xy /\ frame' = frame /\ fifo' = fifo \o copies
         /\ dmaIndex'[t] = IF copies = <<>> THEN 0 ELSE Len(fifo) + Len(copies)
<1>1. \A u \in Tiles \ {t} : pos'[u] = pos[u] /\ dmaIndex'[u] = dmaIndex[u] /\ data'[u] = data[u]
  BY DEF Requested, TransferTyped
<1>2. /\ pos'[t] = xy /\ frame' = frame /\ fifo' = fifo \o copies
      /\ dmaIndex'[t] = IF copies = <<>> THEN 0 ELSE Len(fifo) + Len(copies)
  BY DEF Requested, TransferTyped
<1> QED  BY <1>1, <1>2 DEF OnlyTile

\* A pad that fits is read as it is.
LEMMA PadKept ==
  ASSUME PadsFit, TransferTyped
  PROVE  Pad(frame.pad) = frame.pad /\ frame.pad \in Nat
<1>1. frame.pad \in FramePads /\ FramePads \subseteq Nat
  BY TransferAssumption DEF TransferTyped
<1>2. PadSign \in Nat
  BY TransferAssumption
<1>3. PICK p \in Nat : p = frame.pad /\ p < PadSign
  BY <1>1 DEF PadsFit
<1> QED  BY <1>2, <1>3 DEF Pad

\* xvReqTileTransferIn.
LEMMA PixelsIn ==
  ASSUME PixelsInv, PadsFit, ~errorFlag, NEW t \in Tiles, NEW xy \in Places, NEW q \in Tiles \cup {None},
         ReqTileTransferIn(t, xy, q)
  PROVE  PixelsRight'
<1>1. PICK x, y \in Int : xy = <<x, y>>
  BY PlacesTyped
<1>2. TransferTyped /\ None \notin Tiles /\ prev \in [Tiles -> 0 .. NumTiles]
  BY Sizes DEF PixelsInv, ReuseInv
<1>3. PICK p \in Nat : p = frame.pad /\ p = Pad(frame.pad)
  BY <1>2, PadKept
<1>4. PICK rows, cols : rows = Rows(t, <<x, y>>, p) /\ cols = Cols(t, <<x, y>>, p)
  OBVIOUS
<1>. DEFINE R == Reuse(t, xy, q, rows, cols)
            W == <<Whole(t, xy, rows, cols)>>
            shared == q # None /\ Overlap(q, rows, cols)
            copies == IF Nothing(rows) \/ Nothing(cols) THEN <<>> ELSE IF shared THEN R ELSE W
<1>5. /\ \E kind \in {"in", "reuse"} : Request(kind, t, xy)
      /\ q # None => q # t /\ (holds[q] = "in" \/ (holds[q] = "fast" /\ frame.pad = 0))
      /\ prev' = [prev EXCEPT ![t] = IF shared /\ copies # <<>> THEN q ELSE None]
      /\ Post(t, copies) /\ SetStatus(t, Padded(rows, cols), copies)
      /\ holds' = [holds EXCEPT ![t] = "in"]
  BY <1>1, <1>3, <1>4 DEF ReqTileTransferIn
<1>6. /\ Nothing(rows) \/ Nothing(cols) => copies = <<>>
      /\ ~Nothing(rows) /\ ~Nothing(cols) => copies = IF shared THEN R ELSE W
  OBVIOUS
<1>7. FrameTyped /\ (q \in Tiles => Placed(q))
  BY <1>2, TypedFacts
<1>8. ~Nothing(rows) /\ ~Nothing(cols)
        => /\ q \in Tiles /\ Overlap(q, rows, cols) => Fills(R, t, xy, q, InnerAt(t, xy, p), p)
           /\ Fills(W, t, xy, None, InnerAt(t, xy, p), p)
  BY <1>1, <1>3, <1>4, <1>7, InFills
<1>. HIDE DEF copies, R, W
<1>9. Requested(t, xy, copies) /\ data' = data /\ status[t] = {} /\ reuseCount[t] = 0
  BY <1>5 DEF Request, Post, Requested, Ready, waitVars, CheckInputTileFree
<1>10. \A u \in Tiles \ {t} : status'[u] = status[u] /\ holds'[u] = holds[u] /\ prev'[u] = prev[u]
  <2>1. \A u \in Tiles \ {t} : status'[u] = status[u] /\ holds'[u] = holds[u]
    BY <1>2, <1>5 DEF SetStatus, TransferTyped
  <2>2. \A u \in Tiles \ {t} : prev'[u] = prev[u]
    BY <1>2, <1>5
  <2> QED  BY <2>1, <2>2
<1>11. /\ OnlyTile(t) /\ pos'[t] = xy /\ frame' = frame /\ fifo' = fifo \o copies
       /\ dmaIndex'[t] = IF copies = <<>> THEN 0 ELSE Len(fifo) + Len(copies)
  BY <1>2, <1>9, <1>10, RequestsOne
<1>12. holds'[t] = "in" /\ prev'[t] = IF shared /\ copies # <<>> THEN q ELSE None
  BY <1>2, <1>5 DEF TransferTyped
<1>13. PadsKnown(t)' = p /\ ~RowsRepeated(t)'
  BY <1>3, <1>11, <1>12 DEF PadsKnown, RowsRepeated
<1>14. status'[t] = Padded(rows, cols) \cup {"ongoing"} \cup (IF copies = <<>> THEN {"dummy"} ELSE {})
  BY <1>2, <1>5 DEF SetStatus, TransferTyped
<1>15. AskedFor(t, <<x, y>>, p, copies)
  <2>1. status'[t] = (Padded(rows, cols) \ (IF RowsRepeated(t)' THEN {"top", "bottom"} ELSE {}))
                        \cup {"ongoing"} \cup (IF copies = <<>> THEN {"dummy"} ELSE {})
    BY <1>13, <1>14
  <2> QED  BY <1>1, <1>4, <1>6, <1>11, <1>12, <1>13, <2>1 DEF AskedFor
<1>16. Filled(t)' = InnerAt(t, xy, p)
  BY <1>11, <1>13 DEF Filled
<1>17. ASSUME ~Nothing(rows), ~Nothing(cols)
       PROVE  \E z \in Tiles \cup {None} :
                /\ z \in Tiles => z # t /\ Shown(z) /\ PadsKnown(z) = p /\ (copies # <<>> => prev'[t] = z)
                /\ Fills(copies, t, xy, z, Filled(t)', p)
  <2>1. CASE shared
    <3>1. q \in Tiles /\ Fills(copies, t, xy, q, Filled(t)', p)
      BY <1>6, <1>8, <1>16, <1>17, <2>1
    <3>2. q # t /\ Shown(q) /\ PadsKnown(q) = p
      BY <1>3, <1>5, <2>1 DEF Shown, PadsKnown
    <3>3. copies # <<>> => prev'[t] = q
      BY <1>12, <2>1
    <3> QED  BY <3>1, <3>2, <3>3
  <2>2. CASE ~shared
    <3>1. Fills(copies, t, xy, None, Filled(t)', p)
      BY <1>6, <1>8, <1>16, <1>17, <2>2
    <3> QED  BY <1>2, <3>1
  <2> QED  BY <2>1, <2>2
<1> QED  BY <1>1, <1>4, <1>9, <1>11, <1>15, <1>17, PixelsShown

\* xvReqTileTransferInFast.
LEMMA PixelsFast ==
  ASSUME PixelsInv, ~errorFlag, NEW t \in Tiles, NEW xy \in Places, ReqTileTransferInFast(t, xy)
  PROVE  PixelsRight'
<1>1. PICK x, y \in Int : xy = <<x, y>>
  BY PlacesTyped
<1>2. TransferTyped /\ None \notin Tiles
  BY Sizes DEF PixelsInv, ReuseInv
<1>3. PICK p \in Nat : p = 0
  OBVIOUS
<1>4. PICK rows, cols : rows = Rows(t, xy, 0) /\ cols = Cols(t, xy, 0)
  OBVIOUS
<1>. DEFINE C == FastCopies(t, xy, rows, cols)
            copies == IF Beyond(t, xy) THEN <<>> ELSE C
            edge == frame.padding = "edge"
            done == IF copies # <<>> /\ edge THEN {"top", "bottom"} ELSE {}
<1>5. /\ Request(IF Beyond(t, xy) /\ edge THEN "fastBeyond" ELSE "fast", t, xy)
      /\ Post(t, copies) /\ SetStatus(t, Padded(rows, cols) \ done, copies)
      /\ holds' = [holds EXCEPT ![t] = "fast"] /\ prev' = prev
  BY <1>4 DEF ReqTileTransferInFast
<1>6. (Beyond(t, xy) <=> Nothing(rows) \/ Nothing(cols)) /\ (Beyond(t, xy) => copies = <<>>)
  BY <1>4 DEF Beyond
<1>7. ~Beyond(t, xy) => Fills(copies, t, xy, None, IF edge THEN ColumnsAt(t, xy, 0) ELSE InnerAt(t, xy, 0), 0)
  <2>1. FrameTyped
    BY <1>2, TypedFacts
  <2> QED  BY <1>1, <1>4, <2>1, FastFills
<1>8. ~Beyond(t, xy) => "fast" \in Requests
  BY <1>5 DEF Request
<1>. HIDE DEF copies, C
<1>9. Requested(t, xy, copies) /\ data' = data /\ status[t] = {} /\ reuseCount[t] = 0
  BY <1>5 DEF Request, Post, Requested, Ready, waitVars, CheckInputTileFree
<1>10. \A u \in Tiles \ {t} : status'[u] = status[u] /\ holds'[u] = holds[u] /\ prev'[u] = prev[u]
  BY <1>2, <1>5 DEF SetStatus, TransferTyped
<1>11. /\ OnlyTile(t) /\ pos'[t] = xy /\ frame' = frame /\ fifo' = fifo \o copies
       /\ dmaIndex'[t] = IF copies = <<>> THEN 0 ELSE Len(fifo) + Len(copies)
  BY <1>2, <1>9, <1>10, RequestsOne
<1>12. holds'[t] = "fast"
  BY <1>2, <1>5 DEF TransferTyped
<1>13. PadsKnown(t)' = 0 /\ (Absent(t)' <=> Beyond(t, xy))
  <2>1. PadsKnown(t)' = 0
    BY <1>12 DEF PadsKnown
  <2>2. KnownRows(t)' = rows /\ KnownCols(t)' = cols
    BY <1>4, <1>11, <2>1 DEF KnownRows, KnownCols
  <2> QED  BY <1>6, <2>1, <2>2 DEF Absent
<1>14. RowsRepeated(t)' <=> edge /\ ~Beyond(t, xy)
  BY <1>11, <1>12, <1>13 DEF RowsRepeated
<1>15. Filled(t)' = IF edge /\ ~Beyond(t, xy) THEN ColumnsAt(t, xy, 0) ELSE InnerAt(t, xy, 0)
  BY <1>11, <1>13, <1>14 DEF Filled
<1>16. copies # <<>> <=> ~Beyond(t, xy)
  <2>1. ASSUME ~Beyond(t, xy), copies = <<>> PROVE FALSE
    <3>1. InnerAt(t, xy, 0) # {}
      <4>1. ~Nothing(Rows(t, <<x, y>>, p)) /\ ~Nothing(Cols(t, <<x, y>>, p))
        BY <1>1, <1>3, <1>4, <1>6, <2>1
      <4>2. InnerAt(t, <<x, y>>, p) # {}
        BY <4>1, InnerSome
      <4> QED  BY <1>1, <1>3, <4>2
    <3>2. InnerAt(t, xy, 0) \subseteq ColumnsAt(t, xy, 0)
      BY DEF InnerAt
    <3>3. PICK c : c \in (IF edge THEN ColumnsAt(t, xy, 0) ELSE InnerAt(t, xy, 0))
      BY <3>1, <3>2
    <3>4. \E i \in DOMAIN copies : c \in Carried(copies[i])
      BY <1>7, <2>1, <3>3 DEF Fills
    <3> QED  BY <2>1, <3>4
  <2> QED  BY <1>6, <2>1
<1>17. status'[t] = (Padded(rows, cols) \ done) \cup {"ongoing"} \cup (IF copies = <<>> THEN {"dummy"} ELSE {})
  BY <1>2, <1>5 DEF SetStatus, TransferTyped
<1>18. AskedFor(t, <<x, y>>, p, copies)
  <2>1. done = IF RowsRepeated(t)' THEN {"top", "bottom"} ELSE {}
    BY <1>14, <1>16
  <2>2. /\ Nothing(rows) \/ Nothing(cols) => copies = <<>>
        /\ RowsRepeated(t)' => "fast" \in Requests
    BY <1>6, <1>8, <1>14
  <2>. HIDE DEF done
  <2>3. status'[t] = (Padded(rows, cols) \ (IF RowsRepeated(t)' THEN {"top", "bottom"} ELSE {}))
                        \cup {"ongoing"} \cup (IF copies = <<>> THEN {"dummy"} ELSE {})
    BY <1>17, <2>1
  <2> QED  BY <1>1, <1>3, <1>4, <1>11, <1>12, <1>13, <2>2, <2>3 DEF AskedFor
<1>19. ~Nothing(rows) /\ ~Nothing(cols) => Fills(copies, t, xy, None, Filled(t)', p)
  BY <1>3, <1>6, <1>7, <1>15
<1>20. ~Nothing(rows) /\ ~Nothing(cols) =>
         \E z \in Tiles \cup {None} :
                /\ z \in Tiles => z # t /\ Shown(z) /\ PadsKnown(z) = p /\ (copies # <<>> => prev'[t] = z)
                /\ Fills(copies, t, xy, z, Filled(t)', p)
  BY <1>2, <1>19
<1> QED  BY <1>1, <1>3, <1>4, <1>9, <1>11, <1>18, <1>20, PixelsShown

\* Copies that fill no tile that shows the frame.
LEMMA PixelsElse ==
  ASSUME PixelsInv, ~errorFlag, NEW t \in Tiles, status[t] = {}, reuseCount[t] = 0, OnlyTile(t),
         NEW copies \in Seq(Descriptors), fifo' = fifo \o copies, IntoTile(copies, t), ~Shown(t)'
  PROVE  PixelsRight'
<1>1. StatusRight(t)'
  BY DEF StatusRight, RowsRepeated, Shown
<1> QED  BY <1>1, PixelsPosted

\* xvReqTileTransferInPredicated.
LEMMA PixelsPredicated ==
  ASSUME PixelsInv, ~errorFlag, NEW t \in Tiles, NEW xy \in Places, NEW mask \in Masks,
         ReqTileTransferInPredicated(t, xy, mask)
  PROVE  PixelsRight'
<1>1. PICK x, y \in Int : xy = <<x, y>>
  BY PlacesTyped
<1>2. TransferTyped /\ None \notin Tiles
  BY Sizes DEF PixelsInv, ReuseInv
<1>3. PICK p \in Int : p = Pad(frame.pad) /\ p <= frame.pad
  BY <1>2, TypedFacts
<1>. DEFINE rows == Rows(t, <<x, y>>, p)
            cols == Cols(t, <<x, y>>, p)
            W == Whole(t, <<x, y>>, rows, cols)
            M == [W EXCEPT !.mask = W.mask \cap mask]
            copies == IF Nothing(rows) \/ Nothing(cols) THEN <<>> ELSE <<M>>
<1>4. ~Nothing(rows) /\ ~Nothing(cols) => M \in Inward
  <2>1. ~Nothing(rows) /\ ~Nothing(cols) => W \in Inward
    BY <1>2, <1>3, RequestCut, WholeSound, TypedFacts
  <2>2. W.mask \cap mask \subseteq Int
    BY MasksTyped
  <2>. HIDE DEF W, rows, cols
  <2> QED  BY <2>1, <2>2, InwardExcept
<1>5. M.to = t /\ M.from = None
  BY DEF Whole, FromFrame, Copy
<1>6. copies \in Seq(Inward) /\ \A i \in DOMAIN copies : copies[i] = M /\ copies # <<>>
  <2>. HIDE DEF M, rows, cols
  <2> QED  BY <1>4
<1>7. /\ Request("predicated", t, xy)
      /\ Post(t, copies) /\ SetStatus(t, {}, copies)
      /\ prev' = [prev EXCEPT ![t] = None]
      /\ holds' = [holds EXCEPT ![t] = "predicated"]
  BY <1>1, <1>3 DEF ReqTileTransferInPredicated
<1>. HIDE DEF copies, M
<1>8. Requested(t, xy, copies) /\ data' = data /\ status[t] = {} /\ reuseCount[t] = 0
  BY <1>7 DEF Request, Post, Requested, Ready, waitVars, CheckInputTileFree
<1>9. \A u \in Tiles \ {t} : status'[u] = status[u] /\ holds'[u] = holds[u] /\ prev'[u] = prev[u]
  BY <1>2, <1>7 DEF SetStatus, TransferTyped, PixelsInv, ReuseInv
<1>10. /\ OnlyTile(t) /\ fifo' = fifo \o copies
       /\ dmaIndex'[t] = IF copies = <<>> THEN 0 ELSE Len(fifo) + Len(copies)
  BY <1>2, <1>8, <1>9, RequestsOne
<1>11. ~Shown(t)'
  BY <1>2, <1>7 DEF TransferTyped, Shown
<1>12. copies # <<>> => status'[t] = {"ongoing"}
  BY <1>2, <1>7 DEF SetStatus, TransferTyped
<1>13. IntoTile(copies, t)
  BY <1>2, <1>5, <1>6, <1>10, <1>12 DEF IntoTile
<1>14. copies \in Seq(Descriptors)
  BY <1>6, SoundTyped
<1> QED  BY <1>8, <1>10, <1>11, <1>13, <1>14, PixelsElse

\* The three requests to write out a tile.
LEMMA PixelsOut ==
  ASSUME PixelsInv, ~errorFlag, NEW t \in Tiles, NEW xy \in Places, NEW mask \in SUBSET Int,
         NEW kind \in {"out", "outPredicated", "outFast"}, TransferOut(kind, t, xy, mask)
  PROVE  PixelsRight'
<1>1. TransferTyped
  BY DEF PixelsInv, ReuseInv
<1>2. PICK copies : OutRequested(t, xy, copies)
  BY <1>1, OutRequests
<1>3. Requested(t, xy, copies) /\ copies \in Seq(Outward(t, xy)) /\ status[t] = {}
  BY <1>2 DEF OutRequested, Requested
<1>4. data' = data /\ prev' = prev /\ reuseCount[t] = 0
  BY DEF TransferOut, Request, CheckInputTileFree
<1>5. /\ \A u \in Tiles \ {t} : status'[u] = status[u] /\ holds'[u] = holds[u]
      /\ ~Shown(t)'
  BY <1>1, <1>2 DEF OutRequested, TransferTyped, Shown
<1>6. OnlyTile(t) /\ fifo' = fifo \o copies
  BY <1>1, <1>3, <1>4, <1>5, RequestsOne
<1>7. copies \in Seq(Descriptors)
  BY <1>3, SoundTyped
<1>8. \A i \in DOMAIN copies : copies[i].to = None
  BY <1>3 DEF Outward, InPlace
<1> QED  BY <1>3, <1>4, <1>5, <1>6, <1>7, <1>8, PixelsElse DEF IntoTile

\* The application works on a tile.
LEMMA PixelsWork ==
  ASSUME PixelsInv, ~errorFlag, NEW t \in Tiles, Work(t)
  PROVE  PixelsRight'
<1>1. TransferTyped /\ DOMAIN data = Tiles
  BY DEF PixelsInv, ReuseInv, DataTyped
<1>2. status[t] = {} /\ reuseCount[t] = 0
  BY DEF Work, Ready, CheckInputTileFree
<1>3. OnlyTile(t) /\ ~Shown(t)'
  BY <1>1 DEF Work, OnlyTile, TransferTyped, Shown
<1>4. fifo' = fifo \o <<>> /\ <<>> \in Seq(Descriptors)
  BY <1>1 DEF Work, TransferTyped
<1>5. IntoTile(<<>>, t)
  BY DEF IntoTile
<1> QED  BY <1>2, <1>3, <1>4, <1>5, PixelsElse

-----------------------------------------------------------------------------

\* Every step keeps the pixels right.
LEMMA PixelsStep ==
  ASSUME PixelsInv, PadsFit, [Next]_vars
  PROVE  PixelsInv'
<1>1. ReuseInv' /\ DataTyped'
  BY ReuseStep, DataStep DEF PixelsInv, ReuseInv
<1>2. CASE errorFlag
  <2>1. errorFlag'
    <3>1. \A t, xy, q : ~ReqTileTransferIn(t, xy, q)
      BY <1>2 DEF ReqTileTransferIn, Request
    <3>2. \A t, xy, mask : ~ReqTileTransferInPredicated(t, xy, mask)
      BY <1>2 DEF ReqTileTransferInPredicated, Request
    <3>3. \A t, xy : ~ReqTileTransferInFast(t, xy)
      BY <1>2 DEF ReqTileTransferInFast, Request
    <3>4. \A t, xy, mask, kind : ~TransferOut(kind, t, xy, mask)
      BY <1>2 DEF TransferOut, Request
    <3>5. (\A t : ~Work(t)) /\ ~Dma
      BY <1>2 DEF Work, Dma
    <3>6. ASSUME (\E t \in Tiles : PadEdges(t)) \/ WaitForTileFast \/ UNCHANGED errorFlag \/ errorFlag' \in {errorFlag, TRUE}
          PROVE  errorFlag'
      BY <1>2, <3>6 DEF PadEdges, WaitForTileFast
    <3> QED  BY <3>1, <3>2, <3>3, <3>4, <3>5, <3>6, PixelSteps
  <2> QED  BY <1>1, <2>1 DEF PixelsInv
<1>3. CASE ~errorFlag
  <2>. DEFINE Right == ~errorFlag' => PixelsRight'
  <2>1. ASSUME NEW t \in Tiles, NEW xy \in Places, NEW q \in Tiles \cup {None}, ReqTileTransferIn(t, xy, q) PROVE Right
    BY <1>3, <2>1, PixelsIn
  <2>2. ASSUME NEW t \in Tiles, NEW xy \in Places, NEW mask \in Masks, ReqTileTransferInPredicated(t, xy, mask) PROVE Right
    BY <1>3, <2>2, PixelsPredicated
  <2>3. ASSUME NEW t \in Tiles, NEW xy \in Places, ReqTileTransferInFast(t, xy) PROVE Right
    BY <1>3, <2>3, PixelsFast
  <2>4. ASSUME NEW t \in Tiles, NEW xy \in Places, NEW mask \in SUBSET Int, NEW kind \in {"out", "outPredicated", "outFast"},
               TransferOut(kind, t, xy, mask)
        PROVE  Right
    BY <1>3, <2>4, PixelsOut
  <2>5. ASSUME NEW t \in Tiles, Work(t) \/ PadEdges(t) PROVE Right
    BY <1>3, <2>5, PixelsWork, PixelsPadEdges
  <2>6. ASSUME Dma PROVE Right
    BY <1>3, <2>6, PixelsDma
  <2>7. ASSUME WaitForTileFast PROVE Right
    BY <1>3, <2>7, PixelsWaitFast
  <2>8. ASSUME NEW t, CheckTileReady(t) /\ UNCHANGED <<frame, pos, dmaIndex, holds, fifo, errorFlag>> PROVE Right
    BY <1>3, <2>8, PixelsCheck
  <2>9. ASSUME UNCHANGED <<frame, tileVars, queueVars, fifo>> PROVE Right
    BY <1>3, <2>9, PixelsRest DEF PixelsInv
  <2>. HIDE DEF Right
  <2>10. Right
    BY <2>1, <2>2, <2>3, <2>4, <2>5, <2>6, <2>7, <2>8, <2>9, PixelSteps, Zenon
  <2> QED  BY <1>1, <2>10 DEF PixelsInv, Right
<1> QED  BY <1>2, <1>3

\* At first no tile shows anything.
LEMMA PixelsInit == ASSUME Init PROVE PixelsInv
<1>1. ReuseInv
  BY ReuseInit
<1>2. DataTyped
  BY DEF Init, DataTyped
<1>3. fifo = <<>> /\ \A t \in Tiles : ~Shown(t)
  BY DEF Init, Shown
<1>4. \A t \in Tiles : Covered(t) /\ StatusRight(t) /\ Shows(t)
  BY <1>3 DEF Covered, StatusRight, Shows, RowsRepeated, Shown
<1>5. \A i \in DOMAIN fifo : FALSE
  BY <1>3
<1> QED  BY <1>1, <1>2, <1>4, <1>5 DEF PixelsInv, PixelsRight

\* A tile that is ready shows its part of the frame and of the padding, pixel for pixel, for
\* every frame and tile size, edge, number of tiles and order of requests: what a copy takes
\* from a tile that is reused is there when its turn comes, and the processor pads exactly
\* what the copies have left.  No pad may reach 128, nor may a tile of the Fast functions be
\* wider than a vector under edge padding.
THEOREM TilesShowTheFrame == ASSUME PadsFit PROVE Spec => []TileShowsFrame
<1>1. Init => PixelsInv
  BY PixelsInit
<1>2. PixelsInv /\ [Next]_vars => PixelsInv'
  BY PixelsStep
<1>3. PixelsInv => TileShowsFrame
  BY ShowsAll DEF PixelsInv, PixelsRight
<1> QED  BY <1>1, <1>2, <1>3, PTL DEF Spec

=============================================================================
