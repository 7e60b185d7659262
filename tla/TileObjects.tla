----------------------------- MODULE TileObjects ----------------------------
(***************************************************************************)
(* The objects of a tile manager (TileManager/src/tileManager.c): memory   *)
(* banks, two- and three-dimensional frames and tiles, iDMA channels, and  *)
(* the error flag.  An operation is a function from the manager to the     *)
(* manager, so that one can call another.                                  *)
(*                                                                         *)
(* A bank gives buffers as BytePool promises, and may find no room at any  *)
(* time; XvMem is what it does inside.  The caller is external: it frees   *)
(* what it was given, once, and a manager that could not be set up it      *)
(* resets or sets up again.                                                *)
(***************************************************************************)
EXTENDS Integers, FiniteSets

CONSTANTS
  MaxBanks,       \* MAX_NUM_MEM_BANKS
  NumBuffers,     \* bound: buffers that a bank can hold
  NumSlots,       \* MAX_NUM_FRAMES, MAX_NUM_TILES: objects of a kind
  MaxChannels     \* MAX_NUM_CHANNEL

ASSUME ObjectsAssumption == {MaxBanks, NumBuffers, NumSlots, MaxChannels} \subseteq Nat \ {0}

Banks == 0 .. MaxBanks - 1
Channels == 0 .. MaxChannels - 1
Slots == 0 .. NumSlots - 1
Kinds == {"frame", "tile", "frame3D", "tile3D"}
AnyColor == MaxBanks   \* XV_MEM_BANK_COLOR_ANY
None == NumSlots  \* a pointer to no object of the manager

VARIABLES
  tm,             \* xvTileManager
  usable,         \* history: it has not failed to be set up
  objects,        \* history: what the caller has, as <<kind, slot>>
  buffers,        \* history: the buffers the caller knows, as <<bank, buffer>>
  confused        \* history: a 3D release has changed the count of another kind

vars == <<tm, usable, objects, buffers, confused>>

\* The manager after memset: starts and ready are the banks that have a
\* pMemBankStart, and a memBankMgr that xvmem_init has accepted; given are the
\* buffers allocated; loops are the channels that idma_init_loop has prepared.
\* What a call returns: whether it failed, and what it gives the caller.
Zero == [numMemBanks |-> 0, starts |-> {}, ready |-> {}, given |-> {},
         flags |-> [k \in Kinds |-> {}], count |-> [k \in Kinds |-> 0],
         loops |-> {}, errFlag |-> "ok",
         failed |-> FALSE, newObjects |-> {}, newBuffers |-> {}]

Fail(t, e) == [t EXCEPT !.failed = TRUE, !.errFlag = e]

Lowest(S) == CHOOSE x \in S : \A y \in S : x <= y

-----------------------------------------------------------------------------
(* Setting up. *)

\* xvInitTileManagerMultiChannel4CH.
InitTileManager(t, hasBuffer) ==
  IF ~hasBuffer THEN Fail(t, "null")
  ELSE [t EXCEPT !.starts = {}, !.flags = Zero.flags, !.count = Zero.count,
                 !.errFlag = "ok", !.failed = FALSE]

\* Mutation: the banks after one that is refused are not looked at, and it is
\* not noticed.
InitMemUnchecked(t, n, good) ==
  LET taken == {b \in 0 .. n - 1 : \A c \in 0 .. b : c \in good}
  IN  [t EXCEPT !.numMemBanks = n, !.starts = @ \union taken, !.ready = @ \union taken,
                !.given = {g \in @ : g[1] \notin taken}, !.errFlag = "ok", !.failed = FALSE]

\* xvInitMemAllocator: the number of banks is stored before they are checked;
\* the first bank that is refused ends it.
InitMemAllocator(t, n, good) ==
  LET taken == {b \in 0 .. n - 1 : \A c \in 0 .. b : c \in good}
      s == [t EXCEPT !.numMemBanks = n, !.starts = @ \union taken, !.ready = @ \union taken,
                     !.given = {g \in @ : g[1] \notin taken}, !.errFlag = "ok", !.failed = FALSE]
  IN  IF n \notin 1 .. MaxBanks THEN Fail(t, "arg")
      ELSE IF taken = 0 .. n - 1 THEN s ELSE Fail(s, "arg")

\* xvInitIdmaMultiChannel4CH prepares the channels that have a buffer; the
\* first that idma_init refuses ends it.
InitIdma(t, chans, good) ==
  LET s == [t EXCEPT !.errFlag = "ok", !.failed = FALSE,
                     !.loops = @ \union {c \in chans : \A d \in chans : d <= c => d \in good}]
  IN  IF chans = {} THEN Fail(t, "null")
      ELSE IF chans \subseteq good THEN s ELSE Fail(s, "dma")

\* xvCreateTileManagerMultiChannel4CH.
CreateTileManager(t, chans, n, goodBanks, goodChans) ==
  LET t1 == InitTileManager(t, 0 \in chans)
      t2 == InitMemAllocator(t1, n, goodBanks)
  IN  IF t1.failed THEN t1 ELSE IF t2.failed THEN t2 ELSE InitIdma(t2, chans, goodChans)

\* xvFreeAllBuffers.
FreeAllBuffers(t) ==
  [t EXCEPT !.given = {g \in @ : g[1] >= t.numMemBanks}, !.errFlag = "ok", !.failed = FALSE]

\* Mutation: the number of banks stays.
ResetKeepsBanks(t) == [Zero EXCEPT !.loops = t.loops, !.numMemBanks = t.numMemBanks]

\* xvResetTileManager: everything but what the iDMA library keeps is zero.
ResetTileManager(t) == [Zero EXCEPT !.loops = t.loops]

-----------------------------------------------------------------------------
(* Buffers. *)

FreeIn(t, b) == {i \in 0 .. NumBuffers - 1 : <<b, i>> \notin t.given}

\* The banks of that color, or any, that find room, and the buffer of the first.
Able(t, color, room) ==
  {b \in (IF color = AnyColor THEN 0 .. t.numMemBanks - 1 ELSE {color}) \intersect room : FreeIn(t, b) # {}}
Found(t, color, room) ==
  LET b == Lowest(Able(t, color, room)) IN <<b, Lowest(FreeIn(t, b))>>

\* xvAllocateBuffer.
AllocateBuffer(t, color, room) ==
  LET g == Found(t, color, room)
  IN  IF color # AnyColor /\ color >= t.numMemBanks THEN Fail(t, "arg")
      ELSE IF Able(t, color, room) = {} THEN Fail(t, "full")
      ELSE [t EXCEPT !.given = @ \union {g}, !.errFlag = "ok", !.failed = FALSE, !.newBuffers = {g}]

\* xvFreeBuffer: the bank is found by where it starts.
FreeBuffer(t, g) ==
  IF g[1] \in t.starts /\ g[1] < t.numMemBanks
  THEN [t EXCEPT !.given = @ \ {g}, !.errFlag = "ok", !.failed = FALSE, !.newBuffers = @ \ {g}]
  ELSE Fail(t, "arg")

-----------------------------------------------------------------------------
(* Frames and tiles. *)

\* Mutation: the other flags of the word are lost.
AllocateObjectAlone(t, k) ==
  LET i == Lowest(Slots \ t.flags[k])
  IN  IF t.flags[k] = Slots THEN Fail(t, "full")
      ELSE [t EXCEPT !.flags[k] = {i}, !.count[k] = @ + 1, !.errFlag = "ok", !.failed = FALSE, !.newObjects = {<<k, i>>}]

\* The first flag that is not set, of the objects of kind k.
AllocateObject(t, k) ==
  LET i == Lowest(Slots \ t.flags[k])
  IN  IF t.flags[k] = Slots THEN Fail(t, "full")
      ELSE [t EXCEPT !.flags[k] = @ \union {i}, !.count[k] = @ + 1,
                     !.errFlag = "ok", !.failed = FALSE, !.newObjects = {<<k, i>>}]

AllocateFrame(t) == AllocateObject(t, "frame")
AllocateTile(t) == AllocateObject(t, "tile")
AllocateFrame3D(t) == AllocateObject(t, "frame3D")
AllocateTile3D(t) == AllocateObject(t, "tile3D")

\* The flag of object i of kind k is cleared, and the count of kind c goes down.
FreeObject(t, k, c, i) ==
  IF i \notin Slots THEN Fail(t, "arg")
  ELSE [t EXCEPT !.flags[k] = @ \ {i}, !.count[c] = @ - 1, !.errFlag = "ok", !.failed = FALSE]

FreeFrame(t, i) == FreeObject(t, "frame", "frame", i)

FreeTile(t, i) == FreeObject(t, "tile", "tile", i)
FreeFrame3D(t, i) == FreeObject(t, "frame3D", "frame3D", i)
FreeTile3D(t, i) == FreeObject(t, "tile3D", "tile", i)   \* tileCount, not tile3DCount

\* The flags of kind k and the count of kind c are cleared.
FreeAll(t, k, c) ==
  [t EXCEPT !.flags[k] = {}, !.count[c] = 0, !.errFlag = "ok", !.failed = FALSE]

FreeAllFrames(t) == FreeAll(t, "frame", "frame")

\* Mutation: the count stays.
FreeAllTilesUncounted(t) == [FreeAll(t, "tile", "tile") EXCEPT !.count = t.count]

FreeAllTiles(t) == FreeAll(t, "tile", "tile")
FreeAllFrames3D(t) == FreeAll(t, "frame3D", "frame")     \* frameCount, not frame3DCount
FreeAllTiles3D(t) == FreeAll(t, "tile3D", "tile3D")

\* xvCreateFrame: whatever is wrong is a bad argument.
CreateFrame(t, valid) ==
  LET s == AllocateFrame(t)
  IN  IF ~valid THEN Fail(t, "arg") ELSE IF s.failed THEN Fail(s, "arg") ELSE s

CreateFrame3D(t, valid) ==
  LET s == AllocateFrame3D(t)
  IN  IF ~valid THEN Fail(t, "arg") ELSE IF s.failed THEN Fail(s, "arg") ELSE s

\* Mutation: the buffer is not given back.
CreateTileLeaking(t, valid, color, room) ==
  LET t1 == AllocateBuffer(t, color, room)
      t2 == AllocateTile(t1)
  IN  IF ~valid \/ (color # AnyColor /\ color >= t.numMemBanks) THEN Fail(t, "arg")
      ELSE IF t1.failed THEN t1
      ELSE IF t2.failed THEN [t2 EXCEPT !.newBuffers = {}]
      ELSE t2

\* xvCreateTile: a buffer for which there is no tile is given back; the tile
\* is returned with its buffer.
CreateTile(t, valid, color, room) ==
  LET t1 == AllocateBuffer(t, color, room)
      t2 == AllocateTile(t1)
  IN  IF ~valid \/ (color # AnyColor /\ color >= t.numMemBanks) THEN Fail(t, "arg")
      ELSE IF t1.failed THEN t1
      ELSE IF t2.failed THEN [FreeBuffer(t2, Found(t, color, room)) EXCEPT !.failed = TRUE]
      ELSE t2

CreateTile3D(t, valid, color, room) ==
  LET t1 == AllocateBuffer(t, color, room)
      t2 == AllocateTile3D(t1)
  IN  IF ~valid \/ (color # AnyColor /\ color >= t.numMemBanks) THEN Fail(t, "arg")
      ELSE IF t1.failed THEN t1
      ELSE IF t2.failed THEN [FreeBuffer(t2, Found(t, color, room)) EXCEPT !.failed = TRUE]
      ELSE t2

-----------------------------------------------------------------------------
(* What the caller does, and what it has then. *)

Init == tm = Zero /\ usable = TRUE /\ objects = {} /\ buffers = {} /\ confused = FALSE

\* Setting up: the caller has no objects, and no buffers unless the banks stay.
SetUp(t) ==
  /\ tm' = t /\ usable' = ~t.failed
  /\ objects' = {} /\ buffers' = {}
  /\ confused' = (confused /\ <<t.count, t.flags>> # <<Zero.count, Zero.flags>>)

CreateManager ==
  \E chans \in SUBSET Channels, n \in 0 .. MaxBanks, good \in SUBSET Banks, goodChans \in SUBSET Channels :
    SetUp(CreateTileManager(tm, chans, n, good, goodChans))

ResetManager == SetUp(ResetTileManager(tm))

\* The firmware sets up no more than the channels (dmaif.c).
PrepareChannels ==
  \E chans \in SUBSET Channels, good \in SUBSET Channels :
    /\ tm' = InitIdma(tm, chans, good)
    /\ UNCHANGED <<usable, objects, buffers, confused>>

\* A call that gives objects or buffers.
Gets(t) ==
  /\ usable
  /\ tm' = [t EXCEPT !.newObjects = {}, !.newBuffers = {}]
  /\ objects' = objects \union t.newObjects
  /\ buffers' = buffers \union t.newBuffers
  /\ UNCHANGED <<usable, confused>>

\* A call that takes them back.
Loses(t, objs, bufs) ==
  /\ usable
  /\ tm' = t
  /\ objects' = objects \ objs /\ buffers' = buffers \ bufs
  /\ UNCHANGED usable

Obtain ==
  \/ \E color \in Banks \union {AnyColor}, room \in SUBSET Banks :
       \/ Gets(AllocateBuffer(tm, color, room))
       \/ \E valid \in BOOLEAN :
            \/ Gets(CreateTile(tm, valid, color, room))
            \/ Gets(CreateTile3D(tm, valid, color, room))
  \/ \E valid \in BOOLEAN : Gets(CreateFrame(tm, valid)) \/ Gets(CreateFrame3D(tm, valid))

ObjectsOf(k) == {o \in objects : o[1] = k}
Mine(k) == {o[2] : o \in ObjectsOf(k)} \union {None}

Release ==
  /\ \/ \E g \in buffers : Loses(FreeBuffer(tm, g), {}, {g})
     \/ Loses(FreeAllBuffers(tm), {}, buffers)
     \/ \E i \in Mine("frame") : Loses(FreeFrame(tm, i), {<<"frame", i>>}, {})
     \/ \E i \in Mine("tile") : Loses(FreeTile(tm, i), {<<"tile", i>>}, {})
     \/ \E i \in Mine("frame3D") : Loses(FreeFrame3D(tm, i), {<<"frame3D", i>>}, {})
     \/ Loses(FreeAllFrames(tm), ObjectsOf("frame"), {})
     \/ Loses(FreeAllTiles(tm), ObjectsOf("tile"), {})
     \/ Loses(FreeAllTiles3D(tm), ObjectsOf("tile3D"), {})
  /\ UNCHANGED confused

\* The releases that change the count of another kind; bound: one of them
\* before the counts are cleared.
ReleaseConfused ==
  /\ ~confused
  /\ \/ \E i \in Mine("tile3D") : Loses(FreeTile3D(tm, i), {<<"tile3D", i>>}, {})
     \/ Loses(FreeAllFrames3D(tm), ObjectsOf("frame3D"), {})
  /\ confused' = TRUE

Next == CreateManager \/ ResetManager \/ PrepareChannels \/ Obtain \/ Release \/ ReleaseConfused

Spec == Init /\ [][Next]_vars

-----------------------------------------------------------------------------
(* Properties. *)

\* An object's flag is set exactly while a caller has it: none is handed out
\* twice, and none is lost, whatever fails half-way.
ObjectsFlagged == usable => \A k \in Kinds : tm.flags[k] = {o[2] : o \in ObjectsOf(k)}

\* The caller knows of every buffer that a bank has given: a tile that could
\* not be created, of either kind, keeps none (xvCreateTile, xvCreateTile3D).
NoBufferLost == usable => {g \in tm.given : g[1] < tm.numMemBanks} = buffers

\* A manager that was set up without an error, or reset after one, has every
\* bank it counts: a bank is used, and a buffer taken back, through pointers
\* that have been set (xvInitMemAllocator stores the number first).
BanksBehindCount == usable => 0 .. tm.numMemBanks - 1 \subseteq tm.ready \intersect tm.starts

\* The counts tell how many objects are allocated, whatever was created, failed
\* half-way, released or reset, until xvFreeTile3D counts a tile of the other
\* kind down, or xvFreeAllFrames3D sets the other kind's count to 0.
CountsMatch == ~confused => \A k \in Kinds : tm.count[k] = Cardinality(tm.flags[k])

\* xvGetErrorInfo "returns the most recent error code": what a call that has
\* failed leaves in errFlag is an error.
ErrorReported == tm.failed => tm.errFlag # "ok"
=============================================================================
