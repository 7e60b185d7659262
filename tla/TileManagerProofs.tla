-------------------------- MODULE TileManagerProofs --------------------------
(***************************************************************************)
(* Proofs about a tile manager: its objects, for every number of banks,    *)
(* buffers, objects and channels (what the caller has is what the manager  *)
(* has handed out, whatever fails half-way), and the allocator of each of  *)
(* its memory banks, for every pool and every number of block headers.     *)
(* And about its transfers of 3D tiles, for every frame, every tile and    *)
(* every position: that the paddings of a tile give back the buffer that   *)
(* they use, and that together they show what belongs there.               *)
(***************************************************************************)
EXTENDS TileObjects, XvMem, Tile3D, FiniteSetTheorems, FunctionTheorems, SequenceTheorems,
        WellFoundedInduction, TLAPS

Buffers == Banks \X (0 .. NumBuffers - 1)
Errors == {"ok", "null", "arg", "dma", "full"}

Managers ==
  [numMemBanks : 0 .. MaxBanks, starts : SUBSET Banks, ready : SUBSET Banks, given : SUBSET Buffers,
   flags : [Kinds -> SUBSET Slots], count : [Kinds -> Int], loops : SUBSET Channels,
   errFlag : Errors, failed : BOOLEAN,
   newObjects : SUBSET (Kinds \X Slots), newBuffers : SUBSET Buffers]

\* Between calls.
Idle(t) == t \in Managers /\ t.newObjects = {} /\ t.newBuffers = {}

Counted(t) == \A k \in Kinds : t.count[k] = Cardinality(t.flags[k])

\* A set of numbers has a least one.
LEMMA LeastOf ==
  ASSUME NEW S \in SUBSET Nat, S # {}
  PROVE  \E m \in S : \A k \in S : m <= k
<1>. DEFINE Less == {ss \in Nat \X Nat : ss[1] < ss[2]}
<1>1. IsWellFoundedOn(Less, Nat)
  BY NatLessThanWellFounded DEF OpToRel
<1>2. \E m \in S : \A k \in S : ~ (<<k, m>> \in Less)
  <2>. HIDE DEF Less
  <2> QED  BY <1>1, WFMin, Zenon
<1>3. PICK m \in S : \A k \in S : ~ (<<k, m>> \in Less)
  BY <1>2
<1>4. ASSUME NEW k \in S  PROVE  m <= k
  <2>1. k \in Nat /\ m \in Nat /\ <<k, m>> \in Nat \X Nat
    OBVIOUS
  <2>2. ~ (k < m)
    BY <1>3, <2>1
  <2> QED  BY <2>1, <2>2
<1> QED  BY <1>4

\* The search for a free flag or buffer finds one if there is one.
LEMMA LowestOf ==
  ASSUME NEW S \in SUBSET Nat, S # {}
  PROVE  Lowest(S) \in S
BY LeastOf, Zenon DEF Lowest

\* Sets of slots are finite sets of numbers.
LEMMA SlotsFinite == \A S \in SUBSET Slots : IsFiniteSet(S) /\ S \subseteq Nat
<1>1. NumSlots \in Nat /\ NumSlots - 1 \in Int /\ 0 \in Int
  BY ObjectsAssumption
<1>2. IsFiniteSet(Slots)
  BY <1>1, FS_Interval DEF Slots
<1>3. Slots \subseteq Nat
  BY DEF Slots
<1>4. ASSUME NEW S \in SUBSET Slots PROVE IsFiniteSet(S)
  BY <1>2, FS_Subset
<1> QED  BY <1>3, <1>4

\* Banks are numbers, and "any" is none of them.
LEMMA BanksNat == Banks \subseteq Nat /\ AnyColor \notin Banks /\ MaxBanks \in Nat
BY ObjectsAssumption DEF Banks, AnyColor

-----------------------------------------------------------------------------
(* Calls that give something. *)

\* The objects of kind k that r gives the caller.
NewOf(r, k) == {o[2] : o \in {p \in r.newObjects : p[1] = k}}

\* A call takes t to r: buffers and flags that were free are given, and the
\* caller is told of all of them.
Obtained(t, r) ==
  /\ r \in Managers
  /\ r.numMemBanks = t.numMemBanks /\ r.starts = t.starts /\ r.ready = t.ready
  /\ r.given = t.given \union r.newBuffers
  /\ \A g \in r.newBuffers : g[1] < r.numMemBanks
  /\ \A k \in Kinds : r.flags[k] = t.flags[k] \union NewOf(r, k)
  /\ Counted(t) => Counted(r)

\* A call that fails after a step has obtained what the step gave.
LEMMA FailObtains ==
  ASSUME NEW t, NEW r, NEW e \in Errors, Obtained(t, r)
  PROVE  Obtained(t, Fail(r, e))
BY DEF Obtained, Fail, Managers, Counted, NewOf

\* A call that gives nothing.
LEMMA IdleObtains ==
  ASSUME NEW t, Idle(t)
  PROVE  Obtained(t, t)
BY DEF Idle, Obtained, Managers, NewOf

\* allocateTile and its kin take the first slot that is not flagged, or fail.
LEMMA AllocateObjectStep ==
  ASSUME NEW t \in Managers, t.newObjects = {}, NEW k \in Kinds, NEW r, r = AllocateObject(t, k)
  PROVE  /\ r \in Managers
         /\ r.numMemBanks = t.numMemBanks /\ r.starts = t.starts /\ r.ready = t.ready
         /\ r.given = t.given /\ r.newBuffers = t.newBuffers
         /\ \A l \in Kinds : r.flags[l] = t.flags[l] \union NewOf(r, l)
         /\ Counted(t) => Counted(r)
         /\ r.failed => r.newObjects = {}
<1>. DEFINE i == Lowest(Slots \ t.flags[k])
<1>1. CASE t.flags[k] = Slots
  BY <1>1 DEF AllocateObject, Fail, Managers, Errors, Counted, NewOf
<1>2. CASE t.flags[k] # Slots
  <2>1. i \in Slots \ t.flags[k]
    <3>1. Slots \ t.flags[k] \in SUBSET Nat /\ Slots \ t.flags[k] # {}
      BY <1>2, SlotsFinite DEF Managers
    <3> QED  BY <3>1, LowestOf
  <2>. HIDE DEF i
  <2>2. r = [t EXCEPT !.flags[k] = @ \union {i}, !.count[k] = @ + 1,
                      !.errFlag = "ok", !.failed = FALSE, !.newObjects = {<<k, i>>}]
    BY <1>2 DEF AllocateObject, i
  <2>3. /\ r.flags = [t.flags EXCEPT ![k] = @ \union {i}]
        /\ r.count = [t.count EXCEPT ![k] = @ + 1]
        /\ r.newObjects = {<<k, i>>} /\ r.failed = FALSE
        /\ r.numMemBanks = t.numMemBanks /\ r.starts = t.starts /\ r.ready = t.ready
        /\ r.given = t.given /\ r.newBuffers = t.newBuffers
    BY <2>2 DEF Managers
  <2>4. t.flags \in [Kinds -> SUBSET Slots] /\ t.count \in [Kinds -> Int]
    BY DEF Managers
  <2>5. r.flags \in [Kinds -> SUBSET Slots] /\ r.count \in [Kinds -> Int] /\ r.newObjects \subseteq Kinds \X Slots
    BY <2>1, <2>3, <2>4
  <2>6. r \in Managers
    BY <2>2, <2>3, <2>5 DEF Managers, Errors
  <2>7. \A l \in Kinds : r.flags[l] = t.flags[l] \union NewOf(r, l)
    <3>1. ASSUME NEW l \in Kinds PROVE NewOf(r, l) = IF l = k THEN {i} ELSE {}
      <4>1. r.newObjects = {<<k, i>>} /\ <<k, i>>[1] = k /\ <<k, i>>[2] = i
        BY <2>3
      <4>2. {p \in r.newObjects : p[1] = l} = IF l = k THEN {<<k, i>>} ELSE {}
        BY <4>1
      <4>3. {o[2] : o \in {<<k, i>>}} = {i}
        BY <4>1
      <4> QED  BY <4>2, <4>3 DEF NewOf
    <3> QED  BY <2>3, <2>4, <3>1
  <2>8. ASSUME Counted(t), NEW l \in Kinds PROVE r.count[l] = Cardinality(r.flags[l])
    <3>1. CASE l = k
      <4>1. IsFiniteSet(t.flags[k])
        BY <2>4, SlotsFinite
      <4>2. Cardinality(t.flags[k] \union {i}) =
              IF i \in t.flags[k] THEN Cardinality(t.flags[k]) ELSE Cardinality(t.flags[k]) + 1
        BY <4>1, FS_AddElement
      <4> QED  BY <2>1, <2>3, <2>4, <2>8, <3>1, <4>2 DEF Counted
    <3>2. CASE l # k
      BY <2>3, <2>4, <2>8, <3>2 DEF Counted
    <3> QED  BY <3>1, <3>2
  <2> QED  BY <2>3, <2>6, <2>7, <2>8 DEF Counted
<1> QED  BY <1>1, <1>2

\* A frame needs an object only.
LEMMA ObjectObtains ==
  ASSUME NEW t, Idle(t), NEW k \in Kinds
  PROVE  Obtained(t, AllocateObject(t, k))
<1>. DEFINE r == AllocateObject(t, k)
<1>1. t \in Managers /\ t.newObjects = {} /\ t.newBuffers = {} /\ t.given \subseteq Buffers
  BY DEF Idle, Managers
<1>2. /\ r \in Managers
      /\ r.numMemBanks = t.numMemBanks /\ r.starts = t.starts /\ r.ready = t.ready
      /\ r.given = t.given /\ r.newBuffers = t.newBuffers
      /\ \A l \in Kinds : r.flags[l] = t.flags[l] \union NewOf(r, l)
      /\ Counted(t) => Counted(r)
  BY <1>1, AllocateObjectStep
<1> QED  BY <1>1, <1>2 DEF Obtained

\* xvCreateFrame and its 3D variant.
LEMMA FrameObtains ==
  ASSUME NEW t, Idle(t), NEW valid
  PROVE  Obtained(t, CreateFrame(t, valid)) /\ Obtained(t, CreateFrame3D(t, valid))
<1>1. "frame" \in Kinds /\ "frame3D" \in Kinds /\ "arg" \in Errors
  BY DEF Kinds, Errors
<1>2. Obtained(t, t) /\ Obtained(t, AllocateFrame(t)) /\ Obtained(t, AllocateFrame3D(t))
  BY <1>1, IdleObtains, ObjectObtains DEF AllocateFrame, AllocateFrame3D
<1>3. /\ Obtained(t, Fail(t, "arg")) /\ Obtained(t, Fail(AllocateFrame(t), "arg"))
      /\ Obtained(t, Fail(AllocateFrame3D(t), "arg"))
  BY <1>1, <1>2, FailObtains
<1> QED  BY <1>2, <1>3 DEF CreateFrame, CreateFrame3D

\* xvAllocateBuffer: what it finds was not given.
LEMMA AllocateBufferStep ==
  ASSUME NEW t, Idle(t), NEW color \in Banks \union {AnyColor}, NEW room \in SUBSET Banks,
         NEW r, r = AllocateBuffer(t, color, room), NEW g, g = Found(t, color, room)
  PROVE  /\ r \in Managers /\ r.newObjects = {}
         /\ r.numMemBanks = t.numMemBanks /\ r.starts = t.starts /\ r.ready = t.ready
         /\ r.flags = t.flags /\ r.count = t.count
         /\ r.failed => r.given = t.given /\ r.newBuffers = {}
         /\ ~r.failed => /\ r.given = t.given \union {g} /\ r.newBuffers = {g}
                         /\ g \in Buffers /\ g \notin t.given /\ g[1] < t.numMemBanks
<1>. DEFINE able == Able(t, color, room)
<1>0. t \in Managers /\ t.newObjects = {} /\ t.newBuffers = {} /\ t.numMemBanks \in Nat
  BY BanksNat DEF Idle, Managers
<1>1. CASE (color # AnyColor /\ color >= t.numMemBanks) \/ able = {}
  <2>1. r = Fail(t, "arg") \/ r = Fail(t, "full")
    BY <1>1 DEF AllocateBuffer
  <2>2. PICK e \in Errors : r = Fail(t, e)
    BY <2>1 DEF Errors
  <2>3. r \in Managers /\ r.newObjects = {} /\ r.newBuffers = {} /\ r.failed
    BY <1>0, <2>2 DEF Fail, Managers
  <2>4. /\ r.numMemBanks = t.numMemBanks /\ r.starts = t.starts /\ r.ready = t.ready
        /\ r.flags = t.flags /\ r.count = t.count /\ r.given = t.given
    BY <1>0, <2>2 DEF Fail, Managers
  <2> QED  BY <2>3, <2>4
<1>2. CASE (color = AnyColor \/ ~(color >= t.numMemBanks)) /\ able # {}
  <2>1. able \subseteq Banks /\ \A b \in able : b < t.numMemBanks /\ FreeIn(t, b) # {}
    BY <1>0, <1>2, BanksNat DEF Able
  <2>2. Lowest(able) \in able
    BY <1>2, <2>1, BanksNat, LowestOf
  <2>. DEFINE b == Lowest(able)
              i == Lowest(FreeIn(t, b))
  <2>3. b \in Banks /\ b < t.numMemBanks /\ FreeIn(t, b) # {}
    BY <2>1, <2>2
  <2>4. i \in FreeIn(t, b)
    <3>1. FreeIn(t, b) \in SUBSET Nat
      BY DEF FreeIn
    <3> QED  BY <2>3, <3>1, LowestOf
  <2>5. g = <<b, i>>
    BY DEF Found
  <2>. HIDE DEF b, i
  <2>6. g \in Buffers /\ g \notin t.given /\ g[1] < t.numMemBanks
    BY <2>3, <2>4, <2>5 DEF FreeIn, Buffers
  <2>7. r = [t EXCEPT !.given = @ \union {g}, !.errFlag = "ok", !.failed = FALSE, !.newBuffers = {g}]
    BY <1>2 DEF AllocateBuffer
  <2>8. /\ r.numMemBanks = t.numMemBanks /\ r.starts = t.starts /\ r.ready = t.ready
        /\ r.flags = t.flags /\ r.count = t.count /\ r.loops = t.loops
        /\ r.given = t.given \union {g} /\ r.newBuffers = {g} /\ r.newObjects = t.newObjects
        /\ r.errFlag = "ok" /\ r.failed = FALSE
    BY <1>0, <2>7 DEF Managers
  <2>9. r.given \in SUBSET Buffers /\ r.newBuffers \in SUBSET Buffers
    <3>1. t.given \in SUBSET Buffers
      BY <1>0 DEF Managers
    <3> QED  BY <2>6, <2>8, <3>1
  <2>10. r \in Managers
    <3>1. DOMAIN r = DOMAIN t /\ r = [x \in DOMAIN r |-> r[x]]
      BY <1>0, <2>7 DEF Managers
    <3>2. "ok" \in Errors
      BY DEF Errors
    <3> QED  BY <1>0, <2>8, <2>9, <3>1, <3>2 DEF Managers
  <2> QED  BY <1>0, <2>6, <2>8, <2>10
<1> QED  BY <1>1, <1>2

\* xvAllocateBuffer, in the bank that is asked for or in the first with room.
LEMMA BufferObtains ==
  ASSUME NEW t, Idle(t), NEW color \in Banks \union {AnyColor}, NEW room \in SUBSET Banks
  PROVE  Obtained(t, AllocateBuffer(t, color, room))
<1>. DEFINE r == AllocateBuffer(t, color, room)
            g == Found(t, color, room)
<1>1. /\ r \in Managers /\ r.newObjects = {}
      /\ r.numMemBanks = t.numMemBanks /\ r.starts = t.starts /\ r.ready = t.ready
      /\ r.flags = t.flags /\ r.count = t.count
      /\ r.failed => r.given = t.given /\ r.newBuffers = {}
      /\ ~r.failed => /\ r.given = t.given \union {g} /\ r.newBuffers = {g}
                      /\ g \in Buffers /\ g \notin t.given /\ g[1] < t.numMemBanks
  BY AllocateBufferStep
<1>. HIDE DEF r, g
<1>2. \A k \in Kinds : NewOf(r, k) = {}
  BY <1>1 DEF NewOf
<1>3. r.failed \in BOOLEAN
  BY <1>1 DEF Managers
<1>4. r.given = t.given \union r.newBuffers /\ \A h \in r.newBuffers : h[1] < r.numMemBanks
  BY <1>1, <1>3
<1>5. Counted(t) => Counted(r)
  BY <1>1 DEF Counted
<1>6. Obtained(t, r)
  BY <1>1, <1>2, <1>4, <1>5 DEF Obtained
<1> QED  BY <1>6 DEF r

\* xvCreateTile, xvCreateTile3D: the buffer of a tile that cannot be created
\* goes back to its bank, which must be one that has been set up.
LEMMA TileStep ==
  ASSUME NEW t, Idle(t), 0 .. t.numMemBanks - 1 \subseteq t.starts, NEW k \in Kinds,
         NEW color \in Banks \union {AnyColor}, NEW room \in SUBSET Banks,
         NEW t1, t1 = AllocateBuffer(t, color, room), ~t1.failed,
         NEW t2, t2 = AllocateObject(t1, k)
  PROVE  /\ ~t2.failed => Obtained(t, t2)
         /\ t2.failed => Obtained(t, [FreeBuffer(t2, Found(t, color, room)) EXCEPT !.failed = TRUE])
<1>. DEFINE g == Found(t, color, room)
<1>0. t \in Managers /\ t.numMemBanks \in Nat /\ t.given \in SUBSET Buffers
  BY BanksNat DEF Idle, Managers
<1>1. /\ t1 \in Managers /\ t1.newObjects = {}
      /\ t1.numMemBanks = t.numMemBanks /\ t1.starts = t.starts /\ t1.ready = t.ready
      /\ t1.flags = t.flags /\ t1.count = t.count
      /\ t1.given = t.given \union {g} /\ t1.newBuffers = {g}
      /\ g \in Buffers /\ g \notin t.given /\ g[1] < t.numMemBanks
  BY AllocateBufferStep
<1>. HIDE DEF g
<1>2. /\ t2 \in Managers
      /\ t2.numMemBanks = t1.numMemBanks /\ t2.starts = t1.starts /\ t2.ready = t1.ready
      /\ t2.given = t1.given /\ t2.newBuffers = t1.newBuffers
      /\ \A l \in Kinds : t2.flags[l] = t1.flags[l] \union NewOf(t2, l)
      /\ Counted(t1) => Counted(t2)
      /\ t2.failed => t2.newObjects = {}
  BY <1>1, AllocateObjectStep
<1>3. Counted(t) => Counted(t2)
  BY <1>1, <1>2 DEF Counted
<1>4. ASSUME ~t2.failed PROVE Obtained(t, t2)
  BY <1>1, <1>2, <1>3 DEF Obtained
<1>5. ASSUME t2.failed, NEW r, r = [FreeBuffer(t2, g) EXCEPT !.failed = TRUE] PROVE Obtained(t, r)
  <2>1. g[1] \in t2.starts /\ g[1] < t2.numMemBanks
    <3>1. g[1] \in Nat
      BY <1>1, BanksNat DEF Buffers
    <3> QED  BY <1>0, <1>1, <1>2, <3>1
  <2>2. r = [t2 EXCEPT !.given = @ \ {g}, !.errFlag = "ok", !.failed = TRUE, !.newBuffers = @ \ {g}]
    BY <1>2, <1>5, <2>1 DEF FreeBuffer, Managers
  <2>3. /\ r.numMemBanks = t.numMemBanks /\ r.starts = t.starts /\ r.ready = t.ready
        /\ r.flags = t2.flags /\ r.count = t2.count /\ r.loops = t2.loops
        /\ r.given = t2.given \ {g} /\ r.newBuffers = t2.newBuffers \ {g} /\ r.newObjects = {}
        /\ r.errFlag = "ok" /\ r.failed = TRUE
    <3>1. t2.newObjects = {}
      BY <1>2, <1>5
    <3>2. /\ r.numMemBanks = t2.numMemBanks /\ r.starts = t2.starts /\ r.ready = t2.ready
          /\ r.flags = t2.flags /\ r.count = t2.count /\ r.loops = t2.loops
          /\ r.given = t2.given \ {g} /\ r.newBuffers = t2.newBuffers \ {g} /\ r.newObjects = t2.newObjects
          /\ r.errFlag = "ok" /\ r.failed = TRUE
      <4>1. t2 \in Managers
        BY <1>2
      <4> QED  BY <2>2, <4>1 DEF Managers
    <3> QED  BY <1>1, <1>2, <3>1, <3>2
  <2>4. r.given = t.given /\ r.newBuffers = {}
    BY <1>1, <1>2, <2>3
  <2>5. r \in Managers
    <3>1. r = [x \in DOMAIN r |-> r[x]] /\ DOMAIN r = DOMAIN t2
      BY <1>2, <2>2 DEF Managers
    <3>2. "ok" \in Errors
      BY DEF Errors
    <3> QED  BY <1>0, <1>2, <2>3, <2>4, <3>1, <3>2 DEF Managers
  <2>6. \A l \in Kinds : NewOf(t2, l) = {} /\ NewOf(r, l) = {}
    BY <1>2, <1>5, <2>3 DEF NewOf
  <2>7. \A l \in Kinds : r.flags[l] = t.flags[l] \union NewOf(r, l)
    BY <1>1, <1>2, <2>3, <2>6
  <2>8. Counted(t) => Counted(r)
    BY <1>3, <2>3 DEF Counted
  <2> QED  BY <2>3, <2>4, <2>5, <2>7, <2>8 DEF Obtained
<1> QED  BY <1>4, <1>5 DEF g

\* xvCreateTile and its 3D variant: a buffer, then a tile, or the buffer is given back.
LEMMA TileObtains ==
  ASSUME NEW t, Idle(t), 0 .. t.numMemBanks - 1 \subseteq t.starts,
         NEW valid, NEW color \in Banks \union {AnyColor}, NEW room \in SUBSET Banks
  PROVE  Obtained(t, CreateTile(t, valid, color, room)) /\ Obtained(t, CreateTile3D(t, valid, color, room))
<1>. DEFINE t1 == AllocateBuffer(t, color, room)
<1>1. "tile" \in Kinds /\ "tile3D" \in Kinds /\ "arg" \in Errors
  BY DEF Kinds, Errors
<1>2. Obtained(t, t) /\ Obtained(t, t1) /\ Obtained(t, Fail(t, "arg"))
  BY <1>1, IdleObtains, BufferObtains, FailObtains
<1>3. ASSUME NEW k \in Kinds, ~t1.failed, NEW t2, t2 = AllocateObject(t1, k)
      PROVE  /\ ~t2.failed => Obtained(t, t2)
             /\ t2.failed => Obtained(t, [FreeBuffer(t2, Found(t, color, room)) EXCEPT !.failed = TRUE])
  BY <1>3, TileStep
<1>. HIDE DEF t1
<1>4. ASSUME ~t1.failed
      PROVE  /\ ~AllocateTile(t1).failed => Obtained(t, AllocateTile(t1))
             /\ AllocateTile(t1).failed =>
                  Obtained(t, [FreeBuffer(AllocateTile(t1), Found(t, color, room)) EXCEPT !.failed = TRUE])
             /\ ~AllocateTile3D(t1).failed => Obtained(t, AllocateTile3D(t1))
             /\ AllocateTile3D(t1).failed =>
                  Obtained(t, [FreeBuffer(AllocateTile3D(t1), Found(t, color, room)) EXCEPT !.failed = TRUE])
  BY <1>1, <1>3, <1>4 DEF AllocateTile, AllocateTile3D
<1> QED  BY <1>2, <1>4 DEF CreateTile, CreateTile3D, t1

-----------------------------------------------------------------------------
(* Setting up. *)

\* A call takes t to r without giving anything, and a manager that is set up
\* without an error has nothing allocated and every bank it counts.
Prepared(t, r) ==
  /\ Idle(r)
  /\ \/ r.count = t.count /\ r.flags = t.flags
     \/ r.count = Zero.count /\ r.flags = Zero.flags
  /\ ~r.failed => /\ r.flags = Zero.flags
                  /\ {g \in r.given : g[1] < r.numMemBanks} = {}
                  /\ 0 .. r.numMemBanks - 1 \subseteq r.ready \intersect r.starts

\* The zeroed tile manager is between calls and counts right.
LEMMA ZeroIsIdle == Idle(Zero) /\ Counted(Zero)
<1>1. 0 \in 0 .. MaxBanks /\ "ok" \in Errors
  BY BanksNat DEF Errors
<1>2. Zero \in Managers
  BY <1>1 DEF Zero, Managers
<1>3. Counted(Zero)
  BY FS_EmptySet DEF Counted, Zero
<1> QED  BY <1>2, <1>3 DEF Idle, Zero

\* xvResetTileManager.
LEMMA ResetPrepares ==
  ASSUME NEW t, Idle(t)
  PROVE  Prepared(t, ResetTileManager(t))
<1>1. Idle(ResetTileManager(t))
  BY ZeroIsIdle DEF Idle, ResetTileManager, Managers
<1>2. /\ ResetTileManager(t).count = Zero.count /\ ResetTileManager(t).flags = Zero.flags
      /\ ResetTileManager(t).given = {} /\ ResetTileManager(t).numMemBanks = 0
  BY DEF ResetTileManager, Zero
<1> QED  BY <1>1, <1>2 DEF Prepared

\* xvInitIdmaMultiChannel4CH touches the channels only.
LEMMA InitIdmaStep ==
  ASSUME NEW t, Idle(t), NEW chans \in SUBSET Channels, NEW good, NEW r, r = InitIdma(t, chans, good)
  PROVE  /\ Idle(r)
         /\ r.numMemBanks = t.numMemBanks /\ r.starts = t.starts /\ r.ready = t.ready
         /\ r.given = t.given /\ r.flags = t.flags /\ r.count = t.count
<1>. DEFINE more == {c \in chans : \A d \in chans : d <= c => d \in good}
            s == [t EXCEPT !.errFlag = "ok", !.failed = FALSE, !.loops = @ \union more]
<1>1. "ok" \in Errors /\ "null" \in Errors /\ "dma" \in Errors
  BY DEF Errors
<1>2. r \in {Fail(t, "null"), s, Fail(s, "dma")}
  BY DEF InitIdma
<1>3. more \subseteq Channels
  OBVIOUS
<1>. HIDE DEF more
<1>4. t \in Managers /\ t.newObjects = {} /\ t.newBuffers = {}
  BY Zenon DEF Idle
<1>5. s \in Managers
  BY <1>1, <1>3, <1>4 DEF Managers
<1>6. \A u \in Managers, e \in Errors : Fail(u, e) \in Managers
  BY DEF Fail, Managers
<1>7. r \in Managers
  BY <1>1, <1>2, <1>4, <1>5, <1>6
<1>8. /\ r.numMemBanks = t.numMemBanks /\ r.starts = t.starts /\ r.ready = t.ready
      /\ r.given = t.given /\ r.flags = t.flags /\ r.count = t.count
      /\ r.newObjects = t.newObjects /\ r.newBuffers = t.newBuffers
  BY <1>2, <1>4 DEF Fail, Managers
<1> QED  BY <1>4, <1>7, <1>8 DEF Idle

\* xvInitMemAllocator: without an error every bank is set up, and empty.
LEMMA InitMemStep ==
  ASSUME NEW t, Idle(t), NEW n \in 0 .. MaxBanks, NEW good, NEW r, r = InitMemAllocator(t, n, good)
  PROVE  /\ Idle(r) /\ r.flags = t.flags /\ r.count = t.count
         /\ ~r.failed => /\ {g \in r.given : g[1] < r.numMemBanks} = {}
                         /\ 0 .. r.numMemBanks - 1 \subseteq r.ready \intersect r.starts
<1>. DEFINE taken == {b \in 0 .. n - 1 : \A c \in 0 .. b : c \in good}
            s == [t EXCEPT !.numMemBanks = n, !.starts = @ \union taken, !.ready = @ \union taken,
                           !.given = {g \in @ : g[1] \notin taken}, !.errFlag = "ok", !.failed = FALSE]
<1>1. "ok" \in Errors /\ "arg" \in Errors
  BY DEF Errors
<1>2. \/ r = Fail(t, "arg") \/ r = Fail(s, "arg")
      \/ r = s /\ taken = 0 .. n - 1
  BY DEF InitMemAllocator
<1>3. taken \subseteq Banks
  BY BanksNat DEF Banks
<1>. HIDE DEF taken
<1>4. t \in Managers /\ t.newObjects = {} /\ t.newBuffers = {}
  BY Zenon DEF Idle
<1>5. s \in Managers
  <2>. DEFINE starts == t.starts \union taken
              ready == t.ready \union taken
              given == {g \in t.given : g[1] \notin taken}
  <2>1. starts \in SUBSET Banks /\ ready \in SUBSET Banks /\ given \in SUBSET Buffers
    BY <1>3, <1>4 DEF Managers
  <2>2. s = [t EXCEPT !.numMemBanks = n, !.starts = starts, !.ready = ready, !.given = given,
                      !.errFlag = "ok", !.failed = FALSE]
    OBVIOUS
  <2>. HIDE DEF starts, ready, given, s
  <2> QED  BY <1>1, <1>4, <2>1, <2>2 DEF Managers
<1>6. \A u \in Managers, e \in Errors : Fail(u, e) \in Managers /\ Fail(u, e).failed = TRUE
  BY DEF Fail, Managers
<1>7. r \in Managers
  BY <1>1, <1>2, <1>4, <1>5, <1>6
<1>8. /\ r.flags = t.flags /\ r.count = t.count
      /\ r.newObjects = t.newObjects /\ r.newBuffers = t.newBuffers
  BY <1>2, <1>4 DEF Fail, Managers
<1>9. ASSUME ~r.failed
      PROVE  /\ {g \in r.given : g[1] < r.numMemBanks} = {}
             /\ 0 .. r.numMemBanks - 1 \subseteq r.ready \intersect r.starts
  <2>1. r = s /\ taken = 0 .. n - 1
    BY <1>1, <1>2, <1>4, <1>5, <1>6, <1>9
  <2>2. /\ r.numMemBanks = n /\ r.starts = t.starts \union taken /\ r.ready = t.ready \union taken
        /\ r.given = {g \in t.given : g[1] \notin taken}
    BY <1>4, <2>1 DEF Managers
  <2>3. \A g \in t.given : g[1] \in Nat
    BY <1>4, BanksNat DEF Managers, Buffers
  <2> QED  BY <2>1, <2>2, <2>3
<1> QED  BY <1>4, <1>7, <1>8, <1>9 DEF Idle

\* xvCreateTileManagerMultiChannel4CH, its three parts one after the other.
LEMMA CreatePrepares ==
  ASSUME NEW t, Idle(t), NEW chans \in SUBSET Channels, NEW n \in 0 .. MaxBanks,
         NEW good \in SUBSET Banks, NEW goodChans \in SUBSET Channels,
         NEW r, r = CreateTileManager(t, chans, n, good, goodChans)
  PROVE  Prepared(t, r)
<1>. DEFINE t1 == InitTileManager(t, 0 \in chans)
            t2 == InitMemAllocator(t1, n, good)
            t3 == InitIdma(t2, chans, goodChans)
<1>1. t \in Managers /\ t.newObjects = {} /\ t.newBuffers = {}
  BY DEF Idle
<1>2. CASE 0 \notin chans
  <2>1. t1 = [t EXCEPT !.failed = TRUE, !.errFlag = "null"]
    BY <1>2 DEF InitTileManager, Fail
  <2>2. t1 \in Managers /\ t1.failed = TRUE /\ t1.count = t.count /\ t1.flags = t.flags
        /\ t1.newObjects = {} /\ t1.newBuffers = {}
    BY <1>1, <2>1 DEF Managers, Errors
  <2>3. r = t1
    BY <2>2 DEF CreateTileManager
  <2> QED  BY <2>2, <2>3 DEF Prepared, Idle
<1>3. CASE 0 \in chans
  <2>1. t1 = [t EXCEPT !.starts = {}, !.flags = Zero.flags, !.count = Zero.count,
                       !.errFlag = "ok", !.failed = FALSE]
    BY <1>3 DEF InitTileManager
  <2>2. Zero.flags \in [Kinds -> SUBSET Slots] /\ Zero.count \in [Kinds -> Int]
    BY DEF Zero
  <2>3. t1 \in Managers /\ t1.failed = FALSE /\ t1.count = Zero.count /\ t1.flags = Zero.flags
        /\ t1.newObjects = {} /\ t1.newBuffers = {}
    <3>. HIDE DEF t1
    <3>1. /\ t1.starts = {} /\ t1.flags = Zero.flags /\ t1.count = Zero.count
          /\ t1.errFlag = "ok" /\ t1.failed = FALSE
          /\ t1.newObjects = t.newObjects /\ t1.newBuffers = t.newBuffers
      BY <1>1, <2>1 DEF Managers
    <3>2. t1 \in Managers
      BY <1>1, <2>1, <2>2 DEF Managers, Errors
    <3> QED  BY <1>1, <3>1, <3>2
  <2>. HIDE DEF t1
  <2>4. Idle(t1)
    BY <2>3 DEF Idle
  <2>5. /\ Idle(t2) /\ t2.flags = t1.flags /\ t2.count = t1.count
        /\ ~t2.failed => /\ {g \in t2.given : g[1] < t2.numMemBanks} = {}
                         /\ 0 .. t2.numMemBanks - 1 \subseteq t2.ready \intersect t2.starts
    BY <2>4, InitMemStep
  <2>. HIDE DEF t2
  <2>6. /\ Idle(t3)
        /\ t3.numMemBanks = t2.numMemBanks /\ t3.starts = t2.starts /\ t3.ready = t2.ready
        /\ t3.given = t2.given /\ t3.flags = t2.flags /\ t3.count = t2.count
    BY <2>5, InitIdmaStep
  <2>. HIDE DEF t3
  <2>7. IF t2.failed THEN r = t2 ELSE r = t3
    BY <2>3 DEF CreateTileManager, t1, t2, t3
  <2> QED  BY <2>3, <2>5, <2>6, <2>7 DEF Prepared
<1> QED  BY <1>2, <1>3

-----------------------------------------------------------------------------
(* The invariant. *)

ObjectsInv ==
  /\ Idle(tm)
  /\ usable \in BOOLEAN /\ confused \in BOOLEAN
  /\ objects \subseteq Kinds \X Slots
  /\ ObjectsFlagged /\ NoBufferLost /\ BanksBehindCount /\ CountsMatch

\* Flag by flag.
LEMMA SlotsOf ==
  ASSUME NEW objs, objs \subseteq Kinds \X Slots, NEW k \in Kinds
  PROVE  \A i : i \in {o[2] : o \in {p \in objs : p[1] = k}} <=> <<k, i>> \in objs
<1>1. ASSUME NEW i, <<k, i>> \in objs PROVE i \in {o[2] : o \in {p \in objs : p[1] = k}}
  <2>1. <<k, i>> \in {p \in objs : p[1] = k} /\ <<k, i>>[2] = i
    BY <1>1
  <2> QED  BY <2>1
<1>2. ASSUME NEW i, i \in {o[2] : o \in {p \in objs : p[1] = k}} PROVE <<k, i>> \in objs
  <2>1. PICK o \in objs : o[1] = k /\ o[2] = i
    BY <1>2
  <2>2. o = <<o[1], o[2]>>
    BY <2>1
  <2> QED  BY <2>1, <2>2
<1> QED  BY <1>1, <1>2

\* Before the first call nothing is allocated.
LEMMA InitInv == Init => ObjectsInv
<1>1. SUFFICES ASSUME Init PROVE ObjectsInv
  OBVIOUS
<1>2. Idle(tm) /\ Counted(tm)
  BY <1>1, ZeroIsIdle DEF Init
<1>3. \A k \in Kinds : tm.flags[k] = {}
  BY <1>1 DEF Init, Zero
<1>4. ObjectsFlagged
  BY <1>1, <1>3 DEF Init, ObjectsFlagged, ObjectsOf
<1>5. NoBufferLost /\ BanksBehindCount
  BY <1>1 DEF Init, Zero, NoBufferLost, BanksBehindCount
<1>6. CountsMatch
  BY <1>2 DEF Counted, CountsMatch
<1> QED  BY <1>1, <1>2, <1>4, <1>5, <1>6 DEF Init, ObjectsInv

\* Create and reset.
LEMMA SetUpInv ==
  ASSUME ObjectsInv, NEW t, Prepared(tm, t), SetUp(t)
  PROVE  ObjectsInv'
<1>1. tm' = t /\ usable' = ~t.failed /\ objects' = {} /\ buffers' = {}
      /\ confused' = (confused /\ <<t.count, t.flags>> # <<Zero.count, Zero.flags>>)
  BY DEF SetUp
<1>2. Idle(tm')
  BY <1>1 DEF Prepared
<1>3. \A k \in Kinds : Zero.flags[k] = {}
  BY DEF Zero
<1>4. ObjectsFlagged'
  BY <1>1, <1>3 DEF Prepared, ObjectsFlagged, ObjectsOf
<1>5. NoBufferLost' /\ BanksBehindCount'
  BY <1>1 DEF Prepared, NoBufferLost, BanksBehindCount
<1>6. CountsMatch'
  <2>1. CASE t.count = Zero.count /\ t.flags = Zero.flags
    BY <1>1, <2>1, ZeroIsIdle DEF Counted, CountsMatch
  <2>2. CASE t.count = tm.count /\ t.flags = tm.flags /\ ~ (t.count = Zero.count /\ t.flags = Zero.flags)
    <3>1. confused' = confused
      BY <1>1, <2>2 DEF ObjectsInv
    <3> QED  BY <1>1, <2>2, <3>1 DEF ObjectsInv, CountsMatch
  <2> QED  BY <2>1, <2>2 DEF Prepared
<1>7. usable' \in BOOLEAN /\ confused' \in BOOLEAN
  BY <1>1
<1> QED  BY <1>1, <1>2, <1>4, <1>5, <1>6, <1>7 DEF ObjectsInv

\* The DMA channels prepared alone leave objects and buffers as they are.
LEMMA PrepareInv ==
  ASSUME ObjectsInv, PrepareChannels
  PROVE  ObjectsInv'
<1>1. PICK chans \in SUBSET Channels, good \in SUBSET Channels :
        tm' = InitIdma(tm, chans, good) /\ UNCHANGED <<usable, objects, buffers, confused>>
  BY DEF PrepareChannels
<1>2. /\ Idle(tm')
      /\ tm'.numMemBanks = tm.numMemBanks /\ tm'.starts = tm.starts /\ tm'.ready = tm.ready
      /\ tm'.given = tm.given /\ tm'.flags = tm.flags /\ tm'.count = tm.count
  BY <1>1, InitIdmaStep DEF ObjectsInv
<1>3. usable' = usable /\ objects' = objects /\ buffers' = buffers /\ confused' = confused
  BY <1>1
<1>4. ObjectsFlagged'
  BY <1>2, <1>3 DEF ObjectsInv, ObjectsFlagged, ObjectsOf
<1>5. NoBufferLost' /\ BanksBehindCount' /\ CountsMatch'
  BY <1>2, <1>3 DEF ObjectsInv, NoBufferLost, BanksBehindCount, CountsMatch
<1> QED  BY <1>2, <1>3, <1>4, <1>5 DEF ObjectsInv

\* Calls that give something.
LEMMA GetsInv ==
  ASSUME ObjectsInv, NEW t, Obtained(tm, t), Gets(t)
  PROVE  ObjectsInv'
<1>1. /\ usable /\ tm' = [t EXCEPT !.newObjects = {}, !.newBuffers = {}]
      /\ objects' = objects \union t.newObjects /\ buffers' = buffers \union t.newBuffers
      /\ usable' = usable /\ confused' = confused
  BY DEF Gets
<1>2. t \in Managers
  BY DEF Obtained
<1>3. /\ tm' \in Managers /\ tm'.newObjects = {} /\ tm'.newBuffers = {}
      /\ tm'.numMemBanks = t.numMemBanks /\ tm'.starts = t.starts /\ tm'.ready = t.ready
      /\ tm'.given = t.given /\ tm'.flags = t.flags /\ tm'.count = t.count
  BY <1>1, <1>2 DEF Managers
<1>4. t.newObjects \subseteq Kinds \X Slots
  BY <1>2 DEF Managers
<1>5. objects \subseteq Kinds \X Slots /\ objects' \subseteq Kinds \X Slots
  BY <1>1, <1>4 DEF ObjectsInv
<1>6. ObjectsFlagged'
  <2>1. SUFFICES ASSUME NEW k \in Kinds
                 PROVE  t.flags[k] = {o[2] : o \in {p \in objects' : p[1] = k}}
    BY <1>3 DEF ObjectsFlagged, ObjectsOf
  <2>2. tm.flags[k] = {o[2] : o \in {p \in objects : p[1] = k}}
    BY <1>1 DEF ObjectsInv, ObjectsFlagged, ObjectsOf
  <2>3. t.flags[k] = tm.flags[k] \union {o[2] : o \in {p \in t.newObjects : p[1] = k}}
    BY DEF Obtained, NewOf
  <2>4. \A i : /\ i \in {o[2] : o \in {p \in objects : p[1] = k}} <=> <<k, i>> \in objects
               /\ i \in {o[2] : o \in {p \in objects' : p[1] = k}} <=> <<k, i>> \in objects'
               /\ i \in {o[2] : o \in {p \in t.newObjects : p[1] = k}} <=> <<k, i>> \in t.newObjects
    BY <1>4, <1>5, SlotsOf
  <2>5. \A i : i \in t.flags[k] <=> i \in {o[2] : o \in {p \in objects' : p[1] = k}}
    BY <1>1, <2>2, <2>3, <2>4
  <2> QED  BY <2>5
<1>7. NoBufferLost'
  <2>1. {g \in tm.given : g[1] < tm.numMemBanks} = buffers
    BY <1>1 DEF ObjectsInv, NoBufferLost
  <2>2. /\ t.given = tm.given \union t.newBuffers /\ t.numMemBanks = tm.numMemBanks
        /\ \A g \in t.newBuffers : g[1] < t.numMemBanks
    BY DEF Obtained
  <2>3. {g \in t.given : g[1] < t.numMemBanks} = buffers'
    BY <1>1, <2>1, <2>2
  <2> QED  BY <1>3, <2>3 DEF NoBufferLost
<1>8. BanksBehindCount'
  BY <1>1, <1>3 DEF ObjectsInv, Obtained, BanksBehindCount
<1>9. CountsMatch'
  BY <1>1, <1>3 DEF ObjectsInv, Obtained, Counted, CountsMatch
<1>10. usable' \in BOOLEAN /\ confused' \in BOOLEAN
  BY <1>1 DEF ObjectsInv
<1> QED  BY <1>3, <1>5, <1>6, <1>7, <1>8, <1>9, <1>10 DEF ObjectsInv, Idle

\* A call that gives an object, a buffer or both.
LEMMA ObtainInv ==
  ASSUME ObjectsInv, Obtain
  PROVE  ObjectsInv'
<1>1. PICK t : Gets(t) /\
        \/ \E color \in Banks \union {AnyColor}, room \in SUBSET Banks :
             \/ t = AllocateBuffer(tm, color, room)
             \/ \E valid \in BOOLEAN : \/ t = CreateTile(tm, valid, color, room)
                                       \/ t = CreateTile3D(tm, valid, color, room)
        \/ \E valid \in BOOLEAN : t = CreateFrame(tm, valid) \/ t = CreateFrame3D(tm, valid)
  BY DEF Obtain
<1>2. usable /\ Idle(tm)
  BY <1>1 DEF Gets, ObjectsInv
<1>3. 0 .. tm.numMemBanks - 1 \subseteq tm.starts
  BY <1>2 DEF ObjectsInv, BanksBehindCount
<1>4. Obtained(tm, t)
  BY <1>1, <1>2, <1>3, BufferObtains, TileObtains, FrameObtains
<1> QED  BY <1>1, <1>4, GetsInv

\* A free of one object of the caller's, or of none.
LEMMA FreeObjectInv ==
  ASSUME ObjectsInv, NEW k \in Kinds, NEW c \in Kinds, NEW i \in Mine(k),
         Loses(FreeObject(tm, k, c, i), {<<k, i>>}, {}),
         confused' \in BOOLEAN, ~confused' => ~confused /\ c = k
  PROVE  ObjectsInv'
<1>1. /\ usable /\ tm' = FreeObject(tm, k, c, i)
      /\ objects' = objects \ {<<k, i>>} /\ buffers' = buffers /\ usable' = usable
  BY DEF Loses
<1>2. tm \in Managers /\ tm.newObjects = {} /\ tm.newBuffers = {} /\ objects \subseteq Kinds \X Slots
  BY DEF ObjectsInv, Idle
<1>3. \A l \in Kinds : \A j : j \in tm.flags[l] <=> <<l, j>> \in objects
  <2>1. ASSUME NEW l \in Kinds PROVE tm.flags[l] = {o[2] : o \in {p \in objects : p[1] = l}}
    BY <1>1 DEF ObjectsInv, ObjectsFlagged, ObjectsOf
  <2>2. ASSUME NEW l \in Kinds, NEW j PROVE j \in {o[2] : o \in {p \in objects : p[1] = l}} <=> <<l, j>> \in objects
    BY <1>2, SlotsOf
  <2> QED  BY <2>1, <2>2, Zenon
<1>4. /\ tm' \in Managers /\ tm'.newObjects = {} /\ tm'.newBuffers = {}
      /\ tm'.numMemBanks = tm.numMemBanks /\ tm'.starts = tm.starts /\ tm'.ready = tm.ready
      /\ tm'.given = tm.given
      /\ tm'.flags = [tm.flags EXCEPT ![k] = @ \ {i}]
      /\ confused' \/ Counted(tm')
  <2>1. CASE i \notin Slots
    <3>1. tm' = [tm EXCEPT !.failed = TRUE, !.errFlag = "arg"]
      BY <1>1, <2>1 DEF FreeObject, Fail
    <3>2. i \notin tm.flags[k]
      BY <1>2, <2>1 DEF Managers
    <3>3. [tm.flags EXCEPT ![k] = @ \ {i}] = tm.flags
      BY <1>2, <3>2 DEF Managers
    <3>4. /\ tm' \in Managers /\ tm'.newObjects = {} /\ tm'.newBuffers = {}
          /\ tm'.numMemBanks = tm.numMemBanks /\ tm'.starts = tm.starts /\ tm'.ready = tm.ready
          /\ tm'.given = tm.given /\ tm'.flags = tm.flags /\ tm'.count = tm.count
      BY <1>2, <3>1 DEF Managers, Errors
    <3>5. confused' \/ Counted(tm')
      BY <3>4 DEF ObjectsInv, CountsMatch, Counted
    <3> QED  BY <3>3, <3>4, <3>5
  <2>2. CASE i \in Slots
    <3>1. tm' = [tm EXCEPT !.flags[k] = @ \ {i}, !.count[c] = @ - 1, !.errFlag = "ok", !.failed = FALSE]
      BY <1>1, <2>2 DEF FreeObject
    <3>2. /\ tm'.newObjects = {} /\ tm'.newBuffers = {} /\ tm'.loops = tm.loops
          /\ tm'.numMemBanks = tm.numMemBanks /\ tm'.starts = tm.starts /\ tm'.ready = tm.ready
          /\ tm'.given = tm.given /\ tm'.errFlag = "ok" /\ tm'.failed = FALSE
          /\ tm'.flags = [tm.flags EXCEPT ![k] = @ \ {i}]
          /\ tm'.count = [tm.count EXCEPT ![c] = @ - 1]
      BY <1>2, <3>1 DEF Managers
    <3>3. tm.flags \in [Kinds -> SUBSET Slots] /\ tm.count \in [Kinds -> Int]
      BY <1>2 DEF Managers
    <3>4. tm'.flags \in [Kinds -> SUBSET Slots] /\ tm'.count \in [Kinds -> Int]
      BY <3>2, <3>3
    <3>5. tm' \in Managers
      BY <1>2, <3>1, <3>2, <3>4 DEF Managers, Errors
    <3>6. ASSUME ~confused', NEW l \in Kinds PROVE tm'.count[l] = Cardinality(tm'.flags[l])
      <4>1. tm.count[l] = Cardinality(tm.flags[l]) /\ c = k
        BY <3>6 DEF ObjectsInv, CountsMatch
      <4>2. CASE l # k
        BY <3>2, <3>3, <4>1, <4>2
      <4>3. CASE l = k
        <5>1. i \in tm.flags[k]
          <6>1. i # None
            BY <2>2, ObjectsAssumption DEF Slots, None
          <6>2. i \in {o[2] : o \in {p \in objects : p[1] = k}}
            BY <6>1 DEF Mine, ObjectsOf
          <6>3. <<k, i>> \in objects
            BY <1>2, <6>2, SlotsOf
          <6> QED  BY <1>3, <6>3
        <5>2. IsFiniteSet(tm.flags[k])
          BY <3>3, SlotsFinite
        <5>3. Cardinality(tm.flags[k] \ {i}) =
                IF i \in tm.flags[k] THEN Cardinality(tm.flags[k]) - 1 ELSE Cardinality(tm.flags[k])
          BY <5>2, FS_RemoveElement
        <5> QED  BY <3>2, <3>3, <4>1, <4>3, <5>1, <5>3
      <4> QED  BY <4>2, <4>3
    <3>7. confused' \/ Counted(tm')
      BY <3>6 DEF Counted
    <3> QED  BY <3>2, <3>5, <3>7
  <2> QED  BY <2>1, <2>2
<1>5. objects' \subseteq Kinds \X Slots
  BY <1>1, <1>2
<1>6. ObjectsFlagged'
  <2>1. SUFFICES ASSUME NEW l \in Kinds
                 PROVE  tm'.flags[l] = {o[2] : o \in {p \in objects' : p[1] = l}}
    BY DEF ObjectsFlagged, ObjectsOf
  <2>2. \A j : j \in {o[2] : o \in {p \in objects' : p[1] = l}} <=> <<l, j>> \in objects'
    BY <1>5, SlotsOf
  <2>3. tm.flags \in [Kinds -> SUBSET Slots]
    BY <1>2 DEF Managers
  <2>4. \A j : j \in tm'.flags[l] <=> j \in tm.flags[l] /\ ~ (l = k /\ j = i)
    BY <1>4, <2>3
  <2>5. \A j : <<l, j>> \in objects' <=> <<l, j>> \in objects /\ ~ (l = k /\ j = i)
    BY <1>1
  <2>6. \A j : j \in tm'.flags[l] <=> j \in {o[2] : o \in {p \in objects' : p[1] = l}}
    BY <1>3, <2>2, <2>4, <2>5
  <2> QED  BY <2>6
<1>7. NoBufferLost' /\ BanksBehindCount'
  BY <1>1, <1>4 DEF ObjectsInv, NoBufferLost, BanksBehindCount
<1>8. CountsMatch'
  BY <1>4 DEF Counted, CountsMatch
<1>9. usable' \in BOOLEAN
  BY <1>1
<1> QED  BY <1>4, <1>5, <1>6, <1>7, <1>8, <1>9 DEF ObjectsInv, Idle

\* A free of all of the caller's objects of kind k.
LEMMA FreeAllInv ==
  ASSUME ObjectsInv, NEW k \in Kinds, NEW c \in Kinds,
         Loses(FreeAll(tm, k, c), ObjectsOf(k), {}),
         confused' \in BOOLEAN, ~confused' => ~confused /\ c = k
  PROVE  ObjectsInv'
<1>1. /\ usable /\ tm' = FreeAll(tm, k, c)
      /\ objects' = objects \ ObjectsOf(k) /\ buffers' = buffers /\ usable' = usable
  BY DEF Loses
<1>2. tm \in Managers /\ tm.newObjects = {} /\ tm.newBuffers = {} /\ objects \subseteq Kinds \X Slots
  BY DEF ObjectsInv, Idle
<1>3. tm' = [tm EXCEPT !.flags[k] = {}, !.count[c] = 0, !.errFlag = "ok", !.failed = FALSE]
  BY <1>1 DEF FreeAll
<1>4. /\ tm'.newObjects = {} /\ tm'.newBuffers = {} /\ tm'.loops = tm.loops
      /\ tm'.numMemBanks = tm.numMemBanks /\ tm'.starts = tm.starts /\ tm'.ready = tm.ready
      /\ tm'.given = tm.given /\ tm'.errFlag = "ok" /\ tm'.failed = FALSE
      /\ tm'.flags = [tm.flags EXCEPT ![k] = {}]
      /\ tm'.count = [tm.count EXCEPT ![c] = 0]
  BY <1>2, <1>3 DEF Managers
<1>5. tm.flags \in [Kinds -> SUBSET Slots] /\ tm.count \in [Kinds -> Int]
  BY <1>2 DEF Managers
<1>6. tm'.flags \in [Kinds -> SUBSET Slots] /\ tm'.count \in [Kinds -> Int]
  BY <1>4, <1>5
<1>7. tm' \in Managers
  BY <1>2, <1>3, <1>4, <1>6 DEF Managers, Errors
<1>8. CountsMatch'
  <2>1. SUFFICES ASSUME ~confused', NEW l \in Kinds PROVE tm'.count[l] = Cardinality(tm'.flags[l])
    BY DEF CountsMatch
  <2>2. tm.count[l] = Cardinality(tm.flags[l]) /\ c = k
    BY <2>1 DEF ObjectsInv, CountsMatch
  <2> QED  BY <1>4, <1>5, <2>2, FS_EmptySet
<1>9. objects' \subseteq Kinds \X Slots
  BY <1>1, <1>2
<1>10. ObjectsFlagged'
  <2>1. SUFFICES ASSUME NEW l \in Kinds
                 PROVE  tm'.flags[l] = {o[2] : o \in {p \in objects' : p[1] = l}}
    BY DEF ObjectsFlagged, ObjectsOf
  <2>2. CASE l = k
    <3>1. {p \in objects' : p[1] = l} = {}
      BY <1>1, <2>2 DEF ObjectsOf
    <3> QED  BY <1>4, <1>5, <2>2, <3>1
  <2>3. CASE l # k
    <3>1. {p \in objects' : p[1] = l} = {p \in objects : p[1] = l}
      BY <1>1, <2>3 DEF ObjectsOf
    <3>2. tm.flags[l] = {o[2] : o \in {p \in objects : p[1] = l}}
      BY <1>1 DEF ObjectsInv, ObjectsFlagged, ObjectsOf
    <3> QED  BY <1>4, <1>5, <2>3, <3>1, <3>2
  <2> QED  BY <2>2, <2>3
<1>11. NoBufferLost' /\ BanksBehindCount'
  BY <1>1, <1>4 DEF ObjectsInv, NoBufferLost, BanksBehindCount
<1> QED  BY <1>1, <1>4, <1>7, <1>8, <1>9, <1>10, <1>11 DEF ObjectsInv, Idle

\* xvFreeBuffer, xvFreeAllBuffers.
LEMMA FreeBuffersInv ==
  ASSUME ObjectsInv, confused' = confused,
         \/ \E g \in buffers : Loses(FreeBuffer(tm, g), {}, {g})
         \/ Loses(FreeAllBuffers(tm), {}, buffers)
  PROVE  ObjectsInv'
<1>1. usable /\ usable' = usable /\ objects' = objects
  BY DEF Loses
<1>2. tm \in Managers /\ tm.newObjects = {} /\ tm.newBuffers = {}
      /\ {g \in tm.given : g[1] < tm.numMemBanks} = buffers
      /\ 0 .. tm.numMemBanks - 1 \subseteq tm.starts /\ tm.numMemBanks \in Nat
  BY <1>1, BanksNat DEF ObjectsInv, Idle, Managers, NoBufferLost, BanksBehindCount
<1>3. PICK gone \in SUBSET Buffers :
        /\ tm' = [tm EXCEPT !.given = @ \ gone, !.errFlag = "ok", !.failed = FALSE, !.newBuffers = {}]
        /\ {g \in tm.given \ gone : g[1] < tm.numMemBanks} = buffers'
  <2>1. ASSUME NEW g \in buffers, Loses(FreeBuffer(tm, g), {}, {g})
        PROVE  /\ tm' = [tm EXCEPT !.given = @ \ {g}, !.errFlag = "ok", !.failed = FALSE, !.newBuffers = {}]
               /\ {h \in tm.given \ {g} : h[1] < tm.numMemBanks} = buffers'
               /\ {g} \in SUBSET Buffers
    <3>1. g \in tm.given /\ g[1] < tm.numMemBanks
      BY <1>2
    <3>2. g \in Buffers /\ g[1] \in Nat
      BY <1>2, <3>1, BanksNat DEF Managers, Buffers
    <3>3. g[1] \in tm.starts
      BY <1>2, <3>1, <3>2
    <3>4. tm' = [tm EXCEPT !.given = @ \ {g}, !.errFlag = "ok", !.failed = FALSE, !.newBuffers = @ \ {g}]
      <4>1. tm' = FreeBuffer(tm, g)
        BY <2>1, Zenon DEF Loses
      <4> QED  BY <3>1, <3>3, <4>1, Zenon DEF FreeBuffer
    <3>5. tm.newBuffers \ {g} = {}
      BY <1>2
    <3>6. buffers' = buffers \ {g}
      BY <2>1 DEF Loses
    <3>7. {h \in tm.given \ {g} : h[1] < tm.numMemBanks} = buffers'
      BY <1>2, <3>6
    <3> QED  BY <3>2, <3>4, <3>5, <3>7
  <2>2. ASSUME Loses(FreeAllBuffers(tm), {}, buffers)
        PROVE  /\ tm' = [tm EXCEPT !.given = @ \ buffers, !.errFlag = "ok", !.failed = FALSE, !.newBuffers = {}]
               /\ {h \in tm.given \ buffers : h[1] < tm.numMemBanks} = buffers'
               /\ buffers \in SUBSET Buffers
    <3>1. buffers \in SUBSET Buffers
      BY <1>2 DEF Managers
    <3>2. \A g \in tm.given : g[1] \in Nat
      BY <1>2, BanksNat DEF Managers, Buffers
    <3>3. {g \in tm.given : g[1] >= tm.numMemBanks} = tm.given \ buffers
      BY <1>2, <3>2
    <3>4. tm' = [tm EXCEPT !.given = tm.given \ buffers, !.errFlag = "ok", !.failed = FALSE]
      BY <2>2, <3>3 DEF Loses, FreeAllBuffers
    <3>5. tm' = [tm EXCEPT !.given = @ \ buffers, !.errFlag = "ok", !.failed = FALSE, !.newBuffers = {}]
      BY <1>2, <3>4 DEF Managers
    <3>6. buffers' = {}
      BY <2>2 DEF Loses
    <3> QED  BY <1>2, <3>1, <3>5, <3>6
  <2>3. CASE \E g \in buffers : Loses(FreeBuffer(tm, g), {}, {g})
    <3>1. PICK g \in buffers : Loses(FreeBuffer(tm, g), {}, {g})
      BY <2>3
    <3> QED  BY <2>1, <3>1, Zenon
  <2>4. CASE Loses(FreeAllBuffers(tm), {}, buffers)
    BY <2>2, <2>4, Zenon
  <2> QED  BY <2>3, <2>4, Zenon
<1>4. /\ tm' \in Managers /\ tm'.newObjects = {} /\ tm'.newBuffers = {}
      /\ tm'.numMemBanks = tm.numMemBanks /\ tm'.starts = tm.starts /\ tm'.ready = tm.ready
      /\ tm'.given = tm.given \ gone /\ tm'.flags = tm.flags /\ tm'.count = tm.count
  BY <1>2, <1>3 DEF Managers, Errors
<1>5. NoBufferLost'
  BY <1>3, <1>4 DEF NoBufferLost
<1>6. ObjectsFlagged' /\ BanksBehindCount' /\ CountsMatch'
  BY <1>1, <1>4 DEF ObjectsInv, ObjectsFlagged, ObjectsOf, BanksBehindCount, CountsMatch
<1> QED  BY <1>1, <1>4, <1>5, <1>6 DEF ObjectsInv, Idle

\* A call that takes something back, the one that changes another kind's count
\* included.
LEMMA ReleaseInv ==
  ASSUME ObjectsInv, Release \/ ReleaseConfused
  PROVE  ObjectsInv'
<1>1. "frame" \in Kinds /\ "tile" \in Kinds /\ "frame3D" \in Kinds /\ "tile3D" \in Kinds
  BY DEF Kinds
<1>2. confused \in BOOLEAN
  BY DEF ObjectsInv
<1>3. CASE Release
  <2>1. confused' = confused
    BY <1>3 DEF Release
  <2>2. CASE \/ \E g \in buffers : Loses(FreeBuffer(tm, g), {}, {g})
             \/ Loses(FreeAllBuffers(tm), {}, buffers)
    BY <2>1, <2>2, FreeBuffersInv
  <2>3. CASE \/ \E i \in Mine("frame") : Loses(FreeFrame(tm, i), {<<"frame", i>>}, {})
             \/ \E i \in Mine("tile") : Loses(FreeTile(tm, i), {<<"tile", i>>}, {})
             \/ \E i \in Mine("frame3D") : Loses(FreeFrame3D(tm, i), {<<"frame3D", i>>}, {})
    <3>1. PICK k \in Kinds : \E i \in Mine(k) : Loses(FreeObject(tm, k, k, i), {<<k, i>>}, {})
      BY <1>1, <2>3 DEF FreeFrame, FreeTile, FreeFrame3D
    <3>2. PICK i \in Mine(k) : Loses(FreeObject(tm, k, k, i), {<<k, i>>}, {})
      BY <3>1
    <3> QED  BY <1>2, <2>1, <3>2, FreeObjectInv
  <2>4. CASE \/ Loses(FreeAllFrames(tm), ObjectsOf("frame"), {})
             \/ Loses(FreeAllTiles(tm), ObjectsOf("tile"), {})
             \/ Loses(FreeAllTiles3D(tm), ObjectsOf("tile3D"), {})
    <3>1. PICK k \in Kinds : Loses(FreeAll(tm, k, k), ObjectsOf(k), {})
      BY <1>1, <2>4 DEF FreeAllFrames, FreeAllTiles, FreeAllTiles3D
    <3> QED  BY <1>2, <2>1, <3>1, FreeAllInv
  <2> QED  BY <1>3, <2>2, <2>3, <2>4 DEF Release
<1>4. CASE ReleaseConfused
  <2>1. confused' = TRUE
    BY <1>4 DEF ReleaseConfused
  <2>2. CASE \E i \in Mine("tile3D") : Loses(FreeTile3D(tm, i), {<<"tile3D", i>>}, {})
    <3>1. PICK i \in Mine("tile3D") : Loses(FreeObject(tm, "tile3D", "tile", i), {<<"tile3D", i>>}, {})
      BY <2>2 DEF FreeTile3D
    <3> QED  BY <1>1, <2>1, <3>1, FreeObjectInv
  <2>3. CASE Loses(FreeAllFrames3D(tm), ObjectsOf("frame3D"), {})
    <3>1. Loses(FreeAll(tm, "frame3D", "frame"), ObjectsOf("frame3D"), {})
      BY <2>3 DEF FreeAllFrames3D
    <3> QED  BY <1>1, <2>1, <3>1, FreeAllInv
  <2> QED  BY <1>4, <2>2, <2>3 DEF ReleaseConfused
<1> QED  BY <1>3, <1>4

\* Every call of the tile manager, whichever of its steps fails, leaves the caller with
\* exactly the objects that are flagged and the buffers that are given, and the counts
\* right as long as no release has confused them.
THEOREM ObjectsInductive == Spec => []ObjectsInv
<1>1. ObjectsInv /\ [Next]_vars => ObjectsInv'
  <2>1. SUFFICES ASSUME ObjectsInv, [Next]_vars PROVE ObjectsInv'
    OBVIOUS
  <2>2. CASE CreateManager
    <3>1. PICK chans \in SUBSET Channels, n \in 0 .. MaxBanks, good \in SUBSET Banks, goodChans \in SUBSET Channels :
            SetUp(CreateTileManager(tm, chans, n, good, goodChans))
      BY <2>2 DEF CreateManager
    <3> QED  BY <2>1, <3>1, CreatePrepares, SetUpInv DEF ObjectsInv
  <2>3. CASE ResetManager
    BY <2>1, <2>3, ResetPrepares, SetUpInv DEF ResetManager, ObjectsInv
  <2>4. CASE PrepareChannels
    BY <2>1, <2>4, PrepareInv
  <2>5. CASE Obtain
    BY <2>1, <2>5, ObtainInv
  <2>6. CASE Release \/ ReleaseConfused
    BY <2>1, <2>6, ReleaseInv
  <2>7. CASE UNCHANGED vars
    BY <2>1, <2>7 DEF vars, ObjectsInv, ObjectsFlagged, ObjectsOf, NoBufferLost, BanksBehindCount, CountsMatch
  <2> QED  BY <2>1, <2>2, <2>3, <2>4, <2>5, <2>6, <2>7 DEF Next
<1> QED  BY <1>1, InitInv, PTL DEF Spec

\* xvCreateTile, xvFreeFrame3D and the rest: an object is allocated exactly
\* while the caller has it, however many objects there may be.
THEOREM ObjectsStayFlagged == Spec => []ObjectsFlagged
BY ObjectsInductive, PTL DEF ObjectsInv

\* xvCreateTile, xvFreeBuffer: whatever fails half-way, the caller knows every
\* buffer that the banks have given.
THEOREM BuffersStayKnown == Spec => []NoBufferLost
BY ObjectsInductive, PTL DEF ObjectsInv

\* xvInitMemAllocator: a manager set up without an error has the banks it
\* counts, so that no other call reaches one that was never set up.
THEOREM BanksStayBehindCount == Spec => []BanksBehindCount
BY ObjectsInductive, PTL DEF ObjectsInv

\* The counts are right until xvFreeTile3D or xvFreeAllFrames3D confuses them.
THEOREM CountsStayRight == Spec => []CountsMatch
BY ObjectsInductive, PTL DEF ObjectsInv

-----------------------------------------------------------------------------
(* Memory banks: searches, and lists of block headers. *)

\* Min of a set of numbers is its least member.
LEMMA MinOf ==
  ASSUME NEW S \in SUBSET Nat, S # {}
  PROVE  Min(S) \in S /\ \A k \in S : Min(S) <= k
BY LeastOf, Zenon DEF Min

\* What a search returns: the first place of a set of places, or 0.
LEMMA FirstOf ==
  ASSUME NEW n \in Nat, NEW T \in SUBSET (1 .. n), NEW k,
         k = IF T # {} THEN Min(T) ELSE 0
  PROVE  /\ k \in 0 .. n
         /\ k = 0 => T = {}
         /\ k > 0 => k \in T /\ \A i \in T : k <= i
<1>1. CASE T = {}
  BY <1>1
<1>2. CASE T # {}
  <2>1. T \in SUBSET Nat
    OBVIOUS
  <2>2. Min(T) \in T /\ \A i \in T : Min(T) <= i
    BY <1>2, <2>1, MinOf
  <2>3. k = Min(T)
    BY <1>2
  <2>4. k \in T /\ \A i \in T : k <= i
    BY <2>2, <2>3
  <2>5. k \in 1 .. n
    BY <2>4
  <2> QED  BY <2>4, <2>5
<1> QED  BY <1>1, <1>2

\* List t is list s without its kth entry: the entries after it move up.
Removed(s, k, t) ==
  /\ s \in Seq(Headers) /\ k \in 1 .. Len(s) /\ t \in Seq(Headers) /\ Len(t) = Len(s) - 1
  /\ \A i \in 1 .. Len(t) : t[i] = IF i < k THEN s[i] ELSE s[i + 1]

\* RemoveAt of the community modules takes the kth entry out.
LEMMA RemoveAtEntries ==
  ASSUME NEW s \in Seq(Headers), NEW k \in 1 .. Len(s), NEW t, t = RemoveAt(s, k)
  PROVE  Removed(s, k, t)
<1>. DEFINE S == Headers
<1>. DEFINE front == SubSeq(s, 1, k - 1)
            back == SubSeq(s, k + 1, Len(s))
<1>1. Len(s) \in Nat /\ \A i \in 1 .. Len(s) : s[i] \in S
  BY ElementOfSeq
<1>2. /\ front \in Seq(S) /\ Len(front) = k - 1
      /\ \A i \in 1 .. k - 1 : front[i] = s[i]
  <2>1. \A i \in 1 .. k - 1 : s[i] \in S
    BY <1>1
  <2>2. 1 \in Int /\ k - 1 \in Int
    OBVIOUS
  <2> QED  BY <2>1, <2>2, SubSeqProperties, <1>1
<1>3. /\ back \in Seq(S) /\ Len(back) = Len(s) - k
      /\ \A i \in 1 .. Len(s) - k : back[i] = s[k + i]
  <2>1. \A i \in k + 1 .. Len(s) : s[i] \in S
    BY <1>1
  <2>2. k + 1 \in Int /\ Len(s) \in Int
    BY <1>1
  <2> QED  BY <2>1, <2>2, SubSeqProperties, <1>1
<1>4. t = front \o back
  BY DEF RemoveAt
<1>. HIDE DEF front, back
<1>. DEFINE all == front \o back
<1>5. /\ all \in Seq(S) /\ Len(all) = Len(front) + Len(back)
      /\ \A i \in 1 .. Len(front) + Len(back) :
           all[i] = IF i <= Len(front) THEN front[i] ELSE back[i - Len(front)]
  BY <1>2, <1>3, ConcatProperties
<1>. HIDE DEF all
<1>6. ASSUME NEW i \in 1 .. Len(all)  PROVE all[i] = IF i < k THEN s[i] ELSE s[i + 1]
  <2>1. CASE i < k
    BY <1>1, <1>2, <1>3, <1>5, <2>1
  <2>2. CASE ~(i < k)
    <3>1. i - (k - 1) \in 1 .. Len(s) - k /\ k + (i - (k - 1)) = i + 1
      BY <1>1, <1>2, <1>3, <1>5, <2>2
    <3>2. all[i] = back[i - (k - 1)]
      BY <1>1, <1>2, <1>3, <1>5, <2>2
    <3> QED  BY <1>3, <2>2, <3>1, <3>2
  <2> QED  BY <2>1, <2>2
<1>7. all \in Seq(S) /\ Len(all) = Len(s) - 1
  BY <1>1, <1>2, <1>3, <1>5
<1>8. Removed(s, k, all)
  BY <1>6, <1>7 DEF Removed
<1> QED  BY <1>4, <1>8 DEF all

\* The entries of s from i + 1 to j - 1 may be replaced by x; t is what that gives.
SpliceOf(s, x, i, j) ==
  s \in Seq(Headers) /\ x \in Headers /\ i \in Nat /\ j \in Nat /\ i < j /\ j <= Len(s) + 1
Spliced(s, x, i, j, t) ==
  /\ SpliceOf(s, x, i, j) /\ t \in Seq(Headers) /\ Len(t) = Len(s) + 2 + i - j
  /\ \A n \in 1 .. Len(t) : t[n] = IF n <= i THEN s[n] ELSE IF n = i + 1 THEN x ELSE s[n + j - i - 2]

\* What xvmem_add_block_to_free_list leaves of the free list.
LEMMA SpliceEntries ==
  ASSUME NEW s, NEW x, NEW i, NEW j, SpliceOf(s, x, i, j), 
         NEW t, t = SubSeq(s, 1, i) \o <<x>> \o SubSeq(s, j, Len(s))
  PROVE  Spliced(s, x, i, j, t)
<1>. DEFINE S == Headers
<1>. USE DEF SpliceOf
<1>. DEFINE front == SubSeq(s, 1, i)
            back == SubSeq(s, j, Len(s))
<1>1. Len(s) \in Nat /\ \A n \in 1 .. Len(s) : s[n] \in S
  BY ElementOfSeq
<1>2. /\ front \in Seq(S) /\ Len(front) = i
      /\ \A n \in 1 .. i : front[n] = s[n]
  <2>1. \A n \in 1 .. i : s[n] \in S
    BY <1>1
  <2>2. 1 \in Int /\ i \in Int
    OBVIOUS
  <2> QED  BY <2>1, <2>2, SubSeqProperties, <1>1
<1>3. /\ back \in Seq(S) /\ Len(back) = Len(s) + 1 - j
      /\ \A n \in 1 .. Len(s) + 1 - j : back[n] = s[j + n - 1]
  <2>1. \A n \in j .. Len(s) : s[n] \in S
    BY <1>1
  <2>2. j \in Int /\ Len(s) \in Int
    BY <1>1
  <2> QED  BY <2>1, <2>2, SubSeqProperties, <1>1
<1>4. t = (front \o <<x>>) \o back
  OBVIOUS
<1>5. <<x>> \in Seq(S) /\ Len(<<x>>) = 1 /\ <<x>>[1] = x
  OBVIOUS
<1>. HIDE DEF front, back
<1>. DEFINE one == <<x>>
            begin == front \o one
<1>. HIDE DEF one
<1>6. /\ begin \in Seq(S) /\ Len(begin) = i + 1
      /\ \A n \in 1 .. i + 1 : begin[n] = IF n <= i THEN s[n] ELSE x
  <2>1. one \in Seq(S) /\ Len(one) = 1 /\ one[1] = x
    BY <1>5 DEF one
  <2>2. /\ begin \in Seq(S) /\ Len(begin) = Len(front) + Len(one)
        /\ \A n \in 1 .. Len(front) + Len(one) :
             begin[n] = IF n <= Len(front) THEN front[n] ELSE one[n - Len(front)]
    BY <1>2, <2>1, ConcatProperties
  <2> QED  BY <1>2, <2>1, <2>2
<1>7. t = begin \o back
  BY <1>4 DEF one
<1>. HIDE DEF begin
<1>. DEFINE all == begin \o back
<1>8. /\ all \in Seq(S) /\ Len(all) = Len(begin) + Len(back)
      /\ \A n \in 1 .. Len(begin) + Len(back) :
           all[n] = IF n <= Len(begin) THEN begin[n] ELSE back[n - Len(begin)]
  BY <1>3, <1>6, ConcatProperties
<1>. HIDE DEF all
<1>9. ASSUME NEW n \in 1 .. Len(all)
      PROVE  all[n] = IF n <= i THEN s[n] ELSE IF n = i + 1 THEN x ELSE s[n + j - i - 2]
  <2>1. CASE n <= i + 1
    <3>1. n \in 1 .. i + 1 /\ n \in 1 .. Len(begin) + Len(back) /\ n <= Len(begin)
      BY <1>1, <1>3, <1>6, <1>8, <2>1
    <3>2. all[n] = begin[n]
      BY <1>8, <3>1
    <3>3. n <= i \/ n = i + 1
      BY <2>1
    <3>4. i + 1 <= i => FALSE
      OBVIOUS
    <3> QED  BY <1>6, <3>1, <3>2, <3>3, <3>4
  <2>2. CASE ~(n <= i + 1)
    <3>1. n - (i + 1) \in 1 .. Len(s) + 1 - j /\ j + (n - (i + 1)) - 1 = n + j - i - 2
      BY <1>1, <1>3, <1>6, <1>8, <2>2
    <3>2. all[n] = back[n - (i + 1)]
      BY <1>1, <1>3, <1>6, <1>8, <2>2
    <3>3. all[n] = s[n + j - i - 2]
      BY <1>3, <3>1, <3>2
    <3> QED  BY <2>2, <3>3
  <2> QED  BY <2>1, <2>2, <1>1, <1>6, <1>8
<1>10. all \in Seq(Headers) /\ Len(all) = Len(s) + 2 + i - j
  BY <1>1, <1>3, <1>6, <1>8
<1>11. t = all
  BY <1>7 DEF all
<1>12. Spliced(s, x, i, j, all)
  BY <1>9, <1>10 DEF Spliced
<1> QED  BY <1>11, <1>12

\* List t is list s with x before it.
Consed(s, x, t) ==
  /\ s \in Seq(Headers) /\ x \in Headers /\ t \in Seq(Headers) /\ Len(t) = Len(s) + 1
  /\ \A i \in 1 .. Len(t) : t[i] = IF i = 1 THEN x ELSE s[i - 1]

\* A block that is put before a list.
LEMMA ConsEntries ==
  ASSUME NEW s \in Seq(Headers), NEW x \in Headers, NEW t, t = <<x>> \o s
  PROVE  Consed(s, x, t)
<1>. DEFINE S == Headers
<1>. DEFINE one == <<x>>
<1>1. one \in Seq(S) /\ Len(one) = 1 /\ one[1] = x
  OBVIOUS
<1>2. t = one \o s
  OBVIOUS
<1>. HIDE DEF one
<1>. DEFINE all == one \o s
<1>3. /\ all \in Seq(S) /\ Len(all) = Len(one) + Len(s)
      /\ \A i \in 1 .. Len(one) + Len(s) : all[i] = IF i <= Len(one) THEN one[i] ELSE s[i - Len(one)]
  BY <1>1, ConcatProperties
<1>. HIDE DEF all
<1>4. Consed(s, x, all)
  BY <1>1, <1>3 DEF Consed
<1> QED  BY <1>2, <1>4 DEF all

\* No entry of a list is there twice.
Distinct(s) == \A i, j \in 1 .. Len(s) : s[i] = s[j] => i = j

\* What is in a list.
LEMMA ElementsOf ==
  ASSUME NEW S, NEW s \in Seq(S)
  PROVE  /\ ToSet(s) \subseteq S
         /\ \A x : x \in ToSet(s) <=> \E i \in 1 .. Len(s) : x = s[i]
         /\ \A i \in 1 .. Len(s) : s[i] \in ToSet(s) /\ s[i] \in S
<1>1. DOMAIN s = 1 .. Len(s) /\ \A i \in 1 .. Len(s) : s[i] \in S
  BY LenProperties, ElementOfSeq
<1>2. \A x : x \in ToSet(s) <=> \E i \in 1 .. Len(s) : x = s[i]
  BY <1>1, Zenon DEF ToSet
<1> QED  BY <1>1, <1>2

\* Lists without duplicates are as long as their sets are large.
LEMMA DistinctCardinality ==
  ASSUME NEW S, NEW s \in Seq(S), Distinct(s)
  PROVE  IsFiniteSet(ToSet(s)) /\ Cardinality(ToSet(s)) = Len(s)
<1>. DEFINE D == 1 .. Len(s)
            T == ToSet(s)
<1>1. Len(s) \in Nat /\ 1 \in Int
  BY LenProperties
<1>2. IsFiniteSet(D) /\ Cardinality(D) = Len(s)
  <2>1. IsFiniteSet(1 .. Len(s)) /\ Cardinality(1 .. Len(s)) = IF 1 > Len(s) THEN 0 ELSE Len(s) - 1 + 1
    <3>. DEFINE n == Len(s)
    <3>1. 1 \in Int /\ n \in Int
      BY <1>1
    <3>. HIDE DEF n
    <3>2. IsFiniteSet(1 .. n) /\ Cardinality(1 .. n) = IF 1 > n THEN 0 ELSE n - 1 + 1
      BY <3>1, FS_Interval
    <3> QED  BY <3>2 DEF n
  <2> QED  BY <1>1, <2>1
<1>3. s \in [D -> T] /\ (\A t \in T : \E i \in D : s[i] = t) /\ (\A i, j \in D : s[i] = s[j] => i = j)
  <2>1. s \in [D -> S]
    BY LenProperties
  <2>2. \A i \in D : s[i] \in T
    BY ElementsOf
  <2>3. s \in [D -> T]
    <3>. HIDE DEF T
    <3> QED  BY <2>1, <2>2
  <2>4. \A t \in T : \E i \in D : s[i] = t
    BY ElementsOf
  <2>5. \A i, j \in D : s[i] = s[j] => i = j
    BY DEF Distinct
  <2> QED  BY <2>3, <2>4, <2>5
<1>. HIDE DEF D, T
<1>4. s \in Surjection(D, T)
  BY <1>3 DEF Surjection
<1>5. s \in Injection(D, T)
  BY <1>3 DEF Injection, IsInjective
<1>6. IsFiniteSet(T) /\ Cardinality(T) = Cardinality(D)
  BY <1>2, <1>4, <1>5, FS_Surjection
<1> QED  BY <1>2, <1>6 DEF T

\* What is in a list that an entry is taken out of.
LEMMA RemoveAtElements ==
  ASSUME NEW s, NEW k, NEW t, Removed(s, k, t), Distinct(s)
  PROVE  Distinct(t) /\ ToSet(t) = ToSet(s) \ {s[k]}
<1>0. s \in Seq(Headers) /\ k \in 1 .. Len(s) /\ t \in Seq(Headers)
  BY DEF Removed
<1>1. /\ t \in Seq(Headers) /\ Len(t) = Len(s) - 1 /\ Len(s) \in Nat
      /\ \A i \in 1 .. Len(t) : t[i] = IF i < k THEN s[i] ELSE s[i + 1]
  BY <1>0, LenProperties DEF Removed
<1>. USE <1>0
<1>2. Distinct(t)
  <2>. SUFFICES ASSUME NEW i \in 1 .. Len(t), NEW j \in 1 .. Len(t), t[i] = t[j]  PROVE i = j
    BY DEF Distinct
  <2>. DEFINE m == IF i < k THEN i ELSE i + 1
              n == IF j < k THEN j ELSE j + 1
  <2>1. m \in 1 .. Len(s) /\ n \in 1 .. Len(s) /\ (m = n => i = j)
    <3>1. PICK len \in Nat : len = Len(s) /\ k \in 1 .. len /\ i \in 1 .. len - 1 /\ j \in 1 .. len - 1
      BY <1>1
    <3>2. m \in 1 .. len
      <4>1. CASE i < k
        BY <3>1, <4>1
      <4>2. CASE ~(i < k)
        BY <3>1, <4>2
      <4> QED  BY <4>1, <4>2
    <3>3. n \in 1 .. len
      <4>1. CASE j < k
        BY <3>1, <4>1
      <4>2. CASE ~(j < k)
        BY <3>1, <4>2
      <4> QED  BY <4>1, <4>2
    <3>4. m = n => i = j
      BY <3>1
    <3> QED  BY <3>1, <3>2, <3>3, <3>4
  <2>2. t[i] = s[m] /\ t[j] = s[n]
    BY <1>1
  <2>. HIDE DEF m, n
  <2>3. m = n
    BY <2>1, <2>2 DEF Distinct
  <2> QED  BY <2>1, <2>3
<1>3. \A x : x \in ToSet(t) <=> \E i \in 1 .. Len(t) : x = t[i]
  BY <1>1, ElementsOf
<1>4. \A x : x \in ToSet(s) <=> \E i \in 1 .. Len(s) : x = s[i]
  BY ElementsOf
<1>5. ASSUME NEW x \in ToSet(t)  PROVE x \in ToSet(s) \ {s[k]}
  <2>1. PICK i \in 1 .. Len(t) : x = t[i]
    BY <1>3
  <2>2. PICK j \in 1 .. Len(s) : j # k /\ x = s[j]
    <3>1. CASE i < k
      <4>1. i \in 1 .. Len(s) /\ i # k /\ x = s[i]
        BY <1>1, <2>1, <3>1
      <4> QED  BY <4>1
    <3>2. CASE ~(i < k)
      <4>1. i + 1 \in 1 .. Len(s) /\ i + 1 # k /\ x = s[i + 1]
        BY <1>1, <2>1, <3>2
      <4> QED  BY <4>1
    <3> QED  BY <3>1, <3>2
  <2> QED  BY <1>4, <2>2 DEF Distinct
<1>6. ASSUME NEW x \in ToSet(s), x # s[k]  PROVE x \in ToSet(t)
  <2>1. PICK i \in 1 .. Len(s) : x = s[i]
    BY <1>4
  <2>2. \E j \in 1 .. Len(t) : x = t[j]
    <3>1. CASE i < k
      <4>1. i \in 1 .. Len(t) /\ x = t[i]
        BY <1>1, <2>1, <3>1
      <4> QED  BY <4>1
    <3>2. CASE ~(i < k)
      <4>1. i - 1 \in 1 .. Len(t) /\ ~(i - 1 < k) /\ (i - 1) + 1 = i
        BY <1>1, <1>6, <2>1, <3>2
      <4>2. x = t[i - 1]
        BY <1>1, <2>1, <4>1
      <4> QED  BY <4>1, <4>2
    <3> QED  BY <3>1, <3>2
  <2> QED  BY <1>3, <2>2
<1> QED  BY <1>2, <1>5, <1>6

\* List t is list s with x for its kth entry.
Replaced(s, k, x, t) ==
  /\ s \in Seq(Headers) /\ k \in 1 .. Len(s) /\ x \in Headers /\ t \in Seq(Headers) /\ Len(t) = Len(s)
  /\ \A i \in 1 .. Len(s) : t[i] = IF i = k THEN x ELSE s[i]

\* What is in a list of which an entry is replaced.
LEMMA ReplaceAtElements ==
  ASSUME NEW s \in Seq(Headers), Distinct(s), NEW k \in 1 .. Len(s), NEW x \in Headers,
         NEW t, t = ReplaceAt(s, k, x)
  PROVE  Replaced(s, k, x, t) /\ ToSet(t) = (ToSet(s) \ {s[k]}) \union {x}
<1>. DEFINE S == Headers
<1>1. /\ t \in Seq(S) /\ Len(t) = Len(s)
      /\ \A i \in 1 .. Len(s) : t[i] = IF i = k THEN x ELSE s[i]
  <2>1. /\ [s EXCEPT ![k] = x] \in Seq(S) /\ Len([s EXCEPT ![k] = x]) = Len(s)
        /\ \A j \in 1 .. Len(s) : [s EXCEPT ![k] = x][j] = IF j = k THEN x ELSE s[j]
    BY ExceptSeq
  <2>2. t = [s EXCEPT ![k] = x]
    BY DEF ReplaceAt
  <2> QED  BY <2>1, <2>2, Zenon
<1>2. \A y : y \in ToSet(t) <=> \E i \in 1 .. Len(t) : y = t[i]
  BY <1>1, ElementsOf
<1>3. \A y : y \in ToSet(s) <=> \E i \in 1 .. Len(s) : y = s[i]
  BY ElementsOf
<1>4. \A y : y \in ToSet(t) <=> (y \in ToSet(s) /\ y # s[k]) \/ y = x
  BY <1>1, <1>2, <1>3 DEF Distinct
<1>5. Replaced(s, k, x, t)
  BY <1>1 DEF Replaced
<1> QED  BY <1>4, <1>5

\* What is in a list that a block is put before.
LEMMA ConsElements ==
  ASSUME NEW s, NEW x, NEW t, Consed(s, x, t), Distinct(s), x \notin ToSet(s)
  PROVE  Distinct(t) /\ ToSet(t) = ToSet(s) \union {x}
<1>0. s \in Seq(Headers) /\ x \in Headers /\ t \in Seq(Headers)
  BY DEF Consed
<1>1. /\ t \in Seq(Headers) /\ Len(t) = Len(s) + 1 /\ Len(s) \in Nat
      /\ \A i \in 1 .. Len(t) : t[i] = IF i = 1 THEN x ELSE s[i - 1]
  BY <1>0, LenProperties DEF Consed
<1>. USE <1>0
<1>2. \A y : y \in ToSet(t) <=> \E i \in 1 .. Len(t) : y = t[i]
  BY <1>1, ElementsOf
<1>3. \A y : y \in ToSet(s) <=> \E i \in 1 .. Len(s) : y = s[i]
  BY ElementsOf
<1>4. \A i \in 1 .. Len(t) : i # 1 => i - 1 \in 1 .. Len(s) /\ s[i - 1] # x /\ t[i] = s[i - 1]
  <2>1. \A i \in 1 .. Len(s) : s[i] # x
    BY <1>3
  <2> QED  BY <1>1, <2>1
<1>5. ASSUME NEW i \in 1 .. Len(t), NEW j \in 1 .. Len(t), t[i] = t[j]  PROVE i = j
  <2>1. CASE i = 1 \/ j = 1
    BY <1>1, <1>4, <1>5, <2>1
  <2>2. CASE i # 1 /\ j # 1
    <3>1. i - 1 \in 1 .. Len(s) /\ j - 1 \in 1 .. Len(s) /\ s[i - 1] = s[j - 1]
      BY <1>4, <1>5, <2>2
    <3>2. i - 1 = j - 1
      BY <3>1 DEF Distinct
    <3> QED  BY <1>1, <3>2
  <2> QED  BY <2>1, <2>2
<1>6. ASSUME NEW y  PROVE y \in ToSet(t) <=> y \in ToSet(s) \/ y = x
  <2>1. ASSUME y \in ToSet(t)  PROVE y \in ToSet(s) \/ y = x
    <3>1. PICK i \in 1 .. Len(t) : y = t[i]
      BY <1>2, <2>1
    <3> QED  BY <1>1, <1>3, <1>4, <3>1
  <2>2. ASSUME y = x  PROVE y \in ToSet(t)
    <3>1. 1 \in 1 .. Len(t) /\ t[1] = x
      BY <1>1
    <3> QED  BY <1>2, <2>2, <3>1
  <2>3. ASSUME y \in ToSet(s)  PROVE y \in ToSet(t)
    <3>1. PICK i \in 1 .. Len(s) : y = s[i]
      BY <1>3, <2>3
    <3>2. i + 1 \in 1 .. Len(t) /\ i + 1 # 1 /\ (i + 1) - 1 = i
      BY <1>1
    <3>3. t[i + 1] = y
      BY <1>1, <3>1, <3>2
    <3> QED  BY <1>2, <3>2, <3>3
  <2> QED  BY <2>1, <2>2, <2>3
<1> QED  BY <1>1, <1>5, <1>6 DEF Distinct

\* What is in a list of which some entries are replaced by one.
LEMMA SpliceElements ==
  ASSUME NEW s, NEW x, NEW i, NEW j, NEW t, Spliced(s, x, i, j, t), Distinct(s)
  PROVE  ToSet(t) = (ToSet(s) \ {s[n] : n \in i + 1 .. j - 1}) \union {x}
<1>0. s \in Seq(Headers) /\ x \in Headers /\ i \in Nat /\ j \in Nat /\ i < j /\ j <= Len(s) + 1
  BY DEF Spliced, SpliceOf
<1>1. /\ t \in Seq(Headers) /\ Len(t) = Len(s) + 2 + i - j /\ Len(s) \in Nat
      /\ \A n \in 1 .. Len(t) : t[n] = IF n <= i THEN s[n] ELSE IF n = i + 1 THEN x ELSE s[n + j - i - 2]
  BY <1>0, LenProperties DEF Spliced
<1>. USE <1>0
<1>2. \A y : y \in ToSet(t) <=> \E n \in 1 .. Len(t) : y = t[n]
  BY <1>1, ElementsOf
<1>3. \A y : y \in ToSet(s) <=> \E n \in 1 .. Len(s) : y = s[n]
  BY ElementsOf
<1>4. ASSUME NEW y \in ToSet(t), y # x  PROVE \E n \in 1 .. Len(s) : ~(n \in i + 1 .. j - 1) /\ y = s[n]
  <2>1. PICK n \in 1 .. Len(t) : y = t[n]
    BY <1>2
  <2>2. CASE n <= i
    <3>1. n \in 1 .. Len(s) /\ ~(n \in i + 1 .. j - 1) /\ y = s[n]
      BY <1>1, <2>1, <2>2
    <3> QED  BY <3>1
  <2>3. CASE ~(n <= i)
    <3>1. n # i + 1
      BY <1>1, <1>4, <2>1
    <3>2. n + j - i - 2 \in 1 .. Len(s) /\ ~(n + j - i - 2 \in i + 1 .. j - 1)
      BY <1>1, <2>3, <3>1
    <3>3. y = s[n + j - i - 2]
      BY <1>1, <2>1, <2>3, <3>1
    <3> QED  BY <3>2, <3>3
  <2> QED  BY <2>2, <2>3
<1>5. ASSUME NEW n \in 1 .. Len(s), ~(n \in i + 1 .. j - 1)  PROVE s[n] \in ToSet(t)
  <2>1. CASE n <= i
    <3>1. n \in 1 .. Len(t) /\ t[n] = s[n]
      BY <1>1, <2>1
    <3> QED  BY <1>2, <3>1
  <2>2. CASE ~(n <= i)
    <3>1. n >= j
      BY <1>5, <2>2
    <3>2. n - j + i + 2 \in 1 .. Len(t) /\ n - j + i + 2 > i + 1 /\ (n - j + i + 2) + j - i - 2 = n
      BY <1>1, <3>1
    <3>3. t[n - j + i + 2] = s[n]
      BY <1>1, <3>2
    <3> QED  BY <1>2, <3>2, <3>3
  <2> QED  BY <2>1, <2>2
<1>6. x \in ToSet(t)
  <2>1. i + 1 \in 1 .. Len(t) /\ t[i + 1] = x
    BY <1>1
  <2> QED  BY <1>2, <2>1
<1>7. \A n \in 1 .. Len(s) : n \in i + 1 .. j - 1 <=> s[n] \in {s[m] : m \in i + 1 .. j - 1}
  <2>1. \A m \in i + 1 .. j - 1 : m \in 1 .. Len(s)
    BY <1>1
  <2> QED  BY <2>1 DEF Distinct
<1>8. ToSet(t) \subseteq (ToSet(s) \ {s[n] : n \in i + 1 .. j - 1}) \union {x}
  BY <1>3, <1>4, <1>7
<1>9. (ToSet(s) \ {s[n] : n \in i + 1 .. j - 1}) \union {x} \subseteq ToSet(t)
  BY <1>3, <1>5, <1>6, <1>7
<1> QED  BY <1>8, <1>9

\* What the headers say: where a block starts, how large it is, and what was
\* returned of it.
AllBlocks == [Headers -> [buffer : Nat, size : Nat, aligned : Nat]]
UpTo(bl, b) == bl[b].buffer + bl[b].size
PoolEnd == PoolStart + PoolSize

\* The blocks of a set tile the pool.
Tiled(bl, L) ==
  /\ \A b \in L : bl[b].size > 0 /\ PoolStart <= bl[b].buffer /\ UpTo(bl, b) <= PoolEnd
  /\ \A b, c \in L : b # c => UpTo(bl, b) <= bl[c].buffer \/ UpTo(bl, c) <= bl[b].buffer
  /\ \A x \in PoolStart .. PoolEnd - 1 : \E b \in L : bl[b].buffer <= x /\ x < UpTo(bl, b)

SamePlace(bl, new, L) == \A b \in L : new[b].buffer = bl[b].buffer /\ new[b].size = bl[b].size

\* The numbers of a pool.
LEMMA PoolNumbers == /\ PoolStart \in Nat /\ PoolSize \in Nat /\ HeaderSize \in Nat /\ MinAlloc \in Nat
                     /\ PoolEnd \in Nat /\ HeaderSize > 0 /\ MinAlloc > 0 /\ PoolSize > 0
                     /\ OwnHeader \in BOOLEAN /\ (OwnHeader \/ PoolSize >= HeaderSize + MinAlloc)
                     /\ 0 \in Headers /\ 1 \in Headers
BY PoolAssumption DEF PoolEnd, Headers

\* The numbers of a block.
LEMMA BlockNumbers ==
  ASSUME NEW bl \in AllBlocks, NEW b \in Headers
  PROVE  /\ bl[b].buffer \in Nat /\ bl[b].size \in Nat /\ bl[b].aligned \in Nat
         /\ UpTo(bl, b) \in Nat /\ bl[b].buffer <= UpTo(bl, b)
         /\ bl[b].size > 0 => bl[b].buffer < UpTo(bl, b)
<1>1. bl[b].buffer \in Nat /\ bl[b].size \in Nat /\ bl[b].aligned \in Nat
  BY DEF AllBlocks
<1>2. PICK x \in Nat, y \in Nat : x = bl[b].buffer /\ y = bl[b].size
  BY <1>1
<1> QED  BY <1>1, <1>2 DEF UpTo

\* Where the blocks are is all that matters.
LEMMA SamePlaceTiles ==
  ASSUME NEW bl, NEW new, NEW L, Tiled(bl, L), SamePlace(bl, new, L)
  PROVE  Tiled(new, L)
<1>1. \A b \in L : new[b].buffer = bl[b].buffer /\ new[b].size = bl[b].size /\ UpTo(new, b) = UpTo(bl, b)
  BY DEF SamePlace, UpTo
<1> QED  BY <1>1 DEF Tiled

\* A block is split in two.
LEMMA SplitTiles ==
  ASSUME NEW bl \in AllBlocks, NEW new \in AllBlocks, NEW L \in SUBSET Headers, Tiled(bl, L),
         NEW b \in L, NEW rest \in Headers \ L, NEW n \in Nat, 0 < n, n < bl[b].size,
         new[b].buffer = bl[b].buffer, new[b].size = n,
         new[rest].buffer = bl[b].buffer + n, new[rest].size = bl[b].size - n,
         SamePlace(bl, new, L \ {b})
  PROVE  Tiled(new, L \union {rest})
<1>1. \A c \in L \union {rest} : c \in Headers /\ new[c].buffer \in Nat /\ new[c].size \in Nat /\ UpTo(new, c) \in Nat
  BY BlockNumbers
<1>2. \A c \in L : c \in Headers /\ bl[c].buffer \in Nat /\ bl[c].size \in Nat /\ UpTo(bl, c) \in Nat
  BY BlockNumbers
<1>3. \A c \in L \ {b} : new[c].buffer = bl[c].buffer /\ new[c].size = bl[c].size /\ UpTo(new, c) = UpTo(bl, c)
  BY DEF SamePlace, UpTo
<1>4. UpTo(new, b) = bl[b].buffer + n /\ UpTo(new, rest) = UpTo(bl, b) /\ UpTo(bl, b) = bl[b].buffer + bl[b].size
  BY <1>2 DEF UpTo
<1>5. ASSUME NEW c \in L \union {rest}
      PROVE  new[c].size > 0 /\ PoolStart <= new[c].buffer /\ UpTo(new, c) <= PoolEnd
  BY <1>1, <1>2, <1>3, <1>4, PoolNumbers DEF Tiled
<1>6. ASSUME NEW c \in L \union {rest}, NEW d \in L \union {rest}, c # d
      PROVE  UpTo(new, c) <= new[d].buffer \/ UpTo(new, d) <= new[c].buffer
  <2>1. CASE c \in L \ {b} /\ d \in L \ {b}
    BY <1>3, <1>6, <2>1 DEF Tiled
  <2>2. CASE c \in L \ {b} /\ d \in {b, rest}
    <3>1. UpTo(bl, c) <= bl[b].buffer \/ UpTo(bl, b) <= bl[c].buffer
      BY <2>2 DEF Tiled
    <3> QED  BY <1>1, <1>2, <1>3, <1>4, <2>2, <3>1
  <2>3. CASE d \in L \ {b} /\ c \in {b, rest}
    <3>1. UpTo(bl, d) <= bl[b].buffer \/ UpTo(bl, b) <= bl[d].buffer
      BY <2>3 DEF Tiled
    <3> QED  BY <1>1, <1>2, <1>3, <1>4, <2>3, <3>1
  <2>4. CASE c \in {b, rest} /\ d \in {b, rest}
    BY <1>1, <1>2, <1>4, <1>6, <2>4
  <2> QED  BY <2>1, <2>2, <2>3, <2>4
<1>7. ASSUME NEW x \in PoolStart .. PoolEnd - 1
      PROVE  \E c \in L \union {rest} : new[c].buffer <= x /\ x < UpTo(new, c)
  <2>1. PICK c \in L : bl[c].buffer <= x /\ x < UpTo(bl, c)
    BY DEF Tiled
  <2>2. CASE c # b
    BY <1>3, <2>1, <2>2
  <2>3. CASE c = b /\ x < bl[b].buffer + n
    BY <1>4, <2>1, <2>3
  <2>4. CASE c = b /\ ~(x < bl[b].buffer + n)
    <3>1. new[rest].buffer <= x /\ x < UpTo(new, rest)
      BY <1>2, <1>4, <2>1, <2>4, PoolNumbers
    <3> QED  BY <3>1
  <2> QED  BY <2>2, <2>3, <2>4
<1> QED  BY <1>5, <1>6, <1>7 DEF Tiled

\* A block is extended by the one after it.
LEMMA MergeTiles ==
  ASSUME NEW bl \in AllBlocks, NEW new \in AllBlocks, NEW L \in SUBSET Headers, Tiled(bl, L),
         NEW b \in L, NEW c \in L, b # c, UpTo(bl, b) = bl[c].buffer,
         new[b].buffer = bl[b].buffer, new[b].size = bl[b].size + bl[c].size,
         SamePlace(bl, new, L \ {b, c})
  PROVE  Tiled(new, L \ {c})
<1>1. \A d \in L : d \in Headers /\ new[d].buffer \in Nat /\ new[d].size \in Nat /\ UpTo(new, d) \in Nat
  BY BlockNumbers
<1>2. \A d \in L : d \in Headers /\ bl[d].buffer \in Nat /\ bl[d].size \in Nat /\ UpTo(bl, d) \in Nat
  BY BlockNumbers
<1>3. \A d \in L \ {b, c} : new[d].buffer = bl[d].buffer /\ new[d].size = bl[d].size /\ UpTo(new, d) = UpTo(bl, d)
  BY DEF SamePlace, UpTo
<1>4. /\ UpTo(new, b) = UpTo(bl, c) /\ UpTo(bl, b) = bl[b].buffer + bl[b].size
      /\ UpTo(bl, c) = bl[c].buffer + bl[c].size /\ bl[c].size > 0 /\ bl[b].size > 0
  BY <1>2 DEF UpTo, Tiled
<1>5. ASSUME NEW d \in L \ {c}
      PROVE  new[d].size > 0 /\ PoolStart <= new[d].buffer /\ UpTo(new, d) <= PoolEnd
  <2>1. \A e \in L : bl[e].size > 0 /\ PoolStart <= bl[e].buffer /\ UpTo(bl, e) <= PoolEnd
    BY DEF Tiled
  <2>2. CASE d = b
    <3>1. new[b].size > 0
      BY <1>2, <1>4
    <3> QED  BY <1>4, <2>1, <2>2, <3>1
  <2>3. CASE d # b
    BY <1>3, <2>1, <2>3
  <2> QED  BY <2>2, <2>3
<1>6. ASSUME NEW d \in L \ {b, c}  PROVE UpTo(bl, d) <= bl[b].buffer \/ UpTo(bl, c) <= bl[d].buffer
  <2>1. UpTo(bl, d) <= bl[b].buffer \/ UpTo(bl, b) <= bl[d].buffer
    BY DEF Tiled
  <2>2. UpTo(bl, d) <= bl[c].buffer \/ UpTo(bl, c) <= bl[d].buffer
    BY DEF Tiled
  <2>3. bl[d].size > 0 /\ UpTo(bl, d) = bl[d].buffer + bl[d].size
    BY DEF Tiled, UpTo
  <2> QED  BY <1>2, <1>4, <2>1, <2>2, <2>3
<1>7. ASSUME NEW d \in L \ {c}, NEW e \in L \ {c}, d # e
      PROVE  UpTo(new, d) <= new[e].buffer \/ UpTo(new, e) <= new[d].buffer
  <2>1. CASE d # b /\ e # b
    BY <1>3, <1>7, <2>1 DEF Tiled
  <2>2. CASE d = b
    BY <1>3, <1>4, <1>6, <1>7, <2>2
  <2>3. CASE e = b
    BY <1>3, <1>4, <1>6, <1>7, <2>3
  <2> QED  BY <2>1, <2>2, <2>3
<1>8. ASSUME NEW x \in PoolStart .. PoolEnd - 1
      PROVE  \E d \in L \ {c} : new[d].buffer <= x /\ x < UpTo(new, d)
  <2>1. PICK d \in L : bl[d].buffer <= x /\ x < UpTo(bl, d)
    BY DEF Tiled
  <2>2. CASE d \in L \ {b, c}
    BY <1>3, <2>1, <2>2
  <2>3. CASE d = b \/ d = c
    <3>1. x \in Int
      BY PoolNumbers
    <3>2. bl[b].buffer <= x /\ x < UpTo(bl, c)
      <4>1. PICK lb \in Nat, sb \in Nat, sc \in Nat :
              lb = bl[b].buffer /\ sb = bl[b].size /\ sc = bl[c].size
        BY <1>2
      <4>2. UpTo(bl, b) = lb + sb /\ bl[c].buffer = lb + sb /\ UpTo(bl, c) = lb + sb + sc /\ sb > 0 /\ sc > 0
        BY <1>4, <4>1
      <4>3. (lb <= x /\ x < lb + sb) \/ (lb + sb <= x /\ x < lb + sb + sc)
        BY <2>1, <2>3, <4>1, <4>2
      <4>4. lb <= x /\ x < lb + sb + sc
        BY <3>1, <4>2, <4>3
      <4> QED  BY <4>1, <4>2, <4>4
    <3>3. new[b].buffer <= x /\ x < UpTo(new, b)
      BY <1>4, <3>2
    <3> QED  BY <3>3
  <2> QED  BY <2>2, <2>3
<1> QED  BY <1>5, <1>7, <1>8 DEF Tiled

\* A number rounded up to a multiple of another.
LEMMA RoundedUp ==
  ASSUME NEW x \in Nat, NEW a \in Nat \ {0}, NEW y, y = ((x + a - 1) \div a) * a
  PROVE  y \in Nat /\ x <= y /\ y % a = 0
<1>. DEFINE q == (x + a - 1) \div a
<1>1. q \in Nat /\ a * q <= x + a - 1 /\ x + a - 1 < a * q + a
  OBVIOUS
<1>. HIDE DEF q
<1>2. PICK p : p = a * q
  OBVIOUS
<1>3. p \in Nat /\ y = p /\ x <= p
  <2>1. y = q * a
    BY DEF q
  <2>2. q * a = a * q /\ a * q \in Nat
    BY <1>1
  <2>3. p \in Nat /\ p <= x + a - 1 /\ x + a - 1 < p + a
    BY <1>1, <1>2, <2>2
  <2> QED  BY <1>2, <2>1, <2>2, <2>3
<1>4. (a * q) % a = 0
  BY <1>1
<1> QED  BY <1>2, <1>3, <1>4

\* What a request takes of a block: its padding aligns what is returned.
LEMMA NewSizeFacts ==
  ASSUME NEW blk, blk.buffer \in Nat, NEW size \in Sizes, NEW align \in Aligns, NEW n, n = NewSize(blk, size, align)
  PROVE  /\ size \in Nat /\ size > 0 /\ n \in Nat /\ size <= n
         /\ (blk.buffer + (n - size)) % align = 0
<1>1. align \in Nat \ {0} /\ size \in Nat /\ size > 0 /\ \E p \in 0 .. align : 2^p = align
  BY PoolAssumption
<1>2. 2^Log2(align) = align
  BY <1>1, Zenon DEF Log2
<1>3. PICK x \in Nat : x = blk.buffer
  OBVIOUS
<1>4. PICK y : y = ((x + align - 1) \div align) * align
  OBVIOUS
<1>5. n = size + y - x
  BY <1>2, <1>3, <1>4, Zenon DEF NewSize
<1>6. y \in Nat /\ x <= y /\ y % align = 0
  BY <1>1, <1>4, RoundedUp
<1>7. n \in Nat /\ size <= n /\ x + (n - size) = y
  BY <1>1, <1>5, <1>6
<1> QED  BY <1>1, <1>3, <1>6, <1>7

\* Blocks of a list are in address order and do not touch.
Sorted(bl, s) == \A i, j \in 1 .. Len(s) : i < j => UpTo(bl, s[i]) < bl[s[j]].buffer

\* No block is twice in a list in address order.
LEMMA SortedDistinct ==
  ASSUME NEW bl \in AllBlocks, NEW s \in Seq(Headers), Sorted(bl, s), \A i \in 1 .. Len(s) : bl[s[i]].size > 0
  PROVE  Distinct(s)
<1>1. Len(s) \in Nat
  BY LenProperties
<1>2. \A i \in 1 .. Len(s) : s[i] \in Headers
  BY ElementsOf
<1>3. ASSUME NEW i \in 1 .. Len(s), NEW j \in 1 .. Len(s), i < j  PROVE s[i] # s[j]
  <2>1. UpTo(bl, s[i]) < bl[s[j]].buffer
    BY <1>3 DEF Sorted
  <2>2. bl[s[i]].buffer < UpTo(bl, s[i]) /\ bl[s[i]].buffer \in Nat /\ UpTo(bl, s[i]) \in Nat
    BY <1>2, BlockNumbers
  <2>. SUFFICES ASSUME s[i] = s[j]  PROVE FALSE
    OBVIOUS
  <2>3. PICK x \in Nat, y \in Nat : x = bl[s[i]].buffer /\ y = UpTo(bl, s[i])
    BY <2>2
  <2>4. y < x /\ x < y
    BY <2>1, <2>2, <2>3
  <2> QED  BY <2>3, <2>4
<1> QED  BY <1>1, <1>3 DEF Distinct

\* An entry is removed, or its block replaced by one that has the end of it.
LEMMA RemoveAtSorted ==
  ASSUME NEW bl, NEW new, NEW s, NEW k, NEW t,
         Removed(s, k, t), Sorted(bl, s), SamePlace(bl, new, ToSet(s))
  PROVE  Sorted(new, t)
<1>0. /\ s \in Seq(Headers) /\ k \in 1 .. Len(s) /\ t \in Seq(Headers) /\ Len(t) = Len(s) - 1
      /\ \A i \in 1 .. Len(t) : t[i] = IF i < k THEN s[i] ELSE s[i + 1]
  BY DEF Removed
<1>. USE <1>0
<1>1. Len(s) \in Nat /\ \A i \in 1 .. Len(s) : new[s[i]].buffer = bl[s[i]].buffer /\ new[s[i]].size = bl[s[i]].size
  BY LenProperties, ElementsOf DEF SamePlace
<1>2. \A i \in 1 .. Len(s) : new[s[i]].buffer = bl[s[i]].buffer /\ UpTo(new, s[i]) = UpTo(bl, s[i])
  BY <1>1 DEF UpTo
<1>3. ASSUME NEW i \in 1 .. Len(t), NEW j \in 1 .. Len(t), i < j  PROVE UpTo(new, t[i]) < new[t[j]].buffer
  <2>1. PICK m \in 1 .. Len(s), n \in 1 .. Len(s) : m < n /\ t[i] = s[m] /\ t[j] = s[n]
    <3>. DEFINE m == IF i < k THEN i ELSE i + 1
                n == IF j < k THEN j ELSE j + 1
    <3>1. m \in 1 .. Len(s) /\ n \in 1 .. Len(s) /\ m < n
      BY <1>1, <1>3
    <3>2. t[i] = s[m] /\ t[j] = s[n]
      OBVIOUS
    <3>. HIDE DEF m, n
    <3> QED  BY <3>1, <3>2
  <2> QED  BY <1>2, <2>1 DEF Sorted
<1> QED  BY <1>3 DEF Sorted

\* It does when a block is replaced by one that is inside of it.
LEMMA ReplaceAtSorted ==
  ASSUME NEW bl \in AllBlocks, NEW new \in AllBlocks, NEW s, NEW k, NEW x, NEW t,
         Replaced(s, k, x, t), Sorted(bl, s), Distinct(s), SamePlace(bl, new, ToSet(s) \ {s[k]}),
         new[x].buffer >= bl[s[k]].buffer, UpTo(new, x) = UpTo(bl, s[k])
  PROVE  Sorted(new, t)
<1>0. /\ s \in Seq(Headers) /\ k \in 1 .. Len(s) /\ x \in Headers /\ t \in Seq(Headers) /\ Len(t) = Len(s)
      /\ \A i \in 1 .. Len(s) : t[i] = IF i = k THEN x ELSE s[i]
  BY DEF Replaced
<1>. USE <1>0
<1>1. Len(s) \in Nat /\ \A i \in 1 .. Len(s) : s[i] \in Headers
  BY LenProperties, ElementsOf
<1>1a. \A i \in 1 .. Len(s) : i # k => new[s[i]].buffer = bl[s[i]].buffer /\ new[s[i]].size = bl[s[i]].size
  <2>1. \A i \in 1 .. Len(s) : i # k => s[i] \in ToSet(s) \ {s[k]}
    BY ElementsOf DEF Distinct
  <2> QED  BY <2>1 DEF SamePlace
<1>2. \A i \in 1 .. Len(s) : UpTo(new, t[i]) = UpTo(bl, s[i]) /\ new[t[i]].buffer >= bl[s[i]].buffer
  <2>. SUFFICES ASSUME NEW i \in 1 .. Len(s)
       PROVE  UpTo(new, t[i]) = UpTo(bl, s[i]) /\ new[t[i]].buffer >= bl[s[i]].buffer
    OBVIOUS
  <2>1. CASE i = k
    BY <2>1
  <2>2. CASE i # k
    <3>1. t[i] = s[i] /\ UpTo(new, s[i]) = UpTo(bl, s[i]) /\ new[s[i]].buffer = bl[s[i]].buffer
      BY <1>1a, <2>2 DEF UpTo
    <3>2. bl[s[i]].buffer \in Nat
      BY <1>1, BlockNumbers
    <3> QED  BY <3>1, <3>2
  <2> QED  BY <2>1, <2>2
<1>3. \A i \in 1 .. Len(s) : t[i] \in Headers
  BY <1>1
<1>4. ASSUME NEW i \in 1 .. Len(s), NEW j \in 1 .. Len(s), i < j  PROVE UpTo(new, t[i]) < new[t[j]].buffer
  <2>1. UpTo(bl, s[i]) < bl[s[j]].buffer
    BY <1>4 DEF Sorted
  <2>2. UpTo(bl, s[i]) \in Nat /\ bl[s[j]].buffer \in Nat /\ new[t[j]].buffer \in Nat
    BY <1>1, <1>3, BlockNumbers
  <2> QED  BY <1>2, <2>1, <2>2
<1> QED  BY <1>4 DEF Sorted

\* A block that lies between what is kept of a list before and after it.
FitsIn(bl, new, s, x, i, j) ==
  /\ \A n \in 1 .. Len(s) : ~(n \in i + 1 .. j - 1)
       => new[s[n]].buffer = bl[s[n]].buffer /\ new[s[n]].size = bl[s[n]].size
  /\ \A n \in 1 .. i : UpTo(bl, s[n]) < new[x].buffer
  /\ \A n \in j .. Len(s) : UpTo(new, x) < bl[s[n]].buffer

\* It does when some blocks are replaced by one that fits in between the others.
LEMMA SpliceSorted ==
  ASSUME NEW bl, NEW new, NEW s, NEW x, NEW i, NEW j, NEW t,
         Spliced(s, x, i, j, t), Sorted(bl, s), FitsIn(bl, new, s, x, i, j)
  PROVE  Sorted(new, t)
<1>0. /\ s \in Seq(Headers) /\ x \in Headers /\ i \in Nat /\ j \in Nat /\ i < j /\ j <= Len(s) + 1
      /\ Len(t) = Len(s) + 2 + i - j
      /\ \A n \in 1 .. Len(t) : t[n] = IF n <= i THEN s[n] ELSE IF n = i + 1 THEN x ELSE s[n + j - i - 2]
  BY DEF Spliced, SpliceOf
<1>. USE <1>0 DEF FitsIn
<1>1. Len(s) \in Nat /\ \A n \in 1 .. Len(s) : s[n] \in Headers
  BY LenProperties, ElementsOf
<1>2. \A n \in 1 .. Len(s) : ~(n \in i + 1 .. j - 1)
        => new[s[n]].buffer = bl[s[n]].buffer /\ UpTo(new, s[n]) = UpTo(bl, s[n])
  BY DEF UpTo
<1>3. \A n \in 1 .. Len(t) : n <= i => n \in 1 .. Len(s) /\ t[n] = s[n]
  BY <1>1
<1>4. \A n \in 1 .. Len(t) : n > i + 1 => n + j - i - 2 \in j .. Len(s) /\ t[n] = s[n + j - i - 2]
  BY <1>1
<1>5. \A n \in 1 .. Len(t) : n = i + 1 => t[n] = x
  OBVIOUS
<1>6. ASSUME NEW m \in 1 .. Len(t), NEW n \in 1 .. Len(t), m < n  PROVE UpTo(new, t[m]) < new[t[n]].buffer
  <2>1. CASE n <= i
    <3>1. m <= i /\ m \in 1 .. Len(s) /\ n \in 1 .. Len(s) /\ t[m] = s[m] /\ t[n] = s[n]
      BY <1>1, <1>3, <1>6, <2>1
    <3>2. UpTo(bl, s[m]) < bl[s[n]].buffer
      BY <1>6, <3>1 DEF Sorted
    <3>3. ~(m \in i + 1 .. j - 1) /\ ~(n \in i + 1 .. j - 1)
      BY <2>1, <3>1
    <3>4. UpTo(new, s[m]) = UpTo(bl, s[m]) /\ new[s[n]].buffer = bl[s[n]].buffer
      BY <1>2, <3>1, <3>3
    <3> QED  BY <3>1, <3>2, <3>4
  <2>2. CASE m <= i /\ n = i + 1
    <3>1. m \in 1 .. Len(s) /\ t[m] = s[m]
      BY <1>3, <2>2
    <3>2. t[n] = x
      BY <1>5, <2>2
    <3>3. m \in 1 .. i /\ ~(m \in i + 1 .. j - 1)
      BY <2>2
    <3> QED  BY <1>2, <3>1, <3>2, <3>3
  <2>3. CASE m <= i /\ n > i + 1
    <3>1. m \in 1 .. Len(s) /\ t[m] = s[m] /\ n + j - i - 2 \in j .. Len(s) /\ t[n] = s[n + j - i - 2]
      BY <1>3, <1>4, <2>3
    <3>2. UpTo(bl, s[m]) < bl[s[n + j - i - 2]].buffer
      BY <1>1, <2>3, <3>1 DEF Sorted
    <3>3. n + j - i - 2 \in 1 .. Len(s) /\ ~(n + j - i - 2 \in i + 1 .. j - 1) /\ ~(m \in i + 1 .. j - 1)
      BY <1>1, <2>3, <3>1
    <3> QED  BY <1>2, <3>1, <3>2, <3>3
  <2>4. CASE m = i + 1
    <3>1. n > i + 1 /\ t[m] = x
      BY <1>5, <1>6, <2>4
    <3>2. n + j - i - 2 \in j .. Len(s) /\ t[n] = s[n + j - i - 2]
      BY <1>4, <3>1
    <3>3. n + j - i - 2 \in 1 .. Len(s) /\ ~(n + j - i - 2 \in i + 1 .. j - 1)
      <4>1. \A q \in j .. Len(s) : q \in 1 .. Len(s) /\ ~(q \in i + 1 .. j - 1)
        BY <1>1
      <4> QED  BY <3>2, <4>1
    <3> QED  BY <1>2, <3>1, <3>2, <3>3
  <2>5. CASE m > i + 1
    <3>1. n > i + 1
      BY <1>6, <2>5
    <3>2. /\ n + j - i - 2 \in j .. Len(s) /\ t[n] = s[n + j - i - 2]
          /\ m + j - i - 2 \in j .. Len(s) /\ t[m] = s[m + j - i - 2]
      BY <1>4, <2>5, <3>1
    <3>3. /\ n + j - i - 2 \in 1 .. Len(s) /\ ~(n + j - i - 2 \in i + 1 .. j - 1)
          /\ m + j - i - 2 \in 1 .. Len(s) /\ ~(m + j - i - 2 \in i + 1 .. j - 1)
      BY <1>1, <3>2
    <3>4. m + j - i - 2 < n + j - i - 2
      BY <1>6
    <3>5. UpTo(bl, s[m + j - i - 2]) < bl[s[n + j - i - 2]].buffer
      BY <3>3, <3>4 DEF Sorted
    <3> QED  BY <1>2, <3>2, <3>3, <3>5
  <2>6. m <= i \/ m = i + 1 \/ m > i + 1
    OBVIOUS
  <2>7. n <= i \/ n = i + 1 \/ n > i + 1
    OBVIOUS
  <2> QED  BY <2>1, <2>2, <2>3, <2>4, <2>5, <2>6, <2>7
<1> QED  BY <1>6 DEF Sorted

\* Where a block belongs in the free list.
LEMMA PlaceOfFacts ==
  ASSUME blocks \in AllBlocks, freeList \in Seq(Headers), NEW b \in Headers, Sorted(blocks, freeList),
         NEW k, k = PlaceOf(b)
  PROVE  /\ k \in 1 .. Len(freeList) + 1
         /\ \A i \in 1 .. Len(freeList) : i < k => blocks[freeList[i]].buffer < blocks[b].buffer
         /\ \A i \in 1 .. Len(freeList) : i >= k => blocks[freeList[i]].buffer >= blocks[b].buffer
<1>. DEFINE n == Len(freeList)
            T == {i \in 1 .. n : blocks[freeList[i]].buffer >= blocks[b].buffer}
            m == IF T # {} THEN Min(T) ELSE 0
<1>1. n \in Nat /\ \A i \in 1 .. n : freeList[i] \in Headers
  BY LenProperties, ElementsOf
<1>2. k = IF m = 0 THEN n + 1 ELSE m
  BY DEF PlaceOf, SelectInSeq
<1>3. m \in 0 .. n /\ (m = 0 => T = {}) /\ (m > 0 => m \in T /\ \A i \in T : m <= i)
  <2>1. T \in SUBSET (1 .. n)
    OBVIOUS
  <2>. HIDE DEF T, n
  <2> QED  BY <1>1, <2>1, FirstOf
<1>. HIDE DEF m
<1>4. \A i \in 1 .. n : blocks[freeList[i]].buffer \in Nat /\ UpTo(blocks, freeList[i]) \in Nat
                        /\ blocks[freeList[i]].buffer <= UpTo(blocks, freeList[i])
  BY <1>1, BlockNumbers
<1>5. blocks[b].buffer \in Nat
  BY BlockNumbers
<1>6. k \in 1 .. n + 1 /\ (k <= n => k \in T)
  BY <1>1, <1>2, <1>3
<1>7. ASSUME NEW i \in 1 .. n, i < k  PROVE blocks[freeList[i]].buffer < blocks[b].buffer
  <2>1. i \notin T
    BY <1>1, <1>2, <1>3, <1>7
  <2> QED  BY <1>4, <1>5, <2>1
<1>8. ASSUME NEW i \in 1 .. n, i >= k  PROVE blocks[freeList[i]].buffer >= blocks[b].buffer
  <2>1. k \in 1 .. n /\ blocks[freeList[k]].buffer >= blocks[b].buffer
    BY <1>1, <1>6, <1>8
  <2>2. CASE i = k
    BY <2>1, <2>2
  <2>3. CASE k < i
    <3>1. UpTo(blocks, freeList[k]) < blocks[freeList[i]].buffer
      BY <2>1, <2>3 DEF Sorted
    <3>2. PICK x \in Nat, y \in Nat, z \in Nat, u \in Nat :
            /\ x = blocks[freeList[k]].buffer /\ y = UpTo(blocks, freeList[k])
            /\ z = blocks[freeList[i]].buffer /\ u = blocks[b].buffer
      BY <1>4, <1>5, <2>1
    <3>3. x >= u /\ x <= y /\ y < z
      BY <1>4, <2>1, <3>1, <3>2
    <3>4. z >= u
      BY <3>3
    <3> QED  BY <3>2, <3>4
  <2> QED  BY <1>1, <1>6, <1>8, <2>2, <2>3
<1> QED  BY <1>6, <1>7, <1>8

\* Releasing a block keeps the pool tiled and the free list in order, with no
\* two neighbours that touch: at most it, or the block after it, or both, give
\* their headers back.
LEMMA FreeListAdds ==
  ASSUME blocks \in AllBlocks, freeList \in Seq(Headers), NEW b \in Listed, b \notin ToSet(freeList),
         Listed \subseteq Headers, freeHeaders = Headers \ Listed,
         Tiled(blocks, Listed), Sorted(blocks, freeList), AddToFreeList(b)
  PROVE  \E gone \in SUBSET (ToSet(freeList) \union {b}) :
           /\ blocks' \in AllBlocks /\ freeList' \in Seq(Headers)
           /\ ToSet(freeList') = (ToSet(freeList) \union {b}) \ gone
           /\ freeHeaders' = Headers \ (Listed \ gone)
           /\ Tiled(blocks', Listed \ gone) /\ Sorted(blocks', freeList')
           /\ \A c \in Headers \ (ToSet(freeList) \union {b}) : blocks'[c] = blocks[c]
<1>. DEFINE n == Len(freeList)
            F == ToSet(freeList)
            k == PlaceOf(b)
            mp == MergesPrev(b, k)
            mn == MergesNext(b, k)
            prev == freeList[k - 1]
            next == freeList[k]
            first == IF mp THEN prev ELSE b
            last == IF mn THEN next ELSE b
            gone == {b, last} \ {first}
            i == IF first # b THEN k - 2 ELSE k - 1
            j == IF last # b THEN k + 1 ELSE k
<1>1. n \in Nat /\ (\A m \in 1 .. n : freeList[m] \in Headers /\ freeList[m] \in F) /\ F \subseteq Headers /\ F \subseteq Listed
  BY LenProperties, ElementsOf DEF Listed
<1>2. /\ k \in 1 .. n + 1
      /\ \A m \in 1 .. n : m < k => blocks[freeList[m]].buffer < blocks[b].buffer
      /\ \A m \in 1 .. n : m >= k => blocks[freeList[m]].buffer >= blocks[b].buffer
  BY PlaceOfFacts
<1>3. /\ mp <=> k > 1 /\ UpTo(blocks, prev) = blocks[b].buffer
      /\ mn <=> k <= n /\ UpTo(blocks, b) = blocks[next].buffer
  BY DEF MergesPrev, MergesNext, End, UpTo
<1>4. /\ blocks' = [c \in Headers |->
           CASE c = first -> Block(blocks[first].buffer, UpTo(blocks, last) - blocks[first].buffer)
             [] c \in gone -> Block(0, 0)
             [] OTHER -> blocks[c]]
      /\ freeHeaders' = SymDiff(freeHeaders, gone)
      /\ freeList' = SubSeq(freeList, 1, i) \o <<first>> \o SubSeq(freeList, j, n)
  BY DEF AddToFreeList, Spanning, Toggle, End, UpTo
<1>5. b \in Headers /\ b \notin F
  OBVIOUS
<1>. HIDE DEF k, mp, mn, F, n
<1>6. mp => prev \in F /\ k - 1 \in 1 .. n
  BY <1>1, <1>2, <1>3
<1>7. mn => next \in F /\ k \in 1 .. n
  BY <1>1, <1>2, <1>3
<1>8. first \in F \union {b} /\ last \in F \union {b} /\ (first # b <=> mp) /\ (last # b <=> mn) /\ gone \subseteq F \union {b}
  BY <1>5, <1>6, <1>7
<1>9. Distinct(freeList)
  <2>1. \A m \in 1 .. Len(freeList) : blocks[freeList[m]].size > 0
    BY <1>1 DEF Tiled, n
  <2> QED  BY <2>1, SortedDistinct
\* The blocks before b's place end where b starts, or before that.
<1>10. /\ \A m \in 1 .. n : m < k => UpTo(blocks, freeList[m]) <= blocks[b].buffer
       /\ \A m \in 1 .. n : m >= k => UpTo(blocks, b) <= blocks[freeList[m]].buffer
  <2>. SUFFICES ASSUME NEW m \in 1 .. n
       PROVE  /\ m < k => UpTo(blocks, freeList[m]) <= blocks[b].buffer
              /\ m >= k => UpTo(blocks, b) <= blocks[freeList[m]].buffer
    OBVIOUS
  <2>1. freeList[m] \in Listed /\ freeList[m] \in Headers /\ freeList[m] # b
    BY <1>1, <1>5
  <2>2. UpTo(blocks, freeList[m]) <= blocks[b].buffer \/ UpTo(blocks, b) <= blocks[freeList[m]].buffer
    BY <2>1 DEF Tiled
  <2>3. blocks[freeList[m]].size > 0 /\ blocks[b].size > 0
    BY <2>1 DEF Tiled
  <2>4. PICK x \in Nat, y \in Nat, z \in Nat, u \in Nat :
          /\ x = blocks[freeList[m]].buffer /\ y = UpTo(blocks, freeList[m])
          /\ z = blocks[b].buffer /\ u = UpTo(blocks, b)
    BY <1>5, <2>1, BlockNumbers
  <2>5. x < y /\ z < u /\ (y <= z \/ u <= x)
    BY <1>5, <2>1, <2>2, <2>3, <2>4, BlockNumbers
  <2>6. (m < k => x < z) /\ (m >= k => x >= z)
    BY <1>2, <2>4
  <2>7. (m < k => y <= z) /\ (m >= k => u <= x)
    BY <1>2, <2>5, <2>6
  <2> QED  BY <2>4, <2>7
<1>11. first \in Headers /\ last \in Headers /\ first \in Listed /\ last \in Listed
  BY <1>1, <1>5, <1>8
<1>12. /\ \A c \in Headers : blocks[c].buffer \in Nat /\ blocks[c].size \in Nat /\ UpTo(blocks, c) \in Nat
                             /\ blocks[c].buffer <= UpTo(blocks, c)
       /\ \A c \in Listed : blocks[c].size > 0 /\ blocks[c].buffer < UpTo(blocks, c)
  <2>1. \A c \in Listed : blocks[c].size > 0
    BY DEF Tiled
  <2> QED  BY <2>1, BlockNumbers
\* The block that is left is as long as the ones it is made of.
<1>13. blocks[first].buffer <= blocks[b].buffer /\ UpTo(blocks, b) <= UpTo(blocks, last)
  <2>1. blocks[first].buffer <= blocks[b].buffer
    <3>1. CASE mp
      <4>1. first = prev /\ UpTo(blocks, first) = blocks[b].buffer
        BY <1>3, <3>1
      <4> QED  BY <1>11, <1>12, <4>1
    <3>2. CASE ~mp
      BY <1>5, <1>12, <3>2
    <3> QED  BY <3>1, <3>2
  <2>2. UpTo(blocks, b) <= UpTo(blocks, last)
    <3>1. CASE mn
      <4>1. last = next /\ UpTo(blocks, b) = blocks[last].buffer
        BY <1>3, <3>1
      <4> QED  BY <1>11, <1>12, <4>1
    <3>2. CASE ~mn
      BY <1>5, <1>12, <3>2
    <3> QED  BY <3>1, <3>2
  <2> QED  BY <2>1, <2>2
<1>14. UpTo(blocks, last) - blocks[first].buffer \in Nat
  <2>1. blocks[first].buffer \in Nat /\ blocks[b].buffer \in Nat /\ UpTo(blocks, b) \in Nat /\ UpTo(blocks, last) \in Nat
    BY <1>5, <1>11, <1>12
  <2>2. blocks[b].buffer <= UpTo(blocks, b)
    BY <1>5, <1>12
  <2>3. PICK w \in Nat, x \in Nat, y \in Nat, z \in Nat :
          w = blocks[first].buffer /\ x = blocks[b].buffer /\ y = UpTo(blocks, b) /\ z = UpTo(blocks, last)
    BY <2>1
  <2>4. w <= x /\ x <= y /\ y <= z
    BY <1>13, <2>2, <2>3
  <2>5. z - w \in Nat
    BY <2>4
  <2> QED  BY <2>3, <2>5
<1>15. /\ blocks'[first].buffer = blocks[first].buffer
       /\ blocks'[first].size = UpTo(blocks, last) - blocks[first].buffer
       /\ UpTo(blocks', first) = UpTo(blocks, last)
       /\ \A c \in Headers \ {b, prev, next} : blocks'[c] = blocks[c]
       /\ \A c \in Headers \ {b, first, last} : blocks'[c] = blocks[c]
  <2>1. blocks'[first] = Block(blocks[first].buffer, UpTo(blocks, last) - blocks[first].buffer)
    <3>1. blocks' = [c \in Headers |->
             CASE c = first -> Block(blocks[first].buffer, UpTo(blocks, last) - blocks[first].buffer)
               [] c \in gone -> Block(0, 0)
               [] OTHER -> blocks[c]]
      BY <1>4
    <3>2. first \in Headers /\ first \notin gone
      BY <1>11
    <3>. HIDE DEF first, last, gone
    <3> QED  BY <3>1, <3>2
  <2>2. \A c \in Headers : c # first /\ c \notin gone => blocks'[c] = blocks[c]
    <3>. HIDE DEF first, last, gone
    <3> QED  BY <1>4
  <2>3. \A c \in Headers \ {b, first, last} : c # first /\ c \notin gone
    OBVIOUS
  <2>4. {b, first, last} \subseteq {b, prev, next}
    OBVIOUS
  <2>. HIDE DEF first, last, gone
  <2>5. blocks'[first].buffer = blocks[first].buffer /\ blocks'[first].size = UpTo(blocks, last) - blocks[first].buffer
    BY <2>1 DEF Block
  <2>6. UpTo(blocks', first) = UpTo(blocks, last)
    <3>1. PICK x \in Nat, y \in Nat : x = blocks[first].buffer /\ y = UpTo(blocks, last)
      BY <1>11, <1>12
    <3>2. x + (y - x) = y
      OBVIOUS
    <3> QED  BY <2>5, <3>1, <3>2 DEF UpTo
  <2> QED  BY <2>2, <2>3, <2>4, <2>5, <2>6
<1>16. blocks' \in AllBlocks
  <2>. HIDE DEF first, last, gone
  <2>1. \A c \in Headers : (CASE c = first -> Block(blocks[first].buffer, UpTo(blocks, last) - blocks[first].buffer)
                             [] c \in gone -> Block(0, 0)
                             [] OTHER -> blocks[c]) \in [buffer : Nat, size : Nat, aligned : Nat]
    <3>. SUFFICES ASSUME NEW c \in Headers
         PROVE  (CASE c = first -> Block(blocks[first].buffer, UpTo(blocks, last) - blocks[first].buffer)
                   [] c \in gone -> Block(0, 0)
                   [] OTHER -> blocks[c]) \in [buffer : Nat, size : Nat, aligned : Nat]
      OBVIOUS
    <3>1. Block(blocks[first].buffer, UpTo(blocks, last) - blocks[first].buffer) \in [buffer : Nat, size : Nat, aligned : Nat]
      BY <1>11, <1>12, <1>14 DEF Block
    <3>2. Block(0, 0) \in [buffer : Nat, size : Nat, aligned : Nat]
      BY DEF Block
    <3>3. blocks[c] \in [buffer : Nat, size : Nat, aligned : Nat]
      BY DEF AllBlocks
    <3>. HIDE DEF AllBlocks
    <3> QED  BY <3>1, <3>2, <3>3, Zenon
  <2> QED  BY <1>4, <2>1 DEF AllBlocks
<1>17. Tiled(blocks', Listed \ gone)
  <2>1. CASE ~mp /\ ~mn
    <3>1. gone = {} /\ first = b /\ last = b
      BY <2>1
    <3>2. blocks'[b].buffer = blocks[b].buffer /\ blocks'[b].size = blocks[b].size
      <4>1. PICK x \in Nat, y \in Nat : x = blocks[b].buffer /\ y = blocks[b].size
        BY <1>5, <1>12
      <4>2. (x + y) - x = y
        OBVIOUS
      <4> QED  BY <1>15, <3>1, <4>1, <4>2 DEF UpTo
    <3>3. \A c \in Headers \ {b} : blocks'[c] = blocks[c]
      BY <1>15, <3>1
    <3>4. SamePlace(blocks, blocks', Listed)
      BY <3>2, <3>3 DEF SamePlace
    <3>5. Listed \ gone = Listed
      BY <3>1
    <3> QED  BY <3>4, <3>5, SamePlaceTiles
  <2>2. CASE mp /\ ~mn
    <3>1. gone = {b} /\ first = prev /\ last = b /\ prev # b /\ UpTo(blocks, prev) = blocks[b].buffer
      BY <1>3, <1>5, <1>6, <2>2
    <3>2. blocks'[prev].buffer = blocks[prev].buffer /\ blocks'[prev].size = blocks[prev].size + blocks[b].size
      <4>1. PICK x \in Nat, y \in Nat, z \in Nat, u \in Nat :
              x = blocks[prev].buffer /\ y = blocks[prev].size /\ z = blocks[b].buffer /\ u = blocks[b].size
        BY <1>5, <1>11, <1>12, <3>1
      <4>2. x + y = z /\ (z + u) - x = y + u
        BY <3>1, <4>1 DEF UpTo
      <4> QED  BY <1>15, <3>1, <4>1, <4>2 DEF UpTo
    <3>3. SamePlace(blocks, blocks', Listed \ {prev, b})
      BY <1>15, <3>1 DEF SamePlace
    <3>. HIDE DEF prev, next, first, last, gone
    <3> QED  BY <1>11, <1>16, <3>1, <3>2, <3>3, MergeTiles
  <2>3. CASE ~mp /\ mn
    <3>1. gone = {next} /\ first = b /\ last = next /\ next # b /\ UpTo(blocks, b) = blocks[next].buffer
      BY <1>3, <1>5, <1>7, <2>3
    <3>2. blocks'[b].buffer = blocks[b].buffer /\ blocks'[b].size = blocks[b].size + blocks[next].size
      <4>1. PICK x \in Nat, y \in Nat, z \in Nat, u \in Nat :
              x = blocks[b].buffer /\ y = blocks[b].size /\ z = blocks[next].buffer /\ u = blocks[next].size
        BY <1>5, <1>11, <1>12, <3>1
      <4>2. x + y = z /\ (z + u) - x = y + u
        BY <3>1, <4>1 DEF UpTo
      <4> QED  BY <1>15, <3>1, <4>1, <4>2 DEF UpTo
    <3>3. SamePlace(blocks, blocks', Listed \ {b, next})
      BY <1>15, <3>1 DEF SamePlace
    <3>. HIDE DEF prev, next, first, last, gone
    <3> QED  BY <1>11, <1>16, <3>1, <3>2, <3>3, MergeTiles
  <2>4. CASE mp /\ mn
    <3>1. /\ gone = {b, next} /\ first = prev /\ last = next /\ next # b /\ prev # b /\ prev # next
          /\ UpTo(blocks, prev) = blocks[b].buffer /\ UpTo(blocks, b) = blocks[next].buffer
      <4>1. k - 1 \in 1 .. n /\ k \in 1 .. n /\ k - 1 # k
        BY <1>2, <1>6, <1>7, <2>4
      <4>2. prev # next
        BY <1>9, <4>1 DEF Distinct, n
      <4> QED  BY <1>3, <1>5, <1>6, <1>7, <2>4, <4>2
    <3>. DEFINE mid == [blocks EXCEPT ![b] = Block(blocks[b].buffer, blocks[b].size + blocks[next].size)]
    <3>2. /\ mid \in AllBlocks
          /\ mid[b].buffer = blocks[b].buffer /\ mid[b].size = blocks[b].size + blocks[next].size
          /\ \A c \in Headers \ {b} : mid[c] = blocks[c]
      <4>1. Block(blocks[b].buffer, blocks[b].size + blocks[next].size) \in [buffer : Nat, size : Nat, aligned : Nat]
        <5>1. PICK x \in Nat, y \in Nat, z \in Nat : x = blocks[b].buffer /\ y = blocks[b].size /\ z = blocks[next].size
          BY <1>5, <1>11, <1>12, <3>1
        <5>2. y + z \in Nat
          OBVIOUS
        <5> QED  BY <5>1, <5>2 DEF Block
      <4>2. mid \in AllBlocks /\ mid[b] = Block(blocks[b].buffer, blocks[b].size + blocks[next].size)
        BY <1>5, <4>1 DEF AllBlocks
      <4> QED  BY <1>5, <4>2 DEF Block, AllBlocks
    <3>. HIDE DEF mid, first, last, gone, prev, next
    <3>3. SamePlace(blocks, mid, Listed \ {b, next})
      BY <3>2 DEF SamePlace
    <3>4. Tiled(mid, Listed \ {next})
      BY <1>11, <3>1, <3>2, <3>3, MergeTiles
    <3>5. /\ blocks'[prev].buffer = mid[prev].buffer /\ blocks'[prev].size = mid[prev].size + mid[b].size
          /\ UpTo(mid, prev) = mid[b].buffer
      <4>1. PICK x \in Nat, y \in Nat, z \in Nat, u \in Nat, v \in Nat, w \in Nat :
              /\ x = blocks[prev].buffer /\ y = blocks[prev].size /\ z = blocks[b].buffer /\ u = blocks[b].size
              /\ v = blocks[next].buffer /\ w = blocks[next].size
        BY <1>5, <1>11, <1>12, <3>1
      <4>2. x + y = z /\ z + u = v
        BY <3>1, <4>1 DEF UpTo
      <4>3. (v + w) - x = y + (u + w)
        BY <4>2
      <4>4. UpTo(blocks, next) = v + w
        BY <4>1 DEF UpTo
      <4>5. mid[prev] = blocks[prev]
        BY <1>11, <3>1, <3>2
      <4>6. blocks'[prev].size = (v + w) - x /\ blocks'[prev].buffer = x
        BY <1>15, <3>1, <4>1, <4>4
      <4>7. mid[prev].size + mid[b].size = y + (u + w) /\ mid[b].buffer = z /\ UpTo(mid, prev) = x + y
        BY <3>2, <4>1, <4>5 DEF UpTo
      <4> QED  BY <4>1, <4>2, <4>3, <4>5, <4>6, <4>7
    <3>6. SamePlace(mid, blocks', (Listed \ {next}) \ {prev, b})
      <4>. SUFFICES ASSUME NEW c \in (Listed \ {next}) \ {prev, b}  PROVE blocks'[c] = mid[c]
        BY DEF SamePlace
      <4> QED  BY <1>15, <3>1, <3>2
    <3>7. prev \in Listed \ {next} /\ b \in Listed \ {next} /\ Listed \ {next} \in SUBSET Headers
      BY <1>11, <3>1
    <3>8. Tiled(blocks', (Listed \ {next}) \ {b})
      BY <1>16, <3>1, <3>2, <3>4, <3>5, <3>6, <3>7, MergeTiles
    <3>9. (Listed \ {next}) \ {b} = Listed \ gone
      BY <3>1
    <3> QED  BY <3>8, <3>9
  <2> QED  BY <2>1, <2>2, <2>3, <2>4
<1>18. i \in Nat /\ j \in Nat /\ i < j /\ j <= n + 1
  <2>. HIDE DEF first, last
  <2> QED  BY <1>1, <1>2, <1>6, <1>7, <1>8
<1>18a. (mp => i = k - 2) /\ (~mp => i = k - 1) /\ (mn => j = k + 1) /\ (~mn => j = k)
  BY <1>8
<1>19. Spliced(freeList, first, i, j, freeList')
  <2>1. freeList' = SubSeq(freeList, 1, i) \o <<first>> \o SubSeq(freeList, j, Len(freeList))
    BY <1>4 DEF n
  <2>2. SpliceOf(freeList, first, i, j)
    BY <1>11, <1>18 DEF n, SpliceOf
  <2>. HIDE DEF i, j, first
  <2> QED  BY <2>1, <2>2, SpliceEntries
<1>20. {freeList[m] : m \in i + 1 .. j - 1} = (IF mp THEN {prev} ELSE {}) \union (IF mn THEN {next} ELSE {})
  <2>1. i + 1 .. j - 1 = (IF mp THEN {k - 1} ELSE {}) \union (IF mn THEN {k} ELSE {})
    <3>. HIDE DEF first, last
    <3> QED  BY <1>2, <1>8
  <2>. HIDE DEF i, j
  <2> QED  BY <2>1
<1>21. ToSet(freeList') = (F \union {b}) \ gone
  <2>1. ToSet(freeList') = (F \ {freeList[m] : m \in i + 1 .. j - 1}) \union {first}
    <3>. HIDE DEF i, j, first
    <3> QED  BY <1>9, <1>19, SpliceElements DEF F
  <2>2. mp /\ mn => prev # next
    <3>1. mp /\ mn => k - 1 \in 1 .. n /\ k \in 1 .. n /\ k - 1 # k
      BY <1>2, <1>6, <1>7
    <3> QED  BY <1>9, <3>1 DEF Distinct, n
  <2>3. first \in F \union {b} /\ (mp => first = prev /\ prev \in F /\ prev # b) /\ (~mp => first = b)
    BY <1>5, <1>6
  <2>4. (mn => last = next /\ next \in F /\ next # b) /\ (~mn => last = b)
    BY <1>5, <1>7
  <2>. HIDE DEF first, last, prev, next, i, j
  <2> QED  BY <1>5, <1>20, <2>1, <2>2, <2>3, <2>4
<1>. HIDE DEF i, j
<1>22. Sorted(blocks', freeList')
  <2>1. \A m \in 1 .. n : ~(m \in i + 1 .. j - 1)
          => blocks'[freeList[m]].buffer = blocks[freeList[m]].buffer /\ blocks'[freeList[m]].size = blocks[freeList[m]].size
    <3>. SUFFICES ASSUME NEW m \in 1 .. n, ~(m \in i + 1 .. j - 1)
         PROVE  blocks'[freeList[m]] = blocks[freeList[m]]
      OBVIOUS
    <3>1. (mp => m # k - 1) /\ (mn => m # k)
      <4>1. ASSUME mp  PROVE m # k - 1
        BY <1>2, <1>18, <1>18a, <4>1
      <4>2. ASSUME mn  PROVE m # k
        <5>1. j = k + 1
          BY <1>18a, <4>2
        <5>2. i = k - 2 \/ i = k - 1
          BY <1>18a
        <5> QED  BY <1>2, <1>18, <5>1, <5>2
      <4> QED  BY <4>1, <4>2
    <3>2. (mp => freeList[m] # prev) /\ (mn => freeList[m] # next)
      <4>1. (mp => k - 1 \in 1 .. Len(freeList)) /\ (mn => k \in 1 .. Len(freeList)) /\ m \in 1 .. Len(freeList)
        BY <1>6, <1>7 DEF n
      <4> QED  BY <1>9, <3>1, <4>1 DEF Distinct
    <3>3. freeList[m] \in Headers /\ freeList[m] # b
      BY <1>1, <1>5
    <3>4. freeList[m] # first /\ freeList[m] # last
      BY <3>2, <3>3
    <3> QED  BY <1>15, <3>3, <3>4
  <2>2. ASSUME NEW m \in 1 .. i  PROVE UpTo(blocks, freeList[m]) < blocks'[first].buffer
    <3>1. m \in 1 .. n /\ m < k
      BY <1>1, <1>2, <1>18, <1>18a
    <3>2. UpTo(blocks, freeList[m]) \in Nat /\ blocks[b].buffer \in Nat
      BY <1>1, <1>5, <1>12, <3>1
    <3>3. CASE mp
      <4>1. first = prev /\ i = k - 2 /\ k - 1 \in 1 .. n /\ m < k - 1
        BY <1>2, <1>6, <1>18a, <3>3
      <4>2. UpTo(blocks, freeList[m]) < blocks[freeList[k - 1]].buffer
        <5>. HIDE DEF first, last
        <5> QED  BY <3>1, <4>1 DEF Sorted, n
      <4> QED  BY <1>15, <4>1, <4>2
    <3>4. CASE ~mp
      <4>1. first = b /\ i = k - 1
        BY <1>18a, <3>4
      <4>2. UpTo(blocks, freeList[m]) <= blocks[b].buffer
        BY <1>10, <3>1
      <4>3. UpTo(blocks, freeList[m]) # blocks[b].buffer
        <5>1. CASE m = k - 1
          <6>1. k > 1 /\ freeList[m] = prev
            BY <1>2, <3>1, <5>1
          <6> QED  BY <1>3, <3>4, <6>1
        <5>2. CASE m < k - 1
          <6>1. k - 1 \in 1 .. n
            BY <1>1, <1>2, <3>1
          <6>2. UpTo(blocks, freeList[m]) < blocks[freeList[k - 1]].buffer
            BY <3>1, <5>2, <6>1 DEF Sorted, n
          <6>3. blocks[freeList[k - 1]].buffer < blocks[b].buffer /\ blocks[freeList[k - 1]].buffer \in Nat
            BY <1>1, <1>2, <1>12, <6>1
          <6> QED  BY <3>2, <6>2, <6>3
        <5>3. m = k - 1 \/ m < k - 1
          BY <1>2, <3>1
        <5> QED  BY <5>1, <5>2, <5>3
      <4> QED  BY <1>15, <3>2, <4>1, <4>2, <4>3
    <3> QED  BY <3>3, <3>4
  <2>3. ASSUME NEW m \in j .. n  PROVE UpTo(blocks', first) < blocks[freeList[m]].buffer
    <3>1. m \in 1 .. n /\ m >= k
      BY <1>1, <1>2, <1>18, <1>18a
    <3>2. UpTo(blocks, b) \in Nat /\ blocks[freeList[m]].buffer \in Nat
      BY <1>1, <1>5, <1>12, <3>1
    <3>3. CASE mn
      <4>1. last = next /\ j = k + 1 /\ k \in 1 .. n /\ k < m
        BY <1>2, <1>7, <1>18a, <3>3
      <4>2. UpTo(blocks, freeList[k]) < blocks[freeList[m]].buffer
        <5>. HIDE DEF first, last
        <5> QED  BY <3>1, <4>1 DEF Sorted, n
      <4> QED  BY <1>15, <4>1, <4>2
    <3>4. CASE ~mn
      <4>1. last = b
        BY <3>4
      <4>2. UpTo(blocks, b) <= blocks[freeList[m]].buffer
        BY <1>10, <3>1
      <4>3. UpTo(blocks, b) # blocks[freeList[m]].buffer
        <5>1. CASE m = k
          BY <1>3, <3>1, <3>4, <5>1
        <5>2. CASE k < m
          <6>1. k \in 1 .. n
            BY <1>1, <1>2, <3>1
          <6>2. UpTo(blocks, freeList[k]) < blocks[freeList[m]].buffer
            BY <3>1, <5>2, <6>1 DEF Sorted, n
          <6>3. /\ UpTo(blocks, b) <= blocks[freeList[k]].buffer /\ blocks[freeList[k]].buffer \in Nat
                /\ blocks[freeList[k]].buffer <= UpTo(blocks, freeList[k]) /\ UpTo(blocks, freeList[k]) \in Nat
            BY <1>1, <1>2, <1>10, <1>12, <6>1
          <6>4. PICK w \in Nat, x \in Nat, y \in Nat, z \in Nat :
                  /\ w = UpTo(blocks, b) /\ x = blocks[freeList[k]].buffer
                  /\ y = UpTo(blocks, freeList[k]) /\ z = blocks[freeList[m]].buffer
            BY <3>2, <6>3
          <6>5. w <= x /\ x <= y /\ y < z
            BY <6>2, <6>3, <6>4
          <6>6. w # z
            BY <6>5
          <6> QED  BY <6>4, <6>6
        <5>3. m = k \/ k < m
          BY <1>2, <3>1
        <5> QED  BY <5>1, <5>2, <5>3
      <4>4. UpTo(blocks', first) = UpTo(blocks, b)
        BY <1>15, <4>1
      <4> QED  BY <3>2, <4>2, <4>3, <4>4
    <3> QED  BY <3>3, <3>4
  <2>. HIDE DEF first, last
  <2>4. FitsIn(blocks, blocks', freeList, first, i, j)
    BY <2>1, <2>2, <2>3 DEF n, FitsIn
  <2> QED  BY <1>19, <2>4, SpliceSorted
<1>23. freeHeaders' = Headers \ (Listed \ gone)
  <2>1. gone \subseteq Listed
    BY <1>1, <1>8
  <2>2. freeHeaders' = SymDiff(Headers \ Listed, gone)
    BY <1>4
  <2>. HIDE DEF gone
  <2> QED  BY <2>1, <2>2 DEF SymDiff
<1>24. \A c \in Headers \ (F \union {b}) : blocks'[c] = blocks[c]
  <2>1. \A c \in Headers \ (F \union {b}) : c \in Headers \ {b, first, last}
    BY <1>8
  <2>. HIDE DEF first, last
  <2> QED  BY <1>15, <2>1
<1>24a. freeList' \in Seq(Headers)
  BY <1>19 DEF Spliced
<1>25. gone \in SUBSET (F \union {b})
  BY <1>8
<1>. HIDE DEF gone
<1> QED  BY <1>16, <1>17, <1>24a, <1>21, <1>22, <1>23, <1>24, <1>25, Zenon DEF F

\* The block of the headers, if they are in the pool, and the callers' blocks.
HeaderBlocks == IF OwnHeader THEN {} ELSE {0}
UserBlocks == ToSet(allocList) \ HeaderBlocks

MemTyped ==
  /\ blocks \in AllBlocks /\ freeList \in Seq(Headers) /\ allocList \in Seq(Headers)
  /\ freeHeaders = Headers \ Listed
  /\ Distinct(allocList) /\ ToSet(freeList) \intersect ToSet(allocList) = {}

\* Each buffer in a caller's hands is in a block of its own.
Kept ==
  /\ ~OwnHeader => 0 \in ToSet(allocList) /\ blocks[0] = Block(PoolStart, HeaderSize)
  /\ \A b \in UserBlocks : blocks[b].buffer <= blocks[b].aligned /\ blocks[b].aligned < UpTo(blocks, b)
  /\ held \subseteq [at : Nat, size : Nat]
  /\ \A h \in held : h.size > 0 /\ \E b \in UserBlocks : h.at = blocks[b].aligned /\ h.at + h.size <= UpTo(blocks, b)
  /\ \A b \in UserBlocks : \E h \in held : h.at = blocks[b].aligned
  /\ \A g, h \in held : g.at = h.at => g = h

MemInv == MemTyped /\ Tiled(blocks, Listed) /\ Sorted(blocks, freeList) /\ Kept

\* Both lists are lists of headers.
LEMMA ListedHeaders ==
  ASSUME MemTyped
  PROVE  /\ Listed \subseteq Headers /\ Listed = ToSet(freeList) \union ToSet(allocList)
         /\ Len(freeList) \in Nat /\ Len(allocList) \in Nat
         /\ \A i \in 1 .. Len(freeList) : freeList[i] \in ToSet(freeList)
         /\ \A i \in 1 .. Len(allocList) : allocList[i] \in ToSet(allocList)
BY ElementsOf, LenProperties DEF MemTyped, Listed

\* No block of the lists but the header's starts before the callers' bytes.
LEMMA BlockInBytes ==
  ASSUME NEW bl \in AllBlocks, NEW L \in SUBSET Headers, Tiled(bl, L),
         ~OwnHeader => 0 \in L /\ bl[0] = Block(PoolStart, HeaderSize),
         NEW b \in L \ HeaderBlocks, NEW x \in Nat, bl[b].buffer <= x, x < UpTo(bl, b)
  PROVE  x \in Bytes
<1>1. PICK u \in Nat, v \in Nat : u = bl[b].buffer /\ v = UpTo(bl, b)
  BY BlockNumbers
<1>2. PoolStart <= u /\ v <= PoolEnd /\ u <= x /\ x < v
  BY <1>1 DEF Tiled
<1>3. CASE OwnHeader
  BY <1>2, <1>3, PoolNumbers DEF Bytes, PoolEnd
<1>4. CASE ~OwnHeader
  <2>1. 0 \in L /\ b # 0 /\ bl[0].buffer = PoolStart /\ UpTo(bl, 0) = PoolStart + HeaderSize
    BY <1>4 DEF HeaderBlocks, Block, UpTo
  <2>2. UpTo(bl, 0) <= bl[b].buffer \/ UpTo(bl, b) <= bl[0].buffer
    BY <2>1 DEF Tiled
  <2>3. PoolStart + HeaderSize <= u
    BY <1>1, <1>2, <2>1, <2>2, PoolNumbers
  <2> QED  BY <1>2, <1>4, <2>3, PoolNumbers DEF Bytes, PoolEnd
<1> QED  BY <1>3, <1>4

\* What taking b off the free list leaves of the lists and the pool: a set of
\* at most one header that has what b does not need.
Carved(b, at, upTo, rest) ==
  /\ blocks' \in AllBlocks /\ freeList' \in Seq(Headers) /\ rest \subseteq Headers \ Listed
  /\ ToSet(freeList') = (ToSet(freeList) \ {b}) \union rest
  /\ freeHeaders' = Headers \ (Listed \union rest)
  /\ Tiled(blocks', Listed \union rest) /\ Sorted(blocks', freeList')
  /\ blocks'[b].buffer = blocks[b].buffer /\ blocks'[b].aligned = at
  /\ upTo <= UpTo(blocks', b)
  /\ \A c \in ToSet(allocList) : blocks'[c] = blocks[c]

\* The free list has no duplicates.
LEMMA FreeListDistinct ==
  ASSUME MemInv
  PROVE  Distinct(freeList) /\ \A i \in 1 .. Len(freeList) : blocks[freeList[i]].size > 0
<1>1. \A i \in 1 .. Len(freeList) : blocks[freeList[i]].size > 0
  BY ListedHeaders DEF MemInv, Tiled
<1> QED  BY <1>1, SortedDistinct DEF MemInv, MemTyped

\* The whole block is taken.
LEMMA TakeBlockCarves ==
  ASSUME MemInv, NEW k \in 1 .. Len(freeList), NEW b, b = freeList[k],
         NEW pad \in Nat, NEW n \in Nat, n <= blocks[b].size, TakeBlock(k, b, pad)
  PROVE  Carved(b, blocks[b].buffer + pad, blocks[b].buffer + n, {})
<1>1. /\ b \in ToSet(freeList) /\ b \in Listed /\ b \in Headers /\ b \notin ToSet(allocList)
      /\ blocks \in AllBlocks /\ freeList \in Seq(Headers) /\ freeHeaders = Headers \ Listed
      /\ Listed \subseteq Headers /\ ToSet(allocList) \subseteq Headers
  BY ListedHeaders DEF MemInv, MemTyped
<1>2. blocks[b].buffer \in Nat /\ blocks[b].size \in Nat /\ blocks[b].buffer + pad \in Nat
  <2>1. blocks[b].buffer \in Nat /\ blocks[b].size \in Nat
    BY <1>1, BlockNumbers
  <2> QED  BY <2>1
<1>3. /\ blocks' \in AllBlocks /\ blocks'[b].aligned = blocks[b].buffer + pad
      /\ blocks'[b].buffer = blocks[b].buffer /\ blocks'[b].size = blocks[b].size
      /\ \A c \in Headers \ {b} : blocks'[c] = blocks[c]
  BY <1>1, <1>2 DEF TakeBlock, AllBlocks
<1>4. \A c \in Headers : blocks'[c].buffer = blocks[c].buffer /\ blocks'[c].size = blocks[c].size
  BY <1>3
<1>5. Tiled(blocks', Listed \union {})
  <2>1. SamePlace(blocks, blocks', Listed)
    BY <1>1, <1>4 DEF SamePlace
  <2>2. Listed \union {} = Listed
    OBVIOUS
  <2> QED  BY <2>1, <2>2, SamePlaceTiles DEF MemInv
<1>6. freeList' = RemoveAt(freeList, k) /\ freeHeaders' = freeHeaders
  BY DEF TakeBlock
<1>7. Removed(freeList, k, freeList')
  BY <1>1, <1>6, RemoveAtEntries
<1>8. freeList' \in Seq(Headers) /\ ToSet(freeList') = ToSet(freeList) \ {b}
  BY <1>7, FreeListDistinct, RemoveAtElements DEF Removed
<1>9. Sorted(blocks', freeList')
  <2>1. SamePlace(blocks, blocks', ToSet(freeList))
    BY <1>1, <1>4, ElementsOf DEF SamePlace
  <2>2. Sorted(blocks, freeList)
    BY DEF MemInv
  <2> QED  BY <1>7, <2>1, <2>2, RemoveAtSorted
<1>10. blocks[b].buffer + n <= UpTo(blocks', b)
  BY <1>2, <1>3 DEF UpTo
<1>11. \A c \in ToSet(allocList) : blocks'[c] = blocks[c]
  BY <1>1, <1>3
<1>12. freeHeaders' = Headers \ (Listed \union {})
  BY <1>1, <1>6
<1> QED  BY <1>3, <1>5, <1>8, <1>9, <1>10, <1>11, <1>12 DEF Carved

\* The start of the block is taken.
LEMMA SplitBlockCarves ==
  ASSUME MemInv, NEW k \in 1 .. Len(freeList), NEW b, b = freeList[k],
         NEW pad \in Nat, NEW n \in Nat, 0 < n, n < blocks[b].size,
         NEW rest \in freeHeaders, SplitBlock(k, b, pad, n, rest)
  PROVE  Carved(b, blocks[b].buffer + pad, blocks[b].buffer + n, {rest})
<1>1. /\ b \in ToSet(freeList) /\ b \in Listed /\ b \in Headers /\ b \notin ToSet(allocList)
      /\ blocks \in AllBlocks /\ freeList \in Seq(Headers) /\ freeHeaders = Headers \ Listed
      /\ Listed \subseteq Headers /\ ToSet(allocList) \subseteq Listed
  BY ListedHeaders DEF MemInv, MemTyped
<1>2. rest \in Headers /\ rest \notin Listed /\ rest # b
  BY <1>1
<1>3. /\ blocks[b].buffer \in Nat /\ blocks[b].size \in Nat /\ blocks[b].buffer + pad \in Nat
      /\ blocks[b].buffer + n \in Nat /\ blocks[b].size - n \in Nat
  <2>1. blocks[b].buffer \in Nat /\ blocks[b].size \in Nat
    BY <1>1, BlockNumbers
  <2>2. PICK x \in Nat, y \in Nat : x = blocks[b].buffer /\ y = blocks[b].size
    BY <2>1
  <2>3. n < y
    BY <2>2
  <2>4. x + pad \in Nat /\ x + n \in Nat /\ y - n \in Nat
    BY <2>3
  <2> QED  BY <2>2, <2>4
<1>4. /\ blocks' \in AllBlocks /\ blocks'[b].aligned = blocks[b].buffer + pad
      /\ blocks'[b].buffer = blocks[b].buffer /\ blocks'[b].size = n
      /\ blocks'[rest].buffer = blocks[b].buffer + n /\ blocks'[rest].size = blocks[b].size - n
      /\ \A c \in Headers \ {b, rest} : blocks'[c] = blocks[c]
  <2>. DEFINE x == blocks[b].buffer + pad
              y == blocks[b].buffer + n
              z == blocks[b].size - n
  <2>1. blocks' = [blocks EXCEPT ![b].aligned = x, ![b].size = n, ![rest] = Block(y, z)]
    BY DEF SplitBlock
  <2>2. x \in Nat /\ y \in Nat /\ z \in Nat
    BY <1>3
  <2>3. Block(y, z) \in [buffer : Nat, size : Nat, aligned : Nat] /\ Block(y, z).buffer = y /\ Block(y, z).size = z
    BY <2>2 DEF Block
  <2>. HIDE DEF x, y, z
  <2>4. /\ blocks' \in AllBlocks /\ blocks'[b].aligned = x
        /\ blocks'[b].buffer = blocks[b].buffer /\ blocks'[b].size = n /\ blocks'[rest] = Block(y, z)
        /\ \A c \in Headers \ {b, rest} : blocks'[c] = blocks[c]
    <3>. DEFINE first == [blocks EXCEPT ![b].aligned = x]
                second == [first EXCEPT ![b].size = n]
                Record == [buffer : Nat, size : Nat, aligned : Nat]
    <3>1. /\ first \in [Headers -> Record] /\ first[b].buffer = blocks[b].buffer /\ first[b].aligned = x
          /\ \A c \in Headers \ {b} : first[c] = blocks[c]
      BY <1>1, <2>2 DEF AllBlocks
    <3>2. blocks' = [second EXCEPT ![rest] = Block(y, z)]
      BY <2>1
    <3>. HIDE DEF first
    <3>3. /\ second \in [Headers -> Record] /\ second[b].buffer = blocks[b].buffer
          /\ second[b].aligned = x /\ second[b].size = n
          /\ \A c \in Headers \ {b} : second[c] = blocks[c]
      BY <1>1, <3>1
    <3>. HIDE DEF second
    <3> QED  BY <1>1, <1>2, <2>3, <3>2, <3>3 DEF AllBlocks
  <2> QED  BY <2>3, <2>4 DEF x, y, z
<1>5. Tiled(blocks', Listed \union {rest})
  <2>1. SamePlace(blocks, blocks', Listed \ {b})
    BY <1>1, <1>2, <1>4 DEF SamePlace
  <2>2. Tiled(blocks, Listed) /\ Listed \in SUBSET Headers /\ rest \in Headers \ Listed
    BY <1>1, <1>2 DEF MemInv
  <2> QED  BY <1>1, <1>4, <2>1, <2>2, SplitTiles
<1>6. freeList' = ReplaceAt(freeList, k, rest) /\ freeHeaders' = Toggle(freeHeaders, {rest})
  BY DEF SplitBlock
<1>7. Replaced(freeList, k, rest, freeList') /\ ToSet(freeList') = (ToSet(freeList) \ {b}) \union {rest}
  BY <1>1, <1>2, <1>6, FreeListDistinct, ReplaceAtElements
<1>8. Sorted(blocks', freeList')
  <2>1. SamePlace(blocks, blocks', ToSet(freeList) \ {freeList[k]})
    <3>1. ToSet(freeList) \subseteq Headers /\ rest \notin ToSet(freeList)
      BY <1>1, <1>2 DEF Listed
    <3> QED  BY <1>4, <3>1 DEF SamePlace
  <2>2. blocks'[rest].buffer >= blocks[freeList[k]].buffer /\ UpTo(blocks', rest) = UpTo(blocks, freeList[k])
    <3>1. PICK x \in Nat, y \in Nat : x = blocks[b].buffer /\ y = blocks[b].size
      BY <1>3
    <3>2. x + n >= x /\ (x + n) + (y - n) = x + y
      OBVIOUS
    <3> QED  BY <1>4, <3>1, <3>2 DEF UpTo
  <2>3. Sorted(blocks, freeList)
    BY DEF MemInv
  <2>4. Distinct(freeList)
    BY FreeListDistinct
  <2> QED  BY <1>1, <1>4, <1>7, <2>1, <2>2, <2>3, <2>4, ReplaceAtSorted
<1>9. blocks[b].buffer + n <= UpTo(blocks', b)
  BY <1>3, <1>4 DEF UpTo
<1>10. \A c \in ToSet(allocList) : blocks'[c] = blocks[c]
  BY <1>1, <1>2, <1>4
<1>11. freeHeaders' = Headers \ (Listed \union {rest})
  BY <1>1, <1>2, <1>6 DEF Toggle, SymDiff
<1>12. {rest} \subseteq Headers \ Listed
  BY <1>2
<1> QED  BY <1>4, <1>5, <1>7, <1>8, <1>9, <1>10, <1>11, <1>12 DEF Carved, Replaced

\* An address is aligned, and it is given for so many bytes.
AlignedAt(at, align) == at % align = 0
Granted(at, size) == held' = held \union {[at |-> at, size |-> size]}

\* Two intervals that are apart: what is within the first is apart from the second.
LEMMA Apart ==
  ASSUME NEW u \in Nat, NEW v \in Nat, NEW w \in Nat, NEW x \in Nat, v <= w \/ x <= u,
         NEW p \in Nat, NEW q \in Nat, u <= p, p + q <= v
  PROVE  p + q <= w \/ x <= p
OBVIOUS

\* A block taken off the free list is given to a caller: the invariant holds
\* again, and what is given is as the pool of bytes allows.
LEMMA CarvedGiven ==
  ASSUME MemInv, NEW b \in ToSet(freeList), NEW size \in Nat, size > 0, size \in Sizes,
         NEW at \in Nat, blocks[b].buffer <= at, NEW align \in Aligns, AlignedAt(at, align),
         NEW rest, Carved(b, at, at + size, rest),
         allocList' = <<b>> \o allocList, Granted(at, size)
  PROVE  MemInv' /\ Pool!Give
<1>. DEFINE A == ToSet(allocList)
            h == [at |-> at, size |-> size]
<1>1. /\ b \in Listed /\ b \in Headers /\ b \notin A /\ A \subseteq Listed /\ Listed \subseteq Headers
      /\ blocks \in AllBlocks /\ allocList \in Seq(Headers) /\ Distinct(allocList) /\ A \subseteq Headers
  BY ListedHeaders DEF MemInv, MemTyped
<1>2. blocks[b].buffer \in Nat
  BY <1>1, BlockNumbers
<1>4. /\ blocks' \in AllBlocks /\ freeList' \in Seq(Headers) /\ rest \subseteq Headers \ Listed
      /\ ToSet(freeList') = (ToSet(freeList) \ {b}) \union rest
      /\ freeHeaders' = Headers \ (Listed \union rest)
      /\ Tiled(blocks', Listed \union rest) /\ Sorted(blocks', freeList')
      /\ blocks'[b].buffer = blocks[b].buffer /\ blocks'[b].aligned = at
      /\ at + size <= UpTo(blocks', b)
      /\ \A c \in A : blocks'[c] = blocks[c]
  BY DEF Carved
<1>. HIDE DEF A
<1>5. Consed(allocList, b, allocList')
  BY <1>1, ConsEntries
<1>6. Distinct(allocList') /\ ToSet(allocList') = A \union {b} /\ allocList' \in Seq(Headers)
  BY <1>1, <1>5, ConsElements DEF A, Consed
<1>7. Listed' = Listed \union rest
  <2>1. Listed = ToSet(freeList) \union A
    BY DEF Listed, A
  <2>2. Listed' = ToSet(freeList') \union ToSet(allocList')
    BY DEF Listed
  <2> QED  BY <1>4, <1>6, <2>1, <2>2
<1>8. MemTyped'
  <2>1. ToSet(freeList) \intersect A = {}
    BY DEF MemInv, MemTyped, A
  <2>2. ToSet(freeList') \intersect ToSet(allocList') = {}
    BY <1>1, <1>4, <1>6, <2>1
  <2> QED  BY <1>4, <1>6, <1>7, <2>2 DEF MemTyped
<1>9. UserBlocks' = UserBlocks \union {b} /\ b \notin HeaderBlocks /\ UserBlocks \subseteq A /\ b \notin UserBlocks
  <2>1. b \notin HeaderBlocks
    BY <1>1 DEF MemInv, Kept, HeaderBlocks, A
  <2>2. UserBlocks = A \ HeaderBlocks /\ UserBlocks' = ToSet(allocList') \ HeaderBlocks
    BY DEF UserBlocks, A, HeaderBlocks
  <2> QED  BY <1>1, <1>6, <2>1, <2>2
<1>10. UpTo(blocks', b) \in Nat /\ at < UpTo(blocks', b) /\ at + size <= UpTo(blocks', b)
  <2>1. UpTo(blocks', b) \in Nat
    BY <1>1, <1>4, BlockNumbers
  <2>2. PICK x \in Nat : x = UpTo(blocks', b)
    BY <2>1
  <2>3. at + size <= x
    BY <1>4, <2>2
  <2>4. at < x
    BY <2>3
  <2> QED  BY <2>2, <2>3, <2>4
<1>11. \A c \in UserBlocks : blocks'[c] = blocks[c] /\ UpTo(blocks', c) = UpTo(blocks, c)
  BY <1>4, <1>9 DEF UpTo
\* What callers have is in other blocks.
<1>12. ASSUME NEW g \in held
       PROVE  /\ g.at \in Nat /\ g.size \in Nat /\ g.size > 0
              /\ g.at + g.size <= blocks'[b].buffer \/ UpTo(blocks', b) <= g.at
  <2>1. g.at \in Nat /\ g.size \in Nat /\ g.size > 0
    BY DEF MemInv, Kept
  <2>2. PICK c \in UserBlocks : g.at = blocks[c].aligned /\ g.at + g.size <= UpTo(blocks, c)
    BY DEF MemInv, Kept
  <2>3. c \in Headers /\ c \in Listed \union rest /\ c # b
    BY <1>1, <1>9
  <2>4. b \in Listed \union rest
    BY <1>1
  <2>5. UpTo(blocks', c) <= blocks'[b].buffer \/ UpTo(blocks', b) <= blocks'[c].buffer
    BY <1>4, <2>3, <2>4 DEF Tiled
  <2>6. blocks'[c].buffer <= g.at /\ g.at + g.size <= UpTo(blocks', c)
    BY <1>11, <2>2 DEF MemInv, Kept
  <2>7. PICK u \in Nat, v \in Nat, w \in Nat, x \in Nat :
          u = blocks'[c].buffer /\ v = UpTo(blocks', c) /\ w = blocks'[b].buffer /\ x = UpTo(blocks', b)
    BY <1>1, <1>4, <2>3, BlockNumbers
  <2>8. PICK p \in Nat, q \in Nat : p = g.at /\ q = g.size
    BY <2>1
  <2>9. (v <= w \/ x <= u) /\ u <= p /\ p + q <= v
    BY <2>5, <2>6, <2>7, <2>8
  <2>10. p + q <= w \/ x <= p
    BY <2>9, Apart
  <2> QED  BY <2>1, <2>7, <2>8, <2>10
<1>13. Kept'
  <2>1. ~OwnHeader => 0 \in ToSet(allocList') /\ blocks'[0] = Block(PoolStart, HeaderSize)
    BY <1>4, <1>6 DEF MemInv, Kept, A
  <2>2. \A c \in UserBlocks' : blocks'[c].buffer <= blocks'[c].aligned /\ blocks'[c].aligned < UpTo(blocks', c)
    <3>1. blocks'[b].buffer <= blocks'[b].aligned /\ blocks'[b].aligned < UpTo(blocks', b)
      BY <1>4, <1>10
    <3>2. \A c \in UserBlocks : blocks'[c].buffer <= blocks'[c].aligned /\ blocks'[c].aligned < UpTo(blocks', c)
      BY <1>11 DEF MemInv, Kept
    <3> QED  BY <1>9, <3>1, <3>2
  <2>3. h \in [at : Nat, size : Nat] /\ h.at = at /\ h.size = size
    OBVIOUS
  <2>4. held' = held \union {h}
    BY DEF Granted
  <2>. HIDE DEF h
  <2>5. held' \subseteq [at : Nat, size : Nat]
    BY <2>3, <2>4 DEF MemInv, Kept
  <2>6. ASSUME NEW g \in held'
        PROVE  g.size > 0 /\ \E c \in UserBlocks' : g.at = blocks'[c].aligned /\ g.at + g.size <= UpTo(blocks', c)
    <3>1. CASE g = h
      BY <1>4, <1>9, <1>10, <2>3, <3>1
    <3>2. CASE g \in held
      <4>1. PICK c \in UserBlocks : g.at = blocks[c].aligned /\ g.at + g.size <= UpTo(blocks, c)
        BY <3>2 DEF MemInv, Kept
      <4> QED  BY <1>9, <1>11, <1>12, <3>2, <4>1
    <3> QED  BY <2>4, <3>1, <3>2
  <2>7. \A c \in UserBlocks' : \E g \in held' : g.at = blocks'[c].aligned
    <3>1. \A c \in UserBlocks : \E g \in held : g.at = blocks'[c].aligned
      BY <1>11 DEF MemInv, Kept
    <3>2. h \in held' /\ h.at = blocks'[b].aligned
      BY <1>4, <2>3, <2>4
    <3> QED  BY <1>9, <2>4, <3>1, <3>2
  <2>8. ASSUME NEW f \in held', NEW g \in held', f.at = g.at  PROVE f = g
    <3>1. \A e \in held : e.at # at
      <4>. SUFFICES ASSUME NEW e \in held  PROVE e.at # at
        OBVIOUS
      <4>1. PICK w \in Nat, x \in Nat : w = blocks'[b].buffer /\ x = UpTo(blocks', b)
        BY <1>2, <1>4, <1>10
      <4>2. w <= at /\ at < x
        BY <1>4, <1>10, <4>1
      <4>3. PICK p \in Nat, q \in Nat : p = e.at /\ q = e.size
        BY <1>12
      <4>4. (p + q <= w \/ x <= p) /\ q > 0
        BY <1>12, <4>1, <4>3
      <4>5. p # at
        BY <4>2, <4>4
      <4> QED  BY <4>3, <4>5
    <3>2. \A e, d \in held : e.at = d.at => e = d
      BY DEF MemInv, Kept
    <3> QED  BY <2>3, <2>4, <2>8, <3>1, <3>2
  <2> QED  BY <2>1, <2>2, <2>5, <2>6, <2>7, <2>8 DEF Kept
<1>14. Pool!Give
  <2>1. (0 \in A /\ blocks'[0] = Block(PoolStart, HeaderSize)) \/ OwnHeader
    BY <1>4 DEF MemInv, Kept, A
  <2>2. ASSUME NEW x \in Nat, at <= x, x < at + size  PROVE x \in Bytes
    <3>1. blocks'[b].buffer <= x /\ x < UpTo(blocks', b)
      <4>1. PICK w \in Nat, y \in Nat : w = blocks'[b].buffer /\ y = UpTo(blocks', b)
        BY <1>2, <1>4, <1>10
      <4>2. w <= at /\ at + size <= y
        BY <1>4, <1>10, <4>1
      <4>3. w <= x /\ x < y
        BY <2>2, <4>2
      <4> QED  BY <4>1, <4>3
    <3>2. b \in (Listed \union rest) \ HeaderBlocks /\ Listed \union rest \in SUBSET Headers
      BY <1>1, <1>4, <1>9
    <3>3. ~OwnHeader => 0 \in Listed \union rest /\ blocks'[0] = Block(PoolStart, HeaderSize)
      BY <1>1, <2>1
    <3> QED  BY <1>4, <3>1, <3>2, <3>3, BlockInBytes
  <2>3. at \in Bytes
    BY <2>2
  <2>4. h.at = at /\ h.size = size
    OBVIOUS
  <2>5. held' = held \union {h}
    BY DEF Granted
  <2>. HIDE DEF h
  <2>6. Pool!BytesOf(h) \subseteq Bytes
    <3>1. Pool!BytesOf(h) = at .. at + size - 1
      BY <2>4 DEF Pool!BytesOf
    <3> QED  BY <2>2, <3>1
  <2>7. ASSUME NEW g \in held  PROVE Pool!BytesOf(g) \intersect Pool!BytesOf(h) = {}
    <3>1. Pool!BytesOf(h) = at .. at + size - 1 /\ Pool!BytesOf(g) = g.at .. g.at + g.size - 1
      BY <2>4 DEF Pool!BytesOf
    <3>2. PICK w \in Nat, x \in Nat : w = blocks'[b].buffer /\ x = UpTo(blocks', b)
      BY <1>2, <1>4, <1>10
    <3>3. w <= at /\ at + size <= x
      BY <1>4, <1>10, <3>2
    <3>4. PICK p \in Nat, q \in Nat : p = g.at /\ q = g.size
      BY <1>12
    <3>5. p + q <= w \/ x <= p
      BY <1>12, <3>2, <3>4
    <3>6. (at .. at + size - 1) \intersect (p .. p + q - 1) = {}
      BY <3>3, <3>5
    <3> QED  BY <3>1, <3>4, <3>6
  <2>8. h = [at |-> at, size |-> size]
    BY DEF h
  <2>9. at % align = 0
    BY DEF AlignedAt
  <2> QED  BY <2>3, <2>5, <2>6, <2>7, <2>8, <2>9 DEF Pool!Give
<1> QED  BY <1>4, <1>7, <1>8, <1>13, <1>14 DEF MemInv

\* What first fit finds is large enough for the request and its padding.
LEMMA FirstFitFits ==
  ASSUME freeList \in Seq(Headers), NEW size, NEW align, NEW k, k = FirstFit(size, align)
  PROVE  /\ k \in 0 .. Len(freeList)
         /\ k > 0 => blocks[freeList[k]].size >= NewSize(blocks[freeList[k]], size, align)
<1>. DEFINE n == Len(freeList)
            T == {i \in 1 .. n : blocks[freeList[i]].size >= NewSize(blocks[freeList[i]], size, align)}
<1>1. n \in Nat /\ T \in SUBSET (1 .. n)
  BY LenProperties
<1>2. k = IF T # {} THEN Min(T) ELSE 0
  BY DEF FirstFit, SelectInSeq
<1>3. k \in 0 .. n /\ (k > 0 => k \in T)
  <2>. HIDE DEF T, n
  <2> QED  BY <1>1, <1>2, FirstOf
<1> QED  BY <1>3

\* xvmem_alloc keeps the invariant, and is a step of the pool of bytes or none.
LEMMA AllocKeeps ==
  ASSUME MemInv, NEW size \in Sizes, NEW align \in Aligns, Alloc(size, align)
  PROVE  MemInv' /\ (Pool!Give \/ held' = held)
<1>1. PICK k : k = FirstFit(size, align)
  OBVIOUS
<1>2. PICK b : b = freeList[k]
  OBVIOUS
<1>3. PICK n : n = NewSize(blocks[b], size, align)
  OBVIOUS
<1>4. /\ k > 0
      /\ \/ blocks' = blocks /\ freeList' = freeList /\ allocList' = allocList
            /\ freeHeaders' = freeHeaders /\ held' = held
         \/ /\ \/ /\ blocks[b].size - n > MinAlloc /\ freeHeaders # {}
                  /\ SplitBlock(k, b, n - size, n, FirstFreeHeader)
               \/ TakeBlock(k, b, n - size)
            /\ allocList' = <<b>> \o allocList
            /\ held' = held \union {[at |-> blocks[b].buffer + (n - size), size |-> size]}
  BY <1>1, <1>2, <1>3 DEF Alloc
<1>5. k \in 1 .. Len(freeList) /\ blocks[b].size >= n
  <2>1. freeList \in Seq(Headers) /\ Len(freeList) \in Nat
    BY LenProperties DEF MemInv, MemTyped
  <2> QED  BY <1>1, <1>2, <1>3, <1>4, <2>1, FirstFitFits
<1>6. b \in ToSet(freeList) /\ b \in Headers /\ blocks \in AllBlocks
  BY <1>2, <1>5, ListedHeaders DEF MemInv, MemTyped
<1>7. PICK base \in Nat, room \in Nat : base = blocks[b].buffer /\ room = blocks[b].size
  BY <1>6, BlockNumbers
<1>8. size \in Nat /\ size > 0 /\ n \in Nat /\ size <= n /\ (blocks[b].buffer + (n - size)) % align = 0
  BY <1>3, <1>7, NewSizeFacts
<1>9. PICK pad \in Nat : pad = n - size
  BY <1>8
<1>10. PICK at \in Nat : at = base + pad
  OBVIOUS
<1>11. AlignedAt(at, align)
  BY <1>7, <1>8, <1>9, <1>10, Zenon DEF AlignedAt
<1>12. base <= at /\ at + size = base + n /\ n <= room /\ 0 < n
  <2>1. size \in Nat /\ size > 0 /\ n \in Nat /\ n <= room
    BY <1>5, <1>7, <1>8
  <2> QED  BY <1>9, <1>10, <2>1
<1>13. CASE blocks' = blocks /\ freeList' = freeList /\ allocList' = allocList
            /\ freeHeaders' = freeHeaders /\ held' = held
  BY <1>13 DEF MemInv, MemTyped, Listed, Tiled, Sorted, Kept, UserBlocks, UpTo
<1>14. CASE /\ blocks[b].size - n > MinAlloc /\ freeHeaders # {}
            /\ SplitBlock(k, b, n - size, n, FirstFreeHeader)
            /\ allocList' = <<b>> \o allocList
            /\ held' = held \union {[at |-> blocks[b].buffer + (n - size), size |-> size]}
  <2>1. n \in Nat /\ n < room
    <3>1. n \in Nat /\ room - n > MinAlloc /\ MinAlloc > 0 /\ MinAlloc \in Nat
      BY <1>7, <1>8, <1>14, PoolNumbers
    <3> QED  BY <3>1
  <2>2. PICK rest : rest = FirstFreeHeader
    OBVIOUS
  <2>3. rest \in freeHeaders
    <3>1. freeHeaders \in SUBSET Nat
      BY DEF MemInv, MemTyped, Headers
    <3>2. Min(freeHeaders) \in freeHeaders /\ \A c \in freeHeaders : Min(freeHeaders) <= c
      BY <1>14, <3>1, MinOf
    <3> QED  BY <1>14, <2>2, <3>2 DEF FirstFreeHeader
  <2>4. SplitBlock(k, b, pad, n, rest)
    BY <1>9, <1>14, <2>2
  <2>5. Carved(b, blocks[b].buffer + pad, blocks[b].buffer + n, {rest})
    BY <1>2, <1>5, <1>7, <1>12, <2>1, <2>3, <2>4, SplitBlockCarves
  <2>6. Carved(b, at, at + size, {rest}) /\ Granted(at, size) /\ allocList' = <<b>> \o allocList
    BY <1>7, <1>9, <1>10, <1>12, <1>14, <2>5 DEF Granted
  <2> QED  BY <1>6, <1>7, <1>8, <1>11, <1>12, <2>6, CarvedGiven
<1>15. CASE /\ TakeBlock(k, b, n - size)
            /\ allocList' = <<b>> \o allocList
            /\ held' = held \union {[at |-> blocks[b].buffer + (n - size), size |-> size]}
  <2>1. TakeBlock(k, b, pad) /\ n \in Nat /\ n <= blocks[b].size
    BY <1>7, <1>8, <1>9, <1>12, <1>15
  <2>2. Carved(b, blocks[b].buffer + pad, blocks[b].buffer + n, {})
    BY <1>2, <1>5, <2>1, TakeBlockCarves
  <2>3. Carved(b, at, at + size, {}) /\ Granted(at, size) /\ allocList' = <<b>> \o allocList
    BY <1>7, <1>9, <1>10, <1>12, <1>15, <2>2 DEF Granted
  <2> QED  BY <1>6, <1>7, <1>8, <1>11, <1>12, <2>3, CarvedGiven
<1> QED  BY <1>4, <1>13, <1>14, <1>15

\* Blocks of callers are apart, so no two start at the same aligned address.
LEMMA AlignedApart ==
  ASSUME MemInv, NEW b \in UserBlocks, NEW c \in UserBlocks, b # c
  PROVE  blocks[b].aligned # blocks[c].aligned
<1>1. b \in Headers /\ c \in Headers /\ b \in Listed /\ c \in Listed /\ blocks \in AllBlocks
  BY ListedHeaders DEF MemInv, MemTyped, UserBlocks
<1>2. PICK u \in Nat, v \in Nat, p \in Nat :
        u = blocks[b].buffer /\ v = UpTo(blocks, b) /\ p = blocks[b].aligned
  BY <1>1, BlockNumbers
<1>3. PICK w \in Nat, x \in Nat, q \in Nat :
        w = blocks[c].buffer /\ x = UpTo(blocks, c) /\ q = blocks[c].aligned
  BY <1>1, BlockNumbers
<1>4. v <= w \/ x <= u
  BY <1>1, <1>2, <1>3 DEF MemInv, Tiled
<1>5. u <= p /\ p < v /\ w <= q /\ q < x
  BY <1>2, <1>3 DEF MemInv, Kept
<1>6. p # q
  BY <1>4, <1>5
<1> QED  BY <1>2, <1>3, <1>6

\* xvmem_free keeps the invariant, and takes back the buffer at p.
LEMMA FreeKeeps ==
  ASSUME MemInv, NEW p \in Bytes, Free(p)
  PROVE  MemInv' /\ Pool!TakeBack
<1>. DEFINE A == ToSet(allocList)
            F == ToSet(freeList)
<1>0. freeList \in Seq(Headers) /\ allocList \in Seq(Headers) /\ Distinct(allocList)
      /\ F \intersect A = {} /\ Listed = F \union A /\ blocks \in AllBlocks
      /\ freeHeaders = Headers \ Listed /\ Listed \subseteq Headers
      /\ Tiled(blocks, Listed) /\ Sorted(blocks, freeList)
  BY ListedHeaders DEF MemInv, MemTyped
<1>1. PICK m : m = AllocatedAt(p)
  OBVIOUS
<1>2. PICK b : b = allocList[m]
  OBVIOUS
<1>3. m > 0 /\ allocList' = RemoveAt(allocList, m) /\ AddToFreeList(b) /\ held' = {h \in held : h.at # p}
  BY <1>1, <1>2 DEF Free
<1>4. m \in 1 .. Len(allocList) /\ blocks[b].aligned = p
  <2>. DEFINE n == Len(allocList)
              T == {i \in 1 .. n : blocks[allocList[i]].aligned = p}
  <2>1. n \in Nat /\ T \in SUBSET (1 .. n)
    BY <1>0, LenProperties
  <2>2. m = IF T # {} THEN Min(T) ELSE 0
    BY <1>1 DEF AllocatedAt, SelectInSeq
  <2>3. m \in 0 .. n /\ (m > 0 => m \in T)
    <3>. HIDE DEF T, n
    <3> QED  BY <2>1, <2>2, FirstOf
  <2> QED  BY <1>2, <1>3, <2>3
<1>5. b \in A /\ b \in Listed /\ b \in Headers /\ b \notin F
  BY <1>0, <1>2, <1>4, ElementsOf
<1>6. b \in UserBlocks
  <2>1. CASE OwnHeader
    BY <1>5, <2>1 DEF UserBlocks, HeaderBlocks
  <2>2. CASE ~OwnHeader
    <3>1. blocks[0].aligned = PoolStart /\ p >= PoolStart + HeaderSize /\ p \in Int
      BY <2>2, PoolNumbers DEF MemInv, Kept, Block, Bytes
    <3>2. p # PoolStart
      BY <3>1, PoolNumbers
    <3> QED  BY <1>4, <1>5, <2>2, <3>1, <3>2 DEF UserBlocks, HeaderBlocks
  <2> QED  BY <2>1, <2>2
<1>. HIDE DEF A, F
<1>7. PICK gone \in SUBSET (F \union {b}) :
        /\ blocks' \in AllBlocks /\ freeList' \in Seq(Headers)
        /\ ToSet(freeList') = (F \union {b}) \ gone
        /\ freeHeaders' = Headers \ (Listed \ gone)
        /\ Tiled(blocks', Listed \ gone) /\ Sorted(blocks', freeList')
        /\ \A c \in Headers \ (F \union {b}) : blocks'[c] = blocks[c]
  BY <1>0, <1>3, <1>5, FreeListAdds DEF F
<1>8. allocList' \in Seq(Headers) /\ Distinct(allocList') /\ ToSet(allocList') = A \ {b}
  <2>1. Removed(allocList, m, allocList')
    BY <1>0, <1>3, <1>4, RemoveAtEntries
  <2> QED  BY <1>0, <1>2, <2>1, RemoveAtElements DEF A, Removed
<1>9. Listed' = Listed \ gone
  <2>1. Listed' = ToSet(freeList') \union ToSet(allocList')
    BY DEF Listed
  <2> QED  BY <1>0, <1>5, <1>7, <1>8, <2>1
<1>10. MemTyped'
  <2>1. ToSet(freeList') \intersect ToSet(allocList') = {}
    BY <1>0, <1>7, <1>8
  <2> QED  BY <1>7, <1>8, <1>9, <2>1 DEF MemTyped
<1>11. UserBlocks' = UserBlocks \ {b}
  <2>1. UserBlocks = A \ HeaderBlocks /\ UserBlocks' = ToSet(allocList') \ HeaderBlocks
    BY DEF UserBlocks, A, HeaderBlocks
  <2> QED  BY <1>8, <2>1
<1>12. \A c \in A \ {b} : blocks'[c] = blocks[c] /\ UpTo(blocks', c) = UpTo(blocks, c)
  BY <1>0, <1>7 DEF UpTo
<1>13. \A c \in UserBlocks' : /\ c \in UserBlocks /\ c # b
                              /\ blocks'[c] = blocks[c] /\ UpTo(blocks', c) = UpTo(blocks, c)
  BY <1>11, <1>12 DEF UserBlocks, A
<1>14. PICK h \in held : h.at = p
  BY <1>4, <1>6 DEF MemInv, Kept
<1>15. held' = held \ {h}
  <2>1. \A g \in held : g.at = p <=> g = h
    BY <1>14 DEF MemInv, Kept
  <2> QED  BY <1>3, <2>1
<1>16. Kept'
  <2>1. ~OwnHeader => 0 \in ToSet(allocList') /\ blocks'[0] = Block(PoolStart, HeaderSize)
    <3>. SUFFICES ASSUME ~OwnHeader  PROVE 0 \in ToSet(allocList') /\ blocks'[0] = Block(PoolStart, HeaderSize)
      OBVIOUS
    <3>1. 0 \in A /\ blocks[0] = Block(PoolStart, HeaderSize) /\ b # 0
      BY <1>6 DEF MemInv, Kept, A, UserBlocks, HeaderBlocks
    <3> QED  BY <1>8, <1>12, <3>1
  <2>2. \A c \in UserBlocks' : blocks'[c].buffer <= blocks'[c].aligned /\ blocks'[c].aligned < UpTo(blocks', c)
    BY <1>13 DEF MemInv, Kept
  <2>3. held' \subseteq [at : Nat, size : Nat]
    BY <1>15 DEF MemInv, Kept
  <2>4. ASSUME NEW g \in held'
        PROVE  g.size > 0 /\ \E c \in UserBlocks' : g.at = blocks'[c].aligned /\ g.at + g.size <= UpTo(blocks', c)
    <3>1. g \in held /\ g.at # p
      BY <1>3
    <3>2. PICK c \in UserBlocks : g.at = blocks[c].aligned /\ g.at + g.size <= UpTo(blocks, c)
      BY <3>1 DEF MemInv, Kept
    <3>3. c \in UserBlocks'
      BY <1>4, <1>11, <3>1, <3>2
    <3>4. g.size > 0
      BY <3>1 DEF MemInv, Kept
    <3>5. g.at = blocks'[c].aligned /\ g.at + g.size <= UpTo(blocks', c)
      BY <1>13, <3>2, <3>3
    <3> QED  BY <3>3, <3>4, <3>5
  <2>5. ASSUME NEW c \in UserBlocks'  PROVE \E g \in held' : g.at = blocks'[c].aligned
    <3>1. c \in UserBlocks /\ c # b /\ blocks'[c] = blocks[c]
      BY <1>13
    <3>2. PICK g \in held : g.at = blocks[c].aligned
      BY <3>1 DEF MemInv, Kept
    <3>3. blocks[c].aligned # p
      BY <1>4, <1>6, <3>1, AlignedApart
    <3>4. g \in held'
      BY <1>3, <3>2, <3>3
    <3> QED  BY <3>1, <3>2, <3>4
  <2>6. \A f, g \in held' : f.at = g.at => f = g
    BY <1>15 DEF MemInv, Kept
  <2> QED  BY <2>1, <2>2, <2>3, <2>4, <2>5, <2>6 DEF Kept
<1>17. Pool!TakeBack
  BY <1>15 DEF Pool!TakeBack
<1> QED  BY <1>7, <1>9, <1>10, <1>16, <1>17 DEF MemInv

\* A list of one block, and a list of none.
LEMMA ShortLists ==
  ASSUME NEW x \in Headers
  PROVE  /\ <<x>> \in Seq(Headers) /\ Len(<<x>>) = 1 /\ <<x>>[1] = x /\ ToSet(<<x>>) = {x}
         /\ <<>> \in Seq(Headers) /\ ToSet(<<>>) = {}
<1>1. <<x>> \in Seq(Headers) /\ Len(<<x>>) = 1 /\ <<x>>[1] = x /\ <<>> \in Seq(Headers)
  OBVIOUS
<1>2. ToSet(<<x>>) = {x}
  BY DEF ToSet
<1>3. ToSet(<<>>) = {}
  BY DEF ToSet
<1> QED  BY <1>1, <1>2, <1>3

\* xvmem_init, with the headers in the pool and with headers of its own.
LEMMA MemInitInv ==
  ASSUME MemInit
  PROVE  MemInv
<1>. USE PoolNumbers
<1>1. CASE OwnHeader
  <2>1. /\ blocks \in AllBlocks /\ blocks[0] = Block(PoolStart, PoolSize)
        /\ freeList = <<0>> /\ allocList = <<>> /\ freeHeaders = Headers \ {0} /\ held = {}
    <3>1. blocks = [b \in Headers |-> IF b = 0 THEN Block(PoolStart, PoolSize) ELSE Block(0, 0)]
      BY <1>1 DEF MemInit
    <3>2. \A x, y \in Nat : Block(x, y) \in [buffer : Nat, size : Nat, aligned : Nat]
      BY DEF Block
    <3>3. freeList = <<0>> /\ allocList = <<>> /\ freeHeaders = Headers \ {0} /\ held = {}
      BY <1>1 DEF MemInit
    <3>4. \A b \in Headers : blocks[b] = IF b = 0 THEN Block(PoolStart, PoolSize) ELSE Block(0, 0)
      BY <3>1
    <3> QED  BY <3>1, <3>2, <3>3, <3>4 DEF AllBlocks
  <2>2. /\ freeList \in Seq(Headers) /\ allocList \in Seq(Headers)
        /\ ToSet(freeList) = {0} /\ ToSet(allocList) = {} /\ Listed = {0}
    BY <2>1, ShortLists DEF Listed
  <2>3. MemTyped
    BY <2>1, <2>2 DEF MemTyped, Distinct
  <2>4. Tiled(blocks, Listed)
    BY <2>1, <2>2 DEF Tiled, Block, UpTo, PoolEnd
  <2>5. Sorted(blocks, freeList)
    BY <2>1 DEF Sorted
  <2>6. Kept
    BY <1>1, <2>1, <2>2 DEF Kept, UserBlocks
  <2> QED  BY <2>3, <2>4, <2>5, <2>6 DEF MemInv
<1>2. CASE ~OwnHeader
  <2>1. /\ blocks \in AllBlocks /\ blocks[0] = Block(PoolStart, HeaderSize)
        /\ blocks[1] = Block(PoolStart + HeaderSize, PoolSize - HeaderSize)
        /\ freeList = <<1>> /\ allocList = <<0>> /\ freeHeaders = Headers \ {0, 1} /\ held = {}
    <3>1. blocks = [b \in Headers |-> IF b = 0 THEN Block(PoolStart, HeaderSize)
                                      ELSE IF b = 1 THEN Block(PoolStart + HeaderSize, PoolSize - HeaderSize)
                                      ELSE Block(0, 0)]
      BY <1>2 DEF MemInit
    <3>2. \A x, y \in Nat : Block(x, y) \in [buffer : Nat, size : Nat, aligned : Nat]
      BY DEF Block
    <3>3. PoolStart + HeaderSize \in Nat /\ PoolSize - HeaderSize \in Nat
      BY <1>2
    <3>4. freeList = <<1>> /\ allocList = <<0>> /\ freeHeaders = Headers \ {0, 1} /\ held = {}
      BY <1>2 DEF MemInit
    <3> QED  BY <3>1, <3>2, <3>3, <3>4 DEF AllBlocks
  <2>2. /\ freeList \in Seq(Headers) /\ allocList \in Seq(Headers)
        /\ ToSet(freeList) = {1} /\ ToSet(allocList) = {0} /\ Listed = {0, 1}
    BY <2>1, ShortLists DEF Listed
  <2>3. MemTyped
    <3>1. Distinct(allocList)
      BY <2>1 DEF Distinct
    <3> QED  BY <2>1, <2>2, <3>1 DEF MemTyped
  <2>4. Tiled(blocks, Listed)
    <3>1. /\ blocks[0].buffer = PoolStart /\ blocks[0].size = HeaderSize
          /\ blocks[1].buffer = PoolStart + HeaderSize /\ blocks[1].size = PoolSize - HeaderSize
      BY <2>1 DEF Block
    <3>2. UpTo(blocks, 0) = PoolStart + HeaderSize /\ UpTo(blocks, 1) = PoolEnd
      BY <3>1 DEF UpTo, PoolEnd
    <3> QED  BY <1>2, <2>2, <3>1, <3>2 DEF Tiled, PoolEnd
  <2>5. Sorted(blocks, freeList)
    BY <2>1 DEF Sorted
  <2>6. Kept
    BY <1>2, <2>1, <2>2 DEF Kept, UserBlocks, HeaderBlocks
  <2> QED  BY <2>3, <2>4, <2>5, <2>6 DEF MemInv
<1> QED  BY <1>1, <1>2

\* A step that changes nothing keeps the invariant.
LEMMA MemStutters ==
  ASSUME MemInv, UNCHANGED memVars
  PROVE  MemInv' /\ held' = held
<1>1. /\ blocks' = blocks /\ freeList' = freeList /\ allocList' = allocList
      /\ freeHeaders' = freeHeaders /\ held' = held
  BY DEF memVars
<1> QED
  BY <1>1 DEF MemInv, MemTyped, Listed, Tiled, Sorted, Kept, UserBlocks, UpTo

\* Every step of the allocator keeps the invariant and is a step of the pool.
LEMMA MemStep ==
  ASSUME MemInv, [MemNext]_memVars
  PROVE  MemInv' /\ (Pool!Next \/ held' = held)
<1>1. ASSUME NEW size \in Sizes, NEW align \in Aligns, Alloc(size, align)
      PROVE  MemInv' /\ (Pool!Next \/ held' = held)
  BY <1>1, AllocKeeps DEF Pool!Next
<1>2. ASSUME NEW size \in Sizes, NEW align \in Aligns, AllocFails(size, align)
      PROVE  MemInv' /\ held' = held
  BY <1>2, MemStutters DEF AllocFails
<1>3. ASSUME NEW p \in Bytes, Free(p)
      PROVE  MemInv' /\ (Pool!Next \/ held' = held)
  BY <1>3, FreeKeeps DEF Pool!Next
<1>4. ASSUME NEW p \in Bytes, FreeUnknown(p)
      PROVE  MemInv' /\ held' = held
  BY <1>4, MemStutters DEF FreeUnknown
<1>5. CASE UNCHANGED memVars
  BY <1>5, MemStutters
<1> QED  BY <1>1, <1>2, <1>3, <1>4, <1>5 DEF MemNext

\* The lists and the headers are consistent, the listed blocks tile the pool,
\* the free list is in address order with gaps, and each buffer that a caller
\* holds is in an allocated block of its own, whatever has been allocated and
\* freed (tmUtils.c).
THEOREM AllocatorConsistent == MemSpec => []MemInv
<1>1. MemInit => MemInv
  BY MemInitInv
<1>2. MemInv /\ [MemNext]_memVars => MemInv'
  BY MemStep
<1> QED  BY <1>1, <1>2, PTL DEF MemSpec

\* The bit vector, of which a split and a merge flip one bit each, tells
\* exactly the headers that are in neither list, and no header is in two
\* places (xvmem_toggle_bitvec).
THEOREM BitVectorTellsUnusedHeaders == MemSpec => []HeadersTracked
<1>1. ASSUME MemInv  PROVE HeadersTracked
  <2>1. /\ freeList \in Seq(Headers) /\ allocList \in Seq(Headers)
        /\ Distinct(freeList) /\ Distinct(allocList) /\ freeHeaders = Headers \ Listed
        /\ ToSet(freeList) \intersect ToSet(allocList) = {}
    BY <1>1, FreeListDistinct DEF MemInv, MemTyped
  <2>2. /\ IsFiniteSet(ToSet(freeList)) /\ Cardinality(ToSet(freeList)) = Len(freeList)
        /\ IsFiniteSet(ToSet(allocList)) /\ Cardinality(ToSet(allocList)) = Len(allocList)
    BY <2>1, DistinctCardinality
  <2>3. Cardinality(ToSet(freeList) \union ToSet(allocList)) = Len(freeList) + Len(allocList)
    <3>1. Cardinality(ToSet(freeList) \union ToSet(allocList))
            = Cardinality(ToSet(freeList)) + Cardinality(ToSet(allocList)) - Cardinality({})
      BY <2>1, <2>2, FS_Union
    <3>2. Cardinality({}) = 0
      BY FS_EmptySet
    <3>3. Len(freeList) \in Nat /\ Len(allocList) \in Nat
      BY <2>1, LenProperties
    <3> QED  BY <2>2, <3>1, <3>2, <3>3
  <2> QED  BY <2>1, <2>3 DEF HeadersTracked, Listed
<1> QED  BY <1>1, AllocatorConsistent, PTL

\* No byte of the pool is lost to a split or a merge, and none is in two
\* blocks (xvmem_alloc, xvmem_add_block_to_free_list).
THEOREM EveryByteIsInOneBlock == MemSpec => []BlocksTilePool
<1>1. ASSUME MemInv  PROVE BlocksTilePool
  <2>. DEFINE bytes(b) == blocks[b].buffer .. End(b) - 1
  <2>1. /\ Tiled(blocks, Listed) /\ blocks \in AllBlocks /\ Listed \subseteq Headers
        /\ \A b \in Listed : UpTo(blocks, b) = End(b)
    BY <1>1, ListedHeaders DEF MemInv, MemTyped, UpTo, End
  <2>2. \A b \in Listed : /\ blocks[b].buffer \in Nat /\ End(b) \in Nat
                          /\ PoolStart <= blocks[b].buffer /\ End(b) <= PoolEnd
    BY <2>1, BlockNumbers DEF Tiled
  <2>3. UNION {bytes(b) : b \in Listed} = PoolStart .. PoolEnd - 1
    <3>1. ASSUME NEW b \in Listed, NEW x \in bytes(b)  PROVE x \in PoolStart .. PoolEnd - 1
      BY <2>2, PoolNumbers
    <3>2. ASSUME NEW x \in PoolStart .. PoolEnd - 1  PROVE \E b \in Listed : x \in bytes(b)
      <4>1. PICK b \in Listed : blocks[b].buffer <= x /\ x < UpTo(blocks, b)
        BY <2>1 DEF Tiled
      <4>2. x \in bytes(b)
        BY <2>1, <2>2, <4>1, PoolNumbers
      <4> QED  BY <4>2
    <3>. HIDE DEF bytes
    <3> QED  BY <3>1, <3>2
  <2>4. \A b, c \in Listed : b # c => bytes(b) \intersect bytes(c) = {}
    <3>. SUFFICES ASSUME NEW b \in Listed, NEW c \in Listed, b # c  PROVE bytes(b) \intersect bytes(c) = {}
      OBVIOUS
    <3>1. End(b) <= blocks[c].buffer \/ End(c) <= blocks[b].buffer
      BY <2>1 DEF Tiled
    <3>2. PICK u \in Nat, v \in Nat, w \in Nat, x \in Nat :
            u = blocks[b].buffer /\ v = End(b) /\ w = blocks[c].buffer /\ x = End(c)
      BY <2>2
    <3>3. (u .. v - 1) \intersect (w .. x - 1) = {}
      BY <3>1, <3>2
    <3> QED  BY <3>2, <3>3
  <2>5. UNION {bytes(b) : b \in Listed} = PoolStart .. PoolStart + PoolSize - 1
    <3>1. PoolEnd - 1 = PoolStart + PoolSize - 1
      BY PoolNumbers DEF PoolEnd
    <3> QED  BY <2>3, <3>1, Zenon
  <2>. HIDE DEF bytes
  <2>6. BlocksTilePool <=> /\ UNION {bytes(b) : b \in Listed} = PoolStart .. PoolStart + PoolSize - 1
                          /\ \A b, c \in Listed : b # c => bytes(b) \intersect bytes(c) = {}
    BY Zenon DEF BlocksTilePool, bytes
  <2> QED  BY <2>4, <2>5, <2>6
<1> QED  BY <1>1, AllocatorConsistent, PTL

\* No two blocks of the free list touch, so what has been freed can be
\* allocated again as one piece (xvmem_add_block_to_free_list).
THEOREM FreedBlocksAreMerged == MemSpec => []FreeListCoalesced
<1>1. ASSUME MemInv  PROVE FreeListCoalesced
  <2>1. Len(freeList) \in Nat /\ Sorted(blocks, freeList)
    BY <1>1, ListedHeaders DEF MemInv
  <2>2. ASSUME NEW k \in 1 .. Len(freeList) - 1
        PROVE  UpTo(blocks, freeList[k]) < blocks[freeList[k + 1]].buffer
    <3>1. k \in 1 .. Len(freeList) /\ k + 1 \in 1 .. Len(freeList) /\ k < k + 1
      BY <2>1
    <3> QED  BY <2>1, <3>1 DEF Sorted
  <2> QED  BY <2>2 DEF FreeListCoalesced, UpTo, End
<1> QED  BY <1>1, AllocatorConsistent, PTL

\* The allocator implements the pool of bytes: a step of xvmem_alloc or
\* xvmem_free gives a caller aligned bytes of the pool that no other holds,
\* takes back one caller's bytes, or changes nothing that callers have.
THEOREM AllocatorImplementsPool == MemSpec => ImplementsPool
<1>1. MemInit => Pool!Init
  BY DEF MemInit, Pool!Init
<1>2. MemInv /\ [MemNext]_memVars => [Pool!Next]_held
  BY MemStep
<1> QED  BY <1>1, <1>2, AllocatorConsistent, PTL DEF MemSpec, ImplementsPool, Pool!Spec

-----------------------------------------------------------------------------
(* 3D tiles: the temporary buffers. *)

\* A call takes entries from the queue as long as they are complete, and stops
\* at the tile that is asked for.
LEMMA DoneCounted ==
  ASSUME pending \in Nat, NEW a
  PROVE  /\ DoneCount(a) \in 0 .. pending
         /\ \A i \in 0 .. DoneCount(a) - 1 : Complete(Entry(i)) /\ (i < DoneCount(a) - 1 => Entry(i) # a)
         /\ \/ DoneCount(a) = pending \/ ~Complete(Entry(DoneCount(a)))
            \/ DoneCount(a) > 0 /\ Entry(DoneCount(a) - 1) = a
<1>. DEFINE Stop(n) == n = pending \/ ~Complete(Entry(n)) \/ (n > 0 /\ Entry(n - 1) = a)
            Good(n) == /\ \A i \in 0 .. n - 1 : Complete(Entry(i)) /\ (i < n - 1 => Entry(i) # a)
                       /\ Stop(n)
            S == {n \in 0 .. pending : Stop(n)}
<1>1. S \in SUBSET Nat /\ S # {}
  <2>1. pending \in S
    OBVIOUS
  <2> QED  BY <2>1
<1>2. PICK m \in S : \A k \in S : m <= k
  <2>. HIDE DEF S
  <2> QED  BY <1>1, LeastOf
<1>3. m \in 0 .. pending /\ Stop(m)
  OBVIOUS
<1>4. \A i \in 0 .. pending : i < m => ~Stop(i)
  <2>1. TAKE i \in 0 .. pending
  <2>2. HAVE i < m
  <2>3. i \notin S
    <3>. HIDE DEF S
    <3> QED  BY <1>2, <1>3, <2>2
  <2> QED  BY <2>3
<1>5. ASSUME NEW i \in 0 .. m - 1
      PROVE  Complete(Entry(i)) /\ (i < m - 1 => Entry(i) # a)
  <2>1. i \in 0 .. pending /\ i < m /\ m \in Nat
    BY <1>3
  <2>2. Complete(Entry(i))
    BY <1>4, <2>1
  <2>3. ASSUME i < m - 1 PROVE Entry(i) # a
    <3>1. i + 1 \in 0 .. pending /\ i + 1 < m /\ i + 1 > 0 /\ (i + 1) - 1 = i
      BY <1>3, <2>1, <2>3
    <3>2. ~(i + 1 > 0 /\ Entry((i + 1) - 1) = a)
      BY <1>4, <3>1
    <3> QED  BY <3>1, <3>2
  <2> QED  BY <2>2, <2>3
<1>6. Good(m)
  BY <1>3, <1>5
<1>7. DoneCount(a) = CHOOSE n \in 0 .. pending : Good(n)
  BY DEF DoneCount
<1>. HIDE DEF Good, S
<1>8. DoneCount(a) \in 0 .. pending /\ Good(DoneCount(a))
  BY <1>3, <1>6, <1>7
<1> QED  BY <1>8 DEF Good

\* The six sides, and the dimensions that they pad.
LEMMA SidesNamed ==
  /\ DOMAIN Sides = 1 .. 6
  /\ SideSet = {"left", "right", "top", "bottom", "front", "back"}
  /\ {"ongoing", "dummy", "none"} \cap SideSet = {}
<1>1. DOMAIN Sides = 1 .. 6
  BY DEF Sides
<1>2. SideSet = {"left", "right", "top", "bottom", "front", "back"}
  BY <1>1 DEF SideSet, Sides
<1> QED  BY <1>1, <1>2

\* What is padded next remains to be padded, and no dimension that comes
\* earlier does.
LEMMA NextRemains ==
  ASSUME NEW t, Remaining(t) \cap SideSet # {}
  PROVE  /\ NextSide(t) \in Remaining(t) \cap SideSet
         /\ \A r \in Remaining(t) \cap SideSet : DimOf(r) <= DimOf(NextSide(t))
<1>. DEFINE S == {i \in DOMAIN Sides : Sides[i] \in Remaining(t)}
            First(i) == Sides[i] \in Remaining(t) /\ \A j \in 1 .. i - 1 : Sides[j] \notin Remaining(t)
<1>1. S \in SUBSET Nat /\ S # {}
  <2>1. S \in SUBSET Nat
    BY SidesNamed
  <2>2. S # {}
    BY DEF SideSet
  <2> QED  BY <2>1, <2>2
<1>2. PICK m \in S : \A k \in S : m <= k
  <2>. HIDE DEF S
  <2> QED  BY <1>1, LeastOf
<1>3. m \in DOMAIN Sides /\ First(m)
  <2>1. ASSUME NEW j \in 1 .. m - 1 PROVE Sides[j] \notin Remaining(t)
    <3>1. m \in 1 .. 6 /\ j \in 1 .. 6 /\ j < m
      BY SidesNamed
    <3>2. j \notin S
      <4>. HIDE DEF S
      <4> QED  BY <1>2, <3>1
    <3> QED  BY <3>1, <3>2, SidesNamed
  <2> QED  BY <2>1
<1>4. NextSide(t) = Sides[CHOOSE i \in DOMAIN Sides : First(i)]
  BY DEF NextSide
<1>5. PICK n \in 1 .. 6 : First(n) /\ NextSide(t) = Sides[n]
  <2>. HIDE DEF First
  <2> QED  BY <1>3, <1>4, SidesNamed
<1>6. NextSide(t) \in Remaining(t) \cap SideSet
  BY <1>5, SidesNamed DEF SideSet
<1>7. ASSUME NEW r \in Remaining(t) \cap SideSet PROVE DimOf(r) <= DimOf(NextSide(t))
  <2>1. PICK j \in 1 .. 6 : r = Sides[j]
    BY SidesNamed DEF SideSet
  <2>2. ~(j < n)
    BY <1>5, <1>7, <2>1
  <2>3. \A i, l \in 1 .. 6 : i <= l => DimOf(Sides[l]) <= DimOf(Sides[i])
    BY DEF Sides, DimOf
  <2> QED  BY <1>5, <2>1, <2>2, <2>3
<1> QED  BY <1>6, <1>7

\* What there is to pad, and for whom there is a buffer.
TempTyped ==
  /\ pending \in Nat
  /\ status \in [Tiles -> SUBSET (SideSet \cup {"ongoing", "dummy"})]
  /\ padding \in [Tiles -> SideSet \cup {"none", "dummy"}]
  /\ temp \in [Tiles -> {"none", "given", "bad"}]
TempInv ==
  /\ TempTyped
  /\ \A t \in Tiles : status[t] \cap SideSet = {} \/ "dummy" \notin status[t]
  /\ TempReturned

\* A call keeps that.
LEMMA TempCheck ==
  ASSUME TempInv, NEW a, NEW given, CheckTileReady3D(a, given)
  PROVE  TempInv'
<1>. DEFINE n == DoneCount(a)
            done == {Entry(i) : i \in 0 .. n - 1}
            u == Entry(n)
            pads == n < pending /\ ~(n > 0 /\ Entry(n - 1) = a) /\ Settled(u)
            buffer == IF ~NeedsTemp(u) THEN FreeTemp(u) ELSE IF given THEN "given" ELSE "bad"
<1>1. /\ pending' = pending - n
      /\ status' = [t \in Tiles |-> IF t \in done THEN {}
                                    ELSE IF pads /\ t = u THEN Remaining(u) \cup {"ongoing"}
                                    ELSE status[t]]
      /\ padding' = [t \in Tiles |-> IF t \in done THEN "none"
                                     ELSE IF ~pads \/ t # u THEN padding[t]
                                     ELSE IF Remaining(u) = {"dummy"} THEN "dummy" ELSE NextSide(u)]
      /\ temp' = [t \in Tiles |-> IF t \in done THEN FreeTemp(t)
                                  ELSE IF pads /\ t = u THEN buffer ELSE temp[t]]
  BY DEF CheckTileReady3D
<1>2. pending \in Nat /\ n \in 0 .. pending /\ (pads => Remaining(u) # {})
  <2>1. pending \in Nat
    BY DEF TempInv, TempTyped
  <2>2. /\ DoneCount(a) \in 0 .. pending
        /\ \/ DoneCount(a) = pending \/ ~Complete(Entry(DoneCount(a)))
           \/ DoneCount(a) > 0 /\ Entry(DoneCount(a) - 1) = a
    BY <2>1, DoneCounted
  <2> QED  BY <2>1, <2>2 DEF Complete
<1>. HIDE DEF n, done, u, pads, buffer
<1>3. \A t \in Tiles : Remaining(t) \subseteq status[t] \ {"ongoing"}
  BY DEF Remaining
<1>4. ASSUME NEW t \in Tiles, pads, t = u, t \notin done
      PROVE  /\ status'[t] \subseteq SideSet \cup {"ongoing", "dummy"}
             /\ status'[t] \cap SideSet = {} \/ "dummy" \notin status'[t]
             /\ padding'[t] \in SideSet \cup {"dummy"}
             /\ temp'[t] \in {"none", "given", "bad"}
             /\ temp'[t] # "none" => padding'[t] \in SideSet
  <2>1. /\ status'[t] = Remaining(t) \cup {"ongoing"}
        /\ padding'[t] = IF Remaining(t) = {"dummy"} THEN "dummy" ELSE NextSide(t)
        /\ temp'[t] = buffer
    BY <1>1, <1>4
  <2>2. /\ status[t] \subseteq SideSet \cup {"ongoing", "dummy"}
        /\ status[t] \cap SideSet = {} \/ "dummy" \notin status[t]
    BY DEF TempInv, TempTyped
  <2>3. Remaining(t) # {} /\ Remaining(t) \subseteq status[t] \ {"ongoing"}
    BY <1>2, <1>3, <1>4
  <2>4. Remaining(t) # {"dummy"} => NextSide(t) \in SideSet
    <3>1. Remaining(t) # {"dummy"} => Remaining(t) \cap SideSet # {}
      BY <2>2, <2>3
    <3> QED  BY <3>1, NextRemains
  <2>5. buffer \in {"none", "given", "bad"} /\ (buffer # "none" => Remaining(t) # {"dummy"})
    BY <1>4 DEF buffer, NeedsTemp, FreeTemp
  <2>6. "ongoing" \notin SideSet
    BY SidesNamed
  <2> QED  BY <2>1, <2>2, <2>3, <2>4, <2>5, <2>6
<1>5. ASSUME NEW t \in Tiles, ~(pads /\ t = u) \/ t \in done
      PROVE  \/ status'[t] = {} /\ padding'[t] = "none" /\ temp'[t] = "none"
             \/ status'[t] = status[t] /\ padding'[t] = padding[t] /\ temp'[t] = temp[t]
  BY <1>1, <1>5 DEF FreeTemp
<1>6. ASSUME NEW t \in Tiles
      PROVE  /\ status'[t] \subseteq SideSet \cup {"ongoing", "dummy"}
             /\ status'[t] \cap SideSet = {} \/ "dummy" \notin status'[t]
             /\ padding'[t] \in SideSet \cup {"none", "dummy"}
             /\ temp'[t] \in {"none", "given", "bad"}
             /\ temp'[t] # "none" => padding'[t] \in SideSet
  <2>1. CASE pads /\ t = u /\ t \notin done
    BY <1>4, <2>1
  <2>2. CASE ~(pads /\ t = u) \/ t \in done
    BY <1>5, <2>2 DEF TempInv, TempTyped, TempReturned
  <2> QED  BY <2>1, <2>2
<1>7. /\ DOMAIN status' = Tiles /\ status' = [t \in Tiles |-> status'[t]]
      /\ DOMAIN padding' = Tiles /\ padding' = [t \in Tiles |-> padding'[t]]
      /\ DOMAIN temp' = Tiles /\ temp' = [t \in Tiles |-> temp'[t]]
  BY <1>1
<1>8. pending' \in Nat
  BY <1>1, <1>2
<1>9. status' \in [Tiles -> SUBSET (SideSet \cup {"ongoing", "dummy"})]
  BY <1>6, <1>7
<1>10. padding' \in [Tiles -> SideSet \cup {"none", "dummy"}]
  BY <1>6, <1>7
<1>11. temp' \in [Tiles -> {"none", "given", "bad"}]
  BY <1>6, <1>7
<1> QED  BY <1>6, <1>8, <1>9, <1>10, <1>11 DEF TempInv, TempTyped, TempReturned

\* So does every step.
LEMMA TempStep == ASSUME TempInv, [Next3D]_vars3D PROVE TempInv'
<1>1. CASE UNCHANGED <<status, padding, temp, pending>>
  BY <1>1 DEF TempInv, TempTyped, TempReturned
<1>2. ASSUME NEW t \in Tiles, NEW flags \in SUBSET (SideSet \cup {"ongoing", "dummy"}),
             flags \cap SideSet = {} \/ "dummy" \notin flags,
             status' = [status EXCEPT ![t] = flags], UNCHANGED <<padding, temp>>,
             pending' = pending + 1 \/ pending' = pending
      PROVE  TempInv'
  <2>1. TempTyped'
    BY <1>2 DEF TempInv, TempTyped
  <2>2. \A q \in Tiles : status'[q] \cap SideSet = {} \/ "dummy" \notin status'[q]
    BY <1>2 DEF TempInv, TempTyped
  <2> QED  BY <1>2, <2>1, <2>2 DEF TempInv, TempReturned
<1>3. ASSUME NEW t \in Tiles, NEW p \in Positions, ReqTileTransferIn3D(t, p)
      PROVE  TempInv'
  <2>. DEFINE flags == {"ongoing"} \cup (IF Beyond(Clips(p)) THEN {"dummy"} ELSE Flags(Clips(p)))
  <2>1. flags \in SUBSET (SideSet \cup {"ongoing", "dummy"}) /\ (flags \cap SideSet = {} \/ "dummy" \notin flags)
    BY SidesNamed DEF Flags
  <2>2. /\ status' = [status EXCEPT ![t] = flags] /\ UNCHANGED <<padding, temp>> /\ pending' = pending + 1
    BY <1>3 DEF ReqTileTransferIn3D, Request, Enqueue
  <2>. HIDE DEF flags
  <2> QED  BY <1>2, <2>1, <2>2
<1>4. ASSUME NEW t \in Tiles, NEW p \in Positions, ReqTileTransferOut3D(t, p)
      PROVE  TempInv'
  <2>. DEFINE some == \A d \in Dims : OutBox(t, p).size[d] > 0
              flags == IF some THEN {"ongoing"} ELSE status[t]
  <2>1. /\ status' = [status EXCEPT ![t] = flags] /\ UNCHANGED <<padding, temp>>
        /\ pending' = pending + 1 \/ pending' = pending
    <3>. HIDE DEF some
    <3>1. /\ status' = [status EXCEPT ![t] = IF some THEN {"ongoing"} ELSE @] /\ UNCHANGED <<padding, temp>>
          /\ IF some THEN Enqueue(t) ELSE UNCHANGED queueVars
      BY <1>4 DEF ReqTileTransferOut3D, Request, some
    <3> QED  BY <3>1 DEF Enqueue, queueVars
  <2>2. flags \in SUBSET (SideSet \cup {"ongoing", "dummy"}) /\ (flags \cap SideSet = {} \/ "dummy" \notin flags)
    BY SidesNamed DEF TempInv, TempTyped
  <2>. HIDE DEF flags
  <2> QED  BY <1>2, <2>1, <2>2
<1>5. ASSUME NEW t \in Tiles, Work(t) \/ \E sleeps \in BOOLEAN : Wait(t, sleeps)
      PROVE  TempInv'
  BY <1>1, <1>5 DEF Work, Wait, tileVars, queueVars
<1>6. ASSUME NEW t \in Tiles, Poll(t) PROVE TempInv'
  BY <1>6, TempCheck DEF Poll
<1>7. CASE WaitForTile3D
  BY <1>7, TempCheck DEF WaitForTile3D
<1>8. CASE Sleep \/ WakeUp \/ Dma
  BY <1>1, <1>8 DEF Sleep, WakeUp, Dma, tileVars, queueVars
<1>9. CASE UNCHANGED vars3D
  BY <1>1, <1>9 DEF vars3D, tileVars, queueVars
<1> QED  BY <1>3, <1>4, <1>5, <1>6, <1>7, <1>8, <1>9 DEF Next3D

\* A 3D tile has a temporary buffer only while a side of it is padded: no
\* order of requests and calls, and no failure to get one, loses a buffer
\* (xvCheckTileReady3D).
THEOREM TempComesBack == Spec3D => []TempReturned
<1>1. ASSUME Init3D PROVE TempInv
  BY <1>1 DEF Init3D, TempInv, TempTyped, TempReturned
<1>2. TempInv => TempReturned
  BY DEF TempInv
<1> QED  BY <1>1, <1>2, TempStep, PTL DEF Spec3D

-----------------------------------------------------------------------------
(* 3D tiles: where a tile lies. *)

\* The sizes.
LEMMA Sizes3D ==
  /\ Dims = 1 .. 3 /\ 1 \in Dims /\ 2 \in Dims /\ 3 \in Dims
  /\ Edge \in Nat /\ Pads \subseteq Nat
  /\ \A d \in Dims : /\ Extent[d] \in Nat \ {0} /\ Frame[d] \in Nat \ {0} /\ Tile[d] \in Nat \ {0}
                     /\ Extent[d] = Tile[d] + 2 * Edge
<1>1. Edge \in Nat /\ Pads \subseteq Nat
  BY Tile3DAssumption
<1>2. ASSUME NEW d \in 1 .. 3 PROVE Tile[d] \in Nat \ {0} /\ Frame[d] \in Nat \ {0}
  <2>1. CASE d = 1
    BY <2>1, Tile3DAssumption DEF Tile, Frame
  <2>2. CASE d = 2
    BY <2>2, Tile3DAssumption DEF Tile, Frame
  <2>3. CASE d = 3
    BY <2>3, Tile3DAssumption DEF Tile, Frame
  <2> QED  BY <2>1, <2>2, <2>3
<1>3. ASSUME NEW d \in 1 .. 3 PROVE Extent[d] = Tile[d] + 2 * Edge
  BY DEF Extent, Dims
<1>4. ASSUME NEW d \in 1 .. 3 PROVE Extent[d] \in Nat \ {0}
  BY <1>1, <1>2, <1>3
<1> QED  BY <1>1, <1>2, <1>3, <1>4 DEF Dims

\* A cell is given by its three coordinates.
LEMMA Cells3D ==
  /\ \A c \in Cells : c = [d \in Dims |-> c[d]] /\ \A d \in Dims : c[d] \in Int /\ 0 <= c[d] /\ c[d] < Extent[d]
  /\ \A f : f = [d \in Dims |-> f[d]] /\ (\A d \in Dims : f[d] \in Int /\ 0 <= f[d] /\ f[d] < Extent[d]) => f \in Cells
<1>1. PICK e1, e2, e3 \in Nat : e1 = Extent[1] /\ e2 = Extent[2] /\ e3 = Extent[3]
  BY Sizes3D
<1>2. Cells = (0 .. e1 - 1) \X (0 .. e2 - 1) \X (0 .. e3 - 1) /\ Dims = 1 .. 3
  BY <1>1, Sizes3D DEF Cells
<1>3. ASSUME NEW c \in Cells
      PROVE  c = [d \in Dims |-> c[d]] /\ \A d \in Dims : c[d] \in Int /\ 0 <= c[d] /\ c[d] < Extent[d]
  <2>1. c[1] \in 0 .. e1 - 1 /\ c[2] \in 0 .. e2 - 1 /\ c[3] \in 0 .. e3 - 1 /\ c = [d \in Dims |-> c[d]]
    BY <1>2
  <2>2. ASSUME NEW d \in Dims PROVE c[d] \in Int /\ 0 <= c[d] /\ c[d] < Extent[d]
    <3>1. d = 1 \/ d = 2 \/ d = 3
      BY <1>2
    <3> QED  BY <1>1, <2>1, <3>1
  <2> QED  BY <2>1, <2>2
<1>4. ASSUME NEW f, f = [d \in Dims |-> f[d]], \A d \in Dims : f[d] \in Int /\ 0 <= f[d] /\ f[d] < Extent[d]
      PROVE  f \in Cells
  <2>1. f[1] \in 0 .. e1 - 1 /\ f[2] \in 0 .. e2 - 1 /\ f[3] \in 0 .. e3 - 1
    <3>1. \A d \in Dims : f[d] \in Int /\ 0 <= f[d] /\ f[d] < Extent[d]
      BY <1>4
    <3>2. f[1] \in Int /\ 0 <= f[1] /\ f[1] < e1
      BY <1>1, <3>1, Sizes3D
    <3>3. f[2] \in Int /\ 0 <= f[2] /\ f[2] < e2
      BY <1>1, <3>1, Sizes3D
    <3>4. f[3] \in Int /\ 0 <= f[3] /\ f[3] < e3
      BY <1>1, <3>1, Sizes3D
    <3> QED  BY <3>2, <3>3, <3>4
  <2>2. f = [d \in 1 .. 3 |-> f[d]]
    BY <1>2, <1>4
  <2> QED  BY <1>2, <2>1, <2>2
<1> QED  BY <1>3, <1>4

\* What the cut k of h pixels from first on tells, for n pixels of a frame with
\* pads of p pixels.
CutTells(first, h, n, p, k) ==
  /\ k.before \in Nat /\ k.after \in Nat /\ k.first \in Int /\ k.last \in Int
  /\ ~Nothing(k) =>
       /\ k.before + k.after < h /\ k.first = first + k.before
       /\ k.last - k.first + 1 = h - k.before - k.after
       /\ \A i \in 0 .. h - 1 :
            /\ Clamp(first + i, -p, n - 1 + p) = first + Clamp(i, k.before, h - k.after - 1)
            /\ (Clamp(first + i, -p, n - 1 + p) = first + i) <=> k.before <= i /\ i < h - k.after
  /\ Nothing(k) => \A i \in 0 .. h - 1 : Clamp(first + i, -p, n - 1 + p) # first + i

\* Clip tells it.
LEMMA Cut3D ==
  ASSUME NEW first \in Int, NEW h \in Nat \ {0}, NEW n \in Nat \ {0}, NEW p \in Nat
  PROVE  CutTells(first, h, n, p, Clip(first, first + h - 1, n, p))
<1>. DEFINE k == Clip(first, first + h - 1, n, p)
<1>1. PICK b, a, kf, kl \in Int :
        /\ b = k.before /\ a = k.after /\ kf = k.first /\ kl = k.last
        /\ b = Before(Lesser(first, n + p), p)
        /\ a = Greater(0, Greater(first + h - 1, -p - 1) - (n - 1 + p))
        /\ kf = Greater(Lesser(first, n + p), -p)
        /\ kl = Lesser(Greater(first + h - 1, -p - 1), n - 1 + p)
  <2>. DEFINE b == Before(Lesser(first, n + p), p)
              a == Greater(0, Greater(first + h - 1, -p - 1) - (n - 1 + p))
              kf == Greater(Lesser(first, n + p), -p)
              kl == Lesser(Greater(first + h - 1, -p - 1), n - 1 + p)
  <2>1. k.before = b /\ k.after = a /\ k.first = kf /\ k.last = kl
    BY DEF Clip, LastInFrame
  <2>2. b \in Int /\ a \in Int /\ kf \in Int /\ kl \in Int
    BY SMT DEF Before, Greater, Lesser
  <2>. HIDE DEF a, b, kf, kl
  <2> QED  BY <2>1, <2>2 DEF a, b, kf, kl
<1>2. b \in Nat /\ a \in Nat
  BY <1>1, SMT DEF Before, Greater, Lesser
<1>3. ASSUME ~(kl < kf)
      PROVE  /\ b + a < h /\ kf = first + b /\ kl - kf + 1 = h - b - a
             /\ \A i \in 0 .. h - 1 :
                  /\ Clamp(first + i, -p, n - 1 + p) = first + Clamp(i, b, h - a - 1)
                  /\ (Clamp(first + i, -p, n - 1 + p) = first + i) <=> b <= i /\ i < h - a
  <2>1. first < n + p /\ -p - 1 < first + h - 1
    BY <1>1, <1>3, SMT DEF Greater, Lesser
  <2>2. b = Greater(0, -p - first) /\ a = Greater(0, first + h - n - p)
    BY <1>1, <2>1, SMT DEF Before, Greater, Lesser
  <2>3. b + a < h /\ kf = first + b /\ kl - kf + 1 = h - b - a
    <3>1. kf = Greater(first, -p) /\ kl = Lesser(first + h - 1, n - 1 + p)
      BY <1>1, <2>1, SMT DEF Greater, Lesser
    <3>2. kf = first + b
      BY <2>1, <2>2, <3>1, SMT DEF Greater
    <3>3. kl = first + h - 1 - a
      BY <2>1, <2>2, <3>1, SMT DEF Greater, Lesser
    <3>4. b + a < h
      BY <2>1, <2>2, SMT DEF Greater
    <3> QED  BY <3>2, <3>3, <3>4
  <2>4. ASSUME NEW i \in 0 .. h - 1
        PROVE  /\ Clamp(first + i, -p, n - 1 + p) = first + Clamp(i, b, h - a - 1)
               /\ (Clamp(first + i, -p, n - 1 + p) = first + i) <=> b <= i /\ i < h - a
    <3>1. i \in Int /\ 0 <= i /\ i <= h - 1
      BY <2>4
    <3>2. Clamp(first + i, -p, n - 1 + p) = first + Clamp(i, b, h - a - 1)
      BY <2>1, <2>2, <2>3, <3>1, SMT DEF Clamp, Greater, Lesser
    <3>3. (Clamp(i, b, h - a - 1) = i) <=> b <= i /\ i < h - a
      BY <1>2, <2>3, <3>1, SMT DEF Clamp, Greater, Lesser
    <3>4. PICK j \in Int : j = Clamp(i, b, h - a - 1)
      <4>1. Clamp(i, b, h - a - 1) \in Int
        BY <1>2, <3>1, SMT DEF Clamp, Greater, Lesser
      <4> QED  BY <4>1
    <3>5. first + j = first + i <=> j = i
      BY <3>1
    <3> QED  BY <3>2, <3>3, <3>4, <3>5
  <2> QED  BY <2>3, <2>4
<1>4. ASSUME kl < kf, NEW i \in 0 .. h - 1
      PROVE  Clamp(first + i, -p, n - 1 + p) # first + i
  <2>1. i \in Int /\ 0 <= i /\ i <= h - 1
    BY <1>4
  <2> QED  BY <1>1, <1>4, <2>1, SMT DEF Clamp, Greater, Lesser
<1> QED  BY <1>1, <1>2, <1>3, <1>4 DEF Nothing, CutTells

\* The inside of a tile at q in dimension d, Lo .. Hi - 1, and the cells that
\* are off the frame on side s.
Lo(q, d) == Clips(q)[d].before
Hi(q, d) == Extent[d] - Clips(q)[d].after
OffSide(q, s, c) ==
  IF IsBefore(s) THEN c[DimOf(s)] < Lo(q, DimOf(s)) ELSE c[DimOf(s)] >= Hi(q, DimOf(s))
Within(q, S) == {c \in Cells : \A s \in S : ~OffSide(q, s, c)}

Points == Int \X Int \X Int

\* A point has three coordinates.
LEMMA Coordinates == \A q \in Points : \A d \in Dims : q[d] \in Int
<1>1. ASSUME NEW q \in Points PROVE q[1] \in Int /\ q[2] \in Int /\ q[3] \in Int
  BY DEF Points
<1> QED  BY <1>1 DEF Dims

\* How the cut of a tile tells its inside.
LEMMA Insides ==
  ASSUME frame.pad \in Nat, NEW q \in Points, NEW d \in Dims
  PROVE  /\ Clips(q)[d].before = Lo(q, d) /\ Clips(q)[d].after = Extent[d] - Hi(q, d)
         /\ Lo(q, d) \in Nat /\ Hi(q, d) \in Int /\ Hi(q, d) <= Extent[d]
         /\ Clips(q)[d].first \in Int /\ Clips(q)[d].last \in Int
         /\ ~Nothing(Clips(q)[d]) =>
              /\ Lo(q, d) < Hi(q, d)
              /\ Clips(q)[d].first = q[d] - Edge + Lo(q, d)
              /\ Clips(q)[d].last - Clips(q)[d].first + 1 = Hi(q, d) - Lo(q, d)
              /\ \A i \in 0 .. Extent[d] - 1 :
                   /\ Clamp(q[d] - Edge + i, -frame.pad, Frame[d] - 1 + frame.pad)
                        = q[d] - Edge + Clamp(i, Lo(q, d), Hi(q, d) - 1)
                   /\ (Clamp(q[d] - Edge + i, -frame.pad, Frame[d] - 1 + frame.pad) = q[d] - Edge + i)
                        <=> Lo(q, d) <= i /\ i < Hi(q, d)
         /\ Nothing(Clips(q)[d]) => \A i \in 0 .. Extent[d] - 1 :
              Clamp(q[d] - Edge + i, -frame.pad, Frame[d] - 1 + frame.pad) # q[d] - Edge + i
<1>1. PICK first \in Int, h \in Nat \ {0}, n \in Nat \ {0}, p \in Nat :
        first = q[d] - Edge /\ h = Extent[d] /\ n = Frame[d] /\ p = frame.pad
  <2>1. q[d] \in Int /\ Edge \in Int
    BY Coordinates, Sizes3D
  <2>2. q[d] - Edge \in Int
    BY <2>1
  <2> QED  BY <2>2, Sizes3D
<1>2. q[d] + Tile[d] - 1 + Edge = first + h - 1
  BY <1>1, Coordinates, Sizes3D
<1>3. PICK k : k = Clips(q)[d]
  OBVIOUS
<1>4. k = Clip(first, first + h - 1, n, p)
  BY <1>1, <1>2, <1>3 DEF Clips
<1>5. /\ k.before \in Nat /\ k.after \in Nat /\ k.first \in Int /\ k.last \in Int
      /\ ~Nothing(k) =>
           /\ k.before + k.after < h /\ k.first = first + k.before
           /\ k.last - k.first + 1 = h - k.before - k.after
           /\ \A i \in 0 .. h - 1 :
                /\ Clamp(first + i, -p, n - 1 + p) = first + Clamp(i, k.before, h - k.after - 1)
                /\ (Clamp(first + i, -p, n - 1 + p) = first + i) <=> k.before <= i /\ i < h - k.after
      /\ Nothing(k) => \A i \in 0 .. h - 1 : Clamp(first + i, -p, n - 1 + p) # first + i
  <2>1. CutTells(first, h, n, p, k)
    BY <1>4, Cut3D
  <2> QED  BY <2>1 DEF CutTells
<1>6. PICK lo \in Nat, hi \in Int : lo = Lo(q, d) /\ hi = Hi(q, d) /\ lo = k.before /\ hi = h - k.after
  BY <1>1, <1>3, <1>5 DEF Lo, Hi
<1>7. /\ k.before = lo /\ k.after = h - hi /\ hi <= h
      /\ k.before + k.after < h => lo < hi
      /\ h - k.before - k.after = hi - lo
  BY <1>5, <1>6
<1> QED  BY <1>1, <1>3, <1>5, <1>6, <1>7

\* The pixel that belongs at cell c of a tile at q.
PixelOf3D(q, c) ==
  LET at == [d \in Dims |-> q[d] - Edge + c[d]]
      in == [d \in Dims |-> Clamp(at[d], -frame.pad, Frame[d] - 1 + frame.pad)]
  IN  IF at = in \/ (frame.padding = "edge" /\ ~Beyond(Clips(q))) THEN in ELSE Const

InsideTile(q, c) == \A d \in Dims : Lo(q, d) <= c[d] /\ c[d] < Hi(q, d)
Near(q, c) == [d \in Dims |-> Clamp(c[d], Lo(q, d), Hi(q, d) - 1)]

\* It is a pixel of the frame inside, the nearest one or the padding value off
\* it, and the padding value beyond the frame.
LEMMA Pixels3D ==
  ASSUME frame.pad \in Nat, NEW q \in Points, NEW c \in Cells
  PROVE  /\ Beyond(Clips(q)) => PixelOf3D(q, c) = Const
         /\ ~Beyond(Clips(q)) /\ InsideTile(q, c) => PixelOf3D(q, c) = [d \in Dims |-> q[d] - Edge + c[d]]
         /\ ~Beyond(Clips(q)) /\ frame.padding = "edge" =>
              PixelOf3D(q, c) = [d \in Dims |-> q[d] - Edge + Near(q, c)[d]]
         /\ ~Beyond(Clips(q)) /\ frame.padding # "edge" /\ ~InsideTile(q, c) => PixelOf3D(q, c) = Const
<1>. DEFINE at == [d \in Dims |-> q[d] - Edge + c[d]]
            in == [d \in Dims |-> Clamp(at[d], -frame.pad, Frame[d] - 1 + frame.pad)]
<1>1. PixelOf3D(q, c) = IF at = in \/ (frame.padding = "edge" /\ ~Beyond(Clips(q))) THEN in ELSE Const
  BY DEF PixelOf3D
<1>2. \A d \in Dims : c[d] \in 0 .. Extent[d] - 1
  BY Cells3D, Sizes3D
<1>3. \A d \in Dims : at[d] = q[d] - Edge + c[d]
                      /\ in[d] = Clamp(q[d] - Edge + c[d], -frame.pad, Frame[d] - 1 + frame.pad)
  OBVIOUS
<1>4. ASSUME Beyond(Clips(q)) PROVE at # in
  <2>1. PICK d \in Dims : Nothing(Clips(q)[d])
    BY <1>4 DEF Beyond
  <2>2. in[d] # at[d]
    BY <1>2, <1>3, <2>1, Insides
  <2> QED  BY <2>2
<1>5. ASSUME ~Beyond(Clips(q)), NEW d \in Dims
      PROVE  /\ in[d] = q[d] - Edge + Near(q, c)[d]
             /\ in[d] = at[d] <=> Lo(q, d) <= c[d] /\ c[d] < Hi(q, d)
  <2>1. ~Nothing(Clips(q)[d])
    BY <1>5 DEF Beyond
  <2> QED  BY <1>2, <1>3, <2>1, Insides DEF Near
<1>6. at = [d \in Dims |-> at[d]] /\ in = [d \in Dims |-> in[d]]
  OBVIOUS
<1>. HIDE DEF at, in
<1>7. ASSUME ~Beyond(Clips(q)) PROVE at = in <=> InsideTile(q, c)
  <2>1. ASSUME InsideTile(q, c) PROVE at = in
    BY <1>5, <1>6, <1>7, <2>1, Zenon DEF InsideTile
  <2>2. ASSUME at = in PROVE InsideTile(q, c)
    BY <1>5, <1>7, <2>2 DEF InsideTile
  <2> QED  BY <2>1, <2>2
<1>8. ASSUME ~Beyond(Clips(q)), frame.padding = "edge"
      PROVE  PixelOf3D(q, c) = [d \in Dims |-> q[d] - Edge + Near(q, c)[d]]
  <2>1. PixelOf3D(q, c) = in
    BY <1>1, <1>8
  <2> QED  BY <1>5, <1>6, <1>8, <2>1
<1>9. ASSUME ~Beyond(Clips(q)), InsideTile(q, c)
      PROVE  PixelOf3D(q, c) = [d \in Dims |-> q[d] - Edge + c[d]]
  <2>1. PixelOf3D(q, c) = at
    BY <1>1, <1>7, <1>9
  <2> QED  BY <2>1 DEF at
<1> QED  BY <1>1, <1>4, <1>7, <1>8, <1>9

-----------------------------------------------------------------------------
(* 3D tiles: what the copies bring. *)

\* Each side is before or after the inside, in one dimension; each dimension
\* has one of both.
LEMMA SidesOfDims ==
  /\ \A s \in SideSet : DimOf(s) \in Dims /\ IsBefore(s) \in BOOLEAN
  /\ \A d \in Dims : /\ \E s \in SideSet : DimOf(s) = d /\ IsBefore(s)
                     /\ \E s \in SideSet : DimOf(s) = d /\ ~IsBefore(s)
<1>1. \A s \in SideSet : DimOf(s) \in Dims /\ IsBefore(s) \in BOOLEAN
  BY SidesNamed, Sizes3D DEF DimOf, IsBefore
<1>2. ASSUME NEW d \in Dims
      PROVE  /\ \E s \in SideSet : DimOf(s) = d /\ IsBefore(s)
             /\ \E s \in SideSet : DimOf(s) = d /\ ~IsBefore(s)
  <2>1. d = 1 \/ d = 2 \/ d = 3
    BY Sizes3D
  <2>2. /\ {"left", "right", "top", "bottom", "front", "back"} \subseteq SideSet
        /\ DimOf("left") = 3 /\ DimOf("right") = 3 /\ DimOf("top") = 2 /\ DimOf("bottom") = 2
        /\ DimOf("front") = 1 /\ DimOf("back") = 1
        /\ IsBefore("left") /\ ~IsBefore("right") /\ IsBefore("top") /\ ~IsBefore("bottom")
        /\ IsBefore("front") /\ ~IsBefore("back")
    BY SidesNamed DEF DimOf, IsBefore
  <2> QED  BY <2>1, <2>2
<1> QED  BY <1>1, <1>2

\* A cell is off the frame on a side that is flagged, or it is inside.
LEMMA OffFlags ==
  ASSUME frame.pad \in Nat, NEW q \in Points, NEW c \in Cells
  PROVE  /\ \A s \in SideSet : OffSide(q, s, c) => s \in Flags(Clips(q))
         /\ \A d \in Dims : (Lo(q, d) <= c[d] /\ c[d] < Hi(q, d))
                              <=> \A s \in SideSet : DimOf(s) = d => ~OffSide(q, s, c)
<1>1. ASSUME NEW d \in Dims
      PROVE  \E x, lo, hi, e \in Int : /\ x = c[d] /\ lo = Lo(q, d) /\ hi = Hi(q, d) /\ e = Extent[d] /\ 0 <= x /\ x < e
                                       /\ Clips(q)[d].before = lo /\ Clips(q)[d].after = e - hi
  <2>1. /\ c[d] \in Int /\ 0 <= c[d] /\ c[d] < Extent[d] /\ Extent[d] \in Int
        /\ Lo(q, d) \in Int /\ Hi(q, d) \in Int
        /\ Clips(q)[d].before = Lo(q, d) /\ Clips(q)[d].after = Extent[d] - Hi(q, d)
    BY Cells3D, Insides, Sizes3D
  <2> QED  BY <2>1
<1>2. ASSUME NEW s \in SideSet, OffSide(q, s, c) PROVE s \in Flags(Clips(q))
  <2>1. PICK d \in Dims : d = DimOf(s)
    BY SidesOfDims
  <2>2. PICK x, lo, hi, e \in Int :
          /\ x = c[d] /\ lo = Lo(q, d) /\ hi = Hi(q, d) /\ e = Extent[d] /\ 0 <= x /\ x < e
          /\ Clips(q)[d].before = lo /\ Clips(q)[d].after = e - hi
    BY <1>1
  <2>3. IF IsBefore(s) THEN x < lo ELSE x >= hi
    BY <1>2, <2>1, <2>2 DEF OffSide
  <2>4. IF IsBefore(s) THEN Clips(q)[d].before > 0 ELSE Clips(q)[d].after > 0
    BY <2>2, <2>3
  <2> QED  BY <2>1, <2>4 DEF Flags
<1>3. ASSUME NEW d \in Dims
      PROVE  (Lo(q, d) <= c[d] /\ c[d] < Hi(q, d)) <=> \A s \in SideSet : DimOf(s) = d => ~OffSide(q, s, c)
  <2>1. PICK x, lo, hi, e \in Int :
          /\ x = c[d] /\ lo = Lo(q, d) /\ hi = Hi(q, d) /\ e = Extent[d] /\ 0 <= x /\ x < e
          /\ Clips(q)[d].before = lo /\ Clips(q)[d].after = e - hi
    BY <1>1
  <2>2. \A s \in SideSet : DimOf(s) = d => (OffSide(q, s, c) <=> IF IsBefore(s) THEN x < lo ELSE x >= hi)
    BY <2>1 DEF OffSide
  <2>3. /\ \E s \in SideSet : DimOf(s) = d /\ IsBefore(s)
        /\ \E s \in SideSet : DimOf(s) = d /\ ~IsBefore(s)
    BY SidesOfDims
  <2> QED  BY <2>1, <2>2, <2>3
<1> QED  BY <1>2, <1>3

\* Cells that are off no flagged side are inside.
LEMMA WithinFlags ==
  ASSUME frame.pad \in Nat, NEW q \in Points
  PROVE  /\ \A c \in Within(q, Flags(Clips(q))) : c \in Cells /\ InsideTile(q, c)
         /\ Within(q, {}) = Cells
<1>1. ASSUME NEW c \in Within(q, Flags(Clips(q))), NEW d \in Dims
      PROVE  Lo(q, d) <= c[d] /\ c[d] < Hi(q, d)
  <2>1. c \in Cells /\ \A s \in Flags(Clips(q)) : ~OffSide(q, s, c)
    BY <1>1 DEF Within
  <2> QED  BY <2>1, OffFlags
<1> QED  BY <1>1 DEF Within, InsideTile

\* What the iDMA is given.
Boxes ==
  [tile : Tiles, to : {"tile", "frame"}, at : [Dims -> Int], size : [Dims -> Int],
   from : {"tile", "frame", "temp"}, first : [Dims -> Int], step : [Dims -> Int]]

\* Copies of tile t at q, into cells where they belong: from the frame, the
\* padding value, or cells of S that show the same.
Faithful3D(b, t, q, S) ==
  /\ b \in Boxes /\ b.tile = t /\ b.to = "tile"
  /\ \A c \in Cells : InBox(b, c) =>
       \/ b.from = "frame" /\ SourceOf(b, c) = PixelOf3D(q, c)
       \/ b.from = "temp" /\ PixelOf3D(q, c) = Const
       \/ b.from = "tile" /\ SourceOf(b, c) \in S /\ PixelOf3D(q, SourceOf(b, c)) = PixelOf3D(q, c)
Brings3D(copies, t, q, S, wanted) ==
  /\ copies \in Seq(Boxes)
  /\ \A i \in DOMAIN copies : Faithful3D(copies[i], t, q, S)
  /\ \A c \in wanted \ S : \E i \in DOMAIN copies : InBox(copies[i], c)

\* The copy that is requested brings the inside.
LEMMA InsideBrings ==
  ASSUME frame.pad \in Nat, NEW t \in Tiles, NEW q \in Points, ~Beyond(Clips(q))
  PROVE  Brings3D(<<Inside(t, Clips(q))>>, t, q, {}, Within(q, Flags(Clips(q))))
<1>. DEFINE k == Clips(q)
            b == Inside(t, k)
<1>1. ASSUME NEW d \in Dims
      PROVE  /\ b.at[d] = Lo(q, d) /\ b.size[d] = Hi(q, d) - Lo(q, d)
             /\ b.first[d] = q[d] - Edge + Lo(q, d) /\ b.step[d] = 1
             /\ Lo(q, d) \in Int /\ Hi(q, d) \in Int /\ q[d] - Edge \in Int
  <2>1. ~Nothing(k[d])
    BY DEF Beyond
  <2>2. /\ k[d].before = Lo(q, d) /\ k[d].last - k[d].first + 1 = Hi(q, d) - Lo(q, d)
        /\ k[d].first = q[d] - Edge + Lo(q, d)
        /\ Lo(q, d) \in Int /\ Hi(q, d) \in Int
    BY <2>1, Insides
  <2>3. q[d] \in Int /\ Edge \in Int
    BY Coordinates, Sizes3D
  <2>. HIDE DEF k
  <2>4. b.at[d] = k[d].before /\ b.size[d] = k[d].last - k[d].first + 1 /\ b.first[d] = k[d].first /\ b.step[d] = 1
    BY DEF Inside, Box, Size
  <2>5. q[d] - Edge \in Int
    BY <2>3
  <2> QED  BY <2>2, <2>4, <2>5
<1>2. /\ b.tile = t /\ b.to = "tile" /\ b.from = "frame"
      /\ b = [tile |-> t, to |-> "tile", at |-> b.at, size |-> b.size, from |-> "frame", first |-> b.first, step |-> b.step]
      /\ b.at = [d \in Dims |-> b.at[d]] /\ b.size = [d \in Dims |-> b.size[d]]
      /\ b.first = [d \in Dims |-> b.first[d]] /\ b.step = [d \in Dims |-> b.step[d]]
  <2>. HIDE DEF k
  <2> QED  BY DEF Inside, Box, Size
<1>. HIDE DEF b, k
<1>3. b \in Boxes
  <2>1. \A d \in Dims : b.at[d] \in Int /\ b.size[d] \in Int /\ b.first[d] \in Int /\ b.step[d] \in Int
    BY <1>1
  <2>2. b.at \in [Dims -> Int] /\ b.size \in [Dims -> Int] /\ b.first \in [Dims -> Int] /\ b.step \in [Dims -> Int]
    BY <1>2, <2>1
  <2> QED  BY <1>2, <2>2 DEF Boxes
<1>4. ASSUME NEW c \in Cells PROVE InBox(b, c) <=> InsideTile(q, c)
  <2>1. ASSUME NEW d \in Dims
        PROVE  c[d] \in b.at[d] .. b.at[d] + b.size[d] - 1 <=> Lo(q, d) <= c[d] /\ c[d] < Hi(q, d)
    <3>1. PICK lo, hi, x \in Int : lo = Lo(q, d) /\ hi = Hi(q, d) /\ x = c[d]
      BY <1>1, Cells3D
    <3>2. b.at[d] = lo /\ b.size[d] = hi - lo
      BY <1>1, <3>1
    <3>3. x \in lo .. lo + (hi - lo) - 1 <=> lo <= x /\ x < hi
      BY <3>1
    <3> QED  BY <3>1, <3>2, <3>3
  <2> QED  BY <2>1 DEF InBox, InsideTile
<1>5. ASSUME NEW c \in Cells, InBox(b, c) PROVE SourceOf(b, c) = PixelOf3D(q, c)
  <2>1. PixelOf3D(q, c) = [d \in Dims |-> q[d] - Edge + c[d]]
    BY <1>4, <1>5, Pixels3D DEF k
  <2>2. ASSUME NEW d \in Dims PROVE b.first[d] + b.step[d] * (c[d] - b.at[d]) = q[d] - Edge + c[d]
    <3>1. PICK lo, x, y \in Int : lo = Lo(q, d) /\ x = c[d] /\ y = q[d] - Edge
      BY <1>1, Cells3D
    <3>2. b.first[d] = y + lo /\ b.step[d] = 1 /\ b.at[d] = lo
      BY <1>1, <3>1
    <3>3. (y + lo) + 1 * (x - lo) = y + x
      OBVIOUS
    <3> QED  BY <3>1, <3>2, <3>3
  <2> QED  BY <2>1, <2>2 DEF SourceOf
<1>6. Faithful3D(b, t, q, {})
  BY <1>2, <1>3, <1>5 DEF Faithful3D
<1>7. \A c \in Within(q, Flags(k)) : InBox(b, c)
  BY <1>4, WithinFlags DEF k
<1>8. <<b>> \in Seq(Boxes) /\ DOMAIN <<b>> = {1} /\ <<b>>[1] = b
  BY <1>3
<1> QED  BY <1>6, <1>7, <1>8 DEF Brings3D, b, k

\* The cells of a box that side s has, n of them from i cells off the frame on.
SideCells(q, s, i, n) ==
  {c \in Cells : /\ \A d \in Dims : d < DimOf(s) => Lo(q, d) <= c[d] /\ c[d] < Hi(q, d)
                 /\ LET x == c[DimOf(s)]
                        x1 == IF IsBefore(s) THEN Lo(q, DimOf(s)) - i ELSE Hi(q, DimOf(s)) + i - 1
                    IN  x1 <= x /\ x < x1 + n}

\* Where a side begins, and its size.
SideStart(q, s, i, d) ==
  IF d > DimOf(s) THEN 0 ELSE IF d # DimOf(s) THEN Lo(q, d)
  ELSE IF IsBefore(s) THEN Lo(q, d) - i ELSE Hi(q, d) + i - 1
SideLength(q, s, n, d) ==
  IF d > DimOf(s) THEN Extent[d] ELSE IF d # DimOf(s) THEN Hi(q, d) - Lo(q, d) ELSE n

\* That is where the box begins.
LEMMA SideBegins ==
  ASSUME frame.pad \in Nat, NEW q \in Points, NEW s \in SideSet, NEW i \in Int, NEW d \in Dims
  PROVE  SideAt(s, Clips(q), i)[d] = SideStart(q, s, i, d) /\ SideStart(q, s, i, d) \in Int
<1>1. PICK k : k = Clips(q)
  OBVIOUS
<1>2. PICK lo, hi, e, z \in Int : /\ lo = Lo(q, d) /\ hi = Hi(q, d) /\ e = Extent[d] /\ z = DimOf(s) /\ d \in Int
                                  /\ k[d].before = lo /\ k[d].after = e - hi
  <2>1. k[d].before = Lo(q, d) /\ k[d].after = Extent[d] - Hi(q, d) /\ Lo(q, d) \in Int /\ Hi(q, d) \in Int
    BY <1>1, Insides
  <2>2. Extent[d] \in Int /\ DimOf(s) \in Int /\ d \in Int
    BY Sizes3D, SidesOfDims
  <2> QED  BY <2>1, <2>2
<1>3. SideAt(s, k, i)[d] = IF d > z THEN 0 ELSE IF d # z THEN lo ELSE IF IsBefore(s) THEN lo - i ELSE hi + i - 1
  <2>1. SideAt(s, k, i)[d] = IF d \in PaddedDims(s) THEN 0
                  ELSE IF d # DimOf(s) THEN k[d].before
                  ELSE IF IsBefore(s) THEN k[d].before - i ELSE Extent[d] - k[d].after + i - 1
    BY DEF SideAt
  <2>2. e - (e - hi) + i - 1 = hi + i - 1
    OBVIOUS
  <2> QED  BY <1>2, <2>1, <2>2 DEF PaddedDims
<1>4. lo - i \in Int /\ hi + i - 1 \in Int
  OBVIOUS
<1> QED  BY <1>1, <1>2, <1>3, <1>4 DEF SideStart

\* That is the size of the box.
LEMMA SideMeasures ==
  ASSUME frame.pad \in Nat, NEW q \in Points, ~Beyond(Clips(q)), NEW s \in SideSet, NEW n \in Int, NEW d \in Dims
  PROVE  SideSize(s, Clips(q), n)[d] = SideLength(q, s, n, d) /\ SideLength(q, s, n, d) \in Int
<1>1. PICK k : k = Clips(q)
  OBVIOUS
<1>2. PICK lo, hi, e, z \in Int : /\ lo = Lo(q, d) /\ hi = Hi(q, d) /\ e = Extent[d] /\ z = DimOf(s) /\ d \in Int
                                  /\ k[d].last - k[d].first + 1 = hi - lo
  <2>1. ~Nothing(Clips(q)[d])
    BY DEF Beyond
  <2>2. k[d].last - k[d].first + 1 = Hi(q, d) - Lo(q, d) /\ Lo(q, d) \in Int /\ Hi(q, d) \in Int
    BY <1>1, <2>1, Insides
  <2>3. Extent[d] \in Int /\ DimOf(s) \in Int /\ d \in Int
    BY Sizes3D, SidesOfDims
  <2> QED  BY <2>2, <2>3
<1>3. SideSize(s, k, n)[d] = IF d > z THEN e ELSE IF d # z THEN hi - lo ELSE n
  <2>1. SideSize(s, k, n)[d] = IF d \in PaddedDims(s) THEN Extent[d]
                  ELSE IF d # DimOf(s) THEN k[d].last - k[d].first + 1 ELSE n
    BY DEF SideSize
  <2> QED  BY <1>2, <2>1 DEF PaddedDims
<1>4. hi - lo \in Int
  OBVIOUS
<1> QED  BY <1>1, <1>2, <1>3, <1>4 DEF SideLength

\* The cells of such a box, wherever it comes from.
LEMMA SideBoxCells ==
  ASSUME frame.pad \in Nat, NEW q \in Points, ~Beyond(Clips(q)), NEW s \in SideSet, NEW i \in Int, NEW n \in Int,
         NEW b, b.at = SideAt(s, Clips(q), i), b.size = SideSize(s, Clips(q), n), NEW c \in Cells
  PROVE  InBox(b, c) <=> c \in SideCells(q, s, i, n)
<1>1. PICK z \in Dims, x1 \in Int :
        z = DimOf(s) /\ x1 = IF IsBefore(s) THEN Lo(q, DimOf(s)) - i ELSE Hi(q, DimOf(s)) + i - 1
  <2>1. DimOf(s) \in Dims
    BY SidesOfDims
  <2>2. Lo(q, DimOf(s)) \in Int /\ Hi(q, DimOf(s)) \in Int
    BY <2>1, Insides
  <2> QED  BY <2>1, <2>2
<1>2. ASSUME NEW d \in Dims
      PROVE  c[d] \in b.at[d] .. b.at[d] + b.size[d] - 1
               <=> /\ d < z => Lo(q, d) <= c[d] /\ c[d] < Hi(q, d)
                   /\ d = z => x1 <= c[d] /\ c[d] < x1 + n
  <2>1. PICK x, lo, hi, e, a, m \in Int :
          /\ x = c[d] /\ lo = Lo(q, d) /\ hi = Hi(q, d) /\ e = Extent[d] /\ a = b.at[d] /\ m = b.size[d]
          /\ 0 <= x /\ x < e
    <3>1. b.at[d] \in Int /\ b.size[d] \in Int
      BY SideBegins, SideMeasures
    <3>2. Lo(q, d) \in Int /\ Hi(q, d) \in Int
      BY Insides
    <3> QED  BY <3>1, <3>2, Cells3D, Sizes3D
  <2>2. /\ a = IF d > z THEN 0 ELSE IF d # z THEN lo ELSE x1
        /\ m = IF d > z THEN e ELSE IF d # z THEN hi - lo ELSE n
    BY <1>1, <2>1, SideBegins, SideMeasures DEF SideStart, SideLength
  <2>3. d \in Int /\ z \in Int
    BY Sizes3D
  <2>4. x \in a .. a + m - 1 <=> (d < z => lo <= x /\ x < hi) /\ (d = z => x1 <= x /\ x < x1 + n)
    BY <2>1, <2>2, <2>3
  <2> QED  BY <2>1, <2>4
<1>3. InBox(b, c) <=> /\ \A d \in Dims : d < z => Lo(q, d) <= c[d] /\ c[d] < Hi(q, d)
                      /\ x1 <= c[z] /\ c[z] < x1 + n
  BY <1>2 DEF InBox
<1> QED  BY <1>1, <1>3 DEF SideCells

\* The cell next to c inside, in the dimension of s.
NextTo(q, s, c) ==
  [d \in Dims |-> IF d = DimOf(s) THEN IF IsBefore(s) THEN Lo(q, d) ELSE Hi(q, d) - 1 ELSE c[d]]

\* Where the edge padding of a side comes from.
LEMMA SideSource ==
  ASSUME frame.pad \in Nat, NEW q \in Points, ~Beyond(Clips(q)), NEW s \in SideSet, NEW i \in Int, NEW c \in Cells,
         NEW b, b.at = SideAt(s, Clips(q), i), b.first = SideAt(s, Clips(q), 0), b.step = Still(s)
  PROVE  SourceOf(b, c) = NextTo(q, s, c)
<1>1. ASSUME NEW d \in Dims
      PROVE  b.first[d] + b.step[d] * (c[d] - b.at[d])
               = IF d = DimOf(s) THEN IF IsBefore(s) THEN Lo(q, d) ELSE Hi(q, d) - 1 ELSE c[d]
  <2>1. PICK z \in Int, x, lo, hi, a, f \in Int :
          /\ z = DimOf(s) /\ x = c[d] /\ lo = Lo(q, d) /\ hi = Hi(q, d) /\ a = b.at[d] /\ f = b.first[d] /\ d \in Int
    <3>1. b.at[d] \in Int /\ b.first[d] \in Int
      BY SideBegins
    <3>2. Lo(q, d) \in Int /\ Hi(q, d) \in Int
      BY Insides
    <3>3. DimOf(s) \in Int /\ d \in Int
      BY SidesOfDims, Sizes3D
    <3> QED  BY <3>1, <3>2, <3>3, Cells3D
  <2>2. /\ d # z => a = f
        /\ d = z => f = IF IsBefore(s) THEN lo ELSE hi - 1
    <3>1. PICK j \in Int : j = 0
      OBVIOUS
    <3>2. f = IF d > z THEN 0 ELSE IF d # z THEN lo ELSE IF IsBefore(s) THEN lo - j ELSE hi + j - 1
      BY <2>1, <3>1, SideBegins DEF SideStart
    <3>3. a = IF d > z THEN 0 ELSE IF d # z THEN lo ELSE IF IsBefore(s) THEN lo - i ELSE hi + i - 1
      BY <2>1, SideBegins DEF SideStart
    <3>4. lo - j = lo /\ hi + j - 1 = hi - 1
      BY <3>1
    <3> QED  BY <2>1, <3>2, <3>3, <3>4
  <2>3. b.step[d] = IF d = z THEN 0 ELSE 1
    BY <2>1 DEF Still
  <2>4. CASE d = z
    <3>1. f + 0 * (x - a) = f
      OBVIOUS
    <3> QED  BY <2>1, <2>2, <2>3, <2>4, <3>1
  <2>5. CASE d # z
    <3>1. f + 1 * (x - f) = x
      OBVIOUS
    <3> QED  BY <2>1, <2>2, <2>3, <2>5, <3>1
  <2> QED  BY <2>4, <2>5
<1> QED  BY <1>1 DEF SourceOf, NextTo

\* A cell that a side pads shows what the cell next to it shows, which is off
\* no side that comes later; or the padding value.
LEMMA SideShows ==
  ASSUME frame.pad \in Nat, NEW q \in Points, ~Beyond(Clips(q)), NEW s \in SideSet, NEW c \in Cells,
         \A d \in Dims : d < DimOf(s) => Lo(q, d) <= c[d] /\ c[d] < Hi(q, d),
         OffSide(q, s, c)
  PROVE  /\ frame.padding # "edge" => PixelOf3D(q, c) = Const
         /\ frame.padding = "edge" => PixelOf3D(q, NextTo(q, s, c)) = PixelOf3D(q, c)
         /\ \A S \in SUBSET SideSet : (\A r \in S : DimOf(r) <= DimOf(s)) => NextTo(q, s, c) \in Within(q, S)
<1>1. PICK z \in Dims : z = DimOf(s)
  BY SidesOfDims
<1>2. \A d \in Dims : /\ c[d] \in Int /\ 0 <= c[d] /\ c[d] < Extent[d] /\ Extent[d] \in Int /\ d \in Int
                      /\ Lo(q, d) \in Int /\ 0 <= Lo(q, d) /\ Hi(q, d) \in Int /\ Hi(q, d) <= Extent[d] /\ Lo(q, d) < Hi(q, d)
  <2>1. ASSUME NEW d \in Dims PROVE ~Nothing(Clips(q)[d])
    BY DEF Beyond
  <2> QED  BY <2>1, Insides, Cells3D, Sizes3D
<1>3. PICK x, lo, hi, e \in Int : /\ x = c[z] /\ lo = Lo(q, z) /\ hi = Hi(q, z) /\ e = Extent[z]
                                  /\ 0 <= x /\ x < e /\ 0 <= lo /\ lo < hi /\ hi <= e
  BY <1>2
<1>4. IF IsBefore(s) THEN x < lo ELSE x >= hi
  BY <1>1, <1>3 DEF OffSide
<1>5. PICK y \in Int : y = IF IsBefore(s) THEN lo ELSE hi - 1
  OBVIOUS
<1>6. lo <= y /\ y < hi /\ 0 <= y /\ y < e /\ Clamp(x, lo, hi - 1) = y /\ Clamp(y, lo, hi - 1) = y
  BY <1>3, <1>4, <1>5 DEF Clamp, Greater, Lesser
<1>7. PICK c2 : c2 = NextTo(q, s, c)
  OBVIOUS
<1>8. c2 = [d \in Dims |-> c2[d]] /\ c2[z] = y /\ \A d \in Dims : d # z => c2[d] = c[d]
  BY <1>1, <1>3, <1>5, <1>7 DEF NextTo
<1>9. c2 \in Cells
  <2>1. ASSUME NEW d \in Dims PROVE c2[d] \in Int /\ 0 <= c2[d] /\ c2[d] < Extent[d]
    <3>1. CASE d = z
      BY <1>3, <1>6, <1>8, <3>1
    <3>2. CASE d # z
      BY <1>2, <1>8, <3>2
    <3> QED  BY <3>1, <3>2
  <2> QED  BY <1>8, <2>1, Cells3D
<1>10. ASSUME frame.padding # "edge" PROVE PixelOf3D(q, c) = Const
  <2>1. ~InsideTile(q, c)
    <3>1. ~(lo <= x /\ x < hi)
      BY <1>3, <1>4
    <3> QED  BY <1>3, <3>1 DEF InsideTile
  <2> QED  BY <1>10, <2>1, Pixels3D
<1>11. ASSUME frame.padding = "edge" PROVE PixelOf3D(q, c2) = PixelOf3D(q, c)
  <2>1. Near(q, c2) = Near(q, c)
    <3>1. ASSUME NEW d \in Dims PROVE Clamp(c2[d], Lo(q, d), Hi(q, d) - 1) = Clamp(c[d], Lo(q, d), Hi(q, d) - 1)
      <4>1. CASE d = z
        BY <1>3, <1>6, <1>8, <4>1
      <4>2. CASE d # z
        BY <1>8, <4>2
      <4> QED  BY <4>1, <4>2
    <3> QED  BY <3>1 DEF Near
  <2>2. /\ PixelOf3D(q, c2) = [d \in Dims |-> q[d] - Edge + Near(q, c2)[d]]
        /\ PixelOf3D(q, c) = [d \in Dims |-> q[d] - Edge + Near(q, c)[d]]
    BY <1>9, <1>11, Pixels3D
  <2> QED  BY <2>1, <2>2
<1>12. ASSUME NEW S \in SUBSET SideSet, \A r \in S : DimOf(r) <= z, NEW r \in S PROVE ~OffSide(q, r, c2)
  <2>1. PICK d \in Dims : d = DimOf(r)
    BY SidesOfDims
  <2>2. Lo(q, d) <= c2[d] /\ c2[d] < Hi(q, d)
    <3>1. CASE d = z
      BY <1>3, <1>6, <1>8, <3>1
    <3>2. CASE d # z
      <4>1. d < z
        BY <1>2, <1>12, <2>1, <3>2
      <4> QED  BY <1>1, <1>8, <3>2, <4>1
    <3> QED  BY <3>1, <3>2
  <2>3. r \in SideSet
    BY <1>12
  <2> QED  BY <1>9, <2>1, <2>2, <2>3, OffFlags
<1> QED  BY <1>1, <1>7, <1>9, <1>10, <1>11, <1>12 DEF Within

\* The box of a side: m cells, i cells off the frame.
SideFill(t, q, s, i, m, from, first) ==
  Box(t, "tile", SideAt(s, Clips(q), i), SideSize(s, Clips(q), m), from, first, Still(s))

\* Off the frame it is right, whether it comes from the next cells inside or is
\* the padding value.
LEMMA SideFaithful ==
  ASSUME frame.pad \in Nat, NEW t \in Tiles, NEW q \in Points, ~Beyond(Clips(q)),
         NEW s \in SideSet, NEW S \in SUBSET SideSet, \A r \in S : DimOf(r) <= DimOf(s),
         NEW i \in Int, NEW m \in Int, IF IsBefore(s) THEN m <= i ELSE i >= 1
  PROVE  /\ \A c \in Cells : InBox(SideFill(t, q, s, i, m, "tile", SideAt(s, Clips(q), 0)), c) <=> c \in SideCells(q, s, i, m)
         /\ \A c \in Cells : InBox(SideFill(t, q, s, i, m, "temp", SideAt(s, Clips(q), i)), c) <=> c \in SideCells(q, s, i, m)
         /\ frame.padding = "edge" =>
              Faithful3D(SideFill(t, q, s, i, m, "tile", SideAt(s, Clips(q), 0)), t, q, Within(q, S))
         /\ frame.padding # "edge" =>
              Faithful3D(SideFill(t, q, s, i, m, "temp", SideAt(s, Clips(q), i)), t, q, Within(q, S))
<1>1. PICK j \in Int : j = 0
  OBVIOUS
<1>. DEFINE at(z) == SideAt(s, Clips(q), z)
            b1 == SideFill(t, q, s, i, m, "tile", at(j))
            b2 == SideFill(t, q, s, i, m, "temp", at(i))
<1>2. \A z \in Int : at(z) \in [Dims -> Int]
  <2>1. ASSUME NEW z \in Int PROVE at(z) \in [Dims -> Int]
    <3>1. at(z) = [d \in Dims |-> at(z)[d]]
      BY DEF SideAt
    <3>2. \A d \in Dims : at(z)[d] \in Int
      <4>1. ASSUME NEW d \in Dims PROVE at(z)[d] \in Int
        <5>1. at(z)[d] = SideStart(q, s, z, d) /\ SideStart(q, s, z, d) \in Int
          BY SideBegins
        <5> QED  BY <5>1
      <4> QED  BY <4>1
    <3> QED  BY <3>1, <3>2
  <2> QED  BY <2>1
<1>3. SideSize(s, Clips(q), m) \in [Dims -> Int]
  <2>1. SideSize(s, Clips(q), m) = [d \in Dims |-> SideSize(s, Clips(q), m)[d]]
    BY DEF SideSize
  <2>2. ASSUME NEW d \in Dims PROVE SideSize(s, Clips(q), m)[d] \in Int
    <3>1. SideSize(s, Clips(q), m)[d] = SideLength(q, s, m, d) /\ SideLength(q, s, m, d) \in Int
      BY SideMeasures
    <3> QED  BY <3>1
  <2> QED  BY <2>1, <2>2
<1>4. Still(s) \in [Dims -> Int]
  BY DEF Still
<1>. HIDE DEF at
<1>5. b1 \in Boxes /\ b2 \in Boxes
  BY <1>1, <1>2, <1>3, <1>4 DEF SideFill, Box, Boxes, at
<1>6. /\ b1.tile = t /\ b1.to = "tile" /\ b1.from = "tile" /\ b1.at = at(i) /\ b1.size = SideSize(s, Clips(q), m)
      /\ b1.first = at(j) /\ b1.step = Still(s)
      /\ b2.tile = t /\ b2.to = "tile" /\ b2.from = "temp" /\ b2.at = at(i) /\ b2.size = SideSize(s, Clips(q), m)
  BY DEF SideFill, Box, at
<1>. HIDE DEF b1, b2
<1>7. ASSUME NEW c \in Cells
      PROVE  (InBox(b1, c) <=> c \in SideCells(q, s, i, m)) /\ (InBox(b2, c) <=> c \in SideCells(q, s, i, m))
  <2>1. b1.at = SideAt(s, Clips(q), i) /\ b2.at = SideAt(s, Clips(q), i)
    BY <1>6 DEF at
  <2>2. b1.size = SideSize(s, Clips(q), m) /\ b2.size = SideSize(s, Clips(q), m)
    BY <1>6
  <2>3. InBox(b1, c) <=> c \in SideCells(q, s, i, m)
    BY <2>1, <2>2, SideBoxCells
  <2>4. InBox(b2, c) <=> c \in SideCells(q, s, i, m)
    BY <2>1, <2>2, SideBoxCells
  <2> QED  BY <2>3, <2>4
<1>8. ASSUME NEW c \in SideCells(q, s, i, m)
      PROVE  /\ c \in Cells /\ OffSide(q, s, c)
             /\ \A d \in Dims : d < DimOf(s) => Lo(q, d) <= c[d] /\ c[d] < Hi(q, d)
  <2>1. c \in Cells /\ \A d \in Dims : d < DimOf(s) => Lo(q, d) <= c[d] /\ c[d] < Hi(q, d)
    BY DEF SideCells
  <2>2. PICK z \in Dims, lo, hi, x \in Int : z = DimOf(s) /\ lo = Lo(q, z) /\ hi = Hi(q, z) /\ x = c[z]
    <3>1. DimOf(s) \in Dims
      BY SidesOfDims
    <3>2. Lo(q, DimOf(s)) \in Int /\ Hi(q, DimOf(s)) \in Int
      BY <3>1, Insides
    <3>3. c[DimOf(s)] \in Int
      BY <2>1, <3>1, Cells3D
    <3> QED  BY <3>1, <3>2, <3>3
  <2>3. LET x1 == IF IsBefore(s) THEN lo - i ELSE hi + i - 1 IN x1 <= x /\ x < x1 + m
    BY <1>8, <2>2 DEF SideCells
  <2>4. IF IsBefore(s) THEN x < lo ELSE x >= hi
    BY <2>3
  <2> QED  BY <2>1, <2>2, <2>4 DEF OffSide
<1>9. ASSUME NEW c \in SideCells(q, s, i, m)
      PROVE  /\ frame.padding # "edge" => PixelOf3D(q, c) = Const
             /\ frame.padding = "edge" => PixelOf3D(q, NextTo(q, s, c)) = PixelOf3D(q, c)
             /\ NextTo(q, s, c) \in Within(q, S)
  BY <1>8, SideShows
<1>10. ASSUME frame.padding = "edge" PROVE Faithful3D(b1, t, q, Within(q, S))
  <2>1. ASSUME NEW c \in Cells, InBox(b1, c)
        PROVE  SourceOf(b1, c) \in Within(q, S) /\ PixelOf3D(q, SourceOf(b1, c)) = PixelOf3D(q, c)
    <3>1. b1.at = SideAt(s, Clips(q), i) /\ b1.first = SideAt(s, Clips(q), 0) /\ b1.step = Still(s)
      BY <1>1, <1>6 DEF at
    <3>2. SourceOf(b1, c) = NextTo(q, s, c)
      BY <3>1, SideSource
    <3> QED  BY <1>7, <1>9, <1>10, <2>1, <3>2
  <2> QED  BY <1>5, <1>6, <2>1 DEF Faithful3D
<1>11. ASSUME frame.padding # "edge" PROVE Faithful3D(b2, t, q, Within(q, S))
  BY <1>5, <1>6, <1>7, <1>9, <1>11 DEF Faithful3D
<1> QED  BY <1>1, <1>7, <1>10, <1>11 DEF b1, b2, at

\* The sides that remain: those that are flagged, in dimensions that have not
\* been padded.
InSequence(q, S) ==
  /\ S \subseteq Flags(Clips(q))
  /\ \A s \in S, r \in Flags(Clips(q)) : DimOf(r) < DimOf(s) => r \in S

\* What a side pads.
LEMMA SidePart ==
  ASSUME frame.pad \in Nat, NEW q \in Points, NEW S, InSequence(q, S), NEW s \in S,
         NEW c \in Within(q, S \ {s}) \ Within(q, S)
  PROVE  /\ c \in Cells /\ OffSide(q, s, c)
         /\ \A d \in Dims : d < DimOf(s) => Lo(q, d) <= c[d] /\ c[d] < Hi(q, d)
<1>1. c \in Cells /\ OffSide(q, s, c) /\ \A r \in S \ {s} : ~OffSide(q, r, c)
  BY DEF Within
<1>2. ASSUME NEW d \in Dims, d < DimOf(s) PROVE Lo(q, d) <= c[d] /\ c[d] < Hi(q, d)
  <2>1. ASSUME NEW r \in SideSet, DimOf(r) = d PROVE ~OffSide(q, r, c)
    <3>1. r # s
      <4>1. d \in Int
        BY Sizes3D
      <4> QED  BY <1>2, <2>1, <4>1
    <3>2. r \in Flags(Clips(q)) => r \in S
      BY <1>2, <2>1 DEF InSequence
    <3> QED  BY <1>1, <3>1, <3>2, OffFlags
  <2> QED  BY <1>1, <2>1, OffFlags
<1> QED  BY <1>1, <1>2

\* The copies of a side that remains bring what it pads, when all sides that
\* remain are in its dimension or in one that is padded later.
LEMMA SideBrings ==
  ASSUME frame.pad \in Nat, NEW t \in Tiles, NEW q \in Points, q = pos[t], ~Beyond(Clips(q)),
         NEW S \in SUBSET SideSet, InSequence(q, S), NEW s \in S, \A r \in S : DimOf(r) <= DimOf(s)
  PROVE  /\ Brings3D(SideCopies(t, s, Clips(q)), t, q, Within(q, S), Within(q, S \ {s}))
         /\ SideCopies(t, s, Clips(q)) # <<>>
<1>1. PICK z \in Dims, lo, hi, e, n \in Int :
        /\ z = DimOf(s) /\ lo = Lo(q, z) /\ hi = Hi(q, z) /\ e = Extent[z] /\ 0 <= lo /\ lo < hi /\ hi <= e
        /\ n = (IF IsBefore(s) THEN Clips(q)[DimOf(s)].before ELSE Clips(q)[DimOf(s)].after)
        /\ n = (IF IsBefore(s) THEN lo ELSE e - hi) /\ n > 0 /\ s \in SideSet
  <2>1. DimOf(s) \in Dims /\ s \in SideSet /\ s \in Flags(Clips(q))
    BY SidesOfDims DEF InSequence
  <2>2. ~Nothing(Clips(q)[DimOf(s)])
    BY <2>1 DEF Beyond
  <2>3. /\ Clips(q)[DimOf(s)].before = Lo(q, DimOf(s)) /\ Clips(q)[DimOf(s)].after = Extent[DimOf(s)] - Hi(q, DimOf(s))
        /\ Lo(q, DimOf(s)) \in Int /\ Hi(q, DimOf(s)) \in Int /\ 0 <= Lo(q, DimOf(s)) /\ Hi(q, DimOf(s)) <= Extent[DimOf(s)]
        /\ Lo(q, DimOf(s)) < Hi(q, DimOf(s)) /\ Extent[DimOf(s)] \in Int
    BY <2>1, <2>2, Insides, Sizes3D
  <2>4. PICK lo, hi, e \in Int : lo = Lo(q, DimOf(s)) /\ hi = Hi(q, DimOf(s)) /\ e = Extent[DimOf(s)]
    BY <2>3
  <2>5. PICK n \in Int : n = IF IsBefore(s) THEN lo ELSE e - hi
    BY <2>4
  <2>6. n = (IF IsBefore(s) THEN Clips(q)[DimOf(s)].before ELSE Clips(q)[DimOf(s)].after) /\ n > 0
    BY <2>1, <2>3, <2>4, <2>5 DEF Flags
  <2> QED  BY <2>1, <2>3, <2>4, <2>5, <2>6
<1>2. ASSUME NEW c \in Within(q, S \ {s}) \ Within(q, S)
      PROVE  /\ c \in SideCells(q, s, IF IsBefore(s) THEN n ELSE 1, n)
             /\ \E i \in 1 .. n : c \in SideCells(q, s, i, 1)
  <2>1. /\ c \in Cells /\ OffSide(q, s, c)
        /\ \A d \in Dims : d < DimOf(s) => Lo(q, d) <= c[d] /\ c[d] < Hi(q, d)
    BY SidePart
  <2>2. PICK x \in Int : x = c[z] /\ 0 <= x /\ x < e
    BY <1>1, <2>1, Cells3D
  <2>3. IF IsBefore(s) THEN x < lo ELSE x >= hi
    BY <1>1, <2>1, <2>2 DEF OffSide
  <2>4. \A i, m \in Int : (LET x1 == IF IsBefore(s) THEN lo - i ELSE hi + i - 1 IN x1 <= x /\ x < x1 + m)
                            => c \in SideCells(q, s, i, m)
    BY <1>1, <2>1, <2>2 DEF SideCells
  <2>5. c \in SideCells(q, s, IF IsBefore(s) THEN n ELSE 1, n)
    BY <1>1, <2>2, <2>3, <2>4
  <2>6. \E i \in 1 .. n : c \in SideCells(q, s, i, 1)
    <3>1. CASE IsBefore(s)
      <4>1. lo - x \in 1 .. n /\ lo - (lo - x) <= x /\ x < lo - (lo - x) + 1
        BY <1>1, <2>2, <2>3, <3>1
      <4>2. c \in SideCells(q, s, lo - x, 1)
        BY <2>4, <3>1, <4>1
      <4> QED  BY <4>1, <4>2
    <3>2. CASE ~IsBefore(s)
      <4>1. x - hi + 1 \in 1 .. n /\ hi + (x - hi + 1) - 1 <= x /\ x < hi + (x - hi + 1) - 1 + 1
        BY <1>1, <2>2, <2>3, <3>2
      <4>2. c \in SideCells(q, s, x - hi + 1, 1)
        BY <2>4, <3>2, <4>1
      <4> QED  BY <4>1, <4>2
    <3> QED  BY <3>1, <3>2
  <2> QED  BY <2>5, <2>6
<1>3. PICK i0 \in Int : i0 = IF IsBefore(s) THEN n ELSE 1
  OBVIOUS
<1>4. IF IsBefore(s) THEN n <= i0 ELSE i0 >= 1
  BY <1>3
<1>. DEFINE column(i) == SideFill(t, q, s, i, 1, "tile", SideAt(s, Clips(q), 0))
            block == SideFill(t, q, s, i0, n, "tile", SideAt(s, Clips(q), 0))
            blank == SideFill(t, q, s, i0, n, "temp", SideAt(s, Clips(q), i0))
<1>5. SideCopies(t, s, Clips(q)) =
        IF frame.padding = "edge" THEN IF z = 3 THEN [i \in 1 .. n |-> column(i)] ELSE <<block>>
        ELSE <<blank>>
  <2>. DEFINE k == Clips(q)
              cells == IF IsBefore(s) THEN SideAt(s, k, n) ELSE SideAt(s, k, 1)
              filled == IF s = "right" THEN [cells EXCEPT ![3] = k[3].last + 1 - (pos[t][3] - Edge)] ELSE cells
  <2>1. cells = SideAt(s, k, i0)
    BY <1>3
  <2>2. filled = cells
    <3>1. CASE s = "right"
      <4>1. DimOf(s) = 3 /\ ~IsBefore(s) /\ i0 = 1 /\ 3 \in Dims /\ 3 \in Int
        BY <1>3, <3>1, Sizes3D DEF DimOf, IsBefore
      <4>2. cells = [d \in Dims |-> cells[d]]
        BY DEF SideAt
      <4>3. PICK x, f, l, u \in Int : x = Hi(q, 3) /\ f = k[3].first /\ l = k[3].last /\ u = q[3] - Edge
        <5>1. q[3] \in Int /\ Edge \in Int
          BY <4>1, Coordinates, Sizes3D
        <5>2. Hi(q, 3) \in Int /\ k[3].first \in Int /\ k[3].last \in Int
          BY <4>1, Insides
        <5> QED  BY <5>1, <5>2
      <4>4. PICK y \in Int : y = Lo(q, 3) /\ f = u + y /\ l - f + 1 = x - y
        <5>1. ~Nothing(k[3])
          BY <4>1 DEF Beyond
        <5> QED  BY <4>1, <4>3, <5>1, Insides
      <4>5. cells[3] = x + i0 - 1
        <5>1. SideAt(s, k, i0)[3] = SideStart(q, s, i0, 3)
          BY <1>1, <4>1, SideBegins
        <5>2. ~(3 > 3)
          OBVIOUS
        <5> QED  BY <2>1, <4>1, <4>3, <5>1, <5>2 DEF SideStart
      <4>6. l + 1 - u = x
        BY <4>4
      <4>7. x + i0 - 1 = x
        BY <4>1
      <4>8. k[3].last + 1 - (pos[t][3] - Edge) = cells[3]
        BY <4>3, <4>5, <4>6, <4>7
      <4>. HIDE DEF cells
      <4>9. [cells EXCEPT ![3] = cells[3]] = cells
        BY <4>2
      <4> QED  BY <3>1, <4>8, <4>9
    <3>2. CASE s # "right"
      BY <3>2
    <3> QED  BY <3>1, <3>2
  <2>3. SideCopies(t, s, k) =
          IF frame.padding = "edge"
          THEN IF DimOf(s) = 3
               THEN [i \in 1 .. n |-> Box(t, "tile", SideAt(s, k, i), SideSize(s, k, 1), "tile", SideAt(s, k, 0), Still(s))]
               ELSE <<Box(t, "tile", cells, SideSize(s, k, n), "tile", SideAt(s, k, 0), Still(s))>>
          ELSE <<Box(t, "tile", filled, SideSize(s, k, n), "temp", cells, Still(s))>>
    <3>1. n = IF IsBefore(s) THEN k[DimOf(s)].before ELSE k[DimOf(s)].after
      BY <1>1
    <3>. HIDE DEF k
    <3> QED  BY <3>1 DEF SideCopies
  <2>. HIDE DEF cells, filled, k
  <2> QED  BY <1>1, <2>1, <2>2, <2>3 DEF SideFill, k
<1>. DEFINE got == Within(q, S)
            wanted == Within(q, S \ {s})
<1>6. CASE frame.padding = "edge" /\ z = 3
  <2>. DEFINE copies == [i \in 1 .. n |-> column(i)]
  <2>1. ASSUME NEW i \in 1 .. n
        PROVE  /\ Faithful3D(column(i), t, q, got)
               /\ \A c \in Cells : InBox(column(i), c) <=> c \in SideCells(q, s, i, 1)
    <3>1. PICK m \in Int : m = 1
      OBVIOUS
    <3>2. IF IsBefore(s) THEN m <= i ELSE i >= 1
      BY <3>1
    <3>3. i \in Int
      OBVIOUS
    <3> QED  BY <1>1, <1>6, <3>1, <3>2, <3>3, SideFaithful
  <2>. HIDE DEF column, got, wanted
  <2>2. copies \in Seq(Boxes) /\ DOMAIN copies = 1 .. n /\ (\A i \in 1 .. n : copies[i] = column(i))
    <3>1. \A i \in 1 .. n : column(i) \in Boxes
      BY <2>1 DEF Faithful3D
    <3>2. n \in Nat
      BY <1>1
    <3> QED  BY <3>1, <3>2
  <2>3. copies # <<>>
    <3>1. 1 \in DOMAIN copies
      BY <1>1, <2>2
    <3> QED  BY <3>1
  <2>4. \A c \in wanted \ got : c \in Cells
    BY DEF wanted, Within
  <2>5. Brings3D(copies, t, q, got, wanted)
    <3>1. \A c \in wanted \ got : \E i \in 1 .. n : c \in SideCells(q, s, i, 1)
      BY <1>2 DEF wanted, got
    <3>. HIDE DEF copies
    <3> QED  BY <2>1, <2>2, <2>4, <3>1 DEF Brings3D
  <2> QED  BY <1>5, <1>6, <2>3, <2>5 DEF got, wanted, column
<1>7. CASE ~(frame.padding = "edge" /\ z = 3)
  <2>1. PICK b : b = IF frame.padding = "edge" THEN block ELSE blank
    OBVIOUS
  <2>2. Faithful3D(b, t, q, got) /\ \A c \in Cells : InBox(b, c) <=> c \in SideCells(q, s, i0, n)
    BY <1>1, <1>4, <2>1, SideFaithful
  <2>. HIDE DEF block, blank, got, wanted
  <2>3. SideCopies(t, s, Clips(q)) = <<b>>
    BY <1>5, <1>7, <2>1
  <2>4. \A c \in wanted \ got : c \in SideCells(q, s, i0, n) /\ c \in Cells
    <3>1. \A c \in wanted \ got : c \in SideCells(q, s, i0, n)
      BY <1>2, <1>3 DEF wanted, got
    <3> QED  BY <3>1 DEF wanted, Within
  <2>5. <<b>> \in Seq(Boxes) /\ DOMAIN <<b>> = {1} /\ <<b>>[1] = b /\ <<b>> # <<>>
    BY <2>2 DEF Faithful3D
  <2> QED  BY <2>2, <2>3, <2>4, <2>5 DEF Brings3D, got, wanted
<1> QED  BY <1>6, <1>7

FirstPlane == {c \in Cells : c[1] = 0}

\* Beyond the frame, the first row is copied to the other rows of the first plane,
\* and the first plane to the others.
LEMMA BeyondBrings ==
  ASSUME frame.pad \in Nat, NEW t \in Tiles, NEW q \in Points, Beyond(Clips(q))
  PROVE  /\ Brings3D(<<OtherRows(t)>>, t, q, FirstRow, FirstPlane)
         /\ Brings3D(<<OtherPlanes(t)>>, t, q, FirstPlane, Cells)
<1>1. PICK e1, e2, e3 \in Int : e1 = Extent[1] /\ e2 = Extent[2] /\ e3 = Extent[3] /\ e1 > 0 /\ e2 > 0 /\ e3 > 0
  BY Sizes3D
<1>2. Dims = {1, 2, 3} /\ Extent = [d \in Dims |-> Extent[d]]
  BY DEF Dims, Extent
<1>3. \A c \in Cells : PixelOf3D(q, c) = Const
  BY Pixels3D
<1>4. \A c \in Cells : /\ c[1] \in Int /\ c[2] \in Int /\ c[3] \in Int /\ c = [d \in Dims |-> c[d]]
                       /\ 0 <= c[1] /\ c[1] < e1 /\ 0 <= c[2] /\ c[2] < e2 /\ 0 <= c[3] /\ c[3] < e3
  BY <1>1, Cells3D, Sizes3D
<1>5. ASSUME NEW f, f = [d \in Dims |-> f[d]], f[1] \in Int, f[2] \in Int, f[3] \in Int,
             0 <= f[1], f[1] < e1, 0 <= f[2], f[2] < e2, 0 <= f[3], f[3] < e3
      PROVE  f \in Cells
  <2>1. \A d \in Dims : f[d] \in Int /\ 0 <= f[d] /\ f[d] < Extent[d]
    BY <1>1, <1>2, <1>5
  <2> QED  BY <1>5, <2>1, Cells3D
<1>. DEFINE b1 == OtherRows(t)
            b2 == OtherPlanes(t)
<1>6. /\ b1 \in Boxes /\ b1.tile = t /\ b1.to = "tile" /\ b1.from = "tile"
      /\ b1.at = <<0, 1, 0>> /\ b1.size = <<1, e2 - 1, e3>> /\ b1.first = <<0, 0, 0>> /\ b1.step = <<1, 0, 1>>
  BY <1>1 DEF OtherRows, Box, Boxes, Dims
<1>7. /\ b2 \in Boxes /\ b2.tile = t /\ b2.to = "tile" /\ b2.from = "tile"
      /\ b2.at = <<1, 0, 0>> /\ b2.size[1] = e1 - 1 /\ b2.size[2] = e2 /\ b2.size[3] = e3
      /\ b2.first = <<0, 0, 0>> /\ b2.step = <<0, 1, 1>>
  <2>1. PICK w : w = [Extent EXCEPT ![1] = @ - 1]
    OBVIOUS
  <2>2. w = [d \in Dims |-> w[d]] /\ w[1] = e1 - 1 /\ w[2] = e2 /\ w[3] = e3
    <3>1. PICK f : f = Extent
      OBVIOUS
    <3>2. f = [d \in Dims |-> f[d]] /\ f[1] = e1 /\ f[2] = e2 /\ f[3] = e3 /\ w = [f EXCEPT ![1] = @ - 1]
      BY <1>1, <1>2, <2>1, <3>1
    <3>3. w = [d \in Dims |-> IF d = 1 THEN e1 - 1 ELSE f[d]]
      BY <1>2, <3>2
    <3>4. 1 \in Dims /\ 2 \in Dims /\ 3 \in Dims
      BY <1>2
    <3> QED  BY <3>2, <3>3, <3>4
  <2>3. w \in [Dims -> Int]
    BY <1>2, <2>2
  <2> QED  BY <2>1, <2>2, <2>3 DEF OtherPlanes, Box, Boxes, Dims
<1>. HIDE DEF b1, b2
<1>8. ASSUME NEW c \in Cells
      PROVE  /\ InBox(b1, c) <=> c[1] = 0 /\ c[2] >= 1
             /\ SourceOf(b1, c) = [d \in Dims |-> IF d = 2 THEN 0 ELSE c[d]]
  <2>1. PICK x, y, z \in Int : /\ x = c[1] /\ y = c[2] /\ z = c[3] /\ 0 <= x /\ 0 <= y /\ y < e2 /\ 0 <= z /\ z < e3
    BY <1>4
  <2>2. InBox(b1, c) <=> x \in 0 .. 0 + 1 - 1 /\ y \in 1 .. 1 + (e2 - 1) - 1 /\ z \in 0 .. 0 + e3 - 1
    BY <1>2, <1>6, <2>1 DEF InBox
  <2>3. x \in 0 .. 0 + 1 - 1 /\ y \in 1 .. 1 + (e2 - 1) - 1 /\ z \in 0 .. 0 + e3 - 1 <=> x = 0 /\ y >= 1
    BY <1>1, <2>1
  <2>4. /\ b1.first[1] + b1.step[1] * (c[1] - b1.at[1]) = c[1]
        /\ b1.first[2] + b1.step[2] * (c[2] - b1.at[2]) = 0
        /\ b1.first[3] + b1.step[3] * (c[3] - b1.at[3]) = c[3]
    <3>1. 0 + 1 * (x - 0) = x /\ 0 + 0 * (y - 1) = 0 /\ 0 + 1 * (z - 0) = z
      BY <2>1
    <3> QED  BY <1>6, <2>1, <3>1
  <2>5. \A d \in Dims : b1.first[d] + b1.step[d] * (c[d] - b1.at[d]) = IF d = 2 THEN 0 ELSE c[d]
    BY <1>2, <2>4
  <2> QED  BY <2>1, <2>2, <2>3, <2>5 DEF SourceOf
<1>9. ASSUME NEW c \in Cells
      PROVE  /\ InBox(b2, c) <=> c[1] >= 1
             /\ SourceOf(b2, c) = [d \in Dims |-> IF d = 1 THEN 0 ELSE c[d]]
  <2>1. PICK x, y, z \in Int : /\ x = c[1] /\ y = c[2] /\ z = c[3] /\ 0 <= x /\ x < e1 /\ 0 <= y /\ y < e2 /\ 0 <= z /\ z < e3
    BY <1>4
  <2>2. InBox(b2, c) <=> x \in 1 .. 1 + (e1 - 1) - 1 /\ y \in 0 .. 0 + e2 - 1 /\ z \in 0 .. 0 + e3 - 1
    BY <1>2, <1>7, <2>1 DEF InBox
  <2>3. x \in 1 .. 1 + (e1 - 1) - 1 /\ y \in 0 .. 0 + e2 - 1 /\ z \in 0 .. 0 + e3 - 1 <=> x >= 1
    BY <1>1, <2>1
  <2>4. /\ b2.first[1] + b2.step[1] * (c[1] - b2.at[1]) = 0
        /\ b2.first[2] + b2.step[2] * (c[2] - b2.at[2]) = c[2]
        /\ b2.first[3] + b2.step[3] * (c[3] - b2.at[3]) = c[3]
    <3>1. 0 + 0 * (x - 1) = 0 /\ 0 + 1 * (y - 0) = y /\ 0 + 1 * (z - 0) = z
      BY <2>1
    <3> QED  BY <1>7, <2>1, <3>1
  <2>5. \A d \in Dims : b2.first[d] + b2.step[d] * (c[d] - b2.at[d]) = IF d = 1 THEN 0 ELSE c[d]
    BY <1>2, <2>4
  <2> QED  BY <2>1, <2>2, <2>3, <2>5 DEF SourceOf
<1>10. Brings3D(<<b1>>, t, q, FirstRow, FirstPlane)
  <2>1. ASSUME NEW c \in Cells, InBox(b1, c)
        PROVE  SourceOf(b1, c) \in FirstRow /\ PixelOf3D(q, SourceOf(b1, c)) = PixelOf3D(q, c)
    <3>1. PICK f : f = SourceOf(b1, c)
      OBVIOUS
    <3>2. f = [d \in Dims |-> f[d]] /\ f[1] = c[1] /\ f[2] = 0 /\ f[3] = c[3]
      BY <1>2, <1>8, <3>1
    <3>3. f \in Cells
      BY <1>1, <1>4, <1>5, <3>2
    <3>4. f[1] = 0 /\ f[2] = 0
      BY <1>8, <2>1, <3>2
    <3> QED  BY <1>3, <3>1, <3>3, <3>4 DEF FirstRow
  <2>2. \A c \in FirstPlane \ FirstRow : InBox(b1, c)
    BY <1>4, <1>8 DEF FirstPlane, FirstRow
  <2>3. <<b1>> \in Seq(Boxes) /\ DOMAIN <<b1>> = {1} /\ <<b1>>[1] = b1
    BY <1>6
  <2>4. Faithful3D(b1, t, q, FirstRow)
    BY <1>6, <2>1 DEF Faithful3D
  <2> QED  BY <2>2, <2>3, <2>4 DEF Brings3D
<1>11. Brings3D(<<b2>>, t, q, FirstPlane, Cells)
  <2>1. ASSUME NEW c \in Cells, InBox(b2, c)
        PROVE  SourceOf(b2, c) \in FirstPlane /\ PixelOf3D(q, SourceOf(b2, c)) = PixelOf3D(q, c)
    <3>1. PICK f : f = SourceOf(b2, c)
      OBVIOUS
    <3>2. f = [d \in Dims |-> f[d]] /\ f[1] = 0 /\ f[2] = c[2] /\ f[3] = c[3]
      BY <1>2, <1>9, <3>1
    <3>3. f \in Cells
      BY <1>1, <1>4, <1>5, <3>2
    <3> QED  BY <1>3, <3>1, <3>2, <3>3 DEF FirstPlane
  <2>2. \A c \in Cells \ FirstPlane : InBox(b2, c)
    BY <1>4, <1>9 DEF FirstPlane
  <2>3. <<b2>> \in Seq(Boxes) /\ DOMAIN <<b2>> = {1} /\ <<b2>>[1] = b2
    BY <1>7
  <2>4. Faithful3D(b2, t, q, FirstPlane)
    BY <1>7, <2>1 DEF Faithful3D
  <2> QED  BY <2>2, <2>3, <2>4 DEF Brings3D
<1> QED  BY <1>10, <1>11 DEF b1, b2

\* A tile of one plane has no other plane.
LEMMA OnePlaneOnly == OnePlane => FirstPlane = Cells
<1>1. ASSUME OnePlane, NEW c \in Cells PROVE c[1] = 0
  <2>1. c[1] \in Int /\ 0 <= c[1] /\ c[1] < Extent[1] /\ Extent[1] = 1
    BY <1>1, Cells3D, Sizes3D DEF OnePlane
  <2> QED  BY <2>1
<1> QED  BY <1>1 DEF FirstPlane

-----------------------------------------------------------------------------
(* 3D tiles: what they show. *)

\* The cells of t that have been asked for so far.
AskedFor(t) ==
  IF Beyond(Clips(pos[t])) THEN IF "dummy" \in Remaining(t) THEN FirstPlane ELSE Cells
  ELSE Within(pos[t], Remaining(t))

\* A copy brings the pixel that belongs there: from the frame, from the padding
\* value or from a cell of the tile that shows it already.
RightSource(b, c) ==
  \/ b.from = "frame" /\ SourceOf(b, c) = PixelOf3D(pos[b.tile], c)
  \/ b.from = "temp" /\ PixelOf3D(pos[b.tile], c) = Const
  \/ /\ b.from = "tile" /\ SourceOf(b, c) \in Cells
     /\ data[b.tile][SourceOf(b, c)] = PixelOf3D(pos[b.tile], c)
     /\ PixelOf3D(pos[b.tile], SourceOf(b, c)) = PixelOf3D(pos[b.tile], c)
RightBox(b) ==
  holds[b.tile] = "in" => b.to = "tile" /\ \A c \in Cells : InBox(b, c) => RightSource(b, c)

\* A tile waits for its copies.
WaitsFor(i, b) == i <= dmaIndex[b.tile] /\ status[b.tile] # {}

\* What has been asked for is there, or a copy brings it.
BringsCell(b, t, c) == b.tile = t /\ InBox(b, c)
Covers(t) ==
  holds[t] = "in" => \A c \in AskedFor(t) :
    data[t][c] = PixelOf3D(pos[t], c) \/ \E i \in DOMAIN fifo : BringsCell(fifo[i], t, c)

\* The flags say what remains to be padded.
FlagsRight(t) ==
  /\ status[t] = {} => padding[t] = "none"
  /\ holds[t] # "in" => status[t] \subseteq {"ongoing"}
  /\ holds[t] = "in" /\ status[t] # {} =>
       IF Beyond(Clips(pos[t])) THEN status[t] = {"ongoing", "dummy"} /\ padding[t] \in {"none", "dummy"}
       ELSE /\ status[t] \subseteq SideSet \cup {"ongoing"} /\ padding[t] # "dummy"
            /\ InSequence(pos[t], Remaining(t))

\* A call waits for the oldest tile.
WaiterRight ==
  waiter # NoCall => waiter.tile \in Tiles /\ (pending > 0 => Entry(0) = waiter.tile)

Waiting == [tile : Tiles \cup {NoTile}, sleeps : BOOLEAN, at : {"look", "sleep", "asleep"}]
QueueTyped == start \in 0 .. QueueLength - 1 /\ pending \in Nat
Typed3D ==
  /\ frame \in [pad : Pads, padding : Paddings]
  /\ pos \in [Tiles -> Points]
  /\ status \in [Tiles -> SUBSET (SideSet \cup {"ongoing", "dummy"})]
  /\ padding \in [Tiles -> SideSet \cup {"none", "dummy"}]
  /\ dmaIndex \in [Tiles -> Nat]
  /\ QueueTyped
  /\ DOMAIN data = Tiles /\ \A t \in Tiles : DOMAIN data[t] = Cells
  /\ fifo \in Seq(Boxes)
  /\ holds \in [Tiles -> {"junk", "in", "out"}]
  /\ waiter \in Waiting

AllRight ==
  /\ \A i \in DOMAIN fifo : WaitsFor(i, fifo[i]) /\ RightBox(fifo[i])
  /\ \A t \in Tiles : FlagsRight(t) /\ Covers(t)
ShowsInv == Typed3D /\ WaiterRight /\ AllRight

\* It says what the property does.
LEMMA PixelHere3D == \A t, c : Pixel(t, c) = PixelOf3D(pos[t], c)
BY DEF Pixel, PixelOf3D

\* A tile that is settled or ready waits for no copy.
LEMMA NoCopiesLeft ==
  ASSUME ShowsInv, NEW t \in Tiles, Settled(t) \/ status[t] = {}
  PROVE  \A i \in DOMAIN fifo : fifo[i].tile # t
<1>1. ASSUME NEW i \in DOMAIN fifo, fifo[i].tile = t PROVE FALSE
  <2>1. WaitsFor(i, fifo[i])
    BY DEF ShowsInv, AllRight
  <2>2. i \in Nat /\ i > 0
    <3>1. fifo \in Seq(Boxes)
      BY DEF ShowsInv, AllRight, Typed3D
    <3> QED  BY <1>1, <3>1
  <2> QED  BY <1>1, <2>1, <2>2 DEF WaitsFor, Settled
<1> QED  BY <1>1

\* Then it shows what has been asked for.
LEMMA SettledShows ==
  ASSUME ShowsInv, NEW t \in Tiles, Settled(t) \/ status[t] = {}, holds[t] = "in", NEW c \in AskedFor(t)
  PROVE  data[t][c] = PixelOf3D(pos[t], c)
<1>1. \A i \in DOMAIN fifo : ~BringsCell(fifo[i], t, c)
  BY NoCopiesLeft DEF BringsCell
<1>2. Covers(t)
  BY DEF ShowsInv, AllRight
<1> QED  BY <1>1, <1>2 DEF Covers

\* When nothing remains, all of it has been asked for.
LEMMA NothingRemains ==
  ASSUME NEW t, Remaining(t) = {} \/ (Remaining(t) = {"dummy"} /\ OnePlane /\ Beyond(Clips(pos[t])))
  PROVE  AskedFor(t) = Cells
<1>1. CASE Remaining(t) = {}
  <2>1. Within(pos[t], {}) = Cells
    BY DEF Within
  <2> QED  BY <1>1, <2>1 DEF AskedFor
<1>2. CASE Remaining(t) = {"dummy"} /\ OnePlane /\ Beyond(Clips(pos[t]))
  BY <1>2, OnePlaneOnly DEF AskedFor
<1> QED  BY <1>1, <1>2

\* So the invariant implies the property.
LEMMA ShowsFrame == ASSUME ShowsInv PROVE TileShowsFrame
<1>1. ASSUME NEW t \in Tiles, Ready(t), holds[t] = "in", NEW c \in Cells
      PROVE  data[t][c] = Pixel(t, c)
  <2>1. status[t] = {} /\ Remaining(t) = {}
    BY <1>1 DEF Ready, Remaining
  <2>2. c \in AskedFor(t)
    BY <2>1, NothingRemains
  <2> QED  BY <1>1, <2>1, <2>2, SettledShows, PixelHere3D
<1> QED  BY <1>1 DEF TileShowsFrame

\* The frame stays what it is.
LEMMA FrameStays ==
  ASSUME frame' = frame
  PROVE  /\ \A q : Clips(q)' = Clips(q)
         /\ \A q, c : PixelOf3D(q, c)' = PixelOf3D(q, c)
         /\ \A q, S : Within(q, S)' = Within(q, S)
         /\ \A q, S : InSequence(q, S)' = InSequence(q, S)
<1>1. \A q : Clips(q)' = Clips(q)
  BY DEF Clips
<1>2. \A q, c : PixelOf3D(q, c)' = PixelOf3D(q, c)
  BY <1>1 DEF PixelOf3D
<1>3. \A q, d : Lo(q, d)' = Lo(q, d) /\ Hi(q, d)' = Hi(q, d)
  BY <1>1 DEF Lo, Hi
<1>4. \A q, s, c : OffSide(q, s, c)' = OffSide(q, s, c)
  BY <1>3 DEF OffSide
<1>5. \A q, S : Within(q, S)' = Within(q, S)
  BY <1>4 DEF Within
<1>6. \A q, S : InSequence(q, S)' = InSequence(q, S)
  BY <1>1 DEF InSequence
<1> QED  BY <1>1, <1>2, <1>5, <1>6

\* Nothing of tile u changes.
TileStays(u) ==
  /\ pos'[u] = pos[u] /\ status'[u] = status[u] /\ padding'[u] = padding[u] /\ dmaIndex'[u] = dmaIndex[u]
  /\ data'[u] = data[u] /\ holds'[u] = holds[u]

\* Then its flags and its copies stay right.
LEMMA TileStaysRight ==
  ASSUME frame' = frame, NEW u, TileStays(u)
  PROVE  /\ FlagsRight(u) => FlagsRight(u)'
         /\ AskedFor(u)' = AskedFor(u)
         /\ \A i, b : b.tile = u => (WaitsFor(i, b) => WaitsFor(i, b)') /\ (RightBox(b) => RightBox(b)')
<1>1. /\ Clips(pos[u])' = Clips(pos[u])
      /\ \A c : PixelOf3D(pos[u], c)' = PixelOf3D(pos[u], c)
      /\ \A S : Within(pos[u], S)' = Within(pos[u], S) /\ InSequence(pos[u], S)' = InSequence(pos[u], S)
  BY FrameStays DEF TileStays
<1>2. Remaining(u)' = Remaining(u)
  BY DEF Remaining, TileStays
<1>3. FlagsRight(u) => FlagsRight(u)'
  BY <1>1, <1>2 DEF FlagsRight, TileStays
<1>4. AskedFor(u)' = AskedFor(u)
  BY <1>1, <1>2 DEF AskedFor, TileStays
<1>5. ASSUME NEW i, NEW b, b.tile = u
      PROVE  (WaitsFor(i, b) => WaitsFor(i, b)') /\ (RightBox(b) => RightBox(b)')
  <2>1. \A c : RightSource(b, c) => RightSource(b, c)'
    BY <1>1, <1>5 DEF RightSource, TileStays
  <2> QED  BY <1>5, <2>1 DEF WaitsFor, RightBox, TileStays
<1> QED  BY <1>3, <1>4, <1>5

\* What a step that changes tile t and posts copies for it has to see to.
RightFor(t, copies) ==
  /\ copies # <<>> => status'[t] # {} /\ dmaIndex'[t] = Len(fifo) + Len(copies)
  /\ \A i \in DOMAIN copies : copies[i].tile = t /\ RightBox(copies[i])'
  /\ FlagsRight(t)'
  /\ holds'[t] = "in" => \A c \in AskedFor(t)' :
       data'[t][c] = PixelOf3D(pos'[t], c) \/ \E i \in DOMAIN copies : InBox(copies[i], c)

\* Then all is right.
LEMMA PostedRight ==
  ASSUME ShowsInv, NEW t \in Tiles, NEW copies \in Seq(Boxes), fifo' = fifo \o copies, frame' = frame,
         \A u \in Tiles \ {t} : TileStays(u), \A i \in DOMAIN fifo : fifo[i].tile # t, RightFor(t, copies)
  PROVE  AllRight'
<1>1. fifo \in Seq(Boxes)
  BY DEF ShowsInv, AllRight, Typed3D
<1>2. PICK n, m \in Nat : n = Len(fifo) /\ m = Len(copies)
  BY <1>1
<1>3. /\ DOMAIN fifo = 1 .. n /\ DOMAIN copies = 1 .. m /\ DOMAIN fifo' = 1 .. n + m
      /\ \A i \in 1 .. n : fifo'[i] = fifo[i]
      /\ \A i \in 1 .. m : fifo'[n + i] = copies[i] /\ n + i \in 1 .. n + m
      /\ \A i \in 1 .. n + m : i \in 1 .. n \/ \E k \in 1 .. m : i = n + k
  <2>1. Len(fifo') = n + m /\ fifo' \in Seq(Boxes) /\ DOMAIN fifo = 1 .. n /\ DOMAIN copies = 1 .. m
    BY <1>1, <1>2
  <2>2. DOMAIN fifo' = 1 .. n + m
    BY <2>1
  <2>3. \A i \in 1 .. n : fifo'[i] = fifo[i]
    BY <1>1, <1>2
  <2>4. \A i \in 1 .. m : fifo'[n + i] = copies[i] /\ n + i \in 1 .. n + m
    BY <1>1, <1>2
  <2>5. ASSUME NEW i \in 1 .. n + m, i \notin 1 .. n PROVE i - n \in 1 .. m /\ i = n + (i - n)
    BY <2>5
  <2> QED  BY <2>1, <2>2, <2>3, <2>4, <2>5
<1>4. ASSUME NEW i \in DOMAIN fifo'
      PROVE  (WaitsFor(i, fifo[i]) /\ RightBox(fifo[i]))'
  <2>1. CASE i \in 1 .. n
    <3>1. PICK b : b = fifo[i] /\ b = fifo'[i]
      BY <1>3, <2>1
    <3>2. WaitsFor(i, b) /\ RightBox(b) /\ b.tile # t /\ b.tile \in Tiles
      <4>1. i \in DOMAIN fifo
        BY <1>3, <2>1
      <4>2. b \in Boxes
        BY <1>1, <3>1, <4>1
      <4> QED  BY <3>1, <4>1, <4>2 DEF ShowsInv, AllRight, Boxes
    <3>3. TileStays(b.tile)
      BY <3>2
    <3>4. WaitsFor(i, b)' /\ RightBox(b)'
      BY <3>2, <3>3, TileStaysRight
    <3> QED  BY <3>1, <3>4
  <2>2. ASSUME NEW k \in 1 .. m, i = n + k
        PROVE  (WaitsFor(i, fifo[i]) /\ RightBox(fifo[i]))'
    <3>1. PICK b : b = copies[k] /\ b = fifo'[i]
      BY <1>3, <2>2
    <3>2. b.tile = t /\ RightBox(b)' /\ copies # <<>>
      BY <1>2, <1>3, <2>2, <3>1 DEF RightFor
    <3>3. status'[t] # {} /\ dmaIndex'[t] = n + m
      BY <1>2, <3>2 DEF RightFor
    <3>4. i <= n + m
      BY <2>2
    <3>5. WaitsFor(i, b)'
      BY <3>2, <3>3, <3>4 DEF WaitsFor
    <3> QED  BY <3>1, <3>2, <3>5
  <2> QED  BY <1>3, <2>1, <2>2
<1>5. ASSUME NEW u \in Tiles PROVE (FlagsRight(u) /\ Covers(u))'
  <2>1. CASE u # t
    <3>1. TileStays(u) /\ FlagsRight(u) /\ Covers(u)
      BY <2>1 DEF ShowsInv, AllRight
    <3>2. FlagsRight(u)' /\ AskedFor(u)' = AskedFor(u)
      BY <3>1, TileStaysRight
    <3>3. \A c : PixelOf3D(pos[u], c)' = PixelOf3D(pos[u], c)
      BY FrameStays, <3>1 DEF TileStays
    <3>4. ASSUME holds'[u] = "in", NEW c \in AskedFor(u)'
          PROVE  data'[u][c] = PixelOf3D(pos[u], c)' \/ \E i \in DOMAIN fifo' : BringsCell(fifo'[i], u, c)
      <4>1. data[u][c] = PixelOf3D(pos[u], c) \/ \E i \in DOMAIN fifo : BringsCell(fifo[i], u, c)
        BY <3>1, <3>2, <3>4 DEF Covers, TileStays
      <4>2. CASE data[u][c] = PixelOf3D(pos[u], c)
        BY <3>1, <3>3, <4>2 DEF TileStays
      <4>3. ASSUME NEW i \in DOMAIN fifo, BringsCell(fifo[i], u, c)
            PROVE  \E j \in DOMAIN fifo' : BringsCell(fifo'[j], u, c)
        <5>1. i \in DOMAIN fifo' /\ fifo'[i] = fifo[i]
          BY <1>3, <4>3
        <5> QED  BY <4>3, <5>1
      <4> QED  BY <4>1, <4>2, <4>3
    <3>5. Covers(u)'
      BY <3>4 DEF Covers, BringsCell, InBox
    <3> QED  BY <3>2, <3>5
  <2>2. CASE u = t
    <3>1. ASSUME holds'[t] = "in", NEW c \in AskedFor(t)'
          PROVE  data'[t][c] = PixelOf3D(pos[t], c)' \/ \E i \in DOMAIN fifo' : BringsCell(fifo'[i], t, c)
      <4>1. PixelOf3D(pos[t], c)' = PixelOf3D(pos'[t], c)
        BY DEF PixelOf3D, Clips
      <4>2. data'[t][c] = PixelOf3D(pos'[t], c) \/ \E i \in DOMAIN copies : InBox(copies[i], c)
        BY <3>1 DEF RightFor
      <4>3. ASSUME NEW i \in DOMAIN copies, InBox(copies[i], c)
            PROVE  \E j \in DOMAIN fifo' : BringsCell(fifo'[j], t, c)
        <5>1. n + i \in DOMAIN fifo' /\ fifo'[n + i] = copies[i]
          BY <1>3, <4>3
        <5>2. BringsCell(copies[i], t, c)
          BY <4>3 DEF RightFor, BringsCell
        <5> QED  BY <5>1, <5>2
      <4> QED  BY <4>1, <4>2, <4>3
    <3>2. Covers(t)'
      BY <3>1 DEF Covers, BringsCell, InBox
    <3> QED  BY <2>2, <3>2 DEF RightFor
  <2> QED  BY <2>1, <2>2
<1> QED  BY <1>4, <1>5 DEF AllRight

\* The copies for tile t at q are right after the step, and bring what is wanted.
Brought(copies, t, q, wanted) ==
  /\ copies \in Seq(Boxes)
  /\ \A i \in DOMAIN copies : copies[i].tile = t /\ RightBox(copies[i])'
  /\ \A c \in wanted : data'[t][c] = PixelOf3D(q, c) \/ \E i \in DOMAIN copies : InBox(copies[i], c)

\* Copies that bring what is wanted are right.
LEMMA BroughtRight ==
  ASSUME frame' = frame, NEW t \in Tiles, NEW q \in Points, pos'[t] = q, NEW S \in SUBSET Cells, NEW wanted, NEW copies,
         Brings3D(copies, t, q, S, wanted), \A c \in S : data'[t][c] = PixelOf3D(q, c)
  PROVE  Brought(copies, t, q, wanted)
<1>1. copies \in Seq(Boxes)
  BY DEF Brings3D
<1>2. ASSUME NEW i \in DOMAIN copies PROVE copies[i].tile = t /\ RightBox(copies[i])'
  <2>1. PICK b : b = copies[i]
    OBVIOUS
  <2>2. Faithful3D(b, t, q, S)
    BY <2>1 DEF Brings3D
  <2>3. b.tile = t /\ b.to = "tile" /\ b.from \in {"tile", "frame", "temp"}
    BY <2>2 DEF Faithful3D, Boxes
  <2>4. ASSUME NEW c \in Cells, InBox(b, c) PROVE RightSource(b, c)'
    <3>1. PICK s : s = SourceOf(b, c)
      OBVIOUS
    <3>2. \/ b.from = "frame" /\ s = PixelOf3D(q, c)
          \/ b.from = "temp" /\ PixelOf3D(q, c) = Const
          \/ b.from = "tile" /\ s \in S /\ PixelOf3D(q, s) = PixelOf3D(q, c)
      BY <2>2, <2>4, <3>1 DEF Faithful3D
    <3>3. s \in S => s \in Cells /\ data'[t][s] = PixelOf3D(q, s)
      OBVIOUS
    <3>4. \A x : PixelOf3D(pos[t], x)' = PixelOf3D(q, x)
      BY DEF PixelOf3D, Clips
    <3> QED  BY <2>3, <3>1, <3>2, <3>3, <3>4 DEF RightSource, SourceOf
  <2> QED  BY <2>1, <2>3, <2>4 DEF RightBox, InBox
<1>3. ASSUME NEW c \in wanted
      PROVE  data'[t][c] = PixelOf3D(q, c) \/ \E i \in DOMAIN copies : InBox(copies[i], c)
  BY DEF Brings3D
<1> QED  BY <1>1, <1>2, <1>3 DEF Brought

-----------------------------------------------------------------------------
(* 3D tiles: what a call does that asks for the oldest tile. *)

CallIdle == UNCHANGED <<status, padding, dmaIndex, fifo, start, pending>>
CallEnds(a) ==
  /\ Complete(a)
  /\ status' = [status EXCEPT ![a] = {}] /\ padding' = [padding EXCEPT ![a] = "none"]
  /\ UNCHANGED <<dmaIndex, fifo>> /\ QueueTyped'
CallPads(a) ==
  /\ Settled(a) /\ Remaining(a) # {}
  /\ status' = [status EXCEPT ![a] = Remaining(a) \cup {"ongoing"}]
  /\ padding' = [padding EXCEPT ![a] = IF Remaining(a) = {"dummy"} THEN "dummy" ELSE NextSide(a)]
  /\ NextCopies(a, a) \in Seq(Boxes) =>
       /\ fifo' = fifo \o NextCopies(a, a)
       /\ NextCopies(a, a) # <<>> => dmaIndex' = [dmaIndex EXCEPT ![a] = Len(fifo) + Len(NextCopies(a, a))]
  /\ UNCHANGED <<start, pending>>
Called(a) ==
  /\ CallIdle \/ CallEnds(a) \/ CallPads(a)
  /\ UNCHANGED <<queue, frame, pos, data, holds>>

\* It changes nothing but the tile that it asks for.
LEMMA InTurn ==
  ASSUME Typed3D, NEW a \in Tiles, pending > 0 => Entry(0) = a, CheckTileReady3D(a, TRUE)
  PROVE  Called(a)
<1>. DEFINE n == DoneCount(a)
            done == {Entry(i) : i \in 0 .. n - 1}
            u == Entry(n)
            pads == n < pending /\ ~(n > 0 /\ Entry(n - 1) = a) /\ Settled(u)
            posted == [i \in DOMAIN NextCopies(u, a) |-> NextCopies(u, a)[i]]
<1>1. /\ start' = NextStart(a, n) /\ pending' = pending - n
      /\ status' = [t \in Tiles |-> IF t \in done THEN {}
                                    ELSE IF pads /\ t = u THEN Remaining(u) \cup {"ongoing"}
                                    ELSE status[t]]
      /\ padding' = [t \in Tiles |-> IF t \in done THEN "none"
                                     ELSE IF ~pads \/ t # u THEN padding[t]
                                     ELSE IF Remaining(u) = {"dummy"} THEN "dummy" ELSE NextSide(u)]
      /\ IF pads
         THEN /\ fifo' = fifo \o posted
              /\ \E junk \in 0 .. Len(fifo) :
                   dmaIndex' = [dmaIndex EXCEPT ![u] = IF posted = <<>> THEN junk ELSE Len(fifo) + Len(posted)]
         ELSE UNCHANGED <<fifo, dmaIndex>>
      /\ UNCHANGED <<queue, frame, pos, data, holds>>
  <2>. DEFINE copies == NextCopies(u, a)
              source(b) == IF NeedsTemp(u) /\ ~TRUE THEN [b EXCEPT !.from = "wild"] ELSE b
              given == [i \in DOMAIN copies |-> source(copies[i])]
  <2>1. /\ start' = NextStart(a, n) /\ pending' = pending - n
        /\ status' = [t \in Tiles |-> IF t \in done THEN {}
                                      ELSE IF pads /\ t = u THEN Remaining(u) \cup {"ongoing"}
                                      ELSE status[t]]
        /\ padding' = [t \in Tiles |-> IF t \in done THEN "none"
                                       ELSE IF ~pads \/ t # u THEN padding[t]
                                       ELSE IF Remaining(u) = {"dummy"} THEN "dummy" ELSE NextSide(u)]
        /\ UNCHANGED <<queue, frame, pos, data, holds>>
    BY DEF CheckTileReady3D
  <2>. DEFINE Changed(c, k) == [i \in DOMAIN c |-> IF NeedsTemp(Entry(k)) /\ ~TRUE THEN [c[i] EXCEPT !.from = "wild"] ELSE c[i]]
  <2>2. \E k \in {DoneCount(a)} :
          IF k < pending /\ ~(k > 0 /\ Entry(k - 1) = a) /\ Settled(Entry(k))
          THEN \E c \in {NextCopies(Entry(k), a)} :
                 /\ fifo' = fifo \o Changed(c, k)
                 /\ \E junk \in 0 .. Len(fifo) :
                      /\ Changed(c, k) # <<>> => junk = 0
                      /\ dmaIndex' = [dmaIndex EXCEPT ![Entry(k)] =
                                        IF Changed(c, k) = <<>> THEN junk ELSE Len(fifo) + Len(Changed(c, k))]
          ELSE UNCHANGED <<fifo, dmaIndex>>
    BY Zenon DEF CheckTileReady3D
  <2>3. IF pads
        THEN /\ fifo' = fifo \o given
             /\ \E junk \in 0 .. Len(fifo) :
                  dmaIndex' = [dmaIndex EXCEPT ![u] = IF given = <<>> THEN junk ELSE Len(fifo) + Len(given)]
        ELSE UNCHANGED <<fifo, dmaIndex>>
    <3>1. given = Changed(NextCopies(u, a), n)
      OBVIOUS
    <3>. HIDE DEF Changed, given
    <3> QED  BY <2>2, <3>1
  <2>4. given = posted
    OBVIOUS
  <2>. HIDE DEF given, posted, done, pads, u, n
  <2> QED  BY <2>1, <2>3, <2>4
<1>2. PICK m \in Nat, k \in Nat : m = n /\ k = pending /\ m <= k
  <2>1. pending \in Nat /\ DoneCount(a) \in 0 .. pending
    BY DoneCounted DEF Typed3D, QueueTyped
  <2> QED  BY <2>1
<1>3. /\ \A i \in 0 .. m - 1 : Complete(Entry(i)) /\ (i < m - 1 => Entry(i) # a)
      /\ m = k \/ ~Complete(Entry(m)) \/ (m > 0 /\ Entry(m - 1) = a)
  BY <1>2, DoneCounted
<1>4. PICK s \in Nat : s = start /\ s < QueueLength /\ QueueLength \in Nat \ {0}
  BY Tile3DAssumption DEF Typed3D, QueueTyped
<1>5. /\ DOMAIN status = Tiles /\ status = [t \in Tiles |-> status[t]]
      /\ DOMAIN padding = Tiles /\ padding = [t \in Tiles |-> padding[t]]
      /\ dmaIndex \in [Tiles -> Nat]
  BY DEF Typed3D
<1>6. m = 0 \/ m = 1
  <2>1. ASSUME m > 1 PROVE FALSE
    <3>1. 0 \in 0 .. m - 1 /\ 0 < m - 1 /\ k > 0
      BY <1>2, <2>1
    <3> QED  BY <1>2, <1>3, <3>1
  <2> QED  BY <2>1
<1>. HIDE DEF n, done, u, pads, posted
<1>7. CASE m = 0 /\ ~pads
  <2>1. done = {}
    BY <1>2, <1>7 DEF done
  <2>2. status' = status /\ padding' = padding /\ UNCHANGED <<fifo, dmaIndex>>
    BY <1>1, <1>5, <1>7, <2>1
  <2>3. pending' = pending
    BY <1>1, <1>2, <1>7
  <2>4. start' = start
    <3>1. (s + 0) % QueueLength = s
      BY <1>4
    <3>2. start' = (start + 0) % QueueLength
      BY <1>1, <1>2, <1>7 DEF NextStart
    <3> QED  BY <1>4, <3>1, <3>2
  <2> QED  BY <1>1, <2>2, <2>3, <2>4 DEF Called, CallIdle
<1>8. CASE m = 0 /\ pads
  <2>1. done = {}
    BY <1>2, <1>8 DEF done
  <2>2. pending' = pending /\ start' = start
    <3>1. (s + 0) % QueueLength = s
      BY <1>4
    <3>2. start' = (start + 0) % QueueLength
      BY <1>1, <1>2, <1>8 DEF NextStart
    <3>3. pending' = pending
      BY <1>1, <1>2, <1>8
    <3> QED  BY <1>4, <3>1, <3>2, <3>3
  <2>3. u = a /\ Settled(a) /\ Remaining(a) # {}
    <3>1. k > 0 /\ Entry(0) = a /\ u = a /\ Settled(a)
      BY <1>2, <1>8 DEF pads, u
    <3>2. ~Complete(Entry(0))
      BY <1>3, <1>8, <3>1
    <3> QED  BY <3>1, <3>2 DEF Complete
  <2>4. status' = [status EXCEPT ![a] = Remaining(a) \cup {"ongoing"}]
    BY <1>1, <1>5, <1>8, <2>1, <2>3
  <2>5. padding' = [padding EXCEPT ![a] = IF Remaining(a) = {"dummy"} THEN "dummy" ELSE NextSide(a)]
    BY <1>1, <1>5, <1>8, <2>1, <2>3
  <2>6. /\ fifo' = fifo \o posted
        /\ \E junk \in 0 .. Len(fifo) :
             dmaIndex' = [dmaIndex EXCEPT ![a] = IF posted = <<>> THEN junk ELSE Len(fifo) + Len(posted)]
    BY <1>1, <1>8, <2>3
  <2>7. posted = [i \in DOMAIN NextCopies(a, a) |-> NextCopies(a, a)[i]]
    BY <2>3 DEF posted
  <2>8. ASSUME NextCopies(a, a) \in Seq(Boxes)
        PROVE  /\ fifo' = fifo \o NextCopies(a, a)
               /\ NextCopies(a, a) # <<>> => dmaIndex' = [dmaIndex EXCEPT ![a] = Len(fifo) + Len(NextCopies(a, a))]
    <3>1. PICK copies \in Seq(Boxes) : copies = NextCopies(a, a)
      BY <2>8
    <3>2. copies = [i \in DOMAIN copies |-> copies[i]]
      OBVIOUS
    <3>3. posted = NextCopies(a, a)
      BY <2>7, <3>1, <3>2
    <3> QED  BY <2>6, <3>3
  <2> QED  BY <1>1, <2>2, <2>3, <2>4, <2>5, <2>8 DEF Called, CallPads
<1>9. CASE m = 1
  <2>1. k > 0 /\ Entry(0) = a /\ Complete(a)
    <3>1. 0 \in 0 .. m - 1
      BY <1>9
    <3> QED  BY <1>2, <1>3, <1>9, <3>1
  <2>2. done = {a} /\ ~pads
    <3>1. 0 .. m - 1 = {0} /\ m - 1 = 0
      BY <1>9
    <3>2. done = {a}
      BY <1>2, <2>1, <3>1 DEF done
    <3> QED  BY <1>2, <1>9, <2>1, <3>1, <3>2 DEF pads
  <2>3. status' = [status EXCEPT ![a] = {}] /\ padding' = [padding EXCEPT ![a] = "none"] /\ UNCHANGED <<fifo, dmaIndex>>
    <3>1. status' = [status EXCEPT ![a] = {}]
      BY <1>1, <1>5, <2>2
    <3>2. padding' = [padding EXCEPT ![a] = "none"]
      BY <1>1, <1>5, <2>2
    <3> QED  BY <1>1, <2>2, <3>1, <3>2
  <2>4. QueueTyped'
    <3>1. pending' \in Nat
      BY <1>1, <1>2, <1>9
    <3>2. \A x \in Nat : x % QueueLength \in 0 .. QueueLength - 1
      BY <1>4
    <3>3. start' = (start + 1) % QueueLength
      <4>1. Entry(m - 1) = a
        BY <1>9, <2>1
      <4> QED  BY <1>1, <1>2, <1>9, <4>1 DEF NextStart
    <3>4. s + 1 \in Nat
      OBVIOUS
    <3> QED  BY <1>4, <3>1, <3>2, <3>3, <3>4 DEF QueueTyped
  <2> QED  BY <1>1, <2>1, <2>3, <2>4 DEF Called, CallEnds
<1> QED  BY <1>6, <1>7, <1>8, <1>9

-----------------------------------------------------------------------------
(* 3D tiles: the steps. *)

\* Where a tile is after the step.
LEMMA TilePlaced ==
  ASSUME frame' = frame, NEW t, NEW p, pos'[t] = p
  PROVE  /\ Clips(pos[t])' = Clips(p)
         /\ \A c : PixelOf3D(pos[t], c)' = PixelOf3D(p, c)
         /\ \A S : Within(pos[t], S)' = Within(p, S)
         /\ \A S : InSequence(pos[t], S)' = InSequence(p, S)
<1>1. Clips(pos[t])' = Clips(p)
  BY DEF Clips
<1>2. \A c : PixelOf3D(pos[t], c)' = PixelOf3D(p, c)
  BY <1>1 DEF PixelOf3D
<1>3. \A d : Lo(pos[t], d)' = Lo(p, d) /\ Hi(pos[t], d)' = Hi(p, d)
  BY <1>1 DEF Lo, Hi
<1>4. \A s, c : OffSide(pos[t], s, c)' = OffSide(p, s, c)
  BY <1>3 DEF OffSide
<1>5. \A S : Within(pos[t], S)' = Within(p, S)
  BY <1>4 DEF Within
<1>6. \A S : InSequence(pos[t], S)' = InSequence(p, S)
  BY <1>1 DEF InSequence
<1> QED  BY <1>1, <1>2, <1>5, <1>6

\* A request that is accepted, and what it posts.
LEMMA ShowsRequestIn ==
  ASSUME ShowsInv, NEW t \in Tiles, NEW p \in Positions, ReqTileTransferIn3D(t, p)
  PROVE  ShowsInv'
<1>. DEFINE k == Clips(p)
            posted == IF Beyond(k) THEN <<OtherRows(t)>> ELSE <<Inside(t, k)>>
            flags == {"ongoing"} \cup (IF Beyond(k) THEN {"dummy"} ELSE Flags(k))
            S == IF Beyond(k) THEN FirstRow ELSE {}
            wanted == IF Beyond(k) THEN FirstPlane ELSE Within(p, Flags(k))
<1>0. PICK copies : copies = posted
  OBVIOUS
<1>1. /\ waiter = NoCall /\ status[t] = {} /\ pos' = [pos EXCEPT ![t] = p]
      /\ UNCHANGED <<frame, padding, waiter>>
      /\ fifo' = fifo \o copies /\ dmaIndex' = [dmaIndex EXCEPT ![t] = Len(fifo) + Len(copies)]
      /\ status' = [status EXCEPT ![t] = flags]
      /\ pending' = pending + 1 /\ start' = start
      /\ holds' = [holds EXCEPT ![t] = "in"]
  BY <1>0 DEF ReqTileTransferIn3D, Request, Post, Enqueue, Ready
<1>2. data' = IF Beyond(k)
              THEN [data EXCEPT ![t] = [c \in Cells |-> IF c \in FirstRow THEN Const ELSE data[t][c]]]
              ELSE data
  BY DEF ReqTileTransferIn3D
<1>3. frame.pad \in Nat /\ p \in Points /\ Typed3D
  <2>1. frame.pad \in Pads
    BY DEF ShowsInv, Typed3D
  <2> QED  BY <2>1, Sizes3D, Tile3DAssumption DEF Points, ShowsInv
<1>4. S \in SUBSET Cells /\ wanted \in SUBSET Cells
  BY DEF FirstRow, FirstPlane, Within
<1>5. Brings3D(copies, t, p, S, wanted)
  BY <1>3, <1>0, InsideBrings, BeyondBrings
<1>. HIDE DEF posted
<1>6. /\ pos'[t] = p /\ status'[t] = flags /\ padding'[t] = "none" /\ holds'[t] = "in"
      /\ dmaIndex'[t] = Len(fifo) + Len(copies)
      /\ \A u \in Tiles \ {t} : TileStays(u)
  <2>1. FlagsRight(t)
    BY DEF ShowsInv, AllRight
  <2>2. \A u \in Tiles \ {t} : data'[u] = data[u]
    BY <1>2, <1>3 DEF Typed3D
  <2>. HIDE DEF flags
  <2>3. \A u \in Tiles \ {t} : TileStays(u)
    BY <1>1, <1>3, <2>2 DEF Typed3D, TileStays
  <2> QED  BY <1>1, <1>3, <2>1, <2>3 DEF Typed3D, FlagsRight
<1>7. \A c \in S : data'[t][c] = PixelOf3D(p, c)
  <2>1. ASSUME Beyond(k), NEW c \in FirstRow PROVE data'[t][c] = PixelOf3D(p, c)
    <3>1. c \in Cells
      BY DEF FirstRow
    <3>2. data'[t] = [x \in Cells |-> IF x \in FirstRow THEN Const ELSE data[t][x]]
      BY <1>2, <1>3, <2>1 DEF Typed3D
    <3>3. PixelOf3D(p, c) = Const
      BY <1>3, <2>1, <3>1, Pixels3D
    <3> QED  BY <2>1, <3>1, <3>2, <3>3
  <2> QED  BY <2>1
<1>8. DOMAIN data' = Tiles /\ \A u \in Tiles : DOMAIN data'[u] = Cells
  <2>1. CASE Beyond(k)
    <3>1. DOMAIN data' = Tiles /\ DOMAIN data'[t] = Cells /\ \A u \in Tiles \ {t} : data'[u] = data[u]
      BY <1>2, <1>3, <2>1 DEF Typed3D
    <3> QED  BY <1>3, <3>1 DEF Typed3D
  <2>2. CASE ~Beyond(k)
    BY <1>2, <1>3, <2>2 DEF Typed3D
  <2> QED  BY <2>1, <2>2
<1>. HIDE DEF S, wanted
<1>9. Brought(copies, t, p, wanted)
  <2>1. frame' = frame /\ pos'[t] = p /\ p \in Points /\ S \in SUBSET Cells
    BY <1>1, <1>3, <1>4, <1>6
  <2> QED  BY <1>5, <1>7, <2>1, BroughtRight
<1>10. "ongoing" \notin SideSet /\ "dummy" \notin SideSet /\ "none" \notin SideSet /\ Flags(k) \subseteq SideSet
  BY SidesNamed DEF Flags
<1>11. /\ Clips(pos[t])' = k
       /\ Remaining(t)' = flags \ {"ongoing"}
       /\ \A S2 : Within(pos[t], S2)' = Within(p, S2) /\ InSequence(pos[t], S2)' = InSequence(p, S2)
  <2>1. Remaining(t)' = flags \ {"ongoing"}
    BY <1>6, <1>10 DEF Remaining
  <2>. HIDE DEF k
  <2> QED  BY <1>1, <1>6, <2>1, TilePlaced DEF k
<1>12. AskedFor(t)' = wanted
  <2>1. Beyond(Clips(pos[t]))' = Beyond(k)
    BY <1>11 DEF Beyond
  <2>2. Beyond(k) => "dummy" \in Remaining(t)'
    BY <1>11
  <2>3. ~Beyond(k) => Remaining(t)' = Flags(k)
    BY <1>10, <1>11
  <2> QED  BY <1>11, <2>1, <2>2, <2>3 DEF AskedFor, wanted, FirstPlane
<1>13. FlagsRight(t)'
  <2>1. Beyond(Clips(pos[t]))' = Beyond(k)
    BY <1>11 DEF Beyond
  <2>2. CASE Beyond(k)
    <3>1. flags = {"ongoing", "dummy"}
      BY <2>2
    <3>. HIDE DEF flags
    <3> QED  BY <1>6, <2>1, <2>2, <3>1 DEF FlagsRight
  <2>3. CASE ~Beyond(k)
    <3>1. flags = {"ongoing"} \cup Flags(k) /\ Remaining(t)' = Flags(k)
      BY <1>10, <1>11, <2>3
    <3>2. InSequence(p, Flags(k))
      BY DEF InSequence
    <3>3. InSequence(pos[t], Remaining(t))'
      BY <1>6, <1>11, <3>1, <3>2 DEF InSequence
    <3>. HIDE DEF flags
    <3> QED  BY <1>6, <1>10, <2>1, <2>3, <3>1, <3>3 DEF FlagsRight
  <2> QED  BY <2>2, <2>3
<1>14. RightFor(t, copies)
  BY <1>6, <1>9, <1>12, <1>13 DEF RightFor, Brought
<1>15. AllRight'
  BY <1>1, <1>6, <1>9, <1>14, NoCopiesLeft, PostedRight DEF Brought
<1>16. Typed3D'
  <2>1. flags \in SUBSET (SideSet \cup {"ongoing", "dummy"})
    BY <1>10
  <2>2. fifo' \in Seq(Boxes) /\ Len(fifo) + Len(copies) \in Nat
    <3>1. fifo \in Seq(Boxes)
      BY <1>3 DEF Typed3D
    <3> QED  BY <1>1, <1>9, <3>1 DEF Brought
  <2>. HIDE DEF flags, k
  <2>3. QueueTyped'
    BY <1>1, <1>3 DEF Typed3D, QueueTyped
  <2> QED  BY <1>1, <1>3, <1>8, <2>1, <2>2, <2>3 DEF Typed3D
<1> QED  BY <1>1, <1>15, <1>16 DEF ShowsInv, WaiterRight

\* A tile that is written out.
LEMMA ShowsRequestOut ==
  ASSUME ShowsInv, NEW t \in Tiles, NEW p \in Positions, ReqTileTransferOut3D(t, p)
  PROVE  ShowsInv'
<1>. DEFINE b == OutBox(t, p)
            some == \A d \in Dims : b.size[d] > 0
            copies == IF some THEN <<b>> ELSE <<>>
<1>1. /\ waiter = NoCall /\ status[t] = {} /\ pos' = [pos EXCEPT ![t] = p]
      /\ UNCHANGED <<frame, padding, waiter, data>>
      /\ fifo' = fifo \o copies /\ dmaIndex' = [dmaIndex EXCEPT ![t] = Len(fifo) + Len(copies)]
      /\ status' = [status EXCEPT ![t] = IF some THEN {"ongoing"} ELSE @]
      /\ (IF some THEN Enqueue(t) ELSE UNCHANGED queueVars)
      /\ holds' = [holds EXCEPT ![t] = "out"]
  BY DEF ReqTileTransferOut3D, Request, Post, Ready
<1>2. p \in Points /\ Typed3D
  BY Tile3DAssumption DEF Points, ShowsInv
<1>3. b \in Boxes /\ b.tile = t
  <2>1. ASSUME NEW d \in Dims
        PROVE  /\ Greater(0, p[d]) \in Int /\ Edge + Greater(0, -p[d]) \in Int
               /\ CutToFrame(Tile[d], Frame[d], p[d]) \in Int
    <3>1. PICK x, w, f, e \in Int : x = p[d] /\ w = Tile[d] /\ f = Frame[d] /\ e = Edge
      BY <1>2, Coordinates, Sizes3D
    <3>2. Greater(0, x) \in Int /\ e + Greater(0, -x) \in Int /\ CutToFrame(w, f, x) \in Int
      BY DEF Greater, Lesser, CutToFrame
    <3> QED  BY <3>1, <3>2
  <2> QED  BY <2>1 DEF OutBox, Box, Boxes
<1>. HIDE DEF b, some
<1>4. copies \in Seq(Boxes) /\ \A i \in DOMAIN copies : copies[i].tile = t
  <2>1. <<b>> \in Seq(Boxes) /\ DOMAIN <<b>> = {1} /\ <<b>>[1] = b
    BY <1>3
  <2>2. <<>> \in Seq(Boxes) /\ DOMAIN <<>> = {}
    OBVIOUS
  <2> QED  BY <1>3, <2>1, <2>2
<1>5. /\ pos'[t] = p /\ status'[t] = (IF some THEN {"ongoing"} ELSE {}) /\ padding'[t] = "none" /\ holds'[t] = "out"
      /\ dmaIndex'[t] = Len(fifo) + Len(copies)
      /\ \A u \in Tiles \ {t} : TileStays(u)
  <2>1. FlagsRight(t)
    BY DEF ShowsInv, AllRight
  <2>. HIDE DEF copies
  <2>2. \A u \in Tiles \ {t} : TileStays(u)
    BY <1>1, <1>2 DEF Typed3D, TileStays
  <2> QED  BY <1>1, <1>2, <2>1, <2>2 DEF Typed3D, FlagsRight
<1>6. RightFor(t, copies)
  <2>1. FlagsRight(t)'
    BY <1>5 DEF FlagsRight
  <2>2. \A i \in DOMAIN copies : RightBox(copies[i])'
    BY <1>4, <1>5 DEF RightBox
  <2>3. copies # <<>> => status'[t] # {}
    BY <1>5
  <2>. HIDE DEF copies
  <2> QED  BY <1>4, <1>5, <2>1, <2>2, <2>3 DEF RightFor
<1>. HIDE DEF copies
<1>7. AllRight'
  BY <1>1, <1>4, <1>5, <1>6, NoCopiesLeft, PostedRight
<1>8. Typed3D'
  <2>1. fifo' \in Seq(Boxes) /\ Len(fifo) + Len(copies) \in Nat
    <3>1. fifo \in Seq(Boxes)
      BY <1>2 DEF Typed3D
    <3> QED  BY <1>1, <1>4, <3>1
  <2>2. QueueTyped'
    BY <1>1, <1>2 DEF Typed3D, QueueTyped, Enqueue, queueVars
  <2>3. status' \in [Tiles -> SUBSET (SideSet \cup {"ongoing", "dummy"})]
    BY <1>1, <1>2 DEF Typed3D
  <2> QED  BY <1>1, <1>2, <2>1, <2>2, <2>3 DEF Typed3D
<1> QED  BY <1>1, <1>7, <1>8 DEF ShowsInv, WaiterRight

\* The application works on a tile.
LEMMA ShowsWork ==
  ASSUME ShowsInv, NEW t \in Tiles, Work(t)
  PROVE  ShowsInv'
<1>1. /\ waiter = NoCall /\ status[t] = {} /\ UNCHANGED <<frame, status, padding, queueVars, fifo, waiter>>
      /\ data' = [data EXCEPT ![t] = [c \in Cells |-> Old]]
      /\ holds' = [holds EXCEPT ![t] = "junk"] /\ pos' = [pos EXCEPT ![t] = <<0, 0, 0>>]
      /\ dmaIndex' = [dmaIndex EXCEPT ![t] = 0]
  BY DEF Work, Ready
<1>2. Typed3D /\ <<0, 0, 0>> \in Points
  BY DEF ShowsInv, Points
<1>3. holds'[t] = "junk" /\ status'[t] = {} /\ \A u \in Tiles \ {t} : TileStays(u)
  BY <1>1, <1>2 DEF Typed3D, TileStays
<1>4. fifo' = fifo \o <<>> /\ <<>> \in Seq(Boxes) /\ DOMAIN <<>> = {}
  <2>1. fifo \in Seq(Boxes)
    BY <1>2 DEF Typed3D
  <2> QED  BY <1>1, <2>1
<1>5. RightFor(t, <<>>)
  <2>1. FlagsRight(t)
    BY DEF ShowsInv, AllRight
  <2>2. FlagsRight(t)'
    BY <1>1, <1>3, <2>1 DEF FlagsRight
  <2> QED  BY <1>3, <1>4, <2>2 DEF RightFor
<1>6. AllRight'
  BY <1>1, <1>3, <1>4, <1>5, NoCopiesLeft, PostedRight
<1>7. Typed3D'
  <2>1. DOMAIN data' = Tiles /\ \A u \in Tiles : DOMAIN data'[u] = Cells
    BY <1>1, <1>2 DEF Typed3D
  <2> QED  BY <1>1, <1>2, <2>1 DEF Typed3D, QueueTyped, queueVars
<1> QED  BY <1>1, <1>6, <1>7 DEF ShowsInv, WaiterRight

\* A step that changes no tile and no copy leaves all as it is.
LEMMA StaysRight ==
  ASSUME ShowsInv, frame' = frame, fifo' = fifo, \A u \in Tiles : TileStays(u)
  PROVE  AllRight'
<1>1. ASSUME NEW i \in DOMAIN fifo' PROVE (WaitsFor(i, fifo[i]) /\ RightBox(fifo[i]))'
  <2>1. PICK b : b = fifo[i] /\ b = fifo'[i] /\ i \in DOMAIN fifo
    BY <1>1
  <2>2. WaitsFor(i, b) /\ RightBox(b)
    BY <2>1 DEF ShowsInv, AllRight
  <2>3. b.tile \in Tiles
    <3>1. fifo \in Seq(Boxes)
      BY DEF ShowsInv, Typed3D
    <3>2. b \in Boxes
      BY <2>1, <3>1
    <3> QED  BY <3>2 DEF Boxes
  <2>4. WaitsFor(i, b)' /\ RightBox(b)'
    BY <2>2, <2>3, TileStaysRight
  <2> QED  BY <2>1, <2>4
<1>2. ASSUME NEW u \in Tiles PROVE (FlagsRight(u) /\ Covers(u))'
  <2>1. TileStays(u) /\ FlagsRight(u) /\ Covers(u)
    BY DEF ShowsInv, AllRight
  <2>2. FlagsRight(u)' /\ AskedFor(u)' = AskedFor(u)
    BY <2>1, TileStaysRight
  <2>3. \A c : PixelOf3D(pos[u], c)' = PixelOf3D(pos[u], c)
    BY FrameStays, <2>1 DEF TileStays
  <2>4. ASSUME holds'[u] = "in", NEW c \in AskedFor(u)'
        PROVE  data'[u][c] = PixelOf3D(pos[u], c)' \/ \E i \in DOMAIN fifo' : BringsCell(fifo'[i], u, c)
    <3>1. data[u][c] = PixelOf3D(pos[u], c) \/ \E i \in DOMAIN fifo : BringsCell(fifo[i], u, c)
      BY <2>1, <2>2, <2>4 DEF Covers, TileStays
    <3> QED  BY <2>1, <2>3, <3>1 DEF TileStays
  <2>5. Covers(u)'
    BY <2>4 DEF Covers, BringsCell, InBox
  <2> QED  BY <2>2, <2>5
<1> QED  BY <1>1, <1>2 DEF AllRight

\* A call that takes the tile from the queue: it shows all of it.
LEMMA ShowsEnd ==
  ASSUME ShowsInv, NEW a \in Tiles, CallEnds(a), UNCHANGED <<frame, pos, data, holds>>
  PROVE  AllRight'
<1>1. Typed3D /\ Settled(a) /\ FlagsRight(a)
  BY DEF ShowsInv, AllRight, CallEnds, Complete
<1>2. status'[a] = {} /\ padding'[a] = "none" /\ \A u \in Tiles \ {a} : TileStays(u)
  BY <1>1 DEF CallEnds, Typed3D, TileStays
<1>3. ASSUME holds[a] = "in" PROVE AskedFor(a) = Cells
  <2>1. Remaining(a) = {} \/ (Remaining(a) = {"dummy"} /\ OnePlane)
    BY DEF CallEnds, Complete
  <2>2. ASSUME Remaining(a) = {"dummy"} PROVE Beyond(Clips(pos[a]))
    <3>1. "dummy" \in status[a]
      BY <2>2 DEF Remaining
    <3>2. "dummy" \notin SideSet \cup {"ongoing"}
      BY SidesNamed
    <3> QED  BY <1>1, <1>3, <3>1, <3>2 DEF FlagsRight
  <2> QED  BY <2>1, <2>2, NothingRemains
<1>4. AskedFor(a)' \subseteq Cells
  BY DEF AskedFor, FirstPlane, Within
<1>5. ASSUME holds'[a] = "in", NEW c \in AskedFor(a)' PROVE data'[a][c] = PixelOf3D(pos'[a], c)
  <2>1. c \in AskedFor(a) /\ holds[a] = "in"
    BY <1>3, <1>4, <1>5
  <2>2. data[a][c] = PixelOf3D(pos[a], c)
    BY <1>1, <2>1, SettledShows
  <2> QED  BY <2>2
<1>6. FlagsRight(a)'
  BY <1>2 DEF FlagsRight
<1>7. fifo' = fifo \o <<>> /\ <<>> \in Seq(Boxes) /\ DOMAIN <<>> = {}
  <2>1. fifo \in Seq(Boxes) /\ fifo' = fifo
    BY <1>1 DEF Typed3D, CallEnds
  <2> QED  BY <2>1
<1>8. RightFor(a, <<>>)
  BY <1>5, <1>6, <1>7 DEF RightFor
<1> QED  BY <1>1, <1>2, <1>7, <1>8, NoCopiesLeft, PostedRight

\* What is posted next brings what is asked for next.
LEMMA NextBrings ==
  ASSUME ShowsInv, NEW a \in Tiles, Settled(a), Remaining(a) # {}, NEW R, R = Remaining(a), NEW q \in Points, q = pos[a]
  PROVE  /\ holds[a] = "in" /\ status[a] # {} /\ NextCopies(a, a) # <<>> /\ "ongoing" \notin R /\ R \subseteq SideSet \cup {"dummy"}
         /\ IF Beyond(Clips(q)) THEN R = {"dummy"} /\ Brings3D(NextCopies(a, a), a, q, AskedFor(a), Cells)
            ELSE /\ R \subseteq SideSet /\ NextSide(a) \in R /\ InSequence(q, R \ {NextSide(a)})
                 /\ Brings3D(NextCopies(a, a), a, q, AskedFor(a), Within(q, R \ {NextSide(a)}))
<1>1. FlagsRight(a) /\ Typed3D /\ frame.pad \in Nat
  <2>1. frame.pad \in Pads /\ FlagsRight(a) /\ Typed3D
    BY DEF ShowsInv, AllRight, Typed3D
  <2> QED  BY <2>1, Sizes3D
<1>2. R \subseteq status[a] \ {"ongoing"} /\ padding[a] # "dummy" /\ status[a] # {}
  BY DEF Remaining
<1>3. holds[a] = "in"
  BY <1>1, <1>2 DEF FlagsRight
<1>4. CASE Beyond(Clips(q))
  <2>1. status[a] = {"ongoing", "dummy"} /\ padding[a] = "none"
    BY <1>1, <1>2, <1>3, <1>4 DEF FlagsRight
  <2>2. R = {"dummy"}
    BY <2>1 DEF Remaining
  <2>3. NextCopies(a, a) = <<OtherPlanes(a)>> /\ AskedFor(a) = FirstPlane
    BY <1>4, <2>2 DEF NextCopies, AskedFor
  <2>4. Brings3D(<<OtherPlanes(a)>>, a, q, FirstPlane, Cells)
    BY <1>1, <1>4, BeyondBrings
  <2> QED  BY <1>2, <1>3, <1>4, <2>2, <2>3, <2>4
<1>5. CASE ~Beyond(Clips(q))
  <2>1. R \subseteq SideSet /\ InSequence(q, R) /\ "dummy" \notin R
    <3>1. status[a] \subseteq SideSet \cup {"ongoing"} /\ InSequence(q, R)
      BY <1>1, <1>2, <1>3, <1>5 DEF FlagsRight
    <3>2. "dummy" \notin SideSet
      BY SidesNamed
    <3> QED  BY <1>2, <3>1, <3>2
  <2>2. PICK s : s = NextSide(a)
    OBVIOUS
  <2>3. s \in R /\ \A r \in R : DimOf(r) <= DimOf(s)
    <3>1. R \cap SideSet = R
      BY <2>1
    <3> QED  BY <2>2, <3>1, NextRemains
  <2>4. Brings3D(SideCopies(a, s, Clips(q)), a, q, Within(q, R), Within(q, R \ {s})) /\ SideCopies(a, s, Clips(q)) # <<>>
    BY <1>1, <1>5, <2>1, <2>3, SideBrings
  <2>5. NextCopies(a, a) = SideCopies(a, s, Clips(q)) /\ AskedFor(a) = Within(q, R)
    BY <1>5, <2>1, <2>2 DEF NextCopies, AskedFor
  <2>6. InSequence(q, R \ {s})
    <3>1. ASSUME NEW r \in R \ {s}, NEW f \in Flags(Clips(q)), DimOf(f) < DimOf(r) PROVE f \in R \ {s}
      <4>1. f \in R
        BY <2>1, <3>1 DEF InSequence
      <4>2. DimOf(s) \in Int /\ DimOf(r) \in Int
        BY <2>1, <2>3, SidesOfDims, Sizes3D
      <4>3. f # s
        BY <2>3, <3>1, <4>2
      <4> QED  BY <4>1, <4>3
    <3> QED  BY <2>1, <3>1 DEF InSequence
  <2> QED  BY <1>2, <1>3, <1>5, <2>1, <2>2, <2>3, <2>4, <2>5, <2>6
<1> QED  BY <1>4, <1>5

\* A call that has the next part of the tile padded.
LEMMA ShowsPad ==
  ASSUME ShowsInv, NEW a \in Tiles, CallPads(a), UNCHANGED <<frame, pos, data, holds>>
  PROVE  /\ AllRight'
         /\ fifo' \in Seq(Boxes) /\ dmaIndex' \in [Tiles -> Nat]
         /\ status' \in [Tiles -> SUBSET (SideSet \cup {"ongoing", "dummy"})]
         /\ padding' \in [Tiles -> SideSet \cup {"none", "dummy"}]
<1>1. Typed3D /\ Settled(a) /\ Remaining(a) # {}
  BY DEF ShowsInv, CallPads
<1>2. PICK q, R, copies, got : q \in Points /\ q = pos[a] /\ R = Remaining(a) /\ copies = NextCopies(a, a) /\ got = AskedFor(a)
  <2>1. pos[a] \in Points
    BY <1>1 DEF Typed3D
  <2> QED  BY <2>1
<1>3. PICK s, wanted : s = (IF R = {"dummy"} THEN "dummy" ELSE NextSide(a))
                       /\ wanted = IF Beyond(Clips(q)) THEN Cells ELSE Within(q, R \ {s})
  OBVIOUS
<1>4. /\ holds[a] = "in" /\ status[a] # {} /\ copies # <<>> /\ "ongoing" \notin R /\ R \subseteq SideSet \cup {"dummy"}
      /\ IF Beyond(Clips(q)) THEN R = {"dummy"} ELSE R \subseteq SideSet /\ s \in R /\ InSequence(q, R \ {s})
      /\ Brings3D(copies, a, q, got, wanted)
  <2>1. /\ holds[a] = "in" /\ status[a] # {} /\ copies # <<>> /\ "ongoing" \notin R /\ R \subseteq SideSet \cup {"dummy"}
        /\ IF Beyond(Clips(q)) THEN R = {"dummy"} /\ Brings3D(copies, a, q, got, Cells)
           ELSE /\ R \subseteq SideSet /\ NextSide(a) \in R /\ InSequence(q, R \ {NextSide(a)})
                /\ Brings3D(copies, a, q, got, Within(q, R \ {NextSide(a)}))
    BY <1>1, <1>2, NextBrings
  <2>2. CASE Beyond(Clips(q))
    BY <1>3, <2>1, <2>2
  <2>3. CASE ~Beyond(Clips(q))
    <3>1. R # {"dummy"}
      BY <2>1, <2>3, SidesNamed
    <3>2. s = NextSide(a) /\ wanted = Within(q, R \ {s})
      BY <1>3, <2>3, <3>1
    <3> QED  BY <2>1, <2>3, <3>2
  <2> QED  BY <2>2, <2>3
<1>5. s \in SideSet \cup {"dummy"} /\ s # "ongoing" /\ (Beyond(Clips(q)) => s = "dummy") /\ (s = "dummy" => R = {"dummy"})
  <2>1. "ongoing" \notin SideSet \cup {"dummy"} /\ "dummy" \notin SideSet
    BY SidesNamed
  <2>2. CASE R = {"dummy"}
    BY <1>3, <2>1, <2>2
  <2>3. CASE R # {"dummy"}
    <3>1. ~Beyond(Clips(q)) /\ s \in SideSet
      BY <1>4, <2>3
    <3> QED  BY <2>1, <3>1
  <2> QED  BY <2>2, <2>3
<1>6. copies \in Seq(Boxes)
  BY <1>4 DEF Brings3D
<1>7. /\ status' = [status EXCEPT ![a] = R \cup {"ongoing"}] /\ padding' = [padding EXCEPT ![a] = s]
      /\ fifo' = fifo \o copies /\ dmaIndex' = [dmaIndex EXCEPT ![a] = Len(fifo) + Len(copies)]
  BY <1>2, <1>3, <1>4, <1>6 DEF CallPads
<1>8. /\ status'[a] = R \cup {"ongoing"} /\ padding'[a] = s /\ dmaIndex'[a] = Len(fifo) + Len(copies)
      /\ \A u \in Tiles \ {a} : TileStays(u)
  BY <1>1, <1>7 DEF Typed3D, TileStays
<1>9. pos'[a] = q /\ frame' = frame /\ got \in SUBSET Cells /\ \A c \in got : data'[a][c] = PixelOf3D(q, c)
  <2>1. got \in SUBSET Cells
    BY <1>2 DEF AskedFor, FirstPlane, Within
  <2>2. \A c \in AskedFor(a) : data[a][c] = PixelOf3D(pos[a], c)
    BY <1>1, <1>4, SettledShows
  <2> QED  BY <1>2, <2>1, <2>2
<1>10. Brought(copies, a, q, wanted)
  BY <1>2, <1>4, <1>9, BroughtRight
<1>11. Remaining(a)' = (IF s = "dummy" THEN {} ELSE R \ {s})
  BY <1>4, <1>8 DEF Remaining
<1>12. /\ Clips(pos[a])' = Clips(q) /\ Beyond(Clips(pos[a]))' = Beyond(Clips(q))
       /\ \A S : Within(pos[a], S)' = Within(q, S) /\ InSequence(pos[a], S)' = InSequence(q, S)
  <2>1. /\ Clips(pos[a])' = Clips(q)
        /\ \A S : Within(pos[a], S)' = Within(q, S) /\ InSequence(pos[a], S)' = InSequence(q, S)
    BY <1>9, TilePlaced
  <2>2. Beyond(Clips(pos[a]))' = Beyond(Clips(q))
    BY <2>1 DEF Beyond
  <2> QED  BY <2>1, <2>2
<1>13. AskedFor(a)' = wanted
  <2>1. CASE Beyond(Clips(q))
    BY <1>3, <1>5, <1>11, <1>12, <2>1 DEF AskedFor
  <2>2. CASE ~Beyond(Clips(q))
    <3>1. s # "dummy"
      BY <1>4, <2>2, SidesNamed
    <3> QED  BY <1>3, <1>11, <1>12, <2>2, <3>1 DEF AskedFor
  <2> QED  BY <2>1, <2>2
<1>14. FlagsRight(a)'
  <2>1. CASE Beyond(Clips(q))
    <3>1. status'[a] = {"ongoing", "dummy"} /\ padding'[a] = "dummy"
      BY <1>4, <1>5, <1>8, <2>1
    <3> QED  BY <1>4, <1>12, <2>1, <3>1 DEF FlagsRight
  <2>2. CASE ~Beyond(Clips(q))
    <3>1. s # "dummy" /\ status'[a] \subseteq SideSet \cup {"ongoing"} /\ status'[a] # {}
      BY <1>4, <1>8, <2>2, SidesNamed
    <3>2. InSequence(pos[a], Remaining(a))'
      <4>1. InSequence(q, R \ {s}) /\ Remaining(a)' = R \ {s}
        BY <1>4, <1>11, <2>2, <3>1
      <4> QED  BY <1>12, <4>1 DEF InSequence
    <3> QED  BY <1>4, <1>8, <1>12, <2>2, <3>1, <3>2 DEF FlagsRight
  <2> QED  BY <2>1, <2>2
<1>15. RightFor(a, copies)
  BY <1>8, <1>9, <1>10, <1>13, <1>14 DEF RightFor, Brought
<1>16. AllRight'
  BY <1>1, <1>6, <1>7, <1>8, <1>9, <1>15, NoCopiesLeft, PostedRight
<1>17. fifo' \in Seq(Boxes) /\ dmaIndex' \in [Tiles -> Nat]
  <2>1. fifo \in Seq(Boxes) /\ dmaIndex \in [Tiles -> Nat]
    BY <1>1 DEF Typed3D
  <2> QED  BY <1>6, <1>7, <2>1
<1>18. status' \in [Tiles -> SUBSET (SideSet \cup {"ongoing", "dummy"})] /\ padding' \in [Tiles -> SideSet \cup {"none", "dummy"}]
  BY <1>1, <1>4, <1>5, <1>7 DEF Typed3D
<1> QED  BY <1>16, <1>17, <1>18

\* A call that asks for the oldest tile.
LEMMA ShowsCall ==
  ASSUME ShowsInv, NEW a \in Tiles, Called(a), WaiterRight', waiter' \in Waiting
  PROVE  ShowsInv'
<1>1. UNCHANGED <<queue, frame, pos, data, holds>> /\ Typed3D
  BY DEF Called, ShowsInv
<1>2. CASE CallIdle
  <2>1. AllRight'
    BY <1>1, <1>2, StaysRight DEF CallIdle, TileStays
  <2>2. Typed3D'
    BY <1>1, <1>2 DEF CallIdle, Typed3D, QueueTyped
  <2> QED  BY <2>1, <2>2 DEF ShowsInv
<1>3. CASE CallEnds(a)
  <2>1. AllRight'
    BY <1>1, <1>3, ShowsEnd
  <2>2. Typed3D'
    <3>1. status' \in [Tiles -> SUBSET (SideSet \cup {"ongoing", "dummy"})] /\ padding' \in [Tiles -> SideSet \cup {"none", "dummy"}]
      BY <1>1, <1>3 DEF CallEnds, Typed3D
    <3> QED  BY <1>1, <1>3, <3>1 DEF CallEnds, Typed3D
  <2> QED  BY <2>1, <2>2 DEF ShowsInv
<1>4. CASE CallPads(a)
  <2>1. /\ AllRight'
        /\ fifo' \in Seq(Boxes) /\ dmaIndex' \in [Tiles -> Nat]
        /\ status' \in [Tiles -> SUBSET (SideSet \cup {"ongoing", "dummy"})]
        /\ padding' \in [Tiles -> SideSet \cup {"none", "dummy"}]
    BY <1>1, <1>4, ShowsPad
  <2>2. Typed3D'
    BY <1>1, <1>4, <2>1 DEF CallPads, Typed3D, QueueTyped
  <2> QED  BY <2>1, <2>2 DEF ShowsInv
<1> QED  BY <1>2, <1>3, <1>4 DEF Called

\* What the iDMA does: the oldest copy is carried out.
LEMMA ShowsDma ==
  ASSUME ShowsInv, Dma
  PROVE  ShowsInv'
<1>1. PICK n \in Nat, d \in Boxes :
        /\ n = Len(fifo) /\ n > 0 /\ d = fifo[1] /\ DOMAIN fifo = 1 .. n /\ 1 \in DOMAIN fifo /\ d = Head(fifo)
        /\ DOMAIN fifo' = 1 .. n - 1 /\ \A i \in 1 .. n - 1 : i + 1 \in 1 .. n /\ fifo'[i] = fifo[i + 1]
  <2>1. fifo \in Seq(Boxes) /\ fifo # <<>> /\ fifo' = Tail(fifo)
    BY DEF ShowsInv, Typed3D, Dma
  <2>2. Len(fifo) \in Nat /\ Len(fifo) > 0 /\ fifo[1] \in Boxes /\ DOMAIN fifo = 1 .. Len(fifo) /\ 1 \in DOMAIN fifo
        /\ Head(fifo) = fifo[1]
    BY <2>1
  <2>3. DOMAIN fifo' = 1 .. Len(fifo) - 1 /\ \A i \in 1 .. Len(fifo) - 1 : i + 1 \in 1 .. Len(fifo) /\ fifo'[i] = fifo[i + 1]
    BY <2>1
  <2>4. PICK n \in Nat : n = Len(fifo)
    BY <2>2, Zenon
  <2>5. PICK d \in Boxes : d = fifo[1]
    BY <2>2
  <2> QED  BY <2>2, <2>3, <2>4, <2>5, Zenon
<1>2. /\ UNCHANGED <<frame, pos, status, padding, holds, start, pending, queue, waiter>>
      /\ dmaIndex' = [t \in Tiles |-> Greater(0, dmaIndex[t] - 1)] /\ dmaIndex \in [Tiles -> Nat]
      /\ fifo \in Seq(Boxes) /\ fifo' = Tail(fifo) /\ DOMAIN data = Tiles /\ \A t \in Tiles : DOMAIN data[t] = Cells
  BY DEF Dma, ShowsInv, Typed3D, queueVars
<1>3. ASSUME NEW t
      PROVE  /\ Clips(pos[t])' = Clips(pos[t]) /\ Beyond(Clips(pos[t]))' = Beyond(Clips(pos[t]))
             /\ \A c : PixelOf3D(pos[t], c)' = PixelOf3D(pos[t], c)
             /\ AskedFor(t)' = AskedFor(t) /\ (FlagsRight(t) => FlagsRight(t)')
  <2>1. /\ Clips(pos[t])' = Clips(pos[t])
        /\ \A c : PixelOf3D(pos[t], c)' = PixelOf3D(pos[t], c)
        /\ \A S : Within(pos[t], S)' = Within(pos[t], S) /\ InSequence(pos[t], S)' = InSequence(pos[t], S)
    <3>1. PICK p : p = pos[t] /\ pos'[t] = p
      BY <1>2
    <3> QED  BY <1>2, <3>1, TilePlaced
  <2>2. Remaining(t)' = Remaining(t)
    BY <1>2 DEF Remaining
  <2>3. Beyond(Clips(pos[t]))' = Beyond(Clips(pos[t]))
    BY <2>1 DEF Beyond
  <2>4. AskedFor(t)' = AskedFor(t)
    BY <2>1, <2>2, <2>3 DEF AskedFor, FirstPlane
  <2>5. FlagsRight(t) => FlagsRight(t)'
    BY <1>2, <2>1, <2>2, <2>3 DEF FlagsRight
  <2> QED  BY <2>1, <2>3, <2>4, <2>5
<1>4. ASSUME NEW t \in Tiles
      PROVE  /\ DOMAIN data'[t] = Cells
             /\ \A c \in Cells : ~(d.tile = t /\ InBox(d, c)) => data'[t][c] = data[t][c]
             /\ d.tile = t /\ d.to = "tile" => \A c \in Cells : InBox(d, c) => data'[t][c] = Value(d, c)
             /\ d.to = "frame" => data'[t] = data[t]
  <2>. DEFINE f(u) == [c \in Cells |-> IF InBox(d, c) THEN Value(d, c) ELSE data[u][c]]
  <2>1. data' = IF d.to = "frame" THEN data ELSE [data EXCEPT ![d.tile] = f(d.tile)]
    BY <1>1 DEF Dma
  <2>2. CASE d.to = "frame"
    BY <1>2, <2>1, <2>2
  <2>3. CASE d.to # "frame" /\ d.tile = t
    <3>1. data'[t] = f(t)
      BY <1>2, <2>1, <2>3
    <3> QED  BY <2>3, <3>1
  <2>4. CASE d.to # "frame" /\ d.tile # t
    <3>1. data'[t] = data[t]
      BY <1>2, <2>1, <2>4
    <3> QED  BY <1>2, <2>4, <3>1
  <2> QED  BY <2>2, <2>3, <2>4
<1>5. DOMAIN data' = Tiles
  BY <1>1, <1>2 DEF Dma
<1>6. ASSUME NEW t \in Tiles, d.tile = t, holds[t] = "in", NEW c \in Cells, InBox(d, c)
      PROVE  data'[t][c] = PixelOf3D(pos[t], c)
  <2>1. d.to = "tile" /\ RightSource(d, c)
    BY <1>1, <1>6 DEF ShowsInv, AllRight, RightBox
  <2>2. data'[t][c] = Value(d, c)
    BY <1>4, <1>6, <2>1
  <2>3. PICK s, p : s = SourceOf(d, c) /\ p = PixelOf3D(pos[t], c)
    OBVIOUS
  <2>4. CASE d.from = "frame" /\ s = p
    BY <2>2, <2>3, <2>4 DEF Value
  <2>5. CASE d.from = "temp" /\ p = Const
    BY <2>2, <2>3, <2>5 DEF Value
  <2>6. CASE d.from = "tile" /\ data[t][s] = p
    BY <1>6, <2>2, <2>3, <2>6 DEF Value
  <2> QED  BY <1>6, <2>1, <2>3, <2>4, <2>5, <2>6 DEF RightSource
<1>7. ASSUME NEW t \in Tiles, holds[t] = "in", NEW c \in Cells, data[t][c] = PixelOf3D(pos[t], c)
      PROVE  data'[t][c] = PixelOf3D(pos[t], c)
  BY <1>4, <1>6, <1>7
<1>8. ASSUME NEW i \in DOMAIN fifo'
      PROVE  (WaitsFor(i, fifo[i]) /\ RightBox(fifo[i]))'
  <2>1. i \in 1 .. n - 1 /\ i + 1 \in DOMAIN fifo
    BY <1>1, <1>8
  <2>2. PICK e : e = fifo[i + 1] /\ e = fifo'[i]
    BY <1>1, <2>1
  <2>3. WaitsFor(i + 1, e) /\ RightBox(e) /\ e.tile \in Tiles
    <3>1. e \in Boxes
      BY <1>2, <2>1, <2>2
    <3> QED  BY <2>1, <2>2, <3>1 DEF ShowsInv, AllRight, Boxes
  <2>4. i <= dmaIndex'[e.tile]
    <3>1. PICK m \in Nat : m = dmaIndex[e.tile]
      BY <1>2, <2>3
    <3>2. i + 1 <= m /\ i \in Nat
      BY <2>1, <2>3, <3>1 DEF WaitsFor
    <3>3. i <= Greater(0, m - 1)
      BY <3>2 DEF Greater
    <3> QED  BY <1>2, <2>3, <3>1, <3>3
  <2>5. WaitsFor(i, e)'
    BY <1>2, <2>3, <2>4 DEF WaitsFor
  <2>6. ASSUME holds[e.tile] = "in", NEW c \in Cells, RightSource(e, c) PROVE RightSource(e, c)'
    <3>1. PICK t, s : t \in Tiles /\ t = e.tile /\ s = SourceOf(e, c)
      BY <2>3
    <3>2. SourceOf(e, c)' = s
      BY <3>1 DEF SourceOf
    <3>3. PixelOf3D(pos[t], c)' = PixelOf3D(pos[t], c) /\ PixelOf3D(pos[t], s)' = PixelOf3D(pos[t], s)
      BY <1>3
    <3>4. s \in Cells /\ data[t][s] = PixelOf3D(pos[t], c) /\ PixelOf3D(pos[t], s) = PixelOf3D(pos[t], c)
          => data'[t][s] = PixelOf3D(pos[t], c)
      BY <1>7, <2>6, <3>1
    <3> QED  BY <2>6, <3>1, <3>2, <3>3, <3>4 DEF RightSource
  <2>7. RightBox(e)'
    BY <1>2, <2>3, <2>6 DEF RightBox, InBox
  <2> QED  BY <2>2, <2>5, <2>7
<1>9. ASSUME NEW t \in Tiles PROVE (FlagsRight(t) /\ Covers(t))'
  <2>1. FlagsRight(t) /\ Covers(t)
    BY DEF ShowsInv, AllRight
  <2>2. ASSUME holds[t] = "in", NEW c \in AskedFor(t)
        PROVE  data'[t][c] = PixelOf3D(pos[t], c) \/ \E j \in DOMAIN fifo' : BringsCell(fifo'[j], t, c)
    <3>1. c \in Cells
      BY <2>2 DEF AskedFor, FirstPlane, Within
    <3>2. CASE data[t][c] = PixelOf3D(pos[t], c)
      BY <1>7, <2>2, <3>1, <3>2
    <3>3. ASSUME NEW j \in DOMAIN fifo, BringsCell(fifo[j], t, c)
          PROVE  data'[t][c] = PixelOf3D(pos[t], c) \/ \E i \in DOMAIN fifo' : BringsCell(fifo'[i], t, c)
      <4>1. CASE j = 1
        BY <1>1, <1>6, <2>2, <3>1, <3>3, <4>1 DEF BringsCell
      <4>2. CASE j # 1
        <5>1. PICK i \in 1 .. n - 1 : j = i + 1
          <6>1. j \in 1 .. n
            BY <1>1, <3>3
          <6>2. j - 1 \in 1 .. n - 1 /\ j = (j - 1) + 1
            BY <4>2, <6>1
          <6> QED  BY <6>2
        <5> QED  BY <1>1, <3>3, <5>1
      <4> QED  BY <4>1, <4>2
    <3> QED  BY <2>1, <2>2, <3>2, <3>3 DEF Covers
  <2>3. ASSUME holds'[t] = "in", NEW c \in AskedFor(t)'
        PROVE  data'[t][c] = PixelOf3D(pos[t], c)' \/ \E j \in DOMAIN fifo' : BringsCell(fifo'[j], t, c)
    <3>1. holds[t] = "in" /\ c \in AskedFor(t) /\ PixelOf3D(pos[t], c)' = PixelOf3D(pos[t], c)
      BY <1>2, <1>3, <2>3
    <3> QED  BY <2>2, <3>1
  <2>4. Covers(t)'
    BY <2>3 DEF Covers, BringsCell, InBox
  <2> QED  BY <1>3, <2>1, <2>4
<1>10. Typed3D'
  <2>1. fifo' \in Seq(Boxes)
    <3>1. fifo # <<>>
      BY DEF Dma
    <3> QED  BY <1>2, <3>1
  <2>2. dmaIndex' \in [Tiles -> Nat]
    <3>1. \A x \in Nat : Greater(0, x - 1) \in Nat
      BY DEF Greater
    <3> QED  BY <1>2, <3>1
  <2> QED  BY <1>2, <1>4, <1>5, <2>1, <2>2 DEF ShowsInv, Typed3D, QueueTyped
<1>11. WaiterRight'
  BY <1>2 DEF ShowsInv, WaiterRight, Entry
<1> QED  BY <1>8, <1>9, <1>10, <1>11 DEF ShowsInv, AllRight

\* Steps of a call that waits, and steps that change nothing.
LEMMA ShowsAsBefore ==
  ASSUME ShowsInv, UNCHANGED <<frame, tileVars, queueVars, fifo>>, WaiterRight',
         waiter' \in Waiting
  PROVE  ShowsInv'
<1>1. AllRight'
  BY StaysRight DEF TileStays, tileVars
<1>2. Typed3D'
  BY DEF ShowsInv, Typed3D, QueueTyped, tileVars, queueVars
<1> QED  BY <1>1, <1>2 DEF ShowsInv

\* The oldest tile stays the oldest while a call for it waits.
LEMMA ShowsWait ==
  ASSUME InOrder, ~BufferFails, ShowsInv, [Next3D]_vars3D,
         ~(\E t \in Tiles : Work(t) \/ \E p \in Positions : ReqTileTransferIn3D(t, p) \/ ReqTileTransferOut3D(t, p)),
         ~Dma
  PROVE  ShowsInv'
<1>1. Typed3D /\ WaiterRight /\ waiter \in Waiting /\ Given = {TRUE} /\ NoCall \in Waiting
  BY DEF ShowsInv, Typed3D, Given, NoCall, Waiting
<1>2. ASSUME NEW t \in Tiles, Poll(t) PROVE ShowsInv'
  <2>1. waiter = NoCall /\ waiter' = waiter /\ (pending > 0 => Entry(0) = t) /\ CheckTileReady3D(t, TRUE)
    <3>1. PICK given \in Given : CheckTileReady3D(t, given)
      BY <1>2 DEF Poll
    <3>2. given = TRUE
      BY <1>1, <3>1
    <3> QED  BY <1>2, <3>1, <3>2 DEF Poll, Asks
  <2>2. Called(t)
    BY <1>1, <2>1, InTurn
  <2>3. WaiterRight' /\ waiter' \in Waiting
    BY <1>1, <2>1 DEF WaiterRight
  <2> QED  BY <2>2, <2>3, ShowsCall
<1>3. ASSUME NEW t \in Tiles, NEW sleeps \in BOOLEAN, Wait(t, sleeps) PROVE ShowsInv'
  <2>1. /\ waiter' = [tile |-> t, sleeps |-> sleeps, at |-> "look"] /\ (pending > 0 => Entry(0) = t)
        /\ UNCHANGED <<frame, tileVars, queueVars, fifo>>
    BY <1>3 DEF Wait, Asks
  <2>2. WaiterRight' /\ waiter' \in Waiting
    BY <2>1 DEF WaiterRight, queueVars, Entry, Waiting
  <2> QED  BY <2>1, <2>2, ShowsAsBefore
<1>4. ASSUME WaitForTile3D PROVE ShowsInv'
  <2>1. PICK a \in Tiles : a = waiter.tile
    BY <1>1, <1>4 DEF WaitForTile3D, WaiterRight
  <2>2. CheckTileReady3D(a, TRUE) /\ (pending > 0 => Entry(0) = a)
    <3>1. PICK given \in Given : CheckTileReady3D(a, given)
      BY <1>4, <2>1 DEF WaitForTile3D
    <3>2. given = TRUE
      BY <1>1, <3>1
    <3> QED  BY <1>1, <1>4, <2>1, <3>1, <3>2 DEF WaitForTile3D, WaiterRight
  <2>3. Called(a)
    BY <1>1, <2>2, InTurn
  <2>4. waiter' = (IF status'[a] = {} THEN NoCall
                   ELSE [waiter EXCEPT !.at = IF waiter.sleeps THEN "sleep" ELSE "look"])
    BY <1>4, <2>1 DEF WaitForTile3D
  <2>5. waiter' \in Waiting /\ (waiter' # NoCall => waiter'.tile = a /\ status'[a] # {})
    BY <1>1, <2>1, <2>4 DEF Waiting
  <2>6. WaiterRight'
    <3>1. CASE CallEnds(a)
      <4>1. status'[a] = {}
        BY <1>1, <3>1 DEF CallEnds, Typed3D
      <4> QED  BY <2>5, <4>1 DEF WaiterRight
    <3>2. CASE CallIdle \/ CallPads(a)
      <4>1. UNCHANGED <<start, pending, queue>>
        BY <2>3, <3>2 DEF Called, CallIdle, CallPads
      <4>2. (pending > 0 => Entry(0) = a)'
        BY <2>2, <4>1 DEF Entry
      <4> QED  BY <2>5, <4>2 DEF WaiterRight
    <3> QED  BY <2>3, <3>1, <3>2 DEF Called
  <2> QED  BY <2>3, <2>5, <2>6, ShowsCall
<1>5. ASSUME Sleep \/ WakeUp PROVE ShowsInv'
  <2>1. UNCHANGED <<frame, tileVars, queueVars, fifo>>
    BY <1>5 DEF Sleep, WakeUp
  <2>2. waiter # NoCall /\ waiter' \in Waiting /\ waiter'.tile = waiter.tile
    <3>1. waiter # NoCall
      BY <1>5 DEF Sleep, WakeUp, NoCall
    <3> QED  BY <1>1, <1>5, <3>1 DEF Sleep, WakeUp, Waiting
  <2>3. WaiterRight'
    BY <1>1, <2>1, <2>2 DEF WaiterRight, queueVars, Entry
  <2> QED  BY <2>1, <2>2, <2>3, ShowsAsBefore
<1>6. ASSUME UNCHANGED vars3D PROVE ShowsInv'
  <2>1. UNCHANGED <<frame, tileVars, queueVars, fifo, waiter>>
    BY <1>6 DEF vars3D
  <2>2. WaiterRight'
    BY <1>1, <2>1 DEF WaiterRight, queueVars, Entry
  <2> QED  BY <1>1, <2>1, <2>2, ShowsAsBefore
<1> QED  BY <1>2, <1>3, <1>4, <1>5, <1>6 DEF Next3D

\* At first nothing has been asked for.
LEMMA ShowsInit == ASSUME Init3D PROVE ShowsInv
<1>1. Typed3D
  <2>1. QueueTyped
    BY Tile3DAssumption DEF Init3D, QueueTyped
  <2>2. <<0, 0, 0>> \in Points /\ <<>> \in Seq(Boxes) /\ NoCall \in Waiting
    BY DEF Points, NoCall, Waiting
  <2> QED  BY <2>1, <2>2 DEF Init3D, Typed3D
<1>2. AllRight
  <2>1. \A t \in Tiles : FlagsRight(t) /\ Covers(t)
    BY DEF Init3D, FlagsRight, Covers
  <2>2. DOMAIN fifo = {}
    BY DEF Init3D
  <2> QED  BY <2>1, <2>2 DEF AllRight
<1> QED  BY <1>1, <1>2 DEF ShowsInv, WaiterRight, Init3D

\* A 3D tile that is ready shows its part of the frame and of the padding, if
\* the application asks for the oldest tile only and there is a buffer whenever
\* one is needed.
THEOREM Tiles3DShowTheFrame ==
  ASSUME InOrder, ~BufferFails
  PROVE  Spec3D => []TileShowsFrame
<1>1. Init3D => ShowsInv
  BY ShowsInit
<1>2. ShowsInv /\ [Next3D]_vars3D => ShowsInv'
  <2> SUFFICES ASSUME ShowsInv, [Next3D]_vars3D PROVE ShowsInv'
    OBVIOUS
  <2>1. CASE Dma
    BY <2>1, ShowsDma
  <2>2. CASE \E t \in Tiles : Work(t) \/ \E p \in Positions : ReqTileTransferIn3D(t, p) \/ ReqTileTransferOut3D(t, p)
    BY <2>2, ShowsWork, ShowsRequestIn, ShowsRequestOut
  <2> QED  BY <2>1, <2>2, ShowsWait
<1>3. ShowsInv => TileShowsFrame
  BY ShowsFrame
<1> QED  BY <1>1, <1>2, <1>3, PTL DEF Spec3D
=============================================================================
