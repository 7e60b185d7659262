------------------------------ MODULE BytePool ------------------------------
(***************************************************************************)
(* What a memory bank's allocator promises its callers: a caller is given  *)
(* as many bytes as it asked for, at the alignment it asked for, that      *)
(* nobody else holds, and keeps them until it frees them.                  *)
(***************************************************************************)
EXTENDS Integers

CONSTANTS
  Bytes,          \* addresses of the pool that callers may be given
  Sizes, Aligns   \* what is asked for

VARIABLE held     \* the buffers in callers' hands: where, and how many bytes

BytesOf(h) == h.at .. h.at + h.size - 1

Init == held = {}

Give ==
  \E at \in Bytes, size \in Sizes, align \in Aligns :
    LET h == [at |-> at, size |-> size]
    IN  /\ at % align = 0
        /\ BytesOf(h) \subseteq Bytes
        /\ \A g \in held : BytesOf(g) \intersect BytesOf(h) = {}
        /\ held' = held \union {h}

TakeBack == \E h \in held : held' = held \ {h}

Next == Give \/ TakeBack

Spec == Init /\ [][Next]_held
=============================================================================
