---------------------------- MODULE TileGeometry ----------------------------
(***************************************************************************)
(* How the requests of tileManager.c cut a tile to its frame, in one       *)
(* dimension; they do the same in each.                                    *)
(***************************************************************************)
EXTENDS Integers

Lesser(a, b) == IF a < b THEN a ELSE b
Greater(a, b) == IF a > b THEN a ELSE b
Clamp(v, lo, hi) == Greater(lo, Lesser(v, hi))

\* Mutation: what lies before the frame is one pixel too few.
BeforeShort(f, p) == Greater(0, -p - f - 1)

Before(f, p) == Greater(0, -p - f)

\* Mutation: the pixel behind the frame is taken for its last.
LastBeyond(l, n, p) == Lesser(l, n + p)

LastInFrame(l, n, p) == Lesser(l, n - 1 + p)

\* first .. last, cut to the n pixels of a frame and its pads of p pixels:
\* what is left, and how much of it lies before and behind.
Clip(first, last, n, p) ==
  LET f == Lesser(first, n + p)
      l == Greater(last, -p - 1)
  IN  [first |-> Greater(f, -p), before |-> Before(f, p),
       last |-> LastInFrame(l, n, p), after |-> Greater(0, l - (n - 1 + p))]

Nothing(k) == k.last < k.first
=============================================================================
