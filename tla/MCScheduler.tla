---------------------------- MODULE MCScheduler -----------------------------
(***************************************************************************)
(* Scheduler for TLC, with the look-up table that Lowest stands for.       *)
(***************************************************************************)
EXTENDS Scheduler, FiniteSetsExt

\* The literal table of ps_sched.c, 16 entries in a row.
task_ummap ==
  LET row(n) == <<n, 0, 1, 0, 2, 0, 1, 0, 3, 0, 1, 0, 2, 0, 1, 0>>
  IN  row(0) \o row(4) \o row(5) \o row(4) \o row(6) \o row(4) \o row(5) \o row(4) \o
      row(7) \o row(4) \o row(5) \o row(4) \o row(6) \o row(4) \o row(5) \o row(4)

CharOf(S) == MapThenSumSet(LAMBDA b : 2^b, S)

\* Every non-zero char is mapped to its lowest bit.
ASSUME UmmapFindsLowestBit ==
  \A S \in SUBSET Bits \ {{}} : task_ummap[CharOf(S) + 1] = Lowest(S)
=============================================================================
