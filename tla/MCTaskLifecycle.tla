--------------------------- MODULE MCTaskLifecycle --------------------------
(***************************************************************************)
(* TaskLifecycle for TLC: nothing tells one interrupt from another.        *)
(***************************************************************************)
EXTENDS TaskLifecycle, TLC

CONSTANTS isp, vipre

IrqSymmetry == Permutations(Irqs)
=============================================================================
