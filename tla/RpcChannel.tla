----------------------------- MODULE RpcChannel -----------------------------
(***************************************************************************)
(* What the command channel promises the host: a command is asked, run at  *)
(* most once, and answered; a good answer means that it was run.  Then the *)
(* host takes the answer and may ask again.                                *)
(***************************************************************************)
EXTENDS Integers

VARIABLES
  state,          \* of the channel
  runs,           \* how often a handler has run for the command asked last
  good            \* the answer, while there is one, tells of success

vars == <<state, runs, good>>

Init == state = "free" /\ runs = 0 /\ good = FALSE

Ask ==
  /\ state = "free"
  /\ state' = "asked" /\ runs' = 0
  /\ UNCHANGED good

Run ==
  /\ state = "asked" /\ runs = 0
  /\ runs' = 1
  /\ UNCHANGED <<state, good>>

Answer ==
  /\ state = "asked"
  /\ state' = "answered"
  /\ good' \in BOOLEAN /\ (good' => runs = 1)
  /\ UNCHANGED runs

Take ==
  /\ state = "answered"
  /\ state' = "free" /\ good' = FALSE
  /\ UNCHANGED runs

Next == Ask \/ Run \/ Answer \/ Take

Spec == Init /\ [][Next]_vars
=============================================================================
