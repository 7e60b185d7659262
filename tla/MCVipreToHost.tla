---------------------------- MODULE MCVipreToHost ---------------------------
(***************************************************************************)
(* VipreToHost for TLC, up to the first overflow interrupt that outruns    *)
(* the task: the properties of the handler say nothing of what follows.    *)
(***************************************************************************)
EXTENDS VipreToHost

NotOutrun == ~outrun
=============================================================================
