----------------------------- MODULE XrpMailbox -----------------------------
(***************************************************************************)
(* The command channel between the host and the DSP: one word of shared    *)
(* memory, the interrupt of the device, and the common task of             *)
(* core/ps_sched.c, which serves them (xrp-dsp/xrp_dsp.c,                  *)
(* core/ps_xrp_wrapper.c, core/ps_sched_main.c).                           *)
(*                                                                         *)
(* The word serves the handshake at boot (xrp_dsp_sync_v2.sync) and the    *)
(* commands afterwards (xrp_dsp_cmd.flags); a value of one is read as a    *)
(* value of the other by the same test, xrp_request_valid.  Every access   *)
(* of the DSP to it is a step.  The host is external: it is known by what  *)
(* the DSP expects of it.  Tasks other than the common task and the idle   *)
(* task are left out, as if the host had not created any.                  *)
(***************************************************************************)
EXTENDS Integers

CONSTANTS
  Patient,        \* the host asks only when the DSP is asleep again
  MaxWithdrawn    \* bound: handshakes the host gives up

ASSUME HostAssumption == Patient \in BOOLEAN /\ MaxWithdrawn \in Nat

VARIABLES
  word,           \* xrp_dsp_sync_v2.sync and xrp_dsp_cmd.flags
  command,        \* what the command asks for: nsid and in_data
  irq,            \* the device's interrupt is raised
  enabled,        \* and enabled, with the common task's trigger installed
  ready,          \* the common task is ready
  pc,             \* where the DSP is
  flags, good,    \* local variables of process_command: flags, and status
  configured,     \* the host's sync data have been processed
  hpc,            \* where the host is
  withdrawn,      \* handshakes given up
  runs            \* history: how often a handler has run for the command

dspVars == <<enabled, ready, pc, flags, good, configured, runs>>
hostVars == <<command, hpc, withdrawn>>
vars == <<word, irq, dspVars, hostVars>>

\* The values of xrp_kernel_dsp_interface.h.
Idle == 0
HostToDsp == 1
DspToHost == 3
Start == 257            \* 0x101
ReadyV2 == 771          \* 0x303
\* XRP_DSP_CMD_FLAG_REQUEST_VALID, and RESPONSE_VALID, REQUEST_NSID and
\* RESPONSE_DELIVERY_FAIL with it.
Request(c) == IF c = "default" THEN 1 ELSE 5
Response(f, ok) == f + 2 + (IF ok THEN 0 ELSE 8)

\* Mutation: a request that has its response is one.
RequestOnce(f) == f % 2 = 1

\* xrp_request_valid: the first flag is set and the second is not.
RequestValid(f) == f % 4 = 1

\* The namespace of the common task, one that is not registered, none at all.
Commands == {"common", "unknown", "default"}
Boot == {"sync", "start", "ready", "await", "data", "irq", "init"}
Points == Boot \union {"hung", "loop", "dozing", "asleep", "read", "run", "complete", "clear"}
HostPoints == {"off", "starting", "offered", "idle", "sent", "waiting"}
Words == {Idle, HostToDsp, DspToHost, Start, ReadyV2, 5, 7, 11, 15}

TypeOK ==
  /\ word \in Words /\ command \in Commands
  /\ irq \in BOOLEAN /\ enabled \in BOOLEAN /\ ready \in BOOLEAN
  /\ pc \in Points /\ flags \in Words /\ good \in BOOLEAN
  /\ configured \in BOOLEAN
  /\ hpc \in HostPoints /\ withdrawn \in 0..MaxWithdrawn
  /\ runs \in 0..1

Init ==
  /\ word = Idle /\ command = "common"
  /\ irq = FALSE /\ enabled = FALSE /\ ready = FALSE
  /\ pc = "sync" /\ flags = 0 /\ good = FALSE
  /\ configured = FALSE
  /\ hpc = "off" /\ withdrawn = 0
  /\ runs = 0

-----------------------------------------------------------------------------
(* The DSP's boot: ps_wait_host_sync, do_handshake. *)

Go(from, to) == pc = from /\ pc' = to

\* xrp_device_sync sees a request; one that is no handshake ends in abort().
PollSync ==
  /\ RequestValid(word)
  /\ Go("sync", IF word = Start THEN "start" ELSE "hung")
  /\ UNCHANGED <<word, irq, enabled, ready, flags, good, configured, runs, hostVars>>

\* do_handshake reads the word again until it is XRP_DSP_SYNC_START ...
SeeStart ==
  /\ word = Start
  /\ Go("start", "ready")
  /\ UNCHANGED <<word, irq, enabled, ready, flags, good, configured, runs, hostVars>>

\* ... and answers.
SayReady ==
  /\ Go("ready", "await")
  /\ word' = ReadyV2
  /\ UNCHANGED <<irq, enabled, ready, flags, good, configured, runs, hostVars>>

\* A word that is neither the answer nor the host's ends the handshake, and
\* xrp_device_sync reports success all the same.
AwaitData ==
  /\ word # ReadyV2
  /\ Go("await", IF word = HostToDsp THEN "data" ELSE "init")
  /\ UNCHANGED <<word, irq, enabled, ready, flags, good, configured, runs, hostVars>>

\* Mutation: the host is answered before its data have been processed.
AnswerFirst ==
  /\ Go("data", "irq")
  /\ word' = DspToHost
  /\ UNCHANGED <<irq, enabled, ready, flags, good, configured, runs, hostVars>>

\* process_sync_data
ProcessData ==
  /\ Go("data", "irq")
  /\ word' = DspToHost /\ configured' = TRUE
  /\ UNCHANGED <<irq, enabled, ready, flags, good, runs, hostVars>>

\* xrp_hw_wait_device_irq; xrp_irq_handler clears the interrupt.
WaitIrq ==
  /\ irq
  /\ Go("irq", "init")
  /\ irq' = FALSE
  /\ UNCHANGED <<word, enabled, ready, flags, good, configured, runs, hostVars>>

\* init_scheduler and ps_task_enable_common_task.  Without sync data the number
\* of the device's interrupt is not known.
InitScheduler ==
  /\ Go("init", "loop")
  /\ enabled' = configured
  /\ UNCHANGED <<word, irq, ready, flags, good, configured, runs, hostVars>>

-----------------------------------------------------------------------------
(* The DSP's loop: the idle task and the common task of ps_task_shedule. *)

Dispatch ==
  /\ Go("loop", IF ready THEN "read" ELSE "dozing")
  /\ UNCHANGED <<word, irq, enabled, ready, flags, good, configured, runs, hostVars>>

\* XT_WAITI: whatever became ready since the dispatch waits too.
Sleep ==
  /\ Go("dozing", "asleep")
  /\ UNCHANGED <<word, irq, enabled, ready, flags, good, configured, runs, hostVars>>

\* xrp_irq_handler by way of ps_task_trigger_intr_handler.
Interrupt ==
  /\ irq /\ enabled
  /\ irq' = FALSE /\ ready' = TRUE
  /\ pc' = IF pc = "asleep" THEN "loop" ELSE pc
  /\ UNCHANGED <<word, enabled, flags, good, configured, runs, hostVars>>

\* Mutation: the common task takes the interrupt's word for it.
ReadUnchecked ==
  /\ flags' = word
  /\ Go("read", "run")
  /\ UNCHANGED <<word, irq, enabled, ready, good, configured, runs, hostVars>>

\* xrp_device_command_dispatch
ReadRequest ==
  /\ flags' = word
  /\ Go("read", IF RequestValid(word) /\ word # Start THEN "run" ELSE "clear")
  /\ UNCHANGED <<word, irq, enabled, ready, good, configured, runs, hostVars>>

\* process_command as far as the handler's return.  A command without a
\* namespace gets the weak xrp_run_command, which fails.
RunCommand ==
  /\ Go("run", "complete")
  /\ IF command = "common" THEN runs' = runs + 1 /\ good' \in BOOLEAN
                           ELSE good' = FALSE /\ UNCHANGED runs
  /\ UNCHANGED <<word, irq, enabled, ready, flags, configured, hostVars>>

\* Mutation: the failures skip the response.
CompleteSuccess ==
  /\ Go("complete", "clear")
  /\ word' = IF good THEN Response(flags, TRUE) ELSE word
  /\ UNCHANGED <<irq, enabled, ready, flags, good, configured, runs, hostVars>>

\* complete_request
Complete ==
  /\ Go("complete", "clear")
  /\ word' = Response(flags, good)
  /\ UNCHANGED <<irq, enabled, ready, flags, good, configured, runs, hostVars>>

\* clr_ready_task; the common task has no task_empty_check.
Clear ==
  /\ Go("clear", "loop")
  /\ ready' = FALSE
  /\ UNCHANGED <<word, irq, enabled, flags, good, configured, runs, hostVars>>

Dsp == \/ PollSync \/ SeeStart \/ SayReady \/ AwaitData \/ ProcessData \/ WaitIrq
       \/ InitScheduler \/ Dispatch \/ Sleep \/ ReadRequest \/ RunCommand \/ Complete
       \/ Clear

-----------------------------------------------------------------------------
(* The host: its half of the handshake, then one command at a time. *)

HostGo(from, to) == hpc = from /\ hpc' = to

HostStart ==
  /\ HostGo("off", "starting")
  /\ word' = Start
  /\ UNCHANGED <<irq, dspVars, command, withdrawn>>

HostOffer ==
  /\ word = ReadyV2
  /\ HostGo("starting", "offered")
  /\ word' = HostToDsp
  /\ UNCHANGED <<irq, dspVars, command, withdrawn>>

HostConfirm ==
  /\ word = DspToHost
  /\ HostGo("offered", "idle")
  /\ word' = Idle /\ irq' = TRUE
  /\ UNCHANGED <<dspVars, command, withdrawn>>

\* The host gives the handshake up and may start over.
HostWithdraw ==
  /\ hpc \in {"starting", "offered"} /\ withdrawn < MaxWithdrawn
  /\ hpc' = "off" /\ withdrawn' = withdrawn + 1
  /\ word' = Idle
  /\ UNCHANGED <<irq, dspVars, command>>

\* The handshake's interrupt has been taken, so the command's is one of its own.
HostSend ==
  /\ pc # "irq"
  /\ Patient => pc = "asleep"
  /\ HostGo("idle", "sent")
  /\ command' \in Commands /\ word' = Request(command')
  /\ runs' = 0
  /\ UNCHANGED <<irq, enabled, ready, pc, flags, good, configured, withdrawn>>

HostKick ==
  /\ HostGo("sent", "waiting")
  /\ irq' = TRUE
  /\ UNCHANGED <<word, dspVars, command, withdrawn>>

\* The interrupt comes twice.
HostKickAgain ==
  /\ HostGo("waiting", "waiting")
  /\ irq' = TRUE
  /\ UNCHANGED <<word, dspVars, command, withdrawn>>

\* A response is there.
Answered == word % 4 = 3

HostTake ==
  /\ Answered
  /\ HostGo("waiting", "idle")
  /\ word' = Idle
  /\ UNCHANGED <<irq, dspVars, command, withdrawn>>

Host == \/ HostStart \/ HostOffer \/ HostConfirm \/ HostWithdraw \/ HostSend
        \/ HostKick \/ HostKickAgain \/ HostTake

-----------------------------------------------------------------------------
Next == Dsp \/ Interrupt \/ Host

Spec == Init /\ [][Next]_vars

\* The DSP runs and takes the interrupts it has enabled; the host goes through
\* the handshake, rings for what it asked and takes the answer.
Fairness ==
  /\ WF_vars(Dsp) /\ WF_vars(Interrupt)
  /\ WF_vars(HostStart \/ HostOffer \/ HostConfirm) /\ WF_vars(HostKick)
  /\ WF_vars(HostTake)

FairSpec == Spec /\ Fairness

-----------------------------------------------------------------------------
(* Properties. *)

\* The host's view of the channel.
ChannelState == IF hpc \notin {"sent", "waiting"} THEN "free"
                ELSE IF Answered THEN "answered" ELSE "asked"
GoodAnswer == hpc \in {"sent", "waiting"} /\ word = 7

Rpc == INSTANCE RpcChannel WITH state <- ChannelState, runs <- runs, good <- GoodAnswer

\* The channel keeps RpcChannel's promise from boot on, whatever the host
\* withdraws, however fast it asks and however often an interrupt comes: a
\* command is run at most once, answered once and well only if it was run.
ImplementsRpc == Rpc!Spec

\* Every command the host sends is answered (xrp_run_command_sync).
CommandAnswered == hpc = "sent" ~> hpc = "idle"

\* A host that has come through the handshake, however often it gave up before,
\* talks to a DSP that has processed its data: the two never end the handshake
\* at different attempts, although the DSP goes on after a broken one as if it
\* had been completed (do_handshake returns, xrp_device_sync succeeds).
HostFindsDsp == hpc \in {"idle", "sent", "waiting"} => configured
=============================================================================
