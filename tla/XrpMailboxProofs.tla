-------------------------- MODULE XrpMailboxProofs --------------------------
(***************************************************************************)
(* The mailbox implements RpcChannel, for every number of handshakes the   *)
(* host gives up.                                                          *)
(***************************************************************************)
EXTENDS XrpMailbox, TLAPS

BeforeData == {"sync", "start", "ready", "await", "data"}

\* The host has come through the handshake, and has a command under way.
Linked == hpc \in {"idle", "sent", "waiting"}
Active == hpc \in {"sent", "waiting"}

\* Only a host that is through the handshake raises the interrupt, and only
\* then does the DSP listen to it: the common task never takes the handshake's
\* HOST_TO_DSP for a command.
BootOrder ==
  /\ Linked \/ word = DspToHost => pc \notin BeforeData
  /\ pc \in BeforeData => ~configured
  /\ irq => Linked
  /\ configured => pc = "irq" \/ Linked
  /\ enabled => configured /\ pc \notin Boot
  /\ ready \/ pc \in {"read", "run", "complete", "clear"} => enabled

\* Until it is answered the command stays as the host wrote it, and it is run
\* and answered only from there.
CommandKept ==
  /\ hpc = "idle" => word = Idle
  /\ Active => Answered \/ word = Request(command)
  /\ Active /\ ~Answered /\ pc # "complete" => runs = 0
  /\ pc \in {"run", "complete"} => Active /\ ~Answered /\ flags = word
  /\ pc = "complete" /\ good => runs = 1 /\ command = "common"

MailboxInv == TypeOK /\ BootOrder /\ CommandKept

USE DEF Idle, HostToDsp, DspToHost, Start, ReadyV2, Commands, Words

-----------------------------------------------------------------------------
\* The bound on withdrawn commands is a number.
LEMMA WithdrawnBound == MaxWithdrawn \in Nat
  BY HostAssumption

\* At the start the word is idle and neither side has begun.
LEMMA MailboxInit == Init => MailboxInv
<1> SUFFICES ASSUME Init PROVE MailboxInv
  OBVIOUS
<1>1. TypeOK
  <2>1. irq \in BOOLEAN /\ enabled \in BOOLEAN /\ ready \in BOOLEAN
        /\ good \in BOOLEAN /\ configured \in BOOLEAN
    BY DEF Init
  <2>2. word \in Words /\ command \in Commands /\ flags \in Words
        /\ withdrawn \in 0..MaxWithdrawn /\ runs \in 0..1
    <3>1. word \in Words /\ command \in Commands /\ flags \in Words
      BY DEF Init
    <3>2. withdrawn = 0 /\ runs = 0
      BY DEF Init
    <3>3. 0 \in 0..MaxWithdrawn /\ 0 \in 0..1
      BY WithdrawnBound
    <3> QED
      BY <3>1, <3>2, <3>3
  <2>3. pc \in Points /\ hpc \in HostPoints
    BY DEF Init, Boot, Points, HostPoints
  <2> QED
    BY Zenon, <2>1, <2>2, <2>3 DEF TypeOK
<1>2. BootOrder
  BY DEF Init, BootOrder, BeforeData, Linked
<1>3. CommandKept
  BY DEF Init, CommandKept, Active
<1> QED
  BY <1>1, <1>2, <1>3 DEF MailboxInv

\* What Request and Response make of a command.
LEMMA Flags ==
  ASSUME NEW c \in Commands, NEW ok \in BOOLEAN
  PROVE  /\ Request(c) \in {1, 5}
         /\ Request(c) = 5 \/ c # "common"
         /\ Response(Request(c), ok) \in {3, 7, 11, 15}
         /\ Response(Request(c), ok) = 7 => ok
         /\ ok /\ c = "common" => Response(Request(c), ok) = 7
  BY DEF Request, Response

-----------------------------------------------------------------------------
\* The response to a command that has been run.
LEMMA Answer ==
  ASSUME MailboxInv, pc = "complete"
  PROVE  /\ Active /\ flags = Request(command)
         /\ Response(flags, good) \in {3, 7, 11, 15}
         /\ Response(flags, good) = 7 <=> good
<1>1. command \in Commands /\ good \in BOOLEAN
  BY DEF MailboxInv, TypeOK
<1>2. Active /\ flags = Request(command)
  BY DEF MailboxInv, CommandKept
<1>3. good => command = "common"
  BY DEF MailboxInv, CommandKept
<1> QED
  BY <1>1, <1>2, <1>3, Flags

\* A step of the DSP.
LEMMA DspKeepsInv ==
  ASSUME MailboxInv, Dsp \/ Interrupt
  PROVE  MailboxInv'
<1> USE WithdrawnBound DEF MailboxInv, Go, BeforeData, Linked, Active, Answered, hostVars
<1>1. CASE PollSync
  <2>1. TypeOK'
    BY <1>1 DEF PollSync, TypeOK, Points, Boot
  <2>2. BootOrder'
    BY <1>1 DEF PollSync, BootOrder, Boot
  <2>3. CommandKept'
    BY <1>1 DEF PollSync, CommandKept, BootOrder
  <2> QED BY <2>1, <2>2, <2>3
<1>2. CASE SeeStart
  <2>1. TypeOK'
    BY <1>2 DEF SeeStart, TypeOK, Points, Boot
  <2>2. BootOrder'
    BY <1>2 DEF SeeStart, BootOrder, Boot
  <2>3. CommandKept'
    BY <1>2 DEF SeeStart, CommandKept, BootOrder
  <2> QED BY <2>1, <2>2, <2>3
<1>3. CASE SayReady
  <2>1. TypeOK'
    BY <1>3 DEF SayReady, TypeOK, Points, Boot
  <2>2. BootOrder'
    BY <1>3 DEF SayReady, BootOrder, Boot
  <2>3. CommandKept'
    BY <1>3 DEF SayReady, CommandKept, BootOrder
  <2> QED BY <2>1, <2>2, <2>3
<1>4. CASE AwaitData
  <2>1. TypeOK'
    BY <1>4 DEF AwaitData, TypeOK, Points, Boot
  <2>2. BootOrder'
    BY <1>4 DEF AwaitData, BootOrder, Boot
  <2>3. CommandKept'
    BY <1>4 DEF AwaitData, CommandKept, BootOrder
  <2> QED BY <2>1, <2>2, <2>3
<1>5. CASE ProcessData
  <2>1. TypeOK'
    BY <1>5 DEF ProcessData, TypeOK, Points, Boot
  <2>2. BootOrder'
    BY <1>5 DEF ProcessData, BootOrder, Boot
  <2>3. CommandKept'
    BY <1>5 DEF ProcessData, CommandKept, BootOrder
  <2> QED BY <2>1, <2>2, <2>3
<1>6. CASE WaitIrq
  <2>1. TypeOK'
    <3>1. irq' \in BOOLEAN /\ ready' \in BOOLEAN
      BY Zenon, <1>6 DEF WaitIrq, TypeOK
    <3>2. pc' \in Points
      BY <1>6 DEF WaitIrq, Points, Boot
    <3> QED
      BY <1>6, <3>1, <3>2 DEF WaitIrq, TypeOK
  <2>2. BootOrder'
    BY <1>6 DEF WaitIrq, BootOrder, Boot
  <2>3. CommandKept'
    BY <1>6 DEF WaitIrq, CommandKept, BootOrder
  <2> QED BY <2>1, <2>2, <2>3
<1>7. CASE InitScheduler
  <2>1. TypeOK'
    BY <1>7 DEF InitScheduler, TypeOK, Points, Boot
  <2>2. BootOrder'
    BY <1>7 DEF InitScheduler, BootOrder, Boot
  <2>3. CommandKept'
    BY <1>7 DEF InitScheduler, CommandKept, BootOrder
  <2> QED BY <2>1, <2>2, <2>3
<1>8. CASE Dispatch
  <2>1. TypeOK'
    BY <1>8 DEF Dispatch, TypeOK, Points, Boot
  <2>2. BootOrder'
    BY <1>8 DEF Dispatch, BootOrder, Boot
  <2>3. CommandKept'
    BY <1>8 DEF Dispatch, CommandKept, BootOrder
  <2> QED BY <2>1, <2>2, <2>3
<1>9. CASE Sleep
  <2>1. TypeOK'
    BY <1>9 DEF Sleep, TypeOK, Points, Boot
  <2>2. BootOrder'
    BY <1>9 DEF Sleep, BootOrder, Boot
  <2>3. CommandKept'
    BY <1>9 DEF Sleep, CommandKept, BootOrder
  <2> QED BY <2>1, <2>2, <2>3
<1>10. CASE ReadRequest
  <2>1. TypeOK'
    BY <1>10 DEF ReadRequest, TypeOK, Points, Boot
  <2>2. BootOrder'
    BY <1>10 DEF ReadRequest, BootOrder, Boot
  <2>3. CommandKept'
    BY <1>10, Flags DEF ReadRequest, RequestValid, CommandKept, BootOrder, TypeOK
  <2> QED BY <2>1, <2>2, <2>3
<1>11. CASE RunCommand
  <2>1. TypeOK'
    <3>1. runs' \in 0..1
      BY <1>11 DEF RunCommand, TypeOK, CommandKept
    <3>2. pc' \in Points
      BY <1>11 DEF RunCommand, Points
    <3>3. good' \in BOOLEAN
      BY Zenon, <1>11 DEF RunCommand
    <3> QED
      BY <1>11, <3>1, <3>2, <3>3 DEF RunCommand, TypeOK
  <2>2. BootOrder'
    BY <1>11 DEF RunCommand, BootOrder, Boot
  <2>3. CommandKept'
    BY <1>11 DEF RunCommand, CommandKept, BootOrder
  <2> QED BY <2>1, <2>2, <2>3
<1>12. CASE Complete
  <2>1. TypeOK'
    BY <1>12, Answer DEF Complete, TypeOK, Points, Boot
  <2>2. BootOrder'
    BY <1>12, Answer DEF Complete, BootOrder, Boot
  <2>3. CommandKept'
    BY <1>12, Answer DEF Complete, CommandKept, BootOrder
  <2> QED BY <2>1, <2>2, <2>3
<1>13. CASE Clear
  <2>1. TypeOK'
    <3>1. irq' \in BOOLEAN /\ ready' \in BOOLEAN
      BY Zenon, <1>13 DEF Clear, TypeOK
    <3>2. pc' \in Points
      BY <1>13 DEF Clear, Points
    <3> QED
      BY <1>13, <3>1, <3>2 DEF Clear, TypeOK
  <2>2. BootOrder'
    BY <1>13 DEF Clear, BootOrder, Boot
  <2>3. CommandKept'
    BY <1>13 DEF Clear, CommandKept, BootOrder
  <2> QED BY <2>1, <2>2, <2>3
<1>14. CASE Interrupt
  <2>1. TypeOK'
    <3>1. irq' \in BOOLEAN /\ ready' \in BOOLEAN
      BY Zenon, <1>14 DEF Interrupt
    <3>2. pc' \in Points
      <4>1. pc \in Points /\ "loop" \in Points
        BY DEF TypeOK, Points
      <4>2. pc' = pc \/ pc' = "loop"
        BY <1>14 DEF Interrupt
      <4> QED
        BY <4>1, <4>2
    <3> QED
      BY <1>14, <3>1, <3>2 DEF Interrupt, TypeOK
  <2>2. BootOrder'
    BY <1>14 DEF Interrupt, BootOrder, Boot
  <2>3. CommandKept'
    BY <1>14 DEF Interrupt, CommandKept, BootOrder
  <2> QED BY <2>1, <2>2, <2>3
<1> QED
  BY <1>1, <1>2, <1>3, <1>4, <1>5, <1>6, <1>7, <1>8, <1>9, <1>10, <1>11, <1>12, <1>13, <1>14 DEF Dsp

\* A step of the host.
LEMMA HostKeepsInv ==
  ASSUME MailboxInv, Host
  PROVE  MailboxInv'
<1> USE WithdrawnBound DEF MailboxInv, HostGo, BeforeData, Linked, Active, Answered, dspVars, HostPoints
<1>1. CASE HostStart
  <2>1. TypeOK'
    BY <1>1 DEF HostStart, TypeOK, Points, Boot
  <2>2. BootOrder'
    BY <1>1 DEF HostStart, BootOrder, Boot
  <2>3. CommandKept'
    BY <1>1 DEF HostStart, CommandKept, BootOrder
  <2> QED BY <2>1, <2>2, <2>3
<1>2. CASE HostOffer
  <2>1. TypeOK'
    BY <1>2 DEF HostOffer, TypeOK, Points, Boot
  <2>2. BootOrder'
    BY <1>2 DEF HostOffer, BootOrder, Boot
  <2>3. CommandKept'
    BY <1>2 DEF HostOffer, CommandKept, BootOrder
  <2> QED BY <2>1, <2>2, <2>3
<1>3. CASE HostConfirm
  <2>1. TypeOK'
    BY <1>3 DEF HostConfirm, TypeOK, Points, Boot
  <2>2. BootOrder'
    BY <1>3 DEF HostConfirm, BootOrder, Boot
  <2>3. CommandKept'
    BY <1>3 DEF HostConfirm, CommandKept, BootOrder
  <2> QED BY <2>1, <2>2, <2>3
<1>4. CASE HostWithdraw
  <2>1. TypeOK'
    BY <1>4 DEF HostWithdraw, TypeOK, Points, Boot
  <2>2. BootOrder'
    BY <1>4 DEF HostWithdraw, BootOrder, Boot
  <2>3. CommandKept'
    BY <1>4 DEF HostWithdraw, CommandKept, BootOrder
  <2> QED BY <2>1, <2>2, <2>3
<1>5. CASE HostSend
  <2>1. TypeOK'
    BY <1>5, Flags DEF HostSend, TypeOK, Points, Boot
  <2>2. BootOrder'
    BY <1>5, Flags DEF HostSend, BootOrder, Boot
  <2>3. CommandKept'
    BY <1>5, Flags DEF HostSend, CommandKept, BootOrder
  <2> QED BY <2>1, <2>2, <2>3
<1>6. CASE HostKick
  <2>1. TypeOK'
    BY <1>6 DEF HostKick, TypeOK, Points, Boot
  <2>2. BootOrder'
    BY <1>6 DEF HostKick, BootOrder, Boot
  <2>3. CommandKept'
    BY <1>6 DEF HostKick, CommandKept, BootOrder
  <2> QED BY <2>1, <2>2, <2>3
<1>7. CASE HostKickAgain
  <2>1. TypeOK'
    BY <1>7 DEF HostKickAgain, TypeOK, Points, Boot
  <2>2. BootOrder'
    BY <1>7 DEF HostKickAgain, BootOrder, Boot
  <2>3. CommandKept'
    BY <1>7 DEF HostKickAgain, CommandKept, BootOrder
  <2> QED BY <2>1, <2>2, <2>3
<1>8. CASE HostTake
  <2>1. TypeOK'
    BY <1>8 DEF HostTake, TypeOK, Points, Boot
  <2>2. BootOrder'
    BY <1>8 DEF HostTake, BootOrder, Boot
  <2>3. CommandKept'
    BY <1>8 DEF HostTake, CommandKept, BootOrder
  <2> QED BY <2>1, <2>2, <2>3
<1> QED
  BY <1>1, <1>2, <1>3, <1>4, <1>5, <1>6, <1>7, <1>8 DEF Host

-----------------------------------------------------------------------------
(* The theorems. *)

\* Where host and DSP are in a handshake or a command, what the word holds: the
\* inductive invariant that the theorems below rest on.
THEOREM MailboxInvariant == Spec => []MailboxInv
<1>1. MailboxInv /\ [Next]_vars => MailboxInv'
  <2> SUFFICES ASSUME MailboxInv, [Next]_vars PROVE MailboxInv'
    OBVIOUS
  <2>1. CASE Next
    BY <2>1, DspKeepsInv, HostKeepsInv DEF Next
  <2>2. CASE UNCHANGED vars
    <3> USE <2>2 DEF vars, dspVars, hostVars, MailboxInv
    <3>1. TypeOK'
      BY DEF TypeOK
    <3>2. BootOrder'
      BY DEF BootOrder, Linked
    <3>3. CommandKept'
      BY DEF CommandKept, Active, Answered
    <3> QED
      BY <3>1, <3>2, <3>3
  <2> QED
    BY <2>1, <2>2
<1> QED
  BY <1>1, MailboxInit, PTL DEF Spec

\* The mailbox's variables keep their types.
THEOREM MailboxTyped == Spec => []TypeOK
<1>1. MailboxInv => TypeOK
  BY DEF MailboxInv
<1> QED
  BY <1>1, MailboxInvariant, PTL

-----------------------------------------------------------------------------
(* The handshake. *)

\* What makes it inductive: the DSP's answer, or a response that looks like it,
\* is not there before the data have been processed.
HandshakeKept == Linked \/ word = DspToHost => configured

\* Every step of either side keeps the handshake's order.
LEMMA HandshakeStep == MailboxInv /\ HandshakeKept /\ [Next]_vars => HandshakeKept'
<1> SUFFICES ASSUME MailboxInv, HandshakeKept, [Next]_vars PROVE HandshakeKept'
  OBVIOUS
<1> USE DEF HandshakeKept, Linked, Go, HostGo, dspVars, hostVars
<1>1. CASE Complete
  <2>1. Linked
    BY <1>1, Answer DEF Active, Complete
  <2> QED
    BY <1>1, <2>1 DEF Complete
<1>2. CASE ProcessData
  BY <1>2 DEF ProcessData
<1>3. CASE PollSync \/ SeeStart \/ AwaitData \/ WaitIrq \/ InitScheduler \/ Dispatch
           \/ Sleep \/ ReadRequest \/ RunCommand \/ Clear \/ Interrupt \/ UNCHANGED vars
  BY <1>3 DEF PollSync, SeeStart, AwaitData, WaitIrq, InitScheduler, Dispatch, Sleep,
              ReadRequest, RunCommand, Clear, Interrupt, vars
<1>4. CASE SayReady
  BY <1>4 DEF SayReady
<1>5. CASE Host
  <2>1. UNCHANGED <<configured, pc>>
    BY <1>5 DEF Host, HostStart, HostOffer, HostConfirm, HostWithdraw, HostSend, HostKick,
                HostKickAgain, HostTake
  <2>2. Linked' \/ word' = DspToHost => Linked \/ word = DspToHost
    BY <1>5 DEF Host, HostStart, HostOffer, HostConfirm, HostWithdraw, HostSend, HostKick,
                HostKickAgain, HostTake, Request
  <2> QED
    BY <2>1, <2>2
<1> QED
  BY <1>1, <1>2, <1>3, <1>4, <1>5 DEF Next, Dsp

\* A host that has come through the handshake talks to a DSP that has its data,
\* however often it gave the handshake up before.
THEOREM HostFindsTheDsp == Spec => []HostFindsDsp
<1>1. Init => HandshakeKept
  BY DEF Init, HandshakeKept, Linked
<1>2. HandshakeKept => HostFindsDsp
  BY DEF HandshakeKept, HostFindsDsp, Linked
<1> QED
  BY <1>1, <1>2, HandshakeStep, MailboxInvariant, PTL DEF Spec

-----------------------------------------------------------------------------
(* The refinement. *)

\* What leaves word, runs and the host's activity alone is a stutter; so is
\* whatever happens while no command is under way.
LEMMA Stutter ==
  ASSUME runs' = runs, Active' <=> Active, Active => word' = word
  PROVE  UNCHANGED Rpc!vars
<1>1. ChannelState' = ChannelState
  BY DEF ChannelState, Active, Answered
<1>2. GoodAnswer' = GoodAnswer
  BY DEF GoodAnswer, Active
<1> QED
  BY <1>1, <1>2 DEF Rpc!vars

\* Every step of the mailbox is a step of the channel or a stutter.
LEMMA RefinedStep ==
  ASSUME MailboxInv, Next
  PROVE  [Rpc!Next]_(Rpc!vars)
<1>1. CASE HostSend
  <2>1. ChannelState = "free" /\ GoodAnswer = FALSE
    BY <1>1 DEF HostSend, HostGo, ChannelState, GoodAnswer
  <2>2. command' \in Commands /\ word' = Request(command') /\ hpc' = "sent" /\ runs' = 0
    BY <1>1 DEF HostSend, HostGo
  <2>3. word' \in {1, 5}
    BY <2>2, Flags
  <2>4. ChannelState' = "asked" /\ GoodAnswer' = FALSE
    BY <2>2, <2>3 DEF ChannelState, GoodAnswer, Answered
  <2> QED
    BY <2>1, <2>2, <2>4 DEF Rpc!Next, Rpc!Ask
<1>2. CASE RunCommand
  <2>1. Active /\ ~Answered /\ runs = 0 /\ word' = word /\ hpc' = hpc
    BY <1>2 DEF RunCommand, Go, hostVars, MailboxInv, CommandKept
  <2>2. CASE command = "common"
    <3>1. runs' = 1
      BY <1>2, <2>1, <2>2 DEF RunCommand
    <3>2. ChannelState = "asked" /\ ChannelState' = "asked" /\ GoodAnswer' = GoodAnswer
      BY <2>1 DEF ChannelState, GoodAnswer, Active, Answered
    <3> QED
      BY <2>1, <3>1, <3>2 DEF Rpc!Next, Rpc!Run
  <2>3. CASE command # "common"
    <3>1. runs' = runs
      BY <1>2, <2>3 DEF RunCommand
    <3> QED
      BY <2>1, <3>1, Stutter DEF Active
  <2> QED
    BY <2>2, <2>3
<1>3. CASE Complete
  <2>1. pc = "complete" /\ word' = Response(flags, good) /\ hpc' = hpc /\ runs' = runs
    BY <1>3 DEF Complete, Go, hostVars
  <2>2. Active /\ ~Answered /\ (good => runs = 1)
    BY <2>1 DEF MailboxInv, CommandKept
  <2>3. word' \in {3, 7, 11, 15} /\ (word' = 7 => runs = 1)
    BY <2>1, <2>2, Answer
  <2>4. ChannelState = "asked"
    BY <2>2 DEF ChannelState, Active
  <2>5. ChannelState' = "answered" /\ GoodAnswer' \in BOOLEAN
    BY <2>1, <2>2, <2>3 DEF ChannelState, GoodAnswer, Active, Answered
  <2>6. GoodAnswer' => runs = 1
    BY <2>3 DEF GoodAnswer
  <2> QED
    BY <2>1, <2>4, <2>5, <2>6 DEF Rpc!Next, Rpc!Answer
<1>4. CASE HostTake
  <2>1. ChannelState = "answered" /\ ChannelState' = "free" /\ GoodAnswer' = FALSE /\ runs' = runs
    BY <1>4 DEF HostTake, HostGo, ChannelState, GoodAnswer, dspVars
  <2> QED
    BY <2>1 DEF Rpc!Next, Rpc!Take
\* The boot writes the word, but then no command is under way.
<1>5. CASE SayReady \/ ProcessData
  <2>1. ~Active /\ hpc' = hpc /\ runs' = runs
    BY <1>5 DEF SayReady, ProcessData, Go, hostVars, MailboxInv, BootOrder, BeforeData,
       Linked, Active
  <2> QED
    BY <2>1, Stutter DEF Active
<1>6. CASE HostStart \/ HostOffer \/ HostConfirm \/ HostWithdraw
  <2>1. ~Active /\ ~Active' /\ runs' = runs
    BY <1>6 DEF HostStart, HostOffer, HostConfirm, HostWithdraw, HostGo, Active, dspVars
  <2> QED
    BY <2>1, Stutter
<1>7. CASE HostKick \/ HostKickAgain
  <2>1. Active /\ Active' /\ word' = word /\ runs' = runs
    BY <1>7 DEF HostKick, HostKickAgain, HostGo, Active, dspVars
  <2> QED
    BY <2>1, Stutter
<1>8. CASE \/ PollSync \/ SeeStart \/ AwaitData \/ WaitIrq \/ InitScheduler \/ Dispatch
           \/ Sleep \/ ReadRequest \/ Clear \/ Interrupt
  <2>1. word' = word /\ hpc' = hpc /\ runs' = runs
    BY <1>8 DEF PollSync, SeeStart, AwaitData, WaitIrq, InitScheduler, Dispatch, Sleep,
       ReadRequest, Clear, Interrupt, hostVars
  <2> QED
    BY <2>1, Stutter DEF Active
<1> QED
  BY <1>1, <1>2, <1>3, <1>4, <1>5, <1>6, <1>7, <1>8 DEF Next, Dsp, Host

\* A command is run at most once and answered once, well only if it was run.
THEOREM MailboxImplementsRpc == Spec => ImplementsRpc
<1>1. Init => Rpc!Init
  BY DEF Init, Rpc!Init, ChannelState, GoodAnswer
<1>2. MailboxInv /\ [Next]_vars => [Rpc!Next]_(Rpc!vars)
  <2>1. CASE Next
    BY <2>1, RefinedStep
  <2>2. CASE UNCHANGED vars
    BY <2>2, Stutter DEF vars, dspVars, hostVars, Active
  <2> QED
    BY <2>1, <2>2
<1> QED
  BY <1>1, <1>2, MailboxInvariant, PTL DEF Spec, ImplementsRpc, Rpc!Spec
=============================================================================
