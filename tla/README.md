# A TLA+ model of the CSI DSP firmware

The firmware runs on a DSP beside the ISP of a camera pipeline. The host
creates *tasks* over a shared-memory command channel; a hardware task takes
lines of a frame from a front end (ISP or VIPRE), runs an algorithm on them and
hands the result to a back end (post-ISP or buffers of the host). One
cooperative scheduler dispatches the tasks; interrupt handlers make them ready
and move the FIFOs' producers. Algorithms move their data with a library of image
tiles, which clips, copies and pads through the DSP's DMA engine.

All source paths below are relative to the firmware's own `src/` directory; `TM/`
stands for `driver/TileManager/`.

## The system's parts

| part | code | state | operations | what makes it correct |
|---|---|---|---|---|
| line FIFO | `driver/common/isp_common.*` | two FIFO control blocks ("ping-pong"), producer's and customer's side, status | push, pop, change of sides, reset | lines come out in order and from where they were written; two frames share one buffer |
| ISP front end | `driver/isp/isp_handler.c`, `isp_hw.c` | the handler above; interrupt bits | interrupt, next entry, pop, recovery | overruns are noticed and recovered from, the FIFO stays in step with the hardware |
| post-ISP back end | `driver/isp/post_isp_*.c` | a second FIFO handler, lines triggered | push and trigger, interrupt, recovery | what is read is the oldest entry, and the frame that goes out is not shifted |
| VIPRE front end | `driver/vipre/*` | FIFO of whole frames; marks in a register | two interrupts, next entry, pop | no frame is written over while it waits or is in use, none is lost |
| software back end | `core/ps_front_end_wrapper.c` | ring of the host's buffers, report | next entry, start, report, assign | a buffer is the task's or the host's |
| scheduler | `core/ps_sched.c` | ready table of two levels | set, clear, dispatch, idle | highest priority first, no work is lost |
| task life cycle | `core/ps_sched.c` | `task_table`, `g_scheduler`, interrupt vectors | create, configure, start, stop, free | what runs is configured and hooked |
| XRP mailbox | `xrp-dsp/xrp_dsp.c`, `xrp_dsp_hw_simple.c`, `core/ps_xrp_wrapper.c` | command and report words in shared memory | handshake, command, completion | each command is run at most once and answered |
| memory banks | `TM/src/tmUtils.c` | free and allocated list, header bits, counters | allocate, free | no byte is lost or given twice |
| tile manager | `TM/src/tileManager.c` | flags and counts of objects, banks, error flag | set up, create, allocate, release, reset | an object has one owner; a failure half-way leaves nothing behind |
| tile transfers | `TM/src/tileManager.c` | queue of tiles, status and pixels of each | requests in and out, check, wait, sleep, pad | a tile that is ready shows its part of the frame; every wait ends |
| 3D transfers | `TM/src/tileManager.c` | the same, and a side that is being padded | the same; padding by the DMA | the same |
| iDMA wrapper | `driver/idma/*` | error flag | schedule, wait | |
| namespaces, ring buffer | `xrp-dsp/xrp-common/*` | sorted table; read and write index | register, find; read, write | |
| algorithms, loader, profiling, debug | `algo`, `loader`, `utils` | | | |

How they interact: an interrupt runs `ps_task_trigger_intr_handler`, which calls
the handler of the front end (a push) and sets the task ready. The scheduler
dispatches the task, which reads the FIFO (`get_next_entry`), runs the
algorithm, pops (`entry_done`) and starts the back end; when the front end
reports an overrun it moves front end and back end through a recovery instead.
Commands of the host run in the *common task*, dispatched like any other. There
is one processor and no preemption of tasks by tasks: all concurrency is between
interrupt handlers and the code they interrupt, plus the hardware and the host.
What is hard is therefore what an interrupt may find between two steps of a
task, interrupts that merge, hardware that never waits, the order of the host's
commands, commands that fail half-way, and in the tile library the many cases of a
cut and the order in which transfers are found done. `PROJECT.json` lists these
hazards by line.

## Modules

**`IspCommon`** is the FIFO, with its constants: lines per frame, per entry and
per buffer. `fifo`, `customer`, `producer` and `status` are the fields of
`Sisp_handler`. `PushNewLine` is `ispc_push_new_line`, one step because it runs in
the interrupt handler. `ispc_pop_new_line` is in the task, and the interrupt may come
between any two of its accesses to what is shared, also inside `pop_fifo`, whose
`ISP_DISABLE_INTS` is empty (`isp_common.h:23`). So it is given as what each of them tests
(`PopAllowed`, `PopFifoAllowed`, `BeyondFrame`) or writes (`AdvanceHead`, `FailPop`,
`SwitchCustomer`, `FailSwitch`). `ResetHandler` is `isp_fifo_reset` from a base that is read
before. Line counts are 16 bits wide
in the code; the tail never exceeds the lines of a frame (proved), so it does not
wrap, and the one subtraction that may, of the pushed lines from the hardware's
counter, is taken modulo 2^16 (`NewLines`).

**`IspFrontEnd`** adds the ISP (external: it writes `EntryLines` lines, raises an
interrupt, and another at the frame's end), `isp_interrupt_handler` as one action,
and `dsp_process_hw_task` step by step, with a program counter. `EntryDone` puts the pop
together, for the two places that call it: check, FIFO, head, test for the last entry,
store of the customer's side, comparison with the producer's, and the fault; each is a
step. `torn`, `missed` and
`late` are history variables and influence nothing. A run of the task is one entry, as
in the code; the ready bit is a Boolean here, with `clr_ready_task` at the end of
every run. The back end is three recovery states.

**`PostIsp`** is the other end of the same task. Here the *task* pushes (step by
step: check, lines, change of sides, reset of the side, trigger) and the *interrupt*
pops, as one step. The post-ISP is external: it reads one entry for each trigger.
The front end is reduced to its state and the line of its next entry. In a recovery the
interrupt handler triggers what is left of the frame. `early`, `late` and `stalled`
are history: a frame's end taken for another's, interrupts that merged, and a
recovery whose first entry was read before the state said that it was one.

**`VipreToHost`** is a task from the VIPRE into the host, in M-frame mode. `hwFull` is
the register in which the VIPRE marks the buffers it has filled; the frame interrupt
and the overflow interrupt are an action each, and may come between any two steps of
`vipre_get_next_entry` (which reads the head twice) and of `vipre_pop_new_entry` with
its `pop_fifo`: there the load of the head and its store are two steps (`popHead`), for the
overflow interrupt moves the same head. It uses `IspCommon` with a frame buffer for a
line. `stolen`, `astray` and `outrun` are history: the overflow interrupt gave up the frame
in use; the VIPRE and the FIFO count different frames; the overflow interrupt took the
last frame between a step that found the FIFO filled and one that goes on to read its head.
It EXTENDS **`HostBackEnd`**, the ring of the host's buffers, the report and
what the host does with it. **`MCVipreToHost`** bounds the run by the constraint `NotOutrun`:
the first `outrun` state is checked, what follows it is not. Every property of the handler
excepts those states, and `BuffersConserved` is proved for them too (`BuffersStayPlaced`).

**`Scheduler`** is the ready table as two levels of sets of bits, interrupts that
set tasks ready, and the loop of `ps_task_shedule` with a program counter. Reading
the group and reading its bits are two steps. `RunTask` abstracts the work of
every task except the two that share the VIPRE FIFO, because
`dsp_vipre_task_check` (`task_empty_check`) depends on it. `Lowest` is what the
table `task_ummap` computes; **`MCScheduler`** has the literal table and checks
that, for all 255 chars, before the run.

**`TaskLifecycle`** has the entries of `task_table` as records, the slots of
`g_scheduler`, the vector of each interrupt and the chain of handlers behind it
(`Chain` follows `intr_handler` and `intr_arg`). Every command is an action, with
its failures as further outcomes. `Careful` and `Shared` restrict the host, not the
firmware: a careful host stops a task before it frees it or configures its front end,
a sharing one gives several tasks one front end. `broken` is history: the task's last
algorithm failed to load, or was loaded through parameters that a failed load had freed.
`FeConfig` is asked for hardware tasks only, which is a restriction of the host, too. **`MCTaskLifecycle`** adds the symmetry of the interrupts.

**`XrpMailbox`** is the word of shared memory that serves the handshake at boot
and the commands afterwards, the device's interrupt, and what the DSP does with
both: `main` up to the scheduler, then the loop with its common task and its idle
task, with a program counter (`pc`). Every access of the DSP to the word is a step
of its own, with the host's steps in between. A value of the handshake passes for a
request by the same test as in the code (`RequestValid`), so that a confusion of the
two would show. The host is external, known by what the DSP expects of it; it may
give the handshake up and start over, and interrupts may come twice. `Patient`
restricts the host to asking while the DSP is in `XT_WAITI`. **`RpcChannel`** is what
the channel promises, and `ImplementsRpc` that the mailbox keeps it: asked, run at
most once, answered once, and well only if it was run.

**`XvMem`** is the allocator of a memory bank: free and allocated list as sequences of
block headers, the bit vector that tells unused headers, the counters. `Alloc` splits
a block or takes it whole and fails when headers run out; `Free` merges with the
neighbours. **`BytePool`** is what it promises, and `ImplementsPool` that it does.

**`TileObjects`** has the tile manager as one record and each function of the library
as a function from records to records, so that `xvCreateTile` can call
`xvAllocateBuffer` and `xvAllocateTile` as in the code. The actions are what a caller
does with them; a bank may be full at any time.

**`TileGeometry`** is the cut of a tile to its frame in one dimension, which all
requests do in each. **`TileTransfer`** builds on it the requests in (with reuse of another
tile, predicated, Fast) and out, the queue of tiles, `xvCheckTileReady` with its
padding by the processor, the calls that wait and sleep, and the iDMA as a queue of
descriptors carried out in order. A pixel shows the place of the frame it came from, so
that `TileShowsFrame` can say what a tile must show. **`Tile3D`** is the
same for 3D tiles, where the iDMA does the padding too, one side after the other, each
posted by the call that finds the one before it done; **`MCTile3D`** gives it positions.

The modules called `...Proofs` hold the theorems and their lemmas.

Operators whose comment says *mutation* are not part of the model: each is a
variant of the operator after it with a plausible mistake, and the property it is
paired with in `PROJECT.json` fails when it takes that operator's place.

## Runs

| run | bounds | what it shows |
|---|---|---|
| `isp` | frame 6, entry 2, buffer 4; from some point on, one entry late | FIFO order, capacity, both cursors, torn entries, recovery |
| `post_isp` | frame 6, entry 2, buffer 4 | what is read is the oldest entry, both ends meet, recovery ends |
| `vipre` | 3 frame buffers, 2 buffers of the host, merged interrupts, up to the first `outrun` | marks and queue agree, no fault, no buffer in two places, the head moves on |
| `sched` | tasks 1, 2, 3, 9, 15, two VIPRE frames | highest priority first, the VIPRE FIFO is drained |
| `life` | two hardware tasks, one software task, two interrupts, one failing load, careful host | hooks, slots, what is dispatched |
| `mailbox` | two handshakes given up, a patient host | implements `RpcChannel`, every command is answered |
| `mailbox_lost` | a host that asks at any time | a command is never run (finding) |
| `mem` | pool of 11 bytes, 5 headers, 3 sizes, 2 alignments | lists, bits and pool agree, implements `BytePool` |
| `objects` | two banks of one buffer, two objects of a kind, one channel | flags and owners agree, nothing is lost half-way |
| `transfer_reuse` | two tiles of one pixel, one with edges, in a 3 by 3 frame | what a tile shows when it reuses another, the queue, every wait ends |
| `transfer_clip` | one tile with edges at every border of a 2 by 3 frame and beyond | what a tile shows, copies in bounds and in place |
| `tile3d` | two tiles, all six sides padded, or beyond the frame | what a tile shows, temporary buffers, every wait ends |

Why the bounds are enough. Three entries per frame and two per buffer is the
smallest geometry in which frames start at every slot that is possible, wrap, and
a push can overrun both the frame before it and its own. Three frame buffers are the
smallest ring in which a frame is filled, one waits and one is in use; with two
buffers of the host the ring gets to its last one and back. Two priorities in each
group of the ready table, and one in the other group, distinguish a wrong bit from
a wrong group; two frames suffice for a VIPRE FIFO whose head changes owner. In
the life cycle two tasks are needed for a chain, and a table of five entries lets
holes appear in every place. The pool is such that headers run out before the bytes and
a free block is merged on either side and on both. Two tiles suffice for one that
reuses another and for a queue out of order; the frames are the smallest in which a tile
with an edge of one pixel lies inside, across each border and corner, and beyond.
`MaxLate` bounds the entries the ISP writes ahead of a pending interrupt, and in
`VipreToHost` the frames; `MaxFrames` bounds the VIPRE FIFO of `Scheduler`, and
`MaxWithdrawn` the handshakes given up: two, so that one can be given
up before and one after the DSP has left the protocol. In `PostIsp` no overrun follows one
in which a frame's end came early, in `TileObjects` one release confuses the counts before they
are cleared. Line and frame counters and commands need no bound.

The theorems below are for every value of the constants, so for what they state the
bounds do not matter. The type invariants of the modules that have one are among
them, and are not run.

Deadlock is checked in every run but four: in the two of `XrpMailbox`, where a
DSP that left the handshake, or sleeps through a command, really stops, and in the two
of `TileTransfer`, where the application may do nothing more after an iDMA error.

Fairness. The hardware streams on, a pending interrupt is served, and the dispatched
task goes on: weak fairness of each, nothing stronger (`IspFrontEnd`, `PostIsp`,
`VipreToHost`). That the ready task is dispatched is assumed, which holds when no task of
higher priority is always ready. `IspFrontEnd` assumes that the back end recovers, which
is what `RecoveryEnds` shows of the post-ISP, except for a recovery that stalls. In
`Scheduler` the loop runs and interrupts of *some* other kind
keep coming: the idle task waits in `XT_WAITI` for the next interrupt even if a
task became ready after it was dispatched, so without further interrupts that task
would wait for ever. `VipreDrained` needs no further *VIPRE* interrupt.
In `XrpMailbox` the DSP runs and takes interrupts it has enabled, and the host goes
through the handshake, rings for the command it wrote and takes its answer; it need
not ask, nor ring twice. In `VipreToHost` nothing is asked of the host. In
`TileTransfer` and `Tile3D` the iDMA carries out what it is given, and a call that waits goes on.

What is checked of the front end, in words. The two sides of the FIFO stay in
order and share the buffer's capacity, whichever steps of a pop the interrupt comes
between; the handler's cursor is the hardware's, in line
and in slot, also after recoveries, except when a frame end is missed by the recovery
(`missed`), which is the case the
code gets wrong: a frame end that comes with the overrun's interrupt, or in the
task's `isp_fifo_reset`; with interrupts in time nothing but an overrun occurs, and
an overrun is recovered from. `OverrunRecovers` assumes that the back end itself is
not in its own `EHW_ERROR_OVER_FLOW`, which the post-ISP does not leave. An entry
overwritten while in use is withheld from the back end when an interrupt has told of
it by the time the task checks; later is too late, and not claimed.

## Findings

`mailbox_lost`: **a command nobody runs.** An interrupt between the dispatch of the
idle task and its `XT_WAITI`, or between the common task's read of the flags and
`clr_ready_task`, leaves the command waiting for another interrupt
(`ps_sched.c:316`, `:132`), although `xrp_run_command_sync` "synchronously runs a
command" (`xrp_api.h:376`).

What else was met while modelling stands in the modules, as a history variable that
a property excepts, as a restriction on the environment, or as a property that is
stated and not run. Each can be seen by changing a constant or taking out the exception:

* *ISP.* A buffer of 5 lines with entries of 2 hands out an entry across its bottom, which
  `get_isp_next_entry` refuses for ever (`EntryNeverSplit`; the comment at
  `isp_common.c:17` asks for a check). A frame end that comes with the overrun's
  interrupt is not added to the offset (`missed`). In a buffer that holds a whole frame
  (`BufferLines` 4 with `FrameLines` 4 or 2) the interrupt may end a second frame between the
  steps of a pop: the customer then changes to a side that the producer has just left, for a
  fault that nothing recovers from (`isp_common.c:112-117`, `OnlyOverrunFaults`), or finds its
  own side reset (`CustomerSideKept`).
* *Post-ISP.* The next entry of the output is handed out without asking for room
  (`post_isp_handler.c:67`); the overflow that the push then finds is never left. A
  frame's end counts for the recovery whichever frame ended (`early`); a recovery whose
  first entry is read before the state is set stalls (`stalled`); two entry interrupts
  that merge pop one entry (`late`). In a buffer that a frame and an entry fit in,
  the pop may fail (`OnlyOverflowFaults`).
* *VIPRE.* The overflow interrupt gives up the frame that the algorithm reads, and the
  task then pops the next (`stolen`). An overflow interrupt between the steps of
  `vipre_pop_new_entry`, or two frames on one interrupt, leave a buffer marked for ever
  (`astray`). The result of `pop_fifo` is tested with `< 0` and is never negative. An
  overflow interrupt that empties the FIFO between a step of the task that found it filled
  and the next (`outrun`) lets the algorithm read a frame that is not there, or the pop move
  the head past the tail and change to the side the producer is not on (`NeverFaults` without
  its exception, in a run without the constraint). With an odd number of buffers the parity by which two tasks share the frames flips with each turn.
* *Host buffers.* The news that buffers ran out or that a frame was dropped is written over
  an unread report: the buffer it named is lost to both (`lost`).
* *Tasks.* Two tasks on one interrupt (`Shared`): start both, stop the first, stop the
  second, start the first, and `ps_task_interrupt_register` logs an error and leaves
  `intr_arg` -1 behind a trigger handler (`ps_sched.c:237-241`, `ChainsToATask`). A
  READY task keeps its status when its new algorithm does not load (`ps_sched.c:1139-1146`,
  `ReadyIsConfigured`). A failed `csi_dsp_task_algo_load` frees the parameters and keeps the
  pointer (`ps_sched.c:1237-1242`); the next `dsp_task_algo_config` allocates none
  (`:1107`), loads through the freed ones (`:1136`) and makes the task READY (`:1214`), or,
  when it fails, frees them again (`:1142`). Such a task is in `broken`, and
  `DispatchedIsRunnable` fails without that exception.
* *Mailbox.* `do_handshake` returns on an unexpected word and `xrp_device_sync` reports
  success (`xrp_dsp.c:418-419`, `:703-706`): `main` starts the scheduler without the
  interrupt the host was to name.
* *Memory bank.* Freeing an aligned buffer adds its padding to `_unused_bytes` a second time
  (`tmUtils.c:879`, `UnusedAccounted`).
* *Tile objects.* `xvFreeTile3D` and `xvFreeAllFrames3D` change the count of another kind
  (`tileManager.c:3127`, `:3034`; `confused`). When `xvCreateTile` finds no tile, giving its
  buffer back clears the error (`:932`, `ErrorReported`).
* *Transfers.* The comment at `dmaif.c:66` says that copies from local to local memory are not
  supported; reuse and padding rely on them, and the modules follow the code. A tile beyond the frame under edge padding is ready unfilled (`:2331`,
  `DummyFilled`); `xvPadEdges` of such a tile writes outside it (`"fastBeyond"`,
  `PadsInTile`); a tile written out beyond the frame with a gap between asks for a copy of
  negative size (`:2041`, `"outBeyond"`). Frame pads of 128 and more are read as negative
  (`:1460`, `PadSign`), and edge padding wider than a vector is left half done (`:2426`, `Vector`).
* *3D transfers.* A tile that is not the one asked for is padded with the geometry of the one
  that was (`:3499`, `InOrder` FALSE). No buffer for the padding: the error value is taken
  for an address (`:3616`, `BufferFails`). A tile of one row beyond the frame asks for no rows
  (`:3387`, `CopiesInBounds`, which is stated and not run).

## Proofs

Every theorem is for all values of the constants that satisfy the modules' named
assumptions; these are what `ispc_base_info_update`, `init_scheduler`, `task_table`,
and the set-up functions of the others guarantee, and the widths of the fields that hold
them. Further hypotheses are named here. TLC
checked each inductive invariant on a small instance before it was proved.

**Scheduler** (`SchedulerProofs`). `SchedInv` is inductive: besides the properties to
prove it says that only tasks are ever marked (`OnlyTasks`), without which the number put
together from two reads need not be a task, and that between the two reads the tasks seen
at the first are still ready and in no earlier group (`SeenStillReady`), without
which a lower priority could be dispatched first. `TableConsistent`, `AlwaysATask` and
`DispatchedIsReady` are proved and not run.

**ISP front end** (`IspFrontEndProofs`). `FifoInv` says that
tails do not pass the frame and the producer's own frame is incomplete; `OrderInv` adds to
`SidesInOrder` and `InFlightFitsBuffer` that heads do not pass tails. That is why a complete
pop implies the producer is on the other side. The front end must supply one fact, that an accepted entry ends within the
frame: the counter difference, modulo 2^16, is in range only if the lines were written.
`FrontEndInv` adds that the task resets the FIFO only in a recovery, when the handler does
not push, and, for frames longer than the buffer (`FrameLines > BufferLines`, a hypothesis
of the theorems about order, capacity, faults and the customer's side), `PopInv`: `OrderInv`,
and what a pop may rely on at each of its steps. The lines it was allowed are still there
when it moves the head, the side it leaves is still complete when it stores the other one,
and it has found the producer there when it compares. That needs the hypothesis, for
the producer, a frame ahead, must not finish that frame, which has no room in the buffer,
before the customer has followed it. In a larger buffer TLC finds the faults under Findings.
`FifoInv`, types and the agreement of the cursors hold for every geometry. Nothing is assumed about how late interrupts are, or that entries
divide the frame or the buffer. `InTimeInv`, for frames and buffers of whole entries, relates the producer
to the lines that the hardware's interrupts have *told* of: while interrupts are in time,
pushed lines are told lines, in the frame whose end tells next; from it follow the
agreement of the cursors and `OnlyOverrunFaults`. `TornInv` adds where the entry in use
lies; with a buffer smaller than a frame and an entry, the lines that overwrite it are
lines there was no room to push, so the handler is in overflow when the task looks.

**Post-ISP back end** (`PostIspProofs`), in three layers. `AlignedInv` (a frame of whole entries;
any buffer) is the type invariant with the order of the two recoveries: which states
of front and back end may come together at each step of the task. `CountInv`
(buffers of whole entries, smaller than a frame and an entry) counts entries: what is
pushed and not popped is what was triggered and not read, plus what waits in the
interrupt, plus what the push in progress owes; a recovery leaves nothing owed. Hence
the pop finishes a frame only after the push has changed sides. `ReadInv`
is about places: offsets follow each other round the buffer, the place the next trigger
reaches is the producer's tail, and the head is what is read next, all as congruences
modulo the buffer. `HeadStaysRead` is its last conjunct. The hypothesis on the
buffer's size is needed: TLC finds the fault in a larger one.

**VIPRE into the host** (`VipreToHostProofs`). The hardware, the queue and the task move
at different times, so no equation between marks and queue is inductive. `FramesInv`
says that for *some* `lag` the queue, `lag` frames written and not pushed, and the one
being written lie one after the other round the ring and fit in it (`Room`),
that they are marked, but for the one whose pop is in progress (`Window`), and that while
nothing has gone astray the lag is that of the pending interrupt and nothing else is marked
(`Exact`). `InHand` says what the entry in the task's hand may be between the steps of a
pop: still the head, or given up by the overflow interrupt; and the head that `pop_fifo` has
loaded is still the FIFO's, or the one before it (`Loaded`, `Overtaken`), so that its store
moves the head on by one or leaves it where the interrupt has put it. All of this is claimed
until the task is outrun, for then a head may pass its tail. The three properties of the handler follow, for one to four frame buffers, tasks
of any parity and interrupts that merge or not. `BuffersInv` is about the host's buffers,
for any finite set of them: the ring holds each once, the entry of a run stays the ring's
head, and every buffer is in the ring, in an unread report, with the host, or lost.

**Life cycle** (`TaskLifecycleProofs`). Types, namespaces and slots hold for any host.
`SlotsInv` needs, besides the property, that slots are injective, so that as many
slots as tasks are never too few. Two theorems are about a careful host with a front end for each
task (`Careful`, `~Shared`): `HooksInv` says that a running task is the first its interrupt
reaches, and `RunnableInv`, which contains the others, that running and ready tasks have
been configured, so that what is dispatched has its algorithm, and parameters that are
allocated, unless the task is in `broken`.

**Mailbox** (`XrpMailboxProofs`). `MailboxInv` adds two groups of facts. `BootOrder`: only
a host that is through the handshake raises the interrupt, and only then is it enabled, so
the common task never takes `HOST_TO_DSP` for a request. `CommandKept`: until it is
answered the word is the request as the host wrote it, the handler has not run, and the
common task works on that request. With them each step maps to one of `RpcChannel` or a
stutter: `HostSend` asks, `RunCommand` runs (or stutters without a handler), `Complete`
answers, `HostTake` takes. The theorem bounds neither the handshakes given up nor the
interrupts.

**Tile objects** (`TileManagerProofs`). `ObjectsInv` is the conjunction of the four
properties with the types: each needs the others, since a tile is created from
a buffer and an object. The lemmas say of each function what it leaves of a manager
that is idle. `CountsMatch` and `BanksBehindCount` are proved and not run.

**Memory banks** (`TileManagerProofs`). `MemInv` is for every pool, number of headers and size of a
counter; `PoolAssumption` is what the set-up functions refuse otherwise, and that callers ask
for some bytes and for powers of two. It says that the lists have no duplicates and the
bits are those of the headers in neither (`MemTyped`, from which `HeadersTracked` follows), that the listed blocks,
none of them empty, tile the pool (`Tiled`), that each free block ends *before* the next begins
(`Sorted`), and that the allocated blocks are the buffers that callers hold (`Kept`). Each needs
the others: that bits are flipped is right because a header taken was unused and one given up
was listed; a block that is freed lies in a gap of the free list because blocks tile the
pool, and merging with both neighbours keeps the gaps strict; the header given up by a
merge covers no byte that the merged block does not. Tiling is kept by two lemmas, for a block
that is cut in two and for two that are joined, and `Free` is at most two joins. With `Kept` each step is
one of `BytePool`: the block of a new buffer was free, so nobody else holds a byte of it.
`BytesAccounted` and `UnusedAccounted` are sums over the lists, and are neither proved nor run.

**Tile transfers** (`TileTransferProofs`). The cut is the intersection of tile and frame,
and with what is padded it makes up the tile (`CutIsIntersection`, `CutFillsTile`). For
whole transfers the invariant of the descriptors is that each is *sound*: in bounds at both
ends, whatever was clipped, reused, predicated or repeated (`CopiesStayInBounds`, where the
application does not use the request `"outBeyond"`, whose size the code gets wrong). `OutHeld` says that a tile with a
copy to the frame under way is not ready, so nobody requests it elsewhere before. `QueueInv`
adds to the property that descriptors are counted within the queue of the iDMA; the loop of
`xvCheckTileReady` is followed entry by entry. `ReuseInv` says that only a tile that is
waited for and not a dummy takes pixels from another, so that counting it when it is asked for
and giving it back when it is found done is exact (`ReuseStaysCounted`, proved and not run).
`TilesShowTheFrame` puts these together. `PixelsInv` splits a tile that shows the frame into
what copies fill (`Filled`: the pixels in the frame and its pads; for a Fast request with edge
padding, whole columns) and the rest, which its status tells the processor to pad
(`StatusRight`). A cell that copies fill is right already or carried by a descriptor still in the
iDMA's queue (`Covered`), and each of these takes the right pixel (`RightCopy`): from the frame; or
from a cell that is filled, of a tile that is shown, which no descriptor *from this one on*
writes. That is what the order of the queue gives, of a tile that is reused and of the
rows a Fast request repeats from its own. A tile that is taken from is counted, so it is
neither worked on nor requested until the copies are done (`ReadyUntouched`); a tile found done
has no copy left (`NothingLeft`). What remains is arithmetic: the copies of each request bring what
the cut says (`InFills`, `FastFills`), the one to five pieces of a reused tile among them
(`ReuseBrings`), and padding rows and then columns completes the tile (`PadTileWhole`,
`PadFastWhole`). Its hypothesis `PadsFit` excludes two defects named under Findings: a pad of
128 or more, and a Fast tile wider than a vector under edge padding; a tile beyond the
frame under edge padding is excluded by the property (`DummyFilled`).

**3D transfers** (`TileManagerProofs`). `TempInv` says that a tile has a buffer only while one
of its sides is padded, and that a tile beyond the frame has no sides: the call that finds the
last side that needs the buffer done frees it, whatever is asked for, in whatever order, with
or without buffers (`TempComesBack`).

`Tiles3DShowTheFrame` is about six stages, of which only the calls for the tile post the next.
`ShowsInv` therefore says what *has been asked for so far*: the cells within all the sides that
remain to be padded (`AskedFor`). Each of them is right or carried by a copy still in the iDMA's
queue (`Covers`); each copy is awaited (`WaitsFor`) and takes its pixels from the frame, the padding
value, or cells of its tile that are right already (`RightBox`); and the sides that remain are
in the order of the dimensions (`FlagsRight`, `InSequence`), so that what a side
is padded from has been asked for before it. A tile whose last copy is found done has no copy left
(`NoCopiesLeft`), so the next stage builds on cells that are right. The arithmetic is that the first copies
bring what is within all clipped sides (`InsideBrings`), the copies of a side bring the cells off that
side (`SideBrings`), and those of a tile beyond the frame the first row, the first plane and
all planes (`BeyondBrings`). `WaiterRight` says that the tile that is called for stays the oldest.
The hypotheses `InOrder` and `~BufferFails` exclude the two defects that are named under Findings.

Only model-checked: *liveness* (`OverrunRecovers`, `RecoveryEnds`, `VipreDrained`, `HeadMovesOn`,
`WaitEnds`, `CommandAnswered`), for fairness and leads-to are beyond the prover. Every invariant
that a run checks is proved.

## Not modelled

* The VIPRE's N-line mode, whose interrupt counts lines as the ISP's does, and the recovery that
  only it can reach.
* The ISP into the host's buffers: the two ends are modelled, not composed.
* The namespaces, a sorted table that one thread changes (a set in `TaskLifecycle`), and the
  ring buffer of the log.
* `dmaif.c`, a wrapper of an external library; its error flag and its outcomes are in the transfers.
* Algorithms and loader: their failures are outcomes of the commands.
* Profiling, debug printing, register headers: no state the others depend on.
* In the mailbox: tasks other than the common and the idle task, further hardware queues, a
  device without an interrupt; the interrupt that ends the handshake and the first command's do
  not merge.
* Geometry that changes between frames, addresses and sizes computed from slots.
* Tiles, edges and pads that do not fit `int16_t`: excluded by the assumptions of `TileTransfer` and `Tile3D`.

## Plan

1. Front ends, back ends, scheduler, life cycle, mailbox, banks, tiles: modelled (above).
2. Safety of all of them: proved (above).
3. To model: the ISP into the host's buffers, from `IspFrontEnd` and `HostBackEnd`; the VIPRE's N-line mode.
