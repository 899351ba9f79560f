# DhruvaOS in TLA+

DhruvaOS is a real-time kernel for the Raspberry Pi 1 (and a smaller one for the
Pi 4), written in Vani, C and ARM assembly. This directory models the parts of
it whose correctness depends on what is interleaved with what: the scheduler
and its locks, the log-structured file system, the allocator they share, the two
kernel slots with the upload of new images into them, the first-stage loader with
its SD driver and hash, TCP between two local connections, and the output of the
UART. Module names, variables and actions keep the names of the code.

## 1. Inventory

One image runs on one core. `kernel_main` initialises everything with interrupts
masked, creates the tasks and calls `start_multitasking`. From then on a timer
FIQ preempts every 500 ms, other devices raise IRQs, and the tasks make system
calls by SWI. State lives in tables written in assembly (`boot/*_state.S`) and
read from `kernel/kernel_main.vani` through accessors.

| Part | Where | State | Operations | What is hard | What makes it correct |
|---|---|---|---|---|---|
| Scheduler | `boot/context_switch.S`, `scheduling_decision_prelude` | `eff_prio`, `base_prio`, `sleep_until`, `ready_wait_ticks`, `ceiling_depth`, `rr_last_picked`, heartbeat tables | task creation, `task_sleep_ticks`, tick, reschedule | two selection rules, aging, eviction of overdue tasks | only a ready, created task runs; idle last; bounded waits |
| Locks | same | `mutex_owner`, `mutex_waiters`, `ceiling_depth` | `dhruva_prio_lock/unlock`, `dhruva_mutex_lock/unlock` | nesting, priorities lent and taken, handover, eviction | exclusion, no lost wakeup, a boost ends with its reason |
| Tasks | `task_a` ... `task_f`, `task_fsq`, demo tasks, `uart_puts` | where each is | loops of sleep, lock, work, unlock | all of the above interleaved | they use the locks so that the locks' promises hold |
| DharaFS log | `dharafs_*`, `dharafs_state.S`, `dirindex_state.S` | blocks on the card, append cursor, sequence number, `log_start`, directory index, compaction state | write, delete, rename, read, compact, recover | resets, refused writes, unreadable blocks between any two block writes | a store that changes by whole operations |
| DharaFS permissions, snapshots, encryption | `kernel_main.vani`, `snapshot_state.S`, `dharafs_crypto2_state.S` | owners and modes, pinned sequence numbers, nonces | checks, pin, read back, encrypt | staleness after compaction, a second sector per block | reads return what was pinned; a nonce is never reused |
| FS queue, mailbox | `fsqueue_state.S`, `mailbox_state.S`, `task_fsq` | eight slots each | enqueue, pick by priority and age, dispatch | little: the queue is filled and the mailbox used by self-tests at boot only | no request lost or done twice, order |
| Heap | `boot/rpi1/runtime_stubs.c` | bump pointer, fault countdown | allocate, halt when exhausted | preemption between read and write of the pointer | regions disjoint and inside the heap |
| UART output | `uart_puts`, `uart_putc`, `uart_tx_ring_state.S`, `dma_uart_tx_*` | FIFO, DMA transfer with its buffer, ring, `uart_pio_busy` | print by DMA, byte by byte or through the ring; echo; drain at a tick | tasks, interrupts and the engine write to one FIFO | nothing overtaken, and lost only what is accounted for; no print waits for ever |
| UART input, shell | receive ring, `task_f` | ring, line buffer | interrupt pushes, task pops | interrupt and task share the line | a line is taken once and whole |
| Kernel slots | `kernel_slot_*`, `boot/stage0/stage0_main.c` | the boot record in two copies, images of two slots, attempt count, reason | select, count, load, confirm, activate, reboot, fall back | reset or refused write at any step, two programs that write one record | one bootable slot at all times; a hanging kernel is given up |
| Kernel upload | `kernelupload_*` | upload in RAM, progress record on the card | chunk, stream, resumable parts, abort, commit | three ways to send on one set of variables, resets, a fallback in between | commit marks what the card holds; the running slot is left alone |
| Stage 0 | `boot/stage0/stage0_main.c`, `sha256.c` | image in RAM, hash context | choose, load, hash in pieces, jump or halt | read errors, damaged cards, unaligned pieces | jumps to the recorded image or not at all |
| SD driver of stage 0 | `boot/stage0/sdread.c` | FIFO, controller state, force bit | initialise, read, write a block by polling | program and controller run side by side; either may stop | a reported success is one; no loop waits for ever |
| TCP | `tcp_*` | two connection slots, netif's loopback queue | open, send, close, retransmit, poll | loss, early retransmission, crossing opens and closes, leftovers of a session | a connection's state matches its peer's |
| Rest of the network | `arp_*`, `dhcp_*`, firewall | leases, caches, rules | frames in, polls, timers | loss, duplication | a lease held by one client |
| USB, Wi-Fi, BLE | `dwc2_*`, `usb_*`, `wpa2_*` | devices, handshake state | hot-plug, four-way handshake | device gone in the middle, replayed messages | no use of a gone device; a key is installed once |
| Security | TLS, SSH, PKI, auth | session and lockout state | handshakes, log-in | ordering of messages | nothing before authentication |
| Logs, governor | crash log, diag ring, governor | rings, counters | record, rotate, sample | wrap-around | newest entries survive |
| Pi 4 port | `kernel_main_rpi4.vani`, `boot/rpi4` | smaller tables | preemption, shell | a second implementation | as above |

Interactions: every task enters the scheduler by SWI; `uart_puts` takes a
ceiling inside every other section; task_e (compaction), task_f (the shell) and
task_fsq share the file system under ceiling 2; all of them allocate from the
heap, which nothing frees; the file system writes through the kernel's SD driver, whose
block numbers other parts (crypto metadata, slot records, kernel images) use too.
Stage 0 runs before the kernel and shares nothing with it but the card, the
watchdog and one register: it rewrites the boot record that the kernel's `kernelslot`
and `kernelupload` commands and its confirmation of a boot rewrite too. TCP segments between the
two slots go through netif's loopback queue, from which task_e polls as well.

`PROJECT.json` lists every component with its status and every hazard at its line.

## 2. Plan

Written in this order, the most important behaviour first:

1. `Scheduler`, `SchedTasks`, with `HandoffLock` as what a mutex promises.
2. `DharaLog`, with `DharaStore` as what the file system promises; proofs:
   `DharaLogProofs`.
3. `KernelHeap`.
4. Proofs: `SchedulerProofs`, `SchedTasksProofs`, `KernelHeapProofs`.
5. `BootSlots`, with `BootRecord` as what the two copies promise, and
   `KernelUpload` beside it; proofs: `KernelUploadProofs`.
6. `SdHost`, `Sha256Stream` and `Stage0Load`, which composes them: the inside of
   the steps `Select` and `Load` of `BootSlots`; proofs: `Stage0Proofs`.
7. `TcpLoop`; proofs: `TcpLoopProofs`.
8. `UartTx`; proofs: `UartTxProofs`.

What could follow: `DharaSnapshots`, `DharaPermissions` and `DharaCrypto` over
`DharaLog`, with the map of the whole card; the wrap of `tick_count`; `Dhcp`, `Arp`,
the WPA2 handshake, hot-plug, lockout, the governor, the input of the UART, the
crash log; the Pi 4 kernel.

## 3. The modules

### Scheduler

`boot/context_switch.S` with the part of `kernel_main.vani` that runs before a
reschedule. All system calls mask IRQ and FIQ for their whole body, in a
privileged mode, so each is one action: `Sleep`, `PrioLock`, `PrioUnlock`,
`MutexAcquire`/`MutexBlock`, `MutexRelease`/`MutexHandoff`; `Interrupt(tick)` is
the heartbeat loop, the tick and the reschedule of an FIQ (tick) or IRQ
(no tick). `Reschedule` is `scheduler_pick_next` with its aging pass: `FairPick`
is the two-pass round robin over aged priorities, `HolderPick` the older rule
that applies when the running task holds a ceiling. Boot is `TaskCreate` and
`StartMultitasking`.

Time is relative. `sleep_left` is `sleep_until - tick_count`, `hb_elapsed` the
ticks since the last heartbeat, saturated at the bound it is compared with.
Nothing grows, so runs need no bound on time; the wrap of `tick_count`
after 2^31 ticks is outside the model.

### SchedTasks, HandoffLock

What the tasks do with the calls. `section` is the section or mutex a task is in
or waits for; `outer` the ceiling section it took a mutex in, because `task_f`
holds ceiling 2 around the whole of `shell_dispatch`, whose commands lock
`DWC2_MUTEX_ID` and sleep (`OuterSections`). No mutex is taken inside another and
no section inside a mutex. A task may print (`ConsoleBegin` reads its priority, `ConsoleLock`, `ConsoleUnlock`) on its
own or inside any of them. Reading the priority and locking are separate
steps because `uart_puts` makes them separately. Computation is a stutter, and an
interrupt may come between any two calls. `HandoffLock` is the abstract lock:
an owner, waiters, and a release that gives the lock to the most urgent of them.

### DharaStore, DharaLog

`DharaStore` is a map from paths to values in which a request either takes
effect as a whole or not at all. `DharaLog` is the code: an operation is a list of stages
(TX_BEGIN, record, tombstone), a stage a number of blocks, the only atomic step one block write
(`WriteChunk`, `WriteHead`). `WriteError` is a write the card refuses,
`Restart` a reset before any block write, which may leave the block torn, or a
restart between calls; both leave what `Unwritten` allows. `Recovered` is
`dharafs_init`, which runs in the same step as the reset. `CompactSkip`, `CompactUnreadable`, `CompactCarry`
are one call of `dharafs_compact`. The refinement maps the store to
`AfterRestart(disk)`, what a reset would make of the card now, so the commit
point of every operation is a block write, and everything else (compaction,
restarts, RAM updates) has to leave that map alone. `ReadsDurable` adds that a
running system reads the same.

Abstractions: path names and contents are model values; a block with a
wrong checksum, blank, or unreadable, is `NoRecord`; permissions, metadata and
encryption are left out; no two operations overlap (they run under the ceiling).
`dharafs_find_latest`'s late insertion into the index after a miss is left out:
in every state of the runs it inserts what a lookup would find. The code writes
the record and then re-reads it; the re-read is only logged.

### KernelHeap

`dhruva_alloc_bytes` in two steps, `Reserve` (up to the check, the result in
registers) and `Bump` (the write of the pointer), because what is meant to make
it atomic, `cpsid i`, does nothing in user mode and does not mask the FIQ.
Before `StartMultitasking` only `kernel_main` calls it. `Exhausted` is
`dhruva_oom_fatal`, which never returns. Task stacks come from domains of their
own; the allocator that puts a guard page into the heap is a fallback for task
numbers that the kernel does not have.

### BootRecord, BootSlots

`BootRecord` is one record with the operations of its users: count an attempt or fall
back, confirm, activate, name a reason, install an image. `BootSlots` is the
code: two copies on the card, each valid or torn. Stage 0 and every command of the kernel
begin with a `Lookup`: it finds the newest valid copy or, if the read of that fails
(`stage0_main.c:309-334`, `kernelslot_lookup`), the other valid one, and what follows overwrites the copy not
found. `LookupFails` is a lookup that finds neither: stage 0 then halts (`NoRecord`),
a command changes nothing. `Select` and `Load` are stage 0; `MarkBootGood`, `Activate`
and `Reboot` the kernel's. A write may be refused and leave the copy it goes to as it was or torn
(`Write`), a power cut may tear it (`PowerCut`, which also stands for a reset at any
other moment, as when stage 0 cannot initialise the card or read a block of an image); `Hang` and `WatchdogReset` are an image that does not reach PASS. The refinement maps
the record to the newest copy and `before` to the other one, if that is valid: a lookup that misses
the newest copy takes the record back by one operation, which `BootRecord` allows in `Misread` only.
Generations are kept relative to the copy last
read, since only their order matters. Digests are taken as free of collisions, so an
image is its sequence of blocks.

### KernelUpload

The three ways of `kernelupload` on the variables they share: `Chunk`;
`Stream`, `StreamBlock`, `StreamTimeout`; `ResumeBegin`, `ResumeChunk`,
`ResumeVerify`, `ResumeAbort`; and `Abort`, `Commit`, `CommitRefused`. RAM (`up`) is
lost in a reset, the progress record (`prog`) is not. A part is one block. Blocks of
different images may be mixed. `Careful` states the rules an operator keeps and the code does not
check: no upload while a copy of the record names another slot than the one that runs, or another image
in that slot than the running one
(`MayUpload`), no resume of an upload into the slot that runs now (`MayResume`), and no chunk past
the end of the slot. The progress record is kept in two copies as well, but is one register here. The ring between the receive interrupt and the
task is left out.

### SdHost, Sha256Stream, Stage0Load

`SdHost` is the polling driver beside the BCM2835 controller: each loop iteration of
the driver and each word on the bus is a step. The controller and the card are external, and all
that is assumed of them stands in the actions `RxWord` to `ForceIdle`: they move words
between FIFO and card in order, may stop at any time, may end a block parked in a wait
state, damage words, fail commands. `Sha256Stream` is the buffering and
padding of `sha256.c`, its state the sequence of the blocks compressed so far.
`Stage0Load` is `main` over both: initialise, read both copies, choose, count and
write back, load block by block, copy, hash in pieces, compare, jump or halt. Its record is
the one of `BootSlots` with what the choice needs; `BootSlots` takes the whole of it as two
atomic steps, and this module checks what makes that right: a
load ends (`Stage0Ends`), jumps only to the recorded image (`JumpVerified`), refuses none
that is right (`MismatchReal`), and its write leaves a valid copy (`RecordSurvives`) and
nothing else changed (`OnlyRecordsWritten`).

### TcpLoop

Both connection slots over the loopback queue of netif, as the shell's TCP commands use
them: slot 0 opens, sends and closes, slot 1 listens and echoes, or both open
at once. `tcp_conn_handle_segment` is one action per branch. `Lose` is a frame that
task_e or the firewall took; a full queue refuses frames. Time is left out: a
deadline may have passed at any moment, so every retransmission may be too early.
`Leftovers` says what of an earlier session may be there when one begins.

### UartTx

Three ways to the FIFO of the PL011: `uart_puts` by DMA (`Fill`, `StartDma`), byte by byte
(`uart_putc`: `PutcWait`, `SetBusy`, `Room`, `Write`, `ClearBusy`, one action for each look at
a register or a flag, since an interrupt may come between any two), and through the ring
(`uart_puts_bounded` in `Bounded`, the receive interrupt in `Echo`, the timer in `Tick`).
A drain runs with interrupts masked, so that no task and no handler comes between its steps
(`Unmasked`); the UART and the DMA engine do. It is one action for each look and for the write of each byte:
`DrainLook` (burst, ring, UART_FR), `DrainAsk` (CS.ACTIVE, and the flag, which only tasks set), `DrainWrite`. The flags of
the transfer and of `uart_putc` are asked in one action because the second does not change
in a drain. `uart_puts` and `uart_puts_bounded` hold
ceiling 0 (`console`); `uart_put_hex32` takes no lock. A byte is its source and its number. The FIFO (`Shift`) and the
engine (`Beat`, `Stick`) are external: the FIFO drops what does not fit, the engine moves a word
when there is room and may stop for good. `dropped` and `ended` record what a full FIFO dropped of
the ring and how many transfers have ended; no action reads them. The polls of the program are guards; that they
give up is `DmaOver`. One byte stands for the line break before a message that meets a half-typed line; capture
mode, empty strings and the truncation in `uart_puts_bounded` are left out.

## 4. What is checked

### Passing runs

| Run | Instance | Shows |
|---|---|---|
| `sched_mutex` | 5 slots, created tasks of every priority, one mutex, its owner may sleep holding it | `OwnerInheritsPrio`, `WaitBounded`, and `DemoHandsOff`: the mutex is a `HandoffLock` |
| `sched_sections` | 4 slots, console, two ceiling sections, a mutex on its own or inside one of them, heartbeat evictions | `CurrentRunnable`, `TopSectionExclusion`, `BoostEnds` |
| `sched_live` | 4 slots, console, a ceiling section in which two tasks may take the mutex or sleep, fairness | `ReadyRuns`, `UrgentWaiterOwns`; `RunnerOwnsMutex` and `NoLostWakeup` with the nesting |
| `log_crash` | 2 paths, values of 1 and 2 blocks, 7 blocks, resets and refused writes anywhere, an index with 2 slots for 3 names | `StoreSpec`, `ReadsDurable`, `LiveAfterLogStart`, `LogOrdered` |
| `log_rename` | the same size, renames, no reset or refused write inside a call, blocks that compaction cannot read | `StoreSpec`, `ReadsDurable` |
| `heap_race` | 2 tasks, 14 bytes, alignment 4, one injected failure | `WithinHeap`, `BootRegionsKept` |
| `boot_slots` | a healthy and a hanging kernel, 2 blocks a slot, two of three faults (a power cut, a refused write, a lookup that misses the newest copy), a careful operator, fairness | `OneRecord` (the refinement of `BootRecord`), `SomeSlotBoots`, `RetriesBounded`, `CommittedWhole`, `NoFalseAlarm`, `ComesUp` |
| `stage0_load` | 4 cards (a good one, a damaged image, a torn copy, a slot never filled), 3 words a block, a FIFO of 2, two faults, fairness of the program alone | `ReadWhole`, `WriteDurable`, `JumpVerified`, `MismatchReal`, `RecordSurvives`, `OnlyRecordsWritten`, `Stage0Ends` |
| `tcp_loop` | two sessions of up to two units, a queue of 4 frames, two frames lost or refused | `DeliveredInOrder`, `SeqAgree`, `LastKeptUntilDelivered`, `CloseAgreed` |
| `uart_tx` | task_e prints by DMA, byte by byte and without a lock, HIGH through a ring of 3 slots, FIFO of 2, the engine may stop, fairness | `Accounted`, `OneByteATransfer`, `RoomStays`, `RingEmpties`, `PrintsEnd` |

Every property of these runs has a mutant: a definition changed the way a bug
would change it (`...Mutant of` in the modules), with which TLC finds the
property violated in the same run. A property is in one run, the largest in which it
says something of its own. The type invariants of `Scheduler`, `SchedTasks`, `DharaLog`, `KernelHeap`, `KernelUpload`,
stage 0, `TcpLoop` and `UartTx` are theorems (section 5) and in no run.

### Violations: where the code and its documents disagree

| Run | Property | What happens |
|---|---|---|
| `fs_exclusion` | `SectionExclusion` | HIGH preempts the holder of a ceiling-2 section and sleeps; the aging round robin then picks the other user |
| `heap_overlap` | `RegionsDisjoint` | two tasks get the same bytes |

`PROJECT.json` quotes the lines each contradicts. They and the following, each
of which a run with other constants shows within minutes, bound what the
passing runs may claim:

| Change | Violated | What happens |
|---|---|---|
| `sched_live` with a heartbeat bound on a user of the mutex | `RunnerOwnsMutex` | an eviction (`kernel_main.vani:14364`) wakes a task that is blocked on the mutex |
| `sched_mutex` with a user of the mutex in `ConsoleUsers` | `OwnerInheritsPrio` | `uart_puts` restores a priority it read before a waiter lent its own (`kernel_main.vani:5085`) |
| `log_rename` with `"reset"` in `Faults` | `StoreSpec`, `ReadsDurable` | leftovers of a rename lost in a reset come alive after later appends: `dharafs_init` stops at the incomplete TX_BEGIN, the next append covers only that block, and a later recovery reads on into the records behind it (`kernel_main.vani:9547`) |
| `uart_tx` with `McRaceUses` and `DrainKeepsOut` | `DrainKeepsOut` | LOW prints in the middle of a byte of task_e's `uart_put_hex32`, which takes no lock, and clears the flag both use; a tick then drains the ring into the FIFO (`kernel_main.vani:4853`), which the comment at `uart_tx_ring_state.S:100` excludes |
| `uart_tx` with `dropped = {}` as an invariant | `dropped = {}` | `drain_step` looks at the FIFO before it looks at the engine (`uart_tx_ring_state.S:266`, `287`): the engine's last word between the two takes the place that was free, the byte of the ring is written into a full FIFO and its index moves on, although the comment at 196-198 says a byte is dropped only if the ring is full. With the two looks in the other order the invariant holds |
| `log_rename` with `"write_error"` in `Faults` | `StoreSpec`, `ReadsDurable` | a rename the card refuses half way leaves its TX_BEGIN behind in the running session, with the same consequences; a retry puts a second TX_BEGIN where the first expects its record |
| `log_rename` with `LiveAfterLogStart` | `LiveAfterLogStart` | a pass of compaction skips a block whose read fails without counting a failure (`kernel_main.vani:10795`), and `log_start` moves past the only copy of a live record, which the comment at 10926-10934 excludes |
| `log_rename` with `IndexSlots` 2 | `ReadsDurable` | the record left behind in the row above is found through the index only; a path without a slot reads as absent until the next restart |
| `boot_slots` with `Careful = FALSE` | `SomeSlotBoots` | an upload after an `activate`, or one resumed after a fallback, overwrites the slot that is running (`kernel_main.vani:33271`), which the comment at 32377 says it never touches |
| `boot_slots` with an operator who starts an upload as soon as the newest copy names the running slot | `SomeSlotBoots` | the upload's lookup cannot read the newest copy and finds the one from before a fallback or an `activate`: its target is the slot that runs (`kernel_main.vani:32945`) |
| `boot_slots` with both copies naming the running slot, but not the running image, and `MaxFaults` 3 | `SomeSlotBoots` | the lookup that missed the newest copy was stage 0's, which has started the image that the record named there before |
| `tcp_loop` with `Leftovers = {"pending"}` | `DeliveredInOrder` | slot 1 retransmits a unit of the last session: `tcp_conn_passive_open` leaves the deadline set, and the server's numbers begin at 5000 every time |
| `tcp_loop` with `Leftovers = {"syn"}` | `SeqAgree` | a SYN of the last session, still queued, opens the slot of a client that has given up, and both sides come up at different numbers |

So:

- `TopSectionExclusion` holds for sections at ceiling 0 only, because nothing is
  more urgent than their holder; for lower ceilings `fs_exclusion` applies.
- The mutex properties are checked and proved with no supervised user of the mutex, which
  is how the tasks are configured unless a heartbeat bound is set by hand, and
  `OwnerInheritsPrio` without printing.
- `WaitBounded` is checked and proved without ceiling sections, which suspend aging, and for
  tasks without a heartbeat bound: an eviction takes a waiting task out of turn and leaves it
  what it has waited.
- With renames the log is checked and proved with no reset or refused write inside a
  call; with blocks that compaction cannot read, with an index that has room for every name;
  `LiveAfterLogStart` without such blocks. `LogOrdered` speaks of records: a continuation block that an interrupted write left behind may repeat a number of a later one,
  and nothing reads it.
- `RegionsDisjoint` is proved for a single allocating task.
- `SomeSlotBoots` rests on the operator; the other properties of the upload do
  not (they are proved without `Careful`). Both copies name the running slot and image
  once a boot's two writes, stage 0's and the confirmation's, have succeeded with no read error before them.
- A lookup that cannot read the newest copy brings back the record before: it may undo a fallback, a commit or a
  confirmation. `OneRecord` allows just that, `RetriesBounded` grants one more start for each such
  lookup, and `NoFalseAlarm` says nothing after one until the next confirmed boot.
- `LastKeptUntilDelivered` is about the unit in the one retransmission slot of a connection, the last that its queue accepted.
  `tcp_conn_send_data` puts it in the place of an earlier unit, delivered or not (`kernel_main.vani:18279-18289`); a unit that
  the queue refuses is never retransmitted, although its number is used up (18278). A unit whose frame is lost and that
  was so replaced, or that was refused, is never delivered, and nor is any later one of the session, since its number is not the one
  expected: `DeliveredInOrder` is about what is delivered, not about how much.
- `DeliveredInOrder` and `SeqAgree` rest on each command finding the slots and the queue
  as the last one, left to finish, leaves them: no deadline at the slot that listens and no SYN in the
  queue. Other frames of the last session may still be there. The four properties of
  `TcpLoop` are checked and proved for `Leftovers = {}`.
- The ring does lose bytes to a full FIFO (above). `Accounted` says which bytes may be missing and that no
  others are, `OneByteATransfer` bounds them by the transfers that have ended, and
  `RingEmpties` says that the rest come out.
- `Accounted` and `RoomStays` are checked, and they and `DrainKeepsOut` proved, for one task
  that writes to the FIFO itself; any number may print through the ring. `OneByteATransfer` is proved
  for any tasks. The system has several
  such tasks (task_e, task_c, task_f), and only the ceiling of `uart_puts` keeps them apart.

Other limits of the code met while modelling, which no run shows:

- a nested `uart_puts` leaves its task at ceiling 0 until the outer section ends
  (`context_switch.S:2690-2701`);
- past `max_blk` (`kernel_main.vani:9383`) an append is answered and then not
  found by the next recovery, as the comment there says;
- a bad block next to the blank gap of a restart, or inside a transaction, ends
  the recovery scan; in the runs blocks are read back as they were written,
  except for the reads of a compaction;
- `dhruva_oom_fatal` stops the calling task, not the system;
- the shell's ceiling section excludes nobody while a command in it waits for
  `DWC2_MUTEX_ID` or sleeps (`kernel_main.vani:18491`, `37184`), though the comment
  at `context_switch.S:2965` says no caller locks a mutex inside a ceiling.
  `fs_exclusion` leaves this out (`OuterSections` empty): a section is lost even
  when nobody blocks in it;
- the reason "clean_reboot" is written back by stage 0 (`stage0_main.c:402`), not
  consumed as the comment above it says, so that every later boot reports it until
  a fallback replaces it; `WhyReset` is the code;
- without the watchdog (`STAGE0_PREJUMP_WATCHDOG_FOR_REAL_HARDWARE` off) stage 0 halts for ever at
  the first image it refuses, and `ComesUp` is not claimed;
- a SYN-ACK that is lost is never sent again, and no TCP command polls long enough to be
  sure of an end: `TcpLoop` has no liveness property.

The MANUAL also says the log has 2048 blocks and a file at most 4096 bytes; the
code has 7600 and 20480 (`kernel_main.vani:9383`, `dharafs_file_max_len`). The
models take both from constants.

### Bounds

- Task slots: the code has 16, the runs 4 or 5: an urgent task, idle, and two or
  three others, enough for one owner and two waiters at one priority and another
  in between. Aging quantum 2 and cap 6, 8 or 12 keep the code's relations (the cap
  takes the worst priority to the top; `Unused` is out of reach). `fs_exclusion`
  uses the real quantum 16 and sentinel 255.
- Sleeps of 1 and 2 ticks: shorter and longer than another task's.
- `DiskEnd` 7 blocks: three or four operations with a restart and a pass of
  compaction between them. `HasRoom` stops calls when the device is full.
  `BadLimit` 2 instead of 64 puts the gap of a restart at one block; `MinPass` 3
  instead of 4 lets a pass fit. `IndexSlots` 2 with three names makes the
  index overflow; 3 does not.
- `MaxBlk` is above `DiskEnd` in every run: the log stays where recovery looks.
- Symmetry is used only for the two paths of the runs without renames, in which
  they are interchangeable.
- Heap sizes are chosen around the alignment: sizes 1, 4 and 5 end before, at and
  after a boundary. These runs switch deadlock checking off because a full heap
  stops every caller; `stage0_load` does because stage 0 ends, and `tcp_loop` and `uart_tx` because the
  last session and the last print do.
- `boot_slots`: `Limit` 1 gives a first start, a second and a fallback; slots of 2 blocks
  make an upload that is half there; of one power cut (`MaxCuts`), one refused write (`MaxRefused`) and one lookup that
  misses the newest copy (`MaxMisread`) any two (`MaxFaults`) put a fault and one on its account in each place, and
  the theorems cover any number. With `MaxFaults` 3 the invariants hold as well (1.8 million states), and with two refused
  writes and two such lookups (4 million). `ResumeLimit` 1: the limit only counts attempts.
- `stage0_load`: a block of 3 words and a FIFO of 2 keep the code's order (a block is
  several FIFOs, the last burst is short). `HashBlock` 4 with pieces of 5 makes pieces begin
  and end inside a block, which the code's 262144 never does but its padding does. `MaxWaits` and
  `Retries` 1: each loop gives up or does not. Two faults: one on the read of a copy and
  one on the write of the other.
- `tcp_loop`: the queue has the real 4 slots; retransmission ends after 2 instead
  of 3. The sequence numbers of the two sides and of the sessions stay apart, as tick counts and 5000 do
  but for the first minute after boot. Two sessions, two units, two faults: a fault for a unit and one
  for its acknowledgement.
- `uart_tx`: length 1 is below `DmaMinLen` and 2 goes by DMA; a message above `ScratchCap` goes
  byte by byte as a short one does. The ring of 3 slots and the FIFO of 2 wrap, fill and overflow
  with the three prints and two echoes, and a drain of two bytes meets the end of a
  transfer before, between and after its looks.

### Fairness

`FairSpec` assumes that boot ends, that the timer keeps firing, that it does not
always hit inside a ceiling section (it runs free of the code), and that a task
that is given the processor again and again leaves each section and mutex it is in
(a shell command makes finitely many calls). No task
is assumed to sleep, so `ReadyRuns` holds against tasks that compute for ever:
the preemptive timer and aging are what it rests on. Strong fairness is needed
for the sections because another task's turn disables the action.

`BootFairness` (weak): while the machine is not up, stage 0 and the kernel run on and the
watchdog, which runs free of the code, fires. No upload, command or fault is assumed to
happen; the faults are finitely many by their bounds. `stage0_load` assumes weak fairness of the program's steps only: the
controller may stop for ever, and `Stage0Ends` holds all the same. `uart_tx` assumes weak
fairness of a drain's steps, the FIFO, the timer and an engine that has not stopped, and strong
fairness of each task that prints: ticks and echoes mask it again and again, but a drain is at most 16
bytes and a tick comes every 500 ms, so that it runs between them. No print
or echo is assumed to come, and the engine may stop in the middle of a transfer.

## 5. What is proved

For every number of tasks, every table of priorities and every argument of the
calls that the named assumptions allow (`TasksAssumption`, `PrioAssumption`,
`AgingAssumption`, `TimeAssumption`, `ClientAssumption`, `HeapAssumption`), for every set of
paths and values of any length, size of the device, the index and the gap of a restart
(`LogAssumption`), and for
every set of images, slot size, limit and number of faults (`BootAssumption`,
`UploadAssumption`), and for every length of a block and a slot, depth of the FIFO,
size of a burst, of a hash block and of a piece and number of polls (`SdAssumption`,
`Stage0Assumption`, `HashAssumption`), for every length of the loopback queue, number of sessions,
units, faults and retransmissions and every choice of the sequence numbers that sessions begin
with (`TcpAssumption`), and every number of
printing tasks, size of the ring and depth of the UART's FIFO (`UartAssumption`):

| Theorem | States |
|---|---|
| `SchedulerSafe` | `TypeOK` and `CurrentRunnable` of `Scheduler` |
| `TasksImplementScheduler` | `SchedTasks` implements `Scheduler` |
| `TasksSafe` | the same for the tasks, with their type invariant |
| `ConsoleExclusion` | `TopSectionExclusion`, evictions included |
| `BlockingMutexOwned`, `NoWakeupLost` | `RunnerOwnsMutex`, `NoLostWakeup`, if no user of a mutex is supervised |
| `MutexImplementsHandoffLock` | every mutex implements `HandoffLock`, under the same condition |
| `BoostsEnd` | `BoostEnds`, under the same condition |
| `OwnersInherit` | `OwnerInheritsPrio`, if moreover no user of a mutex prints and a section a mutex is taken in has a ceiling that none of its users beats |
| `AgingBoundsTheWait` | `WaitBounded`, without ceiling sections |
| `LogTypes` | `TypeOK` of `DharaLog`; this and the next four with no reset or refused write if there are renames (`RenamesUndisturbed`), no block that cannot be read unless the index has room for every name (`NothingMissed`), and the device inside the recovery scan (`ScanCoversLog`) |
| `ReadsAreDurable` | `ReadsDurable` |
| `CompactionKeepsLive` | `LiveAfterLogStart`, if compaction can read every block (`ReadsNeverFail`) |
| `SequenceOrdered` | `LogOrdered` |
| `LogImplementsStore` | `StoreSpec`: with any resets, torn and refused writes and compaction, or with any renames, the log implements `DharaStore` |
| `RegionsWithinHeap` | `WithinHeap`, for any race |
| `HeapSafe` | `BootRegionsKept`, for any race |
| `AloneDisjoint` | `RegionsDisjoint`, if a single task allocates |
| `UploadTypeCorrect` | the type invariant of `KernelUpload` |
| `UploadImplementsRecord` | `OneRecord`: two copies, two writers and any resets, refused writes and lookups that miss the newest copy implement `BootRecord` |
| `CommitSound` | `CommittedWhole` |
| `ConfirmedBootsQuiet` | `NoFalseAlarm`, which speaks of boots that no missed lookup preceded since the confirmed one |
| `RetriesAreBounded` | `RetriesBounded`: one more start for each refused write and each missed lookup |
| `AlwaysAWayBack` | `SomeSlotBoots`, if the operator is `Careful`: of every copy that a lookup may find |
| `TypesHold` | the types of stage 0 and its driver, and that each call is awaited |
| `ReadsWhole`, `WritesDurable` | `ReadWhole`, `WriteDurable`: what a call of the driver that reports success has moved |
| `WritesRecordsOnly` | `OnlyRecordsWritten` |
| `RecordsSurvive` | `RecordSurvives`, if the card holds a valid copy at first |
| `UpdateAdds`, `FinalizeDigest` | the pieces in which a message is hashed make no difference: `sha256_update` continues and `sha256_final` ends what one call would have done |
| `JumpsToTheImage`, `RefusesNoImage` | `JumpVerified`, `MismatchReal` |
| `TcpInvariant` | the inductive invariant of `TcpLoop`, types included; this and the next four with nothing left of an earlier session (`Leftovers = {}`) |
| `UnitsInOrder` | `DeliveredInOrder` |
| `NumbersAgree` | `SeqAgree` |
| `LastRetransmittedUntilDelivered` | `LastKeptUntilDelivered`, of the unit now kept: not of one replaced by a later send, nor of one refused |
| `ClosesAgree` | `CloseAgreed` |
| `UartTypes` | the types of `UartTx`: the indices stay in the ring and a drain within its burst |
| `FewAreDropped` | `OneByteATransfer`, for any tasks |
| `WriterFindsRoom` | `RoomStays`, if one task only writes to the FIFO itself (`OneWriter`) |
| `FlagKeepsOut` | `DrainKeepsOut`, under the same condition |
| `BytesAccounted` | `Accounted`, under the same condition |

The inductive invariants:

- `SchedInv`: the type invariant, that idle is always ready with the worst
  priority (so that there is always something to pick) and that unused slots keep
  the sentinel, which `AgingAssumption` puts out of aging's reach. Without the
  first there is no witness for the pick; without the second the pick may be a
  slot nobody created.
- `ClientInv` ties where a task is, with the section around its mutex, to its
  `ceiling_depth`, so that an unlock by the client is the outermost one exactly when
  it leaves its last section.
- `TopRuns`: a task in a section at ceiling 0 is the running task at priority 0.
  A tick keeps it because `HolderPick` needs a strictly more urgent task and the
  eviction skips holders of a ceiling.
- `MutexInv`: an owner is inside its section, a waiter is blocked (`Never`) and
  queued, whoever is inside a mutex and neither waits is the owner. It needs
  `MutexUsersUnsupervised`: `evicted_waiter` is its counterexample otherwise.
- `BoostInv`: who is outside the mutexes and the ceiling sections runs at its own priority, and
  has read no other if it is in `uart_puts`. `InheritInv`: base priorities are settled once a task
  is created, a task that never prints is at its own priority or better inside a mutex and inside a section
  one may be taken in, and the owner is as urgent as each waiter. With a user of the mutex that prints, the priority read before
  the loan is its counterexample (section 4).
- `WaitInv`: once aging has brought a task to the top, what it has waited there and what the cursor
  is from it are together less than one turn (`OneTurn`), because every pick that passes it over moves the cursor
  towards it; a task starts at zero when it becomes ready; none is ever less urgent than it was created.
- `LogInv`: the disk is well formed (`DiskOK`: every record is whole, no gap is too long for
  the scan, numbers of records grow), `next_seq` is not in use, the index points at the last record of
  each path it has, and no last record is before `log_start` unless the index names it (`RamOK`); a pass
  of compaction has passed nothing else that is read (`PassSafe`); the chunks written so far of the
  record in hand are on the card behind `next_block` (`JobOK`, `InHand`). From it, what RAM reads and what
  `Recovered` reads are both the last head of the path on the disk, so that a head's write is the commit point
  and everything else leaves the map alone. Renames bring marks (TX_BEGIN). Between calls every mark is
  `Settled`: what it covers is there, and the scan steps over it to where it would have come block
  by block. Inside a rename the last mark is open (`OpenAt`): what it covers has a blank block at the end, which is
  why `Clear` says that nothing lies behind the log. The scan then stops at the mark and a restart reads the log
  before it (`Cut`); RAM already has the copy. The tombstone closes the mark, and both effects appear at
  once. A reset or a refused write between these steps is the counterexample without
  `RenamesUndisturbed` (section 4). The recovery scan is a recursive function. That it exists is proved by
  a least counterexample (`TurnsExist`), and what it holds is an invariant over its turns (`ScanInv`).
- `HeapInv`: regions handed out or about to be lie within the heap, callers have
  one call each, and everything of `kernel_main` lies below the top and below
  every call in progress. The tasks' tops may go back, but never below the last top
  `kernel_main` wrote.
- `Stacked` (for `AloneDisjoint`): with one caller, a call in progress begins at or
  above the top and all that was handed out lies below it.

- For the upload: `CopyOK` (each copy is torn or holds a record, of the newer or the older
  generation). A lookup finds the newest copy, and then a write, whether it is done, refused or torn, is one operation of
  `BootRecord` or nothing; or it finds the one before (`Before`) and has counted a missed lookup, and then the write is an operation
  on that. What is said of the record is therefore said of each record that a lookup may find. `CountCleared`: a boot that
  confirmed itself, with no missed lookup since,
  has left the count at zero. `StartsCounted`: the starts in a row are at most the newest
  record's count and one, and the refused writes and missed lookups; by the count of the record before they are at most one more, which is
  what a missed lookup costs, so that the fallback comes in time. `WayBack`: in each record that may be
  found the active slot is ready and one ready slot holds a healthy image, and while an upload is in progress both rely on the slot that
  runs, and the upload is for the other one and fits into it (`SlotsKept`, `UploadElsewhere`); it is where `Careful` is needed.

- For stage 0: `TypesInv` (types, `Lengths`: no buffer and no FIFO holds more than it has room
  for, and `Calls`: where `main` is says which call the driver is in), with
  `NotForced`: the force bit that drains the FIFO never throws a write out and is
  never left set. `Reading`: what the driver has, then the FIFO, then what is still on the card
  is a sequence with `d` words of an earlier command in front and the block in order behind them; a
  call that began clean has `d = 0`, any other delivers a shifted block, which has no
  record's word in its place, so that a record is never read from a wrong address or behind a
  leftover. `Writing`: the card's part, the FIFO and the driver's rest are the buffer.
  `Asked`: a clean call has the right address. `Known`: what `main` has read is on the card.
  `RecordSafe`: a write goes to a copy that is not the only valid one. Two assumptions on the card
  (`CardOK`): one of the copies is valid at first, and words of a record lie only in their
  place. The second stands for the magic number and the CRC.
  `LoadSound`: memory grows by whole blocks and is as long as the image before it is hashed, the context
  is `HashedSoFar` of what the pieces have taken from it, and nothing follows the jump or a fault.
  Messages of one length with one `Digest` are equal there: the model's compression has no collisions.

- For TCP: `TcpInv` says in which phase of a session the slots are. While slot 1 listens and slot 0 is
  closed or waits for its SYN-ACK (`Opening`), the queue may hold any frames of the last session, but none with a
  SYN, and none behind the new one (`OldFirst`); neither slot listens to them. From then on
  (`Talking`) every frame says what is true of its sender (`GoodFrame`): an acknowledgement lies
  between what the sender knew of its peer first (`Known`) and what it expects now, a FIN was sent by a slot that has
  finished, a unit has the number of its place. With that a handler that believes a frame is right to: a slot
  that left `syn_rcvd` has a peer that knows its number (`Shaken`), and what is kept for
  retransmission is the last unit of this session that the queue accepted, delivered unless a deadline or the end of the retries says
  otherwise (`Kept`). Once both slots have sent their FIN (`BothFinished`), nothing is delivered
  and nothing is believed any more, which is why frames need not be good then. The numbers of two sessions, or of the two
  slots, need not differ: the phases keep sessions apart, not their numbers. The two
  values of `Leftovers` are the counterexamples otherwise (section 4).

- For the UART: `Something` (a task that is printing has a byte left to print) and `Filled` (a transfer
  reads only what has been put into the buffer), which the types need. `DrainInv`: a drain that writes has a byte
  to write and found the flag clear and the engine idle, and if the FIFO is full by then a
  transfer has ended that has no dropped byte to its account yet. For `RoomStays` and `DrainKeepsOut`
  that only the writer is in bytes of its own, that no transfer goes on there, and that the flag
  is set from `SetBusy` to `ClearBusy`. `McRaceUses` is its counterexample with two writers.
  `OrderInv` (for `BytesAccounted`) cuts the way of a source's bytes where they change hands, and says of each
  stretch that the numbers in it follow those of the one before: for the ring, the FIFO ends with the
  number before the oldest byte in the ring, and what is dropped is older than that (`RingOrder`); for a task, before what a transfer has
  still to read, and that before what the task has still to write (`TaskOrder`). `ScratchOwn` keeps other
  tasks' bytes out of the buffer. A task's part says nothing once the engine has stopped, the ring's does.

Every invariant, action property and refinement of a passing run is stated by a theorem, under
hypotheses that the run's constants meet. The prover cannot do liveness under fairness, which
stays with TLC (`ReadyRuns`, `UrgentWaiterOwns`, `ComesUp`, `Stage0Ends`, `RingEmpties`,
`PrintsEnd`). `TcpLoop`'s `Ignored` has an `ENABLED` in its guard, which its proofs do not use: they
show that a frame may be ignored at any moment.

## 6. What is not modelled

The components with status `not_modelled` in `PROJECT.json`, each with its
reason, and within the modelled ones: register and stack saving, the wrap of
`tick_count`, deadline counters and shadow predictions (they change no
decision), DVFS; a block write that reports failure although the card did it (for
the log; the boot record's may); encryption at rest, permissions and snapshots of the file system; the regions of
the card next to the log; the composition of the heap with the file system, which
allocates 512 bytes for every block it appends and never frees them; user code
beyond its use of the locks.

Of the boot: the lengths of images that are no whole blocks, the receive ring of a
stream, failed reads of a copy of the progress record (with one, an upload that was given up may be found in progress
again and go on into the slot it was for, which `MayResume` would have to exclude by both copies), `preferred_slot` (never read), the console, and the moments at which stage 0 arms
the watchdog (every 512 blocks and every piece it hashes), because no module has time. The kernel's
own SD driver is an older copy of stage 0's and is a block device here.

Of TCP: the window (always 65535), RST, ports, checksums, connections over a real
interface, and time.

Of the UART: its input. The receive ring and the shell's line are not modelled, and the shell is
only a client of the locks.

The Pi 4 kernel is a reduced second implementation and is left out. The FS queue and
the mailbox are used by nothing but self-tests at boot: `task_fsq` polls a queue that stays empty.
DHCP, ARP, WPA2, USB hot-plug, TLS and SSH depend on devices or peers that would have
to be modelled first.
