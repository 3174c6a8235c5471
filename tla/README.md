# VTX2 verification

TLA+ models of VTX2, a small x86-64 operating system written in C: a
preemptive kernel, a journaling file system, drivers for AHCI disks, xHCI,
PS/2 keyboard and mouse, and a desktop with a file manager and an editor. The
modules are translated from the C source; TLC checks them on small instances
and TLAPS proves nearly all of their safety properties for every value of the
constants.

Paths such as `vtx2fs.c:342` are relative to `src/src/` of this tree.

## 1. The system

One processor. After boot two kinds of activity exist:

* the **main loop** of `kernel_main` (task 0, ring 0, interrupts enabled): it
  halts, and after each interrupt polls keyboard, mouse and xHCI ports and
  runs the desktop's handlers to their end, file system and disk accesses
  included;
* **interrupt handlers** (timer, keyboard, mouse, exceptions, `int 0x80`),
  each run with IF clear, so none interrupts another. The timer handler
  switches between the main loop and the user tasks.

Which handler a line reaches, and whether it is ever asked for again, is
decided at boot: from the firmware's tables `kernel_main` takes the APICs or
the two 8259, and each handler must end its interrupt at the one in use.

There are no locks. What the handlers share with the main loop are plain
statics, none of them `volatile`: the indices of the keyboard buffer, the
mouse's state, packet and flag, the tick counter, the task list. `build.sh:28`
compiles without optimization, so each access is made where the source has it,
and the models take them in that order; that is where interleaving matters (an
optimizing build might keep some of them in registers). The main loop is never
interrupted by another *file system* caller, so there the hard behaviour is a
power cut or a device error between two block writes.

| Component | State | Operations | Works with | What makes it correct |
|---|---|---|---|---|
| Tasks, scheduler (`task.c`, `pit.c`, `syscall.c`, `exceptions.c`, `tss.c`, `isr_stub.s`) | task pool, circular list, current task, TSS `rsp0`, ticks | create, timer tick, `SYS_EXIT`, fault, switch | everything runs under it | one owner of the processor; registers on the right stack; exited tasks never return; nobody starves |
| VTX2FS (`vtx2fs.c`, `vtx2fs_state.c`) | superblock, entry table, bitmap, data and index blocks | format, mount, create, mkdir, write, truncate, delete, read, list, stat | journal, disk | entries form a tree; blocks never shared; reads give back writes; no leak |
| Journal (`vtx2fs.c`) | ring of records, write offset | log and place a block, replay at mount | VTX2FS, disk | after any crash the latest image, whole, or the one in progress |
| Keyboard (`keyboard.c`) | ring, head, tail, modifiers | interrupt push, `keyboard_get_char` | main loop | a queue: no loss but when full, no reordering |
| Mouse (`mouse.c`) | packet buffer, position, buttons, wheel, "updated" flag | interrupt byte, `mouse_update` | main loop, windows | packets whole; no invented click; cursor on the screen; last movement shown |
| File manager, editor (`filemanager.c`, `editor.c`) | rows, directory stack, context menu; text, attached file, name prompt | clicks and keys | VTX2FS | long-lived entry indices keep naming what they were taken for |
| Pages (`pmm.c`) | bitmap, counters | init from the memory map, allocate, run of pages, free | heap, paging, drivers | pages apart, none lost, the count of free pages right |
| Heap (`kheap.c`) | arenas of blocks | kmalloc, kfree, growth | pages | arenas tiled, allocations apart, merged free space |
| AHCI (`ahci.c`, `vtx2fs_ahci_bridge.c`) | command list and table, selected port | port set-up, IDENTIFY, read, write | the adapter (DMA), VTX2FS | success means done, to the caller's buffer only; calls return |
| xHCI (`xhci.c`) | command and event rings, EP0 rings, debounce counters, port slots | push a command, wait for an event, poll ports, enumerate | the controller (DMA), main loop | commands and events once, in order; answers are own; ports and slots agree |
| Windows, desktop (`window.c`, `desktop.c`, `info.c`, `ui.c`, the loop of `kernel.c`) | place, size, drag, minimized, maximized | click, drag, wheel, task bar, power button | mouse, keyboard, applications | windows stay on the screen; one follows the mouse only while the button is down |
| Shell (`maxbash.c`) | a command line, the history, its scrolling | key, wheel | keyboard, windows | a line of the history is always in sight |
| Interrupt controllers, tables (`pic.c`, `lapic.c`, `ioapic.c`, `irqctl.c`, `idt.c`, `madt.c`, `acpi.c`) | masks, redirection entries, mode | find tables, choose and program a controller, end of interrupt | the handlers, scheduler | each line reaches its handler and no other, but for what the firmware left at work; every interrupt is served |
| Paging (`paging.c`) | page tables | identity map at boot, device regions later | pages, drivers | the map is an identity; nobody else holds a table |
| PCI, console, loaders | fixed after boot | set up once | | not modelled: see section 6 |

The hard behaviours, each at its line, are the `hazards` of `PROJECT.json`,
with the properties that watch them.

## 2. Modules

`X.cfg` is run on module `X`; an `MCX` module adds what only TLC needs.
Operators whose comment says *mutant* are plausible bugs, each used to see
that a property can fail; no specification uses them.

| Module | Code | Correspondence |
|---|---|---|
| `Scheduler` | `task.c`, `pit.c`, `syscall.c`, `exceptions.c`, `tss.c` | One action per handler, because handlers run with IF clear. `nxt` is the linked list, `Walk` the loops over it, and a walk that never meets its end is the action `CreateHangs`. `frame[t]` is the stack `rsp` points into, `rsp0` what the TSS gives; `Schedule` is `task_schedule` with the switch. `FatalStop` is every `hlt` with IF clear. |
| `Interrupts` | `acpi.c` (tables), `madt.c`, `pic.c`, `lapic.c`, `ioapic.c`, `irqctl.c`, `idt.c`, `kernel.c` 56-131 | EXTENDS `Scheduler`. `board` is a machine: its tables, how its lines are wired, and what the firmware left at work: masks of the 8259, entries of the I/O APIC (`left`) and other sources of the local APIC (`local`), whose interrupts are `LeftoverInterrupt`. `SetUp` is the choice of a controller; `FindTable`, `Visited`, `IsaMap`, `BootCpu` and `IoApic` are the walks over the tables as what they select. Taking a vector, its handler and the end of interrupt are one action; the timer's is `Tick`. |
| `MCScheduler` | | Five boards, and a history variable that counts how often a ready task was passed over, up to `MaxTasks`. |
| `InterruptsProofs` | | Theorems of `Scheduler`, `Interrupts` and `MCScheduler`, section 5. |
| `Journal` | `vtx2fs.c` 255-440 | Words of 8 bytes, blocks as the unit of atomicity, records not aligned on blocks. One action per device write. |
| `Vtx2fs` | the rest of `vtx2fs.c`, `vtx2fs_state.c` | `op` is the operation in progress; one action per device write of data, index block, bitmap bit or entry. A journaled write is one action here. An encrypted create is two transactions (`CreateEncrypted`, `SealEntry`), an encrypted write one plain write for each chunk, which `Cipher` ties to a key and a position. |
| `FileStore` | | Abstract specification: a tree of entries with contents; a block of a file is what reading it gives and what was last put there, which a write past the end leaves open for the gap. `Vtx2fs` implements it. |
| `Vtx2fsProofs`, `JournalProofs`, `FileStoreProofs` | | Theorems, section 5. |
| `MCVtx2fs` | | Symmetry of names. |
| `BoundedFifo` | | Abstract specification: a bounded queue. |
| `KeyboardRing` | `keyboard.c` | The handler is atomic, `keyboard_get_char` three steps. Implements `BoundedFifo`. |
| `Windows` | `window.c`, `info.c`, `ui.c` | Operators on the record of one window: hit boxes, drag, maximize, minimize, restore. |
| `Desktop` | `kernel.c` (loop), `desktop.c`, `maxbash.c`, `mouse.c` 152-177 | EXTENDS `KeyboardRing` and `Windows`. The loop, step by step where it reads what an interrupt may change; every window gets every click. |
| `DesktopProofs` | | Theorems of `KeyboardRing` and `Desktop`, section 5. |
| `MCDesktop` | | What the user does in one behaviour: a *session* bounds packets and keys. |
| `Mouse` | `mouse.c` | The handler (one byte) is atomic; `mouse_update` is one step per access to a shared variable, in source order; the clamping is a test and a write. |
| `FileApps` | `filemanager.c`, `editor.c` | One action per click or key that changes state. The file system is an atomic table; a call may fail where the code looks at the result and where it does not. |
| `Pmm` | `pmm.c` | `pmm_init` is `PmmInit`, for a memory map that is any sequence of regions, also overlapping ones; one action per function. |
| `KHeap` | `kheap.c`, over `Pmm` | EXTENDS `Pmm`: growth takes real runs of pages, and other users of `Pmm` take and give back theirs in between. Sizes count units of 16 bytes, addresses are page number and offset in one number. |
| `FileAppsProofs` | | Theorems, section 5. |
| `Paging`, `MCKHeap` | `paging.c`, over `Pmm`, beside `KHeap` | EXTENDS `KHeap`. `table` is what each page says when read as a table, so a table that is not zeroed or that lies in page 0 is visible; `Translate` is the processor's walk. |
| `MemoryProofs` | | Theorems of `Pmm`, `KHeap` and `Paging`, section 5. |
| `Ahci` | `ahci.c`, `vtx2fs_ahci_bridge.c` | The driver step by step, and an adapter that fetches, moves sectors, completes, fails or stays silent on its own. |
| `XhciRing` | `xhci.c` 227-400 | Both rings as arrays of entries with cycle bits; the controller follows them with its own cycle state. |
| `XhciPorts` | `xhci.c` 403-570 | The polling loop, with each blocking step of an enumeration as an action that may fail or time out; devices come and go in between. |
| `DeviceProofs` | | Theorems of `Ahci`, `XhciRing`, `XhciPorts` and `Mouse`, which share no state, section 5. |

By extension `KHeap` composes with `Pmm` and `Paging` with both, `Interrupts`
with `Scheduler`, and `Desktop` with `KeyboardRing` and `Windows`. By
`INSTANCE ... WITH`, `KeyboardRing` implements `BoundedFifo` and `Vtx2fs`
implements `FileStore`. `Journal` and `Vtx2fs` divide one file:
`Vtx2fs` takes a journaled write as atomic, and `Journal` shows when it is.
`FileApps` takes a file system call as atomic, and `Vtx2fs` shows what is
inside. `XhciPorts` takes a command as an answer or a timeout, and `XhciRing`
shows that an answer is to the command asked.

Hardware is modelled from the way the code drives it: those definitions are
marked external in the map. Where the code leaves the hardware free (order,
delay, silence, errors) the model is nondeterministic.

## 3. Runs

| Run | Bounds, and why they are enough | Shows |
|---|---|---|
| `scheduler` | 3 user tasks, quantum 2, creations may fail. Three tasks are the least where one can be passed over by two others and where one in the middle of the list ends. 5 boards: without tables and a line left unmasked, without an I/O APIC, without a local APIC; and two with APICs: an override, a damaged table before the good one, two I/O APICs, a processor that is off, entries of the I/O APIC left on a pin the kernel writes over and on ones it does not, a local source left running. Lines 0, 1, 2, 12 and one without a handler | `ProcessorOwner`, `StackDiscipline`, `RingIntact`, `BoundedBypass`, `TerminatedStays`, `EveryReadyTaskRuns`; `LinesReachTheirHandler`, `NoStrayVector`, `EveryIrqServed` |
| `journal_recovery` | blocks of 4 words and records of 10, so that headers and payloads cross blocks as they do on a disk; 2 target blocks, 3 records fit in the journal, 5 transactions, 2 crashes, 1 device error: a wrap, a crash after it, and a crash during its replay | `OnlyWholeImages`, and `MountKeepsLatest` when the crashed session's records were the only ones |
| `journal_wrap` | a journal of 2 records | violation of `MountAlwaysKeepsLatest` |
| `vtx2fs_failures` | 3 entries, 5 blocks, one direct and one indexed extent, 2 names, 5 operations (3 where one is encrypted), writes of 1 or 2 blocks from any position, 1 crash, 1 error: every allocation path, an index block, a gap in the middle of a file, one filled with another file's old block, a full table, a full disk, an encrypted write of two chunks | `TreeIntact`, `NoSharedBlocks`, `ReadsBack`, `NoLeak`, `SecretsSealed`, `RefinesFileStore` |
| `vtx2fs_powercut` | the same without encryption, 3 operations | violation of `PowerCutSafe` |
| `desktop` | a screen of 4 by 3, two windows of 3 by 2, a ring of 3 slots, a line of 3 characters, a history of 3. Four sessions: any number of packets anywhere but on the buttons that open windows; any number of keys with shift and caps lock; 5 keys of the shell with 3 packets; 4 packets everywhere | `RefinesFifo`, `WindowsOnDesktop`, `DragNeedsButton`, `ScrollShowsALine` |
| `mouse` | 3 packets of 4 bytes, one byte lost, a screen of 2 positions | `NoPhantomClick`, `ScrollNotInvented`, `OffScreenOnlyWhilePending`, `Settles` |
| `file_apps` | 3 entries besides the root, 2 rows of which 1 is in sight, 2 levels, 1 character: a deleted index is reused and a directory may have more entries than rows | `RowsLive`, `NavIntact`, `EditorShowsItsFile`, `DeletesTheChosen` |
| `memory` | 8 pages of 9 units, a map with page 0, one with a hole that ends past the bitmap, one with regions that overlap and one too small for the page tables, arenas of 1 page, sizes 1, 2 and 9, tables of 3 entries, a device across the end of the identity map and one in another entry of the root table: blocks split and merged on both sides, one that fits exactly, an arena larger than the default, tables added and found, no page left | `PagesPartitioned`, `AllocationsApart`, `Tiling`, `IdentityHolds`, `TablesApart` |
| `ahci` | 2 disks, 4 calls, 2 sectors | `OkMeansDone`, `QuietAfterReturn` |
| `xhci_ring` | 4 command entries and the link, 3 events, 9 commands (two laps), 2 stray events | `CommandsOnceInOrder`, `AnswersAreOwn` |
| `xhci_ports` | 2 ports, 2 slots, 3 connections, so slots run out; counts up to 4 instead of 255 | `SlotOfItsPort`, `SeenDeviceTried` |

The type invariant of a module, with the bounds of its indices and counters,
is checked as the first part of one of its invariants (`TreeIntact`,
`OnlyWholeImages`, `RowsLive`, `Tiling`, `OffScreenOnlyWhilePending`,
`SlotOfItsPort`) or proved (`Scheduler`, `KeyboardRing`, `FileStore`, and for
`Paging` as a part of `PagingInv`); those checked are proved too. The
largest runs have about a million distinct states. Names that bound a behaviour start with `Max` and are given in each `.cfg`.
Deadlock is checked except where a behaviour really ends: the machine stopped,
or the operations, crashes or calls of the instance are used up.

**What the properties are conditional on.** These are limits of the code, and
the properties say so:

* `RingIntact`, `BoundedBypass` and `EveryReadyTaskRuns` hold until a task
  creation fails: `task_create_user` takes its count back but leaves the slot linked.
* `LinesReachTheirHandler` is about boards whose tables describe their wiring
  (`TablesTellTheTruth`) and whose ISA lines are wired to the first I/O APIC of
  the table, the only one the code programs.
* `NoStrayVector` is about the lines of such a board and allows, for a line
  without a handler, what the firmware left at work for it (`Leftover`): at
  the 8259 a line that was unmasked, because `pic_remap` puts the masks back;
  with the APICs the entry of a pin that `kernel.c:86-103` does not write,
  because nothing masks the others. Such a line, a local source
  (`LeftoverInterrupt`) and a spurious vector, whose gate is `default_isr`,
  stop the machine, or run the timer's handler if the firmware used that
  vector: the scheduler's properties hold with all of them. Two things
  are assumed of the firmware: a leftover vector is neither an exception's nor
  the system call's (`LeftAssumption`), and with the 8259 the local APIC
  delivers nothing of its own, since only `lapic_init` switches it on.
* `PagesPartitioned` counts what `pmm.c:55` counts: a page that the memory map
  lists again goes into `g_free_pages` again. Nothing in `pmm_init` looks for
  that, and `stage2.asm:260-275` passes on the low halves of what the firmware
  lists, so regions may overlap. The property says that the count exceeds the
  free pages by exactly those repetitions (`again`), for ever.
* `IdentityHolds` and `TablesApart` hold if there were pages enough for the
  tables at boot (`Enough`); otherwise the code builds them in page 0. No page
  that `Pmm` tracks lies above the identity map, as in the code
  (`PMM_MAX_TRACKED_PAGES`). No region reaches beyond what four levels of
  tables can map (`RegionsAssumption`, 2^48 bytes): `paging_identity_map_region`
  keeps 9 bits for each index and drops what is above, so that a register up
  there would be mapped at another address. No firmware puts one there.
* `DragNeedsButton` is about windows that can move: neither minimized nor
  maximized. A second press on the buttons of a dragged header before the
  next update leaves a minimized window with its drag flag set; restored, it
  jumps after the mouse. The property also allows the update in progress: a
  release between `mouse.c:157` and 171 starts a drag with the button up,
  which ends with the next update.
* `WindowsOnDesktop` keeps windows below row 35, the last row of the task bar:
  the first row of a header overlaps it, as in `window.c:115`.
* In the sessions with keys `RefinesFifo` is about a machine that is not
  switched off.
* `SecretsSealed` counts the plain entries that a crash or an error between
  the two transactions of an encrypted create leaves, and no more. Such an
  entry keeps the name in the clear, and a retry gets `VTX2_ERR_EXISTS`. That
  nothing secret is *in* such a file follows from its caller, which writes
  only after the create has returned, and is not stated.
* `ReadsBack` and `RefinesFileStore` say nothing of what a gap holds.
  `vtx2_write` takes any position; when it lies past the end of the file the
  blocks between are allocated (or kept from before a truncation) without
  being cleared, and the size moves over them (`vtx2fs.c:883`). Reading them
  gives whatever they held, the old contents of another file included. The
  properties say that every block that was written reads back, at whatever
  position it was written, and that a gap changes nothing else.
* `RefinesFileStore` and `ReadsBack` hold until a delete was interrupted
  (`torn`). A plain `vtx2_write` on an encrypted file is allowed by the code,
  and an encrypted read of it then gives garbage: `ReadsBack` compares what
  each way of writing left with the way it was written.
* `OnlyWholeImages` holds until a crash or an error cuts a BEGIN header that
  straddles two blocks: after a wrap, the new header's first half (magic and
  target) then stands in front of the checksum, payload and COMMIT of an older
  record, which is accepted and replayed to the new target. Without that
  condition TLC finds it.
* `MountKeepsLatest` holds when the journal held only the crashed session's
  records; the finding on wrapping shows why.
* `NoSharedBlocks` and `ReadsBack` hold until a delete was interrupted; the
  finding on power cuts shows why.
* `EditorShowsItsFile` holds until the attached file was deleted behind the
  editor (nobody tells the editor), and its second part until a call of the
  file system failed (the editor ignores a failed truncation).
* The AHCI properties hold until the first timeout. After it the adapter may
  still own the one command table that the next call rewrites.
* The xHCI ring properties hold as long as fewer commands are pending than
  the ring holds (`overfull`): `cmd_ring_push` has no test for a full ring.
* `SeenDeviceTried` is about a device that is *seen*. One that replaces
  another between two polls keeps the old slot, one whose enumeration failed
  is not tried again until unplugged, and slots are never given back.

### Findings

Two disagreements between the code and its comments, each a run that must find
the violation; the quoted comments are in `PROJECT.json`.

1. `journal_wrap`: after the write offset returned to 0, replay applies
   records of the previous lap after newer ones, and a mount puts an old image
   over a newer, reported one.
2. `vtx2fs_powercut`: `vtx2_delete` frees the blocks, one transaction each,
   before it clears the entry; a power cut in between leaves a live file whose
   blocks are free for others.

## 4. Fairness

Liveness is stated only where the code's scheduling justifies it:

* `WF(Tick)`: the PIT interrupts at 1000 Hz whatever runs;
  `WF(EnableInterrupts)`: `kernel_main` creates a fixed number of tasks and
  reaches `sti`. Exits and faults are never owed. Since the machine may stop
  (`FatalStop`), the properties are stated up to that.
* `WF(SetUp \/ Sti)`, `WF(Raise(Timer))` and `WF(Interrupt)` in `Interrupts`:
  `kernel_main` sets up a controller and reaches `sti`, the PIT raises its
  line, and the processor takes what the controller presents, which one is up
  to the controller's priorities. A line asks again only after those that were
  waiting have been served (`passed`): a handler takes microseconds, and a tick
  or a byte of a PS/2 device comes at most every millisecond or so. Without
  that a higher line could starve a lower one on any machine.
* `WF(Get)`, `WF(Loop)` and `WF(Update)`: the main loop polls for ever. It is itself a
  task, and the scheduler's `EveryReadyTaskRuns` is what gives it the processor.
* `WF(PollDriver)` in `XhciPorts`: the main loop polls the ports for ever, and every
  wait in an enumeration is bounded by ticks. The controller owes nothing.
* The other modules state safety only. That a driver's wait ends is in the
  shape of the models (each wait may give up at any moment), so it is not
  stated as a property.

## 5. Proofs

Each theorem holds for every value of the constants that the named assumptions
of its module allow (sizes, sets of names, boards, bounds), so the bounds of
section 3 limit only what TLC looks at. The bounds named `Max...` stay in the
models as arbitrary numbers. The pattern is the same everywhere: an inductive
invariant, true at first and kept by each action, from which the property
follows.

**Scheduler and interrupts** (`InterruptsProofs`).

* `TypeCorrect`, `OwnerAlways`, `StacksAlways` (`TypeOK`, `ProcessorOwner`,
  `StackDiscipline`) and `ExitedNeverRuns` (`TerminatedStays`). `IInv` adds
  `BootState`: before `sti` the pool is half made and only the kernel task has
  run, so a creation does not touch the running task. `ScheduleStep` is the
  heart: whatever task states it starts from, `Schedule` gives the processor to
  one task, saves the frame of the one that leaves on its own stack and never
  revives a terminated task.
* `RingStaysIntact` (`RingIntact`). `RingShape`: until a creation fails the
  list goes round the slots in the order in which they were handed out, and
  each task but the running kernel task has a stack to come back to. With it
  `RingWalk` says where a walk of `task_schedule` is after any number of steps.
* `NobodyIsPassedTwice` (`BoundedBypass`). `Turns`: a waiting task has been
  passed over no more often than there are tasks between it and the place the
  processor has reached in the list.
* `InterruptsDriveTheScheduler`: each step of `Interrupts` is one of
  `Scheduler` or none, so the invariants carry over to every board
  (`OwnerUnderInterrupts`, `ExitedNeverRunsUnderInterrupts`,
  `RingUnderInterrupts`).
* `LinesAlwaysRight` and `NoLineStrays` (`LinesReachTheirHandler`,
  `NoStrayVector`), on every board where `TablesTellTheTruth`.
  `ControllersSet` says what the two ways of `kernel_main` leave in the
  controllers, for ever because nothing writes them again, and `EntriesFacts`
  what is left on each pin: the kernel's entry on those it writes, whatever
  was there before, and the firmware's on the others.

**File system** (`Vtx2fsProofs`). One invariant, in layers; each part says
what the operation in progress holds at each of its program points.

* `CoreInv` (entries, tree, what is on its way to the entry table): gives
  `TreeStaysIntact` (`TreeIntact`).
* `SpaceCore` adds which blocks the operation has taken and which it is about
  to give back, apart from those of every file: gives `BlocksStayApart`
  (`NoSharedBlocks`).
* `DataCore` adds that the index block of a file lists its blocks and what each
  block was last written with, if anything (`Unwritten` in a gap), so that a run of new blocks never touches a
  block some file reads: gives `FilesReadBack` (`ReadsBack`).
* `LeakCore` adds that, while nothing failed, the bitmap is exactly the files'
  blocks and the operation's: gives `NothingLeaks` (`NoLeak`).
* `SecretCore` counts the plain entries of encrypted creates against crashes
  and errors: gives `SecretsStaySealed` (`SecretsSealed`).
* `StoreCore` adds that what a write put beyond the old end of a file is its
  own, from where it started, and that nothing was put into the gap before. With it each step is one of `FileStore` or none:
  `FileSystemImplementsStore` (`RefinesFileStore`), by one lemma for each
  step of the abstract store, and the rest shown to be a stutter.

`FileStoreProofs`, what the abstract store keeps in turn: `StoreKeepsItsTree`,
and `StoreReadsBack`: what was put into a block is what reading it gives.

**Journal** (`JournalProofs`). `JInv` follows a record through its life: while
it is logged (`Logging`), placed (`Placing`), in the ring behind the write
offset (`Lap`), and after a crash (`ReplayShows`, `HomeComes`): what a block
does not show yet, the rest of the replay brings. `Zeroing` is about the blocks
a mount clears, in order, and `Whole` says that a slot with the header and the
payload of a record has an image that was logged whole for the block it names. They give `OnlyWholeImagesArrive`
(`OnlyWholeImages`) and `MountKeepsTheLatest` (`MountKeepsLatest`).

**Applications** (`FileAppsProofs`). `IInv` is `Types`, `TreeInv` (the root is a
directory, no other entry its own parent), `MenuInv` (an open menu remembers
the entry of the row it was opened on), `RowsInv`, `NavIntact` and
`EditorShowsItsFile`. They need each other: that the rows stay live when an
entry goes needs the listing that follows, and the path stays a path because a
directory with an entry in it is not deleted.
Theorems `RowsStayLive`, `NavStaysIntact`, `EditorStaysAttached` and
`OnlyTheChosenIsDeleted`.

**Memory** (`MemoryProofs`). `PmmInit` gives the count by `ClearedCount`: the bits
cleared are the pages of the map, each once, and the repetitions. `MInv` is the allocator's invariant, that each
arena is one of its runs, and the heap's: an arena is a chain of blocks from
its start to its end. Splitting, merging on both sides and growth each rebuild
the chain; the page tables take pages like any other caller. Theorems
`PagesStayApart`, `ArenasStayTiled` and `AllocationsStayApart`
(`PagesPartitioned`, `Tiling`, `AllocationsApart`) of the composition that the
run `memory` checks.

`TablesStayApart` and `IdentityAlwaysHolds` (`TablesApart`, `IdentityHolds`)
need more than what the processor can see of the tables: that a walk finds a
page where it should says nothing of what the next call adds. `PagingInv` says
that some map `m` describes them (`Tree`): which pages are tables, at what level
each stands, and what number leads to it. A table's place then fixes what an
entry of it must hold (`Placed`), so a table linked at the wrong index, one
linked twice, or one not zeroed would break it. The argument has four parts:

* `Digits`: the four indices of a page are the digits of its number.
* `NthIs`: the pages that `pmm_alloc_page` returns, call after call, are free
  and all different, so a new table is none of the old ones (`Graft`).
* `BootIs` and `BootTree`: what the recursion of `paging_init` gives, in closed
  form; the recursion has that solution and, by least counterexample, no other.
* `PageMapped`: the walk of `paging_identity_map_region` for one page, each call
  of `table_child_or_create` a step (`ChildDescends`). It ends with the page
  mapped or without memory; either way the tables are such a tree still, and no
  entry that was present has changed, so what was promised earlier holds (`Kept`).

**Keyboard and desktop** (`DesktopProofs`).

* `TypeCorrect`, `ReadAlwaysValid` (`ReadStaysValid`: the slot being read is not
  overwritten before the tail moves) and `RingImplementsFifo`: the safety part
  of `RefinesFifo`, under the refinement mapping `Queue`. `LoopReadsAQueue` is
  the same in the main loop.
* `WindowsStayOnDesktop` (`WindowsOnDesktop`), if the windows fit below the task
  bar at first: clamping by the window's own size keeps it inside, and a
  maximized window's saved place is kept like that of any other.
* `NoDragWithoutButton` (`DragNeedsButton`). `ButtonKnown` relates the three
  readings of the button in `mouse_update`: what the windows were told last is
  what the loop saved, or a step of the update is still to come.
* `ALineInSight` (`ScrollShowsALine`).

**Devices** (`DeviceProofs`).

* Mouse: `ClicksAreReal`, `TicksAreReal`, `OffScreenIsPending`
  (`NoPhantomClick`, `ScrollNotInvented`, `OffScreenOnlyWhilePending`).
  `Aligned` (without a lost byte the packet under way is the report being
  sent), and two accounts: `ClicksPaid` and `TicksPaid` add up what was
  reported, what is on the wire and what `mouse_update` holds in its locals.
* AHCI: `SuccessMeansDone` and `MemoryIsQuiet` (`OkMeansDone`,
  `QuietAfterReturn`). While no call gave up, `Good`: a command
  that the adapter can still serve is that of the call in progress, and the one
  shared table is that call's from the step before it is issued.
* xHCI rings: `CommandsRunInOrder` and `AnswersComeHome`
  (`CommandsOnceInOrder`, `AnswersAreOwn`). `RingInv` gives, for each cycle bit
  of the command ring, what it says: `CmdBehind` has the three ways to
  stand: the controller behind the driver on the same lap, on the lap before,
  or both at the end of one, the link not written yet.
* xHCI ports: `SlotsStayWithTheirPort` (`SlotOfItsPort`), with `Enumerating`:
  what is known between two steps of an enumeration.

**What stays with TLC.** Liveness under fairness and `ENABLED`:
`EveryReadyTaskRuns`, `EveryIrqServed`, `Settles`, `SeenDeviceTried` and the
fairness part of `RefinesFifo`. Every other property of a passing run has its
theorem. The two findings are
violations, found by TLC.

## 6. What is left out

* *Data.* Checksums are collision free. Sizes and offsets in `Vtx2fs` count
  blocks, so `vtx2_write` at a position inside a block is not told apart from
  one at its start. Names are short model values. A
  key stands for a password and its salt; a name in cipher differs from every
  other name; a wrong password is refused before anything changes, so it is no
  step. An encrypted chunk (512 bytes) is one block, a block size the format
  allows.
* *Devices.* A block write is atomic. In `Vtx2fs` and `Journal` a write that
  fails has not changed its block; `Ahci` allows that it has. In `Vtx2fs` a
  journaled write is atomic; that the record of a failed one may be replayed
  later is in `Journal`. A disk that is torn inside `vtx2_format` is
  formatted again, and modelled stage by stage.
* *Garbage the code never reads back.* A delete interrupted in the middle
  leaves an index block that may be reused: properties about the file stop
  there (`torn`).
* *Scheduler.* `task_create` (kernel tasks) has no caller in the repository
  and `SYS_WRITE` changes no task state.
* *Mouse.* One axis, one button, the wheel in one direction; the axes are
  treated alike. The initialisation dialogue and the pixels are left out.
* *Desktop.* `Windows` counts rows and columns: a header of two rows, its three
  buttons in the second. Two windows stand for the four; the file manager's
  and the editor's are handled by the same functions. What a command prints is
  counted in lines. Drawing reads the state and changes nothing.
* *Interrupts.* Local APIC registers other than the end of interrupt and the
  spurious vector (what the firmware left in the local vector table is the set
  of vectors `board.local`), the remapping words of the 8259, and the assembly stubs.
  Two I/O APICs are told apart only in that the second is not used.
* *Paging.* All four levels of tables are there, with a few entries each instead
  of 512. `paging_init` is one step, and so is one page of a region with the
  tables it needs; loading CR3 is part of them. That the processor takes only
  the canonical half of the addresses is left out.
* *ACPI, power.* `acpi_find_table` and the choice of the root table are in
  `Interrupts`, and the power button ends a session of `Desktop`. Parsing `_S5`,
  enabling ACPI and the writes to the control ports change no state of the
  kernel.
* *FileApps.* The disk is mounted. The scrolling of the editor, which only moves
  what is drawn, and the maximised layout are left out. A click is given to every window under it, as `desktop.c:74` does, so
  each window's action may happen at any moment; a minimised file manager
  still takes clicks, as in the code.
* *AHCI.* After an error the adapter needs a restart that the code does not
  perform, so later commands time out. `ahci_select_disk` has no caller.
* *Pages, heap.* `pmm_free_page`, `pmm_free_contiguous` and `kfree` have no caller
  in the repository; they are modelled as the interface they are.
* *xHCI.* The reset and start of the controller, the contents of contexts and
  the port register bits. EP0 rings follow the command ring's code.
* *Not modelled.* PCI (configuration space reads, no state of its own);
  console, font and back buffer (pixels); the GDT; the two loaders, which run
  once before the kernel and in another environment.

Seen while reading, and no claim of any document: `draw_int` of `kernel.c` has
no caller, and a half-made task (`task.c:107`) stays in the list after its
creation failed (`CreateHangs` and the phase "wild" show what follows).

## 7. Plan

Done, most important behaviour first: scheduler, journal, file system,
keyboard, mouse, applications, memory, AHCI, xHCI; then the interrupt
controllers under the scheduler, the desktop and shell over the keyboard,
paging over the allocator, encryption, and the abstract file system.

Also done: a theorem for every safety property of a passing run.

Next, models: `FileApps` over `FileStore` instead of its own table, with its two
windows those of `Windows`; the reset and start of the xHCI controller.
