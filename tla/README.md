# Verification of gkern

TLA+ models of gkern, the Golem Linux kernel (`src/src`), with TLC runs on
small instances and TLAPS proofs. Modules are translated from the source;
`PROJECT.json` maps every definition to the lines it stands for, and lists the
components, runs, mutants, findings, hazards and theorems.

## The system

`kernel_main` (main.rs) brings up, in this order, the Sentinel's statics,
memory, the Safe Mode migration, the filesystem, CPU detection, the scheduler
and the syscall MSRs; then it prints a banner and halts. A failure of memory,
migration or the scheduler halts the machine. Nothing in the tree drives the
subsystems after that: there is no timer entry stub, no thread that calls the
registration channel, no caller of the registry or the monitor, and the syscall
handlers forward to functions the tree only declares. The models therefore take
each public API under every order of calls that its contracts allow, with as
many callers as the locks admit, and use `main.rs` where it does fix an order.
One property is about fewer: a registration is sure of its answer only when
`handle_one` has a single caller (`RegistrationAnswered`, below).

| Part | Source | Module |
|---|---|---|
| Process life cycle, as promised | `scheduler/process.rs` (`ProcessState`) | `ProcessLifecycle` |
| Scheduler | `scheduler/{scheduler,process,mod}.rs` | `Scheduler`, `MCScheduler`, `SchedulerProofs` |
| Critical sections, context switch, heap lock | `scheduler/{scheduler,context}.rs`, `memory/mod.rs`, `syscall/entry.rs` | `KernelLocks`, `KernelLocksProofs` |
| Syscall trampoline, dispatch, argument checks | `syscall/{entry,dispatch,handlers,mod}.rs` | `SyscallPath` |
| Frame allocator | `memory/allocator.rs` | `FrameAllocator`, `FrameAllocatorProofs` |
| Address space, as promised | `memory/paging.rs` (`map`, `unmap`) | `AddressSpace` |
| Page tables | `memory/paging.rs` | `Paging` (on `FrameAllocator`) |
| Memory bring-up | `memory/mod.rs`, `init` of the three below it | `MemoryBringUp` (on `Paging`) |
| Kernel heap | `memory/heap.rs` | `Heap` |
| Sealed page between Safe Mode and the OS | `safemode/sentinel_config.rs`, `sentinel/migration.rs` | `MigrationPage` |
| Safe Mode console, migration, boot | the same, `main.rs` | `SafeModeHandoff` (on `MigrationPage`), `SafeModeProofs` |
| Safe Mode terminal: commands | `safemode/{main,mod}.rs` | `SafeModeShell` (on `MigrationPage`) |
| Safe Mode terminal: keyboard and numbers | `safemode/mod.rs` | `SafeModeTerminal` |
| Audit trail and gate | `sentinel/{audit,invisible}.rs` | `AuditTrail`, `SentinelProofs` |
| Agent registry | `sentinel/handshake.rs` | `AgentRegistry`, `SentinelProofs` |
| Degradation monitor | `sentinel/monitor.rs` | `Monitor`, `SentinelProofs` |
| Registration channel and its client | `sentinel/ipc.rs`, `examples/golem_agent.py` | `SentinelIpc`, `MCSentinelIpc`, `SentinelIpcProofs` |
| Names and nodes, as promised | `fs/ramfs.rs` | `Namespace` |
| Node table of ramfs | `fs/ramfs.rs` | `RamFs`, `FileSystemProofs` |
| Path operations | `fs/vfs.rs` | `Vfs` (on `RamFs`), `FileSystemProofs` |
| Mount table | `fs/vfs.rs`, `fs/mod.rs` | `MountTable` |
| Open handles and file contents | `fs/vfs.rs`, `fs/ramfs.rs` | `OpenFile`, `OpenFileProofs` |

`MCMemory`, `MCFileSystem`, `MCSentinel`, `MCKernelEntry` and `MCSafeMode` put
the components of one subsystem into one run. Where two of them share no state
in their models (heap and paging; handles, paths and mounts; audit, registry and
monitor; critical sections and syscalls; hand-off and terminal) a variable
`part`, fixed in the initial state, says which one a behaviour works on, and no
property relates two of them. What they do share in the kernel is modelled on
the side that depends on it: `KernelLocks` has syscalls as sections with IF
clear, `SyscallPath` has a timer that switches threads wherever IF is set, and
`MemoryBringUp` makes the calls of `heap::init` that `Heap` lets succeed or fail.

## How state and actions correspond to the code

**Scheduler.** A task is its PID. Variables are the fields of
`struct Scheduler` (`ready`, `current`, `idle`, `blocked`, `defunct`), the PCB
fields that decisions depend on, and the PCB `spawn` is building between
`Process::new` and the queue (`making`), because that part runs outside the
critical section. One action per operation; `schedule`, with its reaping and
requeueing, is part of each action that calls it. The stack is abstracted to
whether `kernel_rsp` can be resumed from. Operations are atomic because they
run under `IrqGuard` on the only CPU. `KernelLocks` models what that rests on:
interrupts arriving wherever IF is set, the flags saved on each stack, calls
parked inside `context_switch`, syscalls that run with IF masked, and the heap
lock that `schedule` takes when it drops a PCB.

**Syscalls.** `SyscallPath` runs the trampoline on registers and on a stack of
words, so that the order of pushes, moves and pops decides what the user gets
back. All threads use the CPU's one kernel stack and one scratch word, as they
do through `gs:0` and `gs:8`. `checks` lists each handler's checks in order with
their errno. `vfs_*` and `proc_*` are declared and not defined in the tree: they
are external and answer without blocking. SYSCALL, SYSRET and the timer are the
hardware's. Words are scaled down to 4096, and RFLAGS is the interrupt flag.

**Memory.** `FrameAllocator` is the bitmap, its rotating search word and its
counters; a frame is a number, region bounds are bytes. `Paging` takes `map`,
`unmap` and `translate` apart at each access to a table entry, because
`translate` holds no lock; the TLB fills at any time and is invalidated where
the code does. Flags are PRESENT, USER and HUGE_PAGE. `Heap` is the free list
with exact sizes, alignment and splitting. `MemoryBringUp` is `memory::init`
from the hand-off block to the armed heap, each call of `heap::init` made
through the allocator and the tables; afterwards clients map other pages.

**Safe Mode.** `MigrationPage` has the thresholds, their validation, the seal
and `decide`. The checksum is the payload it was computed from (SHA-256 taken
as injective), and a torn store is any subset of the words being new.
`SafeModeHandoff` is the console session line by line, the store of the page,
and the boot steps of `migration::run`; a reset may hit any step, including the
two stores, and a power cycle clears the page. `SafeModeShell` is the other
Safe Mode program, the terminal with its own migration block, over whole
commands. `SafeModeTerminal` is what comes before a command: the line editor,
its echo, the splitting of a line and the number parsers, with the overflow of
u32 and of f32 but without the rounding of f32.

**Sentinel.** `record`, `verify`, `gate` and the registry's methods are one
step each, as each holds one lock. `observe` and `record_signal` are two steps,
since they copy the thresholds under one lock and update under another. Scores
are exact fractions where the code has `f32`. A string of an audit entry is the
sequence of its pieces between `|`, because `record` joins the fields with that
character and an agent id may contain it. Alteration of a stored entry is an
action of the environment, since `verify` exists to find it: any one field,
the sequence number and the digest included, in up to two entries, or a `|`
inside the actor taken for the end of it. `recorded` keeps what `record` wrote.
`verify` is `Ok` with a count or `Err` with the number stored in the entry.

**Registration channel.** Driver indices, used ring, bounce buffers and the
steps of `handle_one` are explicit; a message is an id and a method. The virtio
device and the socket are external and modelled from how the driver uses them.
Bring-up fails at each of its checks for some device of the instance. The lock
is held from `read_request` to the re-arming of the buffer, and again while the
reply is written. So with two callers of `handle_one` one may overtake the
other, and one that polls keeps back a reply the other has ready until the next
message comes (`LockedOut`). The doc comment of `handle_one` (ipc.rs:985) names
one caller, "the Sentinel service loop", and to that neither can happen. The
properties are stated for any number of callers and say what each gets.

**Filesystem.** `RamFs` operations are single steps under the one mutex, with
the error checks in the order of the code. `Vfs` takes the mutex once for each
component of a path and again for the operation, so threads interleave between.
`MountTable` matches paths by their characters, as the code does, and lets the
table change between the two resolves of `open` and `rename`. A node is there
the names that lead to it from the root of its filesystem, and a walk may find
it or not.
`OpenFile` has the offset lock of a handle and the separate acquisitions of the
filesystem lock inside one call; a byte is the thread that wrote it.

## Runs

Seven runs check that properties hold; each property's comment in its module
says what code behaviour it is about.

| Run | Checks | Bounds |
|---|---|---|
| `sched` | `Conservation`, `NextTaskResumable`, `ReapedFromOtherStack`; `ImplementsLifecycle`; `ReadyRuns` and its quantitative form `BoundedWait` | PIDs 0 to 4, quantum 2: three spawned tasks beside bootstrap and idle, so a queue, a blocked task and a zombie coexist |
| `entry` | `NotReentered`, `FlagsTransparent`; `UserContextPreserved`, `ArgumentsArrive`, `OnlyUserRangesAccepted` | idle and two tasks, at most two nested calls per stack, which is all the flag allows; two user threads, one of which tries the boundaries of every check under the four builds |
| `safemode` | `OnlyConfirmedConfigsRun`, `AppliedIsAudited`, `StagedChangeKept`, `SaveIsAccepted`, `StagedChangeTakesEffect`; `TypedIsStored` | two levels per threshold and four lines per Safe Mode session, enough to edit, save, confirm and exit; any number of sessions, boots and resets; rows of three cells, which hold a command and a number of up to three characters |
| `sentinel` | `VerifyFindsFirstAltered`, `ProbesLogged`; `NoReset`; `NoResponseWithoutCause` | three audit entries (first, middle, last), of which two may be altered, an agent id with a `|` in it and one without; two agents, three instants; two threads, windows of one and two, six kinds of observation |
| `ipc` | `OneOutstanding`, `RepliesOnceInOrder`, `RegistrationAnswered` | ring of two slots, indices wrapping at four (a multiple of the ring as 2^16 is), four messages so that they do wrap; two callers of `handle_one`, seven devices |
| `memory` | `OneOwner`, `NoneMeansExhausted`, `FreedFramesAreRam`, `TranslateIsAtomic`, `FramesAccounted`, `TlbCoherent`, `ImplementsAddressSpace`; `HeapBacked`; `HeapTiled` | six frames in two words, of which four are usable in the paging part; three table levels, three pages, two threads; five memory maps, eleven hand-off blocks, heaps of one and two pages; a free list over 96 bytes with the code's header and four layouts |
| `fs` | `TreeWellFormed`, `ImplementsNamespace`; `ExclusiveOpensDiffer`, `StablePathsResolve`; `SharedOffsetExact`; `PathsPickTheirMount`, `MadeWhereNamed` | two names, six inode numbers (they run out), two threads, thirteen requests; files of three bytes, two handles; three mounts of two filesystems, mount points that are prefixes of each other by name and by character only |

Why these are enough: most of the safety properties are proved for all sizes
(below). Page-table levels except the last are walked by the same code,
and four frames run out inside a walk. Two names and two levels of directory
give every shape of rename (within, out of, into, onto, below itself). The
interleaving properties are about pairs of threads. In the terminal, the
digits 0, 1 and 7 with 16 for the largest u32 and f32 overflow by addition and by
multiplication, and make the scale infinite with a finite fraction and with an
infinite one.

Three properties are refinements, each with the abstract specification as the
property and the mapping beside it:

- `ImplementsLifecycle`: the scheduler's lists implement `ProcessLifecycle`.
- `ImplementsAddressSpace`: what the MMU would resolve changes by one page at a
  time, from nothing to a frame no other page has or back. Linking, creating and
  zeroing tables, and walks that fail half way, are stutters.
- `ImplementsNamespace`: the node table is a tree of paths. Each step makes one
  node with a new identity, removes one without children, or moves a subtree.

Deadlock is checked in `sched` and `safemode`. The other instances stop when a
bound is reached (all messages sent, all inode numbers used) or when, as in
`entry`, a lock really can be waited for for ever.

Each property has a mutant: a definition named after the operation it spoils,
under a comment that begins with "Bug", put in place of the operation, makes
TLC find the property violated.

The type invariants record which values the variables take. Those of
`Scheduler`, `FrameAllocator` and `KernelLocks` are proved, with `StateAgrees`
and `CountsExact`, which the runs therefore do not repeat. The others hold in the
same instances and are not listed, because the properties above say more.

**Fairness.** `sched`: the timer keeps firing, weak fairness of `tick`; nothing
is assumed of the tasks. `safemode`: boot code and a store in progress go on,
weak fairness of `BootStep` and `SaveStored`; the operator need do nothing.
`ipc`: `init` is reached, every caller of `handle_one` goes on when it can (a
loop, with no fairness of the spinlock) and the device runs; the client need
send nothing.

## Where documents and code differ

Five runs state a sentence of the repository and TLC refutes it:

| Run | Sentence | What happens |
|---|---|---|
| `locks_tick` | scheduler/README.md:265, handlers must not deadlock on a lock the interrupted code holds | a tick reaches `defunct.clear()`, which frees memory, while the interrupted task holds the heap lock |
| `handoff_lastwrote` | docs/SAFE_MODE.md:260, boot compares what Safe Mode last wrote with the running configuration | after the page was applied and cleared once, the next warm boot runs under the defaults |
| `shell_migrated` | safemode/mod.rs:707, "The standard OS will detect and migrate this on next boot" | the terminal commits to a static that the OS never reads |
| `paging_user` | memory/paging.rs:219, USER is propagated so that user mappings remain reachable | an existing intermediate entry keeps its flags |
| `file_append` | fs/vfs.rs:430, the size is re-read so that concurrent writers are observed | two handles read the same size and overwrite each other |

Modelling met further differences, which have no run of their own:

- scheduler/README.md:149 says the bootstrap PCB is never resumed; `schedule`
  requeues it like any Running task and `NextTaskResumable` covers its frame.
- scheduler.rs:371 says no other borrow of the scheduler exists during a
  closure of `with`; a closure parked in `context_switch` is one.
- allocator.rs:20 says frames above the limit are ignored; `init` returns at the
  first of them and the later regions of the map stay unavailable.
- heap.rs:88 says null means no block is large enough; a block that would leave
  eight bytes over is skipped.
- vfs.rs:128: `open` with `create` and without `exclusive` still returns
  AlreadyExists when another thread makes the file after the lookup.
- sentinel_config.rs:148: `dirty` is relative to the last save, not to what the
  session loaded; and line 335: stamps restart with every boot.
- handshake.rs:192 says the lock flag stays set; `deregister` and `register`
  make a fresh record. `set_tier` also applies to a locked agent.
- monitor.rs:369: `validate_config` accepts a `soft` of zero, and `tier_for`
  compares with >=, so a score of zero is then a Soft response.
  `NoResponseWithoutCause` therefore speaks of the tier of a zero score.
- audit.rs:90 joins the fields of an entry with `|`, which nothing keeps out of
  an agent id (handshake.rs:222): entries with other fields may have the same
  text, and `verify` takes them for the same. `VerifyFindsFirstAltered` is about
  texts and digests for that reason. The number in its error is the stored one,
  so an altered sequence number is reported as altered.
- ipc.rs:700 indexes the rings modulo `QUEUE_SIZE` although `configure` may have
  given the device fewer slots.
- golem_agent.py:187: `recv_json` needs a newline, which `serialize_response`
  does not write. So the client keeps every reply in `_buf` and returns none.
- syscall/entry.rs:69 gives the user CS base as 0x20; `STAR_VALUE` holds 0x23.
- `init_cpu` writes EFER.SCE before LSTAR, although its comment wants a valid
  handler "the instant SCE is set".
- handlers.rs:60: an empty range at exactly `USER_VA_MAX` is accepted.
- vfs.rs:207 says a mount path always begins with a slash; `mount("//")` stores
  the empty path. Paths with doubled slashes or dots (`//dev`, `/./dev`) do not
  match the mount at `/dev`; `PathsPickTheirMount` is about canonical ones.
- fs/mod.rs: `is_initialized` says whether `init` "has completed"; the flag is
  set before the root is mounted.
- vfs.rs: a lookup of `..` in a directory that a rename has just replaced fails,
  so a path with `..` in it can be refused while it exists throughout;
  `StablePathsResolve` is about paths without.
- safemode/mod.rs: a blank after a number makes `set` refuse it. A fraction of
  39 or more digits divides by an infinite scale, so a small one is stored as 0;
  `TypedIsStored` leaves such numerals out.

## Proofs

The theorems hold for every value of the constants that satisfies the named
assumptions of the modules. Each rests on an inductive invariant, because the
properties alone do not survive a step; there is one lemma per action or group
of actions, and the theorem is the last step. TLC finds no reachable state that
violates one of these invariants on instances of the size the runs use. (For
TLC, quantification over all sets of nodes is over subsets of the table, and
functions into all numbers are left out.)

**`SchedulerProofs`**, for any number of PIDs and any quantum: `SchedulerSafe`
(`Conservation`, `StateAgrees`, `NextTaskResumable`; the last also on its own as
`NextIsResumable`),
`ReapingSafe` (the action property `ReapedFromOtherStack`) and
`LifecycleImplemented` (the refinement `ImplementsLifecycle`). `Conservation`
counts places. To keep it through `schedule` one needs that the places are
disjoint and the queue has no repetition (`Apart`), that every PID below
`nextPid` is in one of them or being made (`Covered`), what the states say of
each place, and that before `init` nothing exists (`NotStarted`). The refinement
uses the same invariant: `ScheduleLife` shows that one `schedule` is the switch
of two lives and the reaping of all zombies at once.

**`KernelLocksProofs`**, for any finite set of tasks: `CriticalSectionExclusive`
(`NotReentered`) and `FlagsRestored` (`FlagsTransparent`). The invariant
describes every stack: at most two calls deep, the lower one interrupted outside
the guard, and the flag each guard saved is the one its caller ran with. A task
off the CPU has not started or is parked in `context_switch`; the one on it has
IF clear from the guard or the interrupt gate on.

**`FrameAllocatorProofs`**, for any bitmap, word and frame size and memory map:
`FramesSafe` (`OneOwner`, `CountsExact`), `NoneIsExhaustion`
(`NoneMeansExhausted`) and `OnlyRamFreed` (`FreedFramesAreRam`, from
`KindsAssumption`: no byte of a map is of two kinds). The argument about the
counters is cardinality of finite sets.

**`SafeModeProofs`**, for any range of thresholds and stamps: `NoPartialApply`
(`OnlyConfirmedConfigsRun`), `ApplyIsAudited` (`AppliedIsAudited`),
`StagedChangeIsKept` and `StoredSaveIsAccepted` (the action properties
`StagedChangeKept` and `SaveIsAccepted`). The page may hold any mixture of two
stores; what is invariant is that its checksum, if it is a checksum at all, is
that of a payload sealed whole, and that payloads of this version hold confirmed
configurations (`Genuine`). A page that `decide` applies is therefore one of
those.

**`SentinelIpcProofs`**, for any number of servers, queue size, device and
traffic: `OneDescriptor` (`OneOutstanding`) and `RepliesExact`
(`RepliesOnceInOrder`: replies arrive in the order of writing, and those of one
server in the order of the requests). A queue is armed, returned or drained,
depending on where the holder of the lock is. A request that has arrived is
unread, with one server, answered, or dropped. An unread one is newer than all
the others (`Ordered`), so a server takes up nothing older than what it has
answered. `SuccIndex` is the arithmetic of indices that wrap.

**`SentinelProofs`**, for any agents, actors, configurations and a trail of any
length: `VerifyIsExact` (`VerifyFindsFirstAltered`), `DeniedCallsLogged`
(`ProbesLogged`), `RecordsAreKept` (the action property `NoReset`) and
`ResponsesHaveCause` (`NoResponseWithoutCause`). For `verify`: what was recorded
is a chain (`Written`), and a stored entry has the recorded digest or an
unaltered text without one (`Stored`). So an entry has its digest exactly when
its text and digest are the recorded ones, and its link is broken only if its
predecessor was altered. For the probes: the n-th denied call is the n-th probe
recorded, by counting the entries before it. For the monitor: the newest
`clean` observations of a buffer are plain ones (`PlainFrom`), its tier was
judged under some configuration, and plain observations score zero in every
signal. The tier of a zero score is None unless `soft` is zero.

**`OpenFileProofs`**, for any number of handles and threads and files of any
size: `OffsetsExact` (`SharedOffsetExact` of `OpenFile`, of which the run checks
the instance in `MCFileSystem`). A thread inside `read` or `write`
alone holds the handle's lock, so the offset it read is still the offset when it
adds to it.

**`FileSystemProofs`**, for any number of nodes, names, threads and requests:

- `TableIsTree` and `PathsKeepTree` (`TreeWellFormed`, under the calls of ramfs
  and under path operations). ".. leads to the root" is not inductive: the
  invariant says instead that every set of nodes that holds the parents of its
  members holds the root (`Rooted`). What `rename` checks by its loop over the
  parents is that such a set exists with the new directory and without the node
  moved. The walk in the model has one position more than there are inode
  numbers, so it comes to some node twice (`ClosedAncestors`). A rename over a
  node is proved as a removal followed by a move.
- `ExclusiveCreates` (`ExclusiveOpensDiffer`): a file that an exclusive create
  opened has a number of its own, and later numbers are higher.
- `ExistingPathsResolve` (`StablePathsResolve`): while the path exists, the call
  stands at the node the path goes through, as long as a name is still to be
  looked up (`OnPath`). A call of ramfs gives a name to another node only when
  the old one has no entries (`FsOpEntries`), and below such a node the path did
  not exist (`TrailDeadEnd`). Paths with ".." are excluded, in the theorem as in
  the property: TLC finds that when another directory is renamed over `a` while a
  call on `/a/../b` stands in it, the next lookup fails, although the path
  exists before and after.

Assumptions, all evaluated by TLC on the instances:

| Proofs | Assumed of the constants |
|---|---|
| `SchedulerProofs` | there are PIDs beyond bootstrap and idle's; the quantum is not zero; `NoPid` is no PID |
| `KernelLocksProofs` | the idle task is a task; tasks are finitely many |
| `FrameAllocatorProofs` | sizes are not zero; a map is a sequence of regions; no byte is of two kinds |
| `SafeModeProofs` | there is more than one level and a stamp |
| `SentinelIpcProofs` | indices wrap at a multiple of the ring's size greater than it, as 2^16 is of 16; no server is called `Free` |
| `SentinelProofs` | chain lengths are numbers; agents' ids, times and intervals are of their types; a configuration is one `validate_config` accepts, with thresholds in tenths; token counts are numbers |
| `OpenFileProofs` | `OpenFileAssumption`: what is said of handles is about handles |
| `FileSystemProofs` | "." and ".." are no names; paths are sequences of names and dots |

Induction over numbers is done by least elements (`LeastNat`, `NatClosed`),
since the library's induction rules take an operator as parameter. Recursive
functions are shown to exist in the same way (`WalkExists`, `TrailExists`).

Only model-checked:

- Liveness (`ReadyRuns`, `StagedChangeTakesEffect`, `RegistrationAnswered`):
  fairness is out of the prover's reach.
- `BoundedWait`, an invariant over a sum of turns: the sum is a fold, and what it
  computes for every set is an induction over data.
- `ImplementsAddressSpace` and `ImplementsNamespace`, whose mappings are
  recursive walks over the tables.
- `TypedIsStored`: what the number parsers compute, an induction over the digits.
- `PathsPickTheirMount`, `MadeWhereNamed`: `MountTable` takes prefixes and
  concatenations from `SequencesExt`, under which every obligation is slow.
- The properties of page tables, heap and syscall path (`TranslateIsAtomic`,
  `FramesAccounted`, `TlbCoherent`, `HeapTiled`, `HeapBacked`,
  `UserContextPreserved`, `ArgumentsArrive`, `OnlyUserRangesAccepted`): no proof
  has been written yet.

## Not modelled

- `boot/boot.asm`, `boot/linker.ld`: straight-line assembly and layout.
- `drivers/cpuid.rs`: decoding of CPUID registers into a report. It has no state,
  nothing reads its result, and each decoder is one expression that a property
  could only repeat.
- Which registers `context_switch` saves: the C ABI's set. `Scheduler` keeps the
  saved stack pointer, `KernelLocks` the flag.
- What is behind the syscall handlers: the tree declares it and nothing more.
- `readdir`, file modes, link targets, the content of the skeleton directories.
- Text: JSON, rendering, `normalize_output_hash`, the console's byte loop.
- `examples/golem_degradation_scenarios.py` and the scripts.
- Rounding of `f32`, overflow of u64 addresses and of counters that would take
  2^64 steps; the cast in `seek` of an `i128` sum to `u64` (vfs.rs:446), which
  only a sum above 2^64 shows.

## Plan

Done: every subsystem with state, its runs, three refinements, and proofs for
the scheduler, the locks, the frame allocator, the Safe Mode hand-off, the
Sentinel and its channel, and the filesystem. Next, in this order:

1. Proofs: `FramesAccounted` and `TlbCoherent` of `Paging`, `HeapTiled` of
   `Heap`, `UserContextPreserved` of `SyscallPath`.
2. Abstract specification: a set of disjoint intervals that `Heap` implements.
