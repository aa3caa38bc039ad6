# Verification of the uCore+ kernel (riscv_64 port)

TLA+ specifications of the kernel in `src/ucore/src/kern-ucore/`: its concurrent
core, its memory management and its file system. With them come the TLC
configurations that check them on small instances, and TLAPS proofs about some
of them. Paths below are relative to that directory. Line numbers are those of
the repository; `PROJECT.json` maps every definition to the lines it models.

## 1. The system

The kernel is a uniprocessor kernel (ucore) that was extended to several
processors (`NCPU`, `UCONFIG_NR_CPUS`, default 1). It is not preemptive: a
process leaves its processor only inside `schedule()`, which kernel code calls
to block and which `trap()` calls on the way back to user mode. Mutual
exclusion in the kernel therefore rests on three things: on one processor, the
absence of calls of `schedule()`; interrupts switched off against the timer
interrupt; spin locks against other processors -- many of which are commented
out.

What is hard to test comes from three sources. A process that blocks can be
woken by what it waits for, by its timer, by `do_kill` and by the destruction of
the object, in any order, before it runs again. Objects are counted at several
levels (descriptors, inodes, pages, shared structures), and a count is given up
on paths that fail half way. And memory or disk may run out at any step of an
operation.

### Inventory

| Part | State | Operations | Hard behaviours | Modules |
|---|---|---|---|---|
| Scheduler (`schedule/sched.c`, `sched_RR.c`, `sched_MLFQ.c`, `proc_run`) | run queues, `current`, `prev`, `proc->state`, `rq`, `time_slice`, `need_resched` | `schedule`, `wakeup_proc`, `post_switch`, `load_balance`, tick, fork, yield | a wake-up between "state = SLEEPING" and `schedule()`; two processors on one run queue | `Sched`, `Dispatch` |
| Kernel semaphores, wait queues (`sync/sem.c`, `sync/wait.c`) | `value`, wait queue, `wakeup_flags` | `down`, `up`, `try_down` | hand-over to a process that has not left its processor | `Semaphore`, `WaitQueue`, `KLock`, `FifoLock` |
| User semaphores (`sync/sem.c`) | the same, `valid`; the lists `sem_queue_t` | `ipc_sem_init/wait/post/free`, fork, exec, exit | timeout against post, free against wait, look-up against both | `USem`, `SemQueue` |
| Timers (`schedule/sched.c`, `sync/ipc.h`) | difference list | `add_timer`, `del_timer`, `run_timer_list`, `do_sleep`, `ipc_check_timeout` | several expiries in one tick, cancellation, wrap-around | `TimerList`, `TimedWait`, `Timeouts` |
| Mailboxes (`sync/mbox.c`) | state, slots, inuse, messages, two wait queues | init, send, recv, free | lost wake-ups, free while in use, failing copy | `Mbox` |
| Events (`sync/event.c`) | `event_box` of each process | send, recv | agreement of both sides, exit | `Event` |
| Keyboard (`fs/devs/dev_stdin.c`) | ring, wait queue | interrupt, read | full ring, several readers, kills | `Stdin` |
| Processes (`process/proc.c`, `arch/riscv_64/trap/trap.c`) | family links, thread groups, flags, states | fork, exit, exit_thread, wait, kill, trap return | orphans, threads that wait for each other's children, kill against exit | `Proc` |
| What processes share (`process/proc.c`) | counts of `sem_queue`, `fs_struct`, `signal`, `sighand`, `mm` | fork, exec, exit | a fork that fails half way while other threads run | `Resources` |
| Pids (`process/proc.c`) | `proc_list`, `last_pid`, `next_safe` | `get_pid`, removal | stale `next_safe`, wrap-around | `Pid` |
| Files and pipes (`fs/file.c`, `fs.c`, `sysfile.c`, `fs/pipe`, `fs/vfs/inode.c`) | tables, `struct file`, inode counts, ring, wait queues | pipe, read, write, close, dup, fork, exit, kill | close while another thread reads, several layers of counts | `Files`, `Pipe` |
| SFS (`fs/sfs`, `fs/vfs`) | free map, block maps, inodes in memory and on disk, directories, working directories | open, read, write, seek, truncate, fsync, sync, link, unlink, rename, mkdir, chdir, close | a full disk half way, release of what is unlinked and open, changes that are not marked | `SfsMap`, `SfsDir` |
| Physical pages (`arch/riscv_64/mm/buddy_pmm.c`) | free lists | alloc, free | split and merge, odd zone sizes | `Buddy` |
| Kernel heap (`mm/slab.c`) | slabs, lists of caches | `kmalloc`, `kfree` | caches that need each other | `Slab` |
| Virtual memory (`mm/vmm.c`, `mm/shmem.c`, `mm/pmm.c`, `libs/rb_tree.c`) | areas, page tables, counts; list, tree and cache of areas | map, unmap, shmem, brk, fault, fork, exit | partial unmaps of shared areas, a heap that meets another area, memory running out, stale look-ups | `Vmm`, `VmaIndex`, `RbTree` |

What is not modelled is in section 5. The hazards, each at the line where it
bites and with the properties that would catch it, are in `PROJECT.json`.

## 2. Modules

```
Dispatch ── WaitQueue ─┬─ Semaphore ─┬─ KLock ── KLockProofs      FifoLock (abstract)
   │  (what schedule() │             └─ USem
   │   promises)       ├─ Mbox (with an instance of TimerList)
   │                   ├─ Event           WaitQueueProofs
   └─ Proc             └─ Stdin
Sched  ── implements Dispatch
TimerList ── TimedWait ── implements Timeouts (abstract)
Pid ── PidProofs
Pipe ── Files          SfsMap    SfsDir
RbTree ── VmaIndex     Vmm    Buddy    Slab    Resources    SemQueue
```

### Waiting and scheduling

* **Dispatch** is the contract between the scheduler and everything that
  blocks: a process is put on one of `NCPU` processors only when it is
  RUNNABLE, leaves it only in `schedule()`, and `wakeup_proc` makes it RUNNABLE.
  `running` is the set of `mycpu()->proc`, idle processes excluded. It offers the
  actions `Dispatch`, `Leave`, `GoToSleep`, `Wakeup` to the other modules, and the
  specification `DispatchSpec`, which **Sched** is checked to implement
  (`KeepsContract`): so what the other modules assume is what `sched.c` does (on
  one processor; with two, see the findings).
* **WaitQueue**: `sync/wait.c`. A queue is a sequence of processes; the `wait_t`,
  which lives on the stack of the process, is the process and its
  `wakeup_flags`.
* **Semaphore**: `__down`, `__up`, `try_down`. Look-up, the assertion, the locked
  section and `schedule()` are separate steps, because another processor may act
  between them. A failing assertion sets `panic` and nothing moves any more.
* **KLock** composes a semaphore with clients that lock and unlock (as for
  `mm_sem`, `fs_sem`, the pipe, SFS and disk semaphores). **FifoLock** is what it
  promises.
* **USem**: the user semaphore with timeouts, kills and `ipc_sem_free`. The
  look-up in the semaphore queue of the process is part of `CallDown`, `CallUp`,
  `CallFree`. **SemQueue** has that look-up: the lists of `semu`s, shared by
  threads and copied by `fork`, from which a search drops the semaphores that were
  freed.
* **Sched**: each processor walks through `schedule()` and `wakeup_proc()` step by
  step (`phase`). `rq` are the lists, `home` is `proc->rq`, `slice` the time slice.
  The state of a processor at `"stop"` is that of kernel code that has set its
  process SLEEPING or ZOMBIE and has not called `schedule()` yet; interrupts and
  other processors may wake it there.
* **TimerList** holds the list with its differences as `Width`-bit unsigned
  numbers; `Added` and `Deleted` are `__add_timer` and `__del_timer` as functions of
  a list. **TimedWait** puts `do_sleep`/`ipc_*` and the timer interrupt on top.
  **Timeouts** has independent count-downs and no list.
* **Mbox**, **Event**, **Stdin**: one processor. The code between two calls of
  `schedule()` is one action. In `Mbox` a receiver stores its message under
  `lock_mm`, which may block, so that part (`"copy"`) is an action of its own. A
  message is its size. `Event` models the build without `UCONFIG_SWAP` (with it,
  every send fails). In `Stdin` a character is the number of its key stroke.

### Processes

* **Proc**: slots for `proc_struct`s; `fam` are parent, cptr, yptr, optr;
  `next_thread` is the circular list of a thread group. A trap is cut at `"tail"`,
  where `trap()` tests PF_EXITING and need_resched; an exit is cut at `"exiting"`,
  since releasing memory and files may block. Which zombie `do_wait` finds first
  is left open. init itself is not killed: the kernel panics then by intention.
* **Pid**: `get_pid`'s scan, element by element. `do_fork` and `do_wait` hold
  `proc_lock`, so scans and removals exclude one another.
* **Resources**: the five counted structures that `do_fork` copies or shares one
  after the other. Each copy is a step, and may fail; the cleanup undoes the ones
  before it. `do_execve` replaces four of the five; its own failures end in
  `do_exit`.

### Files

* **Pipe** is `pipe_state.c` with the two inodes that share it: each C function is
  an operator from the kernel objects before the call to those after it, and
  `woken` collects whom it wakes. A byte is its position in the stream, so an
  overwritten byte shows. `Files` takes it with `INSTANCE`, so that a second instance
  of `Files` has a buffer size of its own.
* **Files** puts the open-file tables and the loops of `sysfile_read` and
  `sysfile_write` on top, with threads that share a table, forks that copy it,
  exits and kills. Reads and writes are cut where they sleep in the pipe and,
  between two rounds, where `lock_mm` may block.
* **SfsMap**: the free map and the block maps of files (direct, indirect, doubly
  indirect), with several descriptors on one file. An allocation fails when the
  disk is full, wherever in the operation that is. An inode exists twice: `din` in
  memory while somebody holds it, with its `dirty` mark, and `disk`. `sfs_fsync` (by
  the last close, `fsync`, `sync` and `sfs_reclaim`) copies a marked one to the disk,
  `sfs_reclaim` drops it from memory and `sfs_load_inode` reads it again. Indirect
  blocks are written at once. `forgot` is a history variable: the blocks that a
  dropped inode counted and its copy on disk does not (section 3). **SfsDir**: directory slots, link
  counts, `.` and `..`, open files and working directories. SFS on a RAM disk never
  sleeps, so an operation is one action of either.

### Memory

* **Vmm**: areas, page tables and shared objects, with `page_ref` and `shmem_ref`
  as the code counts them. A C function is an operator on the record `k`; an action
  is a system call or a fault, which holds `lock_mm`. Addresses are page numbers.
  `k.panic` names a failed assertion or a NULL that was followed; the model stops
  there. The areas are the list `mmap_list`, in the order the code keeps, because
  after a `brk` over another area they may overlap; `find_vma` then returns any that
  contains the address, since `mmap_cache` may hold any. The history variable `over`
  records such a `brk`. `Fork` succeeds or stops at `copy_range`'s assertion; `ForkNoMem`
  fails at any area or page table and cleans up. All areas are readable and
  writable, so an area below is always one that `mm_brk` extends when it is private.
* **VmaIndex**: how `find_vma` finds an area: the ordered list, the red-black tree
  that is built when there are `RB_MIN_MAP_COUNT` areas (if `rb_tree_create` gets its
  memory), and `mmap_cache`. It has the same `mm_map` and `mm_unmap` as `Vmm`, without
  the pages. **RbTree** is `libs/rb_tree.c`, with `_left` and `_right` of its macros as
  an argument.
* **Buddy**: the free lists of one zone. **Slab**: `kmalloc` and `kfree` with slabs
  whose control block is an object of another cache. Both hold their lock from
  beginning to end, so they are correct for any number of processors if they are
  for one.

## 3. Runs

An MC module gives TLC its symmetry sets. Where one holds several components
(`MCIpc`, `MCProcess`, `MCMemory`, `MCSfs`) or two sizes of one (`MCFiles`, `MCMemory`,
`MCSfs`) these share no state: each behaviour is
one of one of them, the variable `which` says of which, the variables of the
others have the value `"unused"` (in `MCProcess`, their initial value), and the
properties are those of the components under `which`.

| Run | Instance | Shows |
|---|---|---|
| `klock` | 3 processes, 2 processors, 1 unit | units conserved, exclusion, no sleeper beside a free unit, no failing assertion, refinement of `FifoLock`; whoever calls `down` gets the lock |
| `sched_up` | 3 processes, 1 processor, slice 2 | no runnable process forgotten, sound queue and no failing assertion, contract `Dispatch` kept; every runnable process runs |
| `timedwait` | 3 processes, 2-bit counters | the assertion of `run_timer_list`, timeouts reported, refinement of `Timeouts`; every timed wait ends |
| `ipc` | 3 processes, 1 processor | mailbox: exact counts, empty when freed, no lost wake-up; user semaphore: posts accounted for, no timer outlives its wait; event: sender and receiver agree and do not miss each other; keyboard: no reader sleeps beside a character, strokes arrive once and in order; in all of them and in the semaphore lists, whoever sleeps, and whatever is named, can be reached |
| `process` | init and 2 slots, threads, other waits; 6 processes and pids below 10 | no zombie is woken; dead orphans are reaped once forks stop; unique pids, the unscanned range is free; `get_pid` returns |
| `proc_threads` | init and 3 slots, threads | parents alive, family links exact, `do_wait` misses nothing |
| `files` | 3 processes, 2 tables of 2 entries, a 1-byte pipe; 1 table, a 2-byte pipe, 4 bytes | counts exact in tables, entries, inodes and pipe; the stream arrives as written; whoever sleeps in the pipe is woken by the other side; the assertions of `file.c`, `inode.c`, `pipe_state.c` |
| `memory` | see Bounds | counts of pages and shared objects exact, areas isolated, and laid out in order unless `brk` grew over one; list, tree and cache of areas agree; pages and objects partitioned, free buddies merged; what a fork shares counted exactly |
| `sfs` | see Bounds | every block has one owner, maps without holes, an unmarked inode is on disk but for its block count, link counts exact, names sound |

Deadlock checking is off where the system may stop: `ipc` (all processes may have
exited, wait for a message, or the assertion below has failed), `process` and
`proc_threads` (init has left its loop), `files`, `memory` and `sfs` (the bounds are
used up, or one of the assertions below has failed).

Three runs find a disagreement between the code and an assertion or document of
the repository (`PROJECT.json`, "findings"):

| Run | Disagreement |
|---|---|
| `usem_assert` | `sem.c:89`: a waiter woken by its timer or a kill is still queued when a post comes (one processor) |
| `sched_wakeup` | `sched_RR.c:15` and the final report: a process is enqueued twice (two processors) |
| `proc_init` | `proc.c:2045`: a thread becomes its own parent, and init leaves its loop too early (one processor) |

More definitions state what an assertion or comment says, or what one would
expect, and do not hold either. No run is kept for them; checking the invariant
with these constants gives the trace. Where the kernel panics or follows a wrong
pointer the model stops, and the invariants of the runs hold up to and including
that state.

| Invariant | Constants | What happens |
|---|---|---|
| `Mbox!TimerAddedWithTime` | `ipc` | `sched.c:354`: a receiver whose timer fired, whom a sender then woke before it ran, and whose message another receiver took, adds its timer again with expires 0 |
| `Event!BoxOutlivesSender` | `ipc` | `event.c:39`: a sender woken by the exit of its receiver locks the receiver's `event_box`; the receiver may have been reaped by then |
| `SemQueue!WaiterSafe` | `ipc` | `sem.c:115`, `:272`: a thread frees a semaphore and looks it up again before the waiter it woke has run; the look-up frees the memory the waiter still locks |
| `Stdin!NothingLost` | `ipc` | `dev_stdin.c:27`: a stroke into a full buffer overwrites the oldest unread one, and is read in its place |
| `USem!ValidInside` | `usem_assert`, NCPU = 2 | `sem.c:81`, `:100`: freed between look-up and use |
| `Sched!DequeuedFromOwnQueue` | `sched_wakeup`, MinMove = 0 | `sched_RR.c:26`, `sched.h:50`: `load_balance` moves the process another processor has picked and not yet dequeued (the threshold of 3 is scaled to 0) |
| `Proc!KilledNotInUser` | `proc_init` | `proc.c:561`: `trap()` tests PF_EXITING before it calls `schedule()`; a process killed while preempted there returns to user mode |
| `Pid!NoIdlePid` | `process`, NCPU = 2, MAX_PROCESS = 5, MAX_PID = 6 | `sched.c:252`: `get_pid` starts again at 1 (`proc.c:168`), the pid of an idle process |
| `Files!FsDestroyClean` | `files` | `fs.c:65`: a fork copies an entry that was closed while another thread reads it; the copy is never closed |
| `Files!KilledAwake` | `files` | `sysfile.c:148`: a killed writer that had stored some bytes goes on with the rest and sleeps again |
| `Vmm!NoOverlap` | `memory` | `vmm.c:280`: `mm_map` looks only at the area that contains the start; a range that starts in a hole and reaches into the next area trips the assertion |
| `Vmm!HeapApart` | `memory` (`Heap`) | `vmm.c:701`: `mm_brk` extends the private area that ends at the old break without looking at what lies above, and `do_brk` (`proc.c:1553`) only tests the area that contains the old break: the heap grows over an area mapped above it. Counts and isolation still hold; the next fork, or an insertion between them, trips `vmm.c:280` |
| `Resources!SemQueuePutOnce` | `memory` | `proc.c:1278`: `do_execve` puts the old `sem_queue` and leaves the pointer; if `sighand_create` or `signal_create` fails, `do_exit` puts it again |
| `SfsMap!IndexInMap` | `sfs` | `sfs_inode.c:342`: O_TRUNC leaves the positions of other descriptors where they were |
| `SfsMap!BlocksOfSize` | `sfs` | `sfs_inode.c:1205`: a seek past the end that runs out of blocks keeps the blocks it got |
| `SfsMap!SizeMapped` | `sfs` | `sfs_io_nolock`: a write past the end that gets no block still raises the size |
| `SfsMap!NothingForgotten` | `sfs` (`Deep`) | `sfs_inode.c:351`: `din->blocks++` does not set `dirty` (`sfs.h:76`: "true if inode modified"). Where the block goes into an indirect block that exists, nothing else sets it if the growth fails afterwards (`:1217`), and the last close drops the count. The block stays mapped past `blocks`; the next growth uses it again, and an unlink before that loses it |
| `SfsDir!Tree` | `sfs` | `sfs_rename2_nolock`: a directory is moved below itself and cut off |
| `SfsDir!ParentLive` | `sfs` | a removed working directory does not hold its parent, and `..` leads to a freed inode |

Two more ends of `Vmm` are model stops without an invariant of their own:
`"copy_range"` (`pmm.c:433` asserts that fork gets a page) and `"shmem_null"` (the part
of a split shared area that `vma_create` makes has VM_SHARE and no `shmem`).
`SfsDir` stops when a directory is unlinked from itself by the name that leads back
to it (`hung`).

### Bounds

* **Waiting**: three processes are a waiter, the one that wakes it and a third that
  overtakes. `MaxPosts` bounds the posts and `MaxTyped` the key strokes, the counters
  without another bound. Two bits make the timers of `timedwait` wrap; `MaxElapsed` =
  2^Width caps the ticks of a wait, beyond which no comparison changes. `Mbox` has
  one slot, the smallest full mailbox; a message put back by a failing copy exceeds
  it. A keyboard buffer of 2 and 4 strokes wrap around and overflow.
* **Processes**: `proc_threads` has four slots because a thread group of two, a child
  and init are needed for a child to be waited for by a thread that is not its
  parent. Its specification (`FamilySpec`) leaves out the waits for something else
  than a child to stay small; `process` has them. `MAX_PID` leaves room for two gaps
  and a wrap-around. `Resources` has three threads: one in the middle of a fork,
  another that shares with it, and one that shares nothing.
* **Files**: a pipe of one byte and transfers of two make every transfer sleep half
  way; two tables are those of a parent and of a forked child. The second instance is
  for the ring: with a buffer of two, transfers of one and three and four bytes in
  all, the positions go around the buffer twice, a transfer starts at either place of
  it, and two writers sleep for room together. It has one table, which its processes
  share as threads. `MaxStream` bounds the bytes written.
* **SFS**: one instance has two descriptors on one file and a doubly indirect map of
  one entry per level, with a disk that is full before it; a deeper one has two
  entries per level and lets one descriptor reach the doubly indirect part. Blocks
  are forgotten in the deeper one, where a seek can fail with an indirect block in
  place. `Seeks` are positions on either side of the boundaries of the map. The
  directories are Root and three more inodes with two names, enough to move one
  below another and to replace one by another.
* **Memory**: four pages of addresses are enough to cut a shared area of three at both
  ends and in the middle; two physical pages run out. This instance has no heap
  (`BrkStart` = `Top`); the instance `Heap` has one of up to two pages, so that it can meet an
  area above it, shared areas of one page and one physical page. `MaxAreas` bounds the
  areas of an address space, far below `RB_MIN_MAP_COUNT`. The zone of 9 pages is no power
  of two. The slabs are two caches, one of which holds the control blocks of the
  other. `VmaIndex` has 6 addresses and builds its tree at 3 areas (the source: 32);
  `RbTree` has 10 nodes, the fewest for which the repair after a deletion goes
  up two levels.

### Fairness

Only where the code's scheduling gives it: kernel code on a processor goes on
(WF; in `Sched` SF, since a processor sees need_resched only each time it leaves
the kernel); ticks keep coming and are taken as soon as a processor is in user mode
or idle, and a process in user mode is preempted when its slice ends (SF, since
the processor enters and leaves user mode); run queues are first in, first out,
so a runnable process is dispatched (SF on `Resume`; `EveryoneRuns` shows this of
`sched.c`). `TimedWait`, which has no processors of its own, takes that result as
WF of the tick and of each return. `Served` assumes that critical sections end.
Nothing is assumed of user programs: nobody has to post, send, wait or exit.
`OrphansReaped` is stated for behaviours in which forks stop: `do_wait` takes the
first zombie of the list and new orphans are put in front, so with endless forks
one can wait for ever.

## 4. Proofs

All theorems are for any finite set of processes, any number of processors and
any value of the other constants that satisfies the named assumptions.

* **KLockProofs**: `Invariance`, `LockExclusion`, `LockSafety`,
  `LockImplementsFifo`. Assumptions: `Procs` finite, `NCPU` positive, `InitValue` a
  natural number, `Kind = "WT_KSEM"`. Conservation of units is not inductive by
  itself: one must know that a process is in the queue exactly while it sleeps,
  once, with its flags still `WT_INTERRUPTED`, and that whoever has left the queue
  before its `__down` returned carries `WT_KSEM` (`QueueInv`); that nobody inside
  waits and only those inside release (`ClientInv`); and that the queue is empty
  beside a free unit (`NoIdleUnit`). Each action has a lemma; the ones that move a
  unit (`TakeStep`, `WaitStep`, `ReturnStep`, `HandOffStep`) also show the step of
  `FifoLock` they map to, so the refinement falls out of the same case split.
* **WaitQueueProofs**: what appending to a queue and taking its first element do
  to its members, and that neither links a process twice.
* **PidProofs**: `PidsUnique`. Assumption: `NCPU < MAX_PROCESS < MAX_PID`. The
  inductive invariant adds `ScanInv`: while the scan is at place `le`, no process
  before `le` has a pid in `last_pid .. next_safe - 1`. A restart ("goto repeat")
  re-establishes it for `le = 1`, and at the end of the list it says that the range
  is free, which removals keep and which the calls without a scan use.

Only model-checked: every liveness property (fairness is out of the prover's
reach), the refinements of `Dispatch` and `Timeouts`, and all of `USem`, `SemQueue`,
`Sched`, `TimedWait`, `Mbox`, `Event`, `Stdin`, `Proc`, `Resources`, `Pipe`, `Files`,
`SfsMap`, `SfsDir`, `Buddy`, `Slab`, `Vmm`, `VmaIndex`, `RbTree`.

## 5. Not modelled

* **Several processors**, for everything but semaphores, locks and the scheduler. The
  C code of mailboxes, events, processes and pipes relies on nothing coming between
  two calls of `schedule()`; most of the spin locks that would be needed are
  commented out, so a model would show one race after the other. This includes
  the timer lists of each processor, of which `del_timer` (`sched.c:401`) takes
  the one of the processor it is called on. Simultaneous unlocked operations on one
  list are taken as atomic in `Sched`: what two of them at once leave behind is
  undefined, and the runs find failing assertions before that matters.
* **Scheduler**: PF_PINCPU; `stop_proc` and `try_to_wakeup`, which only the
  signals and the modules of the Linux layer use; timers of that layer.
* **Processes**: `do_linux_waitpid`, and signals: in this port `trap()` does not call
  `do_signal` and `__sig_setup_frame` is a stub, so no handler ever runs. `Resources`
  counts the signal structures.
* **Mailboxes**: the table of mailboxes and its growth; one slot is modelled, and reused.
* **Memory**: swapping (`UCONFIG_SWAP` is off), the copy-on-write branch of
  `do_pgfault` that only swapping reaches, `mprotect` and file mappings
  (`UCONFIG_BIONIC_LIBC`), the allocator `slob`, which is the alternative to `slab`, and
  the pages that hold page tables.
* **Files**: named pipes; devices other than the keyboard and the pipe; mounting
  and the writing of the super block and the free map by `sync`, which only a mount
  reads. Only a RAM disk exists in this port, whose contents do not survive a stop, so
  there is no crash to recover from; what an inode loses when it leaves memory while
  the system runs is in `SfsMap`. The link back in `sfs_rename2_nolock` (`sfs_inode.c:929`)
  is taken to succeed in `SfsDir`: its slot exists, and the buffer it allocates is of
  the size of one just freed. Other file systems under
  `fs/` come from third parties.
* **Modules, drivers, network, other architectures, user programs**: `load_module`
  accepts only 32-bit ELF headers and so loads nothing here; the driver emulation is
  Linux code that is not built for riscv; user programs are clients of the operations
  above.

What would come next are proofs: the conservation of posts in `USem`, `QueuesSound` and
`RunnableKept` of `Sched` for one processor, `Agreement` of `Event`, the counts of
`Resources` and `Files`, the partition of `Buddy`; and compositions of `Event` and
`SemQueue` with the reaping of `Proc`.
