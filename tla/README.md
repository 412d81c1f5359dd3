# RaceGrader kernel: a TLA+ verification project

RaceGrader boots an xv6 kernel for RISC-V many times, each time with another
chaos seed that delays lock operations and shuffles the scheduler, and reports
the panics and failed assertions of student code. This directory models the
kernel that is graded (`src/kernel/kernel`, with copy-on-write fork) and the
command-line runner (`src/cli`), checks the models with TLC and proves the
central ones with TLAPS.

## 1. Inventory

| Component | State | Operations | What it talks to | Hard behaviour | Correct means |
|---|---|---|---|---|---|
| page allocator, reference counts (`kalloc.c`) | `kmem.freelist`, `refcnt.count` under two spinlocks | `kalloc`, `kfree`, `krefinc`, `kgetrefc` | called by `vm.c`, `proc.c`, `pipe.c` | read-modify-write of a count from several CPUs; the count is 0 or 1 between the two locks | counts are exact, no leak, no double free |
| user memory (`vm.c`, `sys_sbrk`, fault arm of `usertrap`) | page tables, `p->sz` | `uvmcopy`, `cowhandler`, `vmfault`, `uvmalloc`, `uvmdealloc`, `uvmunmap`, `copyout` | kalloc and kfree; driven by fork, exit, wait, sbrk and faults | fork, fault and exit on one shared frame; failure half way; lazy pages | each process sees a private memory; no panic |
| processes, scheduler (`proc.c`) | `proc[]`, `wait_lock`, `p->lock`, `p->chan`, `killed` | `kfork`, `kexit`, `kwait`, `sleep`, `wakeup`, `kkill`, `scheduler`, `yield` | everything that sleeps | lost wakeups, reparenting during wait, kill of a sleeper | every zombie is reaped once, no sleeper is forgotten |
| log (`log.c`) | `log.outstanding`, `log.committing`, `log.lh`, the log on disk | `begin_op`, `end_op`, `log_write`, `commit`, `initlog` | buffer cache, disk | crash at any disk write; group commit; space reservation | transactions are atomic and durable in order |
| buffer cache, sleep locks (`bio.c`, `sleeplock.c`) | buffers, refcounts, LRU list | `bread`, `bwrite`, `brelse`, `bpin` | disk, log | two callers miss on one block; a second buffer is asked for with one in hand; every buffer pinned | one buffer a block, recycled only when unused, no lock waited for in vain |
| inodes (`fs.c`) | inode table, on-disk inodes and bitmap | `iget`, `ilock`, `iput`, `ialloc`, `bmap`, `writei`, `dirlink`, `namex`, `ireclaim` | log, buffer cache | `iput` of the last reference against `ialloc` and `iget`; a full disk half way; a full inode table; a crash with unnamed files open | links, names, references and the bitmap agree; what nobody has is freed |
| files, pipes (`file.c`, `sysfile.c`, `pipe.c`) | file table, descriptors, pipe buffer | the path system calls, `filewrite`, `fileclose`, `pipewrite`, `piperead`, `pipeclose` | inodes, log, sleep and wakeup | last close against a blocked peer | bytes in order, nobody blocks forever |
| console, UART (`console.c`, `uart.c`) | line buffer, `tx_busy`, the 16550 | `consoleintr`, `consoleread`, `uartwrite`, `uartintr`, `uartputc_sync` | PLIC, spinlocks, printf | writes, echoes and messages on one transmitter; indices that wrap | input is neither lost nor reordered |
| spinlocks, chaos (`spinlock.c`, `chaos.c`) | `noff`, `intena`, `locked` | `acquire`, `release`, `push_off`, `pop_off` | everything | an interrupt while a lock is held | interrupts return to what they were |
| virtio disk (`virtio_disk.c`) | descriptors, the two rings | `virtio_disk_rw`, `virtio_disk_intr` | buffer cache, device, PLIC | out of descriptors; completions while the handler runs; a kill wakes the waiter | the device works on buffers that stay put; each request ends |
| runner (`cli/internal/run`, `headless`, `cmd`, `report`) | a run's results, a QEMU process | build, boot, scan, time out, report | QEMU, TUI | timeout against marker, cancel against exit | one verdict per run, of the kernel with its seed |
| terminal UI (`cli/internal/tui`) | view state | `Update` | runner's events | events after cancel | rendering only |

Left aside: user programs and tests (they say what is expected and are quoted by
the findings), boot and assembly, ELF headers, formatting and strings. `mkfs` is
modelled as the image it makes.

## 2. Plan

1. `CowMem` - allocator, counts, page tables and the calls that drive them, with
   `PrivateMemory` as the abstract specification. The feature this kernel adds
   to xv6, so it comes first. *Done; its invariants and the refinement are proved.*
2. `Log` - crashes at every disk write, recovery, group commit, refined to an
   atomic disk (`AtomicLog`). *Done; its invariants and the refinement are proved.*
3. `Proc` - sleep, wakeup, exit, wait, kill and the hand-over of stacks. *Done;
   its invariants are proved.*
4. `Pipe`, refined to a queue of bytes (`ByteQueue`). *Done; its invariants and the
   refinement are proved.*
5. `Runner` - build, boot, scan, timeout, cancellation, report. *Done; its safety is
   proved.*
6. `DiskFs` and `Files` - the value of the file system, and the system calls that
   change it step by step, over the log's promise of atomic transactions. *Done; the
   references and locks (`RefsExact`) are proved.*
7. `VirtioDisk`, and `BufferCache` on top of it, refined to a store of blocks
   (`BlockStore`). *Done; their invariants and the refinement are proved.*
8. `Spinlock`, `Uart` on top of it, `Console` on top of that, refined to a queue
   of lines (`LineQueue`). *Done; their invariants and the refinement are proved.*
9. Theorems still to prove: `DiskExact` and `TypeOK` of `Files`, and `NoPanic` beyond its part
   about iget.
10. Not begun: `sys_pause` and `clockintr`, exec's second page table.

The modules stand on each other's promises where the code does: Files takes the
log as atomic, which Log shows; Log takes a buffer as the block's content, which
BufferCache shows; BufferCache and Pipe take sleep and wakeup as Proc shows them.

## 3. CowMem

### State and code

`refcnt`, `rlock`, `freelist`, `data` are `refcnt.count`, the holder of
`refcnt.lock`, `kmem.freelist` (as how often each frame is on it) and the frames'
contents; `pt`, `sz`, `state`, `parent` are the page tables and the fields of
`struct proc`. `k[p]` is the frame of p's kernel thread: a label (`pc`), the
locals (`pg`, `va`, `hi`, `nsz`, `tmp`), the process whose table it works on
(`tgt`: the child in fork, the zombie in wait) and where kalloc/kfree (`ret`) and
uvmunmap/vmfault (`uret`) return to.

One action is what a kernel function does between two lock operations, so every
interleaving that several CPUs, preemption in the kernel and chaos delays can
produce is a behaviour. kfree is `KfreeRead`, `KfreeWrite`, `KfreePush`; krefinc
`KrefincRead`, `KrefincWrite`; kalloc `KallocPop`, `KallocSetCount`;
cowhandler `CowGetRef`, then `CowSole`, or `CowShared`, kalloc, `CowCopy`,
`CowRemap`, kfree; fork `ForkStart`, then `ForkPage` and krefinc per page, and
`ForkDone`; copyin and copyinstr `CopyinFault`, `CopyinFail`, `Copyinstr`; and so on, with an action for each failure (`CowNoMem`, `FaultNoMem`,
`FaultMapFail`, `GrowNoMem`, `GrowMapFail`, `ForkMapFail`). The panics of
uvmcopy and kexit are steps to the label `panic`; the other panics must be
unreachable (`NoPanic`).

### Abstractions

Addresses and sizes count pages; a frame's contents are one value; page-table
pages and trapframes come from a pool of their own that may run dry at any time
(`MapFail`). wait_lock and p->lock are left out, so exit and wait interleave more
than in the code. A copyout of several pages is several copyouts. `sbrk(-n)` with
n > sz is a no-op in the code (uvmdealloc returns oldsz) and no step here. The
stack guard page behaves as a read-only page. `kfreepages` is left out: it returns
`kmem.free_pages`, which nothing but kinit writes, hence always 0. The TLB needs no state: the
trampoline executes sfence.vma on every return to user mode.

### Properties

| Property | Says |
|---|---|
| `RefcountExact` | a count is the number of entries and threads that own a reference, at every point between two lock operations |
| `PageConserved` | a frame is free once, or in the hand of one kalloc/kfree, or referenced |
| `NoPanic` | refcount underflow, mappages remap and freewalk leaf are unreachable |
| `WritableIsPrivate` | a page writable without a fault is mapped once |
| `ReadOnlyStays` | a text page never becomes writable or copy-on-write |
| `ImplementsPrivate` | with `mem <- MemBar`, every step is a step of `PrivateMemory` or invisible: fork behaves as if it had copied every page |
| `FullInv` | the inductive strengthening: what a thread knows at each label |

### Runs

| Run | Instance | Shows |
|---|---|---|
| `cow_two` | 2 processes, 3 frames, 2 pages, text page, failing mappages | all of the above; about 540 000 states up to symmetry |
| `cow_lazy_fork` | as `cow_two` | violation: fork with an untouched lazy page panics |
| `cow_copyout` | as `cow_two` | violation: copyout fails on a copy-on-write page |

Three frames for two processes of two pages let memory run out in every kalloc;
two pages make loops of uvmunmap, uvmalloc and uvmcopy fail half way. A count of
three, which needs a third process, is left to the theorems. Frames are symmetric, and so
are the processes other than the first: nothing orders them. The first process
may make the system panic (it forks with a lazy page, or is killed): `PanicLoop`
is then the only step of its thread.

No fairness is assumed: all properties of CowMem are safety properties.

### Proofs

None of the properties is inductive by itself. `CowMemInv` defines what makes them so,
in three layers, and `cow_two` checks all of it (`FullInv`):

- `ControlInv`: `LockInv` (the lock), `PteInv` (no entry is writable and copy-on-write
  at once), `TableInv` (one thread works on a table), `ThreadInv` (what a thread
  knows, function by function) and `ExtentInv` (tables end at sz). `TypeOK` needs it:
  that a loop's page lies inside the address space, or that kalloc returns to a label
  that may hold its frame, depends on the label.
- `IInv` adds the counts: `RefcountExact`, `PageConserved`, `OneRefInv` (where a count
  must be 1) and `WritableInv` (a writable page has no other reference).
- `WorkInv` adds what has been done so far: the pages that sbrk has added are clear,
  cowhandler's copy is one, uvmcopy has shared the pages it has passed.

`CowMemProofs` takes them in this order:

- the footprint of a step, hence what the other threads know survives (`OthersKeep`), and
  what the stepping thread knows next (`ThreadStep`); the rest of `ControlInv`; the theorems
  `ControlCorrect`, `TypeCorrect`, `LockExcludes`;
- a step changes one entry, one thread and one frame, so that the set of a frame's owners
  gains or loses one element while `refcnt.count` follows; the theorems on `RefcountExact`,
  `PageConserved`, `NoPanic`, `WritableIsPrivate`, `ReadOnlyStays`;
- what a step does to the contents that processes read (`DataChange`, `ReadsStep`), hence
  `FullCorrect`; then each step maps to a step of `PrivateMemory` or to a stutter (`StoreSim`,
  `ResizeSim`, `ExitSim`, `ForkSim`, `QuietSim`), hence `CopyOnWriteInvisible`.

The theorems hold for any number of processes, frames and pages. They assume what
`ProcAssumption`, `PageAssumption` and `SizeAssumption` say of the constants. Every
property of the table above is proved.

## 4. Log

### State and code

`home`, `logblk` and `header` are the disk and survive `Crash`. `cache` is what
`bread` returns for each block, `pins` the `bpin` counts, `lh`, `outstanding` and
`committing` the fields of `struct log`, `tail` the loop variable of write_log and
install_trans (one committer at a time uses it), `wrote` the blocks a running call
has written. `pc[p]` is where thread p is in begin_op, its call, end_op and commit;
`boot` is where initlog is.

| Code | Actions |
|---|---|
| `begin_op` | `BeginOp` or `BeginSleep`, both under `log.lock`; a woken thread is back at `begin` and tests again |
| `log_write` | `LogWrite`, together with the caller's change of the locked buffer |
| `end_op` | `EndOp`, then, for the last call, `commit` and `CommitDone` |
| `commit` | `CommitStart`, `WriteLog` per block, `WriteHead`, `Install` per block, `Erase` |
| `recover_from_log` | `ReadHead`, `InstallRecovering` per block, `EraseRecovering` |
| `bget` recycling a buffer | `Evict`, possible whenever the buffer is not pinned |
| power loss | `Crash`, between any two steps, at most `MaxCrash` times |

### Abstractions

The write of one block, the header included, is atomic (the code relies on it).
A block's contents are one value. `OpBlocks` is how many different blocks a system
call writes. log_write tests `log.lh.n >= LOGBLOCKS` before it looks for the block
in the log, so a call that uses its whole reservation and then writes one of its
blocks again may panic; the kernel's calls stay below the reservation (filewrite
cuts a write into pieces for that reason, file.c:150-157). `LogAssumption` says so:
`OpBlocks < MaxOp`. `Evict` may not take a buffer that `write_log` or
`install_trans` holds; those buffers are pinned at that time.

### Properties, runs, fairness

| Property | Says |
|---|---|
| `DurableAtReturn` | when the last end_op of a group leaves commit, what a crash would leave is what the calls wrote |
| `ImplementsAtomic` | every step is a step of `AtomicLog`: a crash, in commit or in recovery, leaves whole groups of ended calls |
| `NoPanic` | the panics of log_write and end_op are unreachable |
| `NobodyWaitsForEver` | a thread asleep in begin_op is woken (`SleepersWoken`), and recovery ends (`RecoveryEnds`) |

The run `log` has three callers, four blocks, a log of four blocks with
reservations of two, and two crashes. The log has room for two calls, so that one
caller sleeps for space while others run, another sleeps for the commit, and both
are woken by the same step; the second crash can hit the recovery from the first;
two calls in a group write different blocks or the same one (absorption). To keep
this in reach two of the blocks are only ever written with their first value
(`Plain`): they fill the log and are installed like the others, but need not be told
apart. 494 000 states.

Fairness: weak fairness of begin_op, end_op and commit for each thread (the
scheduler goes round all runnable threads, and system calls are finite) and of
recovery. The start of a system call, writes, recycling and crashes are not
required. That a woken caller gets in before others that come later is *not*
claimed: begin_op has no queue, and a caller may starve there.

### Proofs

`LogProofs` proves all of the table but `NobodyWaitsForEver`, for any number of
threads, blocks, crashes and any size of the log. The inductive invariant is `IInv` of
`LogInv` (to see TLC check it, add `INVARIANT IInv` to `Log.cfg`: `MCLog` extends
`LogInv`):

- `CallInv`: `outstanding` counts the running calls, one thread commits, no call runs
  at that time, and nothing runs before recovery is over;
- `SpaceInv`: `Len(lh) + outstanding * MaxOp <= LogBlocks + Cardinality(Written)`, where
  `Written` are the pairs of a running call and a block it has written. begin_op adds a
  reservation, a new block in the log is a new pair, and a call that ends gives back more
  than its pairs. `NoPanic` follows, as the pairs are at most `outstanding * OpBlocks`
  (`WrittenAtMost`, by numbering the blocks of each call);
- `DistinctInv`: absorption keeps each block in the transaction once. Without it
  recovery would install an older log block over a newer one;
- `PinInv`: the pinned buffers are those of the blocks that install_trans has yet to
  put in place, and every other buffer is as its home block, so that recycling it
  changes nothing;
- `DiskInv`: at each disk write of commit and of recovery, which of header, log blocks
  and home blocks have been written.

For the refinement (`LogAtomic`), `Durable` changes only when the header is written, and
then it becomes what the buffers hold (`HeadCommits`): that step is the `Commit` of
`AtomicLog`. `InstallKeeps` and `EraseKeeps` say that the steps after it, and recovery,
leave `Durable` alone, so that a crash among them is a crash of `AtomicLog`.

## 5. Proc

### State and code

`state`, `parent`, `pid`, `chan` and `killed` are the fields of `struct proc`;
`plock[p]` and `wait_lock` say which thread holds a lock; `cpu[c]` is `c->proc`, and
also the stack that the CPU stands on. `k[p]` is the kernel thread of slot p: its
label, the label after `sched`, its loop variable `i`, the child or the pid it
works with (`x`).

| Code | Actions |
|---|---|
| `scheduler`, and the release in `forkret`, `yield`, `sleep` | `Dispatch` |
| `sched`, `swtch`, release by the scheduler | `Swtch` |
| `yield`, from `usertrap` and `kerneltrap` | `Yield` |
| `usertrap` | `SyscallFork`, `SyscallExit`, `SyscallWait`, `SyscallKill`, `InterruptKilled`, `SyscallReturn` |
| `allocproc`, `kfork` | `AllocProc` per slot, `NoSlot`, `ForkFail`, `ForkCopied`, `SetParent`, `SetRunnable` |
| `kexit`, `reparent`, `wakeup` | `ExitStart`, `Reparent` and `WakeInit` per child, `WakeParent`, `Zombie` |
| `kwait`, `sleep` | `WaitStart`, `ScanChild` per child, `Reap`, `ReapNoCopy`, `WaitFail`, `WaitOn`, `Sleep` |
| `kkill` | `KillNext` per slot, `Kill`, `KillNobody` |

A step is what a thread does between two lock operations. A section that takes and
releases one `p->lock` with no lock operation in between is one step, enabled when
that lock is free. Locks held across steps are variables: `wait_lock`, the lock of
the child that `kfork` builds, and `p->lock` from the change of `p->state` to the
release in the scheduler. That last one is the hand-over the module is about: it
keeps every other CPU away from a process whose stack is still in use.

### Abstractions and bounds

Memory, files and the current directory are left out (CowMem and Pipe have them),
with the sleeps of fileclose and begin_op inside fork and exit. `sys_pause` is left
out. The only thing a process sleeps on is then its own slot, in kwait, so `wakeup`
looks at one slot. When init exits, the kernel panics: `InitExit` is the loop in panic().
`MaxPid` bounds the forks. A thread is preempted in the kernel at most once before
each of its steps (`pre`): more preemptions in a row lead to no new state of the
other variables.

### Properties and runs

| Property | Says |
|---|---|
| `StackExclusive` | a kernel stack belongs to one CPU at a time, and to none once its process was freed |
| `NoOrphan` | outside of exit and wait, each parent pointer leads to a process that can still wait |
| `NoLostWakeup` | a parent does not sleep while one of its children is a zombie |

`proc_safe` has three slots, two CPUs, two forks and kills of init, of its first child and
of pid 0, which every unused slot has: 1.7 million states. Three slots are a parent, a child and a
grandchild, whose exits race. A fourth slot, with which only the wakeup inside
`reparent` tells init of a zombie, makes 3.2 million states without any kill and is
left out. `proc_kill_zero` is a finding, see section 11. No fairness is assumed:
that init reaps its zombies follows from `NoLostWakeup` if init waits again and
again, as `user/init.c` does, and the scheduler runs it.

### Proofs

`ProcProofs` proves the three properties and `TypeOK` for any number of slots, CPUs and
pids. The invariant is `IInv` of `ProcInv` (add `INVARIANT IInv` to `ProcSafe.cfg` to see
TLC check it). `PositionInv` ties `p->state` to where p's kernel thread is: this is what
the hand-over of `p->lock` through swtch keeps true. `CpuInv`, `LockInv`, `ForkInv` and
`WaitLockInv` say who holds which lock and who is being built, `ParentInv` and
`WakeInv` what kexit, reparent and kwait have seen of the family under `wait_lock`: a
child with a number below the loop variable of kwait is no zombie, and a zombie whose
parent is asleep exists only while reparent is about to wake init. kwait and reparent go
over the children in the order of the slots; that a least child exists comes from the
library's well-founded order on the naturals (`MinIsLeast`).

Not claimed: that a killed process exits soon. kwait tests `p->killed` and then
sleeps, and a kill between the two finds the process running and wakes nobody, so
the victim sleeps until a child exits. The model has this window.

## 6. Pipe

### State and code

`data`, `nread`, `nwrite` and `open` (readopen, writeopen) are `struct pipe`, `lock` the
holder of `pi->lock`, `freed` says that `kfree(pi)` was called. `fds` and `ref` are the
descriptors of the two ends and `f->ref` of their two files. `k[p]` is the call a
process is in: the end, `n - i`, and the label.

| Code | Actions |
|---|---|
| `pipewrite` | `Acquire`, then per pass `WriteRefused` or `WriteTest`, then `WriteFull`, `WriteByte` or `WriteFault`, and `WriteDone` |
| `piperead` | `Acquire`, then `ReadKilled` or `ReadTest`, `ReadSleep`, `ReadByte` per byte, `ReadFault`, `ReadDone` |
| `fileclose`, `pipeclose` | `FileClose`, and `PipeClose` for the last reference |
| `kfork` (filedup), `kkill` | `Fork`, `Kill` |

A step is one pass of a loop under `pi->lock`. The test of `p->killed` is a step of
its own, so that a kill can come between it and the sleep. `sleep` is one step,
which Proc justifies: it releases the lock and is asleep at once. `Wrap` is
2^32 in the code and a multiple of the pipe's size, as there.

### Properties and run

| Property | Says |
|---|---|
| `ReaderNotForgotten` | nobody sleeps in piperead beside bytes, or when no writer is left |
| `WriterNotForgotten` | nobody sleeps in pipewrite beside room, or when no reader is left |
| `FreedUnused` | the pipe is freed when nobody has it or is inside its functions |
| `ImplementsQueue` | each step puts one byte at the end of a queue, takes the first one, or leaves it alone |

`ReaderNotForgotten` has an exception. A writer that finds itself killed returns at
once (pipe.c:84-87), without the wakeup that ends every other way out of pipewrite:
bytes it wrote earlier in the same call stay in the pipe while a reader sleeps, until
the next write or close. TLC finds that behaviour when the exception is dropped. In
practice the victim's exit closes its end, which wakes the reader if the
victim was the last writer; with another writer that keeps the end open and writes
nothing, the reader sleeps on. The exception is wider than that case: once any process has
been killed the property no longer says that the pipe is empty when a reader sleeps,
only that a writer is left. No comment or test of the repository promises
otherwise, so it is no finding.

The run `pipe` has a shell and two children, a pipe of two bytes and counters that
wrap at 4: two bytes make full, half full and empty different, and requests of one
and three bytes are shorter and longer than the pipe. Only the shell is killed: it
is every writer's and reader's partner in turn, since who has which end is decided
by the closes. 3.1 million states. Deadlock is not checked, because the end of every
process is to have closed both ends.

### Proofs

`PipeProofs` proves all four properties and the types, for any number of processes,
any lengths, and any size that divides the wrap of the counters. None of them is
inductive. The invariant adds

- `RefInv`: `ref[e]` is the number of processes with a descriptor of e, and while
  there is one the end is open;
- `CallInv`: who is in a call has its descriptor; who is in pipeclose has closed the
  last one, and no other process closes the same end;
- `LockInv`: who is between acquire and release holds `pi->lock`, and what a reader
  that is about to sleep has seen is still so;
- `SleepInv`: the two wakeup properties for the moments at which somebody works on
  the pipe: a reader may sleep beside bytes while the writer that wrote them holds the
  lock, because every way out of that loop but one wakes the readers.

- `RingInv`: both counters are below `Wrap`, and their difference modulo `Wrap`,
  `Filled`, is at most `PipeSize`.

Counting needs that `Proc` is finite, which `PipeAssumption` says. The refinement
(`QueueCorrect`) reads the queue off the ring as `Bytes`, the `Filled` places from
`nread` on. A put writes the place `nwrite % PipeSize`; `PutAppends` shows that this is
the place behind the last byte and that no byte in the pipe has it. When a counter
has wrapped and the other has not, that is so only because `PipeSize` divides `Wrap`
(`WrapKeepsPlace`), as 512 divides 2^32: with a size that is no power of two the
code would go wrong at the wrap, after four billion bytes. `TakeTails` is the same for a
read.

## 7. Runner

### State and code

`r` is the goroutine of `Runner.Run`: where it is, the index and the result it is
about to send. `base` and `lastSeed` are the Runner's. The kernel's directory is `stamp`, the
seed in `.seedstamp`, `obj`, the seed that each part of the files was compiled with, and
`old`, the parts that are older than `.seedstamp`. There are two parts (`Part`): what the
runner's own list removes (`chaos.o`, `printf.o`, `cow_test.o` and what is linked from them), and
`race_stress.o` and `fork_race.o`, which depend on the seed as well and are not in that list.
`booted` is what each run has booted.
`qemu`, `out` and `scan` are, for each run, the QEMU process group,
the complete lines it has printed, and the goroutine of `scanQEMU`; they are
functions of the index because a scanner may outlive its run. `ch` and `closed` are the
channel of events. `ui` is the state that `headless.Run` and the terminal's model have in
common; `ui.waiting` counts the `waitEvent` commands that wait on the channel, and
`msgs` holds the events that such commands have received and not yet handed to
`Update`.

| Code | Actions |
|---|---|
| `Run` | `RunStart`, then per run `RunCancelled` or `RunNext`, `SendResult`; `RunDone`, `RunClose` |
| `one`, `runSeed`, `ensureBuilt`, make with `kernel/Makefile` | `Build`: the runner removes its list if the seed is not the last one (`Left`); make writes `.seedstamp` anew if the seed in it is another and makes what is missing or older (`Outdated`, `Made`); it may fail before, after, or with a part of its work done |
| `runQEMU` | `Boot` or `BootFail`; `TimeUp` is the deadline of its context; the branches of `select`, with `killProcessGroup` and `Wait`, are `TimedOut` and `Judged` |
| `scanQEMU`, `FindMarker`, `ClassifyMarker` | `ScanRead`, of any part of what is there, and `ScanEnd` |
| QEMU and the kernel (external) | `PrintLine`, `Crash`, or nothing for ever |
| `headless.Run` | `HeadlessEvent` |
| `tui.Start`, `Update`, `waitEvent` | `Tick` at the end of the splash screen, `WaitEvent`, `Update`, `CtrlC`, `Quit` |

### Abstractions

Only complete marker lines and the prompt are kept of what QEMU prints: `FindMarker`
ignores an unterminated line. A kernel prints DONE only after the command was sent.
make compares times of files, not SEED: what connects a kernel to its seed is the rule that
writes `.seedstamp` when the seed changes and makes the objects depend on it
(kernel/Makefile:195-205, where a comment tells of the stale objects met without it). The
runner's removal is a second guard, of some of the files. CHAOS, which the stamp holds as well,
does not change in a session; a link step is part of making its objects. With a
negative `--seed` the clamp in runSeed gives several runs the seed 1, against the
README's "매번 다른 SEED" and the flag's help (`cmd/run.go:64`); the model does what
the code does. The branch of
headless.Run for a channel that closes early is left out: Run sends EventDone or
EventError before it closes, so the branch is dead.

### Properties and run

| Property | Says |
|---|---|
| `VerdictHonest` | PASS if the first marker is DONE; FAIL with a marker if it is FAIL; FAIL by exit only if QEMU exited by itself; every part of the kernel and programs that printed it was built with the seed that is reported |
| `ReportTrue` | results arrive once, in order, and a report says PASS exactly if all runs asked for have passed |
| `QemuAwaited` | a QEMU is alive only while its run is waited for |
| `SessionEnds` | a session ends, whatever QEMU does, and no scanner is left behind |

The run `runner` has two boots, a channel of one place (so that the runner blocks on
a slow interface) and two markers a boot. Two boots are a QEMU that survives and the
next one; a base seed of -1 gives both the same seed, one of 7 makes the second wrap to 0
(`SeedMod` stands for 2^32). The directory is empty or holds the files of an earlier session
(`Before`). 818 000 states. Fairness: goroutines run, and deadlines come; make is assumed to end, which
the code does not enforce; nothing is assumed of QEMU or of the user. A process
that ends stops everything, so deadlock is not checked.

### Proofs

`RunnerProofs` proves `TypeOK` and the three safety properties for any number of runs,
any capacity of the channel, any amount of output and any set of base seeds.
`SessionEnds`, a liveness property, is model-checked only. The invariant is `IInv` of
`RunnerInv` (add `INVARIANT IInv` to `Runner.cfg` to see TLC check it):

- `StreamInv` is the heart of `ReportTrue`. `IsEvent(ev, n)` says which event the n-th of
  the session may be, from what the runner has done so far. An event on its way is
  described by a state that has moved on since it was sent, so that each step must keep
  the descriptions that are already true (`Keeps`). The events applied, the one that a
  `waitEvent` has received and those in the channel are then the first `Sent` events,
  each once. That the interface never waits for two events at a time, which could
  swap them, is `UiInv`;
- `QemuInv` and `ScanInv`: where a QEMU may be alive, and what its scanner has said. A
  verdict of a scanner is about lines that stay the first lines of the output, so
  what it says remains true when the QEMU prints more or is killed;
- `SeedInv`: what make takes to be up to date, because it is there and not older than
  `.seedstamp`, has the seed in `.seedstamp`. So after a build that succeeds all parts have the
  seed of their run, also when earlier builds failed half way, when the seeds come round,
  and whatever `lastSeed` says. It needs that every part with the seed in it depends on
  `.seedstamp`: with `StampedRemoved`, where only the files of the runner's list do, TLC finds a
  kernel that is booted with another seed's `race_stress`.

## 8. DiskFs and Files

### State and code

`DiskFs` has no variables. A file system is a value: `ino` (the inodes), `ents` (the
entries of each directory), `used` (the bitmap) and `ind` (the indirect blocks). Its
operators do to that value what the functions of `fs.c` do while they hold the
inode's lock: `Balloc`, `Bmap`, `Itrunc`, `Writei`, `DirLookup`, `DirLink`. `Mkfs` is
the image that main of `mkfs.c` makes, step by step: the root directory, each file of the
command line, the rounding of the root's size and the bitmap.

`Files` adds the processes. `fs` is the file system as the buffer cache shows it and
`disk` what is committed; `itable`, `lock`, `ftable`, `ofile`, `cwd` are the inode table
with its sleep locks, the file table, and two fields of `struct proc`; `out` are the
processes inside a transaction; `panicked` says that iget has stopped the kernel. `k[p]` is the kernel thread: its label, the inodes it
holds (`ip`, `dp`, `old`), the inodes it has still to put (`puts`), and the rest of its
path.

| Code | Actions |
|---|---|
| `begin_op`, `end_op`, commit | entry of `out`, `EndOp`: the last to leave makes `disk` what `fs` is |
| `namex`, `nameiparent` | `Syscall`, `WalkNext` per name, `WalkParent`, `WalkEnd` |
| `iget` | in the step of its caller, whose guard `CanIget` says that the inode or a free entry is there; otherwise `IgetPanic`, the panic of fs.c:266-268 |
| `iput` | `IputRef`, or `IputLast`, `IputFree` and `IputDrop`: locked, freed on disk, given up |
| `sys_open`, `create`, `sys_mkdir`, `sys_mknod` | `OpenLock`, `OpenDir`, `OpenFile`, `OpenFail`; `CreateFound`, `CreateExists`, `CreateRefused`, `CreateNoInode`, `CreateAlloc`, `CreateNew`, `CreateFail`, `DirFail`, `Made` |
| `sys_link` | `LinkDir`, `LinkCount`, `LinkEntry`, `BadLink` |
| `sys_unlink` | `UnlinkFail`, `UnlinkFound`, `UnlinkNotEmpty`, `UnlinkRemove`, `UnlinkCount` |
| `filewrite`, `writei` | `SysWrite`, then per transaction `WriteBegin`, `WriteLock`, `WriteBlock` per block, `WriteDone` |
| `fileclose`, `sys_dup`, `fileread`, `filestat`, `kfork`, `kexit` | `SysClose`, `SysDup`, `SysRead`, `SysFstat`, `Fork`, `SysExit`, `ExitClose`, `ExitCwd` |
| `sys_chdir`, `kexec` (its use of the file) | `Chdir`, `ChdirFail`, `Exec` |
| power loss, `iinit` and `ireclaim` | `Crash`, `Reclaim`, `ReclaimNext` |

### Abstractions and bounds

A block is the unit of sizes and offsets; the bytes of files are left out. A step may
lock and unlock an inode when nobody can tell; `lock` has the inodes that stay locked
between steps. An inode in use has one of the `NINODE` entries of the table. The entry that
dirlink takes for a name it finds, and gives up at once, is asked for in that step only. After
a panic nothing but a crash follows: what the other CPUs do until they too stop, which needs
neither itable.lock nor a commit, is left out. A transaction never runs out of log space: Log
shows why. `Rest` is the end of the calls that the bound allows, or of a kernel that has
panicked.

### Properties and runs

| Property | Says |
|---|---|
| `RefsExact` | `ref` of an inode and of a file is the number of its holders on every path of every call, failures included; a process back in user mode holds no lock, reference or transaction |
| `DiskExact` | link counts are the numbers of names (`LinksExact`), the bitmap is what the inodes point to (`BlocksExact`), an inode without a name, whatever its link count, has a holder or is about to be reclaimed, three exceptions aside (`NoOrphan`) |
| `NoPanic` | the panics of ilock, unlink, dirlookup, log_write and iput are unreachable; iget panics only when open files, current directories and calls hold `NINODE` different inodes |
| `TypeOK` | also: an unlocked valid inode in the table is what the disk will get |
| `FreedByLast` | what fs.c:118 promises; violated, see section 11 |

`files` has two processes, four inodes, an inode table of three entries, four blocks, files of
two blocks (one direct, one indirect), three path calls among fourteen and a crash: 782 000
states. The disk runs out of blocks and of inodes, and the table of entries, in the
middle of create, link and write; the calls include two names for an inode, a
directory linked into itself, removed while somebody stands in it, one made in a directory
that has been removed, a chdir to a file, and a file opened, truncated and executed while it
is being removed.
`files_left` has the two names and two inodes that its trace needs.

`DiskExact` leaves out three things that the code really does. `left` are the inodes of
`files_left`. `fs.stray` are those that lose their last name because the directory it was
in is freed: a process whose current directory has been removed can still create
files there, they keep their link count, and neither iput nor ireclaim frees them.
`Revived` are removed directories in which a directory is made: create raises the parent's
link count for the new ".." (sysfile.c:285-289) without a look whether the parent still has a
name, so that it is 1 again and the last iput does not free it. The run reaches all three.

`iget: no inodes` can be reached in the code as it is configured: the table has 50 entries
(param.h), while 100 open files and 64 current directories may name as many inodes. The model
therefore has the panic as a step, and what holds is that the table is then really full: no
entry is lost to an inode that nobody holds.

### Proofs

`FilesProofs` proves `RefsExact`, for any number of processes, inodes, blocks, files and
descriptors, any image that mkfs makes, any set of path calls, and any number of calls and
crashes. `FilesInv` defines the inductive invariant `Inv` (`MCFiles` extends it; TLC finds it
true in `files`, with `INVARIANT Inv` added to `Files.cfg`). `RefsExact` is not inductive: it does
not say which of a thread's registers refer to something, so that `WalkNext`, say, might
put an inode 0. What makes it so:

- `ThreadInv`: which of `ip`, `dp` and `old` are in use at each label, and where a thread goes
  after its iput calls, of which it never has more than two.
- `LockInv`: which inodes a thread has locked at each label: for what it is doing, and for an
  iput of a last reference on the way there. create, unlink and mkdir put one inode while they
  keep another locked; these are never the same one, as iput finds the lock free.
- `DiskInv`, `EntryInv`: what an entry names is an inode, and the entry that unlink has found
  is still there when it locks the file, because nobody writes a directory that another has locked.
- `FileInv`, `OutInv`, `ItableInv`: open files and current directories name inodes; a process
  keeps the file that filewrite works on open between its transactions; who has given up its
  files has none; who is back in user mode has left its transaction.
- `RefInv`: the counts.

The counts of a step follow from the change of one thread's registers and list (`ThreadCounts`),
of one process's directory, and of one file: `OnePoint` says what the replacement of a function's
value at one point does to the number of points with a given value, and `Own` is what a thread
refers to. `RefsMove` puts these together, so that each action only has to say what moves: for
most, a reference goes from a register to the list of iput calls, or from the table to a
register. Fork, which moves a whole table of descriptors at once, counts them file by file
(`FdCopy`). The image that mkfs makes is followed through its loop (`AddFilesOk`): the least number of files
for which it had no root directory with a size, or an entry that names no inode, would have a
smaller one. `IgetFullHolds` is the part of `NoPanic` about iget (`IgetFull`): the references of an
entry in use are somebody's, by `RefInv`, so that a table without a free entry means as many
inodes with a holder. The proofs assume `DiskFsAssumption` and `FilesAssumption`.

`TypeOK`, `DiskExact` and the rest of `NoPanic` are only model-checked. They hang together: that ilock never
meets a free inode needs exact link counts, and these count the names in all directories, with
the calls in progress, and the bitmap the addresses in all inodes.

## 9. VirtioDisk and BufferCache

### State and code

`free`, `desc`, `ops`, `info` are `disk.free`, `disk.desc`, `disk.ops` and `disk.info`;
`avail` and `used` are the entries of the two rings that the other side has not taken yet; `irq`
is the device's interrupt status; `intr` is where the handler is; `rw[p]` is process p's
frame of `virtio_disk_rw`. `image` is the disk, `data` and `onDisk` are `b->data` and
`b->disk`. `lru`, `blockno`, `valid`, `refcnt`, `slock` are the buffer cache; `pinned` are
the blocks that the log has pinned; `panicked` says that bget has stopped the kernel.

A process takes a second buffer with a first in hand in four places: bmap asks balloc for a block
while it holds the indirect block (fs.c:430-439), itrunc asks bfree for the bitmap (463-470),
write_log and install_trans a block's home with its log block (log.c:185-190, 75-82). A member
of `Proc` holds one buffer, and such a process is two members: `Outer[p]` is the one with the
first buffer when p is the one with the second. A process is in one call at a time (`Turn`), asks
for the first buffer with none in hand, and for the second in the order that the four places
have (`InOrder`, `Level`): blocks of the log, indirect blocks, all others. A block keeps its
kind as long as anyone has it. Where `InOrder` is dropped, TLC finds two processes that wait for
each other's buffer.

| Code | Actions |
|---|---|
| `virtio_disk_rw`, `alloc3_desc`, `free_chain` | `RwStart` or `RwNoDesc`; `RwAgain` per wakeup; `RwDone` |
| the device (external) | `Complete`, of any request in the ring |
| `plic_claim`, `virtio_disk_intr`, `plic_complete` | `Claim`, `Ack`, `HandleUsed` per entry, `Handled`, `Completed` |
| `bget`, `acquiresleep` | `BgetHit`, `BgetMiss` or `BgetPanic`; `LockBuf` or `LockSleep` |
| `bread`, `bwrite`, `log_write` | `ReadDone`; `Modify`; `Bwrite`, `WriteDone`; `LogWrite` |
| `brelse`, `bunpin` | `Unlock` and, under bcache.lock, `Drop` |
| `kkill`, which wakes any sleeper | `Kill` |

A process does everything under vdisk_lock in one step, since it gives the lock up
only in `sleep`; the handler's section is several steps, because the device may add
to the used ring between them. The log pins at most `MaxPin` blocks, of any number of buffers.
With `NBUF = MAXOPBLOCKS*3 = LOGBLOCKS = 30` and `NPROC = 64` (param.h) the code has no buffer left
once the log has pinned 30 blocks, or 30 are in use, and bget then panics with "no
buffers" (bio.c:88): `BgetPanic`, after which nothing more happens. Nothing but the sizes of
the system calls keeps a transaction from it.

### Properties and run

| Property | Says |
|---|---|
| `ImplementsStore` | eviction, re-reading, partial writes and the order of completions are invisible: who holds a block has its last content, and nobody else changes it |
| `DmaSafe` | the device works only on a buffer whose process waits for it, by descriptors that nobody else has; no descriptor is freed twice |
| `CallsEnd` | every call ends, or bget has panicked: no completion, descriptor or lock is waited for in vain, also by who holds another buffer |
| `TypeOK` | also: counts are exact, a block is in one buffer, descriptors are conserved, bget panics only when every buffer is in use or pinned |

`disk` has two processes with two buffers each, over two buffers and three blocks: one takes
the bitmap, or a log block and then an indirect block; the other an indirect block and then the
bitmap. They evict each other's blocks, either may wait for the other's lock with a buffer in
hand, and bget runs out of buffers. There is one chain of descriptors (four for chains of three, so
that one is found and given back), one pinned block and four calls of bread or kill: 254 000
states. Fairness: each process with something to do does it, the
device answers, interrupts are taken; nothing is assumed of their order. An
`alloc3_desc` that finds one or two descriptors gives them back and thereby wakes the
others that wait, who may wake it in turn: they go round until a request ends, which
the device's fairness provides. The run ends when the calls have ended, so deadlock is not checked.

### Proofs

`BufferCacheProofs` proves `DmaSafe`, `TypeOK` and `ImplementsStore`, for any number of
processes, buffers, blocks and descriptors, of which at least three. `BufferCacheInv`
defines the inductive invariant `Inv` (TLC finds it true in `disk`, with `INVARIANT Inv`
added to `Disk.cfg`). Beside the types it is

- `ChainInv`: who waits for the device has a chain of three descriptors that is
  disjoint from the free ones and from every other chain; the free descriptors and the
  chains make up all `NUM`. Without the count, `free_chain` could free one twice.
- `RingInv`: a request is in one of the two rings, once, exactly while `b->disk` is set.
  This is what makes the handler's "id" name a process that still waits.
- `CallInv`, `LockInv`: who is in `virtio_disk_rw` has `b->lock` and asks for the block of
  its buffer; a locked buffer has one holder, valid except while it is being read.
- `CountInv`, `LruInv`: a block is in one buffer, whose count is its users and its pin;
  the list has every buffer once, and what bget evicts has no user.
- `PanicInv`: when bget has panicked, no buffer had the count 0; with exact counts that is
  the clause of `TypeOK`.
- `StoreInv`: a valid buffer differs from the disk only while it is pinned or its holder
  has changed it, and an answered request has made the two equal. An evicted buffer is
  neither, so nothing is lost with it.

`DmaSafe` follows from the first two; with the lock and the counts these give `TypeOK`.
The refinement reads a block's content (`stored`) from its valid buffer if there is one and
from the disk otherwise, and its holder (`holding`) from the threads between `ReadDone` and
`Unlock`. Those two, `LockBuf` of a valid buffer and `Modify` are steps of `BlockStore`; all others
are stutters: of `BgetMiss` that needs `StoreInv`, and of `Complete` that the device writes only the
content that the buffer's holder sees, or reads into a buffer that is not valid. The
proofs assume `VirtioAssumption` and `CacheAssumption`, which says nothing of how many buffers there
are. `CallsEnd` is only model-checked.

## 10. Spinlock, Uart and Console

### State and code

`cpu[c]` has `noff`, `intena` and the interrupt enable bit; `owner` is `lk->cpu`;
`panicked` says that a check of spinlock.c or sched has failed. `run[c]` is the kernel
stack of CPU c: the frame of its process and, above it, the interrupt handler's.
`tx`, `txIrq`, `rx` are the 16550; `tx_busy` is the driver's. `buf`, `r`, `w`, `e` are `cons`,
with indices that wrap at `Wrap` (2^32 in the code, a multiple of the buffer's size
here as there).

| Code | Actions |
|---|---|
| `acquire`, `release`, `push_off`, `pop_off`, `sleep` | `Acquire`, `Locked`, `Release`, `SleepOn`, as parts of the steps below |
| `consolewrite`, `uartwrite` | `WriteChunk`, `WriteByte`, `WriteSleep`, `WriteAgain`, `WriteEnd`, `WriteNext` |
| `uartputc_sync`, `printf` | `PutIdle`, `PutChar`; `PrintAcquire`, `PrintLocked`, `PrintEnd` |
| `devintr`, `uartintr` | `Interrupt`, `TxDone`, `Getc`, `Complete` |
| `consoleintr` | `Dump`, `DumpPrint`, `Erase`, `Ignore`, `Echo`, `Store`, `ConsEnd` |
| `consoleread` | `ReadCall`, `ReadSleep`, `ReadAgain`, `ReadKilled`, `ReadEof`, `ReadByte`, `ReadFault` |
| the 16550 (external), the user | `Transmit`, `Typed` |

The delays of `chaos.c` around acquire and release happen only while interrupts are
on and change nothing: they are the model's interleavings. A CPU that acquires a lock
turns interrupts off at once and spins; the lock is taken by the first step that needs
it. A process stays on its CPU (Proc shows the hand-over). A panic's own output is
left out: `panicking` lets it print without pr.lock, so that its line, and with it
a `[RACEGRADER_FAIL]` marker, may be interleaved with other CPUs' bytes until they
see `panicked`.

### Properties and run

| Property | Says |
|---|---|
| `LocksMask` | no check of spinlock.c fails; a CPU with a lock takes no interrupt, and takes them again after the last lock and the handler |
| `OnePerSource` | the transmitter's FIFO never has two bytes of one source, though writes, echoes and messages do not know of each other |
| `NobodyForgotten` | a writer sleeps only while an interrupt of the transmitter is to come, a reader only while no line is complete |
| `ImplementsLineQueue` | the ring with its wrapping indices is a queue of lines: erasing stops at the end of a line, each read gets a line or the part it wants, in order and once |

`devices` has two CPUs, a ring of three characters whose indices start at 4 and wrap at
6, and five typed scripts: end of file after a character, a full buffer without a
newline, control-U after a newline, backspace at the start and a carriage return, and
control-P. Two calls (read, write or a message, on either CPU) and one kill. 1.15
million states. Deadlock is not checked, as everything ends when the user stops
typing.

A byte that consoleread has taken from the ring when either_copyout fails is lost
(`Fault` in `LineQueue`): no comment says otherwise.

### Proofs

`ConsoleProofs` proves `LocksMask`, `OnePerSource`, `NobodyForgotten`, `TypeOK` and
`ImplementsLineQueue`, for any number of CPUs, any calls and input, and any size of the ring
that divides the wrap of its indices and is smaller than it. `ConsoleInv` defines the inductive
invariant `Inv` (TLC finds it true in `devices`, with `INVARIANT Inv` added to `Devices.cfg`), in two layers:

- the stacks. `StackInv`: a process's frame with, at most, the handler's frame above
  it; only one CPU is in the handler, as the PLIC hands out an interrupt once; a process that is
  interrupted was at a label without a lock. `MaskInv`: `noff` is what the frames
  have pushed, and the enable bit is set exactly when it is 0 outside the handler.
  `OwnInv`: at which labels a CPU may and must have each of the three locks. `LocksMask`
  alone is not inductive: it does not say how many `pop_off` are still to come.
- the data. `TxInv`: a write's byte is in the FIFO only while `tx_busy` is set, and who is
  about to put a byte has seen the FIFO without its own. `RingInv`: the indices are in order,
  what they enclose has been typed, and there is still room when the character that has
  been echoed is stored. `ReadInv`: what a reader has and still wants. `SleepInv`:
  `NobodyForgotten`, told of the stacks.

The data layer stands on the other: that `tx_lock` serialises writes, `pr.lock` messages and
`cons.lock` echoes and readers is what keeps a fact that was seen under a lock true until it is used.

The refinement reads the complete lines and the line being edited off the ring, from `r` to
`w` and from `w` to `e`. `StoreQueue`, `EraseQueue`, `TakeQueue`, `BeginQueue` and `EndQueue` map the
steps that change them, `QuietQueue` all others. What makes this hard in the code is the wrap:
`buf[i % INPUT_BUF_SIZE]` with 32-bit indices. `SlotFrom` and `SlotApart` show that places less than
a buffer's size apart are different slots, also when one index has wrapped and the other has
not; that is so because the size divides the wrap (`SlotWrap`), as 128 divides 2^32.

The proofs assume `SpinlockAssumption`, `UartAssumption` and `ConsoleAssumption`. Reads may be
longer than the ring: such a read takes up where it slept, or ends at a newline.

## 11. Findings

| Run | Finding |
|---|---|
| `cow_lazy_fork` | uvmcopy panics on a page that sbrk has promised and nobody has touched |
| `cow_copyout` | copyout returns -1 for a copy-on-write page |
| `proc_kill_zero` | `kill(0)` matches unused slots, whose pid is 0, and the next process created there exits at its first trap |
| `files_left` | iput frees the inode on disk before it gives up its reference: a file that is made in that inode and removed in between is freed by nobody until the next boot |

Defects that were met and have no run, each seen in the source:

- `..` in a directory that was removed together with its parent names a freed inode,
  and ilock panics (fs.c:316). `FilesAssumption` keeps `..` out of every path, also link's new one.
- A file created in a removed directory is never freed (section 8, `fs.stray`), nor is the
  removed directory itself when a directory is made in it (sysfile.c:285-289).
- `iget: no inodes` (fs.c:266-268) is within reach of user programs: NINODE is 50, NFILE 100, and
  each of 64 processes has a current directory. `bget: no buffers` (bio.c:88) is within reach
  of a log that has pinned all 30 buffers.
- `nlink` is a short that nothing bounds (sysfile.c:145): after 32767 links it is negative.
- `mkfs` adds a block to the root directory's size even if its entries end exactly at
  the end of a block (mkfs.c:166-170): that block is not allocated, and the first lookup
  that reaches it makes bmap allocate it. `DiskFsAssumption` excludes that case, which
  62 files in the image would meet.
- `kmem.free_pages` is set to 0 once and never changed, so that `kfreepages` returns 0.
- make has no timeout (runner.go:160), and ctrl+c may end the process before its
  goroutine has killed QEMU (tui.go:128).

## 12. What the tools cannot show here

Two forms of TLA+ reach the SMT solver wrongly in the installed tlapm: an EXCEPT that
updates a function twice at one argument, `[f EXCEPT ![p].a = x, ![p].b = y]`, and an
`@` inside the EXCEPT of another `@`. `Len` is taken to be defined for every function,
as if each had the domain of a sequence. A leaf that meets one of them can be proved
from hypotheses that contradict each other. The modules with theorems are therefore
written without the first two (`![p] = [@ EXCEPT !.a = x, !.b = y]` says the same), facts about
sequences are proved apart from those about other functions (`SeqOf` in PipeProofs),
and every leaf of the eight proof modules was tried once more without its goal: the
only ones that Z3 still refutes are proofs by contradiction, empty ranges and cases
that cannot arise.

Liveness (`NobodyWaitsForEver`, `CallsEnd`, `SessionEnds`) is checked by TLC on small
instances only: ENABLED is out of the prover's reach. `TypeOK`, `DiskExact` and
`NoPanic` of `Files`, but for its part about iget, are checked by TLC only as well: they stand on link counts and a bitmap that are
exact over the whole directory tree, with every call's part in them, and have not been proved. Every other
invariant and refinement that a run checks is a theorem. The models are of the code as it is written: compiler and
memory-order effects below the locks are outside. Not modelled, and why:

- boot, page tables of the kernel, device set-up: run once, before anything interleaves;
- `sys_pause`, `uptime`, `clockintr`: one counter under one lock, left for later;
- the program headers and second page table of exec;
- the random numbers of `chaos.c`: any delay and any order of slots is a behaviour of
  the models already;
- formatting, views, flags, and the layout of reports;
- user programs and tests.
