# Verification of the System V m68k kernel

The repository is System V Release 2 for the 68000: a kernel under
`usr/src/uts/m68k`, some 300 commands under `usr/src/cmd`, libraries and games.
The part whose correctness is hard to see and hard to test is the kernel: a
non-preemptive monitor in which a process keeps the processor until it calls
`sleep()`, where other processes then change everything it had looked at, and
where interrupts come between any two instructions the priority level admits.
This project models the kernel component by component, checks the models with
TLC and proves the central facts with TLAPS.

All line numbers are those of the files under `src/usr/src/uts/m68k` unless a
longer path is given.

## 1. Inventory

| Component | State | Operations | Interacts with | Hard behaviour | What makes it correct |
|---|---|---|---|---|---|
| Buffer cache, `io/bio.c` | `b_flags`, hash chains, `bfreelist`, memory of the buffers | `bread breada getblk geteblk bwrite bdwrite bawrite brelse bflush binval iowait iodone` | file system (caller), drivers (`d_strategy`, `iodone` at interrupt level), scheduler | the search is stale after every `sleep`; two wakeup protocols (`B_WANTED` of a buffer, of the list); asynchronous errors; last close with transfers in flight | one good buffer per block, free list = buffers not busy, one owner, no lost wakeup, no bad contents handed out, write-behind loses nothing |
| Raw I/O and swap I/O, `io/bio.c` `swap physio` | `swbuf`/`pbuf` headers | `swap`, `physio`, `physck` | drivers, `sched` | header shared by everyone, wakeup of those who wait for it | header has one user |
| Processes and scheduling, `os/slp.c` | `p_stat p_flag p_wchan`, `runq`, `runin runout runrun`, sleep queues | `sleep wakeup setrq setrun swtch sched swapin newproc` | signals, clock, every sleeper | wakeup of a swapped process, `runout` negated while in `wakeup`, race of `sched` with `wakeup` and with the clock | a sleeper is on its queue, a runnable process on `runq`, the swapper is not left asleep while somebody is ready to come in |
| Signals, job tracing, `os/sig.c` | `p_sig p_cursig SSIG STRC SWTED` | `psignal issig stop psig procxmt ptrace` | `sleep`, `wait`, `exit` | signal between the check and the sleep; stop/continue hand-shake with the parent over one `ipc` record | no signal lost, ptrace request answered by the child it was meant for |
| Fork, exit, wait, `os/sys1.c os/slp.c` | process table, `p_ppid p_pptr`, zombies | `fork newproc exit wait freeproc` | scheduler, signals, text | parent dies first, children inherited by init, wait racing exit | every zombie is reaped once, slot not reused while referred to |
| Clock and callouts, `os/clock.c` | `callout[]`, `lbolt`, `time` | `timeout clock timein delay` | drivers, `runin` | relative times in a sorted table; `timein` lowers the priority while it walks it | every callout runs once, in order, not before its time |
| System V semaphores, `os/sem.c` | `semid_ds`, `sem[]`, undo structures | `semget semctl semop semexit` | scheduler, exit | vector of operations undone on a sleep; undo across exit; removal while asleep | atomic vectors, values stay in range, no lost wakeup |
| Messages, `os/msg.c` | `msqid_ds`, `msgh` headers, `msgmap` | `msgget msgctl msgsnd msgrcv` | resource map, scheduler | four resources waited for one after the other; queue removed while asleep; copies fault | no header lost, byte count = sum of sizes, FIFO per type |
| Shared memory, `os/shm.c` | `shmid_ds`, per-process segments | `shmget shmat shmdt shmctl shmfork shmexit` | fork, exit, MMU map | removal while attached | attach count = attachments |
| Inode cache, `os/iget.c` | `inode[]`, hash lists, free list, `i_count i_flag` | `iget iput iread iupdat itrunc` | buffer cache, alloc, text, mount | sleeps while locked, error path, inode recycled under a searcher | one in-core inode per disk inode, count = references |
| Block and inode allocation, `os/alloc.c` | superblock free list, `s_inode[]`, `s_flock s_ilock` | `alloc free ialloc ifree getfs update` | buffer cache | lock released and list refilled by another process, `s_inode` refill while others free | no block twice free or free and in use |
| Pipes, `os/pipe.c os/rdwri.c` | `i_fflag i_frptr i_fwptr`, `IREAD IWRITE` | `pipe openp closep readi writei plock prele` | inode, scheduler, signals | reader and writer counts, wakeup when empty or full | bytes in order, once; nobody sleeps while it could go on |
| Files, `os/fio.c os/sys2.c` | `file[]`, `f_count`, `u_ofile` | `falloc closef getf ufalloc open close dup` | inode, devices | last close | count = references |
| Process, text and data locking, `os/lock.c` | `u_lock`, `SSYS` | `plock(2)` | swapper (a locked process is not its victim) | - | bits of one process |
| Shared texts, `os/text.c` | `text[]`, `x_count x_ccount`, `XLOCK XWANT` | `xalloc xfree xlock xunlock xexpand xuntext` | exec, swap | lock/want protocol, text freed while another waits | counts agree with users |
| Resource maps, `os/malloc.c` | `map[]` of free extents | `malloc mfree` | swap, text, messages | coalescing, table end | extents disjoint, sorted, nothing lost |
| Character lists, `io/clist.c`, terminals, `io/tty.c` | `cblock` free list, queues | `getc putc getcb putcb ttread ttwrite ttin` | interrupts | used at two levels | no cblock lost, characters in order |
| Path names, `os/nami.c`; mount, `os/sys3.c` | directories, mount table | `namei smount sumount` | inode | path walk sleeps at each component | - |
| Device drivers, `io/{ud,wd,lp,acia,...}.c` | hardware registers, `iobuf` queues | `strategy start intr` | buffer cache | elevator order | every request is completed |
| Trap, MMU, machine code, `os/{trap,machdep,sysm68k,user}.c ml/` | page tables, registers | - | - | - | - |
| Accounting, error log, profiling, `os/{acct,errlog,prf}.c pwb/` | - | - | - | - | - |
| Commands, libraries, stand-alone programs, games | - | - | kernel through system calls | - | - |

## 2. Plan

Modules in the order of their importance. Each models one component; `MC`
modules and the `.cfg` files give the constants small values.

| Module | Component | Abstract specification | State |
|---|---|---|---|
| `Bio` | buffer cache | `BlockStore`, mapped by `BioStore` | done; invariants and the refinement proved in `BioProofs` |
| `Sched`, `SchedMemory` | processes, run queue, swapper; memory, as far as the code keeps it | - | done; invariants proved in `SchedProofs` |
| `Sem` | semaphores | `AtomicSem` | done; everything proved in `SemProofs` |
| `Callout` | callout table, clock ticks | `Timer` | done |
| `ResourceMap` | `malloc`, `mfree` | `Pool` | done; everything proved in `ResourceMapProofs` |
| `Pipe` | pipes | `Stream` | done; everything proved in `PipeProofs`; copy errors to be added |
| `Alloc` | `alloc free`, the super block in `update`, with `s_flock` | `FreeBlocks`, a set of free blocks | done; everything proved in `AllocProofs` |
| `Inode` | `iget iput iread iupdat`, `ialloc ifree`, the calls on names, read errors, what a crash leaves | - | done; counts and locks proved in `InodeProofs`; mounts and texts to be added |
| `InodeNames` | what `i_nlink` says of the names, with any calls, on top of `Inode` | - | done; model-checked |
| `Msg` | messages | `MessageQueue`, queues by type | done; everything proved in `MsgProofs` |
| `Text` | `xalloc xfree xlock xunlock xccdec` | - | next |
| `Trace` | `stop ptrace procxmt wait exit` over the `ipc` record | request and answer | later |
| `PhysIO` | headers of `swap` and `physio`, the queue of the disk driver | a pool of headers | later |
| `Shm`, `Clist` | shared memory, character lists | - | last |

`Msg` rests on `ResourceMap`: its map of text is the set of free units that
`ResourceMapProofs` proves the map to implement. `Text` will compose with
`Inode`, and the driver's queue of `PhysIO` with `Bio`. No module declares a
recursive operator, so that all can be proved about.

Theorems worth proving next: `LinksUnlessLate` and `RobustUnlessLate` of `InodeNames`
(section 11 says what they need).

## 3. What the models have in common

The kernel is not preemptive: a process runs until it calls `sleep()`, ends its
system call, or is sent back by `qswtch()` on its way to the user. An action is
therefore the code between two points where something else can happen, with
every wakeup and every flag it changes: a `sleep()`, the start of a transfer
that may end before the next statement, or the return to the caller. `sleep()`
in the middle of a function splits it into two actions, and what the second one
does with what the first one read is what most properties are about. Interrupts
come between any two actions, and inside one only where the code lets them in
and it makes a difference (`timein()`, `sleep()` before `swtch()`).

A crash is not an action: what it leaves is what is on the disk, and
`RobustUnlessLate` and `SyncedSound` are about that in every state. Nothing is recovered by the kernel
itself, which mounts what it finds.

`wakeup()` makes all sleepers of a channel runnable; except in `Sched`, which is
about that, the models let runnable processes go on in any order.

## 4. The buffer cache: `Bio`, `BlockStore`, `BioStore`, `BioProofs`

### How the model corresponds to the code

`Bio.tla` has the buffers (`flags`, `blk`, `data`), the list of available
buffers (`freelist`, `wantFree`), the driver (`ioq`, `disk`) and, for every
process, where it is inside `bio.c` (`pc`), what it sleeps on (`chan`) and its
local variables (`frame`). `cpu` is the process that runs inside `bio.c`: no
other process moves before it sleeps or returns. Interrupts (`Complete`, `Fail`)
may come between any two actions. The `spl6()` sections of the code are inside
one action. `getblk()` searches the chain, and tests `B_STALE`, at `spl0`
(io/bio.c:279-281), and looks at `B_BUSY` only after `spl6()` (:282): `GetblkFind`
is the search, with which the process is at `found`, and `GetblkBusy` and
`GetblkHit` are what comes after it. No other process runs in between, but an
interrupt may come.

Abstractions: a hash chain is the set of buffers whose `blk` is on it; a block
is a pair (device, number); contents are a few values and `Garbage`; memory
addresses, byte counts and statistics are left out. The driver completes the
requests in any order, which covers the polling driver of `io/wd.c` (the
transfer ends before `d_strategy` returns) and the elevator of `io/ud.c`, except
for two requests for one block in its queue (section 13). A caller that holds a
buffer (`pc = "hold"`) may release it, write it in any of the three ways, or
keep it as long as it likes; it holds one buffer at a time.

`BlockStore.tla` is what the file system relies on: each block has contents as
the processes see them (`current`) and on the device (`durable`); a process
acquires a block alone, sees `current` (or nothing, if it did not ask to read), and changes
`current`; `durable` follows some time later. `BioStore.tla` maps the buffers to
it: the contents of a block are those of its valid buffer, otherwise the disk's.
`ImplementsStore` says that every behaviour of `Bio` is one of `BlockStore`
under that mapping, for the blocks of the devices that do not fail (`Kept`).

### Runs

| Run | Question | Bounds |
|---|---|---|
| `bio_safe` | list, ownership, wakeups, contents that are not bad without a mark, and the refinement of the block store while another device fails | 2 processes, 2 buffers, 3 blocks, one on a device that fails, 2 values; 2.4 million states |
| `bio_live` | sleepers are woken, `bflush` ends, nothing stale is served after a last close | 2 processes, 2 buffers, one device that fails and one that is closed; 0.5 million states |

Two processes and two buffers make every branch of `getblk` happen: the
buffer is found busy, found free, the list is empty, the oldest buffer is
delayed, it is clean; `geteblk` takes buffers away from blocks, so that they are
reassigned again and again, and there are more blocks than buffers. Reading ahead
needs two free buffers: with two in all `breada` reads ahead only when its first
block is in core. With three buffers and two blocks `bio_safe` passes as well
(7.7 million states, more than five minutes), and what it checks is proved for any
number of buffers. That two read-aheads wait for each other's buffer
(io/bio.c:121) needs more buffers than `bio_live` has, and no run covers it.

A fault is excluded from these properties. A read-ahead of a block is under way
when `bread()` of the same block searches the chain. `getblk()` finds the buffer,
not stale, at `spl0`; the transfer fails before `spl6()`; `iodone()` releases the
buffer, and `brelse()` sets `B_STALE`, clears `B_ERROR`, `B_BUSY` and `B_ASYNC`
and leaves `B_DONE`. `getblk()` then finds it not busy and takes it, and `bread()`
returns at :86 as if the block had been read, without an error, although it is to
"Read in (if necessary) the block" (io/bio.c:77). `BlockRead` of `Bio` states that
this does not happen; as an invariant of `bio_safe` TLC finds it violated. What is
checked and proved instead names the exclusion. `NoGarbage` is about buffers
without `B_STALE`: what an error spoils has this mark, or its holder is told.
`ImplementsStore` and `StaleNotServed` are about the devices that do not fail
(`Kept`, `Steady`): that errors come from other devices, and evict, release and
wake meanwhile, does not harm these.

Fairness of `bio_live`: a process inside `bio.c` that can go on does so in the
end (strong fairness of `Step(p)`: the processor is given to every runnable
process in turn, and between two turns it may be blocked by the non-preemptive
`cpu` of another), and every device interrupts for each request it was given
(weak fairness). No fairness makes a process enter `bio.c`.

### Seen on the way

`bflush()` is commented (io/bio.c:461) "make sure all write-behind blocks on dev
(or NODEV for all) are flushed out". It starts the writes and returns; it also
skips buffers that are busy. `closef()` gets past `bflush()`, `d_close` and
`binval()` while a block of the device is still being written. `StaleNotServed`
shows that what `binval()` marks then is never served.

### What is proved

`BioProofs.tla` proves, for any number of processes, buffers, blocks, devices and
values, under `BioAssumption` (finitely many buffers, the markers are not
buffers, blocks or processes):

- `Invariance`: `Spec => []BioInv`, the inductive invariant;
- `TypeCorrect`, `UniqueBuffer` (`OneBufferPerBlock`), `FreeListExact`
  (`FreeIffNotBusy`) and `Ownership`.

`OneBufferPerBlock` is not inductive. It needs that the list holds free buffers
only (`ListOK`), hence that a buffer taken from it is not one a process has just
found (`FoundOK`, `OwnersBusy`); that an owned buffer is not released under its
owner by the interrupt, hence that no owned buffer is asynchronous
(`OwnersBusy`, `AsyncInDriver`) and that owners are alone (`OwnersAlone`); and
that a buffer in the driver stays busy (`DriverOK`), which needs that no delayed
write is one (`DelayedOK`). `FramesOK` ties the local variables to the place in
the code. There is one lemma per action; each shows the conjuncts one by one
after stating who owns what in the new state. The lemmas on the list
(`RemoveAtList`, `EnlistList`) are facts on sequences without repetition.

Its second part proves the rest of what `bio_safe` and `bio_live` check of
safety: `BusyMeansOwned` (`OneOwner`), `SleepersServed` (`NoLostWakeup`),
`GoodContents` (`NoGarbage`), `NothingStale` (`StaleNotServed`) and
`CacheIsAStore` (`ImplementsStore`). They follow from a second invariant,
`ServeInv`, on top of `BioInv`:

| Part | Says | Needed because |
|---|---|---|
| `BusyOwned` | a busy buffer has an owner, a process or the driver | otherwise nobody releases it |
| `Sleeps` | who sleeps on a buffer waits for its transfer, or has left `B_WANTED` in a busy one; who sleeps for any buffer has left it in the list, which is empty | `brelse` and `iodone` clear `B_WANTED` for all sleepers at once |
| `Waits` | who is going to `iowait` has its buffer done or in the driver, from the start of the read of `breada` on | the transfer may end before the wait begins |
| `Seeks` | who looks for a first buffer has none | a process owns one buffer but while it reads ahead |
| `Fresh`, `FoundFresh` | an owned buffer is of the block its owner asked for, and it is not stale if its device does not fail, nor is one that `getblk` has just found | `binval` spares the blocks that are in use only because `closef` comes when nobody uses the device |
| `Told` | `getblk` finds no buffer with `B_ERROR`, and who waited for one has `u_error` | an error of a transfer nobody waits for must die in `brelse` |
| `Sound` | a buffer that is done, not stale and without an error has contents; those of the device, if that does not fail, unless it is a delayed write | the cache may forget a clean buffer |
| `Closing` | `bflush` does not give up the processor, and nobody uses the device it works for in `closef` | the condition of `closef` must still hold at `binval` |

The steps are of few kinds, with one lemma each: flags move that say nothing of
the contents (`MoveServes`), a free buffer is taken (`TakeServes`), a buffer goes
to the driver (`StartServes`), it is given back (`GiveServes`), a transfer ends
(`IodoneServes`). Each action is shown to be of one kind.

The refinement maps the contents of a block to those of the one buffer that
speaks for it (`Speaks`: it is of the block, not stale, and done without an error
or being written; its block is one of `Kept`), or else to the device; `ContentsNow` rests on
`OneBufferPerBlock`. A step leaves the contents of a block unless a buffer
begins or ceases to speak, and then `Sound` says that it said what the device
does. Getting a buffer is `Acquire`, `brelse` `Release`, `bdwrite` and `bwrite`
`Update`, the interrupt of a write `Persist`; all else, the transfers of the
devices that fail included, is a stutter.
`CacheIsAStore` is stated for `CloseDev = {}`, as `bio_safe` checks it: with a
device that is opened and closed as a special file the last close drops a write
that has not yet reached the device, and the store is not implemented (a read
after it may get the old contents from the device).

Model-checked only: the liveness properties.

## 5. Processes and the swapper: `Sched`, `SchedMemory`, `SchedProofs`

### Correspondence

| Model | Code |
|---|---|
| `stat chan bad time sig parent` | `p_stat p_wchan`, `p_pri > PZERO`, `p_time p_sig p_ppid` |
| `load lock seg` | `SLOAD SLOCK`, the segments in memory that are the process's own |
| `runq cpu dozing` | `runq`, `u.u_procp`; `dozing`: in `sleep()` past the sleep queue, where `issig()` has been asked and interrupts are let in, before `swtch()` |
| `runout runin outage` | the flags of `sched()` and its local variable |
| `xq xw` | the list of processes that grow by swapping and `x_w` (`xque`, `xsched`) |
| `pc arg` | where a process goes on when it gets the processor, and the process it works on |

`Rouse` is `wakeup()` and `setrun()` with their whole tail: who is runnable and
out makes the swapper runnable, which clears `runout`. `Look`, `InData`,
`InStack`, `InUndo`, `InDone`, `Victim` and `Pause` are the loop of `sched()` with
`swapin()` between its transfers; `SwapOut`, `OutData`, `OutStack` are `xswap()`,
for the swapper and for `xsched`. `ForkInCore` is `newproc()` with memory for the
child, `ForkToSwap`, `CopyData`, `CopyStack` without. `Interrupt` may come
between any two steps, also while a process is on its way into `swtch()`.

Abstracted: a process has two segments of one unit; `swtch()` takes any process
of the run queue that is loaded, which covers the priorities; texts, tracing
(`SSTOP`), shared memory and partial swaps are left out; swap space is not
short. `p_time` stops at `MaxTime` as it does at 127.

### Runs

`sched`: the two system processes and two users, three and four units of
memory (three force swapping when both live, with four a fork in memory
succeeds), two events, signals to both and growth. A third user may be there while
nobody sleeps for an event, is sent a signal or grows (`Bounded` of `MCSched`). Every
order of fork, exit, wait, swapping and interrupts is covered. TLC takes states for
one that differ only in values nobody reads before they are set again (the `VIEW`
`Kept`: the `p_pri` of who does not sleep, the `p_time` of a dead process, `outage`
while `sched()` searches), none of which an invariant reads: 1 million states.

- `QueuesExact`: the run queue and `p_stat` agree, which `wakeup()` of a process
  that has not left the processor yet could break;
- `SwapperHears`: `runout` and `runin` say where the swapper sleeps, and it does
  not sleep for work while there is some; `sleep()`, `wakeup()`, `setrun()`,
  `xswap()` and `clock()` each clear one of these flags on conditions of their own;
- `InCoreUntilLost`: memory is not given out twice, who runs is in it, and who is
  loaded has both segments in it, until something happens that is described below;
- `NoSignalSlept`, `WaitSeesZombies`: no signal and no dead child is slept over, one
  that init inherited from a parent that died first included.

With three users the run meets a fault.
`mmucreate()` wants to keep the swapper from the parent while the child is copied
to swap, but sets `SIDL` on the child, and `sleep()` in `swap()` overwrites it
(io/mmu1.c:239); the branch for other machines sets it on the parent
(os/slp.c:685). The parent is loaded, runnable, without `SLOCK` and on no queue;
`sched()` takes it as its victim when a third process wants its memory, and its
segments are given away while they are written as the child's. `CopyWhole` of
`Sched` says that this does not happen; as an invariant of `sched` TLC finds it
violated in 32 steps.

The end of that copy lets the parent go on although it is not loaded. `SchedMemory`
follows the memory up to this point: its variable `lost` says that a parent has
returned from `newproc()` without its own memory, and then the behaviour stops.
`InCoreUntilLost` claims nothing beyond it, but covers all before, parents that are
swapped out in the middle of a fork included.

That a runnable process that is out is brought in at some time is not stated:
`sched()` breaks ties by the place in the table, ties are the rule once `p_time`
has reached its maximum, and with the small maximum TLC can take that happens at
once. The property would speak of the bound and not of the code.

### What is proved

`SchedProofs` proves, for any number of users, events, units of memory and any
`MaxTime` (`SchedAssumption`), all five properties of the run. `SchedInvariance`
is the inductive invariant for four of them (`RunQueue`, `SwapperAwake`,
`SignalsHeard`, `ZombiesSeen`); beside the properties it has

- `Places`: which `pc` goes with whom, and that who is free, dead or waits for
  memory has none inside the kernel;
- `Running`, `Queues`: who has the processor can have it, and a process is on the
  run queue unless it runs, sleeps or waits for its child to be written. This is
  `QueuesExact` with the processes in `dozing` and `forking` told apart;
- `Sleeping` (`Fits`): where one sleeps follows from where he goes on, and the
  priority from the channel. Without it `wakeup(&runout)` could wake a user;
- `Forking`: a child that is written to swap has a parent that waits for it and
  for no other child, so that the end of the copy puts the parent on the queue
  once;
- `Growing`: who is in `SXBRK` is in the list of `xsched` once, and `xsched` works
  on its head;
- `Targets`, `Family`: the swapper works on users, and nobody is his own parent,
  so that `exit()` wakes another process than the one that ends.

There is a lemma for what each of the shared pieces does to the invariant
(`wakeup()` and `setrun()` with their tail, the switch, the signal) and one for
each action; each first says what the action leaves alone and then goes through
the conjuncts.

`InCoreUntilLost` is about memory, which is counted as pairs of a process and a
segment. Its invariant `MemInv` says whom the swapper (`HeldS`), `xsched` (`HeldX`) and
the copies for a fork (`HeldC`) have locked, loaded or half in memory; with
`SchedInv` it is kept by every step but the one with which a parent returns that
was taken out (`MemoryOfLoaded`). Nothing is assumed of the swapper's choice:
a parent whose child is being written may be taken as any other, and the child's
copy then goes on from memory that is another's.

## 6. Semaphores: `Sem`, `AtomicSem`, `SemProofs`

`sema`, `sem`, `undo` and `semtmp` are the tables of `os/sem.c`; `pc` and `frame`
say who sleeps in `semop()` and on which count. A call is one action up to the
`sleep()`, the retry another (`Retry`, `RetryFails` when the set is gone or the vector
cannot be copied in again, `Interrupted`). `OneOp`
is the body of the loop, in its order: the refusals, the undo entry, the
value, the wakeups. `Semundo` takes a vector back, last operation first. Values are 16 bits
unsigned, `semtmp.semvals` signed (`Setall`). Keys and permissions, which decide
only whether a call is made, are left out.

`AtomicSem` performs a vector in one step: `After` is the sum of the operations,
and each operation finds what the ones before it left. `ImplementsAtomic` needs
that taking back restores values and undo entries exactly, also when an undo
entry is refused in the middle.

The run `sem` has two processes, two sets of two semaphores in all, one undo
structure so that it runs out, vectors over both semaphores that fail at the
second operation, signals before and after the wakeup, and sets that are
removed and created again with the same semaphores. Who sleeps on a set that is
removed is woken by `SleeperCounted`: no sleeper is left on a set that is gone.
No liveness is checked: a vector may wait for ever, and what the kernel owes is
that it is woken when its turn may have come.

Seen on the way, without a run:

- `semop()` wakes those who wait for zero only when the value itself becomes zero.
  `<-1, 0>` waits for the value 1; nobody wakes it when the value becomes 1 on the
  way down, although the comment at os/sem.c:498 has the process wait "for the
  operations to be satisified atomically". `NoMissedGrant` holds for vectors that
  do not lower a semaphore before they wait for zero there, as those of the run,
  and is proved for these (`NoDips`); with `<-1, 0>` and a second process that
  does `<-1>`, TLC finds it violated in five states;
- a negative value of `SETALL` is a signed short, passes `> semvmx` and is stored
  as a large unsigned value (os/sem.c:321). `TypeOK` bounds the values by `SEMVMX`
  when no value of `SETALL` is negative, as in the run, and by 65535 otherwise
  (`Top`);
- a process that is signalled after it was woken decrements a count it is no
  longer part of (os/sem.c:559); the count is reset and the others woken, so that
  `SleeperCounted` holds all the same;
- `<+1 C, -1 D>` and `<+1 D, -1 C>` can wake each other for ever: each pass adds,
  wakes, and is taken back.

`SemProofs` proves `SleeperCounted` (`SleepersCounted`), `UndoOfLiveSets` (`UndoLive`),
`TypeOK` (`SemTypes`), `NoMissedGrant` and `ImplementsAtomic` for any number of
processes up to 65535, sets, semaphores and undo entries, any vectors (but see
below) and any limits that fit a short (`SemAssumption`). The first three follow
from `SemInv` (`SemInvariant`) alone:

| Part | Says | Needed because |
|---|---|---|
| `HeadersOK` | sets that exist have semaphores of their own | a wakeup for one set must not be taken for another's |
| `Mem`, `InRange` | values and counts are not negative, values not past `SEMVMX` or the greatest value `SETALL` stores | an undo or a vector taken back adds what was subtracted before |
| `Tables(Keys)` | the undo entries are sorted, one for each semaphore, none is zero, and each is of a semaphore of a set that exists | `semaoe()` finds its place by a search, `semunrm()` takes out a range |
| `Calls`, `Frames` | who is in `semop()` has a call, and its set exists with the semaphores of its vector, or is gone for good | `semop()` compares the sequence number alone after a sleep |
| `Counts` | the count of a sleeper is positive, and no count exceeds the number of those who are asleep there or leave by a signal | see below |
| `Sleepers` | who is asleep sleeps on a semaphore of its own set, which exists | `IPC_RMID` wakes whom it finds counted, and nobody else |

`Counts` is what makes `SleeperCounted` inductive. A count is set to zero by the one
who wakes its sleepers, and decremented by each one who leaves by a signal, also
when it had been woken and is counted no more. So a count may be too low. It does
not strand anybody: whoever brings it to zero wakes all who are still there, and
as long as it is positive the next wakeup finds it so. It is never too high: the
bound by the cardinality of the sleepers keeps it below the number of processes,
so that the unsigned short does not wrap.

A pass over a vector, and `semundo()`, are recursive functions in the model.
`PassIs` and `SemundoIs` show from 0 upwards (`Iteration`, `Upwards`) that such
functions exist, and `PassKeeps` what they keep: ranges, keys, the counts that were
cleared and whom that wakes. `SemTypes` has no hypothesis about `SETALL`: what bounds the values is
`Top`, which is `SEMVMX` if it is given no negative value.

`SemNoMissedGrant` proves `NoMissedGrant` from `SemInv` and `Blocked`: one operation of
a sleeper's vector must wait, at the value its semaphore has now, and it is the
one the process was counted at (`Stuck`). A pass, a store, `exit()` and a removal
clear the count of every channel that a changed value concerns (`Heard`: who waits
for more, if the value grew; who waits for zero, if it became zero), so that a
sleeper whose count is still positive sees its operation blocked as before
(`HoldsKept`). The theorem has `NoDips` as its hypothesis: what the operations
before a wait for zero add to its semaphore is not negative. Without it the theorem
is false, as said above.

`SemImplementsAtomic` proves that `Sem` implements `AtomicSem`, if no value of `SETALL` is
negative. What a pass and `semundo()` do is related, operation by
operation, to the sums that `AtomicSem` is defined with: `Values` and `Accounts`
say what the values and what is owed are after `n` operations, `Kept` and
`StoppedAt` that the pass and the taking back go along them (`PassDoes`,
`BackMore`). An undo entry that `semaoe()` put in when the vector went forward is never
refused when it is taken back (`MayTakeBack`), although `semundo()` ignores a
refusal: what it leaves is an adjustment that was allowed before. `SemaoeOwes` and
`SemunrmOwes` say what the two
do to the adjustments as a function of semaphores (`AdjOf`). The values need one
invariant more, `Unused`: a semaphore of no set is zero, so that `semget()`
creates sets of zeros; `Seqs` bounds the reuse of a header as `MaxSeq` does.

## 7. Callouts: `Callout` and `Timer`

`callout` is the table with relative times, `timein` the stack of `timein()`
calls under way, each with the number of entries it has called. `Clock` is the
part of `clock()` that counts, `Call` one call of a function, during which
functions may call `timeout()`, `Compact` the end of `timein()`. Who asked for a
function waits until it was called before he asks for it again (`Asked`), as
`delay()` does.

`Timer` promises that what is asked for is called once, at its tick.
`callout_timer` (five functions, delays of up to three ticks, a table of five
entries of which four are usable) shows it for functions that together take less
than a tick, also when the table is full, and that its last entry stays empty,
where the scans end. `AskedIsCalled` needs the weak
fairness of the clock and of `timein()`. `callout_overrun` lets the clock
interrupt, at priority 6, a `timein()` at priority 5: the second `timein()`
calls the same functions again and moves the table under the first
(`CalledOnce` is violated).

`delay()` can lose its wakeup when all its ticks pass between `timeout()` and
`sleep()` (os/clock.c:230); nothing in the repository speaks of it.

## 8. Resource maps: `ResourceMap`, `Pool`, `ResourceMapProofs`

`map` is the entries before the one of size zero, `room` is `mapsize`, `want` is
`mapwant`, `held` what the callers hold. `Malloc` and `Mfree` are the two
functions, with all cases of combining and with the overflow that loses a
region. `Allocate`, `Sleep` and `GiveUp` are the callers: `swapalloc()` tries
again after each wakeup, `msgsnd()` may be interrupted.

The run `rmap` has two processes and seven units with a table for two regions,
so that fragments overflow it. `ImplementsPool` maps the entries to the set of
free units of `Pool`.

All of it is proved for any table, number of units and of processes
(`ResourceMapProofs`): `Exclusive`, `Combining`, `NoStrandedSleeper` and
`Refinement` rest on
`Invariance` of `TypeOK /\ Coalesced /\ HeldOnce /\ SleepersDontFit`. It is
inductive as it stands, but the proof is about the map alone first: `MallocGood`
and `MfreeGood` say what a step makes of a good map (`Good`: sorted, separate,
apart from what is held) and of the units it covers; the latter has a case
for each way a region combines. `Refinement` then needs only that the units of
the entries change as they should (`FreeUnitsNext`) and that a request that fits
no entry fits no run of free units (`NoFitNoRun`), which holds because
adjacent entries are combined.

## 9. Pipes: `Pipe`, `Stream`, `PipeProofs`

| Model | Code |
|---|---|
| `frcnt fwcnt size frptr fwptr fflag` | `i_frcnt i_fwcnt i_size i_frptr i_fwptr i_fflag` |
| `locked want` | `ILOCK IWANT` |
| `ring` | the blocks of the pipe in the cache; `Lost` what a cancelled write or a buffer that is not read holds |
| `files` | the open files of each process |
| `u` | `u_count u_offset usave` and the call under way |

`Plock` is `plock()`, which every job goes through; the inode stays locked
through `ReadBlock` and `WriteBlock`, one for each block, and is released for each
sleep (`Read`, `Write`, `WriteEnd`). `Slept`, `OpenAgain` and `Back` are what
follows a sleep; `Interrupted` what a signal does, which for `copen()` is to
close the half-open file. `O_NDELAY` is chosen for each open and call. A byte is
its place in the write it belongs to, which tells lost, repeated and
mixed bytes apart.

`Stream` is one sequence of bytes with writes of up to its capacity in one step.
The run `pipe` has two processes, a pipe of two blocks of two bytes, reads of 1
and 3 bytes, writes of 3 and 5: a write that fits and leaves half a block, one
that wraps, one that is larger than the pipe, reads that end inside and
behind a block. A process may hold both ends. 2 million states, with symmetry of
the processes. `EndsExact` is about the counts of readers and writers, which a
signal in a half-done open must give back, and about the pointers, which enclose
`i_size` bytes between the calls; `SleepsForReason` about the two wakeups; no
liveness is checked.

Left out: a copy that fails. When `iomove()` meets a bad user address
`writei()` and `readi()` still change `i_size` by `n` (os/rdwri.c:215, :93), while
the offsets stay. A device without space would end a write in the middle.

`PipeProofs` proves all three for any finite number of processes, any size of
pipe and block, and any reads and writes (`PipeAssumption`): `EndsAndPointers`,
`Sleepers`, `PipeImplementsStream`. Neither of the invariants is inductive. `PipeInv` adds

- `Frames`, `Jobs`: what a call is about follows from where it is, and who has an
  open half done has no other end of the pipe;
- `PipeLocked`: one holder of the inode, never asleep, and `IWANT` set for each
  sleeper, so that `prele()` strands nobody;
- `Fits`: the holder that writes has room for what it still writes;
- `SleepersHeard`: a sleeper has its reason and its flag, `IFIR` or `IFIW`, or
  the holder is in the middle of what it waits for. It is what makes
  `SleepsForReason` inductive, which says nothing while the inode is locked.

The proof has a lemma for each kind of step (`OutsideStep`, `CallStep`,
`UnlockStep`, `WaitStep`, `BlockStep`, `OpenedStep`, `ClosepStep`), each with one
fact for each part of the invariant; `CountsMoved` says what a step makes of the
ends of a pipe. `PointersExact` follows from `Pointers`, which says where the
bytes begin and end while a call is at work on them (`PointersBegin`,
`PointersBlock`, `PointersEnd`).

For the refinement, `Stored` says what the bytes are. Its part `Booking` relates
where a call is to what it has put and saved: nothing is put before the first
block, and only a write longer than the pipe has something saved. `Contents` says
that what the write under way has put is in the ring, in its order, behind the
bytes that are there for all. The stream's queue is the stretch of the ring from
where the bytes begin, less what is put by a write that has not ended. `Init`
gives `Stored` (`InitStored`), and each step keeps it and is a step of the stream
or none (`NextStored`, one lemma for each action): `Call` is `Begin`, `ReadBlock` a
`Receive`, `WriteEnd` a `Send` of all the write has put, however many blocks it took;
`Open` and `Closep` are `Recount`, `Back` and the errors `End`; `WriteBlock`, the
locks and the sleeps change nothing that the stream has. The work is in
the arithmetic round the ring: `StretchTaken` and `StretchPut` say what is left of
a stretch when its head is taken and when a write is put behind it, `PutOn` that a
block goes where the last one ended; that what `ReadBlock` cancels holds no bytes
that are still to be read is `SameBehind` in `ReadBlockActs`.

## 10. Free blocks: `Alloc`, `FreeBlocks`, `AllocProofs`

| Model | Code |
|---|---|
| `sfree tfree flock fmod` | `s_free` up to `s_nfree`, `s_tfree s_flock s_fmod` |
| `link` | `df_free` in the blocks that hold the other parts of the list |
| `disk buf uinode` | the super block on the disk, in the buffer of `writei()`, and `uinode.i_flag` |
| `held bno` | the blocks of files, and the block a call is about |
| `pc chan` | where a process sleeps: for `s_flock`, in `bread()`, `getblk()`, `bwrite()`, `delay()` |

`AllocPop`, `AllocRead`, `AllocGet` are `alloc()` between its sleeps, `AllocNone`
and `AllocReadError` end at `nospace:`. `FreeIt` is what `free()` does when it
looks at the list, at first or after a sleep; `FreeCopy` and `FreeWritten` put a
full list into the block that is freed. `Update`, `UpdateCopy`, `UpdateWritten`
are the super block's part of `update()`.

The run `alloc` has three processes, three blocks and a list of two in the super
block, so that it spills and is read back; a read may fail. Two processes sleep
for the lock while a third holds it. 85 thousand states, with symmetry.

- `EachOnce`: whoever wakes in `free()` or `alloc()` finds the list as it is then,
  not as it was;
- `ListLocked`: nobody sleeps for the lock without a holder, also after an error;
- `SyncedSound`: when `s_fmod` says there is nothing to write, the list on the
  disk has all free blocks and none of a file's;
- `ImplementsFreeBlocks`: `ENOSPC` means that no block is free, or that the rest of
  the list is lost by an error of the disk.

`AllocProofs` proves the four for any number of processes and blocks, any
`NICFREE`, and with or without blocks that cannot be read. `ListLocked`
(`ListLocking`) is inductive with the types of `pc`, `chan` and `s_flock`
(`LockInv`): a process that is not asleep and is past the look at the lock is the
one holder, everybody else who got there sleeps. The other three follow from
`AllocInv` (`AllocInvariance`), which adds to it

- `Places`: `s_nfree` is 0 while a part of the list is read or written, and `bno` is
  a block in between;
- `ListInv`: `Good`, no block twice in the parts, 0 only where a part begins; `Apart`,
  each block is free, or one process's, or lost, and the block that `alloc()` took
  or `free()` is about to put into the list is not in it (the list is one of the
  block's own file until `bwrite()` is done: that is why `FreeSet` leaves out what
  is being given); and the count of `s_tfree` against the blocks on their way;
- `OneUpdate` and `DiskInv`: as long as `s_fmod` is clear, the copy that is on the disk,
  or will be when the `update()` under way is done, has no block of a file, and
  has all free ones unless a process has the list in hand, who will set `s_fmod`.
  A list written into a freed block does not disturb the copy: that block is not
  in it.

The parts of the list are a function of the numbers (`Parts`). `Iteration` shows
that such a function exists and `Upwards` what holds for all of its values;
`Pushed`, `Popped`, `Stacked` are what `free()` and `alloc()` do to the list, and
`PartsEnd`, by the pigeon hole, that it is no longer than there are blocks.
Every step then has an `Effect` on the set of free blocks: it keeps, takes,
gives, gets or loses, which is also the step of `FreeBlocks` it is
(`FreeBlocksRefinement`).

`s_tfree` is a bound only: an error sets it to 0 and what is freed then is counted
again, and a failed `alloc()` sets it to 0 while others are about to free.
Left out: `badblock()`, which is never true in a good file system, and read-only
ones.

## 11. Inodes and names: `Inode`, `InodeNames`, `InodeProofs`

| Model | Code |
|---|---|
| `inode ifreelist` | `inode[]` with `i_number i_count i_mode i_nlink`, `ILOCK IWANT`, `upd` for `IACC IUPD ICHG`, `syn` for `ISYN`; the free list |
| `dino disk` | the inodes in the buffers of the i list, and on the disk |
| `dent ddent dlock` | one directory, in its buffer and on the disk, and its lock |
| `sninode sinode silock` | `s_ninode s_inode s_ilock` |
| `files` | the open files of each process |
| `u pc chan` | the call under way, where it goes on, and what it sleeps for |

One action is one stretch between sleeps of `iget`, `iread`, `iput`, `iupdat`,
`ialloc`, `namei`, `link`, `unlink`, `wdir`, `copen`, `closef`, `pipe`, `update`;
`Leaves` says where an `iput()` or a failed `iget()` returns to. What is written
with `ISYN` or `FSYNC` is on the disk at once, everything else gets there block by
block at any time (`Flush`). The entries above `s_ninode` of `s_inode` are kept only
where the code looks at them.

`InodeNames` is about names. `Inode` lets another process run between any two
actions, which is more than the kernel does and does not matter for counts and
locks; for names it does, that a process that releases a lock and goes on into the
next `iget()` or `namei()` keeps the processor. `InodeNames` adds `run`, the process
that goes on, and the run `inode` uses it.

The run takes the calls in pairs of workloads: creat and unlink with pipe and with
sync; unlink with creat and open; link and unlink with open, close and sync, with
each other, and with creat; open with pipe. There are three inodes, two entries in the table, two free
inodes in the list, two files and two links, so that every table runs full and
every list empty. In some workloads (`Faulty`), the block of the first inode cannot
always be read. There is one inode in a block of the i list, which makes `FsINOS()`
begin its search behind the inode it is given, as the code does for the last inode
of a block. 2.3 million states.

- `CountExact`: `i_count` is the number of files and calls that use an entry, and
  no inode has two entries, through `iput()` that sleeps with the last reference
  and `iget()` that waits for it;
- `LocksHeld`: each lock has one holder and no sleeper without `IWANT`;
- `LinksUnlessLate`: `i_nlink` is the number of names, a file with none that is not
  open is free, and `ialloc()` never gives out an inode that is one (`LinksExact`);
- `RobustUnlessLate`: at any moment, each name on the disk leads to an inode that
  is allocated there and has as many links at least: the order of the writes in
  `ialloc()`, `link()`, `unlink()` (`Robust`).

When the `bread()` of `iupdat()` fails (os/iget.c:194-198), `iupdat()` returns
nothing, but `u_error` stays set for the rest of the call (`Errs`): `link()` does not
look for its second name and takes `i_nlink` back (`NameiError`, `LinkOut`), `wdir()`
does not write the entry of `creat()`, which gives its inode back (`Wdir`), and the
next `iread()` of the call fails. `pipe()` and `update()` do not look at it.

The last two properties name two exclusions. The first, `late`, is a fault. `namei()`
releases the directory and calls `iget()`, which may sleep for the inode's lock
(os/nami.c:219, os/iget.c:74). The last name may be removed and the inode freed by
the `iput()` that has the lock; `iget()` then finds it again with mode 0, and `link()`
counts and enters a name for a free inode. Without `late` TLC finds `LinksExact`
violated in 39 steps. It is not the race that `link()` speaks of, "Sadly, this means
races. (Suppose someone deletes the file in the meantime?)" (os/sys2.c:267): that is
between the release of the inode and the new name, when `i_nlink` has already been
incremented, and the run shows that it does no harm.

The other exclusion is blocks that cannot be read (`Readable`), and `inode_read` shows
why. `iread()` calls `iput()` before it has read `i_nlink`, which is that of the file
that had the entry before, or 0. With 0 the inode is freed and, if the block can be
read by then, written with mode 0: the name on the disk leads to a free inode
(`Robust` is violated).

`InodeProofs` proves `CountExact` and `LocksHeld` for any number of processes, names, inodes,
entries of the table, files and links, and whatever blocks cannot be read, with
the `u_error` they leave (`CountsExact`, `LocksAreHeld`). Neither is inductive. `InodeInv` adds

- `TypeOK`, the types;
- `CallOK`, what a call is about at each label (`Fits`: which operation, which of
  its two entries, which name), and that `i_count` is 1 from the moment `iput()` has
  decided to give the inode up (`Last`): the lock it sets again at that point
  (os/iget.c:155) is what keeps `iget()` away while it sleeps in `itrunc()`;
- `EntryLocks`, `DirLock`, `ListLock`: the labels at which a call holds a lock, so
  that what one step counts under a lock no other step counts;
- `Counts`, `OneEntry`, `FreeList`: the parts of `CountExact`, with the list as a
  sequence without repetition. An entry with a reference is not in it.

There is one lemma per action, `XOK` for the action `X`: it says of the process that
moves what `StepOK` asks, how its own locks and references changed, and
`StepKeeps` concludes for all. `OpenBound` shows that `falloc()` bounds the files of
each process, and `NthIn`, by the least counterexample, that what `ialloc()`
takes from a block is in it. `RobustUnlessLate` and `LinksUnlessLate` are checked by
TLC only: they say what is on the disk, and would need an invariant of which write
of each call is done.

Seen on the way, without a run:

- `ialloc()` does not clear `u_error` when a block of its search cannot be read:
  it skips all blocks after it too (os/alloc.c:194);
- `ifree()` with a full list changes `s_inode[0]`, where the search begins and
  which is itself given out last: an inode may be missed, and `ENOSPC` be told
  while it is free (os/alloc.c:240).

## 12. Messages: `Msg`, `MessageQueue`, `MsgProofs`

`msgque`, `msgh`, `msgfp` are the tables of `os/msg.c` with their pointers, `text`
the free units of the text map and `want` its `mapwant`. `pc` and `asleep` say
who sleeps and for what, `frame` the call. `WaitForRoom`, `WaitForHeader`,
`WaitForText`, `SendFault`, `Send` are the ways through `getres:` of `msgsnd()`,
which is entered again after each sleep (`Tries`); `Receive`, `ReceiveFails`,
`WaitForMessage` those through `findmsg:` of `msgrcv()`. `Unlinked`, `FreedFor` and
`Freed` are `msgfree()`, also in a row for `IPC_RMID`.

The text map is the set of units that are free, from which the first hole that
fits is taken: that `malloc()` and `mfree()` do that is proved in
`ResourceMapProofs`, with its overflow, which cannot happen here (the map has
more entries than there are headers). A call with `IPC_NOWAIT` that cannot go on
changes nothing. Keys, permissions, times and process numbers are left out.

`MessageQueue` has each queue as the sequence of its messages: `msgrcv()` gets
the first of its type, or the first of the least type up to its bound.

The run `msg` has three processes, one queue that is removed and created again,
two headers and three units of two bytes, messages of nothing and of three bytes,
limits of one long message and of two; so that room, headers and text run out one
without the other. 102 thousand states, with symmetry of the processes.
`NobodyStranded` says for each of the four things a process can wait for that it
is not there and that the flag is set which makes the next change wake it. It
leaves out one case by name, the queues in `raised`: `IPC_SET` may give a queue
more room and wakes nobody (os/msg.c:121). No liveness is checked: with the
retries of `msgsnd()` others can always be faster.

`MsgProofs` proves all three for any number of processes, queues, headers and units
of text, any messages and limits (`MsgAssumption`): `MsgListsExact`,
`MsgNobodyStranded` and `MsgImplementsQueues`. They follow from the invariant
`MsgInv` (`MsgInvariance`), which says that there are lists `L`, a sequence of headers
for each queue and one for the free headers, such that

- `Partition`: each header is in one list, once;
- `QueueOK`: the list of a queue is a chain of `next` pointers from `msg_first` that
  ends at `msg_last`, and `msg_qnum` and `msg_cbytes` are its length and the sum of
  its sizes; the list of a removed queue is empty;
- `TextOK`: the spans of the headers in use do not meet, and what is in none of them
  is free;
- `Calls`, `RoomOK`, `HeaderOK`, `TextWaitOK`, `MessageOK`: what a sleeper waits for is
  not there, and the flag is set.

The model follows a list with a function that walks through the headers, which
the lists of `L` replace: `Chain` determines the walk (`Walks`), so that the lists of a
state are the ones `L` names, and a step is shown by naming the lists after it:
`More` at the end of one, `Less` out of the middle of another, `Back` for `IPC_RMID`,
which frees a queue from its head so that it goes in front of the free list back
to front. For each of these there is one fact on chains, one on text, one on
sums. `RoomStep` and its three companions say that a step which does not make what
is waited for appear, or wakes those who wait, keeps the sleepers' conditions.

For the refinement, a queue is mapped to the sequence of the types and sizes of
its headers (`Briefs`). Sending is `MessageQueue`'s append, receiving its removal of
the message that `Picked` names, and a step that wakes, sleeps or fails stutters.

## 13. What is not modelled

`PROJECT.json` lists every component with what is left out of it; the parts
planned are in section 2. Beyond those:

- the elevator of `io/ud.c` may pass a read over a write of the same block. Two
  requests for a block are queued at once only after `binval()` of a device with
  a write in flight (section 4);
- `swap()` and `physio()`, whose headers do not meet the cache;
- `m_size` is a short, and a hole of more than 32767 units would be negative;
- `swapin()` unlocks the text of a process without one when there is no
  memory (os/slp.c:353), part of the planned `Text`;
- liveness where no fairness of the code supports it: pipes, the swapper.

Only model-checked, never proved: what `InodeNames` says of names, everything of
`Callout`, and all liveness. Liveness under fairness is outside the reach of the
prover. The properties of names need more invariants than were found (section 11).

### Hazards that wait for their modules

`PROJECT.json` has the hazards the properties are about, and the first ones of
the planned modules. These are the others that were met in reading:

| Where | What |
|---|---|
| io/bio.c:517, :551 | the headers of raw transfers run out; `physio()` wakes the waiters of a private header before it clears `B_BUSY` |
| os/text.c:192 | `xalloc()` sleeps in `xlock()` between finding a text and counting itself in `x_count` |
| os/sig.c:329 | `ptrace()` sleeps for the `ipc` record after it has found the child, which may not be stopped any more then |
| os/shm.c:442 | `shmdt()` computes where the other segments end from the size of the one it detaches |
| os/shm.c:562 | removal and last detach in either order, exit of a child that has the segment from fork included |
| os/alloc.c:297 | `update()` does nothing when another process is in it: `sync(2)` returns with nothing written |
| os/text.c:134 | `xfree()` clears `XLOCK` without a look at `XWANT`, and `xccdec()` locks and unlocks again only if the text is in core |
| os/msg.c:121 | `IPC_SET` raises `msg_qbytes` and wakes no sender |
| os/sem.c:321 | a negative value of `SETALL` |
| os/sys3.c:366 | `sumount()` has slept before it looks for inodes in use, and has released the root when it gives up |
| os/sig.c:454 | continuing a traced child clears signals that came while it was stopped |
| os/clock.c:230 | `delay()` and its wakeup |
| os/sem.c:530 | two vectors that wake each other for ever |
| sys/map.h:4 | holes larger than a short |

## 14. Running the checks

`tlc -config <run>.cfg <module>` for each run of `PROJECT.json`; `tlapm
BioProofs.tla` and the same for `SchedProofs`, `ResourceMapProofs`, `PipeProofs`,
`AllocProofs`, `InodeProofs`, `SemProofs` and `MsgProofs` for the proofs. Each property
of a passing run has a mutant in the module it is about: an operator with a
plausible mistake, marked `Mutant` in its comment, which makes TLC report the
property when it takes the place of the definition after it.
