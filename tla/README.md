# A verification of os_projects

The repository holds six course projects: a shell (Project1), four stages of a
teaching kernel (Project2 to Project5) and a web server (Project6). The kernel
stages are the core: Project2 has the priority scheduler and the alarm clock,
Project5 is the last version of everything else (processes, virtual memory, the
file system with its buffer cache). Project3 and Project4 are earlier versions
of code that Project5 contains, and are left aside.

The development models eight parts: the scheduler with the synchronization
primitives and the alarm clock of Project2; from Project5 the buffer cache, the
life of processes, paging with mapped files, inodes with the free map, and
directories with paths and descriptors; the web server; and the shell's
execution of a line. For the buffer cache, processes, inodes, directories, the web
server and the shell the safety properties are also proved for every size of the
system, for paging and the scheduler most of them, and so is that the buffer cache
implements its abstract specification.

## Inventory

| Component | State | Operations | Interacts with | What makes it hard, and correct |
|---|---|---|---|---|
| Buffer cache (Project5 `filesys/cache.c`) | sectors with index, data, dirty, owners and two locks; `cache_lock`, `cache_sem`, free list, clock hand | `take_sector`, `release_sector`, `evict_sector`, `sector_cache_flush`, the write-behind thread | called by inodes and the free map; reads and writes the block device | three kinds of lock and a semaphore taken in different orders, unlocked reads; nobody's write is lost, an owned sector is never evicted, `PANIC` is unreachable, every call returns |
| Priority scheduler (Project2 `threads/thread.c`) | ready list, base and donated priorities, `locked_on` | block, unblock, yield, create, exit, set priority, donate, update donations | every other part of the kernel | donation along chains of locks while priorities change; the foremost thread runs, no inversion |
| Semaphores, locks, conditions (Project2 `threads/synch.c`) | values, waiters, holders | down, up, acquire, try, release, wait, signal, broadcast | scheduler; interrupt handlers call `sema_up` | every wait between two critical stretches can be interrupted; no wake-up or signal is lost |
| Alarm clock (Project2 `devices/timer.c`) | sleep queue, ticks | `timer_sleep`, timer interrupt | scheduler | one ordered queue examined only at its head; everybody wakes on time |
| Advanced scheduler (Project2) | `nice`, `recent_cpu`, `load_avg` in fixed point | updates per tick, four ticks and second | timer interrupt, scheduler | fixed-point arithmetic at its width, threads on a list that no longer fits their priority |
| Process lifecycle (Project5 `userprog/process.c`, `syscall.c`, `threads/thread.c`) | child lists, `load_lock`, `wait_lock`, `zombie_lock`, statuses | exec, load, wait, exit, kill, halt, run_task, shutdown | parent and child use each other's `struct thread`; exit closes files and mappings | who frees what when parent and child exit in either order; each child is released once, each status delivered once |
| Paging and swap (Project5 `vm/`) | supplemental pages, page list and clock hand, swap bitmap, `eviction_lock` | fault, evict, restore, dispose | page fault handler, processes, file mappings | a page changes its place while its owner, an evictor and an exiting process look at it |
| Memory-mapped files (Project5 `vm/file_mapping.c`) | a growing pool of mappings | map, unmap, write back | pages, inodes, process exit | pointers into a pool that moves, write-back of what is dirty at the right offset |
| Inodes and free map (Project5 `filesys/`) | open inodes with counts and lengths, index blocks, bitmap | create, open, close, read, write with growth, remove, deny writes | buffer cache, free map, directories | growth that fails half way, unlocked lists and counters |
| Directories and paths (Project5 `filesys/`) | entries in a directory's file, a lock per open directory | look up, add, remove, list, resolve | inodes | two processes have two locks for one directory |
| System calls and descriptors (Project5) | descriptor table, working directory | open, read, write, seek, close, mmap, chdir, ... | all of the above | tables at their limit |
| Shell (Project1) | alias and variable tables; pipes and children | parse, run a sequence, run a pipeline, redirect | the host's processes | who holds which end of a pipe while waiting for whom |
| Web server (Project6) | epoll set, workers, shared configuration, global log state | accept, serve, run CGI, log | the host's sockets and processes | several workers wait for "the only child" and share globals |

`PROJECT.json` lists these components with their sources, and under `hazards`
each place where the code is hard to test.

## Modules

| Module | Models |
|---|---|
| `BlockStore` | what the buffer cache promises its callers: blocks that owners read and modify, with no cache to be seen |
| `BufferCache` | `cache.c`, one action per stretch of code that a lock protects or per unprotected access; it instantiates `BlockStore` |
| `MCBufferCache` | thread symmetry and a zeroed disk for TLC |
| `BufferCache_proofs` | the inductive invariant and the theorems about `BufferCache`, the refinement included |
| `Scheduler` | Project2 `thread.c`, `synch.c` and the sleep queue with round-robin inside a priority, one action per stretch with interrupts off |
| `MCScheduler` | symmetry of the threads other than the initial one |
| `Process` | exec, load, wait, exit, kill, halt, and the initial thread's tasks and shutdown |
| `Scheduler_proofs`, `Process_proofs`, `Paging_proofs`, `Inode_proofs`, `FileSys_proofs`, `WebServer_proofs`, `Shell_proofs` | the inductive invariants and the theorems about these components |
| `Paging`, `MCPaging` | Project5 `vm/` and the page fault handler: frames, swap, evictions, mappings; MC: which process owns which kind of page |
| `Inode`, `MCInode` | Project5 `inode.c`, the inode part of `file.c`, `free-map.c`; MC: the writes |
| `FileSys`, `MCFileSys` | Project5 `directory.c`, `filesys.c`, the system calls on names, descriptors; MC: the paths |
| `WebServer`, `MCWebServer` | Project6: listener, epoll, workers, scripts, log; MC: the requests |
| `Shell`, `MCShell` | Project1: sequences, operators, pipelines, redirections; MC: the lines |

The modules of Project5 meet where the code's parts call each other. `Inode`
uses the cache as the block store `BufferCache` is shown to implement, adding the
one way in which its callers defeat that (a changed sector released as
unchanged). `FileSys` knows an inode by its sector and takes `inode_open` and
`inode_close` as steps, which `Inode` looks into. `Process` has the order in
which an exit closes things; `Paging` has what the exit does to pages.

Definitions keep the code's names where they stand for one function
(`take_sector`, `evict_sector`, `sema_down_donate`, `thread_donate`, `cond_wait`,
`process_execute`, `thread_free_all_children`, `restore_page_from_swap`,
`inode_write_at`, `io_redirect`); a function during which others
can run is several actions, named for what each part does (`LookUp`, `MissDown`,
`Fill`; `WaitDown`, `Reap`). `map` in `PROJECT.json` gives the lines.

Next to some definitions stands a faulty form of it with the same parameters
(`NoPermit`, `AtTheEnd`, `NeedNotWait`, ...). Nothing uses them; putting one in
place of the right form makes TLC find the property violated that `mutants`
names, which shows that the property depends on that line of the code.

### Buffer cache

State: the disk; per sector `index`, `data`, `dirty`, `owners` and its two
locks; `cache_lock`, `cache_sem`, the free list and the clock hand; per thread
where it is in `cache.c` and its locals; and the set `refs` of which thread owns
which sector (with or without its `sector_lock`), of which `wrote` is the part
through which data was changed. The order of the free list, and the order in
which the flush and evictions pick device operations, are left open; contents
are two values.

Callers own several sectors at once. `MayTake` is the discipline `inode.c`
follows (a file's own sector, then index sectors, then the free map's, and a
second take of one's own locked sector only without `block`); without such a
discipline the cache would deadlock on `sector_lock`s, which is the callers'
affair. `MaxHold` bounds how deep they nest.

### Scheduler

There is one CPU and the operations disable interrupts, so a step is what the
running thread does until it enables them again or is switched out. `pc` says
where a thread goes on: `"down"` in the loop of `sema_down_donate`,
`"enqueued"` and `"relock"` inside `cond_wait`, `"broadcast"`. The timer
interrupt takes a tick, wakes who is due and may end the time slice at any
point between two steps.

`thread_donate` and `thread_update_donations` call themselves along
`locked_on->holder`; a step computes the whole walk. A failing `ASSERT` sets
`panic` and stops the system, and the properties speak about the states
before that.

`list_max` of an empty waiters list returns the list's tail, and the code reads
a priority behind it. The result of that read is `Garbage`, which can be anything:
in the runs PRI_MIN, which leaves the maximum alone, or a number above every
priority, which raises the thread for no reason. `RunsForemost` is stated so that it
holds all the same: it compares the running thread with what every ready thread is
entitled to, by its own base priority and that of whoever waits behind it
(`Behind`), and names the raised ones. `Ops` says which operations the program of a run uses. Locks are
acquired in ascending order, because programs that do not can deadlock in any
kernel. `ticks` counts from the last moment nobody slept, which keeps it finite.
`thread_create` is two steps, as the timer can come between its `thread_unblock`
and its `thread_yield` (`CreatedYield`); `allocate_tid`'s lock is not modelled. The
initial thread's page is never used again.

### Processes

`pc` says where a process is: created by `thread_create` at `"load"`, running
user code at `"user"`, inside `exec` or `wait`, in one of the steps of
`thread_exit` (`"close executable"`, `"free children"`, `"zombie"`), or with
its page given back (`"freed"`). `load` has three outcomes: not opened, opened
but not loaded, loaded. The initial thread runs its tasks one after the other
and then turns the machine off or, when shutdown is not configured, exits as
any thread does. `halt` turns the machine off at any time; `pc[Main] = "off"`
stands for that. `child_lock` is taken by its own process only, so it orders
nothing. `got` is a history variable: what `wait` returned for each process.
A system call that fails its pointer check is `exit(-1)`, which has the effect
of `kill`: the status is -1 before either.

The idle thread, also a child of the initial thread, never exits and nobody
waits for it; it is left out.

### Paging

Frames, swap slots, the page tables (`pte`, with the dirty bit), the
supplemental pages `sp`, the list of evictable pages with the hand of the
clock, `eviction_lock`, and per process where it is in the kernel. `kpage` is a
frame it has in hand, `victim` the page it evicts. User code (`Write`) runs
between any two steps, also those of somebody else's eviction, which is where the
difficulty lies: only `evict_page` and the users of the list take
`eviction_lock`; exit, `munmap` and the page fault handler look at pages without
it. A page is of one of four kinds (stack, read-only and writable segment, mapped
file) and is one page of a mapping. Which page the clock picks depends on the
accessed bits, which are left open, but a clean page is preferred as in the code.

A mapping pointer whose pool was reallocated or freed is `"dangling"`; following
one, and touching a page that was disposed of during its eviction, stops the
kernel (`panic`), as do the code's own `PANIC`s. Two history variables serve
`DataKept`: `expect`, what a page's owner wrote last, and `late`, the pages
written after an eviction had copied them, for which the property claims
nothing, because the code does lose such writes. A file can be unmapped and
mapped again during the eviction of its page: the old struct is freed, the old
frame is still in the page table. `replaced` marks a page made so, which the
evictor's pointer does not reach (`Gone`), and `late` keeps it. The code's `mmap`
refuses an address that still has a frame in the page table (`file_mapping.c:95`);
the model makes the call all the same and so covers more than can happen.

### Inodes and the free map

On disk: the free map, the pointers of inodes and index sectors, lengths and
data. In memory: `struct inode`s, the list of open ones, and who holds the lock
of which sector. `REDIRECTION_LEVEL`, `ON_INODE_DIR_SIZE` and `FANOUT` give
the index any shape; `get_redirection_ids` is the code's arithmetic. Growth is a
step per level of each new sector, a copy a step per sector, so that readers
and other writers come in between. A created inode is private until it is
linked; its lock stands for that. `dir_add` may fail instead (`NotLinked`): then
only the inode's sector is given back, and `leaked` records what the file had
besides.

A `struct inode` is memory, and `inode_open` is five steps: the search, the length
read under the sector's lock (`ReadInode`), the struct in the list with its sector
but with counters that are still whatever `malloc` found (`Publish`: zeros, or the
0xcc of `free`), the counters set (`Settle`); or, when the search finds a struct,
`inode_reopen`. So a second opener does not find what the first is adding, or finds
it and has its count overwritten; a length can be stale by the time it is in the
list; and a closer frees a struct that an opener may already have found. `shared`
records inodes that two threads were opening in one of these ways, and the
properties, but for `CallsEnd`, are about behaviours in which that did not happen:
they say that a lost count, a stale length and a second struct have no other cause.
Using a struct after it was freed, or an inode found in a directory and unlinked
since, stops the kernel. `unsaved` are index
sectors changed and released as unchanged, `garbage` those the cache has dropped
since. `expect` is what a file should hold.

### Directories, paths and descriptors

A call with a path walks it one name at a time, and reads a directory one entry
at a time (`lookup`); `dir_add` looks for a free slot the same way, and writes
the slot it found later. `dir_lock` belongs to one opener's `struct dir`, so it
excludes nobody and does not appear. When two calls are in one directory and
one of them changes it, names can be doubled and slots overwritten: `unsafe`
records that, and that somebody removed a dot, and the properties are about the
other behaviours. `Meet` is wider than need be: it does not ask whether the call that
changes something will do so in this directory or is on its way to another one. What is
left are calls in different directories, lookups together, and calls one after
the other, between which descriptors and working directories stay open. `lost` counts the openings that the code never closes.

### Web server

A client connects, asks up to a bound of requests, may hang up and may stop reading
in the middle of an answer (`stall`). Sends block and have no timeout, so whoever
sends to such a client, a worker or a script, stays there until the client hangs up;
a worker that waits for a child stays with it when no other child is left. `Held`
says which workers are kept in this way. The kernel's
part (backlog, lowest free descriptor, one-shot epoll events, the receive
timeout, forks and zombies) is external. A worker serves its descriptor to the
end, one step for each thing it shares with others: descriptors, children, the
globals `error_msg` and `log_level`. `faults` counts calls of `setsockopt` and
`execl` that failed. A process without descriptors exits, a freed message ends
it by a crash (`server`). A request is what the parser made of it; a range has
a start and an end. `sent` keeps what was announced and sent of the last file.

### Shell

A line is what the parser makes of it: sequences of pipelines joined by
operators. Each process has its place in the code, its parent, the pipe behind
each standard stream and, once it has ended, its status. Programs are external:
they end by themselves, and one that reads its input to the end (`filter`) only when
nobody holds the write end of its pipe. `wait` takes any child, as the call
does. `LineHangs` names the lines on which the code is known to hang and
`TwoChildren` the one wait that can take the wrong child; the properties show
that there are no others. `ran` keeps what was run of the line and its results as
the shell has them. `RunsAsWritten` compares what was run with what the commands
themselves did (`Outcomes`), which has to come up through every process between a
program and the operator; where the code loses it, `Outcomes` says so. A command has
at most one redirection, and its file can be opened: a failed `open` ends the same
process with the same status as a command that fails.

## Runs

All passing runs check for deadlock: a system that has done its work takes an
explicit `Finished` or `Halted` step.

| Run | Bounds | Shows |
|---|---|---|
| `cache_safety` | 2 threads, 3 blocks, 2 sectors, 1 sector owned at a time, 2 takes each, 1 flush | what is modified is dirty or still owned by a modifier; an owned sector keeps its block; the cache implements `BlockStore` |
| `cache_nested` | 2 threads owning up to 2 of 3 sectors, 4 blocks | types; `PANIC` unreachable; the semaphore agrees with who owns what; no deadlock although `sema_down` waits with `cache_lock` held |
| `cache_live` | 1 sector, 2 blocks | every call returns |
| `sched_donation` | 4 threads, 2 nested locks, 3 priorities and one number above them read past a list, 8 calls | a holder has at least the priority of its waiters; nobody who is entitled to more than the running thread is kept waiting |
| `sched_sync` | 3 threads, a lock with its condition, a semaphore also upped by an interrupt handler, sleeps of -1 to 2 ticks, 10 calls | the list element is on one list; no lost wake-up; no lost signal; sleepers wake at the right tick |
| `sched_live` | 3 threads, 2 locks, 5 calls | every `lock_acquire` returns |
| `process_life` | 3 processes, 2 calls each, 1 task | no use of a freed `struct thread`; each process released once; each status delivered once and right; `exec` knows the outcome of `load`; every process is freed and every `exec` and `wait` returns, unless the machine is off |
| `paging` | 2 processes, 5 pages of all kinds, 1 frame, 1 swap slot, 2 values, 4 and 2 calls | types; a frame and a slot are in one hand; the list of evictable pages and the clock hand stay sound; a page comes back with what its owner wrote last; nobody stays in the kernel for ever |
| `inode` | 2 threads, 4 sectors of 2 bytes, an index of 2 levels with fan-out 2, writes at 0, 1 and 2, 3 calls each | types; each allocated sector has one place in one file, but for those of a failed create; readers find what was written, and zeros in gaps; the counters match the openers; lengths agree and never shrink; every call ends |
| `filesys` | 2 processes, 3 inodes, names `a` and `d`, 4 paths, directories of 2 to 3 entries, 1 descriptor each, 3 and 2 calls | types; open counts and the free map account for every inode; names are unique and the dots right; a removed directory stays empty |
| `web_server` | 2 workers, 3 connections of which the first makes 2 requests and the second 1, 2 clients that may hang up, 3 descriptors, 3 scripts, 1 failing call | types; an open socket is with epoll or with one worker; as many children as workers that wait; announced lengths; workers come back and clients are answered, unless held by clients that do not read |
| `shell` | 2 lines out of 9, up to 9 processes | types; a wait has one child to take; operators run what the outcomes of the commands call for; every line ends, with all its processes |

The bounds are the least at which the interesting cases occur. Three blocks
over two sectors force evictions while a sector is owned and while a flush
runs; three sectors with two owned by each of two threads exhaust the permits.
Four threads are a holder, a holder that waits for it, a thread that donates
to the second, and one that is woken and loses the race. Three processes give
a parent with a child that is itself a parent, or a parent with two children,
in every order of exits.
One frame for five pages makes every fault an eviction, of one's own page or the
other process's; one slot makes the swap full; two segments fill the second
process's pool of mappings, so that its `mmap` moves the pool. With
four calls a file is mapped, loaded, unmapped and mapped again while its page is
being evicted; a late write in between would be a fifth, and is covered by the
proof only. Four sectors hold
one file of the largest size, or an empty one and one of a sector, so growth fails
after none, some or all of its sectors; two threads open one file while one of them
grows it. Three inodes and three calls give a
directory that one process works in while another removes it and creates the
name again. On three descriptors two connections and a file leave none for the
third client; with two requests on one connection the second one comes before, at or
after the receive timeout. The nine lines contain every kind of stage in first, middle and
last position, an error and an empty pipeline.

### Where the code is known to go wrong

The models follow the code into these; the properties say what still holds.

* Scheduler. A woken waiter keeps `locked_on` until it runs: a donation to it
  reaches a lock without a holder and fails `ASSERT (t != NULL)`
  (`thread.c:787`), or a thread that never gives it back (`synch.c:89`).
  `list_max` of an empty list reads memory that is no thread
  (`thread.c:809`), which can leave a thread with a priority nobody gave it. `sema_up` in an interrupt handler, which `synch.c:142`
  allows, asserts in `thread_yield` (`thread.c:359`).
* Processes. `wait` returns before the child has closed anything
  (`thread.c:314`), while `userprog/DESIGNDOC` says `wait_lock` is up only
  after it died.
* Paging. A write during the eviction of its page is lost (`vm_util.c:90`);
  `munmap` of a dirty page that was evicted writes zeros to the file
  (`supplemental_page.c:94`); a code page restored from swap is writable
  (`vm_util.c:193`); a system call refuses a buffer on an evicted page
  (`syscall.c:53`); pages point into a pool that has moved
  (`file_mapping.c:78`); a page is disposed of during its eviction
  (`supplemental_page.c:56`).
* Inodes. Two openers can make two structs of one inode (`inode.c:315`); an opener
  that finds a struct before its counters are set loses its count (`inode.c:340`);
  a length read before the struct is in the list misses a writer in between, and the
  file can be shortened by the next one (`inode.c:336`); of a file whose `dir_add`
  failed only the inode's sector is given back, its index and data sectors stay marked
  for ever (`filesys.c:131`); the
  rollback of a failed growth releases the wrong sector (`inode.c:198`); an index
  sector can be lost (`inode.c:142`); a write that began before
  `inode_deny_write` goes on after it (`inode.c:491`).
* Directories. `dir_lock` excludes nobody (`directory.c:174`) and can be
  released by who does not hold it (`directory.c:235`); `filesys_remove` of a
  missing name follows a null pointer (`filesys.c:181`); several paths forget to
  close an inode (`filesys.c:178`).
* Web server. A child whose `execl` fails goes on as a second server
  (`cgi_runner.c:43`); after a failed `setsockopt` log messages are freed twice
  (`worker.c:72`); a range with an end announces another length than is sent
  (`worker.c:103`); running out of descriptors ends the process
  (`webserver.c:110`); a client that stops reading keeps a worker for as long as it
  likes (`worker.c:116`).
* Shell. A redirected command counts as failed whatever it did (`io_redir.c:51`), so
  `||` runs its right operand after a success and `&&` does not, other than
  `readme.txt:58` says. A pipeline has the result of its first stage if that is a
  program; otherwise that of the next stage's process, which tests a pointer in place
  of an error and fails if it gets so far (`input_parser.c:79`). A
  redirected or builtin stage waits for its reader with the pipe open
  (`input_parser.c:101`).

### Fairness

* Cache: weak fairness of every thread's steps inside `cache.c`, of the release
  of what it owns, and of the flush once it has started. The Project5 scheduler
  is round robin, and `inode.c` releases every sector it takes. A thread need
  not call `take_sector` again.
* Scheduler: strong fairness of each thread's steps, weak fairness of the timer
  and of `idle`. Strict priorities guarantee no more than that a thread that
  is given the CPU again and again executes its next step; a thread that never
  gets the CPU because others never stop is not promised anything, and the run
  bounds their calls. The property also assumes that holders release, which
  strong fairness of their steps gives in a bounded program.
* Processes: weak fairness of every process (round robin). Since a program can
  make a bounded number of calls, it ends; a program that runs for ever is the
  case in which its parent's `wait` rightly never returns.
* Paging: weak fairness of each process's kernel steps (round robin; a waiter for
  `eviction_lock` is queued). Programs need not do anything.
* Inodes: strong fairness of a thread's steps inside a call. A sector lock is a
  semaphore with a queue, so who waits gets it although others take it in
  between; starting a call is not promised.
* Directories: none, the run is about safety. No call waits for another.
* Web server: weak fairness of the listener, of every worker, which includes the
  kernel's receive timeout, and of the end of scripts whose client reads. Clients
  promise nothing: they need not ask, hang up or read.
* Shell: weak fairness of every process; programs end unless they wait for
  their input.

## Proofs

Every proofs module shows, by induction over the steps, that an invariant `IInv`
always holds; one lemma per action shows that the action preserves it. TLC has
checked each `IInv` on the instance of the component's run before it was proved.
The only assumptions are those named in the component's module, which TLC
evaluates in every run.

`BufferCache_proofs`, from `CacheAssumption` only (finitely many threads, at
least one sector, distinct special values): `TypeCorrect`, `PanicUnreachable`,
`Accounting`, `WritesKept`, `OwnedStay`. `NoPanic` is not inductive. A thread
that scans holds a permit, and permits are counted against sectors: `SemCounts`
says how many sectors nobody owns, and with a permit in hand there is at
least one. `TakeInv` turns the count into a position: some unowned sector is
still ahead of the clock hand. This survives concurrent steps because while the
scanner holds `cache_lock` (`LockInv`) an unowned sector cannot become owned,
and releases only add unowned ones. `WritesKept` needs what the flush relies on
between its write and its `dirty = false` (`FlushInv`): if the data differ from
the disk, a modifier still owns the sector and will set `dirty` again.

`Implements` is the refinement: `Spec => ImplementsBlockStore`, the safety part of
`BlockStore` under the mapping in `BufferCache`. A block's contents are its
sector's data if it is cached, otherwise the disk's. The invariant, which
already says that no two sectors cache one block, gains who holds each
`sector_lock`; then a fill, an eviction and a flush change no contents, a take and
a release are a take and a release of the block, and every other step is a
stutter.

`Scheduler_proofs`, from `ConstantsOK` only (finitely many threads, the kinds of
objects are distinct, priorities and what lies behind an empty list are
integers): `ElemInOneList`, `WakeupsKept`, `SignalsKept`, `SleepersWakeOnTime`. None of
the properties is inductive. `BlockedInv` says that until a panic the blocked
threads are exactly those that sleep or wait, and the ready ones those in the run
queue. That nobody is in two lists follows from what a thread in a list is doing:
a sleeper is in no operation (`SleepInv`), a waiter is in `sema_down` on that very
semaphore (`WaitInv`), and no list holds anybody twice. `LockInv` ties a lock's
semaphore to its holder. `CondInv` counts the ups of each waiter's own semaphore:
one from the moment it is taken from the condition's list until it has been taken
down, whether or not it waited yet. A failing `ASSERT` in a donation leaves the
running thread in a list of waiters, so what relates lists and status is claimed
until then; the rest holds afterwards too. `WakesOnTime` needs that the sleep
queue is sorted (`SleepInv`). The walks of `thread_donate` and
`thread_update_donations` are recursions over natural numbers and read maxima
over lists; that these values are defined and typed is shown with a least
counterexample in place of induction (`Least`, `Greatest`, `Iterated`, `Kept`), which needs
no operator as a parameter.

`Process_proofs`, from `ConstantsOK` only (the bounds are natural numbers):
`TypeCorrect`, `NoUseAfterFree`, `ReleasedExactlyOnce`, `StatusDeliveredOnce`
and `ExecWaitsForLoad`. The argument: the one release a process is owed is
accounted for by its place on its parent's list (`ReleasedOnce`), so a process
that passes `sema_down(&zombie_lock)` is on no list, while every use of a child
by its parent is of somebody on the list (`StructAlive`, `FamilyInv`).
`SignalInv` says what an up of `load_lock` and `wait_lock` stands for,
`DeliveredInv` that a status is only ever taken from somebody still listed, and
`FreshInv` that a new `struct thread` starts clean. `MoveInv` is shared by the
actions that touch neither child lists nor `zombie_lock`.

`Paging_proofs`, from `PagingAssumption` (each page has an owner and a kind, the
numbers of frames and slots are natural, some value is not zero):
`FramesAccounted`, `SlotsAccounted`, `EvictablePages`, `DataKeptAlways`. None of
the four is inductive. `ThreadInv` says for every place in the kernel what the process there
knows of its page (`PhaseInv`), also while it is away in `evict_page` on that
page's behalf, and whether it has a frame in hand. `VictimInv` says that who is
inside `eviction_lock` works on a listed page. `PageInv` ties a page's frame,
slot and location together; a page has both a frame and a slot only between the
copy and the detachment, and a mapped page never has a slot. Since the list and
the hand are only used by who has `eviction_lock`, three general lemmas carry the
proof: a step of a process on a page of its own (`OwnStep`), a step inside the
lock on somebody's page (`EvictorStep`), and a step on no page (`QuietStep`). The
difficult case is a page that its owner disposes of during its eviction: `ListAt`
keeps it on the list, without a table entry, until the evictor unlinks it. The
invariant claims nothing of a kernel that has panicked.

`DataKept` needs a second invariant on top of that one (`Data`). `PageData` says
where the contents of a page are at any moment: in its frame if it has one, else in
the copy, its slot or its file (`Copy`); that a page not known to be dirty is what
its file is; and that a frame in the page table is the page's, or one that an
evictor is about to unmap (`Mapped`). `VictimData` says that from the copy on the
frame and the copy agree, unless the owner wrote late; a clean page is not copied
at all, so for it this rests on the dirty bit. `ThreadData` says that a frame for
the stack is still zero when the page gets it. A page in `munmap` or on its way
out is `Forsaken`: its owner is not in user code and will not see it again, which
is why the zeros that `munmap` writes back do not contradict the theorem.
`DataStep` is the general lemma: a step that changes the contents of one page keeps
what is said of the others, because a frame and a slot are in one hand.

`Inode_proofs`, from `InodeAssumption` (finitely many threads, the shape of the
index and the sizes are positive, a write ends within the largest file):
`CountsMatchAlways`, `SectorsOwnedAlways`, `ReadsWrittenAlways`,
`LengthsKeptAlways`, for an index of any depth and fan-out. The invariant speaks
about behaviours in which no inode was opened by two threads at once (`shared` only
grows: `SharedGrows`), and has three parts. `Base` holds also once the kernel has
stopped: types, what a thread at each place of the
code knows (`ThreadInv`), and that the counters of a struct that is settled are the
numbers of its openers and deniers (`Counts`, `StructInv`). `Opening` is about
`inode_open`: who has put a struct in the list and not yet set its counters is alone with
it, but for openers that are still to count themselves (`SettleInv`); who is past
its search is the only one to make a struct of that inode, and the length it has read
is still that of the disk (`SearchInv`), because a thread that grew the file in
between would have had it open, and `Publish` would have recorded that. `SoundInv`
holds until the kernel stops: the structs in the list are one per inode (`LinkInv`); a sector lock is
held by the thread whose place says so (`LockInv`); the index of every file is a
tree whose nodes are allocated and all different, of this file and of others
(`TreeInv`); the path that a growing thread has built so far, of which it alone
knows the last sector (`GrowInv`); lengths (`LengthInv`) and contents (`DataInv`).
`SectorsOwned` is not inductive because a new sector is allocated some steps
before an index names it, a removed file is torn down after its name is gone, and
the sectors of a failed create belong to no file at all: that no tree ever reaches
them again (`leaked`) follows from their staying marked.
Four lemmas say what happens to the places of all sectors when a node is hung into a
tree (`NodeAdded`), a path is grown (`TreeGrown`), a file is made (`TreeCreated`) or its
sectors are freed (`TreeRemoved`). A place is found by as many divisions as
there are levels; what holds at every level is shown with a level that is the
least to break it (`AllLevels`, `Iterated`). `ReadsWritten` needs what lies beyond
a file's length: zeros (`FileInv`), except for what the one thread that makes the
file grow is about to put there (`WriterInv`).

`FileSys_proofs`, from `FileSysAssumption` (finitely many processes, at least one
sector, room for two entries in a new directory, paths with at least one name):
`InodesAccountedAlways`, `TreeSoundAlways`, `RemovedEmptyAlways`. `Base` holds
whatever happens: types, what a call knows at each of its points (`LocalInv`), that
every opener is counted (`CountInv`), that what a process is in is open
(`OpenHeld`), and that a meeting of two calls is noticed. `SafeInv` holds until the
kernel stops or two calls have met, neither of which is undone. `TreeInv` says why
a sector is allocated: it is the root, has a name, is open, or is being created
(`UsedInv`, `OpenInv`, `NewInv`); that a name leads to an allocated inode that is
not removed and has no other name (`NameInv`); and that a removed inode is open, has
no name, and is empty if it is a directory (`RemovedInv`). `CallInv` says what a
call knows of its directory (`PlaceOK`): it is not removed, the names before `ofs` are
not the one searched, the entry that was read is still there, the directory about
to be erased is empty. `RemovedEmpty` and `InodesAccounted` are not inductive
because a call decides on what it read several steps ago; that this is still true
is `OthersKept`, from `Apart`: a call that changes a directory, an entry or an inode
has met whoever is there. Most steps only open and close inodes; these free a
sector only when a removed inode loses its last opener, and leave all names alone
(`Quiet`, `QuietTree`). Three change the tree: a sector comes into use (`FreshTree`),
an inode gets its name (`LinkedTree`) or loses it (`UnlinkedTree`). Openers are
counted as pairs of a process and a reference; `CountKept` turns what one step opens,
closes and forgets into the change of that count, one reference at a time.

`WebServer_proofs`, from `WebServerAssumption` (finitely many workers and clients):
`OneWorkerPerConnection`, `WaitsBalance`, `LengthsAgree`. A descriptor number is
reused, so `ServedByOne` needs to know who may hold which number: the ready list
names armed descriptors only, each once (`EventsInv`); an armed descriptor is a
connection nobody serves, any other is served (`ArmedInv`); a worker's descriptor,
and the file it sends, are nobody else's (`WorkInv`). `WaitsBalance` counts
finite sets: each step that adds a child adds a waiting worker, and each wait
takes one of both.

`Shell_proofs`, from `ShellAssumption` (lines as the parser splits them):
`StatusesKept` and `OperatorsObeyed`. `Kids` says which children a process has by
the place it is at, with `RecOK` for what its flags mean there: a stage before
the last has `no_fork` set and the next stage as its child, so a redirection
gives it a second one and its own program replaces it; a process that forks for
its program has no other child. `wait` reaps before the rest of its step, so the
lemmas on fork, exit and reap are about any function of processes. For the
operators, `Progress` says that what has run lies before the place the shell is
at and agrees with the operators up to there, by the results the shell got; `Carried`
says that these are outcomes of the commands: the child whose status the shell
waits for still runs the first command of the item, waits for the process that
does, or has ended with its outcome.

Writing the proofs changed the models in a few places: `CASE` expressions whose
arms overlapped, which TLA+ leaves open and TLC resolves by taking the first, are
now `IF` chains (`Paging`, `Shell`, `FileSys`); `Unlist` removes an element at its
place; the assumptions say that there are finitely many workers and clients, and
that a line and its sequences are not empty, and that there are finitely many
threads (`Inode`) and processes (`FileSys`), and that a path has a name (`FileSys`);
the walk down an index is an operator of its own (`Place`); an empty pipeline, an error in
`parse_pipeline`, is a case of its own. `DataKept` turned out not to hold in
`Paging` beyond the bounds of its run: a page unmapped and mapped again during its
eviction was taken for the old one, and a late write to it was forgotten. The
source frees the old struct and leaves the frame in the page table; the model now
does the same (`Gone`, `replaced`, `late`).

Only model-checked: the liveness properties (`CallsReturn`, `LocksGranted`,
`EverybodyEnds`, `Returns`, `CallsEnd`, `Responsive`, `LinesEnd`), which are out
of the prover's reach; `NoInversion` and `RunsForemost` of the scheduler, which are
statements about priorities along chains of locks.
`OwnersCount` of the cache is only proved (`Accounting`).

## Not modelled

* The advanced scheduler of Project2: arithmetic over ticks and seconds whose
  effects need hundreds of ticks to show.
* Project3 and Project4, earlier versions of code that Project5 contains; the
  drivers and libraries the projects start from.
* The file in which the free map itself is kept; `read`, `seek`, `tell`,
  `filesize`, `isdir`, `inumber`, which change no more than a position of their
  own descriptor.
* The shell's tokenizer, variables, aliases and builtins, and the web server's
  configuration, headers and directory pages: sequential text processing.
* Offsets of a mapping longer than a page; files beyond what the index can
  address; requests that arrive in pieces.
* Failures of `malloc` in the kernel, except `thread_create`'s; device errors
  (the drivers panic); a `file_write` of a page that is short or denied
  (`vm_util.c:109`), and a failing `pagedir_set_page` (`supplemental_page.c:173`).
* Steps of others during `inode_dir_cleanup` (`inode.c:165`): nobody else has the
  inode then, and it is one step.
* More than one redirection of a command (`functions_runner.c:65`), and one whose file
  cannot be opened (`io_redir.c:47`).
* The contents of messages, pages and files beyond what tells two writes apart;
  user pointers and their validation; printing.
* Crashes of the machine: the file system keeps no journal and promises nothing
  about them.

## Plan

1. A module for the advanced scheduler, whose arithmetic is checked against
   exact rationals over bounded inputs.
