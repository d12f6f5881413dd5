# TLA+ models of the CS 61 problem sets

The repository holds seven course projects.  Five of them contain logic whose
correctness depends on the order of steps, on shared state, or on what is undone
when something fails halfway: the debugging allocator (`pset1`), the WeensyOS
kernel (`pset3`), the io61 file library and the programs that copy files with it
(`pset4`), the shell (`pset5`), and region locks with the programs that exchange
money under them (`pset6`).  This directory models all five.  The parts do not
call each other across projects; within a project they are composed as the code
composes them.

## Inventory

### WeensyOS kernel: memory (`pset3/kernel.cc`, `k-vmiter.cc`, `k-hardware.cc`)

* State: `physpages[].refcount` (one byte per physical page), the contents of
  the pages, and for every process a page table: a root, intermediate pages and
  level-1 entries with the permission bits P, W, U and the software bit C
  (copy-on-write).
* Operations: `kalloc`, `kfree`, `kalloc_pagetable`, `vmiter::try_map`,
  `free_everything`, `find_free_vmemory`.
* Interactions: every system call and the page-fault handler is a loop over
  these; a page's count is shared knowledge between all processes that map it.
* Hard: running out of pages in the middle of such a loop and undoing the first
  half; page-table pages appearing as a side effect of mapping; a range that ends
  just below or beyond the end of process memory.
* Correct when: a count is the number of uses; a free page is used by nobody; no
  page is at once a page-table page and mapped; a writable page is mapped once.

### WeensyOS kernel: processes (`pset3/kernel.cc`, `k-exception.S`)

* State: `ptable[]` (page table, `state`, `wake_up`), `current`, `ticks`.
* Operations: `sys_yield`, `sys_sleep`, `sys_exit`, `sys_kill`, `sys_fork`,
  `sys_mmap`, `sys_page_alloc`, `sys_munmap`; page faults; the timer interrupt;
  `schedule` and `run`.
* Interactions: handlers run with interrupts disabled and end in `run(current)`,
  `schedule()`, or a return to the caller; user code runs in between.
* Hard: parent and child share pages and either may store, fork, exit or be
  killed next; a process exits from inside the fault handler when memory is
  gone; a slot is reused while the old `wake_up` is still in it; everybody sleeps.
* Correct when: each process has memory of its own, whatever is shared below;
  `run` is only given a live process; every process that is ready gets its turn
  and every sleeper wakes; no assertion fails.

### io61 region locks (`pset6/io61.cc`)

* State: `nlocked[]` and `owner[]` per chunk of the file, the mutex `m`, the
  condition variable `cv`.
* Operations: `io61_try_lock`, `io61_lock`, `io61_unlock`.
* Interactions: called by the threads of `ftxxfer` and `ftxblockchain` through
  `ftx_acct` and `ftx_lock`.
* Hard: nesting of overlapping ranges by one thread, neighbouring ranges that
  share a chunk, waking waiters that must wait again.
* Correct when: threads exclude each other on common bytes, counts are exact,
  no assertion fails, no wake-up is lost.

### io61 buffered files (`pset4/io61.cc`, the same text as `pset6/io61.cc`)

* State: a single-slot cache `cbuf` with `tag`, `pos_tag`, `end_tag`, the flags
  `dirty` and `positioned`; a mapping of the whole file, where one can be made;
  the kernel's position of the descriptor; `errno`.
* Operations: read and write of characters and blocks, seek, flush, positioned
  read and write, fill.
* Interactions: the copying programs below, and `ftx_acct` for positioned mode.
* Hard: seeking between reads and writes, in the cache and beyond it; end of file;
  system calls that move less than asked, are interrupted or fail; a failed flush
  that is tried again.
* Correct when: every read returns what the last writes left, and a flush or a
  close leaves the file as a plain file would be.

### io61 copying programs (`pset4/*61.cc`)

* State: position, size, stride and block of the copy; the two files.
* Operations: one loop of reads, writes and seeks each, in sequential, reversed,
  shuffled or strided order, by characters or blocks; two of them retry.
* Hard: the last block and the last column of a stride; retries that repeat what
  was already done; the end of the input taken for an error.
* Correct when: each byte arrives where it belongs, and every program ends.

### ftx programs (`pset6/ftxxfer.cc`, `ftxblockchain.cc`, `ftxrocket.cc`, `ftxunlocked.cc`)

* State: account records of 16 bytes in one file; the ledger file.
* Operations: `transfer_thread` and `sbf_transfer_thread` lock two accounts in
  index order, read both balances, move money, write both, unlock.
* Hard: deadlock by lock order, lost updates, the shared cache below the locks,
  ledger lines written by threads that hold different accounts.
* Correct when: money is conserved, no transfer is lost, all threads finish, and
  the ledger agrees with the balances.

### sh61 shell (`pset5/sh61.cc`, `helpers.cc`)

* State: the command list that `parse_line` builds; child processes, pipes,
  process groups; the interrupt flag.
* Operations: `command::run`, `run_list`, `main`'s loop, reaping.
* Hard: conditionals in background lists, the race of `setpgid` in parent and
  child, pipe ends left open, an interrupt between two commands, zombies.
* Correct when: exactly the commands that the conditions select are run, a
  pipeline's reader sees end of file, and the shell waits for the right child.

### m61 allocator (`pset1/m61.cc`)

* State: `allocated_blocks`, `free_blocks`, `freed`, statistics, buffer position.
* Operations: `m61_malloc`, `m61_free`, `m61_calloc`, `m61_realloc`.
* Hard: coalescing with both neighbours, reuse of freed addresses, shrinking in
  place, multiplication overflow, reports of bad frees.
* Correct when: live blocks never overlap, allocated and free blocks tile the
  used part of the buffer, statistics match, and bad frees are recognised.

### Left out

`pset0`, `junk`, `docker` and build files hold no program; `pset2/bomb.cc` is the
driver of a binary.  The boot loader, device setup, memory viewer and console
library of `pset3`, and the comparison implementations of `pset4`, are handout
code.  `scattergather61` copies between any number of files, not two.
`pset4/archive.cc` is unfinished: it uses members that its structures lack, and
nothing builds it.  `ftxunlocked` takes no locks and says that it cannot be made
correct.  The programs `p-*.cc` of `pset3` only make calls that the kernel model
allows anyway.  `pset1/phases 1-3.cc`, `checkin 1.cc` and `m61_extra.cc` are
superseded or unfinished copies.

## Modules

| module | what it is |
|---|---|
| `PageTables` | pages, counts, page tables; `Grant`, `Kfree`, `Everything`, `FindFreeVmemory` as operators |
| `Kernel` | extends it by the process table; one action per handler |
| `KernelProperties` | properties of the kernel and the refinement to `PrivateMemory` |
| `PrivateMemory` | abstract: every process has a memory only it changes |
| `MCKernel` | the calls and images of the kernel's instances |
| `KernelProofs` | theorems about `Kernel`: types, which process runs, counts, copy-on-write, private memories |
| `FileLocks` | region locks by chunk, with waiting and waking |
| `RegionLocks` | abstract: no two threads hold locks on a common byte |
| `FileLocksProofs` | theorems about `FileLocks` |
| `MCFileLocks` | the locks of its instances |
| `Transfers` | threads of the three ftx programs, over an instance of `FileLocks` and the positioned cache |
| `Bank` | abstract: transfers one after the other |
| `TransfersProofs` | theorems about `Transfers` |
| `MCTransfers` | opening balances of the instance |
| `Allocator` | m61's blocks, free blocks, marker bytes, statistics and reports |
| `Heap` | abstract: disjoint blocks of memory that only their owners change |
| `AllocatorProofs` | theorems about `Allocator` |
| `MCAllocator` | the requests of its instance |
| `BufferedFile` | one io61 file with its cache or mapping and the system calls below |
| `PlainFile` | abstract: a sequence of bytes with a position |
| `BufferedFileProofs` | theorems about `BufferedFile` |
| `MCBufferedFile` | the files of its instance |
| `Copy61` | sixteen copying programs, each over two instances of `BufferedFile` |
| `Copy61Steps` | lemmas: what a step of a copying program leaves as it is |
| `Copy61Proofs` | theorems about `Copy61` |
| `MCCopy61` | what is run on which files |
| `Shell` | parser, command lists, pipelines, process groups, interrupts, main loop |
| `ShellProofs` | theorems about `Shell` |
| `MCShell` | the lines that are typed |

### The kernel model and the code

One action is one handler, because interrupts are disabled in the kernel.  It
includes the `run` or `schedule` at its end: `Schedule` picks the next process
with a round-robin scan that starts behind `current`, or goes to mode `"spin"`,
the endless loop of `schedule()` when nobody is ready.  A failed assertion is
mode `"panic"`; what the handler did before it failed is not recorded.

A handler with several outcomes is several actions: `mmap` either maps all
pages (`MmapPages`) or rolls back (`MmapRollback`, which differs from doing
nothing only when a page-table page was linked); `fork` either succeeds (`Fork`)
or rolls back (`ForkRollback`); a store that faults on a copy-on-write page
reuses the page (`CowReuse`), copies it (`CowCopy`) or kills the process for
want of memory (`CowNoMemory`).  Calls that return an error and change nothing
have no action.

`kalloc` returns the lowest free page, so a loop of `n` calls returns the `n`
lowest in order: `Grant(n)`.  In `mmap`, the call in which a page-table page is
taken shifts the later pages by one: `TableCall` and `PageCall`.

What is abstracted:

* Addresses are page numbers and lengths are numbers of half pages, enough to
  tell the rounding down of `kernel.cc:483` from the rounding up of line 525.  An
  unaligned or invalid address argument acts as `nullptr`: `va = 0`.
* Virtual page 0 stands for the console page, the one page below process memory
  that a process may access.  The other low pages are kernel-only and never change.
* Of the page-table pages, the ones for the low addresses are made with the
  process (`LowTables`, 3 in the code, plus the root); one more level-1 page is
  needed from `HighVA` on (0x200000 in the code).  `Limit` bounds the addresses
  reachable through it beyond `MEMSIZE_VIRTUAL`.
* `sleep[p]` is `max(0, wake_up - ticks)`.
* A page's content is one value.  `kalloc`'s fill pattern is not modelled: each
  page it returns is cleared or copied onto before user code sees it.
* Permissions that programs pass to `mmap` are user-readable, with or without
  write.
* `refcount` is an unbounded number.  New pages are mapped once and `fork` keeps
  addresses, so a count is at most the number of processes, and fits its byte.

Not modelled: `SYSCALL_PANIC`, other exceptions (they stop the machine),
`sys_kill(16)`, which indexes one element past `ptable`, arguments of `sys_sleep`
that make `wake_up` wrap around, and the contents of kernel pages.

### The lock model and the code

The mutex is held from the first to the last step of each call, so a call is one
action; `io61_lock` is split where `cv.wait` releases the mutex: `Lock` (first
test), `WakeUp` (return of `wait`, after a notification or spuriously), `Retry`.
A lock is a record with thread, first byte, length and a tag, so that a thread
may hold the same range twice.  `Wild` is a call on chunks beyond the arrays.
Callers release what they have locked, once, as `ftx_acct` does.  `LOCK_SH` is
checked by the code but has no effect, so there is no lock type in the model.

### The transfer model and the code

`Transfers` composes three layers.  The locks are `INSTANCE FileLocks`, with the
locks on account records as `Locks`; `Acquire` and `Release` take its actions
whole, waiting and waking included.  The cache is `file`, `cbuf` and `dirty`:
`cbuf` is a function whose domain is the set of accounts in the cached window
(`tag` to `end_tag`), `Filled` and `Flushed` are `io61_pfill` and the flush it may
begin with.  `io61_pread` and `io61_pwrite` hold the mutex throughout, so each is
one action with what the thread does next to it.  The thread goes through `Steps`
in order, one action each; picks of twice the same account are left out because
the code picks again.  `prog` says which program runs: `ftxblockchain` has the
step `"ledger"`; in `ftxrocket` the threads in `Distinguished` move money only to
the `NOurs` accounts of the exchange, from one of those or from a customer.

The ledger is abstracted to `book`, the balances that replaying it gives; each
`io61_write` of two lines is one update, so every prefix of the ledger is a state
the run passes through.  A record is 16 bytes and never straddles a window of 8192
bytes.  Parsing and formatting are exact for balances from 0 to 9999999, the
range `TypeOK` asserts.  System calls do not fail: the code ignores the results of
`read` and `write` on accounts.  What a failing call does to the cache is the
subject of `BufferedFile`.

The refinement mapping for `Bank` counts money between the two writes as already
received (`Promise` in `Transfers`): a transfer takes effect when its first
balance is written, computed from balances that are still those of that moment.

### The allocator model and the code

A call of `m61.cc` is one action.  The maps are functions from positions in the
buffer; `m61_malloc` takes the first free block that passes the code's size test
(`Fits`, which counts the extra unit of padding but not the rounding), and
`Coalesce` merges with the right and then with the left neighbour, which it finds
as the code finds them.  The calls are operators on the record `heap`, since
`m61_realloc` calls `m61_malloc` and `m61_free`.  The buffer's bytes are part of the
state, so that marker bytes and copies are those of the code.

The client stores into its blocks and sometimes one byte beyond (`Store`), and
frees pointers that it should not (`BadFree`).  A report ends the program.
`BadFree` follows the code's order of tests; where the code decrements
`begin()` of the map of active blocks, because no block lies below the pointer,
the kind of the report is `"undefined"`.

`total_size` and `fail_size`, two sums that are only added to, are left out, and so
is the leak report, which only reads.  Sizes stay below the buffer's, whose limit
the code tests before it adds; `m61_calloc` tests both factors against it.

### The file model and the code

A call is a record that the steps below work on; every system call made on its
behalf is a step, so that a short, interrupted or failing one can come at each.
`Fill` and `FlushWrites` move any number of bytes that the kernel may move;
`FillAgain`, `FlushFails` and `PfillFails` are the errors, with what the code makes
of EINTR, EAGAIN and others at that place.  A file is mapped at its first read or
seek if it is a regular one (`mappable`); a "device" in `MCBufferedFile` is a file
with positions that cannot be mapped.  Of `O_RDWR` files only positioned mode is
modelled, as `ftxdb.hh` uses it; there a read system call of a regular file moves
all there is.

`PlainFile` knows neither cache nor kernel position.  The mapping overlays the file
with the cache if it is dirty; a write takes effect when it enters the cache, and
`Store` lets the bytes reach the file at any time, but a flush may only return when
they have.

`Call` states what the client does not do, because the code answers it in ways
that the interface does not promise (see "Disagreements"): it does not go on after
an error unless it `Retries` (except in positioned mode, where going on is safe,
which is what the run shows), and does not flush a mapped file before it closes it.
It may seek beyond the end, also of a mapped file, open a file behind its end, and
use any offset in positioned mode.  There the code goes wrong, and the model with it:
`crash` becomes `"assert"` or `"wild"`, what the call did before is not recorded, and
nothing is said of what comes after.  `CrashesBeyond` says that this happens nowhere
else, and the refinement of `PlainFile` that all is well up to there.

`Copy61` composes two such files that share `errno` with a program.  A program is
a setup and a loop of stages; the sixteen programs differ in those, in how they
pick positions, and in whether they retry.  Where one uses stdio on one side, that
side is taken to be a buffered file as well.  `io61_filesize` gives the size of
regular files only, so `Size` gives up on a device, which may be sought but has no
size, unless `-s` gives one (`regular` of a run).

### The shell model and the code

Each `ShellStep` is the code between two points where another process or a signal
can get in: the test of the interrupt flag, a fork, a wait.  `sh` holds the shell
and its subshells (a background conditional is run by a forked copy that goes on
in `run_list`), `procs` every command that was ever run, by its place in the lists,
which makes it a history too.  A program either may end at any time, or never ends
of itself but by a broken pipe (`"source"`), or ends when its input does
(`"filter"`); so a pipe end that is left open anywhere keeps a program from ending.
A process inherits the ends that its parent has open at the fork.  `ProgramEnds`
makes a zombie if the parent still exists.  `Interrupt` is control-C: SIGINT to the
foreground group, caught by shells in that group, which sets the flag and
interrupts a `waitpid` or `fgets`, or comes just before it.  `errno` is set by every
call that may set it: a failed `chdir`, `setpgid` (when the group has gone, and in the
parent also when the child has got to `execvp`), `waitpid`, `fgets`.

A subshell whose `waitpid` is interrupted returns from `run_list` to `main`
(`Returned`, `sub` becomes false) and is a second shell from then on: it reaps,
prompts, and whichever shell is in `fgets` gets the next line.  A shell that asks for a
line while the other has given the terminal to a pipeline is stopped, and the first
with it, because SIGTTIN goes to their group: `stopped`, which nothing in the code ends.

The user's lines are token sequences. The tokenizer, redirections and variables decide
what a program does, which is left open. `cd` may succeed or fail, and its status
depends on whether `errno` was already set, as in the code. Not modelled: `cd` and
definitions within a pipeline, forks and pipes that fail, scripts from files, and a
source that feeds a filter (`Fed`), which never ends and has nothing to say.

## Runs

| run | instance | shows |
|---|---|---|
| `kernel_cow` | 5 pages, 3 processes, 2 pages of process memory, 2 values | counts are exact, sharing is invisible, no assertion fails |
| `kernel_tables` | 8 pages, 2 processes, 2 values, 2 level-1 tables, addresses beyond the end | rollback of `mmap` and `fork` leaks nothing, leaves every process its tables, and changes only the caller's memory |
| `kernel_half_page` | 8 pages, 1 process, requests of a page and a half | expected to fail, see below |
| `kernel_sched` | 3 processes, sleeps of 1 and 2 ticks, `FairSpec` | round robin starves nobody, sleepers wake |
| `kernel_text_write` | an image with a read-only page | expected to fail, see below |
| `locks` | 3 threads, 4 chunks of 2 bytes, 10 locks | exclusion, exact counts, no failed assertion, no lost wake-up |
| `transfers` | 3 programs, 2 threads, 2 transfers each, 3 accounts, windows of 2, 2 chunks | serializable transfers, a ledger that agrees, no deadlock, termination |
| `alloc` | a buffer of 4 units, 4 allocations, 3 sizes, 1 failure | blocks tile the buffer, free memory is coalesced, wild writes and bad frees are told, each block is its owner's |
| `file` | a cache of 2 bytes, 11 files of up to 4 bytes, 3 errors, offsets within and behind the end | whatever calls are made, the program sees a plain file, and every call returns, unless it crashes behind the end of the file |
| `copy` | 16 programs, files of 5 bytes, a cache of 2, 2 errors | each byte arrives where it belongs; no assert fails; every program ends |
| `copy_hangs` | `carefulblockcat61` on a pipe that is sometimes empty | expected to fail |
| `shell` | 41 lines of up to 3 programs, then one more line, 1 control-C | the list is the grammar's, chains are followed, the terminal comes back, pipe ends are closed, everything ends |

The bounds are chosen so that each hazard occurs.  In `kernel_cow` a process needs
a root page and its data: with five pages, three processes can share one page
and then run out when the second store needs a copy.  In `kernel_tables` the
second level-1 table is the call that fails, with pages before and after it.
There the heap begins above the image's page, and requests straddle `HighVA`.
In the memory runs lengths are of whole pages, and the last page of process memory is
mapped whenever a search finds no hole; `kernel_half_page` is about the first of these,
and the other is described under "Disagreements".  `kernel_sched` has
three processes so that a scan can pass a sleeper and a free slot.  In `locks`,
locks nest within a thread, touch in one byte, share a chunk without sharing a
byte, and cross chunks; three threads let a waiter be overtaken.  In `transfers` a
cache window holds two of the three accounts, so most transfers evict a dirty
window; the middle account lies in both chunks, so locks on different accounts
conflict; balances of 0 and of the maximum cut transfers short; in `ftxrocket` one
thread is distinguished and one account a customer's.

In `alloc` three blocks fit with their padding, so a block can be freed with both,
one or no neighbour free, and a fourth allocation reuses what was merged; sizes of
1, 2 and 3 bytes in units of 2 give blocks with and without the extra padding,
and shrinking and growing by one unit.  In `file` a text may be empty, and
texts of three bytes overflow the cache of two; the offsets lie in the cache, at the
end and behind it, and one file is opened behind its end; two
windows exist in positioned mode, one of them shorter than the cache in one file.
In `copy` five bytes are two full caches and a rest, two or three blocks and a
rest, and strides of 2 and 3, with and without a narrower last column.  In `shell` three
programs suffice for a chain in which the second is skipped and the third looks
back beyond it, and for a pipeline with a middle; all pairs of operators occur
but two `&`; the second line is typed while what the first left in the background
still runs, or by a subshell that a control-C has made a second shell; the control-C
may come at any step.

Deadlock checking is off where the system may stop: the machine in modes `"spin"`
and `"panic"`; in `locks` a thread may for ever hold what others wait for;
`transfers` ends when the database is closed, `alloc` at its bounds or with a
report, `file` when the file is closed, `copy` when the program has ended, `shell`
at the last prompt.  That they do not stop before is what `Finishes`, `Returns`,
`Ends` and `Settles` say.

Fairness: `FairSpec` assumes `WF_vars(Timer)` only.  The timer device interrupts
user code again and again (`kernel.cc:289`, `k-hardware.cc` `init_timer`), whereas
no program need ever make a call.  In mode `"spin"` interrupts are off, so the
action is disabled and fairness promises nothing; this is why `SleeperWakes` is
stated for as long as the machine is in user mode.

`FairSpec` of `Transfers` assumes that each thread that can take a step takes one,
and that `main` closes the database once all threads are joined: the operating
system schedules threads and mutexes fairly enough.  Spurious wake-ups are
possible and not assumed.

`BufferedFile` assumes that a call in progress goes on (`WF_vars(Step)`) and that
the system does not interrupt or put it off for ever: `Fill` and `FlushWrites` are
taken if they are possible again and again (`SF_vars`), since the code repeats them
without a limit (`io61.cc:366-373`, `386-394`).  `Copy61` states the same as
finitely many faults in one execution.  `Shell` assumes that shells and programs
go on, `WF_vars(Step)`, where a program that waits for its input or for a broken
pipe is not able to; nobody is assumed to type anything.

### Disagreements found

With a run of their own:

* `kernel_text_write`: the test `perm() & (PTE_C | PTE_P)` at `kernel.cc:311`
  makes any present read-only page writable on a store.
* `kernel_half_page`: the search for a hole rounds a length down and the loop that maps
  rounds it up (`kernel.cc:483`, `525`), so that a request of an odd number of half
  pages may be mapped over a page that is mapped already, whose count is never dropped.
* `copy_hangs`: the end of the input is told from an error by `errno == 0`
  (`io61.cc:180`), but nothing clears `errno`, so after an EAGAIN that `io61_fill`
  has already dealt with, the end of a pipe is reported as an error, and
  `carefulblockcat61` tries for ever.

Met while modelling, without a run.

Kernel: `find_free_vmemory` (`kernel.cc:481-502`) ends without a hole and returns the
start of the last free run, so that `mmap` maps past `MEMSIZE_VIRTUAL`, where
`free_everything` never looks; in no run instance is the last run of free pages too
short. `sys_kill(sys_getpid())` returns to a freed process (`638`, `388-389`), and pid
16 passes its bound check; no instance makes these calls. A forked child inherits the
`wake_up` of the slot's previous process (`620-624`). A faulted process is neither freed
nor killable (`359`, `638`). When everybody sleeps the kernel spins for ever
(`653-661`). `sys_page_alloc` of a mapped page maps another page and returns 0 (`476`).
`sys_munmap` of a range that holds the console page trips `kfree`'s assertion (`564`).

Locks and transfers: the chunk size is rounded down (`io61.cc:83`), so a large file
may have more chunks than the arrays have elements; shared locks exclude each
other (`525-527`); results of account reads and writes are ignored (`ftxxfer.cc:34`).

Allocator: a shrinking `m61_realloc` overwrites the size before it computes the
difference to add to the padding (`m61.cc:289-296`), so the bytes in between are
never freed, and it leaves `active_size` as it was, against `m61.hh:41`; `lost` and
`StatsCover` say exactly how far this goes.  The marker is written anew, so a wild
write before a shrink is never reported.  The test for a large enough block
leaves out the rounding (`87`), which is right only because blocks begin at
multiples of the alignment and the bytes that a shrinking `m61_realloc` loses fill
the space up to the next one (`BytesTiled`).  A bad free below the first active
block decrements `begin()` (`169`).

Files: reading a mapped file whose position is past the end subtracts `size_t`
values and copies from behind the mapping (`io61.cc:205`); after such a seek the
assertions of `io61_readc` fail.  `CrashesBeyond` says that this, and the offsets of
positioned mode below, is all that crashes.  A flush of a mapped file sets `end_tag` to the
position (`423`), so that `io61_readc` then reports the end.  A failed write
leaves the tag where it was though part of the cache is in the file, so that trying
again repeats bytes (`391`), except in positioned mode; `io61_close` ignores that
its flush failed (`96`).  In positioned mode an offset behind the end of the
cached window makes the count of bytes left wrap around (`451`, `475`): a read copies
old bytes from behind the window, and a write reports success though `end_tag` stays and
its bytes are never flushed; the error of a read system call is returned without
trying EINTR again (`495`), which the call's caller may do.  EINVAL is taken for a reason to
write again (`389`), for ever; the model has no such error.

Copying: the stride programs count bytes, not positions (`stridecat61.cc:38`,
`wstridecat61.cc:34`), and a block at the end of a row is not cut at the size. Where a
block lies across the end they therefore stop before they have been everywhere: of four
bytes with a stride of 3 and blocks of 2, `wstridecat61` writes the positions 0, 1, 3 and
4, and never 2; `stridecat61` with `-s 4` on a longer file copies the bytes 0, 1, 3 and
4. At the end of the file itself `stridecat61` is safe, since the read is cut there.

Shell: a background subshell that is interrupted in `waitpid` returns to `main` and goes
on as a second shell (`sh61.cc:290`; `check.pl:683-684` types the line where it would
show). Both then read from the terminal, and each takes it from the other's group or is
stopped by SIGTTIN if the other has given it away; `Settles` leaves out the runs that
end so. A control-C at the prompt is remembered and drops the line typed next (`226`,
`528-532`). `cd` takes a stale `errno` for its own failure (`267`), which a program
before it in the line may have left, when the parent's `setpgid` was later than the
child's `execvp`. The group of the last pipeline is kept (`246`), so that `setpgid` may
fail for the next one, whose commands then stay in the shell's group. An interrupt
between the commands of a pipeline leaves a read end open (`cut` in the model).

## Proofs

The prover works on `Spec`, for every value of the constants that satisfies the
assumptions declared in the modules; TLC evaluates those assumptions in every run.

`KernelProofs`:

* `TypeCorrect` (`TypeOK`).  The inductive invariant is `TypeInv`, which adds
  `MapsPages`: every entry of process memory that has a permission bit is present
  and names an allocatable page.  Without it a copy-on-write fault could read the
  count of a page that does not exist.  The arithmetic part is that `process_setup`
  gives each process its own pages (`SetupPageType`, from `SetupAssumption`) and
  that the `kalloc` calls of `mmap` are numbered without gaps (`CallsType`).
* `RunsLive` (`RunsLiveProcess`).  The inductive invariant `RunInv` adds
  `LiveTables`, a process that is not free has a root and low tables, and the
  second level-1 table if it maps anything from `HighVA` on, and `Running`, which
  ties `current` to the process table.  The statement about `current` alone is
  not inductive: `schedule` may pick any other process next, after `mmap` or
  `fork` rolled back for that one.
* `NeverFreedInUse` and `Unshared` (`NoSharedWrites`), for every instance.  The
  inductive invariant `SharingInv` is `RunInv`, `NoSharedWrites`, and three parts:
  the low page a process may access is the console (`ConsoleOnly`), a free slot maps
  nothing (`FreeEmpty`), and no page is counted less often than it is used
  (`Covered`).  That a page with count 1 may be written in place
  (`CowReuseUnshared`), and that a new page is mapped nowhere yet (`NewUnmapped`),
  follow from `Covered`, so neither half can be proved without the other.  The proofs
  follow `Spare`, the count of a page less the number of entries and table slots that
  name it, through each step (`UsesChange` and `SlotsChange` say how much changing
  one process changes); the initial value comes from `process_setup` numbering its
  pages without gaps or repetitions (`SetupPages`, `IndexOnce`).
* `NeverPanics` (`NoPanic`) assumes `SafeCalls`: no program kills itself, and none
  unmaps below process memory.  For each of the two calls an assertion does fail (see
  "Disagreements").
* `CountsExact` (`RefcountExact`) assumes `WholePages` and `KeepsStack`: requests to
  `sys_mmap` are for an even number of half pages, and no `sys_munmap` reaches the last
  page of process memory. Without the first, the mapping loop goes one page past the
  range that was searched; without the second, a failed search may return a run of free
  pages that is too short, and `mmap` goes past the end of memory that is ever freed.
  The property is false of such programs; `Covered` is what is left of `RefcountExact`
  for them. `KeepsStack` is more than is needed: `kernel_tables` unmaps the stack page,
  and is checked by TLC only.
* `KeepsPrivate` (the refinement of `PrivateMemory`) assumes `WholePages` alone, since
  mappings past the end are no process's memory.  Steps that a process does not notice
  keep what it reads (`Unnoticed`); `kfree` clears a page only if the one process that
  unmaps it has all the references (`Uncleared`); a store reaches one process, by
  `NoSharedWrites` (`StoreStores`).

`FileLocksProofs`: `LocksNeverAbort`, `LocksCounted`, `NoWakeupLost` and the
refinement `LocksExclude` (`Spec => Promise!Spec`).  One invariant, `LockInv`,
gives all four: the counts are exact; `Owners`, each chunk of a held lock is
recorded for its thread; `Waiting`, a waiting thread wants a lock of its own that
it does not hold.  Exclusion follows because a common byte lies in a common chunk
(`CommonChunk`, from the monotonicity of division) and a chunk has one recorded
owner.  `owner[]` keeps the name of a thread that has unlocked, and the proof
shows why that does not matter: `is_overlap` looks at it only when the count,
which is the number of holders, is not 0 (`OverlapMeans`).

`AllocatorProofs`: `TypeCorrect`, `BytesTiled`, `FreeCoalesced`, `WildWritesFound`,
`StatsAgree` and the refinement `BlocksOwned` (of `Heap`). `Tiles` says nothing about
where blocks begin, so it does not survive a `m61_malloc` whose size test leaves the
rounding out. `AllocatorInv` does: active and free blocks begin at multiples of the
alignment and do not overlap, and where one ends in between, the bytes up to the next
multiple are all in `lost`. A block whose rounded size is more than the free block has
then reaches into lost bytes only, and takes them back. `freed` holds no active
block's address, and a block's markers are damaged only if the client wrote behind it.
`StatsInv` adds the counts; that `ntotal = 0` means that there are no blocks is needed
for the first call, which sets `heap_min`.

The sum that `StatsAgree` is about is a fold of the library, defined by recursion over
an arbitrary choice of element. `AllocatorProofs` begins with lemmas about such sums (a
changed summand changes the sum by as much), by induction in the form of a least
counterexample. `TransfersProofs` has them too, and what moving an amount does to a sum.

`TransfersProofs`: `TypesKept`, `LedgerNeverOverdrawn`, `MoneyReconciles`, and the
refinement `TransfersSerial` (of `Bank`). The locks are not proved again: the module
takes `FileLocksProofs` as an instance, so what that proves of `Locks` in general
holds of the locks on account records. `TransfersInv` adds four things. A thread holds
the locks that its step says it holds; two threads between locking and unlocking have
no account in common (`Apart`, since the chunks of the account would have two
owners). What a thread has read is still what the file, or the cached window over
it, has (`Seen`). The ledger is behind the balances by exactly the transfers that have
been written but not entered (`BookInv`). At most one thread has written one balance
and not the other for any given account, so that the sum in the refinement mapping has
at most one term. `TransfersAssumption` says what this needs: at least two accounts, a
positive number of chunks and of accounts per window, opening balances in range, a
finite set of threads, none of which is called `Nobody`.

`BufferedFileProofs`: `TypesKept`, `CrashesOnlyBeyond`, `PositionsAgree`, and the
refinement `ImplementsPlain` (of `PlainFile`). The invariant, `SoundInv`, describes
each kind of open file by itself: a file for reading is never dirty; one for writing
has all of the cache between `tag` and `end_tag`; one in positioned mode has a window
within the cache and the file. The count of bytes already flushed is not 0 only in the
middle of a flush. A file that can be mapped has an invariant of its own, `MapInv`,
which lets the position be behind the end. What is left to show is that each
assertion holds and each count of bytes to copy is within what there is, unless the
position or the offset is behind the end, and that the position stays there after a crash.
Programs that call again after a failure are included.
`PositionsAgree` and `ImplementsPlain` assume `~Retries`, since a program that does
call again may find the kernel's position ahead of the tag, and writes bytes twice
(see "Disagreements"): the properties are false of it, and this is the assumption of
the `file` run too. The refinement's own invariant, `DataInv`, says how much of the
cache and of a call's text is in the file already, and that what a read has collected
so far is what the plain file has there.

`ShellProofs`: `TerminalReturns`, `EndsClosed` and `ChainsGoOn`. `ShellInv` has the
facts about names that the shell relies on: each process has the place of its command,
and the places run before are behind the shell that runs them, or were run by another
one, so no process id is used twice; a process is waited for by its parent alone; a
group that a command was put in is its pipeline's or has ended; the pipe ends that the
shell has open are those of the pipeline it is at. `TerminalReturns` needs more than who
owns the terminal, because that group must have a process left, which is the awaited
last one. `ChainInv` relates the place a shell has reached in a chain to the processes
that were run for it, and the status it remembers to the last of them. `ChainsGoOn`
assumes `ProgramsOnly`: every conditional of every line consists of programs, or is
empty. It also states the shape that `parse_line` gives a list, which is a fold; all
lines of the run but the two with `cd` satisfy it. A definition of a variable leaves the
status as it was, and the status of `cd` depends on a stale `errno`, so what went before
in the chain no longer tells whether the next pipeline runs; lines with both are checked
by the run.

`Copy61Proofs`: `AssertsHold`, `InputCopied` and `FlushedOnTime`. The files are not
proved again: `Copy61Steps`, which it extends, takes `BufferedFileProofs` as an instance
for each of them, so that what that proves of a buffered file's steps (`FileInv`, the
file's position, what the plain file has) holds of both, as long as the position is not
behind the end, where these programs do not go. `Copy61Steps` ends in `StepCalls`, what
any step leaves as it is. Two invariants are added. `CallsInv` says what the two files,
the calls on them and the stages of the program are: which call is made at which stage,
what it was asked for and what it returned, and in `PosInv`, by the order of the
program, where each file stands between the stages. `Painted` says that every byte of
the output is either where the program has written it, with the byte of the input that
belongs there, or as it was; `Done` are the places written to, by order. It takes the
data half of the file's invariant, since what is in the cache counts as written. At the
end `Done` is everything.

For the stride programs the order is by columns of blocks: `Rank` is the number of
offsets that come before one, and no two offsets have the same (`RanksDiffer`).
`ColumnsInv`, a part of `PosInv`, says that the program stands at the beginning of a
block, that its block is as wide as the column, and that the rank of its position is the
number of bytes written. `NextRank` is the step of it: from a block the code goes one
stride on, or to the next column, or has been everywhere, and the rank of where it goes
is larger by exactly what it has copied. The rank counts a set, so this is an argument
about cardinalities and no induction over the file is needed.

All three assume `Recovers`, as the runs do: system calls are interrupted and put off but
do not fail for good. `Fits` excludes what the programs cannot do right: a size (`-s`)
that is more than the input has, where the end comes early; an input of `wreverse61` or
`wstridecat61` that does not stand at its beginning, since these only seek the output;
and a stride program with `-p`, which begins in the middle. `Seekable` in `AssertsHold` is
needed because `writeat61` asserts that it can seek. `Evenly`, in `InputCopied`, leaves
out the stride programs where a block lies across the end of what is copied, unless that
is the end of `stridecat61`'s input: there they may miss bytes, see "Disagreements
found". Every run of a stride program in `copy` satisfies it.

Of the invariants only one is model-checked and not proved: `ParsesGrammar` of
`Shell`, what a fold computes, an induction over data. `AwakeRuns`, `SleeperWakes`,
`Finishes`, `Returns`, `Ends` and `Settles` stay with TLC: liveness under fairness is
beyond the prover.

## Not modelled

* `pset3`'s devices, descriptor tables, boot loader, console and memory viewer:
  they set the machine up or draw on it and keep nothing the handlers depend on
  beyond what `PageTables` and `Kernel` have; `lib.cc` and `x86-64.h` are a C
  library and instruction wrappers.
* `SYSCALL_PANIC` and exceptions other than page faults, which stop the machine.
* `scattergather61`, `socketpipe`, and the slow, stdio and syscall versions of
  io61, which are measured against and not part of the solution.
* The shell's tokenizer, redirections and variable substitution; argument parsing
  and time measurement in the helpers.
* `ftxunlocked`, the bomb, exercises and unfinished copies.

## Plan

1. A model of the gather program and of the positioned cache of several slots, once
   the code of the latter is complete.
2. Pipelines that contain `cd` or definitions, and forks and pipes that fail, in `Shell`.
3. Reads from the system that fail within `Copy61`, stated as what has been copied when
   a program gives up.
