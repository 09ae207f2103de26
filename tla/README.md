# MerryV2: a verification development

MerryV2 is a 64-bit virtual machine in C: a manager thread ("the OS"), one
thread for each core, and a request handler between them. These modules model
its concurrent part (how cores ask the OS for things, how the OS answers, how
the VM stops and is freed), what a core's instructions do, the data memory the
cores share, the services for libraries and files, and the reader of input
files. TLC checks them on small instances; TLAPS proves what matters most for
every value of the constants. Paths below are relative to the repository, in
`src/merry/` unless a directory is given.

## 1. The system

| Component | State | Operations | Talks to |
|---|---|---|---|
| Request queue (`tools/merry_queue.h`, `merry_request_queue.c`) | a circular list of preallocated nodes, head, tail, `data_count`, `node_count` | create, push, pop, emergency push | the handler, under `req_hdlr.lock` |
| Request handler (`merry_request_hdlr.c`) | the queue, `handle_more`, a lock, one condition variable for each core and one for the OS | `push_request`, `pop_request`, `panic`, `kill_requests` | cores (call), the OS (call and signal) |
| OS (`merry_os.c`) | `core_count`, `active_core_count`, `stop`, `ret`, the cores' handles | boot, the request loop, a handler for each request, `prepare_for_exit`, add a core | handler, cores (`stop_running`, registers), data memory, loader, files |
| Core (`merry_core.c`) | pc, 16 registers, flags, sp, bp, a page of stack, return addresses, `stop_running` | fetch, 180 instructions | handler, memories |
| Return address stack (`merry_stack.c`) | array, size, sp, limit | push (may grow), pop | its core |
| Host flags (`abs/arithmetic.S`) | none | copy the host's flags after a `cmp` or after whatever ran last | core |
| Data memory (`merry_dmemory.c`) | table of pages, `number_of_pages` | read and write of 1, 2, 4, 8 bytes, plain and "atomic"; transfers of any length; add a page | all cores, no lock; the OS adds pages |
| Instruction memory (`merry_memory.c`) | table of pages | bounded read | cores |
| Thread primitives (`abs/merry_thread.c`) | wrappers of pthread | create, join, mutex, condition variable | all |
| Loader (`abs/merry_dynl.c`) | a table of entries (name, library, free or not), `entry_count`, `closed_entry_count` | load, unload, look up, close | the OS; the host's `dlopen` |
| Files (`abs/merry_fio.c`) | none: a handle is the host's descriptor, kept in a core's register Mb | open, close, read, write, rewind, end of file | the OS; the host's files |
| Reader (`merry_nreader.c`) | position in the file, counts of pages, six pointers | read header, entry addresses, instructions, section table, sections, symbols; give back; free | start-up; hands its pages to the memories |
| Start and end (`main.c`, `merry.c`, `merry_os_init`, `merry_os_destroy`) | options; which parts are built | parse, build, run, join, free | all |

How they interact. A core that executes INTR or HALT calls `push_request`: it
queues the request under the handler's lock, signals the OS if the queue was
empty, and waits on its own condition variable. The OS pops a request, handles
it, and signals the condition variable the request carries. A core that fails
calls `panic`, which closes the handler (`handle_more`) and puts an entry at the
head of the queue. On a panic, or EXIT, the OS sets every core's
`stop_running`, lets waiting cores go (`kill_requests`) and ends.

### What is hard here

* **Order of threads.** The OS looks at the queue under one lock and sleeps with
  another: a wakeup can fall in between. Cores post while others panic. Posts
  are refused, queued or overflow the queue. Every combination is a step in
  `MerryVM`.
* **Stopping.** `stop_running`, `active_core_count`, `stop` and `handle_more` are
  four notions of "the VM ends", set by different threads at different times.
* **Teardown.** The cores' threads are detached: `main` frees the memories, the cores
  and the handler while those that have not ended may still use them.
* **Starting half way.** Whatever part of `merry_os_init`, of the reader or of a core
  fails, what was built is freed by the same function that frees a whole one,
  though much of it was never set.
* **Names that outlive what they name**: a library's entry keeps its name when it
  is free, and the host gives a closed descriptor's number to the next file.
* **The emergency push**, which breaks the queue's own invariant: it counts an
  entry without moving a pointer.
* **Growth without a lock.** The OS reallocates the table of pages while cores
  read through it.
* **Failures half way**: an instruction that has changed something before it
  fails; a transfer that has stored its first page when the second is refused.
* **The edges of the stack**: sp is -1 when it is empty, and every check treats
  that specially.

`PROJECT.json` lists these at their lines under "hazards", with the properties
about each.

### What makes each part correct

| Part | Should hold |
|---|---|
| queue | a bounded FIFO (`BoundedFifo`) |
| handler, OS and cores together | every post is answered once and nothing is executed in between (`RequestService`); a panic is the next thing handled; stopping reaches every core; what was begun ends |
| core | a comparison's flags tell what was compared; a failing instruction harms nothing; returns match calls (`CallStack`); the stack's page is left only from its edges |
| data memory | one flat array that grows (`FlatMemory`); only a growth in progress, a page the host could not map, or the atomic load of a double word can lead a core astray |
| start and end | nothing freed twice or before it is set, nothing left behind, no core begins an instruction while `main` frees, the process ends; the code does all of these but for cases that the properties name |
| loader | counts, entries and host agree; a handle stands for its library until it is unloaded (`LibraryTable`) |
| files | a handle that was given reaches a file of the program |
| reader | what it accepts it has read whole; it writes to and frees what is its own |

## 2. The modules

```
BoundedFifo <------ RequestRing -----> RequestQueue <------ MerryVM ------> RequestService
                     | MCRequestRing                         | MCMerryVM
                     | RequestRing_proofs                    | MerryVM_proofs
                                                             | MerryVM_service_proofs
CallStack <-------- MerryCore -------> CoreWords
                     | MCMerryCore
                     | MerryCore_proofs
FlatMemory <------- DataMemory
                     | MCDataMemory
                     | DataMemory_proofs
                    VMLifecycle -----> MerryVM
                     | MCVMLifecycle
                     | VMLifecycle_proofs
LibraryTable <----- OSServices
                     | MCOSServices
                     | OSServices_proofs
                    InputReader
                     | MCInputReader
                     | InputReader_proofs
```
(left of an arrow: an abstract specification implemented; right: a module that
is extended; below: the instances for TLC and the proofs. MerryVM_service_proofs
builds on MerryVM_proofs, and VMLifecycle_proofs on both.)

**RequestQueue** has the queue as operators on a record: a node is its position
in the list, so a pointer is a number. **RequestRing** is one queue under any
pushes and pops, refined to **BoundedFifo** by reading the `data_count` nodes
from the head on.

**MerryVM** composes the queue, the handler, the OS thread and the cores' threads.
Every handler operation is under `req_hdlr.lock`, and none blocks holding it (a
wait gives it up), so each is one step; everything outside it that the threads
share has steps of its own. `thread[c]` says where core c's thread is (`check`
is the loop's head, `exec` an instruction, `wait` on its condition variable,
`resume` signalled but not yet running); `osPc` says the same of
`merry_os_start_vm`: `boot`, `loop` (head and pop), `sleep` (about to wait),
`asleep`, `dispatch`, `stopcores` (`prepare_for_exit`), `signal` (the end of the
loop's body). A request is a number and its core; the numbers are grouped by how
they are dispatched, so SERVICE stands for the ten that answer in registers.
The answers themselves, NEWCORE's in register Ma included, are left out here.

| Code | Actions of MerryVM |
|---|---|
| `merry_requestHdlr_push_request` | PostRefused, PostOverflow, PostAccepted, then CoreResume |
| `merry_requestHdlr_panic` | RaisePanic, in CoreFault and OSService |
| `merry_requestHdlr_kill_requests` | OSKill |
| `merry_runCore` | CoreCheck, CoreWork, CorePost, CoreFault |
| `merry_os_start_vm` | OSBoot, OSBootFails, OSPop, OSSleep, OSDispatch, OSSignal |
| `merry_os_prepare_for_exit` | OSStopCore for each core, OSKill |
| `merry_os_add_core` | OSNewCore, OSNewCoreFails, OSNewCoreBlocks |
| the host's `pthread_cond_wait` | CoreSpurious, OSSpurious |

**RequestService** is what a core can rely on: its states are a core's standing
(running, posted, answered, released, ended), nothing about queues or locks.

**MerryCore** has one action for each kind of instruction and the loop's head. The
program is any: each turn executes any instruction with any operands, so
instruction encodings do not appear and a run covers every program of any
length. The values that memory, input and the OS give are any. **CoreWords** has
the arithmetic, scaled: `Words` is 2^64, `ImmWords` 2^32, `SxWords` the 2^24 of
the masks `0xFFFFFF`, `NarrowWords` 2^8. The masks keep fewer bits than a word has
(`SxWords < Words`): an immediate that is extended by ones is therefore not 0, which
is why idiv and imod with one, which check the immediate before it is extended,
never divide by 0. Flags are "set", "clear" or "any": the
code copies the host's flags after C code whose last instruction is the
compiler's choice, and a jump on an "any" flag goes both ways. `compared`
is the only history variable: the order of the two operands of the last
comparison. A core that indexes outside its stack's page has undefined
behaviour, so it may stop being followed (`astray`) or go on with any value.

**DataMemory** splits an access as the machine does: compare with
`number_of_pages`, load `memory->pages`, load the page's pointer, move cells.
Growing is split likewise: `realloc`, assignment, restoring on failure, the
page, the count. A cell is a byte. An access of one unit is indivisible if its
address is a multiple of its width (the compiler's one instruction, on the
hosts the project targets), otherwise cell by cell, as a transfer is. The
table is known by how often `realloc` has moved it. An address is as the program
gives it (`asked`); its page is the quotient cut to an `unsigned int` (`PageOf`,
with `PageNumbers` for the 2^32 of it), so what is used is the address modulo all
pages there are numbers for. The atomic load of a double word has an action of its
own, LoadPointer: it adds the offset to the place where the page's pointer is
kept, so it loads that pointer, or whatever is behind it.

MEM's growth can fail in `malloc`, in `realloc`, or in `mmap`, whose failure the
code does not notice.

**VMLifecycle** puts `main` around MerryVM's threads. What `merry_os_init` builds is
a list of parts, any of which may fail; every pointer of `os`, of its reader and of
`req_hdlr` is worth "none" (null), "live", "freed" or "junk" (never set). The
reader's tables, pages and file are objects of their own, set or not by what the
input file has (`FileTables`) and by where reading failed (`FileFailures`; what
`merry_reader_read_file` frees itself is InputReader's). A core that gets no
registers is destroyed with a `stack_mem` and a `ras` that were never set; that
its `stack_mem` could not be mapped is never noticed (`merry_core.c:36` compares
with NULL). `wild` collects what is freed that was freed or never set, after which
the process goes on or is over. `merry_os_destroy`
frees in the code's order, one step for what no core could tell apart; a core
that uses something freed may end the process, read anything for `stop_running`,
or find its data as it was. A condition variable some core waits on holds `main`
up (`pthread_cond_destroy`).

| Code | Actions of VMLifecycle |
|---|---|
| `main` | ParseOptions, CreateOSThread, JoinOSThread, Return |
| `merry_os_init`, and the inits it calls | BuildPart, StartFails (up to the data memory), PartFails, RegistersFail |
| `merry_os_destroy`, and the destroys it calls | Destroy, held up while HeldUp |
| `merry_core_init`, `merry_os_boot_core`, `merry_os_add_core` (for what they allocate, and fail to) | OSRuns |
| the cores' threads meanwhile | CoreRuns, CoreStrays |

**OSServices** has the services behind the requests for libraries and files one by
one, as steps: the OS serves one request at a time while its core waits. The
host's part is there as far as it is used: how often `dlopen` has each library
open, and which descriptors are open, for whom, in which mode, at which offset.
`answer` and `origin` are history variables. A program gets handles from FOPEN,
passes them on to other cores, and keeps them after somebody closed them.
**LibraryTable** is what the loader promises of its handles; its two actions
Stale and Break say when the code does not keep it: for a library that was
unloaded, and from the first library that finds the table full.

| Code | Actions of OSServices |
|---|---|
| `merry_os_execute_request_dynl`, `merry_loader_loadLib` | DynlKnown, DynlLoads, DynlFails, DynlPanics |
| `merry_loader_add_entry` | DynlGrows, DynlGrowsAndFails, DynlGrowFails |
| `..._dynul`, `..._dyncall` | Dynul, Dyncall, DyncallPanics, UseOverwritten |
| `merry_loader_close` | LoaderClose |
| `..._fopen`, `_fclose`, `_fread`, `_fwrite`, `_feof`, `_rewind` | Fopen, FopenFails, Fclose, Fread, Fwrite, Feof, Rewind, FilePanics |

**InputReader** reads one file, whose lengths and contents are any, in the order
of the code's functions, one action for a function's success and one for its
failure. The bytes are not there; the position is, and so is which pointer is
null, junk, allocated or freed. `astray` says that memory that is not the reader's
was written, after which the process may end at any step that uses it.

`PROJECT.json` "map" gives the lines of every definition.

## 3. What is checked

Twelve runs, of which eight pass and four find a disagreement of the code with
what its comments say.

| Run | Instance | Shows |
|---|---|---|
| `ring` | 3 values, 3 entries, a list of 3 or 4 nodes | the circular list is a FIFO of its capacity (FifoSpec); the tail is where the data ends (TailClosesData); what is popped was pushed (DataInitialised) |
| `vm` | 1 core booted, 2 more by NEWCORE, queue of 1, any program of HALT, EXIT, NEWCORE, services and failures, threads that cannot be created, failing services | a panic is what the OS takes next (PanicIsNext), and so is the emergency entry of a full queue (OverflowIsNext); before the first panic a core waits exactly while its one request is queued or held (WaitersAreQueued); who is let go was answered or told to stop (WokenAnswered); an OS that is done has told every core to stop (DoneStopsAll); no unwritten node is handled (HandlesWritten); the result does not change once decided (ResultDecidedOnce); the handler implements the service (ServiceSpec) |
| `vm_lifecycle` | 1 core booted and 1 more by NEWCORE, queue of 1, any program of those and of instructions that ask for nothing, a file with sections and no symbols, every part failing, threads that cannot be created, spurious wakeups, fair | what is freed was set and is there, but for what is named (FreesWhatIsThere); nothing is left but the reader's page tables and file (LeavesNothingElse); late cores begin no instruction (LateCoresStop); what the OS takes is answered, whatever it asks for, unless the OS blocks over a NEWCORE (TakenIsAnswered); cores told to stop end (ToldCoresEnd); a VM that begins to stop ends the process, unless a core that nobody will answer holds `main` up (ProcessEnds) |
| `core_alu` | words of 2 bits, 2 registers, 3 instructions' addresses, all instructions but the stack's | ComparisonStands, FailuresHarmless |
| `core_stack` | a stack of 3 entries, return addresses growing from 1 to 2, the stack's instructions | returns match calls (ReturnsMatchCalls), the page is left only from its edges (StraysAtEdges), FailuresHarmless |
| `data_memory` | 2 cores, pages of 3 cells, 1 growing to 2, units of 2 cells, transfers of 1 and 4, addresses that wrap, every failure of growth (malloc, mmap, realloc) and one move | a flat memory (FlatSpec), pages counted are in the table (CountedPagesAreThere), strays only behind growth to a page that was not mapped, or by the atomic load of a double word (StraysBehindGrowth) |
| `services` | programs of 2 cores that use 3 libraries with a table for 2, or files with 2 descriptors free | counts, entries and host agree until the table grows (TableAgreesWithHost); handles keep what they promise (LibrarySpec); a given handle reaches a file of the program (GivenHandlesReachFiles) |
| `reader` | 7400 files, whole, cut short and with lengths that wrap | an accepted file was read whole (AcceptedIsWhole); the symbol table read is the file's, unless a section was skipped (SymbolsAreTheFiles); what is freed was allocated and is freed once, but for pointers never set or failed at (FreesAreTheirs); where the reader leaves its memory (ReadsInBounds) |

The bounds, and why they are enough:

* `MaxCores`: memory lasts for so many cores. Two cores give every pair of
  orders between a core that posts and one that panics or stops; the third in
  `vm` is there because a full queue of one needs a core in it, one held by
  the OS and one that is refused. In `vm_lifecycle` one core can be late in its
  last instruction while another waits for an answer that does not come; the
  second comes by NEWCORE, so that cores added while the VM runs, and those that
  could not be, are freed as well. The program does everything the dispatch has
  a case for, works and fails.
* `QueueLen` 1 to 3 stands for 10 (`os/merry_os.h:61`). The ring wraps after 2 to 4
  pushes, and full, empty and in between all occur. `data_count` is any number.
* `WakeBound` 0: with spurious wakeups a core posts again and again and the count
  never stops growing, so `vm_lifecycle` has them only while the queue is empty. The
  theorems hold for every value of it.
* `FileTables` {sections}: one table that is set and freed, and one that is not
  set and freed all the same.
* `InstLen` 3: an instruction before, at and past the end of the program
  matters, not how many. `PCs` keeps one address for all that lie past it.
* `Words` 4: both signs and a carry and an overflow exist. `ImmWords`, `SxWords` and
  `NarrowWords` keep the order of the masks; in the stack's run words differ only
  in what the stack needs.
* `CallRoom` 1 stands for the 4 that `merry_execute_call` asks for; the stack has
  3 entries, so that a call is refused, succeeds, and is made on an empty stack.
* `PageSize` 3 with units of 2: a unit lies in its natural place, across it,
  and over the page's end. Transfers of 4 end in the second page or past it, of 1 within one.
* `PageNumbers` 3 stands for 2^32, with at most two pages: `Addresses` 4 is in the page
  that is not there before the growth, 10 wraps around to 1 and is not refused, and
  what begins at 2 goes on in the next page.
* `MaxMoves` 1: a table is moved once, which is enough for a stale one.
* `InitEntries` 2 is the code's own number; `MaxEntries` 3 lets the table grow
  once, which breaks it. Three libraries fill the table and ask for one more.
* `Fds` 1, 3, 4, 5 with 1 (a stream) and 3 (the input file) the VM's own: two files
  can be open, a third FOPEN is refused, and the modes 1 and 3 that a failed FOPEN
  leaves in Mb are numbers of the VM's descriptors. `FileLen` 1: at the end or not.
* The files of `reader` have up to two sections. `PageLen` 16 is two instructions,
  so that less than a page, exactly one and more occur; `Words` 256 lets the
  header's sum wrap; `MaxAlloc` 128 and `StackLen` 16 separate lengths the host
  gives from those it does not. `len` cuts each file at its boundaries.

Deadlock is checked in `ring`. In the other runs threads end (or leave the pages and
are not followed), so they may stop.

**Fairness** (`vm_lifecycle`, and the counterexample of `lost_wakeup`): weak fairness
of the OS thread and of each core's thread, and in `vm_lifecycle` of `main`, since the
host schedules threads that can run. `req_hdlr.lock` is held only for a few
instructions, so no strong fairness is needed. Spurious wakeups, failures, a
core's choice among instructions and what a core does in freed memory have none.

### Where code and comments disagree

| Run | What the source says | What happens |
|---|---|---|
| `lost_wakeup` | `merry_os.c:189`: the OS "will go to sleep and wait for the request handler to wake us up" | with one core: it posts and signals between the OS's empty pop and its wait; later posts do not signal, because `data_count` is not 1. Both sleep for ever |
| `panic_overwrites` | `tools/merry_queue.h:261`: "Emergency add to first" | the entry at the head is replaced; its core is never woken, and the count is one too many |
| `kill_half` | `dev/merry_request_hdlr.h:56`: "Make all cores that were waiting to continue with error" | the loop's bound falls as it pops: half of them, rounded up |
| `newcore_blocks` | `defs/merry_request.h:56`: "Create a new core for execution" | after the OS has slept it still holds `os._lock`, and `merry_os_add_core` locks it again |

Some properties hold but for cases that they name, because the code leaves them open:

* DoneStopsAll and LeavesNothingElse except the core a failed boot takes out of
  `core_count` (`i - 1`, `merry_os.c:176`; for the first core 2^64 - 1, and the process
  crashes); and, with spurious wakeups, a core that halts twice, which the OS
  counts out twice.
* FreesWhatIsThere except for what FreedBlindly names. After every start: the
  reader's `sections` and `st_data`, where the file has none (`merry_nreader.c:80-84`).
  After failures: those and `EAT`, when reading fails; `stack_mem` and `ras` of a core
  without registers, at the start or by NEWCORE (`merry_core.c:33`, `:58`, `:70`); the
  queue of a handler without a lock, which is destroyed twice; and `core_threads`,
  which is there and not yet set when the loader or the OS thread fails.
* LeavesNothingElse except the reader's two tables of pages and its file, which
  nothing ever releases (the pages themselves go to the memories), although
  `merry_nreader.c:77` says that the file is closed.
* TakenIsAnswered except a NEWCORE over which the OS blocks (`newcore_blocks`): its
  core waits for ever. ToldCoresEnd except cores that wait: a post that comes after
  `kill_requests` has nobody left to answer it.
* LateCoresStop is about the loop's head. A core that is in its last
  instruction uses what `main` has freed, with any outcome.
* StraysBehindGrowth and FlatSpec except the atomic load of a double word
  (`merry_dmemory.c:320`); and FlatSpec takes addresses modulo all the pages there are
  numbers for.
* ProcessEnds except a core left waiting by `kill_requests` (`kill_half`), or one
  whose request was overwritten (`panic_overwrites`): `main` then waits in
  `pthread_cond_destroy` for ever.
* TableAgreesWithHost and LibrarySpec until a library needs a third entry.
* SymbolsAreTheFiles except after a section that is skipped; FreesAreTheirs and
  ReadsInBounds except for the cases under "Reader" below.

Some are false under circumstances that the passing runs leave out, which TLC showed on
other instances; the theorems of section 4 have hypotheses for them:

* Spurious wakeups: WokenAnswered fails, because the wait is in no loop.
* More than `QueueLen + 2` cores (four, with a queue of one): OverflowIsNext and
  DoneStopsAll fail. A full queue refuses one core's post and gets an emergency
  entry; the count is then past the bound, which IsFull compares with `==`, so that
  the next post goes through, and the one after it is written over the emergency entry.
* A failed boot after another core was booted: ServiceSpec fails. The core that is left out of
  `core_count` runs on untold, and `kill_requests` lets it go without an answer.
* A list of nodes cut more than one short (`tools/merry_queue.h:184`), which creation
  reports as success: FifoSpec, TailClosesData and DataInitialised fail.

Modelled as it is, and worth knowing:

* Requests. A post refused after a panic returns success unserved
  (`merry_request_hdlr.c:25`). NEWCORE answers 1 both when the core runs and when
  there was no memory for it (`merry_os.c:354-359`). With more than one core,
  the last HALT leaves `os.ret` unset.
* Stack. CALL stores BP over the top of the stack (`merry_core.c:1389`) and RET reads it
  one entry further (`:1403`), so BP is not restored, although `:1394` says
  everything is. CALL and POPA pass their checks on an empty stack; PUSH at the
  last entry stores one past the page. POPA restores all registers but the
  first. CALL_EXCP goes to the instruction before `exception_address`.
* Immediates of 64 bits are read from two instructions on, and the pc is left at
  them, so they are executed next. A missing one is used as 0.
* Flags and jumps. `greater` is set by an integer comparison and never cleared by
  one; JGE and JSE test for a zero flag that is clear.
* Arithmetic. idiv and imod divide unsigned; iadd, isub and imul with an immediate keep 24
  bits and set all others; the memory forms use 4 bits of the address; fdiv's
  memory forms multiply; 32-bit moves keep 24 bits; MOV8 to MOV32 and the narrow
  exchanges are an "and"; LSHIFT and RSHIFT never shift.
* Memory. A transfer refused at its second page has stored the first part. While
  the table grows, other cores may find it null or freed. A page that `mmap` did
  not give is counted (`merry_dmemory.c:12` compares with NULL). ATM_LOADD does not load
  the memory's cells but the pointer to the page, or what follows it (`:320`), and
  writes nothing. Page numbers have 32 bits (`dev/merry_dmemory.h:62`): addresses of
  2^52 and more, which no memory has, reach the low pages. MEM leaves Ma
  as it was on success, and answers in Mb one past the page's first
  byte (`merry_os.c:542-551`).
* Start and end. `main` returns 0 whatever the VM's result: `merry_thread_join`
  assigns it to its own parameter. What is freed unset, and what is never freed, is
  listed above.
* Libraries. A library that was unloaded and is asked for again gets its old
  handle, which DYNCALL then refuses. The third library makes `realloc` ask for
  three bytes (`abs/merry_dynl.c:54`).
* Files. FEOF answers 0 at the end and 1 before it, the reverse of its comment
  (`merry_os.c:480`), and takes a byte. The modes that append and
  truncate lack O_WRONLY, so FWRITE fails on them. Mode 4 cannot be given in two
  bits. A failed FOPEN leaves the mode in Mb, where the handle would be, and 0 to
  3 are the VM's own descriptors. FSEEK, FTELL and NEWPROCESS have no case in the
  dispatch.
* Reader. A file is refused for its magic number only if all three bytes are
  wrong. All pages of a table are stored in its entry 0 (`merry_nreader.c:21`); sections are
  read into the table instead of the pages; the symbol table gets 8 bytes
  whatever its length; sections that are skipped are not seeked over; a read that
  fails there frees `st_data` twice, and pointers that were never set are freed.

## 4. What is proved

TLAPS proves the following for every value of the constants that satisfies the
modules' named assumptions (sizes are natural numbers, limits are ordered,
word sizes are powers of two). Some have hypotheses besides, marked by a letter:
**L** `EnoughNodes`, the list has at least `QueueLen` nodes; **W** `NoSpurious`,
`pthread_cond_wait` wakes nobody unasked; **C** `FewCores`, at most `QueueLen + 2` cores
(12 in the code); **B** `NoBootGap`, no boot fails after a first one. Without them the
properties are false of the code, as section 3 says, but for HandlesWritten,
WokenAnswered, WaitersAreQueued and ServiceSpec without C, which TLC found to hold with
one core more: the invariant needs C there, the property perhaps does not.

| Theorem | Says | Argument |
|---|---|---|
| RequestRing_proofs, RingCorrect (L) | types, TailClosesData, DataInitialised | `RingInv`: the tail is `data_count` nodes after the head, and those nodes hold values |
| PopsWhatWasPushed (L) | DataInitialised | from the same |
| RingTypes | TypeOK | for a list of any length: the pointers are taken modulo its length, and a push is refused at `QueueLen` |
| RingImplementsFifo (L) | FifoSpec | PushAppends and PopTakesHead say what the two operations do to the mapped sequence; every step is then the FIFO's |
| MerryVM_proofs, TypeCorrect | TypeOK | with CountInv, what bounds the counts of cores: `active_core_count` is what was booted, is past `core_count` only when the VM stops, and is not 0 when a request is handled |
| PanicNotLost | PanicIsNext | inductive with TypeOK: a panic closes the handler, nobody pushes onto a closed one, a second panic does not either; and whoever pops the entry is then stopping |
| ResultDecided | ResultDecidedOnce | once `ret` is set the OS is stopping, and from there handles nothing |
| MerryVM_service_proofs, HandlesRequests (W, C) | HandlesWritten | `Good`, below |
| OverflowNotLost (W, C) | OverflowIsNext | EmergencyAtHead in `Good` |
| WokenHaveAnswers (W, C) | WokenAnswered | UnansweredTold in `Good` |
| WaitersCounted (W, C) | WaitersAreQueued | QuietQueue in `Good`: entries, the request the OS holds, and waiting cores are one to one |
| DoneStops (C) | DoneStopsAll | ActiveCounted in `Good`: the cores not told are no more than `active_core_count` says. With spurious wakeups only the OS's own order of telling is needed |
| ImplementsService (W, C, B) | ServiceSpec | each action is one of the service's, or none of its business; `Good` with NoGapInv says who may be let go without an answer |
| VMLifecycle_proofs, ProcTypes | ProcTypeOK | `ProcInv`, below |
| FreesOnce | FreesWhatIsThere | JunkInv in `ProcInv`: what each moment of the start leaves unset is in the reader, by its tables, or in `core_threads`; after it, only the tables the file lacks |
| LeavesOnlyTables | LeavesNothingElse | DestroyInv and OutsideInv in `ProcInv`: what is live has not been passed, and what is passed over is the core outside `core_count` |
| LateCores (C) | LateCoresStop | `LateInv`: what DoneStops says, carried on while `main` frees |
| MerryCore_proofs, ReturnsAlwaysMatchCalls | ReturnsMatchCalls | `RasOK`; every instruction but CALL and RET is Quiet, one lemma for each group; PushIsAppend and RetReturns for those two |
| StraysOnlyAtEdges | StraysAtEdges | no invariant is needed: each instruction's own checks bound the indexes it uses, from an SP and a BP within the page |
| CompareFlagsTell | the flags of a comparison | arithmetic on words, for every even number of them |
| WordsAreBits | a word is its bits | below |
| CoreTypes | TypeOK | `CoreOK`, with one lemma for each group of instructions: what it stores is a word (CombineTypes, ExtendTypes, NarrowTypes, LogicTypes), and sp is checked before it moves |
| FlagsStand | ComparisonStands | CompareFlagsTell at a comparison; at every other instruction, that it either leaves the flags or says that they are not the comparison's |
| FailuresLeaveAlone | FailuresHarmless | instruction by instruction: what is checked is checked before anything is stored |
| DataMemory_proofs, CountedPages | CountedPagesAreThere | `GrowOK`: outside the window of a growth the pointer is the live table, and entries and count differ only between the store and the count |
| StraysAreBehindGrowth | StraysBehindGrowth | `JobOK`: a transfer past its check never touches a page at or past the count: page + full + (1 if any remain) < `number_of_pages`, which never shrinks; and the load by the pointer's place is told apart by its kind |
| MemoryTypes | TypeOK | `MemOK` and `MovesOK`: a page that is not counted is all 0, and what is done, at hand, in full pages and left over of a transfer is its length |
| ImplementsFlat | FlatSpec | RemainderIs and PlaceIs: page and offset of an address are the quotient and the remainder of that address modulo all pages; `MovesOK` puts the piece at hand at the address given plus what is done (PieceOK), so that copying it is the flat memory's Move; a growth appends a page of 0s; a refusal is of what does not fit |
| OSServices_proofs, GivenHandles | GivenHandlesReachFiles | with the types: FOPEN gives a descriptor nobody has, closing takes the mark from every core that holds it, and nothing else writes a descriptor's owner |
| TableAgrees | TableAgreesWithHost | `TableInv`: the entries in use have different names, because a load looks at all names first, free entries' included; so each library is open once, in one entry, and closing those in use closes all |
| KeepsPromise | LibrarySpec | `TableInv` again, and one case for each service; the table's growth is the abstract Break, after which LibraryTable promises nothing |
| ServiceTypes | ServicesTypeOK | `CountsInv` holds after growth too: free and unloadable entries together are no more than all, and the host has each library open at least as often as the table says |
| InputReader_proofs, AcceptsWhole | AcceptedIsWhole | `PlaceInv`, where each function starts to read: after a short read of the entry addresses nothing is left, and there are always instructions to read |
| SymbolsFollow | SymbolsAreTheFiles | `SymbolsInv`: the table is read where what was read ends; when nothing was skipped, the sections' lengths and the lengths read are the same function of the index, so their sums are the same |
| FreesOwn | FreesAreTheirs | `FreeInv`: before a failure nothing is freed; then only the failing function's own pointer is |
| StaysInBounds | ReadsInBounds | `BoundsInv`: a second page, or a page of data, means a file that has so much |
| ReaderTypes | ReaderTypeOK | with the position, which no function moves past the file's end |

The inductive invariants are strengthenings of what TLC checks, and were checked by TLC
before they were proved. Why they are needed, for the larger ones:

* **`Good`** (MerryVM_service_proofs). WaitersAreQueued says how many entries a core has; it
  does not say that the node at the tail is free, nor what is in the nodes after an emergency
  push put count and tail out of step. `Good` splits the life of the queue: before
  the first panic or overflow (QuietQueue) the entries are those of different
  cores that wait, and the tail closes them; from then on (EmergencyAtHead) the head is
  the emergency entry. What bounds the posts that still go through is StuckCounted: every
  entry stands for a core that waits or was refused, so the count cannot pass the
  number of cores; this is where hypothesis C is used. ToldInOrder and ActiveCounted
  say the same of `stop_running` and the OS's counter.
* **`ProcInv`** (VMLifecycle_proofs). To free once, one must know what is built: MainInv ties
  `main`'s place to the number of parts and the one that failed (BeforeVM: none of the VM's
  threads has begun), CoresMade and JunkInv to what
  each pointer is worth, DestroyInv to how far `merry_os_destroy` has got.
  FreesWhatIsThere then needs no hypothesis about cores that stray through freed memory,
  because StraysKeep shows that they write none of this.
* **Words and bits** (MerryCore_proofs). The model says what AND, OR and XOR do by the sets
  of bits of their operands, and chooses the word with the resulting set. That
  there is one, and only one, is an induction over the width. The library's
  induction theorems take the formula as a parameter, which the provers cannot
  instantiate; LeastNumber states the same of sets of numbers, so each
  induction is about the least width that would be a counterexample.

Only model-checked: the three liveness properties of `vm_lifecycle` (TakenIsAnswered, ToldCoresEnd,
ProcessEnds), because liveness under fairness and ENABLED are beyond TLAPS here. Every
invariant and action property of the passing runs, and every refinement, is a
theorem, under the hypotheses given. The run `vm` meets all of W, C and B: three
cores on a queue of one, of which one is booted. `vm_lifecycle` has spurious wakeups,
and LateCoresStop, its only theorem with a hypothesis, needs only C.

## 5. What is not modelled, and what comes next

Not modelled:

* the Windows port, and messages and errno, which are formatting;
* processes, time and sockets: nothing in the VM reaches them (NEWPROCESS has no
  case in the dispatch);
* the text that input and output convert, and the host's floating point;
* copying the options into memory, and the bytes of files and sections: the models
  have their places and lengths;
* the branch of the reader for a section of symbols (SYMD) that is not skipped,
  which the reading of the section table makes unreachable;
* the generic destroy functions of queue, stack and memories, beyond their order
  in VMLifecycle.

The rest of the plan, most important first:

1. **HandlesWritten, WokenAnswered, WaitersAreQueued and ServiceSpec without hypothesis C**, by an
   invariant that follows the count past the emergency entry instead of bounding it by
   the number of cores.
2. **RequestService for cores that a failed boot left out**, as a case of its own in the
   abstract specification, so that ServiceSpec needs no hypothesis B.
3. **DataMemory**: the addresses handed out (`get_byte_address` and the like), which the services
   read and write through without a check of the length.
