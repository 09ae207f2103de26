----------------------------- MODULE VMLifecycle -----------------------------
(***************************************************************************)
(* The process around the VM: main (main.c), which builds what the VM      *)
(* needs (merry_os_init), starts the OS's thread, joins it, frees it all   *)
(* (merry_os_destroy) and returns; composed with the OS and the cores of   *)
(* MerryVM.  The cores' threads are detached: nobody joins them, and those *)
(* that have not ended are still there while main frees what they use.     *)
(*                                                                         *)
(* What is built is a set of objects.  A pointer to one is NULL ("none":   *)
(* os and req_hdlr are static), points to it ("live"), still points to     *)
(* where it was ("freed"), or holds what malloc left there ("junk").       *)
(***************************************************************************)
EXTENDS MerryVM, Sequences

CONSTANT FileTables  \* the tables the input file has that it may do without

ASSUME FileTablesAssumption == FileTables \subseteq {"sections", "st_data"}

VARIABLES
    main,      \* where main is
    built,     \* how many of the parts merry_os_init has built
    failed,    \* history: the part that could not be built
    heap,      \* what each pointer of os, os.reader and req_hdlr is worth
    gone,      \* how far merry_os_destroy is
    wild       \* history: what was freed that was freed before, or never set

mainVars == <<main, built, failed, heap, gone, wild>>
procVars == <<vars, mainVars>>

Part(name) == <<name, 0>>
Core(c) == <<"core", c>>
Thread(c) == <<"thread", c>>   \* core_threads[c]

\* The calls of merry_os_init that can fail, in order.  "file" and "options"
\* leave nothing to free: they fill what other parts are.
Parts ==
    <<Part("reader"), Part("file"), Part("dmem"), Part("options"), Part("imem"),
      Part("cores")>>
    \o [i \in 1..BootCores |-> Core(i - 1)]
    \o <<Part("cond"), Part("lock"), Part("queue"), Part("hdlr_lock"),
         Part("threads"), Part("loader")>>

Fillings == {Part("file"), Part("options")}

\* What merry_destroy_reader frees besides the reader, and what it does not: the
\* memories take the pages out of the two tables, and nobody closes r->f.
ReaderBlocks == {Part(name) : name \in {"EAT", "sections", "st_data"}}
ReaderKeeps == {Part(name) : name \in {"instructions", "data", "f"}}

Objects ==
    ({Parts[i] : i \in 1..Len(Parts)} \ Fillings)
        \cup ReaderBlocks \cup ReaderKeeps
        \cup {Core(c) : c \in CoreIds} \cup {Thread(c) : c \in CoreIds}

\* What else a core has that merry_core_destroy frees if it is not NULL.
CoreBlocks == {Part("stack_mem"), Part("ras")}

NoPart == Part("none")

ProcInit ==
    /\ Init
    /\ main = "parse" /\ built = 0 /\ failed = NoPart
    /\ heap = [o \in Objects |-> "none"]
    /\ gone = 0 /\ wild = {}

-----------------------------------------------------------------------------
(* main, before there is a VM *)

\* merry_parse_options and the options that end main: help, no input file.
\* Fields it does not set are what malloc left there, so any may be seen.
ParseOptions ==
    /\ main = "parse"
    /\ main' \in {"init", "exited"}
    /\ UNCHANGED <<vars, built, failed, heap, gone, wild>>

NextPart == Parts[built + 1]

Early == {Part("reader"), Part("file"), Part("dmem")}

\* The pointers that a call gives an object, and those it leaves as malloc did:
\* merry_init_reader sets r->f alone of these, and the array of threads is not
\* cleared.
Sets(part) ==
    CASE part = Part("reader") -> {part, Part("f")}
      [] part = Part("file") ->
            {Part("EAT"), Part("instructions")} \cup {Part(t) : t \in FileTables}
                \cup {Part("data") : t \in FileTables \cap {"sections"}}
      [] OTHER -> {part}

LeavesUnset(part) ==
    CASE part = Part("reader") -> ReaderBlocks \cup (ReaderKeeps \ {Part("f")})
      [] part = Part("threads") -> {Thread(c) : c \in 0..(BootCores - 1)}
      [] OTHER -> {}

\* One call of merry_os_init.
BuildPart ==
    /\ main = "init" /\ built < Len(Parts)
    /\ built' = built + 1
    /\ heap' = [o \in Objects |->
                  IF o \in Sets(NextPart) THEN "live"
                  ELSE IF o \in LeavesUnset(NextPart) THEN "junk" ELSE heap[o]]
    /\ main' = IF built' = Len(Parts) THEN "create" ELSE "init"
    /\ UNCHANGED <<vars, failed, gone, wild>>

\* free(o), if it is not NULL, for each o of S.  To free what was freed before,
\* or never set, is undefined: that ends the process, or does nothing.
Free(h, S) ==
    /\ heap' = [o \in Objects |-> IF o \in S /\ h[o] # "none" THEN "freed" ELSE h[o]]
    /\ wild' = wild \cup {o \in S : h[o] \in {"freed", "junk"}}

OrCrash(next) == main' \in {next} \cup (IF wild' # wild THEN {"crashed"} ELSE {})

\* Where merry_reader_read_file may have failed, by what it leaves of EAT, sections
\* and st_data.  (What it frees itself, the two tables, is InputReader's.)
FileFailures ==
    LET sections == IF "sections" \in FileTables THEN "live" ELSE "junk"
    IN  {<<"junk", "junk", "junk">>, <<"none", "junk", "junk">>, <<"live", "junk", "junk">>}
        \cup {<<"live", s, "junk">> : s \in {"none", "live"}, t \in FileTables \cap {"sections"}}
        \cup {<<"live", sections, d>> : d \in {"none", "freed"}, t \in FileTables \cap {"st_data"}}

LeftBy(part) ==
    IF part = Part("file")
    THEN {[heap EXCEPT ![Part("EAT")] = f[1], ![Part("sections")] = f[2], ![Part("st_data")] = f[3]] :
             f \in FileFailures}
    ELSE {heap}

\* Mutant: the early failures go the way of the late ones.
MutStartFails ==
    /\ main = "init" /\ built < Len(Parts) /\ NextPart \in Early
    /\ failed' = NextPart
    /\ \E h \in LeftBy(NextPart) : Free(h, ReaderBlocks \cup {Part("reader")})
    /\ OrCrash("destroy")
    /\ UNCHANGED <<vars, built, gone>>

\* Up to the data memory, merry_os_init frees the reader (when there is one) and
\* returns.
StartFails ==
    /\ main = "init" /\ built < Len(Parts) /\ NextPart \in Early
    /\ failed' = NextPart
    /\ \E h \in LeftBy(NextPart) : Free(h, ReaderBlocks \cup {Part("reader")})
    /\ OrCrash("exited")
    /\ UNCHANGED <<vars, built, gone>>

\* After it, it calls merry_os_destroy.  When merry_requestHdlr_init has no lock
\* it destroys the queue it made, and leaves req_hdlr.queue pointing there.
PartFails ==
    /\ main = "init" /\ built < Len(Parts) /\ NextPart \notin Early
    /\ failed' = NextPart
    /\ main' = "destroy"
    /\ heap' = [heap EXCEPT ![Part("queue")] =
                  IF NextPart = Part("hdlr_lock") THEN "freed" ELSE @]
    /\ UNCHANGED <<vars, built, gone, wild>>

\* merry_core_init has a core, its condition and its lock, and no registers: it
\* destroys the core, whose stack_mem and ras it has not set, and returns or ends
\* the process there.  (Without ras it destroys a core that has all else and NULL
\* there; without the others it frees what it made: PartFails.)
FailsInCore(next) ==
    /\ failed' = Part("registers")
    /\ wild' = wild \cup CoreBlocks
    /\ main' \in {next, "crashed"}

RegistersFail ==
    /\ main = "init" /\ built < Len(Parts) /\ NextPart[1] = "core"
    /\ FailsInCore("destroy")
    /\ UNCHANGED <<vars, built, heap, gone>>

\* merry_thread_init and merry_create_thread, for the OS's thread.
CreateOSThread ==
    /\ main = "create"
    /\ \/ main' = "join" /\ UNCHANGED failed
       \/ main' = "destroy" /\ failed' = Part("os_thread")
    /\ UNCHANGED <<vars, built, heap, gone, wild>>

\* merry_thread_join.  It assigns the thread's result to its own parameter: main
\* returns 0, whatever the VM's result.
JoinOSThread ==
    /\ main = "join" /\ osPc = "done"
    /\ main' = "destroy"
    /\ UNCHANGED <<vars, built, failed, heap, gone, wild>>

-----------------------------------------------------------------------------
(* merry_os_destroy *)

\* os.core_count, which counts the cores as merry_os_init makes them.
Counted ==
    IF osPc = "boot"
    THEN Cardinality({c \in CoreIds : heap[Core(c)] # "none"})
    ELSE core_count

AfterCores ==
    {Part(name) : name \in {"cores", "threads", "reader", "loader", "hdlr_lock", "queue"}}
        \cup ReaderBlocks

\* Mutant: the loop over the threads leaves the first out, as new_proc_init's does.
MutDestroyOrder ==
    <<{Part("dmem"), Part("imem"), Part("lock"), Part("cond")}>>
    \o [i \in 1..Counted |-> {Core(i - 1)}]
    \o <<AfterCores \cup {Thread(c) : c \in 1..(Counted - 1)}>>

\* What it frees, in order.  What is freed between two moments that a core's
\* thread could tell apart is one step.
DestroyOrder ==
    <<{Part("dmem"), Part("imem"), Part("lock"), Part("cond")}>>
    \o [i \in 1..Counted |-> {Core(i - 1)}]
    \o <<AfterCores \cup {Thread(c) : c \in 0..(Counted - 1)}>>

Freeing == DestroyOrder[gone + 1]

\* Freeing a core begins with its condition variable: pthread_cond_destroy does
\* not return while a thread waits on it.
HeldUp ==
    /\ gone < Len(DestroyOrder)
    /\ \E c \in CoreIds : Core(c) \in Freeing /\ thread[c] = "wait"

\* One step of it.
Destroy ==
    /\ main = "destroy" /\ gone < Len(DestroyOrder) /\ ~HeldUp
    /\ gone' = gone + 1
    /\ Free(heap, Freeing)
    /\ OrCrash("destroy")
    /\ UNCHANGED <<vars, built, failed>>

\* main returns, and the process with every thread in it is over.
Return ==
    /\ main = "destroy" /\ gone = Len(DestroyOrder)
    /\ main' = "exited"
    /\ UNCHANGED <<vars, built, failed, heap, gone, wild>>

-----------------------------------------------------------------------------
(* The VM's threads *)

\* The core merry_os_boot_core is called for in this step, if any.
BootTried ==
    IF osPc = "boot" THEN {c \in CoreIds : c = idx /\ idx < core_count}
    ELSE {c \in CoreIds : c = core_count /\ core_count' = core_count + 1}

\* merry_os_add_core makes a core; merry_os_boot_core makes its MerryThread, and
\* may fail before or after that.
HeapFollows ==
    IF BootTried = {} THEN UNCHANGED heap
    ELSE \E t \in {"none", "live"} :
            heap' = [o \in Objects |->
                       IF \E c \in BootTried : o = Thread(c)
                       THEN IF thread'[o[2]] # "none" THEN "live" ELSE t
                       ELSE IF \E c \in BootTried : o = Core(c) THEN "live"
                       ELSE heap[o]]

\* merry_os_add_core comes back without a core.
NewCoreFailed ==
    osPc = "dispatch" /\ current_req.number = "NEWCORE" /\ osPc' = "signal"
        /\ core_count' = core_count

OSRuns(step) ==
    /\ main = "join"
    /\ step /\ HeapFollows
    /\ \/ UNCHANGED <<main, failed, wild>>
       \/ NewCoreFailed /\ FailsInCore("join")
    /\ UNCHANGED <<built, gone>>

CoreRuns(step) ==
    /\ main \in {"join", "destroy"}
    /\ step
    /\ UNCHANGED mainVars

\* What the next step of a core's thread reads.
Needs(c) ==
    CASE thread[c] = "check" -> {Core(c)}
      [] thread[c] = "resume" -> {Core(c), Part("hdlr_lock")}
      [] thread[c] = "exec" ->
            {Core(c), Part("imem"), Part("dmem"), Part("hdlr_lock"),
             Part("queue"), Part("cond")}
      [] OTHER -> {}

\* A core that reads what main has freed may end the process, or read anything
\* for stop_running, or find its data as it was (CoreRuns).
CoreStrays(c) ==
    /\ main = "destroy"
    /\ \E o \in Needs(c) : heap[o] = "freed"
    /\ \/ main' = "crashed" /\ UNCHANGED vars
       \/ /\ thread[c] = "check" /\ heap[Core(c)] = "freed"
          /\ \E place \in {"exec", "ended"} : thread' = [thread EXCEPT ![c] = place]
          /\ UNCHANGED <<main, hdlrVars, instr, stop_running, status, osVars>>
    /\ UNCHANGED <<built, failed, heap, gone, wild>>

-----------------------------------------------------------------------------

MainStep ==
    \/ ParseOptions \/ BuildPart \/ StartFails \/ PartFails \/ RegistersFail
    \/ CreateOSThread \/ JoinOSThread \/ Destroy \/ Return

\* A crash takes the whole process, and so does main's return.
Over == main \in {"exited", "crashed"} \/ osPc = "crashed"

ProcNext ==
    /\ ~Over
    /\ \/ MainStep
       \/ OSRuns(OSStep)
       \/ \E c \in CoreIds : CoreRuns(CoreStep(c)) \/ CoreStrays(c)

ProcSpec == ProcInit /\ [][ProcNext]_procVars

\* Every thread that can run is scheduled.  Wakeups nobody asked for are the
\* host's, and freed memory owes nothing.
ProcFairness ==
    /\ WF_procVars(~Over /\ MainStep)
    /\ WF_procVars(~Over /\ OSRuns(OSThread))
    /\ \A c \in CoreIds : WF_procVars(~Over /\ CoreRuns(CoreThread(c)))

ProcFairSpec == ProcSpec /\ ProcFairness

-----------------------------------------------------------------------------
(* Properties *)

\* Every variable of main keeps its type, beside those of the VM.
ProcTypeOK ==
    /\ TypeOK
    /\ main \in {"parse", "init", "create", "join", "destroy", "exited", "crashed"}
    /\ built \in 0..Len(Parts)
    /\ failed \in {NoPart, Part("os_thread"), Part("registers")}
                    \cup {Parts[i] : i \in 1..Len(Parts)}
    /\ heap \in [Objects -> {"none", "live", "freed", "junk"}]
    /\ gone \in 0..Len(DestroyOrder)
    /\ wild \subseteq Objects \cup CoreBlocks

\* What the code frees although it may not be there: the reader's tables that the
\* file does not have, in every run, and after a failure those it has not got to;
\* stack_mem and ras of a core without registers; the queue of a handler without a
\* lock; and the core_threads if the loader or the OS's thread cannot be had.
FreedBlindly ==
    {Part(t) : t \in {"sections", "st_data"} \ FileTables}
        \cup (CASE failed = Part("file") -> ReaderBlocks
                [] failed = Part("registers") -> CoreBlocks
                [] failed = Part("hdlr_lock") -> {Part("queue")}
                [] failed \in {Part("loader"), Part("os_thread")} ->
                      {Thread(c) : c \in 0..(BootCores - 1)}
                [] OTHER -> {})

\* Whatever fails when the VM is built or a core is added, however the VM stops and
\* however many cores it has by then, nothing else is freed twice or without
\* having been set.
FreesWhatIsThere == wild \subseteq FreedBlindly

\* When main returns from a VM that was built, the reader's two tables of pages and
\* its file are left, and the cores a failed boot took out of core_count: no more.
LeavesNothingElse ==
    main = "exited" /\ built = Len(Parts) =>
        \A o \in Objects :
            heap[o] = "live" =>
                \/ o \in ReaderKeeps
                \/ active_core_count > core_count /\ o[1] \in {"core", "thread"} /\ o[2] >= core_count

\* While main frees the VM no core begins an instruction, as long as the core
\* itself is there: those that are late are in their last.
LateCoresStop ==
    [][\A c \in CoreIds :
          main = "destroy" /\ heap[Core(c)] = "live" /\ thread[c] = "check" =>
              thread'[c] # "exec" \/ Untold(c)]_procVars

\* A request the OS has taken is answered, whatever it asks for, the OS cannot do or
\* has no case for: its core does not wait for ever, but for a NEWCORE that the OS
\* blocks over.
TakenIsAnswered ==
    \A c \in CoreIds :
        (osPc = "dispatch" /\ current_req.core = c) ~>
            (thread[c] # "wait" \/ osPc = "blocked" \/ Over)

\* The cores told to stop leave their loops, all of them, but for those that posted
\* a request meanwhile or that main freed.
ToldCoresEnd ==
    []<>(\A c \in Started :
            stop_running[c] =>
                thread[c] \in {"ended", "wait"} \/ heap[Core(c)] = "freed" \/ Over)

\* Once the VM begins to stop, the process ends, unless main is held up for
\* good: by a core still waiting for an answer that nobody is left to give.
ProcessEnds ==
    (main = "join" /\ Stopping) ~>
        (Over \/ [](main = "destroy" /\ HeldUp))

=============================================================================
