------------------------------ MODULE OSServices ------------------------------
(***************************************************************************)
(* The services behind the requests (merry_os.c): dynamic libraries        *)
(* (merry_dynl.c) and files (merry_fio.c).  The OS thread serves one       *)
(* request at a time while the core that made it waits, so a service is    *)
(* one step; the cores share the loader's table and the host's files.      *)
(* A service that fails hard panics: that the panic is then the next thing *)
(* the OS takes, and ends the VM, is MerryVM's PanicIsNext.                *)
(***************************************************************************)
EXTENDS Integers, Sequences, FiniteSets

CONSTANTS Cores,
          Programs,     \* bound: the sets of services a program uses
          Libs,         \* paths of libraries
          InitEntries,  \* entries the loader begins with (merry_os_init)
          MaxEntries,   \* bound: entries it may grow to
          Fds,          \* bound: the host's file descriptors
          VMFds,        \* those of the VM itself: its streams, its input file
          Modes,        \* bound: the modes files are opened in
          FileLen,      \* bound: the length of the file
          Faults,       \* what the host may refuse: "OPEN", "REALLOC"
          None

ASSUME OSServicesAssumption ==
    /\ InitEntries \in Nat \ {0} /\ MaxEntries \in Nat /\ InitEntries <= MaxEntries
    /\ Fds \subseteq Nat /\ VMFds \subseteq Fds /\ Modes \subseteq 0..3
    /\ FileLen \in Nat /\ Faults \subseteq {"OPEN", "REALLOC"}
    /\ None \notin Libs

VARIABLES
    program, \* the services in use
    phase,   \* "running", "stopping" (merry_os_destroy is next), "closed", "crashed"
    entries, closed_entry_count,
    refs,    \* host: how often each library is open
    answer,  \* history: the last DYNL's handle and path, or the last DYNCALL's and library
    fds,     \* host: the open descriptors
    size,    \* host: the file's length
    Mb,      \* each core's register, where a file's handle is kept
    origin   \* history: what a core knows of it: "given" by FOPEN, "closed" since, "other"

loaderVars == <<entries, closed_entry_count, refs, answer>>
fileVars == <<fds, size, Mb, origin>>
vars == <<program, phase, loaderVars, fileVars>>

NoFile == [by |-> "nobody", mode |-> 0, off |-> 0]
VMFile == [by |-> "vm", mode |-> 0, off |-> 0]
Opened(mode) == [by |-> "program", mode |-> mode, off |-> 0]

\* The names are what malloc left there.
Init ==
    /\ program \in Programs
    /\ phase = "running"
    /\ entries \in [1..InitEntries -> [name : Libs \cup {None}, lib : {None}, handle_open : {TRUE}]]
    /\ closed_entry_count = InitEntries
    /\ refs = [l \in Libs |-> 0]
    /\ answer = None
    /\ fds = [d \in Fds |-> IF d \in VMFds THEN VMFile ELSE NoFile]
    /\ size = FileLen
    /\ Mb = [c \in Cores |-> 0] /\ origin = [c \in Cores |-> "other"]

Uses(service) == phase = "running" /\ service \in program

\* merry_requestHdlr_panic: the OS stops before it serves anything else.
Panic == phase' = "stopping"

-----------------------------------------------------------------------------
(* The loader.  handle_open says that the entry is free. *)

DynEntry == [name : Libs \cup {None}, lib : Libs \cup {None}, handle_open : BOOLEAN]

Handles == 0..(MaxEntries - 1)
Entry(h) == entries[h + 1]
entry_count == Len(entries)

\* Mutant: the last entry is not looked at.
MutNamed(n) == {h \in 0..(entry_count - 2) : Entry(h).name = n}

\* merry_loader_check_entry looks at every entry's name, free or not.
Named(n) == {h \in 0..(entry_count - 1) : Entry(h).name = n}

InUse == {h \in 0..(entry_count - 1) : ~Entry(h).handle_open}
Free == {h \in 0..(entry_count - 1) : Entry(h).handle_open}
LowestOf(S) == {h \in S : \A k \in S : h <= k}

Loaded(n) == [name |-> n, lib |-> n, handle_open |-> FALSE]

Answer(h, n) == answer' = <<"DYNL", h, n>>

\* The name's address is not in the data memory, or the panic comes later.
DynlPanics ==
    /\ Uses("DYNL")
    /\ Panic
    /\ UNCHANGED <<program, loaderVars, fileVars>>

DynlKnown(n) ==
    /\ Uses("DYNL")
    /\ \E h \in LowestOf(Named(n)) : Answer(h, n)
    /\ UNCHANGED <<program, phase, entries, closed_entry_count, refs, fileVars>>

\* dlopen fails: the entry stays free, the panic says MERRY_DYNL_FAILED.
DynlFails(n) ==
    /\ Uses("DYNL") /\ "OPEN" \in Faults
    /\ Named(n) = {} /\ closed_entry_count > 0
    /\ DynlPanics

DynlLoads(n) ==
    /\ Uses("DYNL") /\ Named(n) = {} /\ closed_entry_count > 0
    /\ \E h \in LowestOf(Free) :
          /\ entries' = [entries EXCEPT ![h + 1] = Loaded(n)]
          /\ Answer(h, n)
    /\ closed_entry_count' = closed_entry_count - 1
    /\ refs' = [refs EXCEPT ![n] = @ + 1]
    /\ UNCHANGED <<program, phase, fileVars>>

\* What may be found in an entry that the table no longer has room for.
Overwritten == [name : {None}, lib : {None}, handle_open : BOOLEAN]

\* No entry is free: merry_loader_add_entry.  realloc is asked for entry_count + 1
\* bytes, which is room for no entry at all.
Grow(n, new) ==
    /\ Uses("DYNL") /\ Named(n) = {} /\ closed_entry_count = 0
    /\ entry_count < MaxEntries
    /\ \E S \in SUBSET (1..entry_count) :
          \E junk \in [S -> Overwritten] :
             entries' = [i \in 1..(entry_count + 1) |->
                           IF i = entry_count + 1 THEN new
                           ELSE IF i \in S THEN junk[i] ELSE entries[i]]

\* Mutant: the new entry is not counted as free before it is used.
MutDynlGrows(n) ==
    /\ Grow(n, Loaded(n))
    /\ closed_entry_count' = closed_entry_count - 1
    /\ Answer(entry_count, n)
    /\ refs' = [refs EXCEPT ![n] = @ + 1]
    /\ UNCHANGED <<program, phase, fileVars>>

DynlGrows(n) ==
    /\ Grow(n, Loaded(n))
    /\ Answer(entry_count, n)
    /\ refs' = [refs EXCEPT ![n] = @ + 1]
    /\ UNCHANGED <<program, phase, closed_entry_count, fileVars>>

\* dlopen fails for the new entry, in which nothing was initialised.
DynlGrowsAndFails(n) ==
    /\ "OPEN" \in Faults
    /\ \E junk \in Overwritten : Grow(n, junk)
    /\ closed_entry_count' = closed_entry_count + 1
    /\ Panic
    /\ UNCHANGED <<program, refs, answer, fileVars>>

\* realloc fails, and its result, null, was the only pointer to the entries.
DynlGrowFails(n) ==
    /\ Uses("DYNL") /\ "REALLOC" \in Faults
    /\ Named(n) = {} /\ closed_entry_count = 0
    /\ entries' = <<>>
    /\ Panic
    /\ UNCHANGED <<program, closed_entry_count, refs, answer, fileVars>>

\* Mutant: the entry is not counted as free again.
MutDynul(h) ==
    /\ Uses("DYNUL") /\ h < entry_count /\ ~Entry(h).handle_open /\ Entry(h).lib # None
    /\ entries' = [entries EXCEPT ![h + 1].handle_open = TRUE]
    /\ refs' = [refs EXCEPT ![Entry(h).lib] = @ - 1]
    /\ UNCHANGED <<program, phase, closed_entry_count, answer, fileVars>>

\* merry_loader_unloadLib; a handle that is out of range or free is ignored.
Dynul(h) ==
    /\ Uses("DYNUL") /\ h < entry_count /\ ~Entry(h).handle_open /\ Entry(h).lib # None
    /\ entries' = [entries EXCEPT ![h + 1].handle_open = TRUE]
    /\ closed_entry_count' = closed_entry_count + 1
    /\ refs' = [refs EXCEPT ![Entry(h).lib] = @ - 1]
    /\ UNCHANGED <<program, phase, answer, fileVars>>

\* Neither the library nor the other cores that loaded it are asked.
Dyncall(h) ==
    /\ Uses("DYNCALL") /\ h < entry_count /\ ~Entry(h).handle_open /\ Entry(h).lib # None
    /\ answer' = <<"DYNCALL", h, Entry(h).lib>>
    /\ UNCHANGED <<program, phase, entries, closed_entry_count, refs, fileVars>>

\* No such handle or function, or addresses that are not in the data memory.
DyncallPanics ==
    /\ Uses("DYNCALL")
    /\ Panic
    /\ UNCHANGED <<program, loaderVars, fileVars>>

\* An entry that was overwritten is taken for a library's, or there is no free
\* entry where one is counted.
UseOverwritten ==
    /\ \/ /\ Uses("DYNUL") \/ Uses("DYNCALL")
          /\ \E h \in InUse : Entry(h).lib = None
       \/ Uses("DYNL") /\ closed_entry_count > 0 /\ Free = {}
    /\ phase' = "crashed"
    /\ UNCHANGED <<program, loaderVars, fileVars>>

\* merry_loader_close closes what is in use.  After DynlGrowFails it reads
\* entries through the null pointer, and closing what was overwritten may end
\* the process as well.
LoaderClose ==
    /\ phase = "stopping"
    /\ \/ /\ entries # <<>>
          /\ phase' = "closed"
          /\ refs' = [l \in Libs |->
                        IF closed_entry_count = entry_count THEN refs[l]
                        ELSE refs[l] - Cardinality({h \in InUse : Entry(h).lib = l})]
       \/ /\ entries = <<>> \/ \E h \in InUse : Entry(h).lib = None
          /\ phase' = "crashed" /\ UNCHANGED refs
    /\ UNCHANGED <<program, entries, closed_entry_count, answer, fileVars>>

\* The program ends, or a core fails for another reason.
Stop ==
    /\ phase = "running" /\ phase' = "stopping"
    /\ UNCHANGED <<program, loaderVars, fileVars>>

-----------------------------------------------------------------------------
(* Files.  A handle is the host's descriptor, and nobody checks whose. *)

FreeFds == {d \in Fds : fds[d] = NoFile}

\* Mutant: the descriptor is not stored.
MutFopen(c, mode) ==
    /\ Uses("FOPEN")
    /\ \E d \in LowestOf(FreeFds) : fds' = [fds EXCEPT ![d] = Opened(mode)]
    /\ size' = IF mode = 3 THEN 0 ELSE size
    /\ Mb' = [Mb EXCEPT ![c] = mode]
    /\ origin' = [origin EXCEPT ![c] = "given"]
    /\ UNCHANGED <<program, phase, loaderVars>>

\* The mode comes in Mb and the descriptor goes there.  Mode 3 truncates.
Fopen(c, mode) ==
    /\ Uses("FOPEN")
    /\ \E d \in LowestOf(FreeFds) : /\ fds' = [fds EXCEPT ![d] = Opened(mode)]
                                   /\ Mb' = [Mb EXCEPT ![c] = d]
    /\ size' = IF mode = 3 THEN 0 ELSE size
    /\ origin' = [origin EXCEPT ![c] = "given"]
    /\ UNCHANGED <<program, phase, loaderVars>>

\* The answer in Ma is 1, and the mode stays in Mb: a number that is one of the
\* VM's own descriptors.
FopenFails(c, mode) ==
    /\ Uses("FOPEN")
    /\ "OPEN" \in Faults \/ FreeFds = {}
    /\ Mb' = [Mb EXCEPT ![c] = mode]
    /\ origin' = [origin EXCEPT ![c] = "other"]
    /\ UNCHANGED <<program, phase, loaderVars, fds, size>>

\* Every core that has this handle has lost its file.
Fclose(c) ==
    /\ Uses("FCLOSE") /\ Mb[c] \in Fds
    /\ fds' = [fds EXCEPT ![Mb[c]] = NoFile]
    /\ origin' = [d \in Cores |-> IF origin[d] = "given" /\ Mb[d] = Mb[c]
                                  THEN "closed" ELSE origin[d]]
    /\ UNCHANGED <<program, phase, loaderVars, size, Mb>>

Smaller(m, n) == IF m < n THEN m ELSE n
Larger(m, n) == IF m < n THEN n ELSE m

\* read(2) of n bytes; what the streams and the input file do is left open.
\* Modes 2 and 3 (O_APPEND, O_TRUNC) lack O_WRONLY: they open for reading.
ReadFile(c, n) ==
    /\ Mb[c] \in Fds
    /\ LET f == fds[Mb[c]]
       IN  fds' = IF f.by # "program" \/ f.mode = 1 THEN fds
                  ELSE [fds EXCEPT ![Mb[c]].off = Larger(@, Smaller(@ + n, size))]
    /\ UNCHANGED <<program, phase, loaderVars, size, Mb, origin>>

Fread(c, n) == Uses("FREAD") /\ ReadFile(c, n)

\* FEOF reads a byte, and leaves the file behind it.
Feof(c) == Uses("FEOF") /\ ReadFile(c, 1)

Fwrite(c, n) ==
    /\ Uses("FWRITE") /\ Mb[c] \in Fds
    /\ LET f == fds[Mb[c]]
           end == Smaller(f.off + n, FileLen)
       IN  IF f.by # "program" \/ f.mode # 1 THEN UNCHANGED <<fds, size>>
           ELSE /\ fds' = [fds EXCEPT ![Mb[c]].off = end]
                /\ size' = Larger(size, end)
    /\ UNCHANGED <<program, phase, loaderVars, Mb, origin>>

Rewind(c) ==
    /\ Uses("REWIND") /\ Mb[c] \in Fds
    /\ fds' = IF fds[Mb[c]] = NoFile THEN fds ELSE [fds EXCEPT ![Mb[c]].off = 0]
    /\ UNCHANGED <<program, phase, loaderVars, size, Mb, origin>>

\* The one handle that is refused, MERRY_FILEHANDLE_NULL.
FilePanics(c) ==
    /\ \E service \in {"FCLOSE", "FREAD", "FWRITE", "FEOF", "REWIND"} : Uses(service)
    /\ Mb[c] = -1
    /\ Panic
    /\ UNCHANGED <<program, loaderVars, fileVars>>

\* The program: a handle is passed on through memory, or Mb is set to -1.
SetMb(c) ==
    /\ Uses("FOPEN")
    /\ \/ \E d \in Cores : /\ Mb' = [Mb EXCEPT ![c] = Mb[d]]
                           /\ origin' = [origin EXCEPT ![c] = origin[d]]
       \/ /\ Mb' = [Mb EXCEPT ![c] = -1]
          /\ origin' = [origin EXCEPT ![c] = "other"]
    /\ UNCHANGED <<program, phase, loaderVars, fds, size>>

-----------------------------------------------------------------------------

LibraryService ==
    \/ DynlPanics \/ DyncallPanics
    \/ \E n \in Libs : \/ DynlKnown(n) \/ DynlLoads(n) \/ DynlGrows(n)
                       \/ DynlFails(n) \/ DynlGrowsAndFails(n) \/ DynlGrowFails(n)
    \/ \E h \in Handles : Dynul(h) \/ Dyncall(h)
    \/ UseOverwritten

FileService ==
    \E c \in Cores :
       \/ \E mode \in Modes : Fopen(c, mode) \/ FopenFails(c, mode)
       \/ \E n \in 1..FileLen : Fread(c, n) \/ Fwrite(c, n)
       \/ Fclose(c) \/ Feof(c) \/ Rewind(c) \/ FilePanics(c) \/ SetMb(c)

Next == LibraryService \/ FileService \/ Stop \/ LoaderClose

Spec == Init /\ [][Next]_vars

-----------------------------------------------------------------------------
(* Properties *)

\* Every variable has its type.
ServicesTypeOK ==
    /\ program \in Programs /\ phase \in {"running", "stopping", "closed", "crashed"}
    /\ entry_count = 0 \/ entry_count \in InitEntries..MaxEntries
    /\ \A h \in 0..(entry_count - 1) : Entry(h) \in DynEntry
    /\ closed_entry_count \in 0..MaxEntries
    /\ refs \in [Libs -> Nat]
    /\ size \in 0..FileLen
    /\ \A d \in Fds : fds[d].off \in 0..FileLen
    /\ \A c \in Cores : Mb[c] \in {-1} \cup Fds \cup 0..3
    /\ origin \in [Cores -> {"given", "closed", "other"}]

Grown == entry_count # InitEntries

FreeAreCounted == closed_entry_count = Cardinality(Free)

OpenedOnce ==
    \A l \in Libs : /\ refs[l] = Cardinality({h \in InUse : Entry(h).lib = l})
                    /\ refs[l] <= 1

ClosedAtEnd == \A l \in Libs : refs[l] = 0

\* The loader's two counts, its entries and the host agree after any sequence of
\* loads, failed loads and unloads by all cores: the free entries are as many as
\* are counted, each library the host has open is open once, in one entry, and
\* all are closed when the VM is gone, which the counts decide.  That ends with
\* the first library that needs a third entry.
TableAgreesWithHost ==
    ~Grown => /\ phase = "running" => FreeAreCounted /\ OpenedOnce
              /\ phase = "closed" => ClosedAtEnd

\* A handle that FOPEN answered, and that nobody has closed since, reaches a file
\* that the program opened: never one of the VM's own streams or its input file,
\* whose descriptors have the numbers that a failed FOPEN leaves in Mb.
GivenHandlesReachFiles ==
    \A c \in Cores : origin[c] = "given" => Mb[c] \in Fds /\ fds[Mb[c]].by = "program"

\* The loader keeps what the documentation promises of handles, but for
\* libraries that were unloaded and for the third entry.
Library == INSTANCE LibraryTable
             WITH FirstHandles <- 0..(InitEntries - 1),
                  broken <- Grown,
                  libs <- [h \in Handles |->
                             IF Grown THEN None
                             ELSE IF h \in InUse /\ phase # "closed" THEN Entry(h).lib ELSE None],
                  last <- [h \in Handles |->
                             IF Grown \/ h >= entry_count THEN None ELSE Entry(h).name]

LibrarySpec == Library!Spec

=============================================================================
