----------------------------- MODULE InputReader -----------------------------
(***************************************************************************)
(* The reader of the input file (merry_nreader.c): the header, the entry   *)
(* address table (EAT), the instructions, the table of sections (SsT), the *)
(* sections and the symbol table (ST), read in the order of the file, each *)
(* by one function.  What a file says of itself and what is in it may be   *)
(* anything; lengths are in bytes, the header's are words of the machine.  *)
(* What was read is told apart only by its place and by what it is read    *)
(* into: the tables of pages, which the reader gets from the host and      *)
(* hands to the memories, and the blocks it frees itself.                  *)
(***************************************************************************)
EXTENDS Integers, Sequences, FiniteSets, SequencesExt

CONSTANTS Files,     \* bound: the input files
          Words,     \* what a word of the machine holds (2^64)
          PageLen,   \* bytes of a page (4096)
          MaxAlloc,  \* bound: the host has no block of this many bytes
          StackLen,  \* bound: bytes the stack has for the EAT
          Faults     \* what the host may refuse: "OPEN", "MALLOC", "MAP"

HeaderLen == 40
Word == 8

\* What the SsT says of the sections that follow it, and what of them is read.
Skipped(s) == ~s.rim \/ s.type \in {"INFO", "SYMD"}
SectionLens(f) == [i \in DOMAIN f.sections |-> f.sections[i].len]
DataLens(f) == [i \in DOMAIN f.sections |->
                  IF Skipped(f.sections[i]) THEN 0 ELSE f.sections[i].len]
SectionsLen(f) == SumFunction(SectionLens(f))
DataLen(f) == SumFunction(DataLens(f))

ASSUME InputReaderAssumption ==
    /\ Words \in Nat \ {0} /\ PageLen \in Nat \ {0} /\ PageLen % Word = 0
    /\ MaxAlloc \in Nat /\ StackLen \in Nat
    /\ Faults \subseteq {"OPEN", "MALLOC", "MAP"}
    /\ \A f \in Files : /\ f.len \in Nat /\ f.ste \in BOOLEAN
                        /\ f.inst \in 0..(Words - 1) /\ f.eat \in 0..(Words - 1)
                        /\ f.sst \in 0..(Words - 1) /\ f.st \in 0..(Words - 1)
                        /\ SectionsLen(f) \in Nat /\ DataLen(f) \in Nat
                        /\ \A i \in DOMAIN f.sections : f.sections[i].len \in Nat
                        /\ f.sst = 0 => SectionsLen(f) = 0

VARIABLES
    file,     \* the file, none of which changes
    phase,    \* the function that is next, or how it ended
    pos,      \* where in the file reading goes on
    ste_flag,
    inst_page_count, data_page_count, data_len,
    ptr,      \* what each of the reader's pointers is
    eatRead,  \* history: the bytes of the EAT that the file had
    stAt,     \* history: where the ST was read, or -1
    made,     \* history: the pointers that were ever set
    failedAt, \* history: the pointer whose function failed
    badFrees, \* history: the pointers freed when they were no block's
    astray    \* history: memory that is not the reader's was written or unmapped

counts == <<ste_flag, inst_page_count, data_page_count, data_len>>
history == <<eatRead, stAt, made, failedAt, badFrees, astray>>
vars == <<file, phase, pos, counts, ptr, history>>

Pointers == {"EAT", "instructions", "sections", "data", "st_data", "syms"}

\* merry_init_reader sets one of the pointers, syms.
Init ==
    /\ file \in Files
    /\ phase = "init" /\ pos = 0
    /\ ste_flag = FALSE /\ inst_page_count = 0 /\ data_page_count = 0 /\ data_len = 0
    /\ ptr = [p \in Pointers |-> IF p = "syms" THEN "null" ELSE "junk"]
    /\ eatRead = 0 /\ stAt = -1 /\ made = {} /\ failedAt = "none"
    /\ badFrees = {} /\ astray = FALSE

-----------------------------------------------------------------------------

Left == file.len - pos

\* Mutant: there is always a page that is not full.
MutPages(n) == n \div PageLen + 1

Pages(n) == n \div PageLen + (IF n % PageLen > 0 THEN 1 ELSE 0)
HeaderTotal == (file.inst + file.eat + file.sst + file.st) % Words

Stays == UNCHANGED <<pos, counts, ptr, history>>
Fail(p) == failedAt' = p /\ phase' = "failed"
FailWithMem(p) == failedAt' = p /\ phase' = "return_all_mem"

\* The host refuses a block: it has no more, or none of this size.
Refuses(n) == "MALLOC" \in Faults \/ n >= MaxAlloc
Gives(n) == n < MaxAlloc
Make(p) == ptr' = [ptr EXCEPT ![p] = "live"] /\ made' = made \cup {p}

\* No reader, or no such file.
InitFails ==
    /\ phase = "init" /\ Faults \cap {"OPEN", "MALLOC"} # {}
    /\ phase' = "ended"
    /\ UNCHANGED file /\ Stays

InitReader ==
    /\ phase = "init" /\ phase' = "header"
    /\ UNCHANGED file /\ Stays

\* merry_reader_is_file_fit_to_read, merry_reader_read_header and
\* merry_reader_validate_header_info.  Only a file whose first three bytes are all
\* wrong is none of Merry's.
HeaderBad ==
    \/ file.len < HeaderLen
    \/ file.magic = "other"
    \/ HeaderTotal > file.len
    \/ file.inst = 0 \/ file.inst % Word # 0
    \/ file.sst % (2 * Word) # 0 \/ file.eat % Word # 0

HeaderFails ==
    /\ phase = "header" /\ HeaderBad
    /\ Fail("none")
    /\ UNCHANGED <<file, pos, counts, ptr, eatRead, stAt, made, badFrees, astray>>

\* Mutant: the header of the format before this one.
MutReadHeader ==
    /\ phase = "header" /\ ~HeaderBad
    /\ phase' = "eat" /\ pos' = 32
    /\ ste_flag' = (file.ste /\ file.st # 0)
    /\ UNCHANGED <<file, inst_page_count, data_page_count, data_len, ptr, history>>

ReadHeader ==
    /\ phase = "header" /\ ~HeaderBad
    /\ phase' = "eat" /\ pos' = HeaderLen
    /\ ste_flag' = (file.ste /\ file.st # 0)
    /\ UNCHANGED <<file, inst_page_count, data_page_count, data_len, ptr, history>>

\* The fread is not checked; an empty table is one entry, 0.
ReadEAT ==
    /\ phase = "eat" /\ Gives(file.eat)
    /\ Make("EAT")
    /\ IF file.eat > StackLen
       THEN phase' = "crashed" /\ UNCHANGED <<pos, eatRead>>
       ELSE LET got == IF file.eat < Left THEN file.eat ELSE Left
            IN  phase' = "instructions" /\ pos' = pos + got /\ eatRead' = got
    /\ UNCHANGED <<file, counts, stAt, failedAt, badFrees, astray>>

EATFails ==
    /\ phase = "eat" /\ Refuses(file.eat)
    /\ ptr' = [ptr EXCEPT !["EAT"] = "null"]
    /\ Fail("EAT")
    /\ UNCHANGED <<file, pos, counts, eatRead, stAt, made, badFrees, astray>>

\* merry_reader_get_mem_from_os: the table cannot be had, or one of its pages, in
\* which case the table is freed, and those of its entries that nothing was ever
\* stored in are given back to the host.
GetMemFails(p, count) ==
    /\ \/ /\ Refuses(Word * count)
          /\ ptr' = [ptr EXCEPT ![p] = "null"] /\ UNCHANGED <<made, astray>>
       \/ /\ "MAP" \in Faults /\ count > 0 /\ Gives(Word * count)
          /\ ptr' = [ptr EXCEPT ![p] = "freed"] /\ made' = made \cup {p}
          /\ astray' \in {astray, astray \/ count > 2}
    /\ FailWithMem(p)
    /\ UNCHANGED <<file, pos, eatRead, stAt, badFrees>>

InstructionsGetMemFails ==
    /\ phase = "instructions"
    /\ inst_page_count' = Pages(file.inst)
    /\ GetMemFails("instructions", Pages(file.inst))
    /\ UNCHANGED <<ste_flag, data_page_count, data_len>>

\* Mutant: the instructions that do not fill a page are not counted when read.
MutWholeInstructions == Left >= file.inst - (file.inst % PageLen)

WholeInstructions == Left >= file.inst

\* All pages are stored in the table's first entry, so that the second page's
\* instructions go wherever the second entry points.
ReadInstructions ==
    /\ phase = "instructions" /\ Gives(Word * Pages(file.inst))
    /\ inst_page_count' = Pages(file.inst)
    /\ Make("instructions")
    /\ astray' = (astray \/ (inst_page_count' > 1 /\ Left > PageLen))
    /\ \/ /\ WholeInstructions /\ phase' = "sst" /\ UNCHANGED failedAt
       \/ (~WholeInstructions \/ astray') /\ FailWithMem("instructions")
       \/ astray' /\ phase' = "crashed" /\ UNCHANGED failedAt
    /\ pos' = IF WholeInstructions THEN pos + file.inst ELSE file.len
    /\ UNCHANGED <<file, ste_flag, data_page_count, data_len, eatRead, stAt, badFrees>>

NoSsT ==
    /\ phase = "sst" /\ file.sst = 0
    /\ phase' = "st"
    /\ UNCHANGED file /\ Stays

SectionsBad == \E i \in DOMAIN file.sections : file.sections[i].len % Word # 0
TooLong == (HeaderTotal + SectionsLen(file)) % Words > file.len

\* data_len counts the sections that will be read into memory.
ReadSsT ==
    /\ phase = "sst" /\ file.sst # 0 /\ Gives(file.sst)
    /\ Make("sections")
    /\ IF Left < file.sst \/ SectionsBad \/ TooLong
       THEN FailWithMem("sections") /\ UNCHANGED data_len
       ELSE /\ phase' = "sections" /\ UNCHANGED failedAt
            /\ data_len' = DataLen(file) % Words
    /\ pos' = IF Left < file.sst THEN file.len ELSE pos + file.sst
    /\ UNCHANGED <<file, ste_flag, inst_page_count, data_page_count, eatRead, stAt, badFrees, astray>>

SsTFails ==
    /\ phase = "sst" /\ file.sst # 0 /\ Refuses(file.sst)
    /\ ptr' = [ptr EXCEPT !["sections"] = "null"]
    /\ FailWithMem("sections")
    /\ UNCHANGED <<file, pos, counts, eatRead, stAt, made, badFrees, astray>>

SectionsGetMemFails ==
    /\ phase = "sections"
    /\ data_page_count' = Pages(data_len)
    /\ GetMemFails("data", Pages(data_len))
    /\ UNCHANGED <<ste_flag, inst_page_count, data_len>>

\* r->data is the table of pages, and the sections are read into it, not into the
\* pages.  What the reader skips it does not read.
ReadSections ==
    /\ phase = "sections" /\ Gives(Word * Pages(data_len))
    /\ data_page_count' = Pages(data_len)
    /\ Make("data")
    /\ astray' = (astray \/ DataLen(file) > 0)
    /\ IF Left < DataLen(file)
       THEN FailWithMem("data") /\ pos' = file.len
       ELSE /\ phase' \in {"st"} \cup (IF astray' THEN {"crashed"} ELSE {})
            /\ pos' = pos + DataLen(file) /\ UNCHANGED failedAt
    /\ UNCHANGED <<file, ste_flag, inst_page_count, data_len, eatRead, stAt, badFrees>>

Accept ==
    /\ phase = "st" /\ ~ste_flag
    /\ phase' = "accepted"
    /\ UNCHANGED file /\ Stays

\* Eight bytes, the size of st_len, are allocated for the ST.
ReadST ==
    /\ phase = "st" /\ ste_flag /\ Left >= file.st
    /\ Make("st_data")
    /\ astray' = (astray \/ file.st > Word)
    /\ phase' \in {"accepted"} \cup (IF file.st > Word THEN {"crashed"} ELSE {})
    /\ stAt' = pos /\ pos' = pos + file.st
    /\ UNCHANGED <<file, counts, eatRead, failedAt, badFrees>>

\* If it is the file that is short, st_data is freed and keeps its value.
STFails ==
    /\ phase = "st" /\ ste_flag
    /\ \/ Refuses(Word) /\ ptr' = [ptr EXCEPT !["st_data"] = "null"] /\ UNCHANGED <<pos, made, astray>>
       \/ /\ Left < file.st
          /\ ptr' = [ptr EXCEPT !["st_data"] = "freed"] /\ made' = made \cup {"st_data"}
          /\ astray' = (astray \/ Left > Word) /\ pos' = file.len
    /\ FailWithMem("st_data")
    /\ UNCHANGED <<file, counts, eatRead, stAt, badFrees>>

-----------------------------------------------------------------------------

\* free(p) for each of S that is not null: what is junk may be null by luck.
Free(S) ==
    \E lucky \in SUBSET {p \in S : ptr[p] = "junk"} :
       LET freed == {p \in S \ lucky : ptr[p] # "null"}
       IN  /\ ptr' = [p \in Pointers |-> IF p \in freed THEN "freed" ELSE ptr[p]]
           /\ badFrees' = badFrees \cup {p \in freed : ptr[p] # "live"}

OrCrash(next) ==
    phase' \in {next} \cup (IF badFrees' # {} \/ astray' THEN {"crashed"} ELSE {})

\* The pages of a table of several, or of one that was read over or freed, are
\* not what its entries say.
ReturnAllMem ==
    /\ phase = "return_all_mem"
    /\ LET tables == {p \in {"instructions", "data"} :
                        (IF p = "data" THEN data_page_count ELSE inst_page_count) > 0}
       IN  IF \E p \in tables : ptr[p] = "null"
           THEN phase' = "crashed" /\ UNCHANGED <<ptr, badFrees, astray>>
           ELSE /\ Free(tables)
                /\ astray' = (astray \/ inst_page_count > 1 \/ data_page_count > 0
                                     \/ \E p \in tables : ptr[p] = "freed")
                /\ OrCrash("failed")
    /\ UNCHANGED <<file, pos, counts, eatRead, stAt, made, failedAt>>

\* Mutant: everything that the reader ever allocated is freed.
MutDestroyReader ==
    /\ phase \in {"failed", "accepted"}
    /\ Free(Pointers)
    /\ UNCHANGED <<file, pos, counts, eatRead, stAt, made, failedAt, astray>>
    /\ OrCrash("ended")

\* The pages and their tables are the memories' by now, or have been returned.
DestroyReader ==
    /\ phase \in {"failed", "accepted"}
    /\ Free(Pointers \ {"instructions", "data"})
    /\ UNCHANGED <<file, pos, counts, eatRead, stAt, made, failedAt, astray>>
    /\ OrCrash("ended")

Next ==
    \/ InitFails \/ InitReader \/ HeaderFails \/ ReadHeader
    \/ EATFails \/ ReadEAT
    \/ InstructionsGetMemFails \/ ReadInstructions
    \/ NoSsT \/ SsTFails \/ ReadSsT
    \/ SectionsGetMemFails \/ ReadSections
    \/ Accept \/ STFails \/ ReadST
    \/ ReturnAllMem \/ DestroyReader

Spec == Init /\ [][Next]_vars

-----------------------------------------------------------------------------
(* Properties *)

\* Every variable has its type, and reading never leaves the file.
ReaderTypeOK ==
    /\ file \in Files
    /\ phase \in {"init", "header", "eat", "instructions", "sst", "sections", "st", "accepted",
                  "return_all_mem", "failed", "ended", "crashed"}
    /\ pos \in 0..file.len
    /\ ste_flag \in BOOLEAN /\ astray \in BOOLEAN
    /\ {inst_page_count, data_page_count, data_len} \subseteq Nat
    /\ ptr \in [Pointers -> {"junk", "null", "live", "freed"}]
    /\ eatRead \in 0..file.eat /\ stAt \in -1..file.len
    /\ {made, badFrees} \subseteq SUBSET Pointers /\ failedAt \in Pointers \cup {"none"}

\* Whatever the header says of the lengths, a sum that wraps or leaves the header
\* out included, a file that is accepted had all of the EAT, whose fread nobody
\* checks, of the instructions, the SsT and the ST.
AcceptedIsWhole ==
    phase = "accepted" =>
        /\ eatRead = file.eat
        /\ HeaderLen + file.eat + file.inst + file.sst <= pos /\ pos <= file.len
        /\ ste_flag => stAt # -1

\* The symbol table that is read is the file's, which follows the last section,
\* unless the reader has skipped a section: it does not move on over it.
SymbolsAreTheFiles ==
    stAt = -1 \/ stAt = HeaderLen + file.eat + file.inst + file.sst + SectionsLen(file)
             \/ \E i \in DOMAIN file.sections :
                   Skipped(file.sections[i]) /\ file.sections[i].len > 0

\* Wherever reading fails, what is freed then and in the end is freed once and was
\* allocated: but for pointers that were never set, and for the pages' table and
\* the ST if it was there that reading failed.
FreesAreTheirs ==
    \A p \in badFrees : p \notin made \/ failedAt = p

\* A file of one page of instructions, without data and with a short EAT and ST,
\* is read without touching memory that is not the reader's, exactly full page
\* included, unless a free or the table of pages went wrong before.
ReadsInBounds ==
    astray \/ phase = "crashed" =>
        \/ file.inst > PageLen \/ DataLen(file) > 0
        \/ file.eat > StackLen \/ file.st > Word
        \/ badFrees # {} \/ ptr["instructions"] = "null"

=============================================================================
