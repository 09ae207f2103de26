------------------------------ MODULE DataMemory ------------------------------
(***************************************************************************)
(* The data memory that all cores share (merry_dmemory.c): a table of      *)
(* pages, which the OS thread reallocates when a program asks for another  *)
(* page (_REQ_MEM) while the cores read and write without any lock.        *)
(*                                                                         *)
(* An access is several steps: it reads number_of_pages, then the pointer  *)
(* to the table, then the table's entry, and then moves the cells.  A cell *)
(* is a byte; an access of one unit is the LOADs and STOREs of all widths, *)
(* plain or atomic, which the compiler makes one instruction of the host,  *)
(* indivisible where the address is a multiple of the width.  One of them  *)
(* is by itself: the atomic load of a dword takes the address of the       *)
(* page's pointer where it means the pointer, so what it loads is that     *)
(* pointer, or what the host has so many pointers further on.              *)
(*                                                                         *)
(* MerryDAddress has an unsigned int for the number of the page: of an     *)
(* address beyond that many pages, only the remainder is left.             *)
(*                                                                         *)
(* A core that uses the null pointer, an entry that is no page, or a table *)
(* that realloc has freed goes astray, and the model stops following it;   *)
(* a freed table may also still hold what it held.                         *)
(***************************************************************************)
EXTENDS Integers, Sequences

CONSTANTS Cores,
          PageSize,    \* _MERRY_MEMORY_ADDRESSES_PER_PAGE_
          PageNumbers, \* how many numbers an unsigned int has for a page
          InitPages,   \* number_of_pages the input file gives
          MaxPages,    \* bound: no page is asked for beyond it
          Widths,      \* widths of the accesses of one unit
          Lengths,     \* bound: lengths of the transfers, SIN and SOUT
          Addresses,   \* bound: where accesses begin
          Inputs,      \* bound: what is stored, sequences of cells
          MaxMoves,    \* bound: how often realloc moves the table
          Cells,       \* what a cell may hold
          Faults       \* what the host may do: fail to give a "PAGE"'s malloc, its
                       \* "MMAP" or the table's "REALLOC", and "MOVE" the table

ASSUME DataMemoryAssumption ==
    /\ PageSize \in Nat \ {0} /\ PageNumbers \in Nat \ {0} /\ MaxPages <= PageNumbers
    /\ InitPages \in Nat \ {0} /\ MaxPages \in Nat /\ InitPages <= MaxPages
    /\ Widths \subseteq 1..PageSize /\ Lengths \subseteq Nat
    /\ Addresses \subseteq Nat /\ Inputs \subseteq Seq(Cells)
    /\ MaxMoves \in Nat /\ 0 \in Cells
    /\ Faults \subseteq {"PAGE", "MMAP", "REALLOC", "MOVE"}

Pages == 0..(MaxPages - 1)
Offsets == 0..(PageSize - 1)

\* Tables are told apart by how often realloc moved them.
NoTable == -1

VARIABLES
    number_of_pages,
    pages,          \* memory->pages: a table, or NoTable
    live,           \* the table that is allocated
    entries,        \* how many of its first entries are pages
    unmapped,       \* the pages among them whose address_space is MAP_FAILED
    address_space,  \* the cells of each page
    os,             \* where the OS thread is in merry_dmemory_add_new_page
    jobs            \* what each core is doing

shared == <<number_of_pages, pages, live, entries, unmapped, address_space, os>>
vars == <<shared, jobs>>

AtRest(kind) ==
    [at |-> "rest", kind |-> kind, asked |-> 0, addr |-> 0, len |-> 0, page |-> 0,
     offset |-> 0, piece |-> 0, full |-> 0, remaining |-> 0, done |-> 0, array |-> <<>>,
     table |-> NoTable]

Units == {"load", "store", "atm_loadd"}
Unit(j) == j.kind \in Units
Stores(j) == j.kind \in {"store", "sin"}

\* merry_dmemory_init
Init ==
    /\ number_of_pages = InitPages /\ entries = InitPages
    /\ pages = 0 /\ live = 0 /\ unmapped = {}
    /\ address_space = [p \in Pages |-> [o \in Offsets |-> 0]]
    /\ os = [at |-> "idle", got |-> NoTable]
    /\ jobs = [c \in Cores |-> AtRest("ok")]

-----------------------------------------------------------------------------
(* merry_dmemory_add_new_page, on the OS thread *)

\* realloc has done its work; memory->pages is what it was.
GrowRealloc ==
    /\ os.at = "idle" /\ number_of_pages < MaxPages
    /\ \/ os' = [at |-> "assign", got |-> live] /\ UNCHANGED live
       \/ /\ "MOVE" \in Faults /\ live < MaxMoves
          /\ os' = [at |-> "assign", got |-> live + 1] /\ live' = live + 1
       \/ /\ "REALLOC" \in Faults
          /\ os' = [at |-> "assign", got |-> NoTable] /\ UNCHANGED live
    /\ UNCHANGED <<number_of_pages, pages, entries, unmapped, address_space, jobs>>

GrowAssign ==
    /\ os.at = "assign"
    /\ pages' = os.got
    /\ os' = [os EXCEPT !.at = IF os.got = NoTable THEN "restore" ELSE "page"]
    /\ UNCHANGED <<number_of_pages, live, entries, unmapped, address_space, jobs>>

\* realloc failed: memory->pages = temp.
GrowRestore ==
    /\ os.at = "restore"
    /\ pages' = live
    /\ os' = [at |-> "idle", got |-> NoTable]
    /\ UNCHANGED <<number_of_pages, live, entries, unmapped, address_space, jobs>>

\* Mutant: the page is counted before it is known to be there.
MutGrowPage ==
    /\ os.at = "page"
    /\ number_of_pages' = number_of_pages + 1
    /\ \/ entries' = number_of_pages + 1
       \/ "PAGE" \in Faults /\ UNCHANGED entries
    /\ os' = [at |-> "idle", got |-> NoTable]
    /\ UNCHANGED <<pages, live, unmapped, address_space, jobs>>

\* merry_mem_allocate_new_mempage finds out that malloc failed; that mmap failed
\* it does not: it compares with NULL what is then MAP_FAILED.
GrowPage ==
    /\ os.at = "page"
    /\ \/ /\ entries' = number_of_pages + 1
          /\ unmapped' \in {unmapped} \cup
                (IF "MMAP" \in Faults THEN {unmapped \cup {number_of_pages}} ELSE {})
          /\ os' = [os EXCEPT !.at = "count"]
       \/ /\ "PAGE" \in Faults
          /\ os' = [at |-> "idle", got |-> NoTable]
          /\ UNCHANGED <<entries, unmapped>>
    /\ UNCHANGED <<number_of_pages, pages, live, address_space, jobs>>

GrowCount ==
    /\ os.at = "count"
    /\ number_of_pages' = number_of_pages + 1
    /\ os' = [at |-> "idle", got |-> NoTable]
    /\ UNCHANGED <<pages, live, entries, unmapped, address_space, jobs>>

-----------------------------------------------------------------------------
(* Accesses of the cores *)

Becomes(c, j) == jobs' = [jobs EXCEPT ![c] = j]
Refused(c) == Becomes(c, AtRest("refused")) /\ UNCHANGED shared

DistFromEnd(addr) == PageSize - (addr % PageSize)

PageOf(address) == (address \div PageSize) % PageNumbers

\* _MERRY_DMEMORY_DEDUCE_ADDRESS_ and the length of the first memcpy.
Begun(kind, address, len, array) ==
    LET page == PageOf(address)
        offset == address % PageSize
        addr == page * PageSize + offset
    IN  [AtRest(kind) EXCEPT
            !.at = "check", !.asked = address, !.addr = addr, !.len = len, !.array = array,
            !.page = page, !.offset = offset,
            !.piece = IF kind \in Units \/ DistFromEnd(addr) > len
                      THEN len ELSE DistFromEnd(addr)]

InputsOf(n) == {v \in Inputs : Len(v) = n}

Begin(c) ==
    /\ jobs[c].at = "rest"
    /\ \E address \in Addresses :
          \/ \E w \in Widths :
                \/ \E kind \in {"load", "atm_loadd"} :
                      Becomes(c, Begun(kind, address, w, <<>>))
                \/ \E v \in InputsOf(w) : Becomes(c, Begun("store", address, w, v))
          \/ \E len \in Lengths :
                \/ Becomes(c, Begun("sout", address, len, <<>>))
                \/ \E v \in InputsOf(len) : Becomes(c, Begun("sin", address, len, v))
    /\ UNCHANGED shared

\* Mutant: the last cell of an access of one unit may be the next page's first.
MutOverEnd(j) == j.offset + j.len - 1 > PageSize

OverEnd(j) == j.offset + j.len - 1 >= PageSize

Check(c) ==
    LET j == jobs[c]
    IN  /\ j.at = "check"
        /\ IF j.page >= number_of_pages \/ (Unit(j) /\ OverEnd(j))
           THEN Refused(c)
           ELSE Becomes(c, [j EXCEPT !.at = "table"]) /\ UNCHANGED shared

LoadTable(c) ==
    /\ jobs[c].at = "table"
    /\ Becomes(c, [jobs[c] EXCEPT !.at = "entry", !.table = pages])
    /\ UNCHANGED shared

Astray(c) ==
    Becomes(c, [jobs[c] EXCEPT !.at = "astray"]) /\ UNCHANGED shared

\* The access goes through the page's address_space, and that is no memory.
Unmapped(j) == j.page \in unmapped /\ j.kind # "atm_loadd"

LoadEntry(c) ==
    LET j == jobs[c]
    IN  /\ j.at = "entry"
        /\ \/ /\ j.table # NoTable /\ j.page < entries /\ ~Unmapped(j)
              /\ Becomes(c, [j EXCEPT !.at = "copy", !.table = NoTable])
              /\ UNCHANGED shared
           \/ /\ j.table # live \/ j.page >= entries \/ Unmapped(j)
              /\ Astray(c)

\* merry_dmemory_read_dword_atm, &memory->pages[addr.page]->address_space + addr.offset:
\* the page's pointer, or as many pointers behind it as the address has bytes.
LoadPointer(c) ==
    /\ jobs[c].at = "copy" /\ jobs[c].kind = "atm_loadd"
    /\ \/ Becomes(c, AtRest("ok")) /\ UNCHANGED shared
       \/ jobs[c].offset # 0 /\ Astray(c)

\* Mutant: the page is not advanced.
MutNextPage(j) == [j EXCEPT !.at = "table", !.offset = 0]

NextPage(j) == [j EXCEPT !.at = "table", !.page = @ + 1, !.offset = 0]

\* The next page of a transfer, and how much of it to copy.
NextPiece(j) ==
    LET next == NextPage(j)
    IN  IF j.full > 0 THEN [next EXCEPT !.piece = PageSize, !.full = @ - 1]
        ELSE IF j.remaining > 0 THEN [next EXCEPT !.piece = j.remaining, !.remaining = 0]
        ELSE AtRest("ok")

\* What follows a memcpy that is done: the check of the other pages after the
\* first, when the first was used up, and the next page after that.
AfterPiece(j) ==
    IF Unit(j) \/ DistFromEnd(j.addr) > j.len THEN AtRest("ok")
    ELSE IF j.done = DistFromEnd(j.addr) THEN [j EXCEPT !.at = "recheck"]
    ELSE NextPiece(j)

\* k cells of the piece.
Copied(j, k) ==
    LET space == address_space[j.page]
        moved == [j EXCEPT
                    !.done = @ + k, !.offset = @ + k, !.piece = @ - k,
                    !.array = IF Stores(j) THEN @
                              ELSE @ \o [i \in 1..k |-> space[j.offset + i - 1]]]
    IN  IF moved.piece = 0 THEN AfterPiece(moved) ELSE moved

Copy(c) ==
    LET j == jobs[c]
        k == IF Unit(j) /\ j.addr % j.len = 0 THEN j.len
             ELSE IF j.piece = 0 THEN 0 ELSE 1
    IN  /\ j.at = "copy" /\ j.kind # "atm_loadd"
        /\ Becomes(c, Copied(j, k))
        /\ address_space' =
             IF ~Stores(j) THEN address_space
             ELSE [address_space EXCEPT ![j.page] =
                     [o \in Offsets |-> IF o \in j.offset..(j.offset + k - 1)
                                        THEN j.array[j.done + o - j.offset + 1]
                                        ELSE @[o]]]
        /\ UNCHANGED <<number_of_pages, pages, live, entries, unmapped, os>>

\* Mutant: a transfer that ends on the last page is let one page further.
MutBeyond(page, full, remaining) ==
    page + full + (IF remaining > 0 THEN 1 ELSE 0) > number_of_pages

Beyond(page, full, remaining) ==
    page + full + (IF remaining > 0 THEN 1 ELSE 0) >= number_of_pages

Recheck(c) ==
    LET j == jobs[c]
        full == (j.len - j.done) \div PageSize
        remaining == (j.len - j.done) % PageSize
    IN  /\ j.at = "recheck"
        /\ IF Beyond(j.page, full, remaining)
           THEN Refused(c)
           ELSE /\ Becomes(c, NextPiece([j EXCEPT !.full = full, !.remaining = remaining]))
                /\ UNCHANGED shared

-----------------------------------------------------------------------------

Grows == GrowRealloc \/ GrowAssign \/ GrowRestore \/ GrowPage \/ GrowCount

CoreStep(c) ==
    \/ Begin(c) \/ Check(c) \/ LoadTable(c) \/ LoadEntry(c)
    \/ LoadPointer(c) \/ Copy(c) \/ Recheck(c)

Next == Grows \/ \E c \in Cores : CoreStep(c)

Spec == Init /\ [][Next]_vars

-----------------------------------------------------------------------------
(* Properties *)

\* Every field has its type; what is left of a piece stays within its page, and
\* what is left of a transfer adds up to its length.
TypeOK ==
    /\ number_of_pages \in InitPages..MaxPages /\ entries \in InitPages..MaxPages
    /\ unmapped \subseteq InitPages..(MaxPages - 1)
    /\ live \in 0..MaxMoves /\ pages \in {NoTable} \cup (0..live)
    /\ address_space \in [Pages -> [Offsets -> Cells]]
    /\ os.at \in {"idle", "assign", "restore", "page", "count"}
    /\ \A c \in Cores :
          LET j == jobs[c]
          IN  /\ j.at \in {"rest", "check", "table", "entry", "copy", "recheck", "astray"}
              /\ j.at \in {"table", "entry", "copy"} =>
                    /\ j.offset + j.piece <= PageSize
                    /\ (j.full # 0 \/ j.remaining # 0) =>
                          j.done + j.piece + j.full * PageSize + j.remaining = j.len

\* Pages that are counted are in the table: a page that could not be allocated
\* is not counted, and no page is counted before its entry is stored.
CountedPagesAreThere == number_of_pages <= entries

\* A core that goes astray on its way to the page is behind the OS: the table it
\* uses was being replaced when it loaded the pointer, or has been since; or the
\* page is one that the host could not map.  Not one access goes astray otherwise
\* that began after the last growth ended, failed or not, but the atomic load of a
\* dword that is not at the beginning of its page, which needs no growth for it.
StraysBehindGrowth ==
    [][\A c \in Cores :
          jobs[c].at # "astray" /\ jobs'[c].at = "astray" =>
             IF jobs[c].at = "copy"
             THEN jobs[c].kind = "atm_loadd" /\ jobs[c].offset # 0
             ELSE \/ jobs[c].table # pages \/ os.at \in {"assign", "restore"}
                  \/ Unmapped(jobs[c])]_vars

\* The pages are a flat memory that grows, whatever the order of the cores'
\* steps and the OS's: addresses are taken modulo all the pages there are numbers
\* for, units in their natural place are indivisible, transfers over several pages
\* copy the cells they were asked to and in order, and only what does not fit is
\* refused.  The atomic load of a dword alone is promised no cell of the memory.
\* A core that is astray does nothing more here.
Flat == INSTANCE FlatMemory
          WITH AddressSpace <- PageNumbers * PageSize,
               size <- number_of_pages * PageSize,
               mem <- [a \in 0..(number_of_pages * PageSize - 1) |->
                         address_space[a \div PageSize][a % PageSize]],
               jobs <- [c \in Cores |->
                          [kind |-> jobs[c].kind, asked |-> jobs[c].asked,
                           addr |-> jobs[c].addr, len |-> jobs[c].len,
                           done |-> jobs[c].done, array |-> jobs[c].array]]

FlatSpec == Flat!Spec

=============================================================================
