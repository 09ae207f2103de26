--------------------------- MODULE DataMemory_proofs ---------------------------
(***************************************************************************)
(* For every number of cores, size of page and bound: the pages that are   *)
(* counted are in the table, a core goes astray only behind a growth or in *)
(* a page that the host did not map; to the cores that do not, the pages   *)
(* are one flat array (FlatMemory).                                        *)
(***************************************************************************)
EXTENDS DataMemory, TLAPS

Kinds == Units \cup {"sout", "sin"}
USE DEF Units, Kinds

JobFields == {"at", "kind", "asked", "addr", "len", "page", "offset", "piece", "full",
              "remaining", "done", "array", "table"}

\* The last page a transfer will touch is counted once its length was checked.
JobOK(j) ==
    /\ DOMAIN j = JobFields
    /\ j.addr \in Nat /\ j.len \in Nat /\ j.page \in Nat
    /\ j.full \in Nat /\ j.remaining \in Nat
    /\ j.at \in {"rest", "check", "table", "entry", "copy", "recheck", "astray"}
    /\ j.at = "check" => j.full = 0 /\ j.remaining = 0
    /\ j.at \in {"table", "entry", "copy"} =>
          j.page + j.full + (IF j.remaining > 0 THEN 1 ELSE 0) < number_of_pages
    /\ j.at = "recheck" => j.done = DistFromEnd(j.addr) /\ j.done <= j.len

\* Outside the window of a growth the pointer is the live table; an entry is
\* stored one step before it is counted.
GrowOK ==
    /\ number_of_pages \in Nat /\ entries \in Nat /\ live \in Nat
    /\ entries = IF os.at = "count" THEN number_of_pages + 1 ELSE number_of_pages
    /\ DOMAIN os = {"at", "got"}
    /\ os.at \in {"idle", "assign", "restore", "page", "count"}
    /\ os.at = "assign" => os.got \in {live, NoTable}
    /\ os.at \notin {"assign", "restore"} => pages = live

JobsOK == DOMAIN jobs = Cores /\ \A c \in Cores : JobOK(jobs[c])

\* Inductive, and strong enough for both theorems.
IInv == GrowOK /\ JobsOK

\* merry_dmemory_init maps every page it counts.
LEMMA InitIInv == Init => IInv
  <1>1. Init => GrowOK
    BY DataMemoryAssumption DEF Init, GrowOK
  <1>2. Init => JobsOK
    BY DataMemoryAssumption DEF Init, JobsOK, JobOK, JobFields, AtRest
  <1> QED BY <1>1, <1>2 DEF IInv

\* The OS's steps: number_of_pages never shrinks, so checks that were passed hold.
LEMMA GrowsKeep == IInv /\ Grows => IInv'
  <1> SUFFICES ASSUME IInv, Grows PROVE IInv'
    OBVIOUS
  <1> USE DEF IInv, GrowOK, NoTable
  <1>1. GrowOK'
    <2>1. CASE GrowRealloc BY <2>1 DEF GrowRealloc
    <2>2. CASE GrowAssign BY <2>2 DEF GrowAssign
    <2>3. CASE GrowRestore BY <2>3 DEF GrowRestore
    <2>4. CASE GrowPage BY <2>4 DEF GrowPage
    <2>5. CASE GrowCount BY <2>5 DEF GrowCount
    <2> QED BY <2>1, <2>2, <2>3, <2>4, <2>5 DEF Grows
  <1>2. JobsOK'
    <2>1. jobs' = jobs /\ number_of_pages' \in Nat /\ number_of_pages <= number_of_pages'
      BY DEF Grows, GrowRealloc, GrowAssign, GrowRestore, GrowPage, GrowCount
    <2> QED BY <2>1 DEF JobsOK, JobOK, DistFromEnd
  <1> QED BY <1>1, <1>2

\* One core's step keeps the others' jobs, and its own if what it becomes is OK.
LEMMA OneJob ==
    ASSUME JobsOK, NEW c \in Cores, NEW j, Becomes(c, j), JobOK(j),
           number_of_pages' = number_of_pages
    PROVE  JobsOK'
  <1>1. DOMAIN jobs' = Cores
    BY DEF JobsOK, Becomes
  <1>2. ASSUME NEW d \in Cores PROVE JobOK(jobs'[d])
    BY DEF JobsOK, Becomes
  <1>3. ASSUME NEW d \in Cores PROVE JobOK(jobs[d])'
    BY <1>2 DEF JobOK, DistFromEnd
  <1> QED BY <1>1, <1>3 DEF JobsOK

\* A core between accesses owes nothing.
LEMMA RestOK == ASSUME NEW kind PROVE JobOK(AtRest(kind))
  BY DEF JobOK, AtRest, JobFields

\* Page numbers and offsets are natural numbers.
LEMMA DivMod ==
    ASSUME NEW n \in Nat
    PROVE  n \div PageSize \in Nat /\ n % PageSize \in Nat
  BY DataMemoryAssumption

\* Division by the page size, and what it is of an offset within a page.
LEMMA DivisionIs ==
    ASSUME NEW a \in Nat
    PROVE  /\ a = (a \div PageSize) * PageSize + (a % PageSize)
           /\ a \div PageSize \in Nat /\ a % PageSize \in 0..(PageSize - 1)
  BY DataMemoryAssumption

\* A page begins where the one before it ends.
LEMMA PageTimes ==
    ASSUME NEW p \in Nat
    PROVE  p * PageSize \in Nat /\ (p + 1) * PageSize = p * PageSize + PageSize
  BY DataMemoryAssumption

\* So do several pages.
LEMMA PagesAdd ==
    ASSUME NEW p \in Nat, NEW q \in Nat
    PROVE  (p + q) * PageSize = p * PageSize + q * PageSize
  BY DataMemoryAssumption

\* A page before another ends at the latest where that begins.
LEMMA PageBefore ==
    ASSUME NEW p \in Nat, NEW q \in Nat, p < q
    PROVE  p * PageSize + PageSize <= q * PageSize
  BY DataMemoryAssumption

\* Sums of numbers, kept apart from the records they are fields of: both sides of
\* an equation move on by as much.
LEMMA MoveOn ==
    ASSUME NEW a \in Nat, NEW b \in Nat, NEW d \in Nat, NEW o \in Nat, NEW k \in Nat,
           a + o = b + d
    PROVE  a + (o + k) = b + (d + k)
  OBVIOUS

\* Something more makes it more.
LEMMA AddMore ==
    ASSUME NEW a \in Nat, NEW b \in Nat, NEW k \in Nat, a >= b, k > 0
    PROVE  a + k > b
  OBVIOUS

\* Cells lie below a bound if the last of them does.
LEMMA CellsBelow ==
    ASSUME NEW a \in Nat, NEW k \in Nat, NEW size \in Nat, k # 0 => a + k - 1 \in 0..(size - 1)
    PROVE  a..(a + k - 1) \subseteq 0..(size - 1)
  OBVIOUS

\* A piece of a page is not empty.
LEMMA InAPage ==
    ASSUME NEW k \in 1..PageSize
    PROVE  k \in Nat /\ k > 0
  BY DataMemoryAssumption

\* One page of several.
LEMMA LessAPage ==
    ASSUME NEW p \in Nat, p > 0
    PROVE  p - 1 \in Nat /\ (p - 1) * PageSize + PageSize = p * PageSize
  <1>1. p - 1 \in Nat /\ (p - 1) + 1 = p
    OBVIOUS
  <1> QED BY <1>1, PageTimes

\* An address is in one page, at one offset.
LEMMA AddressIs ==
    ASSUME NEW p \in Nat, NEW o \in 0..(PageSize - 1)
    PROVE  (p * PageSize + o) \div PageSize = p /\ (p * PageSize + o) % PageSize = o
  <1>1. PICK a \in Nat : a = p * PageSize + o
    BY PageTimes, DataMemoryAssumption
  <1>2. PICK q \in Nat, r \in 0..(PageSize - 1) : q = a \div PageSize /\ r = a % PageSize
    BY DivisionIs
  <1>3. q * PageSize + r = p * PageSize + o
    BY <1>1, <1>2, DivisionIs
  <1>4. q * PageSize \in Nat /\ p * PageSize \in Nat
    BY PageTimes
  <1>5. CASE q < p
    BY <1>3, <1>4, <1>5, PageBefore, DataMemoryAssumption
  <1>6. CASE p < q
    BY <1>3, <1>4, <1>6, PageBefore, DataMemoryAssumption
  <1>7. CASE q = p
    BY <1>1, <1>2, <1>3, <1>4, <1>7, DataMemoryAssumption
  <1> QED BY <1>5, <1>6, <1>7

\* The only quotient and remainder there are.
LEMMA RemainderIs ==
    ASSUME NEW d \in Nat \ {0}, NEW m \in Nat, NEW r \in 0..(d - 1)
    PROVE  (m * d + r) % d = r
  <1>1. PICK a \in Nat : a = m * d + r
    OBVIOUS
  <1>2. PICK q \in Nat, s \in 0..(d - 1) : a = q * d + s /\ s = a % d
    <2>1. a = (a \div d) * d + (a % d) /\ a \div d \in Nat /\ a % d \in 0..(d - 1)
      OBVIOUS
    <2> QED BY <2>1
  <1>3. ASSUME NEW x \in Nat, NEW y \in Nat, x < y PROVE x * d + d <= y * d
    BY <1>3
  <1>4. PICK x \in Nat, y \in Nat : x = m * d /\ y = q * d
    OBVIOUS
  <1>5. x + r = y + s
    BY <1>1, <1>2, <1>4
  <1>6. ~(m < q) /\ ~(q < m)
    <2>1. m < q => x + d <= y
      BY <1>3, <1>4
    <2>2. q < m => y + d <= x
      BY <1>3, <1>4
    <2> QED BY <1>5, <2>1, <2>2
  <1>7. x = y
    BY <1>4, <1>6
  <1>8. r = s
    BY <1>5, <1>7
  <1>9. a % d = r
    BY <1>2, <1>8
  <1> QED BY <1>1, <1>9

\* Where an address lies: its remainder by the size of the address space, at the
\* offset it has in its page.
LEMMA PlaceIs ==
    ASSUME NEW a \in Nat
    PROVE  LET place == PageOf(a) * PageSize + (a % PageSize)
           IN  /\ PageOf(a) \in Nat /\ place \in Nat
               /\ place \div PageSize = PageOf(a) /\ place % PageSize = a % PageSize
               /\ place = a % (PageNumbers * PageSize)
  <1> DEFINE place == PageOf(a) * PageSize + (a % PageSize)
  <1> USE DataMemoryAssumption
  <1>1. PICK q \in Nat, o \in 0..(PageSize - 1) :
           q = a \div PageSize /\ o = a % PageSize /\ a = q * PageSize + o
    BY DivisionIs
  <1>2. PICK m \in Nat, p \in 0..(PageNumbers - 1) : p = q % PageNumbers /\ q = m * PageNumbers + p
    <2>1. /\ q = (q \div PageNumbers) * PageNumbers + (q % PageNumbers)
          /\ q \div PageNumbers \in Nat /\ q % PageNumbers \in 0..(PageNumbers - 1)
      OBVIOUS
    <2> QED BY <2>1
  <1>3. PageOf(a) = p /\ p \in Nat
    <2>1. p \in Nat
      OBVIOUS
    <2>2. PageOf(a) = q % PageNumbers
      BY <1>1, Zenon DEF PageOf
    <2> QED BY <1>2, <2>1, <2>2
  <1>4. place = p * PageSize + o /\ p * PageSize \in Nat
    BY <1>1, <1>3, PageTimes
  <1> HIDE DEF place
  <1>9. place \div PageSize = p /\ place % PageSize = o
    <2>1. (p * PageSize + o) \div PageSize = p /\ (p * PageSize + o) % PageSize = o
      BY <1>3, AddressIs
    <2> QED BY <1>4, <2>1
  <1>5. PICK d \in Nat \ {0} : d = PageNumbers * PageSize
    OBVIOUS
  <1>6. p * PageSize + o \in 0..(d - 1)
    <2>1. p * PageSize + PageSize <= PageNumbers * PageSize
      BY PageBefore
    <2>2. PICK x \in Nat : x = p * PageSize
      BY <1>4
    <2>3. x + PageSize <= d
      BY <1>5, <2>1, <2>2
    <2> QED BY <2>2, <2>3
  <1>7. a = m * d + (p * PageSize + o)
    <2>1. q * PageSize = (m * PageNumbers) * PageSize + p * PageSize
      BY <1>2, PagesAdd
    <2>2. (m * PageNumbers) * PageSize = m * d
      BY <1>5
    <2>3. PICK x \in Nat, y \in Nat : x = m * d /\ y = p * PageSize
      BY <1>4
    <2> QED BY <1>1, <2>1, <2>2, <2>3
  <1>8. place = a % d
    <2>1. PICK r \in 0..(d - 1) : r = p * PageSize + o
      BY <1>6
    <2>2. (m * d + r) % d = r
      BY RemainderIs
    <2> QED BY <1>4, <1>7, <2>1, <2>2
  <1>10. place \in Nat
    BY <1>4, <1>6
  <1>11. /\ PageOf(a) \in Nat /\ place \in Nat
         /\ place \div PageSize = PageOf(a) /\ place % PageSize = a % PageSize
         /\ place = a % (PageNumbers * PageSize)
    BY <1>1, <1>3, <1>5, <1>8, <1>9, <1>10
  <1> QED BY <1>11 DEF place

\* A new access has not been checked, so it may be anywhere.
LEMMA BeginKeeps == ASSUME IInv, NEW c \in Cores, Begin(c) PROVE JobsOK'
  <1>1. ASSUME NEW kind, NEW addr \in Addresses, NEW len \in Nat, NEW array,
               Becomes(c, Begun(kind, addr, len, array))
        PROVE  JobsOK'
    <2>1. PageOf(addr) \in Nat /\ PageOf(addr) * PageSize + (addr % PageSize) \in Nat
      BY PlaceIs, DataMemoryAssumption
    <2>2. JobOK(Begun(kind, addr, len, array))
      BY <2>1 DEF JobOK, Begun, AtRest, JobFields
    <2> QED BY <1>1, <2>2, OneJob DEF IInv, Begin, shared
  <1>2. PICK addr \in Addresses :
           \/ \E w \in Widths :
                 \/ \E kind \in {"load", "atm_loadd"} : Becomes(c, Begun(kind, addr, w, <<>>))
                 \/ \E v \in InputsOf(w) : Becomes(c, Begun("store", addr, w, v))
           \/ \E len \in Lengths :
                 \/ Becomes(c, Begun("sout", addr, len, <<>>))
                 \/ \E v \in InputsOf(len) : Becomes(c, Begun("sin", addr, len, v))
    BY DEF Begin
  <1>3. Widths \subseteq Nat /\ Lengths \subseteq Nat
    BY DataMemoryAssumption
  <1>4. CASE \E w \in Widths : \E kind \in {"load", "atm_loadd"} :
                Becomes(c, Begun(kind, addr, w, <<>>))
    BY <1>1, <1>3, <1>4
  <1>5. CASE \E w \in Widths : \E v \in InputsOf(w) : Becomes(c, Begun("store", addr, w, v))
    BY <1>1, <1>3, <1>5
  <1>6. CASE \E len \in Lengths : Becomes(c, Begun("sout", addr, len, <<>>))
    BY <1>1, <1>3, <1>6
  <1>7. CASE \E len \in Lengths : \E v \in InputsOf(len) : Becomes(c, Begun("sin", addr, len, v))
    BY <1>1, <1>3, <1>7
  <1> QED BY <1>2, <1>4, <1>5, <1>6, <1>7

\* The first check: the page is one that is counted.
LEMMA CheckKeeps == ASSUME IInv, NEW c \in Cores, Check(c) PROVE JobsOK'
  <1> DEFINE j == jobs[c]
  <1>1. JobOK(j) /\ number_of_pages \in Nat
    BY DEF IInv, JobsOK, GrowOK
  <1>2. CASE Refused(c)
    BY <1>2, RestOK, OneJob DEF IInv, Refused, shared
  <1>3. CASE j.page < number_of_pages /\ Becomes(c, [j EXCEPT !.at = "table"]) /\ UNCHANGED shared
    <2>1. JobOK([j EXCEPT !.at = "table"])
      BY <1>1, <1>3 DEF JobOK, JobFields, Check
    <2> QED BY <1>3, <2>1, OneJob DEF IInv, shared
  <1> QED BY <1>1, <1>2, <1>3 DEF Check, JobOK

\* Reading the pointer and the entry changes no page number.
LEMMA LoadsKeep ==
    ASSUME IInv, NEW c \in Cores, LoadTable(c) \/ LoadEntry(c) \/ LoadPointer(c)
    PROVE  JobsOK'
  <1> DEFINE j == jobs[c]
  <1>1. JobOK(j)
    BY DEF IInv, JobsOK
  <1>2. CASE LoadTable(c)
    <2>1. JobOK([j EXCEPT !.at = "entry", !.table = pages])
      BY <1>1, <1>2 DEF JobOK, JobFields, LoadTable
    <2> QED BY <1>2, <2>1, OneJob DEF IInv, LoadTable, shared
  <1>3. CASE LoadEntry(c)
    <2>1. JobOK([j EXCEPT !.at = "copy", !.table = NoTable])
      BY <1>1, <1>3 DEF JobOK, JobFields, LoadEntry
    <2>2. JobOK([j EXCEPT !.at = "astray"])
      BY <1>1, <1>3 DEF JobOK, JobFields, LoadEntry
    <2> QED BY <1>3, <2>1, <2>2, OneJob DEF IInv, LoadEntry, Astray, shared
  <1>4. CASE LoadPointer(c)
    <2>1. JobOK([j EXCEPT !.at = "astray"])
      BY <1>1, <1>4 DEF JobOK, JobFields, LoadPointer
    <2> QED BY <1>4, <2>1, RestOK, OneJob DEF IInv, LoadPointer, Astray, shared
  <1> QED BY <1>2, <1>3, <1>4

\* The next page of a transfer lies no further than its check reached.
LEMMA NextPieceOK ==
    ASSUME NEW j, number_of_pages \in Nat, DOMAIN j = JobFields,
           j.addr \in Nat, j.len \in Nat, j.page \in Nat,
           j.full \in Nat, j.remaining \in Nat,
           j.page + j.full + (IF j.remaining > 0 THEN 1 ELSE 0) < number_of_pages
    PROVE  JobOK(NextPiece(j))
  <1>1. CASE j.full > 0
    BY <1>1 DEF NextPiece, NextPage, JobOK, JobFields
  <1>2. CASE ~(j.full > 0) /\ j.remaining > 0
    BY <1>2 DEF NextPiece, NextPage, JobOK, JobFields
  <1>3. CASE ~(j.full > 0) /\ ~(j.remaining > 0)
    BY <1>3, RestOK DEF NextPiece
  <1> QED BY <1>1, <1>2, <1>3

\* The check of the other pages bounds the last one the transfer will touch.
LEMMA RecheckKeeps == ASSUME IInv, NEW c \in Cores, Recheck(c) PROVE JobsOK'
  <1> DEFINE j == jobs[c]
             full == (j.len - j.done) \div PageSize
             remaining == (j.len - j.done) % PageSize
             next == [j EXCEPT !.full = full, !.remaining = remaining]
  <1>1. JobOK(j) /\ number_of_pages \in Nat /\ j.at = "recheck"
    BY DEF IInv, JobsOK, GrowOK, Recheck
  <1>2. full \in Nat /\ remaining \in Nat
    <2> DEFINE left == j.len - j.done
    <2>1. left \in Nat
      <3>1. j.addr % PageSize \in Nat
        BY <1>1, DivMod, DataMemoryAssumption DEF JobOK
      <3> QED BY <1>1, <3>1, DataMemoryAssumption DEF JobOK, DistFromEnd
    <2>2. full = left \div PageSize /\ remaining = left % PageSize
      OBVIOUS
    <2> HIDE DEF left, full, remaining
    <2> QED BY <2>1, <2>2, DivMod, DataMemoryAssumption
  <1>3. CASE Refused(c)
    BY <1>3, RestOK, OneJob DEF IInv, Refused, shared
  <1>4. CASE ~Beyond(j.page, full, remaining) /\ Becomes(c, NextPiece(next)) /\ UNCHANGED shared
    <2>1. j.page + full + (IF remaining > 0 THEN 1 ELSE 0) < number_of_pages
      <3> HIDE DEF full, remaining, j
      <3> QED BY <1>1, <1>2, <1>4 DEF Beyond, JobOK
    <2>2. /\ DOMAIN next = JobFields /\ next.full = full /\ next.remaining = remaining
          /\ next.addr = j.addr /\ next.len = j.len /\ next.page = j.page
      <3> HIDE DEF full, remaining
      <3> QED BY <1>1 DEF JobOK, JobFields
    <2>3. JobOK(NextPiece(next))
      <3> HIDE DEF next, full, remaining
      <3> QED BY <1>1, <1>2, <2>1, <2>2, NextPieceOK DEF JobOK
    <2> QED BY <1>4, <2>3, OneJob DEF IInv, shared
  <1> QED BY <1>3, <1>4 DEF Recheck

\* After a memcpy a transfer is over, at its check, or on its next page.
LEMMA CopiedOK ==
    ASSUME NEW j, JobOK(j), j.at = "copy", number_of_pages \in Nat, NEW k
    PROVE  JobOK(Copied(j, k))
  <1> DEFINE more == j.array \o [i \in 1..k |-> address_space[j.page][j.offset + i - 1]]
             moved == [j EXCEPT !.done = @ + k, !.offset = @ + k, !.piece = @ - k,
                                !.array = IF Stores(j) THEN @ ELSE more]
  <1> HIDE DEF more
  <1>1. /\ DOMAIN moved = JobFields /\ moved.at = "copy"
        /\ moved.addr = j.addr /\ moved.len = j.len /\ moved.page = j.page
        /\ moved.full = j.full /\ moved.remaining = j.remaining
    BY DEF JobOK, JobFields
  <1>2. Copied(j, k) = IF moved.piece = 0 THEN AfterPiece(moved) ELSE moved
    BY DEF Copied, more
  <1> HIDE DEF moved
  <1>3. JobOK(moved)
    BY <1>1 DEF JobOK
  <1>4. JobOK(AfterPiece(moved))
    <2>1. JobOK(NextPiece(moved))
      BY <1>1, NextPieceOK DEF JobOK
    <2>2. CASE /\ ~(DistFromEnd(moved.addr) > moved.len)
               /\ moved.done = DistFromEnd(moved.addr)
      <3>1. moved.addr % PageSize \in Nat
        BY <1>1, DivMod DEF JobOK
      <3>2. moved.done \in Int /\ moved.done <= moved.len
        BY <1>1, <2>2, <3>1, DataMemoryAssumption DEF JobOK, DistFromEnd
      <3>3. JobOK([moved EXCEPT !.at = "recheck"])
        BY <1>1, <1>3, <2>2, <3>2 DEF JobOK, JobFields
      <3> QED BY <2>1, <3>3, RestOK DEF AfterPiece
    <2> QED BY <2>1, <2>2, RestOK DEF AfterPiece
  <1> QED BY <1>2, <1>3, <1>4

\* Copying cells moves on within the pages that were checked.
LEMMA CopyKeeps == ASSUME IInv, NEW c \in Cores, Copy(c) PROVE JobsOK'
  <1>1. PICK k : Becomes(c, Copied(jobs[c], k)) /\ jobs[c].at = "copy"
    BY DEF Copy
  <1>2. JobOK(Copied(jobs[c], k))
    BY <1>1, CopiedOK DEF IInv, JobsOK, GrowOK
  <1> QED BY <1>1, <1>2, OneJob DEF IInv, Copy

\* Every step, of the OS or of a core.
LEMMA NextKeeps == IInv /\ [Next]_vars => IInv'
  <1> SUFFICES ASSUME IInv, [Next]_vars PROVE IInv'
    OBVIOUS
  <1>1. CASE Grows
    BY <1>1, GrowsKeep
  <1>2. ASSUME NEW c \in Cores, CoreStep(c) PROVE IInv'
    <2>1. UNCHANGED <<number_of_pages, pages, live, entries, unmapped, os>>
      BY <1>2 DEF CoreStep, Begin, Check, LoadTable, LoadEntry, LoadPointer, Copy, Recheck,
                  Refused, Astray, shared
    <2>2. JobsOK'
      BY <1>2, BeginKeeps, CheckKeeps, LoadsKeep, CopyKeeps, RecheckKeeps DEF CoreStep
    <2> QED BY <2>1, <2>2 DEF IInv, GrowOK
  <1>3. CASE UNCHANGED vars
    BY <1>3 DEF vars, shared, IInv, GrowOK, JobsOK, JobOK, DistFromEnd
  <1> QED BY <1>1, <1>2, <1>3 DEF Next

\* The bookkeeping of growth and accesses, in every reachable state.
THEOREM InductiveInvariant == Spec => []IInv
  BY InitIInv, NextKeeps, PTL DEF Spec

\* For every number of cores, every size of page and every bound, whatever the
\* host fails or moves: a page that is counted is in the table.
THEOREM CountedPages == Spec => []CountedPagesAreThere
  <1>1. IInv => CountedPagesAreThere
    BY DEF IInv, GrowOK, CountedPagesAreThere
  <1> QED BY <1>1, InductiveInvariant, PTL

\* A core's step changes where that core is, and no other.
LEMMA OnlyOwnJob ==
    ASSUME NEW d \in Cores, CoreStep(d), IInv, NEW c \in Cores, jobs'[c].at # jobs[c].at
    PROVE  d = c
  <1>1. PICK j : jobs' = [jobs EXCEPT ![d] = j]
    BY DEF CoreStep, Begin, Check, LoadTable, LoadEntry, Copy, Recheck, Refused, Astray, LoadPointer, Becomes
  <1> QED BY <1>1 DEF IInv, JobsOK

\* Going astray is reading an entry with a stale pointer, past the pages, or of a
\* page that is not mapped; or it is the pointer's load off the page's.
LEMMA OnlyEntryStrays ==
    ASSUME IInv, NEW c \in Cores, CoreStep(c), jobs'[c].at = "astray"
    PROVE  \/ LoadEntry(c) /\ (jobs[c].table # live \/ jobs[c].page >= entries \/ Unmapped(jobs[c]))
           \/ LoadPointer(c) /\ jobs[c].offset # 0
  <1> DEFINE j == jobs[c]
  <1>1. JobOK(j) /\ c \in DOMAIN jobs
    BY DEF IInv, JobsOK
  <1>2. ASSUME NEW kind PROVE AtRest(kind).at = "rest"
    BY DEF AtRest
  <1>3. ASSUME NEW k, DOMAIN k = JobFields PROVE NextPiece(k).at # "astray"
    BY <1>2, <1>3 DEF NextPiece, NextPage, JobFields
  <1>4. ~Begin(c)
    <2>1. ASSUME NEW kind, NEW addr, NEW len, NEW array
          PROVE  Begun(kind, addr, len, array).at = "check"
      BY DEF Begun, AtRest
    <2> QED BY <1>1, <2>1 DEF Begin, Becomes
  <1>5. ~Check(c)
    BY <1>1, <1>2 DEF Check, Refused, Becomes, JobOK, JobFields
  <1>6. ~LoadTable(c)
    BY <1>1 DEF LoadTable, Becomes, JobOK, JobFields
  <1>7. ~Copy(c)
    <2> SUFFICES ASSUME Copy(c) PROVE FALSE
      OBVIOUS
    <2>1. PICK k : Becomes(c, Copied(j, k))
      BY DEF Copy
    <2> DEFINE array == IF Stores(j) THEN j.array
                        ELSE j.array \o [i \in 1..k |-> address_space[j.page][j.offset + i - 1]]
               moved == [j EXCEPT !.done = @ + k, !.offset = @ + k, !.piece = @ - k,
                                  !.array = array]
    <2>2. Copied(j, k) = IF moved.piece = 0 THEN AfterPiece(moved) ELSE moved
      BY DEF Copied
    <2> HIDE DEF array
    <2>3. moved.at = "copy" /\ DOMAIN moved = JobFields
      BY <1>1 DEF JobOK, JobFields, Copy
    <2> HIDE DEF moved
    <2>4. AfterPiece(moved).at # "astray"
      BY <1>2, <1>3, <2>3 DEF AfterPiece, JobFields
    <2> QED BY <1>1, <2>1, <2>2, <2>3, <2>4 DEF Becomes
  <1>8. ~Recheck(c)
    <2> DEFINE next == [j EXCEPT !.full = (j.len - j.done) \div PageSize,
                                 !.remaining = (j.len - j.done) % PageSize]
    <2>1. Recheck(c) => Refused(c) \/ Becomes(c, NextPiece(next))
      BY DEF Recheck
    <2>2. DOMAIN next = JobFields
      BY <1>1 DEF JobOK
    <2> HIDE DEF next
    <2> QED BY <1>1, <1>2, <1>3, <2>1, <2>2 DEF Refused, Becomes
  <1>9. CASE LoadEntry(c)
    BY <1>1, <1>9 DEF LoadEntry, Becomes, JobOK, JobFields
  <1>10. CASE LoadPointer(c)
    BY <1>1, <1>2, <1>10 DEF LoadPointer, Becomes
  <1> QED BY <1>4, <1>5, <1>6, <1>7, <1>8, <1>9, <1>10 DEF CoreStep

\* A core goes astray only with a table that was being replaced when it loaded
\* the pointer to it, or has been replaced since, or in an unmapped page; or in the
\* atomic load of a dword that is not at the beginning of its page.
THEOREM StraysAreBehindGrowth == Spec => StraysBehindGrowth
  <1> DEFINE Behind ==
        \A c \in Cores :
           jobs[c].at # "astray" /\ jobs'[c].at = "astray" =>
              IF jobs[c].at = "copy"
              THEN jobs[c].kind = "atm_loadd" /\ jobs[c].offset # 0
              ELSE \/ jobs[c].table # pages \/ os.at \in {"assign", "restore"}
                   \/ Unmapped(jobs[c])
  <1>1. ASSUME IInv, Next PROVE Behind
    <2> SUFFICES ASSUME NEW c \in Cores, jobs[c].at # "astray", jobs'[c].at = "astray"
                 PROVE  IF jobs[c].at = "copy"
                        THEN jobs[c].kind = "atm_loadd" /\ jobs[c].offset # 0
                        ELSE \/ jobs[c].table # pages \/ os.at \in {"assign", "restore"}
                             \/ Unmapped(jobs[c])
      OBVIOUS
    <2>1. PICK d \in Cores : CoreStep(d)
      BY <1>1 DEF Next, Grows, GrowRealloc, GrowAssign, GrowRestore, GrowPage, GrowCount
    <2>2. d = c
      BY <1>1, <2>1, OnlyOwnJob
    <2>3. CASE LoadPointer(c) /\ jobs[c].offset # 0
      BY <2>3 DEF LoadPointer
    <2>4. CASE LoadEntry(c) /\ (jobs[c].table # live \/ jobs[c].page >= entries \/ Unmapped(jobs[c]))
      <3>1. ~(jobs[c].page >= entries) /\ jobs[c].at = "entry"
        BY <1>1, <2>4 DEF IInv, GrowOK, JobsOK, JobOK, LoadEntry
      <3> QED BY <1>1, <2>4, <3>1 DEF IInv, GrowOK
    <2> QED BY <1>1, <2>1, <2>2, <2>3, <2>4, OnlyEntryStrays
  <1> QED BY <1>1, InductiveInvariant, PTL DEF Spec, StraysBehindGrowth

-----------------------------------------------------------------------------
(* The flat memory *)

\* The bounds of growth: a page that is being added has a number left for it, and no
\* cell of a page that is not counted was ever written.
MemOK ==
    /\ number_of_pages \in InitPages..MaxPages
    /\ unmapped \subseteq InitPages..(MaxPages - 1)
    /\ live \in 0..MaxMoves
    /\ pages \in {NoTable} \cup (0..live) /\ os.got \in {NoTable} \cup (0..live)
    /\ os.at # "idle" => number_of_pages < MaxPages
    /\ address_space \in [Pages -> [Offsets -> Cells]]
    /\ \A p \in Pages : p >= number_of_pages => address_space[p] = [o \in Offsets |-> 0]

\* A piece lies within its page, where the address and what is done say.
PieceOK(j) ==
    /\ j.offset \in Nat /\ j.piece \in Nat /\ j.done \in Nat
    /\ j.page * PageSize + j.offset = j.addr + j.done
    /\ j.offset + j.piece <= PageSize
    /\ j.piece = 0 => j.len = 0

\* An access that the checks found to lie within one page.
Within(j) == Unit(j) \/ DistFromEnd(j.addr) > j.len

\* What is left of an access: all of it is this piece; or the piece is the first
\* of a transfer that goes on; or the transfer has used up its first page.
LeftOK(j) ==
    \/ Within(j) /\ j.full = 0 /\ j.remaining = 0 /\ j.done + j.piece = j.len
    \/ /\ ~Within(j) /\ j.full = 0 /\ j.remaining = 0
       /\ j.done + j.piece = DistFromEnd(j.addr) /\ j.page = j.addr \div PageSize
    \/ /\ ~Within(j) /\ j.done >= DistFromEnd(j.addr) /\ j.remaining < PageSize
       /\ j.done + j.piece > DistFromEnd(j.addr)
       /\ j.done + j.piece + j.full * PageSize + j.remaining = j.len
       /\ j.full # 0 \/ j.remaining # 0 => j.offset + j.piece = PageSize

MoveOK(j) ==
    /\ j.at = "rest" => j \in {AtRest("ok"), AtRest("refused")}
    /\ j.at # "rest" => j.kind \in Kinds
    /\ Unit(j) => j.len \in 1..PageSize
    /\ Stores(j) => j.array \in [1..j.len -> Cells]
    /\ j.at = "check" =>
          /\ j.done = 0 /\ j.page = j.addr \div PageSize /\ j.offset = j.addr % PageSize
          /\ j.piece = IF Within(j) THEN j.len ELSE DistFromEnd(j.addr)
    /\ j.at \in {"table", "entry", "copy"} =>
          /\ PieceOK(j) /\ LeftOK(j)
          /\ Unit(j) /\ j.addr % j.len = 0 => j.done = 0
    /\ j.at = "recheck" =>
          ~Within(j) /\ j.page = j.addr \div PageSize /\ j.full = 0 /\ j.remaining = 0

MovesOK == \A c \in Cores : MoveOK(jobs[c])

\* The distance from the end of the page is that of its offset.
LEMMA DistIs ==
    ASSUME NEW a \in Nat
    PROVE  /\ DistFromEnd(a) \in 1..PageSize /\ DistFromEnd(a) = PageSize - (a % PageSize)
           /\ a + DistFromEnd(a) = (a \div PageSize) * PageSize + PageSize
  <1>1. a % PageSize \in 0..(PageSize - 1) /\ (a \div PageSize) * PageSize \in Nat
    BY DivisionIs, PageTimes
  <1>2. a = (a \div PageSize) * PageSize + (a % PageSize)
    BY DivisionIs
  <1> QED BY <1>1, <1>2, DataMemoryAssumption DEF DistFromEnd

\* A core at rest moves nothing.
LEMMA RestMove == MoveOK(AtRest("ok")) /\ MoveOK(AtRest("refused"))
  BY DEF MoveOK, AtRest, Unit, Stores

\* One core's step keeps the others' moves.
LEMMA OneMove ==
    ASSUME JobsOK, MovesOK, NEW c \in Cores, NEW j, Becomes(c, j), MoveOK(j)
    PROVE  MovesOK'
  <1>1. ASSUME NEW d \in Cores PROVE MoveOK(jobs'[d])
    BY DEF JobsOK, MovesOK, Becomes
  <1> QED BY <1>1 DEF MovesOK, MoveOK, PieceOK, LeftOK, Within, DistFromEnd, Unit, Stores, AtRest

\* A new access holds what it stores, and its piece is as long as its page lets it.
LEMMA BegunMove ==
    ASSUME NEW kind \in Kinds, NEW addr \in Nat, NEW len \in Nat,
           NEW array, kind \in Units => len \in 1..PageSize,
           kind \in {"store", "sin"} => array \in [1..len -> Cells]
    PROVE  MoveOK(Begun(kind, addr, len, array))
  <1> DEFINE j == Begun(kind, addr, len, array)
  <1>0. PICK place \in Nat :
           /\ place = PageOf(addr) * PageSize + (addr % PageSize)
           /\ PageOf(addr) = place \div PageSize /\ addr % PageSize = place % PageSize
    BY PlaceIs
  <1>1. /\ j.at = "check" /\ j.kind = kind /\ j.addr = place /\ j.len = len /\ j.array = array
        /\ j.page = place \div PageSize /\ j.offset = place % PageSize /\ j.done = 0
        /\ j.piece = IF kind \in Units \/ DistFromEnd(place) > len
                     THEN len ELSE DistFromEnd(place)
    BY <1>0 DEF Begun, AtRest
  <1> HIDE DEF j
  <1>2. (Unit(j) <=> kind \in Units) /\ (Stores(j) <=> kind \in {"store", "sin"})
    BY <1>1 DEF Unit, Stores
  <1>3. Within(j) <=> kind \in Units \/ DistFromEnd(place) > len
    BY <1>1, <1>2 DEF Within
  <1>4. j.piece = IF Within(j) THEN j.len ELSE DistFromEnd(j.addr)
    BY <1>1, <1>3
  <1>5. (Unit(j) => j.len \in 1..PageSize) /\ (Stores(j) => j.array \in [1..j.len -> Cells])
    BY <1>1, <1>2
  <1>6. MoveOK(j)
    BY <1>1, <1>4, <1>5 DEF MoveOK
  <1> QED BY <1>6 DEF j

\* What the inputs are.
LEMMA InputIs ==
    ASSUME NEW n \in Nat, NEW v \in InputsOf(n)
    PROVE  v \in [1..n -> Cells] /\ Len(v) = n
  BY DataMemoryAssumption DEF InputsOf

\* What Begin may make of a core.
LEMMA BeginIs ==
    ASSUME NEW c \in Cores, Begin(c)
    PROVE  \E kind \in Kinds, addr \in Nat, len \in Nat : \E array :
              /\ Becomes(c, Begun(kind, addr, len, array))
              /\ kind \in Units => len \in 1..PageSize
              /\ kind \in {"store", "sin"} => array \in [1..len -> Cells] /\ Len(array) = len
              /\ kind \notin {"store", "sin"} => array = <<>>
  <1>1. PICK addr \in Addresses :
           \/ \E w \in Widths :
                 \/ \E kind \in {"load", "atm_loadd"} : Becomes(c, Begun(kind, addr, w, <<>>))
                 \/ \E v \in InputsOf(w) : Becomes(c, Begun("store", addr, w, v))
           \/ \E len \in Lengths :
                 \/ Becomes(c, Begun("sout", addr, len, <<>>))
                 \/ \E v \in InputsOf(len) : Becomes(c, Begun("sin", addr, len, v))
    BY DEF Begin
  <1>2. Widths \subseteq 1..PageSize /\ Widths \subseteq Nat /\ Lengths \subseteq Nat /\ addr \in Nat
    BY DataMemoryAssumption
  <1>4. CASE \E w \in Widths : \E kind \in {"load", "atm_loadd"} :
                Becomes(c, Begun(kind, addr, w, <<>>))
    BY <1>2, <1>4
  <1>5. CASE \E w \in Widths : \E v \in InputsOf(w) : Becomes(c, Begun("store", addr, w, v))
    BY <1>2, <1>5, InputIs
  <1>6. CASE \E len \in Lengths : Becomes(c, Begun("sout", addr, len, <<>>))
    BY <1>2, <1>6
  <1>7. CASE \E len \in Lengths : \E v \in InputsOf(len) : Becomes(c, Begun("sin", addr, len, v))
    BY <1>2, <1>7, InputIs
  <1> QED BY <1>1, <1>4, <1>5, <1>6, <1>7

\* The first check leaves a piece within its page.
LEMMA CheckedMove ==
    ASSUME NEW j, JobOK(j), MoveOK(j), j.at = "check", ~(Unit(j) /\ OverEnd(j))
    PROVE  MoveOK([j EXCEPT !.at = "table"])
  <1> DEFINE t == [j EXCEPT !.at = "table"]
  <1>1. /\ t.at = "table" /\ t.kind = j.kind /\ t.asked = j.asked /\ t.addr = j.addr /\ t.len = j.len
        /\ t.page = j.page /\ t.offset = j.offset /\ t.piece = j.piece /\ t.full = j.full
        /\ t.remaining = j.remaining /\ t.done = j.done /\ t.array = j.array
    BY DEF JobOK, JobFields
  <1>2. /\ j.addr \in Nat /\ j.len \in Nat /\ j.full = 0 /\ j.remaining = 0 /\ j.done = 0
        /\ j.page = j.addr \div PageSize /\ j.offset = j.addr % PageSize
        /\ j.piece = IF Within(j) THEN j.len ELSE DistFromEnd(j.addr)
    BY DEF JobOK, MoveOK
  <1>3. /\ DistFromEnd(j.addr) \in 1..PageSize /\ DistFromEnd(j.addr) = PageSize - j.offset
        /\ j.page * PageSize + j.offset = j.addr /\ j.offset \in 0..(PageSize - 1)
    BY <1>2, DistIs, DivisionIs
  <1>4. j.piece \in Nat /\ j.offset + j.piece <= PageSize /\ (j.piece = 0 => j.len = 0)
    <2>1. PICK n \in Nat, o \in 0..(PageSize - 1), d \in 1..PageSize :
             n = j.len /\ o = j.offset /\ d = DistFromEnd(j.addr) /\ d = PageSize - o
      BY <1>2, <1>3
    <2>2. CASE Unit(j)
      <3>1. j.piece = n /\ o + n - 1 < PageSize
        BY <1>2, <2>1, <2>2, DataMemoryAssumption DEF Within, OverEnd
      <3> QED BY <2>1, <3>1, DataMemoryAssumption
    <2>3. CASE ~Unit(j) /\ d > n
      <3>1. j.piece = n
        BY <1>2, <2>1, <2>3 DEF Within
      <3> QED BY <2>1, <2>3, <3>1, DataMemoryAssumption
    <2>4. CASE ~Within(j)
      <3>1. j.piece = d
        BY <1>2, <2>1, <2>4
      <3> QED BY <2>1, <3>1, DataMemoryAssumption
    <2> QED BY <2>1, <2>2, <2>3, <2>4 DEF Within
  <1> HIDE DEF t
  <1>5. PieceOK(t)
    BY <1>1, <1>2, <1>3, <1>4 DEF PieceOK
  <1>6. LeftOK(t)
    <2>1. Within(t) <=> Within(j)
      BY <1>1 DEF Within, Unit
    <2> QED BY <1>1, <1>2, <1>3, <2>1 DEF LeftOK
  <1>7. (Unit(t) => t.len \in 1..PageSize) /\ (Stores(t) => t.array \in [1..t.len -> Cells])
        /\ t.kind \in Kinds
    BY <1>1 DEF MoveOK, Unit, Stores
  <1>8. t.at = "table" /\ t.done = 0
    BY <1>1, <1>2
  <1>9. MoveOK(t)
    BY <1>5, <1>6, <1>7, <1>8 DEF MoveOK
  <1> QED BY <1>9 DEF t

\* What FlatMemory sees of an access.
FlatJob(j) == 
    [kind |-> j.kind, asked |-> j.asked, addr |-> j.addr, len |-> j.len, done |-> j.done,
     array |-> j.array]

\* Progress changes two fields of it.
LEMMA FlatProgress ==
    ASSUME NEW j, NEW k, NEW x
    PROVE  [FlatJob(j) EXCEPT !.done = @ + k, !.array = x]
             = [kind |-> j.kind, asked |-> j.asked, addr |-> j.addr, len |-> j.len, done |-> j.done + k, array |-> x]
  <1> DEFINE F == {"kind", "asked", "addr", "len", "done", "array"}
             l == [FlatJob(j) EXCEPT !.done = @ + k, !.array = x]
             r == [kind |-> j.kind, asked |-> j.asked, addr |-> j.addr, len |-> j.len, done |-> j.done + k, array |-> x]
  <1>1. l = [f \in F |-> l[f]]
    BY DEF FlatJob
  <1>2. r = [f \in F |-> r[f]]
    OBVIOUS
  <1>3. /\ l.kind = j.kind /\ l.asked = j.asked /\ l.addr = j.addr /\ l.len = j.len
        /\ l.done = j.done + k /\ l.array = x
    BY DEF FlatJob
  <1>4. /\ r.kind = j.kind /\ r.asked = j.asked /\ r.addr = j.addr /\ r.len = j.len
        /\ r.done = j.done + k /\ r.array = x
    OBVIOUS
  <1> HIDE DEF l, r
  <1>5. \A f \in F : l[f] = r[f]
    BY <1>3, <1>4
  <1>6. l = r
    BY <1>1, <1>2, <1>5
  <1> QED BY <1>6 DEF l, r

\* A piece that is only further on its way to be copied.
LEMMA SameMove ==
    ASSUME NEW j, MoveOK(j), j.at \in {"table", "entry"},
           NEW t, t.at \in {"entry", "copy"}, t.kind = j.kind, t.asked = j.asked, t.addr = j.addr, t.len = j.len,
           t.page = j.page, t.offset = j.offset, t.piece = j.piece, t.full = j.full,
           t.remaining = j.remaining, t.done = j.done, t.array = j.array
    PROVE  MoveOK(t) /\ FlatJob(t) = FlatJob(j)
  <1>1. (Unit(t) <=> Unit(j)) /\ (Stores(t) <=> Stores(j)) /\ (Within(t) <=> Within(j))
    BY DEF Unit, Stores, Within
  <1>2. PieceOK(j) /\ LeftOK(j) /\ (Unit(j) /\ j.addr % j.len = 0 => j.done = 0)
    BY DEF MoveOK
  <1>3. PieceOK(t) /\ LeftOK(t) /\ (Unit(t) /\ t.addr % t.len = 0 => t.done = 0)
    BY <1>1, <1>2 DEF PieceOK, LeftOK
  <1>4. /\ Unit(t) => t.len \in 1..PageSize
        /\ Stores(t) => t.array \in [1..t.len -> Cells]
        /\ t.kind \in Kinds
    BY <1>1 DEF MoveOK
  <1>5. MoveOK(t)
    BY <1>3, <1>4 DEF MoveOK
  <1> QED BY <1>5 DEF FlatJob

\* Reading the pointer leaves the piece as it is.
LEMMA TableMove ==
    ASSUME NEW j, JobOK(j), MoveOK(j), j.at = "table"
    PROVE  LET k == [j EXCEPT !.at = "entry", !.table = pages]
           IN  MoveOK(k) /\ FlatJob(k) = FlatJob(j)
  <1> DEFINE t == [j EXCEPT !.at = "entry", !.table = pages]
  <1>1. /\ t.at = "entry" /\ t.kind = j.kind /\ t.asked = j.asked /\ t.addr = j.addr /\ t.len = j.len
        /\ t.page = j.page /\ t.offset = j.offset /\ t.piece = j.piece /\ t.full = j.full
        /\ t.remaining = j.remaining /\ t.done = j.done /\ t.array = j.array
    BY DEF JobOK, JobFields
  <1> HIDE DEF t
  <1>2. MoveOK(t) /\ FlatJob(t) = FlatJob(j)
    BY <1>1, SameMove
  <1> QED BY <1>2 DEF t

\* So does reading the entry.
LEMMA EntryMove ==
    ASSUME NEW j, JobOK(j), MoveOK(j), j.at = "entry"
    PROVE  LET k == [j EXCEPT !.at = "copy", !.table = NoTable]
           IN  MoveOK(k) /\ FlatJob(k) = FlatJob(j)
  <1> DEFINE t == [j EXCEPT !.at = "copy", !.table = NoTable]
  <1>1. /\ t.at = "copy" /\ t.kind = j.kind /\ t.asked = j.asked /\ t.addr = j.addr /\ t.len = j.len
        /\ t.page = j.page /\ t.offset = j.offset /\ t.piece = j.piece /\ t.full = j.full
        /\ t.remaining = j.remaining /\ t.done = j.done /\ t.array = j.array
    BY DEF JobOK, JobFields
  <1> HIDE DEF t
  <1>2. MoveOK(t) /\ FlatJob(t) = FlatJob(j)
    BY <1>1, SameMove
  <1> QED BY <1>2 DEF t

\* Going astray is the last thing a core does here.
LEMMA AstrayMove ==
    ASSUME NEW j, JobOK(j), MoveOK(j), j.at \in {"entry", "copy"}
    PROVE  LET k == [j EXCEPT !.at = "astray"]
           IN  MoveOK(k) /\ FlatJob(k) = FlatJob(j)
  <1> DEFINE t == [j EXCEPT !.at = "astray"]
  <1>1. /\ t.at = "astray" /\ t.kind = j.kind /\ t.asked = j.asked /\ t.addr = j.addr /\ t.len = j.len
        /\ t.done = j.done /\ t.array = j.array
    BY DEF JobOK, JobFields
  <1> HIDE DEF t
  <1>2. MoveOK(t)
    BY <1>1 DEF MoveOK, Unit, Stores
  <1>3. FlatJob(t) = FlatJob(j)
    BY <1>1 DEF FlatJob
  <1> QED BY <1>2, <1>3 DEF t

\* The next page of a transfer begins where the last ended; without one it is over.
LEMMA NextPieceMove ==
    ASSUME NEW j, DOMAIN j = JobFields, j.kind \in {"sout", "sin"},
           j.addr \in Nat, j.len \in Nat, j.page \in Nat, j.done \in Nat,
           j.full \in Nat, j.remaining \in Nat,
           Stores(j) => j.array \in [1..j.len -> Cells],
           ~Within(j), j.done >= DistFromEnd(j.addr), j.remaining < PageSize,
           j.done + j.full * PageSize + j.remaining = j.len,
           j.full # 0 \/ j.remaining # 0 => j.page * PageSize + PageSize = j.addr + j.done
    PROVE  /\ MoveOK(NextPiece(j))
           /\ \/ FlatJob(NextPiece(j)) = FlatJob(j)
              \/ NextPiece(j) = AtRest("ok") /\ j.done = j.len
  <1> USE DataMemoryAssumption
  <1>1. DistFromEnd(j.addr) \in 1..PageSize
    BY DistIs
  <1>2. PICK base \in Nat : base = j.page * PageSize /\ (j.page + 1) * PageSize = base + PageSize
    BY PageTimes
  <1>3. ASSUME NEW t, j.full # 0 \/ j.remaining # 0,
               t.at = "table", t.kind = j.kind, t.asked = j.asked, t.addr = j.addr, t.len = j.len, t.done = j.done,
               t.array = j.array, t.page = j.page + 1, t.offset = 0,
               t.piece \in 1..PageSize, t.full \in Nat, t.remaining \in 0..(PageSize - 1),
               t.done + t.piece + t.full * PageSize + t.remaining = t.len,
               t.full # 0 \/ t.remaining # 0 => t.piece = PageSize
        PROVE  MoveOK(t) /\ FlatJob(t) = FlatJob(j)
    <2>1. ~Unit(t) /\ ~Unit(j) /\ (Stores(t) <=> Stores(j))
      BY <1>3 DEF Unit, Stores
    <2>2. ~Within(t)
      BY <1>3, <2>1 DEF Within
    <2>3. PieceOK(t)
      <3>1. t.page * PageSize + t.offset = t.addr + t.done
        <4>1. t.page * PageSize = base + PageSize
          BY <1>2, <1>3
        <4>2. base + PageSize = j.addr + j.done
          BY <1>2, <1>3
        <4> QED BY <1>2, <1>3, <4>1, <4>2
      <3>2. t.offset = 0 /\ t.piece \in 1..PageSize /\ t.done \in Nat
        BY <1>3
      <3> QED BY <3>1, <3>2 DEF PieceOK
    <2>4. LeftOK(t)
      <3>1. t.done >= DistFromEnd(t.addr) /\ t.done + t.piece > DistFromEnd(t.addr)
        <4>1. t.done \in Nat /\ DistFromEnd(t.addr) \in Nat /\ t.done >= DistFromEnd(t.addr)
          BY <1>1, <1>3
        <4>2. t.piece \in Nat /\ t.piece > 0
          BY <1>3, InAPage, Zenon
        <4> QED BY <4>1, <4>2, AddMore, Zenon
      <3>2. t.full # 0 \/ t.remaining # 0 => t.offset + t.piece = PageSize
        BY <1>3
      <3> QED BY <1>3, <2>2, <3>1, <3>2 DEF LeftOK
    <2>5. MoveOK(t)
      <3>1. Stores(t) => t.array \in [1..t.len -> Cells]
        BY <1>3, <2>1
      <3>2. t.kind \in Kinds
        BY <1>3
      <3> QED BY <1>3, <2>1, <2>3, <2>4, <3>1, <3>2 DEF MoveOK
    <2> QED BY <1>3, <2>5 DEF FlatJob
  <1>4. CASE j.full > 0
    <2> DEFINE t == [NextPage(j) EXCEPT !.piece = PageSize, !.full = @ - 1]
    <2>1. NextPiece(j) = t
      BY <1>4 DEF NextPiece
    <2>2. /\ t.at = "table" /\ t.kind = j.kind /\ t.asked = j.asked /\ t.addr = j.addr /\ t.len = j.len /\ t.done = j.done
          /\ t.array = j.array /\ t.page = j.page + 1 /\ t.offset = 0
          /\ t.piece = PageSize /\ t.full = j.full - 1 /\ t.remaining = j.remaining
      BY DEF NextPage, JobFields
    <2> HIDE DEF t
    <2>3. (j.full - 1) * PageSize + PageSize = j.full * PageSize /\ j.full - 1 \in Nat
      BY <1>4, LessAPage
    <2>4. t.full * PageSize \in Nat /\ t.full * PageSize + PageSize = j.full * PageSize
      BY <2>2, <2>3, PageTimes
    <2>5. t.done + t.piece + t.full * PageSize + t.remaining = t.len
      BY <2>2, <2>4
    <2>6. /\ j.full # 0 \/ j.remaining # 0
          /\ t.piece \in 1..PageSize /\ t.full \in Nat /\ t.remaining \in 0..(PageSize - 1)
          /\ t.full # 0 \/ t.remaining # 0 => t.piece = PageSize
      BY <1>4, <2>2, <2>3
    <2>7. MoveOK(t) /\ FlatJob(t) = FlatJob(j)
      BY <1>3, <2>2, <2>5, <2>6, Zenon
    <2> QED BY <2>1, <2>7
  <1>5. CASE j.full = 0 /\ j.remaining > 0
    <2> DEFINE t == [NextPage(j) EXCEPT !.piece = j.remaining, !.remaining = 0]
    <2>1. NextPiece(j) = t
      BY <1>5 DEF NextPiece
    <2>2. /\ t.at = "table" /\ t.kind = j.kind /\ t.asked = j.asked /\ t.addr = j.addr /\ t.len = j.len /\ t.done = j.done
          /\ t.array = j.array /\ t.page = j.page + 1 /\ t.offset = 0
          /\ t.piece = j.remaining /\ t.full = 0 /\ t.remaining = 0
      BY <1>5 DEF NextPage, JobFields
    <2> HIDE DEF t
    <2>3. t.done + t.piece + t.full * PageSize + t.remaining = t.len
      <3>1. PICK none \in Nat : none = j.full * PageSize /\ none = t.full * PageSize /\ none = 0
        BY <1>5, <2>2
      <3>2. j.done + none + j.remaining = j.len
        BY <3>1
      <3>3. t.done + t.piece + none + t.remaining = t.len
        <4>1. /\ j.done \in Nat /\ j.remaining \in Nat
              /\ t.done = j.done /\ t.piece = j.remaining /\ t.remaining = 0 /\ t.len = j.len
          BY <2>2
        <4> QED BY <3>1, <3>2, <4>1
      <3> QED BY <3>1, <3>3
    <2>4. /\ j.full # 0 \/ j.remaining # 0
          /\ t.piece \in 1..PageSize /\ t.full \in Nat /\ t.remaining \in 0..(PageSize - 1)
          /\ t.full # 0 \/ t.remaining # 0 => t.piece = PageSize
      BY <1>5, <2>2
    <2>5. MoveOK(t) /\ FlatJob(t) = FlatJob(j)
      BY <1>3, <2>2, <2>3, <2>4, Zenon
    <2> QED BY <2>1, <2>5
  <1>6. CASE j.full = 0 /\ j.remaining = 0
    <2>1. NextPiece(j) = AtRest("ok")
      BY <1>6 DEF NextPiece
    <2>2. j.full * PageSize = 0
      BY <1>6
    <2> QED BY <1>6, <2>1, <2>2, RestMove
  <1> QED BY <1>4, <1>5, <1>6

\* How many cells a step of a memcpy may copy: a unit in its place, all at once.
Step(j, k) ==
    /\ k \in 0..j.piece /\ (k = 0 => j.piece = 0)
    /\ Unit(j) /\ j.addr % j.len = 0 => k = j.len

\* Copying k cells is that much progress, and the access may be over.
LEMMA CopiedMove ==
    ASSUME NEW j, JobOK(j), MoveOK(j), j.at = "copy", NEW k, Step(j, k)
    PROVE  /\ MoveOK(Copied(j, k))
           /\ \/ Copied(j, k) = AtRest("ok") /\ j.done + k = j.len
              \/ k # 0 /\ FlatJob(Copied(j, k)) =
                    [FlatJob(j) EXCEPT
                       !.done = @ + k,
                       !.array = IF Stores(j) THEN @
                                 ELSE @ \o [i \in 1..k |-> address_space[j.page][j.offset + i - 1]]]
  <1> USE DataMemoryAssumption
  <1> DEFINE array == IF Stores(j) THEN j.array
                      ELSE j.array \o [i \in 1..k |-> address_space[j.page][j.offset + i - 1]]
             m == [j EXCEPT !.done = @ + k, !.offset = @ + k, !.piece = @ - k, !.array = array]
  <1>1. Copied(j, k) = IF m.piece = 0 THEN AfterPiece(m) ELSE m
    BY DEF Copied
  <1> HIDE DEF array
  <1>2. /\ DOMAIN m = JobFields /\ m.at = "copy" /\ m.kind = j.kind /\ m.asked = j.asked /\ m.addr = j.addr
        /\ m.len = j.len /\ m.page = j.page /\ m.full = j.full /\ m.remaining = j.remaining
        /\ m.done = j.done + k /\ m.offset = j.offset + k /\ m.piece = j.piece - k
        /\ m.array = array
    BY DEF JobOK, JobFields
  <1> HIDE DEF m
  <1>3. (Unit(m) <=> Unit(j)) /\ (Stores(m) <=> Stores(j)) /\ (Within(m) <=> Within(j))
    BY <1>2 DEF Unit, Stores, Within
  <1>4. /\ j.addr \in Nat /\ j.len \in Nat /\ j.page \in Nat /\ j.full \in Nat /\ j.remaining \in Nat
        /\ PieceOK(j) /\ LeftOK(j) /\ (Unit(j) /\ j.addr % j.len = 0 => j.done = 0)
        /\ j.kind \in Kinds
        /\ Unit(j) => j.len \in 1..PageSize
        /\ Stores(m) => m.array \in [1..m.len -> Cells]
    BY <1>2, <1>3 DEF JobOK, MoveOK, array
  <1>5. /\ j.piece \in Nat /\ j.offset \in Nat /\ j.done \in Nat /\ k \in Nat /\ k <= j.piece
        /\ DistFromEnd(j.addr) \in 1..PageSize
    <2>1. DistFromEnd(j.addr) \in 1..PageSize
      BY <1>4, DistIs
    <2>2. j.piece \in Nat /\ j.offset \in Nat /\ j.done \in Nat
      BY <1>4 DEF PieceOK
    <2>3. k \in 0..j.piece
      BY DEF Step
    <2> QED BY <2>1, <2>2, <2>3
  <1>6. FlatJob(m) = [FlatJob(j) EXCEPT !.done = @ + k, !.array = array]
    <2>1. FlatJob(m) = [kind |-> j.kind, asked |-> j.asked, addr |-> j.addr, len |-> j.len,
                        done |-> j.done + k, array |-> array]
      BY <1>2, Zenon DEF FlatJob
    <2>2. [FlatJob(j) EXCEPT !.done = @ + k, !.array = array]
            = [kind |-> j.kind, asked |-> j.asked, addr |-> j.addr, len |-> j.len,
               done |-> j.done + k, array |-> array]
      BY FlatProgress
    <2> QED BY <2>1, <2>2
  <1>7. PICK base \in Nat : base = j.page * PageSize
    BY <1>4, PageTimes
  <1>8. PICK more \in Nat : more = j.full * PageSize
    BY <1>4, PageTimes
  <1>9. /\ base + j.offset = j.addr + j.done /\ j.offset + j.piece <= PageSize
        /\ j.piece = 0 => j.len = 0
    BY <1>4, <1>7 DEF PieceOK
  <1>10. m.piece # 0 \/ ~Within(j) => k # 0
    <2>1. k = 0 => j.piece = 0 /\ j.len = 0
      BY <1>9 DEF Step
    <2>2. DistFromEnd(j.addr) > 0
      BY <1>5
    <2> QED BY <1>2, <1>5, <2>1, <2>2 DEF Within
  <1>11. CASE m.piece # 0
    <2>1. PieceOK(m)
      <3>1. m.page * PageSize + m.offset = m.addr + m.done
        <4>1. m.page * PageSize = base
          BY <1>2, <1>7
        <4>2. base + m.offset = m.addr + m.done
          <5>1. m.offset = j.offset + k /\ m.done = j.done + k /\ m.addr = j.addr
            BY <1>2
          <5>2. base + j.offset = j.addr + j.done
            BY <1>9
          <5>3. j.offset \in Nat /\ j.done \in Nat /\ k \in Nat /\ j.addr \in Nat
            BY <1>4, <1>5
          <5>4. base + (j.offset + k) = j.addr + (j.done + k)
            BY <5>2, <5>3, MoveOn
          <5> QED BY <5>1, <5>4
        <4> QED BY <4>1, <4>2
      <3>2. m.offset \in Nat /\ m.piece \in Nat /\ m.done \in Nat
        BY <1>2, <1>5
      <3>3. m.offset + m.piece <= PageSize
        <4>1. PICK o \in Nat, piece \in Nat : o = j.offset /\ piece = j.piece
          BY <1>5
        <4>2. m.offset = o + k /\ m.piece = piece - k /\ o + piece <= PageSize
          BY <1>2, <1>9, <4>1
        <4> QED BY <1>5, <4>2
      <3> QED BY <1>11, <3>1, <3>2, <3>3 DEF PieceOK
    <2>2. m.done + m.piece = j.done + j.piece /\ m.offset + m.piece = j.offset + j.piece
          /\ m.done >= j.done
      BY <1>2, <1>5
    <2>3. LeftOK(m)
      <3>1. CASE Within(j) /\ j.full = 0 /\ j.remaining = 0 /\ j.done + j.piece = j.len
        BY <1>2, <1>3, <2>2, <3>1 DEF LeftOK
      <3>2. CASE /\ ~Within(j) /\ j.full = 0 /\ j.remaining = 0
                 /\ j.done + j.piece = DistFromEnd(j.addr) /\ j.page = j.addr \div PageSize
        BY <1>2, <1>3, <2>2, <3>2 DEF LeftOK
      <3>3. CASE /\ ~Within(j) /\ j.done >= DistFromEnd(j.addr) /\ j.remaining < PageSize
                 /\ j.done + j.piece > DistFromEnd(j.addr)
                 /\ j.done + j.piece + j.full * PageSize + j.remaining = j.len
                 /\ j.full # 0 \/ j.remaining # 0 => j.offset + j.piece = PageSize
        <4>1. m.done >= DistFromEnd(m.addr)
          BY <1>2, <1>5, <3>3
        <4>2. m.done + m.piece + m.full * PageSize + m.remaining = m.len
          BY <1>2, <2>2, <3>3
        <4> QED BY <1>2, <1>3, <2>2, <3>3, <4>1, <4>2 DEF LeftOK
      <3> QED BY <1>4, <3>1, <3>2, <3>3 DEF LeftOK
    <2>4. ~(Unit(m) /\ m.addr % m.len = 0)
      <3> SUFFICES ASSUME Unit(j), j.addr % j.len = 0 PROVE FALSE
        BY <1>2, <1>3
      <3>1. k = j.len /\ j.done = 0
        BY <1>4 DEF Step
      <3>2. j.done + j.piece = j.len
        BY <1>4 DEF LeftOK, Within
      <3> QED BY <1>2, <1>5, <1>11, <3>1, <3>2
    <2>5. MoveOK(m)
      BY <1>2, <1>3, <1>4, <2>1, <2>3, <2>4 DEF MoveOK
    <2> QED BY <1>1, <1>6, <1>11, <1>10, <2>5 DEF FlatJob, array
  <1>12. CASE m.piece = 0 /\ Within(j)
    <2>1. Copied(j, k) = AtRest("ok")
      BY <1>1, <1>3, <1>12 DEF AfterPiece, Within
    <2>2. j.done + k = j.len
      BY <1>2, <1>4, <1>5, <1>12 DEF LeftOK
    <2> QED BY <2>1, <2>2, RestMove
  <1>13. CASE m.piece = 0 /\ ~Within(j)
    <2>1. k = j.piece /\ m.done = j.done + j.piece
      BY <1>2, <1>5, <1>13
    <2>2. CASE /\ j.full = 0 /\ j.remaining = 0
               /\ j.done + j.piece = DistFromEnd(j.addr) /\ j.page = j.addr \div PageSize
      <3> DEFINE r == [m EXCEPT !.at = "recheck"]
      <3>1. Copied(j, k) = r
        BY <1>1, <1>2, <1>3, <1>13, <2>1, <2>2 DEF AfterPiece, Within
      <3>2. /\ r.at = "recheck" /\ r.kind = m.kind /\ r.asked = m.asked /\ r.addr = m.addr /\ r.len = m.len
            /\ r.page = m.page /\ r.full = m.full /\ r.remaining = m.remaining
            /\ r.done = m.done /\ r.array = m.array
        BY <1>2 DEF JobFields
      <3> HIDE DEF r
      <3>3. ~Within(r) /\ ~Unit(r) /\ (Stores(r) <=> Stores(m))
        BY <1>3, <1>13, <3>2 DEF Within, Unit, Stores
      <3>4. MoveOK(r)
        <4>1. r.page = r.addr \div PageSize /\ r.full = 0 /\ r.remaining = 0
          BY <1>2, <2>2, <3>2
        <4>2. r.kind \in Kinds
              /\ (Stores(r) => r.array \in [1..r.len -> Cells])
          BY <1>2, <1>4, <3>2, <3>3
        <4> QED BY <3>2, <3>3, <4>1, <4>2 DEF MoveOK
      <3>5. FlatJob(r) = FlatJob(m)
        BY <3>2 DEF FlatJob
      <3> QED BY <1>6, <1>13, <1>10, <3>1, <3>4, <3>5 DEF FlatJob, array
    <2>3. CASE /\ j.done >= DistFromEnd(j.addr) /\ j.remaining < PageSize
               /\ j.done + j.piece > DistFromEnd(j.addr)
               /\ j.done + j.piece + j.full * PageSize + j.remaining = j.len
               /\ j.full # 0 \/ j.remaining # 0 => j.offset + j.piece = PageSize
      <3>1. m.done # DistFromEnd(m.addr) /\ m.done >= DistFromEnd(m.addr) /\ m.done \in Nat
        <4>1. m.done = j.done + j.piece /\ m.addr = j.addr
          BY <1>2, <2>1
        <4>2. j.done + j.piece > DistFromEnd(j.addr)
          BY <2>3
        <4>3. j.done \in Nat /\ j.piece \in Nat /\ DistFromEnd(j.addr) \in Nat
          BY <1>5
        <4> QED BY <4>1, <4>2, <4>3
      <3>2. Copied(j, k) = NextPiece(m)
        BY <1>1, <1>3, <1>13, <3>1 DEF AfterPiece, Within
      <3>3. m.done + m.full * PageSize + m.remaining = m.len
        BY <1>2, <2>1, <2>3
      <3>4. m.full # 0 \/ m.remaining # 0 => m.page * PageSize + PageSize = m.addr + m.done
        <4>1. m.page * PageSize = base
          BY <1>2, <1>7
        <4>2. m.full # 0 \/ m.remaining # 0 => base + PageSize = m.addr + m.done
          <5>1. m.full # 0 \/ m.remaining # 0 => j.offset + j.piece = PageSize
            BY <1>2, <2>3
          <5>2. m.done = j.done + j.piece /\ m.addr = j.addr
            BY <1>2, <2>1
          <5>3. base + j.offset = j.addr + j.done
            BY <1>9
          <5>4. PICK o \in Nat, d \in Nat, piece \in Nat, a \in Nat :
                   o = j.offset /\ d = j.done /\ piece = j.piece /\ a = j.addr
            BY <1>4, <1>5
          <5>5. o + piece = PageSize => base + PageSize = a + (d + piece)
            <6>1. base + o = a + d
              BY <5>3, <5>4
            <6> HIDE DataMemoryAssumption
            <6> QED BY <6>1
          <5>6. m.full # 0 \/ m.remaining # 0 => o + piece = PageSize
            BY <5>1, <5>4
          <5>7. m.addr + m.done = a + (d + piece)
            BY <5>2, <5>4
          <5> QED BY <5>5, <5>6, <5>7
        <4> QED BY <4>1, <4>2
      <3>5. m.kind \in {"sout", "sin"}
        BY <1>2, <1>4, <1>13 DEF Within, Unit
      <3>6. /\ MoveOK(NextPiece(m))
            /\ \/ FlatJob(NextPiece(m)) = FlatJob(m)
               \/ NextPiece(m) = AtRest("ok") /\ m.done = m.len
        BY <1>2, <1>3, <1>4, <1>13, <2>3, <3>1, <3>3, <3>4, <3>5, NextPieceMove
      <3> QED BY <1>2, <1>6, <1>13, <1>10, <2>1, <3>2, <3>6 DEF FlatJob, array
    <2> QED BY <1>4, <1>13, <2>2, <2>3 DEF LeftOK
  <1> QED BY <1>11, <1>12, <1>13

\* A piece reaches no further than the access, nor than the pages that are counted.
LEMMA PieceInLen ==
    ASSUME NEW j, JobOK(j), MoveOK(j), j.at = "copy", number_of_pages \in Nat
    PROVE  /\ j.done \in Nat /\ j.piece \in Nat /\ j.offset \in Nat /\ j.page \in Nat
           /\ j.addr \in Nat /\ j.len \in Nat
           /\ j.done + j.piece <= j.len /\ j.offset + j.piece <= PageSize
           /\ j.page < number_of_pages
  <1>1. /\ j.addr \in Nat /\ j.len \in Nat /\ j.page \in Nat /\ j.full \in Nat /\ j.remaining \in Nat
        /\ PieceOK(j) /\ LeftOK(j)
        /\ j.page + j.full + (IF j.remaining > 0 THEN 1 ELSE 0) < number_of_pages
    BY DEF JobOK, MoveOK
  <1>2. /\ j.done \in Nat /\ j.piece \in Nat /\ j.offset \in Nat
        /\ j.offset + j.piece <= PageSize
    BY <1>1 DEF PieceOK
  <1>3. j.page < number_of_pages
    BY <1>1
  <1>4. j.done + j.piece <= j.len
    <2>1. PICK more \in Nat : more = j.full * PageSize
      BY <1>1, PageTimes
    <2>2. CASE Within(j) /\ j.done + j.piece = j.len
      BY <1>1, <1>2, <2>2
    <2>3. CASE ~Within(j) /\ j.done + j.piece = DistFromEnd(j.addr)
      <3>1. DistFromEnd(j.addr) \in Nat /\ DistFromEnd(j.addr) <= j.len
        BY <1>1, <2>3, DistIs DEF Within
      <3> QED BY <1>1, <1>2, <2>3, <3>1
    <2>4. CASE j.done + j.piece + j.full * PageSize + j.remaining = j.len
      BY <1>1, <1>2, <2>1, <2>4
    <2> QED BY <1>1, <2>2, <2>3, <2>4 DEF LeftOK
  <1> QED BY <1>1, <1>2, <1>3, <1>4

\* What a step of a memcpy does.
LEMMA CopyIs ==
    ASSUME NEW c \in Cores, Copy(c), JobOK(jobs[c]), MoveOK(jobs[c])
    PROVE  \E k \in Nat :
              /\ Step(jobs[c], k) /\ Becomes(c, Copied(jobs[c], k))
              /\ address_space' =
                   IF ~Stores(jobs[c]) THEN address_space
                   ELSE [address_space EXCEPT ![jobs[c].page] =
                           [o \in Offsets |->
                              IF o \in jobs[c].offset..(jobs[c].offset + k - 1)
                              THEN jobs[c].array[jobs[c].done + o - jobs[c].offset + 1]
                              ELSE @[o]]]
  <1> DEFINE j == jobs[c]
             k == IF Unit(j) /\ j.addr % j.len = 0 THEN j.len
                  ELSE IF j.piece = 0 THEN 0 ELSE 1
  <1>1. j.at = "copy" /\ PieceOK(j) /\ LeftOK(j) /\ (Unit(j) /\ j.addr % j.len = 0 => j.done = 0)
        /\ j.len \in Nat
    BY DEF Copy, MoveOK, JobOK
  <1>2. j.piece \in Nat /\ j.done \in Nat
    BY <1>1 DEF PieceOK
  <1>3. Unit(j) => j.done + j.piece = j.len
    BY <1>1 DEF LeftOK, Within
  <1>4. Step(j, k) /\ k \in Nat
    <2>1. CASE Unit(j) /\ j.addr % j.len = 0
      <3>1. j.piece = j.len /\ k = j.len
        BY <1>1, <1>2, <1>3, <2>1
      <3> HIDE DEF k, j
      <3> QED BY <1>1, <1>2, <3>1 DEF Step
    <2>2. CASE ~(Unit(j) /\ j.addr % j.len = 0)
      <3>1. k = IF j.piece = 0 THEN 0 ELSE 1
        BY <2>2
      <3> HIDE DEF k, j
      <3> QED BY <1>2, <2>2, <3>1 DEF Step
    <2> QED BY <2>1, <2>2
  <1>5. Becomes(c, Copied(j, k)) /\ address_space' =
                   IF ~Stores(j) THEN address_space
                   ELSE [address_space EXCEPT ![j.page] =
                           [o \in Offsets |-> IF o \in j.offset..(j.offset + k - 1)
                                              THEN j.array[j.done + o - j.offset + 1]
                                              ELSE @[o]]]
    BY DEF Copy
  <1> HIDE DEF k
  <1> QED BY <1>4, <1>5

\* The check of the other pages splits what is left into whole pages and a rest.
LEMMA RecheckMove ==
    ASSUME NEW j, JobOK(j), MoveOK(j), j.at = "recheck",
           NEW full, NEW remaining,
           full = (j.len - j.done) \div PageSize, remaining = (j.len - j.done) % PageSize
    PROVE  LET next == [j EXCEPT !.full = full, !.remaining = remaining]
           IN  /\ MoveOK(NextPiece(next))
               /\ \/ FlatJob(NextPiece(next)) = FlatJob(j)
                  \/ NextPiece(next) = AtRest("ok") /\ j.done = j.len
  <1> DEFINE n == [j EXCEPT !.full = full, !.remaining = remaining]
  <1>1. /\ DOMAIN n = JobFields /\ n.kind = j.kind /\ n.asked = j.asked /\ n.addr = j.addr /\ n.len = j.len
        /\ n.page = j.page /\ n.done = j.done /\ n.array = j.array
        /\ n.full = full /\ n.remaining = remaining
    BY DEF JobOK, JobFields
  <1> HIDE DEF n
  <1>2. /\ j.addr \in Nat /\ j.len \in Nat /\ j.page \in Nat
        /\ j.done = DistFromEnd(j.addr) /\ j.done <= j.len
        /\ ~Within(j) /\ j.page = j.addr \div PageSize
        /\ j.kind \in Kinds
        /\ Stores(j) => j.array \in [1..j.len -> Cells]
    BY DEF JobOK, MoveOK
  <1>3. j.done \in Nat /\ j.page * PageSize + PageSize = j.addr + j.done
    <2>1. /\ DistFromEnd(j.addr) \in Nat
          /\ j.addr + DistFromEnd(j.addr) = (j.addr \div PageSize) * PageSize + PageSize
      <3>1. j.addr \in Nat
        BY <1>2
      <3> QED BY <3>1, DistIs
    <2>2. j.done = DistFromEnd(j.addr) /\ j.page = j.addr \div PageSize
      BY <1>2
    <2> QED BY <2>1, <2>2
  <1>4. PICK left \in Nat : left = j.len - j.done
    BY <1>2, <1>3
  <1>5. /\ full \in Nat /\ remaining \in 0..(PageSize - 1)
        /\ left = full * PageSize + remaining
    BY <1>4, DivisionIs
  <1>6. n.done + n.full * PageSize + n.remaining = n.len
    <2>1. PICK whole \in Nat : whole = full * PageSize
      BY <1>5, PageTimes
    <2>2. j.done + whole + remaining = j.len
      <3>1. left = whole + remaining /\ remaining \in Nat
        BY <1>5, <2>1
      <3>2. j.done \in Nat /\ j.len \in Nat
        BY <1>2, <1>3
      <3> QED BY <1>4, <3>1, <3>2
    <2> QED BY <1>1, <2>1, <2>2
  <1>7. ~Within(n) /\ (Stores(n) <=> Stores(j)) /\ n.kind \in {"sout", "sin"}
    BY <1>1, <1>2 DEF Within, Unit, Stores
  <1>8. n.page * PageSize + PageSize = n.addr + n.done
    BY <1>1, <1>3
  <1>9. n.remaining \in Nat /\ n.remaining < PageSize /\ n.done >= DistFromEnd(n.addr)
    <2>1. n.remaining = remaining /\ remaining \in 0..(PageSize - 1)
      BY <1>1, <1>5
    <2>2. n.done = DistFromEnd(n.addr) /\ n.done \in Nat
      BY <1>1, <1>2, <1>3
    <2> QED BY <2>1, <2>2, DataMemoryAssumption
  <1>10. Stores(n) => n.array \in [1..n.len -> Cells]
    BY <1>1, <1>2, <1>7
  <1>11. /\ n.addr \in Nat /\ n.len \in Nat /\ n.page \in Nat /\ n.done \in Nat /\ n.full \in Nat
    BY <1>1, <1>2, <1>3, <1>5
  <1>12. /\ MoveOK(NextPiece(n))
         /\ \/ FlatJob(NextPiece(n)) = FlatJob(n)
            \/ NextPiece(n) = AtRest("ok") /\ n.done = n.len
    BY <1>1, <1>6, <1>7, <1>8, <1>9, <1>10, <1>11, NextPieceMove
  <1>13. FlatJob(n) = FlatJob(j)
    BY <1>1 DEF FlatJob
  <1> QED BY <1>1, <1>12, <1>13 DEF n

\* merry_dmemory_init fills the pages with zeros.
LEMMA InitMem == Init => MemOK /\ MovesOK
  <1>1. Init => MemOK
    BY DataMemoryAssumption DEF Init, MemOK, NoTable, Offsets
  <1>2. Init => MovesOK
    BY RestMove DEF Init, MovesOK
  <1> QED BY <1>1, <1>2

\* The OS's steps write no cell, and count no page that has no number.
LEMMA GrowsMem == IInv /\ MemOK /\ MovesOK /\ Grows => MemOK' /\ MovesOK'
  <1> SUFFICES ASSUME IInv, MemOK, MovesOK, Grows PROVE MemOK' /\ MovesOK'
    OBVIOUS
  <1> USE DataMemoryAssumption
  <1>1. MovesOK'
    <2>1. jobs' = jobs
      BY DEF Grows, GrowRealloc, GrowAssign, GrowRestore, GrowPage, GrowCount
    <2> QED BY <2>1 DEF MovesOK, MoveOK, PieceOK, LeftOK, Within, DistFromEnd, Unit, Stores, AtRest
  <1>2. MemOK'
    <2> USE DEF MemOK, NoTable
    <2>1. CASE GrowRealloc
      <3>1. /\ live' \in 0..MaxMoves /\ live <= live' /\ os'.got \in {NoTable} \cup (0..live')
            /\ live \in Nat
        BY <2>1 DEF GrowRealloc
      <3>2. pages' \in {NoTable} \cup (0..live')
        BY <2>1, <3>1 DEF GrowRealloc
      <3> QED BY <2>1, <3>1, <3>2 DEF GrowRealloc
    <2>2. CASE GrowAssign
      BY <2>2 DEF GrowAssign, IInv, GrowOK
    <2>3. CASE GrowRestore
      BY <2>3 DEF GrowRestore
    <2>4. CASE GrowPage
      <3>1. unmapped' \subseteq InitPages..(MaxPages - 1)
        BY <2>4 DEF GrowPage
      <3>2. os'.got \in {NoTable} \cup (0..live) /\ UNCHANGED <<number_of_pages, pages, live, address_space>>
        BY <2>4 DEF GrowPage, IInv, GrowOK
      <3>3. number_of_pages < MaxPages
        BY <2>4 DEF GrowPage
      <3> QED BY <3>1, <3>2, <3>3
    <2>5. CASE GrowCount
      <3>1. /\ number_of_pages' = number_of_pages + 1 /\ number_of_pages' \in InitPages..MaxPages
            /\ os' = [at |-> "idle", got |-> NoTable]
            /\ UNCHANGED <<pages, live, unmapped, address_space>>
        BY <2>5 DEF GrowCount
      <3>2. \A p \in Pages : p >= number_of_pages' => p >= number_of_pages
        BY <3>1 DEF Pages
      <3> QED BY <3>1, <3>2
    <2> QED BY <2>1, <2>2, <2>3, <2>4, <2>5 DEF Grows
  <1> QED BY <1>1, <1>2

\* A core writes only cells of pages that are counted.
LEMMA CopyMem ==
    ASSUME IInv, MemOK, MovesOK, NEW c \in Cores, Copy(c) PROVE MemOK'
  <1> USE DataMemoryAssumption
  <1> DEFINE j == jobs[c]
  <1>1. JobOK(j) /\ MoveOK(j) /\ j.at = "copy" /\ number_of_pages \in Nat
    BY DEF IInv, JobsOK, GrowOK, MovesOK, Copy
  <1>2. PICK k \in Nat :
           /\ Step(j, k)
           /\ address_space' =
                IF ~Stores(j) THEN address_space
                ELSE [address_space EXCEPT ![j.page] =
                        [o \in Offsets |-> IF o \in j.offset..(j.offset + k - 1)
                                           THEN j.array[j.done + o - j.offset + 1]
                                           ELSE @[o]]]
    BY <1>1, CopyIs
  <1>3. /\ j.done \in Nat /\ j.piece \in Nat /\ j.offset \in Nat /\ j.len \in Nat
        /\ j.done + j.piece <= j.len /\ j.offset + j.piece <= PageSize
        /\ j.page \in Nat /\ j.page < number_of_pages /\ k <= j.piece
    BY <1>1, <1>2, PieceInLen DEF Step
  <1>4. j.page \in Pages
    <2>1. number_of_pages <= MaxPages
      BY DEF MemOK
    <2>2. \A p, n \in Nat : p < n /\ n <= MaxPages => p \in 0..(MaxPages - 1)
      OBVIOUS
    <2> QED BY <1>1, <1>3, <2>1, <2>2 DEF Pages
  <1>5. Stores(j) => j.array \in [1..j.len -> Cells]
    BY <1>1 DEF MoveOK
  <1>6. /\ UNCHANGED <<number_of_pages, pages, live, entries, unmapped, os>>
        /\ address_space \in [Pages -> [Offsets -> Cells]]
    BY DEF Copy, MemOK
  <1> HIDE DEF j
  <1>7. CASE ~Stores(j)
    BY <1>2, <1>6, <1>7 DEF MemOK
  <1>8. CASE Stores(j)
    <2> DEFINE page == [o \in Offsets |-> IF o \in j.offset..(j.offset + k - 1)
                                          THEN j.array[j.done + o - j.offset + 1]
                                          ELSE address_space[j.page][o]]
    <2>1. address_space' = [address_space EXCEPT ![j.page] = page]
      BY <1>2, <1>4, <1>6, <1>8
    <2>2. page \in [Offsets -> Cells]
      <3> SUFFICES ASSUME NEW o \in Offsets, o \in j.offset..(j.offset + k - 1)
                   PROVE  j.array[j.done + o - j.offset + 1] \in Cells
        BY <1>4, <1>6
      <3>1. PICK d \in Nat, start \in Nat, len \in Nat :
               d = j.done /\ start = j.offset /\ len = j.len /\ d + k <= len
        <4>1. PICK d \in Nat, piece \in Nat, len \in Nat :
                 d = j.done /\ piece = j.piece /\ len = j.len
          BY <1>3
        <4>2. d + piece <= len /\ k <= piece
          BY <1>3, <4>1
        <4>3. d + k <= len
          BY <4>2
        <4>4. PICK start \in Nat : start = j.offset
          BY <1>3
        <4> QED BY <4>1, <4>3, <4>4
      <3>2. o \in start..(start + k - 1)
        BY <3>1
      <3>3. d + o - start + 1 \in 1..len
        <4>1. d + k <= len
          BY <3>1
        <4> QED BY <3>2, <4>1
      <3>4. j.done + o - j.offset + 1 \in 1..j.len
        BY <3>1, <3>3
      <3> QED BY <1>5, <1>8, <3>4
    <2> HIDE DEF page
    <2>3. address_space' \in [Pages -> [Offsets -> Cells]]
      BY <1>4, <1>6, <2>1, <2>2
    <2>4. \A p \in Pages : p >= number_of_pages => p # j.page
      BY <1>1, <1>3 DEF Pages
    <2>5. \A p \in Pages : p >= number_of_pages => address_space'[p] = address_space[p]
      BY <1>6, <2>1, <2>4
    <2> QED BY <1>6, <2>3, <2>5 DEF MemOK
  <1> QED BY <1>7, <1>8

\* Every step keeps the memory and the moves.
LEMMA StepMem == IInv /\ MemOK /\ MovesOK /\ [Next]_vars => MemOK' /\ MovesOK'
  <1> SUFFICES ASSUME IInv, MemOK, MovesOK, [Next]_vars PROVE MemOK' /\ MovesOK'
    OBVIOUS
  <1>1. CASE Grows
    BY <1>1, GrowsMem
  <1>2. ASSUME NEW c \in Cores, CoreStep(c) PROVE MemOK' /\ MovesOK'
    <2> DEFINE j == jobs[c]
    <2>0. JobsOK /\ JobOK(j) /\ MoveOK(j) /\ number_of_pages \in Nat
      BY DEF IInv, JobsOK, GrowOK, MovesOK
    <2>1. CASE Begin(c)
      <3>0. PICK kind \in Kinds, addr \in Nat, len \in Nat :
              \E array :
                  /\ Becomes(c, Begun(kind, addr, len, array))
                  /\ kind \in Units => len \in 1..PageSize
                  /\ kind \in {"store", "sin"} => array \in [1..len -> Cells] /\ Len(array) = len
                  /\ kind \notin {"store", "sin"} => array = <<>>
        BY <2>1, BeginIs
      <3>1. PICK array :
              /\ Becomes(c, Begun(kind, addr, len, array))
              /\ kind \in Units => len \in 1..PageSize
              /\ kind \in {"store", "sin"} => array \in [1..len -> Cells] /\ Len(array) = len
              /\ kind \notin {"store", "sin"} => array = <<>>
        BY <3>0
      <3>2. MoveOK(Begun(kind, addr, len, array))
        BY <3>1, BegunMove
      <3>3. MovesOK'
        BY <2>0, <3>1, <3>2, OneMove
      <3>4. UNCHANGED shared
        BY <2>1 DEF Begin
      <3> QED BY <3>3, <3>4 DEF MemOK, shared
    <2>2. CASE Check(c)
      <3>1. UNCHANGED shared
        BY <2>2 DEF Check, Refused
      <3>2. MovesOK'
        <4>1. CASE Refused(c)
          BY <2>0, <4>1, RestMove, OneMove DEF Refused
        <4>2. CASE ~(Unit(j) /\ OverEnd(j)) /\ Becomes(c, [j EXCEPT !.at = "table"])
          <5>1. MoveOK([j EXCEPT !.at = "table"])
            BY <2>0, <2>2, <4>2, CheckedMove DEF Check
          <5> QED BY <2>0, <4>2, <5>1, OneMove
        <4> QED BY <2>2, <4>1, <4>2 DEF Check
      <3> QED BY <3>1, <3>2 DEF MemOK, shared
    <2>3. CASE LoadTable(c)
      <3>1. MoveOK([j EXCEPT !.at = "entry", !.table = pages])
        BY <2>0, <2>3, TableMove DEF LoadTable
      <3>2. MovesOK'
        BY <2>0, <2>3, <3>1, OneMove DEF LoadTable
      <3> QED BY <2>3, <3>2 DEF LoadTable, MemOK, shared
    <2>4. CASE LoadEntry(c)
      <3>1. MoveOK([j EXCEPT !.at = "copy", !.table = NoTable])
        BY <2>0, <2>4, EntryMove DEF LoadEntry
      <3>2. MoveOK([j EXCEPT !.at = "astray"])
        BY <2>0, <2>4, AstrayMove DEF LoadEntry
      <3>3. MovesOK'
        BY <2>0, <2>4, <3>1, <3>2, OneMove DEF LoadEntry, Astray
      <3>4. UNCHANGED shared
        BY <2>4 DEF LoadEntry, Astray
      <3> QED BY <3>3, <3>4 DEF MemOK, shared
    <2>7. CASE LoadPointer(c)
      <3>1. MoveOK([j EXCEPT !.at = "astray"])
        BY <2>0, <2>7, AstrayMove DEF LoadPointer
      <3>2. MovesOK'
        BY <2>0, <2>7, <3>1, RestMove, OneMove DEF LoadPointer, Astray
      <3>3. UNCHANGED shared
        BY <2>7 DEF LoadPointer, Astray
      <3> QED BY <3>2, <3>3 DEF MemOK, shared
    <2>5. CASE Copy(c)
      <3>1. PICK k \in Nat : Step(j, k) /\ Becomes(c, Copied(j, k))
        BY <2>0, <2>5, CopyIs
      <3>2. MoveOK(Copied(j, k))
        BY <2>0, <2>5, <3>1, CopiedMove DEF Copy
      <3>3. MovesOK'
        BY <2>0, <3>1, <3>2, OneMove
      <3> QED BY <2>5, <3>3, CopyMem
    <2>6. CASE Recheck(c)
      <3>1. UNCHANGED shared
        BY <2>6 DEF Recheck, Refused
      <3>2. MovesOK'
        <4>1. CASE Refused(c)
          BY <2>0, <4>1, RestMove, OneMove DEF Refused
        <4>2. CASE Becomes(c, NextPiece([j EXCEPT !.full = (j.len - j.done) \div PageSize,
                                                  !.remaining = (j.len - j.done) % PageSize]))
          <5>1. j.at = "recheck"
            BY <2>6 DEF Recheck
          <5>2. MoveOK(NextPiece([j EXCEPT !.full = (j.len - j.done) \div PageSize,
                                           !.remaining = (j.len - j.done) % PageSize]))
            <6> HIDE DEF j
            <6> QED BY <2>0, <5>1, RecheckMove
          <5> QED BY <2>0, <4>2, <5>2, OneMove
        <4> QED BY <2>6, <4>1, <4>2 DEF Recheck
      <3> QED BY <3>1, <3>2 DEF MemOK, shared
    <2> QED BY <1>2, <2>1, <2>2, <2>3, <2>4, <2>5, <2>6, <2>7 DEF CoreStep
  <1>3. CASE UNCHANGED vars
    BY <1>3 DEF vars, shared, MemOK, MovesOK, MoveOK, PieceOK, LeftOK, Within, DistFromEnd,
       Unit, Stores, AtRest
  <1> QED BY <1>1, <1>2, <1>3 DEF Next

\* The memory and the moves, in every reachable state.
LEMMA SpecMem == Spec => [](IInv /\ MemOK /\ MovesOK)
  BY InitIInv, InitMem, NextKeeps, StepMem, PTL DEF Spec

\* Every access stays in its pages, and never copies more or less than its length.
THEOREM MemoryTypes == Spec => []TypeOK
  <1>1. IInv /\ MemOK /\ MovesOK => TypeOK
    <2> SUFFICES ASSUME IInv, MemOK, MovesOK PROVE TypeOK
      OBVIOUS
    <2>1. entries \in InitPages..MaxPages
      BY DataMemoryAssumption DEF IInv, GrowOK, MemOK
    <2>2. ASSUME NEW c \in Cores
          PROVE  /\ jobs[c].at \in {"rest", "check", "table", "entry", "copy", "recheck", "astray"}
                 /\ jobs[c].at \in {"table", "entry", "copy"} =>
                       /\ jobs[c].offset + jobs[c].piece <= PageSize
                       /\ (jobs[c].full # 0 \/ jobs[c].remaining # 0) =>
                             jobs[c].done + jobs[c].piece + jobs[c].full * PageSize
                               + jobs[c].remaining = jobs[c].len
      BY DEF IInv, JobsOK, JobOK, MovesOK, MoveOK, PieceOK, LeftOK
    <2> QED BY <2>1, <2>2 DEF TypeOK, IInv, GrowOK, MemOK
  <1> QED BY <1>1, SpecMem, PTL

\* What FlatMemory calls mem, size and jobs.
FlatMem == [a \in 0..(number_of_pages * PageSize - 1) |->
              address_space[a \div PageSize][a % PageSize]]
FlatSize == number_of_pages * PageSize
FlatJobs == [c \in Cores |-> FlatJob(jobs[c])]

\* A core at rest is at rest in the flat memory, and an access is not.
LEMMA FlatRest ==
    /\ FlatJob(AtRest("ok")) = Flat!AtRest("ok")
    /\ FlatJob(AtRest("refused")) = Flat!AtRest("refused")
    /\ \A j : j.kind \in Kinds => FlatJob(j) \notin Flat!Rest
  <1>1. \A j : FlatJob(j).kind = j.kind
    BY DEF FlatJob
  <1>2. \A r \in Flat!Rest : r.kind \in {"ok", "refused"}
    BY DEF Flat!Rest, Flat!AtRest
  <1> QED BY <1>1, <1>2 DEF FlatJob, AtRest, Flat!AtRest

\* A core's step is one of its own access.
LEMMA FlatBecomes ==
    ASSUME NEW c \in Cores, NEW j, Becomes(c, j), JobsOK
    PROVE  FlatJobs' = [FlatJobs EXCEPT ![c] = FlatJob(j)]
           /\ FlatJobs'[c] = FlatJob(j) /\ \A d \in Cores \ {c} : FlatJobs'[d] = FlatJobs[d]
  <1>1. jobs' = [jobs EXCEPT ![c] = j] /\ DOMAIN jobs = Cores
    BY DEF Becomes, JobsOK
  <1>2. \A d \in Cores : FlatJobs'[d] = IF d = c THEN FlatJob(j) ELSE FlatJobs[d]
    BY <1>1 DEF FlatJobs, FlatJob
  <1> QED BY <1>2 DEF FlatJobs

\* Every cell of the flat memory is a cell of a page that is counted.
LEMMA FlatCell ==
    ASSUME NEW n \in Nat, NEW a \in 0..(n * PageSize - 1)
    PROVE  /\ a \in Nat /\ a \div PageSize \in Nat /\ a \div PageSize < n
           /\ a % PageSize \in Offsets
           /\ a = (a \div PageSize) * PageSize + (a % PageSize)
  <1>1. a \in Nat /\ n * PageSize \in Nat
    BY PageTimes
  <1>2. PICK q \in Nat, r \in 0..(PageSize - 1) :
           q = a \div PageSize /\ r = a % PageSize /\ a = q * PageSize + r
    BY <1>1, DivisionIs
  <1>3. q < n
    <2> SUFFICES ASSUME n <= q PROVE FALSE
      BY <1>2
    <2>1. n * PageSize <= q * PageSize
      BY PageBefore, PageTimes, DataMemoryAssumption
    <2>2. PICK x \in Nat, y \in Nat : x = n * PageSize /\ y = q * PageSize
      BY PageTimes
    <2>3. a < x /\ a = y + r /\ x <= y
      BY <1>1, <1>2, <2>1, <2>2
    <2> QED BY <2>2, <2>3, DataMemoryAssumption
  <1> QED BY <1>1, <1>2, <1>3 DEF Offsets

\* Pages and cells are what they were.
LEMMA FlatSame ==
    ASSUME UNCHANGED <<number_of_pages, address_space>>
    PROVE  FlatMem' = FlatMem /\ FlatSize' = FlatSize
  BY DEF FlatMem, FlatSize

\* Counting a page adds its cells, which are zero, to the flat memory.
LEMMA CountIsGrow == ASSUME IInv, MemOK, GrowCount PROVE Flat!Grow
  <1>1. /\ number_of_pages \in Nat /\ number_of_pages < MaxPages
        /\ number_of_pages' = number_of_pages + 1 /\ address_space' = address_space
        /\ jobs' = jobs
    BY DEF IInv, GrowOK, MemOK, GrowCount
  <1>2. FlatSize' = FlatSize + PageSize /\ FlatSize \in Nat
    BY <1>1, PageTimes DEF FlatSize
  <1>3. ASSUME NEW a \in 0..(FlatSize' - 1)
        PROVE  address_space[a \div PageSize][a % PageSize]
                 = IF a < FlatSize THEN FlatMem[a] ELSE 0
    <2>1. CASE a < FlatSize
      <3>1. a \in 0..(number_of_pages * PageSize - 1)
        BY <1>2, <2>1 DEF FlatSize
      <3> QED BY <2>1, <3>1 DEF FlatMem
    <2>2. CASE ~(a < FlatSize)
      <3>1. a \in Nat /\ a >= FlatSize /\ a < FlatSize + PageSize
        BY <1>2, <2>2, DataMemoryAssumption
      <3>2. PICK o \in 0..(PageSize - 1) : a = FlatSize + o
        <4>1. a - FlatSize \in 0..(PageSize - 1) /\ a = FlatSize + (a - FlatSize)
          BY <1>2, <3>1, DataMemoryAssumption
        <4> QED BY <4>1
      <3>3. a \div PageSize = number_of_pages /\ a % PageSize = o
        BY <1>1, <3>2, AddressIs DEF FlatSize
      <3>4. address_space[number_of_pages] = [x \in Offsets |-> 0]
        BY <1>1, DataMemoryAssumption DEF MemOK, Pages
      <3>5. o \in Offsets
        BY DEF Offsets
      <3> QED BY <2>2, <3>3, <3>4, <3>5
    <2> QED BY <2>1, <2>2
  <1>4. FlatMem' = [a \in 0..(FlatSize' - 1) |-> address_space[a \div PageSize][a % PageSize]]
    BY <1>1 DEF FlatMem, FlatSize
  <1>5. FlatMem' = [a \in 0..(FlatSize' - 1) |-> IF a < FlatSize THEN FlatMem[a] ELSE 0]
    BY <1>3, <1>4
  <1>6. FlatJobs' = FlatJobs
    BY <1>1 DEF FlatJobs, FlatJob
  <1> QED BY <1>2, <1>5, <1>6 DEF Flat!Grow, FlatMem, FlatSize, FlatJobs, FlatJob

\* A new access begins.
LEMMA BeginIsBegin == ASSUME IInv, MovesOK, NEW c \in Cores, Begin(c) PROVE Flat!Begin(c)
  <1>0. PICK kind \in Kinds, addr \in Nat, len \in Nat :
          \E array :
              /\ Becomes(c, Begun(kind, addr, len, array))
              /\ kind \in {"store", "sin"} => Len(array) = len
              /\ kind \notin {"store", "sin"} => array = <<>>
    BY BeginIs
  <1>1. PICK array :
          /\ Becomes(c, Begun(kind, addr, len, array))
          /\ kind \in {"store", "sin"} => Len(array) = len
          /\ kind \notin {"store", "sin"} => array = <<>>
    BY <1>0
  <1>2. FlatJobs'[c] = FlatJob(Begun(kind, addr, len, array))
    BY <1>1, FlatBecomes DEF IInv
  <1>3. FlatJobs'[c] = [kind |-> kind, asked |-> addr,
                        addr |-> PageOf(addr) * PageSize + (addr % PageSize), len |-> len,
                        done |-> 0, array |-> array]
    BY <1>2 DEF FlatJob, Begun, AtRest
  <1>4. FlatJobs[c] \in Flat!Rest
    <2>1. jobs[c] \in {AtRest("ok"), AtRest("refused")}
      BY DEF MovesOK, MoveOK, Begin
    <2> QED BY <2>1, FlatRest DEF FlatJobs, Flat!Rest
  <1>5. Len(FlatJobs'[c].array)
          = IF Flat!Stores(FlatJobs'[c]) THEN FlatJobs'[c].len ELSE 0
    BY <1>1, <1>3 DEF Flat!Stores
  <1>6. FlatMem' = FlatMem /\ FlatSize' = FlatSize
    BY FlatSame DEF Begin, shared
  <1>7. /\ FlatJobs'[c].kind \in {"load", "store", "atm_loadd", "sin", "sout"}
        /\ FlatJobs'[c].addr = FlatJobs'[c].asked % (PageNumbers * PageSize)
        /\ FlatJobs'[c].done = 0
    BY <1>3, PlaceIs
  <1> HIDE DEF FlatJobs
  <1>8. /\ FlatJobs[c] \in Flat!Rest
        /\ FlatJobs'[c].kind \in {"load", "store", "atm_loadd", "sin", "sout"}
        /\ FlatJobs'[c].addr = FlatJobs'[c].asked % (PageNumbers * PageSize)
        /\ FlatJobs'[c].done = 0
        /\ Len(FlatJobs'[c].array) = IF Flat!Stores(FlatJobs'[c]) THEN FlatJobs'[c].len ELSE 0
        /\ FlatMem' = FlatMem /\ FlatSize' = FlatSize
    BY <1>4, <1>5, <1>6, <1>7
  <1> QED BY <1>8 DEF Flat!Begin, FlatMem, FlatSize, FlatJobs, FlatJob

\* What is refused does not fit: in the memory, or in a page if it is of one unit.
\* merry_dmemory_* refuses nothing else, before it begins or after the first page.
LEMMA RefuseIsRefuse ==
    ASSUME IInv, MovesOK, NEW c \in Cores, Check(c) \/ Recheck(c), Refused(c)
    PROVE  Flat!Refuse(c)
  <1> USE DataMemoryAssumption
  <1> DEFINE j == jobs[c]
  <1>1. /\ JobOK(j) /\ MoveOK(j) /\ number_of_pages \in Nat
        /\ j.addr \in Nat /\ j.len \in Nat /\ j.page \in Nat
        /\ j.kind \in Kinds /\ j.page = j.addr \div PageSize
    BY DEF IInv, JobsOK, GrowOK, MovesOK, JobOK, MoveOK, Check, Recheck
  <1>2. FlatJobs[c] = FlatJob(j)
    BY DEF FlatJobs
  <1>3. /\ FlatJobs[c].kind = j.kind /\ FlatJobs[c].addr = j.addr /\ FlatJobs[c].len = j.len
        /\ FlatJobs[c].done = j.done
    BY <1>2 DEF FlatJob
  <1>4. FlatJobs[c] \notin Flat!Rest
    BY <1>1, <1>2, FlatRest
  <1>5. FlatJobs'[c] = Flat!AtRest("refused")
    BY FlatBecomes, FlatRest DEF Refused, IInv
  <1>6. FlatMem' = FlatMem /\ FlatSize' = FlatSize
    BY FlatSame DEF Refused, shared
  <1>7. PICK base \in Nat, size \in Nat, o \in 0..(PageSize - 1) :
           /\ base = j.page * PageSize /\ size = number_of_pages * PageSize
           /\ o = j.addr % PageSize /\ j.addr = base + o
    <2>1. j.page * PageSize \in Nat /\ number_of_pages * PageSize \in Nat
      BY <1>1, PageTimes
    <2>2. j.addr \in Nat
      BY <1>1
    <2>3. /\ j.addr % PageSize \in 0..(PageSize - 1)
          /\ j.addr = (j.addr \div PageSize) * PageSize + (j.addr % PageSize)
      BY <2>2, DivisionIs
    <2>4. j.addr = j.page * PageSize + (j.addr % PageSize)
      BY <1>1, <2>3
    <2> HIDE DEF j
    <2> QED BY <2>1, <2>3, <2>4
  <1>8. number_of_pages <= j.page => j.addr >= FlatSize
    <2> SUFFICES ASSUME number_of_pages <= j.page PROVE j.addr >= FlatSize
      OBVIOUS
    <2>1. CASE number_of_pages = j.page
      <3>1. size = base
        BY <1>7, <2>1
      <3> QED BY <1>7, <3>1 DEF FlatSize
    <2>2. CASE number_of_pages < j.page
      <3>1. number_of_pages \in Nat /\ j.page \in Nat
        BY <1>1
      <3>2. number_of_pages * PageSize + PageSize <= j.page * PageSize
        BY <2>2, <3>1, PageBefore
      <3>3. size + PageSize <= base
        BY <1>7, <3>2
      <3>4. j.addr >= size
        BY <1>7, <3>3
      <3> QED BY <1>7, <3>4 DEF FlatSize
    <2> QED BY <1>1, <2>1, <2>2
  <1> HIDE DEF j
  <1>9. CASE Check(c)
    <2>1. j.at = "check" /\ j.done = 0 /\ j.offset = j.addr % PageSize
      BY <1>1, <1>9 DEF Check, MoveOK, j
    <2>2. number_of_pages <= j.page \/ (Unit(j) /\ OverEnd(j))
      <3>1. JobOK(j) /\ jobs[c].at = "check"
        BY <1>1, <2>1 DEF j
      <3>2. [jobs[c] EXCEPT !.at = "table"].at = "table"
        BY <3>1 DEF j, JobOK, JobFields
      <3>3. jobs'[c].at = "rest"
        BY DEF Refused, Becomes, IInv, JobsOK, AtRest
      <3>4. ~Becomes(c, [jobs[c] EXCEPT !.at = "table"])
        BY <3>2, <3>3 DEF Becomes, IInv, JobsOK
      <3> QED BY <1>1, <1>9, <3>4 DEF Check, j
    <2>3. CASE number_of_pages <= j.page
      BY <1>3, <1>4, <1>5, <1>6, <1>8, <2>1, <2>3
         DEF Flat!Refuse, FlatMem, FlatSize, FlatJobs, FlatJob
    <2>4. CASE Unit(j) /\ OverEnd(j)
      <3>1. (j.addr % PageSize) + j.len > PageSize
        <4>1. o + j.len - 1 >= PageSize
          BY <1>7, <2>1, <2>4 DEF OverEnd
        <4>2. o + j.len > PageSize
          BY <1>1, <4>1
        <4> QED BY <1>7, <4>2
      <3>2. Flat!Unit(FlatJobs[c])
        BY <1>3, <2>4 DEF Flat!Unit, Unit
      <3>3. /\ (FlatJobs[c].addr % PageSize) + FlatJobs[c].len > PageSize
            /\ FlatJobs[c].done = 0
        BY <1>3, <2>1, <3>1
      <3> HIDE DEF FlatJobs
      <3>4. /\ FlatJobs[c] \notin Flat!Rest
            /\ Flat!Unit(FlatJobs[c])
                 /\ (FlatJobs[c].addr % PageSize) + FlatJobs[c].len > PageSize
            /\ FlatJobs[c].done = 0
            /\ FlatJobs'[c] = Flat!AtRest("refused")
            /\ FlatMem' = FlatMem /\ FlatSize' = FlatSize
        BY <1>4, <1>5, <1>6, <3>2, <3>3
      <3> QED BY <3>4 DEF Flat!Refuse, FlatMem, FlatSize, FlatJobs, FlatJob
    <2> QED BY <2>2, <2>3, <2>4
  <1>10. CASE Recheck(c)
    <2>1. /\ j.at = "recheck" /\ ~Within(j) /\ j.done = DistFromEnd(j.addr) /\ j.done <= j.len
      BY <1>1, <1>10 DEF Recheck, MoveOK, JobOK, j
    <2>2. /\ j.done = PageSize - (j.addr % PageSize) /\ j.done \in Nat
          /\ j.addr + j.done = base + PageSize
      <3>1. j.addr \in Nat
        BY <1>1
      <3>2. DistFromEnd(j.addr) = PageSize - (j.addr % PageSize)
        BY <3>1, DistIs
      <3>3. j.done = PageSize - o /\ j.addr = base + o
        BY <1>7, <2>1, <3>2
      <3>4. PageSize - o \in Nat /\ base + o + (PageSize - o) = base + PageSize
        OBVIOUS
      <3> QED BY <1>7, <2>1, <3>2, <3>3, <3>4
    <2>3. PICK left \in Nat, full \in Nat, remaining \in 0..(PageSize - 1) :
             /\ left = j.len - j.done
             /\ full = (j.len - j.done) \div PageSize
             /\ remaining = (j.len - j.done) % PageSize
             /\ left = full * PageSize + remaining
      <3>1. PICK left \in Nat : left = j.len - j.done
        BY <1>1, <2>1, <2>2
      <3> QED BY <3>1, DivisionIs
    <2>4. Beyond(j.page, full, remaining)
      <3> SUFFICES ASSUME ~Beyond(j.page, full, remaining) PROVE FALSE
        OBVIOUS
      <3>1. Becomes(c, NextPiece([j EXCEPT !.full = full, !.remaining = remaining]))
        BY <1>10, <2>3 DEF Recheck, j
      <3>2. /\ MoveOK(NextPiece([j EXCEPT !.full = full, !.remaining = remaining]))
            /\ \/ FlatJob(NextPiece([j EXCEPT !.full = full, !.remaining = remaining])) = FlatJob(j)
               \/ NextPiece([j EXCEPT !.full = full, !.remaining = remaining]) = AtRest("ok")
        BY <1>1, <2>1, <2>3, RecheckMove
      <3>3. NextPiece([j EXCEPT !.full = full, !.remaining = remaining]) = AtRest("refused")
        BY <3>1 DEF Refused, Becomes, IInv, JobsOK
      <3>4. FlatJob(AtRest("refused")).kind = "refused" /\ FlatJob(j).kind = j.kind
        BY DEF FlatJob, AtRest
      <3>5. AtRest("refused") # AtRest("ok")
        BY DEF AtRest
      <3> QED BY <1>1, <3>2, <3>3, <3>4, <3>5
    <2>5. j.addr + j.len > FlatSize
      <3>1. PICK whole \in Nat : whole = full * PageSize
        BY PageTimes
      <3>2. j.addr + j.len = base + PageSize + whole + remaining
        <4>1. j.len - j.done = whole + remaining
          BY <2>3, <3>1
        <4>2. PICK a \in Nat, d \in Nat, l \in Nat : a = j.addr /\ d = j.done /\ l = j.len
          BY <1>1, <2>2
        <4>3. a + d = base + PageSize /\ l - d = whole + remaining
          BY <2>2, <4>1, <4>2
        <4>4. a + l = base + PageSize + whole + remaining
          BY <4>3
        <4> QED BY <4>2, <4>4
      <3>3. (j.page + full) * PageSize = base + whole
        <4>1. PICK p \in Nat : p = j.page
          BY <1>1
        <4>2. (p + full) * PageSize = p * PageSize + full * PageSize
          BY PagesAdd
        <4> QED BY <1>7, <3>1, <4>1, <4>2
      <3>4. number_of_pages <= j.page + full + (IF remaining > 0 THEN 1 ELSE 0)
        BY <1>1, <2>4 DEF Beyond
      <3>5. size <= base + whole + (IF remaining > 0 THEN PageSize ELSE 0)
        <4>1. PICK p \in Nat : p = j.page + full
          BY <1>1
        <4>2. (p + 1) * PageSize = p * PageSize + PageSize /\ p * PageSize = base + whole
          BY <3>3, <4>1, PageTimes
        <4>3. CASE number_of_pages <= p
          <5>1. CASE number_of_pages = p
            <6>1. size = base + whole
              BY <1>7, <4>2, <5>1
            <6> QED BY <6>1
          <5>2. CASE number_of_pages < p
            <6>1. number_of_pages * PageSize + PageSize <= p * PageSize
              BY <1>1, <5>2, PageBefore
            <6>2. size + PageSize <= base + whole
              BY <1>7, <4>2, <6>1
            <6> QED BY <6>2
          <5> QED BY <1>1, <4>3, <5>1, <5>2
        <4>4. CASE number_of_pages = p + 1 /\ remaining > 0
          <5>1. size = base + whole + PageSize
            BY <1>7, <4>2, <4>4
          <5> QED BY <4>4, <5>1
        <4> QED BY <1>1, <3>4, <4>1, <4>3, <4>4
      <3>6. base + PageSize + whole + remaining > size
        <4>1. CASE remaining > 0
          BY <3>5, <4>1
        <4>2. CASE remaining = 0
          BY <3>5, <4>2
        <4> QED BY <4>1, <4>2
      <3> QED BY <1>7, <3>2, <3>6 DEF FlatSize
    <2>6. ~Flat!Unit(FlatJobs[c])
      BY <1>3, <2>1 DEF Flat!Unit, Within, Unit
    <2>7. /\ FlatJobs[c].addr + FlatJobs[c].len > FlatSize
          /\ FlatJobs[c].done = PageSize - (FlatJobs[c].addr % PageSize)
      BY <1>3, <2>2, <2>5
    <2> HIDE DEF FlatJobs
    <2>8. /\ FlatJobs[c] \notin Flat!Rest
          /\ FlatJobs[c].addr + FlatJobs[c].len > FlatSize
          /\ ~Flat!Unit(FlatJobs[c])
          /\ FlatJobs[c].done = PageSize - (FlatJobs[c].addr % PageSize)
          /\ FlatJobs'[c] = Flat!AtRest("refused")
          /\ FlatMem' = FlatMem /\ FlatSize' = FlatSize
      BY <1>4, <1>5, <1>6, <2>6, <2>7
    <2> QED BY <2>8 DEF Flat!Refuse, FlatMem, FlatSize, FlatJobs, FlatJob
  <1> QED BY <1>9, <1>10

\* The address of a cell, of its page and its offset there.
AddressOf(page, offset) == page * PageSize + offset

\* Every address is that of a cell of a page.
LEMMA CellAddress ==
    ASSUME NEW a \in Nat, NEW p, NEW o, p = a \div PageSize, o = a % PageSize
    PROVE  p \in Nat /\ o \in Offsets /\ AddressOf(p, o) = a
  BY DivisionIs DEF AddressOf, Offsets

\* No two cells have the same address.
LEMMA AddressOnce ==
    ASSUME NEW p \in Nat, NEW o \in Offsets, NEW q \in Nat, NEW r \in Offsets,
           AddressOf(p, o) = AddressOf(q, r)
    PROVE  p = q /\ o = r
  <1> USE DataMemoryAssumption
  <1>1. PICK x \in Nat, y \in Nat : x = p * PageSize /\ y = q * PageSize
    BY PageTimes
  <1>2. o \in 0..(PageSize - 1) /\ r \in 0..(PageSize - 1) /\ x + o = y + r
    BY <1>1 DEF AddressOf, Offsets
  <1>3. CASE p < q
    <2>1. x + PageSize <= y
      BY <1>1, <1>3, PageBefore
    <2> QED BY <1>2, <2>1
  <1>4. CASE q < p
    <2>1. y + PageSize <= x
      BY <1>1, <1>4, PageBefore
    <2> QED BY <1>2, <2>1
  <1>5. CASE p = q
    <2>1. x = y
      BY <1>1, <1>5
    <2> QED BY <1>2, <1>5, <2>1
  <1> QED BY <1>3, <1>4, <1>5

\* Being one of the k numbers from a first one on.
Among(x, first, k) == x \in first..(first + k - 1)

\* Where the k cells of a step lie: in the page the core is at, one after the other.
LEMMA CellsOfPage ==
    ASSUME NEW page \in Nat, NEW offset \in Nat, NEW k \in Nat, offset + k <= PageSize,
           NEW p \in Nat, NEW o \in Offsets
    PROVE  Among(AddressOf(p, o), AddressOf(page, offset), k)
             <=> p = page /\ Among(o, offset, k)
  <1> USE DataMemoryAssumption
  <1>1. PICK base \in Nat : base = page * PageSize
    BY PageTimes
  <1>2. PICK x \in Nat : x = p * PageSize
    BY PageTimes
  <1>3. /\ AddressOf(page, offset) = base + offset /\ AddressOf(p, o) = x + o
        /\ o \in 0..(PageSize - 1)
    BY <1>1, <1>2 DEF AddressOf, Offsets
  <1>4. ASSUME Among(AddressOf(p, o), AddressOf(page, offset), k)
        PROVE  p = page /\ Among(o, offset, k)
    <2>1. PICK r \in Offsets : AddressOf(p, o) = AddressOf(page, r) /\ Among(r, offset, k)
      <3>1. x + o \in (base + offset)..(base + offset + k - 1)
        BY <1>3, <1>4 DEF Among
      <3>2. PICK r \in 0..(PageSize - 1) : x + o = base + r /\ r \in offset..(offset + k - 1)
        BY <1>3, <3>1
      <3>3. AddressOf(page, r) = base + r
        BY <1>1 DEF AddressOf
      <3> QED BY <1>3, <3>2, <3>3 DEF Among, Offsets
    <2>2. p = page /\ o = r
      BY <2>1, AddressOnce
    <2> QED BY <2>1, <2>2
  <1>5. ASSUME p = page, Among(o, offset, k)
        PROVE  Among(AddressOf(p, o), AddressOf(page, offset), k)
    <2>1. x = base /\ o \in offset..(offset + k - 1)
      BY <1>1, <1>2, <1>5 DEF Among
    <2>2. x + o \in (base + offset)..(base + offset + k - 1)
      BY <1>3, <2>1
    <2> QED BY <1>3, <2>2 DEF Among
  <1> QED BY <1>4, <1>5

\* Copying k cells to or from the page is copying them to or from the flat memory.
LEMMA CopyIsMove ==
    ASSUME IInv, MemOK, MovesOK, NEW c \in Cores, Copy(c)
    PROVE  Flat!Move(c) \/ Flat!Finish(c)
  <1> USE DataMemoryAssumption
  <1> DEFINE j == jobs[c]
  <1>1. /\ JobsOK /\ JobOK(j) /\ MoveOK(j) /\ j.at = "copy" /\ number_of_pages \in Nat
        /\ j.kind \in Kinds /\ PieceOK(j)
        /\ Stores(j) => j.array \in [1..j.len -> Cells]
    BY DEF IInv, JobsOK, GrowOK, MovesOK, MoveOK, Copy
  <1>2. PICK k \in Nat :
           /\ Step(j, k) /\ Becomes(c, Copied(j, k))
           /\ address_space' =
                IF ~Stores(j) THEN address_space
                ELSE [address_space EXCEPT ![j.page] =
                        [o \in Offsets |-> IF o \in j.offset..(j.offset + k - 1)
                                           THEN j.array[j.done + o - j.offset + 1]
                                           ELSE @[o]]]
    BY <1>1, CopyIs
  <1>3. PICK page \in Nat, offset \in Nat, addr \in Nat, len \in Nat, done \in Nat :
           /\ page = j.page /\ offset = j.offset /\ addr = j.addr /\ len = j.len /\ done = j.done
           /\ done + k <= len /\ offset + k <= PageSize /\ page < number_of_pages
    <2>1. /\ j.done \in Nat /\ j.piece \in Nat /\ j.offset \in Nat /\ j.len \in Nat /\ j.addr \in Nat
          /\ j.done + j.piece <= j.len /\ j.offset + j.piece <= PageSize
          /\ j.page \in Nat /\ j.page < number_of_pages
      BY <1>1, PieceInLen
    <2>2. k <= j.piece
      BY <1>2 DEF Step
    <2>3. j.done + k <= j.len /\ j.offset + k <= PageSize
      BY <2>1, <2>2
    <2> QED BY <2>1, <2>3
  <1>4. PICK first \in Nat : first = addr + done /\ page * PageSize + offset = first
    <2>1. j.page * PageSize + j.offset = j.addr + j.done
      BY <1>1 DEF PieceOK
    <2>2. page * PageSize + offset = addr + done
      BY <1>3, <2>1
    <2>3. addr + done \in Nat
      OBVIOUS
    <2> QED BY <2>2, <2>3
  <1>5. page \in Pages /\ address_space \in [Pages -> [Offsets -> Cells]]
        /\ number_of_pages' = number_of_pages
    BY <1>3 DEF MemOK, Pages, Copy
  <1>6. FlatJobs[c] = FlatJob(j) /\ FlatJobs'[c] = FlatJob(Copied(j, k))
    BY <1>1, <1>2, FlatBecomes DEF FlatJobs
  <1>7. /\ FlatJobs[c].kind = j.kind /\ FlatJobs[c].addr = addr /\ FlatJobs[c].len = len
        /\ FlatJobs[c].done = done /\ FlatJobs[c].array = j.array
        /\ FlatJobs[c] \notin Flat!Rest
    <2>1. FlatJob(j) \notin Flat!Rest
      BY <1>1, FlatRest
    <2> QED BY <1>3, <1>6, <2>1 DEF FlatJob
  <1> HIDE DEF j
  <1>8. FlatSize' = FlatSize /\ FlatSize \in Nat
    BY <1>1, <1>5, PageTimes DEF FlatSize
  <1>9. ASSUME NEW a \in 0..(FlatSize - 1)
        PROVE  /\ a \in Nat /\ a \div PageSize \in Pages /\ a % PageSize \in Offsets
               /\ FlatMem[a] = address_space[a \div PageSize][a % PageSize]
               /\ FlatMem'[a] = address_space'[a \div PageSize][a % PageSize]
    <2>1. /\ a \in Nat /\ a \div PageSize \in Nat /\ a \div PageSize < number_of_pages
          /\ a % PageSize \in Offsets
      BY <1>1, FlatCell DEF FlatSize
    <2>2. a \div PageSize \in Pages
      BY <2>1 DEF MemOK, Pages
    <2> QED BY <1>5, <2>1, <2>2 DEF FlatMem, FlatSize
  <1>10. Flat!Stores(FlatJobs[c]) <=> Stores(j)
    BY <1>7 DEF Flat!Stores, Stores
  <1>11. FlatMem' = [a \in DOMAIN FlatMem |->
                       IF Flat!Stores(FlatJobs[c]) /\ a \in first..(first + k - 1)
                       THEN j.array[a - addr + 1] ELSE FlatMem[a]]
    <2>1. /\ DOMAIN FlatMem = 0..(FlatSize - 1)
          /\ FlatMem' = [a \in 0..(FlatSize - 1) |-> FlatMem'[a]]
      BY <1>5 DEF FlatMem, FlatSize
    <2>2. ASSUME NEW a \in 0..(FlatSize - 1)
          PROVE  FlatMem'[a] = IF Flat!Stores(FlatJobs[c]) /\ a \in first..(first + k - 1)
                               THEN j.array[a - addr + 1] ELSE FlatMem[a]
      <3>1. PICK p \in Pages, o \in Offsets :
               /\ p = a \div PageSize /\ o = a % PageSize
               /\ FlatMem[a] = address_space[p][o] /\ FlatMem'[a] = address_space'[p][o]
        BY <1>9
      <3>2. a \in first..(first + k - 1) <=> p = page /\ o \in offset..(offset + k - 1)
        <4>1. /\ AddressOf(page, offset) = first /\ offset + k <= PageSize
              /\ p \in Nat /\ o \in Offsets /\ a \in Nat /\ AddressOf(p, o) = a
          <5>1. a \in Nat /\ p = a \div PageSize /\ o = a % PageSize
            BY <1>9, <3>1
          <5>2. p \in Nat /\ o \in Offsets /\ AddressOf(p, o) = a
            BY <5>1, CellAddress
          <5>3. AddressOf(page, offset) = first
            BY <1>4 DEF AddressOf
          <5>4. offset + k <= PageSize
            BY <1>3
          <5> QED BY <5>1, <5>2, <5>3, <5>4
        <4>2. Among(a, first, k) <=> p = page /\ Among(o, offset, k)
          BY <4>1, CellsOfPage
        <4> QED BY <4>2 DEF Among
      <3>3. CASE ~Stores(j)
        BY <1>2, <1>10, <3>1, <3>3
      <3>4. CASE Stores(j) /\ p # page
        BY <1>2, <1>3, <1>5, <1>10, <3>1, <3>2, <3>4
      <3>5. CASE Stores(j) /\ p = page
        <4>1. address_space'[page][o] = IF o \in offset..(offset + k - 1)
                                        THEN j.array[done + o - offset + 1]
                                        ELSE address_space[page][o]
          BY <1>2, <1>3, <1>5, <3>5
        <4>2. ASSUME o \in offset..(offset + k - 1) PROVE done + o - offset + 1 = a - addr + 1
          <5>1. a = page * PageSize + o /\ o \in Nat /\ a \in Nat
            <6>1. a \in Nat /\ o \in Offsets /\ AddressOf(p, o) = a /\ p = page
              BY <1>9, <3>1, <3>5, CellAddress
            <6> QED BY <6>1 DEF AddressOf, Offsets
          <5>2. PICK base \in Nat : base = page * PageSize
            BY PageTimes
          <5>3. a = base + o /\ base + offset = addr + done
            BY <1>4, <5>1, <5>2
          <5> QED BY <5>1, <5>3
        <4> QED BY <1>10, <3>1, <3>2, <3>5, <4>1, <4>2
      <3> QED BY <3>3, <3>4, <3>5
    <2> HIDE DEF FlatMem
    <2> QED BY <2>1, <2>2
  <1>12. k # 0 => first + k - 1 \in 0..(FlatSize - 1)
    <2>1. page * PageSize + PageSize <= FlatSize
      <3>1. page + 1 = number_of_pages \/ page + 1 < number_of_pages
        BY <1>1, <1>3
      <3>2. (page + 1) * PageSize = page * PageSize + PageSize
        BY PageTimes
      <3>3. CASE page + 1 = number_of_pages
        BY <1>8, <3>2, <3>3 DEF FlatSize
      <3>4. CASE page + 1 < number_of_pages
        <4>1. page * PageSize + PageSize <= number_of_pages * PageSize
          BY <1>1, <1>3, PageBefore
        <4> QED BY <4>1 DEF FlatSize
      <3> QED BY <3>1, <3>3, <3>4
    <2>2. PICK base \in Nat : base = page * PageSize
      BY PageTimes
    <2>3. first = base + offset /\ base + PageSize <= FlatSize
      BY <1>4, <2>1, <2>2
    <2>4. PICK size \in Nat : size = FlatSize
      BY <1>8
    <2>5. offset + k <= PageSize /\ base + PageSize <= size /\ first = base + offset
      BY <1>3, <2>3, <2>4
    <2>6. k # 0 => first + k - 1 \in 0..(size - 1)
      BY <2>5
    <2> QED BY <2>4, <2>6
  <1>13. ASSUME NEW i \in 1..k
         PROVE  address_space[page][offset + i - 1] = FlatMem[first + i - 1]
    <2>1. first + i - 1 \in first..(first + k - 1) /\ first + i - 1 \in 0..(FlatSize - 1)
      BY <1>8, <1>12
    <2>2. PICK a \in 0..(FlatSize - 1) : a = first + i - 1
      BY <2>1
    <2>3. offset + i - 1 \in 0..(PageSize - 1)
      <3>1. offset + k <= PageSize
        BY <1>3
      <3> QED BY <3>1
    <2>4. a = page * PageSize + (offset + i - 1)
      <3>1. PICK base \in Nat : base = page * PageSize
        BY PageTimes
      <3>2. first = base + offset
        BY <1>4, <3>1
      <3> QED BY <2>2, <3>1, <3>2
    <2>5. a \div PageSize = page /\ a % PageSize = offset + i - 1
      BY <2>3, <2>4, AddressIs
    <2> QED BY <1>9, <2>2, <2>5
  <1>14. \/ Copied(j, k) = AtRest("ok") /\ done + k = len
         \/ k # 0 /\ FlatJob(Copied(j, k)) =
               [FlatJob(j) EXCEPT
                  !.done = @ + k,
                  !.array = IF Stores(j) THEN @
                            ELSE @ \o [i \in 1..k |-> address_space[j.page][j.offset + i - 1]]]
    BY <1>1, <1>2, <1>3, CopiedMove
  <1>17. FlatJobs[c].kind # "atm_loadd"
    BY <1>7 DEF Copy, j
  <1>15. CASE k = 0
    <2>1. Copied(j, k) = AtRest("ok") /\ done + k = len
      BY <1>14, <1>15
    <2>2. FlatMem' = FlatMem
      <3>1. \A a \in DOMAIN FlatMem : ~(a \in first..(first + k - 1))
        BY <1>15
      <3>2. FlatMem' = [a \in DOMAIN FlatMem |-> FlatMem[a]]
        BY <1>11, <3>1
      <3> QED BY <3>2 DEF FlatMem
    <2>3. FlatJobs'[c] = Flat!AtRest("ok") /\ FlatJobs[c].done = FlatJobs[c].len
      BY <1>3, <1>6, <1>7, <1>15, <2>1, FlatRest
    <2> HIDE DEF FlatJobs
    <2>4. /\ FlatJobs[c] \notin Flat!Rest /\ FlatJobs[c].done = FlatJobs[c].len
          /\ FlatJobs'[c] = Flat!AtRest("ok")
          /\ FlatMem' = FlatMem /\ FlatSize' = FlatSize
      BY <1>7, <1>8, <2>2, <2>3
    <2> QED BY <2>4 DEF Flat!Finish, FlatMem, FlatSize, FlatJobs, FlatJob
  <1>16. CASE k # 0
    <2> DEFINE moved == [FlatJobs[c] EXCEPT
                           !.done = @ + k,
                           !.array = IF Flat!Stores(FlatJobs[c]) THEN @
                                     ELSE @ \o [i \in 1..k |->
                                             FlatMem[FlatJobs[c].addr + FlatJobs[c].done + i - 1]]]
    <2>1. k \in 1..(FlatJobs[c].len - FlatJobs[c].done)
      BY <1>3, <1>7, <1>16
    <2>2. [i \in 1..k |-> address_space[j.page][j.offset + i - 1]]
            = [i \in 1..k |-> FlatMem[FlatJobs[c].addr + FlatJobs[c].done + i - 1]]
      BY <1>3, <1>4, <1>7, <1>13
    <2>3. moved = [FlatJob(j) EXCEPT
                     !.done = @ + k,
                     !.array = IF Stores(j) THEN @
                               ELSE @ \o [i \in 1..k |-> address_space[j.page][j.offset + i - 1]]]
      BY <1>6, <1>10, <2>2
    <2>4. FlatJobs'[c] = moved \/ (FlatJobs'[c] = Flat!AtRest("ok") /\ done + k = len)
      BY <1>6, <1>14, <2>3, FlatRest
    <2>5. moved.done = done + k
      BY <1>3, <2>3, FlatProgress DEF FlatJob
    <2>6. FlatJobs'[c] \in {moved} \cup
             (IF moved.done = FlatJobs[c].len THEN {Flat!AtRest("ok")} ELSE {})
      BY <1>7, <2>4, <2>5
    <2>7. Flat!Indivisible(FlatJobs[c]) => k = FlatJobs[c].len
      BY <1>2, <1>3, <1>7 DEF Flat!Indivisible, Flat!Unit, Unit, Step
    <2>8. (FlatJobs[c].addr + FlatJobs[c].done)..(FlatJobs[c].addr + FlatJobs[c].done + k - 1)
             \subseteq 0..(FlatSize - 1)
      <3>1. first..(first + k - 1) \subseteq 0..(FlatSize - 1)
        BY <1>4, <1>8, <1>12, <1>16, CellsBelow, Zenon
      <3>2. FlatJobs[c].addr + FlatJobs[c].done = first
        BY <1>4, <1>7, Zenon
      <3> QED BY <3>1, <3>2, Zenon
    <2>9. FlatMem' = [a \in DOMAIN FlatMem |->
             IF Flat!Stores(FlatJobs[c])
                /\ a \in (FlatJobs[c].addr + FlatJobs[c].done)
                           ..(FlatJobs[c].addr + FlatJobs[c].done + k - 1)
             THEN FlatJobs[c].array[a - FlatJobs[c].addr + 1] ELSE FlatMem[a]]
      BY <1>4, <1>7, <1>11
    <2> HIDE DEF FlatJobs, FlatMem, FlatSize
    <2>10. \E n \in 1..(FlatJobs[c].len - FlatJobs[c].done) :
              LET cells == (FlatJobs[c].addr + FlatJobs[c].done)
                             ..(FlatJobs[c].addr + FlatJobs[c].done + n - 1)
                  m == [FlatJobs[c] EXCEPT
                          !.done = @ + n,
                          !.array = IF Flat!Stores(FlatJobs[c]) THEN @
                                    ELSE @ \o [i \in 1..n |->
                                            FlatMem[FlatJobs[c].addr + FlatJobs[c].done + i - 1]]]
              IN  /\ FlatJobs[c].kind # "atm_loadd"
                  /\ Flat!Indivisible(FlatJobs[c]) => n = FlatJobs[c].len
                  /\ cells \subseteq 0..(FlatSize - 1)
                  /\ FlatMem' = [a \in DOMAIN FlatMem |->
                                   IF Flat!Stores(FlatJobs[c]) /\ a \in cells
                                   THEN FlatJobs[c].array[a - FlatJobs[c].addr + 1]
                                   ELSE FlatMem[a]]
                  /\ FlatJobs'[c] \in {m} \cup
                        (IF m.done = FlatJobs[c].len THEN {Flat!AtRest("ok")} ELSE {})
                  /\ FlatSize' = FlatSize
      <3> WITNESS k \in 1..(FlatJobs[c].len - FlatJobs[c].done)
      <3>1. FlatJobs[c].kind # "atm_loadd"
        BY <1>17
      <3> QED BY <1>8, <2>6, <2>7, <2>8, <2>9, <3>1
    <2> QED BY <2>10 DEF Flat!Move, FlatMem, FlatSize, FlatJobs, FlatJob
  <1> QED BY <1>15, <1>16

\* What is over after its first page is finished, and what goes on is as it was.
LEMMA RecheckIsFinish ==
    ASSUME IInv, MovesOK, NEW c \in Cores, Recheck(c), ~Refused(c)
    PROVE  Flat!Finish(c) \/ (FlatJobs' = FlatJobs /\ UNCHANGED shared)
  <1> DEFINE j == jobs[c]
             next == NextPiece([j EXCEPT !.full = (j.len - j.done) \div PageSize,
                                         !.remaining = (j.len - j.done) % PageSize])
  <1>1. /\ JobsOK /\ JobOK(j) /\ MoveOK(j) /\ j.at = "recheck"
        /\ j.kind \in Kinds
    BY DEF IInv, JobsOK, MovesOK, MoveOK, Recheck
  <1>2. Becomes(c, next) /\ UNCHANGED shared
    BY DEF Recheck
  <1>3. FlatJob(next) = FlatJob(j) \/ (next = AtRest("ok") /\ j.done = j.len)
    <2> HIDE DEF j
    <2>1. PICK full, remaining :
             full = (j.len - j.done) \div PageSize /\ remaining = (j.len - j.done) % PageSize
      OBVIOUS
    <2>2. \/ FlatJob(NextPiece([j EXCEPT !.full = full, !.remaining = remaining])) = FlatJob(j)
          \/ /\ NextPiece([j EXCEPT !.full = full, !.remaining = remaining]) = AtRest("ok")
             /\ j.done = j.len
      BY <1>1, <2>1, RecheckMove
    <2>3. PICK split : split = NextPiece([j EXCEPT !.full = full, !.remaining = remaining])
      OBVIOUS
    <2>4. split = next
      BY <2>1, <2>3
    <2>5. FlatJob(split) = FlatJob(j) \/ (split = AtRest("ok") /\ j.done = j.len)
      BY <2>2, <2>3
    <2> QED BY <2>4, <2>5
  <1> HIDE DEF next
  <1>4. FlatJobs' = [FlatJobs EXCEPT ![c] = FlatJob(next)] /\ FlatJobs'[c] = FlatJob(next)
    BY <1>1, <1>2, FlatBecomes
  <1>5. FlatJobs[c] = FlatJob(j)
    BY DEF FlatJobs
  <1>6. CASE FlatJob(next) = FlatJob(j)
    <2>1. FlatJobs' = FlatJobs
      BY <1>4, <1>5, <1>6 DEF FlatJobs
    <2> QED BY <1>2, <2>1
  <1>7. CASE next = AtRest("ok") /\ j.done = j.len
    <2>1. FlatJobs'[c] = Flat!AtRest("ok") /\ FlatJobs[c] \notin Flat!Rest
      BY <1>1, <1>4, <1>5, <1>7, FlatRest
    <2>2. FlatJobs[c].done = FlatJobs[c].len
      BY <1>5, <1>7 DEF FlatJob
    <2>3. FlatMem' = FlatMem /\ FlatSize' = FlatSize
      BY <1>2, FlatSame DEF shared
    <2> HIDE DEF FlatJobs
    <2>4. /\ FlatJobs[c] \notin Flat!Rest /\ FlatJobs[c].done = FlatJobs[c].len
          /\ FlatJobs'[c] = Flat!AtRest("ok")
          /\ FlatMem' = FlatMem /\ FlatSize' = FlatSize
      BY <2>1, <2>2, <2>3
    <2> QED BY <2>4 DEF Flat!Finish, FlatMem, FlatSize, FlatJobs, FlatJob
  <1> QED BY <1>3, <1>6, <1>7

\* The atomic load of a dword is over with a value of its own, where it fits.
LEMMA PointerIsOther ==
    ASSUME IInv, MovesOK, NEW c \in Cores, LoadPointer(c)
    PROVE  Flat!LoadOther(c) \/ (FlatJobs' = FlatJobs /\ UNCHANGED shared)
  <1> DEFINE j == jobs[c]
  <1>1. /\ JobsOK /\ JobOK(j) /\ MoveOK(j) /\ j.at = "copy" /\ j.kind = "atm_loadd"
        /\ number_of_pages \in Nat /\ UNCHANGED shared
    BY DEF IInv, JobsOK, GrowOK, MovesOK, LoadPointer, Astray
  <1>2. FlatJobs[c] = FlatJob(j)
    BY DEF FlatJobs
  <1>3. CASE Becomes(c, AtRest("ok"))
    <2>1. FlatJobs'[c] = Flat!AtRest("ok")
      BY <1>1, <1>3, FlatBecomes, FlatRest
    <2>2. /\ j.done \in Nat /\ j.piece \in Nat /\ j.offset \in Nat /\ j.page \in Nat
          /\ j.addr \in Nat /\ j.len \in Nat
          /\ j.offset + j.piece <= PageSize /\ j.page < number_of_pages
      BY <1>1, PieceInLen
    <2>3. /\ j.page * PageSize + j.offset = j.addr + j.done /\ j.done + j.piece = j.len
      BY <1>1 DEF MoveOK, PieceOK, LeftOK, Within, Unit
    <2>4. j.page * PageSize + PageSize <= FlatSize /\ FlatSize \in Nat
      <3>1. j.page + 1 = number_of_pages \/ j.page + 1 < number_of_pages
        BY <1>1, <2>2
      <3>2. CASE j.page + 1 = number_of_pages
        BY <1>1, <2>2, <3>2, PageTimes DEF FlatSize
      <3>3. CASE j.page + 1 < number_of_pages
        BY <1>1, <2>2, PageBefore, PageTimes DEF FlatSize
      <3> QED BY <3>1, <3>2, <3>3
    <2>5. j.addr + j.len <= FlatSize
      <3>1. PICK base \in Nat : base = j.page * PageSize
        BY <2>2, PageTimes
      <3>2. PICK size \in Nat : size = FlatSize
        BY <2>4
      <3>3. base + j.offset = j.addr + j.done /\ base + PageSize <= size
        BY <2>3, <2>4, <3>1, <3>2
      <3>4. j.addr + (j.done + j.piece) <= size
        <4>1. PICK addr, done, offset, piece, page \in Nat :
                 /\ addr = j.addr /\ done = j.done /\ offset = j.offset /\ piece = j.piece
                 /\ page = PageSize
          BY <2>2, DataMemoryAssumption
        <4> HIDE DEF j
        <4>2. base + offset = addr + done /\ offset + piece <= page /\ base + page <= size
          BY <2>2, <3>3, <4>1
        <4>3. addr + (done + piece) <= size
          BY <4>2
        <4> QED BY <4>1, <4>3
      <3>5. j.addr + j.len <= size
        BY <2>3, <3>4
      <3> QED BY <3>2, <3>5
    <2>6. FlatMem' = FlatMem /\ FlatSize' = FlatSize
      BY <1>1, FlatSame DEF shared
    <2>7. /\ FlatJobs[c].kind = "atm_loadd" /\ FlatJobs[c].addr + FlatJobs[c].len <= FlatSize
      BY <1>1, <1>2, <2>5 DEF FlatJob
    <2> HIDE DEF FlatJobs
    <2>8. /\ FlatJobs[c].kind = "atm_loadd" /\ FlatJobs[c].addr + FlatJobs[c].len <= FlatSize
          /\ FlatJobs'[c] = Flat!AtRest("ok")
          /\ FlatMem' = FlatMem /\ FlatSize' = FlatSize
      BY <2>1, <2>6, <2>7
    <2> QED BY <2>8 DEF Flat!LoadOther, FlatMem, FlatSize, FlatJobs, FlatJob
  <1>4. CASE Becomes(c, [j EXCEPT !.at = "astray"])
    <2>1. FlatJob([j EXCEPT !.at = "astray"]) = FlatJob(j)
      BY <1>1, AstrayMove
    <2>2. FlatJobs' = [FlatJobs EXCEPT ![c] = FlatJob(j)]
      BY <1>1, <1>4, <2>1, FlatBecomes
    <2> QED BY <1>1, <2>2 DEF FlatJobs
  <1> QED BY <1>3, <1>4 DEF LoadPointer, Astray

\* Checks that are passed, and reading the pointer and the entry, are no steps of the
\* flat memory.
LEMMA LoadsAreQuiet ==
    ASSUME IInv, MovesOK, NEW c \in Cores,
           (Check(c) /\ ~Refused(c)) \/ LoadTable(c) \/ LoadEntry(c)
    PROVE  FlatJobs' = FlatJobs /\ UNCHANGED shared
  <1> DEFINE j == jobs[c]
  <1>1. JobsOK /\ JobOK(j) /\ MoveOK(j)
    BY DEF IInv, JobsOK, MovesOK
  <1>2. ASSUME NEW k, Becomes(c, k), FlatJob(k) = FlatJob(j) PROVE FlatJobs' = FlatJobs
    <2>1. FlatJobs' = [FlatJobs EXCEPT ![c] = FlatJob(k)]
      BY <1>1, <1>2, FlatBecomes
    <2> QED BY <1>2, <2>1 DEF FlatJobs
  <1>3. CASE Check(c) /\ ~Refused(c)
    <2>1. Becomes(c, [j EXCEPT !.at = "table"]) /\ UNCHANGED shared
      BY <1>3 DEF Check
    <2>2. FlatJob([j EXCEPT !.at = "table"]) = FlatJob(j)
      BY <1>1 DEF FlatJob, JobOK, JobFields
    <2> QED BY <1>2, <2>1, <2>2
  <1>4. CASE LoadTable(c)
    <2>1. Becomes(c, [j EXCEPT !.at = "entry", !.table = pages]) /\ UNCHANGED shared
      BY <1>4 DEF LoadTable
    <2>2. FlatJob([j EXCEPT !.at = "entry", !.table = pages]) = FlatJob(j)
      BY <1>1, <1>4, TableMove DEF LoadTable
    <2> QED BY <1>2, <2>1, <2>2
  <1>5. CASE LoadEntry(c)
    <2>1. /\ \/ Becomes(c, [j EXCEPT !.at = "copy", !.table = NoTable])
             \/ Becomes(c, [j EXCEPT !.at = "astray"])
          /\ UNCHANGED shared
      BY <1>5 DEF LoadEntry, Astray
    <2>2. FlatJob([j EXCEPT !.at = "copy", !.table = NoTable]) = FlatJob(j)
      BY <1>1, <1>5, EntryMove DEF LoadEntry
    <2>3. FlatJob([j EXCEPT !.at = "astray"]) = FlatJob(j)
      BY <1>1, <1>5, AstrayMove DEF LoadEntry
    <2> QED BY <1>2, <2>1, <2>2, <2>3
  <1> QED BY <1>3, <1>4, <1>5

\* The pages implement the flat memory: for any number of cores and pages, any page
\* size, and any interleaving of accesses with each other and with a growing table,
\* what a core stores and loads are the cells it addressed, units in their natural
\* place are indivisible, transfers copy their cells in order, and only what does not
\* fit is refused.
THEOREM ImplementsFlat == Spec => FlatSpec
  <1>1. Init => Flat!Init
    <2> SUFFICES ASSUME Init PROVE Flat!Init
      OBVIOUS
    <2>1. number_of_pages = InitPages /\ InitPages \in Nat /\ FlatSize \in Nat
      BY PageTimes, DataMemoryAssumption DEF Init, FlatSize
    <2>2. ASSUME NEW a \in 0..(FlatSize - 1)
          PROVE  address_space[a \div PageSize][a % PageSize] = 0
      <3>1. /\ a \div PageSize \in Nat /\ a \div PageSize < number_of_pages
            /\ a % PageSize \in Offsets
        BY <2>1, FlatCell DEF FlatSize
      <3>2. a \div PageSize \in Pages
        BY <2>1, <3>1, DataMemoryAssumption DEF Pages
      <3> QED BY <3>1, <3>2 DEF Init
    <2>3. FlatMem = [a \in 0..(FlatSize - 1) |-> 0]
      BY <2>2 DEF FlatMem, FlatSize
    <2>4. FlatJobs = [c \in Cores |-> Flat!AtRest("ok")]
      BY FlatRest DEF Init, FlatJobs
    <2> HIDE DEF FlatJobs
    <2> QED BY <2>1, <2>3, <2>4 DEF Flat!Init, FlatMem, FlatSize, FlatJobs, FlatJob
  <1>2. IInv /\ MemOK /\ MovesOK /\ [Next]_vars => [Flat!Next]_(<<FlatMem, FlatSize, FlatJobs>>)
    <2> SUFFICES ASSUME IInv, MemOK, MovesOK, [Next]_vars
                 PROVE  Flat!Next \/ UNCHANGED <<FlatMem, FlatSize, FlatJobs>>
      OBVIOUS
    <2>1. ASSUME FlatJobs' = FlatJobs, UNCHANGED <<number_of_pages, address_space>>
          PROVE  UNCHANGED <<FlatMem, FlatSize, FlatJobs>>
      BY <2>1, FlatSame
    <2>2. CASE Grows
      <3>1. CASE GrowCount
        BY <3>1, CountIsGrow DEF Flat!Next
      <3>2. CASE ~GrowCount
        <4>1. UNCHANGED <<number_of_pages, address_space, jobs>>
          BY <2>2, <3>2 DEF Grows, GrowRealloc, GrowAssign, GrowRestore, GrowPage
        <4>2. FlatJobs' = FlatJobs
          BY <4>1 DEF FlatJobs, FlatJob
        <4> QED BY <2>1, <4>1, <4>2
      <3> QED BY <3>1, <3>2
    <2>3. ASSUME NEW c \in Cores, CoreStep(c)
          PROVE  Flat!Next \/ UNCHANGED <<FlatMem, FlatSize, FlatJobs>>
      <3>1. \A d \in Cores \ {c} : FlatJobs'[d] = FlatJobs[d]
        <4>1. PICK k : Becomes(c, k)
          BY <2>3 DEF CoreStep, Begin, Check, LoadTable, LoadEntry, Copy, Recheck, Refused, Astray, LoadPointer
        <4> QED BY <4>1, FlatBecomes DEF IInv
      <3>2. Flat!Begin(c) \/ Flat!Move(c) \/ Flat!LoadOther(c) \/ Flat!Finish(c) \/ Flat!Refuse(c) => Flat!Next
        BY <3>1 DEF Flat!Next, FlatJobs, FlatJob
      <3>3. CASE Begin(c)
        BY <3>2, <3>3, BeginIsBegin
      <3>4. CASE (Check(c) \/ Recheck(c)) /\ Refused(c)
        BY <3>2, <3>4, RefuseIsRefuse
      <3>5. CASE (Check(c) /\ ~Refused(c)) \/ LoadTable(c) \/ LoadEntry(c)
        BY <2>1, <3>5, LoadsAreQuiet DEF shared
      <3>6. CASE Copy(c)
        BY <3>2, <3>6, CopyIsMove
      <3>7. CASE Recheck(c) /\ ~Refused(c)
        BY <2>1, <3>2, <3>7, RecheckIsFinish DEF shared
      <3>8. CASE LoadPointer(c)
        BY <2>1, <3>2, <3>8, PointerIsOther DEF shared
      <3> QED BY <2>3, <3>3, <3>4, <3>5, <3>6, <3>7, <3>8 DEF CoreStep
    <2>4. CASE UNCHANGED vars
      BY <2>1, <2>4 DEF vars, shared, FlatJobs, FlatJob
    <2> QED BY <2>2, <2>3, <2>4 DEF Next
  <1> QED BY <1>1, <1>2, SpecMem, PTL
          DEF Spec, FlatSpec, Flat!Spec, FlatMem, FlatSize, FlatJobs, FlatJob
=============================================================================
