-------------------------- MODULE InputReader_proofs --------------------------
(***************************************************************************)
(* For every set of files, size of page and of the machine's word: the     *)
(* reader stays in the file, accepts only what it has read whole, finds    *)
(* the symbol table unless it skipped a section, and frees wrongly only    *)
(* what it never set or failed at.                                         *)
(***************************************************************************)
EXTENDS InputReader, TLAPS

Phases == {"init", "header", "eat", "instructions", "sst", "sections", "st", "accepted",
           "return_all_mem", "failed", "ended", "crashed"}
Reading == {"init", "header", "eat", "instructions", "sst", "sections", "st", "accepted"}

TypeInv ==
    /\ file \in Files /\ phase \in Phases
    /\ pos \in 0..file.len
    /\ ste_flag \in BOOLEAN /\ astray \in BOOLEAN
    /\ inst_page_count \in Nat /\ data_page_count \in Nat /\ data_len \in Nat
    /\ ptr \in [Pointers -> {"junk", "null", "live", "freed"}]
    /\ eatRead \in 0..file.eat /\ stAt \in -1..file.len
    /\ made \subseteq Pointers /\ badFrees \subseteq Pointers
    /\ failedAt \in Pointers \cup {"none"}

\* Where each function starts to read.  After a short EAT nothing is left, so that
\* the instructions, of which there are some, cannot be whole.
PlaceInv ==
    /\ phase = "eat" => file.inst > 0 /\ pos = HeaderLen
    /\ phase = "instructions" =>
          /\ file.inst > 0 /\ pos = HeaderLen + eatRead
          /\ eatRead = file.eat \/ pos = file.len
    /\ phase \in {"sst", "sections", "st", "accepted"} => eatRead = file.eat
    /\ phase = "sst" => pos = HeaderLen + file.eat + file.inst
    /\ phase = "sections" => file.sst # 0
    /\ phase = "sections" => pos = HeaderLen + file.eat + file.inst + file.sst
    /\ phase \in {"st", "accepted"} => HeaderLen + file.eat + file.inst + file.sst <= pos
    /\ phase = "accepted" /\ ste_flag => stAt # -1

\* Where the ST is looked for, and was read: after what was read, which need not be
\* after the last section.
SymbolsAt == HeaderLen + file.eat + file.inst + file.sst
             + (IF file.sst = 0 THEN 0 ELSE DataLen(file))
SymbolsInv ==
    /\ phase = "st" => pos = SymbolsAt
    /\ stAt \in {-1, SymbolsAt}

\* Until a function fails nothing is freed; then what it leaves freed is its own.
FreeInv ==
    /\ phase \in Reading => failedAt = "none"
    /\ phase \notin {"failed", "ended", "crashed"} => badFrees = {}
    /\ \A p \in Pointers : ptr[p] = "junk" => p \notin made
    /\ phase \notin {"ended", "crashed"} =>
          \A p \in Pointers : ptr[p] = "freed" =>
             \/ failedAt = p
             \/ phase = "failed" /\ p \in {"instructions", "data"}
    /\ FreesAreTheirs

\* Tables of more than one page need files of more than one page; and what is read
\* into memory fills its pages from the first byte on.
BoundsInv ==
    /\ inst_page_count > 1 => file.inst > PageLen
    /\ data_len > 0 => DataLen(file) > 0
    /\ data_page_count > 0 => DataLen(file) > 0
    /\ phase \in Reading => ptr["instructions"] # "null"
    /\ ReadsInBounds

IInv == TypeInv /\ PlaceInv /\ SymbolsInv /\ FreeInv /\ BoundsInv

\* The functions that fail, and those that do not, before anything is freed.
Fails ==
    \/ InitFails \/ HeaderFails \/ EATFails \/ InstructionsGetMemFails
    \/ SsTFails \/ SectionsGetMemFails \/ STFails
Reads ==
    \/ InitReader \/ ReadHeader \/ ReadEAT \/ ReadInstructions \/ NoSsT
    \/ ReadSsT \/ ReadSections \/ Accept \/ ReadST
Frees == ReturnAllMem \/ DestroyReader

\* A page is counted for every PageLen bytes begun.
LEMMA PagesAreNat == ASSUME NEW n \in Nat PROVE Pages(n) \in Nat
  <1>1. n \div PageLen \in Nat /\ n % PageLen \in Nat
    BY InputReaderAssumption
  <1> QED BY <1>1 DEF Pages

\* Nothing needs no page, and what fits into one needs no other, when it fills it too.
LEMMA PagesFit ==
    ASSUME NEW n \in Nat
    PROVE  /\ Pages(n) > 0 => n > 0
           /\ Pages(n) > 1 => n > PageLen
  <1>1. PageLen \in Nat /\ PageLen > 0
    BY InputReaderAssumption
  <1>2. CASE n < PageLen
    <2>1. n \div PageLen = 0 /\ n % PageLen = n
      BY <1>1, <1>2
    <2> QED BY <1>1, <1>2, <2>1 DEF Pages
  <1>3. CASE n = PageLen
    <2>1. n \div PageLen = 1 /\ n % PageLen = 0
      BY <1>1, <1>3
    <2> QED BY <1>1, <1>3, <2>1 DEF Pages
  <1> QED BY <1>1, <1>2, <1>3

\* What is assumed of a file, said of the one that is read.
LEMMA FileFacts ==
    ASSUME file \in Files
    PROVE /\ file.len \in Nat /\ file.ste \in BOOLEAN
          /\ file.inst \in Nat /\ file.eat \in Nat /\ file.sst \in Nat /\ file.st \in Nat
          /\ SectionsLen(file) \in Nat /\ DataLen(file) \in Nat /\ Words \in Nat \ {0}
          /\ Pages(file.inst) \in Nat
  BY InputReaderAssumption, PagesAreNat

\* The reader begins with pointers that hold nothing of its own.
LEMMA InitIInv == Init => IInv
  <1> SUFFICES ASSUME Init PROVE IInv
    OBVIOUS
  <1>1. TypeInv
    <2>1. ptr \in [Pointers -> {"junk", "null", "live", "freed"}]
      BY DEF Init
    <2>2. pos \in 0..file.len /\ eatRead \in 0..file.eat /\ stAt \in -1..file.len
      BY FileFacts DEF Init
    <2> QED BY <2>1, <2>2 DEF Init, TypeInv, Phases
  <1>2. PlaceInv
    BY DEF Init, PlaceInv
  <1>3. FreeInv
    <2>1. \A p \in Pointers : ptr[p] # "freed"
      BY DEF Init
    <2> QED BY <2>1 DEF Init, FreeInv, FreesAreTheirs
  <1>4. BoundsInv
    BY DEF Init, BoundsInv, ReadsInBounds, Pointers
  <1>5. SymbolsInv
    BY DEF Init, SymbolsInv
  <1> QED BY <1>1, <1>2, <1>3, <1>4, <1>5 DEF IInv

\* The types survive a function that fails.
LEMMA FailsType == IInv /\ Fails => TypeInv'
  <1> SUFFICES ASSUME IInv, Fails PROVE TypeInv'
    OBVIOUS
  <1>0. file' = file /\ Pages(data_len) \in Nat
    BY PagesAreNat DEF IInv, TypeInv, Fails, InitFails, HeaderFails, EATFails, Stays, STFails,
       InstructionsGetMemFails, SsTFails, SectionsGetMemFails, GetMemFails
  <1> USE <1>0, FileFacts DEF IInv, TypeInv, Phases, Fail, FailWithMem, Pointers
  <1>1. CASE InitFails BY <1>1 DEF InitFails, Stays, counts, history
  <1>2. CASE HeaderFails BY <1>2 DEF HeaderFails, counts
  <1>3. CASE EATFails BY <1>3 DEF EATFails, counts
  <1>4. ASSUME NEW p \in {"instructions", "data"}, NEW count, GetMemFails(p, count)
        PROVE  /\ ptr' \in [Pointers -> {"junk", "null", "live", "freed"}]
               /\ made' \subseteq Pointers /\ astray' \in BOOLEAN
               /\ failedAt' = p /\ phase' = "return_all_mem"
               /\ UNCHANGED <<file, pos, eatRead, stAt, badFrees>>
    <2>1. ptr' \in [Pointers -> {"junk", "null", "live", "freed"}]
      BY <1>4 DEF GetMemFails
    <2>2. made' \subseteq Pointers /\ astray' \in BOOLEAN
      BY <1>4 DEF GetMemFails
    <2> QED BY <2>1, <2>2, <1>4 DEF GetMemFails
  <1>5. CASE InstructionsGetMemFails
    <2>1. GetMemFails("instructions", Pages(file.inst))
      BY <1>5 DEF InstructionsGetMemFails
    <2> QED BY <2>1, <1>5, <1>4 DEF InstructionsGetMemFails
  <1>6. CASE SectionsGetMemFails
    <2>1. GetMemFails("data", Pages(data_len))
      BY <1>6 DEF SectionsGetMemFails
    <2> QED BY <2>1, <1>6, <1>4 DEF SectionsGetMemFails
  <1>7. CASE STFails
    <2>1. CASE ptr' = [ptr EXCEPT !["st_data"] = "null"] /\ UNCHANGED <<pos, made, astray>>
      BY <1>7, <2>1 DEF STFails, counts
    <2>2. CASE /\ ptr' = [ptr EXCEPT !["st_data"] = "freed"] /\ made' = made \cup {"st_data"}
               /\ astray' = (astray \/ Left > Word) /\ pos' = file.len
      <3>1. astray' \in BOOLEAN
        BY <2>2
      <3> QED BY <1>7, <2>2, <3>1 DEF STFails, counts
    <2> QED BY <1>7, <2>1, <2>2 DEF STFails
  <1>8. CASE SsTFails BY <1>8 DEF SsTFails, counts
  <1> QED BY <1>1, <1>2, <1>3, <1>5, <1>6, <1>7, <1>8 DEF Fails

\* The types survive a function that reads.
LEMMA ReadsType == IInv /\ Reads => TypeInv'
  <1> SUFFICES ASSUME IInv, Reads PROVE TypeInv'
    OBVIOUS
  <1>0. file' = file /\ Pages(data_len) \in Nat
    BY PagesAreNat DEF IInv, TypeInv, Reads, InitReader, ReadHeader, ReadEAT, Stays,
       ReadInstructions, NoSsT, ReadSsT, ReadSections, Accept, ReadST
  <1> USE <1>0, FileFacts DEF IInv, TypeInv, Phases, FailWithMem, Pointers, Left, Make
  <1>1. CASE InitReader BY <1>1 DEF InitReader, Stays, counts, history
  <1>2. CASE ReadHeader BY <1>2 DEF ReadHeader, history, HeaderBad, HeaderLen
  <1>3. CASE ReadEAT BY <1>3 DEF ReadEAT, counts
  <1>4. CASE ReadInstructions
    BY <1>4 DEF ReadInstructions, WholeInstructions
  <1>5. CASE NoSsT BY <1>5 DEF NoSsT, Stays, counts, history
  <1>6. CASE ReadSsT
    <2>1. DataLen(file) % Words \in Nat
      OBVIOUS
    <2> QED BY <1>6, <2>1 DEF ReadSsT
  <1>7. CASE ReadSections BY <1>7 DEF ReadSections
  <1>8. CASE Accept BY <1>8 DEF Accept, Stays, counts, history
  <1>9. CASE ReadST BY <1>9 DEF ReadST, counts, Word
  <1> QED BY <1>1, <1>2, <1>3, <1>4, <1>5, <1>6, <1>7, <1>8, <1>9 DEF Reads

\* What Free does: it leaves freed what it is asked to free and was not null, and
\* notes the pointers among it that held no block.
LEMMA FreeFacts ==
    ASSUME TypeInv, NEW S \in SUBSET Pointers, Free(S)
    PROVE /\ ptr' \in [Pointers -> {"junk", "null", "live", "freed"}]
          /\ badFrees' \subseteq Pointers
          /\ \A p \in Pointers : ptr'[p] = ptr[p] \/ (p \in S /\ ptr'[p] = "freed")
          /\ \A p \in Pointers : ptr[p] = "null" => ptr'[p] = "null"
          /\ badFrees \subseteq badFrees'
          /\ \A p \in S : ptr[p] = "freed" => p \in badFrees'
          /\ \A p \in badFrees' : p \in badFrees \/ (p \in S /\ ptr[p] \in {"junk", "freed"})
  <1>1. PICK freed \in SUBSET S :
           /\ ptr' = [p \in Pointers |-> IF p \in freed THEN "freed" ELSE ptr[p]]
           /\ \A p \in freed : ptr[p] # "null"
           /\ \A p \in S : ptr[p] = "freed" => p \in freed
           /\ badFrees' = badFrees \cup {p \in freed : ptr[p] # "live"}
    <2>1. PICK lucky \in SUBSET {p \in S : ptr[p] = "junk"} :
             LET freed == {p \in S \ lucky : ptr[p] # "null"}
             IN  /\ ptr' = [p \in Pointers |-> IF p \in freed THEN "freed" ELSE ptr[p]]
                 /\ badFrees' = badFrees \cup {p \in freed : ptr[p] # "live"}
      BY DEF Free
    <2> WITNESS {p \in S \ lucky : ptr[p] # "null"} \in SUBSET S
    <2> QED BY <2>1
  <1> QED BY <1>1 DEF TypeInv

\* The types survive what is freed.
LEMMA FreesType == IInv /\ Frees => TypeInv'
  <1> SUFFICES ASSUME IInv, Frees PROVE TypeInv'
    OBVIOUS
  <1> USE DEF IInv, OrCrash
  <1>1. CASE ReturnAllMem
    <2>1. CASE UNCHANGED <<ptr, badFrees, astray>>
      BY <1>1, <2>1 DEF ReturnAllMem, TypeInv, Phases, counts
    <2>2. CASE \E S \in SUBSET Pointers : Free(S) /\ astray' \in BOOLEAN
      BY <1>1, <2>2, FreeFacts DEF ReturnAllMem, TypeInv, Phases, counts
    <2>3. (\E S \in SUBSET Pointers : Free(S) /\ astray' \in BOOLEAN)
          \/ UNCHANGED <<ptr, badFrees, astray>>
      <3>1. {"instructions", "data"} \subseteq Pointers
        BY DEF Pointers
      <3>2. \/ UNCHANGED <<ptr, badFrees, astray>>
            \/ \E S \in SUBSET {"instructions", "data"} : Free(S) /\ astray' \in BOOLEAN
        BY <1>1 DEF ReturnAllMem, TypeInv
      <3> QED BY <3>1, <3>2
    <2> QED BY <2>1, <2>2, <2>3
  <1>2. CASE DestroyReader
    <2>1. Free(Pointers \ {"instructions", "data"})
      BY <1>2 DEF DestroyReader
    <2> QED BY <1>2, <2>1, FreeFacts DEF DestroyReader, TypeInv, Phases, counts
  <1> QED BY <1>1, <1>2 DEF Frees

\* Each function begins where the one before it stopped.
LEMMA PlaceKept == IInv /\ Next => PlaceInv'
  <1> SUFFICES ASSUME IInv, Next PROVE PlaceInv'
    OBVIOUS
  <1>0. file' = file
    BY DEF Next, InitFails, InitReader, HeaderFails, ReadHeader, EATFails, ReadEAT, Stays,
       InstructionsGetMemFails, GetMemFails, ReadInstructions, NoSsT, SsTFails, ReadSsT,
       SectionsGetMemFails, ReadSections, Accept, STFails, ReadST, ReturnAllMem, DestroyReader
  <1> USE <1>0, FileFacts DEF IInv, TypeInv, PlaceInv, Fail, FailWithMem, Left, HeaderLen
  <1>1. CASE Fails
    BY <1>1 DEF Fails, InitFails, HeaderFails, EATFails, SsTFails, STFails,
       InstructionsGetMemFails, SectionsGetMemFails, GetMemFails
  <1>2. CASE Frees
    BY <1>2 DEF Frees, ReturnAllMem, DestroyReader, OrCrash
  <1>3. CASE InitReader BY <1>3 DEF InitReader
  <1>4. CASE ReadHeader BY <1>4 DEF ReadHeader, HeaderBad, history
  <1>5. CASE ReadEAT BY <1>5 DEF ReadEAT
  <1>6. CASE ReadInstructions BY <1>6 DEF ReadInstructions, WholeInstructions
  <1>7. CASE NoSsT BY <1>7 DEF NoSsT, Stays, counts, history
  <1>8. CASE ReadSsT BY <1>8 DEF ReadSsT
  <1>9. CASE ReadSections BY <1>9 DEF ReadSections
  <1>10. CASE Accept BY <1>10 DEF Accept, Stays, counts, history
  <1>11. CASE ReadST BY <1>11 DEF ReadST, counts
  <1> QED BY <1>1, <1>2, <1>3, <1>4, <1>5, <1>6, <1>7, <1>8, <1>9, <1>10, <1>11
          DEF Next, Fails, Frees

\* The reader comes to the ST from the SsT, if there is none, or from the sections,
\* and looks for it once.
LEMMA SymbolsKept == IInv /\ Next => SymbolsInv'
  <1> SUFFICES ASSUME IInv, Next PROVE SymbolsInv'
    OBVIOUS
  <1>0. file' = file
    BY DEF Next, InitFails, InitReader, HeaderFails, ReadHeader, EATFails, ReadEAT, Stays,
       InstructionsGetMemFails, GetMemFails, ReadInstructions, NoSsT, SsTFails, ReadSsT,
       SectionsGetMemFails, ReadSections, Accept, STFails, ReadST, ReturnAllMem, DestroyReader
  <1>1. SymbolsAt' = SymbolsAt
    BY <1>0 DEF SymbolsAt, DataLen, DataLens, Skipped
  <1> HIDE <1>0
  <1> SUFFICES /\ stAt' = stAt \/ stAt' = SymbolsAt
               /\ phase' = "st" => pos' = SymbolsAt
    BY <1>1 DEF IInv, SymbolsInv
  <1> USE DEF IInv, SymbolsInv, Fail, FailWithMem
  <1>2. CASE Fails
    BY <1>2 DEF Fails, InitFails, HeaderFails, EATFails, SsTFails, STFails, Stays, history,
       InstructionsGetMemFails, SectionsGetMemFails, GetMemFails
  <1>3. CASE Frees
    BY <1>3 DEF Frees, ReturnAllMem, DestroyReader, OrCrash
  <1>4. CASE InitReader \/ ReadHeader \/ Accept
    BY <1>4 DEF InitReader, ReadHeader, Accept, Stays, history
  <1>5. CASE ReadEAT \/ ReadInstructions \/ ReadSsT
    BY <1>5 DEF ReadEAT, ReadInstructions, ReadSsT
  <1>6. CASE NoSsT
    <2>1. pos = SymbolsAt
      BY <1>6, FileFacts DEF NoSsT, PlaceInv, SymbolsAt, TypeInv, HeaderLen
    <2> QED BY <1>6, <2>1 DEF NoSsT, Stays, history
  <1>7. CASE ReadSections
    <2>1. phase = "sections" /\ file.sst # 0
      BY <1>7 DEF ReadSections, PlaceInv
    <2>2. pos + DataLen(file) = SymbolsAt
      BY <2>1, FileFacts DEF PlaceInv, SymbolsAt, TypeInv, HeaderLen
    <2> QED BY <1>7, <2>2 DEF ReadSections
  <1>8. CASE ReadST
    BY <1>8 DEF ReadST
  <1> QED BY <1>2, <1>3, <1>4, <1>5, <1>6, <1>7, <1>8 DEF Next, Fails, Frees

\* Nothing is freed by mistake before a function fails, and only then may a
\* pointer be left freed.
LEMMA FreeInvBeforeFrees == IInv /\ (Fails \/ Reads) => FreeInv'
  <1> SUFFICES ASSUME IInv, Fails \/ Reads PROVE FreeInv'
    OBVIOUS
  <1>0. badFrees = {} /\ badFrees' = {} /\ failedAt = "none"
    BY DEF IInv, FreeInv, Reading, Fails, InitFails, HeaderFails, EATFails, SsTFails, STFails,
       InstructionsGetMemFails, SectionsGetMemFails, GetMemFails, Stays, history,
       Reads, InitReader, ReadHeader, ReadEAT, ReadInstructions, NoSsT,
       ReadSsT, ReadSections, Accept, ReadST
  <1> USE <1>0 DEF IInv, TypeInv, FreeInv, FreesAreTheirs, Reading, Fail, FailWithMem, Make
  <1>1. \A p \in Pointers : ptr[p] # "freed" \/ phase \notin Reading
    BY DEF Pointers
  <1> USE <1>1
  <1>2. CASE InitFails BY <1>2 DEF InitFails, Stays, history
  <1>3. CASE HeaderFails BY <1>3 DEF HeaderFails
  <1>4. CASE EATFails BY <1>4 DEF EATFails
  <1>5. CASE InstructionsGetMemFails
    BY <1>5 DEF InstructionsGetMemFails, GetMemFails
  <1>6. CASE SsTFails BY <1>6 DEF SsTFails
  <1>7. CASE SectionsGetMemFails
    BY <1>7 DEF SectionsGetMemFails, GetMemFails
  <1>8. CASE STFails BY <1>8 DEF STFails
  <1>9. CASE InitReader BY <1>9 DEF InitReader, Stays, history
  <1>10. CASE ReadHeader BY <1>10 DEF ReadHeader, history
  <1>11. CASE ReadEAT BY <1>11 DEF ReadEAT
  <1>12. CASE ReadInstructions BY <1>12 DEF ReadInstructions
  <1>13. CASE NoSsT BY <1>13 DEF NoSsT, Stays, history
  <1>14. CASE ReadSsT BY <1>14 DEF ReadSsT
  <1>15. CASE ReadSections BY <1>15 DEF ReadSections
  <1>16. CASE Accept BY <1>16 DEF Accept, Stays, history
  <1>17. CASE ReadST BY <1>17 DEF ReadST
  <1> QED BY <1>2, <1>3, <1>4, <1>5, <1>6, <1>7, <1>8, <1>9, <1>10, <1>11, <1>12, <1>13,
             <1>14, <1>15, <1>16, <1>17 DEF Fails, Reads

\* What was freed is not freed again: return_all_mem frees only the two tables,
\* merry_destroy_reader only the other four blocks.
LEMMA FreeInvFrees == IInv /\ Frees => FreeInv'
  <1> SUFFICES ASSUME IInv, Frees PROVE FreeInv'
    OBVIOUS
  <1> USE DEF IInv, FreeInv, FreesAreTheirs, OrCrash, Reading
  <1>1. CASE ReturnAllMem
    <2>1. CASE UNCHANGED <<ptr, badFrees, astray>>
      BY <1>1, <2>1 DEF ReturnAllMem, Pointers
    <2>2. CASE \E S \in SUBSET {"instructions", "data"} : Free(S) /\ phase' \in {"failed", "crashed"}
      <3>1. PICK S \in SUBSET {"instructions", "data"} : Free(S) /\ phase' \in {"failed", "crashed"}
        BY <2>2
      <3>2. S \in SUBSET Pointers
        BY DEF Pointers
      <3>3. made' = made /\ failedAt' = failedAt /\ phase = "return_all_mem"
        BY <1>1 DEF ReturnAllMem
      <3>4. \A p \in badFrees' : p \in Pointers /\ (p \notin made \/ failedAt = p)
        BY <3>1, <3>2, <3>3, FreeFacts
      <3>5. \A p \in Pointers : ptr'[p] = ptr[p] \/ (p \in {"instructions", "data"} /\ ptr'[p] = "freed")
        BY <3>1, <3>2, FreeFacts
      <3> QED BY <3>1, <3>3, <3>4, <3>5
    <2>3. \/ UNCHANGED <<ptr, badFrees, astray>> /\ phase' = "crashed"
          \/ \E S \in SUBSET {"instructions", "data"} : Free(S) /\ phase' \in {"failed", "crashed"}
      BY <1>1 DEF ReturnAllMem
    <2> QED BY <1>1, <2>1, <2>2, <2>3
  <1>2. CASE DestroyReader
    <2>1. Free(Pointers \ {"instructions", "data"})
      BY <1>2 DEF DestroyReader
    <2>2. made' = made /\ failedAt' = failedAt /\ phase' \in {"ended", "crashed"}
          /\ phase \in {"failed", "accepted"}
      BY <1>2 DEF DestroyReader
    <2>3. \A p \in badFrees' : p \notin made \/ failedAt = p
      BY <2>1, <2>2, FreeFacts
    <2>4. \A p \in Pointers : ptr'[p] = ptr[p] \/ ptr'[p] = "freed"
      BY <2>1, FreeFacts
    <2> QED BY <2>2, <2>3, <2>4
  <1> QED BY <1>1, <1>2 DEF Frees

\* Until then, memory is left only through the second page, data or a short block.
LEMMA BoundsBeforeFrees == IInv /\ (Fails \/ Reads) => BoundsInv'
  <1> SUFFICES ASSUME IInv, Fails \/ Reads PROVE BoundsInv'
    OBVIOUS
  <1>0. /\ file' = file /\ badFrees' = badFrees /\ badFrees = {}
        /\ phase \notin {"failed", "ended", "crashed"}
    BY DEF IInv, FreeInv, Fails, InitFails, HeaderFails, EATFails, SsTFails, STFails,
       InstructionsGetMemFails, SectionsGetMemFails, GetMemFails, Stays, history,
       Reads, InitReader, ReadHeader, ReadEAT, ReadInstructions, NoSsT,
       ReadSsT, ReadSections, Accept, ReadST
  <1>1. /\ Pages(file.inst) > 1 => file.inst > PageLen
        /\ Pages(data_len) > 0 => DataLen(file) > 0
        /\ DataLen(file) % Words > 0 => DataLen(file) > 0
        /\ Pages(file.inst) \in Nat /\ Pages(data_len) \in Nat /\ file.st \in Nat
    BY PagesFit, PagesAreNat, FileFacts DEF IInv, TypeInv, BoundsInv
  <1>a. ptr \in [Pointers -> {"junk", "null", "live", "freed"}] /\ "instructions" \in Pointers
    BY DEF IInv, TypeInv, Pointers
  <1> USE <1>0, <1>1, <1>a DEF IInv, BoundsInv, ReadsInBounds, Fail, FailWithMem, Make, Reading
  <1>2. CASE InitFails BY <1>2 DEF InitFails, Stays, counts, history
  <1>3. CASE HeaderFails BY <1>3 DEF HeaderFails, counts
  <1>4. CASE EATFails BY <1>4 DEF EATFails, counts
  <1>5. CASE InstructionsGetMemFails
    <2>1. /\ inst_page_count' = Pages(file.inst) /\ UNCHANGED <<data_page_count, data_len>>
          /\ GetMemFails("instructions", Pages(file.inst)) /\ phase = "instructions"
      BY <1>5 DEF InstructionsGetMemFails
    <2>2. phase' = "return_all_mem"
      BY <2>1 DEF GetMemFails
    <2>3. astray' = astray \/ astray' = (astray \/ Pages(file.inst) > 2)
      BY <2>1 DEF GetMemFails
    <2>4. Pages(file.inst) > 2 => file.inst > PageLen
      OBVIOUS
    <2>5. astray' => astray \/ file.inst > PageLen
      BY <2>3, <2>4, Zenon
    <2> QED BY <2>1, <2>2, <2>5
  <1>6. CASE SsTFails BY <1>6 DEF SsTFails, counts
  <1>7. CASE SectionsGetMemFails
    BY <1>7 DEF SectionsGetMemFails, GetMemFails
  <1>8. CASE STFails
    BY <1>8, FileFacts DEF STFails, counts, TypeInv, Left, Word
  <1>9. CASE InitReader BY <1>9 DEF InitReader, Stays, counts, history
  <1>10. CASE ReadHeader BY <1>10 DEF ReadHeader, history
  <1>11. CASE ReadEAT BY <1>11 DEF ReadEAT, counts
  <1>12. CASE ReadInstructions BY <1>12 DEF ReadInstructions
  <1>13. CASE NoSsT BY <1>13 DEF NoSsT, Stays, counts, history
  <1>14. CASE ReadSsT BY <1>14 DEF ReadSsT
  <1>15. CASE ReadSections BY <1>15 DEF ReadSections
  <1>16. CASE Accept BY <1>16 DEF Accept, Stays, counts, history
  <1>17. CASE ReadST BY <1>17 DEF ReadST, counts
  <1> QED BY <1>2, <1>3, <1>4, <1>5, <1>6, <1>7, <1>8, <1>9, <1>10, <1>11, <1>12, <1>13,
             <1>14, <1>15, <1>16, <1>17 DEF Fails, Reads

\* A page is unmapped through an entry that is none, or a crash comes of it, only
\* if there are such entries or something was freed that is no block.
LEMMA BoundsFrees == IInv /\ Frees => BoundsInv'
  <1> SUFFICES ASSUME IInv, Frees PROVE BoundsInv'
    OBVIOUS
  <1> USE DEF IInv, BoundsInv, ReadsInBounds, OrCrash, Reading
  <1>1. CASE ReturnAllMem
    <2>0. UNCHANGED <<file, inst_page_count, data_page_count, data_len>>
      BY <1>1 DEF ReturnAllMem, counts
    <2> DEFINE tables == {p \in {"instructions", "data"} :
                            (IF p = "data" THEN data_page_count ELSE inst_page_count) > 0}
    <2>1. CASE (\E p \in tables : ptr[p] = "null") /\ UNCHANGED <<ptr, badFrees, astray>>
               /\ phase' = "crashed"
      BY <2>0, <2>1
    <2>2. CASE /\ Free(tables) /\ OrCrash("failed")
               /\ astray' = (astray \/ inst_page_count > 1 \/ data_page_count > 0
                                    \/ \E p \in tables : ptr[p] = "freed")
      <3>1. tables \in SUBSET Pointers /\ "instructions" \in Pointers
        BY DEF Pointers
      <3>2. /\ badFrees \subseteq badFrees'
            /\ \A p \in tables : ptr[p] = "freed" => p \in badFrees'
            /\ ptr["instructions"] = "null" => ptr'["instructions"] = "null"
        BY <2>2, <3>1, FreeFacts
      <3> HIDE DEF tables
      <3> QED BY <2>0, <2>2, <3>2
    <2>3. \/ (\E p \in tables : ptr[p] = "null") /\ UNCHANGED <<ptr, badFrees, astray>>
             /\ phase' = "crashed"
          \/ /\ Free(tables) /\ OrCrash("failed")
             /\ astray' = (astray \/ inst_page_count > 1 \/ data_page_count > 0
                                  \/ \E p \in tables : ptr[p] = "freed")
      BY <1>1 DEF ReturnAllMem
    <2> QED BY <2>1, <2>2, <2>3
  <1>2. CASE DestroyReader
    <2>1. Free(Pointers \ {"instructions", "data"})
      BY <1>2 DEF DestroyReader
    <2>2. "instructions" \in Pointers
      BY DEF Pointers
    <2>3. badFrees \subseteq badFrees'
          /\ (ptr["instructions"] = "null" => ptr'["instructions"] = "null")
      BY <2>1, <2>2, FreeFacts
    <2> QED BY <1>2, <2>3 DEF DestroyReader, counts
  <1> QED BY <1>1, <1>2 DEF Frees

\* IInv is inductive.
LEMMA NextIInv == IInv /\ [Next]_vars => IInv'
  <1> SUFFICES ASSUME IInv, [Next]_vars PROVE IInv'
    OBVIOUS
  <1>1. CASE Next
    <2>1. Fails \/ Reads \/ Frees
      BY <1>1 DEF Next, Fails, Reads, Frees
    <2>2. TypeInv'
      BY <2>1, FailsType, ReadsType, FreesType
    <2>3. PlaceInv'
      BY <1>1, PlaceKept
    <2>4. FreeInv'
      BY <2>1, FreeInvBeforeFrees, FreeInvFrees
    <2>5. BoundsInv'
      BY <2>1, BoundsBeforeFrees, BoundsFrees
    <2>6. SymbolsInv'
      BY <1>1, SymbolsKept
    <2> QED BY <2>2, <2>3, <2>4, <2>5, <2>6 DEF IInv
  <1>2. CASE UNCHANGED vars
    BY <1>2 DEF vars, counts, history, IInv, TypeInv, PlaceInv, SymbolsInv, SymbolsAt, FreeInv, FreesAreTheirs,
       BoundsInv, ReadsInBounds
  <1> QED BY <1>1, <1>2

\* IInv holds in every state.
LEMMA SpecIInv == Spec => []IInv
  BY InitIInv, NextIInv, PTL DEF Spec

\* Reading never leaves the file, and every variable has its type.
THEOREM ReaderTypes == Spec => []ReaderTypeOK
  <1>1. IInv => ReaderTypeOK
    BY DEF IInv, TypeInv, Phases, ReaderTypeOK
  <1> QED BY <1>1, SpecIInv, PTL

\* A file of one page, however full, without data and with a short EAT and ST, is
\* read within the reader's memory.
THEOREM StaysInBounds == Spec => []ReadsInBounds
  <1>1. IInv => ReadsInBounds
    BY DEF IInv, BoundsInv
  <1> QED BY <1>1, SpecIInv, PTL

\* A file that is accepted was read whole, though the EAT's fread is not checked
\* and the header's lengths may wrap.
THEOREM AcceptsWhole == Spec => []AcceptedIsWhole
  <1>1. IInv => AcceptedIsWhole
    BY DEF IInv, TypeInv, PlaceInv, AcceptedIsWhole
  <1> QED BY <1>1, SpecIInv, PTL

\* Only pointers that were never set, and the one whose function failed, are freed
\* when they hold no block.
THEOREM FreesOwn == Spec => []FreesAreTheirs
  <1>1. IInv => FreesAreTheirs
    BY DEF IInv, FreeInv
  <1> QED BY <1>1, SpecIInv, PTL

\* When no section with anything in it is skipped, the sections that are read are as
\* long as all of them.
LEMMA NothingSkipped ==
    ASSUME NEW f \in Files,
           \A i \in DOMAIN f.sections : Skipped(f.sections[i]) => ~(f.sections[i].len > 0)
    PROVE  DataLen(f) = SectionsLen(f)
  <1>1. \A i \in DOMAIN f.sections : f.sections[i].len \in Nat
    BY InputReaderAssumption
  <1>2. DataLens(f) = SectionLens(f)
    BY <1>1 DEF DataLens, SectionLens
  <1> QED BY <1>2 DEF DataLen, SectionsLen

\* The symbol table that is read is the one that follows the last section, unless
\* the reader skipped a section that is not empty.
THEOREM SymbolsFollow == Spec => []SymbolsAreTheFiles
  <1>1. IInv => SymbolsAreTheFiles
    <2> SUFFICES ASSUME IInv, stAt # -1,
                        ~\E i \in DOMAIN file.sections :
                            Skipped(file.sections[i]) /\ file.sections[i].len > 0
                 PROVE  stAt = HeaderLen + file.eat + file.inst + file.sst + SectionsLen(file)
      BY DEF SymbolsAreTheFiles
    <2>1. stAt = SymbolsAt /\ file \in Files
      BY DEF IInv, SymbolsInv, TypeInv
    <2>2. DataLen(file) = SectionsLen(file)
      BY <2>1, NothingSkipped
    <2>3. file.sst = 0 => SectionsLen(file) = 0
      BY <2>1, InputReaderAssumption
    <2> QED BY <2>1, <2>2, <2>3 DEF SymbolsAt
  <1> QED BY <1>1, SpecIInv, PTL

=============================================================================
