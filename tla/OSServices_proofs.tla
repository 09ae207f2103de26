--------------------------- MODULE OSServices_proofs ---------------------------
(***************************************************************************)
(* For any number of cores, libraries, entries and descriptors: the        *)
(* loader's counts agree with its entries and with the host until the      *)
(* table grows, the handles that FOPEN gave reach files of the program, and*)
(* the loader implements LibraryTable.                                     *)
(***************************************************************************)
EXTENDS OSServices, FiniteSetTheorems, SequenceTheorems, TLAPS

FileType ==
    /\ fds \in [Fds -> [by : {"nobody", "vm", "program"}, mode : 0..3, off : Nat]]
    /\ Mb \in [Cores -> Int] /\ size \in Nat
    /\ origin \in [Cores -> {"given", "closed", "other"}]

FileInv == FileType /\ GivenHandlesReachFiles

TableType ==
    /\ phase \in {"running", "stopping", "closed", "crashed"}
    /\ entries \in Seq(DynEntry)
    /\ closed_entry_count \in Int
    /\ refs \in [Libs -> Int]

\* The entries in use have different names, since no library is loaded whose name
\* is in the table: that is why the host has each open once.
UsedEntries ==
    /\ \A h \in InUse : Entry(h).lib = Entry(h).name /\ Entry(h).lib \in Libs
    /\ \A h, k \in InUse : h # k => Entry(h).name # Entry(k).name
    /\ \A l \in Libs : refs[l] = IF \E h \in InUse : Entry(h).lib = l THEN 1 ELSE 0

TableInv ==
    /\ TableType
    /\ phase = "running" => entry_count >= InitEntries
    /\ ~Grown => /\ phase \in {"running", "stopping"} => FreeAreCounted /\ UsedEntries
                 /\ phase = "closed" => ClosedAtEnd

-----------------------------------------------------------------------------
(* Files *)

\* FOPEN has given nobody a handle yet.
LEMMA InitFileInv == Init => FileInv
  BY OSServicesAssumption DEF Init, FileInv, FileType, GivenHandlesReachFiles, NoFile, VMFile

\* A file service: the handle it gives is of a file that it has just opened, and
\* closing takes away every core's handle of the file.
LEMMA FileServiceKeeps ==
    ASSUME FileInv, NEW c \in Cores,
           \/ \E mode \in Modes : Fopen(c, mode) \/ FopenFails(c, mode)
           \/ \E n \in 1..FileLen : Fread(c, n) \/ Fwrite(c, n)
           \/ Fclose(c) \/ Feof(c) \/ Rewind(c) \/ FilePanics(c) \/ SetMb(c)
    PROVE  FileInv'
  <1> USE OSServicesAssumption DEF FileInv, FileType, GivenHandlesReachFiles, NoFile
  <1>0. Modes \subseteq 0..3 /\ 1..FileLen \subseteq Nat /\ FileLen \in Nat /\ Fds \subseteq Nat
    OBVIOUS
  <1>1. ASSUME NEW mode \in Modes, Fopen(c, mode) PROVE FileInv'
    <2>1. PICK d \in Fds : fds' = [fds EXCEPT ![d] = Opened(mode)] /\ Mb' = [Mb EXCEPT ![c] = d]
      BY <1>1 DEF Fopen, LowestOf, FreeFds
    <2> QED BY <1>0, <1>1, <2>1 DEF Fopen, Opened
  <1>2. ASSUME NEW mode \in Modes, FopenFails(c, mode) PROVE FileInv'
    BY <1>0, <1>2 DEF FopenFails
  <1>3. CASE Fclose(c) BY <1>3 DEF Fclose
  <1>4. ASSUME NEW m \in Nat, ReadFile(c, m) PROVE FileInv'
    <2>1. Mb' = Mb /\ origin' = origin /\ size' = size
      BY <1>4 DEF ReadFile
    <2>2. fds' = fds \/ \E off \in Nat : fds' = [fds EXCEPT ![Mb[c]].off = off]
      <3>1. Larger(fds[Mb[c]].off, Smaller(fds[Mb[c]].off + m, size)) \in Nat
        BY <1>4 DEF ReadFile, Larger, Smaller
      <3> QED BY <1>4, <3>1 DEF ReadFile
    <2> QED BY <2>1, <2>2
  <1>5. ASSUME NEW n \in 1..FileLen, Fwrite(c, n) PROVE FileInv'
    <2>1. Mb' = Mb /\ origin' = origin
      BY <1>5 DEF Fwrite
    <2>2. (fds' = fds /\ size' = size)
          \/ \E off \in Nat : fds' = [fds EXCEPT ![Mb[c]].off = off] /\ size' \in Nat
      <3>1. /\ Smaller(fds[Mb[c]].off + n, FileLen) \in Nat
            /\ Larger(size, Smaller(fds[Mb[c]].off + n, FileLen)) \in Nat
        BY <1>0, <1>5 DEF Fwrite, Larger, Smaller
      <3> QED BY <1>5, <3>1 DEF Fwrite
    <2> QED BY <2>1, <2>2
  <1>6. CASE Rewind(c) BY <1>6 DEF Rewind
  <1>7. CASE FilePanics(c) BY <1>7 DEF FilePanics, fileVars
  <1>8. CASE SetMb(c)
    <2>1. CASE \E d \in Cores : /\ Mb' = [Mb EXCEPT ![c] = Mb[d]]
                                /\ origin' = [origin EXCEPT ![c] = origin[d]]
      BY <1>8, <2>1 DEF SetMb
    <2>2. CASE Mb' = [Mb EXCEPT ![c] = -1] /\ origin' = [origin EXCEPT ![c] = "other"]
      BY <1>8, <2>2 DEF SetMb
    <2> QED BY <1>8, <2>1, <2>2 DEF SetMb
  <1>9. ASSUME NEW n \in 1..FileLen, Fread(c, n) PROVE FileInv'
    BY <1>0, <1>4, <1>9 DEF Fread
  <1>10. CASE Feof(c) BY <1>4, <1>10 DEF Feof
  <1> QED BY <1>1, <1>2, <1>3, <1>5, <1>6, <1>7, <1>8, <1>9, <1>10

\* The loader and stopping do not touch files.
LEMMA OthersKeepFiles ==
    LibraryService \/ Stop \/ LoaderClose => UNCHANGED fileVars
  BY DEF LibraryService, Stop, LoaderClose, DynlPanics, DyncallPanics, DynlKnown, DynlLoads,
         DynlGrows, DynlFails, DynlGrowsAndFails, DynlGrowFails, Dynul, Dyncall, UseOverwritten

\* Every step keeps the files' invariant.
LEMMA SpecFileInv == Spec => []FileInv
  <1>1. FileInv /\ [Next]_vars => FileInv'
    <2> SUFFICES ASSUME FileInv, [Next]_vars PROVE FileInv'
      OBVIOUS
    <2>1. CASE UNCHANGED fileVars
      BY <2>1 DEF fileVars, FileInv, FileType, GivenHandlesReachFiles
    <2>2. CASE FileService
      <3>1. PICK c \in Cores :
              \/ \E mode \in Modes : Fopen(c, mode) \/ FopenFails(c, mode)
              \/ \E n \in 1..FileLen : Fread(c, n) \/ Fwrite(c, n)
              \/ Fclose(c) \/ Feof(c) \/ Rewind(c) \/ FilePanics(c) \/ SetMb(c)
        BY <2>2 DEF FileService
      <3> QED BY <3>1, FileServiceKeeps
    <2> QED BY <2>1, <2>2, OthersKeepFiles DEF Next, vars
  <1> QED BY <1>1, InitFileInv, PTL DEF Spec

\* Whatever the program does with handles, one that FOPEN gave and nobody has
\* closed is of an open file of the program.
THEOREM GivenHandles == Spec => []GivenHandlesReachFiles
  <1>1. FileInv => GivenHandlesReachFiles
    BY DEF FileInv
  <1> QED BY <1>1, SpecFileInv, PTL

-----------------------------------------------------------------------------
(* Libraries *)

\* What the entries are after one of them was changed.
LEMMA SetEntry ==
    ASSUME TableType, NEW h \in 0..(entry_count - 1), NEW x \in DynEntry,
           entries' = [entries EXCEPT ![h + 1] = x]
    PROVE  /\ entries' \in Seq(DynEntry) /\ entry_count' = entry_count
           /\ \A k \in 0..(entry_count - 1) : Entry(k)' = IF k = h THEN x ELSE Entry(k)
           /\ Free' = IF x.handle_open THEN Free \cup {h} ELSE Free \ {h}
           /\ InUse' = IF x.handle_open THEN InUse \ {h} ELSE InUse \cup {h}
  <1>1. entry_count \in Nat /\ entries \in [1..entry_count -> DynEntry]
    BY LenProperties DEF TableType, entry_count
  <1>2. entries' \in [1..entry_count -> DynEntry] /\ entries' \in Seq(DynEntry)
    BY <1>1, SeqDef
  <1>3. entry_count' = entry_count
    BY <1>1, <1>2, LenProperties DEF entry_count
  <1>4. \A k \in 0..(entry_count - 1) : Entry(k)' = IF k = h THEN x ELSE Entry(k)
    BY <1>1 DEF Entry
  <1> QED BY <1>2, <1>3, <1>4 DEF Free, InUse

\* The free entries are finitely many, and no more than all.
LEMMA FreeFinite ==
    ASSUME TableType
    PROVE  /\ IsFiniteSet(Free) /\ Cardinality(Free) \in Nat
           /\ Cardinality(Free) = entry_count => InUse = {}
  <1>1. entry_count \in Nat
    BY LenProperties DEF TableType, entry_count
  <1>2. IsFiniteSet(0..(entry_count - 1)) /\ Cardinality(0..(entry_count - 1)) = entry_count
    BY <1>1, FS_Interval
  <1>3. Free \in SUBSET (0..(entry_count - 1))
    BY DEF Free
  <1>4. IsFiniteSet(Free) /\ (Cardinality(0..(entry_count - 1)) = Cardinality(Free)
                               => 0..(entry_count - 1) = Free)
    BY <1>2, <1>3, FS_Subset
  <1> QED BY <1>2, <1>4, FS_CardinalityType DEF Free, InUse

\* With different names, the entries in use for a library are one or none.
LEMMA OneEntryEach ==
    ASSUME UsedEntries, NEW l \in Libs
    PROVE  Cardinality({h \in InUse : Entry(h).lib = l}) = refs[l] /\ refs[l] \in {0, 1}
  <1>1. CASE \E h \in InUse : Entry(h).lib = l
    <2>1. PICK h \in InUse : Entry(h).lib = l
      BY <1>1
    <2>2. {k \in InUse : Entry(k).lib = l} = {h}
      BY <2>1 DEF UsedEntries
    <2> QED BY <1>1, <2>2, FS_Singleton DEF UsedEntries
  <1>2. CASE ~\E h \in InUse : Entry(h).lib = l
    <2>1. {k \in InUse : Entry(k).lib = l} = {}
      BY <1>2
    <2> QED BY <1>2, <2>1, FS_EmptySet DEF UsedEntries
  <1> QED BY <1>1, <1>2

\* merry_loader_init: all entries are free, whatever their names.
LEMMA InitTable == Init => TableInv
  <1> SUFFICES ASSUME Init PROVE TableInv
    OBVIOUS
  <1>1. InitEntries \in Nat /\ entries \in [1..InitEntries -> DynEntry]
    BY OSServicesAssumption DEF Init, DynEntry
  <1>2. entries \in Seq(DynEntry) /\ entry_count = InitEntries
    <2>1. entries \in Seq(DynEntry)
      BY <1>1, SeqDef
    <2> QED BY <1>1, <2>1, LenProperties DEF entry_count
  <1>3. \A h \in 0..(InitEntries - 1) : Entry(h).handle_open
    <2>1. \A i \in 1..InitEntries :
             entries[i] \in [name : Libs \cup {None}, lib : {None}, handle_open : {TRUE}]
      BY DEF Init
    <2>2. \A i \in 1..InitEntries : entries[i].handle_open = TRUE
      BY <2>1
    <2>3. \A h \in 0..(InitEntries - 1) : h + 1 \in 1..InitEntries
      BY <1>1
    <2> QED BY <2>2, <2>3 DEF Entry
  <1>4. Free = 0..(InitEntries - 1) /\ InUse = {}
    BY <1>2, <1>3 DEF Free, InUse
  <1>5. Cardinality(Free) = InitEntries
    BY <1>1, <1>4, FS_Interval
  <1>6. TableType
    BY <1>1, <1>2 DEF Init, TableType
  <1>7. FreeAreCounted /\ UsedEntries
    BY <1>4, <1>5 DEF Init, FreeAreCounted, UsedEntries
  <1> QED BY <1>1, <1>2, <1>6, <1>7 DEF Init, TableInv

\* A load takes a free entry and a name that is in no entry.
LEMMA LoadKeeps == ASSUME TableInv, NEW n \in Libs, DynlLoads(n) PROVE TableInv'
  <1>1. PICK h \in Free : entries' = [entries EXCEPT ![h + 1] = Loaded(n)]
    BY DEF DynlLoads, LowestOf
  <1>2. h \in 0..(entry_count - 1) /\ Loaded(n) \in DynEntry
    BY DEF Free, Loaded, DynEntry
  <1>3. /\ entries' \in Seq(DynEntry) /\ entry_count' = entry_count
        /\ \A k \in 0..(entry_count - 1) : Entry(k)' = IF k = h THEN Loaded(n) ELSE Entry(k)
        /\ Free' = Free \ {h} /\ InUse' = InUse \cup {h}
    BY <1>1, <1>2, SetEntry DEF TableInv, Loaded
  <1>4. /\ phase = "running" /\ phase' = "running"
        /\ closed_entry_count' = closed_entry_count - 1
        /\ refs' = [refs EXCEPT ![n] = @ + 1]
        /\ \A k \in 0..(entry_count - 1) : Entry(k).name # n
    BY DEF DynlLoads, Uses, Named
  <1>5. TableType'
    BY <1>3, <1>4 DEF TableInv, TableType
  <1>6. ASSUME ~Grown PROVE FreeAreCounted' /\ UsedEntries'
    <2>1. FreeAreCounted /\ UsedEntries
      BY <1>4, <1>6 DEF TableInv
    <2>2. FreeAreCounted'
      BY <1>1, <1>3, <1>4, <2>1, FreeFinite, FS_RemoveElement DEF FreeAreCounted, TableInv
    <2>3. \A k \in InUse : k \in 0..(entry_count - 1) /\ k # h
      BY <1>1 DEF InUse, Free
    <2>4. Entry(h)'.lib = n /\ Entry(h)'.name = n /\ \A k \in InUse : Entry(k)' = Entry(k)
      BY <1>2, <1>3, <2>3 DEF Loaded
    <2>5. \A k \in InUse' : Entry(k)'.lib = Entry(k)'.name /\ Entry(k)'.lib \in Libs
      BY <1>3, <2>1, <2>4 DEF UsedEntries
    <2>6. \A k, j \in InUse' : k # j => Entry(k)'.name # Entry(j)'.name
      BY <1>3, <1>4, <2>1, <2>3, <2>4 DEF UsedEntries
    <2>7. ASSUME NEW l \in Libs
          PROVE refs'[l] = IF \E k \in InUse' : Entry(k)'.lib = l THEN 1 ELSE 0
      <3>1. CASE l = n
        <4>1. \A k \in InUse : Entry(k).lib # n
          BY <1>4, <2>1, <2>3 DEF UsedEntries
        <4>2. refs[n] = 0
          BY <2>1, <4>1 DEF UsedEntries
        <4>3. refs'[n] = 1
          BY <1>4, <4>2 DEF TableInv, TableType
        <4> QED BY <1>3, <2>4, <3>1, <4>3
      <3>2. CASE l # n
        BY <1>3, <1>4, <2>1, <2>4, <3>2 DEF UsedEntries, TableInv, TableType
      <3> QED BY <3>1, <3>2
    <2> QED BY <2>2, <2>5, <2>6, <2>7 DEF UsedEntries
  <1> QED BY <1>3, <1>4, <1>5, <1>6 DEF TableInv, Grown

\* What a freed entry is.
LEMMA FreedEntry ==
    ASSUME NEW e \in DynEntry
    PROVE  /\ [e EXCEPT !.handle_open = TRUE] \in DynEntry
           /\ [e EXCEPT !.handle_open = TRUE].handle_open = TRUE
  BY DEF DynEntry

\* An unload frees the entry, which keeps its name.
LEMMA UnloadKeeps == ASSUME TableInv, NEW h \in Handles, Dynul(h) PROVE TableInv'
  <1> DEFINE x == [Entry(h) EXCEPT !.handle_open = TRUE]
             n == Entry(h).lib
  <1>0. entry_count \in Nat /\ entries \in [1..entry_count -> DynEntry]
    BY LenProperties DEF TableInv, TableType, entry_count
  <1>1. h \in 0..(entry_count - 1)
    BY <1>0, OSServicesAssumption DEF Dynul, Handles
  <1>2. Entry(h) \in DynEntry /\ x \in DynEntry /\ x.handle_open
    <2>1. Entry(h) \in DynEntry
      BY <1>0, <1>1 DEF Entry
    <2> QED BY <2>1, FreedEntry
  <1>3. entries' = [entries EXCEPT ![h + 1] = x]
    BY DEF Dynul, Entry
  <1>4. /\ entries' \in Seq(DynEntry) /\ entry_count' = entry_count
        /\ \A k \in 0..(entry_count - 1) : Entry(k)' = IF k = h THEN x ELSE Entry(k)
        /\ Free' = Free \cup {h} /\ InUse' = InUse \ {h}
    BY <1>1, <1>2, <1>3, SetEntry DEF TableInv
  <1>5. /\ phase = "running" /\ phase' = "running"
        /\ closed_entry_count' = closed_entry_count + 1
        /\ refs' = [refs EXCEPT ![n] = @ - 1]
        /\ h \in InUse /\ h \notin Free
    <2>1. ~Entry(h).handle_open
      BY DEF Dynul
    <2>2. h \in InUse /\ h \notin Free
      BY <1>1, <2>1 DEF InUse, Free
    <2>3. /\ phase = "running" /\ phase' = "running"
          /\ closed_entry_count' = closed_entry_count + 1
          /\ refs' = [refs EXCEPT ![n] = @ - 1]
      BY DEF Dynul, Uses
    <2> QED BY <2>2, <2>3
  <1>6. TableType'
    <2>1. entries' \in Seq(DynEntry)
      BY <1>4
    <2>2. refs \in [Libs -> Int] /\ closed_entry_count \in Int
      BY DEF TableInv, TableType
    <2>3. refs' \in [Libs -> Int]
      <3> HIDE DEF n
      <3>1. refs' = [l \in Libs |-> IF l = n THEN refs[n] - 1 ELSE refs[l]]
        BY <1>5, <2>2
      <3> QED BY <2>2, <3>1
    <2>4. closed_entry_count' \in Int
      BY <1>5, <2>2
    <2> QED BY <1>5, <2>1, <2>3, <2>4 DEF TableType
  <1>7. ASSUME ~Grown PROVE FreeAreCounted' /\ UsedEntries'
    <2>1. FreeAreCounted /\ UsedEntries
      BY <1>5, <1>7 DEF TableInv
    <2>2. FreeAreCounted'
      BY <1>4, <1>5, <2>1, FreeFinite, FS_AddElement DEF FreeAreCounted, TableInv
    <2>3. \A k \in InUse' : k \in InUse /\ k # h /\ Entry(k)' = Entry(k)
      BY <1>4 DEF InUse
    <2>4. /\ \A k \in InUse' : Entry(k)'.lib = Entry(k)'.name /\ Entry(k)'.lib \in Libs
          /\ \A k, j \in InUse' : k # j => Entry(k)'.name # Entry(j)'.name
      BY <2>1, <2>3 DEF UsedEntries
    <2>5. ASSUME NEW l \in Libs
          PROVE refs'[l] = IF \E k \in InUse' : Entry(k)'.lib = l THEN 1 ELSE 0
      <3>1. CASE l = n
        <4>1. \A k \in InUse' : Entry(k)'.lib # n
          BY <1>5, <2>1, <2>3 DEF UsedEntries
        <4>2. refs[n] = 1
          BY <1>5, <2>1, <3>1 DEF UsedEntries
        <4>3. refs'[n] = 0
          BY <1>5, <3>1, <4>2 DEF TableInv, TableType
        <4> QED BY <3>1, <4>1, <4>3
      <3>2. CASE l # n
        <4>1. (\E k \in InUse' : Entry(k)'.lib = l) <=> \E k \in InUse : Entry(k).lib = l
          BY <1>4, <2>3, <3>2
        <4>2. refs'[l] = refs[l]
          BY <1>5, <3>2 DEF TableInv, TableType
        <4> QED BY <2>1, <4>1, <4>2 DEF UsedEntries
      <3> QED BY <3>1, <3>2
    <2> QED BY <2>2, <2>4, <2>5 DEF UsedEntries
  <1> QED BY <1>4, <1>5, <1>6, <1>7 DEF TableInv, Grown

\* One entry more than there were at most at any time before is more than the first.
LEMMA GrowIsGrown ==
    ASSUME TableInv, NEW n \in Libs, NEW new \in DynEntry, Grow(n, new)
    PROVE  entries' \in Seq(DynEntry) /\ entry_count' > InitEntries
  <1>1. entry_count \in Nat /\ entries \in [1..entry_count -> DynEntry] /\ InitEntries \in Nat
    BY LenProperties, OSServicesAssumption DEF TableInv, TableType, entry_count
  <1>2. PICK S \in SUBSET (1..entry_count) :
           \E junk \in [S -> Overwritten] :
              entries' = [i \in 1..(entry_count + 1) |->
                            IF i = entry_count + 1 THEN new
                            ELSE IF i \in S THEN junk[i] ELSE entries[i]]
    BY DEF Grow
  <1>3. Overwritten \subseteq DynEntry
    BY DEF Overwritten, DynEntry
  <1>4. entries' \in [1..(entry_count + 1) -> DynEntry]
    BY <1>1, <1>2, <1>3
  <1>5. entries' \in Seq(DynEntry)
    BY <1>1, <1>4, SeqDef
  <1>6. entry_count' = entry_count + 1
    BY <1>1, <1>4, <1>5, LenProperties DEF entry_count
  <1> QED BY <1>1, <1>5, <1>6 DEF Grow, Uses, TableInv

\* merry_loader_close: if all entries are counted free none is in use, and else
\* every library is closed as often as it is open, once.
LEMMA CloseKeeps == ASSUME TableInv, LoaderClose PROVE TableInv'
  <1>1. UNCHANGED <<entries, closed_entry_count>> /\ phase = "stopping"
    BY DEF LoaderClose
  <1>2. CASE phase' = "crashed" /\ refs' = refs
    BY <1>1, <1>2 DEF TableInv, TableType, entry_count, Grown
  <1>3. CASE /\ phase' = "closed"
             /\ refs' = [l \in Libs |->
                           IF closed_entry_count = entry_count THEN refs[l]
                           ELSE refs[l] - Cardinality({h \in InUse : Entry(h).lib = l})]
    <2>1. \A l \in Libs : IsFiniteSet({h \in InUse : Entry(h).lib = l})
      <3>1. IsFiniteSet(0..(entry_count - 1))
        BY LenProperties, FS_Interval DEF TableInv, TableType, entry_count
      <3> QED BY <3>1, FS_Subset DEF InUse
    <2>2. \A l \in Libs : Cardinality({h \in InUse : Entry(h).lib = l}) \in Nat
      BY <2>1, FS_CardinalityType
    <2>3. TableType'
      BY <1>1, <1>3, <2>2 DEF TableInv, TableType
    <2>4. ASSUME ~Grown, NEW l \in Libs PROVE refs'[l] = 0
      <3>1. FreeAreCounted /\ UsedEntries /\ TableType
        BY <1>1, <2>4 DEF TableInv
      <3>2. CASE closed_entry_count = entry_count
        <4>1. InUse = {}
          BY <3>1, <3>2, FreeFinite DEF FreeAreCounted
        <4> QED BY <1>3, <3>1, <3>2, <4>1 DEF UsedEntries
      <3>3. CASE closed_entry_count # entry_count
        <4>1. refs[l] = Cardinality({h \in InUse : Entry(h).lib = l}) /\ refs[l] \in {0, 1}
          BY <3>1, OneEntryEach
        <4>2. refs'[l] = refs[l] - Cardinality({h \in InUse : Entry(h).lib = l})
          BY <1>3, <3>3
        <4> QED BY <4>1, <4>2
      <3> QED BY <3>2, <3>3
    <2> QED BY <1>1, <1>3, <2>3, <2>4 DEF TableInv, Grown, entry_count, ClosedAtEnd
  <1> QED BY <1>2, <1>3 DEF LoaderClose

\* A step that changes neither the table nor the host's libraries, and does not
\* close them.
LEMMA ElseKeeps ==
    ASSUME TableInv, UNCHANGED <<entries, closed_entry_count, refs>>,
           \/ phase' = phase
           \/ phase = "running" /\ phase' = "stopping"
           \/ phase' = "crashed"
    PROVE  TableInv'
  BY DEF TableInv, TableType, entry_count, Grown, FreeAreCounted, UsedEntries, ClosedAtEnd,
         InUse, Free, Entry

\* The steps that leave the table and the host's libraries alone.
LEMMA OthersKeepTable ==
    \/ DynlPanics \/ DyncallPanics \/ UseOverwritten \/ Stop
    \/ \E n \in Libs : DynlKnown(n) \/ DynlFails(n)
    \/ \E h \in Handles : Dyncall(h)
    \/ FileService \/ UNCHANGED vars
    => UNCHANGED <<entries, closed_entry_count, refs>>
  BY DEF DynlPanics, DyncallPanics, UseOverwritten, Stop, DynlKnown, DynlFails,
         Dyncall, FileService, Fopen, FopenFails, Fread, Fwrite, Fclose, Feof, Rewind,
         FilePanics, SetMb, ReadFile, vars, loaderVars

\* Every step keeps the table's invariant.
LEMMA StepTableInv == TableInv /\ [Next]_vars => TableInv'
  <1> SUFFICES ASSUME TableInv, [Next]_vars PROVE TableInv'
    OBVIOUS
  <1>1. ASSUME NEW n \in Libs, DynlLoads(n) PROVE TableInv'
    BY <1>1, LoadKeeps
  <1>2. ASSUME NEW h \in Handles, Dynul(h) PROVE TableInv'
    BY <1>2, UnloadKeeps
  <1>3. ASSUME NEW n \in Libs, DynlGrows(n) PROVE TableInv'
    <2>1. Loaded(n) \in DynEntry
      BY DEF Loaded, DynEntry
    <2>2. entries' \in Seq(DynEntry) /\ entry_count' > InitEntries
      BY <1>3, <2>1, GrowIsGrown DEF DynlGrows
    <2>3. entry_count' \in Nat
      BY <2>2, LenProperties DEF entry_count
    <2> QED BY <1>3, <2>2, <2>3, OSServicesAssumption
            DEF DynlGrows, TableInv, TableType, Grown
  <1>4. ASSUME NEW n \in Libs, DynlGrowsAndFails(n) PROVE TableInv'
    <2>1. Overwritten \subseteq DynEntry
      BY DEF Overwritten, DynEntry
    <2>2. entries' \in Seq(DynEntry) /\ entry_count' > InitEntries
      BY <1>4, <2>1, GrowIsGrown DEF DynlGrowsAndFails
    <2>3. entry_count' \in Nat
      BY <2>2, LenProperties DEF entry_count
    <2> QED BY <1>4, <2>2, <2>3, OSServicesAssumption
            DEF DynlGrowsAndFails, Panic, TableInv, TableType, Grown
  <1>5. ASSUME NEW n \in Libs, DynlGrowFails(n) PROVE TableInv'
    <2>1. entries' \in Seq(DynEntry) /\ entry_count' = 0
      BY <1>5 DEF DynlGrowFails, entry_count
    <2> QED BY <1>5, <2>1, OSServicesAssumption
            DEF DynlGrowFails, Panic, TableInv, TableType, Grown
  <1>6. CASE LoaderClose
    BY <1>6, CloseKeeps
  <1>7. CASE \/ DynlPanics \/ DyncallPanics \/ UseOverwritten \/ Stop
             \/ \E n \in Libs : DynlKnown(n) \/ DynlFails(n)
             \/ \E h \in Handles : Dyncall(h)
             \/ FileService \/ UNCHANGED vars
    <2>1. UNCHANGED <<entries, closed_entry_count, refs>>
      BY <1>7, OthersKeepTable
    <2>2. \/ phase' = phase
          \/ phase = "running" /\ phase' = "stopping"
          \/ phase' = "crashed"
      BY <1>7 DEF DynlPanics, DyncallPanics, UseOverwritten, Stop, DynlKnown, DynlFails,
         Dyncall, FileService, Fopen, FopenFails, Fread, Fwrite, Fclose, Feof, Rewind,
         FilePanics, SetMb, ReadFile, vars, Uses, Panic
    <2> QED BY <2>1, <2>2, ElseKeeps
  <1> QED BY <1>1, <1>2, <1>3, <1>4, <1>5, <1>6, <1>7 DEF Next, LibraryService

\* The table's invariant holds in every reachable state.
LEMMA SpecTableInv == Spec => []TableInv
  BY InitTable, StepTableInv, PTL DEF Spec

\* After any sequence of loads, failed loads and unloads the counts, the entries
\* and the host agree, until a library needs an entry more than the first ones.
THEOREM TableAgrees == Spec => []TableAgreesWithHost
  <1>1. TableInv => TableAgreesWithHost
    <2> SUFFICES ASSUME TableInv, ~Grown PROVE /\ phase = "running" => FreeAreCounted /\ OpenedOnce
                                               /\ phase = "closed" => ClosedAtEnd
      BY DEF TableAgreesWithHost
    <2>1. UsedEntries => OpenedOnce
      BY OneEntryEach DEF OpenedOnce
    <2> QED BY <2>1 DEF TableInv
  <1> QED BY <1>1, SpecTableInv, PTL

-----------------------------------------------------------------------------
(* The loader's promise *)

\* What LibraryTable calls libs and last.
HandleLibs == [h \in Handles |->
                 IF Grown THEN None
                 ELSE IF h \in InUse /\ phase # "closed" THEN Entry(h).lib ELSE None]
HandleLast == [h \in Handles |->
                 IF Grown \/ h >= entry_count THEN None ELSE Entry(h).name]

\* The first entries have handles, and in the table as it was made they are all.
LEMMA FirstEntries ==
    ASSUME TableInv, ~Grown
    PROVE  /\ entry_count = InitEntries /\ entry_count \in Nat
           /\ 0..(entry_count - 1) \subseteq Handles
           /\ Handles \subseteq Nat
           /\ \A h \in 0..(entry_count - 1) : Entry(h) \in DynEntry
  <1>1. entry_count \in Nat /\ entries \in [1..entry_count -> DynEntry]
    BY LenProperties DEF TableInv, TableType, entry_count
  <1>2. \A h \in 0..(entry_count - 1) : h + 1 \in 1..entry_count
    BY <1>1
  <1> QED BY <1>1, <1>2, OSServicesAssumption DEF Grown, Handles, Entry

\* The loader begins with free entries, whatever their names are.
LEMMA InitLibrary == Init => Library!Init
  <1> SUFFICES ASSUME Init PROVE Library!Init
    OBVIOUS
  <1>1. TableInv /\ ~Grown
    <2>1. InitEntries \in Nat
      BY OSServicesAssumption
    <2>2. entry_count = InitEntries
      BY <2>1, LenProperties, SeqDef DEF Init, entry_count
    <2> QED BY <2>2, InitTable DEF Grown
  <1>2. /\ entry_count = InitEntries /\ InitEntries \in Nat
        /\ \A h \in 0..(InitEntries - 1) : h + 1 \in 1..InitEntries
    BY <1>1, FirstEntries
  <1>3. \A h \in 0..(entry_count - 1) : Entry(h).handle_open /\ Entry(h).name \in Libs \cup {None}
    BY <1>2 DEF Init, Entry
  <1>4. InUse = {}
    BY <1>3 DEF InUse
  <1>5. HandleLibs = [h \in Handles |-> None]
    BY <1>1, <1>4 DEF HandleLibs
  <1>6. HandleLast \in [Handles -> Libs \cup {None}]
    <2>1. ASSUME NEW h \in Handles PROVE h >= entry_count \/ h \in 0..(entry_count - 1)
      BY <1>1, FirstEntries
    <2> QED BY <1>3, <2>1 DEF HandleLast
  <1>7. answer = None /\ Grown = FALSE
    BY <1>1 DEF Init, Grown
  <1> QED BY <1>5, <1>6, <1>7 DEF Library!Init, HandleLibs, HandleLast

\* A step that changes no entry leaves the promise where it was, unless it closes
\* the loader.
LEMMA QuietTable ==
    ASSUME entries' = entries, phase' = "closed" <=> phase = "closed"
    PROVE  HandleLibs' = HandleLibs /\ HandleLast' = HandleLast /\ Grown' = Grown
  BY DEF HandleLibs, HandleLast, Grown, InUse, Entry, entry_count

\* A library whose name is in the table is shared, or its old handle is given.
LEMMA KnownIsGiven ==
    ASSUME TableInv, ~Grown, NEW n \in Libs, DynlKnown(n)
    PROVE  \E h \in Handles : Library!Share(h, n) \/ Library!Stale(h, n)
  <1>1. PICK h \in Named(n) : Answer(h, n)
    BY DEF DynlKnown, LowestOf
  <1>2. /\ h \in 0..(entry_count - 1) /\ h \in Handles /\ ~(h >= entry_count)
        /\ Entry(h).name = n /\ Entry(h) \in DynEntry
    BY <1>1, FirstEntries DEF Named
  <1>3. entries' = entries /\ phase' = phase /\ phase = "running"
    BY DEF DynlKnown, Uses
  <1>4. HandleLibs' = HandleLibs /\ HandleLast' = HandleLast /\ Grown' = Grown
    BY <1>3, QuietTable
  <1>5. HandleLast[h] = n
    BY <1>2 DEF HandleLast
  <1>6. answer' = <<"DYNL", h, n>>
    BY <1>1 DEF Answer
  <1>7. CASE h \in InUse
    <2>1. Entry(h).lib = n
      BY <1>2, <1>3, <1>7 DEF TableInv, UsedEntries
    <2>2. HandleLibs[h] = n
      BY <1>2, <1>3, <1>7, <2>1 DEF HandleLibs
    <2>3. Library!Share(h, n)
      BY <1>4, <1>6, <2>2 DEF Library!Share, Library!Given, HandleLibs, HandleLast
    <2> QED BY <1>2, <2>3
  <1>8. CASE h \notin InUse
    <2>1. HandleLibs[h] = None
      BY <1>2, <1>8 DEF HandleLibs
    <2>2. Library!Stale(h, n)
      BY <1>4, <1>5, <1>6, <2>1 DEF Library!Stale, Library!Given, HandleLibs, HandleLast
    <2> QED BY <1>2, <2>2
  <1> QED BY <1>7, <1>8

\* Loading takes a free handle, for a library that no handle is known for.
LEMMA LoadIsLoad ==
    ASSUME TableInv, ~Grown, NEW n \in Libs, DynlLoads(n)
    PROVE  \E h \in Handles : Library!Load(h, n)
  <1>1. PICK h \in Free : entries' = [entries EXCEPT ![h + 1] = Loaded(n)] /\ Answer(h, n)
    BY DEF DynlLoads, LowestOf
  <1>2. h \in 0..(entry_count - 1) /\ h \in Handles /\ Loaded(n) \in DynEntry /\ h \notin InUse
    BY <1>1, FirstEntries DEF Free, InUse, Loaded, DynEntry
  <1>3. /\ entry_count' = entry_count /\ InUse' = InUse \cup {h}
        /\ \A k \in 0..(entry_count - 1) : Entry(k)' = IF k = h THEN Loaded(n) ELSE Entry(k)
    BY <1>1, <1>2, SetEntry DEF TableInv, Loaded
  <1>4. /\ phase = "running" /\ phase' = "running" /\ answer' = <<"DYNL", h, n>>
        /\ \A k \in 0..(entry_count - 1) : Entry(k).name # n
    BY <1>1 DEF DynlLoads, Uses, Named, Answer
  <1>5. /\ Grown' = Grown
        /\ \A k \in Handles : k >= entry_count \/ k \in 0..(entry_count - 1)
        /\ \A k \in 0..(entry_count - 1) : ~(k >= entry_count)
    BY <1>3, FirstEntries DEF Grown
  <1>6. HandleLibs' = [HandleLibs EXCEPT ![h] = n]
    <2>1. HandleLibs = [k \in Handles |-> IF k \in InUse THEN Entry(k).lib ELSE None]
      BY <1>4 DEF HandleLibs
    <2>2. HandleLibs' = [k \in Handles |-> IF k \in InUse' THEN Entry(k)'.lib ELSE None]
      BY <1>4, <1>5 DEF HandleLibs
    <2>3. \A k \in InUse : k \in 0..(entry_count - 1) /\ k # h
      BY <1>2 DEF InUse
    <2>4. Entry(h)'.lib = n /\ \A k \in InUse : Entry(k)' = Entry(k)
      BY <1>2, <1>3, <2>3 DEF Loaded
    <2> QED BY <1>2, <1>3, <2>1, <2>2, <2>4
  <1>7. HandleLast' = [HandleLast EXCEPT ![h] = n]
    <2>1. HandleLast = [k \in Handles |-> IF k >= entry_count THEN None ELSE Entry(k).name]
      BY DEF HandleLast
    <2>2. HandleLast' = [k \in Handles |-> IF k >= entry_count THEN None ELSE Entry(k)'.name]
      BY <1>3, <1>5 DEF HandleLast
    <2>3. ASSUME NEW k \in Handles, k # h
          PROVE (IF k >= entry_count THEN None ELSE Entry(k)'.name)
                = (IF k >= entry_count THEN None ELSE Entry(k).name)
      BY <1>3, <1>5, <2>3
    <2>4. (IF h >= entry_count THEN None ELSE Entry(h)'.name) = n
      BY <1>2, <1>3, <1>5 DEF Loaded
    <2> QED BY <1>2, <2>1, <2>2, <2>3, <2>4
  <1>8. HandleLibs[h] = None
    BY <1>2 DEF HandleLibs
  <1>9. \A k \in Handles : HandleLast[k] # n
    BY <1>4, <1>5, OSServicesAssumption DEF HandleLast
  <1>10. Library!Load(h, n)
    BY <1>4, <1>5, <1>6, <1>7, <1>8, <1>9 DEF Library!Load, Library!Given, HandleLibs, HandleLast
  <1> QED BY <1>2, <1>10

\* Unloading takes the handle's library away, and remembers it.
LEMMA UnloadIsUnload ==
    ASSUME TableInv, ~Grown, NEW h \in Handles, Dynul(h)
    PROVE  Library!Unload(h)
  <1> DEFINE x == [Entry(h) EXCEPT !.handle_open = TRUE]
  <1>1. h \in 0..(entry_count - 1) /\ Entry(h) \in DynEntry /\ ~Entry(h).handle_open
    BY FirstEntries DEF Dynul, Handles
  <1>2. x \in DynEntry /\ x.handle_open = TRUE /\ x.name = Entry(h).name
    <2>1. \A e \in DynEntry : [e EXCEPT !.handle_open = TRUE].name = e.name
      BY DEF DynEntry
    <2> QED BY <1>1, <2>1, FreedEntry
  <1>3. entries' = [entries EXCEPT ![h + 1] = x]
    BY DEF Dynul, Entry
  <1>4. /\ entry_count' = entry_count /\ InUse' = InUse \ {h}
        /\ \A k \in 0..(entry_count - 1) : Entry(k)' = IF k = h THEN x ELSE Entry(k)
    BY <1>1, <1>2, <1>3, SetEntry DEF TableInv
  <1>5. /\ phase = "running" /\ phase' = "running" /\ answer' = answer
        /\ Entry(h).lib # None /\ h \in InUse
    BY <1>1 DEF Dynul, Uses, InUse
  <1>6. /\ Grown' = Grown
        /\ \A k \in Handles : k >= entry_count \/ k \in 0..(entry_count - 1)
    BY <1>4, FirstEntries DEF Grown
  <1>7. HandleLibs' = [HandleLibs EXCEPT ![h] = None]
    <2>1. HandleLibs = [k \in Handles |-> IF k \in InUse THEN Entry(k).lib ELSE None]
      BY <1>5 DEF HandleLibs
    <2>2. HandleLibs' = [k \in Handles |-> IF k \in InUse' THEN Entry(k)'.lib ELSE None]
      BY <1>5, <1>6 DEF HandleLibs
    <2>3. \A k \in InUse' : k # h /\ k \in InUse /\ Entry(k)' = Entry(k)
      BY <1>4 DEF InUse
    <2>4. \A k \in InUse : k = h \/ k \in InUse'
      BY <1>4
    <2> QED BY <1>4, <2>1, <2>2, <2>3, <2>4
  <1>8. HandleLast' = HandleLast
    <2>1. \A k \in 0..(entry_count - 1) : Entry(k)'.name = Entry(k).name
      BY <1>2, <1>4
    <2>2. ASSUME NEW k \in Handles
          PROVE  (IF Grown' \/ k >= entry_count' THEN None ELSE Entry(k)'.name)
                 = (IF Grown \/ k >= entry_count THEN None ELSE Entry(k).name)
      BY <1>4, <1>6, <2>1
    <2> QED BY <2>2 DEF HandleLast
  <1>9. HandleLibs[h] # None
    BY <1>5 DEF HandleLibs
  <1> QED BY <1>5, <1>6, <1>7, <1>8, <1>9 DEF Library!Unload, HandleLibs, HandleLast

\* A call reaches the library that its handle stands for.
LEMMA CallIsCall ==
    ASSUME TableInv, ~Grown, NEW h \in Handles, Dyncall(h)
    PROVE  Library!Call(h)
  <1>1. /\ entries' = entries /\ phase' = phase /\ phase = "running"
        /\ answer' = <<"DYNCALL", h, Entry(h).lib>> /\ Entry(h).lib # None
        /\ h < entry_count /\ ~Entry(h).handle_open
    BY DEF Dyncall, Uses
  <1>2. HandleLibs' = HandleLibs /\ HandleLast' = HandleLast /\ Grown' = Grown
    BY <1>1, QuietTable
  <1>3. h \in InUse
    BY <1>1, FirstEntries DEF InUse, Handles
  <1>4. HandleLibs[h] = Entry(h).lib
    BY <1>1, <1>3 DEF HandleLibs
  <1> QED BY <1>1, <1>2, <1>4 DEF Library!Call, HandleLibs, HandleLast

\* In a table that is as it was made, an entry is added only if every handle
\* stands for a library; and the table never is as it was made again.
LEMMA GrowIsBreak ==
    ASSUME TableInv, ~Grown, NEW n \in Libs,
           DynlGrows(n) \/ DynlGrowsAndFails(n) \/ DynlGrowFails(n)
    PROVE  Library!Break
  <1>1. phase = "running" /\ closed_entry_count = 0 /\ Grown'
    <2>1. CASE DynlGrows(n)
      <3>1. Loaded(n) \in DynEntry
        BY DEF Loaded, DynEntry
      <3>2. entries' \in Seq(DynEntry) /\ entry_count' > InitEntries
        BY <2>1, <3>1, GrowIsGrown DEF DynlGrows
      <3>3. entry_count' \in Nat
        BY <3>2, LenProperties DEF entry_count
      <3> QED BY <2>1, <3>2, <3>3, OSServicesAssumption DEF DynlGrows, Grow, Uses, Grown
    <2>2. CASE DynlGrowsAndFails(n)
      <3>1. Overwritten \subseteq DynEntry
        BY DEF Overwritten, DynEntry
      <3>2. entries' \in Seq(DynEntry) /\ entry_count' > InitEntries
        BY <2>2, <3>1, GrowIsGrown DEF DynlGrowsAndFails
      <3>3. entry_count' \in Nat
        BY <3>2, LenProperties DEF entry_count
      <3> QED BY <2>2, <3>2, <3>3, OSServicesAssumption
              DEF DynlGrowsAndFails, Grow, Uses, Grown
    <2>3. CASE DynlGrowFails(n)
      BY <2>3, OSServicesAssumption DEF DynlGrowFails, Uses, Grown, entry_count
    <2> QED BY <2>1, <2>2, <2>3
  <1>2. Free = {}
    BY <1>1, FreeFinite, FS_EmptySet DEF TableInv, FreeAreCounted
  <1>3. ASSUME NEW h \in 0..(InitEntries - 1) PROVE HandleLibs[h] # None
    <2>1. h \in Handles /\ h \in 0..(entry_count - 1)
      BY FirstEntries
    <2>2. h \in InUse
      BY <1>2, <2>1 DEF Free, InUse
    <2>3. Entry(h).lib \in Libs
      BY <1>1, <2>2 DEF TableInv, UsedEntries
    <2>4. HandleLibs[h] = Entry(h).lib
      BY <1>1, <2>1, <2>2 DEF HandleLibs
    <2> QED BY <2>3, <2>4, OSServicesAssumption
  <1> QED BY <1>1, <1>3 DEF Library!Break, HandleLibs, Grown

\* Closing ends every handle.
LEMMA CloseIsClose ==
    ASSUME TableInv, ~Grown, LoaderClose
    PROVE  Library!Close \/ UNCHANGED Library!vars
  <1>1. entries' = entries /\ answer' = answer /\ phase = "stopping"
    BY DEF LoaderClose
  <1>2. CASE phase' = "closed"
    <2>1. HandleLibs' = [h \in Handles |-> None]
      BY <1>2 DEF HandleLibs
    <2>2. HandleLast' = HandleLast /\ Grown' = Grown
      BY <1>1 DEF HandleLast, Grown, Entry, entry_count
    <2> QED BY <1>1, <2>1, <2>2 DEF Library!Close, HandleLibs, HandleLast
  <1>3. CASE phase' = "crashed"
    <2>1. HandleLibs' = HandleLibs /\ HandleLast' = HandleLast /\ Grown' = Grown
      BY <1>1, <1>3, QuietTable
    <2> QED BY <1>1, <2>1 DEF Library!vars, HandleLibs, HandleLast
  <1> QED BY <1>2, <1>3 DEF LoaderClose

\* Once the table has grown it stays so: nothing makes it smaller but the realloc
\* that fails.
LEMMA GrownStays == ASSUME TableInv, Grown, [Next]_vars PROVE Grown'
  <1>1. entry_count \in Nat /\ InitEntries \in Nat /\ entries \in [1..entry_count -> DynEntry]
    BY LenProperties, OSServicesAssumption DEF TableInv, TableType, entry_count
  <1>2. CASE entries' = entries
    BY <1>2 DEF Grown, entry_count
  <1>3. ASSUME NEW n \in Libs, DynlLoads(n) PROVE Grown'
    <2>1. PICK h \in Free : entries' = [entries EXCEPT ![h + 1] = Loaded(n)]
      BY <1>3 DEF DynlLoads, LowestOf
    <2>2. h \in 0..(entry_count - 1) /\ Loaded(n) \in DynEntry
      BY <2>1 DEF Free, Loaded, DynEntry
    <2>3. entry_count' = entry_count
      BY <2>1, <2>2, SetEntry DEF TableInv
    <2> QED BY <2>3 DEF Grown
  <1>4. ASSUME NEW h \in Handles, Dynul(h) PROVE Grown'
    <2> DEFINE x == [Entry(h) EXCEPT !.handle_open = TRUE]
    <2>1. h \in 0..(entry_count - 1)
      BY <1>1, <1>4, OSServicesAssumption DEF Dynul, Handles
    <2>2. Entry(h) \in DynEntry
      BY <1>1, <2>1 DEF Entry
    <2>3. x \in DynEntry /\ entries' = [entries EXCEPT ![h + 1] = x]
      BY <1>4, <2>2, FreedEntry DEF Dynul, Entry
    <2>4. entry_count' = entry_count
      BY <2>1, <2>3, SetEntry DEF TableInv
    <2> QED BY <2>4 DEF Grown
  <1>5. ASSUME NEW n \in Libs, NEW new \in DynEntry, Grow(n, new) PROVE Grown'
    <2>1. entries' \in Seq(DynEntry) /\ entry_count' > InitEntries
      BY <1>5, GrowIsGrown
    <2>2. entry_count' \in Nat
      BY <2>1, LenProperties DEF entry_count
    <2> QED BY <1>1, <2>1, <2>2 DEF Grown
  <1>6. ASSUME NEW n \in Libs, DynlGrowFails(n) PROVE Grown'
    BY <1>6, OSServicesAssumption DEF DynlGrowFails, Grown, entry_count
  <1>7. ASSUME NEW n \in Libs, DynlGrows(n) \/ DynlGrowsAndFails(n) PROVE Grown'
    <2>1. Loaded(n) \in DynEntry /\ Overwritten \subseteq DynEntry
      BY DEF Loaded, Overwritten, DynEntry
    <2> QED BY <1>5, <1>7, <2>1 DEF DynlGrows, DynlGrowsAndFails
  <1>8. CASE \/ DynlPanics \/ DyncallPanics \/ UseOverwritten \/ Stop \/ LoaderClose
             \/ \E n \in Libs : DynlKnown(n) \/ DynlFails(n)
             \/ \E h \in Handles : Dyncall(h)
             \/ FileService \/ UNCHANGED vars
    <2>1. entries' = entries
      BY <1>8, OthersKeepTable DEF LoaderClose
    <2> QED BY <1>2, <2>1
  <1> QED BY <1>3, <1>4, <1>6, <1>7, <1>8 DEF Next, LibraryService

\* Every step of the loader is a step of the promise, or none: the handle of a
\* library that was unloaded is given out again, and all promises end with the
\* first library too many, but nothing else is lost by any sequence of loads,
\* failed loads, unloads and calls of all cores.
THEOREM KeepsPromise == Spec => LibrarySpec
  <1>1. TableInv /\ [Next]_vars => [Library!Next]_Library!vars
    <2> SUFFICES ASSUME TableInv, [Next]_vars PROVE [Library!Next]_Library!vars
      OBVIOUS
    <2>1. CASE Grown
      BY <2>1, GrownStays DEF Library!Next, Grown
    <2>2. CASE ~Grown
      <3>1. ASSUME NEW n \in Libs, DynlKnown(n) \/ DynlLoads(n) PROVE Library!Next
        BY <2>2, <3>1, KnownIsGiven, LoadIsLoad DEF Library!Next
      <3>2. ASSUME NEW h \in Handles, Dynul(h) \/ Dyncall(h) PROVE Library!Next
        BY <2>2, <3>2, UnloadIsUnload, CallIsCall DEF Library!Next
      <3>3. ASSUME NEW n \in Libs, DynlGrows(n) \/ DynlGrowsAndFails(n) \/ DynlGrowFails(n)
            PROVE  Library!Next
        BY <2>2, <3>3, GrowIsBreak DEF Library!Next
      <3>4. CASE LoaderClose
        BY <2>2, <3>4, CloseIsClose DEF Library!Next
      <3>5. CASE \/ DynlPanics \/ DyncallPanics \/ UseOverwritten \/ Stop
                 \/ \E n \in Libs : DynlFails(n)
                 \/ FileService \/ UNCHANGED vars
        <4>1. entries' = entries /\ answer' = answer
          BY <3>5, OthersKeepTable DEF DynlPanics, DyncallPanics, UseOverwritten, Stop, DynlFails,
             FileService, Fopen, FopenFails, Fread, Fwrite, Fclose, Feof, Rewind,
             FilePanics, SetMb, ReadFile, vars, loaderVars
        <4>2. phase' = "closed" <=> phase = "closed"
          BY <3>5 DEF DynlPanics, DyncallPanics, UseOverwritten, Stop, DynlFails,
             FileService, Fopen, FopenFails, Fread, Fwrite, Fclose, Feof, Rewind,
             FilePanics, SetMb, ReadFile, vars, Uses, Panic
        <4>3. HandleLibs' = HandleLibs /\ HandleLast' = HandleLast /\ Grown' = Grown
          BY <4>1, <4>2, QuietTable
        <4> QED BY <4>1, <4>3 DEF Library!vars, HandleLibs, HandleLast
      <3> QED BY <3>1, <3>2, <3>3, <3>4, <3>5 DEF Next, LibraryService
    <2> QED BY <2>1, <2>2
  <1> QED BY <1>1, SpecTableInv, InitLibrary, PTL DEF Spec, LibrarySpec, Library!Spec

-----------------------------------------------------------------------------
(* Types *)

\* The entries in which library l is open.
Holding(l) == {h \in InUse : Entry(h).lib = l}

\* The entries that DYNUL may free: not those that were overwritten.
Unloadable == {h \in InUse : Entry(h).lib # None}

\* The counts stay within the table even when it has grown and was overwritten: what
\* is counted free and what may be freed are together no more than all, and the host
\* has each library open at least as often as the table says.
CountsInv ==
    /\ program \in Programs
    /\ entry_count = 0 \/ entry_count \in InitEntries..MaxEntries
    /\ closed_entry_count \in 0..MaxEntries
    /\ refs \in [Libs -> Nat]
    /\ phase = "running" => closed_entry_count + Cardinality(Unloadable) <= entry_count
    /\ phase \in {"running", "stopping"} => \A l \in Libs : Cardinality(Holding(l)) <= refs[l]

FileBounds ==
    /\ size \in 0..FileLen
    /\ \A d \in Fds : fds[d].off \in 0..FileLen
    /\ \A c \in Cores : Mb[c] \in {-1} \cup Fds \cup 0..3

\* They are finitely many, and no more than there are entries.
LEMMA HoldingFinite ==
    ASSUME TableType
    PROVE  /\ \A l : IsFiniteSet(Holding(l)) /\ Cardinality(Holding(l)) \in Nat
           /\ IsFiniteSet(Unloadable) /\ Cardinality(Unloadable) \in Nat
  <1>1. IsFiniteSet(0..(entry_count - 1))
    BY LenProperties, FS_Interval DEF TableType, entry_count
  <1>2. (\A l : Holding(l) \in SUBSET (0..(entry_count - 1)))
        /\ Unloadable \in SUBSET (0..(entry_count - 1))
    BY DEF Holding, Unloadable, InUse
  <1> QED BY <1>1, <1>2, FS_Subset, FS_CardinalityType

\* All entries are free at first.
LEMMA InitCounts == Init => CountsInv /\ FileBounds
  <1> SUFFICES ASSUME Init PROVE CountsInv /\ FileBounds
    OBVIOUS
  <1>1. entry_count = InitEntries /\ InitEntries \in Nat /\ InitEntries <= MaxEntries
        /\ MaxEntries \in Nat
    BY LenProperties, SeqDef, OSServicesAssumption DEF Init, entry_count
  <1>2. InUse = {}
    <2>1. \A h \in 0..(entry_count - 1) : h + 1 \in 1..InitEntries
      BY <1>1
    <2>2. \A h \in 0..(entry_count - 1) : Entry(h).handle_open
      BY <2>1 DEF Init, Entry
    <2> QED BY <2>2 DEF InUse
  <1>3. Unloadable = {} /\ \A l \in Libs : Holding(l) = {}
    BY <1>2 DEF Unloadable, Holding
  <1>4. CountsInv
    <2>1. Cardinality(Unloadable) = 0 /\ \A l \in Libs : Cardinality(Holding(l)) = 0
      BY <1>3, FS_EmptySet
    <2>2. /\ program \in Programs /\ closed_entry_count = InitEntries
          /\ refs = [l \in Libs |-> 0]
      BY DEF Init
    <2>3. closed_entry_count + Cardinality(Unloadable) <= entry_count
      BY <1>1, <2>1, <2>2
    <2> QED BY <1>1, <2>1, <2>2, <2>3 DEF CountsInv
  <1>5. FileBounds
    BY OSServicesAssumption DEF Init, FileBounds, NoFile, VMFile
  <1> QED BY <1>4, <1>5

\* A step that changes neither the table nor the host's libraries.
LEMMA ElseCounts ==
    ASSUME CountsInv, UNCHANGED <<program, entries, closed_entry_count, refs>>,
           \/ phase' = phase
           \/ phase = "running" /\ phase' = "stopping"
           \/ phase' = "crashed"
    PROVE  CountsInv'
  BY DEF CountsInv, entry_count, Holding, Unloadable, InUse, Entry

\* A load takes what is counted free, and the host opens the library once more.
LEMMA LoadCounts == ASSUME TableInv, CountsInv, NEW n \in Libs, DynlLoads(n) PROVE CountsInv'
  <1>1. PICK h \in Free : entries' = [entries EXCEPT ![h + 1] = Loaded(n)]
    BY DEF DynlLoads, LowestOf
  <1>2. h \in 0..(entry_count - 1) /\ h \notin InUse /\ Loaded(n) \in DynEntry
    BY <1>1 DEF Free, InUse, Loaded, DynEntry
  <1>3. /\ entry_count' = entry_count /\ InUse' = InUse \cup {h}
        /\ \A k \in 0..(entry_count - 1) : Entry(k)' = IF k = h THEN Loaded(n) ELSE Entry(k)
    BY <1>1, <1>2, SetEntry DEF TableInv, Loaded
  <1>4. /\ phase = "running" /\ phase' = "running" /\ program' = program
        /\ closed_entry_count > 0 /\ closed_entry_count' = closed_entry_count - 1
        /\ refs' = [refs EXCEPT ![n] = @ + 1]
    BY DEF DynlLoads, Uses
  <1>5. Entry(h)'.lib = n /\ \A k \in InUse : Entry(k)' = Entry(k)
    BY <1>2, <1>3 DEF Loaded, InUse
  <1>6. Unloadable' = Unloadable \cup {h} /\ h \notin Unloadable
    BY <1>2, <1>3, <1>5, OSServicesAssumption DEF Unloadable
  <1>7. Holding(n)' = Holding(n) \cup {h} /\ h \notin Holding(n)
        /\ \A l \in Libs \ {n} : Holding(l)' = Holding(l)
    BY <1>2, <1>3, <1>5 DEF Holding
  <1>8. Cardinality(Unloadable') = Cardinality(Unloadable) + 1
        /\ Cardinality(Unloadable) \in Nat
    BY <1>6, HoldingFinite, FS_AddElement DEF TableInv
  <1>9. ASSUME NEW l \in Libs PROVE Cardinality(Holding(l)') <= refs'[l] /\ refs'[l] \in Nat
    <2>1. Cardinality(Holding(l)) <= refs[l] /\ refs[l] \in Nat /\ Cardinality(Holding(l)) \in Nat
      BY <1>4, HoldingFinite DEF CountsInv, TableInv
    <2>2. CASE l = n
      <3>1. Cardinality(Holding(n)') = Cardinality(Holding(n)) + 1
        BY <1>7, HoldingFinite, FS_AddElement DEF TableInv
      <3>2. refs'[n] = refs[n] + 1
        BY <1>4 DEF CountsInv
      <3> QED BY <2>1, <2>2, <3>1, <3>2
    <2>3. CASE l # n
      <3>1. refs'[l] = refs[l] /\ Holding(l)' = Holding(l)
        BY <1>4, <1>7, <2>3 DEF CountsInv
      <3> QED BY <2>1, <3>1
    <2> QED BY <2>2, <2>3
  <1>10. refs' \in [Libs -> Nat]
    BY <1>4, <1>9 DEF CountsInv
  <1> QED BY <1>3, <1>4, <1>8, <1>9, <1>10, OSServicesAssumption DEF CountsInv

\* An unload counts free what could be unloaded, and the host closes what is open.
LEMMA UnloadCounts == ASSUME TableInv, CountsInv, NEW h \in Handles, Dynul(h) PROVE CountsInv'
  <1> DEFINE x == [Entry(h) EXCEPT !.handle_open = TRUE]
  <1>0. entry_count \in Nat /\ entries \in [1..entry_count -> DynEntry]
    BY LenProperties DEF TableInv, TableType, entry_count
  <1>1. h \in 0..(entry_count - 1)
    BY <1>0, OSServicesAssumption DEF Dynul, Handles
  <1>2. Entry(h) \in DynEntry
    BY <1>0, <1>1 DEF Entry
  <1>3. x \in DynEntry /\ x.handle_open /\ entries' = [entries EXCEPT ![h + 1] = x]
    BY <1>2, FreedEntry DEF Dynul, Entry
  <1>4. /\ entry_count' = entry_count /\ InUse' = InUse \ {h}
        /\ \A k \in 0..(entry_count - 1) : Entry(k)' = IF k = h THEN x ELSE Entry(k)
    BY <1>1, <1>3, SetEntry DEF TableInv
  <1>5. PICK n \in Libs : n = Entry(h).lib
    BY <1>2 DEF Dynul, DynEntry
  <1>6. /\ phase = "running" /\ phase' = "running" /\ program' = program
        /\ closed_entry_count' = closed_entry_count + 1
        /\ refs' = [refs EXCEPT ![n] = @ - 1]
        /\ h \in InUse /\ n # None
    BY <1>1, <1>5 DEF Dynul, Uses, InUse
  <1>7. \A k \in InUse' : k # h /\ Entry(k)' = Entry(k)
    BY <1>4 DEF InUse
  <1>8. Unloadable' = Unloadable \ {h} /\ h \in Unloadable
    BY <1>4, <1>5, <1>6, <1>7 DEF Unloadable
  <1>9. Holding(n)' = Holding(n) \ {h} /\ h \in Holding(n)
        /\ \A l \in Libs \ {n} : Holding(l)' = Holding(l)
    BY <1>4, <1>5, <1>6, <1>7 DEF Holding
  <1>10. /\ Cardinality(Unloadable') = Cardinality(Unloadable) - 1
         /\ Cardinality(Unloadable') \in Nat /\ Cardinality(Unloadable) \in Nat
    <2>1. IsFiniteSet(Unloadable)
      BY HoldingFinite DEF TableInv
    <2>2. IsFiniteSet(Unloadable \ {h})
      BY <2>1, FS_RemoveElement
    <2> QED BY <1>8, <2>1, <2>2, FS_RemoveElement, FS_CardinalityType
  <1>11. ASSUME NEW l \in Libs PROVE Cardinality(Holding(l)') <= refs'[l] /\ refs'[l] \in Nat
    <2>1. Cardinality(Holding(l)) <= refs[l] /\ refs[l] \in Nat /\ Cardinality(Holding(l)) \in Nat
      BY <1>6, HoldingFinite DEF CountsInv, TableInv
    <2>2. CASE l = n
      <3>1. IsFiniteSet(Holding(n))
        BY HoldingFinite DEF TableInv
      <3>2. IsFiniteSet(Holding(n) \ {h})
        BY <3>1, FS_RemoveElement
      <3>3. /\ Cardinality(Holding(n)') = Cardinality(Holding(n)) - 1
            /\ Cardinality(Holding(n)') \in Nat
        BY <1>9, <3>1, <3>2, FS_RemoveElement, FS_CardinalityType
      <3>4. refs'[n] = refs[n] - 1
        BY <1>6 DEF CountsInv
      <3> QED BY <2>1, <2>2, <3>3, <3>4
    <2>3. CASE l # n
      <3>1. refs'[l] = refs[l] /\ Holding(l)' = Holding(l)
        BY <1>6, <1>9, <2>3 DEF CountsInv
      <3> QED BY <2>1, <3>1
    <2> QED BY <2>2, <2>3
  <1>12. refs' \in [Libs -> Nat]
    BY <1>6, <1>11 DEF CountsInv
  <1> QED BY <1>0, <1>4, <1>6, <1>10, <1>11, <1>12, OSServicesAssumption DEF CountsInv

\* Where the table grows, an entry is new, and every other is what it was or was
\* overwritten.
LEMMA GrowEntries ==
    ASSUME TableInv, NEW n \in Libs, NEW new \in DynEntry, Grow(n, new)
    PROVE  /\ entry_count' = entry_count + 1
           /\ \A k \in 0..entry_count :
                 IF k = entry_count THEN Entry(k)' = new
                 ELSE Entry(k)' = Entry(k) \/ Entry(k)'.lib = None
  <1>1. entry_count \in Nat /\ entries \in [1..entry_count -> DynEntry]
    BY LenProperties DEF TableInv, TableType, entry_count
  <1>2. PICK S \in SUBSET (1..entry_count) :
           \E junk \in [S -> Overwritten] :
              entries' = [i \in 1..(entry_count + 1) |->
                            IF i = entry_count + 1 THEN new
                            ELSE IF i \in S THEN junk[i] ELSE entries[i]]
    BY DEF Grow
  <1>3. PICK junk \in [S -> Overwritten] :
              entries' = [i \in 1..(entry_count + 1) |->
                            IF i = entry_count + 1 THEN new
                            ELSE IF i \in S THEN junk[i] ELSE entries[i]]
    BY <1>2
  <1>4. \A i \in S : junk[i].lib = None
    BY DEF Overwritten
  <1>5. entries' \in [1..(entry_count + 1) -> DynEntry]
    <2>1. Overwritten \subseteq DynEntry
      BY DEF Overwritten, DynEntry
    <2> QED BY <1>1, <1>3, <2>1
  <1>6. entry_count' = entry_count + 1
    <2>1. entries' \in Seq(DynEntry)
      BY <1>1, <1>5, SeqDef
    <2> QED BY <1>1, <1>5, <2>1, LenProperties DEF entry_count
  <1>7. ASSUME NEW k, k = entry_count PROVE Entry(k)' = new
    BY <1>1, <1>3, <1>7 DEF Entry
  <1>8. ASSUME NEW k \in 0..(entry_count - 1) PROVE Entry(k)' = Entry(k) \/ Entry(k)'.lib = None
    <2>1. k + 1 \in 1..(entry_count + 1) /\ k + 1 # entry_count + 1
      BY <1>1
    <2>2. entries'[k + 1] = IF k + 1 \in S THEN junk[k + 1] ELSE entries[k + 1]
      BY <1>3, <2>1
    <2> QED BY <1>4, <2>2 DEF Entry
  <1>9. \A k \in 0..entry_count : k = entry_count \/ k \in 0..(entry_count - 1)
    BY <1>1
  <1> QED BY <1>6, <1>7, <1>8, <1>9

\* Growing loses entries at most, but for the new one: then the host has opened it,
\* and nothing is counted free.
LEMMA GrowCounts ==
    ASSUME TableInv, CountsInv, NEW n \in Libs,
           DynlGrows(n) \/ DynlGrowsAndFails(n) \/ DynlGrowFails(n)
    PROVE  CountsInv'
  <1>0. /\ entry_count \in Nat /\ MaxEntries \in Nat /\ InitEntries \in Nat
        /\ phase = "running" /\ entry_count >= InitEntries /\ closed_entry_count = 0
        /\ program' = program
    BY LenProperties, OSServicesAssumption
       DEF TableInv, TableType, entry_count, DynlGrows, DynlGrowsAndFails, DynlGrowFails, Grow, Uses
  <1>1. ASSUME NEW new \in DynEntry, Grow(n, new)
        PROVE  /\ entry_count' = entry_count + 1 /\ entry_count' \in InitEntries..MaxEntries
               /\ MaxEntries >= 1
               /\ InUse' \subseteq 0..entry_count
               /\ \A k \in InUse' : k = entry_count => Entry(k)' = new
               /\ \A k \in InUse' : k # entry_count =>
                     (k \in InUse /\ Entry(k)'.lib = Entry(k).lib) \/ Entry(k)'.lib = None
    <2>1. entry_count' = entry_count + 1 /\ entry_count < MaxEntries
      BY <1>1, GrowEntries DEF Grow
    <2>2. \A k \in 0..entry_count : IF k = entry_count THEN Entry(k)' = new
                                    ELSE Entry(k)' = Entry(k) \/ Entry(k)'.lib = None
      BY <1>1, GrowEntries
    <2>3. \A k \in InUse' : k \in 0..entry_count /\ ~Entry(k)'.handle_open
      BY <1>0, <2>1 DEF InUse
    <2>4. ASSUME NEW k \in InUse', k # entry_count
          PROVE (k \in InUse /\ Entry(k)'.lib = Entry(k).lib) \/ Entry(k)'.lib = None
      <3>1. k \in 0..(entry_count - 1)
        BY <1>0, <2>3, <2>4
      <3> QED BY <2>2, <2>3, <2>4, <3>1 DEF InUse
    <2>5. entry_count' \in InitEntries..MaxEntries /\ MaxEntries >= 1
      BY <1>0, <2>1
    <2>6. \A k \in InUse' : k = entry_count => Entry(k)' = new
      BY <2>2, <2>3
    <2> QED BY <2>1, <2>3, <2>4, <2>5, <2>6
  <1>2. ASSUME DynlGrows(n) PROVE CountsInv'
    <2>1. Grow(n, Loaded(n)) /\ Loaded(n) \in DynEntry /\ Loaded(n).lib = n /\ n # None
      BY <1>2, OSServicesAssumption DEF DynlGrows, Loaded, DynEntry
    <2>2. phase' = "running" /\ closed_entry_count' = 0 /\ refs' = [refs EXCEPT ![n] = @ + 1]
      BY <1>0, <1>2 DEF DynlGrows
    <2>3. Unloadable' \in SUBSET (Unloadable \cup {entry_count})
      BY <1>1, <2>1 DEF Unloadable
    <2>4. Holding(n)' \in SUBSET (Holding(n) \cup {entry_count})
      BY <1>1, <2>1 DEF Holding
    <2>5. \A l \in Libs \ {n} : Holding(l)' \in SUBSET Holding(l)
      BY <1>1, <2>1, OSServicesAssumption DEF Holding
    <2>6. ASSUME NEW A, NEW B, IsFiniteSet(A), B \in SUBSET (A \cup {entry_count})
          PROVE  Cardinality(B) <= Cardinality(A) + 1
      <3>1. IsFiniteSet(A \cup {entry_count})
            /\ Cardinality(A \cup {entry_count}) <= Cardinality(A) + 1
            /\ Cardinality(A) \in Nat
        <4>1. Cardinality(A) \in Nat
          BY <2>6, FS_CardinalityType
        <4>2. /\ IsFiniteSet(A \cup {entry_count})
              /\ Cardinality(A \cup {entry_count})
                   = IF entry_count \in A THEN Cardinality(A) ELSE Cardinality(A) + 1
          BY <2>6, FS_AddElement
        <4> QED BY <4>1, <4>2
      <3>2. IsFiniteSet(B) /\ Cardinality(B) <= Cardinality(A \cup {entry_count})
        BY <2>6, <3>1, FS_Subset
      <3> QED BY <3>1, <3>2, FS_CardinalityType
    <2>7. Cardinality(Unloadable') <= entry_count'
      <3>1. Cardinality(Unloadable') <= Cardinality(Unloadable) + 1
        BY <2>3, <2>6, HoldingFinite DEF TableInv
      <3>2. Cardinality(Unloadable) <= entry_count
        BY <1>0, HoldingFinite DEF CountsInv, TableInv
      <3>3. IsFiniteSet(Unloadable \cup {entry_count}) /\ IsFiniteSet(Unloadable)
        BY HoldingFinite, FS_AddElement DEF TableInv
      <3>4. Cardinality(Unloadable') \in Nat /\ Cardinality(Unloadable) \in Nat
        BY <2>3, <3>3, FS_Subset, FS_CardinalityType
      <3> QED BY <1>0, <1>1, <2>1, <3>1, <3>2, <3>4
    <2>8. ASSUME NEW l \in Libs PROVE Cardinality(Holding(l)') <= refs'[l] /\ refs'[l] \in Nat
      <3>1. Cardinality(Holding(l)) <= refs[l] /\ refs[l] \in Nat
            /\ Cardinality(Holding(l)) \in Nat /\ IsFiniteSet(Holding(l))
        BY <1>0, HoldingFinite DEF CountsInv, TableInv
      <3>2. IsFiniteSet(Holding(l) \cup {entry_count})
        BY <3>1, FS_AddElement
      <3>3. IsFiniteSet(Holding(l)')
        BY <2>4, <2>5, <3>1, <3>2, FS_Subset
      <3>4. Cardinality(Holding(l)') \in Nat
        BY <3>3, FS_CardinalityType
      <3>5. CASE l = n
        <4>1. Cardinality(Holding(n)') <= Cardinality(Holding(n)) + 1
          BY <2>4, <2>6, <3>1, <3>5
        <4>2. refs'[n] = refs[n] + 1
          BY <2>2 DEF CountsInv
        <4> QED BY <3>1, <3>4, <3>5, <4>1, <4>2
      <3>6. CASE l # n
        <4>1. Cardinality(Holding(l)') <= Cardinality(Holding(l))
          BY <2>5, <3>1, <3>6, FS_Subset
        <4>2. refs'[l] = refs[l]
          BY <2>2, <3>6 DEF CountsInv
        <4> QED BY <3>1, <3>4, <4>1, <4>2
      <3> QED BY <3>5, <3>6
    <2>9. refs' \in [Libs -> Nat]
      BY <2>2, <2>8 DEF CountsInv
    <2>10. entry_count' \in InitEntries..MaxEntries
      BY <1>1, <2>1
    <2>11. closed_entry_count' + Cardinality(Unloadable') <= entry_count'
      <3>1. IsFiniteSet(Unloadable \cup {entry_count})
        BY HoldingFinite, FS_AddElement DEF TableInv
      <3>2. Cardinality(Unloadable') \in Nat
        BY <2>3, <3>1, FS_Subset, FS_CardinalityType
      <3> QED BY <2>2, <2>7, <3>2
    <2> QED BY <1>0, <2>2, <2>8, <2>9, <2>10, <2>11 DEF CountsInv
  <1>3. ASSUME DynlGrowsAndFails(n) PROVE CountsInv'
    <2>1. PICK junk \in Overwritten : Grow(n, junk)
      BY <1>3 DEF DynlGrowsAndFails
    <2>2. junk \in DynEntry /\ junk.lib = None
      BY DEF Overwritten, DynEntry
    <2>3. phase' = "stopping" /\ closed_entry_count' = 1 /\ refs' = refs
      BY <1>0, <1>3 DEF DynlGrowsAndFails, Panic
    <2>4. ASSUME NEW l \in Libs PROVE Cardinality(Holding(l)') <= refs'[l]
      <3>1. Cardinality(Holding(l)) <= refs[l] /\ refs[l] \in Nat
            /\ Cardinality(Holding(l)) \in Nat /\ IsFiniteSet(Holding(l))
        BY <1>0, HoldingFinite DEF CountsInv, TableInv
      <3>2. Holding(l)' \in SUBSET Holding(l)
        BY <1>1, <2>1, <2>2, OSServicesAssumption DEF Holding
      <3>3. IsFiniteSet(Holding(l)') /\ Cardinality(Holding(l)') <= Cardinality(Holding(l))
        BY <3>1, <3>2, FS_Subset
      <3> QED BY <2>3, <3>1, <3>3, FS_CardinalityType
    <2>5. entry_count' \in InitEntries..MaxEntries /\ MaxEntries >= 1
      BY <1>1, <2>1, <2>2
    <2> QED BY <1>0, <2>3, <2>4, <2>5 DEF CountsInv
  <1>4. ASSUME DynlGrowFails(n) PROVE CountsInv'
    <2>1. /\ entries' = <<>> /\ phase' = "stopping" /\ closed_entry_count' = closed_entry_count
          /\ refs' = refs
      BY <1>4 DEF DynlGrowFails, Panic
    <2>2. entry_count' = 0
      BY <2>1 DEF entry_count
    <2>3. InUse' = {}
      BY <2>2 DEF InUse
    <2>4. \A l \in Libs : Cardinality(Holding(l)') = 0
      <3>1. \A l \in Libs : Holding(l)' = {}
        BY <2>3 DEF Holding
      <3> QED BY <3>1, FS_EmptySet
    <2> QED BY <1>0, <2>1, <2>2, <2>4 DEF CountsInv
  <1> QED BY <1>2, <1>3, <1>4

\* Closing takes from the host no more than it has open.
LEMMA CloseCounts == ASSUME TableInv, CountsInv, LoaderClose PROVE CountsInv'
  <1>1. UNCHANGED <<program, entries, closed_entry_count>> /\ phase = "stopping"
    BY DEF LoaderClose
  <1>2. entry_count' = entry_count
    BY <1>1 DEF entry_count
  <1>3. CASE phase' = "crashed" /\ refs' = refs
    BY <1>1, <1>2, <1>3 DEF CountsInv
  <1>4. CASE /\ phase' = "closed"
             /\ refs' = [l \in Libs |->
                           IF closed_entry_count = entry_count THEN refs[l]
                           ELSE refs[l] - Cardinality({h \in InUse : Entry(h).lib = l})]
    <2>1. ASSUME NEW l \in Libs
          PROVE  refs[l] \in Nat /\ refs[l] - Cardinality({h \in InUse : Entry(h).lib = l}) \in Nat
      <3>1. /\ Cardinality(Holding(l)) <= refs[l] /\ refs[l] \in Nat
            /\ Cardinality(Holding(l)) \in Nat
        BY <1>1, HoldingFinite DEF CountsInv, TableInv
      <3>2. refs[l] - Cardinality(Holding(l)) \in Nat
        BY <3>1
      <3> QED BY <3>1, <3>2 DEF Holding
    <2>2. refs' \in [Libs -> Nat]
      BY <1>4, <2>1
    <2> QED BY <1>1, <1>2, <1>4, <2>2 DEF CountsInv
  <1> QED BY <1>3, <1>4 DEF LoaderClose

\* Every step keeps the counts.
LEMMA StepCounts == TableInv /\ CountsInv /\ [Next]_vars => CountsInv'
  <1> SUFFICES ASSUME TableInv, CountsInv, [Next]_vars PROVE CountsInv'
    OBVIOUS
  <1>1. ASSUME NEW n \in Libs, DynlLoads(n) PROVE CountsInv'
    BY <1>1, LoadCounts
  <1>2. ASSUME NEW h \in Handles, Dynul(h) PROVE CountsInv'
    BY <1>2, UnloadCounts
  <1>3. ASSUME NEW n \in Libs, DynlGrows(n) \/ DynlGrowsAndFails(n) \/ DynlGrowFails(n)
        PROVE  CountsInv'
    BY <1>3, GrowCounts
  <1>4. CASE LoaderClose
    BY <1>4, CloseCounts
  <1>5. CASE \/ DynlPanics \/ DyncallPanics \/ UseOverwritten \/ Stop
             \/ \E n \in Libs : DynlKnown(n) \/ DynlFails(n)
             \/ \E h \in Handles : Dyncall(h)
             \/ FileService \/ UNCHANGED vars
    <2>1. UNCHANGED <<entries, closed_entry_count, refs>>
      BY <1>5, OthersKeepTable
    <2>2. program' = program /\ (\/ phase' = phase
                                 \/ phase = "running" /\ phase' = "stopping"
                                 \/ phase' = "crashed")
      BY <1>5 DEF DynlPanics, DyncallPanics, UseOverwritten, Stop, DynlKnown, DynlFails,
         Dyncall, FileService, Fopen, FopenFails, Fread, Fwrite, Fclose, Feof, Rewind,
         FilePanics, SetMb, ReadFile, vars, Uses, Panic
    <2> QED BY <2>1, <2>2, ElseCounts
  <1> QED BY <1>1, <1>2, <1>3, <1>4, <1>5 DEF Next, LibraryService

\* A file service leaves the file's length and every offset within the bound, and
\* Mb is a descriptor, a mode or MERRY_FILEHANDLE_NULL.
LEMMA FileServiceBounds ==
    ASSUME FileType, FileBounds, NEW c \in Cores,
           \/ \E mode \in Modes : Fopen(c, mode) \/ FopenFails(c, mode)
           \/ \E n \in 1..FileLen : Fread(c, n) \/ Fwrite(c, n)
           \/ Fclose(c) \/ Feof(c) \/ Rewind(c) \/ FilePanics(c) \/ SetMb(c)
    PROVE  FileBounds'
  <1> USE OSServicesAssumption DEF FileType, FileBounds, NoFile
  <1>0. Modes \subseteq 0..3 /\ 1..FileLen \subseteq Nat /\ FileLen \in Nat /\ Fds \subseteq Nat
    OBVIOUS
  <1>1. ASSUME NEW mode \in Modes, Fopen(c, mode) PROVE FileBounds'
    <2>1. PICK d \in Fds : fds' = [fds EXCEPT ![d] = Opened(mode)] /\ Mb' = [Mb EXCEPT ![c] = d]
      BY <1>1 DEF Fopen, LowestOf, FreeFds
    <2> QED BY <1>0, <1>1, <2>1 DEF Fopen, Opened
  <1>2. ASSUME NEW mode \in Modes, FopenFails(c, mode) PROVE FileBounds'
    BY <1>0, <1>2 DEF FopenFails
  <1>3. CASE Fclose(c) BY <1>3 DEF Fclose
  <1>4. ASSUME NEW m \in Nat, ReadFile(c, m) PROVE FileBounds'
    <2>1. Mb' = Mb /\ size' = size /\ Mb[c] \in Fds
      BY <1>4 DEF ReadFile
    <2>2. fds' = fds \/ \E off \in 0..FileLen : fds' = [fds EXCEPT ![Mb[c]].off = off]
      <3>1. Larger(fds[Mb[c]].off, Smaller(fds[Mb[c]].off + m, size)) \in 0..FileLen
        BY <1>0, <2>1 DEF Larger, Smaller
      <3> QED BY <1>4, <3>1 DEF ReadFile
    <2> QED BY <2>1, <2>2
  <1>5. ASSUME NEW n \in 1..FileLen, Fwrite(c, n) PROVE FileBounds'
    <2>1. Mb' = Mb /\ Mb[c] \in Fds
      BY <1>5 DEF Fwrite
    <2>2. (fds' = fds /\ size' = size)
          \/ \E off \in 0..FileLen : fds' = [fds EXCEPT ![Mb[c]].off = off] /\ size' \in 0..FileLen
      <3>1. /\ Smaller(fds[Mb[c]].off + n, FileLen) \in 0..FileLen
            /\ Larger(size, Smaller(fds[Mb[c]].off + n, FileLen)) \in 0..FileLen
        BY <1>0, <2>1 DEF Larger, Smaller
      <3> QED BY <1>5, <3>1 DEF Fwrite
    <2> QED BY <2>1, <2>2
  <1>6. CASE Rewind(c) BY <1>0, <1>6 DEF Rewind
  <1>7. CASE FilePanics(c) BY <1>7 DEF FilePanics, fileVars
  <1>8. CASE SetMb(c)
    <2>1. CASE \E d \in Cores : Mb' = [Mb EXCEPT ![c] = Mb[d]]
      BY <1>8, <2>1 DEF SetMb
    <2>2. CASE Mb' = [Mb EXCEPT ![c] = -1]
      BY <1>8, <2>2 DEF SetMb
    <2> QED BY <1>8, <2>1, <2>2 DEF SetMb
  <1>9. ASSUME NEW n \in 1..FileLen, Fread(c, n) PROVE FileBounds'
    BY <1>0, <1>4, <1>9 DEF Fread
  <1>10. CASE Feof(c) BY <1>4, <1>10 DEF Feof
  <1> QED BY <1>1, <1>2, <1>3, <1>5, <1>6, <1>7, <1>8, <1>9, <1>10

\* The types hold even after the table has grown and its entries were overwritten:
\* the loader's count never goes below zero or above the table, and the host is never
\* asked to close what is not open.
THEOREM ServiceTypes == Spec => []ServicesTypeOK
  <1>1. FileInv /\ FileBounds /\ [Next]_vars => FileBounds'
    <2> SUFFICES ASSUME FileInv, FileBounds, [Next]_vars PROVE FileBounds'
      OBVIOUS
    <2>1. CASE UNCHANGED fileVars
      BY <2>1 DEF fileVars, FileBounds
    <2>2. CASE FileService
      <3>1. PICK c \in Cores :
              \/ \E mode \in Modes : Fopen(c, mode) \/ FopenFails(c, mode)
              \/ \E n \in 1..FileLen : Fread(c, n) \/ Fwrite(c, n)
              \/ Fclose(c) \/ Feof(c) \/ Rewind(c) \/ FilePanics(c) \/ SetMb(c)
        BY <2>2 DEF FileService
      <3> QED BY <3>1, FileServiceBounds DEF FileInv
    <2> QED BY <2>1, <2>2, OthersKeepFiles DEF Next, vars
  <1>2. TableInv /\ CountsInv /\ FileInv /\ FileBounds => ServicesTypeOK
    <2> SUFFICES ASSUME TableInv, CountsInv, FileInv, FileBounds PROVE ServicesTypeOK
      OBVIOUS
    <2>1. \A h \in 0..(entry_count - 1) : Entry(h) \in DynEntry
      <3>1. entry_count \in Nat /\ entries \in [1..entry_count -> DynEntry]
        BY LenProperties DEF TableInv, TableType, entry_count
      <3>2. \A h \in 0..(entry_count - 1) : h + 1 \in 1..entry_count
        BY <3>1
      <3> QED BY <3>1, <3>2 DEF Entry
    <2> QED BY <2>1 DEF ServicesTypeOK, TableInv, TableType, CountsInv, FileInv, FileType, FileBounds
  <1> QED BY <1>1, <1>2, SpecTableInv, SpecFileInv, StepCounts, InitCounts, PTL DEF Spec
=============================================================================
