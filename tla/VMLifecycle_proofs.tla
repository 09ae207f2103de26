------------------------- MODULE VMLifecycle_proofs -------------------------
(***************************************************************************)
(* What main builds, frees and leaves, for every number of cores, queue    *)
(* length, program, input file and set of failures: the types, what is     *)
(* freed twice or without having been set and what is left, which is what  *)
(* the properties name and nothing else, and that the cores that are late  *)
(* when main frees the VM do not go on.                                    *)
(***************************************************************************)
EXTENDS VMLifecycle, MerryVM_service_proofs, SequenceTheorems

-----------------------------------------------------------------------------
(* The parts and the order they are freed in, one by one *)

PartNames ==
    {"reader", "file", "dmem", "options", "imem", "cores", "cond", "lock",
     "queue", "hdlr_lock", "threads", "loader"}

BlockNames == {"EAT", "sections", "st_data", "instructions", "data", "f"}

Names == (PartNames \cup BlockNames \cup {"core", "thread"}) \X Nat

\* Every object is a name with a number; the numbers of cores and threads tell
\* them apart.
LEMMA ObjectNames ==
    /\ \A name \in PartNames \cup BlockNames : Part(name) \in Names
    /\ \A c \in Nat : Core(c) \in Names /\ Thread(c) \in Names
  BY DEF Part, Core, Thread, Names, PartNames, BlockNames

\* Three sequences, one after the other.
LEMMA ThreeJoined ==
    ASSUME NEW S, NEW a \in Seq(S), NEW b \in Seq(S), NEW z \in Seq(S)
    PROVE  /\ Len((a \o b) \o z) = Len(a) + Len(b) + Len(z)
           /\ \A i \in 1..Len(a) : ((a \o b) \o z)[i] = a[i]
           /\ \A i \in 1..Len(b) : ((a \o b) \o z)[Len(a) + i] = b[i]
           /\ \A i \in 1..Len(z) : ((a \o b) \o z)[Len(a) + Len(b) + i] = z[i]
<1> DEFINE p == a \o b
           q == p \o z
<1>1. Len(a) \in Nat /\ Len(b) \in Nat /\ Len(z) \in Nat
  OBVIOUS
<1>2. /\ p \in Seq(S) /\ Len(p) = Len(a) + Len(b)
      /\ \A i \in 1..(Len(a) + Len(b)) : p[i] = IF i <= Len(a) THEN a[i] ELSE b[i - Len(a)]
  BY ConcatProperties
<1>3. p \in Seq(S)
  BY <1>2
<1> HIDE DEF p
<1>4. /\ Len(q) = Len(p) + Len(z)
      /\ \A i \in 1..(Len(p) + Len(z)) : q[i] = IF i <= Len(p) THEN p[i] ELSE z[i - Len(p)]
  BY <1>3, ConcatProperties
<1> HIDE DEF q
<1>5. ASSUME NEW i \in 1..Len(a)
      PROVE  q[i] = a[i]
  BY <1>1, <1>2, <1>4
<1>6. ASSUME NEW i \in 1..Len(b)
      PROVE  q[Len(a) + i] = b[i]
  <2>1. /\ Len(a) + i \in 1..(Len(a) + Len(b)) /\ ~(Len(a) + i <= Len(a))
        /\ (Len(a) + i) - Len(a) = i
        /\ Len(a) + i \in 1..(Len(p) + Len(z)) /\ Len(a) + i <= Len(p)
    BY <1>1, <1>2
  <2> QED
    BY <1>2, <1>4, <2>1
<1>7. ASSUME NEW i \in 1..Len(z)
      PROVE  q[Len(a) + Len(b) + i] = z[i]
  <2>1. /\ Len(a) + Len(b) + i \in 1..(Len(p) + Len(z))
        /\ ~(Len(a) + Len(b) + i <= Len(p))
        /\ (Len(a) + Len(b) + i) - Len(p) = i
    BY <1>1, <1>2
  <2> QED
    BY <1>4, <2>1
<1> QED
  BY <1>1, <1>2, <1>4, <1>5, <1>6, <1>7 DEF p, q

\* The parts in order.
LEMMA PartsAre ==
    /\ Len(Parts) = BootCores + 12
    /\ Parts[1] = Part("reader") /\ Parts[2] = Part("file")
    /\ Parts[3] = Part("dmem") /\ Parts[4] = Part("options")
    /\ Parts[5] = Part("imem") /\ Parts[6] = Part("cores")
    /\ \A i \in 1..BootCores : Parts[i + 6] = Core(i - 1)
    /\ Parts[BootCores + 7] = Part("cond") /\ Parts[BootCores + 8] = Part("lock")
    /\ Parts[BootCores + 9] = Part("queue") /\ Parts[BootCores + 10] = Part("hdlr_lock")
    /\ Parts[BootCores + 11] = Part("threads") /\ Parts[BootCores + 12] = Part("loader")
<1> DEFINE a == <<Part("reader"), Part("file"), Part("dmem"), Part("options"),
                  Part("imem"), Part("cores")>>
           b == [i \in 1..BootCores |-> Core(i - 1)]
           z == <<Part("cond"), Part("lock"), Part("queue"), Part("hdlr_lock"),
                  Part("threads"), Part("loader")>>
<1>1. /\ a \in Seq(Names) /\ Len(a) = 6
      /\ a[1] = Part("reader") /\ a[2] = Part("file") /\ a[3] = Part("dmem")
      /\ a[4] = Part("options") /\ a[5] = Part("imem") /\ a[6] = Part("cores")
  BY ObjectNames DEF PartNames
<1>2. /\ b \in Seq(Names) /\ Len(b) = BootCores
      /\ \A i \in 1..BootCores : b[i] = Core(i - 1)
  BY ObjectNames, CoresAssumption
<1>3. /\ z \in Seq(Names) /\ Len(z) = 6
      /\ z[1] = Part("cond") /\ z[2] = Part("lock") /\ z[3] = Part("queue")
      /\ z[4] = Part("hdlr_lock") /\ z[5] = Part("threads") /\ z[6] = Part("loader")
  BY ObjectNames DEF PartNames
<1>4. Parts = (a \o b) \o z
  BY DEF Parts
<1> HIDE DEF a, b, z
<1>5. a \in Seq(Names) /\ b \in Seq(Names) /\ z \in Seq(Names)
  BY <1>1, <1>2, <1>3
<1>6. /\ Len(Parts) = Len(a) + Len(b) + Len(z)
      /\ \A i \in 1..Len(a) : Parts[i] = a[i]
      /\ \A i \in 1..Len(b) : Parts[Len(a) + i] = b[i]
      /\ \A i \in 1..Len(z) : Parts[Len(a) + Len(b) + i] = z[i]
  BY <1>4, <1>5, ThreeJoined
<1>7. /\ BootCores \in Nat
      /\ Len(Parts) = BootCores + 12
      /\ \A i \in 1..6 : Parts[i] = a[i]
      /\ \A i \in 1..BootCores : Parts[i + 6] = b[i]
      /\ \A i \in 1..6 : Parts[BootCores + 6 + i] = z[i]
  BY <1>1, <1>2, <1>3, <1>6, CoresAssumption
<1>8. /\ BootCores + 6 + 1 = BootCores + 7 /\ BootCores + 6 + 2 = BootCores + 8
      /\ BootCores + 6 + 3 = BootCores + 9 /\ BootCores + 6 + 4 = BootCores + 10
      /\ BootCores + 6 + 5 = BootCores + 11 /\ BootCores + 6 + 6 = BootCores + 12
  BY <1>7
<1>9. /\ Parts[1] = a[1] /\ Parts[2] = a[2] /\ Parts[3] = a[3]
      /\ Parts[4] = a[4] /\ Parts[5] = a[5] /\ Parts[6] = a[6]
  BY <1>7
<1>10. /\ Parts[BootCores + 6 + 1] = z[1] /\ Parts[BootCores + 6 + 2] = z[2]
       /\ Parts[BootCores + 6 + 3] = z[3] /\ Parts[BootCores + 6 + 4] = z[4]
       /\ Parts[BootCores + 6 + 5] = z[5] /\ Parts[BootCores + 6 + 6] = z[6]
  BY <1>7
<1> QED
  BY <1>1, <1>2, <1>3, <1>7, <1>8, <1>9, <1>10

\* A part that is made is the core it is made for, or none of the cores and
\* threads.
LEMMA PartIs ==
    ASSUME NEW i \in 1..Len(Parts), NEW c \in CoreIds
    PROVE  /\ Parts[i] = Core(c) <=> c < BootCores /\ i = c + 7
           /\ Parts[i] # Thread(c)
           /\ Parts[i] \in Names
           /\ Parts[i] = Part("reader") <=> i = 1
           /\ Parts[i] = Part("file") <=> i = 2
           /\ Parts[i] \in Early <=> i <= 3
           /\ Parts[i][1] = "core" => i < Len(Parts) - 1 /\ i > 3
           /\ Parts[i] = Part("threads") <=> i = Len(Parts) - 1
           /\ Parts[i] \notin {NoPart, Part("os_thread"), Part("registers")}
           /\ Parts[i] \notin ReaderBlocks \cup ReaderKeeps
           /\ Parts[i] = Part("loader") <=> i = Len(Parts)
<1>1. BootCores \in Nat /\ c \in Nat
  BY CoresAssumption DEF CoreIds
<1>2. CASE i <= 6
  <2>1. i \in {1, 2, 3, 4, 5, 6}
    BY <1>2
  <2>2. PICK name \in PartNames \ {"threads", "loader"} :
           /\ Parts[i] = Part(name)
           /\ name = "reader" <=> i = 1
           /\ name = "file" <=> i = 2
           /\ name \in {"reader", "file", "dmem"} <=> i <= 3
    BY <2>1, PartsAre DEF PartNames
  <2>3. Parts[i] \in Names
    BY <2>2, ObjectNames
  <2> QED
    BY <1>1, <1>2, <2>2, <2>3, PartsAre
    DEF Part, Core, Thread, NoPart, PartNames, Early, ReaderBlocks, ReaderKeeps
<1>3. CASE i >= 7 /\ i <= BootCores + 6
  <2>1. Parts[i] = Core(i - 7) /\ i - 7 \in Nat
    <3>1. i - 6 \in 1..BootCores /\ (i - 6) + 6 = i /\ (i - 6) - 1 = i - 7
      BY <1>1, <1>3
    <3> QED
      BY <3>1, PartsAre
  <2> QED
    BY <1>1, <1>3, <2>1, PartsAre
    DEF Part, Core, Thread, Names, NoPart, Early, ReaderBlocks, ReaderKeeps
<1>4. CASE i > BootCores + 6
  <2>1. i \in {BootCores + 7, BootCores + 8, BootCores + 9, BootCores + 10,
               BootCores + 11, BootCores + 12}
    BY <1>1, <1>4, PartsAre
  <2>2. PICK name \in PartNames :
           /\ Parts[i] = Part(name)
           /\ name \notin {"reader", "file", "dmem"}
           /\ name = "threads" <=> i = BootCores + 11
           /\ name = "loader" <=> i = BootCores + 12
    BY <1>1, <2>1, PartsAre DEF PartNames
  <2>3. Parts[i] \in Names
    BY <2>2, ObjectNames
  <2> QED
    BY <1>1, <1>4, <2>2, <2>3, PartsAre
    DEF Part, Core, Thread, NoPart, PartNames, Early, ReaderBlocks, ReaderKeeps
<1> QED
  BY <1>1, <1>2, <1>3, <1>4, PartsAre

\* What is freed last, of n cores; and what is freed of them, in order.
RestOf(n) == AfterCores \cup {Thread(c) : c \in 0..(n - 1)}

OrderOf(n) ==
    <<{Part("dmem"), Part("imem"), Part("lock"), Part("cond")}>>
    \o [i \in 1..n |-> {Core(i - 1)}] \o <<RestOf(n)>>

\* The order is that of the cores that are counted, now and after any step.
LEMMA OrderIsOf == DestroyOrder = OrderOf(Counted) /\ DestroyOrder' = OrderOf(Counted')
  BY DEF DestroyOrder, OrderOf, RestOf

\* The order of n cores.
LEMMA OrderIs ==
    ASSUME NEW n \in Nat
    PROVE  /\ Len(OrderOf(n)) = n + 2
           /\ OrderOf(n)[1] = {Part("dmem"), Part("imem"), Part("lock"), Part("cond")}
           /\ \A i \in 1..n : OrderOf(n)[i + 1] = {Core(i - 1)}
           /\ OrderOf(n)[n + 2] = RestOf(n)
<1> DEFINE a == <<{Part("dmem"), Part("imem"), Part("lock"), Part("cond")}>>
           b == [i \in 1..n |-> {Core(i - 1)}]
           z == <<RestOf(n)>>
<1>1. /\ a \in Seq(SUBSET Names) /\ Len(a) = 1
      /\ a[1] = {Part("dmem"), Part("imem"), Part("lock"), Part("cond")}
  BY ObjectNames DEF PartNames
<1>2. /\ b \in Seq(SUBSET Names) /\ Len(b) = n
      /\ \A i \in 1..n : b[i] = {Core(i - 1)}
  BY ObjectNames
<1>3. /\ z \in Seq(SUBSET Names) /\ Len(z) = 1
      /\ z[1] = RestOf(n)
  <2>1. RestOf(n) \in SUBSET Names
    BY ObjectNames DEF PartNames, BlockNames, RestOf, AfterCores, ReaderBlocks
  <2> QED
    BY <2>1
<1>4. OrderOf(n) = (a \o b) \o z
  BY DEF OrderOf
<1> HIDE DEF a, b, z
<1>5. a \in Seq(SUBSET Names) /\ b \in Seq(SUBSET Names) /\ z \in Seq(SUBSET Names)
  BY <1>1, <1>2, <1>3
<1>6. /\ Len(OrderOf(n)) = Len(a) + Len(b) + Len(z)
      /\ \A i \in 1..Len(a) : OrderOf(n)[i] = a[i]
      /\ \A i \in 1..Len(b) : OrderOf(n)[Len(a) + i] = b[i]
      /\ \A i \in 1..Len(z) : OrderOf(n)[Len(a) + Len(b) + i] = z[i]
  BY <1>4, <1>5, ThreeJoined
<1>7. /\ Len(OrderOf(n)) = n + 2
      /\ OrderOf(n)[1] = a[1]
      /\ \A i \in 1..n : OrderOf(n)[i + 1] = b[i]
      /\ OrderOf(n)[1 + n + 1] = z[1]
  BY <1>1, <1>2, <1>3, <1>6
<1>8. 1 + n + 1 = n + 2
  OBVIOUS
<1> QED
  BY <1>1, <1>2, <1>3, <1>7, <1>8

\* An object is one of the parts that hold memory, one of the reader's blocks, a
\* core or a core's thread.
LEMMA ObjectIs ==
    ASSUME NEW o \in Objects
    PROVE  \/ \E name \in PartNames \ {"file", "options"} : o = Part(name)
           \/ o \in ReaderBlocks \cup ReaderKeeps
           \/ \E c \in CoreIds : o \in {Core(c), Thread(c)}
<1>1. CASE o \in {Parts[i] : i \in 1..Len(Parts)} \ Fillings
  <2>1. PICK i \in 1..(BootCores + 12) : o = Parts[i]
    BY <1>1, PartsAre
  <2>2. CASE i <= 6
    <3>1. i \in {1, 2, 3, 4, 5, 6}
      BY <2>2
    <3> QED
      BY <1>1, <2>1, <3>1, PartsAre DEF PartNames, Fillings
  <2>3. CASE i >= 7 /\ i <= BootCores + 6
    <3>1. i - 6 \in 1..BootCores /\ (i - 6) + 6 = i /\ (i - 6) - 1 = i - 7
          /\ i - 7 \in CoreIds
      BY <2>3, CoresAssumption DEF CoreIds
    <3> QED
      BY <2>1, <3>1, PartsAre
  <2>4. CASE i > BootCores + 6
    <3>1. i \in {BootCores + 7, BootCores + 8, BootCores + 9, BootCores + 10,
                 BootCores + 11, BootCores + 12}
      BY <2>4, CoresAssumption
    <3> QED
      BY <2>1, <3>1, PartsAre DEF PartNames
  <2> QED
    BY <2>2, <2>3, <2>4, CoresAssumption
<1>2. CASE o \in {Core(c) : c \in CoreIds} \cup {Thread(c) : c \in CoreIds}
  BY <1>2
<1>3. CASE o \in ReaderBlocks \cup ReaderKeeps
  BY <1>3
<1> QED
  BY <1>1, <1>2, <1>3 DEF Objects

\* The cores and their threads are objects, told apart by their numbers.
LEMMA CoreObjects ==
    ASSUME NEW c \in CoreIds
    PROVE  /\ Core(c) \in Objects /\ Thread(c) \in Objects
           /\ \A d \in CoreIds : (Core(d) = Core(c) \/ Thread(d) = Thread(c)) => d = c
           /\ \A d \in CoreIds : Core(d) # Thread(c)
           /\ Core(c)[1] = "core" /\ Core(c)[2] = c
           /\ Thread(c)[1] = "thread" /\ Thread(c)[2] = c
<1>1. Core(c) \in Objects /\ Thread(c) \in Objects
  BY DEF Objects
<1> QED
  BY <1>1 DEF Core, Thread

\* What is freed when.
LEMMA OrderAt ==
    ASSUME NEW n \in Nat, NEW j \in 1..(n + 2), NEW o, o \in OrderOf(n)[j]
    PROVE  \/ j = 1 /\ o \in {Part("dmem"), Part("imem"), Part("lock"), Part("cond")}
           \/ j \in 2..(n + 1) /\ o = Core(j - 2)
           \/ j = n + 2 /\ o \in RestOf(n)
<1>1. CASE j \in 2..(n + 1)
  <2>1. j - 1 \in 1..n /\ (j - 1) + 1 = j /\ (j - 1) - 1 = j - 2
    BY <1>1
  <2>2. OrderOf(n)[j] = {Core(j - 2)}
    BY <2>1, OrderIs
  <2> QED
    BY <1>1, <2>2
<1>2. CASE j = 1 \/ j = n + 2
  BY <1>2, OrderIs
<1>3. j = 1 \/ j = n + 2 \/ j \in 2..(n + 1)
  OBVIOUS
<1> QED
  BY <1>1, <1>2, <1>3

\* The parts that hold memory are objects.
LEMMA PartObjects ==
    ASSUME NEW name \in PartNames \ {"file", "options"}
    PROVE  Part(name) \in Objects
<1>1. Part(name) \notin Fillings
  BY DEF Part, Fillings
<1>2. \E i \in 1..(BootCores + 12) : Part(name) = Parts[i]
  <2>1. /\ BootCores \in Nat
        /\ {1, 3, 5, 6, BootCores + 7, BootCores + 8, BootCores + 9, BootCores + 10,
            BootCores + 11, BootCores + 12} \subseteq 1..(BootCores + 12)
    BY CoresAssumption
  <2>2. name \in {"reader", "dmem", "imem", "cores", "cond", "lock", "queue",
                  "hdlr_lock", "threads", "loader"}
    BY DEF PartNames
  <2> QED
    BY <2>1, <2>2, PartsAre
<1> QED
  BY <1>1, <1>2, PartsAre DEF Objects

\* So are the reader's blocks.
LEMMA BlockObjects == ReaderBlocks \cup ReaderKeeps \subseteq Objects
  BY DEF Objects

\* What is freed are objects, and the cores among them are counted.
LEMMA OrderObjects ==
    ASSUME NEW n \in 0..MaxCores, NEW j \in 1..(n + 2), NEW o, o \in OrderOf(n)[j]
    PROVE  /\ o \in Objects
           /\ \A c \in CoreIds : o \in {Core(c), Thread(c)} => c < n
<1> USE CoresAssumption DEF CoreIds
<1>1. n \in Nat
  OBVIOUS
<1>2. CASE o \in {Part("dmem"), Part("imem"), Part("lock"), Part("cond")}
  <2>1. o \in Objects
    BY <1>2, PartObjects DEF PartNames
  <2> QED
    BY <1>2, <2>1 DEF Part, Core, Thread
<1>3. CASE j \in 2..(n + 1) /\ o = Core(j - 2)
  <2>1. j - 2 \in CoreIds /\ j - 2 < n
    BY <1>1, <1>3
  <2> QED
    BY <1>3, <2>1, CoreObjects
<1>4. CASE o \in RestOf(n)
  <2>1. CASE o \in AfterCores
    <3>1. o \in Objects
      BY <2>1, PartObjects, BlockObjects DEF PartNames, AfterCores
    <3> QED
      BY <2>1, <3>1 DEF Part, Core, Thread, AfterCores, ReaderBlocks
  <2>2. CASE o \in {Thread(c) : c \in 0..(n - 1)}
    <3>1. PICK c \in 0..(n - 1) : o = Thread(c)
      BY <2>2
    <3>2. c \in CoreIds /\ c < n
      OBVIOUS
    <3> QED
      BY <3>1, <3>2, CoreObjects
  <2> QED
    BY <1>4, <2>1, <2>2 DEF RestOf
<1> QED
  BY <1>1, <1>2, <1>3, <1>4, OrderAt

\* Nothing is in the order twice, and the rest are what the reader keeps and cores
\* that are not counted.
LEMMA OrderParts ==
    ASSUME NEW n \in Nat
    PROVE  /\ \A j, k \in 1..(n + 2) :
                 \A o : o \in OrderOf(n)[j] /\ o \in OrderOf(n)[k] => j = k
           /\ \A o \in Objects :
                 \/ \E j \in 1..(n + 2) : o \in OrderOf(n)[j]
                 \/ o \in ReaderKeeps
                 \/ \E c \in CoreIds : c >= n /\ o \in {Core(c), Thread(c)}
<1>1. ASSUME NEW j \in 1..(n + 2), NEW k \in 1..(n + 2), NEW o,
             o \in OrderOf(n)[j], o \in OrderOf(n)[k]
      PROVE  j = k
  <2>1. \/ j = 1 /\ o \in {Part("dmem"), Part("imem"), Part("lock"), Part("cond")}
        \/ j \in 2..(n + 1) /\ o = Core(j - 2)
        \/ j = n + 2 /\ o \in RestOf(n)
    BY <1>1, OrderAt
  <2>2. \/ k = 1 /\ o \in {Part("dmem"), Part("imem"), Part("lock"), Part("cond")}
        \/ k \in 2..(n + 1) /\ o = Core(k - 2)
        \/ k = n + 2 /\ o \in RestOf(n)
    BY <1>1, OrderAt
  <2>3. o \in RestOf(n) =>
           o[1] \in {"cores", "threads", "reader", "loader", "hdlr_lock", "queue",
                    "EAT", "sections", "st_data", "thread"}
    BY DEF RestOf, AfterCores, ReaderBlocks, Part, Thread
  <2>4. o \in {Part("dmem"), Part("imem"), Part("lock"), Part("cond")} =>
           o[1] \in {"dmem", "imem", "lock", "cond"}
    BY DEF Part
  <2>5. /\ o = Core(j - 2) => o[1] = "core" /\ o[2] = j - 2
        /\ o = Core(k - 2) => o[1] = "core" /\ o[2] = k - 2
    BY DEF Core
  <2> QED
    BY <2>1, <2>2, <2>3, <2>4, <2>5
<1>2. ASSUME NEW o \in Objects
      PROVE  \/ \E j \in 1..(n + 2) : o \in OrderOf(n)[j]
             \/ o \in ReaderKeeps
             \/ \E c \in CoreIds : c >= n /\ o \in {Core(c), Thread(c)}
  <2>1. CASE \/ \E name \in PartNames \ {"file", "options"} : o = Part(name)
             \/ o \in ReaderBlocks
    <3>1. o \in {Part("dmem"), Part("imem"), Part("lock"), Part("cond")} \/ o \in RestOf(n)
      BY <2>1 DEF PartNames, RestOf, AfterCores
    <3>2. 1 \in 1..(n + 2) /\ n + 2 \in 1..(n + 2)
      OBVIOUS
    <3> QED
      BY <3>1, <3>2, OrderIs
  <2>2. ASSUME NEW c \in CoreIds, o \in {Core(c), Thread(c)}, c < n
        PROVE  \E j \in 1..(n + 2) : o \in OrderOf(n)[j]
    <3>1. c \in Nat
      BY CoresAssumption DEF CoreIds
    <3>2. CASE o = Core(c)
      <4>1. c + 1 \in 1..n /\ (c + 1) - 1 = c /\ (c + 1) + 1 \in 1..(n + 2)
        BY <2>2, <3>1
      <4> QED
        BY <3>2, <4>1, OrderIs
    <3>3. CASE o = Thread(c)
      <4>1. o \in RestOf(n)
        BY <2>2, <3>1, <3>3 DEF RestOf
      <4>2. n + 2 \in 1..(n + 2)
        OBVIOUS
      <4> QED
        BY <4>1, <4>2, OrderIs
    <3> QED
      BY <2>2, <3>2, <3>3
  <2>3. \A c \in CoreIds : c < n \/ c >= n
    BY CoresAssumption DEF CoreIds
  <2> QED
    BY <2>1, <2>2, <2>3, ObjectIs
<1> QED
  BY <1>1, <1>2

-----------------------------------------------------------------------------
(* The inductive invariant *)

Building == main \in {"parse", "init", "create"}

\* The OS's thread has not been started.
BeforeVM == Building \/ built < Len(Parts) \/ failed = Part("os_thread")

\* The OS has not run: no core's thread has been started.
Idle == osPc = "boot" /\ idx = 0 /\ core_count = BootCores /\ Started = {}

\* Where main is, what it has built and what failed.
MainInv ==
    /\ Building => failed = NoPart
    /\ BeforeVM => Idle
    /\ main = "parse" => built = 0
    /\ main = "init" => built < Len(Parts)
    /\ main \in {"create", "join"} => built = Len(Parts)
    /\ main = "join" => failed \in {NoPart, Part("registers")}
    /\ main = "destroy" /\ built = Len(Parts) =>
          \/ failed \in {NoPart, Part("registers")} /\ osPc = "done"
          \/ failed = Part("os_thread")
    /\ main = "destroy" /\ built < Len(Parts) =>
          /\ built >= 3
          /\ \/ failed = NextPart
             \/ failed = Part("registers") /\ built < Len(Parts) - 2
    /\ Building \/ main = "join" => gone = 0

\* Before the OS runs, the cores that are there are those of the input file,
\* as far as main has got.
CoresMade ==
    BeforeVM =>
        \A c \in CoreIds : heap[Core(c)] # "none" <=> c < BootCores /\ c + 7 <= built

\* core_threads[c] has not been reached yet, or is not among those to free.
NotSet(c) == IF osPc = "boot" THEN c >= idx ELSE c >= core_count

\* The tables that the input file does not have.
MissingTables == {Part(t) : t \in {"sections", "st_data"} \ FileTables}

\* What malloc left somewhere is in the reader, once there is one, and in
\* core_threads, once they are made: in the reader those that the file does not
\* fill, in core_threads those of the input file's cores that have not been booted.
JunkInv ==
    /\ built = 0 => \A o \in Objects : heap[o] # "junk"
    /\ osPc # "crashed" =>
          \A o \in Objects :
              heap[o] = "junk" =>
                  \/ o \in ReaderBlocks \cup ReaderKeeps
                  \/ \E c \in CoreIds : o = Thread(c) /\ c < BootCores /\ NotSet(c)
    /\ built >= 2 => \A o \in ReaderBlocks : heap[o] = "junk" => o \in MissingTables
    /\ built < Len(Parts) - 1 => \A c \in CoreIds : heap[Thread(c)] # "junk"

\* The cores that are not counted are not there, but after a failed boot.
OutsideInv ==
    \A c \in CoreIds :
        c >= core_count /\ (heap[Core(c)] = "live" \/ heap[Thread(c)] = "live") =>
            active_core_count > core_count

\* merry_os_destroy has passed it.
Gone(o) == \E j \in 1..gone : o \in DestroyOrder[j]

\* Only what merry_os_destroy has passed is freed, but for the queue that a
\* handler without a lock freed itself, and nothing it has passed is still there.
DestroyInv ==
    /\ Building \/ main = "join" => \A o \in Objects : heap[o] # "freed"
    /\ main = "destroy" =>
          \A o \in Objects :
              /\ heap[o] = "freed" =>
                    Gone(o) \/ (failed = Part("hdlr_lock") /\ o = Part("queue"))
              /\ heap[o] = "live" => ~Gone(o)

ProcInv ==
    /\ ProcTypeOK /\ CountInv /\ MainInv /\ CoresMade /\ JunkInv /\ OutsideInv
    /\ DestroyInv /\ FreesWhatIsThere /\ LeavesNothingElse

\* The number of the cores that are counted is one, now and after any step.
LEMMA CountedType ==
    /\ core_count \in 0..MaxCores => Counted \in 0..MaxCores
    /\ core_count' \in 0..MaxCores => Counted' \in 0..MaxCores
<1>1. /\ Cardinality({c \in CoreIds : heap[Core(c)] # "none"}) \in 0..MaxCores
      /\ Cardinality({c \in CoreIds : heap'[Core(c)] # "none"}) \in 0..MaxCores
  <2>1. \A S \in SUBSET CoreIds : Cardinality(S) \in 0..MaxCores
    BY CoresFinite, CoresAssumption
  <2> QED
    BY <2>1
<1> QED
  BY <1>1 DEF Counted

\* How far merry_os_destroy can be, now and after any step.
LEMMA GoneType ==
    /\ core_count \in 0..MaxCores =>
          Counted \in 0..MaxCores /\ Len(DestroyOrder) = Counted + 2
    /\ core_count' \in 0..MaxCores =>
          Counted' \in 0..MaxCores /\ Len(DestroyOrder') = Counted' + 2
<1>1. /\ Counted \in 0..MaxCores => Counted \in Nat
      /\ Counted' \in 0..MaxCores => Counted' \in Nat
  BY CoresAssumption
<1>2. /\ Counted \in Nat => Len(DestroyOrder) = Counted + 2
      /\ Counted' \in Nat => Len(DestroyOrder') = Counted' + 2
  BY OrderIsOf, OrderIs
<1> QED
  BY <1>1, <1>2, CountedType

\* The failures that are no call of merry_os_init are told from each other.
LEMMA FailuresDiffer ==
    /\ NoPart \notin {Part("os_thread"), Part("registers")}
    /\ Part("os_thread") # Part("registers")
    /\ Part("hdlr_lock") \notin {NoPart, Part("os_thread"), Part("registers")}
    /\ Len(Parts) \in Nat /\ Len(Parts) > 12
<1>1. Len(Parts) \in Nat /\ Len(Parts) > 12
  BY PartsAre, CoresAssumption
<1> QED
  BY <1>1 DEF NoPart, Part

\* What was freed blindly still was when something fails, and when nothing has
\* failed it is tables that the file does not have.
LEMMA BlindGrows ==
    /\ failed = NoPart => FreedBlindly = MissingTables
    /\ MissingTables \subseteq FreedBlindly
    /\ MissingTables \subseteq FreedBlindly'
    /\ failed' = failed => FreedBlindly' = FreedBlindly
    /\ failed' = Part("registers") => FreedBlindly' = MissingTables \cup CoreBlocks
<1>1. failed = NoPart => FreedBlindly = MissingTables
  BY PartsAre DEF FreedBlindly, MissingTables, NoPart, Part
<1>2. failed' = Part("registers") => FreedBlindly' = MissingTables \cup CoreBlocks
  BY DEF FreedBlindly, MissingTables, Part
<1>3. MissingTables \subseteq FreedBlindly /\ MissingTables \subseteq FreedBlindly'
  BY DEF FreedBlindly, MissingTables
<1>4. failed' = failed => FreedBlindly' = FreedBlindly
  BY DEF FreedBlindly
<1> QED
  BY <1>1, <1>2, <1>3, <1>4

\* It holds when main begins.
LEMMA InitProc == ProcInit => ProcInv
<1> SUFFICES ASSUME ProcInit PROVE ProcInv
  OBVIOUS
<1>1. TypeOK /\ CountInv /\ Init
  BY InitType DEF ProcInit, TypeInv
<1>2. heap \in [Objects -> {"none"}] /\ main = "parse" /\ built = 0 /\ failed = NoPart
      /\ gone = 0 /\ wild = {}
  BY DEF ProcInit
<1>3. ProcTypeOK
  <2>1. Len(Parts) \in Nat /\ Len(DestroyOrder) \in Nat
    BY <1>1, PartsAre, GoneType, CoresAssumption DEF TypeOK
  <2> QED
    BY <1>1, <1>2, <2>1 DEF ProcTypeOK
<1>4. Idle
  BY <1>1 DEF Init, Idle, Started
<1>5. MainInv /\ DestroyInv /\ LeavesNothingElse /\ FreesWhatIsThere
  BY <1>2, <1>4, FailuresDiffer
  DEF MainInv, DestroyInv, LeavesNothingElse, FreesWhatIsThere, Building
<1>6. JunkInv
  BY <1>2, CoreObjects DEF JunkInv
<1>7. CoresMade /\ OutsideInv
  BY <1>2, CoreObjects, CoresAssumption DEF CoresMade, OutsideInv, CoreIds
<1> QED
  BY <1>1, <1>3, <1>5, <1>6, <1>7 DEF ProcInv

\* What does not touch the VM leaves what is said of it.
LEMMA SameVM ==
    ASSUME TypeOK, CountInv, UNCHANGED vars
    PROVE  /\ TypeOK' /\ CountInv' /\ Idle' = Idle
           /\ \A c : NotSet(c)' = NotSet(c)
           /\ UNCHANGED <<osPc, idx, core_count, active_core_count, thread, stop_running>>
<1>1. TypeOK' /\ CountInv'
  BY StutterType DEF TypeInv
<1>2. UNCHANGED <<osPc, idx, core_count, active_core_count, thread, stop_running>>
  BY DEF vars, coreVars, osVars, osLocals
<1> QED
  BY <1>1, <1>2 DEF Idle, Started, NotSet

\* What does not touch the pointers either leaves what is said of them.
LEMMA SameHeap ==
    ASSUME ProcInv, UNCHANGED <<vars, heap, gone>>
    PROVE  /\ TypeOK' /\ CountInv' /\ OutsideInv' /\ Idle' = Idle
           /\ heap' \in [Objects -> {"none", "live", "freed", "junk"}]
           /\ Counted' = Counted /\ DestroyOrder' = DestroyOrder
           /\ gone' \in 0..Len(DestroyOrder')
           /\ \A o : Gone(o)' = Gone(o)
           /\ \A c : NotSet(c)' = NotSet(c)
           /\ UNCHANGED <<osPc, idx, core_count, active_core_count, thread>>
<1>1. /\ TypeOK' /\ CountInv' /\ Idle' = Idle
      /\ \A c : NotSet(c)' = NotSet(c)
      /\ UNCHANGED <<osPc, idx, core_count, active_core_count, thread, stop_running>>
  BY SameVM DEF ProcInv, ProcTypeOK
<1>2. Counted' = Counted /\ DestroyOrder' = DestroyOrder
  BY <1>1, OrderIsOf DEF Counted
<1>3. OutsideInv'
  BY <1>1 DEF ProcInv, OutsideInv
<1>4. /\ heap' \in [Objects -> {"none", "live", "freed", "junk"}]
      /\ gone' \in 0..Len(DestroyOrder')
      /\ \A o : Gone(o)' = Gone(o)
  BY <1>2 DEF ProcInv, ProcTypeOK, Gone
<1> QED
  BY <1>1, <1>2, <1>3, <1>4

\* main gets on, without building or freeing.
LEMMA MainOn ==
    ASSUME ProcInv, ParseOptions \/ CreateOSThread \/ JoinOSThread
    PROVE  ProcInv'
<1> USE DEF ProcInv
<1>1. /\ UNCHANGED <<vars, heap, gone, built, wild>>
      /\ main' \in {"init", "exited", "join", "destroy"}
      /\ failed' \in {failed, Part("os_thread")}
  BY DEF ParseOptions, CreateOSThread, JoinOSThread
<1>2. /\ TypeOK' /\ CountInv' /\ OutsideInv' /\ Idle' = Idle
      /\ heap' \in [Objects -> {"none", "live", "freed", "junk"}]
      /\ gone' \in 0..Len(DestroyOrder')
      /\ \A o : Gone(o)' = Gone(o)
      /\ \A c : NotSet(c)' = NotSet(c)
      /\ UNCHANGED <<osPc, idx, core_count, active_core_count, thread>>
  BY <1>1, SameHeap
<1>3. ProcTypeOK'
  BY <1>1, <1>2 DEF ProcTypeOK
<1>4. JunkInv'
  BY <1>1, <1>2 DEF JunkInv
<1>5. CASE ParseOptions
  <2>1. main = "parse" /\ main' \in {"init", "exited"} /\ failed' = failed /\ built = 0
    BY <1>5 DEF ParseOptions, MainInv
  <2>2. MainInv' /\ LeavesNothingElse' /\ FreesWhatIsThere'
    BY <1>1, <1>2, <2>1, FailuresDiffer, BlindGrows
    DEF MainInv, LeavesNothingElse, FreesWhatIsThere, BeforeVM, Building
  <2>3. CoresMade' /\ DestroyInv'
    BY <1>1, <1>2, <2>1 DEF CoresMade, DestroyInv, BeforeVM, Building
  <2> QED
    BY <1>2, <1>3, <1>4, <2>2, <2>3
<1>6. CASE CreateOSThread
  <2>1. main = "create" /\ built = Len(Parts) /\ gone = 0 /\ failed = NoPart /\ BeforeVM
    BY <1>6 DEF CreateOSThread, MainInv, BeforeVM, Building
  <2>2. \/ main' = "join" /\ failed' = failed
        \/ main' = "destroy" /\ failed' = Part("os_thread")
    BY <1>6 DEF CreateOSThread
  <2>3. MainInv' /\ LeavesNothingElse'
    BY <1>1, <1>2, <2>1, <2>2, FailuresDiffer
    DEF MainInv, LeavesNothingElse, BeforeVM, Building
  <2>4. FreesWhatIsThere'
    BY <1>1, <2>1, BlindGrows DEF FreesWhatIsThere
  <2>5. CoresMade' /\ DestroyInv'
    BY <1>1, <1>2, <2>1, <2>2 DEF CoresMade, DestroyInv, BeforeVM, Building, Gone
  <2> QED
    BY <1>2, <1>3, <1>4, <2>3, <2>4, <2>5
<1>7. CASE JoinOSThread
  <2>1. /\ main = "join" /\ osPc = "done" /\ main' = "destroy" /\ gone = 0
        /\ failed \in {NoPart, Part("registers")} /\ failed' = failed
        /\ built = Len(Parts)
    BY <1>7 DEF JoinOSThread, MainInv
  <2>2. MainInv' /\ LeavesNothingElse' /\ FreesWhatIsThere'
    BY <1>1, <1>2, <2>1, FailuresDiffer, BlindGrows
    DEF MainInv, LeavesNothingElse, FreesWhatIsThere, BeforeVM, Building
  <2>3. CoresMade' /\ DestroyInv'
    BY <1>1, <1>2, <2>1 DEF CoresMade, DestroyInv, BeforeVM, Building, Gone
  <2> QED
    BY <1>2, <1>3, <1>4, <2>2, <2>3
<1> QED
  BY <1>5, <1>6, <1>7

\* What a call sets and what it leaves unset: of the cores and their threads, its
\* own core and, when it is the array of threads, those of the input file's cores;
\* of the reader's blocks, all but f, and then those the file has.
LEMMA SetsAre ==
    ASSUME NEW i \in 1..Len(Parts), NEW p, p = Parts[i]
    PROVE  /\ \A c \in CoreIds : /\ Core(c) \in Sets(p) <=> c < BootCores /\ i = c + 7
                                 /\ Core(c) \notin LeavesUnset(p)
                                 /\ Thread(c) \notin Sets(p)
           /\ \A o \in LeavesUnset(p) :
                 \/ i = 1 /\ o \in ReaderBlocks \cup ReaderKeeps
                 \/ i = Len(Parts) - 1 /\ \E c \in CoreIds : o = Thread(c) /\ c < BootCores
           /\ i = 2 => ReaderBlocks \ MissingTables \subseteq Sets(p)
<1>1. CASE i = 1
  <2>1. p = Part("reader") /\ i # Len(Parts) - 1 /\ i # 2
    BY <1>1, PartsAre, CoresAssumption
  <2>2. Sets(p) = {p, Part("f")}
        /\ LeavesUnset(p) = ReaderBlocks \cup (ReaderKeeps \ {Part("f")})
    BY <2>1 DEF Sets, LeavesUnset, Part
  <2> QED
    BY <1>1, <2>1, <2>2, CoresAssumption
    DEF Part, Core, Thread, ReaderBlocks, ReaderKeeps, CoreIds
<1>2. CASE i = 2
  <2>1. p = Part("file") /\ i # Len(Parts) - 1
    BY <1>2, PartsAre, CoresAssumption
  <2>2. /\ Sets(p) = {Part("EAT"), Part("instructions")} \cup {Part(t) : t \in FileTables}
                        \cup {Part("data") : t \in FileTables \cap {"sections"}}
        /\ LeavesUnset(p) = {}
    BY <2>1 DEF Sets, LeavesUnset, Part
  <2>3. ReaderBlocks \ MissingTables \subseteq Sets(p)
    BY <2>2 DEF ReaderBlocks, MissingTables
  <2>4. \A c \in CoreIds : Core(c) \notin Sets(p) /\ Thread(c) \notin Sets(p)
    BY <2>2, FileTablesAssumption DEF Part, Core, Thread
  <2> QED
    BY <1>2, <2>2, <2>3, <2>4, CoresAssumption DEF CoreIds
<1>3. CASE i > 2
  <2>1. 0 \in CoreIds
    BY CoresAssumption DEF CoreIds
  <2>2. /\ p \notin {Part("reader"), Part("file")}
        /\ p = Part("threads") <=> i = Len(Parts) - 1
    BY <1>3, <2>1, PartIs
  <2>3. /\ Sets(p) = {p}
        /\ LeavesUnset(p) = IF p = Part("threads") THEN {Thread(c) : c \in 0..(BootCores - 1)}
                            ELSE {}
    BY <2>2 DEF Sets, LeavesUnset
  <2>4. \A c \in CoreIds : p = Core(c) <=> c < BootCores /\ i = c + 7
    BY PartIs
  <2>5. \A c \in CoreIds : p # Thread(c)
    BY PartIs
  <2>6. \A c \in 0..(BootCores - 1) : c \in CoreIds /\ c < BootCores
    BY CoresAssumption DEF CoreIds
  <2>7. \A c \in CoreIds : \A d : Core(c) # Thread(d)
    BY DEF Core, Thread
  <2> QED
    BY <1>3, <2>2, <2>3, <2>4, <2>5, <2>6, <2>7
<1> QED
  BY <1>1, <1>2, <1>3

\* One more part is made.
LEMMA BuildKeeps ==
    ASSUME ProcInv, BuildPart
    PROVE  ProcInv'
<1> USE DEF ProcInv
<1>1. /\ main = "init" /\ built < Len(Parts) /\ built' = built + 1
      /\ main' = IF built' = Len(Parts) THEN "create" ELSE "init"
      /\ UNCHANGED <<vars, failed, gone, wild>>
  BY DEF BuildPart
<1>2. /\ built \in Nat /\ BootCores \in Nat /\ Len(Parts) = BootCores + 12
      /\ failed = NoPart /\ gone = 0 /\ Idle /\ BeforeVM
  BY <1>1, PartsAre, CoresAssumption DEF ProcTypeOK, MainInv, BeforeVM, Building
<1>3. PICK p : p = NextPart
  OBVIOUS
<1>4. built' \in 1..Len(Parts) /\ p = Parts[built']
  BY <1>1, <1>2, <1>3 DEF NextPart
<1>5. \A o \in Objects :
         heap'[o] = IF o \in Sets(p) THEN "live"
                    ELSE IF o \in LeavesUnset(p) THEN "junk" ELSE heap[o]
  BY <1>3 DEF BuildPart
<1>6. heap' \in [Objects -> {"none", "live", "freed", "junk"}]
  BY <1>3 DEF BuildPart, ProcTypeOK
<1>7. /\ \A c \in CoreIds : /\ Core(c) \in Sets(p) <=> c < BootCores /\ built' = c + 7
                            /\ Core(c) \notin LeavesUnset(p)
                            /\ Thread(c) \notin Sets(p)
      /\ \A o \in LeavesUnset(p) :
            \/ built' = 1 /\ o \in ReaderBlocks \cup ReaderKeeps
            \/ built' = Len(Parts) - 1 /\ \E c \in CoreIds : o = Thread(c) /\ c < BootCores
      /\ built' = 2 => ReaderBlocks \ MissingTables \subseteq Sets(p)
  BY <1>4, SetsAre
<1>8. \A c \in CoreIds :
         /\ heap'[Core(c)] = IF c < BootCores /\ built' = c + 7 THEN "live" ELSE heap[Core(c)]
         /\ heap'[Thread(c)] \in {heap[Thread(c)], "junk"}
  BY <1>5, <1>7, CoreObjects
<1>9. /\ TypeOK' /\ CountInv' /\ Idle'
      /\ \A c : NotSet(c)' = NotSet(c)
      /\ UNCHANGED <<osPc, idx, core_count, active_core_count>>
  BY <1>1, <1>2, SameVM DEF ProcTypeOK
<1>10. ProcTypeOK'
  <2>1. gone' \in 0..Len(DestroyOrder')
    BY <1>1, <1>2, <1>9, GoneType, CoresAssumption DEF TypeOK
  <2>2. built' \in 0..Len(Parts)
    BY <1>1, <1>2
  <2> QED
    BY <1>1, <1>6, <1>9, <2>1, <2>2 DEF ProcTypeOK
<1>11. MainInv' /\ LeavesNothingElse' /\ FreesWhatIsThere'
  BY <1>1, <1>2, <1>9, BlindGrows
  DEF MainInv, LeavesNothingElse, FreesWhatIsThere, BeforeVM, Building
<1>12. CoresMade'
  <2> SUFFICES ASSUME NEW c \in CoreIds
               PROVE  heap'[Core(c)] # "none" <=> c < BootCores /\ c + 7 <= built'
    BY DEF CoresMade
  <2>1. heap[Core(c)] # "none" <=> c < BootCores /\ c + 7 <= built
    BY <1>2 DEF CoresMade
  <2>2. c \in Nat
    BY CoresAssumption DEF CoreIds
  <2> QED
    BY <1>1, <1>2, <1>8, <2>1, <2>2
<1>13. JunkInv'
  <2>1. ASSUME NEW o \in Objects, heap'[o] = "junk"
        PROVE  \/ o \in ReaderBlocks \cup ReaderKeeps
               \/ \E c \in CoreIds : o = Thread(c) /\ c < BootCores /\ NotSet(c)'
    <3>1. \A c \in CoreIds : NotSet(c)'
      BY <1>9, CoresAssumption DEF NotSet, Idle, CoreIds
    <3>2. CASE heap[o] = "junk"
      BY <1>2, <3>1, <3>2 DEF JunkInv, Idle
    <3>3. CASE o \in LeavesUnset(p)
      BY <1>7, <3>1, <3>3
    <3> QED
      BY <1>5, <2>1, <3>2, <3>3
  <2>2. ASSUME built' >= 2, NEW o \in ReaderBlocks, heap'[o] = "junk"
        PROVE  o \in MissingTables
    <3>1. o \in Objects
      BY BlockObjects
    <3>2. o \notin LeavesUnset(p)
      <4>1. \A c \in CoreIds : o # Thread(c)
        BY DEF ReaderBlocks, Part, Thread
      <4> QED
        BY <1>7, <2>2, <4>1
    <3>3. heap[o] = "junk" /\ o \notin Sets(p)
      BY <1>5, <2>2, <3>1, <3>2
    <3> QED
      BY <1>1, <1>2, <1>7, <2>2, <3>3 DEF JunkInv
  <2>3. ASSUME built' < Len(Parts) - 1, NEW c \in CoreIds
        PROVE  heap'[Thread(c)] # "junk"
    <3>1. Thread(c) \notin ReaderBlocks \cup ReaderKeeps
      BY DEF ReaderBlocks, ReaderKeeps, Part, Thread
    <3>2. Thread(c) \notin LeavesUnset(p)
      BY <1>7, <2>3, <3>1
    <3>3. heap[Thread(c)] # "junk"
      BY <1>1, <1>2, <2>3 DEF JunkInv
    <3> QED
      BY <1>5, <1>7, <3>2, <3>3, CoreObjects
  <2> QED
    BY <1>1, <1>2, <2>1, <2>2, <2>3 DEF JunkInv
<1>14. OutsideInv'
  <2> SUFFICES ASSUME NEW c \in CoreIds, c >= BootCores
               PROVE  (heap'[Core(c)] # "live" /\ heap'[Thread(c)] # "live")
                      \/ active_core_count' > core_count'
    BY <1>2, <1>9 DEF OutsideInv, Idle
  <2>1. c \in Nat /\ ~(c < BootCores)
    BY <1>2, CoresAssumption DEF CoreIds
  <2> QED
    BY <1>2, <1>8, <1>9, <2>1 DEF OutsideInv, Idle
<1>15. DestroyInv'
  BY <1>1, <1>5 DEF DestroyInv, Building
<1> QED
  BY <1>9, <1>10, <1>11, <1>12, <1>13, <1>14, <1>15

\* What failed is a call of merry_os_init, not yet made.
LEMMA FailedPart ==
    ASSUME ProcInv, main = "init", built < Len(Parts)
    PROVE  /\ NextPart \in {Parts[i] : i \in 1..Len(Parts)}
           /\ NextPart \notin {NoPart, Part("os_thread"), Part("registers")}
           /\ NextPart \in Early <=> built < 3
           /\ NextPart = Part("reader") <=> built = 0
           /\ NextPart = Part("file") <=> built = 1
           /\ NextPart[1] = "core" => built < Len(Parts) - 2 /\ built >= 3
           /\ built \in Nat /\ Idle /\ BeforeVM /\ failed = NoPart /\ gone = 0
<1>1. /\ built \in Nat /\ Len(Parts) \in Nat /\ Idle /\ BeforeVM /\ failed = NoPart
      /\ gone = 0
  BY PartsAre, CoresAssumption DEF ProcInv, ProcTypeOK, MainInv, BeforeVM, Building
<1>2. built + 1 \in 1..Len(Parts) /\ 0 \in CoreIds
  BY <1>1, CoresAssumption DEF CoreIds
<1>3. /\ Parts[built + 1] \in Early <=> built + 1 <= 3
      /\ Parts[built + 1] = Part("reader") <=> built + 1 = 1
      /\ Parts[built + 1] = Part("file") <=> built + 1 = 2
      /\ Parts[built + 1][1] = "core" => built + 1 < Len(Parts) - 1 /\ built + 1 > 3
      /\ Parts[built + 1] \notin {NoPart, Part("os_thread"), Part("registers")}
  BY <1>2, PartIs
<1> QED
  BY <1>1, <1>2, <1>3 DEF NextPart

\* What merry_reader_read_file leaves when it fails are the reader's blocks.
LEMMA LeftByIs ==
    ASSUME heap \in [Objects -> {"none", "live", "freed", "junk"}],
           NEW part, NEW h \in LeftBy(part)
    PROVE  /\ h \in [Objects -> {"none", "live", "freed", "junk"}]
           /\ \A o \in Objects \ ReaderBlocks : h[o] = heap[o]
           /\ part # Part("file") => h = heap
<1>1. CASE part # Part("file")
  BY <1>1 DEF LeftBy
<1>2. CASE part = Part("file")
  <2>1. PICK f \in FileFailures :
           h = [heap EXCEPT ![Part("EAT")] = f[1], ![Part("sections")] = f[2],
                            ![Part("st_data")] = f[3]]
    BY <1>2 DEF LeftBy
  <2> DEFINE V == {"none", "live", "freed", "junk"}
  <2>2. f[1] \in V /\ f[2] \in V /\ f[3] \in V
    BY DEF FileFailures
  <2>3. \A o \in Objects \ ReaderBlocks :
           o \notin {Part("EAT"), Part("sections"), Part("st_data")}
    BY DEF ReaderBlocks
  <2> HIDE DEF V
  <2>4. h \in [Objects -> V]
    BY <2>1, <2>2 DEF V
  <2>5. \A o \in Objects \ ReaderBlocks : h[o] = heap[o]
    BY <2>1, <2>3
  <2> QED
    BY <1>2, <2>4, <2>5 DEF V
<1> QED
  BY <1>1, <1>2

\* Up to the data memory, main frees the reader and returns.
LEMMA StartKeeps ==
    ASSUME ProcInv, StartFails
    PROVE  ProcInv'
<1> USE DEF ProcInv
<1>1. /\ main = "init" /\ built < Len(Parts) /\ failed' = NextPart /\ NextPart \in Early
      /\ main' \in {"exited", "crashed"}
      /\ UNCHANGED <<vars, built, gone>>
  BY DEF StartFails, OrCrash
<1> DEFINE S == ReaderBlocks \cup {Part("reader")}
<1>2. PICK h \in LeftBy(NextPart) : Free(h, S)
  BY DEF StartFails
<1>3. /\ built \in 0..2 /\ Idle /\ BeforeVM /\ failed = NoPart /\ gone = 0
      /\ NextPart \in {Parts[i] : i \in 1..Len(Parts)}
      /\ NextPart = Part("file") <=> built = 1
  BY <1>1, FailedPart
<1>4. /\ h \in [Objects -> {"none", "live", "freed", "junk"}]
      /\ \A o \in Objects \ ReaderBlocks : h[o] = heap[o]
      /\ NextPart # Part("file") => h = heap
  BY <1>2, LeftByIs DEF ProcTypeOK
<1>5. /\ \A o \in Objects : heap'[o] = IF o \in S /\ h[o] # "none" THEN "freed" ELSE h[o]
      /\ heap' \in [Objects -> {"none", "live", "freed", "junk"}]
      /\ wild' = wild \cup {o \in S : h[o] \in {"freed", "junk"}}
  BY <1>2, <1>4 DEF Free
<1>6. S \subseteq Objects
  BY BlockObjects, PartObjects DEF PartNames
<1>7. \A c \in CoreIds : heap'[Core(c)] = heap[Core(c)] /\ heap'[Thread(c)] = heap[Thread(c)]
  <2> TAKE c \in CoreIds
  <2>1. Core(c) \notin S /\ Thread(c) \notin S
    BY DEF Core, Thread, Part, ReaderBlocks
  <2> QED
    BY <1>4, <1>5, <2>1, CoreObjects
<1>8. /\ TypeOK' /\ CountInv' /\ Idle'
      /\ \A c : NotSet(c)' = NotSet(c)
      /\ UNCHANGED <<osPc, idx, core_count, active_core_count>>
  BY <1>1, <1>3, SameVM DEF ProcTypeOK
<1>9. Len(Parts) \in Nat /\ Len(Parts) > 12
  BY FailuresDiffer
<1>10. ProcTypeOK'
  <2>1. gone' \in 0..Len(DestroyOrder')
    BY <1>1, <1>3, <1>8, GoneType, CoresAssumption DEF TypeOK
  <2>2. wild' \subseteq Objects \cup CoreBlocks
    BY <1>5, <1>6 DEF ProcTypeOK
  <2> QED
    BY <1>1, <1>3, <1>5, <1>8, <2>1, <2>2 DEF ProcTypeOK
<1>11. MainInv' /\ LeavesNothingElse' /\ DestroyInv'
  BY <1>1, <1>3, <1>8, <1>9
  DEF MainInv, LeavesNothingElse, DestroyInv, BeforeVM, Building
<1>12. CoresMade' /\ OutsideInv'
  BY <1>1, <1>3, <1>7, <1>8 DEF CoresMade, OutsideInv
<1>13. \A o \in Objects : heap'[o] = "junk" => heap[o] = "junk"
  BY <1>4, <1>5
<1>14. JunkInv'
  <2>1. \A o \in ReaderBlocks : heap'[o] # "junk"
    BY <1>5, <1>6
  <2> QED
    BY <1>1, <1>8, <1>13, <2>1, CoreObjects DEF JunkInv
<1>15. FreesWhatIsThere'
  <2>1. wild \subseteq FreedBlindly'
    BY <1>3, BlindGrows DEF FreesWhatIsThere
  <2>2. ASSUME NEW o \in S, h[o] \in {"freed", "junk"}
        PROVE  o \in FreedBlindly'
    <3>1. \A x \in Objects : heap[x] # "freed"
      BY <1>1 DEF DestroyInv, Building
    <3>2. CASE built = 1 /\ o \in ReaderBlocks
      <4>1. failed' = Part("file")
        BY <1>1, <1>3, <3>2
      <4> QED
        BY <3>2, <4>1 DEF FreedBlindly, Part
    <3>3. CASE o \in ReaderBlocks /\ built # 1
      <4>1. h = heap /\ heap[o] = "junk" /\ o \in Objects
        BY <1>3, <1>4, <1>6, <2>2, <3>1, <3>3
      <4>2. built = 2
        BY <1>3, <3>3, <4>1 DEF JunkInv
      <4> QED
        BY <3>3, <4>1, <4>2, BlindGrows DEF JunkInv
    <3>4. CASE o = Part("reader")
      <4>1. o \notin ReaderBlocks \cup ReaderKeeps /\ \A c \in CoreIds : o # Thread(c)
        BY <3>4 DEF ReaderBlocks, ReaderKeeps, Part, Thread
      <4>2. o \in Objects /\ heap[o] = "junk"
        BY <1>4, <1>6, <2>2, <3>1, <4>1
      <4> QED
        BY <1>3, <4>1, <4>2 DEF JunkInv, Idle
    <3> QED
      BY <3>2, <3>3, <3>4
  <2> QED
    BY <1>5, <2>1, <2>2 DEF FreesWhatIsThere
<1> QED
  BY <1>8, <1>10, <1>11, <1>12, <1>14, <1>15

\* A later part cannot be made.
LEMMA FailKeeps ==
    ASSUME ProcInv, PartFails \/ RegistersFail
    PROVE  ProcInv'
<1> USE DEF ProcInv
<1>1. /\ main = "init" /\ built < Len(Parts)
      /\ \/ failed' = NextPart /\ wild' = wild /\ main' = "destroy"
         \/ failed' = Part("registers") /\ wild' = wild \cup CoreBlocks
            /\ built < Len(Parts) - 2
      /\ main' \in {"destroy", "crashed"}
      /\ UNCHANGED <<vars, built, gone>>
      /\ built >= 3
  BY FailedPart DEF PartFails, RegistersFail, FailsInCore
<1>2. /\ built \in Nat /\ Idle /\ BeforeVM /\ failed = NoPart /\ gone = 0
      /\ NextPart \in {Parts[i] : i \in 1..Len(Parts)}
      /\ NextPart \notin {NoPart, Part("os_thread"), Part("registers")}
  BY <1>1, FailedPart
<1>3. /\ built \in Nat /\ Len(Parts) \in Nat /\ Len(Parts) > 12
      /\ failed' \notin {NoPart, Part("os_thread")}
  BY <1>1, <1>2, FailuresDiffer
<1>4. \A o \in Objects :
         \/ heap'[o] = heap[o]
         \/ o = Part("queue") /\ heap'[o] = "freed" /\ failed' = Part("hdlr_lock")
  BY <1>1 DEF PartFails, RegistersFail, ProcTypeOK
<1>5. heap' \in [Objects -> {"none", "live", "freed", "junk"}]
  BY DEF PartFails, RegistersFail, ProcTypeOK
<1>6. \A c \in CoreIds : heap'[Core(c)] = heap[Core(c)] /\ heap'[Thread(c)] = heap[Thread(c)]
  <2> TAKE c \in CoreIds
  <2>1. Core(c) # Part("queue") /\ Thread(c) # Part("queue")
    BY DEF Core, Thread, Part
  <2> QED
    BY <1>4, <2>1, CoreObjects
<1>7. /\ TypeOK' /\ CountInv' /\ Idle'
      /\ \A c : NotSet(c)' = NotSet(c)
      /\ UNCHANGED <<osPc, idx, core_count, active_core_count>>
  BY <1>1, <1>2, SameVM DEF ProcTypeOK
<1>8. ProcTypeOK'
  <2>1. gone' \in 0..Len(DestroyOrder')
    BY <1>1, <1>2, <1>7, GoneType, CoresAssumption DEF TypeOK
  <2>2. wild' \subseteq Objects \cup CoreBlocks
    BY <1>1 DEF ProcTypeOK
  <2> QED
    BY <1>1, <1>2, <1>5, <1>7, <2>1, <2>2 DEF ProcTypeOK
<1>9. MainInv' /\ LeavesNothingElse'
  <2>1. NextPart' = NextPart
    BY <1>1 DEF NextPart
  <2> QED
    BY <1>1, <1>2, <1>3, <1>7, <2>1
    DEF MainInv, LeavesNothingElse, BeforeVM, Building
<1>10. CoresMade' /\ OutsideInv'
  BY <1>1, <1>2, <1>6, <1>7 DEF CoresMade, OutsideInv
<1>11. JunkInv'
  <2>1. \A o \in Objects : heap'[o] = "junk" => heap[o] = "junk"
    BY <1>4
  <2> QED
    BY <1>1, <1>7, <2>1, CoreObjects, BlockObjects DEF JunkInv
<1>12. DestroyInv'
  BY <1>1, <1>2, <1>4 DEF DestroyInv, Building, Gone
<1>13. FreesWhatIsThere'
  BY <1>1, <1>2, BlindGrows DEF FreesWhatIsThere
<1> QED
  BY <1>7, <1>8, <1>9, <1>10, <1>11, <1>12, <1>13

\* The cores that are counted, while merry_os_destroy runs: those that NEWCORE
\* and the input file made, or those that were made before the failure.
LEMMA CountedIs ==
    ASSUME ProcInv
    PROVE  /\ osPc # "boot" => Counted = core_count
           /\ BeforeVM /\ built >= Len(Parts) - 1 => Counted = core_count
<1>1. ASSUME BeforeVM, built >= Len(Parts) - 1
      PROVE  Counted = core_count
  <2>1. built \in Nat /\ built >= BootCores + 11 /\ Idle /\ BootCores \in Nat
    BY <1>1, PartsAre, CoresAssumption DEF ProcInv, ProcTypeOK, MainInv
  <2>2. \A c \in CoreIds : heap[Core(c)] # "none" <=> c < BootCores /\ c + 7 <= built
    BY <1>1, <2>1 DEF ProcInv, CoresMade
  <2>3. {c \in CoreIds : heap[Core(c)] # "none"} = 0..(BootCores - 1)
    BY <2>1, <2>2, CoresAssumption DEF CoreIds
  <2>4. Cardinality(0..(BootCores - 1)) = BootCores
    BY FS_Interval, CoresAssumption
  <2> QED
    BY <2>1, <2>3, <2>4 DEF Counted, Idle
<1> QED
  BY <1>1 DEF Counted

\* What merry_os_destroy frees next is there, or not set at all, or it is freed
\* blindly.
LEMMA FreeingIs ==
    ASSUME ProcInv, main = "destroy", gone < Len(DestroyOrder), NEW o \in Freeing
    PROVE  o \in Objects /\ (heap[o] \in {"none", "live"} \/ o \in FreedBlindly)
<1> USE DEF ProcInv
<1>1. /\ Counted \in 0..MaxCores /\ Len(DestroyOrder) = Counted + 2 /\ gone \in Nat
      /\ gone + 1 \in 1..(Counted + 2) /\ DestroyOrder = OrderOf(Counted)
  BY GoneType, OrderIsOf DEF ProcTypeOK, TypeOK
<1>2. o \in DestroyOrder[gone + 1]
  BY DEF Freeing
<1>3. ~Gone(o)
  <2>1. \A j \in 1..gone : j \in 1..(Counted + 2) /\ j # gone + 1
    BY <1>1
  <2> QED
    BY <1>1, <1>2, <2>1, OrderParts DEF Gone
<1>4. o \in Objects /\ \A c \in CoreIds : o = Thread(c) => c < Counted
  BY <1>1, <1>2, CountedType, OrderObjects
<1>5. CASE heap[o] = "freed"
  <2>1. failed = Part("hdlr_lock") /\ o = Part("queue")
    BY <1>3, <1>4, <1>5 DEF DestroyInv
  <2> QED
    BY <1>4, <2>1 DEF FreedBlindly, Part
<1>6. CASE heap[o] = "junk"
  <2>1. /\ built \in Nat /\ Len(Parts) \in Nat /\ Len(Parts) > 12 /\ built <= Len(Parts)
        /\ BootCores \in Nat
    BY PartsAre, CoresAssumption DEF ProcTypeOK
  <2>2. osPc # "crashed" /\ built >= 3
    BY <2>1 DEF MainInv, BeforeVM, Idle
  <2>3. CASE o \in ReaderBlocks
    BY <1>4, <1>6, <2>1, <2>2, <2>3, BlindGrows DEF JunkInv
  <2>4. CASE o \in ReaderKeeps
    <3>1. \A n \in {"dmem", "imem", "lock", "cond", "cores", "threads", "reader",
                    "loader", "hdlr_lock", "queue", "EAT", "sections", "st_data"} :
             o # Part(n)
      BY <2>4 DEF ReaderKeeps, Part
    <3>2. \A c : o # Core(c) /\ o # Thread(c)
      BY <2>4 DEF ReaderKeeps, Part, Core, Thread
    <3>3. o \notin RestOf(Counted)
      BY <3>1, <3>2 DEF RestOf, AfterCores, ReaderBlocks
    <3> QED
      BY <1>1, <1>2, <3>1, <3>2, <3>3, OrderAt, CoresAssumption
  <2>5. CASE \E c \in CoreIds : o = Thread(c) /\ c < BootCores /\ NotSet(c)
    <3>1. PICK c \in CoreIds : o = Thread(c) /\ c < BootCores /\ NotSet(c)
      BY <2>5
    <3>2. c \in Nat /\ c < Counted /\ Counted \in Nat /\ c \in 0..(BootCores - 1)
      BY <1>1, <1>4, <2>1, <3>1, CoresAssumption DEF CoreIds
    <3>3. built >= Len(Parts) - 1
      BY <1>4, <1>6, <2>1, <3>1 DEF JunkInv
    <3>4. osPc # "done"
      BY <3>1, <3>2, CountedIs DEF NotSet
    <3>5. failed \in {Part("loader"), Part("os_thread")}
      <4>1. CASE built = Len(Parts)
        BY <3>4, <4>1 DEF MainInv
      <4>2. CASE built = Len(Parts) - 1
        <5>1. failed = NextPart /\ NextPart = Parts[Len(Parts)]
          BY <2>1, <4>2 DEF MainInv, NextPart
        <5> QED
          BY <5>1, PartsAre, CoresAssumption
      <4> QED
        BY <2>1, <3>3, <4>1, <4>2
    <3> QED
      BY <1>4, <3>1, <3>2, <3>5 DEF FreedBlindly, Part
  <2> QED
    BY <1>4, <1>6, <2>2, <2>3, <2>4, <2>5 DEF JunkInv
<1> QED
  BY <1>4, <1>5, <1>6 DEF ProcTypeOK

\* merry_os_destroy frees something more.
LEMMA DestroyKeeps ==
    ASSUME ProcInv, Destroy
    PROVE  ProcInv'
<1> USE DEF ProcInv
<1>1. /\ main = "destroy" /\ gone < Len(DestroyOrder) /\ gone' = gone + 1
      /\ main' \in {"destroy", "crashed"}
      /\ UNCHANGED <<vars, built, failed>>
      /\ Free(heap, Freeing)
  BY DEF Destroy, OrCrash
<1>2. \A o \in Objects :
         \/ heap'[o] = heap[o] /\ (o \notin Freeing \/ heap[o] = "none")
         \/ heap[o] # "none" /\ heap'[o] = "freed" /\ o \in Freeing
  BY <1>1 DEF Free
<1>3. heap' \in [Objects -> {"none", "live", "freed", "junk"}]
  BY <1>1 DEF Free, ProcTypeOK
<1>4. /\ TypeOK' /\ CountInv' /\ Idle' = Idle
      /\ \A c : NotSet(c)' = NotSet(c)
      /\ UNCHANGED <<osPc, idx, core_count, active_core_count>>
  BY <1>1, SameVM DEF ProcTypeOK
<1>5. \A c \in CoreIds : /\ heap'[Core(c)] # "none" <=> heap[Core(c)] # "none"
                         /\ heap'[Core(c)] = "live" => heap[Core(c)] = "live"
                         /\ heap'[Thread(c)] = "live" => heap[Thread(c)] = "live"
  BY <1>2, CoreObjects
<1>6. Counted' = Counted /\ DestroyOrder' = DestroyOrder
  <2>1. {c \in CoreIds : heap'[Core(c)] # "none"} = {c \in CoreIds : heap[Core(c)] # "none"}
    BY <1>5
  <2> QED
    BY <1>4, <2>1, OrderIsOf DEF Counted
<1>7. \A o \in Freeing : o \in Objects /\ (heap[o] \in {"none", "live"} \/ o \in FreedBlindly)
  BY <1>1, FreeingIs
<1>8. ProcTypeOK'
  <2>1. gone \in Nat /\ Len(DestroyOrder) \in Nat
    BY GoneType, CoresAssumption DEF ProcTypeOK, TypeOK
  <2>2. wild' \subseteq Objects \cup CoreBlocks
    BY <1>1, <1>7 DEF Free, ProcTypeOK
  <2> QED
    BY <1>1, <1>3, <1>4, <1>6, <2>1, <2>2 DEF ProcTypeOK
<1>9. FreesWhatIsThere'
  <2>1. wild' = wild \cup {o \in Freeing : heap[o] \in {"freed", "junk"}}
    BY <1>1 DEF Free
  <2>2. FreedBlindly' = FreedBlindly
    BY <1>1, BlindGrows
  <2> QED
    BY <1>7, <2>1, <2>2 DEF FreesWhatIsThere
<1>10. MainInv' /\ LeavesNothingElse' /\ CoresMade'
  <2>1. NextPart' = NextPart
    BY <1>1 DEF NextPart
  <2> QED
    BY <1>1, <1>4, <1>5, <2>1
    DEF MainInv, LeavesNothingElse, CoresMade, BeforeVM, Building
<1>11. JunkInv'
  <2>1. \A o \in Objects : heap'[o] = "junk" => heap[o] = "junk"
    BY <1>2
  <2> QED
    BY <1>1, <1>4, <2>1, CoreObjects, BlockObjects DEF JunkInv
<1>12. OutsideInv'
  BY <1>4, <1>5 DEF OutsideInv
<1>13. DestroyInv'
  <2> SUFFICES ASSUME main' = "destroy", NEW o \in Objects
               PROVE  /\ heap'[o] = "freed" =>
                            \/ Gone(o)'
                            \/ failed' = Part("hdlr_lock") /\ o = Part("queue")
                      /\ heap'[o] = "live" => ~Gone(o)'
    BY <1>1 DEF DestroyInv, Building
  <2>1. Gone(o)' <=> Gone(o) \/ o \in Freeing
    <3>1. gone \in Nat /\ 1..gone' = (1..gone) \cup {gone + 1}
      BY <1>1, GoneType, CoresAssumption DEF ProcTypeOK, TypeOK
    <3> QED
      BY <1>6, <3>1 DEF Gone, Freeing
  <2> QED
    BY <1>1, <1>2, <2>1 DEF DestroyInv
<1> QED
  BY <1>4, <1>8, <1>9, <1>10, <1>11, <1>12, <1>13

\* main returns, and nothing is left but what LeavesNothingElse names.
LEMMA ReturnKeeps ==
    ASSUME ProcInv, Return
    PROVE  ProcInv'
<1> USE DEF ProcInv
<1>1. /\ main = "destroy" /\ gone = Len(DestroyOrder) /\ main' = "exited"
      /\ UNCHANGED <<vars, built, failed, heap, gone, wild>>
  BY DEF Return
<1>2. /\ TypeOK' /\ CountInv' /\ OutsideInv' /\ Idle' = Idle
      /\ heap' \in [Objects -> {"none", "live", "freed", "junk"}]
      /\ gone' \in 0..Len(DestroyOrder')
      /\ \A c : NotSet(c)' = NotSet(c)
      /\ UNCHANGED <<osPc, idx, core_count, active_core_count, thread>>
  BY <1>1, SameHeap
<1>3. ProcTypeOK' /\ MainInv' /\ CoresMade' /\ DestroyInv'
  BY <1>1, <1>2 DEF ProcTypeOK, MainInv, CoresMade, DestroyInv, BeforeVM, Building
<1>4. JunkInv' /\ FreesWhatIsThere'
  BY <1>1, <1>2, BlindGrows DEF JunkInv, FreesWhatIsThere
<1>5. LeavesNothingElse'
  <2> SUFFICES ASSUME built = Len(Parts), NEW o \in Objects, heap[o] = "live"
               PROVE  \/ o \in ReaderKeeps
                      \/ active_core_count > core_count /\ o[1] \in {"core", "thread"}
                         /\ o[2] >= core_count
    BY <1>1, <1>2 DEF LeavesNothingElse
  <2>1. Counted = core_count
    <3>1. built >= Len(Parts) - 1
      BY FailuresDiffer
    <3> QED
      BY <1>1, <3>1, CountedIs DEF MainInv, BeforeVM
  <2>2. Counted \in Nat /\ gone = Counted + 2 /\ DestroyOrder = OrderOf(Counted)
    BY <1>1, GoneType, OrderIsOf, CoresAssumption DEF ProcTypeOK, TypeOK
  <2>3. ~Gone(o)
    BY <1>1 DEF DestroyInv
  <2>4. \/ o \in ReaderKeeps
        \/ \E c \in CoreIds : c >= Counted /\ o \in {Core(c), Thread(c)}
    BY <2>2, <2>3, OrderParts DEF Gone
  <2>5. ASSUME NEW c \in CoreIds, c >= Counted, o \in {Core(c), Thread(c)}
        PROVE  active_core_count > core_count /\ o[1] \in {"core", "thread"}
               /\ o[2] >= core_count
    <3>1. heap[Core(c)] = "live" \/ heap[Thread(c)] = "live"
      BY <2>5
    <3>2. active_core_count > core_count
      BY <2>1, <2>5, <3>1 DEF OutsideInv
    <3> QED
      BY <2>1, <2>5, <3>2, CoreObjects
  <2> QED
    BY <2>4, <2>5
<1> QED
  BY <1>2, <1>3, <1>4, <1>5

\* No step of main breaks it.
LEMMA MainKeeps == ProcInv /\ MainStep => ProcInv'
  BY MainOn, BuildKeeps, StartKeeps, FailKeeps, DestroyKeeps, ReturnKeeps DEF MainStep

\* A step of a core moves no counter, and wakes the OS at most.
LEMMA CoreMoves ==
    ASSUME NEW c \in CoreIds, CoreStep(c)
    PROVE  /\ UNCHANGED <<idx, core_count, active_core_count>>
           /\ osPc' = osPc \/ (osPc = "asleep" /\ osPc' = "loop")
           /\ thread[c] # "none"
  BY DEF CoreStep, CoreCheck, CoreWork, CorePost, PostRefused, PostOverflow,
     PostAccepted, CoreResume, CoreFault, CoreSpurious, SignalHost, HostWakes,
     osVars, osLocals

\* Once a core's thread is started, the OS runs or is done.
LEMMA StartedRuns ==
    ASSUME ProcInv, NEW c \in CoreIds, thread[c] # "none"
    PROVE  ~BeforeVM /\ (main = "destroy" => osPc = "done")
<1>1. ~BeforeVM
  BY DEF ProcInv, MainInv, Idle, Started
<1>2. built = Len(Parts)
  BY <1>1, FailuresDiffer DEF ProcInv, ProcTypeOK, BeforeVM
<1> QED
  BY <1>1, <1>2 DEF ProcInv, MainInv, BeforeVM

\* A core goes on, while the OS runs or main frees what is there.
LEMMA CoreRunKeeps ==
    ASSUME ProcInv, NEW c \in CoreIds, CoreRuns(CoreStep(c)), ~Over
    PROVE  ProcInv'
<1> USE DEF ProcInv
<1>1. /\ main \in {"join", "destroy"} /\ CoreStep(c)
      /\ UNCHANGED <<main, built, failed, heap, gone, wild>>
  BY DEF CoreRuns, mainVars
<1>2. /\ UNCHANGED <<idx, core_count, active_core_count>>
      /\ osPc' = osPc \/ (osPc = "asleep" /\ osPc' = "loop")
      /\ thread[c] # "none"
  BY <1>1, CoreMoves
<1>3. TypeOK' /\ CountInv'
  BY <1>1, CoreStepType DEF ProcTypeOK, TypeInv
<1>4. ~BeforeVM /\ (main = "destroy" => osPc = "done" /\ osPc' = "done")
  BY <1>1, <1>2, StartedRuns
<1>5. Counted' \in 0..MaxCores /\ Len(DestroyOrder') = Len(DestroyOrder)
  <2>1. Counted' = Counted
    BY <1>1, <1>2 DEF Counted
  <2> QED
    BY <1>3, <2>1, OrderIsOf, GoneType DEF TypeOK
<1>6. ProcTypeOK'
  BY <1>1, <1>3, <1>5 DEF ProcTypeOK
<1>7. MainInv' /\ CoresMade' /\ LeavesNothingElse' /\ OutsideInv' /\ FreesWhatIsThere'
  BY <1>1, <1>2, <1>4, BlindGrows
  DEF MainInv, CoresMade, LeavesNothingElse, OutsideInv, FreesWhatIsThere, BeforeVM,
      Building
<1>8. JunkInv'
  <2>1. \A d : NotSet(d)' = NotSet(d)
    BY <1>2 DEF NotSet
  <2> QED
    BY <1>1, <1>2, <1>4, <2>1 DEF JunkInv
<1>9. DestroyInv'
  <2>1. DestroyOrder' = DestroyOrder
    BY <1>1, <1>2, OrderIsOf DEF Counted
  <2> QED
    BY <1>1, <2>1 DEF DestroyInv, Building, Gone
<1> QED
  BY <1>3, <1>6, <1>7, <1>8, <1>9

\* A core that is past stop_running's memory ends the process or goes on.
LEMMA StraysKeepType ==
    ASSUME TypeInv, NEW c \in CoreIds, CoreStrays(c)
    PROVE  TypeInv'
<1>1. CASE UNCHANGED vars
  BY <1>1, StutterType
<1>2. CASE /\ \E place \in {"exec", "ended"} : thread' = [thread EXCEPT ![c] = place]
           /\ UNCHANGED <<hdlrVars, instr, stop_running, status, osVars>>
  <2>1. thread' \in [CoreIds -> ThreadPlaces]
    BY <1>2 DEF TypeInv, TypeOK, ThreadPlaces
  <2> QED
    BY <1>2, <2>1 DEF TypeInv, TypeOK, CountInv, hdlrVars, osVars, osLocals
<1> QED
  BY <1>1, <1>2 DEF CoreStrays

\* A core that uses what main has freed changes nothing that freeing relies on.
LEMMA StraysKeep ==
    ASSUME ProcInv, NEW c \in CoreIds, CoreStrays(c), ~Over
    PROVE  ProcInv'
<1> USE DEF ProcInv
<1>1. /\ main = "destroy" /\ main' \in {"crashed", "destroy"}
      /\ UNCHANGED <<built, failed, heap, gone, wild>>
      /\ UNCHANGED <<osPc, idx, core_count, active_core_count>>
      /\ thread[c] # "none"
  BY DEF CoreStrays, Needs, vars, osVars, osLocals
<1>2. TypeOK' /\ CountInv'
  BY StraysKeepType DEF ProcTypeOK, TypeInv
<1>3. ~BeforeVM /\ osPc = "done"
  BY <1>1, StartedRuns
<1>4. Counted' = Counted /\ DestroyOrder' = DestroyOrder
  BY <1>1, OrderIsOf DEF Counted
<1>5. ProcTypeOK'
  BY <1>1, <1>2, <1>4 DEF ProcTypeOK
<1>6. MainInv' /\ CoresMade' /\ LeavesNothingElse' /\ OutsideInv' /\ FreesWhatIsThere'
  BY <1>1, <1>3, BlindGrows
  DEF MainInv, CoresMade, LeavesNothingElse, OutsideInv, FreesWhatIsThere, BeforeVM,
      Building
<1>7. JunkInv'
  <2>1. \A d : NotSet(d)' = NotSet(d)
    BY <1>1 DEF NotSet
  <2> QED
    BY <1>1, <1>3, <2>1 DEF JunkInv
<1>8. DestroyInv'
  BY <1>1, <1>4 DEF DestroyInv, Building, Gone
<1> QED
  BY <1>2, <1>5, <1>6, <1>7, <1>8

\* The steps of the OS, by what they do to the counters.
LEMMA OSMoves ==
    ASSUME OSStep
    PROVE  \/ OSBoot \/ OSBootFails \/ OSHalt \/ OSNewCore
           \/ /\ UNCHANGED <<core_count, active_core_count>>
              /\ osPc # "boot" /\ osPc' # "boot"
  BY DEF OSStep, OSPop, OSSleep, OSSpurious, HostWakes, OSDispatch, OSHandleError,
     OSExit, OSService, OSNewCoreBlocks, OSNewCoreFails, Handled, OSStopCore, OSKill,
     OSSignal, osLocals, coreVars

\* The OS goes on, with the core and the thread it makes.
LEMMA OSRunKeeps ==
    ASSUME ProcInv, OSRuns(OSStep), ~Over
    PROVE  ProcInv'
<1> USE DEF ProcInv
<1>1. /\ main = "join" /\ OSStep /\ HeapFollows /\ osPc # "crashed"
      /\ main' \in {"join", "crashed"}
      /\ \/ failed' = failed /\ wild' = wild
         \/ failed' = Part("registers") /\ wild' = wild \cup CoreBlocks
      /\ UNCHANGED <<built, gone>>
  BY DEF OSRuns, Over, FailsInCore
<1>2. failed \in {NoPart, Part("registers")} /\ gone = 0 /\ built = Len(Parts)
      /\ ~Building
  BY <1>1 DEF MainInv, Building
<1>3. TypeOK' /\ CountInv'
  BY <1>1, StepType DEF ProcTypeOK, TypeInv, Next
<1>4. \/ BootTried = {} /\ heap' = heap
      \/ \E t \in {"none", "live"} :
            heap' = [o \in Objects |->
                       IF \E c \in BootTried : o = Thread(c)
                       THEN IF thread'[o[2]] # "none" THEN "live" ELSE t
                       ELSE IF \E c \in BootTried : o = Core(c) THEN "live"
                       ELSE heap[o]]
  BY <1>1 DEF HeapFollows
<1>5. \A o \in Objects :
         /\ heap'[o] \in {"none", "live", heap[o]}
         /\ \A c \in BootTried : o = Thread(c) => heap'[o] # "junk"
         /\ (\A c \in BootTried : o \notin {Core(c), Thread(c)}) => heap'[o] = heap[o]
  BY <1>4
<1>6. ProcTypeOK'
  <2>1. heap' \in [Objects -> {"none", "live", "freed", "junk"}]
    BY <1>4 DEF ProcTypeOK
  <2>2. gone' \in 0..Len(DestroyOrder')
    BY <1>1, <1>2, <1>3, GoneType, CoresAssumption DEF TypeOK
  <2> QED
    BY <1>1, <1>3, <2>1, <2>2 DEF ProcTypeOK
<1>7. MainInv' /\ CoresMade' /\ LeavesNothingElse' /\ FreesWhatIsThere'
  <2>1. MainInv' /\ CoresMade' /\ LeavesNothingElse'
    BY <1>1, <1>2, FailuresDiffer
    DEF MainInv, CoresMade, LeavesNothingElse, BeforeVM, Building
  <2>2. FreedBlindly \subseteq MissingTables \cup CoreBlocks
    BY <1>2 DEF FreedBlindly, MissingTables, NoPart, Part
  <2> QED
    BY <1>1, <2>1, <2>2, BlindGrows DEF FreesWhatIsThere
<1>8. DestroyInv'
  BY <1>1, <1>2, <1>5 DEF DestroyInv, Building
<1>9. /\ \A c \in CoreIds : c \in Nat
      /\ idx \in Nat /\ core_count \in Nat /\ active_core_count \in Nat
      /\ core_count' \in Nat /\ active_core_count' \in Nat
  BY <1>3, CoresAssumption DEF CoreIds, ProcTypeOK, TypeOK
<1> DEFINE Kept ==
             /\ \A c \in CoreIds :
                   NotSet(c) /\ c \notin BootTried /\ osPc' # "crashed" => NotSet(c)'
             /\ OutsideInv'
<1>10. ASSUME osPc = "boot", OSBoot \/ OSBootFails
       PROVE  Kept
  <2>1. active_core_count = idx /\ idx <= core_count
    BY <1>10 DEF CountInv
  <2>2. \A c \in CoreIds : c \in BootTried <=> c = idx /\ idx < core_count
    BY <1>10 DEF BootTried
  <2>3. ASSUME NEW c \in CoreIds, NotSet(c), c \notin BootTried, osPc' # "crashed"
        PROVE  NotSet(c)'
    BY <1>9, <1>10, <2>1, <2>2, <2>3 DEF NotSet, OSBoot, OSBootFails
  <2>4. ASSUME NEW c \in CoreIds, c >= core_count',
               heap'[Core(c)] = "live" \/ heap'[Thread(c)] = "live"
        PROVE  active_core_count' > core_count'
    <3>1. CASE core_count' = core_count
      <4>1. c \notin BootTried /\ active_core_count' >= active_core_count
        BY <1>9, <1>10, <2>2, <2>4, <3>1 DEF OSBoot, OSBootFails
      <4>2. heap'[Core(c)] = heap[Core(c)] /\ heap'[Thread(c)] = heap[Thread(c)]
        BY <1>5, <4>1, CoreObjects DEF BootTried
      <4> QED
        BY <1>9, <2>4, <3>1, <4>1, <4>2 DEF OutsideInv
    <3>2. CASE core_count' # core_count
      BY <1>9, <1>10, <2>1, <3>2 DEF OSBoot, OSBootFails
    <3> QED
      BY <3>1, <3>2
  <2> QED
    BY <2>3, <2>4 DEF OutsideInv
<1>11. ASSUME OSHalt \/ OSNewCore
       PROVE  Kept
  <2>1. /\ osPc = "dispatch" /\ osPc' = "signal" /\ active_core_count <= core_count
        /\ core_count' = core_count \/ core_count' = core_count + 1
    BY <1>9, <1>11 DEF OSHalt, OSNewCore, Handled, CountInv
  <2>2. \A c \in CoreIds : c \in BootTried <=> c = core_count /\ core_count' = core_count + 1
    BY <2>1 DEF BootTried
  <2>3. ASSUME NEW c \in CoreIds, NotSet(c), c \notin BootTried, osPc' # "crashed"
        PROVE  NotSet(c)'
    BY <1>9, <2>1, <2>2, <2>3 DEF NotSet
  <2>4. ASSUME NEW c \in CoreIds, c >= core_count',
               heap'[Core(c)] = "live" \/ heap'[Thread(c)] = "live"
        PROVE  FALSE
    <3>1. c \notin BootTried /\ c >= core_count
      BY <1>9, <2>1, <2>2, <2>4
    <3>2. heap'[Core(c)] = heap[Core(c)] /\ heap'[Thread(c)] = heap[Thread(c)]
      BY <1>5, <3>1, CoreObjects DEF BootTried
    <3> QED
      BY <1>9, <2>1, <2>4, <3>1, <3>2 DEF OutsideInv
  <2> QED
    BY <2>3, <2>4 DEF OutsideInv
<1>12. ASSUME UNCHANGED <<core_count, active_core_count>>,
              osPc # "boot", osPc' # "boot"
       PROVE  Kept
  <2>1. BootTried = {}
    BY <1>9, <1>12 DEF BootTried
  <2>2. \A o \in Objects : heap'[o] = heap[o]
    BY <1>5, <2>1
  <2> QED
    BY <1>12, <2>2, CoreObjects DEF NotSet, OutsideInv
<1>13. Kept
  <2>1. OSBoot \/ OSBootFails => osPc = "boot"
    BY DEF OSBoot, OSBootFails
  <2> QED
    BY <1>1, <1>10, <1>11, <1>12, <2>1, OSMoves
<1>14. JunkInv'
  <2>1. ASSUME osPc' # "crashed", NEW o \in Objects, heap'[o] = "junk"
        PROVE  \/ o \in ReaderBlocks \cup ReaderKeeps
               \/ \E c \in CoreIds : o = Thread(c) /\ c < BootCores /\ NotSet(c)'
    <3>1. heap[o] = "junk"
      BY <1>5, <2>1
    <3> SUFFICES ASSUME NEW c \in CoreIds, o = Thread(c), c < BootCores, NotSet(c)
                 PROVE  NotSet(c)'
      BY <1>1, <3>1 DEF JunkInv
    <3>2. c \notin BootTried
      BY <1>5, <2>1
    <3> QED
      BY <1>13, <2>1, <3>2
  <2>2. \A o \in Objects : heap'[o] = "junk" => heap[o] = "junk"
    BY <1>5
  <2>3. built' = Len(Parts) /\ ~(built' < Len(Parts) - 1) /\ built' # 0
    BY <1>1, <1>2, FailuresDiffer
  <2> QED
    BY <1>1, <1>2, <2>1, <2>2, <2>3, BlockObjects, FailuresDiffer DEF JunkInv
<1> QED
  BY <1>3, <1>6, <1>7, <1>8, <1>13, <1>14

\* The whole invariant is inductive.
LEMMA ProcKeeps == ProcInv /\ [ProcNext]_procVars => ProcInv'
<1>1. ASSUME ProcInv, UNCHANGED procVars
      PROVE  ProcInv'
  <2>1. UNCHANGED <<vars, main, built, failed, heap, gone, wild>>
    BY <1>1 DEF procVars, mainVars
  <2>2. /\ TypeOK' /\ CountInv' /\ OutsideInv' /\ Idle' = Idle
        /\ heap' \in [Objects -> {"none", "live", "freed", "junk"}]
        /\ gone' \in 0..Len(DestroyOrder')
        /\ \A o : Gone(o)' = Gone(o)
        /\ \A c : NotSet(c)' = NotSet(c)
        /\ UNCHANGED <<osPc, idx, core_count, active_core_count, thread>>
    BY <1>1, <2>1, SameHeap
  <2>3. ProcTypeOK' /\ MainInv' /\ CoresMade'
    BY <1>1, <2>1, <2>2
    DEF ProcInv, ProcTypeOK, MainInv, CoresMade, BeforeVM, Building, NextPart
  <2>4. JunkInv' /\ DestroyInv' /\ LeavesNothingElse'
    BY <1>1, <2>1, <2>2 DEF ProcInv, JunkInv, DestroyInv, LeavesNothingElse, Building
  <2>5. FreesWhatIsThere'
    BY <1>1, <2>1, BlindGrows DEF ProcInv, FreesWhatIsThere
  <2> QED
    BY <2>2, <2>3, <2>4, <2>5 DEF ProcInv
<1> QED
  BY <1>1, MainKeeps, OSRunKeeps, CoreRunKeeps, StraysKeep DEF ProcNext

\* It holds throughout.
LEMMA ProcAlways == ProcSpec => []ProcInv
  BY InitProc, ProcKeeps, PTL DEF ProcSpec

\* Every variable of main keeps its type, and merry_os_destroy is never further
\* than its last step, for every number of cores and whatever fails.
THEOREM ProcTypes == ProcSpec => []ProcTypeOK
<1>1. ProcInv => ProcTypeOK
  BY DEF ProcInv
<1> QED
  BY <1>1, ProcAlways, PTL

\* Whatever fails when the VM is built or a core is added, whatever the input file
\* has and however the VM stops, only what FreedBlindly names is freed twice or
\* without having been set.
THEOREM FreesOnce == ProcSpec => []FreesWhatIsThere
<1>1. ProcInv => FreesWhatIsThere
  BY DEF ProcInv
<1> QED
  BY <1>1, ProcAlways, PTL

\* When main returns from a VM that was built, what is left are the reader's tables
\* of pages, its file, and the cores that a failed boot took out of core_count.
THEOREM LeavesOnlyTables == ProcSpec => []LeavesNothingElse
<1>1. ProcInv => LeavesNothingElse
  BY DEF ProcInv
<1> QED
  BY <1>1, ProcAlways, PTL

-----------------------------------------------------------------------------
(* The cores that are late *)

\* What the VM's own proofs say, as long as main waits for the OS; and that, when
\* the OS is done, all cores have been told to stop.
LateInv ==
    /\ StartInv /\ DoneStopsAll
    /\ NoSpurious /\ (Building \/ main = "join") => Good

\* It holds when main begins.
LEMMA InitLate == ProcInit => LateInv
  BY InitStart, InitGood DEF ProcInit, LateInv, DoneStopsAll, Init

\* With wakeups that nobody asked for, StartInv says it all.
LEMMA SpuriousDone ==
    /\ ~NoSpurious /\ StartInv => DoneStopsAll
    /\ ~NoSpurious /\ StartInv' => DoneStopsAll'
  BY DEF NoSpurious, StartInv, ToldInOrder, DoneStopsAll, Untold

\* A step of the VM, or none, until main frees it.
LEMMA VMLate ==
    ASSUME FewCores, ProcInv, LateInv, [Next]_vars, Building \/ main = "join"
    PROVE  LateInv'
<1>1. StartInv'
  BY StepStart DEF ProcInv, ProcTypeOK, TypeInv, LateInv
<1>2. CASE NoSpurious
  <2>1. Good' /\ DoneStopsAll'
    BY <1>2, StepGood, StepDone DEF LateInv
  <2> QED
    BY <1>1, <2>1 DEF LateInv
<1>3. CASE ~NoSpurious
  BY <1>1, <1>3, SpuriousDone DEF LateInv
<1> QED
  BY <1>2, <1>3

\* While main frees it, what was said of the cores stays.
LEMMA FreeingLate ==
    ASSUME ProcInv, LateInv, StartInv', UNCHANGED <<osPc, core_count, active_core_count, stop>>,
           \A c \in CoreIds : /\ thread'[c] # "none" => thread[c] # "none"
                              /\ stop_running[c] => stop_running'[c],
           ~Building' /\ main' # "join"
    PROVE  LateInv'
  BY DEF LateInv, DoneStopsAll, Untold, LeftByBoot, Started

\* Every step of the process keeps it.
LEMMA LateKeeps ==
    ASSUME FewCores
    PROVE  ProcInv /\ LateInv /\ [ProcNext]_procVars => LateInv'
<1> SUFFICES ASSUME ProcInv, LateInv, [ProcNext]_procVars PROVE LateInv'
  OBVIOUS
<1>1. CASE UNCHANGED vars /\ UNCHANGED main
  <2>1. UNCHANGED <<osPc, core_count, active_core_count, stop, thread, stop_running>>
    BY <1>1 DEF vars, coreVars, osVars, osLocals
  <2>2. StartInv'
    BY <1>1, StepStart DEF ProcInv, ProcTypeOK, TypeInv, LateInv
  <2> QED
    BY <1>1, <2>1, <2>2, VMLate, FreeingLate DEF Building
<1>2. CASE MainStep
  <2>1. UNCHANGED vars
    BY <1>2 DEF MainStep, ParseOptions, BuildPart, StartFails, PartFails,
       RegistersFail, CreateOSThread, JoinOSThread, Destroy, Return
  <2>2. CASE Building \/ main = "join"
    BY <2>1, <2>2, VMLate
  <2>3. CASE ~Building /\ main # "join"
    <3>1. ~Building' /\ main' # "join"
      BY <1>2, <2>3 DEF MainStep, ParseOptions, BuildPart, StartFails, PartFails,
         RegistersFail, CreateOSThread, JoinOSThread, Destroy, OrCrash, Return, Building
    <3>2. UNCHANGED <<osPc, core_count, active_core_count, stop, thread, stop_running>>
      BY <2>1 DEF vars, coreVars, osVars, osLocals
    <3>3. StartInv'
      BY <2>1, StepStart DEF ProcInv, ProcTypeOK, TypeInv, LateInv
    <3> QED
      BY <3>1, <3>2, <3>3, FreeingLate
  <2> QED
    BY <2>2, <2>3
<1>3. CASE ~Over /\ OSRuns(OSStep)
  <2>1. main = "join" /\ Next
    BY <1>3 DEF OSRuns, Over, Next
  <2> QED
    BY <2>1, VMLate
<1>4. ASSUME NEW c \in CoreIds, ~Over, CoreRuns(CoreStep(c))
      PROVE  LateInv'
  <2>1. main \in {"join", "destroy"} /\ main' = main /\ Next
    BY <1>4 DEF CoreRuns, mainVars, Over, Next
  <2>2. CASE main = "join"
    BY <2>1, <2>2, VMLate
  <2>3. CASE main = "destroy"
    <3>1. osPc = "done"
      BY <1>4, <2>3, CoreMoves, StartedRuns DEF CoreRuns
    <3>2. StartInv'
      BY <2>1, StepStart DEF ProcInv, ProcTypeOK, TypeInv, LateInv
    <3>3. UNCHANGED <<osPc, core_count, active_core_count, stop>>
      BY <1>4, <3>1 DEF CoreRuns, CoreStep, CoreCheck, CoreWork, CorePost, PostRefused,
         PostOverflow, PostAccepted, CoreResume, CoreFault, CoreSpurious, SignalHost,
         HostWakes, osVars, osLocals
    <3>4. \A d \in CoreIds : /\ thread'[d] # "none" => thread[d] # "none"
                             /\ stop_running[d] => stop_running'[d]
      BY <1>4 DEF ProcInv, ProcTypeOK, TypeOK, CoreRuns, CoreStep, CoreCheck, CoreWork,
         CorePost, PostRefused, PostOverflow, PostAccepted, CoreResume, CoreFault,
         CoreSpurious, Returned
    <3> QED
      BY <2>1, <2>3, <3>2, <3>3, <3>4, FreeingLate DEF Building
  <2> QED
    BY <2>1, <2>2, <2>3
<1>5. ASSUME NEW c \in CoreIds, CoreStrays(c)
      PROVE  LateInv'
  <2>1. /\ main = "destroy" /\ main' \in {"destroy", "crashed"}
        /\ \/ UNCHANGED vars
           \/ /\ thread[c] = "check"
              /\ \E place \in {"exec", "ended"} : thread' = [thread EXCEPT ![c] = place]
              /\ UNCHANGED <<hdlrVars, instr, stop_running, status, osVars>>
    BY <1>5 DEF CoreStrays
  <2>2. /\ UNCHANGED <<queue, stop_running>>
        /\ UNCHANGED <<osPc, idx, core_count, active_core_count, stop, current_req>>
        /\ \A d \in CoreIds : thread'[d] # "none" <=> thread[d] # "none"
    BY <2>1 DEF vars, hdlrVars, coreVars, osVars, osLocals, ProcInv, ProcTypeOK, TypeOK
  <2>3. StartInv'
    BY <2>2 DEF LateInv, StartInv, StartedCounted, RequestsStarted, ToldInOrder,
       LeftByBoot, Started
  <2> QED
    BY <2>1, <2>2, <2>3, FreeingLate DEF Building
<1> QED
  BY <1>1, <1>2, <1>3, <1>4, <1>5 DEF ProcNext, procVars, mainVars

\* While main frees the VM, no core whose memory is still there begins an
\* instruction, but those that Untold names.
THEOREM LateCores ==
    ASSUME FewCores
    PROVE  ProcSpec => LateCoresStop
<1>1. ProcInit => ProcInv /\ LateInv
  BY InitProc, InitLate
<1>2. ProcInv /\ LateInv /\ [ProcNext]_procVars => ProcInv' /\ LateInv'
  BY ProcKeeps, LateKeeps
<1>3. ASSUME ProcInv, LateInv, ProcNext, NEW c \in CoreIds,
             main = "destroy", heap[Core(c)] = "live", thread[c] = "check"
      PROVE  thread'[c] # "exec" \/ Untold(c)
  <2>1. osPc = "done"
    BY <1>3, StartedRuns
  <2>2. stop_running[c] \/ Untold(c)
    BY <1>3, <2>1 DEF LateInv, DoneStopsAll, Started
  <2>3. CASE MainStep
    BY <1>3, <2>3 DEF MainStep, ParseOptions, BuildPart, StartFails, PartFails,
       RegistersFail, CreateOSThread, JoinOSThread, Destroy, Return, vars, coreVars
  <2>4. ASSUME NEW d \in CoreIds, CoreRuns(CoreStep(d)), stop_running[c]
        PROVE  thread'[c] # "exec"
    BY <1>3, <2>4 DEF ProcInv, ProcTypeOK, TypeOK, CoreRuns, CoreStep, CoreCheck,
       CoreWork, CorePost, PostRefused, PostOverflow, PostAccepted, CoreResume,
       CoreFault, CoreSpurious
  <2>5. ASSUME NEW d \in CoreIds, CoreStrays(d)
        PROVE  thread'[c] # "exec"
    <3>1. CASE UNCHANGED vars
      BY <1>3, <3>1 DEF vars, coreVars
    <3>2. CASE /\ heap[Core(d)] = "freed"
               /\ \E place \in {"exec", "ended"} : thread' = [thread EXCEPT ![d] = place]
      BY <1>3, <3>2 DEF ProcInv, ProcTypeOK, TypeOK
    <3> QED
      BY <2>5, <3>1, <3>2 DEF CoreStrays
  <2> QED
    BY <1>3, <2>2, <2>3, <2>4, <2>5 DEF ProcNext, OSRuns
<1> DEFINE Stops ==
             \A c \in CoreIds :
                main = "destroy" /\ heap[Core(c)] = "live" /\ thread[c] = "check" =>
                    thread'[c] # "exec" \/ Untold(c)
<1>4. ProcInv /\ LateInv /\ [ProcNext]_procVars => [Stops]_procVars
  BY <1>3
<1> QED
  BY <1>1, <1>2, <1>4, PTL DEF ProcSpec, LateCoresStop
=============================================================================
