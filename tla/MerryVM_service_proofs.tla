----------------------- MODULE MerryVM_service_proofs -----------------------
(***************************************************************************)
(* What a core can rely on, proved of MerryVM for every number of cores,   *)
(* queue length and program: requests are neither lost nor handled twice   *)
(* before the first panic, who is let go was answered or told to stop, an  *)
(* OS that is done has told every core, and the handler, the OS and the    *)
(* cores implement RequestService.                                         *)
(*                                                                         *)
(* Some of this is false of the code when pthread_cond_wait returns        *)
(* unasked, when posts go on past a full queue's emergency entry, or when  *)
(* the boot of a core fails: the three hypotheses below say when it cannot *)
(* be.                                                                     *)
(***************************************************************************)
EXTENDS MerryVM_proofs, FiniteSetTheorems

\* Condition variables wake nobody unasked.
NoSpurious == "SPURIOUS" \notin Faults

\* A full queue, the core whose post it refused and one that posts past the
\* emergency entry are all the cores there are: the entry is not overwritten.
FewCores == MaxCores <= QueueLen + 2

\* merry_os_start_vm leaves no running core out of core_count: no boot fails,
\* or the only one does, which is a crash.
NoBootGap == "BOOT" \notin Faults \/ BootCores = 1

-----------------------------------------------------------------------------
(* The queue's entries: the nodes from the head on *)

Entry(q, k) == q.nodes[FromHead(q, k)]

\* A push onto a queue whose tail closes its data adds an entry behind the others.
LEMMA PushWindow ==
    ASSUME NEW q \in QueueType, NEW r \in RequestType,
           q.data_count < QueueLen, q.tail = FromHead(q, q.data_count)
    PROVE  /\ Push(q, r).data_count = q.data_count + 1
           /\ Push(q, r).tail = FromHead(Push(q, r), q.data_count + 1)
           /\ \A k \in 0..(q.data_count - 1) : Entry(Push(q, r), k) = Entry(q, k)
           /\ Entry(Push(q, r), q.data_count) = r
<1> DEFINE p == Push(q, r)
<1>1. /\ q.ring = QueueLen + 1 /\ q.head \in 0..QueueLen
      /\ q.data_count \in Nat /\ q.nodes \in [0..QueueLen -> RequestType]
  BY DEF QueueType
<1>2. /\ p.ring = QueueLen + 1 /\ p.head = q.head
      /\ p.data_count = q.data_count + 1
      /\ p.tail = NextNode(q, q.tail)
      /\ p.nodes = [q.nodes EXCEPT ![q.tail] = r]
  BY DEF Push, QueueType
<1> HIDE DEF p
<1>3. \A k \in 0..QueueLen : FromHead(p, k) = FromHead(q, k)
  BY <1>1, <1>2 DEF FromHead
<1>4. p.tail = FromHead(p, q.data_count + 1)
  BY <1>1, <1>2, QueueLenAssumption DEF FromHead, NextNode
<1>5. \A k \in 0..(q.data_count - 1) : Entry(p, k) = Entry(q, k)
  <2> TAKE k \in 0..(q.data_count - 1)
  <2>1. FromHead(q, k) # q.tail /\ FromHead(q, k) \in 0..QueueLen
    <3>1. PICK h \in 0..QueueLen, n \in 0..QueueLen :
             h = q.head /\ n = q.data_count /\ k \in 0..(n - 1)
      BY <1>1, QueueLenAssumption
    <3>2. q.head = h /\ q.ring = QueueLen + 1 /\ q.tail = FromHead(q, n)
      BY <1>1, <3>1
    <3>3. FromHead(q, k) = IF h + k < QueueLen + 1 THEN h + k ELSE (h + k) - (QueueLen + 1)
      BY <3>2 DEF FromHead
    <3>4. q.tail = IF h + n < QueueLen + 1 THEN h + n ELSE (h + n) - (QueueLen + 1)
      BY <3>2 DEF FromHead
    <3> QED
      BY <3>1, <3>3, <3>4, QueueLenAssumption
  <2>2. FromHead(p, k) = FromHead(q, k)
    BY <1>1, <1>3, QueueLenAssumption
  <2> QED
    BY <1>1, <1>2, <2>1, <2>2 DEF Entry
<1>6. Entry(p, q.data_count) = r
  <2>1. FromHead(p, q.data_count) = q.tail /\ q.tail \in 0..QueueLen
    BY <1>1, <1>3, QueueLenAssumption DEF QueueType
  <2> QED
    BY <1>1, <1>2, <2>1 DEF Entry
<1> QED
  BY <1>2, <1>4, <1>5, <1>6 DEF p

\* A pop takes the first entry, and the others move up.
LEMMA PopWindow ==
    ASSUME NEW q \in QueueType,
           q.data_count \in 1..QueueLen, q.tail = FromHead(q, q.data_count)
    PROVE  /\ HeadValue(q) = Entry(q, 0)
           /\ Pop(q).data_count = q.data_count - 1
           /\ Pop(q).tail = FromHead(Pop(q), q.data_count - 1)
           /\ \A k \in 0..(q.data_count - 2) : Entry(Pop(q), k) = Entry(q, k + 1)
<1> DEFINE p == Pop(q)
<1>1. /\ q.ring = QueueLen + 1 /\ q.head \in 0..QueueLen
      /\ q.nodes \in [0..QueueLen -> RequestType]
  BY DEF QueueType
<1>2. /\ p.ring = QueueLen + 1 /\ p.head = NextNode(q, q.head)
      /\ p.data_count = q.data_count - 1
      /\ p.tail = q.tail
      /\ p.nodes = q.nodes
  BY DEF Pop, QueueType
<1> HIDE DEF p
<1>3. \A k \in 0..(QueueLen - 1) : FromHead(p, k) = FromHead(q, k + 1)
  <2> TAKE k \in 0..(QueueLen - 1)
  <2>1. PICK h \in 0..QueueLen : h = q.head
    BY <1>1
  <2>2. PICK g \in 0..QueueLen : g = p.head /\ g = IF h = QueueLen THEN 0 ELSE h + 1
    <3>1. p.head = IF h + 1 = QueueLen + 1 THEN 0 ELSE h + 1
      BY <1>1, <1>2, <2>1 DEF NextNode
    <3> QED
      BY <3>1, QueueLenAssumption
  <2>3. p.head = g /\ p.ring = QueueLen + 1 /\ q.head = h /\ q.ring = QueueLen + 1
    BY <1>1, <1>2, <2>1, <2>2
  <2>4. FromHead(p, k) = IF g + k < QueueLen + 1 THEN g + k ELSE (g + k) - (QueueLen + 1)
    BY <2>3 DEF FromHead
  <2>5. FromHead(q, k + 1) =
           IF h + (k + 1) < QueueLen + 1 THEN h + (k + 1) ELSE (h + (k + 1)) - (QueueLen + 1)
    BY <2>3 DEF FromHead
  <2> QED
    BY <2>2, <2>4, <2>5, QueueLenAssumption
<1>4. HeadValue(q) = Entry(q, 0)
  BY <1>1, QueueLenAssumption DEF HeadValue, Entry, FromHead
<1>5. p.tail = FromHead(p, q.data_count - 1)
  <2>1. q.data_count - 1 \in 0..(QueueLen - 1) /\ (q.data_count - 1) + 1 = q.data_count
    BY QueueLenAssumption
  <2> QED
    BY <1>2, <1>3, <2>1
<1>6. \A k \in 0..(q.data_count - 2) : Entry(p, k) = Entry(q, k + 1)
  <2> TAKE k \in 0..(q.data_count - 2)
  <2>1. k \in 0..(QueueLen - 1)
    BY QueueLenAssumption
  <2> QED
    BY <1>2, <1>3, <2>1 DEF Entry
<1> QED
  BY <1>2, <1>4, <1>5, <1>6 DEF p

\* What is pushed is the only node that changes.
LEMMA PushNodes ==
    ASSUME NEW q \in QueueType, NEW r \in RequestType, NEW s \in 0..QueueLen
    PROVE  /\ Push(q, r).nodes[s] \in {q.nodes[s], r}
           /\ PanicPush(q, r).nodes[s] \in {q.nodes[s], r}
  BY DEF Push, PanicPush, QueueType

-----------------------------------------------------------------------------
(* Which cores were started, and which were told to stop *)

\* The cores that were started are the first core_count ones, but for the core
\* that a failed boot leaves out; while the VM boots, those before idx.
StartedCounted ==
    /\ \A c \in Started : c < core_count \/ LeftByBoot(c)
    /\ osPc = "boot" => \A c \in Started : c < idx

\* Whoever stands in a request, in the queue or out of it, was started.
RequestsStarted ==
    /\ \A s \in 0..QueueLen :
          queue.nodes[s].core \in CoreIds => queue.nodes[s].core \in Started
    /\ current_req.core \in CoreIds => current_req.core \in Started

\* prepare_for_exit goes through the cores in order; when the OS has been told
\* to stop, so have all cores.
ToldInOrder ==
    /\ osPc = "stopcores" => \A c \in CoreIds : c < idx => stop_running[c]
    /\ stop => \A c \in Started : stop_running[c] \/ LeftByBoot(c)

StartInv == StartedCounted /\ RequestsStarted /\ ToldInOrder

\* Before the OS runs no core is started, and none is told to stop.
LEMMA InitStart == Init => StartInv
  BY NULLAssumption, QueueLenAssumption
  DEF Init, NewQueue, Uninit, Request, StartInv, StartedCounted,
      RequestsStarted, ToldInOrder, Started

\* A step of a core.
LEMMA CoreStepStart ==
    ASSUME TypeInv, StartInv, NEW c \in CoreIds, CoreStep(c)
    PROVE  StartInv'
<1> USE DEF TypeInv, TypeOK
<1>1. Started' = Started
  BY DEF CoreStep, CoreCheck, CoreWork, CorePost, PostRefused, PostOverflow,
     PostAccepted, CoreResume, CoreFault, CoreSpurious, Started
<1>2. \A d \in CoreIds : stop_running[d] => stop_running'[d]
  BY DEF CoreStep, CoreCheck, CoreWork, CorePost, PostRefused, PostOverflow,
     PostAccepted, CoreResume, CoreFault, CoreSpurious, Returned
<1>3. UNCHANGED osLocals /\ (osPc' = osPc \/ osPc' = "loop")
  BY DEF CoreStep, CoreCheck, CoreWork, CorePost, PostRefused, PostOverflow,
     PostAccepted, CoreResume, CoreFault, CoreSpurious, SignalHost, HostWakes,
     osVars
<1>4. \A s \in 0..QueueLen :
         \/ queue'.nodes[s] = queue.nodes[s]
         \/ queue'.nodes[s].core \in {c, NULL}
  <2> TAKE s \in 0..QueueLen
  <2>1. CASE queue' = queue
    BY <2>1
  <2>2. CASE \E e \in Errors : queue' = PanicPush(queue, PanicRequest(e))
    <3>1. PICK e \in Errors : queue' = PanicPush(queue, PanicRequest(e))
      BY <2>2
    <3>2. PanicRequest(e) \in RequestType /\ PanicRequest(e).core = NULL
      BY DEF RequestType, PanicRequest, Request
    <3> QED
      BY <3>1, <3>2, PushNodes
  <2>3. CASE \E i \in Posting : queue' =
                Push(queue, Request(IF i = "OP_HALT" THEN "REQHALT" ELSE i, c))
    <3>1. PICK i \in Posting : queue' =
                Push(queue, Request(IF i = "OP_HALT" THEN "REQHALT" ELSE i, c))
      BY <2>3
    <3> DEFINE r == Request(IF i = "OP_HALT" THEN "REQHALT" ELSE i, c)
    <3>2. r \in RequestType /\ r.core = c
      BY DEF RequestType, Request, Posting, Interrupts
    <3> HIDE DEF r
    <3>3. queue' = Push(queue, r)
      BY <3>1 DEF r
    <3> QED
      BY <3>2, <3>3, PushNodes
  <2> QED
    BY <2>1, <2>2, <2>3
    DEF CoreStep, CoreCheck, CoreWork, CorePost, PostRefused, PostOverflow,
        PostAccepted, CoreResume, CoreFault, CoreSpurious, RaisePanic, hdlrVars,
        Errors
<1>5. c \in Started
  BY DEF CoreStep, CoreCheck, CoreWork, CorePost, CoreResume, CoreFault,
     CoreSpurious, Started
<1>6. StartedCounted'
  BY <1>1, <1>3 DEF StartInv, StartedCounted, LeftByBoot, osLocals
<1>7. RequestsStarted'
  BY <1>1, <1>3, <1>4, <1>5, NULLAssumption
  DEF StartInv, RequestsStarted, osLocals
<1>8. ToldInOrder'
  BY <1>1, <1>2, <1>3 DEF StartInv, ToldInOrder, LeftByBoot, osLocals, Started
<1> QED
  BY <1>6, <1>7, <1>8 DEF StartInv

\* A step of the OS that handles no request.
LEMMA OSStepStart ==
    ASSUME TypeInv, StartInv, OSStep, ~OSDispatch
    PROVE  StartInv'
<1> USE CoresAssumption, NULLAssumption
    DEF TypeInv, TypeOK, StartInv, StartedCounted, RequestsStarted, ToldInOrder,
        LeftByBoot, Started, CoreIds
<1>1. CASE OSBoot
  <2>1. active_core_count = idx /\ idx <= core_count /\ ~stop
    BY <1>1 DEF OSBoot, CountInv
  <2>2. CASE idx < core_count
    <3>1. Started' = Started \cup {idx}
      BY <1>1, <2>2 DEF OSBoot
    <3>2. StartedCounted' /\ ToldInOrder'
      BY <1>1, <2>1, <2>2, <3>1 DEF OSBoot
    <3>3. UNCHANGED <<queue, current_req>>
      BY <1>1 DEF OSBoot, hdlrVars
    <3>4. RequestsStarted'
      BY <3>1, <3>3
    <3> QED
      BY <3>2, <3>4
  <2>3. CASE ~(idx < core_count)
    BY <1>1, <2>1, <2>3 DEF OSBoot, hdlrVars
  <2> QED
    BY <2>2, <2>3
<1>2. CASE OSBootFails
  <2>1. active_core_count = idx /\ ~stop
    BY <1>2 DEF OSBootFails, CountInv
  <2>2. \A c \in Started : c < idx
    BY <1>2 DEF OSBootFails
  <2> QED
    BY <1>2, <2>1, <2>2 DEF OSBootFails, hdlrVars, coreVars
<1>3. CASE OSPop
  <2>1. queue'.nodes = queue.nodes
    BY <1>3 DEF OSPop, Pop, QueueType
  <2>2. current_req' \in {current_req, queue.nodes[queue.head]}
        /\ queue.head \in 0..QueueLen
    BY <1>3 DEF OSPop, HeadValue, QueueType
  <2> QED
    BY <1>3, <2>1, <2>2 DEF OSPop, coreVars
<1>4. CASE OSSleep \/ OSSpurious
  BY <1>4 DEF OSSleep, OSSpurious, HostWakes, hdlrVars, coreVars, osLocals
<1>5. CASE OSStopCore
  BY <1>5 DEF OSStopCore, hdlrVars
<1>6. CASE OSKill
  <2>1. queue'.nodes = queue.nodes
    BY <1>6 DEF OSKill, QueueType
  <2>2. Started' = Started
    BY <1>6 DEF OSKill
  <2>3. \A c \in Started : stop_running[c] \/ LeftByBoot(c)
    BY <1>6 DEF OSKill
  <2> QED
    BY <1>6, <2>1, <2>2, <2>3 DEF OSKill
<1>7. CASE OSSignal
  <2>1. Started' = Started
    BY <1>7 DEF OSSignal, Signalled
  <2> QED
    BY <1>7, <2>1 DEF OSSignal, hdlrVars, Uninit, Request
<1> QED
  BY <1>1, <1>2, <1>3, <1>4, <1>5, <1>6, <1>7 DEF OSStep

\* The handling of a request.
LEMMA OSDispatchStart ==
    ASSUME TypeInv, StartInv, OSDispatch
    PROVE  StartInv'
<1> USE CoresAssumption, NULLAssumption
    DEF TypeInv, TypeOK, StartInv, StartedCounted, RequestsStarted, ToldInOrder,
        LeftByBoot, Started, CoreIds
<1> DEFINE c == current_req.core
<1>1. osPc = "dispatch" /\ ~stop /\ active_core_count \in 1..core_count
  BY DEF OSDispatch, OSHandleError, OSHalt, OSExit, OSService,
     OSNewCoreBlocks, OSNewCoreFails, OSNewCore, CountInv
<1>2. \A d \in Started : d < core_count
  BY <1>1
<1>3. CASE OSHandleError
  BY <1>3 DEF OSHandleError, hdlrVars, coreVars
<1>4. CASE OSHalt
  <2>1. c \in Started
    BY <1>4, RequestCore DEF OSHalt, Interrupts
  <2>2. Started' = Started /\ \A d \in Started : stop_running[d] => stop_running'[d]
    BY <1>4, <2>1 DEF OSHalt
  <2>3. stop' => \A d \in Started : stop_running'[d]
    <3>1. stop' => core_count = 1
      BY <1>1, <1>4 DEF OSHalt
    <3>2. core_count = 1 => \A d \in Started : d = 0
      BY <1>2
    <3>3. stop' => \A d \in Started : d = c
      BY <2>1, <3>1, <3>2
    <3> QED
      BY <1>4, <2>1, <3>3 DEF OSHalt
  <2> QED
    BY <1>1, <1>2, <1>4, <2>1, <2>2, <2>3 DEF OSHalt, Handled, hdlrVars
<1>5. CASE OSExit
  BY <1>5 DEF OSExit, hdlrVars
<1>6. CASE OSService
  <2>1. \A s \in 0..QueueLen :
           \/ queue'.nodes[s] = queue.nodes[s]
           \/ queue'.nodes[s].core = NULL
    <3>1. CASE queue' = queue
      BY <3>1
    <3>2. CASE queue' = PanicPush(queue, PanicRequest("ERROR"))
      <4>1. PanicRequest("ERROR") \in RequestType /\ PanicRequest("ERROR").core = NULL
        BY DEF RequestType, PanicRequest, Request, Errors
      <4> QED
        BY <3>2, <4>1, PushNodes
    <3> QED
      BY <1>6, <3>1, <3>2 DEF OSService, RaisePanic, hdlrVars
  <2> QED
    BY <1>1, <1>6, <2>1 DEF OSService, Handled, osLocals
<1>7. CASE OSNewCoreBlocks \/ OSNewCoreFails
  BY <1>1, <1>7 DEF OSNewCoreBlocks, OSNewCoreFails, Handled, hdlrVars,
     coreVars, osLocals
<1>8. CASE OSNewCore
  <2>1. Started' \subseteq Started \cup {core_count} /\ Started \subseteq Started'
    BY <1>8 DEF OSNewCore
  <2>2. \A d \in Started' : d < core_count'
    BY <1>2, <1>8, <2>1 DEF OSNewCore
  <2> QED
    BY <1>1, <1>8, <2>1, <2>2 DEF OSNewCore, Handled, hdlrVars
<1> QED
  BY <1>3, <1>4, <1>5, <1>6, <1>7, <1>8 DEF OSDispatch

\* Every step keeps what the cores' starts and the counters have in common.
LEMMA StepStart == TypeInv /\ StartInv /\ [Next]_vars => StartInv'
<1>1. ASSUME TypeInv, StartInv, UNCHANGED vars PROVE StartInv'
  BY <1>1 DEF vars, hdlrVars, coreVars, osVars, osLocals, StartInv,
     StartedCounted, RequestsStarted, ToldInOrder, LeftByBoot, Started
<1> QED
  BY <1>1, CoreStepStart, OSStepStart, OSDispatchStart DEF Next

-----------------------------------------------------------------------------
(* The invariant *)

\* The OS holds a request: the core that posted it waits, unanswered until the
\* OS has handled it and answered from then on.  After prepare_for_exit,
\* which lets waiting cores go, it has been told to stop.
HeldWaits ==
    /\ osPc = "boot" => current_req = Uninit
    /\ \A c \in CoreIds : current_req.core = c =>
          /\ osPc \in {"dispatch", "stopcores", "blocked"} => thread[c] = "wait"
          /\ osPc \in {"dispatch", "blocked"} => status[c] = "pending"
          /\ osPc = "signal" =>
                \/ thread[c] = "wait" /\ status[c] # "pending"
                \/ stop /\ (stop_running[c] \/ LeftByBoot(c))

\* A core without an answer that does not wait was told to stop, and is at most
\* at the head of its loop.
UnansweredTold ==
    \A c \in CoreIds :
        /\ thread[c] = "none" => status[c] # "pending"
        /\ status[c] = "pending" =>
              /\ thread[c] \in {"resume", "check"} => stop_running[c] \/ LeftByBoot(c)
              /\ thread[c] = "exec" => LeftByBoot(c)

\* The core whose post overflowed the queue is on its way out.
RefusedStops ==
    handle_more =>
        \A c \in CoreIds :
            status[c] = "refused" => stop_running[c] /\ thread[c] \in {"check", "ended"}

\* Before the first panic the entries are those of the cores that wait, one for
\* each, but for the one the OS holds.
Indexes == 0..(queue.data_count - 1)

EntriesWait ==
    \A k \in Indexes : \E c \in CoreIds :
        /\ Entry(queue, k).core = c
        /\ thread[c] = "wait" /\ status[c] = "pending" /\ ~Held(c)

EntriesDiffer ==
    \A j, k \in Indexes : Entry(queue, j).core = Entry(queue, k).core => j = k

WaitersHaveEntries ==
    \A c \in CoreIds :
        thread[c] = "wait" /\ ~Held(c) => \E k \in Indexes : Entry(queue, k).core = c

QuietQueue ==
    Quiet =>
        /\ queue.data_count <= QueueLen
        /\ queue.tail = FromHead(queue, queue.data_count)
        /\ EntriesWait /\ EntriesDiffer /\ WaitersHaveEntries

\* Until the OS stops the VM, a core that runs, or waits for its answer, has not
\* been told to stop.
PostersRun ==
    ~Stopping =>
        \A c \in CoreIds :
            thread[c] = "exec" \/ (thread[c] = "wait" /\ status[c] = "pending")
                => ~stop_running[c]

\* From a panic or an overflow on, the emergency entry is at the head, and the
\* one push that can follow an overflow goes to another node.
Emergency == ~handle_more \/ \E c \in CoreIds : status[c] = "refused"

EmergencyAtHead ==
    ~Stopping /\ Emergency =>
        /\ ~IsEmpty(queue)
        /\ \E e \in Errors : HeadValue(queue) = PanicRequest(e)
        /\ handle_more =>
              /\ queue.data_count > QueueLen
              /\ queue.data_count = QueueLen + 1 => queue.tail # queue.head

\* Each entry stands for a core that waits or was refused: this is what bounds
\* the pushes past an emergency entry.
Stuck ==
    {c \in CoreIds :
        \/ thread[c] = "wait" /\ status[c] = "pending" /\ ~Held(c)
        \/ status[c] = "refused"}

StuckCounted ==
    ~Stopping /\ handle_more => queue.data_count <= Cardinality(Stuck)

\* The cores that have not been told to stop are among the active ones.
NotTold == {c \in Started : ~stop_running[c]}

ActiveCounted ==
    ~Stopping => Cardinality(NotTold) <= active_core_count

DutyInv ==
    /\ HeldWaits /\ UnansweredTold /\ RefusedStops /\ QuietQueue
    /\ PostersRun /\ EmergencyAtHead /\ StuckCounted /\ ActiveCounted

\* All that the proofs below assume of a state.
Good == TypeInv /\ StartInv /\ DutyInv

-----------------------------------------------------------------------------
(* The steps of a core *)

\* What a core's step leaves alone: the other cores, and the OS, which it can at
\* most wake.
LEMMA CoreFrame ==
    ASSUME TypeInv, NoSpurious, NEW c \in CoreIds, CoreStep(c)
    PROVE  /\ thread[c] \in {"check", "exec", "resume"}
           /\ \A d \in CoreIds \ {c} :
                 /\ thread'[d] = thread[d] /\ status'[d] = status[d]
                 /\ stop_running'[d] = stop_running[d]
           /\ thread'[c] # "none"
           /\ stop_running[c] => stop_running'[c]
           /\ UNCHANGED <<current_req, idx, core_count, active_core_count, stop, ret>>
           /\ osPc' = osPc \/ (osPc = "asleep" /\ osPc' = "loop")
           /\ Stopping' <=> Stopping
           /\ \A d \in CoreIds : Held(d)' <=> Held(d)
           /\ \A d \in CoreIds : LeftByBoot(d)' <=> LeftByBoot(d)
<1> USE DEF TypeInv, TypeOK
<1>1. thread[c] \in {"check", "exec", "resume"} /\ thread'[c] # "none"
  BY DEF NoSpurious, CoreStep, CoreCheck, CoreWork, CorePost, PostRefused,
     PostOverflow, PostAccepted, CoreResume, CoreFault, CoreSpurious
<1>2. \A d \in CoreIds \ {c} : thread'[d] = thread[d] /\ status'[d] = status[d]
  BY DEF NoSpurious, CoreStep, CoreCheck, CoreWork, CorePost, PostRefused,
     PostOverflow, PostAccepted, CoreResume, CoreFault, CoreSpurious
<1>3. /\ \A d \in CoreIds \ {c} : stop_running'[d] = stop_running[d]
      /\ stop_running[c] => stop_running'[c]
  BY DEF NoSpurious, CoreStep, CoreCheck, CoreWork, CorePost, PostRefused,
     PostOverflow, PostAccepted, CoreResume, CoreFault, CoreSpurious, Returned
<1>4. /\ UNCHANGED <<current_req, idx, core_count, active_core_count, stop, ret>>
      /\ osPc' = osPc \/ (osPc = "asleep" /\ osPc' = "loop")
  BY DEF NoSpurious, CoreStep, CoreCheck, CoreWork, CorePost, PostRefused,
     PostOverflow, PostAccepted, CoreResume, CoreFault, CoreSpurious, SignalHost,
     HostWakes, osVars, osLocals
<1>5. Stopping' <=> Stopping
  BY <1>4 DEF Stopping
<1>6. /\ \A d \in CoreIds : Held(d)' <=> Held(d)
      /\ \A d \in CoreIds : LeftByBoot(d)' <=> LeftByBoot(d)
  BY <1>4 DEF Held, LeftByBoot
<1> QED
  BY <1>1, <1>2, <1>3, <1>4, <1>5, <1>6

\* The statements about single cores.
LEMMA CoreStepCores ==
    ASSUME Good, NoSpurious, NEW c \in CoreIds, CoreStep(c)
    PROVE  HeldWaits' /\ UnansweredTold' /\ RefusedStops' /\ PostersRun'
<1> USE DEF Good, TypeInv, TypeOK, DutyInv
<1>0. /\ thread[c] \in {"check", "exec", "resume"}
      /\ \A d \in CoreIds \ {c} :
            /\ thread'[d] = thread[d] /\ status'[d] = status[d]
            /\ stop_running'[d] = stop_running[d]
      /\ thread'[c] # "none"
      /\ stop_running[c] => stop_running'[c]
      /\ UNCHANGED <<current_req, idx, core_count, active_core_count, stop, ret>>
      /\ osPc' = osPc \/ (osPc = "asleep" /\ osPc' = "loop")
      /\ Stopping' <=> Stopping
      /\ \A d \in CoreIds : LeftByBoot(d)' <=> LeftByBoot(d)
  BY CoreFrame
<1>1. HeldWaits'
  BY <1>0 DEF HeldWaits
<1>2. UnansweredTold'
  <2> SUFFICES ASSUME status'[c] = "pending"
               PROVE  /\ thread'[c] \in {"resume", "check"}
                            => stop_running'[c] \/ LeftByBoot(c)'
                      /\ thread'[c] = "exec" => LeftByBoot(c)'
    BY <1>0 DEF UnansweredTold
  <2>1. CASE status[c] = "pending"
    BY <1>0, <2>1 DEF UnansweredTold, NoSpurious, CoreStep, CoreCheck, CoreWork,
       CorePost, PostRefused, PostOverflow, PostAccepted, CoreResume, CoreFault,
       CoreSpurious
  <2>2. CASE status[c] # "pending"
    BY <1>0, <2>2 DEF NoSpurious, CoreStep, CoreCheck, CoreWork, CorePost,
       PostRefused, PostOverflow, PostAccepted, CoreResume, CoreFault,
       CoreSpurious
  <2> QED
    BY <2>1, <2>2
<1>3. RefusedStops'
  <2> SUFFICES ASSUME handle_more', status'[c] = "refused"
               PROVE  stop_running'[c] /\ thread'[c] \in {"check", "ended"}
    <3>1. handle_more' => handle_more
      BY DEF NoSpurious, CoreStep, CoreCheck, CoreWork, CorePost, PostRefused,
         PostOverflow, PostAccepted, CoreResume, CoreFault, CoreSpurious,
         RaisePanic, hdlrVars
    <3> QED
      BY <1>0, <3>1 DEF RefusedStops
  <2>1. CASE CorePost(c)
    BY <2>1 DEF CorePost, PostRefused, PostOverflow, PostAccepted, Returned,
       hdlrVars
  <2>2. CASE CoreFault(c)
    BY <2>2 DEF CoreFault, RaisePanic, hdlrVars
  <2>3. CASE CoreCheck(c) \/ CoreWork(c) \/ CoreResume(c) \/ CoreSpurious(c)
    BY <1>0, <2>3 DEF RefusedStops, CoreCheck, CoreWork, CoreResume,
       CoreSpurious, hdlrVars, NoSpurious, Returned
  <2> QED
    BY <2>1, <2>2, <2>3 DEF CoreStep
<1>4. PostersRun'
  <2> SUFFICES ASSUME ~Stopping,
                      thread'[c] = "exec" \/ (thread'[c] = "wait" /\ status'[c] = "pending")
               PROVE  ~stop_running'[c]
    BY <1>0 DEF PostersRun
  <2> QED
    BY <1>0 DEF PostersRun, NoSpurious, CoreStep, CoreCheck, CoreWork, CorePost,
       PostRefused, PostOverflow, PostAccepted, CoreResume, CoreFault,
       CoreSpurious
<1> QED
  BY <1>1, <1>2, <1>3, <1>4

\* The cores are MaxCores many, and what is counted below are some of them.
LEMMA CoresFinite ==
    /\ IsFiniteSet(CoreIds) /\ Cardinality(CoreIds) = MaxCores
    /\ \A S \in SUBSET CoreIds :
          IsFiniteSet(S) /\ Cardinality(S) \in Nat /\ Cardinality(S) <= MaxCores
<1>1. IsFiniteSet(CoreIds) /\ Cardinality(CoreIds) = MaxCores
  BY CoresAssumption, FS_Interval DEF CoreIds
<1>2. \A S \in SUBSET CoreIds :
         IsFiniteSet(S) /\ Cardinality(S) \in Nat /\ Cardinality(S) <= MaxCores
  BY <1>1, FS_Subset, FS_CardinalityType
<1> QED
  BY <1>1, <1>2

\* One core more, or less, changes a count by at most one.
LEMMA CountByOne ==
    ASSUME NEW S \in SUBSET CoreIds, NEW x
    PROVE  /\ IsFiniteSet(S \ {x}) /\ IsFiniteSet(S \cup {x})
           /\ Cardinality(S \ {x}) \in Nat /\ Cardinality(S \cup {x}) \in Nat
           /\ Cardinality(S) <= Cardinality(S \ {x}) + 1
           /\ Cardinality(S \cup {x}) <= Cardinality(S) + 1
<1>1. IsFiniteSet(S) /\ Cardinality(S) \in Nat
  BY CoresFinite
<1>2. /\ IsFiniteSet(S \ {x})
      /\ Cardinality(S \ {x}) = IF x \in S THEN Cardinality(S) - 1 ELSE Cardinality(S)
  BY <1>1, FS_RemoveElement
<1>3. /\ IsFiniteSet(S \cup {x})
      /\ Cardinality(S \cup {x}) = IF x \in S THEN Cardinality(S) ELSE Cardinality(S) + 1
  BY <1>1, FS_AddElement
<1>4. Cardinality(S \ {x}) \in Nat /\ Cardinality(S \cup {x}) \in Nat
  BY <1>2, <1>3, FS_CardinalityType
<1> QED
  BY <1>1, <1>2, <1>3, <1>4

\* A post is the only step of a core that adds an entry or a refused core; the
\* others leave the queue and each core's standing in it as they were, or close
\* the handler.
LEMMA CoreQueueFrame ==
    ASSUME Good, NoSpurious, NEW c \in CoreIds, CoreStep(c)
    PROVE  \/ /\ thread[c] = "exec"
              /\ \E i \in Posting : PostOverflow(c, i) \/ PostAccepted(c, i)
           \/ /\ UNCHANGED hdlrVars
              /\ thread'[c] # "wait"
              /\ handle_more => UNCHANGED status
              /\ \A d \in CoreIds : status'[d] = status[d] \/ status'[d] = "refused"
           \/ /\ handle_more /\ RaisePanic("ERROR")
              /\ thread'[c] # "wait" /\ UNCHANGED status
<1> USE DEF Good, TypeInv, TypeOK
<1>1. CASE CorePost(c)
  <2>1. PICK i \in Instructions \cap Posting :
           PostRefused(c, i) \/ PostOverflow(c, i) \/ PostAccepted(c, i)
    BY <1>1 DEF CorePost
  <2>2. CASE PostRefused(c, i)
    BY <2>2 DEF PostRefused
  <2>3. thread[c] = "exec"
    BY <1>1 DEF CorePost
  <2> QED
    BY <2>1, <2>2, <2>3
<1>2. CASE CoreFault(c)
  <2>1. CASE handle_more
    BY <1>2, <2>1 DEF CoreFault
  <2>2. CASE ~handle_more
    BY <1>2, <2>2 DEF CoreFault, RaisePanic
  <2> QED
    BY <2>1, <2>2
<1>3. CASE CoreCheck(c) \/ CoreWork(c) \/ CoreResume(c) \/ CoreSpurious(c)
  BY <1>3 DEF CoreCheck, CoreWork, CoreResume, CoreSpurious, NoSpurious
<1> QED
  BY <1>1, <1>2, <1>3 DEF CoreStep

\* A core was not refused before it posts: while the handler is open, refused
\* cores are on their way out.
LEMMA PosterNotRefused ==
    ASSUME Good, NEW c \in CoreIds, handle_more, thread[c] = "exec"
    PROVE  status[c] # "refused"
  BY DEF Good, DutyInv, RefusedStops

\* An accepted post puts its entry behind the others, and its core among the
\* waiting ones; it is not the core that the OS holds.
LEMMA AcceptedQuiet ==
    ASSUME Good, NoSpurious, NEW c \in CoreIds, CoreStep(c),
           NEW i \in Posting, PostAccepted(c, i), Quiet
    PROVE  QuietQueue'
<1> DEFINE r == Request(IF i = "OP_HALT" THEN "REQHALT" ELSE i, c)
<1>1. r \in RequestType /\ r.core = c
  BY DEF RequestType, Request, Posting, Interrupts
<1> HIDE DEF r
<1>2. /\ thread[c] # "wait" /\ thread'[c] = "wait" /\ status'[c] = "pending"
      /\ \A d \in CoreIds \ {c} : thread'[d] = thread[d] /\ status'[d] = status[d]
      /\ \A d \in CoreIds : Held(d)' <=> Held(d)
      /\ queue' = Push(queue, r)
  <2>1. /\ thread[c] # "wait"
        /\ \A d \in CoreIds \ {c} : thread'[d] = thread[d] /\ status'[d] = status[d]
        /\ \A d \in CoreIds : Held(d)' <=> Held(d)
    BY CoreFrame DEF Good
  <2>2. thread'[c] = "wait" /\ status'[c] = "pending" /\ queue' = Push(queue, r)
    BY DEF PostAccepted, Good, TypeInv, TypeOK, r
  <2> QED
    BY <2>1, <2>2
<1>3. ~Held(c)
  BY <1>2 DEF Good, DutyInv, HeldWaits, Held, Quiet
<1>4. /\ queue \in QueueType /\ queue.data_count \in Nat
      /\ queue.data_count < QueueLen
      /\ queue.tail = FromHead(queue, queue.data_count)
      /\ EntriesWait /\ EntriesDiffer /\ WaitersHaveEntries
  <2>1. /\ queue \in QueueType /\ queue.data_count <= QueueLen
        /\ queue.tail = FromHead(queue, queue.data_count)
        /\ EntriesWait /\ EntriesDiffer /\ WaitersHaveEntries
    BY DEF Good, DutyInv, QuietQueue, TypeInv, TypeOK
  <2>2. queue.data_count # QueueLen /\ queue.data_count \in Nat
    BY <2>1 DEF PostAccepted, IsFull, QueueType
  <2> QED
    BY <2>1, <2>2, QueueLenAssumption
<1> DEFINE n == queue.data_count
<1>5. /\ queue'.data_count = n + 1
      /\ queue'.tail = FromHead(queue', n + 1)
      /\ \A k \in 0..(n - 1) : Entry(queue', k) = Entry(queue, k)
      /\ Entry(queue', n) = r
  BY <1>1, <1>2, <1>4, PushWindow
<1>6. Indexes' = Indexes \cup {n}
  BY <1>4, <1>5 DEF Indexes
<1>7. \A k \in Indexes : Entry(queue, k).core \in CoreIds \ {c}
  BY <1>2, <1>4 DEF EntriesWait
<1>8. EntriesWait'
  <2> SUFFICES ASSUME NEW k \in Indexes'
               PROVE  \E d \in CoreIds :
                         /\ Entry(queue', k).core = d
                         /\ thread'[d] = "wait" /\ status'[d] = "pending"
                         /\ ~Held(d)'
    BY DEF EntriesWait
  <2>1. CASE k \in Indexes
    BY <1>2, <1>4, <1>5, <1>7, <2>1 DEF EntriesWait, Indexes
  <2>2. CASE k = n
    BY <1>1, <1>2, <1>3, <1>5, <2>2
  <2> QED
    BY <1>6, <2>1, <2>2
<1>9. EntriesDiffer'
  <2> SUFFICES ASSUME NEW j \in Indexes', NEW k \in Indexes',
                      Entry(queue', j).core = Entry(queue', k).core
               PROVE  j = k
    BY DEF EntriesDiffer
  <2>1. CASE j \in Indexes /\ k \in Indexes
    BY <1>4, <1>5, <2>1 DEF EntriesDiffer, Indexes
  <2>2. ASSUME NEW l \in Indexes PROVE Entry(queue', l).core # c
    BY <1>5, <1>7, <2>2 DEF Indexes
  <2>3. Entry(queue', n).core = c
    BY <1>1, <1>5
  <2> QED
    BY <1>6, <2>1, <2>2, <2>3
<1>10. WaitersHaveEntries'
  <2> SUFFICES ASSUME NEW d \in CoreIds, thread'[d] = "wait", ~Held(d)'
               PROVE  \E k \in Indexes' : Entry(queue', k).core = d
    BY DEF WaitersHaveEntries
  <2>1. CASE d = c
    BY <1>1, <1>5, <1>6, <2>1
  <2>2. CASE d # c
    <3>1. PICK k \in Indexes : Entry(queue, k).core = d
      BY <1>2, <1>4, <2>2 DEF WaitersHaveEntries
    <3> QED
      BY <1>5, <1>6, <3>1 DEF Indexes
  <2> QED
    BY <2>1, <2>2
<1> QED
  BY <1>4, <1>5, <1>8, <1>9, <1>10, QueueLenAssumption DEF QuietQueue

\* The queue before the first panic.
LEMMA CoreStepQuiet ==
    ASSUME Good, NoSpurious, NEW c \in CoreIds, CoreStep(c)
    PROVE  QuietQueue'
<1> SUFFICES ASSUME Quiet' PROVE QuietQueue'
  BY DEF QuietQueue
<1> USE DEF Good, TypeInv, TypeOK
<1>1. /\ thread[c] \in {"check", "exec", "resume"}
      /\ \A d \in CoreIds \ {c} : thread'[d] = thread[d] /\ status'[d] = status[d]
      /\ \A d \in CoreIds : Held(d)' <=> Held(d)
      /\ UNCHANGED stop
  BY CoreFrame
<1>2. CASE /\ thread[c] = "exec"
           /\ \E i \in Posting : PostOverflow(c, i) \/ PostAccepted(c, i)
  <2>1. PICK i \in Posting : PostOverflow(c, i) \/ PostAccepted(c, i)
    BY <1>2
  <2>2. ~PostOverflow(c, i)
    BY DEF PostOverflow, Quiet
  <2>3. Quiet
    <3>1. handle_more /\ ~stop
      BY <1>1, <2>1, <2>2 DEF PostAccepted, Quiet
    <3>2. status[c] # "refused"
      BY <1>2, <3>1, PosterNotRefused
    <3> QED
      BY <1>1, <3>1, <3>2 DEF Quiet
  <2> QED
    BY <2>1, <2>2, <2>3, AcceptedQuiet
<1>3. CASE /\ UNCHANGED hdlrVars
           /\ thread'[c] # "wait"
           /\ handle_more => UNCHANGED status
  <2>1. queue' = queue /\ status' = status /\ Quiet
    BY <1>1, <1>3 DEF Quiet, hdlrVars
  <2>2. /\ queue.data_count <= QueueLen
        /\ queue.tail = FromHead(queue, queue.data_count)
        /\ EntriesWait /\ EntriesDiffer /\ WaitersHaveEntries
    BY <2>1 DEF DutyInv, QuietQueue
  <2>3. \A d \in CoreIds : thread'[d] = "wait" <=> thread[d] = "wait"
    BY <1>1, <1>3
  <2>4. EntriesWait' /\ WaitersHaveEntries'
    BY <1>1, <2>1, <2>2, <2>3 DEF EntriesWait, WaitersHaveEntries, Indexes
  <2>5. EntriesDiffer'
    BY <2>1, <2>2 DEF EntriesDiffer, Indexes
  <2> QED
    BY <2>1, <2>2, <2>4, <2>5 DEF QuietQueue
<1>4. CASE handle_more /\ RaisePanic("ERROR")
  BY <1>4 DEF RaisePanic, Quiet
<1> QED
  BY <1>2, <1>3, <1>4, CoreQueueFrame

\* The count of the entries, and with it the room that an overflow leaves.
LEMMA CoreStepStuck ==
    ASSUME Good, NoSpurious, NEW c \in CoreIds, CoreStep(c)
    PROVE  StuckCounted'
<1> SUFFICES ASSUME ~Stopping', handle_more'
             PROVE  queue'.data_count <= Cardinality(Stuck')
  BY DEF StuckCounted
<1> USE DEF Good, TypeInv, TypeOK
<1>1. /\ thread[c] \in {"check", "exec", "resume"}
      /\ \A d \in CoreIds \ {c} : thread'[d] = thread[d] /\ status'[d] = status[d]
      /\ \A d \in CoreIds : Held(d)' <=> Held(d)
      /\ ~Stopping
  BY CoreFrame
<1>2. Stuck \in SUBSET CoreIds
  BY DEF Stuck
<1>3. IsFiniteSet(Stuck) /\ Cardinality(Stuck) \in Nat
  BY <1>2, CoresFinite
<1>4. CASE /\ thread[c] = "exec"
           /\ \E i \in Posting : PostOverflow(c, i) \/ PostAccepted(c, i)
  <2>1. PICK i \in Posting : PostOverflow(c, i) \/ PostAccepted(c, i)
    BY <1>4
  <2>2. handle_more
    BY <2>1 DEF PostOverflow, PostAccepted
  <2>3. c \notin Stuck
    BY <1>4, <2>2, PosterNotRefused DEF Stuck
  <2>4. ~Held(c)
    <3>1. Held(c) => osPc = "signal" /\ stop
      BY <1>4 DEF DutyInv, HeldWaits, Held
    <3> QED
      BY <1>1, <3>1 DEF Stopping
  <2>5. c \in Stuck'
    BY <1>1, <2>1, <2>4 DEF Stuck, PostOverflow, PostAccepted
  <2>6. Stuck' = Stuck \cup {c}
    BY <1>1, <2>5 DEF Stuck
  <2>7. Cardinality(Stuck') = Cardinality(Stuck) + 1
    BY <1>3, <2>3, <2>6, FS_AddElement
  <2>8. queue'.data_count = queue.data_count + 1
    BY <2>1 DEF PostOverflow, PostAccepted, Push, PanicPush, QueueType
  <2>9. queue.data_count <= Cardinality(Stuck) /\ queue.data_count \in Nat
    BY <1>1, <2>2 DEF DutyInv, StuckCounted, QueueType
  <2> QED
    BY <1>3, <2>7, <2>8, <2>9
<1>5. CASE /\ UNCHANGED hdlrVars
           /\ thread'[c] # "wait"
           /\ handle_more => UNCHANGED status
  <2>1. queue' = queue /\ handle_more /\ status' = status
    BY <1>5 DEF hdlrVars
  <2>2. Stuck' = Stuck
    BY <1>1, <1>5, <2>1 DEF Stuck
  <2> QED
    BY <1>1, <2>1, <2>2 DEF DutyInv, StuckCounted
<1>6. CASE handle_more /\ RaisePanic("ERROR")
  BY <1>6 DEF RaisePanic
<1> QED
  BY <1>4, <1>5, <1>6, CoreQueueFrame

\* After an overflow and one more push, no core is left that could post.
LEMMA NoRoomPastEmergency ==
    ASSUME Good, FewCores, ~Stopping, handle_more, queue.data_count > QueueLen + 1,
           NEW c \in CoreIds, thread[c] = "exec"
    PROVE  FALSE
<1>1. queue.data_count <= Cardinality(Stuck) /\ queue.data_count \in Nat
  BY DEF Good, DutyInv, StuckCounted, TypeInv, TypeOK, QueueType
<1>2. Stuck \in SUBSET CoreIds /\ c \notin Stuck
  BY PosterNotRefused DEF Stuck
<1>3. /\ Cardinality(Stuck) \in Nat /\ Cardinality(Stuck) <= MaxCores
      /\ IsFiniteSet(CoreIds) /\ Cardinality(CoreIds) = MaxCores
  BY <1>2, CoresFinite
<1>4. Cardinality(Stuck) = MaxCores
  BY <1>1, <1>3, CoresAssumption, QueueLenAssumption DEF FewCores
<1>5. Stuck = CoreIds
  BY <1>2, <1>3, <1>4, FS_Subset
<1> QED
  BY <1>2, <1>5

\* The emergency entry stays where it is.
LEMMA CoreStepEmergency ==
    ASSUME Good, NoSpurious, FewCores, NEW c \in CoreIds, CoreStep(c)
    PROVE  EmergencyAtHead'
<1> SUFFICES ASSUME ~Stopping', Emergency'
             PROVE  /\ ~IsEmpty(queue')
                    /\ \E e \in Errors : HeadValue(queue') = PanicRequest(e)
                    /\ handle_more' =>
                          /\ queue'.data_count > QueueLen
                          /\ queue'.data_count = QueueLen + 1
                                => queue'.tail # queue'.head
  BY DEF EmergencyAtHead
<1> USE DEF Good, TypeInv, TypeOK
<1>1. /\ \A d \in CoreIds \ {c} : thread'[d] = thread[d] /\ status'[d] = status[d]
      /\ ~Stopping
  BY CoreFrame
<1>2. Emergency =>
         /\ ~IsEmpty(queue)
         /\ \E e \in Errors : HeadValue(queue) = PanicRequest(e)
         /\ handle_more =>
               /\ queue.data_count > QueueLen
               /\ queue.data_count = QueueLen + 1 => queue.tail # queue.head
  BY <1>1 DEF DutyInv, EmergencyAtHead
<1>3. ~Emergency => Quiet
  BY <1>1 DEF Emergency, Quiet, Stopping
<1>4. queue \in QueueType /\ queue.data_count \in Nat
  BY DEF QueueType
<1>5. ASSUME NEW i \in Posting, thread[c] = "exec", PostOverflow(c, i)
      PROVE  /\ ~IsEmpty(queue')
             /\ \E e \in Errors : HeadValue(queue') = PanicRequest(e)
             /\ queue'.data_count > QueueLen /\ queue'.tail # queue'.head
  <2>1. /\ handle_more /\ queue.data_count = QueueLen
        /\ queue' = PanicPush(queue, PanicRequest("REQBUFFEROVERFLOW"))
    BY <1>5 DEF PostOverflow, IsFull, QueueType
  <2>2. queue.tail = FromHead(queue, QueueLen)
    BY <1>2, <1>3, <2>1, QueueLenAssumption DEF DutyInv, QuietQueue
  <2>3. queue.tail # queue.head
    BY <2>2, QueueLenAssumption DEF FromHead, QueueType
  <2>4. "REQBUFFEROVERFLOW" \in Errors
        /\ PanicRequest("REQBUFFEROVERFLOW") \in RequestType
    BY DEF RequestType, Errors
  <2>5. /\ ~IsEmpty(queue') /\ queue'.data_count = queue.data_count + 1
        /\ HeadValue(queue') = PanicRequest("REQBUFFEROVERFLOW")
    BY <1>4, <2>1, <2>4, PanicPushType
  <2>6. queue'.tail = queue.tail /\ queue'.head = queue.head
    BY <2>1 DEF PanicPush, QueueType
  <2> QED
    BY <2>1, <2>3, <2>4, <2>5, <2>6, QueueLenAssumption
<1>6. ASSUME NEW i \in Posting, thread[c] = "exec", PostAccepted(c, i)
      PROVE  /\ ~IsEmpty(queue')
             /\ \E e \in Errors : HeadValue(queue') = PanicRequest(e)
             /\ queue'.data_count > QueueLen /\ queue'.data_count # QueueLen + 1
  <2>1. handle_more /\ status'[c] # "refused" /\ handle_more'
    BY <1>6 DEF PostAccepted
  <2>2. Emergency
    BY <1>1, <2>1 DEF Emergency
  <2>3. queue.data_count = QueueLen + 1 /\ queue.tail # queue.head
    BY <1>1, <1>2, <1>4, <1>6, <2>1, <2>2, NoRoomPastEmergency, QueueLenAssumption
  <2> DEFINE r == Request(IF i = "OP_HALT" THEN "REQHALT" ELSE i, c)
  <2>4. queue' = Push(queue, r)
    BY <1>6 DEF PostAccepted
  <2>5. queue'.data_count = queue.data_count + 1
        /\ HeadValue(queue') = HeadValue(queue)
    BY <1>4, <2>3, <2>4 DEF Push, HeadValue, QueueType
  <2> QED
    BY <1>2, <2>2, <2>3, <2>5, QueueLenAssumption DEF IsEmpty
<1>7. CASE /\ UNCHANGED hdlrVars
           /\ handle_more => UNCHANGED status
           /\ \A d \in CoreIds : status'[d] = status[d] \/ status'[d] = "refused"
  <2>1. queue' = queue /\ handle_more' = handle_more /\ Emergency
    BY <1>7 DEF Emergency, hdlrVars
  <2> QED
    BY <1>2, <2>1
<1>8. CASE handle_more /\ RaisePanic("ERROR")
  <2>1. queue' = PanicPush(queue, PanicRequest("ERROR")) /\ ~handle_more'
    BY <1>8 DEF RaisePanic
  <2>2. "ERROR" \in Errors /\ PanicRequest("ERROR") \in RequestType
    BY DEF RequestType, Errors
  <2>3. ~IsEmpty(queue') /\ HeadValue(queue') = PanicRequest("ERROR")
    BY <1>4, <1>8, <2>1, <2>2, PanicPushType
  <2> QED
    BY <2>1, <2>2, <2>3
<1>9. CASE /\ thread[c] = "exec"
           /\ \E i \in Posting : PostOverflow(c, i) \/ PostAccepted(c, i)
  <2>1. PICK i \in Posting : PostOverflow(c, i) \/ PostAccepted(c, i)
    BY <1>9
  <2> QED
    BY <1>5, <1>6, <1>9, <2>1
<1> QED
  BY <1>7, <1>8, <1>9, CoreQueueFrame

\* A core stays among the active ones until it is told to stop.
LEMMA CoreStepActive ==
    ASSUME Good, NoSpurious, NEW c \in CoreIds, CoreStep(c)
    PROVE  ActiveCounted'
<1> SUFFICES ASSUME ~Stopping'
             PROVE  Cardinality(NotTold') <= active_core_count'
  BY DEF ActiveCounted
<1>1. /\ ~Stopping /\ active_core_count' = active_core_count
      /\ NotTold' \subseteq NotTold
  <2>1. /\ thread[c] # "none"
        /\ \A d \in CoreIds \ {c} :
              thread'[d] = thread[d] /\ stop_running'[d] = stop_running[d]
        /\ stop_running[c] => stop_running'[c]
        /\ ~Stopping /\ active_core_count' = active_core_count
    BY CoreFrame DEF Good
  <2> QED
    BY <2>1 DEF NotTold, Started
<1>2. Cardinality(NotTold) <= active_core_count /\ active_core_count \in Nat
  BY <1>1 DEF Good, DutyInv, ActiveCounted, TypeInv, TypeOK
<1>3. /\ IsFiniteSet(NotTold) /\ Cardinality(NotTold) \in Nat
      /\ Cardinality(NotTold') \in Nat
      /\ Cardinality(NotTold') <= Cardinality(NotTold)
  <2>1. NotTold \in SUBSET CoreIds /\ NotTold' \in SUBSET CoreIds
    BY DEF NotTold, Started
  <2> QED
    BY <1>1, <2>1, CoresFinite, FS_Subset
<1> QED
  BY <1>1, <1>2, <1>3

\* The whole invariant, for a core's step.
LEMMA CoreStepGood ==
    ASSUME Good, NoSpurious, FewCores, NEW c \in CoreIds, CoreStep(c)
    PROVE  DutyInv'
  BY CoreStepCores, CoreStepQuiet, CoreStepStuck, CoreStepEmergency,
     CoreStepActive DEF DutyInv

-----------------------------------------------------------------------------
(* The steps of the OS *)

\* A core left out by a failed boot stays left out: the OS then only stops.
LEMMA LeftStays ==
    ASSUME TypeInv, OSStep, NEW d \in CoreIds, LeftByBoot(d)
    PROVE  LeftByBoot(d)'
<1>1. osPc # "boot" /\ osPc # "dispatch"
  BY DEF LeftByBoot, TypeInv, TypeOK, CountInv
<1> QED
  BY <1>1 DEF LeftByBoot, OSStep, OSBoot, OSBootFails, OSPop, OSSleep,
     OSSpurious, OSDispatch, OSHandleError, OSHalt, OSExit, OSService,
     OSNewCoreBlocks, OSNewCoreFails, OSNewCore, OSStopCore, OSKill, OSSignal,
     osLocals

\* The core that NEWCORE starts was not started before.
LEMMA NewCoreIsNew ==
    ASSUME TypeInv, StartInv, OSNewCore
    PROVE  core_count \in CoreIds /\ thread[core_count] = "none"
<1>1. core_count \in CoreIds /\ active_core_count <= core_count
  BY CoresAssumption DEF OSNewCore, TypeInv, TypeOK, CountInv, CoreIds
<1> QED
  BY <1>1, CoresAssumption
  DEF StartInv, StartedCounted, LeftByBoot, Started, TypeInv, TypeOK

\* Neither was one that merry_os_start_vm boots.
LEMMA BootedIsNew ==
    ASSUME TypeInv, StartInv, OSBoot, idx < core_count
    PROVE  idx \in CoreIds /\ thread[idx] = "none"
  BY CoresAssumption DEF OSBoot, StartInv, StartedCounted, Started, TypeInv,
     TypeOK, CoreIds

\* What a step of the OS does to cores at most: it starts a new one, lets
\* waiting ones go, answers the one whose request it handles, and tells a core
\* to stop that it has answered or once it is stopping.
LEMMA OSFrame ==
    ASSUME TypeInv, StartInv, OSStep
    PROVE  /\ \A d \in CoreIds :
                 \/ thread'[d] = thread[d]
                 \/ thread[d] = "none" /\ thread'[d] = "check"
                 \/ thread[d] = "wait" /\ thread'[d] = "resume"
           /\ \A d \in CoreIds :
                 \/ status'[d] = status[d]
                 \/ /\ osPc = "dispatch" /\ current_req.core = d
                    /\ status'[d] = "answered"
           /\ \A d \in CoreIds :
                 \/ stop_running'[d] = stop_running[d]
                 \/ stop_running'[d] /\ Stopping
                 \/ /\ osPc = "dispatch" /\ current_req.core = d
                    /\ stop_running'[d] /\ status'[d] = "answered"
           /\ handle_more' => handle_more
           /\ Stopping => Stopping'
<1> USE DEF TypeInv, TypeOK
<1>1. CASE OSBoot
  <2>1. CASE idx < core_count
    BY <1>1, <2>1, BootedIsNew DEF OSBoot, hdlrVars, Stopping
  <2>2. CASE ~(idx < core_count)
    BY <1>1, <2>2 DEF OSBoot, hdlrVars, Stopping
  <2> QED
    BY <2>1, <2>2
<1>2. CASE OSBootFails \/ OSPop \/ OSSleep \/ OSSpurious
  BY <1>2 DEF OSBootFails, OSPop, OSSleep, OSSpurious, HostWakes, hdlrVars,
     coreVars, osLocals, Stopping
<1>3. CASE OSStopCore
  BY <1>3 DEF OSStopCore, hdlrVars, Stopping
<1>4. CASE OSKill
  BY <1>4 DEF OSKill, Stopping
<1>5. CASE OSSignal
  BY <1>5 DEF OSSignal, Signalled, hdlrVars, Stopping
<1>6. CASE OSHandleError
  BY <1>6 DEF OSHandleError, hdlrVars, coreVars, Stopping
<1>7. CASE OSHalt
  BY <1>7 DEF OSHalt, Handled, hdlrVars, Stopping, Errors
<1>8. CASE OSExit
  BY <1>8 DEF OSExit, hdlrVars, Stopping
<1>9. CASE OSService
  <2>1. handle_more' => handle_more
    BY <1>9 DEF OSService, RaisePanic, hdlrVars
  <2> QED
    BY <1>9, <2>1 DEF OSService, Handled, osLocals, Stopping, Errors
<1>10. CASE OSNewCoreBlocks
  BY <1>10 DEF OSNewCoreBlocks, hdlrVars, coreVars, osLocals, Stopping, Errors
<1>11. CASE OSNewCoreFails
  BY <1>11 DEF OSNewCoreFails, Handled, hdlrVars, osLocals, Stopping, Errors
<1>12. CASE OSNewCore
  BY <1>12, NewCoreIsNew DEF OSNewCore, Handled, hdlrVars, Stopping, Errors
<1> QED
  BY <1>1, <1>2, <1>3, <1>4, <1>5, <1>6, <1>7, <1>8, <1>9, <1>10, <1>11, <1>12
  DEF OSStep, OSDispatch

\* What the OS takes from the queue while it is not stopping: a panic, or the
\* request of a core that waits for its answer.
LEMMA TakenIsWritten ==
    ASSUME Good, ~Stopping, ~IsEmpty(queue)
    PROVE  \/ \E e \in Errors : HeadValue(queue) = PanicRequest(e)
           \/ /\ Quiet /\ 0 \in Indexes /\ queue.data_count \in 1..QueueLen
              /\ HeadValue(queue) = Entry(queue, 0)
              /\ \E c \in CoreIds :
                    /\ HeadValue(queue).core = c
                    /\ thread[c] = "wait" /\ status[c] = "pending"
<1>1. CASE Emergency
  BY <1>1 DEF Good, DutyInv, EmergencyAtHead
<1>2. CASE ~Emergency
  <2>1. Quiet
    BY <1>2 DEF Emergency, Quiet, Stopping
  <2>2. /\ queue \in QueueType /\ queue.data_count \in 1..QueueLen
        /\ queue.tail = FromHead(queue, queue.data_count)
        /\ EntriesWait
    BY <2>1, QueueLenAssumption
    DEF Good, DutyInv, QuietQueue, IsEmpty, TypeInv, TypeOK, QueueType
  <2>3. HeadValue(queue) = Entry(queue, 0) /\ 0 \in Indexes
    BY <2>2, PopWindow, QueueLenAssumption DEF Indexes
  <2> QED
    BY <2>1, <2>2, <2>3 DEF EntriesWait
<1> QED
  BY <1>1, <1>2

\* In prepare_for_exit, past the last core, every core that was started knows.
LEMMA AllTold ==
    ASSUME TypeInv, StartInv, osPc = "stopcores", idx >= core_count,
           NEW c \in CoreIds, thread[c] # "none"
    PROVE  stop_running[c] \/ LeftByBoot(c)
  BY DEF StartInv, StartedCounted, ToldInOrder, Started, CoreIds, TypeInv, TypeOK

\* The core of the request the OS holds.
LEMMA OSStepHeld ==
    ASSUME Good, OSStep
    PROVE  HeldWaits'
<1> USE DEF Good, TypeInv, TypeOK, DutyInv
<1>0. \A d \in CoreIds : Uninit.core # d
  BY NULLAssumption DEF Uninit, Request
<1>1. CASE OSBoot \/ OSBootFails
  BY <1>0, <1>1 DEF OSBoot, OSBootFails, HeldWaits, coreVars
<1>2. CASE OSPop
  <2>1. CASE osPc' # "dispatch"
    BY <1>2, <2>1 DEF OSPop, HeldWaits
  <2>2. CASE osPc' = "dispatch"
    <3>1. /\ ~Stopping /\ ~IsEmpty(queue) /\ current_req' = HeadValue(queue)
          /\ UNCHANGED <<thread, status>>
      BY <1>2, <2>2 DEF OSPop, Stopping, coreVars
    <3>2. \A e \in Errors, d \in CoreIds : PanicRequest(e).core # d
      BY NULLAssumption DEF PanicRequest, Request
    <3>3. \A d \in CoreIds : current_req'.core = d
             => thread[d] = "wait" /\ status[d] = "pending"
      BY <3>1, <3>2, TakenIsWritten
    <3> QED
      BY <2>2, <3>1, <3>3 DEF HeldWaits
  <2> QED
    BY <2>1, <2>2
<1>3. CASE OSSleep \/ OSSpurious
  BY <1>3 DEF OSSleep, OSSpurious, HostWakes, HeldWaits, osLocals
<1>4. CASE OSStopCore
  BY <1>4 DEF OSStopCore, HeldWaits
<1>5. CASE OSKill
  <2> SUFFICES ASSUME NEW c \in CoreIds, current_req'.core = c, osPc' = "signal"
               PROVE  stop' /\ (stop_running'[c] \/ LeftByBoot(c)')
    BY <1>5 DEF OSKill, HeldWaits
  <2>1. current_req.core = c /\ thread[c] = "wait"
    BY <1>5 DEF OSKill, HeldWaits
  <2>2. stop_running[c] \/ LeftByBoot(c)
    BY <1>5, <2>1, AllTold DEF OSKill
  <2> QED
    BY <1>5, <2>2 DEF OSKill, LeftByBoot
<1>6. CASE OSSignal
  BY <1>6 DEF OSSignal, HeldWaits
<1>7. CASE OSHandleError \/ OSExit
  BY <1>7 DEF OSHandleError, OSExit, HeldWaits, coreVars
<1>8. CASE OSNewCoreBlocks
  BY <1>8 DEF OSNewCoreBlocks, HeldWaits, coreVars, osLocals
<1>9. CASE OSHalt \/ OSService \/ OSNewCoreFails \/ OSNewCore
  <2>1. /\ osPc = "dispatch" /\ osPc' = "signal" /\ current_req' = current_req
        /\ \/ thread' = thread
           \/ OSNewCore /\ thread' = [thread EXCEPT ![core_count] = "check"]
        /\ status' = [status EXCEPT ![current_req.core] = "answered"]
    BY <1>9 DEF OSHalt, OSService, OSNewCoreFails, OSNewCore, Handled, osLocals
  <2> SUFFICES ASSUME NEW c \in CoreIds, current_req.core = c
               PROVE  thread'[c] = "wait" /\ status'[c] # "pending"
    BY <2>1 DEF HeldWaits
  <2>2. thread[c] = "wait"
    BY <2>1 DEF HeldWaits
  <2>3. thread'[c] = "wait"
    BY <2>1, <2>2, NewCoreIsNew
  <2> QED
    BY <2>1, <2>3
<1> QED
  BY <1>1, <1>2, <1>3, <1>4, <1>5, <1>6, <1>7, <1>8, <1>9
  DEF OSStep, OSDispatch

\* The other statements about single cores.
LEMMA OSStepCores ==
    ASSUME Good, OSStep
    PROVE  UnansweredTold' /\ RefusedStops' /\ PostersRun'
<1> USE DEF Good, TypeInv, TypeOK, DutyInv
<1>1. /\ \A d \in CoreIds :
            \/ thread'[d] = thread[d]
            \/ thread[d] = "none" /\ thread'[d] = "check"
            \/ thread[d] = "wait" /\ thread'[d] = "resume"
      /\ \A d \in CoreIds :
            \/ status'[d] = status[d]
            \/ /\ osPc = "dispatch" /\ current_req.core = d
               /\ status'[d] = "answered"
      /\ \A d \in CoreIds :
            \/ stop_running'[d] = stop_running[d]
            \/ stop_running'[d] /\ Stopping
            \/ /\ osPc = "dispatch" /\ current_req.core = d
               /\ stop_running'[d] /\ status'[d] = "answered"
      /\ handle_more' => handle_more
      /\ Stopping => Stopping'
  BY OSFrame
<1>2. \A d \in CoreIds : LeftByBoot(d) => LeftByBoot(d)'
  BY LeftStays
<1>3. \A d \in CoreIds :
         thread[d] = "wait" /\ thread'[d] = "resume" /\ status'[d] = "pending"
            => stop_running'[d] \/ LeftByBoot(d)'
  <2> SUFFICES ASSUME NEW d \in CoreIds,
                      thread[d] = "wait", thread'[d] = "resume", status'[d] = "pending"
               PROVE  stop_running[d] \/ LeftByBoot(d)
    BY <1>1, <1>2
  <2>1. OSKill \/ OSSignal
    BY DEF OSStep, OSBoot, OSBootFails, OSPop, OSSleep, OSSpurious, OSDispatch,
       OSHandleError, OSHalt, OSExit, OSService, OSNewCoreBlocks, OSNewCoreFails,
       OSNewCore, OSStopCore, coreVars
  <2>2. CASE OSKill
    BY <2>2, AllTold DEF OSKill
  <2>3. CASE OSSignal
    <3>1. osPc = "signal" /\ current_req.core = d /\ status[d] = "pending"
      BY <1>1, <2>3 DEF OSSignal, Signalled
    <3> QED
      BY <3>1 DEF HeldWaits
  <2> QED
    BY <2>1, <2>2, <2>3
<1>4. UnansweredTold'
  BY <1>1, <1>2, <1>3 DEF UnansweredTold
<1>5. RefusedStops'
  BY <1>1 DEF RefusedStops
<1>6. PostersRun'
  <2> SUFFICES ASSUME ~Stopping', NEW d \in CoreIds,
                      \/ thread'[d] = "exec"
                      \/ thread'[d] = "wait" /\ status'[d] = "pending"
               PROVE  ~stop_running'[d]
    BY DEF PostersRun
  <2>1. ~Stopping /\ thread'[d] = thread[d]
    BY <1>1
  <2>2. osPc = "dispatch" /\ current_req.core = d => thread[d] = "wait"
    BY DEF HeldWaits
  <2>3. stop_running'[d] = stop_running[d]
    BY <1>1, <2>1, <2>2
  <2>4. status'[d] = "pending" => status[d] = "pending"
    BY <1>1
  <2> QED
    BY <2>1, <2>3, <2>4 DEF PostersRun
<1> QED
  BY <1>4, <1>5, <1>6

\* The OS takes the first entry: its core is held from then on, the others move up.
LEMMA PopQuiet ==
    ASSUME Good, Quiet, OSPop, osPc' = "dispatch"
    PROVE  QuietQueue'
<1> USE DEF Good, TypeInv, TypeOK, DutyInv
<1>1. /\ queue' = Pop(queue) /\ current_req' = HeadValue(queue) /\ osPc = "loop"
      /\ UNCHANGED <<thread, status>> /\ ~IsEmpty(queue)
  BY DEF OSPop, coreVars
<1>2. /\ queue \in QueueType /\ queue.data_count \in 1..QueueLen
      /\ queue.tail = FromHead(queue, queue.data_count)
      /\ EntriesWait /\ EntriesDiffer /\ WaitersHaveEntries
  BY <1>1, QueueLenAssumption DEF QuietQueue, QueueType, IsEmpty
<1> DEFINE n == queue.data_count
<1>3. /\ HeadValue(queue) = Entry(queue, 0)
      /\ queue'.data_count = n - 1
      /\ queue'.tail = FromHead(queue', n - 1)
      /\ \A k \in 0..(n - 2) : Entry(queue', k) = Entry(queue, k + 1)
  BY <1>1, <1>2, PopWindow
<1>4. /\ 0 \in Indexes /\ Indexes' = 0..(n - 2)
      /\ \A k \in Indexes' : k + 1 \in Indexes /\ k + 1 # 0
      /\ \A k \in Indexes : k # 0 => k - 1 \in Indexes' /\ (k - 1) + 1 = k
  BY <1>2, <1>3, QueueLenAssumption DEF Indexes
<1>5. \A k \in Indexes' : Entry(queue', k) = Entry(queue, k + 1)
  BY <1>3, <1>4
<1>6. \A d \in CoreIds : ~Held(d) /\ (Held(d)' <=> Entry(queue, 0).core = d)
  BY <1>1, <1>3 DEF Held, OSPop
<1>7. EntriesWait'
  <2> SUFFICES ASSUME NEW k \in Indexes'
               PROVE  \E d \in CoreIds :
                         /\ Entry(queue', k).core = d
                         /\ thread'[d] = "wait" /\ status'[d] = "pending"
                         /\ ~Held(d)'
    BY DEF EntriesWait
  <2>1. PICK d \in CoreIds : /\ Entry(queue, k + 1).core = d
                             /\ thread[d] = "wait" /\ status[d] = "pending"
    BY <1>2, <1>4 DEF EntriesWait
  <2>2. Entry(queue, 0).core # d
    BY <1>2, <1>4, <2>1 DEF EntriesDiffer
  <2> QED
    BY <1>1, <1>5, <1>6, <2>1, <2>2
<1>8. EntriesDiffer'
  <2> SUFFICES ASSUME NEW j \in Indexes', NEW k \in Indexes',
                      Entry(queue', j).core = Entry(queue', k).core
               PROVE  j = k
    BY DEF EntriesDiffer
  <2>1. j + 1 = k + 1
    BY <1>2, <1>4, <1>5 DEF EntriesDiffer
  <2>2. j \in Int /\ k \in Int
    BY <1>4
  <2> QED
    BY <2>1, <2>2
<1>9. WaitersHaveEntries'
  <2> SUFFICES ASSUME NEW d \in CoreIds, thread'[d] = "wait", ~Held(d)'
               PROVE  \E k \in Indexes' : Entry(queue', k).core = d
    BY DEF WaitersHaveEntries
  <2>1. PICK k \in Indexes : Entry(queue, k).core = d
    BY <1>1, <1>2, <1>6 DEF WaitersHaveEntries
  <2>2. k # 0
    BY <1>6, <2>1
  <2> QED
    BY <1>4, <1>5, <2>1, <2>2
<1>10. queue'.data_count <= QueueLen
  BY <1>2, <1>3, QueueLenAssumption
<1> QED
  BY <1>3, <1>7, <1>8, <1>9, <1>10 DEF QuietQueue

\* Who waits with an entry, for the steps of the OS that take none.
LEMMA OSStepWaiters ==
    ASSUME Good, OSStep, ~stop', handle_more', ~(OSPop /\ osPc' = "dispatch"),
           NEW d \in CoreIds
    PROVE  /\ queue' = queue
           /\ thread'[d] = "wait" /\ ~Held(d)' <=> thread[d] = "wait" /\ ~Held(d)
           /\ thread[d] = "wait" /\ ~Held(d) => status'[d] = status[d]
<1> USE DEF Good, TypeInv, TypeOK, DutyInv
<1>0. Uninit.core # d
  BY NULLAssumption DEF Uninit, Request
<1>1. CASE OSBoot
  <2>1. CASE idx < core_count
    BY <1>1, <2>1, BootedIsNew DEF OSBoot, Held, hdlrVars
  <2>2. CASE ~(idx < core_count)
    BY <1>1, <2>2 DEF OSBoot, Held, hdlrVars
  <2> QED
    BY <2>1, <2>2
<1>2. CASE OSBootFails
  BY <1>0, <1>2 DEF OSBootFails, HeldWaits, Held, hdlrVars, coreVars
<1>3. CASE OSPop
  BY <1>3 DEF OSPop, Held, coreVars
<1>4. CASE OSSleep \/ OSSpurious
  BY <1>4 DEF OSSleep, OSSpurious, HostWakes, Held, hdlrVars, coreVars, osLocals
<1>5. CASE OSStopCore
  BY <1>5 DEF OSStopCore, Held, hdlrVars
<1>6. CASE OSKill
  BY <1>6 DEF OSKill
<1>7. CASE OSSignal
  <2>1. Held(d) <=> current_req.core = d
    BY <1>7 DEF OSSignal, Held
  <2>2. ~Held(d)' /\ queue' = queue /\ status' = status
    BY <1>7 DEF OSSignal, Held, hdlrVars
  <2>3. Held(d) => thread[d] = "wait"
    BY <1>7, <2>1 DEF OSSignal, HeldWaits
  <2>4. thread'[d] = IF Held(d) THEN "resume" ELSE thread[d]
    BY <1>7, <2>1, <2>3 DEF OSSignal, Signalled
  <2> QED
    BY <2>2, <2>3, <2>4
<1>8. CASE OSHandleError \/ OSExit \/ OSNewCoreBlocks
  BY <1>8 DEF OSHandleError, OSExit, OSNewCoreBlocks, Held, hdlrVars, coreVars,
     osLocals
<1>9. CASE OSHalt \/ OSService \/ OSNewCoreFails \/ OSNewCore
  <2>1. /\ osPc = "dispatch" /\ osPc' = "signal" /\ current_req' = current_req
        /\ \/ thread' = thread
           \/ OSNewCore /\ thread' = [thread EXCEPT ![core_count] = "check"]
        /\ status' = [status EXCEPT ![current_req.core] = "answered"]
    BY <1>9 DEF OSHalt, OSService, OSNewCoreFails, OSNewCore, Handled, osLocals
  <2>2. queue' = queue
    BY <1>9 DEF OSHalt, OSService, RaisePanic, OSNewCoreFails, OSNewCore, hdlrVars
  <2>3. thread'[d] = "wait" <=> thread[d] = "wait"
    BY <2>1, NewCoreIsNew
  <2> QED
    BY <2>1, <2>2, <2>3 DEF Held
<1> QED
  BY <1>1, <1>2, <1>3, <1>4, <1>5, <1>6, <1>7, <1>8, <1>9
  DEF OSStep, OSDispatch

\* The queue before the first panic.
LEMMA OSStepQuiet ==
    ASSUME Good, OSStep
    PROVE  QuietQueue'
<1> SUFFICES ASSUME Quiet' PROVE QuietQueue'
  BY DEF QuietQueue
<1> USE DEF Good, TypeInv, TypeOK, DutyInv
<1>1. handle_more' /\ ~stop'
  BY DEF Quiet
<1>2. Quiet
  <2>1. handle_more
    BY <1>1, OSFrame
  <2>2. ~stop
    BY <1>1 DEF OSStep, OSBoot, OSBootFails, OSPop, OSSleep, OSSpurious,
       OSDispatch, OSHandleError, OSHalt, OSExit, OSService, OSNewCoreBlocks,
       OSNewCoreFails, OSNewCore, OSStopCore, OSKill, OSSignal, osLocals
  <2>3. ASSUME NEW d \in CoreIds PROVE status[d] # "refused"
    <3>1. osPc = "dispatch" /\ current_req.core = d => status[d] = "pending"
      BY DEF HeldWaits
    <3> QED
      BY <3>1, OSFrame DEF Quiet
  <2> QED
    BY <2>1, <2>2, <2>3 DEF Quiet
<1>3. CASE OSPop /\ osPc' = "dispatch"
  BY <1>2, <1>3, PopQuiet
<1>4. CASE ~(OSPop /\ osPc' = "dispatch")
  <2>1. /\ queue' = queue
        /\ \A d \in CoreIds :
              /\ thread'[d] = "wait" /\ ~Held(d)' <=> thread[d] = "wait" /\ ~Held(d)
              /\ thread[d] = "wait" /\ ~Held(d) => status'[d] = status[d]
    <3>1. queue' = queue
      <4>1. PICK d \in CoreIds : TRUE
        BY CoresAssumption DEF CoreIds
      <4> QED
        BY <1>1, <1>4, OSStepWaiters
    <3> QED
      BY <1>1, <1>4, <3>1, OSStepWaiters
  <2>2. /\ queue.data_count <= QueueLen
        /\ queue.tail = FromHead(queue, queue.data_count)
        /\ EntriesWait /\ EntriesDiffer /\ WaitersHaveEntries
    BY <1>2 DEF QuietQueue
  <2>3. EntriesWait' /\ WaitersHaveEntries'
    BY <2>1, <2>2 DEF EntriesWait, WaitersHaveEntries, Indexes
  <2>4. EntriesDiffer'
    BY <2>1, <2>2 DEF EntriesDiffer, Indexes
  <2> QED
    BY <2>1, <2>2, <2>3, <2>4 DEF QuietQueue
<1> QED
  BY <1>3, <1>4

\* Who takes the emergency entry is stopping.
LEMMA TakesEmergency ==
    ASSUME Good, OSPop, ~Stopping'
    PROVE  /\ ~Emergency \/ UNCHANGED queue
           /\ UNCHANGED <<handle_more, thread, status>>
<1>1. ~Stopping
  BY OSFrame DEF OSStep, Good
<1>2. ASSUME Emergency, osPc' = "dispatch" PROVE FALSE
  <2>1. PICK e \in Errors : HeadValue(queue) = PanicRequest(e)
    BY <1>1, <1>2 DEF Good, DutyInv, EmergencyAtHead
  <2>2. current_req'.number \in Errors
    BY <1>2, <2>1 DEF OSPop, PanicRequest, Request
  <2> QED
    BY <1>2, <2>2 DEF Stopping
<1> QED
  BY <1>2 DEF OSPop, coreVars

\* The emergency stays at the head of the queue, whatever the OS does.
LEMMA OSStepEmergency ==
    ASSUME Good, OSStep
    PROVE  EmergencyAtHead'
<1> SUFFICES ASSUME ~Stopping', Emergency'
             PROVE  /\ ~IsEmpty(queue')
                    /\ \E e \in Errors : HeadValue(queue') = PanicRequest(e)
                    /\ handle_more' =>
                          /\ queue'.data_count > QueueLen
                          /\ queue'.data_count = QueueLen + 1
                                => queue'.tail # queue'.head
  BY DEF EmergencyAtHead
<1> USE DEF Good, TypeInv, TypeOK
<1>1. ~Stopping
  BY OSFrame
<1>2. Emergency =>
         /\ ~IsEmpty(queue)
         /\ \E e \in Errors : HeadValue(queue) = PanicRequest(e)
         /\ handle_more =>
               /\ queue.data_count > QueueLen
               /\ queue.data_count = QueueLen + 1 => queue.tail # queue.head
  BY <1>1 DEF DutyInv, EmergencyAtHead
<1>3. handle_more' = handle_more => Emergency
  BY OSFrame DEF Emergency
<1>4. CASE OSPop
  BY <1>2, <1>3, <1>4, TakesEmergency
<1>5. CASE UNCHANGED hdlrVars
  BY <1>2, <1>3, <1>5 DEF hdlrVars
<1>6. CASE handle_more /\ RaisePanic("ERROR")
  <2>1. queue' = PanicPush(queue, PanicRequest("ERROR")) /\ ~handle_more'
    BY <1>6 DEF RaisePanic
  <2>2. "ERROR" \in Errors /\ PanicRequest("ERROR") \in RequestType
    BY DEF RequestType, Errors
  <2>3. ~IsEmpty(queue') /\ HeadValue(queue') = PanicRequest("ERROR")
    BY <1>6, <2>1, <2>2, PanicPushType
  <2> QED
    BY <2>1, <2>2, <2>3
<1>7. ~OSKill
  BY DEF OSKill, Stopping
<1>8. OSService => UNCHANGED hdlrVars \/ (handle_more /\ RaisePanic("ERROR"))
  BY DEF OSService, RaisePanic
<1> QED
  BY <1>4, <1>5, <1>6, <1>7, <1>8
  DEF OSStep, OSDispatch, OSBoot, OSBootFails, OSSleep, OSSpurious, OSStopCore,
      OSSignal, OSHandleError, OSHalt, OSExit, OSNewCoreBlocks, OSNewCoreFails,
      OSNewCore

\* The OS takes a queued request down with its core: no entry is left without one.
LEMMA OSStepStuck ==
    ASSUME Good, OSStep
    PROVE  StuckCounted'
<1> SUFFICES ASSUME ~Stopping', handle_more'
             PROVE  queue'.data_count <= Cardinality(Stuck')
  BY DEF StuckCounted
<1> USE DEF Good, TypeInv, TypeOK, DutyInv
<1>1. ~Stopping /\ handle_more /\ ~stop'
  BY OSFrame DEF Stopping
<1>2. queue.data_count <= Cardinality(Stuck) /\ queue.data_count \in Nat
  BY <1>1 DEF StuckCounted, QueueType
<1>3. Stuck \in SUBSET CoreIds /\ Stuck' \in SUBSET CoreIds
  BY DEF Stuck
<1>4. /\ IsFiniteSet(Stuck) /\ Cardinality(Stuck) \in Nat
      /\ IsFiniteSet(Stuck') /\ Cardinality(Stuck') \in Nat
  BY <1>3, CoresFinite
<1>5. \A d \in CoreIds : status[d] = "refused" => status'[d] = "refused"
  <2> SUFFICES ASSUME NEW d \in CoreIds, status[d] = "refused"
               PROVE  status'[d] = "refused"
    OBVIOUS
  <2>1. ~(osPc = "dispatch" /\ current_req.core = d)
    BY DEF HeldWaits
  <2> QED
    BY <2>1, OSFrame
<1>6. CASE OSPop /\ osPc' = "dispatch"
  <2> DEFINE x == current_req'.core
  <2>1. /\ queue' = Pop(queue) /\ ~IsEmpty(queue)
        /\ UNCHANGED <<thread, status>>
    BY <1>6 DEF OSPop, coreVars
  <2>2. queue'.data_count = queue.data_count - 1
    BY <2>1, PopType
  <2>3. \A d \in CoreIds : Held(d)' <=> x = d
    BY <1>6 DEF Held
  <2>4. Stuck \ {x} \subseteq Stuck'
    BY <2>1, <2>3 DEF Stuck
  <2>5. /\ IsFiniteSet(Stuck \ {x})
        /\ Cardinality(Stuck \ {x}) \in Nat
        /\ Cardinality(Stuck) <= Cardinality(Stuck \ {x}) + 1
    BY <1>3, CountByOne
  <2>6. Cardinality(Stuck \ {x}) <= Cardinality(Stuck')
    BY <1>4, <2>4, FS_Subset
  <2> QED
    BY <1>2, <1>4, <2>2, <2>5, <2>6
<1>7. CASE ~(OSPop /\ osPc' = "dispatch")
  <2>1. queue' = queue
    <3>1. PICK d \in CoreIds : TRUE
      BY CoresAssumption DEF CoreIds
    <3> QED
      BY <1>1, <1>7, OSStepWaiters
  <2>2. Stuck \subseteq Stuck'
    BY <1>1, <1>5, <1>7, OSStepWaiters DEF Stuck
  <2>3. Cardinality(Stuck) <= Cardinality(Stuck')
    BY <1>4, <2>2, FS_Subset
  <2> QED
    BY <1>2, <1>4, <2>1, <2>3
<1> QED
  BY <1>6, <1>7

\* The OS's steps leave active_core_count at least at the cores not told to stop.
LEMMA OSStepActive ==
    ASSUME Good, OSStep
    PROVE  ActiveCounted'
<1> SUFFICES ASSUME ~Stopping'
             PROVE  Cardinality(NotTold') <= active_core_count'
  BY DEF ActiveCounted
<1> USE DEF Good, TypeInv, TypeOK, DutyInv
<1>1. ~Stopping
  BY OSFrame
<1>2. Cardinality(NotTold) <= active_core_count /\ active_core_count \in Nat
  BY <1>1 DEF ActiveCounted
<1>3. NotTold \in SUBSET CoreIds /\ NotTold' \in SUBSET CoreIds
  BY DEF NotTold, Started
<1>4. /\ IsFiniteSet(NotTold) /\ Cardinality(NotTold) \in Nat
      /\ IsFiniteSet(NotTold') /\ Cardinality(NotTold') \in Nat
  BY <1>3, CoresFinite
<1>5. ASSUME NotTold' \subseteq NotTold, active_core_count' = active_core_count
      PROVE  Cardinality(NotTold') <= active_core_count'
  <2>1. Cardinality(NotTold') <= Cardinality(NotTold)
    BY <1>4, <1>5, FS_Subset
  <2> QED
    BY <1>2, <1>4, <1>5, <2>1
<1>6. ASSUME NEW c \in CoreIds, NotTold' \subseteq NotTold \cup {c},
             active_core_count' = active_core_count + 1
      PROVE  Cardinality(NotTold') <= active_core_count'
  <2>1. /\ IsFiniteSet(NotTold \cup {c})
        /\ Cardinality(NotTold \cup {c}) \in Nat
        /\ Cardinality(NotTold \cup {c}) <= Cardinality(NotTold) + 1
    BY <1>3, CountByOne
  <2>2. Cardinality(NotTold') <= Cardinality(NotTold \cup {c})
    BY <1>6, <2>1, FS_Subset
  <2> QED
    BY <1>2, <1>4, <1>6, <2>1, <2>2
<1>7. CASE OSBoot
  <2>1. CASE idx < core_count
    BY <1>6, <1>7, <2>1, BootedIsNew DEF OSBoot, NotTold, Started
  <2>2. CASE ~(idx < core_count)
    BY <1>5, <1>7, <2>2 DEF OSBoot, NotTold, Started
  <2> QED
    BY <2>1, <2>2
<1>8. CASE OSNewCore
  <2>1. core_count \in CoreIds /\ UNCHANGED stop_running
    BY <1>8, NewCoreIsNew DEF OSNewCore
  <2>2. CASE /\ thread' = [thread EXCEPT ![core_count] = "check"]
             /\ active_core_count' = active_core_count + 1
    BY <1>6, <2>1, <2>2 DEF NotTold, Started
  <2>3. CASE UNCHANGED <<thread, active_core_count>>
    BY <1>5, <2>1, <2>3 DEF NotTold, Started
  <2> QED
    BY <1>8, <2>2, <2>3 DEF OSNewCore
<1>9. CASE OSHalt
  <2> DEFINE c == current_req.core
  <2>1. c \in CoreIds
    BY <1>9, RequestCore DEF OSHalt, Interrupts
  <2>2. thread[c] = "wait" /\ status[c] = "pending"
    BY <1>9, <2>1 DEF OSHalt, HeldWaits
  <2>3. c \in NotTold
    BY <1>1, <2>1, <2>2 DEF PostersRun, NotTold, Started
  <2>4. NotTold' = NotTold \ {c}
    BY <1>9, <2>1 DEF OSHalt, NotTold, Started
  <2>5. Cardinality(NotTold') = Cardinality(NotTold) - 1
    BY <1>4, <2>3, <2>4, FS_RemoveElement
  <2>6. active_core_count' = active_core_count - 1
    BY <1>9 DEF OSHalt
  <2> QED
    BY <1>2, <1>4, <2>5, <2>6
<1>10. CASE OSPop \/ OSSleep \/ OSSpurious \/ OSService \/ OSNewCoreBlocks \/ OSNewCoreFails
  BY <1>5, <1>10 DEF OSPop, OSSleep, OSSpurious, OSService, OSNewCoreBlocks,
     OSNewCoreFails, coreVars, osLocals, NotTold, Started
<1>11. CASE OSSignal
  BY <1>5, <1>11 DEF OSSignal, Signalled, NotTold, Started
<1>12. ~(OSBootFails \/ OSStopCore \/ OSKill \/ OSHandleError \/ OSExit)
  BY <1>1 DEF OSBootFails, OSStopCore, OSKill, OSHandleError, OSExit, Stopping
<1> QED
  BY <1>7, <1>8, <1>9, <1>10, <1>11, <1>12 DEF OSStep, OSDispatch

\* The whole invariant, for a step of the OS.
LEMMA OSStepGood ==
    ASSUME Good, OSStep
    PROVE  DutyInv'
  BY OSStepHeld, OSStepCores, OSStepQuiet, OSStepEmergency, OSStepStuck,
     OSStepActive DEF DutyInv

-----------------------------------------------------------------------------
(* The invariant holds *)

\* Before merry_os_start_vm no core runs, and the queue is empty.
LEMMA InitGood == Init => Good
<1> SUFFICES ASSUME Init PROVE DutyInv
  BY InitType, InitStart DEF Good
<1>1. Indexes = {} /\ queue.data_count = 0 /\ queue.tail = 0 /\ queue.head = 0
      /\ queue.ring = QueueLen + 1
  BY DEF Init, NewQueue, Indexes
<1>2. HeldWaits /\ UnansweredTold /\ RefusedStops /\ PostersRun
  BY NULLAssumption
  DEF Init, Uninit, Request, HeldWaits, UnansweredTold, RefusedStops, PostersRun
<1>3. QuietQueue
  BY <1>1, QueueLenAssumption
  DEF Init, QuietQueue, EntriesWait, EntriesDiffer, WaitersHaveEntries, FromHead
<1>4. EmergencyAtHead
  BY DEF Init, EmergencyAtHead, Emergency
<1>5. StuckCounted /\ ActiveCounted
  <2>1. Stuck = {} /\ NotTold = {} /\ active_core_count = 0
    BY DEF Init, Stuck, NotTold, Started
  <2>2. Cardinality({}) = 0
    BY FS_EmptySet
  <2>3. StuckCounted
    BY <1>1, <2>1, <2>2 DEF StuckCounted
  <2>4. ActiveCounted
    BY <2>1, <2>2 DEF ActiveCounted
  <2> QED
    BY <2>3, <2>4
<1> QED
  BY <1>2, <1>3, <1>4, <1>5 DEF DutyInv

\* Nothing changes.
LEMMA StutterDuty == DutyInv /\ UNCHANGED vars => DutyInv'
<1> SUFFICES ASSUME DutyInv, UNCHANGED vars PROVE DutyInv'
  OBVIOUS
<1>1. UNCHANGED <<queue, handle_more, thread, stop_running, status, osPc,
                  current_req, core_count, active_core_count, stop>>
  BY DEF vars, hdlrVars, coreVars, osVars, osLocals
<1>2. /\ Stopping' = Stopping /\ Emergency' = Emergency /\ Quiet' = Quiet
      /\ Indexes' = Indexes /\ NotTold' = NotTold
  BY <1>1 DEF Stopping, Emergency, Quiet, Indexes, NotTold, Started
<1>3. HeldWaits' /\ UnansweredTold' /\ RefusedStops' /\ PostersRun'
  BY <1>1 DEF DutyInv, HeldWaits, UnansweredTold, RefusedStops, PostersRun,
     LeftByBoot, Stopping
<1>4. EntriesWait' = EntriesWait /\ EntriesDiffer' = EntriesDiffer
      /\ WaitersHaveEntries' = WaitersHaveEntries
  BY <1>1, <1>2 DEF EntriesWait, EntriesDiffer, WaitersHaveEntries, Held
<1>5. QuietQueue' /\ EmergencyAtHead'
  BY <1>1, <1>2, <1>4 DEF DutyInv, QuietQueue, EmergencyAtHead
<1>6. Stuck' = Stuck
  BY <1>1 DEF Stuck, Held
<1>7. StuckCounted' /\ ActiveCounted'
  BY <1>1, <1>2, <1>6 DEF DutyInv, StuckCounted, ActiveCounted
<1> QED
  BY <1>3, <1>5, <1>7 DEF DutyInv

\* The whole invariant is inductive: the cores' steps, then the OS's.
LEMMA StepGood ==
    ASSUME NoSpurious, FewCores
    PROVE  Good /\ [Next]_vars => Good'
<1> SUFFICES ASSUME Good, [Next]_vars PROVE Good'
  OBVIOUS
<1>1. TypeInv' /\ StartInv'
  BY StepType, StepStart DEF Good
<1>2. DutyInv'
  BY StutterDuty, CoreStepGood, OSStepGood DEF Next, Good
<1> QED
  BY <1>1, <1>2 DEF Good

\* What the OS handles was written to its node: it is a panic, or carries a core.
LEMMA StepHandles == Good /\ HandlesWritten /\ [Next]_vars => HandlesWritten'
<1> SUFFICES ASSUME Good, HandlesWritten, [Next]_vars, osPc' = "dispatch"
             PROVE  current_req' # Uninit
  BY DEF HandlesWritten
<1>1. CASE OSPop
  <2>1. ~Stopping /\ ~IsEmpty(queue) /\ current_req' = HeadValue(queue)
    BY <1>1 DEF OSPop, Stopping
  <2>2. \A e \in Errors : PanicRequest(e) # Uninit
    BY DEF PanicRequest, Request, Uninit, Errors
  <2>3. Uninit.core \notin CoreIds
    BY NULLAssumption DEF Request, Uninit
  <2> QED
    BY <2>1, <2>2, <2>3, TakenIsWritten
<1>2. CASE UNCHANGED vars \/ \E c \in CoreIds : CoreStep(c)
  <2>1. osPc = "dispatch" /\ current_req' = current_req
    BY <1>2 DEF vars, osVars, osLocals, CoreStep, CoreCheck, CoreWork, CorePost,
       PostRefused, PostOverflow, PostAccepted, CoreResume, CoreFault,
       CoreSpurious, SignalHost, HostWakes
  <2> QED
    BY <2>1 DEF HandlesWritten
<1>3. CASE OSStep /\ ~OSPop
  BY <1>3 DEF OSStep, OSBoot, OSBootFails, OSSleep, OSSpurious, HostWakes,
     OSDispatch, OSHandleError, OSHalt, OSExit, OSService, OSNewCoreBlocks,
     OSNewCoreFails, OSNewCore, OSStopCore, OSKill, OSSignal, Handled
<1> QED
  BY <1>1, <1>2, <1>3 DEF Next

\* The OS handles requests that were posted and panics, never what malloc left
\* in a node, although emergency pushes put the count out of step with the tail.
THEOREM HandlesRequests ==
    ASSUME NoSpurious, FewCores
    PROVE  Spec => []HandlesWritten
<1>1. Init => Good /\ HandlesWritten
  BY InitGood DEF Init, HandlesWritten
<1>2. Good /\ HandlesWritten /\ [Next]_vars => Good' /\ HandlesWritten'
  BY StepGood, StepHandles
<1> QED
  BY <1>1, <1>2, PTL DEF Spec

\* The emergency entry of a full queue is what the OS takes next: the posts that
\* still go through do not reach it, for there are too few cores left.
THEOREM OverflowNotLost ==
    ASSUME NoSpurious, FewCores
    PROVE  Spec => []OverflowIsNext
<1>1. Init => Good
  BY InitGood
<1>2. Good /\ [Next]_vars => Good'
  BY StepGood
<1>3. Good => OverflowIsNext
  BY DEF Good, DutyInv, EmergencyAtHead, Emergency, OverflowIsNext,
     PanicRequest, Request
<1> QED
  BY <1>1, <1>2, <1>3, PTL DEF Spec

\* A core that is let go was answered, or told to stop before.
THEOREM WokenHaveAnswers ==
    ASSUME NoSpurious, FewCores
    PROVE  Spec => []WokenAnswered
<1>1. Init => Good
  BY InitGood
<1>2. Good /\ [Next]_vars => Good'
  BY StepGood
<1>3. Good => WokenAnswered
  BY DEF Good, DutyInv, UnansweredTold, WokenAnswered
<1> QED
  BY <1>1, <1>2, <1>3, PTL DEF Spec

\* Core c's entries are among those whose cores wait, and there is one at most.
LEMMA EntriesCount ==
    ASSUME Good, Quiet, NEW c \in CoreIds
    PROVE  /\ Entries(c) \in {0, 1}
           /\ Entries(c) > 0 <=> \E k \in Indexes : Entry(queue, k).core = c
<1> DEFINE S == {k \in 1..queue.data_count : Contents(queue)[k].core = c}
<1>1. queue.data_count \in Nat
  BY DEF Good, TypeInv, TypeOK, QueueType
<1>2. \A k \in 1..queue.data_count :
         k - 1 \in Indexes /\ Contents(queue)[k] = Entry(queue, k - 1)
  BY <1>1 DEF Contents, Entry, Indexes
<1>3. \A k \in Indexes :
         k + 1 \in 1..queue.data_count /\ Contents(queue)[k + 1] = Entry(queue, k)
  <2> TAKE k \in Indexes
  <2>1. k + 1 \in 1..queue.data_count /\ (k + 1) - 1 = k
    BY <1>1 DEF Indexes
  <2> QED
    BY <1>2, <2>1
<1>4. S # {} <=> \E k \in Indexes : Entry(queue, k).core = c
  BY <1>2, <1>3
<1>5. \A j, k \in S : j = k
  <2> TAKE j, k \in S
  <2>1. j - 1 = k - 1
    BY <1>2 DEF Good, DutyInv, QuietQueue, EntriesDiffer
  <2> QED
    BY <2>1
<1>6. CASE S = {}
  BY <1>4, <1>6, FS_EmptySet DEF Entries
<1>7. CASE S # {}
  <2>1. PICK k \in S : S = {k}
    BY <1>5, <1>7
  <2>2. Cardinality(S) = 1
    BY <2>1, FS_Singleton
  <2> QED
    BY <1>4, <1>7, <2>2 DEF Entries
<1> QED
  BY <1>6, <1>7

\* Until the first panic no post is lost, and none is queued or handled twice.
THEOREM WaitersCounted ==
    ASSUME NoSpurious, FewCores
    PROVE  Spec => []WaitersAreQueued
<1>1. Init => Good
  BY InitGood
<1>2. Good /\ [Next]_vars => Good'
  BY StepGood
<1>3. Good => WaitersAreQueued
  <2> SUFFICES ASSUME Good, Quiet, NEW c \in CoreIds
               PROVE  /\ thread[c] = "wait" <=> (Held(c) \/ Entries(c) > 0)
                      /\ Entries(c) <= IF Held(c) THEN 0 ELSE 1
    BY DEF WaitersAreQueued
  <2>1. /\ Entries(c) \in {0, 1}
        /\ Entries(c) > 0 <=> \E k \in Indexes : Entry(queue, k).core = c
    BY EntriesCount
  <2>2. Held(c) => thread[c] = "wait"
    BY DEF Good, DutyInv, HeldWaits, Held, Quiet
  <2>3. \A k \in Indexes : Entry(queue, k).core = c => thread[c] = "wait" /\ ~Held(c)
    BY DEF Good, DutyInv, QuietQueue, EntriesWait
  <2>4. thread[c] = "wait" /\ ~Held(c) => \E k \in Indexes : Entry(queue, k).core = c
    BY DEF Good, DutyInv, QuietQueue, WaitersHaveEntries
  <2> QED
    BY <2>1, <2>2, <2>3, <2>4
<1> QED
  BY <1>1, <1>2, <1>3, PTL DEF Spec

\* The OS ends its loop because it was told to stop, or because no core is
\* active: in the second case no core is left that has not been told.
LEMMA StepDone ==
    ASSUME NoSpurious
    PROVE  Good /\ DoneStopsAll /\ [Next]_vars => DoneStopsAll'
<1> SUFFICES ASSUME Good, DoneStopsAll, [Next]_vars, osPc' = "done",
                    NEW c \in Started'
             PROVE  stop_running'[c] \/ Untold(c)'
  BY DEF DoneStopsAll
<1>1. CASE OSPop
  <2>1. Started' = Started /\ stop_running' = stop_running
        /\ (LeftByBoot(c)' <=> LeftByBoot(c))
    BY <1>1 DEF OSPop, coreVars, Started, LeftByBoot
  <2>2. CASE stop
    BY <2>1, <2>2 DEF Good, StartInv, ToldInOrder, Untold
  <2>3. CASE ~stop
    <3>1. active_core_count = 0 /\ ~Stopping
      BY <1>1, <2>3 DEF OSPop, Stopping
    <3>2. NotTold \in SUBSET CoreIds
      BY DEF NotTold, Started
    <3>3. Cardinality(NotTold) = 0 /\ IsFiniteSet(NotTold)
      BY <3>1, <3>2, CoresFinite DEF Good, DutyInv, ActiveCounted
    <3>4. NotTold = {}
      BY <3>3, FS_EmptySet
    <3> QED
      BY <2>1, <3>4 DEF NotTold
  <2> QED
    BY <2>2, <2>3
<1>2. CASE UNCHANGED vars
  <2>1. UNCHANGED <<osPc, thread, stop_running, core_count, active_core_count, stop>>
    BY <1>2 DEF vars, coreVars, osVars, osLocals
  <2> QED
    BY <2>1 DEF DoneStopsAll, Untold, LeftByBoot, Started
<1>3. ASSUME NEW d \in CoreIds, CoreStep(d)
      PROVE  stop_running'[c] \/ Untold(c)'
  <2>1. osPc = "done" /\ c \in Started
        /\ (stop_running[c] => stop_running'[c])
        /\ (LeftByBoot(c)' <=> LeftByBoot(c)) /\ stop' = stop
    BY <1>3, CoreFrame DEF Good, Started
  <2> QED
    BY <2>1 DEF DoneStopsAll, Untold
<1>4. CASE OSStep /\ ~OSPop
  BY <1>4 DEF OSStep, OSBoot, OSBootFails, OSSleep, OSSpurious, HostWakes,
     OSDispatch, OSHandleError, OSHalt, OSExit, OSService, OSNewCoreBlocks,
     OSNewCoreFails, OSNewCore, OSStopCore, OSKill, OSSignal, Handled
<1> QED
  BY <1>1, <1>2, <1>3, <1>4 DEF Next

\* However the OS ends (an error, EXIT, a failed boot, the only core's HALT, or no
\* active core left), every core that was started has been told to stop, but for
\* the cores that Untold names.
THEOREM DoneStops ==
    ASSUME FewCores
    PROVE  Spec => []DoneStopsAll
<1>1. CASE NoSpurious
  <2>1. Init => Good /\ DoneStopsAll
    BY InitGood DEF Init, DoneStopsAll
  <2>2. Good /\ DoneStopsAll /\ [Next]_vars => Good' /\ DoneStopsAll'
    BY <1>1, StepGood, StepDone
  <2> QED
    BY <2>1, <2>2, PTL DEF Spec
<1>2. CASE ~NoSpurious
  <2>1. Init => TypeInv /\ StartInv
    BY InitType, InitStart
  <2>2. TypeInv /\ StartInv /\ [Next]_vars => TypeInv' /\ StartInv'
    BY StepType, StepStart
  <2>3. TypeInv /\ StartInv => DoneStopsAll
    BY <1>2 DEF NoSpurious, StartInv, ToldInOrder, DoneStopsAll, Untold
  <2> QED
    BY <2>1, <2>2, <2>3, PTL DEF Spec
<1> QED
  BY <1>1, <1>2

-----------------------------------------------------------------------------
(* The service *)

\* No running core is left out of core_count.
NoGapInv ==
    /\ active_core_count <= core_count
    /\ osPc = "boot" => core_count = BootCores

\* Without a failed boot, or when it is the first core's, that stays so.
LEMMA StepNoGap ==
    ASSUME NoBootGap
    PROVE  TypeInv /\ NoGapInv /\ [Next]_vars => NoGapInv'
<1> SUFFICES ASSUME TypeInv, NoGapInv, [Next]_vars PROVE NoGapInv'
  OBVIOUS
<1> USE DEF TypeInv, TypeOK, NoGapInv
<1>1. CASE UNCHANGED vars \/ \E c \in CoreIds : CoreStep(c)
  <2>1. UNCHANGED <<core_count, active_core_count>>
        /\ (osPc' = osPc \/ osPc' = "loop")
    BY <1>1 DEF vars, osVars, osLocals, CoreStep, CoreCheck, CoreWork, CorePost,
       PostRefused, PostOverflow, PostAccepted, CoreResume, CoreFault,
       CoreSpurious, SignalHost, HostWakes
  <2> QED
    BY <2>1
<1>2. CASE OSBoot
  BY <1>2, CoresAssumption DEF OSBoot, CountInv
<1>3. CASE OSBootFails
  <2>1. osPc = "boot" /\ idx < core_count /\ core_count = BootCores /\ BootCores = 1
    BY <1>3 DEF OSBootFails, NoBootGap
  <2>2. idx = 0
    BY <2>1
  <2> QED
    BY <1>3, <2>2 DEF OSBootFails
<1>4. CASE OSStep /\ ~OSBoot /\ ~OSBootFails /\ ~OSDispatch
  BY <1>4 DEF OSStep, OSPop, OSSleep, OSSpurious, HostWakes, OSStopCore, OSKill,
     OSSignal, osLocals
<1>5. CASE OSDispatch
  <2>1. CASE OSHalt
    BY <2>1 DEF OSHalt, Handled
  <2>2. CASE OSNewCore
    BY <2>2 DEF OSNewCore, Handled
  <2>3. CASE OSHandleError \/ OSExit \/ OSService \/ OSNewCoreBlocks \/ OSNewCoreFails
    BY <2>3 DEF OSHandleError, OSExit, OSService, OSNewCoreBlocks,
       OSNewCoreFails, Handled, osLocals
  <2> QED
    BY <1>5, <2>1, <2>2, <2>3 DEF OSDispatch
<1> QED
  BY <1>1, <1>2, <1>3, <1>4, <1>5 DEF Next, OSStep

\* Where a core stands, by its thread and what became of its post.
LEMMA StandingIs ==
    ASSUME NEW c \in CoreIds
    PROVE  /\ thread[c] = "none" => Standing(c) = "off"
           /\ thread[c] = "ended" => Standing(c) = "ended"
           /\ status[c] = "pending" =>
                 /\ thread[c] = "wait" => Standing(c) = "posted"
                 /\ thread[c] \in {"resume", "check", "exec"} => Standing(c) = "released"
           /\ status[c] # "pending" =>
                 /\ thread[c] \in {"wait", "resume"} => Standing(c) = "answered"
                 /\ thread[c] \in {"check", "exec"} => Standing(c) = "running"
  BY DEF Standing

\* The same after a step.
LEMMA StandingBecomes ==
    ASSUME NEW c \in CoreIds
    PROVE  /\ thread'[c] = "none" => Standing(c)' = "off"
           /\ thread'[c] = "ended" => Standing(c)' = "ended"
           /\ status'[c] = "pending" =>
                 /\ thread'[c] = "wait" => Standing(c)' = "posted"
                 /\ thread'[c] \in {"resume", "check", "exec"} => Standing(c)' = "released"
           /\ status'[c] # "pending" =>
                 /\ thread'[c] \in {"wait", "resume"} => Standing(c)' = "answered"
                 /\ thread'[c] \in {"check", "exec"} => Standing(c)' = "running"
           /\ thread'[c] = thread[c] /\ status'[c] = status[c]
                 => Standing(c)' = Standing(c)
  BY DEF Standing

\* The mapped variables: nothing changes, or one core's standing does.
LEMMA ServiceCore ==
    /\ (\A d \in CoreIds : Standing(d)' = Standing(d))
          => [d \in CoreIds |-> Standing(d)]' = [d \in CoreIds |-> Standing(d)]
    /\ \A c \in CoreIds :
          (\A d \in CoreIds \ {c} : Standing(d)' = Standing(d))
             => [d \in CoreIds |-> Standing(d)]'
                   = [[d \in CoreIds |-> Standing(d)] EXCEPT ![c] = Standing(c)']
  OBVIOUS

\* Nobody is told to stop, or one core is.
LEMMA ServiceTold ==
    /\ (\A d \in CoreIds : stop_running'[d] <=> stop_running[d])
          => {d \in CoreIds : stop_running[d]}' = {d \in CoreIds : stop_running[d]}
    /\ \A c \in CoreIds :
          /\ stop_running'[c]
          /\ \A d \in CoreIds \ {c} : stop_running'[d] <=> stop_running[d]
          => {d \in CoreIds : stop_running[d]}'
                = {d \in CoreIds : stop_running[d]} \cup {c}
  OBVIOUS

\* A step of a core is one of the service, or none.
LEMMA CoreStepService ==
    ASSUME Good, NoGapInv, NoSpurious, NEW c \in CoreIds, CoreStep(c)
    PROVE  [Service!Next]_Service!vars
<1> DEFINE core == [d \in CoreIds |-> Standing(d)]
           told == {d \in CoreIds : stop_running[d]}
<1> USE DEF Good, TypeInv, TypeOK, DutyInv
<1>1. /\ \A d \in CoreIds \ {c} :
            /\ thread'[d] = thread[d] /\ status'[d] = status[d]
            /\ stop_running'[d] = stop_running[d]
      /\ stop_running[c] => stop_running'[c]
      /\ thread[c] \in {"check", "exec", "resume"}
  BY CoreFrame
<1>2. \A d \in CoreIds \ {c} : Standing(d)' = Standing(d)
  BY <1>1, StandingBecomes
<1>3. core' = [core EXCEPT ![c] = Standing(c)'] /\ core[c] = Standing(c)
  BY <1>2, ServiceCore
<1>4. Standing(c)' = Standing(c) => core' = core
  BY <1>2, ServiceCore
<1>5. /\ stop_running'[c] => told' = told \cup {c}
      /\ (stop_running'[c] <=> stop_running[c]) => told' = told
      /\ c \in told <=> stop_running[c]
  BY <1>1, ServiceTold
<1>6. ~LeftByBoot(c)
  BY DEF LeftByBoot, NoGapInv
<1>7. /\ status[c] = "pending" /\ thread[c] \in {"resume", "check"} => stop_running[c]
      /\ thread[c] = "exec" => status[c] # "pending"
  BY <1>6 DEF UnansweredTold
<1> HIDE DEF core, told
<1>8. ASSUME Standing(c)' = Standing(c), (~handle_more)' \in {~handle_more, TRUE},
             stop_running'[c]
      PROVE  Service!Tell(c)
  BY <1>4, <1>5, <1>8 DEF Service!Tell, core, told
<1>9. ASSUME Standing(c)' = Standing(c), handle_more' = handle_more,
             stop_running'[c] <=> stop_running[c]
      PROVE  UNCHANGED Service!vars
  BY <1>4, <1>5, <1>9 DEF Service!vars, core, told
<1>10. CASE CoreCheck(c)
  <2>1. /\ thread[c] = "check" /\ status' = status
        /\ thread'[c] = IF stop_running[c] THEN "ended" ELSE "exec"
        /\ stop_running' = stop_running /\ handle_more' = handle_more
    BY <1>10 DEF CoreCheck, hdlrVars
  <2>2. CASE stop_running[c]
    <3>1. Standing(c) \in {"running", "released"} /\ Standing(c)' = "ended"
      BY <2>1, <2>2, StandingIs, StandingBecomes
    <3>2. Service!End(c)
      BY <1>3, <1>5, <2>1, <2>2, <3>1 DEF Service!End, core, told
    <3> QED
      BY <3>2 DEF Service!Next
  <2>3. CASE ~stop_running[c]
    <3>1. status[c] # "pending" /\ thread'[c] = "exec" /\ status'[c] # "pending"
      BY <1>7, <2>1, <2>3
    <3>2. Standing(c)' = Standing(c)
      BY <2>1, <3>1, StandingIs, StandingBecomes
    <3> QED
      BY <1>9, <2>1, <3>2
  <2> QED
    BY <2>2, <2>3
<1>11. CASE CoreWork(c)
  <2>1. /\ thread[c] = "exec" /\ thread'[c] = "check" /\ status' = status
        /\ stop_running' = stop_running /\ handle_more' = handle_more
    BY <1>11 DEF CoreWork, hdlrVars
  <2>2. Standing(c)' = Standing(c)
    BY <1>7, <2>1, StandingIs, StandingBecomes
  <2> QED
    BY <1>9, <2>1, <2>2
<1>12. CASE CorePost(c)
  <2>1. PICK i \in Instructions \cap Posting :
           PostRefused(c, i) \/ PostOverflow(c, i) \/ PostAccepted(c, i)
    BY <1>12 DEF CorePost
  <2>2. thread[c] = "exec" /\ Standing(c) = "running"
    BY <1>7, <1>12, StandingIs DEF CorePost
  <2>3. CASE PostRefused(c, i) \/ PostOverflow(c, i)
    <3>1. /\ thread'[c] = "check" /\ status'[c] = "refused"
          /\ handle_more' = handle_more
      BY <2>3 DEF PostRefused, PostOverflow, hdlrVars
    <3>2. Standing(c)' = Standing(c)
      BY <2>2, <3>1, StandingBecomes
    <3>3. CASE stop_running'[c]
      BY <1>8, <3>1, <3>2, <3>3 DEF Service!Next
    <3>4. CASE ~stop_running'[c]
      BY <1>1, <1>9, <3>1, <3>2, <3>4
    <3> QED
      BY <3>3, <3>4
  <2>4. CASE PostAccepted(c, i)
    <3>1. /\ thread'[c] = "wait" /\ status'[c] = "pending"
          /\ handle_more /\ handle_more' = handle_more /\ stop_running' = stop_running
      BY <2>4 DEF PostAccepted
    <3>2. Standing(c)' = "posted"
      BY <3>1, StandingBecomes
    <3>3. Service!Post(c)
      BY <1>3, <1>5, <2>2, <3>1, <3>2
      DEF Service!Post, Service!Move, core, told
    <3> QED
      BY <3>3 DEF Service!Next
  <2> QED
    BY <2>1, <2>3, <2>4
<1>13. CASE CoreResume(c)
  <2>1. /\ thread[c] = "resume" /\ thread'[c] = "check" /\ status' = status
        /\ handle_more' = handle_more
    BY <1>13 DEF CoreResume, hdlrVars
  <2>2. CASE status[c] = "pending"
    <3>1. Standing(c)' = Standing(c)
      BY <2>1, <2>2, StandingIs, StandingBecomes
    <3> QED
      BY <1>1, <1>7, <1>9, <2>1, <2>2, <3>1
  <2>3. CASE status[c] # "pending"
    <3>1. Standing(c) = "answered" /\ Standing(c)' = "running"
      BY <2>1, <2>3, StandingIs, StandingBecomes
    <3>2. told' \in {told, told \cup {c}}
      BY <1>1, <1>5
    <3>3. Service!Continue(c)
      BY <1>3, <2>1, <3>1, <3>2 DEF Service!Continue, Service!Move, core, told
    <3> QED
      BY <3>3 DEF Service!Next
  <2> QED
    BY <2>2, <2>3
<1>14. CASE CoreFault(c)
  <2>1. thread[c] = "exec" /\ status' = status /\ ~handle_more'
    BY <1>14 DEF CoreFault, RaisePanic, hdlrVars
  <2>2. Standing(c) = "running"
    BY <1>7, <2>1, StandingIs
  <2>3. CASE thread'[c] = "ended" /\ UNCHANGED stop_running
    <3>1. Standing(c)' = "ended"
      BY <2>3, StandingBecomes
    <3>2. Service!End(c)
      BY <1>3, <1>5, <2>1, <2>2, <2>3, <3>1 DEF Service!End, core, told
    <3> QED
      BY <3>2 DEF Service!Next
  <2>4. CASE thread'[c] = "check" /\ stop_running'[c]
    <3>1. Standing(c)' = Standing(c)
      BY <1>7, <2>1, <2>2, <2>4, StandingBecomes
    <3> QED
      BY <1>8, <2>1, <2>4, <3>1 DEF Service!Next
  <2> QED
    BY <1>14, <2>3, <2>4 DEF CoreFault
<1> QED
  BY <1>10, <1>11, <1>12, <1>13, <1>14 DEF CoreStep, CoreSpurious, NoSpurious

\* Nobody's standing changes, and nobody is told: no step of the service.
LEMMA ServiceStutters ==
    ASSUME \A d \in CoreIds : Standing(d)' = Standing(d),
           stop_running' = stop_running, handle_more' = handle_more
    PROVE  UNCHANGED Service!vars
  BY ServiceCore DEF Service!vars

\* A core that waits for its answer gets it: an answer of the service.
LEMMA ServiceAnswer ==
    ASSUME NEW c \in CoreIds, thread[c] = "wait", status[c] = "pending",
           thread' = thread, status'[c] # "pending",
           \A d \in CoreIds \ {c} : status'[d] = status[d],
           \/ \A d \in CoreIds : stop_running'[d] <=> stop_running[d]
           \/ /\ stop_running'[c]
              /\ \A d \in CoreIds \ {c} : stop_running'[d] <=> stop_running[d],
           handle_more' = handle_more \/ ~handle_more'
    PROVE  Service!Answer(c)
<1> DEFINE core == [d \in CoreIds |-> Standing(d)]
           told == {d \in CoreIds : stop_running[d]}
<1>1. Standing(c) = "posted" /\ Standing(c)' = "answered"
  BY StandingIs, StandingBecomes
<1>2. \A d \in CoreIds \ {c} : Standing(d)' = Standing(d)
  BY StandingBecomes
<1>3. core' = [core EXCEPT ![c] = "answered"] /\ core[c] = "posted"
  BY <1>1, <1>2, ServiceCore
<1>4. told' \in {told, told \cup {c}}
  BY ServiceTold
<1>5. (~handle_more)' \in {~handle_more, TRUE}
  OBVIOUS
<1> HIDE DEF core, told
<1> QED
  BY <1>3, <1>4, <1>5 DEF Service!Answer, Service!Move, core, told

\* The answer to a waiting core starts another one.
LEMMA ServiceCreate ==
    ASSUME NEW c \in CoreIds, NEW n \in CoreIds, n # c,
           thread[c] = "wait", status[c] = "pending", status'[c] # "pending",
           thread[n] = "none", status[n] # "pending",
           thread'[n] = "check", thread'[c] = "wait",
           \A d \in CoreIds \ {n} : thread'[d] = thread[d],
           \A d \in CoreIds \ {c} : status'[d] = status[d],
           stop_running' = stop_running, handle_more' = handle_more
    PROVE  Service!Create(c, n)
<1> DEFINE core == [d \in CoreIds |-> Standing(d)]
<1>1. /\ Standing(c) = "posted" /\ Standing(c)' = "answered"
      /\ Standing(n) = "off" /\ Standing(n)' = "running"
  BY StandingIs, StandingBecomes
<1>2. \A d \in CoreIds \ {c, n} : Standing(d)' = Standing(d)
  BY StandingBecomes
<1>3. core' = [core EXCEPT ![c] = "answered", ![n] = "running"]
  BY <1>1, <1>2
<1>4. core[c] = "posted" /\ core[n] = "off"
  BY <1>1
<1> HIDE DEF core
<1> QED
  BY <1>3, <1>4 DEF Service!Create, core

\* The handling of a request is the answer to it, or nothing yet.
LEMMA DispatchService ==
    ASSUME Good, StartInv', OSDispatch
    PROVE  [Service!Next]_Service!vars
<1> USE DEF Good, TypeInv, TypeOK, DutyInv
<1>1. CASE OSHandleError
  BY <1>1, StandingBecomes, ServiceStutters DEF OSHandleError, hdlrVars, coreVars
<1>2. CASE OSNewCoreBlocks
  BY <1>2, StandingBecomes, ServiceStutters DEF OSNewCoreBlocks, hdlrVars, coreVars
<1>3. CASE OSHalt \/ OSExit \/ OSService \/ OSNewCoreFails \/ OSNewCore
  <2>1. current_req.core \in CoreIds /\ osPc = "dispatch"
    BY <1>3, RequestCore DEF OSHalt, OSExit, OSService, OSNewCoreFails,
       OSNewCore, Interrupts
  <2>2. PICK c \in CoreIds : c = current_req.core
    BY <2>1
  <2>3. thread[c] = "wait" /\ status[c] = "pending"
    BY <2>1, <2>2 DEF HeldWaits
  <2>4. /\ status'[c] # "pending"
        /\ \A d \in CoreIds \ {c} : status'[d] = status[d]
    BY <1>3, <2>2 DEF OSHalt, OSExit, OSService, OSNewCoreFails, OSNewCore,
       Handled
  <2>5. CASE OSHalt \/ OSExit \/ OSService \/ OSNewCoreFails
             \/ (OSNewCore /\ thread' = thread)
    <3>1. thread' = thread
      BY <2>5 DEF OSHalt, OSExit, OSService, OSNewCoreFails
    <3>2. \/ \A d \in CoreIds : stop_running'[d] <=> stop_running[d]
          \/ /\ stop_running'[c]
             /\ \A d \in CoreIds \ {c} : stop_running'[d] <=> stop_running[d]
      BY <2>2, <2>5 DEF OSHalt, OSExit, OSService, OSNewCoreFails, OSNewCore
    <3>3. handle_more' = handle_more \/ ~handle_more'
      BY <2>5 DEF OSHalt, OSExit, OSService, OSNewCoreFails, OSNewCore,
         RaisePanic, hdlrVars
    <3>4. Service!Answer(c)
      BY <2>3, <2>4, <3>1, <3>2, <3>3, ServiceAnswer
    <3> QED
      BY <3>4 DEF Service!Next
  <2>6. CASE OSNewCore /\ thread' = [thread EXCEPT ![core_count] = "check"]
    <3>1. core_count \in CoreIds /\ thread[core_count] = "none"
      BY <2>6, NewCoreIsNew
    <3>2. PICK n \in CoreIds : n = core_count
      BY <3>1
    <3>3. n # c /\ status[n] # "pending" /\ thread[n] = "none"
      BY <2>3, <3>1, <3>2 DEF UnansweredTold
    <3>4. /\ thread'[n] = "check" /\ thread'[c] = "wait"
          /\ \A d \in CoreIds \ {n} : thread'[d] = thread[d]
      BY <2>3, <2>6, <3>2, <3>3
    <3>5. stop_running' = stop_running /\ handle_more' = handle_more
      BY <2>6 DEF OSNewCore, hdlrVars
    <3>6. Service!Create(c, n)
      BY <2>3, <2>4, <3>3, <3>4, <3>5, ServiceCreate
    <3> QED
      BY <3>6 DEF Service!Next
  <2>7. OSNewCore => thread' = thread \/ thread' = [thread EXCEPT ![core_count] = "check"]
    BY DEF OSNewCore
  <2> QED
    BY <1>3, <2>5, <2>6, <2>7
<1> QED
  BY <1>1, <1>2, <1>3 DEF OSDispatch

\* Waiting cores that are let go without an answer have been told to stop.
LEMMA ReleaseService ==
    ASSUME Good, NoGapInv, OSKill \/ OSSignal
    PROVE  [Service!Next]_Service!vars
<1> DEFINE core == [d \in CoreIds |-> Standing(d)]
           told == {d \in CoreIds : stop_running[d]}
           S == {d \in CoreIds : /\ thread[d] = "wait" /\ thread'[d] = "resume"
                                 /\ status[d] = "pending"}
<1> USE DEF Good, TypeInv, TypeOK, DutyInv
<1>1. /\ UNCHANGED <<status, stop_running, handle_more>>
      /\ \A d \in CoreIds :
            thread'[d] = thread[d] \/ (thread[d] = "wait" /\ thread'[d] = "resume")
  BY DEF OSKill, OSSignal, Signalled, hdlrVars
<1>2. \A d \in CoreIds : ~LeftByBoot(d)
  BY DEF LeftByBoot, NoGapInv
<1>3. \A d \in S : d \in told
  <2> SUFFICES ASSUME NEW d \in S PROVE stop_running[d]
    OBVIOUS
  <2>1. CASE OSKill
    BY <1>2, <2>1, AllTold DEF OSKill
  <2>2. CASE OSSignal
    <3>1. osPc = "signal" /\ current_req.core = d
      BY <2>2 DEF OSSignal, Signalled
    <3> QED
      BY <1>2, <3>1 DEF HeldWaits
  <2> QED
    BY <2>1, <2>2
<1>4. \A d \in S : Standing(d) = "posted" /\ Standing(d)' = "released"
  BY <1>1, StandingIs, StandingBecomes
<1>5. \A d \in CoreIds \ S : Standing(d)' = Standing(d)
  BY <1>1, StandingIs, StandingBecomes
<1>6. core' = [d \in CoreIds |-> IF d \in S THEN "released" ELSE core[d]]
  BY <1>4, <1>5
<1>7. \A d \in S : core[d] = "posted"
  BY <1>4
<1>8. CASE S = {}
  BY <1>1, <1>5, <1>8, ServiceStutters
<1>9. CASE S # {}
  <2>1. S \in SUBSET CoreIds
    OBVIOUS
  <2> HIDE DEF core, S
  <2>2. Service!Release(S)
    BY <1>1, <1>3, <1>6, <1>7, <1>9 DEF Service!Release, core
  <2> QED
    BY <2>1, <2>2 DEF Service!Next
<1> QED
  BY <1>8, <1>9

\* The other steps of the OS.
LEMMA OSStepService ==
    ASSUME Good, StartInv', NoGapInv, OSStep
    PROVE  [Service!Next]_Service!vars
<1> DEFINE core == [d \in CoreIds |-> Standing(d)]
           told == {d \in CoreIds : stop_running[d]}
<1> USE DEF Good, TypeInv, TypeOK, DutyInv
<1>1. CASE OSBoot
  <2>1. stop_running' = stop_running /\ handle_more' = handle_more /\ status' = status
    BY <1>1 DEF OSBoot, hdlrVars
  <2>2. CASE idx < core_count
    <3>1. /\ idx \in CoreIds /\ thread[idx] = "none"
          /\ thread' = [thread EXCEPT ![idx] = "check"]
      BY <1>1, <2>2, BootedIsNew DEF OSBoot
    <3>2. PICK n \in CoreIds : n = idx
      BY <3>1
    <3>3. /\ thread[n] = "none" /\ status[n] # "pending" /\ thread'[n] = "check"
          /\ \A d \in CoreIds \ {n} : thread'[d] = thread[d]
      BY <3>1, <3>2 DEF UnansweredTold
    <3>4. Standing(n) = "off" /\ Standing(n)' = "running"
          /\ \A d \in CoreIds \ {n} : Standing(d)' = Standing(d)
      BY <2>1, <3>3, StandingIs, StandingBecomes
    <3>5. core' = [core EXCEPT ![n] = "running"] /\ core[n] = "off"
      BY <3>4, ServiceCore
    <3> HIDE DEF core
    <3>6. Service!Start(n)
      BY <2>1, <3>5 DEF Service!Start, Service!Move, core
    <3> QED
      BY <3>6 DEF Service!Next
  <2>3. CASE ~(idx < core_count)
    BY <1>1, <2>1, <2>3, StandingBecomes, ServiceStutters DEF OSBoot
  <2> QED
    BY <2>2, <2>3
<1>2. CASE OSBootFails \/ OSPop \/ OSSleep \/ OSSpurious
  BY <1>2, StandingBecomes, ServiceStutters
  DEF OSBootFails, OSPop, OSSleep, OSSpurious, hdlrVars, coreVars
<1>3. CASE OSStopCore
  <2>1. /\ idx \in CoreIds /\ stop_running' = [stop_running EXCEPT ![idx] = TRUE]
        /\ thread' = thread /\ status' = status /\ handle_more' = handle_more
    BY <1>3, CoresAssumption DEF OSStopCore, CoreIds, hdlrVars
  <2>2. PICK n \in CoreIds : n = idx
    BY <2>1
  <2>3. \A d \in CoreIds : Standing(d)' = Standing(d)
    BY <2>1, StandingBecomes
  <2>4. core' = core
    BY <2>3, ServiceCore
  <2>5. /\ stop_running'[n]
        /\ \A d \in CoreIds \ {n} : stop_running'[d] <=> stop_running[d]
    BY <2>1, <2>2
  <2>6. told' = told \cup {n}
    BY <2>5, ServiceTold
  <2> HIDE DEF core, told
  <2>7. Service!Tell(n)
    BY <2>1, <2>4, <2>6 DEF Service!Tell, core, told
  <2> QED
    BY <2>7 DEF Service!Next
<1>4. CASE OSKill \/ OSSignal
  BY <1>4, ReleaseService
<1>5. CASE OSDispatch
  BY <1>5, DispatchService
<1> QED
  BY <1>1, <1>2, <1>3, <1>4, <1>5 DEF OSStep

\* The handler, the OS and the cores implement the service: one answer for each
\* post, nothing executed between them, and nothing after being let go without one.
THEOREM ImplementsService ==
    ASSUME NoSpurious, FewCores, NoBootGap
    PROVE  Spec => ServiceSpec
<1> DEFINE Inv == Good /\ NoGapInv
<1>1. Init => Inv /\ Service!Init
  <2> SUFFICES ASSUME Init PROVE NoGapInv /\ Service!Init
    BY InitGood
  <2>1. NoGapInv
    BY CoresAssumption DEF Init, NoGapInv
  <2>2. \A c \in CoreIds : Standing(c) = "off"
    BY StandingIs DEF Init
  <2> QED
    BY <2>1, <2>2 DEF Init, Service!Init
<1>2. Inv /\ [Next]_vars => Inv' /\ [Service!Next]_Service!vars
  <2> SUFFICES ASSUME Inv, [Next]_vars
               PROVE  Inv' /\ [Service!Next]_Service!vars
    OBVIOUS
  <2>1. Good' /\ NoGapInv'
    BY StepGood, StepNoGap DEF Good
  <2>2. CASE UNCHANGED vars
    <3>1. UNCHANGED <<thread, status, stop_running, handle_more>>
      BY <2>2 DEF vars, hdlrVars, coreVars
    <3> QED
      BY <2>1, <3>1, StandingBecomes, ServiceStutters
  <2>3. CASE OSStep
    BY <2>1, <2>3, OSStepService DEF Good
  <2>4. ASSUME NEW c \in CoreIds, CoreStep(c)
        PROVE  [Service!Next]_Service!vars
    BY <2>4, CoreStepService
  <2> QED
    BY <2>1, <2>2, <2>3, <2>4 DEF Next
<1> QED
  BY <1>1, <1>2, PTL DEF Spec, ServiceSpec, Service!Spec
=============================================================================
