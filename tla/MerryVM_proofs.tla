--------------------------- MODULE MerryVM_proofs ---------------------------
(***************************************************************************)
(* Type correctness of MerryVM, and that a panic cannot be lost, for every *)
(* number of cores, queue length, program and set of failures.             *)
(***************************************************************************)
EXTENDS MerryVM, TLAPS

\* What TypeOK needs to be inductive.  The active cores are among core_count,
\* but for a failed boot, after which the OS only stops; and the OS takes a
\* request only while some core is active and it has not been told to stop.
CountInv ==
    /\ osPc = "boot" => active_core_count = idx /\ idx <= core_count
    /\ stop => osPc \in {"signal", "loop", "done", "crashed"}
    /\ osPc \in {"stopcores", "crashed", "done"} \/ stop
          \/ active_core_count <= core_count
    /\ osPc = "dispatch" => active_core_count > 0

TypeInv == TypeOK /\ CountInv

\* The next node of the list is one of the list.
LEMMA NextNodeType ==
    ASSUME NEW q \in QueueType, NEW i \in 0..QueueLen
    PROVE  NextNode(q, i) \in 0..QueueLen
  BY QueueLenAssumption DEF NextNode, QueueType

\* A remainder is a position of the list.
LEMMA FromHeadType ==
    ASSUME NEW q \in QueueType, NEW k \in Nat
    PROVE  FromHead(q, k % q.ring) \in 0..QueueLen
<1>1. q.ring = QueueLen + 1 /\ q.head \in 0..QueueLen
  BY DEF QueueType
<1>2. k % (QueueLen + 1) \in 0..QueueLen
  BY QueueLenAssumption
<1> QED
  BY <1>1, <1>2, QueueLenAssumption DEF FromHead

\* merry_request_queue_push keeps the queue's shape and counts one more.
LEMMA PushType ==
    ASSUME NEW q \in QueueType, NEW r \in RequestType
    PROVE  /\ Push(q, r) \in QueueType
           /\ Push(q, r).data_count = q.data_count + 1
<1>1. NextNode(q, q.tail) \in 0..QueueLen
  BY NextNodeType DEF QueueType
<1>2. q.data_count + 1 \in Nat
  BY DEF QueueType
<1>3. [q.nodes EXCEPT ![q.tail] = r] \in [0..QueueLen -> RequestType]
  BY DEF QueueType
<1> QED
  BY <1>1, <1>2, <1>3 DEF Push, QueueType

\* The emergency push does too, and what it pushed is what a pop gives.
LEMMA PanicPushType ==
    ASSUME NEW q \in QueueType, NEW r \in RequestType
    PROVE  /\ PanicPush(q, r) \in QueueType
           /\ PanicPush(q, r).data_count = q.data_count + 1
           /\ ~IsEmpty(PanicPush(q, r))
           /\ HeadValue(PanicPush(q, r)) = r
<1>1. q.data_count \in Nat /\ q.data_count + 1 \in Nat
  BY DEF QueueType
<1>2. [q.nodes EXCEPT ![q.head] = r] \in [0..QueueLen -> RequestType]
  BY DEF QueueType
<1> DEFINE p == PanicPush(q, r)
           N == [0..QueueLen -> RequestType]
           R == [node_count : {QueueLen}, ring : {QueueLen + 1},
                 data_count : Nat,
                 head : 0..QueueLen, tail : 0..QueueLen, nodes : N]
<1>3. q \in R /\ [q.nodes EXCEPT ![q.head] = r] \in N
  BY <1>2 DEF QueueType
<1>4. /\ p.data_count = q.data_count + 1
      /\ p.head = q.head
      /\ p.nodes = [q.nodes EXCEPT ![q.head] = r]
  BY DEF PanicPush, QueueType
<1>5. HeadValue(p) = r
  BY <1>4 DEF QueueType, HeadValue
<1>6. p \in QueueType
  <2> HIDE DEF N
  <2>1. PanicPush(q, r) \in R
    BY <1>1, <1>3 DEF PanicPush
  <2> QED
    BY <2>1 DEF N, QueueType
<1> HIDE DEF p
<1>7. ~IsEmpty(p)
  BY <1>1, <1>4 DEF IsEmpty
<1> QED
  BY <1>4, <1>5, <1>6, <1>7 DEF p

\* merry_request_queue_pop keeps the queue's shape and counts one less.
LEMMA PopType ==
    ASSUME NEW q \in QueueType, ~IsEmpty(q)
    PROVE  /\ Pop(q) \in QueueType
           /\ Pop(q).data_count = q.data_count - 1
           /\ HeadValue(q) \in RequestType
<1>1. NextNode(q, q.head) \in 0..QueueLen
  BY NextNodeType DEF QueueType
<1>2. q.data_count - 1 \in Nat
  BY DEF QueueType, IsEmpty
<1> QED
  BY <1>1, <1>2 DEF Pop, QueueType, HeadValue

\* So does kill_requests, however many it pops.
LEMMA KillType ==
    ASSUME NEW q \in QueueType
    PROVE  [q EXCEPT !.head = FromHead(q, Kills(q) % q.ring),
                     !.data_count = @ - Kills(q)] \in QueueType
<1>1. q.data_count \in Nat
  BY DEF QueueType
<1>2. Kills(q) \in Nat /\ q.data_count - Kills(q) \in Nat
  BY <1>1 DEF Kills
<1>3. FromHead(q, Kills(q) % q.ring) \in 0..QueueLen
  BY <1>2, FromHeadType
<1> QED
  BY <1>2, <1>3 DEF QueueType

\* A request with a number that only INTR or HALT post carries its core.
LEMMA RequestCore ==
    ASSUME NEW r \in RequestType, r.number \in Interrupts \ {"ERROR"}
    PROVE  r.core \in CoreIds
  BY DEF RequestType, Interrupts, PanicRequest, Request, Errors, Uninit

\* merry_requestHdlr_panic keeps the handler's types, whether it pushes or not.
LEMMA RaisedType ==
    ASSUME TypeInv, RaisePanic("ERROR")
    PROVE  queue' \in QueueType /\ handle_more' \in BOOLEAN
<1>0. queue \in QueueType /\ handle_more \in BOOLEAN
  BY DEF TypeInv, TypeOK
<1>1. CASE handle_more
  <2>1. PanicRequest("ERROR") \in RequestType
    BY DEF RequestType, Errors
  <2>2. queue' = PanicPush(queue, PanicRequest("ERROR")) /\ handle_more' = FALSE
    BY <1>1 DEF RaisePanic
  <2> QED
    BY <1>0, <1>1, <2>1, <2>2, PanicPushType
<1>2. CASE ~handle_more
  <2>1. queue' = queue /\ handle_more' = handle_more
    BY <1>2 DEF RaisePanic, hdlrVars
  <2> QED
    BY <1>0, <1>2, <2>1
<1> QED
  BY <1>1, <1>2

\* The VM before merry_os_start_vm.
LEMMA InitType == Init => TypeInv
<1> SUFFICES ASSUME Init PROVE TypeInv
  OBVIOUS
<1>1. Uninit \in RequestType
  BY DEF RequestType
<1>2. queue \in QueueType
  BY <1>1, QueueLenAssumption DEF Init, NewQueue, QueueType
<1>4. "WORK" \in AllInstructions
  BY DEF AllInstructions
<1>5. TypeOK
  <2>1. /\ idx \in 0..MaxCores /\ core_count \in 0..MaxCores
        /\ active_core_count \in 0..MaxCores
    BY CoresAssumption DEF Init
  <2>2. /\ thread \in [CoreIds -> ThreadPlaces]
        /\ instr \in [CoreIds -> AllInstructions]
        /\ stop_running \in [CoreIds -> BOOLEAN]
        /\ status \in [CoreIds -> {"answered", "pending", "refused"}]
    BY <1>4 DEF Init, ThreadPlaces
  <2>3. ret \in {<<"none">>, <<"failure">>} \cup {<<"Ma", c>> : c \in CoreIds}
    BY DEF Init
  <2> QED
    BY <1>1, <1>2, <2>1, <2>2, <2>3 DEF Init, TypeOK, OSPlaces
<1>6. CountInv
  BY CoresAssumption DEF Init, CountInv
<1> QED
  BY <1>5, <1>6 DEF TypeInv

\* The steps of a core's thread.
LEMMA CoreStepType ==
    ASSUME TypeInv, NEW c \in CoreIds, CoreStep(c)
    PROVE  TypeInv'
<1> USE DEF TypeInv
<1>1. CASE CoreCheck(c)
  BY <1>1 DEF CoreCheck, TypeOK, CountInv, osVars, osLocals, hdlrVars, ThreadPlaces
<1>2. CASE CoreWork(c)
  BY <1>2 DEF CoreWork, TypeOK, CountInv, osVars, osLocals, hdlrVars, ThreadPlaces
<1>3. CASE CorePost(c)
  <2>1. ASSUME NEW i \in Instructions \cap Posting, PostRefused(c, i),
               UNCHANGED instr
        PROVE  TypeInv'
    BY <1>3, <2>1 DEF CorePost, PostRefused, Returned, TypeOK, CountInv,
       osLocals, hdlrVars, ThreadPlaces
  <2>2. ASSUME NEW i \in Instructions \cap Posting, PostOverflow(c, i),
               UNCHANGED instr
        PROVE  TypeInv'
    <3>1. PanicRequest("REQBUFFEROVERFLOW") \in RequestType
      BY DEF RequestType, Errors
    <3>2. queue' \in QueueType
      BY <2>2, <3>1, PanicPushType DEF PostOverflow, TypeOK
    <3> QED
      BY <1>3, <2>2, <3>2 DEF CorePost, PostOverflow, SignalHost,
         HostWakes, Returned, TypeOK, CountInv, osLocals, ThreadPlaces, OSPlaces
  <2>3. ASSUME NEW i \in Instructions \cap Posting, PostAccepted(c, i),
               instr' = [instr EXCEPT ![c] = i]
        PROVE  TypeInv'
    <3> DEFINE r == Request(IF i = "OP_HALT" THEN "REQHALT" ELSE i, c)
    <3>1. r \in RequestType
      BY DEF RequestType, Request, Posting, Interrupts
    <3>2. queue' \in QueueType
      BY <2>3, <3>1, PushType DEF PostAccepted, TypeOK
    <3>3. i \in AllInstructions
      BY DEF AllInstructions
    <3> QED
      BY <1>3, <2>3, <3>2, <3>3 DEF CorePost, PostAccepted, SignalHost,
         HostWakes, TypeOK, CountInv, osLocals, ThreadPlaces, OSPlaces
  <2> QED
    BY <1>3, <2>1, <2>2, <2>3 DEF CorePost
<1>4. CASE CoreResume(c)
  BY <1>4 DEF CoreResume, Returned, TypeOK, CountInv, osVars, osLocals,
     hdlrVars, ThreadPlaces, AllInstructions
<1>5. CASE CoreFault(c)
  <2>1. RaisePanic("ERROR")
    BY <1>5 DEF CoreFault
  <2>2. queue' \in QueueType /\ handle_more' \in BOOLEAN
    BY <2>1, RaisedType
  <2>3. /\ thread' \in [CoreIds -> ThreadPlaces]
        /\ stop_running' \in [CoreIds -> BOOLEAN]
    BY <1>5 DEF CoreFault, TypeOK, ThreadPlaces
  <2>4. \/ UNCHANGED <<osPc, lockHeld>>
        \/ osPc = "asleep" /\ osPc' = "loop" /\ lockHeld' = TRUE
    BY <1>5 DEF CoreFault, SignalHost, HostWakes
  <2> QED
    BY <1>5, <2>2, <2>3, <2>4
    DEF CoreFault, TypeOK, CountInv, osLocals, OSPlaces
<1>6. CASE CoreSpurious(c)
  BY <1>6 DEF CoreSpurious, TypeOK, CountInv, osVars, osLocals, hdlrVars,
     ThreadPlaces
<1> QED
  BY <1>1, <1>2, <1>3, <1>4, <1>5, <1>6 DEF CoreStep

\* The steps of the OS's thread but the requests it handles.
LEMMA OSStepType ==
    ASSUME TypeInv, OSStep, ~OSDispatch
    PROVE  TypeInv'
<1> USE CoresAssumption DEF TypeInv, CoreIds
<1>1. CASE OSBoot
  <2>1. CASE idx < core_count
    <3>1. idx \in CoreIds /\ idx + 1 \in 0..MaxCores /\ idx + 1 <= core_count
      BY <2>1 DEF TypeOK
    <3>2. active_core_count = idx
      BY <1>1 DEF OSBoot, CountInv
    <3>3. thread' \in [CoreIds -> ThreadPlaces]
      BY <1>1, <2>1, <3>1 DEF OSBoot, TypeOK, ThreadPlaces
    <3> QED
      BY <1>1, <2>1, <3>1, <3>2, <3>3 DEF OSBoot, TypeOK, CountInv, hdlrVars
  <2>2. CASE ~(idx < core_count)
    BY <1>1, <2>2 DEF OSBoot, TypeOK, CountInv, hdlrVars, OSPlaces
  <2> QED
    BY <2>1, <2>2
<1>2. CASE OSBootFails
  BY <1>2 DEF OSBootFails, TypeOK, CountInv, hdlrVars, coreVars, OSPlaces
<1>3. CASE OSPop
  <2>1. CASE UNCHANGED <<queue, current_req>> /\ osPc' \in {"done", "sleep"}
    BY <1>3, <2>1 DEF OSPop, TypeOK, CountInv, coreVars, OSPlaces
  <2>2. CASE /\ ~(stop \/ active_core_count = 0) /\ ~IsEmpty(queue)
             /\ current_req' = HeadValue(queue) /\ queue' = Pop(queue)
             /\ osPc' = "dispatch"
    <3>1. queue' \in QueueType /\ current_req' \in RequestType
      BY <2>2, PopType DEF TypeOK
    <3> QED
      BY <1>3, <2>2, <3>1 DEF OSPop, TypeOK, CountInv, coreVars, OSPlaces
  <2> QED
    BY <1>3, <2>1, <2>2 DEF OSPop
<1>4. CASE OSSleep
  BY <1>4 DEF OSSleep, TypeOK, CountInv, hdlrVars, coreVars, osLocals, OSPlaces
<1>5. CASE OSSpurious
  BY <1>5 DEF OSSpurious, HostWakes, TypeOK, CountInv, hdlrVars, coreVars,
     osLocals, OSPlaces
<1>6. CASE OSStopCore
  BY <1>6 DEF OSStopCore, TypeOK, CountInv, hdlrVars
<1>7. CASE OSKill
  <2>1. queue' \in QueueType
    BY <1>7, KillType DEF OSKill, TypeOK
  <2>2. thread' \in [CoreIds -> ThreadPlaces]
    BY <1>7 DEF OSKill, TypeOK, ThreadPlaces
  <2> QED
    BY <1>7, <2>1, <2>2 DEF OSKill, TypeOK, CountInv, OSPlaces
<1>8. CASE OSSignal
  <2>1. Uninit \in RequestType
    BY DEF RequestType
  <2>2. thread' \in [CoreIds -> ThreadPlaces]
    BY <1>8 DEF OSSignal, Signalled, TypeOK, ThreadPlaces
  <2> QED
    BY <1>8, <2>1, <2>2 DEF OSSignal, TypeOK, CountInv, hdlrVars, OSPlaces
<1> QED
  BY <1>1, <1>2, <1>3, <1>4, <1>5, <1>6, <1>7, <1>8 DEF OSStep

\* The requests the OS handles.
LEMMA OSDispatchType ==
    ASSUME TypeInv, OSDispatch
    PROVE  TypeInv'
<1> USE CoresAssumption DEF TypeInv, CoreIds
<1> DEFINE c == current_req.core
<1>0. osPc = "dispatch" /\ ~stop /\ active_core_count \in 1..core_count
  BY DEF OSDispatch, OSHandleError, OSHalt, OSExit, OSService,
     OSNewCoreBlocks, OSNewCoreFails, OSNewCore, TypeOK, CountInv
<1>1. current_req.number \in {"REQHALT", "EXIT", "NEWCORE", "SERVICE"}
         => c \in CoreIds
  BY RequestCore DEF TypeOK, Interrupts
<1>2. CASE OSHandleError
  BY <1>2 DEF OSHandleError, TypeOK, CountInv, hdlrVars, coreVars, OSPlaces
<1>3. CASE OSHalt
  <2>1. status' \in [CoreIds -> {"answered", "pending", "refused"}]
    BY <1>1, <1>3 DEF OSHalt, Handled, TypeOK
  <2>2. stop_running' \in [CoreIds -> BOOLEAN]
    BY <1>1, <1>3 DEF OSHalt, TypeOK
  <2>3. ret' \in {<<"none">>, <<"failure">>} \cup {<<"Ma", d>> : d \in CoreIds}
    BY <1>1, <1>3 DEF OSHalt, TypeOK
  <2>4. active_core_count' \in 0..MaxCores /\ active_core_count' <= core_count
    BY <1>0, <1>3 DEF OSHalt, TypeOK
  <2> QED
    BY <1>3, <2>1, <2>2, <2>3, <2>4
    DEF OSHalt, Handled, TypeOK, CountInv, hdlrVars, OSPlaces
<1>4. CASE OSExit
  <2>1. status' \in [CoreIds -> {"answered", "pending", "refused"}]
    BY <1>1, <1>4 DEF OSExit, TypeOK
  <2>2. ret' \in {<<"none">>, <<"failure">>} \cup {<<"Ma", d>> : d \in CoreIds}
    BY <1>1, <1>4 DEF OSExit
  <2> QED
    BY <1>4, <2>1, <2>2 DEF OSExit, TypeOK, CountInv, hdlrVars, OSPlaces
<1>5. CASE OSService
  <2>1. status' \in [CoreIds -> {"answered", "pending", "refused"}]
    BY <1>1, <1>5 DEF OSService, Handled, TypeOK
  <2>2. UNCHANGED hdlrVars \/ RaisePanic("ERROR")
    BY <1>5 DEF OSService
  <2>3. queue' \in QueueType /\ handle_more' \in BOOLEAN
    <3>1. CASE UNCHANGED hdlrVars
      BY <3>1 DEF hdlrVars, TypeOK
    <3> QED
      BY <2>2, <3>1, RaisedType
  <2> QED
    BY <1>5, <2>1, <2>3
    DEF OSService, Handled, TypeOK, CountInv, osLocals, OSPlaces
<1>7. CASE OSNewCoreBlocks
  BY <1>7 DEF OSNewCoreBlocks, TypeOK, CountInv, osLocals, hdlrVars, coreVars,
     OSPlaces
<1>8. CASE OSNewCoreFails
  BY <1>1, <1>8 DEF OSNewCoreFails, Handled, TypeOK, CountInv, osLocals,
     hdlrVars, OSPlaces
<1>9. CASE OSNewCore
  <2>1. /\ core_count \in CoreIds
        /\ core_count' \in 0..MaxCores /\ core_count' = core_count + 1
    BY <1>9 DEF OSNewCore, TypeOK
  <2>2. status' \in [CoreIds -> {"answered", "pending", "refused"}]
    BY <1>1, <1>9 DEF OSNewCore, Handled, TypeOK
  <2>3. thread' \in [CoreIds -> ThreadPlaces]
    BY <1>9, <2>1 DEF OSNewCore, TypeOK, ThreadPlaces
  <2>4. active_core_count' \in 0..MaxCores /\ active_core_count' <= core_count'
    BY <1>0, <1>9, <2>1 DEF OSNewCore, TypeOK
  <2>5. osPc' = "signal"
    BY <1>9 DEF OSNewCore, Handled
  <2> QED
    BY <1>9, <2>1, <2>2, <2>3, <2>4, <2>5
    DEF OSNewCore, TypeOK, CountInv, hdlrVars, OSPlaces
<1> QED
  BY <1>2, <1>3, <1>4, <1>5, <1>7, <1>8, <1>9 DEF OSDispatch

\* Nothing changes.
LEMMA StutterType == TypeInv /\ UNCHANGED vars => TypeInv'
  BY DEF TypeInv, TypeOK, CountInv, vars, hdlrVars, coreVars, osVars, osLocals

\* Every step of a core or of the OS.
LEMMA StepType == TypeInv /\ [Next]_vars => TypeInv'
  BY StutterType, CoreStepType, OSStepType, OSDispatchType DEF Next

\* Every variable keeps its type, for any number of cores, queue length,
\* program and failures.
THEOREM TypeCorrect == Spec => []TypeOK
<1>1. Init => TypeInv
  BY InitType
<1>2. TypeInv /\ [Next]_vars => TypeInv'
  BY StepType
<1>3. TypeInv => TypeOK
  BY DEF TypeInv
<1> QED
  BY <1>1, <1>2, <1>3, PTL DEF Spec

-----------------------------------------------------------------------------

\* The head of the queue is a panic.
PanicAtHead == ~IsEmpty(queue) /\ HeadValue(queue).number \in Errors

\* merry_requestHdlr_panic puts the panic at the head, unless an earlier one is there.
LEMMA RaisedIsNext ==
    ASSUME TypeInv, PanicIsNext, RaisePanic("ERROR")
    PROVE  ~handle_more' /\ (PanicAtHead' \/ Stopping)
<1>1. CASE handle_more
  <2>1. PanicRequest("ERROR") \in RequestType
    BY DEF RequestType, Errors
  <2>2. /\ ~IsEmpty(queue') /\ HeadValue(queue') = PanicRequest("ERROR")
        /\ ~handle_more'
    BY <1>1, <2>1, PanicPushType DEF RaisePanic, TypeInv, TypeOK
  <2> QED
    BY <2>2 DEF PanicAtHead, PanicRequest, Request, Errors
<1>2. CASE ~handle_more
  BY <1>2 DEF RaisePanic, hdlrVars, PanicIsNext, PanicAtHead, IsEmpty, HeadValue
<1> QED
  BY <1>1, <1>2

\* The panic at the head of the queue is taken by the next pop, and nobody puts
\* anything in its place.
LEMMA StepPanic == TypeInv /\ PanicIsNext /\ [Next]_vars => PanicIsNext'
<1> SUFFICES ASSUME TypeInv, PanicIsNext, [Next]_vars
             PROVE  PanicIsNext'
  OBVIOUS
<1>1. ~handle_more => Stopping \/ PanicAtHead
  BY DEF PanicIsNext, PanicAtHead
<1> SUFFICES ASSUME ~handle_more' PROVE Stopping' \/ PanicAtHead'
  BY DEF PanicIsNext, PanicAtHead
<1>2. ASSUME UNCHANGED hdlrVars, Stopping => Stopping'
      PROVE  Stopping' \/ PanicAtHead'
  BY <1>1, <1>2 DEF hdlrVars, PanicAtHead, IsEmpty, HeadValue
<1>3. CASE UNCHANGED vars
  BY <1>2, <1>3 DEF vars, coreVars, osVars, osLocals, Stopping
<1>4. ASSUME NEW c \in CoreIds, CoreStep(c) PROVE Stopping' \/ PanicAtHead'
  <2>1. CASE CoreCheck(c) \/ CoreWork(c) \/ CoreResume(c) \/ CoreSpurious(c)
    BY <1>2, <2>1 DEF CoreCheck, CoreWork, CoreResume, CoreSpurious, osVars,
       osLocals, Stopping
  <2>2. CASE CorePost(c)
    <3>1. PICK i \in Instructions \cap Posting :
             PostRefused(c, i) \/ PostOverflow(c, i) \/ PostAccepted(c, i)
      BY <2>2 DEF CorePost
    <3>2. ~(PostOverflow(c, i) \/ PostAccepted(c, i))
      <4>1. ASSUME PostOverflow(c, i) PROVE FALSE
        BY <4>1 DEF PostOverflow
      <4>2. ASSUME PostAccepted(c, i) PROVE FALSE
        BY <4>2 DEF PostAccepted
      <4> QED
        BY <4>1, <4>2
    <3>3. UNCHANGED hdlrVars /\ UNCHANGED <<osPc, stop, current_req>>
      BY <2>2, <3>1, <3>2 DEF CorePost, PostRefused, osLocals
    <3> QED
      BY <1>2, <3>3 DEF Stopping
  <2>3. CASE CoreFault(c)
    <3>1. Stopping => Stopping'
      BY <2>3 DEF CoreFault, SignalHost, HostWakes, osLocals, Stopping
    <3>2. PanicAtHead' \/ Stopping
      BY <2>3, RaisedIsNext DEF CoreFault
    <3> QED
      BY <3>1, <3>2
  <2> QED
    BY <1>4, <2>1, <2>2, <2>3 DEF CoreStep
<1>5. CASE OSPop
  <2>1. CASE stop \/ active_core_count = 0
    BY <1>5, <2>1 DEF OSPop, Stopping
  <2>2. CASE ~(stop \/ active_core_count = 0) /\ IsEmpty(queue)
    BY <1>1, <1>5, <2>2 DEF OSPop, Stopping, PanicAtHead
  <2>3. CASE ~(stop \/ active_core_count = 0) /\ ~IsEmpty(queue)
    BY <1>1, <1>5, <2>3 DEF OSPop, Stopping, PanicAtHead
  <2> QED
    BY <2>1, <2>2, <2>3
<1>6. CASE OSBoot \/ OSBootFails \/ OSSleep \/ OSSpurious \/ OSStopCore
  BY <1>2, <1>6 DEF OSBoot, OSBootFails, OSSleep, OSSpurious, HostWakes,
     OSStopCore, coreVars, osLocals, hdlrVars, Stopping
<1>7. CASE OSKill
  BY <1>7 DEF OSKill, Stopping
<1>8. CASE OSSignal
  BY <1>2, <1>8 DEF OSSignal, Stopping
<1>9. CASE OSHandleError \/ OSExit
  BY <1>9 DEF OSHandleError, OSExit, Stopping
<1>10. CASE OSHalt \/ OSNewCoreBlocks \/ OSNewCoreFails \/ OSNewCore
  <2>1. UNCHANGED hdlrVars /\ (stop => stop')
    BY <1>10 DEF OSHalt, OSNewCoreBlocks, OSNewCoreFails, OSNewCore,
       osLocals
  <2>2. osPc = "dispatch" /\ current_req.number \notin Errors \cup {"EXIT"}
    BY <1>10 DEF OSHalt, OSNewCoreBlocks, OSNewCoreFails, OSNewCore,
       Errors
  <2> QED
    BY <1>2, <2>1, <2>2 DEF Stopping
<1>11. CASE OSService
  <2>1. Stopping => Stopping'
    BY <1>11 DEF OSService, osLocals, Stopping, Errors
  <2> QED
    BY <1>2, <1>11, <2>1, RaisedIsNext DEF OSService
<1> QED
  BY <1>3, <1>4, <1>5, <1>6, <1>7, <1>8, <1>9, <1>10, <1>11
  DEF Next, OSStep, OSDispatch

\* A panic is never lost: until the OS stops the VM over it, it is the entry the
\* OS takes next.
THEOREM PanicNotLost == Spec => []PanicIsNext
<1>1. Init => TypeInv /\ PanicIsNext
  BY InitType DEF Init, PanicIsNext
<1>2. TypeInv /\ PanicIsNext /\ [Next]_vars => TypeInv' /\ PanicIsNext'
  BY StepType, StepPanic
<1> QED
  BY <1>1, <1>2, PTL DEF Spec

-----------------------------------------------------------------------------

\* A result means that the OS has taken its last request: it is in
\* prepare_for_exit, or the only core halted.
RetInv == ret # <<"none">> => stop \/ osPc \in {"stopcores", "crashed"}

\* A step keeps that, and does not touch a result that is there: what sets ret
\* is the handling of a request, and no request is handled after it.
LEMMA StepRet ==
    TypeInv /\ RetInv /\ [Next]_vars
        => RetInv' /\ (ret # <<"none">> => UNCHANGED ret)
<1> SUFFICES ASSUME TypeInv, RetInv, [Next]_vars
             PROVE  RetInv' /\ (ret # <<"none">> => UNCHANGED ret)
  OBVIOUS
<1>1. osPc = "dispatch" => ret = <<"none">>
  BY DEF RetInv, TypeInv, CountInv
<1>2. CASE UNCHANGED vars
  BY <1>2 DEF vars, osVars, osLocals, RetInv
<1>3. ASSUME NEW c \in CoreIds, CoreStep(c)
      PROVE  RetInv' /\ UNCHANGED ret
  BY <1>3 DEF CoreStep, CoreCheck, CoreWork, CorePost, PostRefused,
     PostOverflow, PostAccepted, SignalHost, HostWakes, CoreResume, CoreFault,
     CoreSpurious, osVars, osLocals, RetInv
<1>4. CASE OSStep /\ ~OSDispatch
  BY <1>4 DEF OSStep, OSBoot, OSBootFails, OSPop, OSSleep, OSSpurious,
     HostWakes, OSStopCore, OSKill, OSSignal, osLocals, RetInv
<1>5. CASE OSDispatch
  <2>1. osPc = "dispatch"
    BY <1>5 DEF OSDispatch, OSHandleError, OSHalt, OSExit, OSService,
       OSNewCoreBlocks, OSNewCoreFails, OSNewCore
  <2>2. RetInv'
    BY <1>1, <1>5, <2>1 DEF OSDispatch, OSHandleError, OSHalt, OSExit,
       OSService, OSNewCoreBlocks, OSNewCoreFails, OSNewCore, osLocals, RetInv
  <2> QED
    BY <1>1, <2>1, <2>2
<1> QED
  BY <1>2, <1>3, <1>4, <1>5 DEF Next

\* The VM's result is that of one request: the first error, EXIT or last HALT
\* decides it, and nothing the cores post later changes it.
THEOREM ResultDecided == Spec => ResultDecidedOnce
<1>1. Init => TypeInv /\ RetInv
  BY InitType DEF Init, RetInv
<1>2. TypeInv /\ RetInv /\ [Next]_vars
        => /\ TypeInv' /\ RetInv'
           /\ [ret # <<"none">> => UNCHANGED ret]_vars
  BY StepType, StepRet
<1> QED
  BY <1>1, <1>2, PTL DEF Spec, ResultDecidedOnce
=============================================================================
