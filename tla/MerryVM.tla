------------------------------- MODULE MerryVM -------------------------------
(***************************************************************************)
(* The manager thread ("OS", merry_os.c), the cores' threads (the loop of  *)
(* merry_core.c) and the request handler between them                      *)
(* (merry_request_hdlr.c): how a core posts a request and sleeps on its    *)
(* condition variable, how the OS takes requests from the queue, handles   *)
(* them, wakes the core, sleeps when there is nothing to do, and how the   *)
(* VM stops.                                                               *)
(*                                                                         *)
(* Steps.  Everything push_request, pop_request, panic and kill_requests   *)
(* do is done with req_hdlr.lock held and none of them blocks with it held *)
(* (pthread_cond_wait gives it up), so each is one step, and the lock is   *)
(* free between steps.  What the threads share outside that lock is        *)
(* stop_running, which gets steps of its own, and the registers of a core  *)
(* whose request is being handled.                                         *)
(*                                                                         *)
(* A condition variable is the set of threads waiting on it.  Each core's  *)
(* has at most its core in it (thread[c] = "wait"), the OS's at most the   *)
(* OS (osPc = "asleep"); a signal to an empty set is lost.                 *)
(***************************************************************************)
EXTENDS RequestQueue, FiniteSets

CONSTANTS MaxCores,      \* bound: memory lasts for this many cores
          BootCores,     \* entries of the input file's EAT, one core each
          QueueLen,      \* _MERRY_REQUEST_QUEUE_LEN_
          Instructions,  \* what the program's instructions may do
          Faults,        \* what may fail around it
          WakeBound,     \* bound: no core is woken unasked while more is queued
          NULL

CoreIds == 0..(MaxCores - 1)

\* The numbers an INTR instruction can post, by how the OS dispatches them:
\* SERVICE is any of DYNL, DYNUL, DYNCALL, FOPEN, FCLOSE, FREAD, FWRITE, FEOF,
\* REWIND and MEM, which answer in the core's registers or panic (OSServices has
\* them one by one), or a number no case handles; ERROR is one in the ranges of
\* errors.
Interrupts == {"REQHALT", "EXIT", "NEWCORE", "SERVICE", "ERROR"}

Errors == {"ERROR", "REQBUFFEROVERFLOW"}

\* Instructions that post a request: OP_INTR and OP_HALT.
Posting == Interrupts \cup {"OP_HALT"}

AllInstructions == Posting \cup {"WORK", "FAULT", "FETCH_FAULT"}

\* ALLOC: merry_os_add_core runs out of memory.  BOOT: a core's thread cannot
\* be created.  SERVICE: the OS panics while it handles a request.
\* SPURIOUS: pthread_cond_wait returns although nobody signalled.
AllFaults == {"ALLOC", "BOOT", "SERVICE", "SPURIOUS"}

ASSUME CoresAssumption ==
    /\ MaxCores \in Nat /\ BootCores \in Nat
    /\ 0 < BootCores /\ BootCores <= MaxCores
ASSUME QueueLenAssumption == QueueLen \in Nat \ {0}
ASSUME WakeBoundAssumption == WakeBound \in Nat
ASSUME ProgramAssumption ==
    Instructions \subseteq AllInstructions /\ Faults \subseteq AllFaults
ASSUME NULLAssumption == NULL \notin CoreIds

\* MerryOSRequest.  An uninitialised node holds some value malloc left there.
Request(number, core) == [number |-> number, core |-> core]
PanicRequest(error) == Request(error, NULL)
Uninit == Request("UNINIT", NULL)

\* A core's request carries the core, a panic carries none.
RequestType ==
    [number : Interrupts, core : CoreIds]
        \cup {PanicRequest(e) : e \in Errors} \cup {Uninit}

QueueType ==
    [node_count : {QueueLen}, ring : {QueueLen + 1},
     data_count : Nat,
     head : 0..QueueLen, tail : 0..QueueLen,
     nodes : [0..QueueLen -> RequestType]]

VARIABLES
    queue, handle_more,      \* req_hdlr
    thread,                  \* where each core's thread is
    instr,                   \* the instruction each waiting core posted with
    stop_running,            \* per core
    osPc,                    \* where the OS thread is
    current_req, idx,        \* its local variables
    core_count, active_core_count, stop, ret,
    lockHeld,                \* os._lock is locked
    status                   \* history: what became of each core's last post

hdlrVars == <<queue, handle_more>>
coreVars == <<thread, instr, stop_running, status>>
osLocals == <<current_req, idx, core_count, active_core_count, stop, ret>>
osVars == <<osPc, lockHeld, osLocals>>
vars == <<hdlrVars, coreVars, osVars>>

Init ==
    /\ queue = NewQueue(QueueLen, QueueLen + 1, Uninit)
    /\ handle_more = TRUE
    /\ thread = [c \in CoreIds |-> "none"]
    /\ instr = [c \in CoreIds |-> "WORK"]
    /\ stop_running = [c \in CoreIds |-> FALSE]
    /\ osPc = "boot"
    /\ current_req = Uninit
    /\ idx = 0
    /\ core_count = BootCores
    /\ active_core_count = 0
    /\ stop = FALSE
    /\ ret = <<"none">>
    /\ lockHeld = FALSE
    /\ status = [c \in CoreIds |-> "answered"]

-----------------------------------------------------------------------------
(* Condition variables *)

\* merry_cond_signal on the condition variable of core c; NULL is ignored.
\* (A woken core needs req_hdlr.lock before it goes on: "resume".)
Signalled(threads, c) ==
    [d \in CoreIds |-> IF d = c /\ threads[d] = "wait" THEN "resume" ELSE threads[d]]

\* The OS comes back from merry_cond_wait(os._cond, os._lock), holding os._lock.
HostWakes == osPc' = "loop" /\ lockHeld' = TRUE

\* The handler wakes the OS only for the first entry of an empty queue.
SignalHost(q) ==
    IF q.data_count = 1 /\ osPc = "asleep"
    THEN HostWakes
    ELSE UNCHANGED <<osPc, lockHeld>>

-----------------------------------------------------------------------------
(* The request handler, called by cores *)

\* The core goes on after push_request returned.  OP_HALT stops the core
\* whatever the result, OP_INTR when it is RET_FAILURE.
Returned(c, i, success) ==
    stop_running' = [stop_running EXCEPT ![c] = @ \/ i = "OP_HALT" \/ ~success]

\* push_request once the handler takes no more: success, without a wait.
PostRefused(c, i) ==
    /\ ~handle_more
    /\ Returned(c, i, TRUE)
    /\ thread' = [thread EXCEPT ![c] = "check"]
    /\ status' = [status EXCEPT ![c] = "refused"]
    /\ UNCHANGED <<hdlrVars, osPc, lockHeld>>

\* Mutant: the overflow is reported to the core only.
MutPostOverflowSilent(c, i) ==
    /\ handle_more /\ IsFull(queue)
    /\ Returned(c, i, FALSE)
    /\ thread' = [thread EXCEPT ![c] = "check"]
    /\ status' = [status EXCEPT ![c] = "refused"]
    /\ UNCHANGED <<hdlrVars, osPc, lockHeld>>

\* push_request on a full queue: an emergency push, and failure.
PostOverflow(c, i) ==
    /\ handle_more /\ IsFull(queue)
    /\ queue' = PanicPush(queue, PanicRequest("REQBUFFEROVERFLOW"))
    /\ SignalHost(queue')
    /\ Returned(c, i, FALSE)
    /\ thread' = [thread EXCEPT ![c] = "check"]
    /\ status' = [status EXCEPT ![c] = "refused"]
    /\ UNCHANGED handle_more

\* Mutant: handle_more is not looked at.
MutPostAcceptedAlways(c, i) ==
    /\ ~IsFull(queue)
    /\ queue' = Push(queue, Request(IF i = "OP_HALT" THEN "REQHALT" ELSE i, c))
    /\ SignalHost(queue')
    /\ thread' = [thread EXCEPT ![c] = "wait"]
    /\ status' = [status EXCEPT ![c] = "pending"]
    /\ UNCHANGED <<handle_more, stop_running>>

\* push_request that queues the request and sleeps on the core's condition.
PostAccepted(c, i) ==
    /\ handle_more /\ ~IsFull(queue)
    /\ queue' = Push(queue, Request(IF i = "OP_HALT" THEN "REQHALT" ELSE i, c))
    /\ SignalHost(queue')
    /\ thread' = [thread EXCEPT ![c] = "wait"]
    /\ status' = [status EXCEPT ![c] = "pending"]
    /\ UNCHANGED <<handle_more, stop_running>>

\* What merry_requestHdlr_panic does to the handler.
RaisePanic(error) ==
    IF handle_more
    THEN /\ queue' = PanicPush(queue, PanicRequest(error))
         /\ handle_more' = FALSE
    ELSE UNCHANGED hdlrVars

-----------------------------------------------------------------------------
(* A core's thread: merry_runCore *)

\* Mutant: the flag is not looked at.
MutCoreCheckNever(c) ==
    /\ thread[c] = "check"
    /\ thread' = [thread EXCEPT ![c] = "exec"]
    /\ UNCHANGED <<hdlrVars, instr, stop_running, status, osVars>>

\* The top of the loop.
CoreCheck(c) ==
    /\ thread[c] = "check"
    /\ thread' = [thread EXCEPT ![c] = IF stop_running[c] THEN "ended" ELSE "exec"]
    /\ UNCHANGED <<hdlrVars, instr, stop_running, status, osVars>>

\* An instruction that asks nothing of the OS.
CoreWork(c) ==
    /\ thread[c] = "exec" /\ "WORK" \in Instructions
    /\ thread' = [thread EXCEPT ![c] = "check"]
    /\ UNCHANGED <<hdlrVars, instr, stop_running, status, osVars>>

\* OP_HALT or OP_INTR.
CorePost(c) ==
    /\ thread[c] = "exec"
    /\ \E i \in Instructions \cap Posting :
          \/ /\ PostRefused(c, i) \/ PostOverflow(c, i)
             /\ UNCHANGED instr
          \/ /\ PostAccepted(c, i)
             /\ instr' = [instr EXCEPT ![c] = i]
    /\ UNCHANGED osLocals

\* merry_cond_wait returned and push_request with it.
CoreResume(c) ==
    /\ thread[c] = "resume"
    /\ Returned(c, instr[c], TRUE)
    /\ thread' = [thread EXCEPT ![c] = "check"]
    /\ instr' = [instr EXCEPT ![c] = "WORK"]
    /\ UNCHANGED <<hdlrVars, status, osVars>>

\* A failed fetch (the loop is left with stop_running as it was) or a failed
\* instruction (stop_running is set, the loop is left at its top).
CoreFault(c) ==
    /\ thread[c] = "exec"
    /\ \/ /\ "FETCH_FAULT" \in Instructions
          /\ thread' = [thread EXCEPT ![c] = "ended"]
          /\ UNCHANGED stop_running
       \/ /\ "FAULT" \in Instructions
          /\ thread' = [thread EXCEPT ![c] = "check"]
          /\ stop_running' = [stop_running EXCEPT ![c] = TRUE]
    /\ RaisePanic("ERROR")
    /\ IF handle_more THEN SignalHost(queue') ELSE UNCHANGED <<osPc, lockHeld>>
    /\ UNCHANGED <<instr, status, osLocals>>

\* push_request's merry_cond_wait is in no loop: it ends on any wakeup.  (A core
\* woken so posts again, and nothing in the code bounds how often: WakeBound does.)
CoreSpurious(c) ==
    /\ "SPURIOUS" \in Faults /\ thread[c] = "wait"
    /\ queue.data_count <= WakeBound
    /\ thread' = [thread EXCEPT ![c] = "resume"]
    /\ UNCHANGED <<hdlrVars, instr, stop_running, status, osVars>>

-----------------------------------------------------------------------------
(* The OS's thread: merry_os_start_vm *)

\* Mutant: one core too many is booted.
MutOSBoot ==
    /\ osPc = "boot"
    /\ IF idx <= core_count
       THEN /\ thread' = [thread EXCEPT ![idx] = "check"]
            /\ active_core_count' = active_core_count + 1
            /\ idx' = idx + 1
            /\ UNCHANGED osPc
       ELSE /\ osPc' = "loop" /\ idx' = 0
            /\ UNCHANGED <<thread, active_core_count>>
    /\ UNCHANGED <<hdlrVars, instr, stop_running, status, current_req,
                   core_count, stop, ret, lockHeld>>

\* One merry_os_boot_core of the boot loop, or the loop's end.
OSBoot ==
    /\ osPc = "boot"
    /\ IF idx < core_count
       THEN /\ thread' = [thread EXCEPT ![idx] = "check"]
            /\ active_core_count' = active_core_count + 1
            /\ idx' = idx + 1
            /\ UNCHANGED osPc
       ELSE /\ osPc' = "loop" /\ idx' = 0
            /\ UNCHANGED <<thread, active_core_count>>
    /\ UNCHANGED <<hdlrVars, instr, stop_running, status, current_req,
                   core_count, stop, ret, lockHeld>>

\* The boot of core idx fails: core_count = idx - 1, prepare_for_exit, return.
\* For core 0 that is 2^64 - 1 cores, and prepare_for_exit runs off the array.
OSBootFails ==
    /\ "BOOT" \in Faults
    /\ osPc = "boot" /\ idx < core_count
    /\ IF idx = 0
       THEN osPc' = "crashed" /\ UNCHANGED <<core_count, idx>>
       ELSE osPc' = "stopcores" /\ core_count' = idx - 1 /\ idx' = 0
    /\ UNCHANGED <<hdlrVars, coreVars, current_req, active_core_count, stop,
                   ret, lockHeld>>

\* The head of the loop and pop_request.
OSPop ==
    /\ osPc = "loop"
    /\ IF stop \/ active_core_count = 0
       THEN osPc' = "done" /\ UNCHANGED <<queue, current_req>>
       ELSE IF IsEmpty(queue)
       THEN osPc' = "sleep" /\ UNCHANGED <<queue, current_req>>
       ELSE /\ current_req' = HeadValue(queue)
            /\ queue' = Pop(queue)
            /\ osPc' = "dispatch"
    /\ UNCHANGED <<handle_more, coreVars, idx, core_count, active_core_count,
                   stop, ret, lockHeld>>

\* merry_cond_wait(os._cond, os._lock): the lock, held or not, is given up.
OSSleep ==
    /\ osPc = "sleep"
    /\ osPc' = "asleep"
    /\ lockHeld' = FALSE
    /\ UNCHANGED <<hdlrVars, coreVars, osLocals>>

OSSpurious ==
    /\ "SPURIOUS" \in Faults /\ osPc = "asleep"
    /\ HostWakes
    /\ UNCHANGED <<hdlrVars, coreVars, osLocals>>

\* The request is handled, well or not; the core is signalled next.
Handled ==
    /\ osPc' = "signal"
    /\ status' = [status EXCEPT ![current_req.core] = "answered"]

\* Mutant: prepare_for_exit leaves the first core out, as new_proc_init does.
MutOSHandleErrorButFirst ==
    /\ osPc = "dispatch" /\ current_req.number \in Errors
    /\ ret' = <<"failure">>
    /\ osPc' = "stopcores"
    /\ idx' = 1
    /\ UNCHANGED <<hdlrVars, coreVars, current_req, core_count,
                   active_core_count, stop, lockHeld>>

\* merry_os_handle_internal_module_error or merry_os_handle_error
OSHandleError ==
    /\ osPc = "dispatch" /\ current_req.number \in Errors
    /\ ret' = <<"failure">>
    /\ osPc' = "stopcores"
    /\ idx' = 0
    /\ UNCHANGED <<hdlrVars, coreVars, current_req, core_count,
                   active_core_count, stop, lockHeld>>

\* merry_os_execute_request_halt
OSHalt ==
    /\ osPc = "dispatch" /\ current_req.number = "REQHALT"
    /\ stop_running' = [stop_running EXCEPT ![current_req.core] = TRUE]
    /\ IF core_count = 1
       THEN stop' = TRUE /\ ret' = <<"Ma", current_req.core>>
       ELSE UNCHANGED <<stop, ret>>
    /\ active_core_count' = active_core_count - 1
    /\ Handled
    /\ UNCHANGED <<hdlrVars, thread, instr, current_req, idx, core_count,
                   lockHeld>>

\* prepare_for_exit, then the core's Ma is the VM's result.
OSExit ==
    /\ osPc = "dispatch" /\ current_req.number = "EXIT"
    /\ ret' = <<"Ma", current_req.core>>
    /\ status' = [status EXCEPT ![current_req.core] = "answered"]
    /\ osPc' = "stopcores"
    /\ idx' = 0
    /\ UNCHANGED <<hdlrVars, thread, instr, stop_running, current_req,
                   core_count, active_core_count, stop, lockHeld>>

\* merry_os_add_core locks os._lock: the thread that holds it already blocks.
OSNewCoreBlocks ==
    /\ osPc = "dispatch" /\ current_req.number = "NEWCORE" /\ lockHeld
    /\ osPc' = "blocked"
    /\ UNCHANGED <<hdlrVars, coreVars, osLocals, lockHeld>>

\* merry_os_add_core fails, and returns without unlocking os._lock.
OSNewCoreFails ==
    /\ osPc = "dispatch" /\ current_req.number = "NEWCORE" /\ ~lockHeld
    /\ "ALLOC" \in Faults \/ core_count = MaxCores
    /\ lockHeld' = TRUE
    /\ Handled
    /\ UNCHANGED <<hdlrVars, thread, instr, stop_running, osLocals>>

\* merry_os_add_core succeeds.  The core's Ma gets merry_os_boot_core's result,
\* which no property reads.
OSNewCore ==
    /\ osPc = "dispatch" /\ current_req.number = "NEWCORE" /\ ~lockHeld
    /\ core_count < MaxCores
    /\ core_count' = core_count + 1
    /\ \/ /\ thread' = [thread EXCEPT ![core_count] = "check"]
          /\ active_core_count' = active_core_count + 1
       \/ "BOOT" \in Faults /\ UNCHANGED <<thread, active_core_count>>
    /\ Handled
    /\ UNCHANGED <<hdlrVars, instr, stop_running, current_req, idx, stop, ret,
                   lockHeld>>

\* A request that the OS answers in the core's registers, panics about, or has
\* no case for: either way the core is signalled next.
OSService ==
    /\ osPc = "dispatch" /\ current_req.number = "SERVICE"
    /\ \/ UNCHANGED hdlrVars
       \/ "SERVICE" \in Faults /\ RaisePanic("ERROR")
    /\ Handled
    /\ UNCHANGED <<thread, instr, stop_running, osLocals, lockHeld>>

\* prepare_for_exit: the cores are told to stop, one by one.
OSStopCore ==
    /\ osPc = "stopcores" /\ idx < core_count
    /\ stop_running' = [stop_running EXCEPT ![idx] = TRUE]
    /\ idx' = idx + 1
    /\ UNCHANGED <<hdlrVars, thread, instr, status, osPc, lockHeld,
                   current_req, core_count, active_core_count, stop, ret>>

\* kill_requests compares its index with a data_count that each pop takes
\* down: it pops half of the queue, rounded up.
Kills(q) == (q.data_count + 1) \div 2

KilledSlots(q) == {FromHead(q, k % q.ring) : k \in 0..(Kills(q) - 1)}

\* Mutant: os.stop is not set.
MutOSKillGoesOn ==
    /\ osPc = "stopcores" /\ idx >= core_count
    /\ LET popped == {queue.nodes[s] : s \in KilledSlots(queue)}
       IN  thread' = [c \in CoreIds |->
                        IF thread[c] = "wait" /\ \E r \in popped : r.core = c
                        THEN "resume" ELSE thread[c]]
    /\ osPc' = "signal"
    /\ queue' = [queue EXCEPT !.head = FromHead(queue, Kills(queue) % queue.ring),
                              !.data_count = @ - Kills(queue)]
    /\ idx' = 0
    /\ UNCHANGED <<handle_more, instr, stop_running, status, lockHeld, stop,
                   current_req, core_count, active_core_count, ret>>

\* The rest of prepare_for_exit.  Popping a node that was never written means
\* signalling whatever its _wait_lock is: nothing when that is NULL.
OSKill ==
    /\ osPc = "stopcores" /\ idx >= core_count
    /\ LET popped == {queue.nodes[s] : s \in KilledSlots(queue)}
       IN  /\ thread' = [c \in CoreIds |->
                           IF thread[c] = "wait" /\ \E r \in popped : r.core = c
                           THEN "resume" ELSE thread[c]]
           /\ \/ osPc' = "signal"
              \/ Uninit \in popped /\ osPc' = "crashed"
    /\ queue' = [queue EXCEPT !.head = FromHead(queue, Kills(queue) % queue.ring),
                              !.data_count = @ - Kills(queue)]
    /\ stop' = TRUE
    /\ idx' = 0
    /\ UNCHANGED <<handle_more, instr, stop_running, status, lockHeld,
                   current_req, core_count, active_core_count, ret>>

\* Mutant: the core is not woken.
MutOSSignalNobody ==
    /\ osPc = "signal"
    /\ osPc' = "loop"
    /\ current_req' = Uninit
    /\ UNCHANGED <<hdlrVars, coreVars, lockHeld, idx,
                   core_count, active_core_count, stop, ret>>

\* merry_cond_signal(current_req._wait_lock); the request is used no more.
OSSignal ==
    /\ osPc = "signal"
    /\ thread' = Signalled(thread, current_req.core)
    /\ osPc' = "loop"
    /\ current_req' = Uninit
    /\ UNCHANGED <<hdlrVars, instr, stop_running, status, lockHeld, idx,
                   core_count, active_core_count, stop, ret>>

-----------------------------------------------------------------------------

CoreStep(c) ==
    \/ CoreCheck(c) \/ CoreWork(c) \/ CorePost(c) \/ CoreResume(c)
    \/ CoreFault(c) \/ CoreSpurious(c)

OSDispatch ==
    \/ OSHandleError \/ OSHalt \/ OSExit \/ OSService
    \/ OSNewCoreBlocks \/ OSNewCoreFails \/ OSNewCore

OSStep ==
    \/ OSBoot \/ OSBootFails \/ OSPop \/ OSSleep \/ OSSpurious \/ OSDispatch
    \/ OSStopCore \/ OSKill \/ OSSignal

\* A crash takes the whole process.
Next == osPc # "crashed" /\ (OSStep \/ \E c \in CoreIds : CoreStep(c))

Spec == Init /\ [][Next]_vars

\* What a thread does when it runs: wakeups nobody asked for are the host's.
OSThread ==
    \/ OSBoot \/ OSBootFails \/ OSPop \/ OSSleep \/ OSDispatch
    \/ OSStopCore \/ OSKill \/ OSSignal

CoreThread(c) ==
    CoreCheck(c) \/ CoreWork(c) \/ CorePost(c) \/ CoreResume(c) \/ CoreFault(c)

\* Every thread that can run is scheduled.
Fairness == WF_vars(OSThread) /\ \A c \in CoreIds : WF_vars(CoreThread(c))

FairSpec == Spec /\ Fairness

-----------------------------------------------------------------------------
(* Properties *)

ThreadPlaces == {"none", "check", "exec", "wait", "resume", "ended"}

OSPlaces == {"boot", "loop", "sleep", "asleep", "dispatch", "stopcores",
             "signal", "blocked", "done", "crashed"}

\* Every variable keeps its type, and the queue its shape: the pointers stay
\* in the list, whatever emergency pushes and kills do to the count.
TypeOK ==
    /\ queue \in QueueType
    /\ handle_more \in BOOLEAN
    /\ thread \in [CoreIds -> ThreadPlaces]
    /\ instr \in [CoreIds -> AllInstructions]
    /\ stop_running \in [CoreIds -> BOOLEAN]
    /\ status \in [CoreIds -> {"answered", "pending", "refused"}]
    /\ osPc \in OSPlaces
    /\ lockHeld \in BOOLEAN
    /\ current_req \in RequestType
    /\ idx \in 0..MaxCores
    /\ core_count \in 0..MaxCores
    /\ active_core_count \in 0..MaxCores
    /\ stop \in BOOLEAN
    /\ ret \in {<<"none">>, <<"failure">>} \cup {<<"Ma", c>> : c \in CoreIds}

Started == {c \in CoreIds : thread[c] # "none"}

\* The OS has taken its last request: it is in prepare_for_exit or past it.
Stopping ==
    \/ stop
    \/ osPc \in {"stopcores", "done", "crashed"}
    \/ osPc = "dispatch" /\ current_req.number \in Errors \cup {"EXIT"}

\* merry_requestHdlr_panic's emergency entry cannot be lost: from the panic on
\* it is the next one popped, unless the OS is already stopping the VM.
PanicIsNext ==
    ~handle_more =>
        Stopping \/ (~IsEmpty(queue) /\ HeadValue(queue).number \in Errors)

\* The cores prepare_for_exit does not reach: a failed boot of core i sets
\* core_count to i - 1, one short of the cores that run; and the OS counts a core
\* out twice, and ends with another running, when a wakeup nobody asked for let
\* that core halt again before its first halt was handled.
LeftByBoot(c) == active_core_count > core_count /\ c = core_count

Untold(c) ==
    \/ LeftByBoot(c)
    \/ "SPURIOUS" \in Faults /\ ~stop

\* When the OS thread is done, every core that was started has been told to
\* stop, whichever way the OS got there: an error, EXIT, a failed boot, the only
\* core's HALT, or no active core left.
DoneStopsAll == osPc = "done" => \A c \in Started : stop_running[c] \/ Untold(c)

\* A core that comes back from push_request's wait, signalled, has had its
\* request handled, or has been told to stop before it was let go.
WokenAnswered ==
    \A c \in CoreIds :
        thread[c] = "resume" =>
            status[c] # "pending" \/ stop_running[c] \/ LeftByBoot(c)

\* The same of the emergency entry a full queue gets, while no core has
\* panicked: the core whose post was refused is the sign of it.
OverflowIsNext ==
    handle_more /\ (\E c \in CoreIds : status[c] = "refused") =>
        Stopping \/ (~IsEmpty(queue) /\ HeadValue(queue).number \in Errors)

\* What the OS handles is a request some core posted or a panic, never a node
\* of the list that nobody wrote to.
HandlesWritten == osPc = "dispatch" => current_req # Uninit

\* The VM's result, once some request decided it, is not changed again.
ResultDecidedOnce == [][ret # <<"none">> => UNCHANGED ret]_vars

\* The number of the queue's entries that are core c's.
Entries(c) ==
    Cardinality({k \in 1..queue.data_count : Contents(queue)[k].core = c})

\* The OS has the request of core c in its hands.
Held(c) ==
    osPc \in {"dispatch", "stopcores", "signal", "blocked"} /\ current_req.core = c

\* No panic was raised and the VM is not being stopped.
Quiet ==
    handle_more /\ ~stop /\ \A c \in CoreIds : status[c] # "refused"

\* Until the first panic, a core waits exactly while its one request is in the
\* queue or being handled: no post is lost, none is queued or handled twice.
WaitersAreQueued ==
    Quiet =>
        \A c \in CoreIds :
            /\ thread[c] = "wait" <=> (Held(c) \/ Entries(c) > 0)
            /\ Entries(c) <= IF Held(c) THEN 0 ELSE 1

\* Where a core stands with the service it posts to.
Standing(c) ==
    CASE thread[c] = "none" -> "off"
      [] thread[c] = "ended" -> "ended"
      [] thread[c] = "wait" /\ status[c] = "pending" -> "posted"
      [] thread[c] \in {"resume", "check", "exec"} /\ status[c] = "pending" -> "released"
      [] thread[c] \in {"wait", "resume"} /\ status[c] # "pending" -> "answered"
      [] OTHER -> "running"

Service == INSTANCE RequestService
              WITH Cores <- CoreIds,
                   core <- [c \in CoreIds |-> Standing(c)],
                   told <- {c \in CoreIds : stop_running[c]},
                   closed <- ~handle_more

\* The handler, the OS and the cores implement the service: a core executes
\* nothing between a post and its answer, nothing after being let go without
\* one, and gets one answer for each post.
ServiceSpec == Service!Spec

-----------------------------------------------------------------------------
(* What comments of the source say and the code does not do *)

\* "wake up the OS" (merry_request_hdlr.c): a core that waits is woken.
EveryRequestAnswered ==
    \A c \in CoreIds : thread[c] = "wait" ~> thread[c] # "wait"

\* "Make all cores that were waiting to continue with error"
\* (merry_request_hdlr.h, of kill_requests).
KillWakesAll ==
    [][OSKill => \A c \in CoreIds : Entries(c) > 0 => thread'[c] # "wait"]_vars

\* "Emergency add to first" (merry_queue.h): a panic adds an entry, and the
\* requests waiting behind it stay in the queue.
PanicKeepsRequests ==
    [][\A c \in CoreIds :
          CoreFault(c) => \A d \in CoreIds : Entries(d)' >= Entries(d)]_vars

\* NEWCORE is to "Create a new core for execution" (merry_request.h): the OS
\* does not block on its own lock over it.
OSNeverBlocks == osPc # "blocked"

=============================================================================
