----------------------------- MODULE RequestRing -----------------------------
(***************************************************************************)
(* One request queue under pushes and pops in any order (its users hold    *)
(* req_hdlr.lock around every operation, so each operation is one step).   *)
(* The emergency push is left to MerryVM, where its callers are.           *)
(***************************************************************************)
EXTENDS RequestQueue, Sequences

CONSTANTS Values,       \* the requests pushed
          QueueLen,     \* merry_request_queue_init's argument
          RingLengths,  \* list lengths that allocation may leave
          Uninit        \* what malloc left in a node

ASSUME QueueLenAssumption == QueueLen \in Nat \ {0}
ASSUME RingLengthsAssumption == RingLengths \subseteq 1..(QueueLen + 1)
ASSUME UninitAssumption == Uninit \notin Values

VARIABLES queue, result

vars == <<queue, result>>

\* _MERRY_QUEUE_CREATE_NODES_NOPTR_: an allocation that fails inside the loop
\* closes the list where it got to, and ret is set to mtrue all the same.
Init ==
    /\ \E ring \in RingLengths : queue = NewQueue(QueueLen, ring, Uninit)
    /\ result = <<"none">>

PushRequest(v) ==
    \/ /\ IsFull(queue)
       /\ result' = <<"full">>
       /\ UNCHANGED queue
    \/ /\ ~IsFull(queue)
       /\ queue' = Push(queue, v)
       /\ result' = <<"pushed">>

PopRequest ==
    \/ /\ IsEmpty(queue)
       /\ result' = <<"empty">>
       /\ UNCHANGED queue
    \/ /\ ~IsEmpty(queue)
       /\ result' = <<"popped", HeadValue(queue)>>
       /\ queue' = Pop(queue)

Next == PopRequest \/ \E v \in Values : PushRequest(v)

Spec == Init /\ [][Next]_vars

-----------------------------------------------------------------------------

QueueType ==
    [node_count : {QueueLen}, ring : 1..(QueueLen + 1),
     data_count : 0..QueueLen, head : 0..QueueLen, tail : 0..QueueLen,
     nodes : UNION {[0..r-1 -> Values \cup {Uninit}] : r \in 1..(QueueLen + 1)}]

\* The queue's fields keep their ranges, its pointers point into its list, and
\* the count never leaves 0..node_count (the full test is an equality: past
\* node_count it would never hold again).
TypeOK ==
    /\ queue \in QueueType
    /\ queue.nodes \in [0..queue.ring-1 -> Values \cup {Uninit}]
    /\ queue.head < queue.ring
    /\ queue.tail < queue.ring
    /\ result \in {<<"none">>, <<"full">>, <<"pushed">>, <<"empty">>}
                    \cup {<<"popped", v>> : v \in Values \cup {Uninit}}

\* The tail is the node where the data from the head on ends: the two pointers
\* move separately and only the count relates them.
TailClosesData == queue.tail = FromHead(queue, queue.data_count)

\* A slot between head and tail holds a request, never what malloc left there.
DataInitialised ==
    \A k \in 0..(queue.data_count - 1) : queue.nodes[FromHead(queue, k)] \in Values

Fifo == INSTANCE BoundedFifo
            WITH fifo <- Contents(queue), Capacity <- QueueLen

\* The ring of nodes is a bounded FIFO: merry_queue.h's pushes and pops
\* behave as the queue operations their comments promise.
FifoSpec == Fifo!Spec
=============================================================================
