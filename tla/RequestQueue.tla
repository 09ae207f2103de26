---------------------------- MODULE RequestQueue ----------------------------
(***************************************************************************)
(* The queue of tools/merry_queue.h as merry_request_queue.c instantiates  *)
(* it: a circular linked list of preallocated nodes, a node count fixed at *)
(* creation, a count of the data in it, and two pointers into the list.    *)
(* A node is its position in the list, so head and tail are positions; the *)
(* node after the last one is the first.                                   *)
(*                                                                         *)
(* The operators take the queue as a value: the modules that own a queue   *)
(* (RequestRing, MerryVM) hold it in one variable.                         *)
(***************************************************************************)
EXTENDS Naturals

\* A queue whose list has `ring' nodes.  The code asks for len + 1 nodes: the
\* head and len more.  The nodes' values are whatever malloc left there.
NewQueue(len, ring, uninit) ==
    [node_count |-> len, ring |-> ring, data_count |-> 0,
     head |-> 0, tail |-> 0, nodes |-> [i \in 0..ring-1 |-> uninit]]

NextNode(q, i) == IF i + 1 = q.ring THEN 0 ELSE i + 1

\* Mutant: one push past the capacity gets through.
MutIsFullLate(q) == q.data_count > q.node_count

IsFull(q) == q.data_count = q.node_count
IsEmpty(q) == q.data_count = 0

\* The value the next pop returns.
HeadValue(q) == q.nodes[q.head]

\* Mutants: the tail is not advanced; it is advanced before the value is stored.
MutPushKeepsTail(q, v) ==
    [q EXCEPT !.nodes[q.tail] = v, !.data_count = @ + 1]
MutPushAdvancesFirst(q, v) ==
    [q EXCEPT !.nodes[NextNode(q, q.tail)] = v,
              !.data_count = @ + 1,
              !.tail = NextNode(q, q.tail)]

\* merry_push_request past its full test
Push(q, v) ==
    [q EXCEPT !.nodes[q.tail] = v,
              !.data_count = @ + 1,
              !.tail = NextNode(q, q.tail)]

\* Mutants: the count is not taken down; the head runs off the list.
MutPopKeepsCount(q) == [q EXCEPT !.head = NextNode(q, q.head)]
MutPopRunsOff(q) == [q EXCEPT !.head = @ + 1, !.data_count = @ - 1]

\* merry_pop_request past its empty test; the value popped is HeadValue(q).
Pop(q) == [q EXCEPT !.head = NextNode(q, q.head), !.data_count = @ - 1]

\* Mutant: the emergency push queues up like any other.
MutPanicPushAtTail(q, v) == Push(q, v)

\* merry_panic_push: the head node's value is replaced, and counted as one more.
PanicPush(q, v) ==
    [q EXCEPT !.nodes[q.head] = v, !.data_count = @ + 1]

\* The position k nodes after the head (k at most the length of the list).
FromHead(q, k) ==
    IF q.head + k < q.ring THEN q.head + k ELSE (q.head + k) - q.ring

\* The data in the queue, oldest first.
Contents(q) == [k \in 1..q.data_count |-> q.nodes[FromHead(q, k - 1)]]
=============================================================================
