------------------------- MODULE RequestRing_proofs -------------------------
(***************************************************************************)
(* RequestRing implements BoundedFifo for every queue length and every set *)
(* of requests, as long as the list has at least node_count nodes; its     *)
(* pointers and its count stay in bounds whatever the list's length.       *)
(***************************************************************************)
EXTENDS RequestRing, SequenceTheorems, TLAPS

\* The pointers and the count taken together; the list is long enough.
RingInv ==
    /\ TypeOK
    /\ TailClosesData
    /\ DataInitialised
    /\ queue.ring \in {QueueLen, QueueLen + 1}

EnoughNodes == RingLengths \subseteq {QueueLen, QueueLen + 1}

\* A queue of the shape RingInv describes, as a fact about a value.
GoodQueue(q) ==
    /\ q.ring \in {QueueLen, QueueLen + 1}
    /\ q \in [node_count : {QueueLen}, ring : Nat, data_count : Nat,
              head : Nat, tail : Nat,
              nodes : [0..q.ring-1 -> Values \cup {Uninit}]]
    /\ q.data_count \in 0..QueueLen
    /\ q.head \in 0..q.ring-1
    /\ q.tail \in 0..q.ring-1
    /\ q.tail = FromHead(q, q.data_count)
    /\ \A k \in 0..(q.data_count - 1) : q.nodes[FromHead(q, k)] \in Values

\* RingInv's conjuncts about the queue say that it is good, and conversely.
LEMMA InvIsGood == RingInv => GoodQueue(queue)
  BY QueueLenAssumption
  DEF RingInv, TypeOK, QueueType, GoodQueue, TailClosesData, DataInitialised

\* The positions of the data are positions of the list.
LEMMA FromHeadType ==
    ASSUME NEW q, GoodQueue(q), NEW k \in 0..QueueLen
    PROVE  FromHead(q, k) \in 0..q.ring-1
  BY QueueLenAssumption DEF GoodQueue, FromHead

\* Contents of a good queue is a sequence of values, as long as the count says.
LEMMA ContentsType ==
    ASSUME NEW q, GoodQueue(q)
    PROVE  /\ Contents(q) \in Seq(Values)
           /\ Len(Contents(q)) = q.data_count
           /\ \A i \in 1..q.data_count :
                 Contents(q)[i] = q.nodes[FromHead(q, i - 1)]
<1>1. q.data_count \in Nat
  BY DEF GoodQueue
<1>2. \A i \in 1..q.data_count : q.nodes[FromHead(q, i - 1)] \in Values
  BY <1>1 DEF GoodQueue
<1>3. Contents(q) \in [1..q.data_count -> Values]
  BY <1>2 DEF Contents
<1>4. Contents(q) \in Seq(Values)
  BY <1>1, <1>3
<1> QED
  BY <1>1, <1>3, <1>4 DEF Contents

\* A push onto a queue that is not full keeps it good and appends the value.
LEMMA PushAppends ==
    ASSUME NEW q, GoodQueue(q), NEW v \in Values, ~IsFull(q)
    PROVE  /\ GoodQueue(Push(q, v))
           /\ Contents(Push(q, v)) = Append(Contents(q), v)
<1> DEFINE p == Push(q, v)
<1>1. /\ q.data_count \in 0..(QueueLen - 1)
      /\ p.ring = q.ring /\ p.node_count = QueueLen
      /\ p.data_count = q.data_count + 1
      /\ p.head = q.head
      /\ p.tail = NextNode(q, q.tail)
      /\ p.nodes = [q.nodes EXCEPT ![q.tail] = v]
  BY QueueLenAssumption DEF GoodQueue, IsFull, Push
<1>2. \A k \in 0..QueueLen : FromHead(p, k) = FromHead(q, k)
  BY <1>1 DEF FromHead
<1>3. \A k \in 0..(q.data_count - 1) : FromHead(q, k) # q.tail
  BY <1>1, QueueLenAssumption DEF GoodQueue, FromHead
<1>4. p.tail = FromHead(p, p.data_count)
  BY <1>1, QueueLenAssumption DEF GoodQueue, FromHead, NextNode
<1>5. \A k \in 0..(q.data_count - 1) :
         p.nodes[FromHead(q, k)] = q.nodes[FromHead(q, k)]
  <2> TAKE k \in 0..(q.data_count - 1)
  <2>1. FromHead(q, k) \in 0..q.ring-1
    BY <1>1, FromHeadType, QueueLenAssumption
  <2> QED
    BY <1>1, <1>3, <2>1 DEF GoodQueue
<1>6. p.nodes[FromHead(q, q.data_count)] = v
  BY <1>1 DEF GoodQueue
<1>7. GoodQueue(p)
  <2>1. p \in [node_count : {QueueLen}, ring : Nat, data_count : Nat,
               head : Nat, tail : Nat,
               nodes : [0..p.ring-1 -> Values \cup {Uninit}]]
    <3> DEFINE N == [0..q.ring-1 -> Values \cup {Uninit}]
               R == [node_count : {QueueLen}, ring : Nat, data_count : Nat,
                     head : Nat, tail : Nat, nodes : N]
    <3>1. q \in R
      BY DEF GoodQueue
    <3>2. [q.nodes EXCEPT ![q.tail] = v] \in N
      BY DEF GoodQueue
    <3>3. NextNode(q, q.tail) \in Nat /\ q.data_count + 1 \in Nat
      BY DEF GoodQueue, NextNode
    <3> HIDE DEF N
    <3>4. Push(q, v) \in R
      BY <3>1, <3>2, <3>3 DEF Push
    <3> QED
      BY <1>1, <3>4 DEF N
  <2>2. \A k \in 0..(p.data_count - 1) : p.nodes[FromHead(p, k)] \in Values
    BY <1>1, <1>2, <1>5, <1>6, QueueLenAssumption DEF GoodQueue
  <2>3. p.tail \in 0..p.ring-1
    BY <1>1, QueueLenAssumption DEF GoodQueue, NextNode
  <2> HIDE DEF p
  <2> QED
    BY <1>1, <1>4, <2>1, <2>2, <2>3, QueueLenAssumption DEF GoodQueue
<1> HIDE DEF p
<1>8. /\ Contents(p) \in Seq(Values) /\ Len(Contents(p)) = q.data_count + 1
      /\ \A i \in 1..q.data_count + 1 : Contents(p)[i] = p.nodes[FromHead(p, i - 1)]
  BY <1>1, <1>7, ContentsType
<1>9. /\ Contents(q) \in Seq(Values) /\ Len(Contents(q)) = q.data_count
      /\ \A i \in 1..q.data_count : Contents(q)[i] = q.nodes[FromHead(q, i - 1)]
  BY ContentsType
<1>10. \A i \in 1..q.data_count + 1 : Contents(p)[i] = Append(Contents(q), v)[i]
  <2> TAKE i \in 1..q.data_count + 1
  <2>1. CASE i = q.data_count + 1
    <3>1. Contents(p)[i] = v
      BY <1>1, <1>2, <1>6, <1>8, <2>1, QueueLenAssumption
    <3> QED
      BY <1>9, <2>1, <3>1
  <2>2. CASE i \in 1..q.data_count
    <3>1. i - 1 \in 0..(q.data_count - 1) /\ i - 1 \in 0..QueueLen
      BY <1>1, <2>2, QueueLenAssumption
    <3>2. Contents(p)[i] = Contents(q)[i]
      BY <1>2, <1>5, <1>8, <1>9, <2>2, <3>1
    <3>3. Append(Contents(q), v)[i] = Contents(q)[i]
      BY <1>9, <2>2
    <3> QED
      BY <3>2, <3>3
  <2>3. q.data_count \in Nat
    BY <1>1, QueueLenAssumption
  <2>4. i = q.data_count + 1 \/ i \in 1..q.data_count
    BY <2>3
  <2> QED
    BY <2>1, <2>2, <2>4
<1>11. Append(Contents(q), v) \in Seq(Values)
       /\ Len(Append(Contents(q), v)) = q.data_count + 1
  BY <1>9
<1>12. Contents(p) = Append(Contents(q), v)
  BY <1>8, <1>10, <1>11, SeqEqual
<1> QED
  BY <1>7, <1>12 DEF p

\* A pop from a queue that is not empty keeps it good and removes its oldest value.
LEMMA PopTakesHead ==
    ASSUME NEW q, GoodQueue(q), ~IsEmpty(q)
    PROVE  /\ GoodQueue(Pop(q))
           /\ Contents(q) # <<>>
           /\ HeadValue(q) = Head(Contents(q))
           /\ Contents(Pop(q)) = Tail(Contents(q))
<1> DEFINE p == Pop(q)
<1>1. /\ q.data_count \in 1..QueueLen
      /\ p.ring = q.ring /\ p.node_count = QueueLen
      /\ p.data_count = q.data_count - 1
      /\ p.head = NextNode(q, q.head)
      /\ p.tail = q.tail
      /\ p.nodes = q.nodes
  BY QueueLenAssumption DEF GoodQueue, IsEmpty, Pop
<1>0. q.ring \in Nat /\ q.ring >= QueueLen /\ q.head \in 0..q.ring-1
  BY QueueLenAssumption DEF GoodQueue
<1>2. \A k \in 0..(QueueLen - 1) : FromHead(p, k) = FromHead(q, k + 1)
  <2> HIDE DEF p
  <2> QED
    BY <1>0, <1>1, QueueLenAssumption DEF FromHead, NextNode
<1>3. FromHead(q, 0) = q.head
  BY QueueLenAssumption DEF GoodQueue, FromHead
<1>4. GoodQueue(p)
  <2>1. p \in [node_count : {QueueLen}, ring : Nat, data_count : Nat,
               head : Nat, tail : Nat,
               nodes : [0..p.ring-1 -> Values \cup {Uninit}]]
    <3> DEFINE N == [0..q.ring-1 -> Values \cup {Uninit}]
               R == [node_count : {QueueLen}, ring : Nat, data_count : Nat,
                     head : Nat, tail : Nat, nodes : N]
    <3>1. q \in R
      BY DEF GoodQueue
    <3>2. NextNode(q, q.head) \in Nat /\ q.data_count - 1 \in Nat
      BY <1>1 DEF GoodQueue, NextNode
    <3> HIDE DEF N
    <3>3. Pop(q) \in R
      BY <3>1, <3>2 DEF Pop
    <3> QED
      BY <1>1, <3>3 DEF N
  <2>2. \A k \in 0..(p.data_count - 1) : p.nodes[FromHead(p, k)] \in Values
    BY <1>1, <1>2, QueueLenAssumption DEF GoodQueue
  <2>3. p.tail = FromHead(p, p.data_count)
    BY <1>1, <1>2, QueueLenAssumption DEF GoodQueue
  <2>4. p.head \in 0..p.ring-1
    BY <1>1, QueueLenAssumption DEF GoodQueue, NextNode
  <2> HIDE DEF p
  <2> QED
    BY <1>1, <2>1, <2>2, <2>3, <2>4, QueueLenAssumption DEF GoodQueue
<1> HIDE DEF p
<1>5. /\ Contents(p) \in Seq(Values) /\ Len(Contents(p)) = q.data_count - 1
      /\ \A i \in 1..q.data_count - 1 : Contents(p)[i] = p.nodes[FromHead(p, i - 1)]
  BY <1>1, <1>4, ContentsType
<1>6. /\ Contents(q) \in Seq(Values) /\ Len(Contents(q)) = q.data_count
      /\ \A i \in 1..q.data_count : Contents(q)[i] = q.nodes[FromHead(q, i - 1)]
  BY ContentsType
<1>7. Contents(q) # <<>>
  BY <1>1, <1>6
<1>8. HeadValue(q) = Head(Contents(q))
  BY <1>1, <1>3, <1>6 DEF HeadValue
<1>9. /\ Tail(Contents(q)) \in Seq(Values)
      /\ Len(Tail(Contents(q))) = q.data_count - 1
      /\ \A i \in 1..q.data_count - 1 : Tail(Contents(q))[i] = Contents(q)[i + 1]
  BY <1>1, <1>6, <1>7
<1>10. \A i \in 1..q.data_count - 1 : Contents(p)[i] = Tail(Contents(q))[i]
  <2> TAKE i \in 1..q.data_count - 1
  <2>1. /\ i - 1 \in 0..(QueueLen - 1) /\ i + 1 \in 1..q.data_count
        /\ (i - 1) + 1 = (i + 1) - 1
    BY <1>1, QueueLenAssumption
  <2>2. Contents(p)[i] = q.nodes[FromHead(q, (i - 1) + 1)]
    BY <1>1, <1>2, <1>5, <2>1
  <2>3. Tail(Contents(q))[i] = q.nodes[FromHead(q, (i + 1) - 1)]
    BY <1>6, <1>9, <2>1
  <2> QED
    BY <2>1, <2>2, <2>3
<1>11. Contents(p) = Tail(Contents(q))
  BY <1>5, <1>9, <1>10, SeqEqual
<1> QED
  BY <1>4, <1>7, <1>8, <1>11 DEF p

-----------------------------------------------------------------------------

\* The list merry_request_queue_init builds is good, with at least QueueLen nodes.
LEMMA InitRingInv ==
    ASSUME EnoughNodes, Init
    PROVE  RingInv
<1>1. PICK ring \in RingLengths : queue = NewQueue(QueueLen, ring, Uninit)
  BY DEF Init
<1>2. ring \in {QueueLen, QueueLen + 1} /\ ring \in Nat /\ ring > 0
  BY QueueLenAssumption DEF EnoughNodes
<1>3. TypeOK
  BY <1>1, <1>2, QueueLenAssumption DEF Init, TypeOK, QueueType, NewQueue
<1>4. TailClosesData /\ DataInitialised
  BY <1>1, <1>2, QueueLenAssumption
  DEF TailClosesData, DataInitialised, NewQueue, FromHead
<1> QED
  BY <1>1, <1>2, <1>3, <1>4 DEF RingInv, NewQueue

\* After a step, a good queue and a result of the right type make the invariant.
LEMMA GoodIsInv ==
    ASSUME GoodQueue(queue'),
           result' \in {<<"none">>, <<"full">>, <<"pushed">>, <<"empty">>}
                        \cup {<<"popped", v>> : v \in Values \cup {Uninit}}
    PROVE  RingInv'
<1>1. queue' \in QueueType
  <2>1. queue'.nodes \in UNION {[0..r-1 -> Values \cup {Uninit}] : r \in 1..(QueueLen + 1)}
    BY QueueLenAssumption DEF GoodQueue
  <2>2. /\ queue'.node_count = QueueLen /\ queue'.ring \in 1..(QueueLen + 1)
        /\ queue'.data_count \in 0..QueueLen /\ queue'.head \in 0..QueueLen
        /\ queue'.tail \in 0..QueueLen
    BY QueueLenAssumption DEF GoodQueue
  <2>3. queue' = [node_count |-> queue'.node_count, ring |-> queue'.ring,
                 data_count |-> queue'.data_count, head |-> queue'.head,
                 tail |-> queue'.tail, nodes |-> queue'.nodes]
    BY DEF GoodQueue
  <2> QED
    BY <2>1, <2>2, <2>3 DEF QueueType
<1> QED
  BY <1>1, QueueLenAssumption
  DEF RingInv, TypeOK, GoodQueue, TailClosesData, DataInitialised

\* A step keeps the invariant, and is the step of the FIFO it looks like.
LEMMA StepRingInv ==
    ASSUME RingInv, Next
    PROVE  RingInv' /\ Fifo!Next
<1> USE DEF Fifo!Next
<1>1. GoodQueue(queue) /\ TypeOK
  BY InvIsGood DEF RingInv
<1>2. /\ Contents(queue) \in Seq(Values)
      /\ Len(Contents(queue)) = queue.data_count
      /\ queue.data_count \in Nat
  BY <1>1, ContentsType, QueueLenAssumption DEF GoodQueue
<1>3. CASE PopRequest
  <2>1. CASE IsEmpty(queue) /\ result' = <<"empty">> /\ UNCHANGED queue
    <3>1. GoodQueue(queue')
      BY <1>1, <2>1
    <3>2. RingInv'
      BY <2>1, <3>1, GoodIsInv
    <3>3. Fifo!Starve
      BY <1>2, <2>1 DEF Fifo!Starve, IsEmpty
    <3> QED
      BY <3>2, <3>3
  <2>2. CASE /\ ~IsEmpty(queue)
             /\ result' = <<"popped", HeadValue(queue)>>
             /\ queue' = Pop(queue)
    <3>1. /\ GoodQueue(Pop(queue)) /\ Contents(queue) # <<>>
          /\ HeadValue(queue) = Head(Contents(queue))
          /\ Contents(Pop(queue)) = Tail(Contents(queue))
      BY <1>1, <2>2, PopTakesHead
    <3>2. HeadValue(queue) \in Values
      BY <1>2, <3>1
    <3>3. RingInv'
      BY <2>2, <3>1, <3>2, GoodIsInv
    <3>4. Fifo!Take
      BY <2>2, <3>1 DEF Fifo!Take
    <3> QED
      BY <3>3, <3>4
  <2> QED
    BY <1>3, <2>1, <2>2 DEF PopRequest
<1>4. ASSUME NEW v \in Values, PushRequest(v)
      PROVE  RingInv' /\ Fifo!Next
  <2>1. CASE IsFull(queue) /\ result' = <<"full">> /\ UNCHANGED queue
    <3>1. GoodQueue(queue')
      BY <1>1, <2>1
    <3>2. RingInv'
      BY <2>1, <3>1, GoodIsInv
    <3>3. Fifo!Refuse
      BY <1>1, <1>2, <2>1 DEF Fifo!Refuse, IsFull, GoodQueue
    <3> QED
      BY <3>2, <3>3
  <2>2. CASE ~IsFull(queue) /\ queue' = Push(queue, v) /\ result' = <<"pushed">>
    <3>1. /\ GoodQueue(Push(queue, v))
          /\ Contents(Push(queue, v)) = Append(Contents(queue), v)
      BY <1>1, <2>2, PushAppends
    <3>2. RingInv'
      BY <2>2, <3>1, GoodIsInv
    <3>3. Len(Contents(queue)) < QueueLen
      BY <1>1, <1>2, <2>2, QueueLenAssumption DEF IsFull, GoodQueue
    <3>4. Fifo!Put(v)
      BY <2>2, <3>1, <3>3 DEF Fifo!Put
    <3> QED
      BY <3>2, <3>4
  <2> QED
    BY <1>4, <2>1, <2>2 DEF PushRequest
<1> QED
  BY <1>3, <1>4 DEF Next

\* The pointers, the count and the data agree in every reachable state.
THEOREM RingCorrect ==
    ASSUME EnoughNodes
    PROVE  Spec => [](TypeOK /\ TailClosesData /\ DataInitialised)
<1>1. Init => RingInv
  BY InitRingInv
<1>2. RingInv /\ [Next]_vars => RingInv'
  <2>1. CASE Next
    BY <2>1, StepRingInv
  <2>2. CASE UNCHANGED vars
    BY <2>2 DEF vars, RingInv, TypeOK, TailClosesData, DataInitialised
  <2> QED
    BY <2>1, <2>2
<1>3. RingInv => TypeOK /\ TailClosesData /\ DataInitialised
  BY DEF RingInv
<1> QED
  BY <1>1, <1>2, <1>3, PTL DEF Spec

\* The queue of merry_queue.h implements the bounded FIFO.
THEOREM RingImplementsFifo ==
    ASSUME EnoughNodes
    PROVE  Spec => FifoSpec
<1>1. Init => RingInv /\ Fifo!Init
  <2>1. ASSUME Init PROVE RingInv /\ Fifo!Init
    <3>1. PICK ring \in RingLengths : queue = NewQueue(QueueLen, ring, Uninit)
      BY <2>1 DEF Init
    <3>2. Contents(queue) = <<>>
      BY <3>1 DEF Contents, NewQueue
    <3> QED
      BY <2>1, <3>2, InitRingInv DEF Init, Fifo!Init
  <2> QED
    BY <2>1
<1>2. RingInv /\ [Next]_vars => RingInv' /\ [Fifo!Next]_Fifo!vars
  <2>1. CASE Next
    BY <2>1, StepRingInv
  <2>2. CASE UNCHANGED vars
    BY <2>2 DEF vars, Fifo!vars, Contents, FromHead,
       RingInv, TypeOK, TailClosesData, DataInitialised
  <2> QED
    BY <2>1, <2>2
<1> QED
  BY <1>1, <1>2, PTL DEF Spec, FifoSpec, Fifo!Spec

\* What is popped was pushed: no node is read that still holds what malloc left.
THEOREM PopsWhatWasPushed ==
    ASSUME EnoughNodes
    PROVE  Spec => []DataInitialised
<1>1. TypeOK /\ TailClosesData /\ DataInitialised => DataInitialised
  OBVIOUS
<1> QED
  BY <1>1, RingCorrect, PTL

\* A record of the fields of a queue is one.
LEMMA QueueFields ==
    ASSUME NEW q, NEW ring \in 1..(QueueLen + 1),
           NEW count \in 0..QueueLen, NEW head \in 0..QueueLen, NEW tail \in 0..QueueLen,
           NEW nodes \in [0..ring-1 -> Values \cup {Uninit}],
           q = [node_count |-> QueueLen, ring |-> ring, data_count |-> count,
                head |-> head, tail |-> tail, nodes |-> nodes]
    PROVE  q \in QueueType
<1>1. nodes \in UNION {[0..r-1 -> Values \cup {Uninit}] : r \in 1..(QueueLen + 1)}
  OBVIOUS
<1> QED
  BY <1>1 DEF QueueType

\* The fields of a queue that is the queue of TypeOK.
LEMMA TypeFields ==
    ASSUME TypeOK
    PROVE  /\ queue.ring \in 1..(QueueLen + 1) /\ queue.node_count = QueueLen
           /\ queue.data_count \in 0..QueueLen
           /\ queue.head \in 0..QueueLen /\ queue.tail \in 0..QueueLen
           /\ queue.head < queue.ring /\ queue.tail < queue.ring
           /\ queue.nodes \in [0..queue.ring-1 -> Values \cup {Uninit}]
           /\ queue = [node_count |-> queue.node_count, ring |-> queue.ring,
                       data_count |-> queue.data_count, head |-> queue.head,
                       tail |-> queue.tail, nodes |-> queue.nodes]
  BY DEF TypeOK, QueueType

\* The pointers stay in the list and the count within its bound, however short
\* allocation left the list.
THEOREM RingTypes == Spec => []TypeOK
<1> USE QueueLenAssumption, RingLengthsAssumption
<1>1. Init => TypeOK
  <2> SUFFICES ASSUME Init PROVE TypeOK
    OBVIOUS
  <2>1. PICK ring \in 1..(QueueLen + 1) : queue = NewQueue(QueueLen, ring, Uninit)
    BY DEF Init
  <2>2. queue \in QueueType
    BY <2>1, QueueFields DEF NewQueue
  <2> QED
    BY <2>1, <2>2 DEF Init, TypeOK, NewQueue
<1>2. TypeOK /\ [Next]_vars => TypeOK'
  <2> SUFFICES ASSUME TypeOK, [Next]_vars PROVE TypeOK'
    OBVIOUS
  <2> DEFINE q == queue
  <2>1. \A i \in 0..(q.ring - 1) : NextNode(q, i) \in 0..QueueLen /\ NextNode(q, i) < q.ring
    BY TypeFields DEF NextNode
  <2>2. CASE PopRequest
    <3>1. CASE UNCHANGED queue /\ result' = <<"empty">>
      BY <3>1 DEF TypeOK
    <3>2. CASE ~IsEmpty(q) /\ result' = <<"popped", HeadValue(q)>> /\ queue' = Pop(q)
      <4>1. HeadValue(q) \in Values \cup {Uninit}
        BY TypeFields DEF HeadValue
      <4>2. q.data_count - 1 \in 0..QueueLen
        BY <3>2, TypeFields DEF IsEmpty
      <4>3. queue' = [node_count |-> QueueLen, ring |-> q.ring,
                      data_count |-> q.data_count - 1, head |-> NextNode(q, q.head),
                      tail |-> q.tail, nodes |-> q.nodes]
        BY <3>2, TypeFields DEF Pop
      <4>4. queue' \in QueueType
        BY <2>1, <4>2, <4>3, TypeFields, QueueFields
      <4> QED
        BY <2>1, <3>2, <4>1, <4>3, <4>4, TypeFields DEF TypeOK
    <3> QED
      BY <2>2, <3>1, <3>2 DEF PopRequest
  <2>3. ASSUME NEW v \in Values, PushRequest(v) PROVE TypeOK'
    <3>1. CASE UNCHANGED queue /\ result' = <<"full">>
      BY <3>1 DEF TypeOK
    <3>2. CASE ~IsFull(q) /\ queue' = Push(q, v) /\ result' = <<"pushed">>
      <4>1. [q.nodes EXCEPT ![q.tail] = v] \in [0..q.ring-1 -> Values \cup {Uninit}]
        BY TypeFields
      <4>2. q.data_count + 1 \in 0..QueueLen
        BY <3>2, TypeFields DEF IsFull
      <4>3. queue' = [node_count |-> QueueLen, ring |-> q.ring,
                      data_count |-> q.data_count + 1, head |-> q.head,
                      tail |-> NextNode(q, q.tail), nodes |-> [q.nodes EXCEPT ![q.tail] = v]]
        BY <3>2, TypeFields DEF Push
      <4>4. queue' \in QueueType
        BY <2>1, <4>1, <4>2, <4>3, TypeFields, QueueFields
      <4> QED
        BY <2>1, <3>2, <4>1, <4>3, <4>4, TypeFields DEF TypeOK
    <3> QED
      BY <2>3, <3>1, <3>2 DEF PushRequest
  <2>4. CASE UNCHANGED vars
    BY <2>4 DEF vars, TypeOK
  <2> QED
    BY <2>2, <2>3, <2>4 DEF Next
<1> QED
  BY <1>1, <1>2, PTL DEF Spec
=============================================================================
