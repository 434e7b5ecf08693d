---------------------------- MODULE SkynetMq ----------------------------
(***************************************************************************)
(* The message queue of one service (skynet_mq.c): a ring buffer that      *)
(* doubles when the tail meets the head.  Each operator is what one        *)
(* function does to the queue under its spin lock.  A slot outside         *)
(* [head, tail) holds NoMsg: the C code leaves there what it copied out    *)
(* and never reads it.  The overload warning is left out (it only logs).   *)
(***************************************************************************)
EXTENDS Integers, Sequences

CONSTANTS NoMsg,             \* the content of a slot that holds no message
          DefaultQueueSize   \* DEFAULT_QUEUE_SIZE, the first capacity

ASSUME QueueSizeAssumption == DefaultQueueSize \in Nat \ {0}

\* skynet_mq_create: the fields of the ring
EmptyRing == [head |-> 0, tail |-> 0, cap |-> DefaultQueueSize,
              queue |-> [i \in 0 .. DefaultQueueSize - 1 |-> NoMsg]]

skynet_mq_length(q) ==
    IF q.head <= q.tail THEN q.tail - q.head ELSE q.tail + q.cap - q.head

\* The messages of a ring, oldest first.
Contents(q) ==
    [i \in 1 .. skynet_mq_length(q) |-> q.queue[(q.head + i - 1) % q.cap]]

\* Mutant of expand_queue: the slots are copied without turning the ring.
ExpandUnturned(q) ==
    [head |-> 0, tail |-> q.cap, cap |-> 2 * q.cap,
     queue |-> [i \in 0 .. 2 * q.cap - 1 |->
                   IF i < q.cap THEN q.queue[i] ELSE NoMsg]]

expand_queue(q) ==
    [head |-> 0, tail |-> q.cap, cap |-> 2 * q.cap,
     queue |-> [i \in 0 .. 2 * q.cap - 1 |->
                   IF i < q.cap THEN q.queue[(q.head + i) % q.cap] ELSE NoMsg]]

\* skynet_mq_push up to the expansion
RingPush(q, m) ==
    LET r == [q EXCEPT !.queue = [@ EXCEPT ![q.tail] = m],
                       !.tail = IF q.tail + 1 >= q.cap THEN 0 ELSE q.tail + 1]
    IN  IF r.head = r.tail THEN expand_queue(r) ELSE r

RingIsEmpty(q) == q.head = q.tail

\* skynet_mq_pop of a ring that is not empty: the message, and what is left
RingHead(q) == q.queue[q.head]

RingPop(q) ==
    [q EXCEPT !.queue = [@ EXCEPT ![q.head] = NoMsg],
              !.head = IF q.head + 1 >= q.cap THEN 0 ELSE q.head + 1]
=============================================================================
