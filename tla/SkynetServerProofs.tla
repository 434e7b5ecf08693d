------------------------- MODULE SkynetServerProofs -------------------------
(***************************************************************************)
(* Proofs about SkynetServer for any services, worker and pushing threads, *)
(* weights and first capacity of a ring.  The fields of a thread are tied  *)
(* to where it is (ThreadOK); on top of that the references, the places of *)
(* the queues and the life cycle of a service are one inductive invariant. *)
(* With it and the arithmetic of the ring the dispatcher implements the    *)
(* mailboxes of Mailbox.                                                   *)
(***************************************************************************)
EXTENDS SkynetServer, LineFacts, FiniteSetTheorems

USE ThreadAssumption, BootAssumption, NoneAssumption, NoMsgAssumption, QueueSizeAssumption

\* A thread in skynet_send or skynet_context_release goes on at ret.
Calling(r) == r.pc \in {"push", "release", "delete"}
At(r) == IF Calling(r) THEN r.ret ELSE r.pc

Launching == {"init", "setinit", "pushq", "retire"}
Dropping == {"mqrelease", "drop"}
Round == {"mqpop", "length", "handle", "swap", "putback"}

\* The values of a thread's fields.
ThreadRec == [pc : Pc, q : Service \cup {None}, i : Int, n : Int,
              msg : Message \cup {NoMsg}, nq : Service \cup {None},
              new : Service \cup {None}, dq : Service \cup {None},
              rel : Service \cup {None}, out : Message \cup {NoMsg}, ret : Pc \cup {"-"}]

\* What the fields of a thread hold where it is.
ThreadOK(r) ==
    /\ Calling(r) <=> r.rel # None
    /\ r.pc = "push" <=> r.out # NoMsg
    /\ ~Calling(r) => r.ret = "-"
    /\ Calling(r) => r.ret \in {"handle", "init", "outside", "drop", "top", "pop",
                                "setinit", "retire", "mqrelease"}
    /\ r.pc = "push" => r.ret \in {"handle", "init", "outside", "drop"}
    /\ r.nq # None <=> At(r) = "putback"
    /\ r.dq # None <=> At(r) \in Dropping
    /\ r.dq # None => r.dq = IF r.new # None THEN r.new ELSE r.q
    /\ r.new # None <=> \/ At(r) \in Launching
                        \/ At(r) \in Dropping /\ r.msg # NoMsg
    /\ At(r) \in Launching \cup {"length", "handle"} => r.msg # NoMsg
    /\ r.msg # NoMsg => At(r) \in Launching \cup Dropping \cup {"length", "handle"}
    /\ r.msg # NoMsg \/ At(r) \in Round \cup Dropping \cup {"grab"} => r.q # None
    /\ At(r) \in {"pop", "idle", "wait", "outside"} => r.q = None
    /\ At(r) = "setinit" \/ At(r) = "retire" => r.rel \in {None, r.new}

\* The queue of s is in this thread's hands.
Hand(t, s) == s \in {thr[t].q, thr[t].nq, thr[t].new}

\* A ring: its messages lie from head on, and at least one slot is free.
InRing(q, i) == IF q.head <= q.tail THEN q.head <= i /\ i < q.tail
                                    ELSE q.head <= i \/ i < q.tail
RingOf(c) == {q \in [head : 0 .. c - 1, tail : 0 .. c - 1, cap : {c},
                     queue : [0 .. c - 1 -> Message \cup {NoMsg}]] :
                 \A i \in 0 .. c - 1 : InRing(q, i) => q.queue[i] \in Message}
Rings == UNION {RingOf(c) : c \in Nat \ {0}}

Life == {"none", "live", "freed"}

CtxRec == [ref : Nat, init : BOOLEAN, life : Life]
MqRec == [ring : Rings, in_global : BOOLEAN, release : BOOLEAN, life : Life]
StRec == [is : {"unsent", "refused", "sent", "handled", "dropped", "answered"},
          from : Service \cup {None}]

Types ==
    /\ slot \in SUBSET Service
    /\ ctx \in [Service -> CtxRec]
    /\ mq \in [Service -> MqRec]
    /\ gq \in Seq(Service)
    /\ thr \in [Thread -> ThreadRec]
    /\ quit \in BOOLEAN
    /\ st \in [Id -> StRec]

Threads ==
    \A t \in Thread :
        /\ ThreadOK(thr[t])
        /\ t \in External <=> At(thr[t]) = "outside"
        /\ thr[t].pc = "length" => Weight[t] \in 0 .. 3

\* The references to the context of s, and their number.
HoldSet(s) == {p \in Thread \X {"round", "launch", "send"} : p[2] \in Holds(p[1], s)}

Refs == \A s \in Service :
           ctx[s].ref = (IF s \in slot THEN 1 ELSE 0) + Cardinality(HoldSet(s))

\* From creation to the freeing of context and queue.
Lives ==
    /\ \A s \in Service :
          /\ ctx[s].ref > 0 => ctx[s].life = "live"
          /\ mq[s].release <=> ctx[s].life = "freed"
          /\ mq[s].life = "none" <=> ctx[s].life = "none"
          /\ mq[s].life = "freed" => ctx[s].life = "freed"
          /\ mq[s].life # "live" => RingIsEmpty(mq[s].ring)
    /\ \A t \in Thread : thr[t].pc = "delete" =>
          ctx[thr[t].rel].ref = 0 /\ ctx[thr[t].rel].life = "live"
    /\ \A t, u \in Thread :
          thr[t].pc = "delete" /\ thr[u].pc = "delete" /\ thr[t].rel = thr[u].rel => t = u
    /\ \A t \in Thread : At(thr[t]) = "drop" => mq[thr[t].dq].release

\* The queue of s has work, or is to be freed: it has to be in some place.
Placed(s) == mq[s].life = "live" /\ (mq[s].in_global \/ mq[s].release)

\* Where the queues are.
PlaceInv ==
    /\ IsInjective(gq)
    /\ \A t \in Thread, s \in Service : Hand(t, s) => s \notin Range(gq)
    /\ \A t, u \in Thread, s \in Service : Hand(t, s) /\ Hand(u, s) => t = u
    /\ \A t \in Thread : /\ thr[t].q # None => thr[t].q \notin {thr[t].nq, thr[t].new}
                         /\ thr[t].nq # None => thr[t].nq # thr[t].new
    /\ \A s \in Service :
          (s \in Range(gq) \/ \E t \in Thread : Hand(t, s)) <=> Placed(s)
    /\ \A s \in Service :
          mq[s].life = "live" /\ ~mq[s].in_global /\ ~mq[s].release => RingIsEmpty(mq[s].ring)

\* A service is dispatched to only after its launch.
InitInv ==
    /\ \A s \in slot : ctx[s].init \/ \E t \in Thread : /\ thr[t].new = s
                                                        /\ At(thr[t]) \in {"init", "setinit", "retire"}
    /\ \A t \in Thread : InRound(t) => ctx[thr[t].q].init

ServerInv == Types /\ Threads /\ Refs /\ Lives /\ PlaceInv /\ InitInv
-----------------------------------------------------------------------------
(* Counting references.                                                    *)

Kinds == {"round", "launch", "send"}

Ones(K) == (IF "round" \in K THEN 1 ELSE 0) + (IF "launch" \in K THEN 1 ELSE 0)
           + (IF "send" \in K THEN 1 ELSE 0)
Tagged(A, t, K) == A \cup {<<t, k>> : k \in K}

\* How many references a thread holds to a context.
HoldCount(t, s) == Ones(Holds(t, s))

\* The same, read off the fields of the thread.
Busy(r) == r.pc \in Round \/ r.msg # NoMsg
RefOf(r, s) == (IF Busy(r) /\ r.q = s THEN 1 ELSE 0)
               + (IF r.new = s /\ (r.pc = "init" \/ r.ret = "init") THEN 1 ELSE 0)
               + (IF r.rel = s /\ r.pc \in {"push", "release"} THEN 1 ELSE 0)

\* Adding what one thread holds to what the others do.
LEMMA KindsCount ==
    ASSUME NEW A, IsFiniteSet(A), NEW t, NEW K, K \in SUBSET Kinds,
           \A k \in Kinds : <<t, k>> \notin A
    PROVE  Cardinality(Tagged(A, t, K)) = Cardinality(A) + Ones(K)
<1> DEFINE B == IF "round" \in K THEN A \cup {<<t, "round">>} ELSE A
           C == IF "launch" \in K THEN B \cup {<<t, "launch">>} ELSE B
           D == IF "send" \in K THEN C \cup {<<t, "send">>} ELSE C
<1>0. /\ <<t, "round">> \notin A /\ <<t, "launch">> \notin A /\ <<t, "send">> \notin A
      /\ <<t, "launch">> \notin B /\ <<t, "send">> \notin B /\ <<t, "send">> \notin C
  BY DEF Kinds
<1>1. /\ IsFiniteSet(B)
      /\ Cardinality(B) = Cardinality(A) + (IF "round" \in K THEN 1 ELSE 0)
  <2>1. Cardinality(A) \in Nat
    BY FS_CardinalityType
  <2>2. /\ IsFiniteSet(A \cup {<<t, "round">>})
        /\ Cardinality(A \cup {<<t, "round">>}) = Cardinality(A) + 1
    BY <1>0, FS_AddElement, Zenon
  <2> QED BY <2>1, <2>2
<1>2. /\ IsFiniteSet(C)
      /\ Cardinality(C) = Cardinality(B) + (IF "launch" \in K THEN 1 ELSE 0)
  <2> HIDE DEF B
  <2>1. Cardinality(B) \in Nat
    BY <1>1, FS_CardinalityType
  <2>2. /\ IsFiniteSet(B \cup {<<t, "launch">>})
        /\ Cardinality(B \cup {<<t, "launch">>}) = Cardinality(B) + 1
    BY <1>0, <1>1, FS_AddElement, Zenon
  <2> QED BY <1>1, <2>1, <2>2
<1>3. /\ IsFiniteSet(D)
      /\ Cardinality(D) = Cardinality(C) + (IF "send" \in K THEN 1 ELSE 0)
  <2> HIDE DEF C
  <2>1. Cardinality(C) \in Nat
    BY <1>2, FS_CardinalityType
  <2>2. /\ IsFiniteSet(C \cup {<<t, "send">>})
        /\ Cardinality(C \cup {<<t, "send">>}) = Cardinality(C) + 1
    BY <1>0, <1>2, FS_AddElement, Zenon
  <2> QED BY <1>2, <2>1, <2>2
<1>4. D = Tagged(A, t, K)
  BY DEF Kinds, Tagged
<1>5. Cardinality(A) \in Nat
  BY FS_CardinalityType
<1> HIDE DEF B, C, D
<1> QED BY <1>1, <1>2, <1>3, <1>4, <1>5 DEF Ones

\* Only finitely many references are held.
LEMMA HoldFinite ==
    ASSUME NEW s
    PROVE  IsFiniteSet(HoldSet(s))
<1>1. IsFiniteSet(Thread) /\ IsFiniteSet(Kinds)
  <2>1. IsFiniteSet(Thread)
    BY FS_Union DEF Thread
  <2>2. IsFiniteSet({"round"}) /\ IsFiniteSet({"launch"}) /\ IsFiniteSet({"send"})
    BY FS_Singleton
  <2>3. IsFiniteSet({"round"} \cup {"launch"})
    BY <2>2, FS_Union
  <2>4. IsFiniteSet(({"round"} \cup {"launch"}) \cup {"send"})
    BY <2>2, <2>3, FS_Union
  <2>5. Kinds = ({"round"} \cup {"launch"}) \cup {"send"}
    BY DEF Kinds
  <2> QED BY <2>1, <2>4, <2>5
<1>2. IsFiniteSet(Thread \X Kinds)
  BY <1>1, FS_Product
<1> QED BY <1>2, FS_Subset DEF HoldSet, Kinds

\* The references to a context change with those of the thread that moves.
LEMMA HoldStep ==
    ASSUME NEW t \in Thread, NEW s \in Service,
           \A u \in Thread : u # t => thr'[u] = thr[u]
    PROVE  /\ Cardinality(HoldSet(s)) \in Nat
           /\ Cardinality(HoldSet(s)') = Cardinality(HoldSet(s))
                                         + HoldCount(t, s)' - HoldCount(t, s)
<1> DEFINE A == {p \in HoldSet(s) : p[1] # t}
<1>1. IsFiniteSet(HoldSet(s)) /\ IsFiniteSet(A)
  BY HoldFinite, FS_Subset
<1>2. /\ HoldSet(s) = A \cup {<<t, k>> : k \in Holds(t, s)}
      /\ Holds(t, s) \in SUBSET Kinds
  BY DEF HoldSet, Holds, Kinds
<1>3. \A u \in Thread : u # t => Holds(u, s)' = Holds(u, s)
  BY DEF Holds, InRound
<1>4. A = {p \in HoldSet(s)' : p[1] # t}
  BY <1>3 DEF HoldSet
<1>5. /\ HoldSet(s)' = A \cup {<<t, k>> : k \in Holds(t, s)'}
      /\ Holds(t, s)' \in SUBSET Kinds
  <2>1. Holds(t, s)' \in SUBSET Kinds
    BY DEF Holds, Kinds
  <2>2. HoldSet(s)' = {p \in HoldSet(s)' : p[1] # t} \cup {<<t, k>> : k \in Holds(t, s)'}
    BY <2>1 DEF HoldSet, Kinds
  <2> QED BY <1>4, <2>1, <2>2
<1>6. \A k \in Kinds : <<t, k>> \notin A
  OBVIOUS
<1> HIDE DEF A
<1>7. Cardinality(A) \in Nat /\ Cardinality(HoldSet(s)) \in Nat
  BY <1>1, FS_CardinalityType
<1>8. Cardinality(HoldSet(s)) = Cardinality(A) + HoldCount(t, s)
  <2>1. HoldSet(s) = Tagged(A, t, Holds(t, s))
    BY <1>2 DEF Tagged
  <2>2. Cardinality(Tagged(A, t, Holds(t, s))) = Cardinality(A) + Ones(Holds(t, s))
    BY <1>1, <1>2, <1>6, KindsCount
  <2> QED BY <2>1, <2>2 DEF HoldCount
<1>9. Cardinality(HoldSet(s)') = Cardinality(A) + HoldCount(t, s)'
  <2>1. HoldSet(s)' = Tagged(A, t, Holds(t, s)')
    BY <1>5 DEF Tagged
  <2>2. Cardinality(Tagged(A, t, Holds(t, s)')) = Cardinality(A) + Ones(Holds(t, s)')
    BY <1>1, <1>5, <1>6, KindsCount
  <2> QED BY <2>1, <2>2 DEF HoldCount
<1> QED BY <1>7, <1>8, <1>9 DEF HoldCount, Ones

\* Counting by fields.
LEMMA CountByFields ==
    ASSUME NEW t, NEW s
    PROVE  HoldCount(t, s) = RefOf(thr[t], s) /\ HoldCount(t, s)' = RefOf(thr'[t], s)
<1>1. HoldCount(t, s) = RefOf(thr[t], s)
  BY DEF HoldCount, Ones, Holds, InRound, RefOf, Busy, Round
<1>2. HoldCount(t, s)' = RefOf(thr'[t], s)
  BY DEF HoldCount, Ones, Holds, InRound, RefOf, Busy, Round
<1> QED BY <1>1, <1>2

\* The count stays exact when it changes with the references of one thread.
LEMMA RefsStep ==
    ASSUME Refs, NEW t \in Thread, \A u \in Thread : u # t => thr'[u] = thr[u],
           \A s \in Service : /\ ctx[s].ref \in Int /\ ctx'[s].ref \in Int
                              /\ ctx'[s].ref - (IF s \in slot' THEN 1 ELSE 0) - RefOf(thr'[t], s)
                                 = ctx[s].ref - (IF s \in slot THEN 1 ELSE 0) - RefOf(thr[t], s)
    PROVE  Refs'
<1> SUFFICES ASSUME NEW s \in Service
             PROVE  ctx'[s].ref = (IF s \in slot' THEN 1 ELSE 0) + Cardinality(HoldSet(s)')
  BY DEF Refs
<1>1. /\ Cardinality(HoldSet(s)) \in Nat
      /\ Cardinality(HoldSet(s)') = Cardinality(HoldSet(s)) + RefOf(thr'[t], s) - RefOf(thr[t], s)
  BY HoldStep, CountByFields
<1>2. RefOf(thr'[t], s) \in Int /\ RefOf(thr[t], s) \in Int
  BY DEF RefOf
<1>3. ctx[s].ref = (IF s \in slot THEN 1 ELSE 0) + Cardinality(HoldSet(s))
  BY DEF Refs
<1> DEFINE a == ctx[s].ref
           b == ctx'[s].ref
           k == IF s \in slot THEN 1 ELSE 0
           l == IF s \in slot' THEN 1 ELSE 0
           r == RefOf(thr[t], s)
           q == RefOf(thr'[t], s)
           h == Cardinality(HoldSet(s))
           g == Cardinality(HoldSet(s)')
<1>4. /\ a \in Int /\ b \in Int /\ k \in Int /\ l \in Int /\ r \in Int /\ q \in Int /\ h \in Nat
      /\ b - l - q = a - k - r /\ a = k + h /\ g = h + q - r
  BY <1>1, <1>2, <1>3
<1>5. b = l + g
  <2> HIDE DEF a, b, k, l, r, q, h, g
  <2> QED BY <1>4
<1> QED BY <1>5

\* Whoever holds a reference keeps the context alive, and the last reference
\* is nobody else's.
LEMMA HeldRef ==
    ASSUME Types, Refs, NEW t \in Thread, NEW s \in Service, NEW k \in Holds(t, s)
    PROVE  /\ ctx[s].ref > 0
           /\ ctx[s].ref = 1 => /\ s \notin slot
                                /\ \A u \in Thread, l \in Kinds : l \in Holds(u, s) => u = t /\ l = k
<1>1. IsFiniteSet(HoldSet(s))
  BY HoldFinite
<1>2. <<t, k>> \in HoldSet(s)
  BY DEF HoldSet, Holds
<1>3. Cardinality(HoldSet(s)) \in Nat /\ Cardinality(HoldSet(s)) # 0
  BY <1>1, <1>2, FS_CardinalityType, FS_EmptySet
<1>4. ctx[s].ref = (IF s \in slot THEN 1 ELSE 0) + Cardinality(HoldSet(s))
  BY DEF Refs
<1>5. ASSUME ctx[s].ref = 1, NEW u \in Thread, NEW l \in Kinds, l \in Holds(u, s)
      PROVE  u = t /\ l = k
  <2>1. Cardinality(HoldSet(s)) = 1
    BY <1>3, <1>4, <1>5
  <2>2. \E x : HoldSet(s) = {x}
    BY <1>1, <2>1, FS_Singleton
  <2>3. <<u, l>> \in HoldSet(s)
    BY <1>5 DEF HoldSet, Kinds
  <2>4. <<u, l>> = <<t, k>>
    BY <1>2, <2>2, <2>3
  <2> QED BY <2>4
<1> QED BY <1>3, <1>4, <1>5
-----------------------------------------------------------------------------
(* The ring buffer.                                                        *)

\* Indices that have passed the end of the ring once.
LEMMA Turn ==
    ASSUME NEW c \in Nat, NEW a \in Nat, c > 0, a < 2 * c
    PROVE  a % c = IF a < c THEN a ELSE a - c
OBVIOUS

\* A share of a number of messages is a number.
LEMMA Halved ==
    ASSUME NEW a \in Int, NEW w \in 0 .. 3
    PROVE  a \div 2 ^ w \in Int
<1> DEFINE v == 2 ^ w
<1>1. 2 ^ 0 = 1 /\ 2 ^ 1 = 2 /\ 2 ^ 2 = 4 /\ 2 ^ 3 = 8
  OBVIOUS
<1>2. w = 0 \/ w = 1 \/ w = 2 \/ w = 3
  OBVIOUS
<1>3. v \in {1, 2, 4, 8}
  BY <1>1, <1>2
<1> HIDE DEF v
<1>4. a \div v \in Int
  BY <1>3
<1> QED BY <1>4 DEF v

\* A new ring.
LEMMA EmptyRingOK ==
    /\ EmptyRing \in Rings /\ RingIsEmpty(EmptyRing)
    /\ BootMq.ring \in Rings /\ RingIsEmpty(BootMq.ring)
<1> DEFINE c == DefaultQueueSize
<1>1. EmptyRing \in RingOf(c) /\ RingIsEmpty(EmptyRing)
  BY DEF RingOf, RingIsEmpty, EmptyRing, InRing
<1>2. /\ EmptyRing \in [head : {0}, tail : {0}, cap : {c},
                        queue : [0 .. c - 1 -> Message \cup {NoMsg}]]
      /\ NewMq.ring = EmptyRing
      /\ NewMq \in [ring : {EmptyRing}, in_global : {TRUE}, release : {FALSE}, life : {"live"}]
  BY DEF NewMq, NoMq, EmptyRing
<1>3. /\ BootMq.ring \in [head : 0 .. c - 1, tail : 0 .. c - 1, cap : {c},
                          queue : [0 .. c - 1 -> Message \cup {NoMsg}]]
      /\ BootMq.ring.head = c - 1 /\ BootMq.ring.tail = c - 1
  <2>1. BootMq.ring = [EmptyRing EXCEPT !.head = c - 1, !.tail = c - 1]
    BY <1>2 DEF BootMq
  <2>2. c - 1 \in 0 .. c - 1 /\ 0 \in 0 .. c - 1
    OBVIOUS
  <2>3. BootMq.ring.head = c - 1 /\ BootMq.ring.tail = c - 1
    BY <1>2, <2>1
  <2> QED BY <1>2, <2>1, <2>2, <2>3
<1>4. BootMq.ring \in RingOf(c) /\ RingIsEmpty(BootMq.ring)
  BY <1>3 DEF RingOf, RingIsEmpty, InRing
<1> QED BY <1>1, <1>4 DEF Rings

\* What is known of a ring.
LEMMA RingFacts ==
    ASSUME NEW q \in Rings
    PROVE  /\ q.cap \in Nat /\ q.cap > 0 /\ q.head \in 0 .. q.cap - 1 /\ q.tail \in 0 .. q.cap - 1
           /\ q.queue \in [0 .. q.cap - 1 -> Message \cup {NoMsg}]
           /\ q \in [head : 0 .. q.cap - 1, tail : 0 .. q.cap - 1, cap : {q.cap},
                     queue : [0 .. q.cap - 1 -> Message \cup {NoMsg}]]
           /\ \A i \in 0 .. q.cap - 1 : InRing(q, i) => q.queue[i] \in Message
<1>1. PICK c \in Nat \ {0} : q \in RingOf(c)
  BY DEF Rings
<1>2. q.cap = c
  BY <1>1 DEF RingOf
<1> QED BY <1>1, <1>2 DEF RingOf

\* The length of a ring is a number.
LEMMA LengthType ==
    ASSUME NEW q \in Rings
    PROVE  skynet_mq_length(q) \in Nat /\ skynet_mq_length(q) < q.cap
<1>1. q.cap \in Nat /\ q.head \in 0 .. q.cap - 1 /\ q.tail \in 0 .. q.cap - 1
  BY RingFacts
<1> QED BY <1>1 DEF skynet_mq_length

\* A push before the expansion.
Pushed(q, m) == [q EXCEPT !.queue = [@ EXCEPT ![q.tail] = m],
                          !.tail = IF q.tail + 1 >= q.cap THEN 0 ELSE q.tail + 1]

\* What it leaves in the fields.
LEMMA PushedFields ==
    ASSUME NEW q \in Rings, NEW m \in Message
    PROVE  LET r == Pushed(q, m) IN
           /\ r \in [head : 0 .. q.cap - 1, tail : 0 .. q.cap - 1, cap : {q.cap},
                     queue : [0 .. q.cap - 1 -> Message \cup {NoMsg}]]
           /\ r.head = q.head /\ r.cap = q.cap /\ r.queue = [q.queue EXCEPT ![q.tail] = m]
           /\ r.tail = IF q.tail + 1 >= q.cap THEN 0 ELSE q.tail + 1
           /\ RingPush(q, m) = IF r.head = r.tail THEN expand_queue(r) ELSE r
<1> DEFINE c == q.cap
<1>1. /\ c \in Nat /\ q.head \in 0 .. c - 1 /\ q.tail \in 0 .. c - 1 /\ q.cap = c
      /\ q.queue \in [0 .. c - 1 -> Message \cup {NoMsg}]
      /\ q \in [head : 0 .. c - 1, tail : 0 .. c - 1, cap : {c},
                queue : [0 .. c - 1 -> Message \cup {NoMsg}]]
  BY RingFacts
<1> HIDE DEF c
<1> DEFINE r == Pushed(q, m)
<1>2. /\ [q.queue EXCEPT ![q.tail] = m] \in [0 .. c - 1 -> Message \cup {NoMsg}]
      /\ (IF q.tail + 1 >= q.cap THEN 0 ELSE q.tail + 1) \in 0 .. c - 1
  BY <1>1
<1>3. /\ r.head = q.head /\ r.cap = q.cap /\ r.queue = [q.queue EXCEPT ![q.tail] = m]
      /\ r.tail = IF q.tail + 1 >= q.cap THEN 0 ELSE q.tail + 1
  BY <1>1 DEF Pushed
<1>4. r \in [head : 0 .. c - 1, tail : 0 .. c - 1, cap : {c},
             queue : [0 .. c - 1 -> Message \cup {NoMsg}]]
  BY <1>1, <1>2 DEF Pushed
<1>5. RingPush(q, m) = IF r.head = r.tail THEN expand_queue(r) ELSE r
  BY DEF RingPush, Pushed
<1> QED BY <1>1, <1>3, <1>4, <1>5

\* A push leaves a proper ring that is not empty.
LEMMA PushOK ==
    ASSUME NEW q \in Rings, NEW m \in Message
    PROVE  RingPush(q, m) \in Rings /\ ~RingIsEmpty(RingPush(q, m))
<1> DEFINE r == Pushed(q, m)
<1>1. /\ r.head = q.head /\ r.cap = q.cap /\ r.queue = [q.queue EXCEPT ![q.tail] = m]
      /\ r.tail = IF q.tail + 1 >= q.cap THEN 0 ELSE q.tail + 1
      /\ r \in [head : 0 .. r.cap - 1, tail : 0 .. r.cap - 1, cap : {r.cap},
                queue : [0 .. r.cap - 1 -> Message \cup {NoMsg}]]
      /\ RingPush(q, m) = IF r.head = r.tail THEN expand_queue(r) ELSE r
  BY PushedFields
<1>2. /\ q.head \in Nat /\ q.tail \in Nat /\ q.cap \in Nat /\ q.head < q.cap /\ q.tail < q.cap
      /\ q.queue \in [0 .. q.cap - 1 -> Message \cup {NoMsg}]
      /\ \A i \in 0 .. q.cap - 1 : InRing(q, i) => q.queue[i] \in Message
  BY RingFacts
<1> HIDE DEF r
<1>3. /\ r.tail \in Nat /\ r.tail < r.cap /\ r.cap \in Nat \ {0}
      /\ r.queue \in [0 .. r.cap - 1 -> Message \cup {NoMsg}]
      /\ \A i \in 0 .. r.cap - 1 : r.queue[i] = IF i = q.tail THEN m ELSE q.queue[i]
  BY <1>1, <1>2
<1>4. CASE r.head # r.tail
  <2>1. RingPush(q, m) = r
    BY <1>1, <1>4
  <2>2. \A i \in 0 .. r.cap - 1 : InRing(r, i) => r.queue[i] \in Message
    BY <1>1, <1>2, <1>3, <1>4, SMTT(30) DEF InRing
  <2>3. r \in RingOf(r.cap)
    BY <1>1, <2>2 DEF RingOf
  <2> QED BY <1>3, <1>4, <2>1, <2>3 DEF Rings, RingIsEmpty
<1>5. CASE r.head = r.tail
  <2> DEFINE e == expand_queue(r)
             c == 2 * r.cap
  <2>1. RingPush(q, m) = e
    BY <1>1, <1>5
  <2>2. \A i \in 0 .. r.cap - 1 : r.queue[i] \in Message
    BY <1>1, <1>2, <1>3, <1>5 DEF InRing
  <2>3. \A i \in 0 .. r.cap - 1 : (r.head + i) % r.cap \in 0 .. r.cap - 1
    <3>1. r.cap \in Nat \ {0} /\ r.head \in Nat
      BY <1>1, <1>2
    <3> QED BY <3>1
  <2> DEFINE f(i) == IF i < r.cap THEN r.queue[(r.head + i) % r.cap] ELSE NoMsg
  <2>4. ASSUME NEW i \in 0 .. c - 1
        PROVE  f(i) \in Message \cup {NoMsg} /\ (i < r.cap => f(i) \in Message)
    <3>1. CASE i < r.cap
      <4>1. i \in 0 .. r.cap - 1
        BY <1>1, <1>2, <3>1
      <4>2. r.queue[(r.head + i) % r.cap] \in Message
        BY <2>2, <2>3, <4>1
      <4> QED BY <3>1, <4>2
    <3>2. CASE ~(i < r.cap)
      BY <3>2
    <3> QED BY <3>1, <3>2
  <2>5. /\ e.head = 0 /\ e.tail = r.cap /\ e.cap = c
        /\ e = [head |-> e.head, tail |-> e.tail, cap |-> e.cap, queue |-> e.queue]
        /\ e.queue = [i \in 0 .. 2 * r.cap - 1 |->
                         IF i < r.cap THEN r.queue[(r.head + i) % r.cap] ELSE NoMsg]
    BY DEF expand_queue
  <2>6. e.queue = [i \in 0 .. c - 1 |-> f(i)]
    BY <2>5
  <2> HIDE DEF f, e
  <2>7. e.queue \in [0 .. c - 1 -> Message \cup {NoMsg}]
    BY <2>4, <2>6
  <2>8. e \in [head : 0 .. c - 1, tail : 0 .. c - 1, cap : {c},
               queue : [0 .. c - 1 -> Message \cup {NoMsg}]]
    <3>1. 0 \in 0 .. c - 1 /\ r.cap \in 0 .. c - 1
      BY <1>3
    <3> QED BY <2>5, <2>6, <2>7, <3>1
  <2>9. ASSUME NEW i \in 0 .. c - 1, InRing(e, i) PROVE e.queue[i] \in Message
    <3>1. i < r.cap
      BY <1>3, <2>5, <2>9 DEF InRing
    <3> QED BY <2>4, <2>6, <3>1
  <2>10. e \in RingOf(c) /\ c \in Nat \ {0}
    BY <1>3, <2>8, <2>9 DEF RingOf
  <2> QED BY <1>3, <2>1, <2>5, <2>10 DEF Rings, RingIsEmpty
<1> QED BY <1>4, <1>5

\* A pop from a ring that is not empty takes a message and leaves a ring.
LEMMA PopOK ==
    ASSUME NEW q \in Rings, ~RingIsEmpty(q)
    PROVE  RingPop(q) \in Rings /\ RingHead(q) \in Message
<1> DEFINE r == RingPop(q)
<1>1. /\ r.tail = q.tail /\ r.cap = q.cap /\ r.queue = [q.queue EXCEPT ![q.head] = NoMsg]
      /\ r.head = IF q.head + 1 >= q.cap THEN 0 ELSE q.head + 1
      /\ r \in [head : 0 .. r.cap - 1, tail : 0 .. r.cap - 1, cap : {r.cap},
                queue : [0 .. r.cap - 1 -> Message \cup {NoMsg}]]
  <2> DEFINE c == q.cap
  <2>1. /\ c \in Nat /\ q.head \in 0 .. c - 1 /\ q.tail \in 0 .. c - 1 /\ q.cap = c
        /\ q.queue \in [0 .. c - 1 -> Message \cup {NoMsg}]
        /\ q \in [head : 0 .. c - 1, tail : 0 .. c - 1, cap : {c},
                  queue : [0 .. c - 1 -> Message \cup {NoMsg}]]
    BY RingFacts
  <2> HIDE DEF c
  <2>2. /\ [q.queue EXCEPT ![q.head] = NoMsg] \in [0 .. c - 1 -> Message \cup {NoMsg}]
        /\ (IF q.head + 1 >= q.cap THEN 0 ELSE q.head + 1) \in 0 .. c - 1
    BY <2>1
  <2>3. /\ r.tail = q.tail /\ r.cap = q.cap /\ r.queue = [q.queue EXCEPT ![q.head] = NoMsg]
        /\ r.head = IF q.head + 1 >= q.cap THEN 0 ELSE q.head + 1
    BY <2>1 DEF RingPop
  <2>4. r \in [head : 0 .. c - 1, tail : 0 .. c - 1, cap : {c},
               queue : [0 .. c - 1 -> Message \cup {NoMsg}]]
    BY <2>1, <2>2 DEF RingPop
  <2> QED BY <2>1, <2>3, <2>4
<1>2. /\ q.head \in Nat /\ q.tail \in Nat /\ q.cap \in Nat /\ q.head < q.cap /\ q.tail < q.cap
      /\ q.queue \in [0 .. q.cap - 1 -> Message \cup {NoMsg}] /\ q.head # q.tail
      /\ \A i \in 0 .. q.cap - 1 : InRing(q, i) => q.queue[i] \in Message
  BY RingFacts DEF RingIsEmpty
<1> HIDE DEF r
<1>3. /\ r.head \in Nat /\ r.head < r.cap /\ r.cap \in Nat \ {0}
      /\ \A i \in 0 .. r.cap - 1 : r.queue[i] = IF i = q.head THEN NoMsg ELSE q.queue[i]
  BY <1>1, <1>2
<1>4. \A i \in 0 .. r.cap - 1 : InRing(r, i) => r.queue[i] \in Message
  BY <1>1, <1>2, <1>3 DEF InRing
<1>5. RingHead(q) \in Message
  BY <1>2 DEF RingHead, InRing
<1>6. r \in RingOf(r.cap)
  BY <1>1, <1>4 DEF RingOf
<1> QED BY <1>3, <1>5, <1>6 DEF Rings, r
-----------------------------------------------------------------------------
(* What a step of one thread needs to show.                                *)

\* Thread t moves alone, and these are its fields then.
Now(t, pc, q, msg, nq, new, dq, rel, out, ret) ==
    /\ thr' \in [Thread -> ThreadRec]
    /\ \A u \in Thread : u # t => thr'[u] = thr[u]
    /\ thr'[t].pc = pc /\ thr'[t].q = q /\ thr'[t].msg = msg /\ thr'[t].nq = nq
    /\ thr'[t].new = new /\ thr'[t].dq = dq
    /\ thr'[t].rel = rel /\ thr'[t].out = out /\ thr'[t].ret = ret

\* Only the queue of s changes, and these are its fields then.
MqNow(s, ring, in_global, release, life) ==
    /\ mq' \in [Service -> MqRec]
    /\ \A x \in Service : x # s => mq'[x] = mq[x]
    /\ mq'[s].ring = ring /\ mq'[s].life = life
    /\ mq'[s].in_global <=> in_global
    /\ mq'[s].release <=> release

\* Only the context of s changes, and these are its fields then.
CtxNow(s, ref, init, life) ==
    /\ ctx' \in [Service -> CtxRec]
    /\ \A x \in Service : x # s => ctx'[x] = ctx[x]
    /\ ctx'[s].ref = ref /\ ctx'[s].life = life
    /\ ctx'[s].init <=> init

\* A thread's part of the invariant.
LEMMA ThreadFacts ==
    ASSUME ServerInv, NEW t \in Thread
    PROVE  /\ thr \in [Thread -> ThreadRec] /\ thr[t] \in ThreadRec /\ ThreadOK(thr[t])
           /\ t \in External <=> At(thr[t]) = "outside"
BY DEF ServerInv, Types, Threads

\* The fields of a thread that moves alone.
LEMMA Moves ==
    ASSUME ServerInv, NEW t \in Thread, NEW x \in ThreadRec, thr' = [thr EXCEPT ![t] = x]
    PROVE  Now(t, x.pc, x.q, x.msg, x.nq, x.new, x.dq, x.rel, x.out, x.ret)
BY DEF ServerInv, Types, Now

\* The fields of the only context that changes.
LEMMA CtxMoves ==
    ASSUME ServerInv, NEW s \in Service, NEW x \in CtxRec, ctx' = [ctx EXCEPT ![s] = x]
    PROVE  CtxNow(s, x.ref, x.init, x.life)
BY DEF ServerInv, Types, CtxNow

\* The fields of the only queue that changes.
LEMMA MqMoves ==
    ASSUME ServerInv, NEW s \in Service, NEW x \in MqRec, mq' = [mq EXCEPT ![s] = x]
    PROVE  MqNow(s, x.ring, x.in_global, x.release, x.life)
BY DEF ServerInv, Types, MqNow

\* Whoever holds a reference meets a context and a queue that are alive.
LEMMA HeldLive ==
    ASSUME ServerInv, NEW t \in Thread, NEW s \in Service, RefOf(thr[t], s) # 0
    PROVE  /\ ctx[s].ref \in Nat /\ ctx[s].ref > 0 /\ ctx[s].life = "live"
           /\ mq[s].life = "live" /\ ~mq[s].release
<1>1. PICK k \in Holds(t, s) : TRUE
  BY DEF RefOf, Busy, Round, Holds, InRound
<1>2. ctx[s].ref > 0
  BY <1>1, HeldRef DEF ServerInv
<1> QED BY <1>2 DEF ServerInv, Lives, Types, CtxRec, MqRec, Life

\* A registered context counts the handle table's reference.
LEMMA SlotLive ==
    ASSUME ServerInv, NEW s \in slot
    PROVE  /\ s \in Service /\ ctx[s].ref \in Nat /\ ctx[s].ref > 0 /\ ctx[s].life = "live"
           /\ mq[s].life = "live" /\ ~mq[s].release
<1>1. s \in Service /\ ctx[s].ref \in Nat
  BY DEF ServerInv, Types, CtxRec
<1>2. ctx[s].ref > 0
  <2>1. IsFiniteSet(HoldSet(s))
    BY <1>1, HoldFinite
  <2>2. Cardinality(HoldSet(s)) \in Nat
    BY <2>1, FS_CardinalityType
  <2>3. ctx[s].ref = 1 + Cardinality(HoldSet(s))
    BY <1>1 DEF ServerInv, Refs
  <2> QED BY <2>2, <2>3
<1> QED BY <1>1, <1>2 DEF ServerInv, Lives, Types, CtxRec, MqRec, Life

\* The moves of a queue between places: A arrives from nowhere, D goes.
LEMMA PlaceStep ==
    ASSUME PlaceInv, NEW t \in Thread, \A u \in Thread : u # t => thr'[u] = thr[u],
           IsInjective(gq'), NEW A, NEW D,
           \A s \in Service :
              /\ (s \in Range(gq') \/ Hand(t, s)') <=>
                    (s \in Range(gq) \/ Hand(t, s) \/ s \in A) /\ s \notin D
              /\ ~(s \in Range(gq') /\ Hand(t, s)')
              /\ s \in A => ~Placed(s) /\ Placed(s)'
              /\ s \in D => (s \in Range(gq) \/ Hand(t, s)) /\ ~Placed(s)'
              /\ s \notin A /\ s \notin D => (Placed(s)' <=> Placed(s))
              /\ mq'[s].life = "live" /\ ~mq'[s].in_global /\ ~mq'[s].release
                    => RingIsEmpty(mq'[s].ring),
           /\ thr'[t].q # None => thr'[t].q \notin {thr'[t].nq, thr'[t].new}
           /\ thr'[t].nq # None => thr'[t].nq # thr'[t].new
    PROVE  PlaceInv'
<1>1. \A u \in Thread : \A s : u # t => (Hand(u, s)' <=> Hand(u, s))
  BY DEF Hand
<1>2. \A u \in Thread, s \in Service : Hand(u, s)' => s \notin Range(gq')
  BY <1>1 DEF PlaceInv
<1>3. \A u, v \in Thread, s \in Service : Hand(u, s)' /\ Hand(v, s)' => u = v
  BY <1>1 DEF PlaceInv
<1>4. \A s \in Service : (s \in Range(gq') \/ \E u \in Thread : Hand(u, s)') <=> Placed(s)'
  <2> SUFFICES ASSUME NEW s \in Service
               PROVE  (s \in Range(gq') \/ \E u \in Thread : Hand(u, s)') <=> Placed(s)'
    OBVIOUS
  <2>1. (s \in Range(gq) \/ \E u \in Thread : Hand(u, s)) <=> Placed(s)
    BY DEF PlaceInv
  <2>2. Placed(s)' \in BOOLEAN /\ Placed(s) \in BOOLEAN
    BY DEF Placed
  <2>3. s \in D => \A u \in Thread : u # t => ~Hand(u, s)
    BY DEF PlaceInv
  <2> QED BY <1>1, <2>1, <2>2, <2>3
<1>5. \A u \in Thread : /\ thr'[u].q # None => thr'[u].q \notin {thr'[u].nq, thr'[u].new}
                        /\ thr'[u].nq # None => thr'[u].nq # thr'[u].new
  BY DEF PlaceInv
<1> QED BY <1>2, <1>3, <1>4, <1>5 DEF PlaceInv

\* A step that leaves every queue where it is.
LEMMA PlacesKept ==
    ASSUME PlaceInv, NEW t \in Thread, \A u \in Thread : u # t => thr'[u] = thr[u],
           gq' = gq, thr'[t].q = thr[t].q, thr'[t].nq = thr[t].nq, thr'[t].new = thr[t].new,
           \A s \in Service :
              /\ (Placed(s)' <=> Placed(s))
              /\ mq'[s].life = "live" /\ ~mq'[s].in_global /\ ~mq'[s].release
                    => RingIsEmpty(mq'[s].ring)
    PROVE  PlaceInv'
<1>1. \A s : Hand(t, s)' <=> Hand(t, s)
  BY DEF Hand
<1>2. IsInjective(gq) /\ \A s \in Service : ~(s \in Range(gq) /\ Hand(t, s))
  BY DEF PlaceInv
<1>3. /\ thr'[t].q # None => thr'[t].q \notin {thr'[t].nq, thr'[t].new}
      /\ thr'[t].nq # None => thr'[t].nq # thr'[t].new
  BY DEF PlaceInv
<1>4. \A s \in Service :
              /\ (s \in Range(gq') \/ Hand(t, s)') <=>
                    (s \in Range(gq) \/ Hand(t, s) \/ s \in {}) /\ s \notin {}
              /\ ~(s \in Range(gq') /\ Hand(t, s)')
              /\ s \in {} => ~Placed(s) /\ Placed(s)'
              /\ s \in {} => (s \in Range(gq) \/ Hand(t, s)) /\ ~Placed(s)'
              /\ s \notin {} /\ s \notin {} => (Placed(s)' <=> Placed(s))
              /\ mq'[s].life = "live" /\ ~mq'[s].in_global /\ ~mq'[s].release
                    => RingIsEmpty(mq'[s].ring)
  BY <1>1, <1>2
<1> QED BY <1>2, <1>3, <1>4, PlaceStep

\* A step in which no context or queue is created, marked or freed.
LEMMA LivesKept ==
    ASSUME ServerInv, NEW t \in Thread, \A u \in Thread : u # t => thr'[u] = thr[u],
           thr'[t].pc # "delete",
           At(thr'[t]) = "drop" => thr'[t].dq \in Service /\ mq[thr'[t].dq].release,
           \A s \in Service :
              /\ ctx'[s].life = ctx[s].life /\ (mq'[s].release <=> mq[s].release)
              /\ mq'[s].life = mq[s].life
              /\ mq[s].life # "live" => mq'[s].ring = mq[s].ring
              /\ ctx[s].ref = 0 => ctx'[s].ref = 0
              /\ ctx'[s].ref > 0 => ctx[s].life = "live"
    PROVE  Lives'
<1>1. \A s \in Service :
          /\ ctx'[s].ref > 0 => ctx'[s].life = "live"
          /\ mq'[s].release <=> ctx'[s].life = "freed"
          /\ mq'[s].life = "none" <=> ctx'[s].life = "none"
          /\ mq'[s].life = "freed" => ctx'[s].life = "freed"
          /\ mq'[s].life # "live" => RingIsEmpty(mq'[s].ring)
  BY DEF ServerInv, Lives
<1>2. \A u \in Thread : /\ thr[u].pc = "delete" => thr[u].rel \in Service
                        /\ At(thr[u]) = "drop" => thr[u].dq \in Service
  BY ThreadFacts DEF ThreadRec, ThreadOK, Calling, Dropping
<1>3. \A u \in Thread : thr'[u].pc = "delete" =>
          ctx'[thr'[u].rel].ref = 0 /\ ctx'[thr'[u].rel].life = "live"
  BY <1>2 DEF ServerInv, Lives
<1>4. \A u \in Thread : At(thr'[u]) = "drop" => mq'[thr'[u].dq].release
  BY <1>2 DEF ServerInv, Lives
<1>5. \A u, v \in Thread :
          thr'[u].pc = "delete" /\ thr'[v].pc = "delete" /\ thr'[u].rel = thr'[v].rel => u = v
  BY DEF ServerInv, Lives
<1> QED BY <1>1, <1>3, <1>4, <1>5 DEF Lives

\* A step that starts no round and ends no launch but by its init flag.
LEMMA InitKept ==
    ASSUME ServerInv, NEW t \in Thread, \A u \in Thread : u # t => thr'[u] = thr[u],
           slot' \subseteq slot,
           \A s \in Service : ctx[s].init => ctx'[s].init,
           Busy(thr'[t]) => \/ Busy(thr[t]) /\ thr'[t].q = thr[t].q
                            \/ thr'[t].q \in Service /\ ctx[thr'[t].q].init,
           At(thr[t]) \in {"init", "setinit", "retire"} =>
              \/ thr'[t].new = thr[t].new /\ At(thr'[t]) \in {"init", "setinit", "retire"}
              \/ thr[t].new \notin slot'
              \/ ctx'[thr[t].new].init
    PROVE  InitInv'
<1>1. \A u \in Thread : InRound(u) => thr[u].q \in Service /\ ctx[thr[u].q].init
  <2> SUFFICES ASSUME NEW u \in Thread, InRound(u)
               PROVE  thr[u].q \in Service /\ ctx[thr[u].q].init
    OBVIOUS
  <2>1. thr[u] \in ThreadRec /\ ThreadOK(thr[u])
    BY ThreadFacts
  <2>2. thr[u].q # None
    BY <2>1 DEF ThreadOK, InRound, At, Calling, Round
  <2> QED BY <2>1, <2>2 DEF ThreadRec, ServerInv, InitInv
<1>2. \A u \in Thread : InRound(u)' => ctx'[thr'[u].q].init
  <2> SUFFICES ASSUME NEW u \in Thread, InRound(u)' PROVE ctx'[thr'[u].q].init
    OBVIOUS
  <2>1. \/ InRound(u) /\ thr'[u].q = thr[u].q
        \/ thr'[u].q \in Service /\ ctx[thr'[u].q].init
    BY DEF InRound, Busy, Round
  <2> QED BY <1>1, <2>1
<1>3. ASSUME NEW s \in slot'
      PROVE  ctx'[s].init \/ \E u \in Thread : /\ thr'[u].new = s
                                               /\ At(thr'[u]) \in {"init", "setinit", "retire"}
  <2>1. s \in slot /\ s \in Service
    BY DEF ServerInv, Types
  <2>2. CASE ctx[s].init
    BY <2>1, <2>2
  <2>3. ASSUME NEW u \in Thread, thr[u].new = s, At(thr[u]) \in {"init", "setinit", "retire"}
        PROVE  ctx'[s].init \/ \E v \in Thread : /\ thr'[v].new = s
                                                 /\ At(thr'[v]) \in {"init", "setinit", "retire"}
    BY <2>3
  <2> QED BY <2>1, <2>2, <2>3 DEF ServerInv, InitInv
<1> QED BY <1>2, <1>3 DEF InitInv
-----------------------------------------------------------------------------
(* The steps.                                                              *)

USE DEF Launching, Dropping, Round, Calling

\* One field of a thread at a time.
LEMMA FieldTypes ==
    ASSUME NEW y \in ThreadRec
    PROVE  /\ \A pc \in Pc : [y EXCEPT !.pc = pc] \in ThreadRec
           /\ \A s \in Service \cup {None} : [y EXCEPT !.rel = s] \in ThreadRec
           /\ \A m \in Message \cup {NoMsg} : /\ [y EXCEPT !.out = m] \in ThreadRec
                                             /\ [y EXCEPT !.msg = m] \in ThreadRec
           /\ \A pc \in Pc \cup {"-"} : [y EXCEPT !.ret = pc] \in ThreadRec
           /\ \A j \in Int : [y EXCEPT !.i = j] \in ThreadRec /\ [y EXCEPT !.n = j] \in ThreadRec
<1>1. ASSUME NEW pc \in Pc PROVE [y EXCEPT !.pc = pc] \in ThreadRec
  BY DEF ThreadRec
<1>2. ASSUME NEW s \in Service \cup {None} PROVE [y EXCEPT !.rel = s] \in ThreadRec
  BY DEF ThreadRec
<1>3. ASSUME NEW m \in Message \cup {NoMsg} PROVE [y EXCEPT !.out = m] \in ThreadRec
  BY DEF ThreadRec
<1>4. ASSUME NEW m \in Message \cup {NoMsg} PROVE [y EXCEPT !.msg = m] \in ThreadRec
  BY DEF ThreadRec
<1>5. ASSUME NEW pc \in Pc \cup {"-"} PROVE [y EXCEPT !.ret = pc] \in ThreadRec
  BY DEF ThreadRec
<1>6. ASSUME NEW j \in Int PROVE [y EXCEPT !.i = j] \in ThreadRec
  BY DEF ThreadRec
<1>7. ASSUME NEW j \in Int PROVE [y EXCEPT !.n = j] \in ThreadRec
  BY DEF ThreadRec
<1> QED BY <1>1, <1>2, <1>3, <1>4, <1>5, <1>6, <1>7

\* A call changes where a thread is, what it holds and where it goes on.
Call(y, pc, rel, out, ret) == [y EXCEPT !.pc = pc, !.rel = rel, !.out = out, !.ret = ret]

\* It leaves the other fields alone.
LEMMA CallFields ==
    ASSUME NEW y \in ThreadRec, NEW pc \in Pc, NEW rel \in Service \cup {None},
           NEW out \in Message \cup {NoMsg}, NEW ret \in Pc \cup {"-"}
    PROVE  LET x == Call(y, pc, rel, out, ret) IN
           /\ x \in ThreadRec /\ x.pc = pc /\ x.q = y.q /\ x.msg = y.msg
           /\ x.nq = y.nq /\ x.new = y.new /\ x.dq = y.dq /\ x.rel = rel
           /\ x.out = out /\ x.ret = ret /\ x.i = y.i /\ x.n = y.n
<1> DEFINE a == [y EXCEPT !.pc = pc]
           b == [a EXCEPT !.rel = rel]
           c == [b EXCEPT !.out = out]
           x == [c EXCEPT !.ret = ret]
<1>1. a \in ThreadRec
  BY FieldTypes
<1>2. b \in ThreadRec
  <2> HIDE DEF a
  <2> QED BY <1>1, FieldTypes
<1>3. c \in ThreadRec
  <2> HIDE DEF b
  <2> QED BY <1>2, FieldTypes
<1>4. x \in ThreadRec
  <2> HIDE DEF c
  <2> QED BY <1>3, FieldTypes
<1>5. Call(y, pc, rel, out, ret) = x
  BY DEF Call
<1>6. /\ x.pc = pc /\ x.q = y.q /\ x.msg = y.msg
      /\ x.nq = y.nq /\ x.new = y.new /\ x.dq = y.dq /\ x.rel = rel
      /\ x.out = out /\ x.ret = ret /\ x.i = y.i /\ x.n = y.n
  BY DEF ThreadRec
<1> QED BY <1>4, <1>5, <1>6

\* A thread that gives up a reference.
LEMMA ReleaseThenIs ==
    ASSUME NEW t, thr[t] \in ThreadRec, NEW s \in Service, NEW ret \in Pc
    PROVE  LET x == ReleaseThen(t, s, ret) IN
           /\ x \in ThreadRec /\ x.pc = "release" /\ x.q = thr[t].q /\ x.msg = thr[t].msg
           /\ x.nq = thr[t].nq /\ x.new = thr[t].new /\ x.dq = thr[t].dq /\ x.rel = s
           /\ x.out = NoMsg /\ x.ret = ret /\ x.i = thr[t].i /\ x.n = thr[t].n
<1>1. "release" \in Pc
  BY DEF Pc
<1>2. ReleaseThen(t, s, ret) = Call(thr[t], "release", s, NoMsg, ret)
  BY DEF ReleaseThen, Call
<1> QED BY <1>1, <1>2, CallFields

\* skynet_context_push grabs a destination that is registered.
LEMMA ContextPushStep ==
    ASSUME ServerInv, NEW t \in Thread, NEW d \in Service \cup {None}, NEW m \in Message,
           thr[t].pc \in {"handle", "init", "outside", "drop"},
           skynet_context_push(t, d, m, thr[t].pc),
           UNCHANGED <<slot, gq, quit>>,
           \A s \in Service :
              /\ mq'[s].life = mq[s].life /\ (mq'[s].in_global <=> mq[s].in_global)
              /\ (mq'[s].release <=> mq[s].release)
              /\ mq'[s].ring # mq[s].ring => mq[s].life = "live" /\ ~RingIsEmpty(mq[s].ring),
           mq' \in [Service -> MqRec], st' \in [Id -> StRec]
    PROVE  ServerInv'
<1> DEFINE r == thr[t]
<1>1. /\ r \in ThreadRec /\ ThreadOK(r) /\ r.rel = None /\ r.out = NoMsg /\ r.ret = "-"
      /\ At(r) = r.pc /\ r.pc \in {"handle", "init", "outside", "drop"}
  BY ThreadFacts DEF ThreadOK, At
<1>2. \/ /\ d \in slot
         /\ Now(t, "push", r.q, r.msg, r.nq, r.new, r.dq, d, m, r.pc)
         /\ CtxNow(d, ctx[d].ref + 1, ctx[d].init, ctx[d].life)
      \/ /\ Now(t, r.pc, r.q, r.msg, r.nq, r.new, r.dq, None, NoMsg, "-")
         /\ ctx' = ctx
  <2>1. CASE d \in slot
    <3> DEFINE x == [r EXCEPT !.pc = "push", !.rel = d, !.out = m, !.ret = r.pc]
    <3>1. x \in ThreadRec /\ x.pc = "push" /\ x.q = r.q /\ x.msg = r.msg /\ x.nq = r.nq
          /\ x.new = r.new /\ x.dq = r.dq /\ x.rel = d /\ x.out = m /\ x.ret = r.pc
      <4>1. r.pc \in Pc /\ "push" \in Pc /\ d \in Service \cup {None}
        BY <1>1 DEF Pc
      <4>2. x = Call(r, "push", d, m, r.pc)
        BY DEF Call
      <4> QED BY <1>1, <4>1, <4>2, CallFields
    <3>2. thr' = [thr EXCEPT ![t] = x]
      BY <2>1 DEF skynet_context_push
    <3>3. CtxNow(d, ctx[d].ref + 1, ctx[d].init, ctx[d].life)
      <4> DEFINE c == [ctx[d] EXCEPT !.ref = @ + 1]
      <4>1. d \in Service /\ ctx[d] \in CtxRec
        BY <2>1 DEF ServerInv, Types
      <4>2. /\ c \in CtxRec /\ c.ref = ctx[d].ref + 1 /\ c.init = ctx[d].init
            /\ c.life = ctx[d].life
        BY <4>1 DEF CtxRec
      <4>3. ctx' = [ctx EXCEPT ![d] = c]
        BY <2>1 DEF skynet_context_push
      <4> HIDE DEF c
      <4> QED BY <4>1, <4>2, <4>3, CtxMoves DEF CtxNow
    <3> HIDE DEF x
    <3> QED BY <2>1, <3>1, <3>2, <3>3, Moves DEF Now
  <2>2. CASE d \notin slot
    <3> DEFINE x == [r EXCEPT !.pc = r.pc, !.rel = None, !.out = NoMsg, !.ret = "-"]
    <3>1. x \in ThreadRec /\ x.pc = r.pc /\ x.q = r.q /\ x.msg = r.msg /\ x.nq = r.nq
          /\ x.new = r.new /\ x.dq = r.dq /\ x.rel = None /\ x.out = NoMsg /\ x.ret = "-"
      <4>1. r.pc \in Pc
        BY <1>1 DEF Pc
      <4>2. x = Call(r, r.pc, None, NoMsg, "-")
        BY DEF Call
      <4> QED BY <1>1, <4>1, <4>2, CallFields
    <3>2. thr' = [thr EXCEPT ![t] = x] /\ ctx' = ctx
      BY <2>2 DEF skynet_context_push, Goto
    <3> HIDE DEF x
    <3> QED BY <2>2, <3>1, <3>2, Moves DEF Now
  <2> QED BY <2>1, <2>2
<1> HIDE DEF r
<1>3. Types'
  BY <1>2 DEF ServerInv, Types, Now, CtxNow
<1>4. /\ At(thr'[t]) = r.pc /\ ThreadOK(thr'[t]) /\ thr'[t].pc # "length"
      /\ thr'[t].pc # "delete" /\ thr'[t].dq = r.dq /\ thr'[t].q = r.q /\ thr'[t].nq = r.nq
      /\ thr'[t].new = r.new /\ (Busy(thr'[t]) <=> Busy(r))
      /\ \A u \in Thread : u # t => thr'[u] = thr[u]
  <2>1. At(thr'[t]) = r.pc /\ (Busy(thr'[t]) <=> Busy(r))
    BY <1>1, <1>2 DEF At, Now, Busy, ThreadOK
  <2>2. ThreadOK(thr'[t])
    <3>1. ASSUME Now(t, "push", r.q, r.msg, r.nq, r.new, r.dq, d, m, r.pc), d \in Service
          PROVE  ThreadOK(thr'[t])
      BY <1>1, <2>1, <3>1 DEF ThreadOK, Now
    <3>2. ASSUME Now(t, r.pc, r.q, r.msg, r.nq, r.new, r.dq, None, NoMsg, "-")
          PROVE  ThreadOK(thr'[t])
      BY <1>1, <2>1, <3>2 DEF ThreadOK, Now
    <3>3. d \in slot => d \in Service
      BY DEF ServerInv, Types
    <3> QED BY <1>2, <3>1, <3>2, <3>3
  <2> QED BY <1>1, <1>2, <2>1, <2>2 DEF Now
<1>5. Threads'
  BY <1>1, <1>4 DEF ServerInv, Threads, r
<1>6. Refs'
  <2>1. \A s \in Service : /\ ctx[s].ref \in Int /\ ctx'[s].ref \in Int
                           /\ ctx'[s].ref - RefOf(thr'[t], s) = ctx[s].ref - RefOf(r, s)
    <3>1. \A s \in Service : RefOf(r, s) = (IF Busy(r) /\ r.q = s THEN 1 ELSE 0)
                                  + (IF r.new = s /\ r.pc = "init" THEN 1 ELSE 0)
      BY <1>1 DEF RefOf
    <3>2. \A s \in Service : ctx[s].ref \in Int
      BY DEF ServerInv, Types, CtxRec
    <3>3. ASSUME Now(t, "push", r.q, r.msg, r.nq, r.new, r.dq, d, m, r.pc), d \in Service,
                 CtxNow(d, ctx[d].ref + 1, ctx[d].init, ctx[d].life), NEW s \in Service
          PROVE  ctx'[s].ref \in Int /\ ctx'[s].ref - RefOf(thr'[t], s) = ctx[s].ref - RefOf(r, s)
      <4>1. RefOf(thr'[t], s) = RefOf(r, s) + (IF s = d THEN 1 ELSE 0)
        BY <1>1, <1>4, <3>1, <3>3 DEF Now, RefOf
      <4>2. ctx'[s].ref = ctx[s].ref + (IF s = d THEN 1 ELSE 0)
        BY <3>2, <3>3 DEF CtxNow
      <4>3. RefOf(r, s) \in Int
        BY DEF RefOf
      <4> QED BY <3>2, <4>1, <4>2, <4>3
    <3>4. ASSUME Now(t, r.pc, r.q, r.msg, r.nq, r.new, r.dq, None, NoMsg, "-"), ctx' = ctx,
                 NEW s \in Service
          PROVE  ctx'[s].ref \in Int /\ ctx'[s].ref - RefOf(thr'[t], s) = ctx[s].ref - RefOf(r, s)
      <4>1. RefOf(thr'[t], s) = RefOf(r, s)
        BY <1>1, <3>4 DEF Now, RefOf, Busy
      <4> QED BY <3>2, <3>4, <4>1
    <3>5. d \in slot => d \in Service
      BY DEF ServerInv, Types
    <3> QED BY <1>2, <3>2, <3>3, <3>4, <3>5
  <2>2. \A s \in Service : RefOf(thr'[t], s) \in Int /\ RefOf(thr[t], s) \in Int
    BY DEF RefOf
  <2> QED BY <1>4, <2>1, <2>2, RefsStep DEF ServerInv, r
<1>7. Lives'
  <2>1. \A s \in Service : /\ ctx'[s].life = ctx[s].life
                           /\ ctx[s].ref = 0 => ctx'[s].ref = 0
                           /\ ctx'[s].ref > 0 => ctx[s].life = "live"
    BY <1>2, SlotLive DEF CtxNow, ServerInv, Lives
  <2>2. At(thr'[t]) = "drop" => thr'[t].dq \in Service /\ mq[thr'[t].dq].release
    BY <1>1, <1>4 DEF ServerInv, Lives, ThreadRec, ThreadOK, r
  <2> QED BY <1>4, <2>1, <2>2, LivesKept
<1>8. PlaceInv'
  <2>1. \A s \in Service : /\ (Placed(s)' <=> Placed(s))
                           /\ mq'[s].life = "live" /\ ~mq'[s].in_global /\ ~mq'[s].release
                                 => RingIsEmpty(mq'[s].ring)
    BY DEF Placed, ServerInv, PlaceInv
  <2> QED BY <1>4, <2>1, PlacesKept DEF ServerInv, r
<1>9. InitInv'
  <2>1. \A s \in Service : ctx[s].init => ctx'[s].init
    BY <1>2 DEF CtxNow
  <2> QED BY <1>1, <1>4, <2>1, InitKept DEF r
<1> QED BY <1>3, <1>5, <1>6, <1>7, <1>8, <1>9 DEF ServerInv

\* A request is sent.
LEMMA SendStep ==
    ASSUME ServerInv, NEW t \in Thread, NEW d \in Service, Send(t, d)
    PROVE  ServerInv'
<1> DEFINE m == [id |-> NextId, src |-> Self(t), type |-> "request"]
<1>1. thr[t] \in ThreadRec
  BY ThreadFacts
<1>2. m \in Message
  BY <1>1 DEF Send, Self, Message, ThreadRec
<1>3. st' \in [Id -> StRec] /\ mq' \in [Service -> MqRec]
  BY <1>1 DEF Send, Self, ThreadRec, ServerInv, Types, StRec
<1>4. mq' = mq /\ UNCHANGED <<slot, gq, quit>> /\ thr[t].pc \in {"handle", "init", "outside", "drop"}
  BY DEF Send
<1>5. skynet_context_push(t, d, m, thr[t].pc)
  BY DEF Send
<1> HIDE DEF m
<1> QED BY <1>2, <1>3, <1>4, <1>5, ContextPushStep

\* A message is pushed, and its queue is in some place then.
LEMMA PushStep ==
    ASSUME ServerInv, NEW t \in Thread, Push(t)
    PROVE  ServerInv'
<1> DEFINE r == thr[t]
<1>0. PICK s : s = r.rel
  OBVIOUS
<1> DEFINE p == RingPush(mq[s].ring, r.out)
<1>1. /\ r.pc = "push" /\ s \in Service /\ r.out \in Message
      /\ r.ret \in {"handle", "init", "outside", "drop"}
      /\ r \in ThreadRec /\ ThreadOK(r)
  BY <1>0, ThreadFacts DEF Push, ThreadOK, ThreadRec
<1>2. Now(t, "release", r.q, r.msg, r.nq, r.new, r.dq, r.rel, NoMsg, r.ret)
  <2> DEFINE x == ReleaseThen(t, s, r.ret)
  <2>1. r.ret \in Pc
    BY <1>1 DEF Pc
  <2>2. /\ x \in ThreadRec /\ x.pc = "release" /\ x.q = r.q /\ x.msg = r.msg
        /\ x.nq = r.nq /\ x.new = r.new /\ x.dq = r.dq /\ x.rel = s
        /\ x.out = NoMsg /\ x.ret = r.ret
    BY <1>1, <2>1, ReleaseThenIs
  <2>3. thr' = [thr EXCEPT ![t] = x]
    BY <1>0 DEF Push
  <2> HIDE DEF x
  <2> QED BY <1>0, <2>2, <2>3, Moves DEF Now
<1>3. p \in Rings /\ ~RingIsEmpty(p)
  BY <1>1, PushOK DEF ServerInv, Types, MqRec
<1>4. MqNow(s, p, TRUE, mq[s].release, mq[s].life)
  <2> DEFINE x == [mq[s] EXCEPT !.ring = p, !.in_global = TRUE]
  <2>1. mq' = [mq EXCEPT ![s] = x]
    BY <1>0 DEF Push, skynet_mq_push
  <2>2. mq[s] \in MqRec
    BY <1>1 DEF ServerInv, Types
  <2> HIDE DEF p
  <2>3. /\ x \in MqRec /\ x.ring = p /\ x.in_global = TRUE /\ x.release = mq[s].release
        /\ x.life = mq[s].life
    BY <1>3, <2>2 DEF MqRec
  <2> HIDE DEF x
  <2> QED BY <1>1, <2>1, <2>3, MqMoves DEF MqNow
<1>5. UNCHANGED <<slot, ctx, quit, st>>
  BY DEF Push
<1>6. gq' = IF mq[s].in_global THEN gq ELSE Append(gq, s)
  BY <1>0 DEF Push, skynet_mq_push, skynet_globalmq_push
<1>7. mq[s].life = "live" /\ ~mq[s].release
  BY <1>0, <1>1, HeldLive DEF RefOf
<1> HIDE DEF p
<1>8. /\ thr'[t].q = r.q /\ thr'[t].nq = r.nq /\ thr'[t].new = r.new /\ thr'[t].dq = r.dq
      /\ (Busy(thr'[t]) <=> Busy(r)) /\ At(thr'[t]) = At(r) /\ thr'[t].pc = "release"
      /\ \A u \in Thread : u # t => thr'[u] = thr[u]
  BY <1>1, <1>2 DEF Now, Busy, At, ThreadOK
<1>9. PlaceInv' /\ gq' \in Seq(Service)
  <2>1. IsInjective(gq) /\ gq \in Seq(Service) /\ \A x \in Service : ~(x \in Range(gq) /\ Hand(t, x))
    BY DEF ServerInv, Types, PlaceInv
  <2>2. /\ thr'[t].q # None => thr'[t].q \notin {thr'[t].nq, thr'[t].new}
        /\ thr'[t].nq # None => thr'[t].nq # thr'[t].new
    BY <1>8 DEF ServerInv, PlaceInv
  <2>3. \A x : Hand(t, x)' <=> Hand(t, x)
    BY <1>8 DEF Hand
  <2>4. CASE mq[s].in_global
    <3>1. \A x \in Service : /\ (Placed(x)' <=> Placed(x))
                             /\ mq'[x].life = "live" /\ ~mq'[x].in_global /\ ~mq'[x].release
                                   => RingIsEmpty(mq'[x].ring)
      BY <1>4, <2>4 DEF Placed, ServerInv, PlaceInv, MqNow
    <3>2. gq' = gq
      BY <1>6, <2>4
    <3> QED BY <1>8, <2>1, <3>1, <3>2, PlacesKept DEF ServerInv
  <2>5. CASE ~mq[s].in_global
    <3>1. gq' = Append(gq, s) /\ ~Placed(s) /\ Placed(s)'
      BY <1>4, <1>6, <1>7, <2>5 DEF Placed, MqNow
    <3>2. s \notin Range(gq) /\ ~Hand(t, s)
      BY <1>1, <3>1 DEF ServerInv, PlaceInv
    <3>3. IsInjective(gq') /\ Range(gq') = Range(gq) \cup {s} /\ gq' \in Seq(Service)
      BY <1>1, <2>1, <3>1, <3>2, Join
    <3>4. \A x \in Service :
              /\ (x \in Range(gq') \/ Hand(t, x)') <=>
                    (x \in Range(gq) \/ Hand(t, x) \/ x \in {s}) /\ x \notin {}
              /\ ~(x \in Range(gq') /\ Hand(t, x)')
              /\ x \in {s} => ~Placed(x) /\ Placed(x)'
              /\ x \in {} => (x \in Range(gq) \/ Hand(t, x)) /\ ~Placed(x)'
      BY <2>1, <2>3, <3>1, <3>2, <3>3
    <3>5. \A x \in Service :
              /\ x \notin {s} /\ x \notin {} => (Placed(x)' <=> Placed(x))
              /\ mq'[x].life = "live" /\ ~mq'[x].in_global /\ ~mq'[x].release
                    => RingIsEmpty(mq'[x].ring)
      BY <1>4 DEF Placed, ServerInv, PlaceInv, MqNow
    <3> QED BY <1>8, <2>2, <3>3, <3>4, <3>5, PlaceStep DEF ServerInv
  <2> QED BY <2>4, <2>5
<1>10. Types'
  BY <1>2, <1>4, <1>5, <1>9 DEF ServerInv, Types, Now, MqNow
<1>11. Threads'
  BY <1>1, <1>2, <1>8 DEF ServerInv, Threads, ThreadOK, At, Now
<1>12. Refs'
  <2>1. \A x \in Service : RefOf(thr'[t], x) = RefOf(thr[t], x) /\ ctx[x].ref \in Int
    BY <1>1, <1>2 DEF ServerInv, Types, CtxRec, Now, RefOf, Busy, ThreadOK, At
  <2> QED BY <1>5, <1>8, <2>1, RefsStep DEF ServerInv
<1>13. Lives'
  <2>1. \A x \in Service : /\ ctx'[x].life = ctx[x].life /\ (mq'[x].release <=> mq[x].release)
                           /\ mq'[x].life = mq[x].life
                           /\ mq[x].life # "live" => mq'[x].ring = mq[x].ring
                           /\ ctx[x].ref = 0 => ctx'[x].ref = 0
                           /\ ctx'[x].ref > 0 => ctx[x].life = "live"
    BY <1>4, <1>5, <1>7 DEF MqNow, ServerInv, Lives
  <2>2. At(thr'[t]) = "drop" => thr'[t].dq \in Service /\ mq[thr'[t].dq].release
    BY <1>1, <1>8 DEF ServerInv, Lives, ThreadRec, ThreadOK
  <2> QED BY <1>8, <2>1, <2>2, LivesKept
<1>14. InitInv'
  BY <1>5, <1>8, InitKept
<1> QED BY <1>9, <1>10, <1>11, <1>12, <1>13, <1>14 DEF ServerInv

\* The invariant after a step of one thread, part by part.
LEMMA Assemble ==
    ASSUME ServerInv, NEW t \in Thread,
           thr' \in [Thread -> ThreadRec], \A u \in Thread : u # t => thr'[u] = thr[u],
           ThreadOK(thr'[t]), t \in External <=> At(thr'[t]) = "outside",
           thr'[t].pc = "length" => Weight[t] \in 0 .. 3,
           slot' \subseteq slot, ctx' \in [Service -> CtxRec], mq' \in [Service -> MqRec],
           gq' \in Seq(Service), quit' \in BOOLEAN, st' \in [Id -> StRec],
           \A s \in Service :
              /\ ctx[s].init => ctx'[s].init
              /\ ctx'[s].ref - (IF s \in slot' THEN 1 ELSE 0) - RefOf(thr'[t], s)
                    = ctx[s].ref - (IF s \in slot THEN 1 ELSE 0) - RefOf(thr[t], s),
           Busy(thr'[t]) => \/ Busy(thr[t]) /\ thr'[t].q = thr[t].q
                            \/ thr'[t].q \in Service /\ ctx[thr'[t].q].init,
           At(thr[t]) \in {"init", "setinit", "retire"} =>
              \/ thr'[t].new = thr[t].new /\ At(thr'[t]) \in {"init", "setinit", "retire"}
              \/ thr[t].new \notin slot'
              \/ ctx'[thr[t].new].init,
           Lives', PlaceInv'
    PROVE  ServerInv'
<1>1. Types'
  BY DEF ServerInv, Types
<1>2. Threads'
  BY DEF ServerInv, Threads
<1>3. Refs'
  <2>1. \A s \in Service : ctx[s].ref \in Int /\ ctx'[s].ref \in Int
    BY DEF ServerInv, Types, CtxRec
  <2> QED BY <2>1, RefsStep DEF ServerInv
<1>4. InitInv'
  BY InitKept
<1> QED BY <1>1, <1>2, <1>3, <1>4 DEF ServerInv

\* The same for a step that leaves every queue where it is.
LEMMA SameHands ==
    ASSUME ServerInv, NEW t \in Thread,
           thr' \in [Thread -> ThreadRec], \A u \in Thread : u # t => thr'[u] = thr[u],
           ThreadOK(thr'[t]), t \in External <=> At(thr'[t]) = "outside",
           thr'[t].pc = "length" => Weight[t] \in 0 .. 3,
           thr'[t].q = thr[t].q, thr'[t].nq = thr[t].nq, thr'[t].new = thr[t].new,
           thr'[t].pc # "delete",
           At(thr'[t]) = "drop" => thr'[t].dq \in Service /\ mq[thr'[t].dq].release,
           slot' \subseteq slot, ctx' \in [Service -> CtxRec], mq' = mq, gq' = gq,
           quit' \in BOOLEAN, st' = st,
           \A s \in Service :
              /\ ctx[s].init => ctx'[s].init
              /\ ctx'[s].life = ctx[s].life
              /\ ctx[s].ref = 0 => ctx'[s].ref = 0
              /\ ctx'[s].ref > 0 => ctx[s].life = "live"
              /\ ctx'[s].ref - (IF s \in slot' THEN 1 ELSE 0) - RefOf(thr'[t], s)
                    = ctx[s].ref - (IF s \in slot THEN 1 ELSE 0) - RefOf(thr[t], s),
           Busy(thr'[t]) => Busy(thr[t]) \/ (thr'[t].q \in Service /\ ctx[thr'[t].q].init),
           At(thr[t]) \in {"init", "setinit", "retire"} =>
              \/ At(thr'[t]) \in {"init", "setinit", "retire"}
              \/ thr[t].new \notin slot'
              \/ ctx'[thr[t].new].init
    PROVE  ServerInv'
<1>1. PlaceInv'
  <2>1. \A s \in Service : /\ (Placed(s)' <=> Placed(s))
                           /\ mq'[s].life = "live" /\ ~mq'[s].in_global /\ ~mq'[s].release
                                 => RingIsEmpty(mq'[s].ring)
    BY DEF Placed, ServerInv, PlaceInv
  <2> QED BY <2>1, PlacesKept DEF ServerInv
<1>2. Lives'
  BY LivesKept
<1>3. gq' \in Seq(Service) /\ mq' \in [Service -> MqRec] /\ st' \in [Id -> StRec]
  BY DEF ServerInv, Types
<1> QED BY <1>1, <1>2, <1>3, Assemble

\* A step that only moves the thread on.
LEMMA Quiet ==
    ASSUME ServerInv, NEW t \in Thread,
           thr' \in [Thread -> ThreadRec], \A u \in Thread : u # t => thr'[u] = thr[u],
           ThreadOK(thr'[t]), t \in External <=> At(thr'[t]) = "outside",
           thr'[t].pc = "length" => Weight[t] \in 0 .. 3,
           thr'[t].q = thr[t].q, thr'[t].nq = thr[t].nq, thr'[t].new = thr[t].new,
           thr'[t].pc # "delete",
           At(thr'[t]) = "drop" => thr'[t].dq \in Service /\ mq[thr'[t].dq].release,
           UNCHANGED <<slot, ctx, mq, gq, quit, st>>,
           \A s \in Service : RefOf(thr'[t], s) = RefOf(thr[t], s),
           Busy(thr'[t]) => Busy(thr[t]),
           At(thr[t]) \in {"init", "setinit", "retire"} =>
              At(thr'[t]) \in {"init", "setinit", "retire"}
    PROVE  ServerInv'
<1>1. /\ slot' \subseteq slot /\ ctx' \in [Service -> CtxRec] /\ quit' \in BOOLEAN
      /\ mq' = mq /\ gq' = gq /\ st' = st
  BY DEF ServerInv, Types
<1>2. \A s \in Service :
              /\ ctx[s].init => ctx'[s].init
              /\ ctx'[s].life = ctx[s].life
              /\ ctx[s].ref = 0 => ctx'[s].ref = 0
              /\ ctx'[s].ref > 0 => ctx[s].life = "live"
              /\ ctx'[s].ref - (IF s \in slot' THEN 1 ELSE 0) - RefOf(thr'[t], s)
                    = ctx[s].ref - (IF s \in slot THEN 1 ELSE 0) - RefOf(thr[t], s)
  BY DEF ServerInv, Lives
<1> QED BY <1>1, <1>2, SameHands

\* The init function returned.
LEMMA InitReturnsStep ==
    ASSUME ServerInv, NEW t \in Thread, InitReturns(t)
    PROVE  ServerInv'
<1>1. /\ thr[t].pc = "init" /\ thr[t] \in ThreadRec /\ ThreadOK(thr[t])
      /\ t \in External <=> At(thr[t]) = "outside"
  BY ThreadFacts DEF InitReturns
<1>2. PICK ret \in {"setinit", "retire"} : thr' = [thr EXCEPT ![t] = ReleaseThen(t, thr[t].new, ret)]
  BY DEF InitReturns
<1> DEFINE x == ReleaseThen(t, thr[t].new, ret)
<1>3. /\ x \in ThreadRec /\ x.pc = "release" /\ x.q = thr[t].q /\ x.msg = thr[t].msg
      /\ x.nq = thr[t].nq /\ x.new = thr[t].new /\ x.dq = thr[t].dq /\ x.rel = thr[t].new
      /\ x.out = NoMsg /\ x.ret = ret
  <2>1. thr[t].new \in Service /\ ret \in Pc
    BY <1>1 DEF ThreadRec, ThreadOK, At, Pc
  <2> QED BY <1>1, <2>1, ReleaseThenIs
<1> HIDE DEF x
<1>4. Now(t, "release", thr[t].q, thr[t].msg, thr[t].nq, thr[t].new, thr[t].dq, thr[t].new, NoMsg, ret)
  BY <1>2, <1>3, Moves DEF Now, x
<1>5. ThreadOK(thr'[t]) /\ At(thr'[t]) = ret
  BY <1>1, <1>4 DEF Now, ThreadOK, At
<1>6. UNCHANGED <<slot, ctx, mq, gq, quit, st>>
  BY DEF InitReturns
<1>7. /\ \A s \in Service : RefOf(thr'[t], s) = RefOf(thr[t], s)
      /\ Busy(thr'[t]) => Busy(thr[t])
  BY <1>1, <1>4 DEF Now, RefOf, Busy, ThreadOK, At
<1> QED BY <1>1, <1>4, <1>5, <1>6, <1>7, Quiet DEF Now, At

\* A thread that goes on after a send or release.
LEMMA GotoIs ==
    ASSUME ServerInv, NEW t \in Thread, NEW pc \in Pc, Goto(t, pc)
    PROVE  Now(t, pc, thr[t].q, thr[t].msg, thr[t].nq, thr[t].new, thr[t].dq, None, NoMsg, "-")
<1> DEFINE x == [thr[t] EXCEPT !.pc = pc, !.rel = None, !.out = NoMsg, !.ret = "-"]
<1>1. thr[t] \in ThreadRec
  BY ThreadFacts
<1>2. /\ x \in ThreadRec /\ x.pc = pc /\ x.q = thr[t].q /\ x.msg = thr[t].msg
      /\ x.nq = thr[t].nq /\ x.new = thr[t].new /\ x.dq = thr[t].dq /\ x.rel = None
      /\ x.out = NoMsg /\ x.ret = "-"
  BY <1>1 DEF ThreadRec
<1>3. thr' = [thr EXCEPT ![t] = x]
  BY DEF Goto
<1> HIDE DEF x
<1> QED BY <1>2, <1>3, Moves DEF Now

\* A worker goes to sleep, or is woken up.
LEMMA SleepStep ==
    ASSUME ServerInv, NEW t \in Thread, Sleep(t) \/ WakeUp(t)
    PROVE  ServerInv'
<1>1. PICK pc \in {"top", "wait"} : Goto(t, pc)
  BY DEF Sleep, WakeUp, SleepsAt
<1>2. /\ thr[t].pc \in {"idle", "wait"} /\ thr[t] \in ThreadRec /\ ThreadOK(thr[t])
      /\ t \in External <=> At(thr[t]) = "outside"
  BY ThreadFacts DEF Sleep, WakeUp
<1>3. Now(t, pc, thr[t].q, thr[t].msg, thr[t].nq, thr[t].new, thr[t].dq, None, NoMsg, "-")
  <2>1. pc \in Pc
    BY DEF Pc
  <2> QED BY <1>1, <2>1, GotoIs
<1>4. ThreadOK(thr'[t]) /\ At(thr'[t]) = pc
  BY <1>2, <1>3 DEF Now, ThreadOK, At
<1>5. UNCHANGED <<slot, ctx, mq, gq, quit, st>>
  BY DEF Sleep, WakeUp
<1>6. /\ \A s \in Service : RefOf(thr'[t], s) = RefOf(thr[t], s)
      /\ Busy(thr'[t]) => Busy(thr[t])
  BY <1>2, <1>3 DEF Now, RefOf, Busy, ThreadOK, At
<1> QED BY <1>2, <1>3, <1>4, <1>5, <1>6, Quiet DEF Now, At

\* The head of the loop when the worker keeps its queue, or leaves.
LEMMA TopStep ==
    ASSUME ServerInv, NEW t \in Thread, thr[t].pc = "top", NEW pc \in {"done", "grab"},
           pc = "grab" => thr[t].q # None,
           Goto(t, pc), UNCHANGED <<slot, ctx, mq, gq, quit, st>>
    PROVE  ServerInv'
<1>2. /\ thr[t] \in ThreadRec /\ ThreadOK(thr[t]) /\ (t \in External <=> At(thr[t]) = "outside")
  BY ThreadFacts
<1>3. Now(t, pc, thr[t].q, thr[t].msg, thr[t].nq, thr[t].new, thr[t].dq, None, NoMsg, "-")
  <2>1. pc \in Pc
    BY DEF Pc
  <2> QED BY <2>1, GotoIs
<1>4. ThreadOK(thr'[t]) /\ At(thr'[t]) = pc
  BY <1>2, <1>3 DEF Now, ThreadOK, At
<1>6. /\ \A s \in Service : RefOf(thr'[t], s) = RefOf(thr[t], s)
      /\ Busy(thr'[t]) => Busy(thr[t])
  BY <1>2, <1>3 DEF Now, RefOf, Busy, ThreadOK, At
<1> QED BY <1>2, <1>3, <1>4, <1>6, Quiet DEF Now, At

\* The number of messages of a round is computed.
LEMMA MqLengthStep ==
    ASSUME ServerInv, NEW t \in Thread, MqLength(t)
    PROVE  ServerInv'
<1> DEFINE v == skynet_mq_length(mq[thr[t].q].ring) \div 2 ^ Weight[t]
           x == [thr[t] EXCEPT !.pc = "handle", !.n = v]
<1>1. /\ thr[t].pc = "length" /\ thr[t] \in ThreadRec /\ ThreadOK(thr[t])
      /\ t \in External <=> At(thr[t]) = "outside"
      /\ Weight[t] \in 0 .. 3
  BY ThreadFacts DEF MqLength, ServerInv, Threads
<1>2. v \in Int
  <2>1. thr[t].q \in Service
    BY <1>1 DEF ThreadRec, ThreadOK, At
  <2>2. mq[thr[t].q].ring \in Rings
    BY <2>1 DEF ServerInv, Types, MqRec
  <2>3. skynet_mq_length(mq[thr[t].q].ring) \in Int
    BY <2>2, LengthType
  <2> QED BY <1>1, <2>3, Halved
<1> HIDE DEF v
<1>3. /\ x \in ThreadRec /\ x.pc = "handle" /\ x.q = thr[t].q /\ x.msg = thr[t].msg
      /\ x.nq = thr[t].nq /\ x.new = thr[t].new /\ x.dq = thr[t].dq /\ x.rel = thr[t].rel
      /\ x.out = thr[t].out /\ x.ret = thr[t].ret
  <2>1. "handle" \in Pc
    BY DEF Pc
  <2> DEFINE y == [thr[t] EXCEPT !.pc = "handle"]
  <2>2. y \in ThreadRec
    BY <1>1, <2>1, FieldTypes
  <2>3. x = [y EXCEPT !.n = v]
    OBVIOUS
  <2>4. x \in ThreadRec
    <3> HIDE DEF y
    <3> QED BY <1>2, <2>2, <2>3, FieldTypes
  <2> QED BY <1>1, <2>4 DEF ThreadRec
<1>4. thr' = [thr EXCEPT ![t] = x] /\ UNCHANGED <<slot, ctx, mq, gq, quit, st>>
  BY DEF MqLength, v
<1> HIDE DEF x
<1>5. Now(t, "handle", thr[t].q, thr[t].msg, thr[t].nq, thr[t].new, thr[t].dq, thr[t].rel,
          thr[t].out, thr[t].ret)
  BY <1>3, <1>4, Moves DEF Now
<1>6. ThreadOK(thr'[t]) /\ At(thr'[t]) = "handle"
  BY <1>1, <1>5 DEF Now, ThreadOK, At
<1>7. /\ \A s \in Service : RefOf(thr'[t], s) = RefOf(thr[t], s)
      /\ Busy(thr'[t]) => Busy(thr[t])
  BY <1>1, <1>5 DEF Now, RefOf, Busy, ThreadOK, At
<1> QED BY <1>1, <1>4, <1>5, <1>6, <1>7, Quiet DEF Now, At

\* The handler returned.
LEMMA HandlerReturnsStep ==
    ASSUME ServerInv, NEW t \in Thread, HandlerReturns(t)
    PROVE  ServerInv'
<1>1. /\ thr[t].pc = "handle" /\ thr[t] \in ThreadRec /\ ThreadOK(thr[t])
      /\ t \in External <=> At(thr[t]) = "outside"
  BY ThreadFacts DEF HandlerReturns
<1>2. PICK pc \in {"mqpop", "swap"} :
         thr' = [thr EXCEPT ![t] = [thr[t] EXCEPT !.msg = NoMsg, !.i = thr[t].i + 1, !.pc = pc]]
  BY DEF HandlerReturns
<1> DEFINE x == [thr[t] EXCEPT !.msg = NoMsg, !.i = thr[t].i + 1, !.pc = pc]
<1>3. /\ x \in ThreadRec /\ x.pc = pc /\ x.q = thr[t].q /\ x.msg = NoMsg
      /\ x.nq = thr[t].nq /\ x.new = thr[t].new /\ x.dq = thr[t].dq /\ x.rel = thr[t].rel
      /\ x.out = thr[t].out /\ x.ret = thr[t].ret
  <2>1. pc \in Pc
    BY DEF Pc
  <2>2. thr[t].i + 1 \in Int
    BY <1>1 DEF ThreadRec
  <2> DEFINE j == thr[t].i + 1
  <2> HIDE DEF j
  <2>3. x = [thr[t] EXCEPT !.msg = NoMsg, !.i = j, !.pc = pc] /\ j \in Int
    BY <2>2 DEF j
  <2> DEFINE y == [thr[t] EXCEPT !.msg = NoMsg]
             w == [y EXCEPT !.i = j]
  <2>4. y \in ThreadRec
    BY <1>1, FieldTypes
  <2>5. w \in ThreadRec
    <3> HIDE DEF y
    <3> QED BY <2>3, <2>4, FieldTypes
  <2>6. x = [w EXCEPT !.pc = pc]
    BY <2>3
  <2>7. x \in ThreadRec
    <3> HIDE DEF w
    <3> QED BY <2>1, <2>5, <2>6, FieldTypes
  <2> QED BY <1>1, <2>3, <2>7 DEF ThreadRec
<1>4. thr' = [thr EXCEPT ![t] = x] /\ UNCHANGED <<slot, ctx, mq, gq, quit, st>>
  BY <1>2 DEF HandlerReturns
<1> HIDE DEF x
<1>5. Now(t, pc, thr[t].q, NoMsg, thr[t].nq, thr[t].new, thr[t].dq, thr[t].rel,
          thr[t].out, thr[t].ret)
  BY <1>3, <1>4, Moves DEF Now
<1>6. ThreadOK(thr'[t]) /\ At(thr'[t]) = pc
  BY <1>1, <1>5 DEF Now, ThreadOK, At
<1>7. /\ \A s \in Service : RefOf(thr'[t], s) = RefOf(thr[t], s)
      /\ Busy(thr'[t]) => Busy(thr[t])
  BY <1>1, <1>5 DEF Now, RefOf, Busy, ThreadOK, At
<1> QED BY <1>1, <1>4, <1>5, <1>6, <1>7, Quiet DEF Now, At

\* skynet_mq_release of a queue that is marked.
LEMMA MqReleaseMarkedStep ==
    ASSUME ServerInv, NEW t \in Thread, MqRelease(t), mq[thr[t].dq].release
    PROVE  ServerInv'
<1>1. /\ thr[t].pc = "mqrelease" /\ thr[t] \in ThreadRec /\ ThreadOK(thr[t])
      /\ t \in External <=> At(thr[t]) = "outside"
  BY ThreadFacts DEF MqRelease
<1> DEFINE x == [thr[t] EXCEPT !.pc = "drop"]
<1>3. /\ x \in ThreadRec /\ x.pc = "drop" /\ x.q = thr[t].q /\ x.msg = thr[t].msg
      /\ x.nq = thr[t].nq /\ x.new = thr[t].new /\ x.dq = thr[t].dq /\ x.rel = thr[t].rel
      /\ x.out = thr[t].out /\ x.ret = thr[t].ret
  <2>1. "drop" \in Pc
    BY DEF Pc
  <2> QED BY <1>1, <2>1 DEF ThreadRec
<1>4. thr' = [thr EXCEPT ![t] = x] /\ UNCHANGED <<slot, ctx, mq, gq, quit, st>>
  BY DEF MqRelease
<1> HIDE DEF x
<1>5. Now(t, "drop", thr[t].q, thr[t].msg, thr[t].nq, thr[t].new, thr[t].dq, thr[t].rel,
          thr[t].out, thr[t].ret)
  BY <1>3, <1>4, Moves DEF Now
<1>6. ThreadOK(thr'[t]) /\ At(thr'[t]) = "drop" /\ thr[t].dq \in Service
  BY <1>1, <1>5 DEF Now, ThreadOK, At, ThreadRec
<1>7. /\ \A s \in Service : RefOf(thr'[t], s) = RefOf(thr[t], s)
      /\ Busy(thr'[t]) => Busy(thr[t])
  BY <1>1, <1>5 DEF Now, RefOf, Busy, ThreadOK, At
<1> QED BY <1>1, <1>4, <1>5, <1>6, <1>7, Quiet DEF Now, At

\* The counters of a round are reset.
LEMMA CountersReset ==
    ASSUME NEW y \in ThreadRec
    PROVE  LET x == [y EXCEPT !.i = 0, !.n = 0] IN
           /\ x \in ThreadRec /\ x.pc = y.pc /\ x.q = y.q /\ x.msg = y.msg /\ x.nq = y.nq
           /\ x.new = y.new /\ x.dq = y.dq /\ x.rel = y.rel /\ x.out = y.out /\ x.ret = y.ret
<1> DEFINE w == [y EXCEPT !.i = 0]
<1>1. /\ w \in ThreadRec /\ w.pc = y.pc /\ w.q = y.q /\ w.msg = y.msg /\ w.nq = y.nq
      /\ w.new = y.new /\ w.dq = y.dq /\ w.rel = y.rel /\ w.out = y.out /\ w.ret = y.ret
  BY DEF ThreadRec
<1>2. [y EXCEPT !.i = 0, !.n = 0] = [w EXCEPT !.n = 0]
  OBVIOUS
<1> HIDE DEF w
<1>3. LET x == [w EXCEPT !.n = 0] IN
           /\ x \in ThreadRec /\ x.pc = w.pc /\ x.q = w.q /\ x.msg = w.msg /\ x.nq = w.nq
           /\ x.new = w.new /\ x.dq = w.dq /\ x.rel = w.rel /\ x.out = w.out /\ x.ret = w.ret
  BY <1>1 DEF ThreadRec
<1> QED BY <1>1, <1>2, <1>3

\* The end of a round with no queue waiting.
LEMMA KeepQueueStep ==
    ASSUME ServerInv, NEW t \in Thread, TakeNext(t), gq = <<>>
    PROVE  ServerInv'
<1>1. /\ thr[t].pc = "swap" /\ thr[t] \in ThreadRec /\ ThreadOK(thr[t])
      /\ t \in External <=> At(thr[t]) = "outside"
  BY ThreadFacts DEF TakeNext
<1>2. thr[t].q \in Service
  BY <1>1 DEF ThreadRec, ThreadOK, At
<1> DEFINE y == ReleaseThen(t, thr[t].q, "top")
           x == [y EXCEPT !.i = 0, !.n = 0]
<1>3. /\ x \in ThreadRec /\ x.pc = "release" /\ x.q = thr[t].q /\ x.msg = thr[t].msg
      /\ x.nq = thr[t].nq /\ x.new = thr[t].new /\ x.dq = thr[t].dq /\ x.rel = thr[t].q
      /\ x.out = NoMsg /\ x.ret = "top"
  <2>1. "top" \in Pc
    BY DEF Pc
  <2>2. /\ y \in ThreadRec /\ y.pc = "release" /\ y.q = thr[t].q /\ y.msg = thr[t].msg
        /\ y.nq = thr[t].nq /\ y.new = thr[t].new /\ y.dq = thr[t].dq /\ y.rel = thr[t].q
        /\ y.out = NoMsg /\ y.ret = "top"
    BY <1>1, <1>2, <2>1, ReleaseThenIs
  <2> HIDE DEF y
  <2> QED BY <2>2, CountersReset
<1>4. thr' = [thr EXCEPT ![t] = x] /\ UNCHANGED <<slot, ctx, mq, gq, quit, st>>
  BY DEF TakeNext
<1> HIDE DEF x
<1>5. Now(t, "release", thr[t].q, thr[t].msg, thr[t].nq, thr[t].new, thr[t].dq, thr[t].q, NoMsg, "top")
  BY <1>3, <1>4, Moves DEF Now
<1>6. ThreadOK(thr'[t]) /\ At(thr'[t]) = "top"
  BY <1>1, <1>2, <1>5 DEF Now, ThreadOK, At
<1>7. /\ \A s \in Service : RefOf(thr'[t], s) = RefOf(thr[t], s)
      /\ Busy(thr'[t]) => Busy(thr[t])
  BY <1>1, <1>2, <1>5 DEF Now, RefOf, Busy, ThreadOK, At
<1> QED BY <1>1, <1>4, <1>5, <1>6, <1>7, Quiet DEF Now, At

\* skynet_handle_retire: the table's reference becomes the caller's.
LEMMA KillStep ==
    ASSUME ServerInv, NEW t \in Thread, NEW s \in Service, Kill(t, s)
    PROVE  ServerInv'
<1>1. /\ thr[t].pc \in {"handle", "init"} /\ thr[t] \in ThreadRec /\ ThreadOK(thr[t])
      /\ t \in External <=> At(thr[t]) = "outside"
      /\ s \in slot /\ slot' = slot \ {s} /\ UNCHANGED <<ctx, mq, gq, quit, st>>
  BY ThreadFacts DEF Kill
<1>2. Now(t, "release", thr[t].q, thr[t].msg, thr[t].nq, thr[t].new, thr[t].dq, s, NoMsg, thr[t].pc)
  <2> DEFINE x == ReleaseThen(t, s, thr[t].pc)
  <2>1. thr[t].pc \in Pc
    BY <1>1 DEF ThreadRec
  <2>2. /\ x \in ThreadRec /\ x.pc = "release" /\ x.q = thr[t].q /\ x.msg = thr[t].msg
        /\ x.nq = thr[t].nq /\ x.new = thr[t].new /\ x.dq = thr[t].dq /\ x.rel = s
        /\ x.out = NoMsg /\ x.ret = thr[t].pc
    BY <1>1, <2>1, ReleaseThenIs
  <2>3. thr' = [thr EXCEPT ![t] = x]
    BY DEF Kill
  <2> HIDE DEF x
  <2> QED BY <2>2, <2>3, Moves DEF Now
<1>3. ThreadOK(thr'[t]) /\ At(thr'[t]) = At(thr[t]) /\ (Busy(thr'[t]) => Busy(thr[t]))
  BY <1>1, <1>2 DEF Now, ThreadOK, At, Busy
<1>4. \A x \in Service : RefOf(thr'[t], x) = RefOf(thr[t], x) + (IF x = s THEN 1 ELSE 0)
  BY <1>1, <1>2 DEF Now, RefOf, Busy, ThreadOK, At
<1>5. \A x \in Service :
              /\ ctx[x].init => ctx'[x].init
              /\ ctx'[x].life = ctx[x].life
              /\ ctx[x].ref = 0 => ctx'[x].ref = 0
              /\ ctx'[x].ref > 0 => ctx[x].life = "live"
  BY <1>1 DEF ServerInv, Lives
<1>6. \A x \in Service :
         ctx'[x].ref - (IF x \in slot' THEN 1 ELSE 0) - RefOf(thr'[t], x)
            = ctx[x].ref - (IF x \in slot THEN 1 ELSE 0) - RefOf(thr[t], x)
  <2>1. \A x \in Service : ctx[x].ref \in Int /\ RefOf(thr[t], x) \in Int
    BY DEF ServerInv, Types, CtxRec, RefOf
  <2> QED BY <1>1, <1>4, <2>1
<1>7. ctx' \in [Service -> CtxRec] /\ quit' \in BOOLEAN /\ slot' \subseteq slot
  BY <1>1 DEF ServerInv, Types
<1>8. /\ thr'[t].pc # "delete" /\ thr'[t].pc # "length" /\ At(thr'[t]) # "drop"
      /\ At(thr[t]) \in {"handle", "init"}
  BY <1>1, <1>2, <1>3 DEF Now, At
<1> QED BY <1>1, <1>2, <1>3, <1>5, <1>6, <1>7, <1>8, SameHands DEF Now

\* A launch succeeded.
LEMMA SetInitStep ==
    ASSUME ServerInv, NEW t \in Thread, SetInit(t)
    PROVE  ServerInv'
<1>1. /\ thr[t].pc = "setinit" /\ thr[t] \in ThreadRec /\ ThreadOK(thr[t])
      /\ t \in External <=> At(thr[t]) = "outside"
      /\ UNCHANGED <<slot, mq, gq, quit, st>>
  BY ThreadFacts DEF SetInit
<1>2. Now(t, "pushq", thr[t].q, thr[t].msg, thr[t].nq, thr[t].new, thr[t].dq, thr[t].rel,
          thr[t].out, thr[t].ret)
  <2> DEFINE x == [thr[t] EXCEPT !.pc = "pushq"]
  <2>1. /\ x \in ThreadRec /\ x.pc = "pushq" /\ x.q = thr[t].q /\ x.msg = thr[t].msg
        /\ x.nq = thr[t].nq /\ x.new = thr[t].new /\ x.dq = thr[t].dq /\ x.rel = thr[t].rel
        /\ x.out = thr[t].out /\ x.ret = thr[t].ret
    <3>1. "pushq" \in Pc
      BY DEF Pc
    <3> QED BY <1>1, <3>1 DEF ThreadRec
  <2>2. thr' = [thr EXCEPT ![t] = x]
    BY DEF SetInit
  <2> HIDE DEF x
  <2> QED BY <2>1, <2>2, Moves DEF Now
<1>3. ThreadOK(thr'[t]) /\ At(thr'[t]) = "pushq" /\ (Busy(thr'[t]) => Busy(thr[t]))
  BY <1>1, <1>2 DEF Now, ThreadOK, At, Busy
<1>4. \A x \in Service : RefOf(thr'[t], x) = RefOf(thr[t], x)
  BY <1>1, <1>2 DEF Now, RefOf, Busy, ThreadOK, At
<1>5. PICK s \in Service : s = thr[t].new
  BY <1>1 DEF ThreadOK, At, ThreadRec
<1>6. CtxNow(s, ctx[s].ref, TRUE, ctx[s].life)
  <2> DEFINE c == [ctx[s] EXCEPT !.init = TRUE]
  <2>1. ctx[s] \in CtxRec
    BY DEF ServerInv, Types
  <2>2. c \in CtxRec /\ c.ref = ctx[s].ref /\ c.init = TRUE /\ c.life = ctx[s].life
    BY <2>1 DEF CtxRec
  <2>3. ctx' = [ctx EXCEPT ![s] = c]
    BY <1>5 DEF SetInit
  <2> HIDE DEF c
  <2> QED BY <2>2, <2>3, CtxMoves DEF CtxNow
<1>7. \A x \in Service :
              /\ ctx[x].init => ctx'[x].init
              /\ ctx'[x].life = ctx[x].life
              /\ ctx'[x].ref = ctx[x].ref
              /\ ctx'[x].ref > 0 => ctx[x].life = "live"
  BY <1>6 DEF CtxNow, ServerInv, Lives
<1>8. /\ ctx' \in [Service -> CtxRec] /\ quit' \in BOOLEAN /\ slot' = slot
      /\ ctx'[thr[t].new].init
  BY <1>1, <1>5, <1>6 DEF CtxNow, ServerInv, Types
<1>9. thr'[t].pc # "delete" /\ thr'[t].pc # "length" /\ At(thr[t]) # "outside"
  BY <1>1, <1>2 DEF Now, At
<1> QED BY <1>1, <1>2, <1>3, <1>4, <1>7, <1>8, <1>9, SameHands DEF Now

\* The launch failed: the table's reference, if it is still there, becomes
\* the launcher's.
LEMMA LaunchFailedStep ==
    ASSUME ServerInv, NEW t \in Thread, LaunchFailed(t)
    PROVE  ServerInv'
<1>1. /\ thr[t].pc = "retire" /\ thr[t] \in ThreadRec /\ ThreadOK(thr[t])
      /\ t \in External <=> At(thr[t]) = "outside"
      /\ UNCHANGED <<ctx, mq, gq, quit, st>>
  BY ThreadFacts DEF LaunchFailed
<1>2. PICK s \in Service : s = thr[t].new
  BY <1>1 DEF ThreadOK, At, ThreadRec
<1>3. slot' = slot \ {s} /\ slot' \subseteq slot /\ thr[t].new \notin slot'
  BY <1>2 DEF LaunchFailed
<1> DEFINE y == IF s \in slot THEN ReleaseThen(t, s, "mqrelease")
                              ELSE [thr[t] EXCEPT !.pc = "mqrelease"]
<1>4. /\ y \in ThreadRec /\ y.q = thr[t].q /\ y.msg = thr[t].msg
      /\ y.nq = thr[t].nq /\ y.new = thr[t].new
      /\ IF s \in slot
         THEN y.pc = "release" /\ y.rel = s /\ y.out = NoMsg /\ y.ret = "mqrelease"
         ELSE y.pc = "mqrelease" /\ y.rel = thr[t].rel /\ y.out = thr[t].out /\ y.ret = thr[t].ret
  <2>1. "mqrelease" \in Pc
    BY DEF Pc
  <2>2. CASE s \in slot
    BY <1>1, <2>1, <2>2, ReleaseThenIs
  <2>3. CASE s \notin slot
    BY <1>1, <2>1, <2>3 DEF ThreadRec
  <2> QED BY <2>2, <2>3
<1>5. thr' = [thr EXCEPT ![t] = [y EXCEPT !.dq = s]]
  BY <1>2 DEF LaunchFailed
<1> HIDE DEF y
<1> DEFINE x == [y EXCEPT !.dq = s]
<1>6. /\ x \in ThreadRec /\ x.q = y.q /\ x.msg = y.msg /\ x.nq = y.nq /\ x.new = y.new
      /\ x.dq = s /\ x.pc = y.pc /\ x.rel = y.rel /\ x.out = y.out /\ x.ret = y.ret
  BY <1>4 DEF ThreadRec
<1> HIDE DEF x
<1>7. Now(t, y.pc, thr[t].q, thr[t].msg, thr[t].nq, s, s, y.rel, y.out, y.ret)
  BY <1>2, <1>4, <1>5, <1>6, Moves DEF Now, x
<1>8. At(thr'[t]) = "mqrelease" /\ thr'[t].pc \in {"release", "mqrelease"}
  BY <1>1, <1>4, <1>7 DEF Now, At
<1>9. ThreadOK(thr'[t]) /\ (Busy(thr'[t]) => Busy(thr[t]))
  <2>1. CASE s \in slot
    BY <1>1, <1>2, <1>4, <1>7, <1>8, <2>1 DEF Now, ThreadOK, At, Busy
  <2>2. CASE s \notin slot
    BY <1>1, <1>2, <1>4, <1>7, <1>8, <2>2 DEF Now, ThreadOK, At, Busy
  <2> QED BY <2>1, <2>2
<1>10. \A x1 \in Service : RefOf(thr'[t], x1) = RefOf(thr[t], x1)
                                               + (IF x1 = s /\ s \in slot THEN 1 ELSE 0)
  <2>1. CASE s \in slot
    BY <1>1, <1>2, <1>4, <1>7, <2>1 DEF Now, RefOf, Busy, ThreadOK, At
  <2>2. CASE s \notin slot
    BY <1>1, <1>2, <1>4, <1>7, <2>2 DEF Now, RefOf, Busy, ThreadOK, At
  <2> QED BY <2>1, <2>2
<1>11. \A z \in Service :
              /\ ctx[z].init => ctx'[z].init
              /\ ctx'[z].life = ctx[z].life
              /\ ctx[z].ref = 0 => ctx'[z].ref = 0
              /\ ctx'[z].ref > 0 => ctx[z].life = "live"
  BY <1>1 DEF ServerInv, Lives
<1>12. \A z \in Service :
         ctx'[z].ref - (IF z \in slot' THEN 1 ELSE 0) - RefOf(thr'[t], z)
            = ctx[z].ref - (IF z \in slot THEN 1 ELSE 0) - RefOf(thr[t], z)
  <2>1. \A z \in Service : ctx[z].ref \in Int /\ RefOf(thr[t], z) \in Int
    BY DEF ServerInv, Types, CtxRec, RefOf
  <2> QED BY <1>1, <1>3, <1>10, <2>1
<1>13. /\ ctx' \in [Service -> CtxRec] /\ quit' \in BOOLEAN
       /\ thr'[t].pc # "delete" /\ thr'[t].pc # "length" /\ At(thr'[t]) # "drop"
       /\ At(thr[t]) # "outside" /\ At(thr'[t]) # "outside"
       /\ thr'[t].q = thr[t].q /\ thr'[t].nq = thr[t].nq /\ thr'[t].new = thr[t].new
       /\ thr' \in [Thread -> ThreadRec] /\ \A u \in Thread : u # t => thr'[u] = thr[u]
       /\ mq' = mq /\ gq' = gq /\ st' = st
  BY <1>1, <1>2, <1>7, <1>8 DEF ServerInv, Types, Now, At
<1> QED BY <1>1, <1>3, <1>9, <1>11, <1>12, <1>13, SameHands

\* skynet_handle_grab of the service whose queue the thread has.
LEMMA GrabStep ==
    ASSUME ServerInv, NEW t \in Thread, Grab(t)
    PROVE  ServerInv'
<1>1. /\ thr[t].pc = "grab" /\ thr[t] \in ThreadRec /\ ThreadOK(thr[t])
      /\ t \in External <=> At(thr[t]) = "outside"
      /\ UNCHANGED <<slot, mq, gq, quit, st>>
  BY ThreadFacts DEF Grab
<1>2. PICK s \in Service : s = thr[t].q
  BY <1>1 DEF ThreadOK, At, ThreadRec
<1>3. "mqpop" \in Pc /\ "mqrelease" \in Pc
  BY DEF Pc
<1>4. CASE s \in slot
  <2> DEFINE x == [thr[t] EXCEPT !.pc = "mqpop", !.i = 0, !.n = 1]
             c == [ctx[s] EXCEPT !.ref = @ + 1]
  <2>1. x \in ThreadRec
    <3> DEFINE w == [thr[t] EXCEPT !.pc = "mqpop"]
               y == [w EXCEPT !.i = 0]
    <3>1. w \in ThreadRec
      BY <1>1, <1>3 DEF ThreadRec
    <3>2. x = [y EXCEPT !.n = 1]
      OBVIOUS
    <3> HIDE DEF w
    <3>3. y \in ThreadRec
      BY <3>1 DEF ThreadRec
    <3> HIDE DEF y
    <3>4. [y EXCEPT !.n = 1] \in ThreadRec
      BY <3>3 DEF ThreadRec
    <3> QED BY <3>2, <3>4
  <2>2. /\ x.q = thr[t].q /\ x.msg = thr[t].msg /\ x.nq = thr[t].nq /\ x.new = thr[t].new
        /\ x.dq = thr[t].dq /\ x.pc = "mqpop" /\ x.rel = thr[t].rel /\ x.out = thr[t].out
        /\ x.ret = thr[t].ret
    BY <1>1 DEF ThreadRec
  <2>3. ctx[s] \in CtxRec
    BY DEF ServerInv, Types
  <2>4. c \in CtxRec /\ c.ref = ctx[s].ref + 1 /\ c.init = ctx[s].init /\ c.life = ctx[s].life
    BY <2>3 DEF CtxRec
  <2>5. thr' = [thr EXCEPT ![t] = x] /\ ctx' = [ctx EXCEPT ![s] = c]
    BY <1>2, <1>4 DEF Grab
  <2> HIDE DEF x, c
  <2>6. Now(t, "mqpop", thr[t].q, thr[t].msg, thr[t].nq, thr[t].new, thr[t].dq, thr[t].rel,
            thr[t].out, thr[t].ret)
    BY <2>1, <2>2, <2>5, Moves DEF Now
  <2>7. CtxNow(s, ctx[s].ref + 1, ctx[s].init, ctx[s].life)
    BY <2>4, <2>5, CtxMoves DEF CtxNow
  <2>8. ThreadOK(thr'[t]) /\ At(thr'[t]) = "mqpop"
    BY <1>1, <2>6 DEF Now, ThreadOK, At
  <2>9. \A z \in Service : /\ RefOf(thr'[t], z) = RefOf(thr[t], z) + (IF z = s THEN 1 ELSE 0)
                           /\ RefOf(thr[t], z) \in Int /\ ctx[z].ref \in Int
    BY <1>1, <1>2, <2>6 DEF Now, RefOf, Busy, ThreadOK, At, ServerInv, Types, CtxRec
  <2>10. \A z \in Service :
              /\ ctx[z].init => ctx'[z].init
              /\ ctx'[z].life = ctx[z].life
              /\ ctx[z].ref = 0 => ctx'[z].ref = 0
              /\ ctx'[z].ref > 0 => ctx[z].life = "live"
              /\ ctx'[z].ref = ctx[z].ref + (IF z = s THEN 1 ELSE 0)
    BY <1>4, <2>7, <2>9, SlotLive DEF CtxNow, ServerInv, Lives
  <2>11. ctx[s].init
    <3> SUFFICES ASSUME NEW u \in Thread, thr[u].new = s PROVE FALSE
      BY <1>4 DEF ServerInv, InitInv
    <3>1. Hand(u, s) /\ Hand(t, s)
      BY <1>2 DEF Hand
    <3>2. u = t
      BY <3>1 DEF ServerInv, PlaceInv
    <3> QED BY <1>1, <3>2 DEF ThreadOK, At
  <2>12. \A z \in Service :
            ctx'[z].ref - (IF z \in slot' THEN 1 ELSE 0) - RefOf(thr'[t], z)
              = ctx[z].ref - (IF z \in slot THEN 1 ELSE 0) - RefOf(thr[t], z)
    BY <1>1, <2>9, <2>10
  <2>13. /\ ctx' \in [Service -> CtxRec] /\ quit' \in BOOLEAN /\ slot' = slot
         /\ thr'[t].pc # "delete" /\ thr'[t].pc # "length" /\ At(thr'[t]) # "drop"
         /\ At(thr[t]) = "grab" /\ At(thr'[t]) # "outside"
         /\ thr'[t].q = s /\ thr'[t].q = thr[t].q /\ thr'[t].nq = thr[t].nq /\ thr'[t].new = thr[t].new
         /\ thr' \in [Thread -> ThreadRec] /\ \A u \in Thread : u # t => thr'[u] = thr[u]
         /\ mq' = mq /\ gq' = gq /\ st' = st
    BY <1>1, <1>2, <2>6, <2>7, <2>8 DEF ServerInv, Types, Now, CtxNow, At
  <2> QED BY <1>1, <2>8, <2>10, <2>11, <2>12, <2>13, SameHands
<1>5. CASE s \notin slot
  <2> DEFINE x == [thr[t] EXCEPT !.pc = "mqrelease", !.dq = s]
  <2>1. x \in ThreadRec
    BY <1>1, <1>3 DEF ThreadRec
  <2>2. /\ x.q = thr[t].q /\ x.msg = thr[t].msg /\ x.nq = thr[t].nq /\ x.new = thr[t].new
        /\ x.dq = s /\ x.pc = "mqrelease" /\ x.rel = thr[t].rel /\ x.out = thr[t].out
        /\ x.ret = thr[t].ret
    BY <1>1 DEF ThreadRec
  <2>3. thr' = [thr EXCEPT ![t] = x] /\ UNCHANGED <<slot, ctx, mq, gq, quit, st>>
    BY <1>1, <1>2, <1>5 DEF Grab
  <2> HIDE DEF x
  <2>4. Now(t, "mqrelease", thr[t].q, thr[t].msg, thr[t].nq, thr[t].new, s, thr[t].rel,
            thr[t].out, thr[t].ret)
    BY <2>1, <2>2, <2>3, Moves DEF Now
  <2>5. ThreadOK(thr'[t]) /\ At(thr'[t]) = "mqrelease" /\ At(thr[t]) = "grab"
    BY <1>1, <1>2, <2>4 DEF Now, ThreadOK, At
  <2>6. /\ \A z \in Service : RefOf(thr'[t], z) = RefOf(thr[t], z)
        /\ Busy(thr'[t]) => Busy(thr[t])
    BY <1>1, <2>4 DEF Now, RefOf, Busy, ThreadOK, At
  <2> QED BY <1>1, <2>3, <2>4, <2>5, <2>6, Quiet DEF Now
<1> QED BY <1>4, <1>5

\* skynet_context_release: a reference that is not the last.
LEMMA ReleaseOtherStep ==
    ASSUME ServerInv, NEW t \in Thread, Release(t), ctx[thr[t].rel].ref # 1
    PROVE  ServerInv'
<1>1. /\ thr[t].pc = "release" /\ thr[t] \in ThreadRec /\ ThreadOK(thr[t])
      /\ t \in External <=> At(thr[t]) = "outside"
      /\ UNCHANGED <<slot, mq, gq, quit, st>>
      /\ thr[t].ret \in {"handle", "init", "outside", "drop", "top", "pop", "setinit",
                         "retire", "mqrelease"}
  BY ThreadFacts DEF Release, ThreadOK
<1>2. PICK s \in Service : s = thr[t].rel
  BY <1>1 DEF ThreadOK, ThreadRec
<1>3. PICK ret \in {"handle", "init", "outside", "drop", "top", "pop", "setinit",
                    "retire", "mqrelease"} : ret = thr[t].ret
  BY <1>1
<1>4. Now(t, ret, thr[t].q, thr[t].msg, thr[t].nq, thr[t].new, thr[t].dq, None, NoMsg, "-")
  <2>1. ret \in Pc
    BY DEF Pc
  <2>2. Goto(t, ret)
    BY <1>2, <1>3 DEF Release, ReleasesLast
  <2> QED BY <2>1, <2>2, GotoIs
<1>5. /\ ctx[s].ref \in Nat /\ ctx[s].ref > 1 /\ ctx[s].life = "live"
  BY <1>1, <1>2, HeldLive DEF RefOf
<1>6. CtxNow(s, ctx[s].ref - 1, ctx[s].init, ctx[s].life)
  <2> DEFINE c == [ctx[s] EXCEPT !.ref = @ - 1]
  <2>1. ctx[s] \in CtxRec
    BY DEF ServerInv, Types
  <2>2. c \in CtxRec /\ c.ref = ctx[s].ref - 1 /\ c.init = ctx[s].init /\ c.life = ctx[s].life
    BY <1>5, <2>1 DEF CtxRec
  <2>3. ctx' = [ctx EXCEPT ![s] = c]
    BY <1>2 DEF Release
  <2> HIDE DEF c
  <2> QED BY <2>2, <2>3, CtxMoves DEF CtxNow
<1>7. At(thr'[t]) = ret /\ At(thr[t]) = ret
  BY <1>1, <1>3, <1>4 DEF Now, At
<1>8. ThreadOK(thr'[t])
  BY <1>1, <1>4, <1>7 DEF Now, ThreadOK
<1>9. Busy(thr'[t]) <=> Busy(thr[t])
  BY <1>1, <1>4, <1>7 DEF Now, Busy, ThreadOK
<1>10. \A z \in Service : /\ RefOf(thr'[t], z) = RefOf(thr[t], z) - (IF z = s THEN 1 ELSE 0)
                          /\ RefOf(thr[t], z) \in Int /\ ctx[z].ref \in Int
  <2>1. \A z \in Service : RefOf(thr[t], z) \in Int /\ ctx[z].ref \in Int
    BY DEF RefOf, ServerInv, Types, CtxRec
  <2>2. \A z \in Service : RefOf(thr'[t], z) = RefOf(thr[t], z) - (IF z = s THEN 1 ELSE 0)
    BY <1>1, <1>2, <1>3, <1>4, <1>9 DEF Now, RefOf
  <2> QED BY <2>1, <2>2
<1>11. \A z \in Service :
              /\ ctx[z].init => ctx'[z].init
              /\ ctx'[z].life = ctx[z].life
              /\ ctx[z].ref = 0 => ctx'[z].ref = 0
              /\ ctx'[z].ref > 0 => ctx[z].life = "live"
              /\ ctx'[z].ref = ctx[z].ref - (IF z = s THEN 1 ELSE 0)
  BY <1>5, <1>6, <1>10 DEF CtxNow, ServerInv, Lives
<1>12. \A z \in Service :
            ctx'[z].ref - (IF z \in slot' THEN 1 ELSE 0) - RefOf(thr'[t], z)
              = ctx[z].ref - (IF z \in slot THEN 1 ELSE 0) - RefOf(thr[t], z)
  BY <1>1, <1>10, <1>11
<1>13. /\ ctx' \in [Service -> CtxRec] /\ quit' \in BOOLEAN /\ slot' = slot
       /\ thr'[t].pc # "delete" /\ thr'[t].pc # "length"
       /\ thr'[t].q = thr[t].q /\ thr'[t].nq = thr[t].nq /\ thr'[t].new = thr[t].new
       /\ thr' \in [Thread -> ThreadRec] /\ \A u \in Thread : u # t => thr'[u] = thr[u]
       /\ mq' = mq /\ gq' = gq /\ st' = st
  BY <1>1, <1>4, <1>6 DEF ServerInv, Types, Now, CtxNow
<1>14. At(thr'[t]) = "drop" => thr'[t].dq \in Service /\ mq[thr'[t].dq].release
  BY <1>1, <1>4, <1>7 DEF Now, ServerInv, Lives, ThreadOK, ThreadRec
<1> QED BY <1>1, <1>7, <1>8, <1>9, <1>11, <1>12, <1>13, <1>14, SameHands

\* The last reference: the thread that gives it back deletes.
LEMMA ReleaseLastStep ==
    ASSUME ServerInv, NEW t \in Thread, Release(t), ctx[thr[t].rel].ref = 1
    PROVE  ServerInv'
<1>1. /\ thr[t].pc = "release" /\ thr[t] \in ThreadRec /\ ThreadOK(thr[t])
      /\ t \in External <=> At(thr[t]) = "outside"
      /\ UNCHANGED <<slot, mq, gq, quit, st>>
  BY ThreadFacts DEF Release
<1>2. PICK s \in Service : s = thr[t].rel
  BY <1>1 DEF ThreadOK, ThreadRec
<1>4. Now(t, "delete", thr[t].q, thr[t].msg, thr[t].nq, thr[t].new, thr[t].dq, s, thr[t].out, thr[t].ret)
  <2> DEFINE x == [thr[t] EXCEPT !.pc = "delete"]
  <2>1. /\ x \in ThreadRec /\ x.pc = "delete" /\ x.q = thr[t].q /\ x.msg = thr[t].msg
        /\ x.nq = thr[t].nq /\ x.new = thr[t].new /\ x.dq = thr[t].dq /\ x.rel = s
        /\ x.out = thr[t].out /\ x.ret = thr[t].ret
    <3>1. "delete" \in Pc
      BY DEF Pc
    <3> QED BY <1>1, <1>2, <3>1 DEF ThreadRec
  <2>2. thr' = [thr EXCEPT ![t] = x]
    BY <1>2 DEF Release, ReleasesLast
  <2> HIDE DEF x
  <2> QED BY <2>1, <2>2, Moves DEF Now
<1>5. ctx[s].ref = 1 /\ ctx[s].life = "live"
  BY <1>1, <1>2, HeldLive DEF RefOf
<1>6. CtxNow(s, 0, ctx[s].init, ctx[s].life)
  <2> DEFINE c == [ctx[s] EXCEPT !.ref = @ - 1]
  <2>1. ctx[s] \in CtxRec
    BY DEF ServerInv, Types
  <2>2. c \in CtxRec /\ c.ref = 0 /\ c.init = ctx[s].init /\ c.life = ctx[s].life
    BY <1>5, <2>1 DEF CtxRec
  <2>3. ctx' = [ctx EXCEPT ![s] = c]
    BY <1>2 DEF Release
  <2> HIDE DEF c
  <2> QED BY <2>2, <2>3, CtxMoves DEF CtxNow
<1>7. At(thr'[t]) = At(thr[t]) /\ thr'[t].pc = "delete"
  BY <1>1, <1>4 DEF Now, At
<1>8. ThreadOK(thr'[t])
  BY <1>1, <1>2, <1>4, <1>7 DEF Now, ThreadOK
<1>9. Busy(thr'[t]) <=> Busy(thr[t])
  BY <1>1, <1>4 DEF Now, Busy
<1>10. \A z \in Service : RefOf(thr[t], z) \in Int /\ ctx[z].ref \in Int
  BY DEF RefOf, ServerInv, Types, CtxRec
<1>11. \A z \in Service : RefOf(thr'[t], z) = RefOf(thr[t], z) - (IF z = s THEN 1 ELSE 0)
  BY <1>1, <1>2, <1>4, <1>9 DEF Now, RefOf
<1>12. \A z \in Service :
              /\ ctx[z].init => ctx'[z].init
              /\ ctx'[z].life = ctx[z].life
              /\ ctx'[z].ref = ctx[z].ref - (IF z = s THEN 1 ELSE 0)
  BY <1>5, <1>6, <1>10 DEF CtxNow
<1>13. \A z \in Service :
            ctx'[z].ref - (IF z \in slot' THEN 1 ELSE 0) - RefOf(thr'[t], z)
              = ctx[z].ref - (IF z \in slot THEN 1 ELSE 0) - RefOf(thr[t], z)
  BY <1>1, <1>10, <1>11, <1>12
<1>14. /\ ctx' \in [Service -> CtxRec] /\ quit' \in BOOLEAN /\ slot' = slot
       /\ thr'[t].q = thr[t].q /\ thr'[t].nq = thr[t].nq /\ thr'[t].new = thr[t].new
       /\ thr' \in [Thread -> ThreadRec] /\ \A u \in Thread : u # t => thr'[u] = thr[u]
       /\ mq' = mq /\ gq' = gq /\ st' = st
       /\ mq' \in [Service -> MqRec] /\ gq' \in Seq(Service) /\ st' \in [Id -> StRec]
  BY <1>1, <1>4, <1>6 DEF ServerInv, Types, Now, CtxNow
<1>15. PlaceInv'
  <2>1. \A z \in Service : /\ (Placed(z)' <=> Placed(z))
                           /\ mq'[z].life = "live" /\ ~mq'[z].in_global /\ ~mq'[z].release
                                 => RingIsEmpty(mq'[z].ring)
    BY <1>14 DEF Placed, ServerInv, PlaceInv
  <2> QED BY <1>14, <2>1, PlacesKept DEF ServerInv
<1>16. Lives'
  <2>1. \A z \in Service :
          /\ ctx'[z].ref > 0 => ctx'[z].life = "live"
          /\ mq'[z].release <=> ctx'[z].life = "freed"
          /\ mq'[z].life = "none" <=> ctx'[z].life = "none"
          /\ mq'[z].life = "freed" => ctx'[z].life = "freed"
          /\ mq'[z].life # "live" => RingIsEmpty(mq'[z].ring)
    BY <1>5, <1>10, <1>12, <1>14, SMTT(30) DEF ServerInv, Lives
  <2>2. \A u \in Thread : thr[u].pc = "delete" => thr[u].rel \in Service /\ thr[u].rel # s
    BY <1>5, ThreadFacts DEF ThreadRec, ThreadOK, ServerInv, Lives
  <2>3. \A u \in Thread : thr'[u].pc = "delete" =>
          ctx'[thr'[u].rel].ref = 0 /\ ctx'[thr'[u].rel].life = "live"
    <3> SUFFICES ASSUME NEW u \in Thread, thr'[u].pc = "delete"
                 PROVE  ctx'[thr'[u].rel].ref = 0 /\ ctx'[thr'[u].rel].life = "live"
      OBVIOUS
    <3>1. CASE u = t
      BY <1>4, <1>5, <1>6, <3>1 DEF Now, CtxNow
    <3>2. CASE u # t
      BY <1>14, <1>6, <2>2, <3>2 DEF CtxNow, ServerInv, Lives
    <3> QED BY <3>1, <3>2
  <2>4. \A u, v \in Thread :
          thr'[u].pc = "delete" /\ thr'[v].pc = "delete" /\ thr'[u].rel = thr'[v].rel => u = v
    BY <1>4, <2>2 DEF Now, ServerInv, Lives
  <2>5. \A u \in Thread : At(thr'[u]) = "drop" => mq'[thr'[u].dq].release
    BY <1>4, <1>7, <1>14 DEF Now, ServerInv, Lives
  <2> QED BY <2>1, <2>3, <2>4, <2>5 DEF Lives
<1> QED BY <1>1, <1>7, <1>8, <1>9, <1>12, <1>13, <1>14, <1>15, <1>16, Assemble

\* delete_context: the queue is marked, and in some place then.
LEMMA DeleteStep ==
    ASSUME ServerInv, NEW t \in Thread, Delete(t)
    PROVE  ServerInv'
<1>1. /\ thr[t].pc = "delete" /\ thr[t] \in ThreadRec /\ ThreadOK(thr[t])
      /\ t \in External <=> At(thr[t]) = "outside"
      /\ UNCHANGED <<slot, quit, st>>
      /\ thr[t].ret \in {"handle", "init", "outside", "drop", "top", "pop", "setinit",
                         "retire", "mqrelease"}
  BY ThreadFacts DEF Delete, ThreadOK
<1>2. PICK s \in Service : s = thr[t].rel
  BY <1>1 DEF ThreadOK, ThreadRec
<1>3. PICK ret \in {"handle", "init", "outside", "drop", "top", "pop", "pushq",
                    "retire", "mqrelease"} :
         ret = IF thr[t].ret = "setinit" THEN "pushq" ELSE thr[t].ret
  BY <1>1
<1>4. Now(t, ret, thr[t].q, thr[t].msg, thr[t].nq, thr[t].new, thr[t].dq, None, NoMsg, "-")
  <2>1. ret \in Pc
    BY DEF Pc
  <2>2. Goto(t, ret)
    BY <1>3 DEF Delete
  <2> QED BY <2>1, <2>2, GotoIs
<1>5. /\ ctx[s].ref = 0 /\ ctx[s].life = "live" /\ mq[s].life = "live" /\ ~mq[s].release
      /\ s \notin slot
  <2>1. ctx[s].ref = 0 /\ ctx[s].life = "live"
    BY <1>1, <1>2 DEF ServerInv, Lives
  <2>2. s \notin slot
    BY <2>1, SlotLive
  <2> QED BY <2>1, <2>2 DEF ServerInv, Lives, Types, MqRec, Life
<1>6. CtxNow(s, 0, ctx[s].init, "freed")
  <2> DEFINE c == [ctx[s] EXCEPT !.life = "freed"]
  <2>1. ctx[s] \in CtxRec
    BY DEF ServerInv, Types
  <2>2. c \in CtxRec /\ c.ref = 0 /\ c.init = ctx[s].init /\ c.life = "freed"
    BY <1>5, <2>1 DEF CtxRec, Life
  <2>3. ctx' = [ctx EXCEPT ![s] = c]
    BY <1>2 DEF Delete
  <2> HIDE DEF c
  <2> QED BY <2>2, <2>3, CtxMoves DEF CtxNow
<1>7. MqNow(s, mq[s].ring, mq[s].in_global, TRUE, "live")
  <2> DEFINE x == [mq[s] EXCEPT !.release = TRUE]
  <2>1. mq' = [mq EXCEPT ![s] = x]
    BY <1>2 DEF Delete
  <2>2. mq[s] \in MqRec
    BY DEF ServerInv, Types
  <2>3. /\ x \in MqRec /\ x.ring = mq[s].ring /\ x.in_global = mq[s].in_global /\ x.release = TRUE
        /\ x.life = "live"
    BY <1>5, <2>2 DEF MqRec
  <2> HIDE DEF x
  <2> QED BY <2>1, <2>3, MqMoves DEF MqNow
<1>8. gq' = IF mq[s].in_global THEN gq ELSE Append(gq, s)
  BY <1>2 DEF Delete, MarkPushes, skynet_globalmq_push
<1>9. /\ At(thr'[t]) = ret /\ thr'[t].q = thr[t].q /\ thr'[t].nq = thr[t].nq
      /\ thr'[t].new = thr[t].new /\ thr'[t].pc # "delete" /\ thr'[t].pc # "length"
      /\ thr' \in [Thread -> ThreadRec] /\ \A u \in Thread : u # t => thr'[u] = thr[u]
  BY <1>4 DEF Now, At
<1>10. ThreadOK(thr'[t]) /\ (t \in External <=> At(thr'[t]) = "outside")
  BY <1>1, <1>3, <1>4, <1>9 DEF Now, ThreadOK, At
<1>11. Busy(thr'[t]) <=> Busy(thr[t])
  BY <1>1, <1>3, <1>4 DEF Now, Busy, ThreadOK, At
<1>12. PlaceInv' /\ gq' \in Seq(Service)
  <2>1. IsInjective(gq) /\ gq \in Seq(Service) /\ \A x \in Service : ~(x \in Range(gq) /\ Hand(t, x))
    BY DEF ServerInv, Types, PlaceInv
  <2>2. /\ thr'[t].q # None => thr'[t].q \notin {thr'[t].nq, thr'[t].new}
        /\ thr'[t].nq # None => thr'[t].nq # thr'[t].new
    BY <1>9 DEF ServerInv, PlaceInv
  <2>3. \A x : Hand(t, x)' <=> Hand(t, x)
    BY <1>9 DEF Hand
  <2>4. CASE mq[s].in_global
    <3>1. \A x \in Service : /\ (Placed(x)' <=> Placed(x))
                             /\ mq'[x].life = "live" /\ ~mq'[x].in_global /\ ~mq'[x].release
                                   => RingIsEmpty(mq'[x].ring)
      BY <1>5, <1>7, <2>4 DEF Placed, ServerInv, PlaceInv, MqNow
    <3>2. gq' = gq
      BY <1>8, <2>4
    <3> QED BY <1>9, <2>1, <3>1, <3>2, PlacesKept DEF ServerInv
  <2>5. CASE ~mq[s].in_global
    <3>1. gq' = Append(gq, s) /\ ~Placed(s) /\ Placed(s)'
      BY <1>5, <1>7, <1>8, <2>5 DEF Placed, MqNow
    <3>2. s \notin Range(gq) /\ ~Hand(t, s)
      BY <1>1, <3>1 DEF ServerInv, PlaceInv
    <3>3. IsInjective(gq') /\ Range(gq') = Range(gq) \cup {s} /\ gq' \in Seq(Service)
      BY <1>1, <2>1, <3>1, <3>2, Join
    <3>4. \A x \in Service :
              /\ (x \in Range(gq') \/ Hand(t, x)') <=>
                    (x \in Range(gq) \/ Hand(t, x) \/ x \in {s}) /\ x \notin {}
              /\ ~(x \in Range(gq') /\ Hand(t, x)')
              /\ x \in {s} => ~Placed(x) /\ Placed(x)'
              /\ x \in {} => (x \in Range(gq) \/ Hand(t, x)) /\ ~Placed(x)'
      BY <2>1, <2>3, <3>1, <3>2, <3>3
    <3>5. \A x \in Service :
              /\ x \notin {s} /\ x \notin {} => (Placed(x)' <=> Placed(x))
              /\ mq'[x].life = "live" /\ ~mq'[x].in_global /\ ~mq'[x].release
                    => RingIsEmpty(mq'[x].ring)
      BY <1>7 DEF Placed, ServerInv, PlaceInv, MqNow
    <3> QED BY <1>9, <2>2, <3>3, <3>4, <3>5, PlaceStep DEF ServerInv
  <2> QED BY <2>4, <2>5
<1>13. Lives'
  <2>1. \A z \in Service :
          /\ ctx'[z].ref > 0 => ctx'[z].life = "live"
          /\ mq'[z].release <=> ctx'[z].life = "freed"
          /\ mq'[z].life = "none" <=> ctx'[z].life = "none"
          /\ mq'[z].life = "freed" => ctx'[z].life = "freed"
          /\ mq'[z].life # "live" => RingIsEmpty(mq'[z].ring)
    BY <1>6, <1>7 DEF ServerInv, Lives, CtxNow, MqNow
  <2>2. \A u \in Thread : thr'[u].pc = "delete" =>
           u # t /\ thr'[u].rel = thr[u].rel /\ thr[u].pc = "delete" /\ thr[u].rel \in Service \ {s}
    BY <1>1, <1>2, <1>9, ThreadFacts DEF ThreadRec, ThreadOK, ServerInv, Lives
  <2>3. \A u \in Thread : thr'[u].pc = "delete" =>
          ctx'[thr'[u].rel].ref = 0 /\ ctx'[thr'[u].rel].life = "live"
    BY <1>6, <2>2 DEF CtxNow, ServerInv, Lives
  <2>4. \A u, v \in Thread :
          thr'[u].pc = "delete" /\ thr'[v].pc = "delete" /\ thr'[u].rel = thr'[v].rel => u = v
    BY <2>2 DEF ServerInv, Lives
  <2>5. ASSUME NEW u \in Thread, At(thr'[u]) = "drop" PROVE mq'[thr'[u].dq].release
    <3>1. At(thr[u]) = "drop" /\ thr'[u].dq = thr[u].dq
      BY <1>1, <1>3, <1>4, <1>9, <2>5 DEF Now, At
    <3>2. thr[u].dq \in Service /\ mq[thr[u].dq].release
      BY <3>1, ThreadFacts DEF ThreadRec, ThreadOK, ServerInv, Lives
    <3> QED BY <1>7, <3>1, <3>2 DEF MqNow
  <2> QED BY <2>1, <2>3, <2>4, <2>5 DEF Lives
<1>14. \A z \in Service : RefOf(thr'[t], z) = RefOf(thr[t], z)
  BY <1>1, <1>3, <1>4, <1>11 DEF Now, RefOf
<1>15. \A z \in Service : /\ ctx[z].init => ctx'[z].init
                          /\ ctx'[z].ref = ctx[z].ref
  BY <1>5, <1>6 DEF CtxNow
<1>16. /\ slot' = slot /\ ctx' \in [Service -> CtxRec] /\ mq' \in [Service -> MqRec]
       /\ quit' \in BOOLEAN /\ st' \in [Id -> StRec]
  BY <1>1, <1>6, <1>7 DEF CtxNow, MqNow, ServerInv, Types
<1>17. At(thr[t]) \in {"init", "setinit", "retire"} =>
              At(thr'[t]) \in {"init", "setinit", "retire"} \/ thr[t].new \notin slot'
  BY <1>1, <1>2, <1>3, <1>5, <1>9 DEF At, ThreadOK
<1> QED BY <1>1, <1>9, <1>10, <1>11, <1>12, <1>13, <1>14, <1>15, <1>16, <1>17, Assemble

\* A queue goes from a hand of the thread into the global queue or back.
LEMMA Carried ==
    ASSUME ServerInv, NEW t \in Thread,
           thr' \in [Thread -> ThreadRec], \A u \in Thread : u # t => thr'[u] = thr[u],
           ThreadOK(thr'[t]), t \in External <=> At(thr'[t]) = "outside",
           thr'[t].pc # "length", thr'[t].pc # "delete", At(thr'[t]) # "drop",
           UNCHANGED <<slot, ctx, mq, quit, st>>, gq' \in Seq(Service), IsInjective(gq'),
           \A s \in Service :
              /\ RefOf(thr'[t], s) = RefOf(thr[t], s)
              /\ (s \in Range(gq') \/ Hand(t, s)') <=> (s \in Range(gq) \/ Hand(t, s))
              /\ ~(s \in Range(gq') /\ Hand(t, s)'),
           thr'[t].q # None => thr'[t].q \notin {thr'[t].nq, thr'[t].new},
           thr'[t].nq # None => thr'[t].nq # thr'[t].new,
           Busy(thr'[t]) => Busy(thr[t]) /\ thr'[t].q = thr[t].q,
           At(thr[t]) \notin {"init", "setinit", "retire"}
    PROVE  ServerInv'
<1>1. PlaceInv'
  <2>1. \A s \in Service :
              /\ (s \in Range(gq') \/ Hand(t, s)') <=>
                    (s \in Range(gq) \/ Hand(t, s) \/ s \in {}) /\ s \notin {}
              /\ ~(s \in Range(gq') /\ Hand(t, s)')
              /\ s \in {} => ~Placed(s) /\ Placed(s)'
              /\ s \in {} => (s \in Range(gq) \/ Hand(t, s)) /\ ~Placed(s)'
    OBVIOUS
  <2>2. \A s \in Service :
              /\ s \notin {} /\ s \notin {} => (Placed(s)' <=> Placed(s))
              /\ mq'[s].life = "live" /\ ~mq'[s].in_global /\ ~mq'[s].release
                    => RingIsEmpty(mq'[s].ring)
    BY DEF Placed, ServerInv, PlaceInv
  <2> QED BY <2>1, <2>2, PlaceStep DEF ServerInv
<1>2. Lives'
  <2>1. \A s \in Service :
              /\ ctx'[s].life = ctx[s].life /\ (mq'[s].release <=> mq[s].release)
              /\ mq'[s].life = mq[s].life
              /\ mq[s].life # "live" => mq'[s].ring = mq[s].ring
              /\ ctx[s].ref = 0 => ctx'[s].ref = 0
              /\ ctx'[s].ref > 0 => ctx[s].life = "live"
    BY DEF ServerInv, Lives
  <2> QED BY <2>1, LivesKept
<1>3. /\ slot' = slot /\ ctx' \in [Service -> CtxRec] /\ mq' \in [Service -> MqRec]
      /\ quit' \in BOOLEAN /\ st' \in [Id -> StRec]
  BY DEF ServerInv, Types
<1>4. \A s \in Service :
         /\ ctx[s].init => ctx'[s].init
         /\ ctx'[s].ref - (IF s \in slot' THEN 1 ELSE 0) - RefOf(thr'[t], s)
              = ctx[s].ref - (IF s \in slot THEN 1 ELSE 0) - RefOf(thr[t], s)
  OBVIOUS
<1> QED BY <1>1, <1>2, <1>3, <1>4, Assemble

\* The queue of a service that is launched goes into the global queue.
LEMMA PushQueueStep ==
    ASSUME ServerInv, NEW t \in Thread, PushQueue(t)
    PROVE  ServerInv'
<1>1. /\ thr[t].pc = "pushq" /\ thr[t] \in ThreadRec /\ ThreadOK(thr[t])
      /\ t \in External <=> At(thr[t]) = "outside"
  BY ThreadFacts DEF PushQueue
<1>2. PICK s \in Service : s = thr[t].new
  BY <1>1 DEF ThreadOK, At, ThreadRec
<1>3. Now(t, "handle", thr[t].q, thr[t].msg, thr[t].nq, None, thr[t].dq, thr[t].rel,
          thr[t].out, thr[t].ret)
  <2> DEFINE x == [thr[t] EXCEPT !.pc = "handle", !.new = None]
  <2>1. /\ x \in ThreadRec /\ x.pc = "handle" /\ x.q = thr[t].q /\ x.msg = thr[t].msg
        /\ x.nq = thr[t].nq /\ x.new = None /\ x.dq = thr[t].dq /\ x.rel = thr[t].rel
        /\ x.out = thr[t].out /\ x.ret = thr[t].ret
    <3>1. "handle" \in Pc
      BY DEF Pc
    <3> QED BY <1>1, <3>1 DEF ThreadRec
  <2>2. thr' = [thr EXCEPT ![t] = x]
    BY DEF PushQueue
  <2> HIDE DEF x
  <2> QED BY <2>1, <2>2, Moves DEF Now
<1>4. gq' = Append(gq, s) /\ UNCHANGED <<slot, ctx, mq, quit, st>>
  BY <1>2 DEF PushQueue, skynet_globalmq_push
<1>5. /\ At(thr'[t]) = "handle" /\ At(thr[t]) = "pushq" /\ ThreadOK(thr'[t])
      /\ Busy(thr'[t]) /\ Busy(thr[t])
  BY <1>1, <1>3 DEF Now, ThreadOK, At, Busy
<1>6. \A z \in Service : RefOf(thr'[t], z) = RefOf(thr[t], z)
  BY <1>1, <1>3, <1>5 DEF Now, RefOf, ThreadOK
<1>7. /\ gq \in Seq(Service) /\ IsInjective(gq) /\ Hand(t, s) /\ s \notin Range(gq)
      /\ \A z \in Service : ~(z \in Range(gq) /\ Hand(t, z))
  BY <1>2 DEF ServerInv, Types, PlaceInv, Hand
<1>8. gq' \in Seq(Service) /\ IsInjective(gq') /\ Range(gq') = Range(gq) \cup {s}
  BY <1>4, <1>7, Join
<1>9. /\ thr[t].q # s /\ thr[t].nq # s
      /\ thr[t].q # None => thr[t].q # thr[t].nq
  BY <1>2 DEF ServerInv, PlaceInv
<1>10. \A z \in Service : Hand(t, z)' <=> Hand(t, z) /\ z # s
  BY <1>2, <1>3, <1>9 DEF Now, Hand
<1>11. \A z \in Service :
          /\ (z \in Range(gq') \/ Hand(t, z)') <=> (z \in Range(gq) \/ Hand(t, z))
          /\ ~(z \in Range(gq') /\ Hand(t, z)')
  BY <1>7, <1>8, <1>10
<1>12. /\ thr'[t].q # None => thr'[t].q \notin {thr'[t].nq, thr'[t].new}
       /\ thr'[t].nq # None => thr'[t].nq # thr'[t].new
  BY <1>3, <1>9 DEF Now
<1>13. /\ thr' \in [Thread -> ThreadRec] /\ \A u \in Thread : u # t => thr'[u] = thr[u]
       /\ thr'[t].pc # "length" /\ thr'[t].pc # "delete" /\ thr'[t].q = thr[t].q
  BY <1>3 DEF Now
<1> QED BY <1>1, <1>4, <1>5, <1>6, <1>8, <1>11, <1>12, <1>13, Carried

\* A queue taken from the global queue into the empty hand q.
LEMMA PopStep ==
    ASSUME ServerInv, NEW t \in Thread, thr[t].pc \in {"top", "pop"}, thr[t].q = None,
           NEW some \in {"grab", "top"}, PopInto(t, some, "idle"),
           UNCHANGED <<slot, ctx, mq, quit, st>>
    PROVE  ServerInv'
<1>1. /\ thr[t] \in ThreadRec /\ ThreadOK(thr[t])
      /\ t \in External <=> At(thr[t]) = "outside"
  BY ThreadFacts
<1>2. "idle" \in Pc /\ some \in Pc
  BY DEF Pc
<1>3. CASE gq = <<>>
  <2> DEFINE x == [thr[t] EXCEPT !.pc = "idle", !.q = None]
  <2>1. /\ x \in ThreadRec /\ x.pc = "idle" /\ x.q = thr[t].q /\ x.msg = thr[t].msg
        /\ x.nq = thr[t].nq /\ x.new = thr[t].new /\ x.dq = thr[t].dq /\ x.rel = thr[t].rel
        /\ x.out = thr[t].out /\ x.ret = thr[t].ret
    BY <1>1, <1>2 DEF ThreadRec
  <2>2. thr' = [thr EXCEPT ![t] = x] /\ UNCHANGED <<slot, ctx, mq, gq, quit, st>>
    BY <1>3 DEF PopInto
  <2> HIDE DEF x
  <2>3. Now(t, "idle", thr[t].q, thr[t].msg, thr[t].nq, thr[t].new, thr[t].dq, thr[t].rel,
            thr[t].out, thr[t].ret)
    BY <2>1, <2>2, Moves DEF Now
  <2>4. ThreadOK(thr'[t]) /\ At(thr'[t]) = "idle" /\ At(thr[t]) \in {"top", "pop"}
    BY <1>1, <2>3 DEF Now, ThreadOK, At
  <2>5. /\ \A z \in Service : RefOf(thr'[t], z) = RefOf(thr[t], z)
        /\ Busy(thr'[t]) => Busy(thr[t])
    BY <1>1, <2>3 DEF Now, RefOf, Busy, ThreadOK, At
  <2> QED BY <1>1, <2>2, <2>3, <2>4, <2>5, Quiet DEF Now
<1>4. CASE gq # <<>>
  <2>1. gq \in Seq(Service) /\ IsInjective(gq)
    BY DEF ServerInv, Types, PlaceInv
  <2>2. PICK s \in Service : s = Head(gq)
    BY <1>4, <2>1, Leave
  <2>3. /\ gq' = Tail(gq) /\ gq' \in Seq(Service) /\ IsInjective(gq')
        /\ Range(gq') = Range(gq) \ {s} /\ s \in Range(gq)
    <3>1. gq' = Tail(gq)
      BY <1>4 DEF PopInto
    <3>2. /\ Tail(gq) \in Seq(Service) /\ IsInjective(Tail(gq))
          /\ Range(Tail(gq)) = Range(gq) \ {s} /\ s \in Range(gq)
      BY <1>4, <2>1, <2>2, Leave
    <3> QED BY <3>1, <3>2
  <2> DEFINE x == [thr[t] EXCEPT !.pc = some, !.q = s]
  <2>4. /\ x \in ThreadRec /\ x.pc = some /\ x.q = s /\ x.msg = thr[t].msg
        /\ x.nq = thr[t].nq /\ x.new = thr[t].new /\ x.dq = thr[t].dq /\ x.rel = thr[t].rel
        /\ x.out = thr[t].out /\ x.ret = thr[t].ret
    BY <1>1, <1>2 DEF ThreadRec
  <2>5. thr' = [thr EXCEPT ![t] = x]
    BY <1>4, <2>2 DEF PopInto
  <2> HIDE DEF x
  <2>6. Now(t, some, s, thr[t].msg, thr[t].nq, thr[t].new, thr[t].dq, thr[t].rel,
            thr[t].out, thr[t].ret)
    BY <2>4, <2>5, Moves DEF Now
  <2>7. ThreadOK(thr'[t]) /\ At(thr'[t]) = some /\ At(thr[t]) \in {"top", "pop"}
    BY <1>1, <2>6 DEF Now, ThreadOK, At
  <2>8. thr[t].msg = NoMsg /\ thr[t].nq = None /\ thr[t].new = None
    BY <1>1 DEF ThreadOK, At
  <2>9. /\ \A z \in Service : RefOf(thr'[t], z) = RefOf(thr[t], z)
        /\ ~Busy(thr'[t])
    BY <1>1, <2>6, <2>8 DEF Now, RefOf, Busy
  <2>10. \A z \in Service : (Hand(t, z)' <=> z = s) /\ ~Hand(t, z)
    BY <2>6, <2>8 DEF Now, Hand
  <2>11. \A z \in Service :
          /\ (z \in Range(gq') \/ Hand(t, z)') <=> (z \in Range(gq) \/ Hand(t, z))
          /\ ~(z \in Range(gq') /\ Hand(t, z)')
    BY <2>3, <2>10
  <2>12. /\ thr'[t].q # None => thr'[t].q \notin {thr'[t].nq, thr'[t].new}
         /\ thr'[t].nq # None => thr'[t].nq # thr'[t].new
         /\ thr' \in [Thread -> ThreadRec] /\ \A u \in Thread : u # t => thr'[u] = thr[u]
         /\ thr'[t].pc # "length" /\ thr'[t].pc # "delete"
    BY <2>6, <2>8 DEF Now
  <2> QED BY <1>1, <2>3, <2>7, <2>9, <2>11, <2>12, Carried
<1> QED BY <1>3, <1>4

\* The end of a round with another queue waiting.
LEMMA TakeNextStep ==
    ASSUME ServerInv, NEW t \in Thread, TakeNext(t), gq # <<>>
    PROVE  ServerInv'
<1>1. /\ thr[t].pc = "swap" /\ thr[t] \in ThreadRec /\ ThreadOK(thr[t])
      /\ t \in External <=> At(thr[t]) = "outside"
      /\ UNCHANGED <<slot, ctx, mq, quit, st>>
  BY ThreadFacts DEF TakeNext
<1>2. gq \in Seq(Service) /\ IsInjective(gq)
  BY DEF ServerInv, Types, PlaceInv
<1>3. PICK s \in Service : s = Head(gq)
  BY <1>2, Leave
<1>4. /\ gq' = Tail(gq) /\ gq' \in Seq(Service) /\ IsInjective(gq')
      /\ Range(gq') = Range(gq) \ {s} /\ s \in Range(gq)
  <2>1. gq' = Tail(gq)
    BY DEF TakeNext
  <2>2. /\ Tail(gq) \in Seq(Service) /\ IsInjective(Tail(gq))
        /\ Range(Tail(gq)) = Range(gq) \ {s} /\ s \in Range(gq)
    BY <1>2, <1>3, Leave
  <2> QED BY <2>1, <2>2
<1> DEFINE x == [thr[t] EXCEPT !.pc = "putback", !.nq = s]
<1>5. /\ x \in ThreadRec /\ x.pc = "putback" /\ x.q = thr[t].q /\ x.msg = thr[t].msg
      /\ x.nq = s /\ x.new = thr[t].new /\ x.dq = thr[t].dq /\ x.rel = thr[t].rel
      /\ x.out = thr[t].out /\ x.ret = thr[t].ret
  <2>1. "putback" \in Pc
    BY DEF Pc
  <2> QED BY <1>1, <2>1 DEF ThreadRec
<1>6. thr' = [thr EXCEPT ![t] = x]
  BY <1>3 DEF TakeNext
<1> HIDE DEF x
<1>7. Now(t, "putback", thr[t].q, thr[t].msg, s, thr[t].new, thr[t].dq, thr[t].rel,
          thr[t].out, thr[t].ret)
  BY <1>5, <1>6, Moves DEF Now
<1>8. ThreadOK(thr'[t]) /\ At(thr'[t]) = "putback" /\ At(thr[t]) = "swap"
  BY <1>1, <1>7 DEF Now, ThreadOK, At
<1>9. /\ thr[t].nq = None /\ thr[t].new = None
      /\ thr[t].q \in Service /\ ~Hand(t, s) /\ thr[t].q # s
      /\ \A z \in Service : ~(z \in Range(gq) /\ Hand(t, z))
  BY <1>1, <1>4 DEF ThreadOK, At, ThreadRec, ServerInv, PlaceInv, Hand
<1>10. /\ \A z \in Service : RefOf(thr'[t], z) = RefOf(thr[t], z)
       /\ Busy(thr'[t]) /\ Busy(thr[t])
  BY <1>1, <1>7 DEF Now, RefOf, Busy
<1>11. \A z \in Service : Hand(t, z)' <=> (Hand(t, z) \/ z = s)
  BY <1>7, <1>9 DEF Now, Hand
<1>12. \A z \in Service :
          /\ (z \in Range(gq') \/ Hand(t, z)') <=> (z \in Range(gq) \/ Hand(t, z))
          /\ ~(z \in Range(gq') /\ Hand(t, z)')
  BY <1>4, <1>9, <1>11
<1>13. /\ thr'[t].q # None => thr'[t].q \notin {thr'[t].nq, thr'[t].new}
       /\ thr'[t].nq # None => thr'[t].nq # thr'[t].new
       /\ thr' \in [Thread -> ThreadRec] /\ \A u \in Thread : u # t => thr'[u] = thr[u]
       /\ thr'[t].pc # "length" /\ thr'[t].pc # "delete" /\ thr'[t].q = thr[t].q
  BY <1>7, <1>9 DEF Now
<1> QED BY <1>1, <1>4, <1>8, <1>10, <1>12, <1>13, Carried

\* The queue of the round goes back, the next one is in hand.
LEMMA PutBackStep ==
    ASSUME ServerInv, NEW t \in Thread, PutBack(t)
    PROVE  ServerInv'
<1>1. /\ thr[t].pc = "putback" /\ thr[t] \in ThreadRec /\ ThreadOK(thr[t])
      /\ t \in External <=> At(thr[t]) = "outside"
      /\ UNCHANGED <<slot, ctx, mq, quit, st>>
  BY ThreadFacts DEF PutBack
<1>2. /\ thr[t].q \in Service /\ thr[t].nq \in Service /\ thr[t].new = None
      /\ thr[t].msg = NoMsg /\ thr[t].q # thr[t].nq
  BY <1>1 DEF ThreadOK, At, ThreadRec, ServerInv, PlaceInv
<1>3. PICK s \in Service : s = thr[t].q
  BY <1>2
<1>4. PICK n \in Service : n = thr[t].nq
  BY <1>2
<1>5. Now(t, "release", n, NoMsg, None, None, thr[t].dq, s, NoMsg, "top")
  <2> DEFINE y == ReleaseThen(t, s, "top")
             w == [y EXCEPT !.q = n, !.nq = None]
             x == [w EXCEPT !.i = 0, !.n = 0]
  <2>1. "top" \in Pc
    BY DEF Pc
  <2>2. thr' = [thr EXCEPT ![t] = [y EXCEPT !.q = n, !.nq = None, !.i = 0, !.n = 0]]
    BY <1>3, <1>4 DEF PutBack
  <2>3. [y EXCEPT !.q = n, !.nq = None, !.i = 0, !.n = 0] = x
    OBVIOUS
  <2>4. /\ y \in ThreadRec /\ y.pc = "release" /\ y.msg = NoMsg
        /\ y.new = None /\ y.dq = thr[t].dq /\ y.rel = s /\ y.out = NoMsg /\ y.ret = "top"
    BY <1>1, <1>2, <2>1, ReleaseThenIs
  <2> HIDE DEF y
  <2>5. /\ w \in ThreadRec /\ w.pc = "release" /\ w.q = n /\ w.msg = NoMsg /\ w.nq = None
        /\ w.new = None /\ w.dq = thr[t].dq /\ w.rel = s /\ w.out = NoMsg /\ w.ret = "top"
    BY <2>4 DEF ThreadRec
  <2> HIDE DEF w
  <2>6. /\ x \in ThreadRec /\ x.pc = "release" /\ x.q = n /\ x.msg = NoMsg /\ x.nq = None
        /\ x.new = None /\ x.dq = thr[t].dq /\ x.rel = s /\ x.out = NoMsg /\ x.ret = "top"
    BY <2>5, CountersReset
  <2>7. thr' = [thr EXCEPT ![t] = x]
    BY <2>2, <2>3
  <2> HIDE DEF x
  <2> QED BY <2>6, <2>7, Moves DEF Now
<1>6. ThreadOK(thr'[t]) /\ At(thr'[t]) = "top" /\ At(thr[t]) = "putback"
  BY <1>1, <1>5 DEF Now, ThreadOK, At
<1>7. /\ \A z \in Service : RefOf(thr'[t], z) = RefOf(thr[t], z)
      /\ ~Busy(thr'[t])
  BY <1>1, <1>2, <1>3, <1>5 DEF Now, RefOf, Busy, ThreadOK, At
<1>8. /\ gq \in Seq(Service) /\ IsInjective(gq) /\ Hand(t, s) /\ s \notin Range(gq)
      /\ \A z \in Service : ~(z \in Range(gq) /\ Hand(t, z))
      /\ gq' = Append(gq, s)
  BY <1>3 DEF ServerInv, Types, PlaceInv, Hand, PutBack, skynet_globalmq_push
<1>9. gq' \in Seq(Service) /\ IsInjective(gq') /\ Range(gq') = Range(gq) \cup {s}
  BY <1>8, Join
<1>10. \A z \in Service : /\ Hand(t, z)' <=> z = n
                          /\ Hand(t, z) <=> z = n \/ z = s
  BY <1>2, <1>3, <1>4, <1>5 DEF Now, Hand
<1>11. \A z \in Service :
          /\ (z \in Range(gq') \/ Hand(t, z)') <=> (z \in Range(gq) \/ Hand(t, z))
          /\ ~(z \in Range(gq') /\ Hand(t, z)')
  BY <1>2, <1>3, <1>4, <1>8, <1>9, <1>10
<1>12. /\ thr'[t].q # None => thr'[t].q \notin {thr'[t].nq, thr'[t].new}
       /\ thr'[t].nq # None => thr'[t].nq # thr'[t].new
       /\ thr' \in [Thread -> ThreadRec] /\ \A u \in Thread : u # t => thr'[u] = thr[u]
       /\ thr'[t].pc # "length" /\ thr'[t].pc # "delete"
  BY <1>5 DEF Now
<1> QED BY <1>1, <1>6, <1>7, <1>9, <1>11, <1>12, Carried

\* The end of a drop or put-back: the queue dq has left the thread's hands.
LEMMA EndDropIs ==
    ASSUME ServerInv, NEW t \in Thread, thr[t].pc \in {"mqrelease", "drop"}, EndDrop(t),
           NEW s \in Service, s = thr[t].dq
    PROVE  /\ thr' \in [Thread -> ThreadRec] /\ \A u \in Thread : u # t => thr'[u] = thr[u]
           /\ ThreadOK(thr'[t]) /\ (t \in External <=> At(thr'[t]) = "outside")
           /\ thr'[t].pc \in {"handle", "pop"} /\ At(thr'[t]) = thr'[t].pc
           /\ At(thr[t]) \in {"mqrelease", "drop"}
           /\ \A z \in Service : /\ RefOf(thr'[t], z) = RefOf(thr[t], z)
                                 /\ Hand(t, z)' <=> Hand(t, z) /\ z # s
           /\ thr'[t].q # None => thr'[t].q \notin {thr'[t].nq, thr'[t].new}
           /\ thr'[t].nq # None => thr'[t].nq # thr'[t].new
           /\ Busy(thr'[t]) => Busy(thr[t]) /\ thr'[t].q = thr[t].q
           /\ Hand(t, s)
<1>1. /\ thr[t] \in ThreadRec /\ ThreadOK(thr[t])
      /\ t \in External <=> At(thr[t]) = "outside"
      /\ thr[t].q # None => thr[t].q \notin {thr[t].nq, thr[t].new}
      /\ "handle" \in Pc /\ "pop" \in Pc
  BY ThreadFacts DEF ServerInv, PlaceInv, Pc
<1>2. /\ At(thr[t]) = thr[t].pc /\ thr[t].nq = None /\ thr[t].q # None /\ thr[t].rel = None
      /\ thr[t].out = NoMsg /\ thr[t].ret = "-" /\ (thr[t].new # None <=> thr[t].msg # NoMsg)
      /\ s = IF thr[t].new # None THEN thr[t].new ELSE thr[t].q
  BY <1>1 DEF ThreadOK, At
<1> DEFINE pc == AfterDrop(t)
           q == IF AfterDrop(t) = "pop" THEN None ELSE thr[t].q
           x == [thr[t] EXCEPT !.pc = pc, !.dq = None, !.new = None, !.q = q]
<1>3. thr' = [thr EXCEPT ![t] = x]
  BY DEF EndDrop
<1>4. pc \in Pc /\ q \in Service \cup {None}
  BY <1>1 DEF ThreadRec, AfterDrop
<1>5. /\ pc = IF thr[t].new # None THEN "handle" ELSE "pop"
      /\ q = IF thr[t].new # None THEN thr[t].q ELSE None
  BY DEF AfterDrop
<1> HIDE DEF pc, q
<1>6. /\ x \in ThreadRec /\ x.pc = pc /\ x.q = q /\ x.msg = thr[t].msg
      /\ x.nq = thr[t].nq /\ x.new = None /\ x.dq = None /\ x.rel = thr[t].rel
      /\ x.out = thr[t].out /\ x.ret = thr[t].ret
  BY <1>1, <1>4 DEF ThreadRec
<1> HIDE DEF x
<1>7. Now(t, pc, q, thr[t].msg, None, None, None, None, NoMsg, "-")
  BY <1>2, <1>3, <1>6, Moves DEF Now
<1>8. At(thr'[t]) = pc /\ thr'[t].pc = pc /\ pc \in {"handle", "pop"}
  BY <1>5, <1>7 DEF Now, At
<1>9. ThreadOK(thr'[t]) /\ (t \in External <=> At(thr'[t]) = "outside")
  BY <1>1, <1>2, <1>5, <1>7, <1>8 DEF Now, ThreadOK
<1>10. Busy(thr'[t]) => Busy(thr[t]) /\ thr'[t].q = thr[t].q
  BY <1>2, <1>5, <1>7 DEF Now, Busy
<1>11. \A z \in Service : RefOf(thr'[t], z) = RefOf(thr[t], z)
  BY <1>2, <1>5, <1>7 DEF Now, RefOf, Busy
<1>12. Hand(t, s) /\ \A z \in Service : Hand(t, z)' <=> Hand(t, z) /\ z # s
  BY <1>1, <1>2, <1>5, <1>7 DEF Now, Hand
<1> QED BY <1>2, <1>7, <1>8, <1>9, <1>10, <1>11, <1>12 DEF Now

\* skynet_mq_release of a queue that is not marked yet.
LEMMA MqReleaseStep ==
    ASSUME ServerInv, NEW t \in Thread, MqRelease(t), ~mq[thr[t].dq].release
    PROVE  ServerInv'
<1>1. /\ thr[t].pc = "mqrelease" /\ thr[t] \in ThreadRec /\ ThreadOK(thr[t])
      /\ EndDrop(t) /\ UNCHANGED <<slot, ctx, mq, quit, st>>
  BY ThreadFacts DEF MqRelease
<1>2. PICK s \in Service : s = thr[t].dq
  BY <1>1 DEF ThreadOK, At, ThreadRec
<1>3. /\ thr' \in [Thread -> ThreadRec] /\ \A u \in Thread : u # t => thr'[u] = thr[u]
      /\ ThreadOK(thr'[t]) /\ (t \in External <=> At(thr'[t]) = "outside")
      /\ thr'[t].pc \in {"handle", "pop"} /\ At(thr'[t]) = thr'[t].pc
      /\ At(thr[t]) \in {"mqrelease", "drop"}
      /\ \A z \in Service : /\ RefOf(thr'[t], z) = RefOf(thr[t], z)
                            /\ Hand(t, z)' <=> Hand(t, z) /\ z # s
      /\ thr'[t].q # None => thr'[t].q \notin {thr'[t].nq, thr'[t].new}
      /\ thr'[t].nq # None => thr'[t].nq # thr'[t].new
      /\ Busy(thr'[t]) => Busy(thr[t]) /\ thr'[t].q = thr[t].q
      /\ Hand(t, s)
  BY <1>1, <1>2, EndDropIs
<1>4. /\ gq \in Seq(Service) /\ IsInjective(gq) /\ s \notin Range(gq)
      /\ \A z \in Service : ~(z \in Range(gq) /\ Hand(t, z))
      /\ gq' = Append(gq, s)
  BY <1>2, <1>3 DEF ServerInv, Types, PlaceInv, MqRelease, skynet_globalmq_push
<1>5. gq' \in Seq(Service) /\ IsInjective(gq') /\ Range(gq') = Range(gq) \cup {s}
  BY <1>4, Join
<1>6. \A z \in Service :
          /\ RefOf(thr'[t], z) = RefOf(thr[t], z)
          /\ (z \in Range(gq') \/ Hand(t, z)') <=> (z \in Range(gq) \/ Hand(t, z))
          /\ ~(z \in Range(gq') /\ Hand(t, z)')
  BY <1>3, <1>4, <1>5
<1> QED BY <1>1, <1>3, <1>5, <1>6, Carried

\* A marked queue is empty and freed.
LEMMA DropEmptyStep ==
    ASSUME ServerInv, NEW t \in Thread, DropQueue(t), RingIsEmpty(mq[thr[t].dq].ring)
    PROVE  ServerInv'
<1>1. /\ thr[t].pc = "drop" /\ thr[t] \in ThreadRec /\ ThreadOK(thr[t])
      /\ EndDrop(t) /\ UNCHANGED <<slot, gq, quit, ctx, st>>
  BY ThreadFacts DEF DropQueue
<1>2. PICK s \in Service : s = thr[t].dq
  BY <1>1 DEF ThreadOK, At, ThreadRec
<1>3. /\ thr' \in [Thread -> ThreadRec] /\ \A u \in Thread : u # t => thr'[u] = thr[u]
      /\ ThreadOK(thr'[t]) /\ (t \in External <=> At(thr'[t]) = "outside")
      /\ thr'[t].pc \in {"handle", "pop"} /\ At(thr'[t]) = thr'[t].pc
      /\ At(thr[t]) \in {"mqrelease", "drop"}
      /\ \A z \in Service : /\ RefOf(thr'[t], z) = RefOf(thr[t], z)
                            /\ Hand(t, z)' <=> Hand(t, z) /\ z # s
      /\ thr'[t].q # None => thr'[t].q \notin {thr'[t].nq, thr'[t].new}
      /\ thr'[t].nq # None => thr'[t].nq # thr'[t].new
      /\ Busy(thr'[t]) => Busy(thr[t]) /\ thr'[t].q = thr[t].q
      /\ Hand(t, s)
  BY <1>1, <1>2, EndDropIs
<1>4. mq[s].release /\ ctx[s].life = "freed" /\ mq[s].life = "live" /\ RingIsEmpty(mq[s].ring)
  <2>1. At(thr[t]) = "drop"
    BY <1>1 DEF At
  <2>2. mq[s].release /\ ctx[s].life = "freed"
    BY <1>2, <2>1 DEF ServerInv, Lives
  <2>3. Placed(s)
    BY <1>3 DEF ServerInv, PlaceInv
  <2> QED BY <1>2, <2>2, <2>3 DEF Placed
<1>5. MqNow(s, mq[s].ring, FALSE, mq[s].release, "freed")
  <2> DEFINE x == [mq[s] EXCEPT !.in_global = FALSE, !.life = "freed"]
  <2>1. mq' = [mq EXCEPT ![s] = x]
    BY <1>2 DEF DropQueue
  <2>2. mq[s] \in MqRec
    BY DEF ServerInv, Types
  <2>3. /\ x \in MqRec /\ x.ring = mq[s].ring /\ x.in_global = FALSE
        /\ x.release = mq[s].release /\ x.life = "freed"
    BY <2>2 DEF MqRec, Life
  <2> HIDE DEF x
  <2> QED BY <2>1, <2>3, MqMoves DEF MqNow
<1>6. PlaceInv'
  <2>1. /\ IsInjective(gq') /\ Range(gq') = Range(gq) /\ s \notin Range(gq)
        /\ \A z \in Service : ~(z \in Range(gq) /\ Hand(t, z))
    BY <1>1, <1>3 DEF ServerInv, PlaceInv
  <2>2. ~Placed(s)'
    BY <1>5 DEF Placed, MqNow
  <2>3. \A z \in Service :
              /\ (z \in Range(gq') \/ Hand(t, z)') <=>
                    (z \in Range(gq) \/ Hand(t, z) \/ z \in {}) /\ z \notin {s}
              /\ ~(z \in Range(gq') /\ Hand(t, z)')
              /\ z \in {} => ~Placed(z) /\ Placed(z)'
              /\ z \in {s} => (z \in Range(gq) \/ Hand(t, z)) /\ ~Placed(z)'
    BY <1>3, <2>1, <2>2
  <2>4. \A z \in Service :
              /\ z \notin {} /\ z \notin {s} => (Placed(z)' <=> Placed(z))
              /\ mq'[z].life = "live" /\ ~mq'[z].in_global /\ ~mq'[z].release
                    => RingIsEmpty(mq'[z].ring)
    BY <1>5 DEF Placed, MqNow, ServerInv, PlaceInv
  <2> QED BY <1>3, <2>1, <2>3, <2>4, PlaceStep DEF ServerInv
<1>7. Lives'
  <2>1. \A z \in Service :
          /\ ctx'[z].ref > 0 => ctx'[z].life = "live"
          /\ mq'[z].release <=> ctx'[z].life = "freed"
          /\ mq'[z].life = "none" <=> ctx'[z].life = "none"
          /\ mq'[z].life = "freed" => ctx'[z].life = "freed"
          /\ mq'[z].life # "live" => RingIsEmpty(mq'[z].ring)
    BY <1>1, <1>4, <1>5 DEF ServerInv, Lives, MqNow
  <2>2. \A u \in Thread : thr'[u].pc = "delete" =>
          ctx'[thr'[u].rel].ref = 0 /\ ctx'[thr'[u].rel].life = "live"
    BY <1>1, <1>3 DEF ServerInv, Lives
  <2>3. \A u, v \in Thread :
          thr'[u].pc = "delete" /\ thr'[v].pc = "delete" /\ thr'[u].rel = thr'[v].rel => u = v
    BY <1>3 DEF ServerInv, Lives
  <2>4. ASSUME NEW u \in Thread, At(thr'[u]) = "drop" PROVE mq'[thr'[u].dq].release
    <3>1. At(thr[u]) = "drop" /\ thr'[u].dq = thr[u].dq
      BY <1>3, <2>4
    <3>2. thr[u].dq \in Service /\ mq[thr[u].dq].release
      BY <3>1, ThreadFacts DEF ThreadRec, ThreadOK, ServerInv, Lives
    <3> QED BY <1>5, <3>1, <3>2 DEF MqNow
  <2> QED BY <2>1, <2>2, <2>3, <2>4 DEF Lives
<1>8. /\ slot' = slot /\ ctx' = ctx /\ ctx' \in [Service -> CtxRec] /\ mq' \in [Service -> MqRec]
      /\ quit' \in BOOLEAN /\ st' \in [Id -> StRec] /\ gq' \in Seq(Service)
  BY <1>1, <1>5 DEF MqNow, ServerInv, Types
<1> QED BY <1>3, <1>6, <1>7, <1>8, Assemble

\* A message of a marked queue is dropped, and its source told.
LEMMA DropMessageStep ==
    ASSUME ServerInv, NEW t \in Thread, DropQueue(t), ~RingIsEmpty(mq[thr[t].dq].ring)
    PROVE  ServerInv'
<1>1. /\ thr[t].pc = "drop" /\ thr[t] \in ThreadRec /\ ThreadOK(thr[t])
      /\ UNCHANGED <<slot, gq, quit>>
  BY ThreadFacts DEF DropQueue
<1>2. PICK s \in Service : s = thr[t].dq
  BY <1>1 DEF ThreadOK, At, ThreadRec
<1>3. mq[s] \in MqRec /\ mq[s].ring \in Rings /\ st \in [Id -> StRec]
  BY DEF ServerInv, Types, MqRec
<1>4. ~RingIsEmpty(mq[s].ring) /\ RingPop(mq[s].ring) \in Rings /\ RingHead(mq[s].ring) \in Message
  BY <1>2, <1>3, PopOK
<1>5. PICK m \in Message : m = RingHead(mq[s].ring)
  BY <1>4
<1> DEFINE e == [id |-> m.id, src |-> s, type |-> "error"]
<1>6. e \in Message /\ m.src \in Service \cup {None} /\ m.id \in Id
  BY DEF Message
<1>7. skynet_context_push(t, m.src, e, thr[t].pc)
  <2>1. drop_message(t, s, m)
    BY <1>2, <1>4, <1>5 DEF DropQueue
  <2> QED BY <1>1, <2>1 DEF drop_message
<1>8. st' \in [Id -> StRec]
  <2> DEFINE y == [st[m.id] EXCEPT !.is = "dropped"]
  <2>1. st' = IF m.type = "request" THEN [st EXCEPT ![m.id] = y] ELSE st
    BY <1>2, <1>4, <1>5 DEF DropQueue
  <2>2. st[m.id] \in StRec
    BY <1>3, <1>6
  <2>3. y \in StRec
    BY <2>2 DEF StRec
  <2> HIDE DEF y
  <2> QED BY <1>3, <1>6, <2>1, <2>3
<1>9. MqNow(s, RingPop(mq[s].ring), mq[s].in_global, mq[s].release, mq[s].life)
  <2> DEFINE p == RingPop(mq[s].ring)
             x == [mq[s] EXCEPT !.ring = p]
  <2>1. mq' = [mq EXCEPT ![s] = x]
    BY <1>2, <1>4 DEF DropQueue
  <2>2. p \in Rings
    BY <1>4
  <2> HIDE DEF p
  <2>3. /\ x \in MqRec /\ x.ring = p /\ x.in_global = mq[s].in_global
        /\ x.release = mq[s].release /\ x.life = mq[s].life
    BY <1>3, <2>2 DEF MqRec
  <2> HIDE DEF x
  <2> QED BY <2>1, <2>3, MqMoves DEF MqNow, p
<1>10. mq[s].life = "live"
  BY <1>4 DEF ServerInv, Lives
<1>11. /\ mq' \in [Service -> MqRec]
       /\ \A z \in Service :
              /\ mq'[z].life = mq[z].life /\ (mq'[z].in_global <=> mq[z].in_global)
              /\ (mq'[z].release <=> mq[z].release)
              /\ mq'[z].ring # mq[z].ring => mq[z].life = "live" /\ ~RingIsEmpty(mq[z].ring)
  BY <1>4, <1>9, <1>10 DEF MqNow
<1> HIDE DEF e
<1> QED BY <1>1, <1>6, <1>7, <1>8, <1>11, ContextPushStep

\* skynet_mq_pop of an empty queue: it leaves the hands of the thread.
LEMMA MqPopEmptyStep ==
    ASSUME ServerInv, NEW t \in Thread, MqPop(t), RingIsEmpty(mq[thr[t].q].ring)
    PROVE  ServerInv'
<1>1. /\ thr[t].pc = "mqpop" /\ thr[t] \in ThreadRec /\ ThreadOK(thr[t])
      /\ t \in External <=> At(thr[t]) = "outside"
      /\ UNCHANGED <<slot, ctx, gq, quit, st>>
  BY ThreadFacts DEF MqPop
<1>2. PICK s \in Service : s = thr[t].q
  BY <1>1 DEF ThreadOK, At, ThreadRec
<1>3. /\ thr[t].msg = NoMsg /\ thr[t].nq = None /\ thr[t].new = None /\ thr[t].dq = None
      /\ thr[t].rel = None /\ thr[t].ret = "-" /\ At(thr[t]) = "mqpop"
  BY <1>1 DEF ThreadOK, At
<1>4. Now(t, "release", None, NoMsg, None, None, None, s, NoMsg, "pop")
  <2> DEFINE y == ReleaseThen(t, s, "pop")
             w == [y EXCEPT !.q = None]
             x == [w EXCEPT !.i = 0, !.n = 0]
  <2>1. "pop" \in Pc
    BY DEF Pc
  <2>2. thr' = [thr EXCEPT ![t] = [y EXCEPT !.q = None, !.i = 0, !.n = 0]]
    BY <1>2 DEF MqPop
  <2>3. [y EXCEPT !.q = None, !.i = 0, !.n = 0] = x
    OBVIOUS
  <2>4. /\ y \in ThreadRec /\ y.pc = "release" /\ y.msg = NoMsg /\ y.nq = None
        /\ y.new = None /\ y.dq = None /\ y.rel = s /\ y.out = NoMsg /\ y.ret = "pop"
    BY <1>1, <1>3, <2>1, ReleaseThenIs
  <2> HIDE DEF y
  <2>5. /\ w \in ThreadRec /\ w.pc = "release" /\ w.q = None /\ w.msg = NoMsg /\ w.nq = None
        /\ w.new = None /\ w.dq = None /\ w.rel = s /\ w.out = NoMsg /\ w.ret = "pop"
    BY <2>4 DEF ThreadRec
  <2> HIDE DEF w
  <2>6. /\ x \in ThreadRec /\ x.pc = "release" /\ x.q = None /\ x.msg = NoMsg /\ x.nq = None
        /\ x.new = None /\ x.dq = None /\ x.rel = s /\ x.out = NoMsg /\ x.ret = "pop"
    BY <2>5, CountersReset
  <2>7. thr' = [thr EXCEPT ![t] = x]
    BY <2>2, <2>3
  <2> HIDE DEF x
  <2> QED BY <2>6, <2>7, Moves DEF Now
<1>5. MqNow(s, mq[s].ring, FALSE, mq[s].release, mq[s].life)
  <2> DEFINE x == [mq[s] EXCEPT !.in_global = FALSE]
  <2>1. mq' = [mq EXCEPT ![s] = x]
    BY <1>2 DEF MqPop, LeavesGlobal
  <2>2. mq[s] \in MqRec
    BY DEF ServerInv, Types
  <2>3. /\ x \in MqRec /\ x.ring = mq[s].ring /\ x.in_global = FALSE
        /\ x.release = mq[s].release /\ x.life = mq[s].life
    BY <2>2 DEF MqRec
  <2> HIDE DEF x
  <2> QED BY <2>1, <2>3, MqMoves DEF MqNow
<1>6. ThreadOK(thr'[t]) /\ At(thr'[t]) = "pop" /\ ~Busy(thr'[t])
  BY <1>4 DEF Now, ThreadOK, At, Busy
<1>7. RefOf(thr[t], s) = 1 /\ \A z \in Service : RefOf(thr'[t], z) = RefOf(thr[t], z)
  BY <1>1, <1>2, <1>3, <1>4 DEF Now, RefOf, Busy
<1>8. mq[s].life = "live" /\ ~mq[s].release
  BY <1>7, HeldLive
<1>9. \A z \in Service : /\ Hand(t, z) <=> z = s
                         /\ ~Hand(t, z)'
  BY <1>2, <1>3, <1>4 DEF Now, Hand
<1>10. /\ thr'[t].q # None => thr'[t].q \notin {thr'[t].nq, thr'[t].new}
       /\ thr'[t].nq # None => thr'[t].nq # thr'[t].new
       /\ thr' \in [Thread -> ThreadRec] /\ \A u \in Thread : u # t => thr'[u] = thr[u]
       /\ thr'[t].pc # "length" /\ thr'[t].pc # "delete"
  BY <1>4 DEF Now
<1>11. PlaceInv'
  <2>1. /\ IsInjective(gq') /\ Range(gq') = Range(gq) /\ s \notin Range(gq)
        /\ \A z \in Service : ~(z \in Range(gq) /\ Hand(t, z))
    BY <1>1, <1>9 DEF ServerInv, PlaceInv
  <2>2. ~Placed(s)'
    BY <1>5, <1>8 DEF Placed, MqNow
  <2>3. \A z \in Service :
              /\ (z \in Range(gq') \/ Hand(t, z)') <=>
                    (z \in Range(gq) \/ Hand(t, z) \/ z \in {}) /\ z \notin {s}
              /\ ~(z \in Range(gq') /\ Hand(t, z)')
              /\ z \in {} => ~Placed(z) /\ Placed(z)'
              /\ z \in {s} => (z \in Range(gq) \/ Hand(t, z)) /\ ~Placed(z)'
    BY <1>9, <2>1, <2>2
  <2>4. \A z \in Service :
              /\ z \notin {} /\ z \notin {s} => (Placed(z)' <=> Placed(z))
              /\ mq'[z].life = "live" /\ ~mq'[z].in_global /\ ~mq'[z].release
                    => RingIsEmpty(mq'[z].ring)
    BY <1>2, <1>5 DEF Placed, MqNow, ServerInv, PlaceInv
  <2> QED BY <1>10, <2>1, <2>3, <2>4, PlaceStep DEF ServerInv
<1>12. Lives'
  <2>1. \A z \in Service : /\ ctx'[z].life = ctx[z].life /\ (mq'[z].release <=> mq[z].release)
                           /\ mq'[z].life = mq[z].life
                           /\ mq[z].life # "live" => mq'[z].ring = mq[z].ring
                           /\ ctx[z].ref = 0 => ctx'[z].ref = 0
                           /\ ctx'[z].ref > 0 => ctx[z].life = "live"
    BY <1>1, <1>5 DEF MqNow, ServerInv, Lives
  <2> QED BY <1>6, <1>10, <2>1, LivesKept
<1>13. /\ slot' = slot /\ ctx' = ctx /\ ctx' \in [Service -> CtxRec] /\ mq' \in [Service -> MqRec]
       /\ quit' \in BOOLEAN /\ st' \in [Id -> StRec] /\ gq' \in Seq(Service)
  BY <1>1, <1>5 DEF MqNow, ServerInv, Types
<1> QED BY <1>1, <1>3, <1>6, <1>7, <1>10, <1>11, <1>12, <1>13, Assemble

\* skynet_mq_pop of a message.
LEMMA MqPopStep ==
    ASSUME ServerInv, NEW t \in Thread, MqPop(t), ~RingIsEmpty(mq[thr[t].q].ring)
    PROVE  ServerInv'
<1>1. /\ thr[t].pc = "mqpop" /\ thr[t] \in ThreadRec /\ ThreadOK(thr[t])
      /\ t \in External <=> At(thr[t]) = "outside"
      /\ UNCHANGED <<slot, ctx, gq, quit>>
  BY ThreadFacts DEF MqPop
<1>2. PICK s \in Service : s = thr[t].q
  BY <1>1 DEF ThreadOK, At, ThreadRec
<1>3. mq[s] \in MqRec /\ mq[s].ring \in Rings /\ st \in [Id -> StRec]
  BY DEF ServerInv, Types, MqRec
<1>4. ~RingIsEmpty(mq[s].ring) /\ RingPop(mq[s].ring) \in Rings /\ RingHead(mq[s].ring) \in Message
  BY <1>2, <1>3, PopOK
<1>5. PICK m \in Message : m = RingHead(mq[s].ring)
  BY <1>4
<1>6. PICK pc \in {"length", "handle"} :
         pc = IF thr[t].i = 0 /\ Weight[t] >= 0 THEN "length" ELSE "handle"
  OBVIOUS
<1>7. pc = "length" => Weight[t] \in 0 .. 3
  <2>1. t \in Worker
    BY <1>1 DEF Thread, At
  <2>2. Weight[t] \in -1 .. 3
    BY <2>1, WeightAssumption
  <2> QED BY <1>6, <2>2
<1>8. m # NoMsg /\ m.id \in Id
  BY DEF Message
<1>9. Now(t, pc, s, m, thr[t].nq, thr[t].new, thr[t].dq, thr[t].rel, thr[t].out, thr[t].ret)
  <2> DEFINE x == [thr[t] EXCEPT !.msg = m, !.pc = pc]
  <2>1. pc \in Pc
    BY DEF Pc
  <2>2. thr' = [thr EXCEPT ![t] = x]
    BY <1>2, <1>4, <1>5, <1>6 DEF MqPop
  <2>3. /\ x \in ThreadRec /\ x.pc = pc /\ x.q = thr[t].q /\ x.msg = m /\ x.nq = thr[t].nq
        /\ x.new = thr[t].new /\ x.dq = thr[t].dq /\ x.rel = thr[t].rel /\ x.out = thr[t].out
        /\ x.ret = thr[t].ret
    BY <1>1, <2>1 DEF ThreadRec
  <2> HIDE DEF x
  <2> QED BY <1>2, <2>2, <2>3, Moves DEF Now
<1>10. st' \in [Id -> StRec]
  <2> DEFINE y == [st[m.id] EXCEPT !.is = IF m.type = "request" THEN "handled" ELSE "answered"]
  <2>1. st' = [st EXCEPT ![m.id] = y]
    BY <1>2, <1>4, <1>5 DEF MqPop
  <2>2. st[m.id] \in StRec
    BY <1>3, <1>8
  <2>3. y \in StRec
    BY <2>2 DEF StRec
  <2> HIDE DEF y
  <2> QED BY <1>3, <1>8, <2>1, <2>3
<1>11. MqNow(s, RingPop(mq[s].ring), mq[s].in_global, mq[s].release, mq[s].life)
  <2> DEFINE p == RingPop(mq[s].ring)
             x == [mq[s] EXCEPT !.ring = p]
  <2>1. mq' = [mq EXCEPT ![s] = x]
    BY <1>2, <1>4 DEF MqPop
  <2>2. p \in Rings
    BY <1>4
  <2> HIDE DEF p
  <2>3. /\ x \in MqRec /\ x.ring = p /\ x.in_global = mq[s].in_global
        /\ x.release = mq[s].release /\ x.life = mq[s].life
    BY <1>3, <2>2 DEF MqRec
  <2> HIDE DEF x
  <2> QED BY <2>1, <2>3, MqMoves DEF MqNow, p
<1>12. /\ ThreadOK(thr'[t]) /\ At(thr'[t]) = pc /\ At(thr[t]) = "mqpop"
       /\ Busy(thr'[t]) /\ Busy(thr[t]) /\ thr'[t].q = thr[t].q
       /\ thr'[t].nq = thr[t].nq /\ thr'[t].new = thr[t].new
       /\ \A z \in Service : RefOf(thr'[t], z) = RefOf(thr[t], z)
  <2>1. At(thr'[t]) = pc /\ At(thr[t]) = "mqpop" /\ thr[t].msg = NoMsg
    BY <1>1, <1>9 DEF Now, At, ThreadOK
  <2>2. ThreadOK(thr'[t])
    BY <1>1, <1>2, <1>8, <1>9, <2>1 DEF Now, ThreadOK
  <2> QED BY <1>1, <1>2, <1>9, <2>1, <2>2 DEF Now, Busy, RefOf
<1>13. mq[s].life = "live" /\ Placed(s) /\ ~mq[s].release
  <2>1. RefOf(thr[t], s) # 0 /\ Hand(t, s)
    BY <1>1, <1>2 DEF RefOf, Busy, Hand
  <2>2. mq[s].life = "live" /\ ~mq[s].release
    BY <2>1, HeldLive
  <2> QED BY <2>1, <2>2 DEF ServerInv, PlaceInv
<1>14. PlaceInv'
  <2>1. \A z \in Service : /\ (Placed(z)' <=> Placed(z))
                           /\ mq'[z].life = "live" /\ ~mq'[z].in_global /\ ~mq'[z].release
                                 => RingIsEmpty(mq'[z].ring)
    BY <1>11, <1>13 DEF MqNow, Placed, ServerInv, PlaceInv
  <2>2. \A u \in Thread : u # t => thr'[u] = thr[u]
    BY <1>9 DEF Now
  <2> QED BY <1>1, <1>12, <2>1, <2>2, PlacesKept DEF ServerInv
<1>15. Lives'
  <2>1. \A z \in Service : /\ ctx'[z].life = ctx[z].life /\ (mq'[z].release <=> mq[z].release)
                           /\ mq'[z].life = mq[z].life
                           /\ mq[z].life # "live" => mq'[z].ring = mq[z].ring
                           /\ ctx[z].ref = 0 => ctx'[z].ref = 0
                           /\ ctx'[z].ref > 0 => ctx[z].life = "live"
    BY <1>1, <1>11, <1>13 DEF MqNow, ServerInv, Lives
  <2>2. thr'[t].pc # "delete" /\ \A u \in Thread : u # t => thr'[u] = thr[u]
    BY <1>9 DEF Now
  <2> QED BY <1>12, <2>1, <2>2, LivesKept
<1>16. /\ slot' = slot /\ ctx' = ctx /\ ctx' \in [Service -> CtxRec] /\ mq' \in [Service -> MqRec]
       /\ quit' \in BOOLEAN /\ gq' \in Seq(Service)
       /\ thr' \in [Thread -> ThreadRec] /\ \A u \in Thread : u # t => thr'[u] = thr[u]
       /\ thr'[t].pc = pc
  BY <1>1, <1>9, <1>11 DEF MqNow, Now, ServerInv, Types
<1> QED BY <1>1, <1>7, <1>10, <1>12, <1>14, <1>15, <1>16, Assemble

\* skynet_context_new: a service that did not exist is launched.
LEMMA LaunchStep ==
    ASSUME ServerInv, NEW t \in Thread, NEW s \in Service, Launch(t, s)
    PROVE  ServerInv'
<1>1. /\ thr[t].pc = "handle" /\ thr[t] \in ThreadRec /\ ThreadOK(thr[t])
      /\ t \in External <=> At(thr[t]) = "outside"
      /\ slot' = slot \cup {s} /\ UNCHANGED <<gq, quit, st>> /\ ctx[s].life = "none"
  BY ThreadFacts DEF Launch
<1>2. /\ thr[t].msg # NoMsg /\ thr[t].nq = None /\ thr[t].new = None /\ thr[t].dq = None
      /\ thr[t].rel = None /\ thr[t].ret = "-" /\ thr[t].out = NoMsg /\ At(thr[t]) = "handle"
      /\ thr[t].q \in Service
  BY <1>1 DEF ThreadOK, At, ThreadRec
<1>3. /\ ctx[s].ref = 0 /\ s \notin slot /\ mq[s].life = "none" /\ ~mq[s].release
      /\ \A u \in Thread : RefOf(thr[u], s) = 0
  <2>1. ctx[s].ref = 0 /\ mq[s].life = "none" /\ ~mq[s].release
    BY <1>1 DEF ServerInv, Lives, Types, CtxRec, MqRec, Life
  <2>2. s \notin slot
    BY <2>1, SlotLive
  <2>3. \A u \in Thread : RefOf(thr[u], s) = 0
    BY <1>1, HeldLive
  <2> QED BY <2>1, <2>2, <2>3
<1>4. ~Placed(s) /\ s \notin Range(gq) /\ \A u \in Thread : ~Hand(u, s)
  <2>1. ~Placed(s)
    BY <1>3 DEF Placed
  <2> QED BY <2>1 DEF ServerInv, PlaceInv
<1>5. Now(t, "init", thr[t].q, thr[t].msg, None, s, None, None, NoMsg, "-")
  <2> DEFINE x == [thr[t] EXCEPT !.pc = "init", !.new = s]
  <2>1. "init" \in Pc
    BY DEF Pc
  <2>2. thr' = [thr EXCEPT ![t] = x]
    BY DEF Launch
  <2>3. /\ x \in ThreadRec /\ x.pc = "init" /\ x.q = thr[t].q /\ x.msg = thr[t].msg
        /\ x.nq = thr[t].nq /\ x.new = s /\ x.dq = thr[t].dq /\ x.rel = thr[t].rel
        /\ x.out = thr[t].out /\ x.ret = thr[t].ret
    BY <1>1, <2>1 DEF ThreadRec
  <2> HIDE DEF x
  <2> QED BY <1>2, <2>2, <2>3, Moves DEF Now
<1>6. CtxNow(s, 2, FALSE, "live")
  <2>1. /\ NewCtx \in CtxRec /\ NewCtx.ref = 2 /\ NewCtx.init = FALSE /\ NewCtx.life = "live"
    BY DEF NewCtx, NoCtx, CtxRec, Life
  <2>2. ctx' = [ctx EXCEPT ![s] = NewCtx]
    BY DEF Launch
  <2> QED BY <2>1, <2>2, CtxMoves DEF CtxNow
<1>7. MqNow(s, EmptyRing, TRUE, FALSE, "live")
  <2>1. EmptyRing \in Rings
    BY EmptyRingOK
  <2>2. /\ NewMq \in MqRec /\ NewMq.ring = EmptyRing /\ NewMq.in_global = TRUE
        /\ NewMq.release = FALSE /\ NewMq.life = "live"
    BY <2>1 DEF NewMq, NoMq, MqRec, Life
  <2>3. mq' = [mq EXCEPT ![s] = NewMq]
    BY DEF Launch
  <2> QED BY <2>2, <2>3, MqMoves DEF MqNow
<1>8. ThreadOK(thr'[t]) /\ At(thr'[t]) = "init" /\ thr'[t].q = thr[t].q
  BY <1>1, <1>2, <1>5 DEF Now, ThreadOK, At
<1>9. /\ thr[t].q # s
      /\ \A z \in Service : Hand(t, z)' <=> (Hand(t, z) \/ z = s)
  BY <1>2, <1>4, <1>5 DEF Now, Hand
<1>10. Types'
  BY <1>1, <1>5, <1>6, <1>7 DEF ServerInv, Types, Now, CtxNow, MqNow
<1>11. Threads'
  BY <1>1, <1>2, <1>5, <1>8 DEF ServerInv, Threads, Now
<1>12. Refs'
  <2>1. \A z \in Service : RefOf(thr'[t], z) = RefOf(thr[t], z) + (IF z = s THEN 1 ELSE 0)
    BY <1>1, <1>2, <1>5 DEF Now, RefOf, Busy
  <2>2. \A z \in Service : RefOf(thr[t], z) \in Int
    BY DEF RefOf
  <2>3. \A z \in Service : /\ ctx[z].ref \in Int /\ ctx'[z].ref \in Int
                           /\ ctx'[z].ref = IF z = s THEN 2 ELSE ctx[z].ref
                           /\ z \in slot' <=> z \in slot \/ z = s
    BY <1>1, <1>6 DEF ServerInv, Types, CtxRec, CtxNow
  <2>4. \A z \in Service :
            ctx'[z].ref - (IF z \in slot' THEN 1 ELSE 0) - RefOf(thr'[t], z)
                = ctx[z].ref - (IF z \in slot THEN 1 ELSE 0) - RefOf(thr[t], z)
    BY <1>3, <2>1, <2>2, <2>3
  <2>5. \A u \in Thread : u # t => thr'[u] = thr[u]
    BY <1>5 DEF Now
  <2> QED BY <2>3, <2>4, <2>5, RefsStep DEF ServerInv
<1>13. Lives'
  <2>1. \A z \in Service :
          /\ ctx'[z].ref > 0 => ctx'[z].life = "live"
          /\ mq'[z].release <=> ctx'[z].life = "freed"
          /\ mq'[z].life = "none" <=> ctx'[z].life = "none"
          /\ mq'[z].life = "freed" => ctx'[z].life = "freed"
          /\ mq'[z].life # "live" => RingIsEmpty(mq'[z].ring)
    BY <1>6, <1>7 DEF ServerInv, Lives, MqNow, CtxNow
  <2>2. ASSUME NEW u \in Thread, thr'[u].pc = "delete"
        PROVE  ctx'[thr'[u].rel].ref = 0 /\ ctx'[thr'[u].rel].life = "live"
    <3>1. u # t /\ thr'[u] = thr[u]
      BY <1>5, <2>2 DEF Now
    <3>2. thr[u].rel \in Service
      BY <2>2, <3>1, ThreadFacts DEF ThreadRec, ThreadOK
    <3>3. ctx[thr[u].rel].ref = 0 /\ ctx[thr[u].rel].life = "live"
      BY <2>2, <3>1 DEF ServerInv, Lives
    <3> QED BY <1>1, <1>6, <3>1, <3>2, <3>3 DEF CtxNow
  <2>3. \A u, v \in Thread :
          thr'[u].pc = "delete" /\ thr'[v].pc = "delete" /\ thr'[u].rel = thr'[v].rel => u = v
    BY <1>5 DEF ServerInv, Lives, Now
  <2>4. ASSUME NEW u \in Thread, At(thr'[u]) = "drop" PROVE mq'[thr'[u].dq].release
    <3>1. At(thr[u]) = "drop" /\ thr'[u].dq = thr[u].dq
      BY <1>5, <1>8, <2>4 DEF Now
    <3>2. thr[u].dq \in Service /\ mq[thr[u].dq].release
      BY <3>1, ThreadFacts DEF ThreadRec, ThreadOK, ServerInv, Lives
    <3> QED BY <1>3, <1>7, <3>1, <3>2 DEF MqNow
  <2> QED BY <2>1, <2>2, <2>3, <2>4 DEF Lives
<1>14. PlaceInv'
  <2>1. /\ IsInjective(gq') /\ Range(gq') = Range(gq)
        /\ \A z \in Service : ~(z \in Range(gq) /\ Hand(t, z))
    BY <1>1 DEF ServerInv, PlaceInv
  <2>2. Placed(s)'
    BY <1>7 DEF Placed, MqNow
  <2>3. \A z \in Service :
              /\ (z \in Range(gq') \/ Hand(t, z)') <=>
                    (z \in Range(gq) \/ Hand(t, z) \/ z \in {s}) /\ z \notin {}
              /\ ~(z \in Range(gq') /\ Hand(t, z)')
              /\ z \in {s} => ~Placed(z) /\ Placed(z)'
              /\ z \in {} => (z \in Range(gq) \/ Hand(t, z)) /\ ~Placed(z)'
    BY <1>4, <1>9, <2>1, <2>2
  <2>4. \A z \in Service :
              /\ z \notin {s} /\ z \notin {} => (Placed(z)' <=> Placed(z))
              /\ mq'[z].life = "live" /\ ~mq'[z].in_global /\ ~mq'[z].release
                    => RingIsEmpty(mq'[z].ring)
    BY <1>7 DEF Placed, MqNow, ServerInv, PlaceInv
  <2>5. /\ thr'[t].q # None => thr'[t].q \notin {thr'[t].nq, thr'[t].new}
        /\ thr'[t].nq # None => thr'[t].nq # thr'[t].new
        /\ \A u \in Thread : u # t => thr'[u] = thr[u]
    BY <1>2, <1>5, <1>9 DEF Now
  <2> QED BY <2>1, <2>3, <2>4, <2>5, PlaceStep DEF ServerInv
<1>15. InitInv'
  <2>1. ASSUME NEW z \in slot'
        PROVE  ctx'[z].init \/ \E u \in Thread : /\ thr'[u].new = z
                                                 /\ At(thr'[u]) \in {"init", "setinit", "retire"}
    <3>1. CASE z = s
      BY <1>5, <1>8, <3>1 DEF Now
    <3>2. CASE z # s
      <4>1. z \in slot /\ z \in Service
        BY <1>1, <3>2 DEF ServerInv, Types
      <4>2. ctx'[z].init <=> ctx[z].init
        BY <1>6, <3>2, <4>1 DEF CtxNow
      <4>3. \A u \in Thread : At(thr[u]) \in {"init", "setinit", "retire"} => thr'[u] = thr[u]
        BY <1>2, <1>5 DEF Now
      <4> QED BY <4>1, <4>2, <4>3 DEF ServerInv, InitInv
    <3> QED BY <3>1, <3>2
  <2>2. ASSUME NEW u \in Thread, InRound(u)' PROVE ctx'[thr'[u].q].init
    <3>1. thr'[u].q = thr[u].q /\ Busy(thr[u])
      BY <1>2, <1>5, <2>2 DEF Now, InRound, Busy
    <3>2. thr[u].q \in Service
      BY <3>1, ThreadFacts DEF ThreadRec, ThreadOK, At, Busy
    <3>3. RefOf(thr[u], thr[u].q) # 0
      BY <3>1 DEF RefOf
    <3>4. thr[u].q # s
      BY <1>3, <3>3
    <3>5. ctx[thr[u].q].init
      BY <3>1 DEF ServerInv, InitInv, InRound, Busy
    <3> QED BY <1>6, <3>1, <3>2, <3>4, <3>5 DEF CtxNow
  <2> QED BY <2>1, <2>2 DEF InitInv
<1> QED BY <1>10, <1>11, <1>12, <1>13, <1>14, <1>15 DEF ServerInv

\* Every sleeping worker is told to quit.
LEMMA QuitStep ==
    ASSUME ServerInv, Quit
    PROVE  ServerInv'
<1>1. /\ UNCHANGED <<slot, ctx, mq, gq, st>> /\ quit' = TRUE
      /\ thr' = [t \in Thread |-> IF thr[t].pc = "wait"
                                  THEN [thr[t] EXCEPT !.pc = "top"] ELSE thr[t]]
  BY DEF Quit
<1>2. ASSUME NEW t \in Thread
      PROVE  /\ thr'[t] \in ThreadRec /\ ThreadOK(thr'[t])
             /\ t \in External <=> At(thr'[t]) = "outside"
             /\ thr'[t].q = thr[t].q /\ thr'[t].nq = thr[t].nq /\ thr'[t].new = thr[t].new
             /\ thr'[t].dq = thr[t].dq /\ thr'[t].rel = thr[t].rel /\ thr'[t].msg = thr[t].msg
             /\ thr'[t].ret = thr[t].ret
             /\ thr'[t].pc = IF thr[t].pc = "wait" THEN "top" ELSE thr[t].pc
             /\ At(thr'[t]) = IF thr[t].pc = "wait" THEN "top" ELSE At(thr[t])
  <2>1. thr[t] \in ThreadRec /\ ThreadOK(thr[t]) /\ (t \in External <=> At(thr[t]) = "outside")
    BY ThreadFacts
  <2>2. CASE thr[t].pc # "wait"
    BY <1>1, <2>1, <2>2
  <2>3. CASE thr[t].pc = "wait"
    <3> DEFINE x == [thr[t] EXCEPT !.pc = "top"]
    <3>1. "top" \in Pc
      BY DEF Pc
    <3>2. /\ x \in ThreadRec /\ x.pc = "top" /\ x.q = thr[t].q /\ x.msg = thr[t].msg
          /\ x.nq = thr[t].nq /\ x.new = thr[t].new /\ x.dq = thr[t].dq /\ x.rel = thr[t].rel
          /\ x.out = thr[t].out /\ x.ret = thr[t].ret
      BY <2>1, <3>1 DEF ThreadRec
    <3>3. thr'[t] = x
      BY <1>1, <2>3
    <3> HIDE DEF x
    <3>4. At(x) = "top" /\ ThreadOK(x) /\ At(thr[t]) = "wait"
      BY <2>1, <2>3, <3>2 DEF At, ThreadOK
    <3> QED BY <2>1, <2>3, <3>2, <3>3, <3>4
  <2> QED BY <2>2, <2>3
<1>3. Types'
  <2>1. thr' \in [Thread -> ThreadRec]
    <3>1. DOMAIN thr' = Thread /\ thr' = [t \in Thread |-> thr'[t]]
      BY <1>1
    <3> QED BY <1>2, <3>1
  <2> QED BY <1>1, <2>1 DEF ServerInv, Types
<1>4. Threads'
  BY <1>2 DEF ServerInv, Threads
<1>5. Refs'
  <2>1. \A s \in Service, t \in Thread : Holds(t, s)' = Holds(t, s)
    BY <1>2 DEF Holds, InRound
  <2>2. \A s \in Service : HoldSet(s)' = HoldSet(s)
    BY <2>1 DEF HoldSet
  <2> QED BY <1>1, <2>2 DEF ServerInv, Refs
<1>6. Lives'
  BY <1>1, <1>2 DEF ServerInv, Lives
<1>7. PlaceInv'
  <2>1. \A s \in Service, t \in Thread : Hand(t, s)' <=> Hand(t, s)
    BY <1>2 DEF Hand
  <2>2. \A s \in Service : Placed(s)' <=> Placed(s)
    BY <1>1 DEF Placed
  <2> QED BY <1>1, <1>2, <2>1, <2>2 DEF ServerInv, PlaceInv
<1>8. InitInv'
  <2>1. \A t \in Thread : InRound(t)' <=> InRound(t)
    BY <1>2 DEF InRound
  <2>2. \A t \in Thread : At(thr'[t]) \in {"init", "setinit", "retire"}
                             <=> At(thr[t]) \in {"init", "setinit", "retire"}
    BY <1>2 DEF At
  <2> QED BY <1>1, <1>2, <2>1, <2>2 DEF ServerInv, InitInv
<1> QED BY <1>3, <1>4, <1>5, <1>6, <1>7, <1>8 DEF ServerInv

\* The first services are launched, their queues in the global queue.
LEMMA InitOK ==
    Init => ServerInv
<1> SUFFICES ASSUME Init PROVE ServerInv
  OBVIOUS
<1> DEFINE n == Cardinality(Boot)
<1>1. n \in Nat /\ IsFiniteSet(1 .. n) /\ Cardinality(1 .. n) = n
  BY FS_CardinalityType, FS_Interval
<1>2. gq \in [1 .. n -> Boot] /\ IsInjective(gq)
  BY DEF Init, IsInjective
<1>3. gq \in Seq(Service) /\ Range(gq) = Boot
  <2>1. gq \in Injection(1 .. n, Boot)
    BY <1>2 DEF Injection
  <2>2. gq \in Surjection(1 .. n, Boot)
    BY <1>1, <2>1, FS_Injection
  <2>3. Range(gq) = Boot
    BY <1>2, <2>2 DEF Surjection, Range
  <2>4. gq \in [1 .. n -> Service]
    BY <1>2
  <2> QED BY <1>1, <2>3, <2>4
<1> HIDE DEF n
<1>4. ASSUME NEW t \in Thread
      PROVE  /\ thr[t] \in ThreadRec /\ ThreadOK(thr[t])
             /\ t \in External <=> At(thr[t]) = "outside"
             /\ thr[t].pc \in {"top", "outside"} /\ At(thr[t]) = thr[t].pc
             /\ thr[t].q = None /\ thr[t].nq = None /\ thr[t].new = None /\ thr[t].rel = None
             /\ thr[t].msg = NoMsg
  <2> DEFINE pc == IF t \in Worker THEN "top" ELSE "outside"
             x == NewThread(pc)
  <2>1. thr[t] = x
    BY DEF Init
  <2>2. pc \in Pc /\ pc \in {"top", "outside"}
    BY DEF Pc
  <2>3. t \in External <=> pc = "outside"
    BY DEF Thread
  <2> HIDE DEF pc
  <2>4. /\ x \in ThreadRec /\ x.pc = pc /\ x.q = None /\ x.nq = None /\ x.new = None
        /\ x.rel = None /\ x.msg = NoMsg /\ x.dq = None /\ x.out = NoMsg /\ x.ret = "-"
    BY <2>2 DEF NewThread, ThreadRec
  <2> HIDE DEF x
  <2>5. At(x) = pc
    BY <2>2, <2>4 DEF At
  <2>6. ThreadOK(x)
    BY <2>2, <2>4, <2>5 DEF ThreadOK
  <2> QED BY <2>1, <2>2, <2>3, <2>4, <2>5, <2>6
<1>5. \A s \in Service :
         /\ ctx[s] \in CtxRec
         /\ ctx[s].ref = (IF s \in Boot THEN 1 ELSE 0)
         /\ (ctx[s].init <=> s \in Boot) /\ ctx[s].life = (IF s \in Boot THEN "live" ELSE "none")
  BY DEF Init, NoCtx, CtxRec, Life
<1>6. \A s \in Service :
         /\ mq[s] \in MqRec /\ RingIsEmpty(mq[s].ring) /\ ~mq[s].release
         /\ (mq[s].in_global <=> s \in Boot) /\ mq[s].life = (IF s \in Boot THEN "live" ELSE "none")
  <2>1. /\ NoMq \in MqRec /\ NoMq.ring = EmptyRing /\ NoMq.in_global = FALSE
        /\ NoMq.release = FALSE /\ NoMq.life = "none"
    BY EmptyRingOK DEF NoMq, MqRec, Life
  <2>2. /\ NewMq \in MqRec /\ NewMq.in_global = TRUE
        /\ NewMq.release = FALSE /\ NewMq.life = "live"
    BY <2>1 DEF NewMq, MqRec, Life
  <2>3. /\ BootMq \in MqRec /\ BootMq.in_global = TRUE
        /\ BootMq.release = FALSE /\ BootMq.life = "live"
    <3> DEFINE r == [NewMq.ring EXCEPT !.head = DefaultQueueSize - 1, !.tail = DefaultQueueSize - 1]
    <3>1. BootMq = [NewMq EXCEPT !.ring = r]
      BY DEF BootMq
    <3>2. BootMq.ring = r
      BY <2>2, <3>1 DEF MqRec
    <3>3. r \in Rings
      BY <3>2, EmptyRingOK
    <3> HIDE DEF r
    <3> QED BY <2>2, <3>1, <3>3 DEF MqRec
  <2>4. RingIsEmpty(BootMq.ring) /\ RingIsEmpty(NoMq.ring)
    BY <2>1, EmptyRingOK
  <2>5. \A s \in Service : mq[s] = IF s \in Boot THEN BootMq ELSE NoMq
    BY DEF Init
  <2> QED BY <2>1, <2>3, <2>4, <2>5
<1>7. Types
  <2>1. thr = [t \in Thread |-> thr[t]] /\ ctx = [s \in Service |-> ctx[s]]
        /\ mq = [s \in Service |-> mq[s]]
    BY DEF Init
  <2>2. thr \in [Thread -> ThreadRec] /\ ctx \in [Service -> CtxRec] /\ mq \in [Service -> MqRec]
    BY <1>4, <1>5, <1>6, <2>1
  <2>3. slot \in SUBSET Service /\ quit \in BOOLEAN /\ st \in [Id -> StRec]
    BY DEF Init, StRec
  <2> QED BY <1>3, <2>2, <2>3 DEF Types
<1>8. Threads
  BY <1>4 DEF Threads
<1>9. Refs
  <2>1. \A s \in Service, t \in Thread : Holds(t, s) = {}
    BY <1>4 DEF Holds, InRound
  <2>2. \A s \in Service : HoldSet(s) = {}
    BY <2>1 DEF HoldSet
  <2>3. \A s \in Service : Cardinality(HoldSet(s)) = 0
    BY <2>2, FS_EmptySet, Zenon
  <2>4. slot = Boot
    BY DEF Init
  <2>5. \A s \in Service : ctx[s].ref = IF s \in slot THEN 1 ELSE 0
    BY <1>5, <2>4
  <2> QED BY <2>3, <2>5 DEF Refs
<1>10. Lives
  BY <1>4, <1>5, <1>6 DEF Lives
<1>11. PlaceInv
  <2>1. \A s \in Service, t \in Thread : ~Hand(t, s)
    BY <1>4 DEF Hand
  <2>2. \A s \in Service : Placed(s) <=> s \in Boot
    BY <1>6 DEF Placed
  <2> QED BY <1>2, <1>3, <1>4, <1>6, <2>1, <2>2 DEF PlaceInv
<1>12. InitInv
  BY <1>4, <1>5 DEF InitInv, InRound, Init
<1> QED BY <1>7, <1>8, <1>9, <1>10, <1>11, <1>12 DEF ServerInv

\* The head of the worker's loop.
LEMMA TopAnyStep ==
    ASSUME ServerInv, NEW t \in Thread, Top(t)
    PROVE  ServerInv'
<1>1. thr[t].pc = "top" /\ UNCHANGED <<slot, ctx, mq, quit, st>> /\ quit \in BOOLEAN
  BY DEF Top, ServerInv, Types
<1>2. CASE quit
  <2>1. Goto(t, "done") /\ UNCHANGED gq
    BY <1>2 DEF Top
  <2> QED BY <1>1, <2>1, TopStep
<1>3. CASE ~quit /\ thr[t].q = None
  <2>1. PopInto(t, "grab", "idle")
    BY <1>3 DEF Top
  <2> QED BY <1>1, <1>3, <2>1, PopStep
<1>4. CASE ~quit /\ thr[t].q # None
  <2>1. Goto(t, "grab") /\ UNCHANGED gq
    BY <1>4 DEF Top
  <2> QED BY <1>1, <1>4, <2>1, TopStep
<1> QED BY <1>1, <1>2, <1>3, <1>4

\* The next queue after a dispatch that ended without one.
LEMMA NextQueueStep ==
    ASSUME ServerInv, NEW t \in Thread, NextQueue(t)
    PROVE  ServerInv'
<1>1. /\ thr[t].pc = "pop" /\ UNCHANGED <<slot, ctx, mq, quit, st>> /\ PopInto(t, "top", "idle")
      /\ ThreadOK(thr[t])
  BY ThreadFacts DEF NextQueue
<1>2. thr[t].q = None
  BY <1>1 DEF ThreadOK, At
<1> QED BY <1>1, <1>2, PopStep

\* What a thread goes on with by itself.
LEMMA ContinueStep ==
    ASSUME ServerInv, NEW t \in Thread, Continue(t)
    PROVE  ServerInv'
<1>1. CASE Push(t)
  BY <1>1, PushStep
<1>2. CASE Release(t)
  BY <1>2, ReleaseOtherStep, ReleaseLastStep
<1>3. CASE Delete(t)
  BY <1>3, DeleteStep
<1> QED BY <1>1, <1>2, <1>3 DEF Continue

\* Every step of a worker.
LEMMA WorkerOK ==
    ASSUME ServerInv, NEW t \in Thread, WorkerStep(t)
    PROVE  ServerInv'
<1>1. CASE Continue(t)
  BY <1>1, ContinueStep
<1>2. CASE InitReturns(t)
  BY <1>2, InitReturnsStep
<1>3. CASE SetInit(t)
  BY <1>3, SetInitStep
<1>4. CASE PushQueue(t)
  BY <1>4, PushQueueStep
<1>5. CASE LaunchFailed(t)
  BY <1>5, LaunchFailedStep
<1>6. CASE MqRelease(t)
  BY <1>6, MqReleaseStep, MqReleaseMarkedStep
<1>7. CASE DropQueue(t)
  BY <1>7, DropEmptyStep, DropMessageStep
<1>8. CASE Top(t)
  BY <1>8, TopAnyStep
<1>9. CASE NextQueue(t)
  BY <1>9, NextQueueStep
<1>10. CASE Grab(t)
  BY <1>10, GrabStep
<1>11. CASE MqPop(t)
  BY <1>11, MqPopEmptyStep, MqPopStep
<1>12. CASE MqLength(t)
  BY <1>12, MqLengthStep
<1>13. CASE HandlerReturns(t)
  BY <1>13, HandlerReturnsStep
<1>14. CASE TakeNext(t)
  BY <1>14, TakeNextStep, KeepQueueStep
<1>15. CASE PutBack(t)
  BY <1>15, PutBackStep
<1>16. CASE Sleep(t)
  BY <1>16, SleepStep
<1>17. ASSUME NEW s \in Service, Send(t, s) \/ Kill(t, s) \/ Launch(t, s) PROVE ServerInv'
  BY <1>17, SendStep, KillStep, LaunchStep
<1> QED BY <1>1, <1>2, <1>3, <1>4, <1>5, <1>6, <1>7, <1>8, <1>9, <1>10, <1>11, <1>12, <1>13,
           <1>14, <1>15, <1>16, <1>17 DEF WorkerStep

\* Every step keeps the invariant.
LEMMA StepOK ==
    ServerInv /\ [Next]_vars => ServerInv'
<1> SUFFICES ASSUME ServerInv, [Next]_vars PROVE ServerInv'
  OBVIOUS
<1>1. ASSUME NEW t \in Worker, WorkerStep(t) \/ WakeUp(t) PROVE ServerInv'
  <2>1. t \in Thread
    BY DEF Thread
  <2> QED BY <1>1, <2>1, WorkerOK, SleepStep
<1>2. ASSUME NEW t \in External, Continue(t) \/ \E s \in Service : Send(t, s) PROVE ServerInv'
  <2>1. t \in Thread
    BY DEF Thread
  <2> QED BY <1>2, <2>1, ContinueStep, SendStep
<1>3. CASE Quit
  BY <1>3, QuitStep
<1>4. CASE UNCHANGED vars
  <2>1. /\ slot' = slot /\ ctx' = ctx /\ mq' = mq /\ gq' = gq /\ thr' = thr /\ quit' = quit
        /\ st' = st
    BY <1>4 DEF vars
  <2>2. Types' /\ Threads' /\ Lives' /\ InitInv'
    BY <2>1 DEF ServerInv, Types, Threads, Lives, InitInv, InRound
  <2>3. \A s : HoldSet(s)' = HoldSet(s)
    BY <2>1 DEF HoldSet, Holds, InRound
  <2>4. Refs'
    BY <2>1, <2>3 DEF ServerInv, Refs
  <2>5. PlaceInv'
    BY <2>1 DEF ServerInv, PlaceInv, Placed, Hand
  <2> QED BY <2>2, <2>4, <2>5 DEF ServerInv
<1> QED BY <1>1, <1>2, <1>3, <1>4 DEF Next, Ended

\* The invariant of the dispatcher: the fields of every thread fit where it
\* is, references are counted, queues are in one place, lives run in order.
THEOREM ServerInvariant ==
    Spec => []ServerInv
<1>1. Init => ServerInv
  BY InitOK
<1>2. ServerInv /\ [Next]_vars => ServerInv'
  BY StepOK
<1> QED BY <1>1, <1>2, PTL DEF Spec
-----------------------------------------------------------------------------
(* What the invariant says about references, places and asserts.           *)

\* The reference count of every context is exact, and whoever holds a
\* reference meets a context that is not freed (skynet_context_grab,
\* skynet_context_release), for any number of services and threads.
THEOREM RefsCorrect ==
    Spec => []RefExact
<1>1. ServerInv => RefExact
  <2> SUFFICES ASSUME ServerInv PROVE RefExact
    OBVIOUS
  <2>1. TypeOK
    <3>1. \A s \in Service :
             /\ ctx[s].ref \in Nat /\ ctx[s].init \in BOOLEAN
             /\ ctx[s].life \in {"none", "live", "freed"}
             /\ mq[s].life \in {"none", "live", "freed"}
      BY DEF ServerInv, Types, CtxRec, MqRec, Life
    <3>2. \A t \in Thread :
             /\ thr[t].pc \in Pc
             /\ {thr[t].q, thr[t].nq, thr[t].new, thr[t].dq, thr[t].rel}
                   \subseteq Service \cup {None}
             /\ {thr[t].msg, thr[t].out} \subseteq Message \cup {NoMsg}
      BY ThreadFacts DEF ThreadRec
    <3>3. slot \subseteq Service /\ gq \in Seq(Service) /\ quit \in BOOLEAN
      BY DEF ServerInv, Types
    <3>4. st \in [Id -> [is : {"unsent", "refused", "sent", "handled", "dropped", "answered"},
                         from : Service \cup {None}]]
      BY DEF ServerInv, Types, StRec
    <3> QED BY <3>1, <3>2, <3>3, <3>4 DEF TypeOK
  <2>2. \A s \in Service :
            ctx[s].ref = (IF s \in slot THEN 1 ELSE 0)
                         + Cardinality({p \in Thread \X {"round", "launch", "send"} :
                                           p[2] \in Holds(p[1], s)})
    BY DEF ServerInv, Refs, HoldSet
  <2>3. \A s \in Service : ctx[s].ref > 0 => ctx[s].life = "live"
    BY DEF ServerInv, Lives
  <2> QED BY <2>1, <2>2, <2>3 DEF RefExact
<1> QED BY <1>1, ServerInvariant, PTL

\* The asserts of delete_context, dispatch_message and skynet_mq_push never
\* fail, for any number of services and threads.
THEOREM AssertsCorrect ==
    Spec => []AssertsHold
<1>1. ServerInv => AssertsHold
  <2> SUFFICES ASSUME ServerInv, NEW t \in Thread
               PROVE  /\ thr[t].pc = "delete" => /\ ~mq[thr[t].rel].release
                                                 /\ ctx[thr[t].rel].life = "live"
                      /\ thr[t].pc = "push" => mq[thr[t].rel].life = "live"
                      /\ thr[t].msg # NoMsg => ctx[thr[t].q].init
    BY DEF AssertsHold
  <2>1. thr[t] \in ThreadRec /\ ThreadOK(thr[t])
    BY ThreadFacts
  <2>2. thr[t].pc \in {"delete", "push"} => thr[t].rel \in Service
    BY <2>1 DEF ThreadRec, ThreadOK
  <2>3. thr[t].pc = "delete" => ~mq[thr[t].rel].release /\ ctx[thr[t].rel].life = "live"
    BY <2>2 DEF ServerInv, Lives
  <2>4. thr[t].pc = "push" => mq[thr[t].rel].life = "live"
    <3>1. thr[t].pc = "push" => RefOf(thr[t], thr[t].rel) # 0
      BY DEF RefOf
    <3> QED BY <2>2, <3>1, HeldLive
  <2>5. thr[t].msg # NoMsg => ctx[thr[t].q].init
    BY DEF ServerInv, InitInv, InRound
  <2> QED BY <2>3, <2>4, <2>5
<1> QED BY <1>1, ServerInvariant, PTL

\* The number of elements of a finite set without two different ones.
LEMMA AtMostOne ==
    ASSUME NEW S, IsFiniteSet(S), \A x, y \in S : x = y
    PROVE  Cardinality(S) \in {0, 1} /\ (Cardinality(S) = 0 <=> S = {})
<1>1. CASE S = {}
  BY <1>1, FS_EmptySet
<1>2. CASE S # {}
  <2>1. PICK x : S = {x}
    BY <1>2
  <2>2. Cardinality(S) = 1
    BY <2>1, FS_Singleton
  <2> QED BY <1>2, <2>2
<1> QED BY <1>1, <1>2

Fields == {"q", "nq", "new", "dq"}

\* The positions of a queue in the global queue, and the hands it is in.
Positions(s) == {k \in 1 .. Len(gq) : gq[k] = s}
InHands(s) == {p \in Thread \X Fields :
                  LET t == thr[p[1]] IN
                  \/ p[2] = "q" /\ t.q = s
                  \/ p[2] = "nq" /\ t.nq = s
                  \/ p[2] = "new" /\ t.new = s
                  \/ p[2] = "dq" /\ t.dq = s /\ s \notin {t.q, t.new}}

\* A queue is in as many places as the invariant says: one if it has to be
\* somewhere, none otherwise.
LEMMA PlacesCount ==
    ASSUME ServerInv, NEW s \in Service
    PROVE  Places(s) = IF Placed(s) THEN 1 ELSE 0
<1>1. Places(s) = Cardinality(Positions(s)) + Cardinality(InHands(s))
  BY DEF Places, Positions, InHands, Fields
<1>2. /\ gq \in Seq(Service) /\ IsInjective(gq) /\ Len(gq) \in Nat
      /\ Positions(s) # {} <=> s \in Range(gq)
      /\ \A x, y \in Positions(s) : x = y
  <2>1. gq \in Seq(Service) /\ IsInjective(gq)
    BY DEF ServerInv, Types, PlaceInv
  <2>2. DOMAIN gq = 1 .. Len(gq) /\ Len(gq) \in Nat
    BY <2>1
  <2> QED BY <2>1, <2>2 DEF Positions, IsInjective, Range
<1>3. IsFiniteSet(Positions(s))
  <2>1. IsFiniteSet(1 .. Len(gq))
    BY <1>2, FS_Interval
  <2> QED BY <2>1, FS_Subset DEF Positions
<1>4. IsFiniteSet(InHands(s))
  <2>1. IsFiniteSet(Thread)
    BY FS_Union DEF Thread
  <2>2. IsFiniteSet({"q"}) /\ IsFiniteSet({"nq"}) /\ IsFiniteSet({"new"}) /\ IsFiniteSet({"dq"})
    BY FS_Singleton
  <2>3. IsFiniteSet({"q"} \cup {"nq"}) /\ IsFiniteSet({"new"} \cup {"dq"})
    BY <2>2, FS_Union
  <2>4. IsFiniteSet(({"q"} \cup {"nq"}) \cup ({"new"} \cup {"dq"}))
    BY <2>3, FS_Union
  <2>5. Fields = ({"q"} \cup {"nq"}) \cup ({"new"} \cup {"dq"})
    BY DEF Fields
  <2>6. IsFiniteSet(Thread \X Fields)
    BY <2>1, <2>4, <2>5, FS_Product
  <2> QED BY <2>6, FS_Subset DEF InHands
<1>5. ASSUME NEW p \in InHands(s)
      PROVE  /\ p[1] \in Thread /\ Hand(p[1], s) /\ p = <<p[1], p[2]>>
             /\ \/ p[2] = "q" /\ thr[p[1]].q = s
                \/ p[2] = "nq" /\ thr[p[1]].nq = s
                \/ p[2] = "new" /\ thr[p[1]].new = s
  <2>1. p[1] \in Thread /\ p = <<p[1], p[2]>>
    BY DEF InHands
  <2>2. ThreadOK(thr[p[1]])
    BY <2>1, ThreadFacts
  <2>3. thr[p[1]].dq = s => s \in {thr[p[1]].q, thr[p[1]].new}
    BY <2>2 DEF ThreadOK
  <2> QED BY <2>1, <2>3 DEF InHands, Hand
<1>6. \A p, r \in InHands(s) : p = r
  <2> SUFFICES ASSUME NEW p \in InHands(s), NEW r \in InHands(s) PROVE p = r
    OBVIOUS
  <2>1. p[1] = r[1] /\ p[1] \in Thread
    BY <1>5 DEF ServerInv, PlaceInv
  <2>2. /\ thr[p[1]].q # None => thr[p[1]].q \notin {thr[p[1]].nq, thr[p[1]].new}
        /\ thr[p[1]].nq # None => thr[p[1]].nq # thr[p[1]].new
    BY <2>1 DEF ServerInv, PlaceInv
  <2>3. p[2] = r[2]
    BY <1>5, <2>1, <2>2
  <2> QED BY <1>5, <2>1, <2>3
<1>7. InHands(s) # {} <=> \E t \in Thread : Hand(t, s)
  <2>1. ASSUME NEW t \in Thread, Hand(t, s) PROVE InHands(s) # {}
    <3>1. \/ <<t, "q">> \in InHands(s) \/ <<t, "nq">> \in InHands(s) \/ <<t, "new">> \in InHands(s)
      BY <2>1 DEF Hand, InHands, Fields
    <3> QED BY <3>1
  <2> QED BY <1>5, <2>1
<1>8. /\ (Positions(s) # {} \/ InHands(s) # {}) <=> Placed(s)
      /\ Positions(s) = {} \/ InHands(s) = {}
  BY <1>2, <1>7 DEF ServerInv, PlaceInv
<1>9. /\ Cardinality(Positions(s)) \in {0, 1} /\ (Cardinality(Positions(s)) = 0 <=> Positions(s) = {})
      /\ Cardinality(InHands(s)) \in {0, 1} /\ (Cardinality(InHands(s)) = 0 <=> InHands(s) = {})
  <2>1. /\ Cardinality(Positions(s)) \in {0, 1}
        /\ Cardinality(Positions(s)) = 0 <=> Positions(s) = {}
    BY <1>2, <1>3, AtMostOne
  <2>2. /\ Cardinality(InHands(s)) \in {0, 1}
        /\ Cardinality(InHands(s)) = 0 <=> InHands(s) = {}
    BY <1>4, <1>6, AtMostOne
  <2> QED BY <2>1, <2>2
<1> QED BY <1>1, <1>8, <1>9

\* A queue is once in the global queue or in the hands of one thread, and
\* nowhere after it is freed (skynet_globalmq_push's assert), for any number
\* of services and threads.
THEOREM OnePlaceCorrect ==
    Spec => []OnePlace
<1>1. ServerInv => OnePlace
  <2> SUFFICES ASSUME ServerInv, NEW s \in Service
               PROVE  Places(s) <= IF mq[s].life = "live" THEN 1 ELSE 0
    BY DEF OnePlace
  <2>1. Places(s) = IF Placed(s) THEN 1 ELSE 0
    BY PlacesCount
  <2> QED BY <2>1 DEF Placed
<1> QED BY <1>1, ServerInvariant, PTL

\* A queue with messages, or to be freed, is in some place: no wake-up is lost
\* between skynet_mq_pop and skynet_mq_push, for any number of services and
\* threads.
THEOREM ForgottenCorrect ==
    Spec => []NoneForgotten
<1>1. ServerInv => NoneForgotten
  <2> SUFFICES ASSUME ServerInv, NEW s \in Service, mq[s].life = "live",
                      ~RingIsEmpty(mq[s].ring) \/ mq[s].release
               PROVE  Places(s) > 0
    BY DEF NoneForgotten
  <2>1. Placed(s)
    BY DEF ServerInv, PlaceInv, Placed
  <2>2. Places(s) = 1
    BY <2>1, PlacesCount
  <2> QED BY <2>2
<1> QED BY <1>1, ServerInvariant, PTL

(***************************************************************************)
(* The dispatcher implements the mailboxes of Mailbox: what the ring       *)
(* buffer holds is a sequence that grows at its end and shrinks at its     *)
(* front, and one thread at a time works on it.                            *)
(***************************************************************************)

-----------------------------------------------------------------------------
(* The messages of a ring.                                                 *)

\* The length of a ring with head h, tail t and capacity c, and the slot of
\* its i-th message.
Length(h, t, c) == IF h <= t THEN t - h ELSE t + c - h
Index(h, c, i) == IF h + i - 1 < c THEN h + i - 1 ELSE h + i - 1 - c
After(x, c) == IF x + 1 >= c THEN 0 ELSE x + 1

\* The tail moves on: one message more, in the slot the tail was at.
LEMMA TailMoves ==
    ASSUME NEW c \in Nat, NEW h \in Nat, NEW t \in Nat, h < c, t < c
    PROVE  /\ Length(h, t, c) \in Nat /\ Length(h, t, c) < c
           /\ After(t, c) # h => Length(h, After(t, c), c) = Length(h, t, c) + 1
           /\ After(t, c) = h => Length(h, t, c) + 1 = c
           /\ \A i \in 1 .. Length(h, t, c) : Index(h, c, i) # t /\ Index(h, c, i) \in 0 .. c - 1
           /\ Index(h, c, Length(h, t, c) + 1) = t
BY DEF Length, After, Index

\* The head moves on: one message less, and the others one nearer.
LEMMA HeadMoves ==
    ASSUME NEW c \in Nat, NEW h \in Nat, NEW t \in Nat, h < c, t < c, h # t
    PROVE  /\ Length(h, t, c) > 0 /\ Length(After(h, c), t, c) = Length(h, t, c) - 1
           /\ \A i \in 1 .. Length(h, t, c) - 1 :
                 /\ Index(After(h, c), c, i) = Index(h, c, i + 1)
                 /\ Index(h, c, i + 1) # h
           /\ Index(h, c, 1) = h
BY DEF Length, After, Index

\* A slot is found by counting on from the head round the ring.
LEMMA IndexTurns ==
    ASSUME NEW c \in Nat, NEW h \in Nat, h < c, NEW i \in 1 .. c
    PROVE  (h + i - 1) % c = Index(h, c, i) /\ (h + (i - 1)) % c = Index(h, c, i)
<1> DEFINE a == h + i - 1
<1>1. a \in Nat /\ a < 2 * c /\ c > 0 /\ h + (i - 1) = a
  OBVIOUS
<1>2. a % c = IF a < c THEN a ELSE a - c
  BY <1>1, Turn
<1>3. (IF a < c THEN a ELSE a - c) = Index(h, c, i)
  BY <1>1 DEF Index
<1> QED BY <1>1, <1>2, <1>3

\* Where the i-th message of a ring lies.
Place(q, i) == Index(q.head, q.cap, i)

\* The messages of a ring are a sequence, read from head on.
LEMMA ContentsFacts ==
    ASSUME NEW q \in Rings
    PROVE  /\ Contents(q) \in Seq(Message) /\ Len(Contents(q)) = skynet_mq_length(q)
           /\ \A i \in 1 .. skynet_mq_length(q) :
                 /\ Place(q, i) \in 0 .. q.cap - 1
                 /\ Contents(q)[i] = q.queue[Place(q, i)]
<1> DEFINE n == skynet_mq_length(q)
           f(i) == q.queue[(q.head + i - 1) % q.cap]
<1>1. /\ q.cap \in Nat /\ q.cap > 0 /\ q.head \in 0 .. q.cap - 1 /\ q.tail \in 0 .. q.cap - 1
      /\ \A i \in 0 .. q.cap - 1 : InRing(q, i) => q.queue[i] \in Message
  BY RingFacts
<1>2. /\ n \in Nat /\ n < q.cap
      /\ n = IF q.head <= q.tail THEN q.tail - q.head ELSE q.tail + q.cap - q.head
  BY LengthType DEF skynet_mq_length
<1> HIDE DEF n
<1>3. ASSUME NEW i \in 1 .. n
      PROVE  /\ Place(q, i) \in 0 .. q.cap - 1 /\ f(i) = q.queue[Place(q, i)] /\ f(i) \in Message
  <2>1. i \in 1 .. q.cap
    BY <1>1, <1>2
  <2>2. (q.head + i - 1) % q.cap = Place(q, i)
    <3> DEFINE h == q.head
               c == q.cap
    <3>1. c \in Nat /\ h \in Nat /\ h < c /\ i \in 1 .. c
      BY <1>1, <2>1
    <3> HIDE DEF h, c
    <3>2. (h + i - 1) % c = Index(h, c, i)
      BY <3>1, IndexTurns
    <3> QED BY <3>2 DEF h, c, Place
  <2>3. Place(q, i) \in 0 .. q.cap - 1 /\ InRing(q, Place(q, i))
    BY <1>1, <1>2 DEF Place, Index, InRing
  <2> QED BY <1>1, <2>2, <2>3
<1>4. Contents(q) = [i \in 1 .. n |-> f(i)]
  BY DEF Contents, n
<1> HIDE DEF f
<1>5. Contents(q) \in [1 .. n -> Message]
  BY <1>3, <1>4
<1>6. Contents(q) \in Seq(Message) /\ Len(Contents(q)) = n
  BY <1>2, <1>5
<1> QED BY <1>3, <1>4, <1>6 DEF n

\* Two sequences with the same elements are the same.
LEMMA SameSequence ==
    ASSUME NEW S, NEW a \in Seq(S), NEW b \in Seq(S), Len(a) = Len(b),
           \A i \in 1 .. Len(a) : a[i] = b[i]
    PROVE  a = b
OBVIOUS

\* A push appends, also when the ring is expanded (skynet_mq_push,
\* expand_queue).
LEMMA PushAppends ==
    ASSUME NEW q \in Rings, NEW m \in Message
    PROVE  Contents(RingPush(q, m)) = Append(Contents(q), m)
<1> DEFINE r == Pushed(q, m)
           p == RingPush(q, m)
           n == skynet_mq_length(q)
<1>1. /\ r.head = q.head /\ r.cap = q.cap /\ r.queue = [q.queue EXCEPT ![q.tail] = m]
      /\ r.tail = After(q.tail, q.cap)
      /\ p = IF r.head = r.tail THEN expand_queue(r) ELSE r
  BY PushedFields DEF After
<1>2. /\ q.head \in Nat /\ q.tail \in Nat /\ q.cap \in Nat /\ q.head < q.cap /\ q.tail < q.cap
      /\ q.queue \in [0 .. q.cap - 1 -> Message \cup {NoMsg}]
  BY RingFacts
<1>3. n \in Nat /\ n < q.cap /\ n = Length(q.head, q.tail, q.cap)
  BY LengthType DEF skynet_mq_length, Length
<1>4. p \in Rings
  BY PushOK
<1> HIDE DEF r, p, n
<1>5. \A i \in 0 .. q.cap - 1 : r.queue[i] = IF i = q.tail THEN m ELSE q.queue[i]
  BY <1>1, <1>2
<1> DEFINE h == q.head
           c == q.cap
           x == q.tail
<1>0. /\ After(x, c) # h => Length(h, After(x, c), c) = Length(h, x, c) + 1
      /\ After(x, c) = h => Length(h, x, c) + 1 = c
      /\ \A i \in 1 .. Length(h, x, c) : Index(h, c, i) # x /\ Index(h, c, i) \in 0 .. c - 1
      /\ Index(h, c, Length(h, x, c) + 1) = x
  <2>1. c \in Nat /\ h \in Nat /\ x \in Nat /\ h < c /\ x < c
    BY <1>2
  <2> HIDE DEF h, c, x
  <2> QED BY <2>1, TailMoves
<1>6. /\ \A i \in 1 .. n : Place(q, i) # q.tail
      /\ Place(q, n + 1) = q.tail
  BY <1>3, <1>0 DEF Place
<1>7. /\ Contents(q) \in Seq(Message) /\ Len(Contents(q)) = n
      /\ \A i \in 1 .. n : Place(q, i) \in 0 .. q.cap - 1 /\ Contents(q)[i] = q.queue[Place(q, i)]
  BY ContentsFacts DEF n
<1>8. \A i \in 1 .. n + 1 : r.queue[Place(q, i)] = IF i = n + 1 THEN m ELSE Contents(q)[i]
  <2>1. \A i \in 1 .. n + 1 : i = n + 1 \/ i \in 1 .. n
    BY <1>3
  <2>2. q.tail \in 0 .. q.cap - 1
    BY <1>2
  <2> QED BY <1>5, <1>6, <1>7, <2>1, <2>2
<1>9. /\ skynet_mq_length(p) = n + 1
      /\ \A i \in 1 .. n + 1 : p.queue[Place(p, i)] = r.queue[Place(q, i)]
  <2>1. CASE r.head # r.tail
    <3>1. p = r
      BY <1>1, <2>1
    <3>2. skynet_mq_length(r) = n + 1
      <4>1. Length(q.head, After(q.tail, q.cap), q.cap) = n + 1
        BY <1>1, <1>3, <1>0, <2>1
      <4> QED BY <1>1, <4>1 DEF skynet_mq_length, Length
    <3>3. \A i \in 1 .. n + 1 : Place(r, i) = Place(q, i)
      BY <1>1 DEF Place
    <3> QED BY <3>1, <3>2, <3>3
  <2>2. CASE r.head = r.tail
    <3>1. n + 1 = q.cap
      BY <1>1, <1>3, <1>0, <2>2
    <3>2. /\ p.head = 0 /\ p.tail = q.cap /\ p.cap = 2 * q.cap
          /\ p.queue = [i \in 0 .. 2 * q.cap - 1 |->
                           IF i < q.cap THEN r.queue[(q.head + i) % q.cap] ELSE NoMsg]
      BY <1>1, <2>2 DEF expand_queue
    <3>3. skynet_mq_length(p) = n + 1
      BY <1>2, <3>1, <3>2 DEF skynet_mq_length
    <3>4. ASSUME NEW i \in 1 .. n + 1 PROVE p.queue[Place(p, i)] = r.queue[Place(q, i)]
      <4>1. Place(p, i) = i - 1 /\ i - 1 \in 0 .. 2 * q.cap - 1 /\ i - 1 < q.cap
        BY <1>2, <3>1, <3>2 DEF Place, Index
      <4>2. i \in 1 .. q.cap
        BY <3>1
      <4>3. (q.head + (i - 1)) % q.cap = Place(q, i)
        BY <1>2, <4>2, IndexTurns DEF Place
      <4> QED BY <3>2, <4>1, <4>3
    <3> QED BY <3>3, <3>4
  <2> QED BY <2>1, <2>2
<1>10. /\ Contents(p) \in Seq(Message) /\ Len(Contents(p)) = n + 1
       /\ \A i \in 1 .. n + 1 : Contents(p)[i] = p.queue[Place(p, i)]
  BY <1>4, <1>9, ContentsFacts
<1> DEFINE a == Contents(p)
           d == Append(Contents(q), m)
<1>11. /\ d \in Seq(Message) /\ Len(d) = n + 1
       /\ \A i \in 1 .. n + 1 : d[i] = IF i = n + 1 THEN m ELSE Contents(q)[i]
  BY <1>3, <1>7
<1>12. a \in Seq(Message) /\ Len(a) = Len(d) /\ \A i \in 1 .. Len(a) : a[i] = d[i]
  BY <1>8, <1>9, <1>10, <1>11
<1> HIDE DEF a, d
<1>13. a = d
  BY <1>11, <1>12, SameSequence
<1> QED BY <1>13 DEF a, d, p

\* A pop takes the first message (skynet_mq_pop).
LEMMA PopTakes ==
    ASSUME NEW q \in Rings, ~RingIsEmpty(q)
    PROVE  /\ Contents(q) # <<>> /\ RingHead(q) = Head(Contents(q))
           /\ Contents(RingPop(q)) = Tail(Contents(q))
<1> DEFINE r == RingPop(q)
           n == skynet_mq_length(q)
<1>1. /\ q.head \in Nat /\ q.tail \in Nat /\ q.cap \in Nat /\ q.head < q.cap /\ q.tail < q.cap
      /\ q.queue \in [0 .. q.cap - 1 -> Message \cup {NoMsg}] /\ q.head # q.tail
      /\ q \in [head : 0 .. q.cap - 1, tail : 0 .. q.cap - 1, cap : {q.cap},
                queue : [0 .. q.cap - 1 -> Message \cup {NoMsg}]]
  BY RingFacts DEF RingIsEmpty
<1>2. /\ r.tail = q.tail /\ r.cap = q.cap /\ r.queue = [q.queue EXCEPT ![q.head] = NoMsg]
      /\ r.head = After(q.head, q.cap)
  BY <1>1 DEF RingPop, After
<1>3. n \in Nat /\ n < q.cap /\ n = Length(q.head, q.tail, q.cap)
  BY LengthType DEF skynet_mq_length, Length
<1>4. r \in Rings
  BY PopOK
<1>5. /\ Contents(q) \in Seq(Message) /\ Len(Contents(q)) = n
      /\ \A i \in 1 .. n : Place(q, i) \in 0 .. q.cap - 1 /\ Contents(q)[i] = q.queue[Place(q, i)]
  BY ContentsFacts
<1> HIDE DEF r, n
<1>6. n > 0 /\ skynet_mq_length(r) = n - 1
  <2>1. n > 0 /\ Length(After(q.head, q.cap), q.tail, q.cap) = n - 1
    BY <1>1, <1>3, HeadMoves
  <2> QED BY <1>2, <2>1 DEF skynet_mq_length, Length
<1>7. RingHead(q) = Head(Contents(q)) /\ Contents(q) # <<>>
  <2>1. Place(q, 1) = q.head
    BY <1>1, HeadMoves DEF Place
  <2>2. Contents(q)[1] = q.queue[q.head]
    BY <1>3, <1>5, <1>6, <2>1
  <2> QED BY <1>3, <1>5, <1>6, <2>2 DEF RingHead
<1>8. \A i \in 1 .. n - 1 : r.queue[Place(r, i)] = Contents(q)[i + 1]
  <2> SUFFICES ASSUME NEW i \in 1 .. n - 1 PROVE r.queue[Place(r, i)] = Contents(q)[i + 1]
    OBVIOUS
  <2>1. Place(r, i) = Place(q, i + 1) /\ Place(r, i) # q.head
    BY <1>1, <1>2, <1>3, HeadMoves DEF Place
  <2>2. i + 1 \in 1 .. n
    BY <1>3
  <2>3. Place(q, i + 1) \in 0 .. q.cap - 1 /\ Contents(q)[i + 1] = q.queue[Place(q, i + 1)]
    BY <1>5, <2>2
  <2> QED BY <1>1, <1>2, <2>1, <2>3
<1>9. /\ Contents(r) \in Seq(Message) /\ Len(Contents(r)) = n - 1
      /\ \A i \in 1 .. n - 1 : Contents(r)[i] = r.queue[Place(r, i)]
  BY <1>4, <1>6, ContentsFacts
<1> DEFINE c == Contents(r)
           d == Tail(Contents(q))
<1>10. /\ d \in Seq(Message) /\ Len(d) = n - 1
       /\ \A i \in 1 .. n - 1 : d[i] = Contents(q)[i + 1]
  BY <1>3, <1>5, <1>6, <1>7
<1>11. c \in Seq(Message) /\ Len(c) = Len(d) /\ \A i \in 1 .. Len(c) : c[i] = d[i]
  BY <1>8, <1>9, <1>10
<1> HIDE DEF c, d
<1>12. c = d
  BY <1>10, <1>11, SameSequence
<1> QED BY <1>7, <1>12 DEF c, d, r

\* An empty ring holds nothing.
LEMMA EmptyContents ==
    ASSUME NEW q \in Rings, RingIsEmpty(q)
    PROVE  Contents(q) = <<>>
<1>1. q.cap \in Nat /\ q.head \in 0 .. q.cap - 1 /\ q.tail \in 0 .. q.cap - 1
  BY RingFacts
<1>2. skynet_mq_length(q) = 0
  BY <1>1 DEF RingIsEmpty, skynet_mq_length
<1>3. Contents(q) \in Seq(Message) /\ Len(Contents(q)) = 0
  BY <1>2, ContentsFacts
<1> QED BY <1>3
-----------------------------------------------------------------------------
(* The message a service is handling.                                      *)

\* It is the message of the only worker that runs the service.
LEMMA DoingIs ==
    ASSUME NEW th, NEW s, NEW t \in Worker, Runs(th[t], s),
           \A u \in Worker : Runs(th[u], s) => u = t
    PROVE  Doing(th, s) = th[t].msg
<1>1. (CHOOSE u \in Worker : Runs(th[u], s)) = t
  OBVIOUS
<1> QED BY <1>1 DEF Doing

\* It stays while the workers that run the service and their messages do.
LEMMA DoingStays ==
    ASSUME NEW th, NEW ti, NEW s,
           \A t, u \in Worker : Runs(th[t], s) /\ Runs(th[u], s) => t = u,
           \A u \in Worker : Runs(ti[u], s) <=> Runs(th[u], s),
           \A u \in Worker : Runs(th[u], s) => ti[u].msg = th[u].msg
    PROVE  Doing(ti, s) = Doing(th, s)
<1>1. CASE \E t \in Worker : Runs(th[t], s)
  <2>1. PICK t \in Worker : Runs(th[t], s)
    BY <1>1
  <2>2. Doing(th, s) = th[t].msg
    BY <2>1, DoingIs
  <2>3. Doing(ti, s) = ti[t].msg
    BY <2>1, DoingIs
  <2> QED BY <2>1, <2>2, <2>3
<1>2. CASE ~\E t \in Worker : Runs(th[t], s)
  BY <1>2 DEF Doing
<1> QED BY <1>1, <1>2

\* No two threads run one service, and those that do are workers.
LEMMA RunsAlone ==
    ASSUME ServerInv
    PROVE  /\ \A t \in Thread, s \in Service : Runs(thr[t], s) => t \in Worker
           /\ \A t, u \in Thread, s \in Service : Runs(thr[t], s) /\ Runs(thr[u], s) => t = u
<1>1. \A t, u \in Thread, s \in Service : Runs(thr[t], s) /\ Runs(thr[u], s) => t = u
  BY DEF ServerInv, PlaceInv, Hand, Runs
<1>2. ASSUME NEW t \in Thread, NEW s \in Service, Runs(thr[t], s) PROVE t \in Worker
  <2>1. ThreadOK(thr[t]) /\ (t \in External <=> At(thr[t]) = "outside")
    BY ThreadFacts
  <2>2. thr[t].msg # NoMsg
    BY <1>2 DEF Runs
  <2>3. At(thr[t]) # "outside"
    BY <2>1, <2>2 DEF ThreadOK, Launching, Dropping
  <2> QED BY <2>1, <2>3 DEF Thread
<1> QED BY <1>1, <1>2

\* A step in which threads keep their messages, and with a message their
\* queue, shows no change in what is handled.
LEMMA TasksStay ==
    ASSUME ServerInv,
           \A u \in Thread : /\ thr'[u].msg = thr[u].msg
                             /\ thr[u].msg # NoMsg => thr'[u].q = thr[u].q
    PROVE  Tasks' = Tasks
<1> SUFFICES ASSUME NEW s \in Service PROVE Doing(thr', s) = Doing(thr, s)
  BY DEF Tasks
<1>1. Worker \subseteq Thread
  BY DEF Thread
<1>2. \A t, u \in Worker : Runs(thr[t], s) /\ Runs(thr[u], s) => t = u
  BY <1>1, RunsAlone
<1>3. \A u \in Worker : /\ Runs(thr'[u], s) <=> Runs(thr[u], s)
                        /\ Runs(thr[u], s) => thr'[u].msg = thr[u].msg
  BY <1>1 DEF Runs
<1> QED BY <1>2, <1>3, DoingStays

\* A step of a thread that changes no message, no ring and no life is hidden.
Hidden(t) ==
    /\ \A u \in Thread : u # t => thr'[u] = thr[u]
    /\ thr'[t].msg = thr[t].msg /\ (thr[t].msg # NoMsg => thr'[t].q = thr[t].q)

\* A hidden step that leaves rings and lives alone does not show in the mailbox.
LEMMA Unseen ==
    ASSUME ServerInv, NEW t \in Thread, Hidden(t),
           \A s \in Service : mq'[s].ring = mq[s].ring /\ ctx'[s].life = ctx[s].life
    PROVE  UNCHANGED <<Box, Tasks, LifeOf>>
<1>1. Tasks' = Tasks
  BY TasksStay DEF Hidden
<1>2. Box' = Box /\ LifeOf' = LifeOf
  BY DEF Box, LifeOf
<1> QED BY <1>1, <1>2

\* The thread that moves gets the record x.
LEMMA HiddenBy ==
    ASSUME ServerInv, NEW t \in Thread, NEW x, thr' = [thr EXCEPT ![t] = x],
           x.msg = thr[t].msg, thr[t].msg # NoMsg => x.q = thr[t].q
    PROVE  Hidden(t)
BY ThreadFacts DEF Hidden

-----------------------------------------------------------------------------
(* The steps nobody sees.                                                  *)

USE DEF Launching, Dropping, Round, Calling

\* A thread that goes elsewhere, and one that gives up a reference.
LEMMA HiddenCalls ==
    ASSUME ServerInv, NEW t \in Thread
    PROVE  /\ \A pc : Goto(t, pc) => Hidden(t)
           /\ \A s, ret : thr' = [thr EXCEPT ![t] = ReleaseThen(t, s, ret)] => Hidden(t)
           /\ \A d, m, ret : skynet_context_push(t, d, m, ret) =>
                 /\ Hidden(t)
                 /\ \A s \in Service : ctx'[s].life = ctx[s].life
<1>0. thr[t] \in ThreadRec /\ ctx \in [Service -> CtxRec]
  BY ThreadFacts DEF ServerInv, Types
<1>1. ASSUME NEW pc, Goto(t, pc) PROVE Hidden(t)
  <2> DEFINE x == [thr[t] EXCEPT !.pc = pc, !.rel = None, !.out = NoMsg, !.ret = "-"]
  <2>1. thr' = [thr EXCEPT ![t] = x]
    BY <1>1, ThreadFacts DEF Goto
  <2>2. x.msg = thr[t].msg /\ x.q = thr[t].q
    BY <1>0 DEF ThreadRec
  <2> HIDE DEF x
  <2> QED BY <2>1, <2>2, HiddenBy
<1>2. ASSUME NEW s, NEW ret, thr' = [thr EXCEPT ![t] = ReleaseThen(t, s, ret)] PROVE Hidden(t)
  <2>1. ReleaseThen(t, s, ret).msg = thr[t].msg /\ ReleaseThen(t, s, ret).q = thr[t].q
    BY <1>0 DEF ReleaseThen, ThreadRec
  <2> QED BY <1>2, <2>1, HiddenBy
<1>3. ASSUME NEW d, NEW m, NEW ret, skynet_context_push(t, d, m, ret)
      PROVE  Hidden(t) /\ \A s \in Service : ctx'[s].life = ctx[s].life
  <2> DEFINE x == [thr[t] EXCEPT !.pc = "push", !.rel = d, !.out = m, !.ret = ret]
  <2>1. CASE d \in slot
    <3>1. thr' = [thr EXCEPT ![t] = x] /\ ctx' = [ctx EXCEPT ![d].ref = @ + 1]
      BY <1>3, <2>1, ThreadFacts DEF skynet_context_push
    <3>2. x.msg = thr[t].msg /\ x.q = thr[t].q
      BY <1>0 DEF ThreadRec
    <3>3. \A s \in Service : ctx'[s].life = ctx[s].life
      BY <1>0, <3>1 DEF CtxRec
    <3> HIDE DEF x
    <3> QED BY <3>1, <3>2, <3>3, HiddenBy
  <2>2. CASE d \notin slot
    BY <1>1, <1>3, <2>2 DEF skynet_context_push
  <2> QED BY <2>1, <2>2
<1> QED BY <1>1, <1>2, <1>3

\* What a worker does between two messages, and what a handler asks for other
\* than a launch.
LEMMA QuietSteps ==
    ASSUME ServerInv, NEW t \in Thread,
           \/ Release(t) \/ InitReturns(t) \/ SetInit(t) \/ PushQueue(t) \/ LaunchFailed(t)
           \/ Grab(t) \/ MqLength(t) \/ Sleep(t) \/ WakeUp(t)
           \/ \E s \in Service : Send(t, s) \/ Kill(t, s)
    PROVE  UNCHANGED <<Box, Tasks, LifeOf>>
<1>0. thr[t] \in ThreadRec /\ ctx \in [Service -> CtxRec] /\ mq \in [Service -> MqRec]
  BY ThreadFacts DEF ServerInv, Types
<1>1. CASE Release(t)
  <2>1. mq' = mq /\ ctx' = [ctx EXCEPT ![thr[t].rel].ref = @ - 1]
    BY <1>1 DEF Release
  <2>2. \A s \in Service : mq'[s].ring = mq[s].ring /\ ctx'[s].life = ctx[s].life
    BY <1>0, <2>1 DEF CtxRec
  <2>3. Hidden(t)
    <3>1. CASE thr' = [thr EXCEPT ![t].pc = "delete"]
      <4> DEFINE x == [thr[t] EXCEPT !.pc = "delete"]
      <4>1. thr' = [thr EXCEPT ![t] = x] /\ x.msg = thr[t].msg /\ x.q = thr[t].q
        BY <1>0, <3>1, ThreadFacts DEF ThreadRec
      <4> HIDE DEF x
      <4> QED BY <4>1, HiddenBy
    <3>2. CASE Goto(t, thr[t].ret)
      BY <3>2, HiddenCalls
    <3> QED BY <1>1, <3>1, <3>2 DEF Release
  <2> QED BY <2>2, <2>3, Unseen
<1>2. CASE InitReturns(t)
  <2>1. Hidden(t)
    BY <1>2, HiddenCalls DEF InitReturns
  <2> QED BY <1>2, <2>1, Unseen DEF InitReturns
<1>3. CASE SetInit(t)
  <2> DEFINE x == [thr[t] EXCEPT !.pc = "pushq"]
  <2>1. thr' = [thr EXCEPT ![t] = x] /\ x.msg = thr[t].msg /\ x.q = thr[t].q
    BY <1>0, <1>3, ThreadFacts DEF SetInit, ThreadRec
  <2>2. mq' = mq /\ ctx' = [ctx EXCEPT ![thr[t].new].init = TRUE]
    BY <1>3 DEF SetInit
  <2>3. \A s \in Service : mq'[s].ring = mq[s].ring /\ ctx'[s].life = ctx[s].life
    BY <1>0, <2>2 DEF CtxRec
  <2> HIDE DEF x
  <2> QED BY <2>1, <2>3, HiddenBy, Unseen
<1>4. CASE PushQueue(t)
  <2> DEFINE x == [thr[t] EXCEPT !.pc = "handle", !.new = None]
  <2>1. thr' = [thr EXCEPT ![t] = x] /\ x.msg = thr[t].msg /\ x.q = thr[t].q
    BY <1>0, <1>4, ThreadFacts DEF PushQueue, ThreadRec
  <2>2. UNCHANGED <<mq, ctx>>
    BY <1>4 DEF PushQueue
  <2> HIDE DEF x
  <2> QED BY <2>1, <2>2, HiddenBy, Unseen
<1>5. CASE LaunchFailed(t)
  <2> DEFINE s == thr[t].new
             y == IF s \in slot THEN ReleaseThen(t, s, "mqrelease")
                  ELSE [thr[t] EXCEPT !.pc = "mqrelease"]
             x == [y EXCEPT !.dq = s]
  <2>1. thr' = [thr EXCEPT ![t] = x]
    BY <1>5, ThreadFacts DEF LaunchFailed
  <2>2. CASE s \in slot
    <3> DEFINE z == ReleaseThen(t, s, "mqrelease")
    <3>1. z.msg = thr[t].msg /\ z.q = thr[t].q /\ z \in ThreadRec
      <4>1. s \in Service /\ "mqrelease" \in Pc
        BY <2>2 DEF ServerInv, Types, Pc
      <4> QED BY <1>0, <4>1, ReleaseThenIs
    <3>2. x = [z EXCEPT !.dq = s]
      BY <2>2
    <3> HIDE DEF x, z
    <3>3. x.msg = z.msg /\ x.q = z.q
      BY <3>1, <3>2 DEF ThreadRec
    <3>4. Hidden(t)
      BY <2>1, <3>1, <3>3, HiddenBy
    <3> QED BY <1>5, <3>4, Unseen DEF LaunchFailed
  <2>3. CASE s \notin slot
    <3>1. x.msg = thr[t].msg /\ x.q = thr[t].q
      BY <1>0, <2>3 DEF ThreadRec
    <3> HIDE DEF x
    <3>2. Hidden(t)
      BY <2>1, <3>1, HiddenBy
    <3> QED BY <1>5, <3>2, Unseen DEF LaunchFailed
  <2> QED BY <2>2, <2>3
<1>6. CASE Grab(t)
  <2>1. mq' = mq /\ (ctx' = ctx \/ ctx' = [ctx EXCEPT ![thr[t].q].ref = @ + 1])
    BY <1>6 DEF Grab
  <2>2. \A s \in Service : mq'[s].ring = mq[s].ring /\ ctx'[s].life = ctx[s].life
    BY <1>0, <2>1 DEF CtxRec
  <2> DEFINE x == IF thr[t].q \in slot THEN [thr[t] EXCEPT !.pc = "mqpop", !.i = 0, !.n = 1]
                  ELSE [thr[t] EXCEPT !.pc = "mqrelease", !.dq = thr[t].q]
  <2>3. thr' = [thr EXCEPT ![t] = x]
    BY <1>6, ThreadFacts DEF Grab
  <2>4. x.msg = thr[t].msg /\ x.q = thr[t].q
    BY <1>0 DEF ThreadRec
  <2> HIDE DEF x
  <2> QED BY <2>2, <2>3, <2>4, HiddenBy, Unseen
<1>7. CASE MqLength(t)
  <2> DEFINE v == skynet_mq_length(mq[thr[t].q].ring) \div 2 ^ Weight[t]
             x == [thr[t] EXCEPT !.pc = "handle", !.n = v]
  <2>1. thr' = [thr EXCEPT ![t] = x]
    BY <1>7, ThreadFacts DEF MqLength
  <2> HIDE DEF v
  <2>2. x.msg = thr[t].msg /\ x.q = thr[t].q
    BY <1>0 DEF ThreadRec
  <2>3. UNCHANGED <<mq, ctx>>
    BY <1>7 DEF MqLength
  <2> HIDE DEF x
  <2> QED BY <2>1, <2>2, <2>3, HiddenBy, Unseen
<1>8. CASE Sleep(t) \/ WakeUp(t)
  <2>1. Hidden(t)
    BY <1>8, HiddenCalls DEF Sleep, WakeUp
  <2> QED BY <1>8, <2>1, Unseen DEF Sleep, WakeUp
<1>9. ASSUME NEW s \in Service, Send(t, s) PROVE UNCHANGED <<Box, Tasks, LifeOf>>
  <2>1. Hidden(t) /\ \A z \in Service : ctx'[z].life = ctx[z].life
    BY <1>9, HiddenCalls DEF Send
  <2> QED BY <1>9, <2>1, Unseen DEF Send
<1>10. ASSUME NEW s \in Service, Kill(t, s) PROVE UNCHANGED <<Box, Tasks, LifeOf>>
  <2>1. Hidden(t)
    BY <1>10, HiddenCalls DEF Kill
  <2> QED BY <1>10, <2>1, Unseen DEF Kill
<1> QED BY <1>1, <1>2, <1>3, <1>4, <1>5, <1>6, <1>7, <1>8, <1>9, <1>10

\* The queue a thread has in hand changes only between two messages.
LEMMA QueueSteps ==
    ASSUME ServerInv, NEW t \in Thread,
           \/ Top(t) \/ NextQueue(t) \/ TakeNext(t) \/ PutBack(t) \/ MqRelease(t)
           \/ DropQueue(t) /\ RingIsEmpty(mq[thr[t].dq].ring)
           \/ MqPop(t) /\ RingIsEmpty(mq[thr[t].q].ring)
    PROVE  UNCHANGED <<Box, Tasks, LifeOf>>
<1>0. /\ thr[t] \in ThreadRec /\ ThreadOK(thr[t]) /\ thr \in [Thread -> ThreadRec]
      /\ ctx \in [Service -> CtxRec] /\ mq \in [Service -> MqRec]
  BY ThreadFacts DEF ServerInv, Types
<1>1. thr[t].pc \in {"top", "pop", "swap", "putback", "mqpop"} => thr[t].msg = NoMsg
  BY <1>0 DEF ThreadOK, At
<1>2. ASSUME NEW some, NEW none, PopInto(t, some, none), thr[t].msg = NoMsg
      PROVE  Hidden(t)
  <2> DEFINE x == IF gq = <<>> THEN [thr[t] EXCEPT !.pc = none, !.q = None]
                  ELSE [thr[t] EXCEPT !.pc = some, !.q = Head(gq)]
  <2>1. thr' = [thr EXCEPT ![t] = x]
    BY <1>0, <1>2 DEF PopInto
  <2>2. x.msg = thr[t].msg
    BY <1>0 DEF ThreadRec
  <2> HIDE DEF x
  <2> QED BY <1>2, <2>1, <2>2, HiddenBy
<1>3. ASSUME EndDrop(t), thr[t].pc \in {"mqrelease", "drop"} PROVE Hidden(t)
  <2> DEFINE q == IF AfterDrop(t) = "pop" THEN None ELSE thr[t].q
             x == [thr[t] EXCEPT !.pc = AfterDrop(t), !.dq = None, !.new = None, !.q = q]
  <2>1. thr' = [thr EXCEPT ![t] = x]
    BY <1>0, <1>3 DEF EndDrop
  <2>2. thr[t].msg # NoMsg => q = thr[t].q
    BY <1>0, <1>3 DEF ThreadOK, At, AfterDrop
  <2> HIDE DEF q
  <2>3. x.msg = thr[t].msg /\ x.q = q
    BY <1>0 DEF ThreadRec
  <2> HIDE DEF x
  <2> QED BY <2>1, <2>2, <2>3, HiddenBy
<1>4. CASE Top(t)
  <2>1. Hidden(t)
    BY <1>1, <1>2, <1>4, HiddenCalls DEF Top
  <2> QED BY <1>4, <2>1, Unseen DEF Top
<1>5. CASE NextQueue(t)
  <2>1. Hidden(t)
    BY <1>1, <1>2, <1>5 DEF NextQueue
  <2> QED BY <1>5, <2>1, Unseen DEF NextQueue
<1>6. CASE TakeNext(t)
  <2> DEFINE x == IF gq = <<>> THEN [ReleaseThen(t, thr[t].q, "top") EXCEPT !.i = 0, !.n = 0]
                  ELSE [thr[t] EXCEPT !.pc = "putback", !.nq = Head(gq)]
  <2>1. thr' = [thr EXCEPT ![t] = x]
    BY <1>0, <1>6 DEF TakeNext
  <2>2. x.msg = thr[t].msg
    BY <1>0 DEF ThreadRec, ReleaseThen
  <2>3. thr[t].msg = NoMsg
    BY <1>1, <1>6 DEF TakeNext
  <2> HIDE DEF x
  <2>4. Hidden(t)
    BY <2>1, <2>2, <2>3, HiddenBy
  <2> QED BY <1>6, <2>4, Unseen DEF TakeNext
<1>7. CASE PutBack(t)
  <2> DEFINE x == [ReleaseThen(t, thr[t].q, "top")
                   EXCEPT !.q = thr[t].nq, !.nq = None, !.i = 0, !.n = 0]
  <2>1. thr' = [thr EXCEPT ![t] = x]
    BY <1>7 DEF PutBack
  <2>2. x.msg = thr[t].msg
    BY <1>0 DEF ThreadRec, ReleaseThen
  <2>3. thr[t].msg = NoMsg
    BY <1>1, <1>7 DEF PutBack
  <2> HIDE DEF x
  <2>4. Hidden(t)
    BY <2>1, <2>2, <2>3, HiddenBy
  <2> QED BY <1>7, <2>4, Unseen DEF PutBack
<1>8. CASE MqRelease(t)
  <2>1. CASE thr' = [thr EXCEPT ![t].pc = "drop"]
    <3> DEFINE x == [thr[t] EXCEPT !.pc = "drop"]
    <3>1. thr' = [thr EXCEPT ![t] = x] /\ x.msg = thr[t].msg /\ x.q = thr[t].q
      BY <1>0, <2>1 DEF ThreadRec
    <3> HIDE DEF x
    <3>2. Hidden(t)
      BY <3>1, HiddenBy
    <3> QED BY <1>8, <3>2, Unseen DEF MqRelease
  <2>2. CASE EndDrop(t)
    <3>1. Hidden(t)
      BY <1>3, <1>8, <2>2 DEF MqRelease
    <3> QED BY <1>8, <3>1, Unseen DEF MqRelease
  <2> QED BY <1>8, <2>1, <2>2 DEF MqRelease
<1>9. CASE DropQueue(t) /\ RingIsEmpty(mq[thr[t].dq].ring)
  <2> DEFINE s == thr[t].dq
  <2>1. /\ mq' = [mq EXCEPT ![s] = [@ EXCEPT !.in_global = FALSE, !.life = "freed"]]
        /\ EndDrop(t) /\ thr[t].pc = "drop" /\ ctx' = ctx
    BY <1>9 DEF DropQueue
  <2>2. \A z \in Service : mq'[z].ring = mq[z].ring
    <3> HIDE DEF s
    <3> QED BY <1>0, <2>1 DEF MqRec
  <2>3. Hidden(t)
    BY <1>3, <2>1
  <2> QED BY <2>1, <2>2, <2>3, Unseen
<1>10. CASE MqPop(t) /\ RingIsEmpty(mq[thr[t].q].ring)
  <2> DEFINE s == thr[t].q
             x == [ReleaseThen(t, s, "pop") EXCEPT !.q = None, !.i = 0, !.n = 0]
  <2>1. /\ mq' = [mq EXCEPT ![s].in_global = LeavesGlobal(s)]
        /\ thr' = [thr EXCEPT ![t] = x] /\ thr[t].pc = "mqpop" /\ ctx' = ctx
    BY <1>10 DEF MqPop
  <2>2. \A z \in Service : mq'[z].ring = mq[z].ring
    <3> HIDE DEF s, x
    <3> QED BY <1>0, <2>1 DEF MqRec
  <2>3. x.msg = thr[t].msg
    BY <1>0 DEF ThreadRec, ReleaseThen
  <2> HIDE DEF x
  <2>4. Hidden(t)
    BY <1>1, <2>1, <2>3, HiddenBy
  <2> QED BY <2>1, <2>2, <2>4, Unseen
<1> QED BY <1>4, <1>5, <1>6, <1>7, <1>8, <1>9, <1>10

\* The order to quit moves sleeping workers, which have no message.
LEMMA QuitHidden ==
    ASSUME ServerInv, Quit
    PROVE  UNCHANGED <<Box, Tasks, LifeOf>>
<1>1. UNCHANGED <<mq, ctx>>
  BY DEF Quit
<1>2. ASSUME NEW u \in Thread PROVE thr'[u].msg = thr[u].msg /\ thr'[u].q = thr[u].q
  <2>1. thr[u] \in ThreadRec
    BY ThreadFacts
  <2>2. thr'[u] = thr[u] \/ thr'[u] = [thr[u] EXCEPT !.pc = "top"]
    BY DEF Quit
  <2> QED BY <2>1, <2>2 DEF ThreadRec
<1>3. Tasks' = Tasks
  BY <1>2, TasksStay
<1> QED BY <1>1, <1>3 DEF Box, LifeOf
-----------------------------------------------------------------------------
(* The steps of the mailbox.                                               *)

\* One ring changes.
LEMMA BoxChanges ==
    ASSUME NEW s \in Service, NEW c, \A z \in Service : z # s => mq'[z].ring = mq[z].ring,
           Contents(mq'[s].ring) = c
    PROVE  Box' = [Box EXCEPT ![s] = c] /\ Box[s] = Contents(mq[s].ring)
BY DEF Box

\* The thread that has the queue of a service shows what the service does.
LEMMA TasksChange ==
    ASSUME ServerInv, NEW t \in Worker, \A u \in Thread : u # t => thr'[u] = thr[u],
           NEW s \in Service, thr[t].q = s, thr'[t].q = s
    PROVE  Tasks[s] = thr[t].msg /\ Tasks' = [Tasks EXCEPT ![s] = thr'[t].msg]
<1>1. \A u \in Worker : u # t => thr[u].q # s /\ thr'[u] = thr[u]
  BY DEF ServerInv, PlaceInv, Hand, Thread
<1>2. ASSUME NEW th, th[t].q = s, \A u \in Worker : th[u].q = s => u = t
      PROVE  Doing(th, s) = th[t].msg
  <2>1. CASE th[t].msg # NoMsg
    BY <1>2, <2>1, DoingIs DEF Runs
  <2>2. CASE th[t].msg = NoMsg
    BY <1>2, <2>2 DEF Doing, Runs
  <2> QED BY <2>1, <2>2
<1>3. Doing(thr, s) = thr[t].msg /\ Doing(thr', s) = thr'[t].msg
  BY <1>1, <1>2
<1>4. ASSUME NEW z \in Service, z # s PROVE Doing(thr', z) = Doing(thr, z)
  <2>1. \A u, v \in Worker : Runs(thr[u], z) /\ Runs(thr[v], z) => u = v
    BY RunsAlone DEF Thread
  <2>2. \A u \in Worker : /\ Runs(thr'[u], z) <=> Runs(thr[u], z)
                          /\ Runs(thr[u], z) => thr'[u].msg = thr[u].msg
    BY <1>1, <1>4 DEF Runs
  <2> QED BY <2>1, <2>2, DoingStays
<1> QED BY <1>3, <1>4 DEF Tasks

\* A push puts the message into the box of a live service.
LEMMA PushShows ==
    ASSUME ServerInv, NEW t \in Thread, Push(t)
    PROVE  MailboxOf!Next
<1>1. thr[t] \in ThreadRec /\ ThreadOK(thr[t]) /\ thr[t].pc = "push" /\ ctx' = ctx
  BY ThreadFacts DEF Push
<1>2. thr[t].rel \in Service /\ thr[t].out \in Message
  BY <1>1 DEF ThreadRec, ThreadOK
<1>3. PICK s \in Service, m \in Message : s = thr[t].rel /\ m = thr[t].out
  BY <1>2
<1>4. RefOf(thr[t], s) # 0
  BY <1>1, <1>3 DEF RefOf
<1>5. ctx[s].life = "live"
  BY <1>4, HeldLive
<1>6. mq \in [Service -> MqRec] /\ mq[s].ring \in Rings
  BY DEF ServerInv, Types, MqRec
<1>7. /\ mq' = [mq EXCEPT ![s] = [@ EXCEPT !.ring = RingPush(mq[s].ring, m), !.in_global = TRUE]]
      /\ thr' = [thr EXCEPT ![t] = ReleaseThen(t, s, thr[t].ret)]
  BY <1>3 DEF Push, skynet_mq_push
<1>8. /\ \A z \in Service : z # s => mq'[z].ring = mq[z].ring
      /\ mq'[s].ring = RingPush(mq[s].ring, m)
  BY <1>6, <1>7 DEF MqRec
<1>9. Box' = [Box EXCEPT ![s] = Append(Contents(mq[s].ring), m)] /\ Box[s] = Contents(mq[s].ring)
  BY <1>6, <1>8, PushAppends, BoxChanges
<1>10. Tasks' = Tasks /\ LifeOf' = LifeOf /\ LifeOf[s] = "live"
  <2>1. Hidden(t)
    BY <1>7, HiddenCalls
  <2> QED BY <1>1, <1>5, <2>1, TasksStay DEF Hidden, LifeOf
<1>11. MailboxOf!Put(s, m)
  BY <1>9, <1>10 DEF MailboxOf!Put
<1> QED BY <1>11 DEF MailboxOf!Next

\* A context is deleted while nobody runs the service.
LEMMA DeleteShows ==
    ASSUME ServerInv, NEW t \in Thread, Delete(t)
    PROVE  MailboxOf!Next
<1>1. thr[t] \in ThreadRec /\ ThreadOK(thr[t]) /\ thr[t].pc = "delete"
  BY ThreadFacts DEF Delete
<1>2. thr[t].rel \in Service
  BY <1>1 DEF ThreadRec, ThreadOK
<1>3. PICK s \in Service : s = thr[t].rel
  BY <1>2
<1>4. ctx[s].ref = 0 /\ ctx[s].life = "live"
  BY <1>1, <1>3 DEF ServerInv, Lives
<1>5. Tasks[s] = NoMsg
  <2>1. ASSUME NEW u \in Worker, Runs(thr[u], s) PROVE FALSE
    <3>1. u \in Thread
      BY DEF Thread
    <3>2. RefOf(thr[u], s) # 0
      BY <2>1 DEF Runs, RefOf, Busy
    <3> QED BY <1>4, <3>1, <3>2, HeldLive
  <2> QED BY <2>1 DEF Tasks, Doing
<1>6. ctx \in [Service -> CtxRec] /\ mq \in [Service -> MqRec]
  BY DEF ServerInv, Types
<1>7. /\ ctx' = [ctx EXCEPT ![s].life = "freed"] /\ mq' = [mq EXCEPT ![s].release = TRUE]
      /\ \E pc : Goto(t, pc)
  BY <1>3 DEF Delete
<1>8. /\ \A z \in Service : mq'[z].ring = mq[z].ring
      /\ \A z \in Service : ctx'[z].life = IF z = s THEN "freed" ELSE ctx[z].life
  BY <1>6, <1>7 DEF MqRec, CtxRec
<1>9. Box' = Box /\ LifeOf' = [LifeOf EXCEPT ![s] = "freed"] /\ LifeOf[s] = "live"
  BY <1>4, <1>8 DEF Box, LifeOf
<1>10. Tasks' = Tasks
  <2>1. Hidden(t)
    BY <1>7, HiddenCalls
  <2> QED BY <2>1, TasksStay DEF Hidden
<1>11. MailboxOf!Die(s)
  BY <1>5, <1>9, <1>10 DEF MailboxOf!Die
<1> QED BY <1>11 DEF MailboxOf!Next

\* A launched service starts with an empty box.
LEMMA LaunchShows ==
    ASSUME ServerInv, NEW t \in Thread, NEW s \in Service, Launch(t, s)
    PROVE  MailboxOf!Next
<1>1. thr[t] \in ThreadRec /\ ctx[s].life = "none"
  BY ThreadFacts DEF Launch
<1>2. /\ mq \in [Service -> MqRec] /\ mq[s].ring \in Rings /\ RingIsEmpty(mq[s].ring)
      /\ ctx \in [Service -> CtxRec]
  BY <1>1 DEF ServerInv, Types, MqRec, Lives
<1>3. EmptyRing \in Rings /\ RingIsEmpty(EmptyRing)
  BY EmptyRingOK
<1>4. Contents(mq[s].ring) = <<>> /\ Contents(EmptyRing) = <<>>
  BY <1>2, <1>3, EmptyContents
<1>5. /\ mq' = [mq EXCEPT ![s] = NewMq] /\ ctx' = [ctx EXCEPT ![s] = NewCtx]
      /\ NewMq.ring = EmptyRing /\ NewCtx.life = "live"
  BY DEF Launch, NewMq, NewCtx, NoMq, NoCtx
<1>6. \A z \in Service : /\ Contents(mq'[z].ring) = Contents(mq[z].ring)
                         /\ ctx'[z].life = IF z = s THEN "live" ELSE ctx[z].life
  BY <1>2, <1>4, <1>5
<1>7. Box' = Box /\ LifeOf' = [LifeOf EXCEPT ![s] = "live"] /\ LifeOf[s] = "none"
  BY <1>1, <1>6 DEF Box, LifeOf
<1>8. Tasks' = Tasks
  <2> DEFINE x == [thr[t] EXCEPT !.pc = "init", !.new = s]
  <2>1. thr' = [thr EXCEPT ![t] = x]
    BY ThreadFacts DEF Launch
  <2>2. x.msg = thr[t].msg /\ x.q = thr[t].q
    BY <1>1 DEF ThreadRec
  <2> HIDE DEF x
  <2>3. Hidden(t)
    BY <2>1, <2>2, HiddenBy
  <2> QED BY <2>3, TasksStay DEF Hidden
<1>9. MailboxOf!Create(s)
  BY <1>7, <1>8 DEF MailboxOf!Create
<1> QED BY <1>9 DEF MailboxOf!Next

\* A pop hands the oldest message to a service that handles none.
LEMMA PopShows ==
    ASSUME ServerInv, NEW t \in Thread, MqPop(t), ~RingIsEmpty(mq[thr[t].q].ring)
    PROVE  MailboxOf!Next
<1>1. /\ thr[t] \in ThreadRec /\ ThreadOK(thr[t]) /\ thr[t].pc = "mqpop" /\ ctx' = ctx
      /\ t \in External <=> At(thr[t]) = "outside"
  BY ThreadFacts DEF MqPop
<1>2. thr[t].q \in Service /\ thr[t].msg = NoMsg /\ t \in Worker
  BY <1>1 DEF ThreadRec, ThreadOK, At, Thread
<1>3. PICK s \in Service : s = thr[t].q
  BY <1>2
<1>4. RefOf(thr[t], s) # 0
  BY <1>1, <1>3 DEF RefOf, Busy
<1>5. ctx[s].life = "live"
  BY <1>4, HeldLive
<1>6. mq \in [Service -> MqRec] /\ mq[s].ring \in Rings
  BY DEF ServerInv, Types, MqRec
<1> DEFINE c == Contents(mq[s].ring)
           m == RingHead(mq[s].ring)
           pc == IF thr[t].i = 0 /\ Weight[t] >= 0 THEN "length" ELSE "handle"
           x == [thr[t] EXCEPT !.msg = m, !.pc = pc]
<1>7. /\ c # <<>> /\ m = Head(c) /\ Contents(RingPop(mq[s].ring)) = Tail(c)
      /\ m \in Message
  BY <1>3, <1>6, PopTakes, PopOK
<1>8. mq' = [mq EXCEPT ![s].ring = RingPop(@)] /\ thr' = [thr EXCEPT ![t] = x]
  BY <1>3, ThreadFacts DEF MqPop
<1> HIDE DEF c, m, pc
<1>9. x.msg = m /\ x.q = s
  BY <1>1, <1>3 DEF ThreadRec
<1> HIDE DEF x
<1>10. /\ \A z \in Service : z # s => mq'[z].ring = mq[z].ring
       /\ mq'[s].ring = RingPop(mq[s].ring)
  BY <1>6, <1>8 DEF MqRec
<1>11. Box' = [Box EXCEPT ![s] = Tail(c)] /\ Box[s] = c
  BY <1>7, <1>10, BoxChanges DEF c
<1>12. /\ \A u \in Thread : u # t => thr'[u] = thr[u]
       /\ thr'[t] = x
  BY <1>8, ThreadFacts
<1>13. Tasks[s] = NoMsg /\ Tasks' = [Tasks EXCEPT ![s] = m]
  BY <1>2, <1>3, <1>9, <1>12, TasksChange
<1>14. LifeOf' = LifeOf /\ LifeOf[s] = "live"
  BY <1>1, <1>5 DEF LifeOf
<1>15. MailboxOf!Take(s)
  BY <1>7, <1>11, <1>13, <1>14 DEF MailboxOf!Take
<1> QED BY <1>15 DEF MailboxOf!Next

\* The handler's return ends the message.
LEMMA ReturnShows ==
    ASSUME ServerInv, NEW t \in Thread, HandlerReturns(t)
    PROVE  MailboxOf!Next
<1>1. /\ thr[t] \in ThreadRec /\ ThreadOK(thr[t]) /\ thr[t].pc = "handle"
      /\ t \in External <=> At(thr[t]) = "outside"
      /\ UNCHANGED <<mq, ctx>>
  BY ThreadFacts DEF HandlerReturns
<1>2. thr[t].q \in Service /\ thr[t].msg # NoMsg /\ t \in Worker
  BY <1>1 DEF ThreadRec, ThreadOK, At, Thread
<1>3. PICK s \in Service : s = thr[t].q
  BY <1>2
<1> DEFINE pc == IF thr[t].i + 1 < thr[t].n THEN "mqpop" ELSE "swap"
           x == [thr[t] EXCEPT !.msg = NoMsg, !.i = thr[t].i + 1, !.pc = pc]
<1>4. thr' = [thr EXCEPT ![t] = x]
  BY ThreadFacts DEF HandlerReturns
<1> HIDE DEF pc
<1>5. x.msg = NoMsg /\ x.q = s
  BY <1>1, <1>3 DEF ThreadRec
<1> HIDE DEF x
<1>6. /\ \A u \in Thread : u # t => thr'[u] = thr[u]
      /\ thr'[t] = x
  BY <1>4, ThreadFacts
<1>7. Tasks[s] # NoMsg /\ Tasks' = [Tasks EXCEPT ![s] = NoMsg]
  BY <1>2, <1>3, <1>5, <1>6, TasksChange
<1>8. MailboxOf!Finish(s)
  BY <1>1, <1>7 DEF MailboxOf!Finish, Box, LifeOf
<1> QED BY <1>8 DEF MailboxOf!Next

\* A queue is drained, oldest message first, after its service is gone.
LEMMA DropShows ==
    ASSUME ServerInv, NEW t \in Thread, DropQueue(t), ~RingIsEmpty(mq[thr[t].dq].ring)
    PROVE  MailboxOf!Next
<1>1. thr[t] \in ThreadRec /\ ThreadOK(thr[t]) /\ thr[t].pc = "drop"
  BY ThreadFacts DEF DropQueue
<1>2. thr[t].dq \in Service /\ At(thr[t]) = "drop"
  BY <1>1 DEF ThreadRec, ThreadOK, At
<1>3. PICK s \in Service : s = thr[t].dq
  BY <1>2
<1>4. ctx[s].life = "freed"
  BY <1>2, <1>3 DEF ServerInv, Lives
<1>5. mq \in [Service -> MqRec] /\ mq[s].ring \in Rings
  BY DEF ServerInv, Types, MqRec
<1> DEFINE c == Contents(mq[s].ring)
<1>6. c # <<>> /\ Contents(RingPop(mq[s].ring)) = Tail(c)
  BY <1>3, <1>5, PopTakes
<1>7. /\ mq' = [mq EXCEPT ![s].ring = RingPop(@)]
      /\ \E d, m : skynet_context_push(t, d, m, "drop")
  BY <1>3 DEF DropQueue, drop_message
<1>8. Hidden(t) /\ \A z \in Service : ctx'[z].life = ctx[z].life
  BY <1>7, HiddenCalls
<1> HIDE DEF c
<1>9. /\ \A z \in Service : z # s => mq'[z].ring = mq[z].ring
      /\ mq'[s].ring = RingPop(mq[s].ring)
  BY <1>5, <1>7 DEF MqRec
<1>10. Box' = [Box EXCEPT ![s] = Tail(c)] /\ Box[s] = c
  BY <1>6, <1>9, BoxChanges DEF c
<1>11. Tasks' = Tasks
  BY <1>8, TasksStay DEF Hidden
<1>12. LifeOf' = LifeOf /\ LifeOf[s] = "freed"
  BY <1>4, <1>8 DEF LifeOf
<1>13. MailboxOf!Discard(s)
  BY <1>6, <1>10, <1>11, <1>12 DEF MailboxOf!Discard
<1> QED BY <1>13 DEF MailboxOf!Next

\* No service is handling anything when the threads start, and the rings are
\* empty wherever their heads are.
LEMMA InitShows ==
    Init => MailboxOf!Init
<1> SUFFICES ASSUME Init PROVE MailboxOf!Init
  OBVIOUS
<1>1. ServerInv
  BY InitOK
<1>2. ASSUME NEW s \in Service PROVE Contents(mq[s].ring) = <<>>
  <2>1. mq[s].ring \in Rings
    BY <1>1 DEF ServerInv, Types, MqRec
  <2>2. RingIsEmpty(mq[s].ring)
    BY DEF Init, BootMq, NewMq, NoMq, EmptyRing, RingIsEmpty
  <2> QED BY <2>1, <2>2, EmptyContents
<1>3. \A t \in Worker : thr[t].msg = NoMsg
  BY DEF Init, NewThread, Thread
<1>4. \A s \in Service : Doing(thr, s) = NoMsg
  BY <1>3 DEF Doing, Runs
<1>5. \A s \in Service : ctx[s].life \in {"none", "live"}
  BY DEF Init, NoCtx
<1> QED BY <1>2, <1>4, <1>5 DEF MailboxOf!Init, Box, Tasks, LifeOf

\* What a worker does is a step of a mailbox, or hidden.
LEMMA WorkerShows ==
    ASSUME ServerInv, NEW t \in Thread, WorkerStep(t)
    PROVE  MailboxOf!Next \/ UNCHANGED <<Box, Tasks, LifeOf>>
<1>1. CASE Push(t) \/ Delete(t) \/ HandlerReturns(t)
  BY <1>1, PushShows, DeleteShows, ReturnShows
<1>2. CASE MqPop(t)
  BY <1>2, PopShows, QueueSteps
<1>3. CASE DropQueue(t)
  BY <1>3, DropShows, QueueSteps
<1>4. CASE Top(t) \/ NextQueue(t) \/ TakeNext(t) \/ PutBack(t) \/ MqRelease(t)
  BY <1>4, QueueSteps
<1>5. CASE \/ Release(t) \/ InitReturns(t) \/ SetInit(t) \/ PushQueue(t) \/ LaunchFailed(t)
           \/ Grab(t) \/ MqLength(t) \/ Sleep(t)
           \/ \E s \in Service : Send(t, s) \/ Kill(t, s)
  BY <1>5, QuietSteps
<1>6. CASE \E s \in Service : Launch(t, s)
  BY <1>6, LaunchShows
<1> QED BY <1>1, <1>2, <1>3, <1>4, <1>5, <1>6 DEF WorkerStep, Continue

\* The dispatcher implements the mailboxes: for any number of services and
\* threads a service handles its messages one at a time and in the order of
\* skynet_mq_push, through every expansion of its ring and every change of
\* worker, handles none once it is gone, and is deleted between two messages.
THEOREM ServerImplementsMailbox ==
    Spec => MailboxSpec
<1>1. Init => MailboxOf!Init
  BY InitShows
<1>2. ServerInv /\ [Next]_vars => [MailboxOf!Next]_<<Box, Tasks, LifeOf>>
  <2> SUFFICES ASSUME ServerInv, [Next]_vars
               PROVE  MailboxOf!Next \/ UNCHANGED <<Box, Tasks, LifeOf>>
    OBVIOUS
  <2>1. Worker \subseteq Thread /\ External \subseteq Thread
    BY DEF Thread
  <2>2. ASSUME NEW t \in Worker, WorkerStep(t) \/ WakeUp(t)
        PROVE  MailboxOf!Next \/ UNCHANGED <<Box, Tasks, LifeOf>>
    BY <2>1, <2>2, WorkerShows, QuietSteps
  <2>3. ASSUME NEW t \in External, Continue(t) \/ \E s \in Service : Send(t, s)
        PROVE  MailboxOf!Next \/ UNCHANGED <<Box, Tasks, LifeOf>>
    BY <2>1, <2>3, WorkerShows DEF WorkerStep
  <2>4. CASE Quit
    BY <2>4, QuitHidden
  <2>5. CASE Ended \/ UNCHANGED vars
    <3>1. UNCHANGED <<mq, ctx, thr>>
      BY <2>5 DEF Ended, vars
    <3> QED BY <3>1 DEF Box, Tasks, LifeOf
  <2> QED BY <2>2, <2>3, <2>4, <2>5 DEF Next
<1> QED BY <1>1, <1>2, ServerInvariant, PTL DEF Spec, MailboxSpec, MailboxOf!Spec
=============================================================================
