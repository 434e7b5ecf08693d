------------------------- MODULE SkynetQueueProofs --------------------------
(***************************************************************************)
(* Proofs about SkynetQueue for any set of coroutines and any bounds.  The *)
(* invariants of the module are proved together: the slots, the program    *)
(* counters and the owner only make sense as one.                          *)
(***************************************************************************)
EXTENDS SkynetQueue, SequenceTheorems, TLAPS

USE QueueAssumption

\* The queue as skynet.queue() creates it satisfies the invariant.
LEMMA InitInv == Init => QueueInv
BY DEF Init, QueueInv, TypeOK, MutualExclusion, AssertHolds, RingExact,
       NoLostWakeup, HandedOver, PCs

\* A call that finds the section free, or is nested, preserves it.
LEMMA CallFreeInv ==
    ASSUME QueueInv, NEW th \in Threads, CallFree(th)
    PROVE  QueueInv'
<1> USE DEF QueueInv, CallFree, Enter
<1>0. /\ ref = depth[th] /\ ref \in Nat
      /\ \A x \in Threads : x # th => pc[x] \in {"out", "waiting"}
  BY DEF TypeOK, MutualExclusion, AssertHolds, HandedOver, NoLostWakeup, PCs
<1>1. TypeOK'
  BY DEF TypeOK, PCs
<1>2. MutualExclusion' /\ AssertHolds'
  BY <1>0 DEF TypeOK, MutualExclusion, AssertHolds
<1>3. RingExact'
  BY DEF RingExact
<1>4. NoLostWakeup'
  BY <1>0 DEF NoLostWakeup, TypeOK
<1>5. HandedOver'
  BY <1>0 DEF HandedOver, TypeOK
<1> QED BY <1>1, <1>2, <1>3, <1>4, <1>5

\* A call that has to wait preserves it: slot t + 1 was free.
LEMMA CallBusyInv ==
    ASSUME QueueInv, NEW th \in Threads, CallBusy(th)
    PROVE  QueueInv'
<1> USE DEF QueueInv, CallBusy
<1>1. TypeOK'
  BY DEF TypeOK, PCs
<1>2. MutualExclusion' /\ AssertHolds' /\ HandedOver'
  BY DEF TypeOK, MutualExclusion, AssertHolds, HandedOver
<1>3. RingExact'
  <2>1. DOMAIN thread_queue = h .. t /\ h \in Nat \ {0} /\ t \in Nat /\ h <= t + 1
    BY DEF RingExact, TypeOK
  <2>2. DOMAIN thread_queue' = (h .. t) \cup {t + 1}
    BY <2>1
  <2>3. (h .. t) \cup {t + 1} = h .. (t + 1)
    BY <2>1
  <2> QED BY <2>1, <2>2, <2>3 DEF RingExact
<1>4. NoLostWakeup'
  <2>1. t + 1 \notin DOMAIN thread_queue
    BY DEF RingExact, TypeOK
  <2> QED BY <2>1 DEF NoLostWakeup, TypeOK
<1> QED BY <1>1, <1>2, <1>3, <1>4

\* The resumption of the new owner preserves it: ref is still 0.
LEMMA ResumeInv ==
    ASSUME QueueInv, NEW th \in Threads, Resume(th)
    PROVE  QueueInv'
<1> USE DEF QueueInv, Resume, Enter
<1>0. ref = 0 /\ current_thread = th
  BY DEF HandedOver
<1>1. TypeOK'
  BY <1>0 DEF TypeOK, PCs
<1>2. MutualExclusion' /\ AssertHolds'
  BY <1>0 DEF TypeOK, MutualExclusion, AssertHolds, HandedOver
<1>3. RingExact'
  BY DEF RingExact
<1>4. NoLostWakeup'
  BY <1>0 DEF NoLostWakeup, TypeOK
<1>5. HandedOver'
  BY <1>0 DEF HandedOver, TypeOK, MutualExclusion
<1> QED BY <1>1, <1>2, <1>3, <1>4, <1>5

\* The return of f preserves it, whether it is nested or hands the section on.
LEMMA ReturnInv ==
    ASSUME QueueInv, NEW th \in Threads, Return(th)
    PROVE  QueueInv'
<1> USE DEF QueueInv, Return
<1>0. /\ pc[th] = "in" /\ current_thread = th /\ ref = depth[th]
      /\ depth[th] \in Nat \ {0}
      /\ \A x \in Threads : x # th => pc[x] \in {"out", "waiting"}
  BY DEF MutualExclusion, HandedOver, TypeOK, AssertHolds, PCs
<1>1. CASE ref - 1 # 0
  <2>0. /\ pc' = pc /\ ref' = ref - 1 /\ depth' = [depth EXCEPT ![th] = @ - 1]
        /\ UNCHANGED <<current_thread, h, t, thread_queue>>
        /\ co2urs' \in SUBSET Threads
    BY <1>0, <1>1 DEF TypeOK
  <2>1. TypeOK'
    BY <1>0, <2>0 DEF TypeOK
  <2>2. MutualExclusion' /\ AssertHolds' /\ RingExact' /\ NoLostWakeup' /\ HandedOver'
    BY <1>0, <1>1, <2>0 DEF TypeOK, MutualExclusion, AssertHolds, RingExact,
                            NoLostWakeup, HandedOver
  <2> QED BY <2>1, <2>2
<1>2. CASE ref - 1 = 0
  <2>0. HandOff(th) /\ ref' = 0 /\ depth' = [depth EXCEPT ![th] = 0]
        /\ co2urs' \in SUBSET Threads
    BY <1>0, <1>2 DEF TypeOK
  <2> DEFINE next == Slot(h)
  <2>1. CASE h > t
    <3>1. /\ DOMAIN thread_queue = {} /\ h = 1 /\ t = 0
          /\ next = NoThread /\ current_thread' = NoThread
          /\ h' = 1 /\ t' = 0 /\ DOMAIN thread_queue' = {}
      BY <1>0, <2>0, <2>1 DEF HandOff, Slot, RingExact, TypeOK
    <3>1a. pc' = [x \in Threads |-> IF x = th THEN "out" ELSE pc[x]]
      BY <1>0, <2>0, <3>1 DEF HandOff, Slot, TypeOK
    <3>2. TypeOK'
      BY <1>0, <2>0, <3>1, <3>1a DEF TypeOK, PCs
    <3>3. MutualExclusion' /\ AssertHolds' /\ RingExact' /\ NoLostWakeup' /\ HandedOver'
      BY <1>0, <2>0, <3>1, <3>1a DEF TypeOK, MutualExclusion, AssertHolds, RingExact,
                              NoLostWakeup, HandedOver
    <3> QED BY <3>2, <3>3
  <2>2. CASE h <= t
    <3>1. /\ h \in DOMAIN thread_queue /\ next = thread_queue[h]
          /\ next \in Threads /\ pc[next] = "waiting" /\ next # th
          /\ current_thread' = next
      BY <1>0, <2>0, <2>2 DEF HandOff, Slot, RingExact, TypeOK, NoLostWakeup
    <3>2. pc' = [x \in Threads |-> IF x = th THEN "out"
                                   ELSE IF x = next THEN "woken" ELSE pc[x]]
      BY <1>0, <2>0, <3>1 DEF HandOff, TypeOK
    <3>3. /\ thread_queue' = [i \in DOMAIN thread_queue \ {h} |-> thread_queue[i]]
          /\ DOMAIN thread_queue' = (h + 1) .. t
          /\ DOMAIN thread_queue' = h' .. t'
          /\ h' > t' => h' = 1 /\ t' = 0
          /\ h' \in Nat \ {0} /\ t' \in Nat
      BY <2>0, <2>2, <3>1 DEF HandOff, RingExact, TypeOK
    <3>4. TypeOK'
      BY <2>0, <3>1, <3>2, <3>3 DEF TypeOK, PCs
    <3>5. MutualExclusion' /\ AssertHolds' /\ HandedOver'
      BY <1>0, <2>0, <3>1, <3>2 DEF TypeOK, MutualExclusion, AssertHolds, HandedOver
    <3>6. RingExact'
      BY <3>3 DEF RingExact
    <3>7. NoLostWakeup'
      BY <1>0, <3>1, <3>2, <3>3 DEF NoLostWakeup, TypeOK
    <3> QED BY <3>4, <3>5, <3>6, <3>7
  <2> QED BY <2>1, <2>2 DEF TypeOK
<1> QED BY <1>1, <1>2

\* Every reachable state of the queue satisfies the inductive invariant, for
\* any coroutines: mutual exclusion, the assert behind wait(), the exact ring
\* and the absence of lost wakeups (queue.lua:90-131).
THEOREM QueueInvariant == Spec => []QueueInv
<1>1. QueueInv /\ [Next]_vars => QueueInv'
  <2> SUFFICES ASSUME QueueInv, [Next]_vars
               PROVE  QueueInv'
    OBVIOUS
  <2>1. CASE Next
    BY <2>1, CallFreeInv, CallBusyInv, ResumeInv, ReturnInv DEF Next
  <2>2. CASE UNCHANGED vars
    BY <2>2 DEF vars, QueueInv, TypeOK, MutualExclusion, AssertHolds,
                RingExact, NoLostWakeup, HandedOver
  <2> QED BY <2>1, <2>2
<1> QED BY InitInv, <1>1, PTL DEF Spec

\* The queue is a mutex: two coroutines are never inside f together.
THEOREM Mutex == Spec => []MutualExclusion
BY QueueInvariant, PTL DEF QueueInv

\* The assert(ref == 0) behind skynet.wait() (queue.lua:71, 124) never fires.
THEOREM AssertNeverFires == Spec => []AssertHolds
BY QueueInvariant, PTL DEF QueueInv

\* No coroutine sleeps in a queue that nobody will hand over.
THEOREM WakeupsNotLost == Spec => []NoLostWakeup
BY QueueInvariant, PTL DEF QueueInv
-----------------------------------------------------------------------------
\* An owned section has a line of t - h + 2 coroutines; a free one has none
\* and its ring is reset.
LEMMA LineShape ==
    ASSUME QueueInv
    PROVE  /\ current_thread = NoThread => h = 1 /\ t = 0 /\ Line = <<>>
           /\ current_thread # NoThread =>
                 /\ Line \in Seq(Threads)
                 /\ Len(Line) = t - h + 2
                 /\ Len(Line) >= 1
                 /\ Line[1] = current_thread
                 /\ \A i \in 2 .. Len(Line) : Line[i] = thread_queue[h + i - 2]
<1> USE DEF QueueInv
<1>1. CASE current_thread = NoThread
  <2>1. h .. t = {} /\ h \in Nat /\ t \in Nat
    BY <1>1 DEF NoLostWakeup, RingExact, TypeOK
  <2>2. h > t
    BY <2>1
  <2> QED BY <1>1, <2>2 DEF Line, RingExact
<1>2. CASE current_thread # NoThread
  <2> DEFINE n == t - h + 2
  <2>1. n \in Nat /\ n >= 1 /\ h \in Nat /\ t \in Nat /\ DOMAIN thread_queue = h .. t
    BY DEF RingExact, TypeOK
  <2>2. \A i \in 2 .. n : h + i - 2 \in h .. t
    BY <2>1
  <2>3. Line = [i \in 1 .. n |-> IF i = 1 THEN current_thread
                                 ELSE thread_queue[h + i - 2]]
    BY <1>2 DEF Line
  <2>4. \A i \in 1 .. n : Line[i] \in Threads
    BY <1>2, <2>1, <2>2, <2>3 DEF TypeOK
  <2> QED BY <1>2, <2>1, <2>3, <2>4
<1> QED BY <1>1, <1>2

\* Each step of the queue is a step of the lock or leaves the line alone.
LEMMA LineStep ==
    ASSUME QueueInv, QueueInv', Next
    PROVE  Lock!Next \/ UNCHANGED Line
<1>0. (current_thread # NoThread =>
         /\ Line \in Seq(Threads) /\ Len(Line) = t - h + 2
         /\ Line[1] = current_thread
         /\ \A i \in 2 .. Len(Line) : Line[i] = thread_queue[h + i - 2])'
  BY LineShape, PTL
<1> USE DEF QueueInv
<1> PICK th \in Threads : CallFree(th) \/ CallBusy(th) \/ Resume(th) \/ Return(th)
  BY DEF Next
<1>1. CASE CallFree(th)
  <2>1. CASE current_thread = NoThread
    <3>1. Line = <<>> /\ h = 1 /\ t = 0
      BY <2>1, LineShape
    <3>2. Line' = <<th>>
      BY <1>1, <3>1 DEF CallFree, Enter, Line
    <3>3. Lock!Arrive(th)
      BY <3>1, <3>2 DEF Lock!Arrive
    <3> QED BY <3>3 DEF Lock!Next
  <2>2. CASE current_thread = th
    BY <1>1, <2>2 DEF CallFree, Enter, Line
  <2> QED BY <1>1, <2>1, <2>2 DEF CallFree
<1>2. CASE CallBusy(th)
  <2>1. /\ current_thread # NoThread /\ current_thread # th /\ pc[th] = "out"
        /\ current_thread' = current_thread /\ h' = h /\ t' = t + 1
        /\ \A i \in DOMAIN thread_queue : thread_queue'[i] = thread_queue[i]
        /\ thread_queue'[t + 1] = th
    <3>1. t + 1 \notin DOMAIN thread_queue
      BY DEF RingExact, TypeOK
    <3> QED BY <1>2, <3>1 DEF CallBusy
  <2>2. /\ Line \in Seq(Threads) /\ Len(Line) = t - h + 2 /\ Len(Line) >= 1
        /\ Line[1] = current_thread
        /\ \A i \in 2 .. Len(Line) : Line[i] = thread_queue[h + i - 2]
    BY <2>1, LineShape
  <2>3. \A i \in DOMAIN Line : Line[i] # th
    <3>1. h \in Nat /\ t \in Nat /\ DOMAIN thread_queue = h .. t
      BY DEF RingExact, TypeOK
    <3>2. \A j \in DOMAIN thread_queue : thread_queue[j] # th
      BY <2>1 DEF NoLostWakeup
    <3>3. ASSUME NEW i \in 2 .. Len(Line) PROVE Line[i] # th
      <4>1. h + i - 2 \in DOMAIN thread_queue
        BY <2>2, <3>1
      <4> QED BY <2>2, <3>2, <4>1
    <3>4. DOMAIN Line = 1 .. Len(Line)
      BY <2>2
    <3> QED BY <2>1, <2>2, <3>3, <3>4
  <2>4. Line' = Append(Line, th)
    <3>1. h \in Nat /\ t \in Nat /\ DOMAIN thread_queue = h .. t
      BY DEF RingExact, TypeOK
    <3>2. /\ Append(Line, th) \in Seq(Threads)
          /\ Len(Append(Line, th)) = Len(Line) + 1
          /\ \A i \in 1 .. Len(Line) : Append(Line, th)[i] = Line[i]
          /\ Append(Line, th)[Len(Line) + 1] = th
      BY <2>2, AppendProperties
    <3>3. /\ Line' \in Seq(Threads) /\ Len(Line') = Len(Line) + 1
          /\ Line'[1] = current_thread
          /\ \A i \in 2 .. Len(Line') : Line'[i] = thread_queue'[h + i - 2]
      BY <1>0, <2>1, <2>2, <3>1
    <3>4. ASSUME NEW i \in 1 .. Len(Line')
          PROVE  Line'[i] = Append(Line, th)[i]
      <4>1. CASE i = Len(Line) + 1
        <5>1. i \in 2 .. Len(Line') /\ h + i - 2 = t + 1
          BY <2>2, <3>1, <3>3, <4>1
        <5> QED BY <2>1, <3>2, <3>3, <4>1, <5>1
      <4>2. CASE i = 1
        <5>1. i \in 1 .. Len(Line)
          BY <2>2, <4>2
        <5> QED BY <2>2, <3>2, <3>3, <4>2, <5>1
      <4>3. CASE i \in 2 .. Len(Line)
        <5>1. /\ h + i - 2 \in DOMAIN thread_queue
              /\ i \in 2 .. Len(Line') /\ i \in 1 .. Len(Line)
          BY <2>2, <3>1, <3>3, <4>3
        <5> QED BY <2>1, <2>2, <3>2, <3>3, <4>3, <5>1
      <4> QED BY <2>2, <3>3, <4>1, <4>2, <4>3
    <3> QED BY <3>2, <3>3, <3>4, SeqEqual
  <2> QED BY <2>3, <2>4 DEF Lock!Next, Lock!Arrive
<1>3. CASE Resume(th)
  <2>1. ref = 0 /\ current_thread = th
    BY <1>3 DEF Resume, HandedOver
  <2> QED BY <1>3, <2>1 DEF Resume, Enter, Line
<1>4. CASE Return(th)
  <2>1. CASE ref - 1 # 0
    BY <1>4, <2>1 DEF Return, Line
  <2>2. CASE ref - 1 = 0
    <3>1. /\ HandOff(th) /\ current_thread = th /\ h \in Nat \ {0} /\ t \in Nat
          /\ DOMAIN thread_queue = h .. t /\ th # NoThread
      BY <1>4, <2>2 DEF Return, MutualExclusion, RingExact, TypeOK
    <3>2. /\ Line \in Seq(Threads) /\ Len(Line) = t - h + 2 /\ Len(Line) >= 1
          /\ \A i \in 2 .. Len(Line) : Line[i] = thread_queue[h + i - 2]
      BY <3>1, LineShape
    <3>3. Line' = Tail(Line)
      <4>0. /\ Line # <<>> /\ Tail(Line) \in Seq(Threads)
            /\ Len(Tail(Line)) = Len(Line) - 1
            /\ \A i \in 1 .. Len(Tail(Line)) : Tail(Line)[i] = Line[i + 1]
        <5>1. Line # <<>>
          BY <3>2
        <5> QED BY <3>2, <5>1, HeadTailProperties
      <4>1. CASE h > t
        <5>1. current_thread' = NoThread /\ Len(Line) = 1
          BY <3>1, <3>2, <4>1 DEF HandOff, Slot, RingExact
        <5>2. Line' = <<>>
          BY <5>1 DEF Line
        <5>3. Len(Tail(Line)) = 0
          BY <4>0, <5>1
        <5> QED BY <4>0, <5>2, <5>3, EmptySeq
      <4>2. CASE h <= t
        <5>1. /\ current_thread' = thread_queue[h] /\ thread_queue[h] # NoThread
              /\ thread_queue' = [i \in (h + 1) .. t |-> thread_queue[i]]
          <6>1. h \in DOMAIN thread_queue /\ (h .. t) \ {h} = (h + 1) .. t
            BY <3>1, <4>2
          <6> QED BY <3>1, <6>1 DEF HandOff, Slot, TypeOK
        <5>2. /\ Line' \in Seq(Threads) /\ Len(Line') = t' - h' + 2
              /\ Line'[1] = current_thread'
              /\ \A i \in 2 .. Len(Line') : Line'[i] = thread_queue'[h' + i - 2]
          BY <1>0, <5>1
        <5>3. Len(Line') = Len(Line) - 1
          BY <3>1, <3>2, <4>2, <5>2 DEF HandOff
        <5>4. ASSUME NEW i \in 1 .. Len(Line') PROVE Line'[i] = Tail(Line)[i]
          <6>1. Tail(Line)[i] = Line[i + 1] /\ Line[i + 1] = thread_queue[h + i - 1]
            <7>1. i \in 1 .. Len(Tail(Line)) /\ i + 1 \in 2 .. Len(Line)
              BY <3>2, <4>0, <5>3
            <7>2. h + (i + 1) - 2 = h + i - 1
              BY <3>1, <7>1
            <7> QED BY <3>2, <4>0, <7>1, <7>2
          <6>2. CASE i = 1
            <7>1. h + i - 1 = h
              BY <3>1, <6>2
            <7> QED BY <5>1, <5>2, <6>1, <6>2, <7>1
          <6>3. CASE i > 1
            <7>1. h' = h + 1 /\ t' = t
              BY <3>1, <3>2, <4>2, <5>3, <6>3 DEF HandOff
            <7>2. h + i - 1 \in (h + 1) .. t /\ h' + i - 2 = h + i - 1
                  /\ i \in 2 .. Len(Line')
              BY <3>1, <3>2, <5>3, <6>3, <7>1
            <7> QED BY <5>1, <5>2, <6>1, <7>2
          <6> QED BY <5>3, <3>2, <6>2, <6>3
        <5> QED BY <4>0, <5>2, <5>3, <5>4, SeqEqual
      <4> QED BY <3>1, <4>1, <4>2
    <3> QED BY <3>2, <3>3 DEF Lock!Next, Lock!Leave
  <2> QED BY <2>1, <2>2
<1> QED BY <1>1, <1>2, <1>3, <1>4

\* The slot table of queue.lua implements the first-come first-served lock:
\* ownership is exclusive and is granted in the order of the calls.
THEOREM Refinement == Spec => FifoSpec
<1>1. Init => Lock!Init
  BY DEF Init, Lock!Init, Line
<1>2. QueueInv /\ QueueInv' /\ [Next]_vars => [Lock!Next]_Line
  <2>1. QueueInv /\ QueueInv' /\ Next => [Lock!Next]_Line
    BY LineStep
  <2>2. UNCHANGED vars => UNCHANGED Line
    BY DEF vars, Line
  <2> QED BY <2>1, <2>2
<1> QED BY <1>1, <1>2, QueueInvariant, PTL DEF Spec, FifoSpec, Lock!Spec
=============================================================================
