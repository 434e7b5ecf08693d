---------------------------- MODULE SkynetQueue -----------------------------
(***************************************************************************)
(* The critical section of skynet/lualib/skynet/queue.lua, as rewritten in *)
(* this repository: the waiting coroutines sit in the slots h..t of a Lua  *)
(* table instead of being shifted by table.remove.  Both variants of the   *)
(* file are modelled: the plain one and the agent's, which also tags the   *)
(* coroutine with the account (urs) whose queue it runs in.                *)
(*                                                                         *)
(* A coroutine is interrupted only where it yields, so a call up to its    *)
(* wait(), the resumption up to the start of f, and the return of f are    *)
(* one step each; what f does in between is left to the other modules.     *)
(***************************************************************************)
EXTENDS Integers, FiniteSets

CONSTANTS Threads,    \* the coroutines of the service
          NoThread,   \* Lua's nil
          OwnerUrs,   \* TRUE in the agent service, where the queue has an owner
          MaxSlot,    \* bound on t, which only an idle moment resets
          MaxDepth    \* bound on the nesting of cs(f) calls of one coroutine

ASSUME QueueAssumption == /\ NoThread \notin Threads
                          /\ OwnerUrs \in BOOLEAN
                          /\ MaxSlot \in Nat
                          /\ MaxDepth \in Nat

VARIABLES current_thread,  \* the owner, or NoThread
          ref,             \* how many calls of the owner are open
          h, t,            \* thread_queue.h and thread_queue.t
          thread_queue,    \* its array part: slot -> waiting coroutine
          pc,              \* where each coroutine is
          depth,           \* the open cs(f) calls of each coroutine
          co2urs           \* the coroutines tagged with the owner's urs

vars == <<current_thread, ref, h, t, thread_queue, pc, depth, co2urs>>

\* "out": not in a call; "waiting": inside skynet.wait(); "woken": in the
\* scheduler's wakeup queue; "in": running f; "failed": the assert raised.
PCs == {"out", "waiting", "woken", "in", "failed"}

Init == /\ current_thread = NoThread
        /\ ref = 0
        /\ h = 1
        /\ t = 0
        /\ thread_queue = [i \in {} |-> NoThread]
        /\ pc = [th \in Threads |-> "out"]
        /\ depth = [th \in Threads |-> 0]
        /\ co2urs = {}
-----------------------------------------------------------------------------
\* Lua's indexing: an absent slot reads as nil.
Slot(i) == IF i \in DOMAIN thread_queue THEN thread_queue[i] ELSE NoThread

\* current_thread = thread; ref = ref + 1; co2urs[thread] = urs; f starts.
Enter(th) == /\ current_thread' = th
             /\ ref' = ref + 1
             /\ pc' = [pc EXCEPT ![th] = "in"]
             /\ depth' = [depth EXCEPT ![th] = @ + 1]
             /\ co2urs' = IF OwnerUrs THEN co2urs \cup {th} ELSE co2urs

\* Mutant of CallFree: the test of current_thread is gone.
CallFreeBarging(th) == /\ pc[th] \in {"out", "in"}
                       /\ depth[th] < MaxDepth
                       /\ Enter(th)
                       /\ UNCHANGED <<h, t, thread_queue>>

\* cs(f) when nobody owns the section, or from inside the caller's own f.
CallFree(th) == /\ pc[th] \in {"out", "in"}
                /\ current_thread \in {NoThread, th}
                /\ depth[th] < MaxDepth
                /\ Enter(th)
                /\ UNCHANGED <<h, t, thread_queue>>

\* cs(f) while another coroutine owns the section: take slot t + 1, wait.
CallBusy(th) == /\ pc[th] = "out"
                /\ current_thread \notin {NoThread, th}
                /\ t < MaxSlot /\ MaxDepth > 0
                /\ t' = t + 1
                /\ thread_queue' = [i \in DOMAIN thread_queue \cup {t + 1} |->
                                      IF i = t + 1 THEN th ELSE thread_queue[i]]
                /\ pc' = [pc EXCEPT ![th] = "waiting"]
                /\ UNCHANGED <<current_thread, ref, h, depth, co2urs>>

\* The scheduler resumes a woken coroutine: assert(ref == 0), then f starts.
Resume(th) == /\ pc[th] = "woken"
              /\ IF ref = 0
                 THEN Enter(th)
                 ELSE /\ pc' = [pc EXCEPT ![th] = "failed"]
                      /\ UNCHANGED <<current_thread, ref, depth, co2urs>>
              /\ UNCHANGED <<h, t, thread_queue>>

\* Mutants of HandOff: the section passes to newOwner and the wakeup goes to
\* woken, slots are left behind, and an empty ring restarts at first.
HandOffWith(th, newOwner, woken, slots, first) ==
    /\ current_thread' = newOwner
    /\ thread_queue' = [i \in slots |-> thread_queue[i]]
    /\ IF h + 1 > t THEN h' = first /\ t' = 0 ELSE h' = h + 1 /\ t' = t
    /\ pc' = [x \in Threads |->
                IF x = th THEN "out"
                ELSE IF x = woken /\ pc[x] = "waiting" THEN "woken" ELSE pc[x]]

\* The section is free until the woken coroutine runs.
HandOffUnowned(th) ==
    HandOffWith(th, NoThread, Slot(h), DOMAIN thread_queue \ {h}, 1)

\* skynet.wakeup is not called.
HandOffSilent(th) == HandOffWith(th, Slot(h), NoThread, DOMAIN thread_queue \ {h}, 1)

\* The last arrival goes first, the others keep their slots.
HandOffLast(th) ==
    /\ current_thread' = Slot(t)
    /\ thread_queue' = [i \in DOMAIN thread_queue \ {t} |-> thread_queue[i]]
    /\ IF h + 1 > t THEN h' = 1 /\ t' = 0 ELSE h' = h /\ t' = t - 1
    /\ pc' = [x \in Threads |->
                IF x = th THEN "out"
                ELSE IF x = Slot(t) /\ pc[x] = "waiting" THEN "woken" ELSE pc[x]]

\* Hand the section to the coroutine in slot h (nil when there is none),
\* clear the slot, advance h and restart the ring when it has run empty;
\* wakeup() only reaches a coroutine that is inside skynet.wait().
HandOff(th) ==
    LET next == Slot(h)
    IN /\ current_thread' = next
       /\ thread_queue' = [i \in DOMAIN thread_queue \ {h} |-> thread_queue[i]]
       /\ IF h + 1 > t THEN h' = 1 /\ t' = 0 ELSE h' = h + 1 /\ t' = t
       /\ pc' = [x \in Threads |->
                   IF x = th THEN "out"
                   ELSE IF x = next /\ pc[x] = "waiting" THEN "woken" ELSE pc[x]]

\* f has returned or raised: xpcall_ret.  Every return, the nested ones
\* too, removes the coroutine's tag.
Return(th) ==
    /\ pc[th] = "in"
    /\ ref' = ref - 1
    /\ depth' = [depth EXCEPT ![th] = @ - 1]
    /\ co2urs' = IF OwnerUrs THEN co2urs \ {th} ELSE co2urs
    /\ \/ ref - 1 = 0 /\ HandOff(th)
       \/ /\ ref - 1 # 0
          /\ pc' = [pc EXCEPT ![th] = IF depth[th] = 1 THEN "out" ELSE "in"]
          /\ UNCHANGED <<current_thread, h, t, thread_queue>>

Next == \E th \in Threads : \/ CallFree(th) \/ CallBusy(th)
                            \/ Resume(th) \/ Return(th)

Spec == Init /\ [][Next]_vars

\* The scheduler resumes what was woken, and every f ends: nested calls
\* return, and f does not make nested calls for ever.
Fairness == \A th \in Threads : /\ WF_vars(Resume(th))
                                /\ WF_vars(Return(th))
                                /\ SF_vars(Return(th) /\ ref = 1)

FairSpec == Spec /\ Fairness
-----------------------------------------------------------------------------
TypeOK == /\ current_thread \in Threads \cup {NoThread}
          /\ ref \in Nat
          /\ h \in Nat \ {0}
          /\ t \in Nat
          /\ DOMAIN thread_queue \subseteq Nat
          /\ \A i \in DOMAIN thread_queue : thread_queue[i] \in Threads
          /\ pc \in [Threads -> PCs]
          /\ depth \in [Threads -> Nat]
          /\ co2urs \in SUBSET Threads

\* At most one coroutine is inside f, and it is current_thread with all of
\* the open calls; the function returned by skynet.queue() is a mutex.
MutualExclusion ==
    \A th \in Threads : pc[th] = "in" => /\ current_thread = th
                                         /\ ref = depth[th]

\* The assert(ref == 0) behind skynet.wait() never fires: nobody can enter
\* between the hand-off of the section and the resumption of its new owner.
AssertHolds == \A th \in Threads : pc[th] # "failed"

\* The used slots are exactly h..t, so Slot(h) is nil only when the line is
\* empty, and an empty ring has been reset to h = 1, t = 0.
RingExact == /\ DOMAIN thread_queue = h .. t
             /\ h > t => h = 1 /\ t = 0

\* No lost wakeup: the slots hold the sleeping coroutines, each in one slot,
\* and while anyone sleeps some coroutine is there to hand the section over.
NoLostWakeup ==
    /\ \A th \in Threads : pc[th] = "waiting"
          <=> \E i \in DOMAIN thread_queue : thread_queue[i] = th
    /\ \A i, j \in DOMAIN thread_queue :
          thread_queue[i] = thread_queue[j] => i = j
    /\ DOMAIN thread_queue # {} => current_thread # NoThread
    /\ current_thread # NoThread => pc[current_thread] \in {"in", "woken"}

\* What the hand-off needs to know: a coroutine between wakeup and
\* resumption already owns the section, with no call open; the owner's
\* open calls are the ones counted in ref.
HandedOver ==
    /\ \A th \in Threads : pc[th] = "woken" => current_thread = th /\ ref = 0
    /\ \A th \in Threads : pc[th] = "in" <=> depth[th] > 0
    /\ current_thread = NoThread => ref = 0

\* The inductive invariant of the queue.
QueueInv == /\ TypeOK /\ MutualExclusion /\ AssertHolds /\ RingExact
            /\ NoLostWakeup /\ HandedOver

\* Every coroutine that waits for the section enters it.
EveryWaiterEnters ==
    \A th \in Threads : (pc[th] = "waiting") ~> (pc[th] = "in")

\* The line of coroutines: the owner, then the slots in order.
Line == IF current_thread = NoThread THEN <<>>
        ELSE [i \in 1 .. (t - h + 2) |-> IF i = 1 THEN current_thread
                                         ELSE thread_queue[h + i - 2]]

\* The slot table implements the first-come first-served lock.
Lock == INSTANCE FifoLock WITH line <- Line
FifoSpec == Lock!Spec
=============================================================================
