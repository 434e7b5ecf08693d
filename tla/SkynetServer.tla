-------------------------- MODULE SkynetServer --------------------------
(***************************************************************************)
(* The message dispatcher of the engine: contexts with their reference     *)
(* counts (skynet_server.c), one queue per service and the global queue of *)
(* queues (skynet_mq.c), and the worker threads (skynet_start.c).          *)
(*                                                                         *)
(* A step is what one thread does under one lock or with one atomic        *)
(* instruction.  A thread's record keeps where it is (pc), the queue it    *)
(* dispatches (q, with the loop counters i and n and the message msg), the *)
(* queue it took next (nq), the service it launches (new), the queue it    *)
(* drops (dq), and, for the send or release it is in, the context it holds *)
(* (rel), the message to push (out) and where it goes on (ret).            *)
(*                                                                         *)
(* A handle stands for its service: handles are not reused within the      *)
(* model's bounds and the handle table is its set of registered services   *)
(* (module SkynetHandle models the table).  No service is the exit monitor *)
(* (G_NODE.monitor_exit is 0 unless a service asks for MONITOR).           *)
(***************************************************************************)
EXTENDS SkynetMq, FiniteSets

CONSTANTS Service, Worker,
          External,          \* threads that only push: timer, socket
          None,              \* no service; the handle 0
          Boot,              \* the services launched before the threads start
          Weight,            \* weight[] of thread start, per worker
          MaxMsg             \* bound: requests sent

ASSUME ThreadAssumption == /\ Worker \cap External = {}
                           /\ IsFiniteSet(Worker) /\ IsFiniteSet(External)
ASSUME BootAssumption == Boot \subseteq Service /\ IsFiniteSet(Boot)
ASSUME NoneAssumption == None \notin Service
ASSUME WeightAssumption == Weight \in [Worker -> -1 .. 3]
ASSUME MaxMsgAssumption == MaxMsg \in Nat

VARIABLES slot,     \* the registered services (handle_storage.slot)
          ctx,      \* skynet_context: ref, init and whether it is allocated
          mq,       \* message_queue: ring, in_global, release, allocated
          gq,       \* the global queue Q, a sequence of services
          thr,      \* the threads
          quit,     \* monitor.quit
          st        \* ghost: who sent each request, and what became of it

vars == <<slot, ctx, mq, gq, thr, quit, st>>

Thread == Worker \cup External
Id == 1 .. MaxMsg
Message == [id : Id, src : Service \cup {None}, type : {"request", "error"}]

ASSUME NoMsgAssumption == NoMsg \notin Message

NoCtx == [ref |-> 0, init |-> FALSE, life |-> "none"]
NoMq == [ring |-> EmptyRing, in_global |-> FALSE, release |-> FALSE,
         life |-> "none"]

NewThread(pc) == [pc |-> pc, q |-> None, i |-> 0, n |-> 0, msg |-> NoMsg,
                  nq |-> None, new |-> None, dq |-> None,
                  rel |-> None, out |-> NoMsg, ret |-> "-"]

skynet_context_total == Cardinality({s \in Service : ctx[s].life = "live"})

-----------------------------------------------------------------------------
(* Parts of steps.                                                         *)

\* skynet_globalmq_push and skynet_globalmq_pop
skynet_globalmq_push(s) == gq' = Append(gq, s)

\* skynet_mq_push: the message goes into the ring, and a queue that is in
\* nobody's hands into the global queue.
skynet_mq_push(s, m) ==
    /\ mq' = [mq EXCEPT ![s] = [@ EXCEPT !.ring = RingPush(mq[s].ring, m),
                                         !.in_global = TRUE]]
    /\ IF mq[s].in_global THEN UNCHANGED gq ELSE skynet_globalmq_push(s)

\* Thread t goes to pc; the fields of a finished send or release are reset.
Goto(t, pc) == thr' = [thr EXCEPT ![t] = [@ EXCEPT !.pc = pc, !.rel = None,
                                                   !.out = NoMsg, !.ret = "-"]]

\* Thread t gives up its reference to s and goes on at ret.
ReleaseThen(t, s, ret) == [thr[t] EXCEPT !.pc = "release", !.rel = s,
                                         !.out = NoMsg, !.ret = ret]

\* Where a thread that dropped a queue goes on: a launch that failed ends in
\* the handler that asked for it, a dispatch takes the next queue.
AfterDrop(t) == IF thr[t].new # None THEN "handle" ELSE "pop"

\* skynet_context_push: grab the destination, or report that it is gone.
skynet_context_push(t, d, m, ret) ==
    IF d \in slot
    THEN /\ ctx' = [ctx EXCEPT ![d].ref = @ + 1]
         /\ thr' = [thr EXCEPT ![t] = [@ EXCEPT !.pc = "push", !.rel = d,
                                                !.out = m, !.ret = ret]]
    ELSE /\ UNCHANGED ctx
         /\ Goto(t, ret)

-----------------------------------------------------------------------------
(* skynet_send and the steps behind it.                                    *)

\* The service a thread acts for.
Self(t) == CASE thr[t].pc = "handle" -> thr[t].q
             [] thr[t].pc = "init" -> thr[t].new
             [] OTHER -> None

NextId == Cardinality({k \in Id : st[k].is # "unsent"}) + 1

\* skynet_send from a handler, from an init function or from another thread
Send(t, d) ==
    /\ thr[t].pc \in {"handle", "init", "outside"}
    /\ NextId \in Id
    /\ skynet_context_push(t, d, [id |-> NextId, src |-> Self(t),
                                  type |-> "request"], thr[t].pc)
    /\ st' = [st EXCEPT ![NextId] =
                  [is |-> IF d \in slot THEN "sent" ELSE "refused",
                   from |-> Self(t)]]
    /\ UNCHANGED <<slot, mq, gq, quit>>

Push(t) ==
    /\ thr[t].pc = "push"
    /\ skynet_mq_push(thr[t].rel, thr[t].out)
    /\ thr' = [thr EXCEPT ![t] = ReleaseThen(t, thr[t].rel, thr[t].ret)]
    /\ UNCHANGED <<slot, ctx, quit, st>>

\* Mutant of ReleasesLast: the context is deleted with a reference left.
ReleasesOneEarly(s) == ctx[s].ref <= 2
ReleasesLast(s) == ctx[s].ref = 1

\* skynet_context_release: the thread that takes the last reference deletes.
Release(t) ==
    LET s == thr[t].rel IN
    /\ thr[t].pc = "release"
    /\ ctx' = [ctx EXCEPT ![s].ref = @ - 1]
    /\ IF ReleasesLast(s)
       THEN thr' = [thr EXCEPT ![t].pc = "delete"]
       ELSE Goto(t, thr[t].ret)
    /\ UNCHANGED <<slot, mq, gq, quit, st>>

\* Mutant of MarkPushes: a queue that somebody has is handed out again.
MarkAlwaysPushes(s) == TRUE
MarkPushes(s) == ~mq[s].in_global

\* delete_context: mark the queue, hand it to the workers if nobody has it,
\* free the context.  A launch whose context is gone skips "setinit".
Delete(t) ==
    LET s == thr[t].rel IN
    /\ thr[t].pc = "delete"
    /\ mq' = [mq EXCEPT ![s].release = TRUE]
    /\ IF MarkPushes(s) THEN skynet_globalmq_push(s) ELSE UNCHANGED gq
    /\ ctx' = [ctx EXCEPT ![s].life = "freed"]
    /\ Goto(t, IF thr[t].ret = "setinit" THEN "pushq" ELSE thr[t].ret)
    /\ UNCHANGED <<slot, quit, st>>

-----------------------------------------------------------------------------
(* What a handler may ask for: EXIT or KILL, and LAUNCH.                   *)

\* handle_exit -> skynet_handle_retire.  An init function can only exit its
\* own service, and only services that are launched can be killed.
Kill(t, s) ==
    /\ \/ thr[t].pc = "handle" /\ ctx[s].init
       \/ thr[t].pc = "init" /\ s = thr[t].new
    /\ s \in slot
    /\ slot' = slot \ {s}
    /\ thr' = [thr EXCEPT ![t] = ReleaseThen(t, s, thr[t].pc)]
    /\ UNCHANGED <<ctx, mq, gq, quit, st>>

\* Mutant of NewCtx: the reference of the launcher is not counted.
CtxWithOneRef == [NoCtx EXCEPT !.ref = 1, !.life = "live"]
NewCtx == [NoCtx EXCEPT !.ref = 2, !.life = "live"]
NewMq == [NoMq EXCEPT !.in_global = TRUE, !.life = "live"]

\* skynet_context_new up to the module's init function
Launch(t, s) ==
    /\ thr[t].pc = "handle" /\ ctx[s].life = "none"
    /\ slot' = slot \cup {s}
    /\ ctx' = [ctx EXCEPT ![s] = NewCtx]
    /\ mq' = [mq EXCEPT ![s] = NewMq]
    /\ thr' = [thr EXCEPT ![t] = [@ EXCEPT !.pc = "init", !.new = s]]
    /\ UNCHANGED <<gq, quit, st>>

\* The init function returned: 0, or an error.
InitReturns(t) ==
    /\ thr[t].pc = "init"
    /\ \E ret \in {"setinit", "retire"} :
          thr' = [thr EXCEPT ![t] = ReleaseThen(t, thr[t].new, ret)]
    /\ UNCHANGED <<slot, ctx, mq, gq, quit, st>>

SetInit(t) ==
    /\ thr[t].pc = "setinit"
    /\ ctx' = [ctx EXCEPT ![thr[t].new].init = TRUE]
    /\ thr' = [thr EXCEPT ![t].pc = "pushq"]
    /\ UNCHANGED <<slot, mq, gq, quit, st>>

\* skynet_globalmq_push(queue), after which the launcher is done
PushQueue(t) ==
    /\ thr[t].pc = "pushq"
    /\ skynet_globalmq_push(thr[t].new)
    /\ thr' = [thr EXCEPT ![t] = [@ EXCEPT !.pc = "handle", !.new = None]]
    /\ UNCHANGED <<slot, ctx, mq, quit, st>>

\* A failed launch retires the handle (it may have been retired already) and
\* then releases the queue.
LaunchFailed(t) ==
    LET s == thr[t].new IN
    /\ thr[t].pc = "retire"
    /\ slot' = slot \ {s}
    /\ thr' = [thr EXCEPT ![t] =
                  [IF s \in slot THEN ReleaseThen(t, s, "mqrelease")
                                 ELSE [@ EXCEPT !.pc = "mqrelease"]
                   EXCEPT !.dq = s]]
    /\ UNCHANGED <<ctx, mq, gq, quit, st>>

-----------------------------------------------------------------------------
(* skynet_mq_release.                                                      *)

\* The end of a drop or of a put-back: both fields of the launch are reset.
EndDrop(t) == thr' = [thr EXCEPT ![t] = [@ EXCEPT !.pc = AfterDrop(t), !.dq = None,
                                                  !.new = None,
                                                  !.q = IF AfterDrop(t) = "pop"
                                                        THEN None ELSE thr[t].q]]

MqRelease(t) ==
    LET s == thr[t].dq IN
    /\ thr[t].pc = "mqrelease"
    /\ IF mq[s].release
       THEN /\ thr' = [thr EXCEPT ![t].pc = "drop"]
            /\ UNCHANGED gq
       ELSE /\ skynet_globalmq_push(s)
            /\ EndDrop(t)
    /\ UNCHANGED <<slot, ctx, mq, quit, st>>

\* Mutant of drop_message: the message is freed and nobody is told.
DropSilently(t, s, m) == UNCHANGED <<ctx, thr>>

\* drop_message: an error in the name of the dead service to the source
drop_message(t, s, m) ==
    skynet_context_push(t, m.src, [id |-> m.id, src |-> s, type |-> "error"],
                        "drop")

\* One round of _drop_queue: a message is taken and its source is told; the
\* empty queue is freed.
DropQueue(t) ==
    LET s == thr[t].dq
        m == RingHead(mq[s].ring)
    IN
    /\ thr[t].pc = "drop"
    /\ IF RingIsEmpty(mq[s].ring)
       THEN /\ mq' = [mq EXCEPT ![s] = [@ EXCEPT !.in_global = FALSE, !.life = "freed"]]
            /\ EndDrop(t)
            /\ UNCHANGED <<ctx, st>>
       ELSE /\ mq' = [mq EXCEPT ![s].ring = RingPop(@)]
            /\ drop_message(t, s, m)
            /\ st' = IF m.type = "request"
                     THEN [st EXCEPT ![m.id].is = "dropped"] ELSE st
    /\ UNCHANGED <<slot, gq, quit>>

-----------------------------------------------------------------------------
(* skynet_context_message_dispatch and thread_worker.                      *)

\* skynet_globalmq_pop into q: where the thread goes with and without one
PopInto(t, some, none) ==
    IF gq = <<>>
    THEN /\ thr' = [thr EXCEPT ![t] = [@ EXCEPT !.pc = none, !.q = None]]
         /\ UNCHANGED gq
    ELSE /\ thr' = [thr EXCEPT ![t] = [@ EXCEPT !.pc = some, !.q = Head(gq)]]
         /\ gq' = Tail(gq)

\* The head of the worker's loop and of the dispatch function.
Top(t) ==
    /\ thr[t].pc = "top"
    /\ CASE quit -> Goto(t, "done") /\ UNCHANGED gq
         [] ~quit /\ thr[t].q = None -> PopInto(t, "grab", "idle")
         [] OTHER -> Goto(t, "grab") /\ UNCHANGED gq
    /\ UNCHANGED <<slot, ctx, mq, quit, st>>

\* A dispatch that ends without a queue in hand takes the next one.
NextQueue(t) ==
    /\ thr[t].pc = "pop"
    /\ PopInto(t, "top", "idle")
    /\ UNCHANGED <<slot, ctx, mq, quit, st>>

\* skynet_handle_grab of the queue's service
Grab(t) ==
    LET s == thr[t].q IN
    /\ thr[t].pc = "grab"
    /\ IF s \in slot
       THEN /\ ctx' = [ctx EXCEPT ![s].ref = @ + 1]
            /\ thr' = [thr EXCEPT ![t] = [@ EXCEPT !.pc = "mqpop", !.i = 0, !.n = 1]]
       ELSE /\ UNCHANGED ctx
            /\ thr' = [thr EXCEPT ![t] = [@ EXCEPT !.pc = "mqrelease", !.dq = s]]
    /\ UNCHANGED <<slot, mq, gq, quit, st>>

\* Mutant of LeavesGlobal: an empty queue keeps its in_global flag.
KeepsGlobal(s) == TRUE
LeavesGlobal(s) == FALSE

\* skynet_mq_pop.  An empty queue leaves the hands of the workers.
MqPop(t) ==
    LET s == thr[t].q
        m == RingHead(mq[s].ring)
    IN
    /\ thr[t].pc = "mqpop"
    /\ IF RingIsEmpty(mq[s].ring)
       THEN /\ mq' = [mq EXCEPT ![s].in_global = LeavesGlobal(s)]
            /\ thr' = [thr EXCEPT ![t] =
                          [ReleaseThen(t, s, "pop") EXCEPT !.q = None,
                                                           !.i = 0, !.n = 0]]
            /\ UNCHANGED st
       ELSE /\ mq' = [mq EXCEPT ![s].ring = RingPop(@)]
            /\ thr' = [thr EXCEPT ![t] = [@ EXCEPT !.msg = m,
                                           !.pc = IF thr[t].i = 0 /\ Weight[t] >= 0
                                                     THEN "length" ELSE "handle"]]
            /\ st' = [st EXCEPT ![m.id].is = IF m.type = "request"
                                             THEN "handled" ELSE "answered"]
    /\ UNCHANGED <<slot, ctx, gq, quit>>

\* The first message of a round sets how many follow it.
MqLength(t) ==
    /\ thr[t].pc = "length"
    /\ thr' = [thr EXCEPT ![t] = [@ EXCEPT !.pc = "handle",
                                           !.n = skynet_mq_length(mq[thr[t].q].ring)
                                                        \div 2 ^ Weight[t]]]
    /\ UNCHANGED <<slot, ctx, mq, gq, quit, st>>

\* The handler returned: the next message of the round, or its end.
HandlerReturns(t) ==
    /\ thr[t].pc = "handle"
    /\ thr' = [thr EXCEPT ![t] = [@ EXCEPT !.msg = NoMsg, !.i = thr[t].i + 1,
                                           !.pc = IF thr[t].i + 1 < thr[t].n
                                                     THEN "mqpop" ELSE "swap"]]
    /\ UNCHANGED <<slot, ctx, mq, gq, quit, st>>

\* The end of a round: with another queue waiting, this one goes behind it;
\* otherwise the thread keeps it.
TakeNext(t) ==
    /\ thr[t].pc = "swap"
    /\ IF gq = <<>>
       THEN /\ thr' = [thr EXCEPT ![t] = [ReleaseThen(t, thr[t].q, "top")
                                          EXCEPT !.i = 0, !.n = 0]]
            /\ UNCHANGED gq
       ELSE /\ thr' = [thr EXCEPT ![t] = [@ EXCEPT !.pc = "putback", !.nq = Head(gq)]]
            /\ gq' = Tail(gq)
    /\ UNCHANGED <<slot, ctx, mq, quit, st>>

PutBack(t) ==
    /\ thr[t].pc = "putback"
    /\ skynet_globalmq_push(thr[t].q)
    /\ thr' = [thr EXCEPT ![t] =
                  [ReleaseThen(t, thr[t].q, "top")
                   EXCEPT !.q = thr[t].nq, !.nq = None, !.i = 0, !.n = 0]]
    /\ UNCHANGED <<slot, ctx, mq, quit, st>>

\* Mutant of SleepsAt: the worker does not look at quit before it sleeps.
SleepsBlindly == "wait"
SleepsAt == IF quit THEN "top" ELSE "wait"

\* No queue: the worker sleeps, unless the engine quits.
Sleep(t) ==
    /\ thr[t].pc = "idle"
    /\ Goto(t, SleepsAt)
    /\ UNCHANGED <<slot, ctx, mq, gq, quit, st>>

-----------------------------------------------------------------------------
(* thread_timer.                                                           *)

\* wakeup with busy = count - 1: one sleeping worker is signalled.
WakeUp(t) ==
    /\ ~quit /\ skynet_context_total # 0
    /\ thr[t].pc = "wait"
    /\ Goto(t, "top")
    /\ UNCHANGED <<slot, ctx, mq, gq, quit, st>>

\* CHECK_ABORT: no context is left, everybody is told to quit.
Quit ==
    /\ ~quit /\ skynet_context_total = 0
    /\ quit' = TRUE
    /\ thr' = [t \in Thread |-> IF thr[t].pc = "wait"
                                THEN [thr[t] EXCEPT !.pc = "top"] ELSE thr[t]]
    /\ UNCHANGED <<slot, ctx, mq, gq, st>>

\* Every worker has left its loop: nothing happens any more.
Ended == quit /\ (\A t \in Worker : thr[t].pc = "done") /\ UNCHANGED vars

-----------------------------------------------------------------------------
\* The first services are launched and their queues are in the global queue,
\* where launch or a push left them; they have handled messages before, so
\* that their rings are about to wrap.
BootMq == [NewMq EXCEPT !.ring = [@ EXCEPT !.head = DefaultQueueSize - 1,
                                           !.tail = DefaultQueueSize - 1]]

Init ==
    /\ slot = Boot
    /\ ctx = [s \in Service |-> IF s \in Boot
                 THEN [ref |-> 1, init |-> TRUE, life |-> "live"] ELSE NoCtx]
    /\ mq = [s \in Service |-> IF s \in Boot THEN BootMq ELSE NoMq]
    /\ gq \in {q \in [1 .. Cardinality(Boot) -> Boot] :
                  \A a, b \in DOMAIN q : a # b => q[a] # q[b]}
    /\ thr = [t \in Thread |-> NewThread(IF t \in Worker THEN "top"
                                                         ELSE "outside")]
    /\ quit = FALSE
    /\ st = [k \in Id |-> [is |-> "unsent", from |-> None]]

\* What a thread goes on with by itself.
Continue(t) == Push(t) \/ Release(t) \/ Delete(t)

WorkerStep(t) ==
    \/ Continue(t)
    \/ InitReturns(t) \/ SetInit(t) \/ PushQueue(t) \/ LaunchFailed(t)
    \/ MqRelease(t) \/ DropQueue(t)
    \/ Top(t) \/ NextQueue(t) \/ Grab(t) \/ MqPop(t) \/ MqLength(t)
    \/ HandlerReturns(t) \/ TakeNext(t) \/ PutBack(t) \/ Sleep(t)
    \/ \E s \in Service : Send(t, s) \/ Kill(t, s) \/ Launch(t, s)

Next ==
    \/ \E t \in Worker : WorkerStep(t) \/ WakeUp(t)
    \/ \E t \in External : Continue(t) \/ \E s \in Service : Send(t, s)
    \/ Quit
    \/ Ended

Spec == Init /\ [][Next]_vars

\* The operating system schedules every thread; a handler returns, since it
\* sends and launches within the model's bounds; the timer thread wakes a
\* sleeping worker every 2.5 ms and looks for the end.
FairSpec ==
    /\ Spec
    /\ \A t \in Worker : WF_vars(WorkerStep(t))
    /\ \A t \in External : WF_vars(Continue(t))
    /\ WF_vars(\E t \in Worker : WakeUp(t))
    /\ WF_vars(Quit)

-----------------------------------------------------------------------------
(* Properties.                                                             *)

Pc == {"top", "pop", "grab", "mqpop", "length", "handle", "swap", "putback",
       "idle", "wait", "done", "push", "release", "delete", "init", "setinit",
       "pushq", "retire", "mqrelease", "drop", "outside"}

\* The fields hold what they are declared to hold.
TypeOK ==
    /\ slot \subseteq Service
    /\ \A s \in Service :
          /\ ctx[s].ref \in Nat /\ ctx[s].init \in BOOLEAN
          /\ ctx[s].life \in {"none", "live", "freed"}
          /\ mq[s].life \in {"none", "live", "freed"}
    /\ gq \in Seq(Service)
    /\ \A t \in Thread :
          /\ thr[t].pc \in Pc
          /\ {thr[t].q, thr[t].nq, thr[t].new, thr[t].dq, thr[t].rel}
                \subseteq Service \cup {None}
          /\ {thr[t].msg, thr[t].out} \subseteq Message \cup {NoMsg}
    /\ quit \in BOOLEAN
    /\ st \in [Id -> [is : {"unsent", "refused", "sent", "handled", "dropped",
                             "answered"},
                       from : Service \cup {None}]]

\* The references thread t holds to the context of s: for the round it
\* dispatches, for the launch it is in, for the send or release it is in.
InRound(t) == \/ thr[t].pc \in {"mqpop", "length", "handle", "swap", "putback"}
              \/ thr[t].msg # NoMsg
Holds(t, s) ==
    {k \in {"round", "launch", "send"} :
        \/ k = "round" /\ InRound(t) /\ thr[t].q = s
        \/ k = "launch" /\ thr[t].new = s
             /\ (thr[t].pc = "init" \/ thr[t].ret = "init")
        \/ k = "send" /\ thr[t].rel = s /\ thr[t].pc \in {"push", "release"}}

\* The reference count of a context that is not freed counts the handle table
\* and every reference a thread holds; so nobody who holds one meets a freed
\* context, however launches, sends, kills and dispatches interleave
\* (skynet_context_grab, skynet_context_release).
RefExact ==
    /\ TypeOK
    /\ \A s \in Service :
          /\ ctx[s].ref = (IF s \in slot THEN 1 ELSE 0)
                          + Cardinality({p \in Thread \X {"round", "launch", "send"} :
                                            p[2] \in Holds(p[1], s)})
          /\ ctx[s].ref > 0 => ctx[s].life = "live"

\* The number of places a queue is in: positions of the global queue and
\* hands of threads.
Places(s) ==
    Cardinality({k \in 1 .. Len(gq) : gq[k] = s})
    + Cardinality({p \in Thread \X {"q", "nq", "new", "dq"} :
          LET t == thr[p[1]] IN
          \/ p[2] = "q" /\ t.q = s
          \/ p[2] = "nq" /\ t.nq = s
          \/ p[2] = "new" /\ t.new = s
          \/ p[2] = "dq" /\ t.dq = s /\ s \notin {t.q, t.new}})

\* A queue is in one place at most: once in the global queue, or in the hands
\* of one thread, and in none after it is freed.  So no two workers run one
\* service, and skynet_globalmq_push's assert(queue->next == NULL) holds.
OnePlace ==
    \A s \in Service : Places(s) <= IF mq[s].life = "live" THEN 1 ELSE 0

\* A queue with messages, or that waits to be freed, is in some place: no
\* wake-up is lost between skynet_mq_pop's in_global = 0 and a push.
NoneForgotten ==
    \A s \in Service :
        mq[s].life = "live" /\ (~RingIsEmpty(mq[s].ring) \/ mq[s].release)
            => Places(s) > 0

\* The asserts of the dispatcher: a context is deleted once (assert(release
\* == 0)), a message is dispatched to a context that finished its launch
\* (assert(ctx->init)), and a push finds an allocated queue.
AssertsHold ==
    \A t \in Thread :
        /\ thr[t].pc = "delete" => /\ ~mq[thr[t].rel].release
                                   /\ ctx[thr[t].rel].life = "live"
        /\ thr[t].pc = "push" => mq[thr[t].rel].life = "live"
        /\ thr[t].msg # NoMsg => ctx[thr[t].q].init

\* What a service sees is the mailbox of module Mailbox: what its ring holds,
\* the message a worker has in hand for it, and the life of its context.
Runs(r, s) == r.q = s /\ r.msg # NoMsg
Doing(th, s) == IF \E t \in Worker : Runs(th[t], s)
                THEN th[CHOOSE t \in Worker : Runs(th[t], s)].msg ELSE NoMsg
Box == [s \in Service |-> Contents(mq[s].ring)]
Tasks == [s \in Service |-> Doing(thr, s)]
LifeOf == [s \in Service |-> ctx[s].life]

MailboxOf == INSTANCE Mailbox WITH box <- Box, busy <- Tasks, life <- LifeOf

\* Messages are handled one at a time in the order of skynet_mq_push, through
\* every expansion of the ring and every change of worker.
MailboxSpec == MailboxOf!Spec

\* A request that was accepted is handled, or its source handles an error for
\* it; only when the source is gone too is nobody told, and only the end of
\* the engine leaves requests undecided (drop_message).
EverySettled ==
    \A k \in Id : st[k].is = "sent" ~>
        \/ st[k].is \in {"handled", "answered"}
        \/ st[k].is = "dropped" /\ st[k].from \notin slot
        \/ quit

\* Once the last context is gone every worker leaves its loop.
QuitEnds == (skynet_context_total = 0) ~> (\A t \in Worker : thr[t].pc = "done")
=============================================================================
