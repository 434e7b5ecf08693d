--------------------------- MODULE SkynetTimer ---------------------------
(***************************************************************************)
(* The timing wheel of the engine (skynet_timer.c): lists of nodes for the *)
(* near ticks, four levels of lists for the far ones, cascaded as the tick *)
(* counter passes them, and a counter that wraps.  Services add timers     *)
(* while the timer thread has the wheel unlocked.                          *)
(*                                                                         *)
(* A timer is named by what asked for it (service and session).  A timeout *)
(* of 0 or less never gets into the wheel: it is answered at once.         *)
(***************************************************************************)
EXTENDS Integers, Sequences, FiniteSets

CONSTANTS Timer,             \* the timers services may set, again and again
          Near,              \* TIME_NEAR
          Level,             \* TIME_LEVEL
          MaxLag             \* bound: ticks one skynet_updatetime catches up

ASSUME SizeAssumption == Near \in Nat \ {0} /\ Level \in Nat \ {0, 1}
ASSUME LagAssumption == MaxLag \in Nat \ {0}

VARIABLES time,      \* T->time, an unsigned counter that wraps
          near,      \* T->near: 0 .. TIME_NEAR - 1 -> sequence of nodes
          t,         \* T->t: 0 .. 3 -> 0 .. TIME_LEVEL - 1 -> sequence
          pc,        \* where the timer thread is
          diff,      \* the ticks skynet_updatetime still has to do
          current,   \* the nodes dispatch_list has taken
          left,      \* ghost: the ticks until each timer is due
          pending,   \* ghost: the timers that are set and have not fired
          older      \* ghost: the pending timers set before each of them

wheel == [time |-> time, near |-> near, t |-> t]
vars == <<time, near, t, pc, diff, current, left, pending, older>>

\* The ticks one list of level i stands for; the high bits of a time from
\* that level on are the time divided by it.
Unit[i \in 0 .. 4] == IF i = 0 THEN Near ELSE Level * Unit[i - 1]

Range32 == Unit[4]                               \* 2^32 in the code
MaxTimeout == Range32 \div 2 - 1                 \* the largest int
Node == [id : Timer, expire : 0 .. Range32 - 1]

-----------------------------------------------------------------------------
(* The wheel as a value: a record of time, near and t.                     *)

\* Mutant of LevelFor: the loop stops one level early.
LevelForShort(expire, now) ==
    LET fits == {i \in 0 .. 1 : expire \div Unit[i + 1] = now \div Unit[i + 1]}
    IN  IF fits = {} THEN 2 ELSE CHOOSE i \in fits : \A j \in fits : i <= j

\* The level of a node that is not near: the first whose higher bits agree
\* with the current time, level 3 when none does.
LevelFor(expire, now) ==
    LET fits == {i \in 0 .. 2 : expire \div Unit[i + 1] = now \div Unit[i + 1]}
    IN  IF fits = {} THEN 3 ELSE CHOOSE i \in fits : \A j \in fits : i <= j

IsNear(expire, now) == expire \div Unit[0] = now \div Unit[0]

\* The index of a time in the lists of level i
IndexAt(x, i) == (x \div Unit[i]) % Level

add_node(w, node) ==
    LET e == node.expire
        i == LevelFor(e, w.time)
    IN  IF IsNear(e, w.time)
        THEN [w EXCEPT !.near[e % Near] = Append(@, node)]
        ELSE [w EXCEPT !.t[i][IndexAt(e, i)] = Append(@, node)]

\* Mutant of move_list: the nodes are added again from the last.
MoveReversed(w, level, idx) ==
    LET list == w.t[level][idx]
        moved[k \in 0 .. Len(list)] ==
            IF k = 0 THEN [w EXCEPT !.t[level][idx] = <<>>]
                     ELSE add_node(moved[k - 1], list[Len(list) + 1 - k])
    IN  moved[Len(list)]

\* The list is cleared and its nodes are added again, in their order.
move_list(w, level, idx) ==
    LET list == w.t[level][idx]
        moved[k \in 0 .. Len(list)] ==
            IF k = 0 THEN [w EXCEPT !.t[level][idx] = <<>>]
                     ELSE add_node(moved[k - 1], list[k])
    IN  moved[Len(list)]

\* Mutant of timer_shift: the wrap to 0 moves no list.
ShiftForgetsWrap(w) ==
    LET ct == (w.time + 1) % Range32
        v == [w EXCEPT !.time = ct]
        some == {i \in 0 .. 3 : IndexAt(ct, i) # 0}
        i == CHOOSE i \in some : \A j \in some : i <= j
    IN  IF ct # 0 /\ ct % Near = 0 THEN move_list(v, i, IndexAt(ct, i)) ELSE v

\* The next tick.  At the end of a near round the list of the first level
\* whose index is not 0 is cascaded; at the wrap, list 0 of level 3.
timer_shift(w) ==
    LET ct == (w.time + 1) % Range32
        v == [w EXCEPT !.time = ct]
        some == {i \in 0 .. 3 : IndexAt(ct, i) # 0}
        i == CHOOSE i \in some : \A j \in some : i <= j
    IN  CASE ct = 0 -> move_list(v, 3, 0)
          [] ct # 0 /\ ct % Near = 0 -> move_list(v, i, IndexAt(ct, i))
          [] OTHER -> v

-----------------------------------------------------------------------------
(* The services and the timer thread.                                      *)

\* The timer thread holds the lock of the wheel.
Locked == pc \in {"execute0", "shift", "execute"}

SetWheel(w) == time' = w.time /\ near' = w.near /\ t' = w.t

Expire(delay) == (time + delay) % Range32

\* skynet_timeout with a positive time, from any thread
Timeout(id, delay) ==
    /\ ~Locked
    /\ id \notin pending
    /\ SetWheel(add_node(wheel, [id |-> id, expire |-> Expire(delay)]))
    /\ left' = [left EXCEPT ![id] = delay]
    /\ pending' = pending \cup {id}
    /\ older' = [older EXCEPT ![id] = pending]
    /\ UNCHANGED <<pc, diff, current>>

\* skynet_updatetime: the clock has moved by d ticks; the first timer_update
\* takes the lock.
UpdateTime(d) ==
    /\ pc = "idle"
    /\ diff' = d
    /\ pc' = "execute0"
    /\ UNCHANGED <<time, near, t, current, left, pending, older>>

\* The next timer_update takes the lock, dispatch_list's end takes it again.
Lock ==
    /\ pc = "lock" \/ (pc \in {"dispatch0", "dispatch"} /\ current = <<>>)
    /\ pc' = IF pc = "dispatch" THEN "execute" ELSE "execute0"
    /\ UNCHANGED <<time, near, t, diff, current, left, pending, older>>

\* The list of the current tick
DueList == near[time % Near]

\* timer_execute: the due list is taken and the lock released, until it is
\* empty.
TakeDue ==
    /\ pc \in {"execute0", "execute"} /\ DueList # <<>>
    /\ current' = DueList
    /\ near' = [near EXCEPT ![time % Near] = <<>>]
    /\ pc' = IF pc = "execute0" THEN "dispatch0" ELSE "dispatch"
    /\ UNCHANGED <<time, t, diff, left, pending, older>>

\* dispatch_list: one node's message is pushed and the node freed.
DispatchNode ==
    /\ pc \in {"dispatch0", "dispatch"} /\ current # <<>>
    /\ current' = Tail(current)
    /\ pending' = pending \ {Head(current).id}
    /\ older' = [id \in Timer |-> older[id] \ {Head(current).id}]
    /\ UNCHANGED <<time, near, t, pc, diff, left>>

\* Nothing is due at the old tick: on to the next.
Shift ==
    /\ pc = "execute0" /\ DueList = <<>>
    /\ SetWheel(timer_shift(wheel))
    /\ left' = [id \in Timer |-> IF id \in pending /\ left[id] > 0
                               THEN left[id] - 1 ELSE 0]
    /\ pc' = "execute"
    /\ UNCHANGED <<diff, current, pending, older>>

\* The end of timer_update and of a round of skynet_updatetime's loop
Unlock ==
    /\ pc = "execute" /\ DueList = <<>>
    /\ diff' = diff - 1
    /\ pc' = IF diff > 1 THEN "lock" ELSE "idle"
    /\ UNCHANGED <<time, near, t, current, left, pending, older>>

\* timer_create_timer; the counter may be anywhere when no timer is pending.
Init ==
    /\ time \in 0 .. Range32 - 1
    /\ near = [i \in 0 .. Near - 1 |-> <<>>]
    /\ t = [i \in 0 .. 3 |-> [j \in 0 .. Level - 1 |-> <<>>]]
    /\ pc = "idle" /\ diff = 0 /\ current = <<>>
    /\ left = [id \in Timer |-> 0]
    /\ pending = {}
    /\ older = [id \in Timer |-> {}]

TimerThread == Lock \/ TakeDue \/ DispatchNode \/ Shift \/ Unlock

Next ==
    \/ TimerThread
    \/ \E d \in 1 .. MaxLag : UpdateTime(d)
    \/ \E id \in Timer, delay \in 1 .. MaxTimeout : Timeout(id, delay)

Spec == Init /\ [][Next]_vars

-----------------------------------------------------------------------------
(* Properties.                                                             *)

TypeOK ==
    /\ time \in 0 .. Range32 - 1
    /\ near \in [0 .. Near - 1 -> Seq(Node)]
    /\ t \in [0 .. 3 -> [0 .. Level - 1 -> Seq(Node)]]
    /\ pc \in {"idle", "lock", "execute0", "dispatch0", "execute", "dispatch"}
    /\ diff \in 0 .. MaxLag
    /\ current \in Seq(Node)
    /\ left \in [Timer -> 0 .. MaxTimeout]
    /\ pending \in SUBSET Timer
    /\ older \in [Timer -> SUBSET Timer]

NodesIn(s) == {s[k] : k \in DOMAIN s}
NearNodes == UNION {NodesIn(near[i]) : i \in 0 .. Near - 1}
FarNodes == UNION {NodesIn(t[i][j]) : i \in 0 .. 3, j \in 0 .. Level - 1}

\* The inductive invariant of the wheel: the lists hold every pending timer
\* that is not being dispatched, its expire tick is as far away as its ticks
\* left, and it is in the list in which add_node would put it now (cascading
\* in timer_shift restores this at every boundary, and at the wrap).
WellPlaced ==
    /\ TypeOK
    /\ \A n \in NearNodes \cup FarNodes :
          n.id \in pending /\ (n.expire - time) % Range32 = left[n.id]
    /\ \A i \in 0 .. Near - 1 : \A n \in NodesIn(near[i]) :
          IsNear(n.expire, time) /\ n.expire % Near = i
    /\ \A i \in 0 .. 3, j \in 0 .. Level - 1 : \A n \in NodesIn(t[i][j]) :
          /\ ~IsNear(n.expire, time)
          /\ LevelFor(n.expire, time) = i /\ IndexAt(n.expire, i) = j
    /\ \A id \in pending :
          \E n \in NearNodes \cup FarNodes \cup NodesIn(current) : n.id = id

\* A timer fires when exactly its delay in ticks has passed, however far the
\* clock jumped and whatever was added while the wheel was unlocked: what is
\* dispatched is due, and when the tick is over nothing that is due is left;
\* so every timer fires as long as the clock goes on.
OnTime ==
    /\ \A n \in NodesIn(current) : left[n.id] = 0
    /\ pc \in {"idle", "lock", "execute0"} =>
          \A id \in pending : left[id] > 0

\* Timers that are due at the same tick fire in the order they were set, even
\* when one came down through the levels and the other did not: none of those
\* set before the one that fires is due.
InOrder ==
    [][DispatchNode => \A id \in older[Head(current).id] : left[id] > 0]_vars
=============================================================================
