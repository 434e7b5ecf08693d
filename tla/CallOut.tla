------------------------------ MODULE CallOut -------------------------------
(***************************************************************************)
(* Timers: the services' side (lualib/call_out.lua) and the timer service  *)
(* (service/stimer/stimer.lua).  A service sends its request to stimer     *)
(* and keeps the function; stimer files the request under the second in    *)
(* which it is due, once a second goes through the seconds that have       *)
(* passed, and sends a callout message for what it finds; the service runs *)
(* the function when the message gets to it.  Services and stimer run      *)
(* concurrently: every message waits in a mailbox.                         *)
(*                                                                         *)
(* Timeouts are whole seconds ("a precision of one second only"), a day is *)
(* Day seconds, and a time of day is counted from its start.  The clock    *)
(* (os.time) does not go back.  Memory and run-time alarms are left out.   *)
(***************************************************************************)
EXTENDS Integers, Sequences, FiniteSets

CONSTANTS Services,    \* the services that use timers
          Timeouts,    \* what CallOut is called with
          Periods,     \* what CallFre is called with
          TimesOfDay,  \* what Daily is called with
          Day,         \* ONE_DAY_SEC
          MaxIndex,    \* bound on CallIndex
          MaxTime,     \* bound on the clock
          MaxLag       \* bound on a jump of the clock: how late stimer may be

ASSUME CallOutAssumption == /\ Day \in Nat \ {0}
                            /\ Timeouts \subseteq Nat
                            /\ Periods \subseteq Nat \ {0}
                            /\ TimesOfDay \subseteq 0 .. (Day - 1)
                            /\ MaxIndex \in Nat /\ MaxTime \in Nat /\ MaxLag \in Nat

VARIABLES now,           \* os.time()
          LAST_TIME,     \* the last second stimer has gone through
          first,         \* its first round is still to come
          CallOutTbl,    \* what it has on file
          inbox,         \* its mailbox
          mail,          \* callout messages on their way: timer -> how many
          CallIndex,     \* the last index each service has given out
          callout_func,  \* the timers whose function is kept
          asked,         \* history: how and when each timer was asked for
          removed,       \* history: the timers given to RemoveCallOut
          runs           \* history: how often each function has run

stimer == <<LAST_TIME, first, CallOutTbl>>
vars == <<now, LAST_TIME, first, CallOutTbl, inbox, mail, CallIndex, callout_func,
          asked, removed, runs>>

\* An index is unique in its service only; stimer files by source and index.
Key == Services \X (1 .. MaxIndex)

Kinds == {"once", "multi", "daily"}

\* A request: call_once, call_multi, call_daily or rm_call; arg is a timeout
\* or a time of day.
Request == [cmd : Kinds \cup {"rm"}, key : Key, arg : Nat]

\* What is on file under the second at; refresh is its refresh_time.
Entry == [at : Nat, key : Key, kind : Kinds, refresh : Nat]

Init == /\ now \in 0 .. (Day - 1)
        /\ LAST_TIME = now /\ first = TRUE
        /\ CallOutTbl = {}
        /\ inbox = <<>>
        /\ mail = [k \in Key |-> 0]
        /\ CallIndex = [s \in Services |-> 0]
        /\ callout_func = {}
        /\ asked = [k \in {} |-> 0]
        /\ removed = {}
        /\ runs = [k \in Key |-> 0]
-----------------------------------------------------------------------------
(* A service.                                                              *)

\* CallOut, CallFre and Daily: take an index, send the request, keep the
\* function.
Call(s, kind, arg) ==
    LET k == <<s, CallIndex[s] + 1>>
    IN /\ CallIndex[s] < MaxIndex
       /\ CallIndex' = [CallIndex EXCEPT ![s] = @ + 1]
       /\ inbox' = Append(inbox, [cmd |-> kind, key |-> k, arg |-> arg])
       /\ callout_func' = callout_func \cup {k}
       /\ asked' = [x \in DOMAIN asked \cup {k} |->
                      IF x = k THEN [kind |-> kind, arg |-> arg, time |-> now] ELSE asked[x]]
       /\ UNCHANGED <<now, stimer, mail, removed, runs>>

\* Mutant of RemoveCallOut: only stimer is told.
RemoveCallOutAtStimer(k) ==
    /\ k \in callout_func
    /\ inbox' = Append(inbox, [cmd |-> "rm", key |-> k, arg |-> 0])
    /\ removed' = removed \cup {k}
    /\ UNCHANGED <<now, stimer, mail, CallIndex, callout_func, asked, runs>>

\* RemoveCallOut: forget the function and tell stimer.
RemoveCallOut(k) ==
    /\ k \in callout_func
    /\ callout_func' = callout_func \ {k}
    /\ inbox' = Append(inbox, [cmd |-> "rm", key |-> k, arg |-> 0])
    /\ removed' = removed \cup {k}
    /\ UNCHANGED <<now, stimer, mail, CallIndex, asked, runs>>

\* A callout message arrives.  Its function runs if it is still kept; that
\* of a CallOut is forgotten first.
Dispatch(k) ==
    /\ mail[k] > 0
    /\ mail' = [mail EXCEPT ![k] = @ - 1]
    /\ runs' = IF k \in callout_func THEN [runs EXCEPT ![k] = @ + 1] ELSE runs
    /\ callout_func' = IF asked[k].kind = "once" THEN callout_func \ {k} ELSE callout_func
    /\ UNCHANGED <<now, stimer, inbox, CallIndex, asked, removed>>
-----------------------------------------------------------------------------
(* stimer.                                                                 *)

\* call_daily: the time of day today, or tomorrow if it has passed.
NextDaily(arg) == LET today == now - (now % Day) + arg
                  IN IF now > today THEN today + Day ELSE today

\* Mutants of Delay: a timeout of 0 is taken as it is, and a period counts
\* the second of the request.
DelayZero(r) == r.arg

DelayShort(r) == IF r.cmd = "once" THEN (IF r.arg <= 0 THEN 1 ELSE r.arg) ELSE r.arg - 1

\* call_once takes 1 for a timeout that is not positive; call_multi would
\* raise, but its caller has already refused it.
Delay(r) == IF r.cmd = "once" /\ r.arg <= 0 THEN 1 ELSE r.arg

\* call_once, call_multi and call_daily: the second to file a request under.
FileUnder(r) == IF r.cmd = "daily" THEN NextDaily(r.arg) ELSE now + Delay(r)

Refresh(r) == IF r.cmd = "multi" THEN r.arg ELSE Day

\* The handler of the three commands.
HandleCall ==
    LET r == Head(inbox)
    IN /\ inbox # <<>> /\ r.cmd \in Kinds
       /\ CallOutTbl' = CallOutTbl \cup {[at |-> FileUnder(r), key |-> r.key,
                                          kind |-> r.cmd, refresh |-> Refresh(r)]}
       /\ inbox' = Tail(inbox)
       /\ UNCHANGED <<now, LAST_TIME, first, mail, CallIndex, callout_func, asked,
                      removed, runs>>

\* rm_call: stimer has no such command; assert(ACCEPT[cmd]) raises and the
\* message is dropped.
HandleRemove == /\ inbox # <<>> /\ Head(inbox).cmd = "rm"
                /\ inbox' = Tail(inbox)
                /\ UNCHANGED <<now, stimer, mail, CallIndex, callout_func, asked,
                               removed, runs>>

\* Mutant of DueNow: the round stops short of the current second.
DueBeforeNow == {e \in CallOutTbl : /\ (IF first THEN LAST_TIME ELSE LAST_TIME + 1) <= e.at
                                    /\ e.at < now}

\* The entries in the seconds of this round.
DueNow == {e \in CallOutTbl : /\ (IF first THEN LAST_TIME ELSE LAST_TIME + 1) <= e.at
                              /\ e.at <= now}

\* The seconds of this round in which an entry is sent: a daily one goes
\* back on file a day later, which may be in the same round; one with a
\* period goes back that long after the end of the round.
SentIn(e) == {i \in e.at .. now : i = e.at \/ (e.kind = "daily" /\ (i - e.at) % Day = 0)}

\* How many messages of a timer the round sends: one per second.
Sent(k) == Cardinality({i \in 0 .. now : \E e \in DueNow : e.key = k /\ i \in SentIn(e)})

\* Mutant of NextAt: a daily timer, too, counts from the end of the round.
NextAtFromEnd(e) == now + e.refresh

\* The second it goes back on file under.
NextAt(e) == IF e.kind = "multi" THEN now + e.refresh
             ELSE now - ((now - e.at) % Day) + Day

\* What goes back on file.
Refiled(e) == IF e.kind = "once" THEN {} ELSE {[e EXCEPT !.at = NextAt(e)]}

\* Mutant of Deal: the seconds gone through are not cleared.
DealKeeps == /\ CallOutTbl' = CallOutTbl \cup UNION {Refiled(e) : e \in DueNow}
             /\ mail' = [k \in Key |-> mail[k] + Sent(k)]
             /\ LAST_TIME' = now
             /\ first' = FALSE
             /\ UNCHANGED <<now, inbox, CallIndex, callout_func, asked, removed, runs>>

\* One round of _DealWithTimer, which does not yield: _DealWithOnce(i, now)
\* for the seconds i since the last round.
Deal == /\ CallOutTbl' = (CallOutTbl \ DueNow) \cup UNION {Refiled(e) : e \in DueNow}
        /\ mail' = [k \in Key |-> mail[k] + Sent(k)]
        /\ LAST_TIME' = now
        /\ first' = FALSE
        /\ UNCHANGED <<now, inbox, CallIndex, callout_func, asked, removed, runs>>

\* What goes back on file when an entry is sent in second i of the loop
Again(e, i) == CASE e.kind = "once" -> {}
                 [] e.kind = "multi" -> {[e EXCEPT !.at = now + e.refresh]}
                 [] e.kind = "daily" -> {[e EXCEPT !.at = i + e.refresh]}

\* _DealWithOnce(i, now) on <<table, messages sent so far>>
DealWithOnce(i, st) ==
    LET due == {e \in st[1] : e.at = i}
    IN <<(st[1] \ due) \cup UNION {Again(e, i) : e \in due},
         [k \in Key |-> st[2][k] + Cardinality({e \in due : e.key = k})]>>

\* The loop of _DealWithTimer over the seconds since the last round
DealLoop ==
    LET lo == IF first THEN LAST_TIME ELSE LAST_TIME + 1
        upTo[n \in 0 .. (now + 1 - lo)] ==
            IF n = 0 THEN <<CallOutTbl, mail>> ELSE DealWithOnce(lo + n - 1, upTo[n - 1])
    IN upTo[now + 1 - lo]

\* Time passes.
Tick == \E d \in 1 .. MaxLag :
            /\ now + d <= MaxTime
            /\ now' = now + d
            /\ UNCHANGED <<stimer, inbox, mail, CallIndex, callout_func, asked, removed, runs>>
-----------------------------------------------------------------------------
Service(s) == \/ \E a \in Timeouts : Call(s, "once", a)
              \/ \E a \in Periods : Call(s, "multi", a)
              \/ \E a \in TimesOfDay : Call(s, "daily", a)

Next == \/ \E s \in Services : Service(s)
        \/ \E k \in Key : RemoveCallOut(k) \/ Dispatch(k)
        \/ HandleCall \/ HandleRemove \/ Deal
        \/ Tick

Spec == Init /\ [][Next]_vars

\* Mailboxes are emptied, stimer's loop keeps running, and time passes.
Fairness == /\ WF_vars(HandleCall \/ HandleRemove) /\ WF_vars(Deal) /\ WF_vars(Tick)
            /\ \A k \in Key : WF_vars(Dispatch(k))

FairSpec == Spec /\ Fairness
-----------------------------------------------------------------------------
TypeOK == /\ now \in Nat /\ LAST_TIME \in Nat /\ first \in BOOLEAN
          /\ CallOutTbl \in SUBSET Entry
          /\ inbox \in Seq(Request)
          /\ mail \in [Key -> Nat]
          /\ CallIndex \in [Services -> 0 .. MaxIndex]
          /\ callout_func \in SUBSET Key
          /\ DOMAIN asked \subseteq Key
          /\ \A k \in DOMAIN asked : asked[k] \in [kind : Kinds, arg : Nat, time : Nat]
          /\ removed \in SUBSET Key
          /\ runs \in [Key -> Nat]

\* The next round will still go through the second an entry is filed under.
Ahead(e) == e.at > LAST_TIME \/ (first /\ e.at = LAST_TIME)

\* No CallOut or CallFre is filed under a second that stimer has already
\* gone through, where it would stay unseen for ever.
NotStranded == \A e \in CallOutTbl : e.kind # "daily" => Ahead(e)

\* A timer is in one place: its request is in the mailbox or it is on file
\* under one second; and nothing is known of a timer nobody asked for.
OnFileOnce ==
    /\ \A e, f \in CallOutTbl : e.key = f.key => e = f
    /\ \A i \in DOMAIN inbox : inbox[i].cmd \in Kinds =>
          /\ \A e \in CallOutTbl : e.key # inbox[i].key
          /\ \A j \in DOMAIN inbox : inbox[j].key = inbox[i].key /\ inbox[j].cmd \in Kinds
                                        => i = j

\* Only indices that have been given out are in use, and a removed timer's
\* function is not kept.
Known(k) == k[2] <= CallIndex[k[1]]

KeysKnown == /\ \A k \in callout_func \cup removed : Known(k)
             /\ \A e \in CallOutTbl : Known(e.key)
             /\ \A i \in DOMAIN inbox : Known(inbox[i].key)
             /\ removed \cap callout_func = {}

\* Periods are positive, so nothing goes back on file in the past.
Forward == /\ LAST_TIME <= now
           /\ \A e \in CallOutTbl : e.kind = "multi" => e.refresh >= 1
           /\ \A i \in DOMAIN inbox : inbox[i].cmd = "multi" => inbox[i].arg >= 1

\* The inductive invariant of the timers.
CallOutInv == /\ TypeOK /\ NotStranded /\ OnFileOnce /\ KeysKnown /\ Forward

Wait(k) == IF asked[k].kind = "daily" THEN 0
           ELSE IF asked[k].arg = 0 THEN 1 ELSE asked[k].arg

\* Not early, and not too often, however late stimer or a service is: the
\* n-th run of a CallFre is at least n periods after the call, that of a
\* Daily at least n - 1 days, and a CallOut runs once.
Paced == \A k \in DOMAIN asked :
    LET n == runs[k] + mail[k]
        age == now - asked[k].time
    IN CASE asked[k].kind = "once" -> n <= 1 /\ (n = 1 => age >= Wait(k))
         [] asked[k].kind = "multi" -> n * asked[k].arg <= age
         [] asked[k].kind = "daily" -> (n - 1) * Day <= age

\* Deal sends and files what the loop does, also when it has to catch up
\* with several seconds or days at once.
LoopAgrees == [][Deal => <<CallOutTbl', mail'>> = DealLoop]_vars

\* A removed timer does not run, although its messages may still be on
\* their way.
RemovedNeverRuns == [][\A k \in removed : runs'[k] = runs[k]]_vars

\* What is filed under a second the clock reaches is sent, so a CallFre never
\* stops, and the function of a CallOut then runs, or was removed.
EveryCallFires ==
    /\ \A i \in 0 .. MaxTime :
          (\E e \in CallOutTbl : e.at = i /\ e.kind # "daily")
              ~> ~ (\E e \in CallOutTbl : e.at = i /\ e.kind # "daily")
    /\ \A k \in Key :
          (\E e \in CallOutTbl : e.key = k /\ e.kind = "once" /\ e.at <= MaxTime)
              ~> (k \notin callout_func)
=============================================================================
