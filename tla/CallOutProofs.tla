--------------------------- MODULE CallOutProofs ----------------------------
(***************************************************************************)
(* Proofs about CallOut, for any services, timeouts, periods and bounds.   *)
(* CallOutInv is inductive: a timer is filed ahead of LAST_TIME because    *)
(* LAST_TIME never passes the clock (Forward) and every delay is positive; *)
(* it is filed once because an index is given out once (KeysKnown).        *)
(* PaceInv counts what has been sent against the second on file: a round   *)
(* that sends n messages moves that second by n periods or days.  Last, a  *)
(* round is the loop of the code over the seconds it goes through.         *)
(***************************************************************************)
EXTENDS CallOut, LineFacts, FiniteSetTheorems, SequenceTheorems, TLAPS

USE CallOutAssumption

\* The initial states satisfy the invariant.
LEMMA InitInv == Init => CallOutInv
  BY DEF Init, CallOutInv, TypeOK, NotStranded, OnFileOnce, KeysKnown, Forward, Known

\* What call_daily files is a second of today or of tomorrow.
LEMMA NextDailyNat ==
  ASSUME TypeOK, NEW a \in Nat
  PROVE  NextDaily(a) \in Nat
<1>1. now \in Nat /\ Day \in Nat \ {0}
  BY DEF TypeOK
<1>2. now % Day \in 0 .. (Day - 1) /\ now % Day <= now
  BY <1>1
<1> QED
  BY <1>1, <1>2 DEF NextDaily

\* A request for a CallOut or a CallFre is filed after the current second.
LEMMA FiledAhead ==
  ASSUME TypeOK, Forward, inbox # <<>>, Head(inbox).cmd \in Kinds
  PROVE  /\ FileUnder(Head(inbox)) \in Nat
         /\ Head(inbox).cmd # "daily" => FileUnder(Head(inbox)) > now
<1> DEFINE r == Head(inbox)
<1>1. r \in Request /\ r = inbox[1] /\ 1 \in DOMAIN inbox
  BY DEF TypeOK
<1>2. r.arg \in Nat /\ now \in Nat /\ (r.cmd = "multi" => r.arg >= 1)
  BY <1>1 DEF Request, TypeOK, Forward
<1>3. CASE r.cmd = "once"
  BY <1>2, <1>3 DEF FileUnder, Delay
<1>4. CASE r.cmd = "multi"
  BY <1>2, <1>4 DEF FileUnder, Delay
<1>5. CASE r.cmd = "daily"
  BY <1>2, <1>5, NextDailyNat DEF FileUnder
<1> QED
  BY <1>3, <1>4, <1>5 DEF Kinds

\* What goes back on file is a new second of the same timer, after now.
LEMMA RefiledShape ==
  ASSUME TypeOK, Forward, NEW e \in DueNow, NEW f \in Refiled(e)
  PROVE  /\ f \in Entry /\ f.key = e.key /\ f.kind = e.kind /\ f.refresh = e.refresh
         /\ f.at > now
         /\ \A g \in Refiled(e) : g = f
<1>1. e \in Entry /\ e.at <= now /\ now \in Nat /\ e \in CallOutTbl
  BY DEF DueNow, TypeOK
<1>2. e.at \in Nat /\ e.refresh \in Nat /\ e.kind \in Kinds
  BY <1>1 DEF Entry
<1>3. CASE e.kind = "multi"
  <2>1. e.refresh >= 1
    BY <1>1, <1>3 DEF Forward
  <2>2. f = [e EXCEPT !.at = now + e.refresh]
    BY <1>3 DEF Refiled, NextAt
  <2> QED
    BY <1>1, <1>2, <1>3, <2>1, <2>2 DEF Refiled, NextAt, Entry
<1>4. CASE e.kind = "daily"
  <2> DEFINE d == now - e.at
  <2>1. d \in Nat /\ Day \in Nat \ {0}
    BY <1>1, <1>2
  <2>2. d % Day \in 0 .. (Day - 1) /\ d % Day <= d
    BY <2>1
  <2>3. f = [e EXCEPT !.at = now - (d % Day) + Day]
    BY <1>4 DEF Refiled, NextAt
  <2>4. now - (d % Day) + Day \in Nat /\ now - (d % Day) + Day > now
    BY <1>1, <1>2, <2>1, <2>2
  <2> QED
    BY <1>1, <1>2, <1>4, <2>3, <2>4 DEF Refiled, NextAt, Entry
<1> QED
  BY <1>2, <1>3, <1>4 DEF Kinds, Refiled

\* A request at the end of the mailbox.
LEMMA AppendFacts ==
  ASSUME TypeOK, NEW r \in Request, inbox' = Append(inbox, r)
  PROVE  /\ inbox' \in Seq(Request)
         /\ DOMAIN inbox' = DOMAIN inbox \cup {Len(inbox) + 1}
         /\ Len(inbox) + 1 \notin DOMAIN inbox
         /\ \A i \in DOMAIN inbox : inbox'[i] = inbox[i]
         /\ inbox'[Len(inbox) + 1] = r
<1>1. inbox \in Seq(Request) /\ DOMAIN inbox = 1 .. Len(inbox) /\ Len(inbox) \in Nat
  BY DEF TypeOK
<1>2. (1 .. Len(inbox)) \cup {Len(inbox) + 1} = 1 .. (Len(inbox) + 1)
  BY <1>1
<1> QED
  BY <1>1, <1>2

\* The first request of the mailbox is taken out.
LEMMA TailFacts ==
  ASSUME TypeOK, inbox # <<>>, inbox' = Tail(inbox)
  PROVE  /\ inbox' \in Seq(Request)
         /\ \A i \in DOMAIN inbox' : /\ i + 1 \in DOMAIN inbox /\ inbox'[i] = inbox[i + 1]
                                     /\ i \in Nat \ {0}
         /\ 1 \in DOMAIN inbox /\ Head(inbox) = inbox[1] /\ Head(inbox) \in Request
  BY DEF TypeOK

\* A service asks for a timer: its index is new everywhere.
LEMMA CallInv ==
  ASSUME CallOutInv, NEW s \in Services, NEW kind \in Kinds, NEW a \in Nat,
         kind = "multi" => a >= 1, Call(s, kind, a)
  PROVE  CallOutInv'
<1> DEFINE k == <<s, CallIndex[s] + 1>>
           r == [cmd |-> kind, key |-> k, arg |-> a]
<1>1. k \in Key /\ r \in Request /\ ~ Known(k) /\ k[1] = s /\ k[2] = CallIndex[s] + 1
  BY DEF CallOutInv, TypeOK, Call, Key, Request, Known
<1>2. /\ inbox' \in Seq(Request)
      /\ DOMAIN inbox' = DOMAIN inbox \cup {Len(inbox) + 1}
      /\ Len(inbox) + 1 \notin DOMAIN inbox
      /\ \A i \in DOMAIN inbox : inbox'[i] = inbox[i]
      /\ inbox'[Len(inbox) + 1] = r
  BY <1>1, AppendFacts DEF CallOutInv, Call
<1>a. /\ CallIndex \in [Services -> Int]
      /\ CallIndex' = [CallIndex EXCEPT ![s] = @ + 1]
      /\ callout_func' = callout_func \cup {k}
      /\ removed' = removed /\ CallOutTbl' = CallOutTbl
  BY DEF CallOutInv, TypeOK, Call, stimer
<1>3. \A x \in Key : x[2] <= CallIndex[x[1]] => x[2] <= CallIndex'[x[1]]
  <2> SUFFICES ASSUME NEW x \in Key, x[2] <= CallIndex[x[1]]
               PROVE  x[2] <= CallIndex'[x[1]]
    OBVIOUS
  <2>1. x[1] \in Services /\ x[2] \in Int
    BY DEF Key
  <2> QED
    BY <1>a, <2>1
<1>4. k[2] <= CallIndex'[k[1]]
  BY <1>1, <1>a
<1>5. TypeOK'
  <2>1. CallIndex' \in [Services -> 0 .. MaxIndex]
    BY DEF CallOutInv, TypeOK, Call
  <2>2. /\ DOMAIN asked' \subseteq Key
        /\ \A x \in DOMAIN asked' : asked'[x] \in [kind : Kinds, arg : Nat, time : Nat]
    BY <1>1 DEF CallOutInv, TypeOK, Call
  <2>3. callout_func' \in SUBSET Key /\ removed' \in SUBSET Key /\ inbox' \in Seq(Request)
    BY <1>1, <1>2, <1>a DEF CallOutInv, TypeOK
  <2>4. UNCHANGED <<now, LAST_TIME, first, CallOutTbl, mail, runs>>
    BY DEF Call, stimer
  <2> QED
    BY <2>1, <2>2, <2>3, <2>4 DEF CallOutInv, TypeOK
<1>6. NotStranded'
  BY DEF CallOutInv, NotStranded, Call, Ahead, stimer
<1>7. OnFileOnce'
  <2>1. \A e \in CallOutTbl : e.key # k
    BY <1>1 DEF CallOutInv, KeysKnown
  <2>2. \A i \in DOMAIN inbox : inbox[i].key # k
    BY <1>1 DEF CallOutInv, KeysKnown
  <2>3. CallOutTbl' = CallOutTbl
    BY DEF Call, stimer
  <2> QED
    BY <1>1, <1>2, <2>1, <2>2, <2>3 DEF CallOutInv, OnFileOnce
<1>8. KeysKnown'
  <2>1. \A x \in (callout_func \cup removed)' : Known(x)'
    BY <1>3, <1>4, <1>a DEF CallOutInv, TypeOK, KeysKnown, Known
  <2>2. \A e \in CallOutTbl' : Known(e.key)'
    BY <1>3, <1>a DEF CallOutInv, TypeOK, KeysKnown, Known, Entry
  <2>3. \A i \in DOMAIN inbox' : (Known(inbox[i].key))'
    <3> SUFFICES ASSUME NEW i \in DOMAIN inbox' PROVE (Known(inbox[i].key))'
      OBVIOUS
    <3>1. CASE i \in DOMAIN inbox
      <4>1. inbox[i] \in Request /\ Known(inbox[i].key)
        BY <3>1 DEF CallOutInv, TypeOK, KeysKnown
      <4> QED
        BY <1>2, <1>3, <3>1, <4>1 DEF Request, Known
    <3>2. CASE i = Len(inbox) + 1
      BY <1>2, <1>4, <3>2 DEF Known
    <3> QED
      BY <1>2, <3>1, <3>2
  <2>4. removed' \cap callout_func' = {}
    BY <1>1, <1>a DEF CallOutInv, KeysKnown
  <2> QED
    BY <2>1, <2>2, <2>3, <2>4 DEF KeysKnown
<1>9. Forward'
  BY <1>2 DEF CallOutInv, Forward, Call, stimer
<1> QED
  BY <1>5, <1>6, <1>7, <1>8, <1>9 DEF CallOutInv

\* RemoveCallOut adds a message that files nothing.
LEMMA RemoveInv ==
  ASSUME CallOutInv, NEW k \in Key, RemoveCallOut(k)
  PROVE  CallOutInv'
<1> DEFINE r == [cmd |-> "rm", key |-> k, arg |-> 0]
<1>1. r \in Request /\ Known(k) /\ r.cmd \notin Kinds
  BY DEF CallOutInv, KeysKnown, RemoveCallOut, Request, Kinds
<1>2. /\ inbox' \in Seq(Request)
      /\ DOMAIN inbox' = DOMAIN inbox \cup {Len(inbox) + 1}
      /\ \A i \in DOMAIN inbox : inbox'[i] = inbox[i]
      /\ inbox'[Len(inbox) + 1] = r
  BY <1>1, AppendFacts DEF CallOutInv, RemoveCallOut
<1>3. TypeOK'
  BY <1>2 DEF CallOutInv, TypeOK, RemoveCallOut, stimer
<1>4. NotStranded'
  BY DEF CallOutInv, NotStranded, RemoveCallOut, Ahead, stimer
<1>5. OnFileOnce'
  BY <1>1, <1>2 DEF CallOutInv, OnFileOnce, RemoveCallOut, stimer
<1>6. KeysKnown'
  BY <1>1, <1>2 DEF CallOutInv, KeysKnown, Known, RemoveCallOut, stimer
<1>7. Forward'
  BY <1>1, <1>2 DEF CallOutInv, Forward, RemoveCallOut, stimer
<1> QED
  BY <1>3, <1>4, <1>5, <1>6, <1>7 DEF CallOutInv

\* A callout message touches neither the file nor the mailbox of stimer.
LEMMA DispatchInv ==
  ASSUME CallOutInv, NEW k \in Key, Dispatch(k)
  PROVE  CallOutInv'
<1>1. TypeOK'
  BY DEF CallOutInv, TypeOK, Dispatch, stimer
<1>2. NotStranded' /\ OnFileOnce' /\ Forward'
  BY DEF CallOutInv, NotStranded, OnFileOnce, Forward, Dispatch, Ahead, stimer
<1>3. KeysKnown'
  BY DEF CallOutInv, KeysKnown, Known, Dispatch, stimer
<1> QED
  BY <1>1, <1>2, <1>3 DEF CallOutInv

\* stimer files a request: its timer was in the mailbox, so not on file.
LEMMA HandleCallInv ==
  ASSUME CallOutInv, HandleCall
  PROVE  CallOutInv'
<1> DEFINE r == Head(inbox)
           n == [at |-> FileUnder(r), key |-> r.key, kind |-> r.cmd, refresh |-> Refresh(r)]
<1>1. /\ inbox' \in Seq(Request)
      /\ \A i \in DOMAIN inbox' : /\ i + 1 \in DOMAIN inbox /\ inbox'[i] = inbox[i + 1]
                                  /\ i \in Nat \ {0}
      /\ 1 \in DOMAIN inbox /\ r = inbox[1] /\ r \in Request /\ r.cmd \in Kinds
  BY TailFacts DEF CallOutInv, HandleCall
<1>2. FileUnder(r) \in Nat /\ (r.cmd # "daily" => FileUnder(r) > now)
  BY FiledAhead DEF CallOutInv, HandleCall
<1>3. n \in Entry /\ CallOutTbl' = CallOutTbl \cup {n}
  BY <1>1, <1>2 DEF Entry, Request, Refresh, HandleCall
<1>4. TypeOK'
  BY <1>1, <1>3 DEF CallOutInv, TypeOK, HandleCall
<1>5. NotStranded'
  BY <1>2, <1>3 DEF CallOutInv, TypeOK, NotStranded, Ahead, Forward, HandleCall
<1>6. OnFileOnce'
  <2>1. \A e \in CallOutTbl : e.key # n.key
    BY <1>1 DEF CallOutInv, OnFileOnce
  <2>2. \A i \in DOMAIN inbox' : inbox'[i].cmd \in Kinds => inbox'[i].key # n.key
    <3> SUFFICES ASSUME NEW i \in DOMAIN inbox', inbox'[i].cmd \in Kinds,
                        inbox'[i].key = n.key
                 PROVE  FALSE
      OBVIOUS
    <3>1. i + 1 = 1
      BY <1>1 DEF CallOutInv, OnFileOnce
    <3> QED
      BY <1>1, <3>1
  <2>3. \A e, f \in CallOutTbl' : e.key = f.key => e = f
    BY <1>3, <2>1 DEF CallOutInv, OnFileOnce
  <2>4. \A i \in DOMAIN inbox' : inbox'[i].cmd \in Kinds =>
           \A e \in CallOutTbl' : e.key # inbox'[i].key
    BY <1>1, <1>3, <2>2 DEF CallOutInv, OnFileOnce
  <2>5. \A i, j \in DOMAIN inbox' :
           inbox'[i].cmd \in Kinds /\ inbox'[j].cmd \in Kinds
             /\ inbox'[j].key = inbox'[i].key => i = j
    <3> SUFFICES ASSUME NEW i \in DOMAIN inbox', NEW j \in DOMAIN inbox',
                        inbox'[i].cmd \in Kinds, inbox'[j].cmd \in Kinds,
                        inbox'[j].key = inbox'[i].key
                 PROVE  i = j
      OBVIOUS
    <3>1. i + 1 = j + 1
      BY <1>1 DEF CallOutInv, OnFileOnce
    <3> QED
      BY <1>1, <3>1
  <2> QED
    BY <2>3, <2>4, <2>5 DEF OnFileOnce
<1>7. KeysKnown'
  <2>1. Known(n.key)
    BY <1>1 DEF CallOutInv, KeysKnown
  <2> QED
    BY <1>1, <1>3, <2>1 DEF CallOutInv, KeysKnown, Known, HandleCall
<1>8. Forward'
  BY <1>1, <1>3 DEF CallOutInv, Forward, Refresh, HandleCall
<1> QED
  BY <1>4, <1>5, <1>6, <1>7, <1>8 DEF CallOutInv

\* The message nobody handles is dropped.
LEMMA HandleRemoveInv ==
  ASSUME CallOutInv, HandleRemove
  PROVE  CallOutInv'
<1>1. /\ inbox' \in Seq(Request)
      /\ \A i \in DOMAIN inbox' : /\ i + 1 \in DOMAIN inbox /\ inbox'[i] = inbox[i + 1]
                                  /\ i \in Nat \ {0}
  BY TailFacts DEF CallOutInv, HandleRemove
<1>2. TypeOK'
  BY <1>1 DEF CallOutInv, TypeOK, HandleRemove, stimer
<1>3. NotStranded'
  BY DEF CallOutInv, NotStranded, Ahead, HandleRemove, stimer
<1>4. OnFileOnce'
  <2>1. \A i, j \in DOMAIN inbox' :
           inbox'[i].cmd \in Kinds /\ inbox'[j].cmd \in Kinds
             /\ inbox'[j].key = inbox'[i].key => i = j
    <3> SUFFICES ASSUME NEW i \in DOMAIN inbox', NEW j \in DOMAIN inbox',
                        inbox'[i].cmd \in Kinds, inbox'[j].cmd \in Kinds,
                        inbox'[j].key = inbox'[i].key
                 PROVE  i = j
      OBVIOUS
    <3>1. i + 1 = j + 1
      BY <1>1 DEF CallOutInv, OnFileOnce
    <3> QED
      BY <1>1, <3>1
  <2>2. CallOutTbl' = CallOutTbl
    BY DEF HandleRemove, stimer
  <2> QED
    BY <1>1, <2>1, <2>2 DEF CallOutInv, OnFileOnce
<1>5. KeysKnown'
  BY <1>1 DEF CallOutInv, KeysKnown, Known, HandleRemove, stimer
<1>6. Forward'
  BY <1>1 DEF CallOutInv, Forward, HandleRemove, stimer
<1> QED
  BY <1>2, <1>3, <1>4, <1>5, <1>6 DEF CallOutInv

\* A round sends finitely many messages.
LEMMA SentNat ==
  ASSUME TypeOK, NEW k \in Key
  PROVE  Sent(k) \in Nat
<1> DEFINE S == {i \in 0 .. now : \E e \in DueNow : e.key = k /\ i \in SentIn(e)}
<1>1. IsFiniteSet(0 .. now)
  BY FS_Interval DEF TypeOK
<1>2. S \in SUBSET (0 .. now) /\ Sent(k) = Cardinality(S)
  BY DEF Sent
<1> HIDE DEF S
<1>3. IsFiniteSet(S)
  BY ONLY <1>1, <1>2, FS_Subset
<1> QED
  BY ONLY <1>2, <1>3, FS_CardinalityType

\* A round: what it leaves on file is ahead of it, whatever it had to catch
\* up with.
LEMMA DealInv ==
  ASSUME CallOutInv, Deal
  PROVE  CallOutInv'
<1> DEFINE new == UNION {Refiled(e) : e \in DueNow}
<1>0. LAST_TIME' = now /\ now' = now /\ inbox' = inbox
  BY DEF Deal
<1>1. CallOutTbl' = (CallOutTbl \ DueNow) \cup new /\ DueNow \subseteq CallOutTbl
  BY DEF Deal, DueNow
<1>2. \A f \in new : \E e \in DueNow : f \in Refiled(e)
  OBVIOUS
<1>3. \A f \in new : \E e \in DueNow :
         /\ f \in Entry /\ f.key = e.key /\ f.kind = e.kind /\ f.refresh = e.refresh
         /\ f.at > now
         /\ \A g \in Refiled(e) : g = f
  BY <1>2, RefiledShape DEF CallOutInv
<1>4. TypeOK'
  <2>1. mail' \in [Key -> Nat]
    <3>1. \A k \in Key : Sent(k) \in Nat
      BY SentNat DEF CallOutInv
    <3>2. mail \in [Key -> Nat] /\ mail' = [k \in Key |-> mail[k] + Sent(k)]
      BY DEF Deal, CallOutInv, TypeOK
    <3> QED
      BY ONLY <3>1, <3>2
  <2>2. CallOutTbl' \in SUBSET Entry
    BY <1>1, <1>3 DEF CallOutInv, TypeOK
  <2>3. /\ LAST_TIME' = now /\ first' = FALSE
        /\ UNCHANGED <<now, inbox, CallIndex, callout_func, asked, removed, runs>>
    BY DEF Deal
  <2> QED
    BY <2>1, <2>2, <2>3 DEF CallOutInv, TypeOK
<1>5. NotStranded'
  <2> SUFFICES ASSUME NEW f \in CallOutTbl', f.kind # "daily" PROVE f.at > now
    BY DEF NotStranded, Ahead, Deal
  <2>1. CASE f \in new
    BY <1>3, <2>1
  <2>2. CASE f \in CallOutTbl \ DueNow
    <3>1. f.at \in Nat /\ now \in Nat /\ LAST_TIME \in Nat
      BY <2>2 DEF CallOutInv, TypeOK, Entry
    <3>2. Ahead(f)
      BY <2>2 DEF CallOutInv, NotStranded
    <3> QED
      BY <2>2, <3>1, <3>2 DEF DueNow, Ahead
  <2> QED
    BY <1>1, <2>1, <2>2
<1>6. OnFileOnce'
  <2>1. \A f \in CallOutTbl' : \E e \in CallOutTbl : f.key = e.key
    BY <1>1, <1>3
  <2>2. inbox' = inbox
    BY DEF Deal
  <2>3. \A f, g \in CallOutTbl' : f.key = g.key => f = g
    <3> SUFFICES ASSUME NEW f \in CallOutTbl', NEW g \in CallOutTbl', f.key = g.key
                 PROVE  f = g
      OBVIOUS
    <3>1. CASE f \in new /\ g \in new
      <4>1. PICK e \in DueNow : f \in Refiled(e)
        BY <3>1, <1>2
      <4>2. PICK d \in DueNow : g \in Refiled(d)
        BY <3>1, <1>2
      <4>3. f.key = e.key /\ g.key = d.key /\ \A x \in Refiled(e) : x = f
        BY <4>1, <4>2, RefiledShape DEF CallOutInv
      <4>4. e = d
        BY <1>1, <4>3 DEF CallOutInv, OnFileOnce
      <4> QED
        BY <4>2, <4>3, <4>4
    <3>2. CASE f \in new /\ g \in CallOutTbl \ DueNow
      <4>1. PICK e \in DueNow : f.key = e.key
        BY <3>2, <1>3
      <4> QED
        BY <1>1, <3>2, <4>1 DEF CallOutInv, OnFileOnce
    <3>3. CASE g \in new /\ f \in CallOutTbl \ DueNow
      <4>1. PICK e \in DueNow : g.key = e.key
        BY <3>3, <1>3
      <4> QED
        BY <1>1, <3>3, <4>1 DEF CallOutInv, OnFileOnce
    <3>4. CASE f \in CallOutTbl /\ g \in CallOutTbl
      BY <3>4 DEF CallOutInv, OnFileOnce
    <3> QED
      BY <1>1, <3>1, <3>2, <3>3, <3>4
  <2> QED
    BY <2>1, <2>2, <2>3 DEF CallOutInv, OnFileOnce
<1>7. KeysKnown'
  <2>1. \A f \in CallOutTbl' : \E e \in CallOutTbl : f.key = e.key
    BY <1>1, <1>3
  <2> QED
    BY <2>1 DEF CallOutInv, KeysKnown, Known, Deal
<1>8. Forward'
  <2>1. \A f \in CallOutTbl' : f.kind = "multi" => f.refresh >= 1
    BY <1>1, <1>3 DEF CallOutInv, Forward
  <2>2. now \in Nat /\ \A i \in DOMAIN inbox : inbox[i].cmd = "multi" => inbox[i].arg >= 1
    BY DEF CallOutInv, Forward, TypeOK
  <2> QED
    BY <1>0, <2>1, <2>2 DEF Forward
<1> QED
  BY <1>4, <1>5, <1>6, <1>7, <1>8 DEF CallOutInv

\* Time passes.
LEMMA TickInv ==
  ASSUME CallOutInv, Tick
  PROVE  CallOutInv'
<1>1. PICK d \in 1 .. MaxLag : now' = now + d
  BY DEF Tick
<1>2. now' \in Nat /\ now' >= now
  BY <1>1 DEF CallOutInv, TypeOK
<1>3. UNCHANGED <<LAST_TIME, first, CallOutTbl, inbox, mail, CallIndex, callout_func,
                  asked, removed, runs>>
  BY DEF Tick, stimer
<1>4. TypeOK'
  BY <1>2, <1>3 DEF CallOutInv, TypeOK
<1>5. NotStranded' /\ OnFileOnce' /\ KeysKnown'
  BY <1>3 DEF CallOutInv, NotStranded, Ahead, OnFileOnce, KeysKnown, Known
<1>6. Forward'
  BY <1>2, <1>3 DEF CallOutInv, Forward, TypeOK
<1> QED
  BY <1>4, <1>5, <1>6 DEF CallOutInv

\* CallOutInv is an invariant of the timers.
THEOREM CallOutInvariant == Spec => []CallOutInv
<1>1. CallOutInv /\ [Next]_vars => CallOutInv'
  <2> SUFFICES ASSUME CallOutInv, [Next]_vars PROVE CallOutInv'
    OBVIOUS
  <2>1. CASE \E s \in Services : Service(s)
    <3>1. PICK s \in Services : Service(s)
      BY <2>1
    <3>2. CASE \E a \in Timeouts : Call(s, "once", a)
      BY <3>2, CallInv DEF Kinds
    <3>3. CASE \E a \in Periods : Call(s, "multi", a)
      BY <3>3, CallInv DEF Kinds
    <3>4. CASE \E a \in TimesOfDay : Call(s, "daily", a)
      BY <3>4, CallInv DEF Kinds
    <3> QED
      BY <3>1, <3>2, <3>3, <3>4 DEF Service
  <2>2. CASE \E k \in Key : RemoveCallOut(k) \/ Dispatch(k)
    BY <2>2, RemoveInv, DispatchInv
  <2>3. CASE HandleCall \/ HandleRemove \/ Deal \/ Tick
    BY <2>3, HandleCallInv, HandleRemoveInv, DealInv, TickInv
  <2>4. CASE UNCHANGED vars
    BY <2>4 DEF vars, CallOutInv, TypeOK, NotStranded, Ahead, OnFileOnce, KeysKnown,
                Known, Forward
  <2> QED
    BY <2>1, <2>2, <2>3, <2>4 DEF Next
<1> QED
  BY InitInv, <1>1, PTL DEF Spec

\* A CallOut or CallFre is never filed under a second that stimer's loop
\* has left behind.
THEOREM NothingStranded == Spec => []NotStranded
BY CallOutInvariant, PTL DEF CallOutInv

\* However removal, requests and rounds interleave, a timer is filed once.
THEOREM FiledOnce == Spec => []OnFileOnce
BY CallOutInvariant, PTL DEF CallOutInv

\* After RemoveCallOut the function of a timer does not run, although
\* stimer goes on sending its messages.
THEOREM RemovedStaysRemoved == Spec => RemovedNeverRuns
<1>1. CallOutInv /\ [Next]_vars => [\A k \in removed : runs'[k] = runs[k]]_vars
  <2> SUFFICES ASSUME CallOutInv, Next, NEW k \in removed PROVE runs'[k] = runs[k]
    OBVIOUS
  <2>1. k \in Key /\ k \notin callout_func /\ runs \in [Key -> Nat]
    BY DEF CallOutInv, TypeOK, KeysKnown
  <2>2. CASE \E x \in Key : Dispatch(x)
    BY <2>1, <2>2 DEF Dispatch
  <2>3. CASE ~ \E x \in Key : Dispatch(x)
    BY <2>3 DEF Next, Service, Call, RemoveCallOut, HandleCall, HandleRemove, Deal, Tick
  <2> QED
    BY <2>2, <2>3
<1> QED
  BY CallOutInvariant, <1>1, PTL DEF Spec, RemovedNeverRuns
-----------------------------------------------------------------------------
(* How often a timer is sent.                                              *)

\* From a to a + d every D-th second is gone through d \div D + 1 times.
LEMMA EveryNth ==
  ASSUME NEW a \in Nat, NEW d \in Nat, NEW D \in Nat \ {0}
  PROVE  Cardinality({i \in a .. (a + d) : (i - a) % D = 0}) = d \div D + 1
<1> DEFINE q == d \div D
           S == {i \in a .. (a + d) : (i - a) % D = 0}
           f == [j \in 0 .. q |-> a + D * j]
<1>1. q \in Nat /\ d >= D * q /\ d < D * q + D
  BY Multiple
<1> HIDE DEF q
<1>2. ASSUME NEW j \in 0 .. q PROVE a + D * j \in S
  <2>1. D * j \in Nat /\ D * j <= D * q
    <3>1. D * q = D * j + D * (q - j) /\ q - j \in Nat
      BY <1>1
    <3>2. D * (q - j) \in Nat /\ D * j \in Nat
      BY <3>1, <1>1
    <3> QED BY <3>1, <3>2
  <2>2. (D * j) % D = 0
    BY MultipleMod
  <2>3. (a + D * j) - a = D * j
    BY <2>1
  <2> QED BY <1>1, <2>1, <2>2, <2>3
<1>3. ASSUME NEW i \in S PROVE \E j \in 0 .. q : f[j] = i
  <2> DEFINE x == i - a
             j == x \div D
  <2>1. x \in Nat /\ x <= d /\ x % D = 0 /\ i = a + x
    OBVIOUS
  <2>2. j \in Nat /\ x = D * j
    BY <2>1, Multiple
  <2> HIDE DEF j, x
  <2>3. j <= q
    <3> SUFFICES ASSUME j >= q + 1 PROVE FALSE
      BY <1>1, <2>2
    <3>1. j - (q + 1) \in Nat
      BY <1>1, <2>2
    <3>2. D * (j - (q + 1)) \in Nat
      BY <3>1
    <3>3. D * j = D * q + D + D * (j - (q + 1))
      BY <1>1, <2>2
    <3> QED BY <1>1, <2>1, <2>2, <3>2, <3>3
  <2> QED BY <1>1, <2>1, <2>2, <2>3
<1>4. ASSUME NEW i \in 0 .. q, NEW j \in 0 .. q, f[i] = f[j] PROVE i = j
  <2>1. a + D * i = a + D * j /\ D * i \in Int /\ D * j \in Int
    BY <1>4
  <2>2. D * (i - j) = 0 /\ i - j \in Int
    BY <2>1
  <2> HIDE DEF f
  <2>3. i - j = 0
    BY <2>2
  <2> QED BY <2>3
<1> HIDE DEF S
<1>5. f \in [0 .. q -> S]
  BY <1>2
<1> HIDE DEF f
<1>6. f \in Bijection(0 .. q, S)
  BY <1>3, <1>4, <1>5 DEF Bijection, Injection, Surjection, IsInjective
<1>7. IsFiniteSet(0 .. q) /\ Cardinality(0 .. q) = q + 1
  BY <1>1, FS_Interval
<1>8. Cardinality(S) = Cardinality(0 .. q)
  BY <1>6, <1>7, FS_Bijection DEF ExistsBijection
<1>9. Cardinality(S) = q + 1
  BY <1>7, <1>8
<1> QED BY <1>9 DEF S, q

\* What a round sends of a timer: nothing of one that is not due, one message
\* of a CallOut or CallFre, one for each day of a Daily.
LEMMA SentCount ==
  ASSUME CallOutInv, NEW k \in Key
  PROVE  /\ (\A e \in DueNow : e.key # k) => Sent(k) = 0
         /\ \A e \in DueNow : e.key = k =>
               Sent(k) = IF e.kind = "daily" THEN (now - e.at) \div Day + 1 ELSE 1
<1> DEFINE S == {i \in 0 .. now : \E e \in DueNow : e.key = k /\ i \in SentIn(e)}
<1>1. ASSUME \A e \in DueNow : e.key # k PROVE Sent(k) = 0
  <2>1. S = {}
    BY <1>1
  <2>2. Cardinality(S) = Cardinality({})
    BY <2>1
  <2> QED BY <2>2, FS_EmptySet DEF Sent
<1>2. ASSUME NEW e \in DueNow, e.key = k
      PROVE  Sent(k) = IF e.kind = "daily" THEN (now - e.at) \div Day + 1 ELSE 1
  <2>1. e \in CallOutTbl /\ e.at \in Nat /\ e.at <= now /\ now \in Nat
    BY DEF DueNow, CallOutInv, TypeOK, Entry
  <2>2. \A f \in DueNow : f.key = k => f = e
    BY <1>2, <2>1 DEF DueNow, CallOutInv, OnFileOnce
  <2>3. SentIn(e) \subseteq 0 .. now
    BY <2>1 DEF SentIn
  <2>4. S = SentIn(e)
    BY <1>2, <2>2, <2>3
  <2>5. Sent(k) = Cardinality(SentIn(e))
    <3>1. Sent(k) = Cardinality(S)
      BY DEF Sent
    <3> HIDE DEF S
    <3> QED BY <2>4, <3>1, Zenon
  <2>6. CASE e.kind = "daily"
    <3> DEFINE d == now - e.at
               T == {i \in e.at .. (e.at + d) : (i - e.at) % Day = 0}
    <3>1. d \in Nat /\ e.at + d = now
      BY <2>1
    <3>2. Cardinality(T) = d \div Day + 1
      BY <2>1, <3>1, EveryNth
    <3>3. 0 % Day = 0 /\ e.at - e.at = 0
      BY <2>1
    <3>4. SentIn(e) = T
      BY <2>1, <2>6, <3>1, <3>3 DEF SentIn
    <3>5. Cardinality(SentIn(e)) = Cardinality(T)
      <4> HIDE DEF T
      <4> QED BY <3>4, Zenon
    <3> QED BY <2>5, <2>6, <3>2, <3>5
  <2>7. CASE e.kind # "daily"
    <3>1. SentIn(e) = {e.at}
      BY <2>1, <2>7 DEF SentIn
    <3>2. Cardinality(SentIn(e)) = Cardinality({e.at}) /\ Cardinality({e.at}) = 1
      BY <3>1, FS_Singleton
    <3> QED BY <2>5, <2>7, <3>2
  <2> QED BY <2>6, <2>7
<1> QED BY <1>1, <1>2

-----------------------------------------------------------------------------
(* Paced.                                                                  *)

\* The messages sent of a timer, handled or on their way.
Fired == [k \in Key |-> runs[k] + mail[k]]

\* Nothing is sent of a timer that was not asked for, or whose request is
\* still in the mailbox.
Quiet ==
    /\ \A k \in Key : ~Known(k) => Fired[k] = 0
    /\ \A k \in DOMAIN asked : Known(k) /\ asked[k].time <= now
    /\ \A i \in DOMAIN inbox : inbox[i].cmd \in Kinds =>
          LET k == inbox[i].key
          IN  /\ k \in DOMAIN asked /\ Fired[k] = 0
              /\ asked[k].kind = inbox[i].cmd /\ asked[k].arg = inbox[i].arg

\* What the second on file says of the n messages sent so far.
OnFile(e, n, a) ==
    CASE e.kind = "once" ->
             n = 0 /\ e.at >= a.time + (IF a.arg = 0 THEN 1 ELSE a.arg)
      [] e.kind = "multi" ->
             (n + 1) * a.arg <= e.at - a.time /\ e.refresh = a.arg
      [] e.kind = "daily" ->
             n * Day <= e.at - a.time

Filed == \A e \in CallOutTbl :
    /\ e.key \in DOMAIN asked /\ asked[e.key].kind = e.kind
    /\ OnFile(e, Fired[e.key], asked[e.key])

\* What Paced says of a timer: n messages at the age of so many seconds.
PacedOne(n, a, age) ==
    CASE a.kind = "once" -> n <= 1 /\ (n = 1 => age >= IF a.arg = 0 THEN 1 ELSE a.arg)
      [] a.kind = "multi" -> n * a.arg <= age
      [] a.kind = "daily" -> (n - 1) * Day <= age

\* The invariant.
PaceInv == Quiet /\ Filed /\ Paced

\* Paced, timer by timer.
LEMMA PacedEach ==
  ASSUME DOMAIN asked \subseteq Key
  PROVE  Paced <=> \A k \in DOMAIN asked : PacedOne(Fired[k], asked[k], now - asked[k].time)
<1>1. \A k \in DOMAIN asked : Fired[k] = runs[k] + mail[k]
  BY DEF Fired
<1> QED BY <1>1 DEF Paced, PacedOne, Wait

\* Products grow with their factors.
LEMMA Grows ==
  ASSUME NEW m \in Int, NEW n \in Int, m <= n, NEW d \in Nat
  PROVE  m * d <= n * d /\ m * d \in Int /\ n * d \in Int
<1>1. n - m \in Nat /\ (n - m) * d >= 0 /\ m * d \in Int /\ n * d \in Int
  OBVIOUS
<1>2. (n - m) * d = n * d - m * d
  OBVIOUS
<1> QED BY <1>1, <1>2

\* The types of what is counted.
LEMMA PaceTypes ==
  ASSUME TypeOK
  PROVE  /\ now \in Nat
         /\ \A k \in Key : Fired[k] \in Nat /\ runs[k] \in Nat /\ mail[k] \in Nat
         /\ \A k \in DOMAIN asked : /\ k \in Key /\ asked[k].kind \in Kinds
                                    /\ asked[k].arg \in Nat /\ asked[k].time \in Nat
         /\ \A e \in CallOutTbl : /\ e \in Entry /\ e.key \in Key /\ e.kind \in Kinds
                                  /\ e.at \in Nat /\ e.refresh \in Nat
         /\ \A i \in DOMAIN inbox : inbox[i] \in Request /\ inbox[i].key \in Key
<1>1. \A k \in Key : Fired[k] \in Nat /\ runs[k] \in Nat /\ mail[k] \in Nat
  BY DEF TypeOK, Fired
<1>2. \A i \in DOMAIN inbox : inbox[i] \in Request /\ inbox[i].key \in Key
  <2>1. \A i \in DOMAIN inbox : inbox[i] \in Request
    BY DEF TypeOK
  <2> QED BY <2>1 DEF Request
<1>3. \A e \in CallOutTbl : /\ e \in Entry /\ e.key \in Key /\ e.kind \in Kinds
                            /\ e.at \in Nat /\ e.refresh \in Nat
  BY DEF TypeOK, Entry
<1> QED BY <1>1, <1>2, <1>3 DEF TypeOK

\* The same of the next state.
LEMMA TypesNext ==
  ASSUME TypeOK'
  PROVE  now' \in Nat /\ \A k \in Key : Fired'[k] \in Nat
BY DEF TypeOK, Fired

\* PacedEach for the next state.
LEMMA PacedNext ==
  ASSUME (DOMAIN asked \subseteq Key)',
         \A k \in DOMAIN asked' : PacedOne(Fired'[k], asked'[k], now' - asked'[k].time)
  PROVE  Paced'
<1>1. \A k \in DOMAIN asked' : Fired'[k] = runs'[k] + mail'[k]
  BY DEF Fired
<1> QED BY <1>1 DEF Paced, PacedOne, Wait

\* Fewer messages at a later time are no worse.
LEMMA PacedLater ==
  ASSUME NEW n \in Nat, NEW m \in Nat, m <= n, NEW g \in Int, NEW h \in Int, g <= h,
         NEW a, a.arg \in Nat, a.kind \in Kinds, PacedOne(n, a, g)
  PROVE  PacedOne(m, a, h)
<1>1. a.kind = "once" \/ a.kind = "multi" \/ a.kind = "daily"
  BY DEF Kinds
<1>2. CASE a.kind = "once"
  BY <1>2 DEF PacedOne
<1>3. CASE a.kind = "multi"
  <2>1. m * a.arg <= n * a.arg /\ m * a.arg \in Int /\ n * a.arg \in Int
    BY Grows
  <2> QED BY <1>3, <2>1 DEF PacedOne
<1>4. CASE a.kind = "daily"
  <2>1. /\ (m - 1) * Day <= (n - 1) * Day
        /\ (m - 1) * Day \in Int /\ (n - 1) * Day \in Int
    BY Grows
  <2> QED BY <1>4, <2>1 DEF PacedOne
<1> QED BY <1>1, <1>2, <1>3, <1>4

\* The same for what is on file.
LEMMA OnFileLater ==
  ASSUME NEW n \in Nat, NEW m \in Nat, m <= n,
         NEW a, a.arg \in Nat, a.time \in Nat, NEW e, e.at \in Nat, e.kind \in Kinds,
         OnFile(e, n, a)
  PROVE  OnFile(e, m, a)
<1>1. e.kind = "once" \/ e.kind = "multi" \/ e.kind = "daily"
  BY DEF Kinds
<1>2. CASE e.kind = "once"
  BY <1>2 DEF OnFile
<1>3. CASE e.kind = "multi"
  <2>1. /\ (m + 1) * a.arg <= (n + 1) * a.arg
        /\ (m + 1) * a.arg \in Int /\ (n + 1) * a.arg \in Int
    BY Grows
  <2> QED BY <1>3, <2>1 DEF OnFile
<1>4. CASE e.kind = "daily"
  <2>1. m * Day <= n * Day /\ m * Day \in Int /\ n * Day \in Int
    BY Grows
  <2> QED BY <1>4, <2>1 DEF OnFile
<1> QED BY <1>1, <1>2, <1>3, <1>4

\* Steps that add no request, file nothing and send nothing.
LEMMA PaceKept ==
  ASSUME TypeOK, TypeOK', PaceInv, UNCHANGED <<CallOutTbl, CallIndex, asked>>,
         now' >= now, \A k \in Key : Fired'[k] <= Fired[k],
         \A i \in DOMAIN inbox' : inbox'[i].cmd \in Kinds =>
            \E j \in DOMAIN inbox : inbox[j] = inbox'[i]
  PROVE  PaceInv'
<1>1. /\ now \in Nat /\ now' \in Nat
      /\ \A k \in Key : Fired[k] \in Nat /\ Fired'[k] \in Nat
  BY PaceTypes, TypesNext
<1>2. Quiet'
  <2>1. \A k \in Key : ~Known(k)' => Fired'[k] = 0
    BY <1>1 DEF PaceInv, Quiet, Known
  <2>2. \A k \in DOMAIN asked' : Known(k)' /\ asked'[k].time <= now'
    BY <1>1, PaceTypes DEF PaceInv, Quiet, Known
  <2>3. ASSUME NEW i \in DOMAIN inbox', inbox'[i].cmd \in Kinds
        PROVE  LET k == inbox'[i].key
               IN  /\ k \in DOMAIN asked' /\ Fired'[k] = 0
                   /\ asked'[k].kind = inbox'[i].cmd /\ asked'[k].arg = inbox'[i].arg
    <3>1. PICK j \in DOMAIN inbox : inbox[j] = inbox'[i]
      BY <2>3
    <3>2. inbox[j].key \in Key /\ Fired[inbox[j].key] = 0
      BY <2>3, <3>1, PaceTypes DEF PaceInv, Quiet
    <3> QED BY <1>1, <2>3, <3>1, <3>2 DEF PaceInv, Quiet
  <2> QED BY <2>1, <2>2, <2>3 DEF Quiet
<1>3. Filed'
  <2> SUFFICES ASSUME NEW e \in CallOutTbl
               PROVE  /\ e.key \in DOMAIN asked /\ asked[e.key].kind = e.kind
                      /\ OnFile(e, Fired'[e.key], asked[e.key])
    BY DEF Filed
  <2> DEFINE k == e.key
             a == asked[k]
  <2>1. /\ k \in DOMAIN asked /\ a.kind = e.kind /\ k \in Key /\ e.at \in Nat /\ e.kind \in Kinds
        /\ a.arg \in Nat /\ a.time \in Nat /\ OnFile(e, Fired[k], a)
    BY PaceTypes DEF PaceInv, Filed
  <2> QED BY <1>1, <2>1, OnFileLater
<1>4. Paced'
  <2>1. ASSUME NEW k \in DOMAIN asked
        PROVE  PacedOne(Fired'[k], asked[k], now' - asked[k].time)
    <3>1. /\ k \in Key /\ asked[k].arg \in Nat /\ asked[k].time \in Nat
          /\ asked[k].kind \in Kinds
          /\ PacedOne(Fired[k], asked[k], now - asked[k].time)
      BY PaceTypes, PacedEach DEF PaceInv
    <3> QED BY <1>1, <3>1, PacedLater
  <2> QED BY <2>1, PacedNext DEF TypeOK
<1> QED BY <1>2, <1>3, <1>4 DEF PaceInv

\* What a service asks for and is handled at once, and the clock.
LEMMA PaceQuietSteps ==
  ASSUME CallOutInv, TypeOK', PaceInv,
         \/ \E k \in Key : RemoveCallOut(k) \/ Dispatch(k)
         \/ HandleRemove \/ Tick \/ UNCHANGED vars
  PROVE  PaceInv'
<1> USE DEF CallOutInv
<1>1. ASSUME NEW k \in Key, RemoveCallOut(k) PROVE PaceInv'
  <2>1. \A x \in Key : Fired'[x] <= Fired[x]
    BY <1>1, PaceTypes DEF RemoveCallOut, Fired
  <2>2. \A i \in DOMAIN inbox' : inbox'[i].cmd \in Kinds =>
           \E j \in DOMAIN inbox : inbox[j] = inbox'[i]
    <3>1. inbox \in Seq(Request) /\ inbox' = Append(inbox, [cmd |-> "rm", key |-> k, arg |-> 0])
      BY <1>1 DEF RemoveCallOut, TypeOK
    <3>2. inbox'[Len(inbox) + 1].cmd = "rm" /\ "rm" \notin Kinds
      BY <3>1 DEF Kinds
    <3>3. \A i \in DOMAIN inbox' : i = Len(inbox) + 1 \/ (i \in DOMAIN inbox /\ inbox'[i] = inbox[i])
      BY <3>1
    <3> QED BY <3>2, <3>3
  <2> QED BY <1>1, <2>1, <2>2, PaceTypes, PaceKept DEF RemoveCallOut, stimer
<1>2. ASSUME NEW k \in Key, Dispatch(k) PROVE PaceInv'
  <2>1. \A x \in Key : Fired'[x] <= Fired[x]
    <3>1. mail' = [mail EXCEPT ![k] = @ - 1]
      BY <1>2 DEF Dispatch
    <3>2. runs' = runs \/ runs' = [runs EXCEPT ![k] = @ + 1]
      BY <1>2 DEF Dispatch
    <3>3. mail \in [Key -> Nat] /\ runs \in [Key -> Nat]
      BY DEF TypeOK
    <3> QED BY <3>1, <3>2, <3>3 DEF Fired
  <2> QED BY <1>2, <2>1, PaceTypes, PaceKept DEF Dispatch, stimer
<1>3. CASE HandleRemove
  <2>1. \A x \in Key : Fired'[x] <= Fired[x]
    BY <1>3, PaceTypes DEF HandleRemove, Fired
  <2>2. \A i \in DOMAIN inbox' : inbox'[i].cmd \in Kinds =>
           \E j \in DOMAIN inbox : inbox[j] = inbox'[i]
    <3>1. inbox \in Seq(Request) /\ inbox # <<>> /\ inbox' = Tail(inbox)
      BY <1>3 DEF HandleRemove, TypeOK
    <3>2. \A i \in DOMAIN inbox' : i + 1 \in DOMAIN inbox /\ inbox'[i] = inbox[i + 1]
      BY <3>1
    <3> QED BY <3>2
  <2> QED BY <1>3, <2>1, <2>2, PaceTypes, PaceKept DEF HandleRemove, stimer
<1>4. CASE Tick
  <2>1. PICK d \in 1 .. MaxLag : now' = now + d
    BY <1>4 DEF Tick
  <2>2. now' >= now
    BY <2>1, PaceTypes, CallOutAssumption
  <2>3. \A x \in Key : Fired'[x] <= Fired[x]
    BY <1>4, PaceTypes DEF Tick, Fired
  <2> QED BY <1>4, <2>2, <2>3, PaceKept DEF Tick, stimer
<1>5. CASE UNCHANGED vars
  <2>1. \A x \in Key : Fired'[x] <= Fired[x]
    BY <1>5, PaceTypes DEF vars, Fired
  <2> QED BY <1>5, <2>1, PaceTypes, PaceKept DEF vars
<1> QED BY <1>1, <1>2, <1>3, <1>4, <1>5

\* A new timer: nothing has been sent of its index, and nothing is on file.
LEMMA PaceCall ==
  ASSUME CallOutInv, CallOutInv', PaceInv, NEW s \in Services, NEW kind \in Kinds, NEW arg \in Nat,
         Call(s, kind, arg)
  PROVE  PaceInv'
<1> DEFINE new == [kind |-> kind, arg |-> arg, time |-> now]
<1>0. /\ TypeOK /\ TypeOK' /\ CallIndex \in [Services -> 0 .. MaxIndex]
      /\ CallIndex[s] < MaxIndex
      /\ CallIndex' = [CallIndex EXCEPT ![s] = CallIndex[s] + 1]
  BY DEF Call, CallOutInv, TypeOK
<1> PICK k \in Key : k = <<s, CallIndex[s] + 1>>
  <2>1. CallIndex[s] + 1 \in 1 .. MaxIndex
    BY <1>0, CallOutAssumption
  <2> QED BY <2>1 DEF Key
<1>1. TypeOK /\ TypeOK' /\ k \in Key /\ ~Known(k)
  BY <1>0 DEF Known
<1>2. /\ UNCHANGED <<now, CallOutTbl, Fired>>
      /\ inbox' = Append(inbox, [cmd |-> kind, key |-> k, arg |-> arg])
  BY DEF Call, stimer, Fired
<1>3. /\ DOMAIN asked' = DOMAIN asked \cup {k} /\ asked'[k] = new
      /\ \A x \in DOMAIN asked : x # k => asked'[x] = asked[x]
  BY DEF Call
<1>4. k \notin DOMAIN asked /\ Fired[k] = 0
  BY <1>1 DEF PaceInv, Quiet
<1>5. Known(k)' /\ \A x \in Key : Known(x) => Known(x)'
  <2>1. \A x \in Key : x[1] \in Services /\ x[2] \in Nat
    BY DEF Key
  <2> QED BY <1>0, <2>1 DEF Known
<1>6. now \in Nat
  BY <1>1, PaceTypes
<1>7. Quiet'
  <2>1. \A x \in Key : ~Known(x)' => Fired'[x] = 0
    BY <1>2, <1>5 DEF PaceInv, Quiet
  <2>2. ASSUME NEW x \in DOMAIN asked' PROVE Known(x)' /\ asked'[x].time <= now'
    <3>1. CASE x = k
      BY <1>2, <1>3, <1>5, <1>6, <3>1
    <3>2. CASE x # k
      BY <1>1, <1>2, <1>3, <1>5, <3>2 DEF PaceInv, Quiet, TypeOK
    <3> QED BY <3>1, <3>2
  <2>3. ASSUME NEW i \in DOMAIN inbox', inbox'[i].cmd \in Kinds
        PROVE  LET x == inbox'[i].key
               IN  /\ x \in DOMAIN asked' /\ Fired'[x] = 0
                   /\ asked'[x].kind = inbox'[i].cmd /\ asked'[x].arg = inbox'[i].arg
    <3>1. inbox \in Seq(Request)
      BY <1>1 DEF TypeOK
    <3>2. CASE i \in DOMAIN inbox
      <4>1. inbox'[i] = inbox[i]
        BY <1>2, <3>1, <3>2
      <4> DEFINE x == inbox[i].key
      <4>2. /\ x \in DOMAIN asked /\ Fired[x] = 0
            /\ asked[x].kind = inbox[i].cmd /\ asked[x].arg = inbox[i].arg
        BY <2>3, <3>2, <4>1 DEF PaceInv, Quiet
      <4> HIDE DEF x
      <4>3. x \in DOMAIN asked' /\ asked'[x] = asked[x] /\ Fired'[x] = 0
        BY <1>2, <1>3, <1>4, <4>2
      <4> QED BY <4>1, <4>2, <4>3 DEF x
    <3>3. CASE i \notin DOMAIN inbox
      <4>1. inbox'[i] = [cmd |-> kind, key |-> k, arg |-> arg]
        BY <1>2, <3>1, <3>3
      <4> QED BY <1>2, <1>3, <1>4, <4>1
    <3> QED BY <3>2, <3>3
  <2> QED BY <2>1, <2>2, <2>3 DEF Quiet
<1>8. Filed'
  BY <1>2, <1>3, <1>4 DEF PaceInv, Filed
<1>9. Paced'
  <2>1. ASSUME NEW x \in DOMAIN asked' PROVE PacedOne(Fired'[x], asked'[x], now' - asked'[x].time)
    <3>1. CASE x = k
      <4>1. Fired'[x] = 0 /\ now' - asked'[x].time = 0
        BY <1>2, <1>3, <1>4, <1>6, <3>1
      <4>2. asked'[x].kind = kind /\ asked'[x].arg = arg
        BY <1>3, <3>1
      <4>3. 0 * arg = 0 /\ (0 - 1) * Day <= 0
        BY CallOutAssumption
      <4>4. kind = "once" \/ kind = "multi" \/ kind = "daily"
        BY DEF Kinds
      <4>5. \A a : a.kind = kind /\ a.arg = arg => PacedOne(0, a, 0)
        <5>1. CASE kind = "once"
          BY <5>1 DEF PacedOne
        <5>2. CASE kind = "multi"
          BY <4>3, <5>2 DEF PacedOne
        <5>3. CASE kind = "daily"
          BY <4>3, <5>3 DEF PacedOne
        <5> QED BY <4>4, <5>1, <5>2, <5>3
      <4> QED BY <4>1, <4>2, <4>5
    <3>2. CASE x # k
      BY <1>1, <1>2, <1>3, <3>2, PacedEach DEF PaceInv, TypeOK
    <3> QED BY <3>1, <3>2
  <2> QED BY <1>1, <2>1, PacedNext DEF TypeOK
<1> QED BY <1>7, <1>8, <1>9 DEF PaceInv

\* call_once, call_multi and call_daily: the second a request is filed under
\* is far enough off.
LEMMA PaceHandleCall ==
  ASSUME CallOutInv, TypeOK', PaceInv, HandleCall
  PROVE  PaceInv'
<1> DEFINE r == Head(inbox)
           k == r.key
           e == [at |-> FileUnder(r), key |-> k, kind |-> r.cmd, refresh |-> Refresh(r)]
<1>1. /\ inbox \in Seq(Request) /\ inbox # <<>> /\ inbox' = Tail(inbox) /\ r.cmd \in Kinds
      /\ TypeOK /\ CallOutTbl' = CallOutTbl \cup {e}
      /\ UNCHANGED <<now, CallIndex, asked, Fired>>
  BY DEF HandleCall, CallOutInv, TypeOK, Fired
<1>2. 1 \in DOMAIN inbox /\ inbox[1] = r
  BY <1>1
<1>3. \A i \in DOMAIN inbox' : i + 1 \in DOMAIN inbox /\ inbox'[i] = inbox[i + 1]
  BY <1>1
<1>4. /\ k \in DOMAIN asked /\ Fired[k] = 0 /\ asked[k].kind = r.cmd /\ asked[k].arg = r.arg
      /\ asked[k].time <= now
  BY <1>1, <1>2 DEF PaceInv, Quiet
<1>5. now \in Nat /\ asked[k].arg \in Nat /\ asked[k].time \in Nat /\ k \in Key
  BY <1>1, <1>4, PaceTypes
<1> HIDE DEF r
<1>6. OnFile(e, 0, asked[k])
  <2>0. r.arg \in Nat /\ r.arg = asked[k].arg
    BY <1>4, <1>5
  <2>1. CASE r.cmd = "once"
    BY <2>0, <2>1, <1>4, <1>5 DEF OnFile, FileUnder, Delay
  <2>2. CASE r.cmd = "multi"
    BY <2>0, <2>2, <1>4, <1>5 DEF OnFile, FileUnder, Delay, Refresh
  <2>3. CASE r.cmd = "daily"
    <3>1. NextDaily(r.arg) \in Int /\ NextDaily(r.arg) >= now
      <4>1. now % Day \in Nat /\ now % Day < Day
        BY <1>5, CallOutAssumption
      <4> QED BY <2>0, <1>5, <4>1, CallOutAssumption DEF NextDaily
    <3>2. e.at = NextDaily(r.arg) /\ e.kind = "daily" /\ 0 * Day = 0
      BY <2>3, CallOutAssumption DEF FileUnder
    <3> HIDE DEF e
    <3> QED BY <1>4, <1>5, <3>1, <3>2 DEF OnFile
  <2> QED BY <1>1, <2>1, <2>2, <2>3 DEF Kinds
<1>7. Quiet'
  BY <1>1, <1>3 DEF PaceInv, Quiet, Known
<1>8. Filed'
  <2>1. e.key = k /\ e.kind = r.cmd
    OBVIOUS
  <2> HIDE DEF e
  <2> QED BY <1>1, <1>4, <1>6, <2>1 DEF PaceInv, Filed
<1>9. Paced'
  <2>1. \A x \in DOMAIN asked' : PacedOne(Fired'[x], asked'[x], now' - asked'[x].time)
    BY <1>1, PacedEach DEF PaceInv, TypeOK
  <2> QED BY <2>1, PacedNext DEF TypeOK
<1> QED BY <1>7, <1>8, <1>9 DEF PaceInv

\* A round sends what has come due, and files what comes again later by as
\* many periods or days as it has sent messages.
LEMMA PaceDeal ==
  ASSUME CallOutInv, TypeOK', PaceInv, Deal
  PROVE  PaceInv'
<1>1. /\ TypeOK /\ UNCHANGED <<now, inbox, CallIndex, asked, runs>>
      /\ CallOutTbl' = (CallOutTbl \ DueNow) \cup UNION {Refiled(e) : e \in DueNow}
      /\ mail' = [k \in Key |-> mail[k] + Sent(k)]
  BY DEF Deal, CallOutInv
<1>2. /\ now \in Nat /\ DueNow \subseteq CallOutTbl
      /\ \A k \in Key : Fired[k] \in Nat /\ runs[k] \in Nat /\ mail[k] \in Nat
      /\ \A k \in DOMAIN asked : /\ k \in Key /\ asked[k].kind \in Kinds
                                 /\ asked[k].arg \in Nat /\ asked[k].time \in Nat
      /\ \A e \in CallOutTbl : /\ e \in Entry /\ e.key \in Key /\ e.kind \in Kinds
                               /\ e.at \in Nat /\ e.refresh \in Nat
  BY <1>1, PaceTypes DEF DueNow
<1>3. ASSUME NEW k \in Key, \A e \in DueNow : e.key # k PROVE Fired'[k] = Fired[k]
  <2>1. Sent(k) = 0
    BY <1>3, SentCount
  <2> QED BY <1>1, <1>2, <2>1 DEF Fired
<1>4. ASSUME NEW e \in DueNow
      PROVE  Fired'[e.key] = Fired[e.key]
                + (IF e.kind = "daily" THEN (now - e.at) \div Day + 1 ELSE 1)
  <2>1. e.key \in Key /\ e.at \in Nat /\ e.at <= now
    BY <1>2 DEF DueNow
  <2> DEFINE c == IF e.kind = "daily" THEN (now - e.at) \div Day + 1 ELSE 1
  <2>2. Sent(e.key) = c
    BY <2>1, SentCount
  <2>3. c \in Nat
    BY <1>2, <2>1, Multiple, CallOutAssumption
  <2> HIDE DEF c
  <2>4. Fired'[e.key] = runs[e.key] + (mail[e.key] + c)
    BY <1>1, <2>1, <2>2 DEF Fired
  <2>5. Fired'[e.key] = Fired[e.key] + c
    BY <1>2, <2>1, <2>3, <2>4 DEF Fired
  <2> QED BY <2>5 DEF c
<1>5. ASSUME NEW e \in DueNow
      PROVE  /\ e.key \in DOMAIN asked /\ asked[e.key].kind = e.kind
             /\ OnFile(e, Fired[e.key], asked[e.key])
  BY <1>2 DEF PaceInv, Filed
\* What a round leaves of an entry that was due.
<1>6. ASSUME NEW e \in DueNow
      PROVE  /\ \A f \in Refiled(e) : OnFile(f, Fired'[e.key], asked[e.key])
             /\ PacedOne(Fired'[e.key], asked[e.key], now - asked[e.key].time)
  <2> DEFINE n == Fired[e.key]
             a == asked[e.key]
             q == (now - e.at) \div Day
             x == a.arg
             t == a.time
             b == e.at
  <2>1. /\ n \in Nat /\ x \in Nat /\ t \in Nat /\ b \in Nat /\ b <= now
        /\ a.kind = e.kind /\ e.kind \in Kinds /\ e \in Entry /\ OnFile(e, n, a)
    BY <1>2, <1>5 DEF DueNow
  <2>2. /\ q \in Nat /\ (now - b) % Day \in Nat /\ now - b = Day * q + ((now - b) % Day)
    <3>1. now - b \in Nat /\ Day \in Nat \ {0}
      BY <1>2, <2>1, CallOutAssumption
    <3> QED BY <3>1, Multiple
  <2> HIDE DEF q
  <2>3. Fired'[e.key] = n + (IF e.kind = "daily" THEN q + 1 ELSE 1)
    BY <1>4 DEF q
  <2> DEFINE f == [e EXCEPT !.at = NextAt(e)]
  <2>4. f.kind = e.kind /\ f.refresh = e.refresh /\ f.at = NextAt(e)
    BY <2>1 DEF Entry
  <2>5. Refiled(e) = IF e.kind = "once" THEN {} ELSE {f}
    BY DEF Refiled
  <2> HIDE DEF n, f, a
  <2>6. CASE e.kind = "once"
    <3>1. n = 0 /\ b >= t + (IF x = 0 THEN 1 ELSE x)
      BY <2>1, <2>6 DEF OnFile
    <3> QED BY <1>2, <2>1, <2>3, <2>5, <2>6, <3>1 DEF PacedOne, a
  <2>7. CASE e.kind = "multi"
    <3>1. (n + 1) * x <= b - t /\ e.refresh = x
      BY <2>1, <2>7 DEF OnFile
    <3>2. Fired'[e.key] = n + 1 /\ NextAt(e) = now + x
      BY <2>3, <2>7, <3>1 DEF NextAt
    <3>3. (n + 1) * x \in Int /\ ((n + 1) + 1) * x = (n + 1) * x + x
      BY <2>1
    <3> HIDE DEF x, t, b
    <3>4. (n + 1) * x <= now - t /\ ((n + 1) + 1) * x <= (now + x) - t
      BY <1>2, <2>1, <3>1, <3>3
    <3>5. OnFile(f, n + 1, a)
      BY <2>4, <2>7, <3>1, <3>2, <3>4 DEF OnFile, x, t
    <3>6. PacedOne(n + 1, a, now - t)
      BY <2>1, <2>7, <3>4 DEF PacedOne, x, t
    <3> QED BY <2>5, <2>7, <3>2, <3>5, <3>6 DEF a, t
  <2>8. CASE e.kind = "daily"
    <3>1. n * Day <= b - t
      BY <2>1, <2>8 DEF OnFile
    <3>2. Fired'[e.key] = n + (q + 1)
      BY <2>3, <2>8
    <3>3. NextAt(e) = now - ((now - b) % Day) + Day
      BY <2>8 DEF NextAt
    <3>4. /\ (n + (q + 1)) * Day = n * Day + Day * q + Day
          /\ ((n + (q + 1)) - 1) * Day = n * Day + Day * q
          /\ n * Day \in Int /\ Day * q \in Int /\ Day \in Nat
      BY <2>1, <2>2, CallOutAssumption
    <3> HIDE DEF x, t, b
    <3>5. /\ (n + (q + 1)) * Day <= NextAt(e) - t
          /\ ((n + (q + 1)) - 1) * Day <= now - t
      BY <1>2, <2>1, <2>2, <3>1, <3>3, <3>4
    <3>6. OnFile(f, n + (q + 1), a)
      BY <2>4, <2>8, <3>5 DEF OnFile, t
    <3>7. PacedOne(n + (q + 1), a, now - t)
      BY <2>1, <2>8, <3>5 DEF PacedOne, t
    <3> QED BY <2>5, <2>8, <3>2, <3>6, <3>7 DEF a, t
  <2> QED BY <2>1, <2>6, <2>7, <2>8 DEF Kinds
<1>7. Quiet'
  <2>1. \A k \in Key : ~Known(k) \/ (\E i \in DOMAIN inbox : inbox[i].cmd \in Kinds /\ inbox[i].key = k)
           => Fired'[k] = Fired[k]
    BY <1>2, <1>3 DEF CallOutInv, KeysKnown, OnFileOnce
  <2> QED BY <1>1, <1>2, <2>1 DEF PaceInv, Quiet, Known
<1>8. Filed'
  <2> SUFFICES ASSUME NEW g \in CallOutTbl'
               PROVE  /\ g.key \in DOMAIN asked /\ asked[g.key].kind = g.kind
                      /\ OnFile(g, Fired'[g.key], asked[g.key])
    BY <1>1 DEF Filed
  <2>1. CASE g \in CallOutTbl \ DueNow
    <3>1. \A e \in DueNow : e.key # g.key
      BY <1>2, <2>1 DEF CallOutInv, OnFileOnce
    <3>2. Fired'[g.key] = Fired[g.key]
      BY <1>2, <1>3, <2>1, <3>1
    <3> QED BY <2>1, <3>2 DEF PaceInv, Filed
  <2>2. CASE g \notin CallOutTbl \ DueNow
    <3>1. PICK e \in DueNow : g \in Refiled(e)
      BY <1>1, <2>2
    <3>2. g = [e EXCEPT !.at = NextAt(e)] /\ e \in Entry
      BY <1>2, <3>1 DEF Refiled
    <3>3. g.key = e.key /\ g.kind = e.kind
      BY <3>2 DEF Entry
    <3> QED BY <1>5, <1>6, <3>1, <3>3
  <2> QED BY <2>1, <2>2
<1>9. Paced'
  <2>1. ASSUME NEW k \in DOMAIN asked PROVE PacedOne(Fired'[k], asked[k], now - asked[k].time)
    <3>1. CASE \E e \in DueNow : e.key = k
      BY <1>6, <3>1
    <3>2. CASE \A e \in DueNow : e.key # k
      <4>1. Fired'[k] = Fired[k]
        BY <1>2, <1>3, <3>2
      <4> QED BY <1>1, <4>1, PacedEach DEF PaceInv, TypeOK
    <3> QED BY <3>1, <3>2
  <2> QED BY <1>1, <2>1, PacedNext DEF TypeOK
<1> QED BY <1>7, <1>8, <1>9 DEF PaceInv

\* Paced, for every set of services, timeouts and periods, every length of a
\* day and every delay of stimer or of a service: no function runs early and
\* none runs too often.
THEOREM PacedHolds == Spec => []Paced
<1>1. Init => PaceInv
  <2> SUFFICES ASSUME Init PROVE PaceInv
    OBVIOUS
  <2>1. \A k \in Key : Fired[k] = 0
    BY DEF Init, Fired
  <2>2. DOMAIN asked = {} /\ CallOutTbl = {} /\ DOMAIN inbox = {}
    BY DEF Init
  <2> QED BY <2>1, <2>2 DEF PaceInv, Quiet, Filed, Paced
<1>2. CallOutInv /\ CallOutInv' /\ PaceInv /\ [Next]_vars => PaceInv'
  <2> SUFFICES ASSUME CallOutInv, CallOutInv', PaceInv, [Next]_vars PROVE PaceInv'
    OBVIOUS
  <2>0. TypeOK'
    BY DEF CallOutInv
  <2>1. ASSUME NEW s \in Services, Service(s) PROVE PaceInv'
    <3>1. PICK kind \in Kinds, arg \in Nat : Call(s, kind, arg)
      BY <2>1, CallOutAssumption DEF Service, Kinds
    <3> QED BY <3>1, PaceCall
  <2>2. CASE \/ \E k \in Key : RemoveCallOut(k) \/ Dispatch(k)
             \/ HandleRemove \/ Tick \/ UNCHANGED vars
    BY <2>0, <2>2, PaceQuietSteps
  <2>3. CASE HandleCall
    BY <2>0, <2>3, PaceHandleCall
  <2>4. CASE Deal
    BY <2>0, <2>4, PaceDeal
  <2> QED BY <2>1, <2>2, <2>3, <2>4 DEF Next
<1> QED BY <1>1, <1>2, CallOutInvariant, PTL DEF Spec, PaceInv
-----------------------------------------------------------------------------
(* The closed form of a round is the loop of _DealWithTimer: after second  *)
(* i of the loop each entry has become its Image, and the messages sent    *)
(* are those of the seconds so far.                                        *)

\* A Daily comes back after a day.
DayLong == \A e \in CallOutTbl : e.kind = "daily" => e.refresh = Day

\* The first second of the round
Lo == IF first THEN LAST_TIME ELSE LAST_TIME + 1

\* The entry has been met by second i.
Met(e, i) == Lo <= e.at /\ e.at <= i

\* The first second after i that is a number of days after a
Later(a, i) == i - ((i - a) % Day) + Day

\* Where an entry has been moved when the loop is through second i
MovedTo(e, i) == IF e.kind = "multi" THEN now + e.refresh ELSE Later(e.at, i)

\* What has become of an entry when the loop is through second i
Image(e, i) ==
    IF ~Met(e, i) THEN {e}
    ELSE IF e.kind = "once" THEN {} ELSE {[e EXCEPT !.at = MovedTo(e, i)]}

\* An entry is sent in second j.
Hit(e, j) == Met(e, j) /\ (j = e.at \/ (e.kind = "daily" /\ (j - e.at) % Day = 0))

\* The seconds up to i in which a timer is sent
Seconds(k, i) == {j \in 0 .. i : \E e \in CallOutTbl : e.key = k /\ Hit(e, j)}

\* Table and messages after second i
FileTo(i) == UNION {Image(e, i) : e \in CallOutTbl}
MailTo(i) == [k \in Key |-> mail[k] + Cardinality(Seconds(k, i))]

\* The days that follow second a, one second on: the next is that second, or
\* it stays the next.
LEMMA LaterOn ==
  ASSUME NEW a \in Nat, NEW i \in Nat, a <= i
  PROVE  /\ Later(a, i) \in Nat /\ Later(a, i) > i
         /\ Later(a, i) = i + 1 <=> ((i + 1) - a) % Day = 0
         /\ Later(a, i) = i + 1 => Later(a, i + 1) = i + 1 + Day
         /\ Later(a, i) # i + 1 => Later(a, i + 1) = Later(a, i)
<1> DEFINE x == i - a
           q == x \div Day
           r == x % Day
           y == (i + 1) - a
<1>1. x \in Nat /\ y = x + 1 /\ Day \in Nat \ {0}
  OBVIOUS
<1>2. q \in Nat /\ r \in Nat /\ r < Day /\ x = Day * q + r /\ r <= x
  BY <1>1, Multiple
<1>3. Later(a, i) = i - r + Day /\ Later(a, i + 1) = i + 1 - (y % Day) + Day
  BY DEF Later
<1> HIDE DEF q, r, x, y
<1>4. CASE r = Day - 1
  <2>1. y = Day * (q + 1) + 0 /\ q + 1 \in Nat
    BY <1>1, <1>2, <1>4
  <2>2. y % Day = 0
    BY <1>1, <2>1, Quotient
  <2> QED BY <1>1, <1>2, <1>3, <1>4, <2>2 DEF y
<1>5. CASE r # Day - 1
  <2>1. y = Day * q + (r + 1) /\ r + 1 < Day /\ r + 1 \in Nat /\ y \in Nat
    BY <1>1, <1>2, <1>5
  <2>2. y % Day = r + 1
    BY <1>1, <1>2, <2>1, Quotient
  <2> QED BY <1>1, <1>2, <1>3, <1>5, <2>2 DEF y
<1> QED BY <1>4, <1>5

\* What the loop may rely on in a round
LEMMA RoundFacts ==
  ASSUME CallOutInv
  PROVE  /\ now \in Nat /\ Lo \in Nat /\ Lo <= now + 1
         /\ \A e \in CallOutTbl : /\ e \in Entry /\ e.at \in Nat /\ e.refresh \in Nat
                                  /\ e.kind \in Kinds /\ e.key \in Key
                                  /\ e.kind = "multi" => e.refresh >= 1
         /\ \A e, f \in CallOutTbl : e.key = f.key => e = f
BY DEF CallOutInv, TypeOK, Forward, OnFileOnce, Entry, Lo

\* An image keeps everything but the second.
LEMMA ImageShape ==
  ASSUME CallOutInv, NEW e \in CallOutTbl, NEW i \in Int, NEW f \in Image(e, i)
  PROVE  f.key = e.key /\ f.kind = e.kind /\ f.refresh = e.refresh
         /\ \A g \in Image(e, i) : g = f
BY RoundFacts DEF Image, Entry

\* One second of the loop, entry by entry: an image that is in its second is
\* the one the closed form says is sent in it, and it is moved on.
LEMMA ImageOn ==
  ASSUME CallOutInv, DayLong, NEW e \in CallOutTbl,
         NEW i \in Int, Lo <= i + 1, i < now
  PROVE  /\ (\E f \in Image(e, i) : f.at = i + 1) <=> Hit(e, i + 1)
         /\ \A f \in Image(e, i) : IF f.at = i + 1 THEN Image(e, i + 1) = Again(f, i + 1)
                                                   ELSE Image(e, i + 1) = {f}
         /\ Image(e, i) = {} => Image(e, i + 1) = {}
<1>1. /\ now \in Nat /\ Lo \in Nat /\ e \in Entry /\ e.at \in Nat /\ e.refresh \in Nat
      /\ e.kind \in Kinds
      /\ e.kind = "multi" => e.refresh >= 1
      /\ e.kind = "daily" => e.refresh = Day
  BY RoundFacts DEF DayLong
<1>2. CASE ~Met(e, i) /\ e.at # i + 1
  <2>1. ~Met(e, i + 1)
    BY <1>1, <1>2 DEF Met
  <2>2. Image(e, i) = {e} /\ Image(e, i + 1) = {e} /\ ~Hit(e, i + 1)
    BY <1>2, <2>1 DEF Image, Hit
  <2> QED BY <1>2, <2>2
<1>3. CASE ~Met(e, i) /\ e.at = i + 1
  <2>1. Met(e, i + 1) /\ Hit(e, i + 1) /\ Image(e, i) = {e}
    BY <1>1, <1>3 DEF Met, Hit, Image
  <2>2. Later(e.at, i + 1) = i + 1 + Day
    <3>1. (i + 1) - e.at = 0 /\ 0 % Day = 0 /\ i + 1 \in Nat
      BY <1>1, <1>3
    <3> QED BY <3>1 DEF Later
  <2>3. Image(e, i + 1) = Again(e, i + 1)
    <3>1. CASE e.kind = "once"
      BY <2>1, <3>1 DEF Image, Again
    <3>2. CASE e.kind = "multi"
      BY <2>1, <3>2 DEF Image, Again, MovedTo
    <3>3. CASE e.kind = "daily"
      BY <1>1, <2>1, <2>2, <3>3 DEF Image, Again, MovedTo
    <3> QED BY <1>1, <3>1, <3>2, <3>3 DEF Kinds
  <2> QED BY <1>3, <2>1, <2>3
<1>4. CASE Met(e, i)
  <2>1. e.at <= i /\ i \in Nat /\ Met(e, i + 1) /\ e.at # i + 1
    BY <1>1, <1>4 DEF Met
  <2>2. CASE e.kind = "once"
    <3>1. Image(e, i) = {} /\ Image(e, i + 1) = {} /\ ~Hit(e, i + 1)
      BY <1>4, <2>1, <2>2 DEF Image, Hit
    <3> QED BY <3>1
  <2>3. CASE e.kind = "multi"
    <3> DEFINE f == [e EXCEPT !.at = now + e.refresh]
    <3>1. Image(e, i) = {f} /\ Image(e, i + 1) = {f} /\ ~Hit(e, i + 1)
      BY <1>4, <2>1, <2>3 DEF Image, Hit, MovedTo
    <3>2. f.at # i + 1
      BY <1>1, <2>3 DEF Entry
    <3> HIDE DEF f
    <3> QED BY <3>1, <3>2
  <2>4. CASE e.kind = "daily"
    <3> DEFINE n == Later(e.at, i)
               m == Later(e.at, i + 1)
               f == [e EXCEPT !.at = n]
               g == [e EXCEPT !.at = m]
    <3>1. Image(e, i) = {f} /\ Image(e, i + 1) = {g}
      BY <1>4, <2>1, <2>4 DEF Image, MovedTo
    <3>2. /\ n = i + 1 <=> ((i + 1) - e.at) % Day = 0
          /\ n = i + 1 => m = i + 1 + Day
          /\ n # i + 1 => m = n
      BY <1>1, <2>1, LaterOn
    <3>3. Hit(e, i + 1) <=> ((i + 1) - e.at) % Day = 0
      BY <2>1, <2>4 DEF Hit
    <3> HIDE DEF n, m
    <3>4. f.at = n /\ f.kind = "daily" /\ f.refresh = Day
          /\ [f EXCEPT !.at = i + 1 + Day] = [e EXCEPT !.at = i + 1 + Day]
      BY <1>1, <2>4 DEF Entry
    <3>5. CASE n = i + 1
      <4>1. Again(f, i + 1) = {[f EXCEPT !.at = i + 1 + Day]}
        BY <3>4 DEF Again
      <4> QED BY <3>1, <3>2, <3>3, <3>4, <3>5, <4>1
    <3>6. CASE n # i + 1
      BY <3>1, <3>2, <3>3, <3>4, <3>6
    <3> QED BY <3>5, <3>6
  <2> QED BY <1>1, <2>2, <2>3, <2>4 DEF Kinds
<1> QED BY <1>2, <1>3, <1>4

\* One second of the loop: the table.
LEMMA FileOn ==
  ASSUME CallOutInv, DayLong, NEW i \in Int, Lo <= i + 1, i < now
  PROVE  LET due == {f \in FileTo(i) : f.at = i + 1}
         IN  (FileTo(i) \ due) \cup UNION {Again(f, i + 1) : f \in due} = FileTo(i + 1)
<1> DEFINE due == {f \in FileTo(i) : f.at = i + 1}
           new == (FileTo(i) \ due) \cup UNION {Again(f, i + 1) : f \in due}
<1>1. ASSUME NEW g \in FileTo(i + 1) PROVE g \in new
  <2>1. PICK e \in CallOutTbl : g \in Image(e, i + 1)
    BY DEF FileTo
  <2>2. PICK f \in Image(e, i) : IF f.at = i + 1 THEN Image(e, i + 1) = Again(f, i + 1)
                                                 ELSE Image(e, i + 1) = {f}
    BY <2>1, ImageOn
  <2>3. f \in FileTo(i)
    BY DEF FileTo
  <2> QED BY <2>1, <2>2, <2>3
<1>2. ASSUME NEW g \in new PROVE g \in FileTo(i + 1)
  <2>1. PICK f \in FileTo(i) : IF f.at = i + 1 THEN g \in Again(f, i + 1) ELSE g = f
    OBVIOUS
  <2>2. PICK e \in CallOutTbl : f \in Image(e, i)
    BY DEF FileTo
  <2>3. g \in Image(e, i + 1)
    BY <2>1, <2>2, ImageOn
  <2> QED BY <2>3 DEF FileTo
<1> QED BY <1>1, <1>2

\* One second of the loop: the messages.
LEMMA MailOn ==
  ASSUME CallOutInv, DayLong, NEW i \in Int, Lo <= i + 1, i < now, NEW k \in Key
  PROVE  LET due == {f \in FileTo(i) : f.at = i + 1}
         IN  /\ Cardinality(Seconds(k, i)) \in Nat
             /\ Cardinality({f \in due : f.key = k}) \in Nat
             /\ Cardinality(Seconds(k, i)) + Cardinality({f \in due : f.key = k})
                  = Cardinality(Seconds(k, i + 1))
<1> DEFINE due == {f \in FileTo(i) : f.at = i + 1}
           mine == {f \in due : f.key = k}
           S == Seconds(k, i)
           T == Seconds(k, i + 1)
<1>0. now \in Nat /\ Lo \in Nat /\ \A e \in CallOutTbl : e.at \in Nat
  BY RoundFacts
<1>1. IsFiniteSet(S) /\ Cardinality(S) \in Nat
  <2>1. IsFiniteSet(0 .. i) /\ S \in SUBSET (0 .. i)
    BY FS_Interval DEF Seconds
  <2> HIDE DEF S
  <2>2. IsFiniteSet(S)
    BY <2>1, FS_Subset
  <2> QED BY <2>2, FS_CardinalityType
<1>2. \A j \in S : j # i + 1 /\ j \in T
  BY <1>0 DEF Seconds
<1>3. \A j \in T : j # i + 1 => j \in S
  BY <1>0 DEF Seconds
<1>4. i + 1 \in T <=> \E e \in CallOutTbl : e.key = k /\ Hit(e, i + 1)
  BY <1>0 DEF Seconds
<1>5. (\E e \in CallOutTbl : e.key = k /\ Hit(e, i + 1)) <=> mine # {}
  <2>1. ASSUME NEW e \in CallOutTbl, e.key = k, Hit(e, i + 1) PROVE mine # {}
    <3>1. PICK f \in Image(e, i) : f.at = i + 1
      BY <2>1, ImageOn
    <3>2. f \in FileTo(i) /\ f.key = k
      BY <2>1, ImageShape DEF FileTo
    <3> QED BY <3>1, <3>2
  <2>2. ASSUME NEW f \in mine PROVE \E e \in CallOutTbl : e.key = k /\ Hit(e, i + 1)
    <3>1. PICK e \in CallOutTbl : f \in Image(e, i)
      BY DEF FileTo
    <3>2. e.key = k /\ f.at = i + 1
      BY <3>1, ImageShape
    <3> QED BY <3>1, <3>2, ImageOn
  <2> QED BY <2>1, <2>2
<1>6. ASSUME NEW f \in mine, NEW g \in mine PROVE f = g
  <2>1. PICK e \in CallOutTbl : f \in Image(e, i)
    BY DEF FileTo
  <2>2. PICK d \in CallOutTbl : g \in Image(d, i)
    BY DEF FileTo
  <2>3. e.key = k /\ d.key = k
    BY <2>1, <2>2, ImageShape
  <2>4. e = d
    BY <2>3, RoundFacts
  <2> QED BY <2>1, <2>2, <2>4, ImageShape
<1> HIDE DEF mine, S, T
<1>7. CASE mine = {}
  <2>1. T = S
    BY <1>2, <1>3, <1>4, <1>5, <1>7
  <2>2. Cardinality(mine) = 0
    BY <1>7, FS_EmptySet
  <2> QED BY <1>1, <2>1, <2>2 DEF mine, S, T
<1>8. CASE mine # {}
  <2>1. PICK f : mine = {f}
    BY <1>6, <1>8
  <2>2. T = S \cup {i + 1} /\ i + 1 \notin S
    BY <1>2, <1>3, <1>4, <1>5, <1>8
  <2>3. Cardinality(mine) = 1
    BY <2>1, FS_Singleton
  <2>4. Cardinality(T) = Cardinality(S) + 1
    BY <1>1, <2>2, FS_AddElement
  <2> QED BY <1>1, <2>3, <2>4 DEF mine, S, T
<1> QED BY <1>7, <1>8

\* One second of the loop.
LEMMA SecondOn ==
  ASSUME CallOutInv, DayLong, NEW i \in Int, Lo <= i + 1, i < now
  PROVE  DealWithOnce(i + 1, <<FileTo(i), MailTo(i)>>) = <<FileTo(i + 1), MailTo(i + 1)>>
<1> DEFINE due == {f \in FileTo(i) : f.at = i + 1}
           own(k) == {f \in due : f.key = k}
<1>1. (FileTo(i) \ due) \cup UNION {Again(f, i + 1) : f \in due} = FileTo(i + 1)
  BY FileOn
<1>2. ASSUME NEW k \in Key PROVE MailTo(i)[k] + Cardinality(own(k)) = MailTo(i + 1)[k]
  <2>1. /\ Cardinality(Seconds(k, i)) \in Nat /\ Cardinality(own(k)) \in Nat
        /\ Cardinality(Seconds(k, i)) + Cardinality(own(k)) = Cardinality(Seconds(k, i + 1))
    BY MailOn
  <2>2. MailTo(i)[k] = mail[k] + Cardinality(Seconds(k, i))
        /\ MailTo(i + 1)[k] = mail[k] + Cardinality(Seconds(k, i + 1))
    BY DEF MailTo
  <2>3. mail[k] \in Nat
    BY DEF CallOutInv, TypeOK
  <2> HIDE DEF own
  <2> QED BY <2>1, <2>2, <2>3
<1>3. [k \in Key |-> MailTo(i)[k] + Cardinality(own(k))] = MailTo(i + 1)
  <2>1. MailTo(i + 1) = [k \in Key |-> MailTo(i + 1)[k]]
    BY DEF MailTo
  <2> HIDE DEF own
  <2> QED BY <1>2, <2>1
<1>4. DealWithOnce(i + 1, <<FileTo(i), MailTo(i)>>) =
        <<(FileTo(i) \ due) \cup UNION {Again(f, i + 1) : f \in due},
          [k \in Key |-> MailTo(i)[k] + Cardinality(own(k))]>>
  BY DEF DealWithOnce
<1> QED BY <1>1, <1>3, <1>4

\* The loop of _DealWithTimer ends with every entry moved and every message
\* sent that the closed form says.
LEMMA LoopEnds ==
  ASSUME CallOutInv, DayLong
  PROVE  DealLoop = <<FileTo(now), MailTo(now)>>
<1> DEFINE N == now + 1 - Lo
           At(n) == <<FileTo(Lo + n - 1), MailTo(Lo + n - 1)>>
           g == [n \in 0 .. N |-> At(n)]
           F == CHOOSE f : f = [n \in 0 .. N |->
                                  IF n = 0 THEN <<CallOutTbl, mail>>
                                  ELSE DealWithOnce(Lo + n - 1, f[n - 1])]
<1>1. N \in Nat /\ Lo \in Nat /\ now \in Nat
  BY RoundFacts
<1>2. DealLoop = F[N]
  BY DEF DealLoop, Lo
<1>3. At(0) = <<CallOutTbl, mail>>
  <2>1. \A e \in CallOutTbl : \A j \in Int : j <= Lo - 1 => ~Met(e, j)
    BY <1>1, RoundFacts DEF Met
  <2>2. \A e \in CallOutTbl : Image(e, Lo - 1) = {e}
    BY <1>1, <2>1 DEF Image
  <2>3. FileTo(Lo - 1) = CallOutTbl
    BY <2>2 DEF FileTo
  <2>4. ASSUME NEW k \in Key PROVE MailTo(Lo - 1)[k] = mail[k]
    <3>1. Seconds(k, Lo - 1) = {}
      BY <1>1, <2>1 DEF Seconds, Hit
    <3>2. Cardinality(Seconds(k, Lo - 1)) = 0
      BY <3>1, FS_EmptySet
    <3>3. mail[k] \in Nat
      BY DEF CallOutInv, TypeOK
    <3> QED BY <3>2, <3>3 DEF MailTo
  <2>5. MailTo(Lo - 1) = mail
    <3>1. mail = [k \in Key |-> mail[k]] /\ MailTo(Lo - 1) = [k \in Key |-> MailTo(Lo - 1)[k]]
      BY DEF CallOutInv, TypeOK, MailTo
    <3> QED BY <2>4, <3>1
  <2>6. Lo + 0 - 1 = Lo - 1
    BY <1>1
  <2> QED BY <2>3, <2>5, <2>6
<1>4. ASSUME NEW n \in 1 .. N PROVE At(n) = DealWithOnce(Lo + n - 1, At(n - 1))
  <2> DEFINE i == Lo + (n - 1) - 1
  <2>1. i \in Int /\ i + 1 = Lo + n - 1 /\ Lo <= i + 1 /\ i < now
    BY <1>1
  <2>2. DealWithOnce(i + 1, <<FileTo(i), MailTo(i)>>) = <<FileTo(i + 1), MailTo(i + 1)>>
    BY <2>1, SecondOn
  <2> QED BY <2>1, <2>2
<1> HIDE DEF At
<1>5. g = [n \in 0 .. N |-> IF n = 0 THEN <<CallOutTbl, mail>>
                            ELSE DealWithOnce(Lo + n - 1, g[n - 1])]
  <2>1. ASSUME NEW n \in 0 .. N
        PROVE  At(n) = IF n = 0 THEN <<CallOutTbl, mail>>
                       ELSE DealWithOnce(Lo + n - 1, g[n - 1])
    <3>1. CASE n = 0
      BY <1>3, <3>1
    <3>2. CASE n # 0
      <4>1. n \in 1 .. N /\ g[n - 1] = At(n - 1)
        BY <1>1, <3>2
      <4> QED BY <1>4, <3>2, <4>1
    <3> QED BY <3>1, <3>2
  <2> QED BY <2>1
<1>6. F = [n \in 0 .. N |-> IF n = 0 THEN <<CallOutTbl, mail>>
                            ELSE DealWithOnce(Lo + n - 1, F[n - 1])]
  <2> HIDE DEF g
  <2> QED BY <1>5
<1> HIDE DEF F, N
<1> DEFINE T == {n \in Nat : F[n] = At(n)}
<1>7. 0 \in T
  <2>1. F[0] = <<CallOutTbl, mail>>
    BY <1>1, <1>6
  <2> QED BY <1>3, <2>1
<1>8. ASSUME NEW n \in Nat, n < N, n \in T PROVE n + 1 \in T
  <2>1. n + 1 \in 1 .. N /\ n + 1 \in 0 .. N /\ (n + 1) - 1 = n /\ n + 1 # 0
    BY <1>1, <1>8
  <2>2. F[n + 1] = DealWithOnce(Lo + (n + 1) - 1, F[(n + 1) - 1])
    BY <1>6, <2>1
  <2>3. At(n + 1) = DealWithOnce(Lo + (n + 1) - 1, At((n + 1) - 1))
    BY <1>4, <2>1
  <2>4. F[n] = At(n)
    BY <1>8
  <2> QED BY <2>1, <2>2, <2>3, <2>4
<1> HIDE DEF T
<1>9. \A n \in 0 .. N : n \in T
  BY <1>1, <1>7, <1>8, Climb
<1>10. F[N] = At(N)
  BY <1>1, <1>9 DEF T
<1>11. Lo + N - 1 = now
  BY <1>1 DEF N
<1> QED BY <1>2, <1>10, <1>11 DEF At

\* The closed form of a round, entry by entry
LEMMA DealImages ==
  ASSUME CallOutInv, Deal
  PROVE  CallOutTbl' = FileTo(now) /\ mail' = MailTo(now)
<1>0. now \in Nat /\ Lo \in Nat
      /\ \A e \in CallOutTbl : e.at \in Nat
  BY RoundFacts
<1>1. \A e \in CallOutTbl : e \in DueNow <=> Met(e, now)
  BY DEF DueNow, Met, Lo
<1>2. ASSUME NEW e \in DueNow PROVE Refiled(e) = Image(e, now)
  <2>1. e \in CallOutTbl /\ Met(e, now)
    BY <1>1 DEF DueNow
  <2>2. NextAt(e) = MovedTo(e, now)
    BY DEF NextAt, MovedTo, Later
  <2> QED BY <2>1, <2>2 DEF Refiled, Image
<1>3. \A e \in CallOutTbl \ DueNow : Image(e, now) = {e}
  BY <1>1 DEF Image
<1>4. CallOutTbl' = (CallOutTbl \ DueNow) \cup UNION {Refiled(e) : e \in DueNow}
      /\ mail' = [k \in Key |-> mail[k] + Sent(k)]
      /\ DueNow \subseteq CallOutTbl
  BY DEF Deal, DueNow
<1>5. CallOutTbl' = FileTo(now)
  <2>1. ASSUME NEW f \in CallOutTbl' PROVE f \in FileTo(now)
    <3>1. PICK e \in CallOutTbl : f \in Image(e, now)
      BY <1>2, <1>3, <1>4
    <3> QED BY <3>1 DEF FileTo
  <2>2. ASSUME NEW f \in FileTo(now) PROVE f \in CallOutTbl'
    <3>1. PICK e \in CallOutTbl : f \in Image(e, now)
      BY DEF FileTo
    <3> QED BY <1>2, <1>3, <1>4, <3>1
  <2> QED BY <2>1, <2>2
<1>6. ASSUME NEW k \in Key PROVE Sent(k) = Cardinality(Seconds(k, now))
  <2> DEFINE S == {i \in 0 .. now : \E e \in DueNow : e.key = k /\ i \in SentIn(e)}
  <2>1. ASSUME NEW e \in CallOutTbl, NEW j \in 0 .. now
        PROVE  e \in DueNow /\ j \in SentIn(e) <=> Hit(e, j)
    BY <1>0, <1>1 DEF SentIn, Hit, Met
  <2>2. S = Seconds(k, now)
    BY <1>4, <2>1 DEF Seconds
  <2>3. Sent(k) = Cardinality(S)
    BY DEF Sent
  <2> HIDE DEF S
  <2> QED BY <2>2, <2>3
<1>7. mail' = MailTo(now)
  BY <1>4, <1>6 DEF MailTo
<1> QED BY <1>5, <1>7

\* A Daily is filed with a day between, and keeps it.
LEMMA DayLongStep ==
  ASSUME CallOutInv, DayLong, [Next]_vars
  PROVE  DayLong'
<1>1. CASE HandleCall
  <2> DEFINE r == Head(inbox)
             e == [at |-> FileUnder(r), key |-> r.key, kind |-> r.cmd, refresh |-> Refresh(r)]
  <2>1. CallOutTbl' = CallOutTbl \cup {e}
    BY <1>1 DEF HandleCall
  <2>2. e.kind = "daily" => e.refresh = Day
    BY DEF Refresh
  <2> HIDE DEF e
  <2> QED BY <2>1, <2>2 DEF DayLong
<1>2. CASE Deal
  <2>1. CallOutTbl' = FileTo(now) /\ now \in Int
    BY <1>2, DealImages, RoundFacts
  <2> SUFFICES ASSUME NEW f \in FileTo(now), f.kind = "daily" PROVE f.refresh = Day
    BY <2>1 DEF DayLong
  <2>2. PICK e \in CallOutTbl : f \in Image(e, now)
    BY DEF FileTo
  <2>3. f.kind = e.kind /\ f.refresh = e.refresh
    BY <2>1, <2>2, ImageShape
  <2> QED BY <2>3 DEF DayLong
<1>3. CASE \/ \E s \in Services : Service(s)
           \/ \E k \in Key : RemoveCallOut(k) \/ Dispatch(k)
           \/ HandleRemove \/ Tick \/ UNCHANGED vars
  <2>1. CallOutTbl' = CallOutTbl
    BY <1>3 DEF Service, Call, RemoveCallOut, Dispatch, HandleRemove, Tick, stimer, vars
  <2> QED BY <2>1 DEF DayLong
<1> QED BY <1>1, <1>2, <1>3 DEF Next

\* LoopAgrees, for every set of services and timers, every length of a day and
\* every delay of stimer: the closed form in which a round is modelled sends
\* and files what the code's loop over the seconds does.
THEOREM LoopAgreesHolds == Spec => LoopAgrees
<1>1. Init => DayLong
  BY DEF Init, DayLong
<1>2. CallOutInv /\ DayLong /\ [Next]_vars => DayLong'
  BY DayLongStep
<1>3. CallOutInv /\ DayLong => [Deal => <<CallOutTbl', mail'>> = DealLoop]_vars
  BY DealImages, LoopEnds
<1> QED BY <1>1, <1>2, <1>3, CallOutInvariant, PTL DEF Spec, LoopAgrees
=============================================================================
