---------------------------- MODULE DbCellProofs ----------------------------
(***************************************************************************)
(* Proofs about DbCell for any modules, data, memory blocks, coroutines    *)
(* and timers, whatever queries fail, whatever answers are lost and        *)
(* whether or not the missing helpers are provided.  Where the coroutines  *)
(* are (Shape) and what the C memory holds (Memory) make the inductive     *)
(* invariant; what the table holds (Md5Accurate) and the refinement of     *)
(* ModStore are proved on top of it.                                       *)
(***************************************************************************)
EXTENDS DbCell, LineFacts, FiniteSetTheorems

USE CellAssumption, JobAssumption

\* The types of the coroutines' state, and of the data.
CoType == /\ mod_cs_map \in [Mods -> Seq(Co)]
          /\ wire \in Seq(Co \cup {Closer})
          /\ ReqTbl \in SUBSET Co
          /\ Invalid \in BOOLEAN
          /\ closer \in {"idle", "desc", "wait", "woken", "failed"}
          /\ pc \in [Co -> {"idle", "queued", "query", "loop"}]
          /\ job \in [Co -> Job \cup {NoJob}]

DataType == /\ row \in [Mods -> Values \cup {NoRow}]
            /\ heap \in [Ptrs -> Values \cup {Free}]
            /\ CACHE_MOD \in [Mods -> Ptrs \cup {NoPtr}]
            /\ hsave \in SUBSET Mods
            /\ CACHE_MOD_MD5 \in [Mods -> Values \cup {NoRow}]
            /\ CacheSaveMod \in SUBSET Mods
            /\ DelCacheSaveMod \in SUBSET Mods
            /\ todo \in [Timers -> SUBSET Mods]
            /\ answer \in [Reqs -> Values \cup {NoAnswer}]
            /\ unsure \in SUBSET Mods

\* LineInv as a statement about who stands in which line.
Lines ==
    /\ \A c \in Co : (Busy(c) <=> job[c] # NoJob) /\ (Busy(c) <=> c \in ReqTbl)
    /\ \A m \in Mods : IsInjective(mod_cs_map[m])
    /\ \A m \in Mods, c \in Co :
          c \in Range(mod_cs_map[m]) <=> Busy(c) /\ job[c].mod = m
    /\ \A c \in Co : pc[c] = "query" => Head(mod_cs_map[job[c].mod]) = c

\* The one connection: it carries the query of each coroutine that waits for
\* one, closedb's "desc module" while that is out, and nothing else or twice.
WireInv ==
    /\ IsInjective(wire)
    /\ \A c \in Co : c \in Range(wire) <=> pc[c] = "query"
    /\ Closer \in Range(wire) <=> closer = "desc"

\* Only timers save, only messages create, read and write, and a write
\* carries its block.
JobInv ==
    /\ \A c \in Reqs : pc[c] # "loop" /\ (job[c] # NoJob => job[c].op # "save")
    /\ \A c \in Timers : job[c] # NoJob => job[c].op = "save"
    /\ \A c \in Co : job[c] # NoJob /\ job[c].op = "set" => job[c].ptr \in Ptrs

\* closedb starts by refusing requests, and passes its wait with none left.
CloseInv ==
    /\ closer # "idle" => Invalid
    /\ closer \in {"woken", "failed"} => ReqTbl = {}

\* What the queues, the connection, the table of requests and closedb have to
\* do with each other.
Shape == CoType /\ Lines /\ WireInv /\ JobInv /\ CloseInv

\* A write whose block the service has not looked at yet.
Pending(c) == pc[c] = "queued" /\ job[c].op = "set"

\* BlocksOwned without counting.
Memory ==
    /\ \A m, n \in Mods : Cached(m) /\ CACHE_MOD[m] = CACHE_MOD[n] => m = n
    /\ \A c, d \in Co : Pending(c) /\ Pending(d) /\ job[c].ptr = job[d].ptr => c = d
    /\ \A c \in Co, m \in Mods : Pending(c) => job[c].ptr # CACHE_MOD[m]
    /\ \A m \in Mods : Cached(m) => heap[CACHE_MOD[m]] # Free
    /\ \A c \in Co : Pending(c) => heap[job[c].ptr] # Free
    /\ ~Invalid => \A p \in Ptrs : heap[p] # Free =>
          \/ \E m \in Mods : CACHE_MOD[m] = p
          \/ \E c \in Co : Pending(c) /\ job[c].ptr = p

\* A read that has gone to the table found nothing in the cache, and no
\* write can enter it before the answer.
ReadMisses == \A c \in Co :
    pc[c] = "query" /\ job[c].op = "get" => ~Cached(job[c].mod)

CellInv == DataType /\ Shape /\ Memory /\ QueryPtrLive /\ ReadMisses
-----------------------------------------------------------------------------
(* The steps of a coroutine.                                               *)

\* A busy coroutine has a proper job and stands in its module's line.
LEMMA BusyFacts ==
    ASSUME Shape, NEW c \in Co, Busy(c)
    PROVE  /\ job[c] \in Job /\ job[c].mod \in Mods
           /\ mod_cs_map[job[c].mod] \in Seq(Co)
           /\ mod_cs_map[job[c].mod] # <<>>
           /\ c \in ReqTbl
<1>1. job[c] \in Job /\ job[c].mod \in Mods /\ c \in ReqTbl
  BY DEF Shape, CoType, Lines, Job
<1>2. mod_cs_map[job[c].mod] \in Seq(Co) /\ c \in Range(mod_cs_map[job[c].mod])
  BY <1>1 DEF Shape, CoType, Lines
<1> QED BY <1>1, <1>2, EmptyLine

\* What sending a query does to the coroutine's job.
LEMMA JobUpdate ==
    ASSUME NEW j \in Job, NEW p \in Ptrs \cup {NoPtr}, NEW d \in Values \cup {NoRow}
    PROVE  /\ [j EXCEPT !.ptr = p, !.data = d] \in Job
           /\ [j EXCEPT !.ptr = p, !.data = d].op = j.op
           /\ [j EXCEPT !.ptr = p, !.data = d].mod = j.mod
           /\ [j EXCEPT !.ptr = p, !.data = d].flag = j.flag
           /\ [j EXCEPT !.ptr = p, !.data = d].ptr = p
           /\ [j EXCEPT !.ptr = p, !.data = d].data = d
BY DEF Job

\* A coroutine that joins the line of its module.
LEMMA EnqueueShape ==
    ASSUME Shape, NEW c \in Co, NEW j \in Job, ~Busy(c), ~Invalid, Enqueue(c, j),
           UNCHANGED <<wire, Invalid, closer>>,
           c \in Reqs => j.op # "save",
           c \in Timers => j.op = "save",
           j.op = "set" => j.ptr \in Ptrs
    PROVE  /\ Shape'
           /\ \A x \in Co : x # c => pc'[x] = pc[x] /\ job'[x] = job[x]
           /\ pc'[c] = "queued" /\ job'[c] = j
<1> DEFINE q == mod_cs_map[j.mod]
<1> USE DEF Shape
<1>0. /\ j.mod \in Mods /\ q \in Seq(Co) /\ c \notin ReqTbl /\ j # NoJob
      /\ \A m \in Mods : c \notin Range(mod_cs_map[m])
  BY DEF CoType, Lines, Job
<1>1. /\ \A x \in Co : pc'[x] = IF x = c THEN "queued" ELSE pc[x]
      /\ \A x \in Co : job'[x] = IF x = c THEN j ELSE job[x]
      /\ \A n \in Mods : mod_cs_map'[n] = IF n = j.mod THEN Append(q, c) ELSE mod_cs_map[n]
      /\ ReqTbl' = ReqTbl \cup {c}
      /\ wire' = wire /\ Invalid' = Invalid /\ closer' = closer
  BY <1>0 DEF CoType, Enqueue
<1>2. /\ Append(q, c) \in Seq(Co) /\ Range(Append(q, c)) = Range(q) \cup {c}
      /\ IsInjective(Append(q, c))
      /\ q # <<>> => Head(Append(q, c)) = Head(q)
  BY <1>0, Join DEF Lines
<1>3. CoType'
  BY <1>0, <1>2 DEF CoType, Enqueue
<1>4. Lines'
  <2>1. \A x \in Co : (Busy(x)' <=> job'[x] # NoJob) /\ (Busy(x)' <=> x \in ReqTbl')
    BY <1>0, <1>1 DEF Lines, Busy
  <2>2. \A m \in Mods : IsInjective(mod_cs_map'[m])
    BY <1>1, <1>2 DEF Lines
  <2>3. \A m \in Mods, x \in Co :
           x \in Range(mod_cs_map'[m]) <=> Busy(x)' /\ job'[x].mod = m
    BY <1>0, <1>1, <1>2 DEF Lines, Busy
  <2>4. ASSUME NEW x \in Co, pc'[x] = "query"
        PROVE  Head(mod_cs_map'[job'[x].mod]) = x
    <3>1. x # c /\ pc[x] = "query" /\ job'[x] = job[x]
      BY <1>1, <2>4
    <3>2. /\ job[x].mod \in Mods /\ Head(mod_cs_map[job[x].mod]) = x
          /\ mod_cs_map[job[x].mod] # <<>>
      BY <3>1, BusyFacts DEF Lines, Busy
    <3>3. Head(mod_cs_map'[job[x].mod]) = Head(mod_cs_map[job[x].mod])
      <4> HIDE DEF q
      <4>1. CASE job[x].mod # j.mod
        BY <1>1, <3>2, <4>1
      <4>2. CASE job[x].mod = j.mod
        <5>1. mod_cs_map'[job[x].mod] = Append(q, c) /\ mod_cs_map[job[x].mod] = q
          BY <1>1, <3>2, <4>2 DEF q
        <5> QED BY <1>2, <3>2, <5>1
      <4> QED BY <4>1, <4>2
    <3> QED BY <3>1, <3>2, <3>3
  <2> QED BY <2>1, <2>2, <2>3, <2>4 DEF Lines
<1>5. WireInv' /\ CloseInv'
  BY <1>0, <1>1 DEF WireInv, CloseInv, CoType, Busy
<1>6. JobInv'
  BY <1>0, <1>1 DEF JobInv, CoType, Co
<1> QED BY <1>1, <1>3, <1>4, <1>5, <1>6

\* A coroutine whose turn it is sends a query.
LEMMA QueryShape ==
    ASSUME Shape, NEW c \in Co, NEW op, MyTurn(c, op),
           NEW p \in Ptrs \cup {NoPtr}, NEW d \in Values \cup {NoRow},
           op = "set" => p \in Ptrs,
           Query(c, p, d), UNCHANGED Invalid
    PROVE  /\ Shape'
           /\ \A x \in Co : x # c => pc'[x] = pc[x] /\ job'[x] = job[x]
           /\ pc'[c] = "query"
           /\ job'[c].op = job[c].op /\ job'[c].mod = job[c].mod
           /\ job'[c].flag = job[c].flag /\ job'[c].ptr = p /\ job'[c].data = d
<1> DEFINE j == [job[c] EXCEPT !.ptr = p, !.data = d]
<1> USE DEF Shape
<1>0. /\ Busy(c) /\ job[c].op = op /\ job[c] \in Job /\ job[c] # NoJob
      /\ job[c].mod \in Mods /\ Head(mod_cs_map[job[c].mod]) = c
  BY BusyFacts DEF MyTurn, Busy, Lines
<1>1. /\ j \in Job /\ j # NoJob /\ j.op = job[c].op /\ j.mod = job[c].mod
      /\ j.flag = job[c].flag /\ j.ptr = p /\ j.data = d
  BY <1>0 DEF Job
<1>2. /\ \A x \in Co : pc'[x] = IF x = c THEN "query" ELSE pc[x]
      /\ wire' = Append(wire, c)
      /\ UNCHANGED <<mod_cs_map, ReqTbl, Invalid, closer>>
  BY DEF CoType, Query
<1>2a. /\ \A x \in Co : job'[x] = IF x = c THEN j ELSE job[x]
       /\ DOMAIN job' = Co /\ job' = [x \in Co |-> job'[x]]
  BY DEF CoType, Query
<1> HIDE DEF j
<1>3. /\ wire' \in Seq(Co \cup {Closer}) /\ Range(wire') = Range(wire) \cup {c}
      /\ IsInjective(wire')
  BY <1>2, Join DEF CoType, WireInv, MyTurn
<1>4. CoType'
  <2>1. job' \in [Co -> Job \cup {NoJob}]
    BY <1>1, <1>2a DEF CoType
  <2> QED BY <1>2, <1>3, <2>1 DEF CoType, Query
<1>5. Lines'
  BY <1>0, <1>1, <1>2, <1>2a DEF Lines, Busy
<1>6. WireInv' /\ CloseInv'
  BY <1>2, <1>3 DEF WireInv, CloseInv, CoType
<1>7. JobInv'
  <2>1. \A x \in Reqs : pc'[x] # "loop" /\ (job'[x] # NoJob => job'[x].op # "save")
    BY <1>0, <1>1, <1>2, <1>2a DEF JobInv, Co
  <2>2. \A x \in Timers : job'[x] # NoJob => job'[x].op = "save"
    BY <1>0, <1>1, <1>2, <1>2a DEF JobInv, Co
  <2>3. \A x \in Co : job'[x] # NoJob /\ job'[x].op = "set" => job'[x].ptr \in Ptrs
    BY <1>0, <1>1, <1>2, <1>2a DEF JobInv
  <2> QED BY <2>1, <2>2, <2>3 DEF JobInv
<1> QED BY <1>1, <1>2, <1>2a, <1>4, <1>5, <1>6, <1>7

\* A coroutine at the head of its line leaves the section, with its answer if
\* it had a query out.
LEMMA FinishShape ==
    ASSUME Shape, NEW c \in Co, Busy(c), Head(mod_cs_map[job[c].mod]) = c, Finish(c),
           UNCHANGED Invalid,
           \/ pc[c] = "queued" /\ wire' = wire
           \/ pc[c] = "query" /\ Head(wire) = c /\ wire' = Tail(wire)
    PROVE  /\ Shape'
           /\ \A x \in Co : x # c => pc'[x] = pc[x] /\ job'[x] = job[x]
           /\ pc'[c] \in {"idle", "loop"}
<1> DEFINE m == job[c].mod
           q == mod_cs_map[m]
<1> USE DEF Shape
<1>0. /\ m \in Mods /\ q \in Seq(Co) /\ q # <<>> /\ Head(q) = c /\ IsInjective(q)
      /\ c \in ReqTbl
  BY BusyFacts DEF Lines
<1>1. /\ \A x \in Co : pc'[x] = IF x = c THEN (IF c \in Reqs THEN "idle" ELSE "loop") ELSE pc[x]
      /\ \A x \in Co : job'[x] = IF x = c THEN NoJob ELSE job[x]
      /\ \A n \in Mods : mod_cs_map'[n] = IF n = m THEN Tail(q) ELSE mod_cs_map[n]
      /\ ReqTbl' = ReqTbl \ {c} /\ Invalid' = Invalid
  BY <1>0 DEF CoType, Finish
<1>1a. closer' = closer \/ (closer' = "woken" /\ closer = "wait" /\ Invalid /\ ReqTbl' = {})
  BY DEF Finish, CheckEnd
<1>2. Tail(q) \in Seq(Co) /\ Range(Tail(q)) = Range(q) \ {c} /\ IsInjective(Tail(q))
  BY <1>0, Leave
<1>3. /\ wire' \in Seq(Co \cup {Closer}) /\ IsInjective(wire')
      /\ Range(wire') = Range(wire) \ {c}
  <2>1. CASE pc[c] = "queued" /\ wire' = wire
    BY <2>1 DEF WireInv, CoType
  <2>2. CASE pc[c] = "query" /\ Head(wire) = c /\ wire' = Tail(wire)
    <3>1. wire \in Seq(Co \cup {Closer}) /\ wire # <<>> /\ IsInjective(wire)
      BY <2>2, EmptyLine DEF WireInv, CoType
    <3> QED BY <2>2, <3>1, Leave
  <2> QED BY <2>1, <2>2
<1>4. CoType'
  <2>1. mod_cs_map' \in [Mods -> Seq(Co)]
    BY <1>0, <1>2 DEF CoType, Finish
  <2>2. pc' \in [Co -> {"idle", "queued", "query", "loop"}] /\ job' \in [Co -> Job \cup {NoJob}]
    BY DEF CoType, Finish
  <2> QED BY <1>1, <1>1a, <1>3, <2>1, <2>2 DEF CoType
<1>5. Lines'
  <2>1. \A x \in Co : (Busy(x)' <=> job'[x] # NoJob) /\ (Busy(x)' <=> x \in ReqTbl')
    BY <1>0, <1>1 DEF Lines, Busy
  <2>2. \A n \in Mods : IsInjective(mod_cs_map'[n])
    BY <1>1, <1>2 DEF Lines
  <2>3. \A n \in Mods, x \in Co :
           x \in Range(mod_cs_map'[n]) <=> Busy(x)' /\ job'[x].mod = n
    BY <1>0, <1>1, <1>2 DEF Lines, Busy
  <2>4. ASSUME NEW x \in Co, pc'[x] = "query"
        PROVE  Head(mod_cs_map'[job'[x].mod]) = x
    <3>1. x # c /\ pc[x] = "query" /\ job'[x] = job[x]
      BY <1>1, <2>4
    <3>2. job[x].mod \in Mods /\ Head(mod_cs_map[job[x].mod]) = x
      BY <3>1, BusyFacts DEF Lines, Busy
    <3> QED BY <3>1, <3>2, <1>0, <1>1
  <2> QED BY <2>1, <2>2, <2>3, <2>4 DEF Lines
<1>6. WireInv'
  BY <1>1, <1>1a, <1>3 DEF WireInv, CoType
<1>7. CloseInv'
  BY <1>1, <1>1a DEF CloseInv, CoType
<1>8. JobInv'
  <2>1. \A x \in Co : (x = c /\ job'[x] = NoJob) \/ (pc'[x] = pc[x] /\ job'[x] = job[x])
    BY <1>1
  <2>2. c \in Reqs => pc'[c] # "loop"
    BY <1>1
  <2> QED BY <2>1, <2>2 DEF JobInv, Co
<1> QED BY <1>1, <1>4, <1>5, <1>6, <1>7, <1>8

\* A step that leaves the lines and the jobs alone: idle coroutines and the
\* timer's loop exchange places, closedb moves on.
LEMMA OtherShape ==
    ASSUME Shape, UNCHANGED <<mod_cs_map, ReqTbl, job>>,
           CoType', WireInv', CloseInv',
           \A c \in Co : pc'[c] = pc[c] \/ (~Busy(c) /\ ~Busy(c)' /\ pc'[c] # "query"),
           \A c \in Reqs : pc'[c] = pc[c]
    PROVE  Shape'
<1> USE DEF Shape
<1>1. Lines'
  BY DEF Lines, Busy
<1>2. JobInv'
  BY DEF JobInv
<1> QED BY <1>1, <1>2

\* Whoever stands first in a module's line is alone in its section.
LEMMA AloneInside ==
    ASSUME Shape, NEW c \in Co, Busy(c), Head(mod_cs_map[job[c].mod]) = c,
           NEW x \in Co, pc[x] = "query", job[x].mod = job[c].mod
    PROVE  x = c
BY DEF Shape, Lines

\* What MyTurn and Arrived say about the coroutine.
LEMMA TurnFacts ==
    ASSUME Shape, NEW c \in Co, NEW op, MyTurn(c, op) \/ Arrived(c, op)
    PROVE  /\ Busy(c) /\ Head(mod_cs_map[job[c].mod]) = c
           /\ job[c] \in Job /\ job[c].mod \in Mods /\ job[c].op = op
           /\ op = "save" => c \in Timers
           /\ op # "save" => c \in Reqs
           /\ op = "set" => job[c].ptr \in Ptrs
<1>1. Busy(c) /\ Head(mod_cs_map[job[c].mod]) = c /\ job[c].op = op
  BY DEF MyTurn, Arrived, Busy, Shape, Lines
<1>2. job[c] \in Job /\ job[c].mod \in Mods
  BY <1>1, BusyFacts
<1> QED BY <1>1, <1>2 DEF Shape, JobInv, Lines, Co
-----------------------------------------------------------------------------
(* The invariant of the service, action by action.                         *)

\* A step that keeps the blocks and who is going to write them.
LEMMA KeepMemory ==
    ASSUME Memory, UNCHANGED <<heap, CACHE_MOD>>, Invalid => Invalid',
           \A x \in Co : /\ Pending(x)' <=> Pending(x)
                         /\ Pending(x) => job'[x].ptr = job[x].ptr
    PROVE  Memory'
<1>1. \A m \in Mods : Cached(m)' <=> Cached(m)
  BY DEF Cached
<1> QED BY <1>1 DEF Memory

\* A message that waits for its turn, without a block of its own.
LEMMA RequestInv ==
    ASSUME CellInv, NEW c \in Reqs, NEW m \in Mods, NEW op \in {"create", "get"},
           Request(c, op, m)
    PROVE  CellInv'
<1> DEFINE j == NewJob(op, m, NoPtr, FALSE)
<1> USE DEF CellInv, Request
<1>0. j \in Job /\ c \in Co /\ ~Busy(c) /\ j.op = op /\ c \notin Timers
  BY DEF NewJob, Job, Ops, Co, Busy
<1> HIDE DEF j
<1>1. /\ Shape' /\ pc'[c] = "queued" /\ job'[c] = j
      /\ \A x \in Co : x # c => pc'[x] = pc[x] /\ job'[x] = job[x]
  BY <1>0, EnqueueShape DEF j
<1>2. DataType' /\ UNCHANGED <<heap, CACHE_MOD, Invalid>>
  BY DEF DataType, cache, snap
<1>3. \A x \in Co : /\ Pending(x)' <=> Pending(x)
                    /\ Pending(x) => job'[x].ptr = job[x].ptr
  BY <1>0, <1>1 DEF Pending, Busy
<1>4. Memory'
  BY <1>2, <1>3, KeepMemory
<1>5. QueryPtrLive' /\ ReadMisses'
  BY <1>1, <1>2 DEF QueryPtrLive, ReadMisses, Cached
<1> QED BY <1>1, <1>2, <1>4, <1>5

\* A write that waits for its turn owns the block it came with.
LEMMA SetInv ==
    ASSUME CellInv, NEW c \in Reqs, NEW m \in Mods, NEW p \in Ptrs, NEW v \in Values,
           NEW i \in BOOLEAN, mod_setdata_ptrq(c, m, p, v, i)
    PROVE  CellInv'
<1> DEFINE j == NewJob("set", m, p, i)
<1> USE DEF CellInv, mod_setdata_ptrq
<1>0. j \in Job /\ c \in Co /\ ~Busy(c) /\ j.op = "set" /\ j.ptr = p /\ c \notin Timers
  BY DEF NewJob, Job, Ops, Co, Busy
<1> HIDE DEF j
<1>1. /\ Shape' /\ pc'[c] = "queued" /\ job'[c] = j
      /\ \A x \in Co : x # c => pc'[x] = pc[x] /\ job'[x] = job[x]
  BY <1>0, EnqueueShape DEF j
<1>2. DataType' /\ UNCHANGED <<CACHE_MOD, Invalid>>
  BY DEF DataType, snap
<1>3. /\ heap[p] = Free /\ v # Free
      /\ \A r \in Ptrs : heap'[r] = IF r = p THEN v ELSE heap[r]
  BY DEF DataType
<1>4. /\ \A m1 \in Mods : Cached(m1)' <=> Cached(m1)
      /\ \A x \in Co : Pending(x)' <=> (x = c \/ Pending(x))
      /\ ~Pending(c)
      /\ \A m1 \in Mods : CACHE_MOD[m1] # p
      /\ \A x \in Co : Pending(x) => job[x].ptr # p /\ job[x].ptr \in Ptrs
  BY <1>0, <1>1, <1>2, <1>3 DEF Pending, Busy, Cached, Memory, Shape, JobInv, Lines
<1>5. Memory'
  BY <1>0, <1>1, <1>2, <1>3, <1>4 DEF Memory, DataType, Cached
<1>6. ReadMisses'
  BY <1>1, <1>2 DEF ReadMisses, Cached
<1>7. QueryPtrLive'
  <2> SUFFICES ASSUME NEW x \in Co, pc'[x] = "query", job'[x].op \in {"save", "set"}
               PROVE  /\ job'[x].ptr = CACHE_MOD'[job'[x].mod]
                      /\ job'[x].ptr # NoPtr
                      /\ heap'[job'[x].ptr] = job'[x].data
    BY DEF QueryPtrLive
  <2>1. pc[x] = "query" /\ job'[x] = job[x]
    BY <1>1
  <2>2. job[x].mod \in Mods
    BY <2>1, BusyFacts DEF Busy
  <2> QED BY <1>2, <1>3, <1>4, <2>1, <2>2 DEF QueryPtrLive, DataType
<1> QED BY <1>1, <1>2, <1>5, <1>6, <1>7

\* A step that changes neither jobs nor blocks.
LEMMA OtherInv ==
    ASSUME CellInv, Shape', DataType', UNCHANGED <<heap, CACHE_MOD, job>>,
           Invalid => Invalid',
           \A x \in Co : pc'[x] = pc[x] \/ (~Busy(x) /\ ~Busy(x)')
    PROVE  CellInv'
<1>1. Memory'
  BY KeepMemory DEF CellInv, Pending, Busy
<1>2. QueryPtrLive' /\ ReadMisses'
  BY DEF CellInv, QueryPtrLive, ReadMisses, Cached, Busy
<1> QED BY <1>1, <1>2 DEF CellInv

\* A section that ends without touching the blocks.
LEMMA LeaveInv ==
    ASSUME CellInv, Shape', DataType', NEW c \in Co, Busy(c), ~Pending(c), ~Busy(c)',
           \A x \in Co : x # c => pc'[x] = pc[x] /\ job'[x] = job[x],
           UNCHANGED <<heap, CACHE_MOD, Invalid>>
    PROVE  CellInv'
<1>1. \A x \in Co : /\ Pending(x)' <=> Pending(x)
                    /\ Pending(x) => job'[x].ptr = job[x].ptr
  BY DEF Pending, Busy
<1>2. Memory'
  BY <1>1, KeepMemory DEF CellInv
<1>3. QueryPtrLive' /\ ReadMisses'
  BY DEF CellInv, QueryPtrLive, ReadMisses, Cached, Busy
<1> QED BY <1>2, <1>3 DEF CellInv

\* A section that ends by evicting its module's entry: no other query out is
\* about that module, and no other entry or write has its block.
LEMMA EvictInv ==
    ASSUME CellInv, Shape', DataType', NEW c \in Co, Busy(c), ~Pending(c), ~Busy(c)',
           Head(mod_cs_map[job[c].mod]) = c,
           \A x \in Co : x # c => pc'[x] = pc[x] /\ job'[x] = job[x],
           Cached(job[c].mod), DelCacheMod(job[c].mod), UNCHANGED Invalid
    PROVE  CellInv'
<1> DEFINE m == job[c].mod
<1> USE DEF CellInv
<1>0. m \in Mods
  BY BusyFacts
<1>1. /\ \A n \in Mods : CACHE_MOD'[n] = IF n = m THEN NoPtr ELSE CACHE_MOD[n]
      /\ \A p \in Ptrs : heap'[p] = IF p = CACHE_MOD[m] THEN Free ELSE heap[p]
      /\ CACHE_MOD[m] \in Ptrs
  BY <1>0 DEF DelCacheMod, Trash, DataType, Cached
<1>2. \A x \in Co : /\ Pending(x)' <=> Pending(x)
                    /\ Pending(x) => job'[x] = job[x] /\ job[x].ptr \in Ptrs
  BY DEF Pending, Busy, Shape, JobInv, Lines
<1>3. Memory'
  BY <1>0, <1>1, <1>2 DEF Memory, Cached, DataType
<1>4. ASSUME NEW x \in Co, pc'[x] = "query"
      PROVE  /\ pc[x] = "query" /\ job'[x] = job[x]
             /\ job[x].mod \in Mods /\ job[x].mod # m
  <2>1. x # c /\ pc[x] = "query" /\ job'[x] = job[x]
    BY <1>4 DEF Busy
  <2>2. job[x].mod \in Mods
    BY <2>1, BusyFacts DEF Busy
  <2> QED BY <2>1, <2>2, AloneInside
<1>5. ReadMisses'
  BY <1>1, <1>4 DEF ReadMisses, Cached
<1>6. QueryPtrLive'
  <2> SUFFICES ASSUME NEW x \in Co, pc'[x] = "query", job'[x].op \in {"save", "set"}
               PROVE  /\ job'[x].ptr = CACHE_MOD'[job'[x].mod]
                      /\ job'[x].ptr # NoPtr
                      /\ heap'[job'[x].ptr] = job'[x].data
    BY DEF QueryPtrLive
  <2>1. job'[x] = job[x] /\ job[x].mod \in Mods /\ job[x].mod # m
    BY <1>4
  <2>2. /\ job[x].ptr = CACHE_MOD[job[x].mod] /\ job[x].ptr # NoPtr
        /\ heap[job[x].ptr] = job[x].data
    BY <1>4, <2>1 DEF QueryPtrLive
  <2>3. job[x].ptr # CACHE_MOD[m] /\ job[x].ptr \in Ptrs
    BY <1>0, <2>1, <2>2 DEF Memory, Cached, DataType
  <2> QED BY <1>1, <2>1, <2>2, <2>3
<1> QED BY <1>3, <1>5, <1>6

\* A query that leaves without touching the blocks; the caller says what it
\* carries.
LEMMA QueryInv ==
    ASSUME CellInv, Shape', DataType', NEW c \in Co, Busy(c), ~Pending(c),
           \A x \in Co : x # c => pc'[x] = pc[x] /\ job'[x] = job[x],
           pc'[c] = "query", UNCHANGED <<heap, CACHE_MOD, Invalid>>,
           job'[c].op = "get" => ~Cached(job'[c].mod),
           job'[c].op \in {"save", "set"} =>
              /\ job'[c].ptr = CACHE_MOD[job'[c].mod]
              /\ job'[c].ptr # NoPtr
              /\ heap[job'[c].ptr] = job'[c].data
    PROVE  CellInv'
<1>1. \A x \in Co : /\ Pending(x)' <=> Pending(x)
                    /\ Pending(x) => job'[x].ptr = job[x].ptr
  BY DEF Pending
<1>2. Memory'
  BY <1>1, KeepMemory DEF CellInv
<1>3. QueryPtrLive'
  BY DEF CellInv, QueryPtrLive
<1>4. ReadMisses'
  BY DEF CellInv, ReadMisses, Cached
<1> QED BY <1>2, <1>3, <1>4 DEF CellInv
-----------------------------------------------------------------------------
\* The section of a creation preserves the invariant.
LEMMA RunCreateInv ==
    ASSUME CellInv, NEW c \in Co, RunCreate(c)
    PROVE  CellInv'
<1> USE DEF CellInv, RunCreate
<1>0. /\ Busy(c) /\ job[c].op = "create" /\ ~Pending(c)
  BY TurnFacts DEF Pending
<1>1. /\ Shape' /\ pc'[c] = "query" /\ job'[c].op = "create"
      /\ \A x \in Co : x # c => pc'[x] = pc[x] /\ job'[x] = job[x]
  BY <1>0, QueryShape
<1>2. DataType' /\ UNCHANGED <<heap, CACHE_MOD, Invalid>>
  BY DEF DataType, cache, snap
<1> QED BY <1>0, <1>1, <1>2, QueryInv

\* A read preserves it, from the cache or by a query.
LEMMA RunGetInv ==
    ASSUME CellInv, NEW c \in Co, RunGet(c)
    PROVE  CellInv'
<1> USE DEF CellInv
<1>0. /\ Busy(c) /\ job[c].op = "get" /\ ~Pending(c) /\ pc[c] = "queued"
      /\ job[c].mod \in Mods /\ Head(mod_cs_map[job[c].mod]) = c /\ MyTurn(c, "get")
  BY TurnFacts DEF RunGet, Pending, MyTurn
<1>1. CASE Cached(job[c].mod)
  <2>1. /\ Return(c) /\ UNCHANGED <<row, unsure, heap, CACHE_MOD, hsave, CACHE_MOD_MD5, Invalid>>
        /\ answer' = [answer EXCEPT ![c] = heap[CACHE_MOD[job[c].mod]]]
        /\ UNCHANGED <<CacheSaveMod, DelCacheSaveMod, todo>>
    BY <1>1 DEF RunGet, cache, snap
  <2>2. /\ Shape' /\ ~Busy(c)'
        /\ \A x \in Co : x # c => pc'[x] = pc[x] /\ job'[x] = job[x]
    BY <1>0, <2>1, FinishShape DEF Return, Busy
  <2>3. heap[CACHE_MOD[job[c].mod]] \in Values
    BY <1>0, <1>1 DEF Memory, DataType, Cached
  <2>4. DataType'
    BY <2>1, <2>3 DEF DataType
  <2> QED BY <1>0, <2>1, <2>2, <2>4, LeaveInv
<1>2. CASE ~Cached(job[c].mod)
  <2>1. /\ Query(c, NoPtr, NoRow)
        /\ UNCHANGED <<row, unsure, heap, CACHE_MOD, hsave, CACHE_MOD_MD5, Invalid, answer>>
        /\ UNCHANGED <<CacheSaveMod, DelCacheSaveMod, todo>>
    BY <1>2 DEF RunGet, cache, snap
  <2>2. /\ Shape' /\ pc'[c] = "query" /\ job'[c].op = "get" /\ job'[c].mod = job[c].mod
        /\ \A x \in Co : x # c => pc'[x] = pc[x] /\ job'[x] = job[x]
    BY <1>0, <2>1, QueryShape
  <2>3. DataType'
    BY <2>1 DEF DataType
  <2> QED BY <1>0, <1>2, <2>1, <2>2, <2>3, QueryInv
<1> QED BY <1>1, <1>2

\* The timer's save raises, sends its query, or takes the entry for saved.
SaveRaises(c) == Return(c) /\ UNCHANGED cache

SaveSends(c) ==
    LET m == job[c].mod
    IN /\ Cached(m) /\ NeedsUpdate(m)
       /\ Query(c, CACHE_MOD[m], heap[CACHE_MOD[m]])
       /\ UNCHANGED cache

SaveSettles(c) ==
    LET m == job[c].mod
    IN /\ ~NeedsUpdate(m) /\ Return(c) /\ UNCHANGED CACHE_MOD_MD5
       /\ Cached(m) /\ job[c].flag => DelCacheMod(m)
       /\ ~(Cached(m) /\ job[c].flag) =>
             /\ hsave' = IF Cached(m) THEN hsave \cup {m} ELSE hsave
             /\ UNCHANGED <<heap, CACHE_MOD>>

LEMMA SaveCases ==
    ASSUME NEW c, RunSave(c)
    PROVE  SaveRaises(c) \/ SaveSends(c) \/ SaveSettles(c)
BY DEF RunSave, SaveRaises, SaveSends, SaveSettles, NeedsUpdate, Unsaved

\* It preserves the invariant in each case.
LEMMA RunSaveInv ==
    ASSUME CellInv, NEW c \in Co, RunSave(c)
    PROVE  CellInv'
<1> DEFINE m == job[c].mod
<1> USE DEF CellInv
<1>0. /\ Busy(c) /\ job[c].op = "save" /\ ~Pending(c) /\ pc[c] = "queued"
      /\ m \in Mods /\ Head(mod_cs_map[m]) = c /\ MyTurn(c, "save")
  BY TurnFacts DEF RunSave, Pending, MyTurn
<1>1. UNCHANGED <<row, unsure, Invalid, CacheSaveMod, DelCacheSaveMod, todo, answer>>
  BY DEF RunSave, snap
<1>2. CASE SaveSends(c)
  <2>1. /\ Query(c, CACHE_MOD[m], heap[CACHE_MOD[m]])
        /\ UNCHANGED <<heap, CACHE_MOD, hsave, CACHE_MOD_MD5>>
    BY <1>2 DEF SaveSends, cache
  <2>2. CACHE_MOD[m] \in Ptrs /\ heap[CACHE_MOD[m]] \in Values
    BY <1>0, <1>2 DEF SaveSends, Memory, DataType, Cached
  <2>3. /\ Shape' /\ pc'[c] = "query" /\ job'[c].op = "save" /\ job'[c].mod = m
        /\ job'[c].ptr = CACHE_MOD[m] /\ job'[c].data = heap[CACHE_MOD[m]]
        /\ \A x \in Co : x # c => pc'[x] = pc[x] /\ job'[x] = job[x]
    BY <1>0, <1>1, <2>1, <2>2, QueryShape
  <2>4. DataType'
    BY <1>1, <2>1 DEF DataType
  <2> QED BY <1>0, <1>1, <2>1, <2>2, <2>3, <2>4, QueryInv
<1>3. CASE SaveSettles(c)
  <2>1. Return(c) /\ UNCHANGED CACHE_MOD_MD5
    BY <1>3 DEF SaveSettles
  <2>2. /\ Shape' /\ ~Busy(c)'
        /\ \A x \in Co : x # c => pc'[x] = pc[x] /\ job'[x] = job[x]
    BY <1>0, <1>1, <2>1, FinishShape DEF Return, Busy
  <2>3. CASE Cached(m) /\ job[c].flag
    <3>1. DelCacheMod(m)
      BY <1>3, <2>3 DEF SaveSettles
    <3>2. DataType'
      BY <1>0, <1>1, <2>1, <3>1 DEF DataType, DelCacheMod, Trash
    <3> QED BY <1>0, <1>1, <2>2, <2>3, <3>1, <3>2, EvictInv
  <2>4. CASE ~(Cached(m) /\ job[c].flag)
    <3>1. /\ hsave' = IF Cached(m) THEN hsave \cup {m} ELSE hsave
          /\ UNCHANGED <<heap, CACHE_MOD>>
      BY <1>3, <2>4 DEF SaveSettles
    <3>2. DataType'
      BY <1>0, <1>1, <2>1, <3>1 DEF DataType
    <3> QED BY <1>0, <1>1, <2>2, <3>1, <3>2, LeaveInv
  <2> QED BY <2>3, <2>4
<1>4. CASE SaveRaises(c)
  <2>1. Return(c) /\ UNCHANGED <<heap, CACHE_MOD, hsave, CACHE_MOD_MD5>>
    BY <1>4 DEF SaveRaises, cache
  <2>2. /\ Shape' /\ ~Busy(c)'
        /\ \A x \in Co : x # c => pc'[x] = pc[x] /\ job'[x] = job[x]
    BY <1>0, <1>1, <2>1, FinishShape DEF Return, Busy
  <2>3. DataType'
    BY <1>1, <2>1 DEF DataType
  <2> QED BY <1>0, <1>1, <2>1, <2>2, <2>3, LeaveInv
<1> QED BY <1>2, <1>3, <1>4, SaveCases

\* A write preserves it: the old block of the entry is freed, the new one
\* passes from the job to the entry.
LEMMA RunSetInv ==
    ASSUME CellInv, NEW c \in Co, RunSet(c)
    PROVE  CellInv'
<1> DEFINE m == job[c].mod
           p == job[c].ptr
<1> USE DEF CellInv
<1>0. /\ Busy(c) /\ Pending(c) /\ pc[c] = "queued" /\ p \in Ptrs
      /\ m \in Mods /\ Head(mod_cs_map[m]) = c /\ MyTurn(c, "set")
  BY TurnFacts DEF RunSet, Pending, MyTurn
<1>1. /\ UNCHANGED <<row, unsure, CACHE_MOD_MD5, Invalid>>
      /\ UNCHANGED <<CacheSaveMod, DelCacheSaveMod, todo, answer>>
      /\ hsave' \in {hsave \cup {m}, hsave \ {m}}
      /\ Query(c, p, heap[p]) \/ Return(c)
  BY DEF RunSet, snap
<1>2. /\ \A n \in Mods : CACHE_MOD'[n] = IF n = m THEN p ELSE CACHE_MOD[n]
      /\ \A r \in Ptrs : heap'[r] = IF r = CACHE_MOD[m] THEN Free ELSE heap[r]
      /\ CACHE_MOD' \in [Mods -> Ptrs \cup {NoPtr}]
      /\ heap' \in [Ptrs -> Values \cup {Free}]
  BY <1>0 DEF RunSet, Trash, DataType
<1>3. p # CACHE_MOD[m] /\ heap[p] \in Values /\ heap[p] # Free
  BY <1>0 DEF Memory, DataType
<1>4. DataType'
  BY <1>0, <1>1, <1>2 DEF DataType
<1>5. /\ Shape' /\ pc'[c] # "queued"
      /\ \A x \in Co : x # c => pc'[x] = pc[x] /\ job'[x] = job[x]
      /\ pc'[c] = "query" => /\ job'[c].op = "set" /\ job'[c].mod = m
                             /\ job'[c].ptr = p /\ job'[c].data = heap[p]
  <2>1. CASE Query(c, p, heap[p])
    BY <1>0, <1>1, <1>3, <2>1, QueryShape DEF Pending
  <2>2. CASE Return(c)
    BY <1>0, <1>1, <2>2, FinishShape DEF Return
  <2> QED BY <1>1, <2>1, <2>2
<1>6. \A x \in Co : /\ Pending(x)' <=> Pending(x) /\ x # c
                    /\ Pending(x) => job[x].ptr \in Ptrs
                    /\ Pending(x)' => job'[x].ptr = job[x].ptr
  BY <1>5 DEF Pending, Busy, Shape, JobInv, Lines
<1>7. Memory'
  <2>1. \A n1, n2 \in Mods : Cached(n1)' /\ CACHE_MOD'[n1] = CACHE_MOD'[n2] => n1 = n2
    BY <1>0, <1>2, <1>3 DEF Memory, Cached
  <2>2. \A x, d \in Co : Pending(x)' /\ Pending(d)' /\ job'[x].ptr = job'[d].ptr => x = d
    BY <1>6 DEF Memory
  <2>3. \A x \in Co, n \in Mods : Pending(x)' => job'[x].ptr # CACHE_MOD'[n]
    BY <1>0, <1>2, <1>6 DEF Memory
  <2>4. \A n \in Mods : Cached(n)' => heap'[CACHE_MOD'[n]] # Free
    BY <1>0, <1>2, <1>3 DEF Memory, Cached, DataType
  <2>5. \A x \in Co : Pending(x)' => heap'[job'[x].ptr] # Free
    BY <1>0, <1>2, <1>6 DEF Memory
  <2>6. ASSUME ~Invalid', NEW r \in Ptrs, heap'[r] # Free
        PROVE  \/ \E n \in Mods : CACHE_MOD'[n] = r
               \/ \E x \in Co : Pending(x)' /\ job'[x].ptr = r
    <3>1. ~Invalid /\ heap[r] # Free /\ r # CACHE_MOD[m]
      BY <1>1, <1>2, <2>6
    <3>2. CASE \E n \in Mods : CACHE_MOD[n] = r
      BY <1>2, <3>1, <3>2
    <3>3. CASE \E x \in Co : Pending(x) /\ job[x].ptr = r
      BY <1>0, <1>2, <1>6, <3>3
    <3> QED BY <3>1, <3>2, <3>3 DEF Memory
  <2> QED BY <2>1, <2>2, <2>3, <2>4, <2>5, <2>6 DEF Memory
<1>8. ASSUME NEW x \in Co, pc'[x] = "query", x # c
      PROVE  /\ pc[x] = "query" /\ job'[x] = job[x]
             /\ job[x].mod \in Mods /\ job[x].mod # m
  <2>1. pc[x] = "query" /\ job'[x] = job[x]
    BY <1>5, <1>8
  <2>2. job[x].mod \in Mods
    BY <2>1, BusyFacts DEF Busy
  <2> QED BY <1>0, <1>8, <2>1, <2>2, AloneInside
<1>9. ReadMisses'
  BY <1>2, <1>5, <1>8 DEF ReadMisses, Cached
<1>10. QueryPtrLive'
  <2> SUFFICES ASSUME NEW x \in Co, pc'[x] = "query", job'[x].op \in {"save", "set"}
               PROVE  /\ job'[x].ptr = CACHE_MOD'[job'[x].mod]
                      /\ job'[x].ptr # NoPtr
                      /\ heap'[job'[x].ptr] = job'[x].data
    BY DEF QueryPtrLive
  <2>1. CASE x = c
    BY <1>0, <1>2, <1>3, <1>5, <2>1
  <2>2. CASE x # c
    <3>1. job'[x] = job[x] /\ job[x].mod \in Mods /\ job[x].mod # m
      BY <1>8, <2>2
    <3>2. /\ job[x].ptr = CACHE_MOD[job[x].mod] /\ job[x].ptr # NoPtr
          /\ heap[job[x].ptr] = job[x].data
      BY <1>8, <2>2, <3>1 DEF QueryPtrLive
    <3>3. job[x].ptr # CACHE_MOD[m] /\ job[x].ptr \in Ptrs
      BY <1>0, <3>1, <3>2 DEF Memory, Cached, DataType
    <3> QED BY <1>2, <3>1, <3>2, <3>3
  <2> QED BY <2>1, <2>2
<1> QED BY <1>4, <1>5, <1>7, <1>9, <1>10

\* The answers that leave the cache as it is preserve it.
LEMMA ReplyKeepsInv ==
    ASSUME CellInv, NEW c \in Co, NEW op, Arrived(c, op), Answer(c), DataType',
           UNCHANGED <<heap, CACHE_MOD, Invalid>>
    PROVE  CellInv'
<1> USE DEF CellInv
<1>0. /\ Busy(c) /\ pc[c] = "query" /\ ~Pending(c) /\ Head(wire) = c
      /\ Head(mod_cs_map[job[c].mod]) = c
  BY TurnFacts DEF Arrived, Pending
<1>1. /\ Shape' /\ ~Busy(c)'
      /\ \A x \in Co : x # c => pc'[x] = pc[x] /\ job'[x] = job[x]
  BY <1>0, FinishShape DEF Answer, Busy
<1> QED BY <1>0, <1>1, LeaveInv

\* The answer to a save preserves it, whatever it says.
LEMMA ReplySaveInv ==
    ASSUME CellInv, NEW c \in Co, NEW r, ReplySave(c, r)
    PROVE  CellInv'
<1> DEFINE m == job[c].mod
           hit == row[m] # NoRow
<1> USE DEF CellInv
<1>0. /\ Busy(c) /\ pc[c] = "query" /\ ~Pending(c) /\ Head(wire) = c /\ Answer(c)
      /\ m \in Mods /\ Head(mod_cs_map[m]) = c /\ job[c].op = "save"
      /\ Arrived(c, "save") /\ job[c] \in Job
  BY TurnFacts DEF Arrived, Pending, ReplySave
<1>1. /\ UNCHANGED <<Invalid, CacheSaveMod, DelCacheSaveMod, todo, answer>>
      /\ row' = IF Executed(r) /\ hit THEN [row EXCEPT ![m] = job[c].data] ELSE row
      /\ row' \in [Mods -> Values \cup {NoRow}]
      /\ unsure' \in SUBSET Mods
  BY <1>0 DEF ReplySave, Unheard, snap, DataType, Job
<1>2. CASE r = "ok" /\ hit
  <2>1. CACHE_MOD_MD5' \in [Mods -> Values \cup {NoRow}]
    BY <1>0, <1>2 DEF ReplySave, DataType, Job
  <2>2. CASE job[c].flag
    <3>1. DelCacheMod(m)
      BY <1>2, <2>2 DEF ReplySave
    <3>2. DataType'
      BY <1>0, <1>1, <2>1, <3>1 DEF DataType, DelCacheMod, Trash
    <3>3. Cached(m)
      BY <1>0 DEF QueryPtrLive, Cached
    <3>4. /\ Shape' /\ ~Busy(c)'
          /\ \A x \in Co : x # c => pc'[x] = pc[x] /\ job'[x] = job[x]
      BY <1>0, <1>1, FinishShape DEF Answer, Busy
    <3> QED BY <1>0, <1>1, <3>1, <3>2, <3>3, <3>4, EvictInv
  <2>3. CASE ~job[c].flag
    <3>1. UNCHANGED <<heap, CACHE_MOD, hsave>>
      BY <1>2, <2>3 DEF ReplySave
    <3>2. DataType'
      BY <1>1, <2>1, <3>1 DEF DataType
    <3> QED BY <1>0, <1>1, <3>1, <3>2, ReplyKeepsInv
  <2> QED BY <2>2, <2>3
<1>3. CASE ~(r = "ok" /\ hit)
  <2>1. UNCHANGED <<heap, CACHE_MOD, hsave, CACHE_MOD_MD5>>
    BY <1>3 DEF ReplySave, cache
  <2>2. DataType'
    BY <1>1, <2>1 DEF DataType
  <2> QED BY <1>0, <1>1, <2>1, <2>2, ReplyKeepsInv
<1> QED BY <1>2, <1>3

\* So do the other answers.
LEMMA ReplyInv ==
    ASSUME CellInv, NEW c \in Co, NEW r, Reply(c, r)
    PROVE  CellInv'
<1> USE DEF CellInv
<1>1. CASE ReplyCreate(c, r)
  <2>1. DataType' /\ UNCHANGED <<heap, CACHE_MOD, Invalid>>
    BY <1>1 DEF ReplyCreate, DataType, cache, snap
  <2> QED BY <1>1, <2>1, ReplyKeepsInv DEF ReplyCreate
<1>2. CASE ReplyGet(c, r)
  <2>1. job[c].mod \in Mods
    BY <1>2, TurnFacts DEF ReplyGet
  <2>2. DataType' /\ UNCHANGED <<heap, CACHE_MOD, Invalid>>
    BY <1>2, <2>1 DEF ReplyGet, DataType, cache, snap
  <2> QED BY <1>2, <2>2, ReplyKeepsInv DEF ReplyGet
<1>3. CASE ReplyImm(c, r)
  <2>1. DataType' /\ UNCHANGED <<heap, CACHE_MOD, Invalid>>
    BY <1>3 DEF ReplyImm, DataType, cache, snap
  <2> QED BY <1>3, <2>1, ReplyKeepsInv DEF ReplyImm
<1> QED BY <1>1, <1>2, <1>3, ReplySaveInv DEF Reply

\* The timer's own steps preserve it.
LEMMA TimerInv ==
    ASSUME CellInv, NEW c \in Timers, Timer(c)
    PROVE  CellInv'
<1> USE DEF CellInv
<1>0. c \in Co /\ c \notin Reqs
  BY DEF Co
<1>1. CASE TimerFire(c) \/ TimerSnapshot(c)
  <2>1. /\ UNCHANGED <<heap, CACHE_MOD, hsave, CACHE_MOD_MD5, row, unsure, answer, job, Invalid>>
        /\ UNCHANGED <<mod_cs_map, wire, ReqTbl, closer>>
        /\ ~Busy(c)
        /\ pc' \in {[pc EXCEPT ![c] = "loop"], [pc EXCEPT ![c] = "idle"]}
    BY <1>1 DEF TimerFire, TimerSnapshot, cache, Busy
  <2>2. DataType'
    BY <1>1, <2>1 DEF DataType, TimerFire, TimerSnapshot
  <2>3. /\ \A x \in Co : x # c => pc'[x] = pc[x]
        /\ pc'[c] \in {"loop", "idle"}
        /\ CoType'
    BY <1>0, <2>1 DEF Shape, CoType
  <2>4. WireInv' /\ CloseInv'
    BY <2>1, <2>3 DEF Shape, WireInv, CloseInv, Busy
  <2>5. Shape'
    <3>1. \A x \in Co : pc'[x] = pc[x] \/ (~Busy(x) /\ ~Busy(x)' /\ pc'[x] # "query")
      BY <2>1, <2>3 DEF Busy
    <3>2. \A x \in Reqs : pc'[x] = pc[x]
      BY <1>0, <2>3 DEF Co
    <3> QED BY <2>1, <2>3, <2>4, <3>1, <3>2, OtherShape
  <2>6. \A x \in Co : pc'[x] = pc[x] \/ (~Busy(x) /\ ~Busy(x)')
    BY <2>1, <2>3 DEF Busy
  <2> QED BY <2>1, <2>2, <2>5, <2>6, OtherInv
<1>2. ASSUME NEW m \in Mods, TimerSave(c, m)
      PROVE  CellInv'
  <2> DEFINE j == NewJob("save", m, NoPtr, m \in DelCacheSaveMod)
  <2>1. /\ DataType' /\ ~Busy(c)
        /\ UNCHANGED <<heap, CACHE_MOD, Invalid, wire, closer>>
    BY <1>2 DEF TimerSave, DataType, cache, Busy
  <2>2. CASE Invalid
    <3>1. UNCHANGED <<ReqTbl, mod_cs_map, pc, job>>
      BY <1>2, <2>2 DEF TimerSave
    <3>2. Shape'
      BY <2>1, <3>1 DEF Shape, CoType, Lines, Busy, WireInv, JobInv, CloseInv
    <3> QED BY <2>1, <3>1, <3>2, OtherInv
  <2>3. CASE ~Invalid
    <3>0. j \in Job /\ j.op = "save" /\ Enqueue(c, j)
      BY <1>2, <2>3 DEF NewJob, Job, Ops, TimerSave
    <3> HIDE DEF j
    <3>1. /\ Shape' /\ pc'[c] = "queued" /\ job'[c] = j
          /\ \A x \in Co : x # c => pc'[x] = pc[x] /\ job'[x] = job[x]
      BY <1>0, <2>1, <2>3, <3>0, EnqueueShape
    <3>2. \A x \in Co : /\ Pending(x)' <=> Pending(x)
                        /\ Pending(x) => job'[x].ptr = job[x].ptr
      BY <2>1, <3>0, <3>1 DEF Pending, Busy
    <3>3. Memory'
      BY <2>1, <3>2, KeepMemory
    <3>4. QueryPtrLive' /\ ReadMisses'
      BY <2>1, <3>1 DEF QueryPtrLive, ReadMisses, Cached
    <3> QED BY <2>1, <3>1, <3>3, <3>4
  <2> QED BY <2>2, <2>3
<1> QED BY <1>1, <1>2 DEF Timer

\* closedb preserves it, and so do the requests it refuses.
LEMMA CloseStepInv ==
    ASSUME CellInv, Close \/ Refuse
    PROVE  CellInv'
<1> USE DEF CellInv
<1>0. /\ UNCHANGED <<row, heap, CACHE_MOD, hsave, CACHE_MOD_MD5, mod_cs_map, ReqTbl, pc, job>>
      /\ UNCHANGED <<unsure, CacheSaveMod, DelCacheSaveMod, todo, answer>>
      /\ Invalid => Invalid'
  BY DEF Close, closedb, CloseDesc, CloseResume, Refuse, cache, snap
<1>1. DataType'
  BY <1>0 DEF DataType
<1>2. CoType' /\ WireInv' /\ CloseInv'
  <2> USE DEF Shape
  <2>1. CASE closedb
    <3>1. closer = "idle" /\ Closer \notin Range(wire)
      BY <2>1 DEF closedb, CloseInv, WireInv
    <3>2. /\ wire' \in Seq(Co \cup {Closer}) /\ IsInjective(wire')
          /\ Range(wire') = Range(wire) \cup {Closer}
      BY <2>1, <3>1, Join DEF closedb, CoType, WireInv
    <3> QED BY <1>0, <2>1, <3>2 DEF closedb, CoType, WireInv, CloseInv
  <2>2. CASE CloseDesc
    <3>1. wire \in Seq(Co \cup {Closer}) /\ wire # <<>> /\ IsInjective(wire)
      BY <2>2, EmptyLine DEF CloseDesc, CoType, WireInv
    <3>2. /\ wire' \in Seq(Co \cup {Closer}) /\ IsInjective(wire')
          /\ Range(wire') = Range(wire) \ {Closer}
      BY <2>2, <3>1, Leave DEF CloseDesc
    <3> QED BY <1>0, <2>2, <3>2 DEF CloseDesc, CoType, WireInv, CloseInv
  <2>3. CASE CloseResume
    BY <1>0, <2>3 DEF CloseResume, CoType, WireInv, CloseInv
  <2>4. CASE Refuse
    BY <1>0, <2>4 DEF Refuse, CheckEnd, CoType, WireInv, CloseInv
  <2> QED BY <2>1, <2>2, <2>3, <2>4 DEF Close
<1>3. Shape'
  BY <1>0, <1>2, OtherShape
<1> QED BY <1>0, <1>1, <1>3, OtherInv

\* A refused write leaves a block behind that nobody owns: after closedb the
\* invariant promises no owner.
LEMMA RefuseSetInv ==
    ASSUME CellInv, NEW p \in Ptrs, NEW v \in Values, RefuseSet(p, v)
    PROVE  CellInv'
<1> USE DEF CellInv
<1>0. /\ UNCHANGED <<row, CACHE_MOD, hsave, CACHE_MOD_MD5, mod_cs_map, ReqTbl, pc, job, wire>>
      /\ UNCHANGED <<unsure, CacheSaveMod, DelCacheSaveMod, todo, answer, Invalid>>
      /\ Invalid /\ heap[p] = Free /\ v # Free
      /\ \A r \in Ptrs : heap'[r] = IF r = p THEN v ELSE heap[r]
  BY DEF RefuseSet, snap, DataType
<1>1. DataType'
  BY <1>0 DEF DataType, RefuseSet
<1>2. CoType' /\ WireInv' /\ CloseInv'
  BY <1>0 DEF Shape, RefuseSet, CheckEnd, CoType, WireInv, CloseInv
<1>3. Shape'
  BY <1>0, <1>2, OtherShape
<1>4. /\ \A m \in Mods : (Cached(m)' <=> Cached(m)) /\ CACHE_MOD[m] # p
      /\ \A x \in Co : /\ Pending(x)' <=> Pending(x)
                       /\ Pending(x) => job[x].ptr # p /\ job[x].ptr \in Ptrs
  BY <1>0 DEF Pending, Busy, Cached, Memory, Shape, JobInv, Lines
<1>5. Memory'
  BY <1>0, <1>4 DEF Memory, DataType, Cached
<1>6. ReadMisses'
  BY <1>0 DEF ReadMisses, Cached
<1>7. QueryPtrLive'
  <2> SUFFICES ASSUME NEW x \in Co, pc[x] = "query", job[x].op \in {"save", "set"}
               PROVE  /\ job[x].ptr = CACHE_MOD[job[x].mod]
                      /\ job[x].ptr # NoPtr
                      /\ heap'[job[x].ptr] = job[x].data
    BY <1>0 DEF QueryPtrLive
  <2>1. job[x].mod \in Mods
    BY BusyFacts DEF Busy
  <2> QED BY <1>0, <1>4, <2>1 DEF QueryPtrLive, DataType
<1> QED BY <1>1, <1>3, <1>5, <1>6, <1>7
-----------------------------------------------------------------------------
\* The service as it starts.
LEMMA InitInv == Init => CellInv
<1> SUFFICES ASSUME Init PROVE CellInv
  OBVIOUS
<1> USE DEF Init
<1>1. DataType
  BY DEF DataType
<1>2. CoType
  <2>1. <<>> \in Seq(Co) /\ <<>> \in Seq(Co \cup {Closer})
    OBVIOUS
  <2> QED BY <2>1 DEF CoType
<1>3. Lines /\ WireInv /\ JobInv /\ CloseInv
  <2>1. Range(<<>>) = {} /\ IsInjective(<<>>)
    BY DEF Range, IsInjective
  <2>2. Lines
    BY <2>1 DEF Lines, Busy
  <2>3. WireInv
    BY <2>1 DEF WireInv
  <2>4. JobInv /\ CloseInv
    BY DEF JobInv, CloseInv, Co
  <2> QED BY <2>2, <2>3, <2>4
<1>4. Memory /\ QueryPtrLive /\ ReadMisses
  BY DEF Memory, QueryPtrLive, ReadMisses, Pending, Cached
<1> QED BY <1>1, <1>2, <1>3, <1>4 DEF CellInv, Shape

\* Every step of the service preserves the invariant.
LEMMA StepInv ==
    ASSUME CellInv, [Next]_vars
    PROVE  CellInv'
<1>1. CASE Next
  <2>1. ASSUME NEW c \in Reqs, Message(c) PROVE CellInv'
    BY <2>1, RequestInv, SetInv DEF Message, mod_createnexist, mod_getdata
  <2>2. ASSUME NEW c \in Co, Run(c) PROVE CellInv'
    BY <2>2, RunCreateInv, RunSetInv, RunGetInv, RunSaveInv DEF Run
  <2> QED BY <1>1, <2>1, <2>2, ReplyInv, TimerInv, CloseStepInv, RefuseSetInv DEF Next
<1>2. CASE UNCHANGED vars
  BY <1>2 DEF vars, CellInv, DataType, Shape, CoType, Lines, WireInv, JobInv, CloseInv,
              Memory, QueryPtrLive, ReadMisses, Pending, Busy, Cached
<1> QED BY <1>1, <1>2

\* The inductive invariant of the database cell.
THEOREM CellInvariant == Spec => []CellInv
BY InitInv, StepInv, PTL DEF Spec

\* The queue of a module serialises its sections and every table has its type
\* (_GetQueueByMod and the callers of cs, dbsave.lua): a coroutine with a
\* query out stands first in its line, and a line holds the busy coroutines
\* once each.
THEOREM LineCorrect == Spec => []LineInv
<1>1. CellInv => LineInv
  <2> SUFFICES ASSUME CellInv PROVE LineInv
    OBVIOUS
  <2> USE DEF CellInv, Shape
  <2>1. TypeOK
    BY DEF TypeOK, DataType, CoType
  <2>2. ASSUME NEW c \in Co, Busy(c)
        PROVE  \E i \in DOMAIN mod_cs_map[job[c].mod] : mod_cs_map[job[c].mod][i] = c
    BY <2>2, BusyFacts DEF Lines, Range
  <2>3. ASSUME NEW m \in Mods, NEW i \in DOMAIN mod_cs_map[m], NEW j \in DOMAIN mod_cs_map[m]
        PROVE  /\ Busy(mod_cs_map[m][i]) /\ job[mod_cs_map[m][i]].mod = m
               /\ mod_cs_map[m][i] = mod_cs_map[m][j] => i = j
    <3>1. mod_cs_map[m][i] \in Co /\ mod_cs_map[m][i] \in Range(mod_cs_map[m])
      BY DEF CoType, Range
    <3> QED BY <3>1 DEF Lines, IsInjective
  <2> QED BY <2>1, <2>2, <2>3 DEF LineInv, Lines
<1> QED BY <1>1, CellInvariant, PTL

\* No use after free across a yield (dbsave.lua:665-690): the data_ptr of a
\* save's query is the live block of the entry until the answer.
THEOREM QueryPtrCorrect == Spec => []QueryPtrLive
BY CellInvariant, PTL DEF CellInv

\* No leak and no double free: until closedb every allocated block belongs to
\* exactly one entry or queued write, and a freed one to none
\* (DBCACHE and skynet.trash).
THEOREM BlocksCorrect == Spec => []BlocksOwned
<1>1. CellInv => BlocksOwned
  <2> SUFFICES ASSUME CellInv, NEW p \in Ptrs
               PROVE  /\ Cardinality(Owners(p)) <= 1
                      /\ heap[p] = Free => Owners(p) = {}
                      /\ heap[p] # Free /\ ~Invalid => Owners(p) # {}
    BY DEF BlocksOwned
  <2> USE DEF CellInv
  <2>1. \A m \in Mods : CACHE_MOD[m] = p => Cached(m)
    BY DEF Cached
  <2>2. ASSUME NEW a \in Owners(p), NEW b \in Owners(p) PROVE a = b
    <3> DEFINE ByCache(x) == \E m \in Mods : CACHE_MOD[m] = p /\ x = <<"cache", m>>
               ByJob(x) == \E c \in Co : Pending(c) /\ job[c].ptr = p /\ x = <<"job", c>>
    <3>1. (ByCache(a) \/ ByJob(a)) /\ (ByCache(b) \/ ByJob(b))
      BY DEF Owners, Pending
    <3>2. ~(\E m \in Mods, c \in Co : CACHE_MOD[m] = p /\ Pending(c) /\ job[c].ptr = p)
      BY DEF Memory
    <3>3. ByCache(a) /\ ByCache(b) => a = b
      BY <2>1 DEF Memory
    <3>4. ByJob(a) /\ ByJob(b) => a = b
      BY DEF Memory
    <3> QED BY <3>1, <3>2, <3>3, <3>4
  <2>3. ASSUME NEW a \in Owners(p) PROVE Owners(p) = {a}
    BY <2>2
  <2>4. Cardinality(Owners(p)) <= 1
    <3>1. CASE Owners(p) = {}
      BY <3>1, FS_EmptySet
    <3>2. ASSUME NEW a \in Owners(p) PROVE Cardinality(Owners(p)) = 1
      <4>1. Cardinality({a}) = 1
        BY FS_Singleton
      <4> QED BY <2>3, <4>1
    <3> QED BY <3>1, <3>2
  <2>5. heap[p] = Free => Owners(p) = {}
    <3> SUFFICES ASSUME heap[p] = Free PROVE Owners(p) = {}
      OBVIOUS
    <3>1. \A m \in Mods : CACHE_MOD[m] # p
      BY <2>1 DEF Memory
    <3>2. \A c \in Co : ~(Pending(c) /\ job[c].ptr = p)
      BY DEF Memory
    <3> QED BY <3>1, <3>2 DEF Owners, Pending
  <2>6. heap[p] # Free /\ ~Invalid => Owners(p) # {}
    <3>1. ASSUME NEW m \in Mods, CACHE_MOD[m] = p PROVE <<"cache", m>> \in Owners(p)
      BY <3>1 DEF Owners
    <3>2. ASSUME NEW c \in Co, Pending(c), job[c].ptr = p PROVE <<"job", c>> \in Owners(p)
      BY <3>2 DEF Owners, Pending
    <3> QED BY <3>1, <3>2 DEF Memory
  <2> QED BY <2>4, <2>5, <2>6
<1> QED BY <1>1, CellInvariant, PTL

\* closedb passes its wait only when no request is in progress and no queue
\* is occupied (CheckEnd, dbsave.lua:420).
THEOREM DrainedCorrect == Spec => []DrainedAtClose
<1>1. CellInv => DrainedAtClose
  <2> SUFFICES ASSUME CellInv, closer \in {"woken", "failed"}, NEW m \in Mods
               PROVE  ReqTbl = {} /\ mod_cs_map[m] = <<>>
    BY DEF DrainedAtClose, CellInv, Shape, CloseInv
  <2> USE DEF CellInv, Shape
  <2>1. ReqTbl = {}
    BY DEF CloseInv
  <2>2. mod_cs_map[m] \in Seq(Co) /\ \A c \in Co : c \notin Range(mod_cs_map[m])
    BY <2>1 DEF Lines, CoType
  <2>3. mod_cs_map[m] = <<>>
    BY <2>2, EmptyLine
  <2> QED BY <2>1, <2>3
<1> QED BY <1>1, CellInvariant, PTL
-----------------------------------------------------------------------------
(* What the table holds, whatever becomes of the queries and their answers. *)

\* A saved entry has the remembered md5 sum, and that is the row's unless a
\* save has been executed unheard since.
LEMMA Md5Step ==
    ASSUME CellInv, Md5Accurate, [Next]_vars
    PROVE  Md5Accurate'
<1> USE DEF CellInv, Md5Accurate
<1>1. ASSUME UNCHANGED <<row, unsure, CACHE_MOD, hsave, CACHE_MOD_MD5>>,
             \A m \in Mods : Cached(m) => heap'[CACHE_MOD[m]] = heap[CACHE_MOD[m]]
      PROVE  Md5Accurate'
  BY <1>1 DEF Cached
<1>2. ASSUME NEW c \in Reqs, Message(c) PROVE Md5Accurate'
  <2>1. ASSUME NEW op, NEW m \in Mods, Request(c, op, m) PROVE Md5Accurate'
    BY <1>1, <2>1 DEF Request, cache
  <2>2. ASSUME NEW m \in Mods, NEW p \in Ptrs, NEW v \in Values, NEW i \in BOOLEAN,
               mod_setdata_ptrq(c, m, p, v, i)
        PROVE  Md5Accurate'
    BY <1>1, <2>2 DEF mod_setdata_ptrq, Memory, DataType, Cached
  <2> QED BY <1>2, <2>1, <2>2 DEF Message, mod_createnexist, mod_getdata
<1>3. ASSUME NEW c \in Co, RunCreate(c) \/ RunGet(c) PROVE Md5Accurate'
  BY <1>1, <1>3 DEF RunCreate, RunGet, cache
<1>4. ASSUME NEW c \in Co, RunSave(c) PROVE Md5Accurate'
  <2> DEFINE m == job[c].mod
  <2>0. m \in Mods /\ UNCHANGED <<row, unsure>>
    BY <1>4, TurnFacts DEF RunSave
  <2>1. CASE SaveSends(c) \/ SaveRaises(c)
    BY <1>1, <2>0, <2>1 DEF SaveSends, SaveRaises, cache
  <2>2. CASE SaveSettles(c) /\ Cached(m) /\ job[c].flag
    <3>1. DelCacheMod(m) /\ UNCHANGED CACHE_MOD_MD5
      BY <2>2 DEF SaveSettles
    <3>2. /\ \A n \in Mods : CACHE_MOD'[n] = IF n = m THEN NoPtr ELSE CACHE_MOD[n]
          /\ \A p \in Ptrs : heap'[p] = IF p = CACHE_MOD[m] THEN Free ELSE heap[p]
          /\ hsave' = hsave \ {m}
      BY <2>0, <3>1 DEF DelCacheMod, Trash, DataType
    <3> QED BY <2>0, <3>1, <3>2 DEF Cached, Memory, DataType
  <2>3. CASE SaveSettles(c) /\ ~(Cached(m) /\ job[c].flag)
    <3>1. /\ UNCHANGED <<CACHE_MOD_MD5, heap, CACHE_MOD>>
          /\ hsave' = IF Cached(m) THEN hsave \cup {m} ELSE hsave
      BY <2>3 DEF SaveSettles
    <3>2. Cached(m) => heap[CACHE_MOD[m]] = CACHE_MOD_MD5[m]
      BY <2>0, <2>3 DEF SaveSettles, NeedsUpdate, Unsaved
    <3> QED BY <2>0, <3>1, <3>2 DEF Cached
  <2> QED BY <1>4, <2>1, <2>2, <2>3, SaveCases
<1>5. ASSUME NEW c \in Co, RunSet(c) PROVE Md5Accurate'
  <2> DEFINE m == job[c].mod
             p == job[c].ptr
  <2>0. m \in Mods /\ p \in Ptrs /\ Pending(c)
    BY <1>5, TurnFacts DEF RunSet, Pending, MyTurn
  <2>1. /\ \A n \in Mods : CACHE_MOD'[n] = IF n = m THEN p ELSE CACHE_MOD[n]
        /\ \A r \in Ptrs : heap'[r] = IF r = CACHE_MOD[m] THEN Free ELSE heap[r]
        /\ UNCHANGED <<row, unsure, CACHE_MOD_MD5>>
        /\ \/ hsave' = hsave \ {m}
           \/ hsave' = hsave \cup {m} /\ CACHE_MOD_MD5[m] = heap[p]
    BY <1>5, <2>0 DEF RunSet, Trash, DataType
  <2>2. p # CACHE_MOD[m] /\ heap[p] \in Values
    BY <2>0 DEF Memory, DataType
  <2>4. ASSUME NEW n \in Mods, n \in hsave'
        PROVE  Cached(n)' /\ heap'[CACHE_MOD'[n]] = CACHE_MOD_MD5'[n]
    <3>1. CASE n = m
      BY <2>0, <2>1, <2>2, <2>4, <3>1 DEF Cached
    <3>2. CASE n # m
      <4>1. n \in hsave /\ Cached(n) /\ CACHE_MOD[n] # CACHE_MOD[m] /\ CACHE_MOD[n] \in Ptrs
        BY <2>0, <2>1, <2>4, <3>2 DEF Memory, Cached, DataType
      <4> QED BY <2>1, <3>2, <4>1 DEF Cached
    <3> QED BY <3>1, <3>2
  <2> QED BY <2>1, <2>4
<1>6. ASSUME NEW c \in Co, NEW r \in Faults \cup {"ok"}, ReplyCreate(c, r) PROVE Md5Accurate'
  <2>1. /\ UNCHANGED <<heap, CACHE_MOD, hsave, CACHE_MOD_MD5, unsure>>
        /\ \A n \in Mods : row'[n] = row[n] \/ row[n] = NoRow
    BY <1>6 DEF ReplyCreate, cache, DataType
  <2> QED BY <2>1 DEF Cached
<1>7. ASSUME NEW c \in Co, NEW r \in Faults \cup {"ok"}, ReplyGet(c, r) \/ ReplyImm(c, r)
      PROVE  Md5Accurate'
  BY <1>1, <1>7 DEF ReplyGet, ReplyImm, cache
<1>8. ASSUME NEW c \in Co, NEW r \in Faults \cup {"ok"}, ReplySave(c, r) PROVE Md5Accurate'
  <2> DEFINE m == job[c].mod
  <2>0. /\ m \in Mods /\ pc[c] = "query" /\ job[c].op = "save"
        /\ CACHE_MOD[m] = job[c].ptr /\ CACHE_MOD[m] # NoPtr /\ heap[CACHE_MOD[m]] = job[c].data
    BY <1>8, TurnFacts DEF ReplySave, Arrived, QueryPtrLive
  <2>2. CASE r = "ok" /\ row[m] # NoRow
    <3>1. /\ \A n \in Mods : row'[n] = IF n = m THEN job[c].data ELSE row[n]
          /\ \A n \in Mods : CACHE_MOD_MD5'[n] = IF n = m THEN job[c].data ELSE CACHE_MOD_MD5[n]
          /\ unsure' = unsure \ {m}
      BY <1>8, <2>2 DEF ReplySave, Unheard, Executed, DataType
    <3>2. CASE job[c].flag
      <4>1. DelCacheMod(m)
        BY <1>8, <2>2, <3>2 DEF ReplySave
      <4>2. /\ \A n \in Mods : CACHE_MOD'[n] = IF n = m THEN NoPtr ELSE CACHE_MOD[n]
            /\ \A p \in Ptrs : heap'[p] = IF p = CACHE_MOD[m] THEN Free ELSE heap[p]
            /\ hsave' = hsave \ {m}
        BY <2>0, <4>1 DEF DelCacheMod, Trash, DataType
      <4> QED BY <2>0, <3>1, <4>2 DEF Cached, Memory, DataType
    <3>3. CASE ~job[c].flag
      <4>1. UNCHANGED <<heap, CACHE_MOD, hsave>>
        BY <1>8, <2>2, <3>3 DEF ReplySave
      <4> QED BY <2>0, <3>1, <4>1 DEF Cached
    <3> QED BY <3>2, <3>3
  <2>3. CASE ~(r = "ok" /\ row[m] # NoRow)
    <3>1. /\ UNCHANGED <<heap, CACHE_MOD, hsave, CACHE_MOD_MD5>>
          /\ \A n \in Mods : n # m => row'[n] = row[n]
          /\ unsure \subseteq unsure'
          /\ row' = row \/ m \in unsure'
      BY <1>8, <2>0, <2>3 DEF ReplySave, Unheard, Executed, cache, DataType
    <3> QED BY <3>1 DEF Cached
  <2> QED BY <2>2, <2>3
<1>9. ASSUME NEW c \in Timers, Timer(c) PROVE Md5Accurate'
  BY <1>1, <1>9 DEF Timer, TimerFire, TimerSave, TimerSnapshot, cache
<1>10. ASSUME Close \/ Refuse \/ UNCHANGED vars PROVE Md5Accurate'
  BY <1>1, <1>10 DEF Close, closedb, CloseDesc, CloseResume, Refuse, cache, vars
<1>11. ASSUME NEW p \in Ptrs, NEW v \in Values, RefuseSet(p, v) PROVE Md5Accurate'
  BY <1>1, <1>11 DEF RefuseSet, cache, Memory, DataType, Cached
<1> QED BY <1>2, <1>3, <1>4, <1>5, <1>6, <1>7, <1>8, <1>9, <1>10, <1>11 DEF Next, Run, Reply

\* "Same data, do not save" (dbsave.lua:648): a saved mark speaks of the
\* remembered md5 sum and that of the row, in every execution, but for the
\* modules with a save whose answer was lost after that sum was recorded.
THEOREM Md5Correct == Spec => []Md5Accurate
<1>1. Init => Md5Accurate
  BY DEF Init, Md5Accurate
<1>2. CellInv /\ Md5Accurate /\ [Next]_vars => Md5Accurate'
  BY Md5Step
<1> QED BY <1>1, <1>2, CellInvariant, PTL DEF Spec

\* The only steps that take an entry out of the cache are the timer's: an
\* unwritten save that evicts, and the answer to a written one.
LEMMA EvictStep ==
    ASSUME CellInv, Md5Accurate, [Next]_vars,
           NEW m \in Mods, Cached(m), ~Cached(m)'
    PROVE  \/ row'[m] = heap[CACHE_MOD[m]]
           \/ m \in unsure /\ heap[CACHE_MOD[m]] = CACHE_MOD_MD5[m]
<1> USE DEF CellInv
<1>1. CACHE_MOD' # CACHE_MOD
  BY DEF Cached
<1>2. ASSUME NEW c \in Co, RunSave(c)
      PROVE  \/ row'[m] = heap[CACHE_MOD[m]]
             \/ m \in unsure /\ heap[CACHE_MOD[m]] = CACHE_MOD_MD5[m]
  <2>0. job[c].mod \in Mods /\ row' = row
    BY <1>2, TurnFacts DEF RunSave
  <2>1. SaveSettles(c) /\ Cached(job[c].mod) /\ DelCacheMod(job[c].mod)
    BY <1>1, <1>2, SaveCases DEF SaveSettles, SaveSends, SaveRaises, cache
  <2>2. m = job[c].mod
    BY <2>0, <2>1 DEF DelCacheMod, DataType, Cached
  <2>3. heap[CACHE_MOD[m]] = CACHE_MOD_MD5[m]
    BY <2>1, <2>2 DEF SaveSettles, NeedsUpdate, Unsaved, Md5Accurate
  <2> QED BY <2>0, <2>3 DEF Md5Accurate, Memory, DataType, Cached
<1>3. ASSUME NEW c \in Co, RunSet(c) PROVE FALSE
  <2>1. job[c].mod \in Mods /\ job[c].ptr \in Ptrs
    BY <1>3, TurnFacts DEF RunSet
  <2> QED BY <1>3, <2>1 DEF RunSet, DataType, Cached
<1>4. ASSUME NEW c \in Co, NEW r \in Faults \cup {"ok"}, ReplySave(c, r)
      PROVE  row'[m] = heap[CACHE_MOD[m]]
  <2>0. job[c].mod \in Mods /\ pc[c] = "query" /\ job[c].op = "save"
    BY <1>4, TurnFacts DEF ReplySave, Arrived
  <2>1. /\ DelCacheMod(job[c].mod) /\ r = "ok"
        /\ row' = [row EXCEPT ![job[c].mod] = job[c].data]
    BY <1>1, <1>4 DEF ReplySave, cache, Executed
  <2>2. m = job[c].mod
    BY <2>0, <2>1 DEF DelCacheMod, DataType, Cached
  <2>3. heap[CACHE_MOD[m]] = job[c].data
    BY <2>0, <2>2 DEF QueryPtrLive
  <2> QED BY <2>0, <2>1, <2>2, <2>3 DEF DataType
<1>5. ASSUME NEW c \in Co, RunCreate(c) \/ RunGet(c) PROVE FALSE
  BY <1>1, <1>5 DEF RunCreate, RunGet, cache
<1>6. ASSUME NEW c \in Reqs, Message(c) PROVE FALSE
  BY <1>1, <1>6 DEF Message, mod_createnexist, mod_getdata, Request, mod_setdata_ptrq, cache
<1>7. ASSUME NEW c \in Co, NEW r, ReplyCreate(c, r) \/ ReplyGet(c, r) \/ ReplyImm(c, r) PROVE FALSE
  BY <1>1, <1>7 DEF ReplyCreate, ReplyGet, ReplyImm, cache
<1>8. ASSUME NEW c \in Timers, Timer(c) PROVE FALSE
  BY <1>1, <1>8 DEF Timer, TimerFire, TimerSave, TimerSnapshot, cache
<1>9. ASSUME Close \/ Refuse \/ UNCHANGED vars PROVE FALSE
  BY <1>1, <1>9 DEF Close, closedb, CloseDesc, CloseResume, Refuse, cache, vars
<1>10. ASSUME NEW p \in Ptrs, NEW v \in Values, RefuseSet(p, v) PROVE FALSE
  BY <1>1, <1>10 DEF RefuseSet
<1> QED BY <1>2, <1>3, <1>4, <1>5, <1>6, <1>7, <1>8, <1>9, <1>10 DEF Next, Run, Reply

\* An entry leaves the cache only when the table holds its data (the eviction
\* of _cs_mod_setdata, dbsave.lua:620-680), but for the one case that a lost
\* answer leaves open.
THEOREM EvictedCorrect == Spec => EvictedIsStored
<1>1. CellInv /\ Md5Accurate /\ [Next]_vars =>
         [\A m \in Mods : Cached(m) /\ ~Cached(m)' =>
             \/ row'[m] = heap[CACHE_MOD[m]]
             \/ m \in unsure /\ heap[CACHE_MOD[m]] = CACHE_MOD_MD5[m]]_vars
  BY EvictStep
<1> QED BY <1>1, CellInvariant, Md5Correct, PTL DEF Spec, EvictedIsStored

\* CheckEnd (dbsave.lua:420): the last request to leave ReqTbl wakes closedb.
\* Only a save of the timer can leave it waiting for nobody.
THEOREM WakeCorrect == Spec => NotLeftWaiting
<1>1. CellInv /\ [Next]_vars =>
         [closer' = "wait" /\ ReqTbl' = {} => closer = "wait" /\ ReqTbl \subseteq Timers]_vars
  <2> SUFFICES ASSUME CellInv, Next, closer' = "wait", ReqTbl' = {}
               PROVE  closer = "wait" /\ ReqTbl \subseteq Timers
    BY DEF vars
  <2> USE DEF CellInv, Shape
  <2>1. ASSUME NEW c \in Co, Finish(c) PROVE closer = "wait" /\ ReqTbl \subseteq Timers
    <3>1. c \notin Reqs \/ ~Invalid \/ closer # "wait"
      BY <2>1 DEF Finish, CheckEnd
    <3>2. closer = "wait"
      BY <2>1 DEF Finish, CheckEnd
    <3>3. Invalid
      BY <3>2 DEF CloseInv
    <3> QED BY <2>1, <3>1, <3>2, <3>3 DEF Finish, Co
  <2>2. ASSUME UNCHANGED <<closer, ReqTbl>> PROVE closer = "wait" /\ ReqTbl \subseteq Timers
    BY <2>2
  <2>3. ASSUME NEW c, NEW j, Enqueue(c, j) PROVE FALSE
    BY <2>3 DEF Enqueue
  <2>4. ASSUME NEW c \in Reqs, Message(c) PROVE FALSE
    BY <2>3, <2>4 DEF Message, mod_createnexist, mod_getdata, Request, mod_setdata_ptrq
  <2>5. ASSUME NEW c \in Co, Run(c) PROVE closer = "wait" /\ ReqTbl \subseteq Timers
    <3>1. Finish(c) \/ UNCHANGED <<closer, ReqTbl>>
      BY <2>5 DEF Run, RunCreate, RunSet, RunGet, RunSave, Return, Query
    <3> QED BY <2>1, <2>2, <3>1
  <2>6. ASSUME NEW c \in Co, NEW r, Reply(c, r) PROVE closer = "wait" /\ ReqTbl \subseteq Timers
    <3>1. Finish(c)
      BY <2>6 DEF Reply, ReplyCreate, ReplyGet, ReplyImm, ReplySave, Answer
    <3> QED BY <2>1, <3>1
  <2>7. ASSUME NEW c \in Timers, Timer(c) PROVE closer = "wait" /\ ReqTbl \subseteq Timers
    <3>1. UNCHANGED <<closer, ReqTbl>>
      BY <2>3, <2>7 DEF Timer, TimerFire, TimerSave, TimerSnapshot
    <3> QED BY <2>2, <3>1
  <2>8. ASSUME Close \/ Refuse \/ (\E p \in Ptrs, v \in Values : RefuseSet(p, v))
        PROVE  closer = "wait" /\ ReqTbl \subseteq Timers
    BY <2>8 DEF Close, closedb, CloseDesc, CloseResume, Refuse, RefuseSet, CheckEnd
  <2> QED BY <2>4, <2>5, <2>6, <2>7, <2>8 DEF Next
<1> QED BY <1>1, CellInvariant, PTL DEF Spec, NotLeftWaiting
-----------------------------------------------------------------------------
(* The cell implements the registers of ModStore.                          *)

\* Who comes before whom when somebody joins a line at its end, and when the
\* first one leaves it.
LEMMA BeforeJoin ==
    ASSUME NEW S, NEW s \in Seq(S), NEW e \in S, e \notin Range(s), NEW a, NEW b
    PROVE  /\ b # e => (Before(Append(s, e), a, b) <=> Before(s, a, b))
           /\ Before(Append(s, e), a, e) <=> a \in Range(s)
<1> DEFINE t == Append(s, e)
<1>1. /\ DOMAIN t = 1 .. (Len(s) + 1) /\ DOMAIN s = 1 .. Len(s) /\ Len(s) \in Nat
      /\ \A i \in DOMAIN s : t[i] = s[i] /\ s[i] # e
      /\ t[Len(s) + 1] = e
  BY DEF Range
<1> HIDE DEF t
<1>2. ASSUME b # e PROVE Before(t, a, b) <=> Before(s, a, b)
  <2>1. ASSUME NEW i \in DOMAIN t, NEW j \in DOMAIN t, i < j, t[i] = a, t[j] = b
        PROVE  Before(s, a, b)
    <3>1. i \in DOMAIN s /\ j \in DOMAIN s
      BY <1>1, <1>2, <2>1
    <3> QED BY <1>1, <2>1, <3>1 DEF Before
  <2>2. ASSUME NEW i \in DOMAIN s, NEW j \in DOMAIN s, i < j, s[i] = a, s[j] = b
        PROVE  Before(t, a, b)
    <3>1. i \in DOMAIN t /\ j \in DOMAIN t
      BY <1>1
    <3> QED BY <1>1, <2>2, <3>1 DEF Before
  <2> QED BY <2>1, <2>2 DEF Before
<1>3. Before(t, a, e) <=> a \in Range(s)
  <2>1. ASSUME NEW i \in DOMAIN t, NEW j \in DOMAIN t, i < j, t[i] = a, t[j] = e
        PROVE  a \in Range(s)
    <3>1. i \in DOMAIN s
      BY <1>1, <2>1
    <3> QED BY <1>1, <2>1, <3>1 DEF Range
  <2>2. ASSUME NEW i \in DOMAIN s, s[i] = a PROVE Before(t, a, e)
    <3>1. i \in DOMAIN t /\ Len(s) + 1 \in DOMAIN t /\ i < Len(s) + 1
      BY <1>1
    <3> QED BY <1>1, <2>2, <3>1 DEF Before
  <2> QED BY <2>1, <2>2 DEF Before, Range
<1> QED BY <1>2, <1>3 DEF t

LEMMA BeforeLeave ==
    ASSUME NEW S, NEW s \in Seq(S), s # <<>>, IsInjective(s), NEW a, NEW b
    PROVE  /\ Before(Tail(s), a, b) <=> Before(s, a, b) /\ a # Head(s)
           /\ ~Before(s, a, Head(s))
<1> DEFINE t == Tail(s)
<1>1. /\ DOMAIN t = 1 .. (Len(s) - 1) /\ DOMAIN s = 1 .. Len(s)
      /\ \A i \in DOMAIN t : t[i] = s[i + 1]
      /\ Head(s) = s[1] /\ Len(s) \in Nat \ {0} /\ 1 \in DOMAIN s
  OBVIOUS
<1> HIDE DEF t
<1>2. ASSUME NEW i \in DOMAIN t, NEW j \in DOMAIN t, i < j, t[i] = a, t[j] = b
      PROVE  Before(s, a, b) /\ a # Head(s)
  <2>1. /\ i + 1 \in DOMAIN s /\ j + 1 \in DOMAIN s /\ i + 1 < j + 1 /\ i + 1 # 1
        /\ s[i + 1] = a /\ s[j + 1] = b
    BY <1>1, <1>2
  <2> QED BY <1>1, <2>1 DEF Before, IsInjective
<1>3. ASSUME NEW i \in DOMAIN s, NEW j \in DOMAIN s, i < j, s[i] = a, s[j] = b, a # Head(s)
      PROVE  Before(t, a, b)
  <2>1. /\ i - 1 \in DOMAIN t /\ j - 1 \in DOMAIN t /\ i - 1 < j - 1
        /\ (i - 1) + 1 = i /\ (j - 1) + 1 = j
    BY <1>1, <1>3
  <2>2. t[i - 1] = a /\ t[j - 1] = b
    BY <1>1, <1>3, <2>1
  <2> QED BY <2>1, <2>2 DEF Before
<1>4. ASSUME NEW i \in DOMAIN s, NEW j \in DOMAIN s, i < j, s[i] = a, s[j] = Head(s)
      PROVE  FALSE
  <2>1. j = 1
    BY <1>1, <1>4 DEF IsInjective
  <2> QED BY <1>1, <1>4, <2>1
<1> QED BY <1>2, <1>3, <1>4 DEF Before, t

\* A request whose coroutine does not move stays what it is.
LEMMA StillWaiting ==
    ASSUME NEW x \in Co, pc'[x] = pc[x], job'[x] = job[x],
           Pending(x) => heap'[job[x].ptr] = heap[job[x].ptr]
    PROVE  /\ Waiting(x)' <=> Waiting(x)
           /\ Waiting(x) => RequestOf(x)' = RequestOf(x)
BY DEF Waiting, RequestOf, Busy, Pending

\* What the abstract requests look like.
LEMMA WaitFacts ==
    ASSUME CellInv, NEW x \in Co, Waiting(x)
    PROVE  /\ Busy(x) /\ job[x].mod \in Mods
           /\ RequestOf(x).op = job[x].op /\ RequestOf(x).mod = job[x].mod
           /\ x \in Reqs => RequestOf(x) \in Store!Request
           /\ RequestOf(x) # NoJob
           /\ Pending(x) => RequestOf(x).v = heap[job[x].ptr]
<1> USE DEF CellInv
<1>1. Busy(x) /\ job[x] \in Job /\ job[x].mod \in Mods /\ job[x] # NoJob
  BY BusyFacts DEF Waiting, Shape, Lines
<1>2. job[x].op \in Ops /\ (x \in Reqs => job[x].op # "save")
  BY <1>1 DEF Job, Shape, JobInv
<1>3. job[x].op = "set" => Pending(x) /\ job[x].ptr \in Ptrs
  BY <1>1 DEF Waiting, Busy, Pending, Shape, JobInv
<1>4. job[x].op = "set" => heap[job[x].ptr] \in Values
  BY <1>3 DEF Memory, DataType
<1>5. RequestOf(x) \in [op : Ops, mod : Mods, v : Values \cup {NoRow}]
  BY <1>1, <1>2, <1>4 DEF RequestOf
<1>6. x \in Reqs => RequestOf(x) \in Store!Request
  BY <1>1, <1>2, <1>4 DEF RequestOf, Store!Request, Ops
<1> QED BY <1>1, <1>5, <1>6 DEF RequestOf, Pending

\* A coroutine joins a line: its request, if it is one, comes after those that
\* wait for the same module.
LEMMA JoinStore ==
    ASSUME CellInv, NEW c \in Co, NEW j \in Job, ~Busy(c), Enqueue(c, j),
           \A x \in Co : x # c => pc'[x] = pc[x] /\ job'[x] = job[x],
           pc'[c] = "queued", job'[c] = j,
           \A x \in Co : Pending(x) => heap'[job[x].ptr] = heap[job[x].ptr]
    PROVE  /\ c \in Timers => UNCHANGED <<StoreReq, StoreAhead>>
           /\ c \in Reqs =>
                 /\ StoreReq[c] = NoJob
                 /\ StoreReq' = [StoreReq EXCEPT ![c] = RequestOf(c)']
                 /\ StoreAhead' = [StoreAhead EXCEPT ![c] =
                       {d \in Reqs : StoreReq[d] # NoJob /\ StoreReq[d].mod = j.mod}]
<1> DEFINE q == mod_cs_map[j.mod]
<1> USE DEF CellInv
<1>0. /\ j.mod \in Mods /\ q \in Seq(Co)
      /\ \A m \in Mods : c \notin Range(mod_cs_map[m]) /\ mod_cs_map[m] \in Seq(Co)
      /\ \A n \in Mods : mod_cs_map'[n] = IF n = j.mod THEN Append(q, c) ELSE mod_cs_map[n]
  BY DEF Shape, CoType, Lines, Job, Enqueue
<1>1. ~Waiting(c) /\ Waiting(c)'
  BY DEF Waiting, Busy
<1>2. \A x \in Co : x # c => /\ Waiting(x)' <=> Waiting(x)
                             /\ Waiting(x) => RequestOf(x)' = RequestOf(x)
  BY StillWaiting
<1> HIDE DEF q
<1>3. ASSUME NEW x \in Reqs, x # c PROVE Ahead(x)' = Ahead(x)
  <2>1. CASE ~Waiting(x)
    BY <1>2, <1>3, <2>1 DEF Ahead, Co
  <2>2. CASE Waiting(x)
    <3>0. x \in Co /\ job'[x].mod = job[x].mod /\ job[x].mod \in Mods
      BY <1>3, <2>2, WaitFacts DEF Co
    <3>1. ASSUME NEW d \in Reqs
          PROVE  Waiting(d)' /\ Before(mod_cs_map'[job'[x].mod], d, x)
                    <=> Waiting(d) /\ Before(mod_cs_map[job[x].mod], d, x)
      <4>0. d \in Co
        BY DEF Co
      <4>1. Before(mod_cs_map'[job'[x].mod], d, x) <=> Before(mod_cs_map[job[x].mod], d, x)
        BY <1>0, <1>3, <3>0, BeforeJoin DEF q
      <4>2. d = c => ~Before(mod_cs_map[job[x].mod], d, x)
        BY <1>0, <3>0 DEF Before, Range
      <4> QED BY <1>2, <4>0, <4>1, <4>2
    <3> QED BY <1>2, <1>3, <2>2, <3>0, <3>1 DEF Ahead
  <2> QED BY <2>1, <2>2
<1>4. c \in Timers => UNCHANGED <<StoreReq, StoreAhead>>
  BY <1>2, <1>3 DEF StoreReq, StoreAhead, Co
<1>5. ASSUME c \in Reqs
      PROVE  /\ StoreReq[c] = NoJob
             /\ StoreReq' = [StoreReq EXCEPT ![c] = RequestOf(c)']
             /\ StoreAhead' = [StoreAhead EXCEPT ![c] =
                   {d \in Reqs : StoreReq[d] # NoJob /\ StoreReq[d].mod = j.mod}]
  <2>1. StoreReq[c] = NoJob /\ StoreReq' = [StoreReq EXCEPT ![c] = RequestOf(c)']
    BY <1>1, <1>2, <1>5 DEF StoreReq, Co
  <2>2. ASSUME NEW d \in Reqs
        PROVE  d \in Ahead(c)' <=> StoreReq[d] # NoJob /\ StoreReq[d].mod = j.mod
    <3>0. d \in Co
      BY DEF Co
    <3>1. Before(mod_cs_map'[job'[c].mod], d, c) <=> d \in Range(q)
      <4>1. c \notin Range(q) /\ mod_cs_map'[job'[c].mod] = Append(q, c)
        BY <1>0 DEF q
      <4> QED BY <1>0, <4>1, BeforeJoin
    <3>2. d \in Range(q) <=> Busy(d) /\ job[d].mod = j.mod
      BY <1>0, <3>0 DEF Shape, Lines, q
    <3>3. d \in Ahead(c)' <=> Waiting(d)' /\ d \in Range(q)
      BY <1>1, <3>1 DEF Ahead
    <3>4. d # c => (StoreReq[d] # NoJob /\ StoreReq[d].mod = j.mod
                       <=> Waiting(d) /\ job[d].mod = j.mod)
      BY <3>0, WaitFacts DEF StoreReq
    <3>5. Waiting(d) => Busy(d)
      BY DEF Waiting
    <3> QED BY <1>2, <2>1, <3>0, <3>2, <3>3, <3>4, <3>5
  <2>3. Ahead(c)' = {d \in Reqs : StoreReq[d] # NoJob /\ StoreReq[d].mod = j.mod}
    BY <2>2 DEF Ahead
  <2> QED BY <1>3, <1>5, <2>1, <2>3 DEF StoreAhead
<1> QED BY <1>4, <1>5

\* The first coroutine of a line is done with its request: nobody is ahead of
\* it, and it is ahead of nobody any more.
StoreGone(c) == /\ StoreReq' = [x \in Reqs |-> IF x = c THEN NoJob ELSE StoreReq[x]]
                /\ StoreAhead' = [x \in Reqs |-> StoreAhead[x] \ {c}]

LEMMA GoneStore ==
    ASSUME CellInv, NEW c \in Co, Busy(c), Head(mod_cs_map[job[c].mod]) = c, ~Waiting(c)',
           \A x \in Co : x # c => pc'[x] = pc[x] /\ job'[x] = job[x],
           \A x \in Co : x # c /\ Pending(x) => heap'[job[x].ptr] = heap[job[x].ptr],
           Finish(c) \/ UNCHANGED mod_cs_map
    PROVE  StoreGone(c) /\ Ahead(c) = {}
<1> DEFINE m == job[c].mod
           q == mod_cs_map[m]
<1> USE DEF CellInv
<1>0. /\ m \in Mods /\ q \in Seq(Co) /\ q # <<>> /\ IsInjective(q) /\ Head(q) = c
  BY BusyFacts DEF Shape, CoType, Lines
<1>0a. /\ \A n \in Mods : n # m => mod_cs_map'[n] = mod_cs_map[n]
       /\ mod_cs_map'[m] = q \/ mod_cs_map'[m] = Tail(q)
  <2>1. mod_cs_map \in [Mods -> Seq(Co)]
    BY DEF Shape, CoType
  <2> QED BY <1>0, <2>1 DEF Finish
<1> HIDE DEF q
<1>1. Ahead(c) = {}
  BY <1>0, BeforeLeave DEF Ahead, q
<1>2. \A x \in Co : x # c => /\ Waiting(x)' <=> Waiting(x)
                             /\ Waiting(x) => RequestOf(x)' = RequestOf(x)
  BY StillWaiting
<1>3. ASSUME NEW x \in Reqs PROVE Ahead(x)' = Ahead(x) \ {c}
  <2>0. x \in Co
    BY DEF Co
  <2>1. CASE x = c
    BY <1>1, <2>1 DEF Ahead
  <2>2. CASE x # c /\ ~Waiting(x)
    BY <1>2, <2>0, <2>2 DEF Ahead
  <2>3. CASE x # c /\ Waiting(x)
    <3>0. job'[x].mod = job[x].mod /\ job[x].mod \in Mods
      BY <2>0, <2>3, WaitFacts
    <3>1. ASSUME NEW d \in Reqs
          PROVE  Waiting(d)' /\ Before(mod_cs_map'[job'[x].mod], d, x)
                    <=> Waiting(d) /\ Before(mod_cs_map[job[x].mod], d, x) /\ d # c
      <4>0. d \in Co
        BY DEF Co
      <4>1. d # c => (Before(mod_cs_map'[job'[x].mod], d, x) <=> Before(mod_cs_map[job[x].mod], d, x))
        <5>1. CASE job[x].mod # m
          BY <1>0a, <3>0, <5>1
        <5>2. CASE job[x].mod = m
          <6>1. mod_cs_map[job[x].mod] = q /\ mod_cs_map'[job'[x].mod] \in {q, Tail(q)}
            BY <1>0a, <3>0, <5>2 DEF q
          <6>2. d # c => (Before(Tail(q), d, x) <=> Before(q, d, x))
            BY <1>0, BeforeLeave
          <6> QED BY <6>1, <6>2
        <5> QED BY <5>1, <5>2
      <4> QED BY <1>2, <4>0, <4>1
    <3> QED BY <1>2, <2>0, <2>3, <3>0, <3>1 DEF Ahead
  <2> QED BY <2>1, <2>2, <2>3
<1>4. StoreReq' = [x \in Reqs |-> IF x = c THEN NoJob ELSE StoreReq[x]]
  BY <1>2 DEF StoreReq, Co
<1>5. StoreAhead' = [x \in Reqs |-> StoreAhead[x] \ {c}]
  BY <1>3 DEF StoreAhead
<1> QED BY <1>1, <1>4, <1>5 DEF StoreGone

\* For a request that waited this is the moment it takes effect.
LEMMA TakeStep ==
    ASSUME CellInv, NEW c \in Reqs, Waiting(c), StoreGone(c), Ahead(c) = {},
           UNCHANGED <<CACHE_MOD_MD5, StoreDoubt>>
    PROVE  /\ Store!Take(c, job[c].op)
           /\ StoreReq[c] = RequestOf(c) /\ StoreReq[c].mod = job[c].mod
           /\ StoreReq[c].v = RequestOf(c).v
<1>1. StoreReq[c] = RequestOf(c) /\ StoreAhead[c] = {}
  BY DEF StoreReq, StoreAhead
<1>2. RequestOf(c) # NoJob /\ RequestOf(c).op = job[c].op /\ RequestOf(c).mod = job[c].mod
  BY WaitFacts DEF Co
<1>3. StoreReq' = [StoreReq EXCEPT ![c] = NoJob]
  BY DEF StoreGone, StoreReq
<1> QED BY <1>1, <1>2, <1>3 DEF Store!Take, StoreGone

\* For anybody else it is nothing.
LEMMA GoneAlready ==
    ASSUME NEW c \in Co, c \in Timers \/ ~Waiting(c), StoreGone(c)
    PROVE  UNCHANGED <<StoreReq, StoreAhead>>
<1>1. StoreReq' = StoreReq
  BY DEF StoreGone, StoreReq
<1>2. \A x \in Reqs : c \notin StoreAhead[x]
  BY DEF StoreAhead, Ahead
<1>3. StoreAhead' = StoreAhead
  <2>1. StoreAhead = [x \in Reqs |-> StoreAhead[x]]
    BY DEF StoreAhead
  <2>2. \A x \in Reqs : StoreAhead[x] \ {c} = StoreAhead[x]
    BY <1>2
  <2> QED BY <2>1, <2>2 DEF StoreGone
<1> QED BY <1>1, <1>3

\* A query that goes out leaves the requests as they are, unless it is the
\* one of an immediate save.
LEMMA QueryStore ==
    ASSUME \A x \in Co : /\ Waiting(x)' <=> Waiting(x)
                         /\ Waiting(x) => RequestOf(x)' = RequestOf(x) /\ job'[x].mod = job[x].mod,
           UNCHANGED mod_cs_map
    PROVE  UNCHANGED <<StoreReq, StoreAhead>>
<1>1. StoreReq' = StoreReq
  BY DEF StoreReq, Co
<1>2. \A x \in Reqs : Ahead(x)' = Ahead(x)
  BY DEF Ahead, Co
<1> QED BY <1>1, <1>2 DEF StoreAhead

\* A module with an unheard save has a row.
UnsureHasRow == \A m \in unsure : row[m] # NoRow

LEMMA UnsureStep ==
    ASSUME CellInv, UnsureHasRow, [Next]_vars
    PROVE  UnsureHasRow'
<1> USE DEF CellInv, UnsureHasRow
<1>1. ASSUME UNCHANGED <<row, unsure>> PROVE UnsureHasRow'
  BY <1>1
<1>2. ASSUME NEW c \in Reqs, Message(c) PROVE UnsureHasRow'
  BY <1>1, <1>2 DEF Message, mod_createnexist, mod_getdata, Request, mod_setdata_ptrq
<1>3. ASSUME NEW c \in Co, Run(c) PROVE UnsureHasRow'
  BY <1>1, <1>3 DEF Run, RunCreate, RunSet, RunGet, RunSave
<1>4. ASSUME NEW c \in Co, NEW r, ReplyGet(c, r) \/ ReplyImm(c, r) PROVE UnsureHasRow'
  BY <1>1, <1>4 DEF ReplyGet, ReplyImm
<1>5. ASSUME NEW c \in Co, NEW r, ReplyCreate(c, r) PROVE UnsureHasRow'
  BY <1>5 DEF ReplyCreate, DataType
<1>6. ASSUME NEW c \in Co, NEW r, ReplySave(c, r) PROVE UnsureHasRow'
  <2>1. /\ job[c].mod \in Mods /\ job[c].data # NoRow
    <3>1. /\ job[c].mod \in Mods /\ pc[c] = "query" /\ job[c].op = "save"
      BY <1>6, TurnFacts DEF ReplySave, Arrived
    <3> QED BY <3>1 DEF QueryPtrLive, Memory, DataType, Cached
  <2> QED BY <1>6, <2>1 DEF ReplySave, Unheard, Executed, DataType
<1>7. ASSUME NEW c \in Timers, Timer(c) PROVE UnsureHasRow'
  BY <1>1, <1>7 DEF Timer, TimerFire, TimerSave, TimerSnapshot
<1>8. ASSUME Close \/ Refuse \/ UNCHANGED vars \/ (\E p \in Ptrs, v \in Values : RefuseSet(p, v))
      PROVE  UnsureHasRow'
  BY <1>1, <1>8 DEF Close, closedb, CloseDesc, CloseResume, Refuse, RefuseSet, vars
<1> QED BY <1>2, <1>3, <1>4, <1>5, <1>6, <1>7, <1>8 DEF Next, Reply

StoreVars == <<Val, answer, StoreReq, StoreAhead, CACHE_MOD_MD5, StoreDoubt>>

\* The blocks of the writes in line survive whatever the others do.
KeepsPending == \A x \in Co : Pending(x) => heap'[job[x].ptr] = heap[job[x].ptr]

LEMMA TrashKeeps ==
    ASSUME CellInv, NEW m \in Mods, heap' = Trash(m) \/ heap' = heap
    PROVE  KeepsPending
<1>1. \A x \in Co : Pending(x) => job[x].ptr \in Ptrs /\ job[x].ptr # CACHE_MOD[m]
  BY DEF CellInv, Memory, Pending, Shape, Lines, JobInv, Busy
<1> QED BY <1>1 DEF KeepsPending, Trash

LEMMA AllocKeeps ==
    ASSUME CellInv, NEW p \in Ptrs, NEW v, heap[p] = Free, heap' = [heap EXCEPT ![p] = v]
    PROVE  KeepsPending
<1>1. \A x \in Co : Pending(x) => job[x].ptr \in Ptrs /\ job[x].ptr # p
  BY DEF CellInv, Memory, Pending, Shape, Lines, JobInv, Busy
<1> QED BY <1>1 DEF KeepsPending, CellInv, DataType

\* The end of a section, with and without an answer.
LEMMA EndStore ==
    ASSUME CellInv, NEW c \in Co, NEW op, KeepsPending, UNCHANGED Invalid,
           (MyTurn(c, op) /\ Return(c)) \/ (Arrived(c, op) /\ Answer(c))
    PROVE  StoreGone(c) /\ Ahead(c) = {}
<1> USE DEF CellInv
<1>0. /\ Busy(c) /\ Head(mod_cs_map[job[c].mod]) = c /\ Finish(c)
      /\ \/ pc[c] = "queued" /\ wire' = wire
         \/ pc[c] = "query" /\ Head(wire) = c /\ wire' = Tail(wire)
  BY TurnFacts DEF Return, Answer, MyTurn, Arrived
<1>1. /\ pc'[c] \in {"idle", "loop"}
      /\ \A x \in Co : x # c => pc'[x] = pc[x] /\ job'[x] = job[x]
  BY <1>0, FinishShape
<1>2. ~Waiting(c)'
  BY <1>1 DEF Waiting, Busy
<1> QED BY <1>0, <1>1, <1>2, GoneStore DEF KeepsPending

\* The query of a read, a creation or a save goes out.
LEMMA SendStore ==
    ASSUME CellInv, NEW c \in Co, NEW op, MyTurn(c, op), op # "set",
           NEW p \in Ptrs \cup {NoPtr}, NEW d \in Values \cup {NoRow},
           Query(c, p, d), UNCHANGED <<heap, Invalid>>
    PROVE  UNCHANGED <<StoreReq, StoreAhead>>
<1> USE DEF CellInv
<1>1. /\ \A x \in Co : x # c => pc'[x] = pc[x] /\ job'[x] = job[x]
      /\ pc'[c] = "query" /\ job'[c].op = job[c].op /\ job'[c].mod = job[c].mod
  BY QueryShape
<1>2. /\ Waiting(c) /\ Waiting(c)' /\ RequestOf(c)' = RequestOf(c)
  BY <1>1 DEF MyTurn, Waiting, Busy, RequestOf
<1>3. ASSUME NEW x \in Co, x # c
      PROVE  /\ Waiting(x)' <=> Waiting(x)
             /\ Waiting(x) => RequestOf(x)' = RequestOf(x) /\ job'[x].mod = job[x].mod
  BY <1>1, <1>3, StillWaiting
<1>4. UNCHANGED mod_cs_map
  BY DEF Query
<1> QED BY <1>1, <1>2, <1>3, <1>4, QueryStore

\* What a client sees of a module: its entry's block, or the row.
LEMMA ValFacts ==
    ASSUME CellInv, NEW m \in Mods
    PROVE  /\ Val[m] = IF Cached(m) THEN heap[CACHE_MOD[m]] ELSE row[m]
           /\ Cached(m) => CACHE_MOD[m] \in Ptrs /\ heap[CACHE_MOD[m]] \in Values
           /\ Val[m] \in Values \cup {NoRow}
BY DEF CellInv, Val, Cached, Memory, DataType

\* Two states whose modules look the same show the same registers.
LEMMA SameVal ==
    ASSUME \A m \in Mods : (IF Cached(m)' THEN heap'[CACHE_MOD'[m]] ELSE row'[m])
                           = (IF Cached(m) THEN heap[CACHE_MOD[m]] ELSE row[m])
    PROVE  Val' = Val
BY DEF Val

\* An eviction uncovers the row.
LEMMA EvictVal ==
    ASSUME CellInv, NEW m \in Mods, Cached(m), DelCacheMod(m),
           \A n \in Mods : n # m => row'[n] = row[n], row'[m] \in Values \cup {NoRow}
    PROVE  Val' = [Val EXCEPT ![m] = row'[m]]
<1> USE DEF CellInv
<1>1. /\ \A n \in Mods : CACHE_MOD'[n] = IF n = m THEN NoPtr ELSE CACHE_MOD[n]
      /\ \A p \in Ptrs : heap'[p] = IF p = CACHE_MOD[m] THEN Free ELSE heap[p]
  BY DEF DelCacheMod, Trash, DataType
<1>2. ASSUME NEW n \in Mods
      PROVE  (IF Cached(n)' THEN heap'[CACHE_MOD'[n]] ELSE row'[n]) =
             IF n = m THEN row'[m] ELSE (IF Cached(n) THEN heap[CACHE_MOD[n]] ELSE row[n])
  BY <1>1 DEF Cached, Memory, DataType
<1>3. /\ Val' = [n \in Mods |-> IF Cached(n)' THEN heap'[CACHE_MOD'[n]] ELSE row'[n]]
      /\ Val = [n \in Mods |-> IF Cached(n) THEN heap[CACHE_MOD[n]] ELSE row[n]]
  BY DEF Val
<1> QED BY <1>2, <1>3

\* The table's side of what ModStore sees, when no answer comes in.
LEMMA SameDoubt ==
    ASSUME UNCHANGED <<row, unsure>>
    PROVE  UNCHANGED StoreDoubt
BY DEF StoreDoubt

\* The timer's save, up to its query, is a stutter; unless it evicts an entry
\* it wrongly takes for saved.
LEMMA SaveStore ==
    ASSUME CellInv, Md5Accurate, UnsureHasRow, NEW c \in Co, RunSave(c)
    PROVE  Store!Next \/ UNCHANGED StoreVars
<1> DEFINE m == job[c].mod
<1> USE DEF CellInv
<1>0. /\ m \in Mods /\ c \in Timers /\ MyTurn(c, "save")
      /\ UNCHANGED <<row, unsure, answer, Invalid, StoreDoubt>>
  BY TurnFacts, SameDoubt DEF RunSave
<1>1. CASE SaveSends(c)
  <2>1. /\ Query(c, CACHE_MOD[m], heap[CACHE_MOD[m]]) /\ Cached(m)
        /\ UNCHANGED <<heap, CACHE_MOD, CACHE_MOD_MD5>>
    BY <1>1 DEF SaveSends, cache
  <2>2. CACHE_MOD[m] \in Ptrs /\ heap[CACHE_MOD[m]] \in Values
    BY <1>0, <2>1, ValFacts
  <2>3. UNCHANGED <<StoreReq, StoreAhead>>
    BY <1>0, <2>1, <2>2, SendStore
  <2>4. Val' = Val
    BY <1>0, <2>1, SameVal DEF Cached
  <2> QED BY <1>0, <2>1, <2>3, <2>4 DEF StoreVars
<1>2. CASE SaveRaises(c)
  <2>1. Return(c) /\ UNCHANGED <<heap, CACHE_MOD, CACHE_MOD_MD5>>
    BY <1>2 DEF SaveRaises, cache
  <2>2. UNCHANGED <<StoreReq, StoreAhead>>
    BY <1>0, <2>1, TrashKeeps, EndStore, GoneAlready
  <2>3. Val' = Val
    BY <1>0, <2>1, SameVal DEF Cached
  <2> QED BY <1>0, <2>1, <2>2, <2>3 DEF StoreVars
<1>3. CASE SaveSettles(c)
  <2>1. Return(c) /\ UNCHANGED CACHE_MOD_MD5 /\ ~NeedsUpdate(m)
    BY <1>3 DEF SaveSettles
  <2>2. CASE Cached(m) /\ job[c].flag
    <3>1. DelCacheMod(m)
      BY <1>3, <2>2 DEF SaveSettles
    <3>2. UNCHANGED <<StoreReq, StoreAhead>>
      BY <1>0, <2>1, <3>1, TrashKeeps, EndStore, GoneAlready DEF DelCacheMod
    <3>3. Val' = [Val EXCEPT ![m] = row[m]]
      BY <1>0, <2>2, <3>1, EvictVal DEF DataType
    <3>4. Val[m] = CACHE_MOD_MD5[m] /\ CACHE_MOD_MD5[m] # NoRow
      BY <1>0, <2>1, <2>2, ValFacts DEF NeedsUpdate, Unsaved, Md5Accurate
    <3>5. CASE m \in unsure
      <4>1. StoreDoubt[m] = row[m] /\ StoreDoubt[m] # NoRow
        BY <1>0, <3>5 DEF StoreDoubt, UnsureHasRow
      <4>2. Store!FallBack(m)
        BY <1>0, <2>1, <3>2, <3>3, <3>4, <4>1 DEF Store!FallBack
      <4> QED BY <1>0, <4>2 DEF Store!Next
    <3>6. CASE m \notin unsure
      <4>1. row[m] = Val[m]
        BY <1>0, <3>4, <3>6 DEF Md5Accurate
      <4>2. Val' = Val
        BY <3>3, <4>1 DEF Val
      <4> QED BY <1>0, <2>1, <3>2, <4>2 DEF StoreVars
    <3> QED BY <3>5, <3>6
  <2>3. CASE ~(Cached(m) /\ job[c].flag)
    <3>1. UNCHANGED <<heap, CACHE_MOD>>
      BY <1>3, <2>3 DEF SaveSettles
    <3>2. UNCHANGED <<StoreReq, StoreAhead>>
      BY <1>0, <2>1, <3>1, TrashKeeps, EndStore, GoneAlready
    <3>3. Val' = Val
      BY <1>0, <3>1, SameVal DEF Cached
    <3> QED BY <1>0, <2>1, <3>2, <3>3 DEF StoreVars
  <2> QED BY <2>2, <2>3
<1> QED BY <1>1, <1>2, <1>3, SaveCases

\* A write takes effect when its section enters the data in the cache.
LEMMA SetStore ==
    ASSUME CellInv, NEW c \in Co, RunSet(c)
    PROVE  Store!Next
<1> DEFINE m == job[c].mod
           p == job[c].ptr
<1> USE DEF CellInv
<1>0. /\ m \in Mods /\ p \in Ptrs /\ Pending(c) /\ Waiting(c) /\ c \in Reqs /\ Busy(c)
      /\ MyTurn(c, "set") /\ job[c].op = "set" /\ Head(mod_cs_map[m]) = c
  BY TurnFacts DEF RunSet, Pending, MyTurn, Waiting, Busy
<1>1. /\ \A n \in Mods : CACHE_MOD'[n] = IF n = m THEN p ELSE CACHE_MOD[n]
      /\ \A r \in Ptrs : heap'[r] = IF r = CACHE_MOD[m] THEN Free ELSE heap[r]
      /\ heap' = Trash(m)
      /\ UNCHANGED <<row, unsure, answer, CACHE_MOD_MD5, Invalid>>
  BY <1>0 DEF RunSet, Trash, DataType
<1>2. p # CACHE_MOD[m] /\ heap[p] \in Values
  BY <1>0 DEF Memory, DataType
<1>3. ASSUME NEW n \in Mods
      PROVE  (IF Cached(n)' THEN heap'[CACHE_MOD'[n]] ELSE row'[n]) =
             IF n = m THEN heap[p] ELSE (IF Cached(n) THEN heap[CACHE_MOD[n]] ELSE row[n])
  <2>1. CASE n = m
    BY <1>0, <1>1, <1>2, <2>1 DEF Cached
  <2>2. CASE n # m
    <3>1. Cached(n) => CACHE_MOD[n] # CACHE_MOD[m] /\ CACHE_MOD[n] \in Ptrs
      BY <1>0, <2>2 DEF Memory, Cached, DataType
    <3> QED BY <1>1, <2>2, <3>1 DEF Cached
  <2> QED BY <2>1, <2>2
<1>4. Val' = [Val EXCEPT ![m] = heap[p]]
  <2>1. /\ Val' = [n \in Mods |-> IF Cached(n)' THEN heap'[CACHE_MOD'[n]] ELSE row'[n]]
        /\ Val = [n \in Mods |-> IF Cached(n) THEN heap[CACHE_MOD[n]] ELSE row[n]]
    BY DEF Val
  <2> QED BY <1>3, <2>1
<1>5. KeepsPending
  BY <1>0, <1>1, TrashKeeps
<1>6. StoreGone(c) /\ Ahead(c) = {}
  <2>1. CASE Return(c)
    BY <1>0, <1>1, <1>5, <2>1, EndStore
  <2>2. CASE Query(c, p, heap[p])
    <3>1. /\ \A x \in Co : x # c => pc'[x] = pc[x] /\ job'[x] = job[x]
          /\ pc'[c] = "query" /\ job'[c].op = "set"
      BY <1>0, <1>1, <1>2, <2>2, QueryShape
    <3>2. ~Waiting(c)' /\ UNCHANGED mod_cs_map
      BY <2>2, <3>1 DEF Waiting, Query
    <3> QED BY <1>0, <1>5, <3>1, <3>2, GoneStore DEF KeepsPending
  <2> QED BY <2>1, <2>2 DEF RunSet
<1>7. /\ Store!Take(c, "set") /\ StoreReq[c].mod = m /\ StoreReq[c].v = heap[p]
  <2>1. RequestOf(c).v = heap[p]
    BY <1>0 DEF RequestOf
  <2> QED BY <1>0, <1>1, <1>6, <2>1, SameDoubt, TakeStep
<1>8. Store!Write(c)
  BY <1>1, <1>4, <1>7 DEF Store!Write
<1> QED BY <1>0, <1>8 DEF Store!Next

\* The steps of a coroutine in its section are steps of the registers.
LEMMA RunStore ==
    ASSUME CellInv, Md5Accurate, UnsureHasRow, NEW c \in Co, Run(c)
    PROVE  Store!Next \/ UNCHANGED StoreVars
<1> DEFINE m == job[c].mod
<1> USE DEF CellInv
<1>1. CASE RunCreate(c)
  <2>1. /\ MyTurn(c, "create") /\ Query(c, NoPtr, Empty) /\ Empty \in Values
        /\ UNCHANGED <<row, unsure, heap, CACHE_MOD, CACHE_MOD_MD5, answer, Invalid>>
    BY <1>1, CellAssumption DEF RunCreate, cache
  <2>2. UNCHANGED <<StoreReq, StoreAhead>>
    BY <2>1, SendStore
  <2>3. Val' = Val
    BY <2>1, SameVal DEF Cached
  <2> QED BY <2>1, <2>2, <2>3, SameDoubt DEF StoreVars
<1>2. CASE RunGet(c)
  <2>0. /\ m \in Mods /\ c \in Reqs /\ MyTurn(c, "get") /\ job[c].op = "get" /\ Waiting(c)
        /\ UNCHANGED <<row, unsure, heap, CACHE_MOD, CACHE_MOD_MD5, Invalid>>
    BY <1>2, TurnFacts DEF RunGet, cache, MyTurn, Waiting, Busy
  <2>1. Val' = Val
    BY <2>0, SameVal DEF Cached
  <2>2. CASE Cached(m)
    <3>1. answer' = [answer EXCEPT ![c] = heap[CACHE_MOD[m]]] /\ Return(c)
      BY <1>2, <2>2 DEF RunGet
    <3>2. Val[m] = heap[CACHE_MOD[m]] /\ Val[m] # NoRow
      BY <2>0, <2>2, ValFacts, CellAssumption
    <3>3. StoreGone(c) /\ Ahead(c) = {}
      BY <2>0, <3>1, TrashKeeps, EndStore
    <3>4. Store!Take(c, "get") /\ StoreReq[c].mod = m
      BY <2>0, <3>3, SameDoubt, TakeStep
    <3>5. Store!Read(c)
      BY <2>1, <3>1, <3>2, <3>4 DEF Store!Read
    <3> QED BY <2>0, <3>5 DEF Store!Next
  <2>3. CASE ~Cached(m)
    <3>1. Query(c, NoPtr, NoRow) /\ answer' = answer
      BY <1>2, <2>3 DEF RunGet
    <3>2. UNCHANGED <<StoreReq, StoreAhead>>
      BY <2>0, <3>1, SendStore
    <3> QED BY <2>0, <2>1, <3>1, <3>2, SameDoubt DEF StoreVars
  <2> QED BY <2>2, <2>3
<1> QED BY <1>1, <1>2, SaveStore, SetStore DEF Run

\* The answer to a creation: the register exists from here on, unless the
\* cache already shows data of the module.
LEMMA CreateStore ==
    ASSUME CellInv, UnsureHasRow, NEW c \in Co, NEW r, ReplyCreate(c, r)
    PROVE  Store!Next
<1> DEFINE m == job[c].mod
<1> USE DEF CellInv
<1>0. /\ m \in Mods /\ c \in Reqs /\ Arrived(c, "create") /\ job[c].op = "create" /\ Waiting(c)
      /\ UNCHANGED <<heap, CACHE_MOD, CACHE_MOD_MD5, unsure, answer, Invalid>> /\ Answer(c)
  BY TurnFacts DEF ReplyCreate, cache, Arrived, Waiting, Busy
<1>1. \A n \in Mods : row'[n] = IF n = m /\ Executed(r) /\ row[m] = NoRow THEN Empty ELSE row[n]
  BY <1>0 DEF ReplyCreate, DataType
<1>2. StoreGone(c) /\ Ahead(c) = {}
  BY <1>0, TrashKeeps, EndStore
<1>3. StoreDoubt' = StoreDoubt
  <2>1. \A n \in Mods : n \in unsure => row'[n] = row[n]
    BY <1>1 DEF UnsureHasRow
  <2> QED BY <1>0, <2>1 DEF StoreDoubt
<1>4. Store!Take(c, "create") /\ StoreReq[c].mod = m
  BY <1>0, <1>2, <1>3, TakeStep
<1>5. CASE ~Cached(m) /\ Executed(r) /\ row[m] = NoRow
  <2>1. Val[m] = NoRow
    BY <1>0, <1>5, ValFacts
  <2>2. Val' = [Val EXCEPT ![m] = Empty]
    BY <1>0, <1>1, <1>5 DEF Val, Cached
  <2> QED BY <1>0, <1>4, <2>1, <2>2 DEF Store!Create, Store!Next
<1>6. CASE ~(~Cached(m) /\ Executed(r) /\ row[m] = NoRow)
  <2>1. \A n \in Mods : row'[n] = row[n] \/ Cached(n)
    BY <1>1, <1>6
  <2>2. Val' = Val
    BY <1>0, <2>1, SameVal DEF Cached
  <2> QED BY <1>0, <1>4, <2>2 DEF Store!Create, Store!Next
<1> QED BY <1>5, <1>6

\* The answer to a read that went to the table, which is what the register
\* is as long as nothing is cached.
LEMMA GetStore ==
    ASSUME CellInv, NEW c \in Co, NEW r, ReplyGet(c, r)
    PROVE  Store!Next
<1> DEFINE m == job[c].mod
<1> USE DEF CellInv
<1>0. /\ m \in Mods /\ c \in Reqs /\ ~Cached(m) /\ Waiting(c)
      /\ Arrived(c, "get") /\ job[c].op = "get" /\ Answer(c)
      /\ UNCHANGED <<row, unsure, heap, CACHE_MOD, CACHE_MOD_MD5, Invalid>>
  BY TurnFacts DEF ReplyGet, Arrived, ReadMisses, Waiting, Busy, cache
<1>1. Val' = Val /\ Val[m] = row[m]
  BY <1>0, SameVal, ValFacts DEF Cached
<1>2. StoreGone(c) /\ Ahead(c) = {}
  BY <1>0, TrashKeeps, EndStore
<1>3. Store!Take(c, "get") /\ StoreReq[c].mod = m
  BY <1>0, <1>2, SameDoubt, TakeStep
<1>4. answer' = [answer EXCEPT ![c] = IF r = "ok" /\ row[m] # NoRow THEN row[m] ELSE NoAnswer]
  BY DEF ReplyGet
<1>5. Store!Read(c)
  BY <1>1, <1>3, <1>4 DEF Store!Read
<1> QED BY <1>0, <1>5 DEF Store!Next

\* The answer to a save shows nothing but the save itself: acknowledged, or
\* executed and unheard of.
LEMMA SavedStore ==
    ASSUME CellInv, NEW c \in Co, NEW r \in Faults \cup {"ok"}, ReplySave(c, r)
    PROVE  Store!Next \/ UNCHANGED StoreVars
<1> DEFINE m == job[c].mod
           hit == row[m] # NoRow
<1> USE DEF CellInv
<1>0. /\ m \in Mods /\ c \in Timers /\ Arrived(c, "save") /\ Answer(c)
      /\ UNCHANGED <<answer, Invalid>>
      /\ Cached(m) /\ heap[CACHE_MOD[m]] = job[c].data /\ job[c].data \in Values
  <2>1. m \in Mods /\ c \in Timers /\ Arrived(c, "save") /\ Answer(c) /\ UNCHANGED <<answer, Invalid>>
    BY TurnFacts DEF ReplySave
  <2>2. Cached(m) /\ heap[CACHE_MOD[m]] = job[c].data
    BY <2>1 DEF Arrived, QueryPtrLive, Cached
  <2> QED BY <2>1, <2>2, ValFacts
<1>1. Val[m] = job[c].data /\ Val[m] # NoRow
  BY <1>0, ValFacts, CellAssumption
<1>2. /\ heap' = heap \/ heap' = Trash(m)
      /\ \A n \in Mods : n # m => row'[n] = row[n]
      /\ row'[m] = IF Executed(r) /\ hit THEN job[c].data ELSE row[m]
  BY <1>0 DEF ReplySave, cache, DelCacheMod, DataType
<1>3. UNCHANGED <<StoreReq, StoreAhead>>
  BY <1>0, <1>2, TrashKeeps, EndStore, GoneAlready
<1>4. Val' = Val
  <2>1. CASE UNCHANGED <<heap, CACHE_MOD>>
    <3>1. \A n \in Mods : row'[n] = row[n] \/ Cached(n)
      BY <1>0, <1>2
    <3> QED BY <2>1, <3>1, SameVal DEF Cached
  <2>2. CASE ~UNCHANGED <<heap, CACHE_MOD>>
    <3>1. DelCacheMod(m) /\ row'[m] = job[c].data
      BY <1>2, <2>2 DEF ReplySave, cache, Executed
    <3>2. Val' = [Val EXCEPT ![m] = job[c].data]
      BY <1>0, <1>2, <3>1, EvictVal
    <3> QED BY <1>1, <3>2 DEF Val
  <2> QED BY <2>1, <2>2
<1>5. CASE hit /\ r = "ok"
  <2>1. CACHE_MOD_MD5' = [CACHE_MOD_MD5 EXCEPT ![m] = Val[m]] /\ unsure' = unsure \ {m}
    BY <1>1, <1>5 DEF ReplySave, Unheard
  <2>2. StoreDoubt' = [StoreDoubt EXCEPT ![m] = NoRow]
    BY <1>0, <1>2, <2>1 DEF StoreDoubt
  <2>3. Store!Save(m)
    BY <1>0, <1>1, <1>3, <1>4, <2>1, <2>2 DEF Store!Save
  <2> QED BY <1>0, <2>3 DEF Store!Next
<1>6. CASE hit /\ r = "lost"
  <2>1. CACHE_MOD_MD5' = CACHE_MOD_MD5 /\ unsure' = unsure \cup {m}
    BY <1>6 DEF ReplySave, Unheard, cache
  <2>2. row'[m] = Val[m]
    BY <1>1, <1>2, <1>6 DEF Executed
  <2>3. StoreDoubt' = [StoreDoubt EXCEPT ![m] = Val[m]]
    BY <1>0, <1>2, <2>1, <2>2 DEF StoreDoubt
  <2>4. Store!SaveUnheard(m)
    BY <1>0, <1>1, <1>3, <1>4, <2>1, <2>3 DEF Store!SaveUnheard
  <2> QED BY <1>0, <2>4 DEF Store!Next
<1>7. CASE ~(hit /\ r \in {"ok", "lost"})
  <2>1. CACHE_MOD_MD5' = CACHE_MOD_MD5 /\ unsure' = unsure
    BY <1>7 DEF ReplySave, Unheard, cache
  <2>2. \A n \in Mods : row'[n] = row[n]
    BY <1>2, <1>7 DEF Executed
  <2>3. StoreDoubt' = StoreDoubt
    BY <2>1, <2>2 DEF StoreDoubt
  <2> QED BY <1>0, <1>3, <1>4, <2>1, <2>3 DEF StoreVars
<1> QED BY <1>5, <1>6, <1>7

\* So are the answers of MySQL.
LEMMA ReplyStore ==
    ASSUME CellInv, UnsureHasRow, NEW c \in Co, NEW r \in Faults \cup {"ok"}, Reply(c, r)
    PROVE  Store!Next \/ UNCHANGED StoreVars
<1> USE DEF CellInv
<1>1. CASE ReplyImm(c, r)
  <2>1. /\ Arrived(c, "set") /\ Answer(c) /\ job[c].mod \in Mods /\ ~Waiting(c)
        /\ UNCHANGED <<row, unsure, heap, CACHE_MOD, CACHE_MOD_MD5, answer, Invalid>>
    BY <1>1, TurnFacts DEF ReplyImm, cache, Waiting, Arrived
  <2>2. UNCHANGED <<StoreReq, StoreAhead>>
    BY <2>1, TrashKeeps, EndStore, GoneAlready
  <2>3. Val' = Val
    BY <2>1, SameVal DEF Cached
  <2> QED BY <2>1, <2>2, <2>3, SameDoubt DEF StoreVars
<1> QED BY <1>1, CreateStore, GetStore, SavedStore DEF Reply

\* A message is a request that joins those for its module.
LEMMA AskStore ==
    ASSUME CellInv, NEW c \in Reqs, NEW j \in Job, ~Busy(c), ~Invalid, j.op # "save",
           j.op = "set" => j.ptr \in Ptrs, Enqueue(c, j),
           answer' = [answer EXCEPT ![c] = NoAnswer],
           UNCHANGED <<row, unsure, CACHE_MOD, CACHE_MOD_MD5, wire, Invalid, closer>>,
           KeepsPending, Val' = Val,
           j.op = "set" => heap'[j.ptr] \in Values
    PROVE  Store!Next
<1> DEFINE q == RequestOf(c)'
<1> USE DEF CellInv
<1>0. c \in Co /\ c \notin Timers
  BY CellAssumption DEF Co
<1>1. /\ \A x \in Co : x # c => pc'[x] = pc[x] /\ job'[x] = job[x]
      /\ pc'[c] = "queued" /\ job'[c] = j
  BY <1>0, EnqueueShape
<1>2. /\ StoreReq[c] = NoJob
      /\ StoreReq' = [StoreReq EXCEPT ![c] = q]
      /\ StoreAhead' = [StoreAhead EXCEPT ![c] =
            {d \in Reqs : StoreReq[d] # NoJob /\ StoreReq[d].mod = j.mod}]
  BY <1>0, <1>1, JoinStore DEF KeepsPending
<1>3. q \in Store!Request /\ q.mod = j.mod
  BY <1>1 DEF RequestOf, Store!Request, Job, Ops
<1>4. Store!Ask(c, q)
  BY <1>2, <1>3, SameDoubt DEF Store!Ask
<1> QED BY <1>3, <1>4 DEF Store!Next

LEMMA MessageStore ==
    ASSUME CellInv, NEW c \in Reqs, Message(c)
    PROVE  Store!Next
<1> USE DEF CellInv
<1>1. ASSUME NEW m \in Mods, NEW op \in {"create", "get"}, Request(c, op, m)
      PROVE  Store!Next
  <2> DEFINE j == NewJob(op, m, NoPtr, FALSE)
  <2>1. j \in Job /\ j.op = op /\ op \notin {"save", "set"}
    BY <1>1 DEF NewJob, Job, Ops
  <2>2. /\ ~Busy(c) /\ ~Invalid /\ Enqueue(c, j) /\ answer' = [answer EXCEPT ![c] = NoAnswer]
        /\ UNCHANGED <<row, unsure, heap, CACHE_MOD, CACHE_MOD_MD5, wire, Invalid, closer>>
    BY <1>1 DEF Request, Busy, cache
  <2>3. Val' = Val
    BY <2>2, SameVal DEF Cached
  <2> HIDE DEF j
  <2> QED BY <2>1, <2>2, <2>3, TrashKeeps, AskStore
<1>2. ASSUME NEW m \in Mods, NEW p \in Ptrs, NEW v \in Values, NEW i \in BOOLEAN,
             mod_setdata_ptrq(c, m, p, v, i)
      PROVE  Store!Next
  <2> DEFINE j == NewJob("set", m, p, i)
  <2>1. j \in Job /\ j.op = "set" /\ j.ptr = p
    BY DEF NewJob, Job, Ops
  <2>2. /\ ~Busy(c) /\ ~Invalid /\ Enqueue(c, j) /\ answer' = [answer EXCEPT ![c] = NoAnswer]
        /\ heap[p] = Free /\ heap' = [heap EXCEPT ![p] = v]
        /\ UNCHANGED <<row, unsure, CACHE_MOD, CACHE_MOD_MD5, wire, Invalid, closer>>
    BY <1>2 DEF mod_setdata_ptrq, Busy
  <2>3. Val' = Val
    BY <2>2, SameVal DEF Cached, Memory, DataType
  <2>4. heap'[p] \in Values
    BY <2>2 DEF DataType
  <2>5. KeepsPending
    BY <2>2, AllocKeeps
  <2> HIDE DEF j
  <2> QED BY <2>1, <2>2, <2>3, <2>4, <2>5, AskStore
<1> QED BY <1>1, <1>2 DEF Message, mod_createnexist, mod_getdata

\* Steps that touch neither a line nor a job show nothing.
LEMMA IdleStore ==
    ASSUME CellInv, KeepsPending, Val' = Val,
           UNCHANGED <<row, unsure, CACHE_MOD_MD5, mod_cs_map, job, answer>>,
           \A x \in Co : (Busy(x)' <=> Busy(x)) /\ (Busy(x) => pc'[x] = pc[x])
    PROVE  UNCHANGED StoreVars
<1>1. \A x \in Co : /\ Waiting(x)' <=> Waiting(x)
                    /\ Waiting(x) => RequestOf(x)' = RequestOf(x) /\ job'[x].mod = job[x].mod
  <2>1. ASSUME NEW x \in Co, ~Busy(x)
        PROVE  ~Waiting(x) /\ ~Waiting(x)'
    BY <2>1 DEF Waiting
  <2> QED BY <2>1, StillWaiting DEF KeepsPending
<1> QED BY <1>1, QueryStore, SameDoubt DEF StoreVars

\* The timer and closedb do not show, nor do the requests that are refused.
LEMMA OtherStore ==
    ASSUME CellInv,
           \/ \E c \in Timers : Timer(c)
           \/ Refuse \/ (\E p \in Ptrs, v \in Values : RefuseSet(p, v))
           \/ Close \/ UNCHANGED vars
    PROVE  UNCHANGED StoreVars
<1> USE DEF CellInv
<1>1. ASSUME UNCHANGED <<row, unsure, heap, CACHE_MOD, CACHE_MOD_MD5, answer>>
      PROVE  /\ Val' = Val /\ KeepsPending
             /\ UNCHANGED <<StoreReq, StoreAhead>> => UNCHANGED StoreVars
  BY <1>1, SameVal, SameDoubt DEF Cached, KeepsPending, StoreVars
<1>2. ASSUME NEW c \in Timers, TimerFire(c) \/ TimerSnapshot(c) PROVE UNCHANGED StoreVars
  <2>1. /\ UNCHANGED <<row, unsure, heap, CACHE_MOD, CACHE_MOD_MD5, answer, mod_cs_map, job>>
        /\ \A x \in Co : (Busy(x)' <=> Busy(x)) /\ (Busy(x) => pc'[x] = pc[x])
    BY <1>2 DEF TimerFire, TimerSnapshot, cache, Busy, Shape, CoType
  <2> QED BY <1>1, <2>1, IdleStore
<1>3. ASSUME NEW c \in Timers, NEW m \in Mods, TimerSave(c, m) PROVE UNCHANGED StoreVars
  <2>1. /\ UNCHANGED <<row, unsure, heap, CACHE_MOD, CACHE_MOD_MD5, answer, wire, Invalid, closer>>
        /\ c \in Co /\ ~Busy(c) /\ c \notin Reqs
    BY <1>3, CellAssumption DEF TimerSave, cache, Busy, Co
  <2>2. CASE UNCHANGED <<ReqTbl, mod_cs_map, pc, job>>
    BY <1>1, <2>1, <2>2, IdleStore DEF Busy
  <2>3. CASE ~Invalid /\ Enqueue(c, NewJob("save", m, NoPtr, m \in DelCacheSaveMod))
    <3> DEFINE j == NewJob("save", m, NoPtr, m \in DelCacheSaveMod)
    <3>1. j \in Job /\ j.op = "save"
      BY DEF NewJob, Job, Ops
    <3> HIDE DEF j
    <3>2. /\ \A x \in Co : x # c => pc'[x] = pc[x] /\ job'[x] = job[x]
          /\ pc'[c] = "queued" /\ job'[c] = j
      BY <2>1, <2>3, <3>1, EnqueueShape DEF j
    <3>3. UNCHANGED <<StoreReq, StoreAhead>>
      BY <1>1, <2>1, <2>3, <3>1, <3>2, JoinStore DEF j, KeepsPending
    <3> QED BY <1>1, <2>1, <3>3
  <2> QED BY <1>3, <2>2, <2>3 DEF TimerSave
<1>4. ASSUME Close \/ Refuse \/ UNCHANGED vars PROVE UNCHANGED StoreVars
  <2>1. UNCHANGED <<row, unsure, heap, CACHE_MOD, CACHE_MOD_MD5, answer, mod_cs_map, job, pc>>
    BY <1>4 DEF Close, closedb, CloseDesc, CloseResume, Refuse, cache, vars
  <2> QED BY <1>1, <2>1, IdleStore DEF Busy
<1>5. ASSUME NEW p \in Ptrs, NEW v \in Values, RefuseSet(p, v) PROVE UNCHANGED StoreVars
  <2>1. /\ UNCHANGED <<row, unsure, CACHE_MOD, CACHE_MOD_MD5, answer, mod_cs_map, job, pc>>
        /\ heap[p] = Free /\ heap' = [heap EXCEPT ![p] = v]
    BY <1>5 DEF RefuseSet
  <2>2. Val' = Val
    BY <2>1, SameVal DEF Cached, Memory, DataType
  <2>3. KeepsPending
    BY <2>1, AllocKeeps
  <2> QED BY <2>1, <2>2, <2>3, IdleStore DEF Busy
<1> QED BY <1>2, <1>3, <1>4, <1>5 DEF Timer

\* To its clients the cell is ModStore's registers, whatever queries fail and
\* whatever answers are lost: a module's data changes when a request to write
\* or create it has its turn, in the order of the requests and with their data
\* (_cs_mod_cache, _cs_mod_createnexist), and reads see it; the cache, the
\* periodic saves and the evictions do not show, but for the fall back that
\* the md5 comparison of dbsave.lua:648 causes after a lost answer.
THEOREM CellImplementsStore == Spec => StoreSpec
<1>1. Init => Store!Init /\ UnsureHasRow
  BY DEF Init, Store!Init, UnsureHasRow, Val, Cached, StoreReq, StoreAhead, StoreDoubt,
         Ahead, Waiting, Busy, Co
<1>2. CellInv /\ Md5Accurate /\ UnsureHasRow /\ [Next]_vars => [Store!Next]_(Store!vars)
  <2>1. CellInv /\ Md5Accurate /\ UnsureHasRow /\ [Next]_vars
           => Store!Next \/ UNCHANGED StoreVars
    BY RunStore, ReplyStore, MessageStore, OtherStore DEF Next
  <2> QED BY <2>1 DEF Store!vars, StoreVars
<1>3. CellInv /\ UnsureHasRow /\ [Next]_vars => UnsureHasRow'
  BY UnsureStep
<1> QED BY <1>1, <1>2, <1>3, CellInvariant, Md5Correct, PTL DEF Spec, StoreSpec, Store!Spec
=============================================================================
