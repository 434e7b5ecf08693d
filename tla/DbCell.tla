------------------------------- MODULE DbCell -------------------------------
(***************************************************************************)
(* One databasecell service: dbsave.lua, dbcache.lua and databasecell.lua. *)
(* Clients write module data into a write-back cache (CACHE_MOD); a timer  *)
(* saves what is cached to the MySQL table `module` and evicts it; closedb *)
(* refuses further requests, waits for the running ones and saves.         *)
(*                                                                         *)
(* Coroutines interleave where they yield: while they wait for the queue   *)
(* of their module (mod_cs_map, by SkynetQueue a first-come first-served   *)
(* lock: its line, the owner first) and while a query is out.  The service *)
(* takes a new message only when no coroutine can go on (Quiet); answers   *)
(* may arrive in batches.  Data is named by value, so an MD5 sum is the    *)
(* value itself; pointers are kept, since the C memory behind them is      *)
(* freed by hand.  The index of a request in ReqTbl is abstracted to the   *)
(* coroutine that holds it.                                                *)
(*                                                                         *)
(* A save calls two functions the repository does not define, UTIL.Sumhexa *)
(* (dbsave.lua:321, 647) and DBObj.query_ptr_ex (333, 659).  Helpers is    *)
(* what such a call may do: {FALSE}, raise, is the repository as it stands *)
(* (either one missing has the same effect on the cell); with TRUE they    *)
(* are provided and do what the code uses them for, the md5 sum of a block *)
(* and a query whose middle is a block.                                    *)
(***************************************************************************)
EXTENDS Naturals, Sequences, FiniteSets

CONSTANTS Mods,       \* module names
          Values,     \* module data, Empty among it
          Empty,      \* EMPTY_TABLE_PACK, what createnexist inserts
          NoRow,      \* no such row in the table
          Ptrs,       \* C memory blocks a client can allocate
          NoPtr,      \* Lua's nil, for a pointer
          Free,       \* content of a block that is not allocated
          Reqs,       \* coroutines that serve "lua" messages
          Timers,     \* coroutines that serve CacheSaveTimer
          Closer,     \* the coroutine that serves closedb
          NoJob,      \* an idle coroutine's job
          NoAnswer,   \* no data returned (or: false)
          Faults,     \* what may go wrong with a query
          Helpers     \* may UTIL.Sumhexa and DBObj.query_ptr_ex work, or raise

Co == Reqs \cup Timers
FaultKinds == {"bad",    \* an answer with badresult: not executed
               "drop",   \* the connection broke first: not executed, raises
               "lost"}   \* executed, then the connection broke: raises

ASSUME CellAssumption == /\ Empty \in Values
                         /\ NoRow \notin Values
                         /\ Free \notin Values
                         /\ NoAnswer \notin Values
                         /\ NoPtr \notin Ptrs
                         /\ Reqs \cap Timers = {}
                         /\ Closer \notin Co
                         /\ Faults \subseteq FaultKinds
                         /\ Helpers \subseteq BOOLEAN /\ Helpers # {}

VARIABLES row,               \* the table: module -> data
          heap,              \* C memory: pointer -> data
          CACHE_MOD,         \* module -> data_ptr of its cache entry
          hsave,             \* the modules whose entry is marked saved
          CACHE_MOD_MD5,     \* module -> md5 of the last successful save
          mod_cs_map,        \* module -> line of its queue
          wire,              \* queries out on the one connection, in order
          ReqTbl,            \* the requests in progress
          Invalid,           \* closedb has been called
          closer,            \* where the closedb coroutine is
          CacheSaveMod,      \* modules the timer still has to save
          DelCacheSaveMod,   \* modules whose entry that save evicts
          pc, job,           \* where each coroutine is, and on what
          todo,              \* the rest of a timer's loop (tmpMod)
          answer,            \* what each coroutine's last read returned
          unsure             \* (history) the modules with an executed save
                             \* whose answer was lost, since the last "ok"

cache == <<heap, CACHE_MOD, hsave, CACHE_MOD_MD5>>
snap == <<CacheSaveMod, DelCacheSaveMod, todo>>
vars == <<row, heap, CACHE_MOD, hsave, CACHE_MOD_MD5, mod_cs_map, wire, ReqTbl,
          Invalid, closer, CacheSaveMod, DelCacheSaveMod, pc, job, todo, answer, unsure>>

Ops == {"create", "set", "get", "save"}

\* flag is isimm of a "set" and isdel_cache of a "save"; data is what a
\* query has been sent with.
Job == [op : Ops, mod : Mods, ptr : Ptrs \cup {NoPtr},
        data : Values \cup {NoRow}, flag : BOOLEAN]

ASSUME JobAssumption == /\ NoJob \notin Job
                        /\ NoJob \notin [op : Ops, mod : Mods, v : Values \cup {NoRow}]

Init == /\ row \in [Mods -> Values \cup {NoRow}]
        /\ heap = [p \in Ptrs |-> Free]
        /\ CACHE_MOD = [m \in Mods |-> NoPtr]
        /\ hsave = {}
        /\ CACHE_MOD_MD5 = [m \in Mods |-> NoRow]
        /\ mod_cs_map = [m \in Mods |-> <<>>]
        /\ wire = <<>>
        /\ ReqTbl = {}
        /\ Invalid = FALSE
        /\ closer = "idle"
        /\ CacheSaveMod = {} /\ DelCacheSaveMod = {}
        /\ pc = [c \in Co |-> "idle"]
        /\ job = [c \in Co |-> NoJob]
        /\ todo = [c \in Timers |-> {}]
        /\ answer = [c \in Reqs |-> NoAnswer]
        /\ unsure = {}
-----------------------------------------------------------------------------
(* Pieces shared by the handlers.                                          *)

Cached(m) == CACHE_MOD[m] # NoPtr

\* Mutant of Trash: the block is forgotten, not freed.
TrashLeaks(m) == heap

\* Free the block behind an entry (skynet.trash).
Trash(m) == [p \in Ptrs |-> IF p = CACHE_MOD[m] THEN Free ELSE heap[p]]

DelCacheMod(m) == /\ CACHE_MOD' = [CACHE_MOD EXCEPT ![m] = NoPtr]
                  /\ hsave' = hsave \ {m}
                  /\ heap' = Trash(m)

\* Mutant of CheckEnd: the table of requests is not looked at.
CheckEndEarly(left) == IF Invalid /\ closer = "wait" THEN "woken" ELSE closer

\* CheckEnd(), run after every "lua" message: wake closedb when it waits
\* and no request is left.
CheckEnd(left) == IF Invalid /\ closer = "wait" /\ left = {} THEN "woken" ELSE closer

\* _GetQueueByMod, _GetReqIndex, ReqTbl[nowIndex] = true, and the call of cs.
Enqueue(c, j) ==
    /\ ReqTbl' = ReqTbl \cup {c}
    /\ mod_cs_map' = [mod_cs_map EXCEPT ![j.mod] = Append(@, c)]
    /\ pc' = [pc EXCEPT ![c] = "queued"]
    /\ job' = [job EXCEPT ![c] = j]

\* Mutant of MyTurn: the section is not serialised.
MyTurnBarging(c, op) == pc[c] = "queued" /\ job[c].op = op

\* It is this coroutine's turn in the queue of its module.
MyTurn(c, op) == /\ pc[c] = "queued"
                 /\ job[c].op = op
                 /\ Head(mod_cs_map[job[c].mod]) = c

\* The scheduler's wakeup queue is empty: nobody is at the head of a line
\* without a query, in the timer's loop, or woken from closedb's wait.
Quiet == /\ \A m \in Mods : mod_cs_map[m] # <<>> => pc[Head(mod_cs_map[m])] = "query"
         /\ \A c \in Timers : pc[c] # "loop"
         /\ closer # "woken"

\* A query goes out: the coroutine sleeps inside its critical section.
Query(c, ptr, data) ==
    /\ wire' = Append(wire, c)
    /\ pc' = [pc EXCEPT ![c] = "query"]
    /\ job' = [job EXCEPT ![c].ptr = ptr, ![c].data = data]
    /\ UNCHANGED <<mod_cs_map, ReqTbl, closer>>

\* Mutant of Finish: CheckEnd runs before the request is taken out.
FinishChecksFirst(c) ==
    /\ mod_cs_map' = [mod_cs_map EXCEPT ![job[c].mod] = Tail(@)]
    /\ ReqTbl' = ReqTbl \ {c}
    /\ closer' = IF c \in Reqs THEN CheckEnd(ReqTbl) ELSE closer
    /\ pc' = [pc EXCEPT ![c] = IF c \in Reqs THEN "idle" ELSE "loop"]
    /\ job' = [job EXCEPT ![c] = NoJob]

\* The critical section ends, by return or by error: the queue moves on,
\* ReqTbl[nowIndex] = nil, and only a message handler goes on to CheckEnd.
Finish(c) ==
    /\ mod_cs_map' = [mod_cs_map EXCEPT ![job[c].mod] = Tail(@)]
    /\ ReqTbl' = ReqTbl \ {c}
    /\ closer' = IF c \in Reqs THEN CheckEnd(ReqTbl \ {c}) ELSE closer
    /\ pc' = [pc EXCEPT ![c] = IF c \in Reqs THEN "idle" ELSE "loop"]
    /\ job' = [job EXCEPT ![c] = NoJob]

\* A section that ends without a query, and one that ends with its answer:
\* MySQL answers in the order of the queries, and a broken connection fails
\* them in that order.
Return(c) == Finish(c) /\ UNCHANGED wire
Answer(c) == Finish(c) /\ wire' = Tail(wire)
-----------------------------------------------------------------------------
(* Messages.  An idle coroutine picks one up.                              *)

NewJob(op, m, ptr, flag) ==
    [op |-> op, mod |-> m, ptr |-> ptr, data |-> NoRow, flag |-> flag]

\* A request that only names a module, up to the queue.
Request(c, op, m) ==
    /\ Quiet /\ pc[c] = "idle" /\ ~Invalid
    /\ Enqueue(c, NewJob(op, m, NoPtr, FALSE))
    /\ answer' = [answer EXCEPT ![c] = NoAnswer]
    /\ UNCHANGED <<row, unsure, cache, wire, snap, Invalid, closer>>

mod_createnexist(c, m) == Request(c, "create", m)

mod_getdata(c, m) == Request(c, "get", m)

\* mod_setdata_ptrq, up to the queue; its pointer is a block of the sender's.
mod_setdata_ptrq(c, m, p, v, isimm) ==
    /\ Quiet /\ pc[c] = "idle" /\ ~Invalid
    /\ heap[p] = Free
    /\ heap' = [heap EXCEPT ![p] = v]
    /\ Enqueue(c, NewJob("set", m, p, isimm))
    /\ answer' = [answer EXCEPT ![c] = NoAnswer]
    /\ UNCHANGED <<row, unsure, CACHE_MOD, hsave, CACHE_MOD_MD5, wire, snap, Invalid, closer>>

\* Any request after closedb returns at once, and still runs CheckEnd.
Refuse == /\ Quiet /\ Invalid
          /\ closer' = CheckEnd(ReqTbl)
          /\ UNCHANGED <<row, unsure, cache, mod_cs_map, wire, ReqTbl, Invalid, snap, pc, job, answer>>

\* The block of a refused mod_setdata_ptrq is never freed.
RefuseSet(p, v) ==
    /\ Quiet /\ Invalid
    /\ heap[p] = Free
    /\ heap' = [heap EXCEPT ![p] = v]
    /\ closer' = CheckEnd(ReqTbl)
    /\ UNCHANGED <<row, unsure, CACHE_MOD, hsave, CACHE_MOD_MD5, mod_cs_map, wire, ReqTbl,
                   Invalid, snap, pc, job, answer>>
-----------------------------------------------------------------------------
(* The critical sections, from the turn in the queue to the first yield.   *)

\* _cs_mod_createnexist: insert ... where not exists.
RunCreate(c) ==
    /\ MyTurn(c, "create")
    /\ Query(c, NoPtr, Empty)
    /\ UNCHANGED <<row, unsure, cache, Invalid, snap, answer>>

\* _cs_mod_cache: replace the entry, freeing the old block; isimm goes on to
\* save it, which compares md5 sums first, or raises at that.
RunSet(c) ==
    LET m == job[c].mod
        p == job[c].ptr
        same == CACHE_MOD_MD5[m] = heap[p]
    IN /\ MyTurn(c, "set")
       /\ heap' = Trash(m)
       /\ CACHE_MOD' = [CACHE_MOD EXCEPT ![m] = p]
       /\ \E works \in Helpers :
             LET imm == job[c].flag /\ works
             IN /\ hsave' = IF imm /\ same THEN hsave \cup {m} ELSE hsave \ {m}
                /\ IF imm /\ ~same THEN Query(c, p, heap[p]) ELSE Return(c)
       /\ UNCHANGED <<row, unsure, CACHE_MOD_MD5, Invalid, snap, answer>>

\* Mutant of RunGet: the cache is not asked.
RunGetUncached(c) == /\ MyTurn(c, "get")
                     /\ Query(c, NoPtr, NoRow)
                     /\ UNCHANGED <<row, unsure, cache, Invalid, snap, answer>>

\* _cs_mod_getdata: a cached module is answered without a query.
RunGet(c) ==
    LET m == job[c].mod
    IN /\ MyTurn(c, "get")
       /\ \/ /\ Cached(m)
             /\ answer' = [answer EXCEPT ![c] = heap[CACHE_MOD[m]]]
             /\ Return(c)
          \/ /\ ~Cached(m)
             /\ Query(c, NoPtr, NoRow)
             /\ UNCHANGED answer
       /\ UNCHANGED <<row, unsure, cache, Invalid, snap>>

\* An entry that is not marked saved has its md5 sum taken, and is written
\* if that differs from the sum of the last save.
Unsaved(m) == Cached(m) /\ m \notin hsave

NeedsUpdate(m) == Unsaved(m) /\ CACHE_MOD_MD5[m] # heap[CACHE_MOD[m]]

\* Mutant of RunSave: the entry is evicted when the query is sent.
RunSaveEvictsFirst(c) ==
    LET m == job[c].mod
    IN /\ MyTurn(c, "save")
       /\ IF NeedsUpdate(m) THEN Query(c, CACHE_MOD[m], heap[CACHE_MOD[m]]) ELSE Return(c)
       /\ IF Cached(m) THEN DelCacheMod(m) ELSE UNCHANGED <<heap, CACHE_MOD, hsave>>
       /\ UNCHANGED <<row, unsure, CACHE_MOD_MD5, Invalid, snap, answer>>

\* _cs_mod_setdata of the timer (dbsave.lua:620): an error at the md5 sum
\* ends it; else the entry is written, or taken for saved.
RunSave(c) ==
    LET m == job[c].mod
    IN /\ MyTurn(c, "save")
       /\ \/ /\ Unsaved(m) /\ FALSE \in Helpers
             /\ Return(c)
             /\ UNCHANGED cache
          \/ /\ NeedsUpdate(m) /\ TRUE \in Helpers
             /\ Query(c, CACHE_MOD[m], heap[CACHE_MOD[m]])
             /\ UNCHANGED cache
          \/ /\ ~NeedsUpdate(m) /\ (Unsaved(m) => TRUE \in Helpers)
             /\ Return(c)
             /\ IF Cached(m) /\ job[c].flag
                THEN DelCacheMod(m)
                ELSE /\ hsave' = IF Cached(m) THEN hsave \cup {m} ELSE hsave
                     /\ UNCHANGED <<heap, CACHE_MOD>>
             /\ UNCHANGED CACHE_MOD_MD5
       /\ UNCHANGED <<row, unsure, Invalid, snap, answer>>
-----------------------------------------------------------------------------
(* The answer to a query arrives: "ok" or one of Faults.                   *)

Arrived(c, op) == /\ pc[c] = "query"
                  /\ job[c].op = op
                  /\ Head(wire) = c

Executed(r) == r \in {"ok", "lost"}

\* What the cell cannot know of its saves: unsure after a "lost" one that
\* changed the row, until one is acknowledged.
Unheard(m, hit, r) == unsure' = CASE hit /\ r = "lost" -> unsure \cup {m}
                                  [] hit /\ r = "ok" -> unsure \ {m}
                                  [] OTHER -> unsure

\* The answer to the insert is not looked at.
ReplyCreate(c, r) ==
    LET m == job[c].mod
    IN /\ Arrived(c, "create")
       /\ row' = IF Executed(r) /\ row[m] = NoRow
                 THEN [row EXCEPT ![m] = Empty] ELSE row
       /\ Answer(c)
       /\ UNCHANGED <<cache, unsure, Invalid, snap, answer>>

\* _cs_mod_getdata: the first row of the answer, if there is one.
ReplyGet(c, r) ==
    LET m == job[c].mod
    IN /\ Arrived(c, "get")
       /\ answer' = [answer EXCEPT ![c] = IF r = "ok" /\ row[m] # NoRow
                                          THEN row[m] ELSE NoAnswer]
       /\ Answer(c)
       /\ UNCHANGED <<row, unsure, cache, Invalid, snap>>

\* The immediate save (dbsave.lua:294) asks for the column acct_id, which
\* the table does not have: whatever happens, nothing is executed and the
\* test of the answer fails, so the section ends with an error.
ReplyImm(c, r) ==
    /\ Arrived(c, "set")
    /\ Answer(c)
    /\ UNCHANGED <<row, unsure, cache, Invalid, snap, answer>>

\* Mutants of ReplySave: the md5 sum is recorded before the answer is
\* tested, and the entry is evicted whatever the answer says.
ReplySaveRecordsFirst(c, r) ==
    LET m == job[c].mod
        hit == row[m] # NoRow
    IN /\ Arrived(c, "save")
       /\ row' = IF Executed(r) /\ hit
                 THEN [row EXCEPT ![m] = job[c].data] ELSE row
       /\ CACHE_MOD_MD5' = [CACHE_MOD_MD5 EXCEPT ![m] = job[c].data]
       /\ IF r = "ok" /\ hit /\ job[c].flag
          THEN DelCacheMod(m) ELSE UNCHANGED <<heap, CACHE_MOD, hsave>>
       /\ Unheard(m, hit, r)
       /\ Answer(c)
       /\ UNCHANGED <<Invalid, snap, answer>>

ReplySaveEvictsAlways(c, r) ==
    LET m == job[c].mod
        hit == row[m] # NoRow
    IN /\ Arrived(c, "save")
       /\ row' = IF Executed(r) /\ hit
                 THEN [row EXCEPT ![m] = job[c].data] ELSE row
       /\ CACHE_MOD_MD5' = IF r = "ok" /\ hit
                           THEN [CACHE_MOD_MD5 EXCEPT ![m] = job[c].data]
                           ELSE CACHE_MOD_MD5
       /\ DelCacheMod(m)
       /\ Unheard(m, hit, r)
       /\ Answer(c)
       /\ UNCHANGED <<Invalid, snap, answer>>

\* The update of the timer's save.  It succeeds when one row is affected
\* (the connection asks for found, not changed, rows: mysql.lua:505);
\* otherwise the error leaves the cache as it was.  Without isdel_cache the
\* code marks a (nonexistent) uid entry saved, which changes nothing.
ReplySave(c, r) ==
    LET m == job[c].mod
        hit == row[m] # NoRow
    IN /\ Arrived(c, "save")
       /\ row' = IF Executed(r) /\ hit
                 THEN [row EXCEPT ![m] = job[c].data] ELSE row
       /\ IF r = "ok" /\ hit
          THEN /\ CACHE_MOD_MD5' = [CACHE_MOD_MD5 EXCEPT ![m] = job[c].data]
               /\ IF job[c].flag THEN DelCacheMod(m)
                                 ELSE UNCHANGED <<heap, CACHE_MOD, hsave>>
          ELSE UNCHANGED cache
       /\ Unheard(m, hit, r)
       /\ Answer(c)
       /\ UNCHANGED <<Invalid, snap, answer>>
-----------------------------------------------------------------------------
(* CacheSaveTimer.                                                         *)

\* The timer fires: CacheFrameTimer(true) takes what the last snapshot left.
TimerFire(c) ==
    /\ Quiet /\ pc[c] = "idle" /\ ~Invalid
    /\ todo' = [todo EXCEPT ![c] = CacheSaveMod]
    /\ CacheSaveMod' = {}
    /\ pc' = [pc EXCEPT ![c] = "loop"]
    /\ UNCHANGED <<row, unsure, cache, mod_cs_map, wire, ReqTbl, Invalid, closer,
                   DelCacheSaveMod, job, answer>>

\* One round of the loop: real_mod_setdata_ptrq, which does nothing once
\* closedb has been called.
TimerSave(c, m) ==
    /\ pc[c] = "loop" /\ m \in todo[c]
    /\ todo' = [todo EXCEPT ![c] = @ \ {m}]
    /\ \/ Invalid /\ UNCHANGED <<ReqTbl, mod_cs_map, pc, job>>
       \/ ~Invalid /\ Enqueue(c, NewJob("save", m, NoPtr, m \in DelCacheSaveMod))
    /\ UNCHANGED <<row, unsure, cache, wire, Invalid, closer, CacheSaveMod, DelCacheSaveMod, answer>>

\* The loop is over: GetAllCacheMod() takes the next snapshot, in which
\* every cached module is to be saved and evicted.
TimerSnapshot(c) ==
    /\ pc[c] = "loop" /\ todo[c] = {}
    /\ CacheSaveMod' = {m \in Mods : Cached(m)}
    /\ DelCacheSaveMod' = CacheSaveMod'
    /\ pc' = [pc EXCEPT ![c] = "idle"]
    /\ UNCHANGED <<row, unsure, cache, mod_cs_map, wire, ReqTbl, Invalid, closer, job, todo, answer>>
-----------------------------------------------------------------------------
(* closedb.  CloseAllCache() raises before it saves anything: it calls     *)
(* GetAllCaCheUid, a name DBCACHE does not define; the message handler     *)
(* ends there, with an error reply and without CheckEnd.                   *)

closedb == /\ Quiet /\ ~Invalid
           /\ Invalid' = TRUE
           /\ closer' = "desc"
           /\ wire' = Append(wire, Closer)
           /\ UNCHANGED <<row, unsure, cache, mod_cs_map, ReqTbl, snap, pc, job, answer>>

\* The answer (or the failure) of "desc module".
CloseDesc == /\ closer = "desc" /\ Head(wire) = Closer
             /\ wire' = Tail(wire)
             /\ closer' = IF ReqTbl = {} THEN "failed" ELSE "wait"
             /\ UNCHANGED <<row, unsure, cache, mod_cs_map, ReqTbl, Invalid, snap, pc, job, answer>>

CloseResume == /\ closer = "woken"
               /\ closer' = "failed"
               /\ UNCHANGED <<row, unsure, cache, mod_cs_map, wire, ReqTbl, Invalid, snap, pc, job, answer>>
-----------------------------------------------------------------------------
Message(c) == \/ \E m \in Mods : mod_createnexist(c, m) \/ mod_getdata(c, m)
              \/ \E m \in Mods, p \in Ptrs, v \in Values, i \in BOOLEAN :
                    mod_setdata_ptrq(c, m, p, v, i)

Run(c) == RunCreate(c) \/ RunSet(c) \/ RunGet(c) \/ RunSave(c)

Reply(c, r) == ReplyCreate(c, r) \/ ReplyGet(c, r) \/ ReplyImm(c, r) \/ ReplySave(c, r)

Timer(c) == TimerFire(c) \/ TimerSnapshot(c) \/ \E m \in Mods : TimerSave(c, m)

Close == closedb \/ CloseDesc \/ CloseResume

Next == \/ \E c \in Reqs : Message(c)
        \/ \E c \in Co : Run(c) \/ \E r \in Faults \cup {"ok"} : Reply(c, r)
        \/ \E c \in Timers : Timer(c)
        \/ Refuse \/ \E p \in Ptrs, v \in Values : RefuseSet(p, v)
        \/ Close

Spec == Init /\ [][Next]_vars

\* The scheduler runs every coroutine that can run; the timer keeps firing,
\* and its message waits in the mailbox (first in, first out) however many
\* requests come in between; every query ends; and MySQL does not fail for
\* ever.
Fairness == /\ \A c \in Co : /\ WF_vars(Run(c))
                             /\ WF_vars(\E r \in Faults \cup {"ok"} : Reply(c, r))
                             /\ SF_vars(Reply(c, "ok"))
            /\ \A c \in Timers : WF_vars(Timer(c)) /\ SF_vars(TimerFire(c))
            /\ WF_vars(CloseDesc \/ CloseResume)

FairSpec == Spec /\ Fairness
-----------------------------------------------------------------------------
\* The tables hold what they are declared to hold.
TypeOK == /\ row \in [Mods -> Values \cup {NoRow}]
          /\ heap \in [Ptrs -> Values \cup {Free}]
          /\ CACHE_MOD \in [Mods -> Ptrs \cup {NoPtr}]
          /\ hsave \in SUBSET Mods
          /\ CACHE_MOD_MD5 \in [Mods -> Values \cup {NoRow}]
          /\ mod_cs_map \in [Mods -> Seq(Co)]
          /\ wire \in Seq(Co \cup {Closer})
          /\ ReqTbl \in SUBSET Co
          /\ Invalid \in BOOLEAN
          /\ closer \in {"idle", "desc", "wait", "woken", "failed"}
          /\ CacheSaveMod \in SUBSET Mods
          /\ DelCacheSaveMod \in SUBSET Mods
          /\ pc \in [Co -> {"idle", "queued", "query", "loop"}]
          /\ job \in [Co -> Job \cup {NoJob}]
          /\ todo \in [Timers -> SUBSET Mods]
          /\ answer \in [Reqs -> Values \cup {NoAnswer}]
          /\ unsure \in SUBSET Mods

\* A coroutine has a job exactly while it is in a queue or has a query out.
Busy(c) == pc[c] \in {"queued", "query"}

\* The queue serialises a module's queries: a coroutine with a query out is
\* at the head of the line, and a line holds the busy coroutines, once each;
\* and every variable has its type.
LineInv ==
    /\ TypeOK
    /\ \A c \in Co :
          /\ Busy(c) <=> job[c] # NoJob
          /\ Busy(c) <=> c \in ReqTbl
          /\ Busy(c) => \E i \in DOMAIN mod_cs_map[job[c].mod] :
                           mod_cs_map[job[c].mod][i] = c
          /\ pc[c] = "query" => Head(mod_cs_map[job[c].mod]) = c
    /\ \A m \in Mods : \A i, j \in DOMAIN mod_cs_map[m] :
          /\ Busy(mod_cs_map[m][i]) /\ job[mod_cs_map[m][i]].mod = m
          /\ mod_cs_map[m][i] = mod_cs_map[m][j] => i = j

\* The owners of a block: the cache entries and the writes still queued.
Owners(p) == {<<"cache", m>> : m \in {x \in Mods : CACHE_MOD[x] = p}}
             \cup {<<"job", c>> : c \in {x \in Co : /\ pc[x] = "queued"
                                                     /\ job[x].op = "set"
                                                     /\ job[x].ptr = p}}

\* Manual memory: until the shutdown every allocated block has one owner (no
\* leak, no double free), and no freed block has any.
BlocksOwned == \A p \in Ptrs :
    /\ Cardinality(Owners(p)) <= 1
    /\ heap[p] = Free => Owners(p) = {}
    /\ heap[p] # Free /\ ~Invalid => Owners(p) # {}

\* No use after free across a yield: while a save's query is out its
\* data_ptr is still the cache entry's live block, with the data sent, so
\* that the error path (dbsave.lua:677) may read it and the success path
\* evicts what it saved.
QueryPtrLive == \A c \in Co :
    pc[c] = "query" /\ job[c].op \in {"save", "set"} =>
        /\ job[c].ptr = CACHE_MOD[job[c].mod]
        /\ job[c].ptr # NoPtr
        /\ heap[job[c].ptr] = job[c].data

\* What "same data, do not save" (dbsave.lua:648) relies on: a saved mark
\* means that the entry has the remembered md5 sum, and that sum is the row's,
\* unless the answer of a save has been lost since it was recorded.
Md5Accurate == \A m \in Mods :
    /\ m \in hsave => Cached(m) /\ heap[CACHE_MOD[m]] = CACHE_MOD_MD5[m]
    /\ CACHE_MOD_MD5[m] # NoRow /\ m \notin unsure => row[m] = CACHE_MOD_MD5[m]

\* An entry leaves the cache only when the table holds its data, or, after a
\* save whose answer was lost, when it is the data of the last acknowledged
\* save again.
EvictedIsStored ==
    [][\A m \in Mods : Cached(m) /\ ~Cached(m)' =>
          \/ row'[m] = heap[CACHE_MOD[m]]
          \/ m \in unsure /\ heap[CACHE_MOD[m]] = CACHE_MOD_MD5[m]]_vars

\* What the comment of dbsave.lua:648 takes for granted, and what the code
\* does not ensure: an entry leaves the cache only when the table holds its
\* data, whatever becomes of the answers.
EvictedAlwaysStored ==
    [][\A m \in Mods : Cached(m) /\ ~Cached(m)' => row'[m] = heap[CACHE_MOD[m]]]_vars

\* When closedb gets past its wait no request is in progress and none will
\* be: "after the return this service can exit safely" (dbsave.lua:420).
DrainedAtClose ==
    closer \in {"woken", "failed"} =>
        ReqTbl = {} /\ \A m \in Mods : mod_cs_map[m] = <<>>

\* The register a client sees.
Val == [m \in Mods |-> IF Cached(m) THEN heap[CACHE_MOD[m]] ELSE row[m]]

\* A request has not taken effect: it is queued, or its query is out (a
\* write takes effect in the cache, before the query of an immediate save).
Waiting(c) == Busy(c) /\ ~(job[c].op = "set" /\ pc[c] = "query")

\* The request behind a job; the data of a write is in its block.
RequestOf(c) == [op |-> job[c].op, mod |-> job[c].mod,
                 v |-> IF job[c].op = "set" THEN heap[job[c].ptr] ELSE NoRow]

\* The requests in front of one that waits, in the line of its module.
Before(line, d, c) == \E i, j \in DOMAIN line : i < j /\ line[i] = d /\ line[j] = c

Ahead(c) == {d \in Reqs : /\ Waiting(c) /\ Waiting(d)
                          /\ Before(mod_cs_map[job[c].mod], d, c)}

StoreReq == [c \in Reqs |-> IF Waiting(c) THEN RequestOf(c) ELSE NoJob]
StoreAhead == [c \in Reqs |-> Ahead(c)]
StoreDoubt == [m \in Mods |-> IF m \in unsure THEN row[m] ELSE NoRow]

\* To its clients the cell is the registers of ModStore: they change only as
\* requests say, in the order of the requests, and reads see them.
Store == INSTANCE ModStore
            WITH val <- Val, req <- StoreReq, ahead <- StoreAhead,
                 saved <- CACHE_MOD_MD5, doubt <- StoreDoubt, NoReq <- NoJob
StoreSpec == Store!Spec

\* closedb waits only while something in progress will wake it: when ReqTbl
\* is empty and closedb still waits, it was a save of the timer that left
\* last (dbsave.lua:691 does not come to CheckEnd), never a request.
NotLeftWaiting ==
    [][closer' = "wait" /\ ReqTbl' = {} => closer = "wait" /\ ReqTbl \subseteq Timers]_vars

\* "Saved once in 25 to 35 minutes" (dbsave.lua:26): written data reaches the
\* table, unless it is overwritten first, the module was never created, or
\* the cell is closed.
EventuallySaved ==
    \A m \in Mods, v \in Values :
        (Cached(m) /\ heap[CACHE_MOD[m]] = v)
            ~> (row[m] \in {v, NoRow} \/ Val[m] # v \/ Invalid)
=============================================================================
