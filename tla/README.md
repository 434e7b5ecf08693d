# Verification of qiuqiu

qiuqiu is a distributed game server written in Lua on top of skynet (an actor
framework: services exchange messages, each service runs its handlers as
coroutines that are interrupted only where they yield). The engine is C, kept
and changed in this repository (`skynet/skynet-src`): worker threads that run
services, a timer thread and a socket thread. This directory holds
TLA+ models of the engine's core and of the game server's own services, the TLC
configurations that check them and TLAPS proofs.

Source paths below are relative to the repository's root (`src/` in
PROJECT.json).

## 1. The system

| Component | State | Operations | Talks to | Hard part |
|---|---|---|---|---|
| message queues and dispatch, `skynet/skynet-src/skynet_{mq,server,start}.c` | a ring per service with `in_global` and `release`, the global list of queues, contexts with reference counts, sleeping workers, `quit` | `skynet_send`, `skynet_context_push`, launch, exit and kill, `skynet_context_message_dispatch`, drop of dead queues, wake-up, end | every thread | queues and contexts freed by whoever comes last; wake-ups; senders of dropped messages |
| handle table, `skynet_handle.c` | open hash table, next handle, sorted names, a read-write lock | register (doubles the table), grab, retire, retireall, names | launch, exit, abort | the handle is stored after the lock is given back; wrap at `HANDLE_MASK` |
| timer wheel, `skynet_timer.c` | near lists, 4 levels of lists, 32-bit tick counter | `skynet_timeout`, `skynet_updatetime` | services; one thread ticks | cascades, the wrap, lists taken while unlocked |
| socket server, `socket_server.c`, `socket_epoll.h` | slots with type, id, fd flags, high and low list, `dw_buffer`, `sending`, `closing`; the pipe of requests | connect, accept, start, pause, send of two priorities, close, shutdown, events | workers write to the pipe or directly to the fd; one socket thread | two writers of one fd, counters across reuse of a slot, half-closed connections |
| critical-section queue, `skynet/lualib/skynet/queue.lua` (rewritten in this repository) | owner, nesting count `ref`, slots `h..t`, tags `co2urs` | call `cs(f)`, return or error of `f` | scheduler (`wait`, `wakeup`); used by the database cells, rpc and login | hand-off between wakeup and resumption; hand-kept ring indices |
| database cell, `service/databasecell/{databasecell,dbsave,dbcache}.lua` | `CACHE_MOD` (C memory), saved marks, md5 sums, queue per module, `ReqTbl`, snapshot of the timer, `Invalid` | `mod_createnexist`, `mod_setdata_ptrq`, `mod_getdata`, `CacheSaveTimer`, `closedb` | MySQL over one connection; clients through the database parent | yields inside every query, manual memory, lost answers, shutdown |
| timers, `lualib/call_out.lua` in every service and `service/stimer/stimer.lua` | `callout_func`, `CallIndex`; `CallOutTbl`, `LAST_TIME` | `CallOut`, `CallFre`, `Daily`, `RemoveCallOut`, `dispatch`; `call_once/multi/daily`, one round a second | messages both ways | stimer late by any amount; messages on their way; day boundaries |
| database parent, `startup/database.lua` | addresses of the cells, which are closed | `assign` (by hash), `closealldb`, `reconnectalldb` | cells | waits for all cells |
| module persistence, `lualib/module_db.lua`, `clssave.lua` | registered modules, `ModuleCache` | restore, periodic save in slices, shutdown save | database parent, timers | create (a send) before read (a call); iteration over a table that shrinks |
| cluster links, `startup/dpclusterd.lua`, `lualib/dpcluster.lua` | `CONNECTING`, `CLUSTER_CACHE`, heartbeat counters | `accept`, `cluster_ok`, `interrupt`, loops, heartbeat | the other node | three-way handshake, one-sided interruption, loops that yield |
| player manager, `service/agentmgr/agentmgr.lua` | status of every player | `reqlogin`, `reqkick`, `shutdown` | agents, gates, nodes | calls that fail while a player is in LOGIN or LOGOUT |
| login, `service/logind/*` | gates, accounts online, login locks | `Accept`, `login_handler`, `logout`, gate registration | gates | locks across calls |
| rank and skip list, `lualib/{skiplist,clscmprank,avl}.lua` | linked nodes with spans | insert, delete, rank | - | index arithmetic |
| rpc, `lualib/{rpc,cross_rpc}.lua` | listeners, pool, queue per role | send, call, notify | all services | per-role ordering, numbers that wrap |
| proxies, classes, schema upkeep, table data, roles, administration, logging, geometry | | | | see PROJECT.json |

Third-party code (Lua, jemalloc, lpeg, cjson, protobuf: more than nine tenths of
the repository's C) is not a subject, so the share of all C lines these
models stand for is small although they cover most of the engine's
concurrent core. The models of Lua code use `skynet.wait/wakeup`, the socket channel and
the MySQL client as the repository's code relies on them.

What makes each component correct: a service is run by one worker at a time, in
the order of its mailbox, and a request is handled or answered with an error;
a handle leads to its context and to no other; an engine timer fires after exactly its
delay; packages reach the wire whole and in order, each buffer is freed once,
and a connection is reported closed once; the queue is a fair mutex; the cell is, for
its clients, one register per module and never loses what it has accepted; a
timer fires once per due time, not early, and not after its removal; the parent
closes when every cell has closed; a module is restored before it is saved and
saved every period; a link that both ends can reach comes up again; a player is
in one agent at most; a skip list is sorted and complete.

## 2. Modules

| Module | Role |
|---|---|
| `SkynetMq` | the ring of a mailbox as operators (`skynet_mq.c`) |
| `Mailbox` | abstract: one first-in first-out mailbox per service, one message in hand |
| `SkynetServer` | contexts, queues, global queue, workers (`skynet_server.c`, `skynet_mq.c`, `skynet_start.c`); composes `SkynetMq` |
| `SkynetHandle` | the handle table and the names |
| `SkynetTimer` | the timing wheel |
| `SocketServer` | one slot of the socket server, workers, socket thread and peer |
| `SkynetServerProofs` | theorems about the dispatcher, the last that it implements `Mailbox` |
| `SkynetHandleProofs`, `SkynetTimerProofs` | theorems about the handle table and about the wheel |
| `SocketServerProofs` | theorems about a connection and its closing, and about the packages sent to it |
| `FifoLock` | abstract: a line of coroutines, the first owns the section |
| `SkynetQueue` | `queue.lua`, both variants |
| `SkynetQueueProofs` | its theorems |
| `ModStore` | abstract: one register per module, the requests for it and their order |
| `DbCell` | one database cell |
| `DbCellProofs` | its theorems |
| `LineFacts` | lemmas used by several proofs: lines without repetitions, induction and loops, division |
| `CallOut` | services' timers and stimer |
| `CallOutProofs` | its theorems |
| `MCSkynetServer`, `MCSocketServer`, `MCSkynetQueue`, `MCDbCell` | instances for TLC |

In the modules with models an operator whose comment begins "Mutant of" is a plausible
slip of the code; no specification uses it. PROJECT.json says which property it breaks.

### SkynetServer

A step is a stretch of code between two accesses to shared state: a critical
section of a queue's or of the global queue's spinlock, an atomic operation on a reference
count, a lookup in the handle table (here the set `slot` of registered contexts).
`thr[t].pc` says where a thread is. Workers run `thread_worker`; a handler may send,
launch, exit or kill at any time (`Send`, `Launch`, `Kill`), the timer thread only
sends. `Delete`, `MarkPushes` and `DropQueue` are the two halves of the death of
a service: the last reference marks the queue, the worker that meets it
drops its messages one at a time, each answered with an error. `life` of context and
queue ("none", "live", "freed") makes use after free visible.

Assumed or left out: a service is killed by others only when its launch is over (the
launcher uses the context after giving back its reference, skynet_server.c:168,
:172 and :510: a service killed from outside at that moment is used after free);
the mailbox of a sender exists (ids of other harbors are left out);
`monitor_exit` is 0; overload warnings, log files, profiling, the endless-loop
monitor and the text commands besides these are left out.

### SkynetHandle

The write lock makes registration (`Register`, or `Grow` and `Retry` when the table is
full), retirement and naming one step each; `Assign` is the caller's store of
`ctx->handle`, later and without the lock (skynet_server.c:157). `retireall` is a step
per place (`Scan`) with the retirement outside the read lock (`RetireSeen`). The loop
that a doubled table always ends is one retry. Names are numbers, compared as
`strcmp` compares them. The loops are recursive functions over their rounds: `Candidate` the
handles tried, with the wrap behind `HANDLE_MASK`, and `Search` the binary search, one round
of it `Halve` with the code's bounds.

### SkynetTimer

The wheel is a record of `time`, `near` and `t`; `add_node`, `move_list` and `timer_shift` are operators
on it, as in the code. `Near` and `Level` are the code's `TIME_NEAR` and `TIME_LEVEL`; `Unit[i]` is the number of ticks
one list of level `i` stands for, so the shifts and masks of the code are quotients and remainders by it. The timer thread takes the lock, takes the list that is
due, gives the lock back for `dispatch_list`, one node a step, and takes it again; services
add timers whenever it is free. `left`, `pending` and `older` are ghosts: the ticks until each timer
is due, the timers that are set, and for each of them the pending ones set before it. A clock that goes back
is only logged by the code and changes nothing here.

### SocketServer

One slot and its successive connections, TCP only. A worker's
`socket_server_send` is split where the code reads shared state: the two halves of
`can_direct_write` before the lock (`TryLists`, and `TryLock` with `socket_trylock`), the same with the
lock (`ReadLists`, `ReadFlags`), `DirectWrite`, `Wake` (the W
request), or `IncSending` and `Queue`. The socket thread takes requests from the pipe in order
(`ctrl_cmd`, then `DecSending`), otherwise an event of the current batch
(`Dispatch`), otherwise a new batch (`Wait`). `force_close` is two steps, as it frees the lists
before it takes the lock. The kernel accepts any number of bytes of a write, none too;
`peer` is the other end: what it got, whether it closed or reset.

Assumed or left out: a slot is reused only when no event of it is in the batch and no
worker is inside its lock (`Reservable`: the ids run through all 65536 slots in
between), and reservation of type and id is one step; a service uses an id only after it was
told of the connection; UDP, LISTEN and BIND commands, warnings, failing epoll calls and
the end of the thread are left out.

### SkynetQueue

Variables carry the names of the code. A call of `cs(f)` up to `wait()`
(`CallBusy`) or up to the start of `f` (`CallFree`), the resumption of a woken
coroutine with its assertion (`Resume`) and the return of `f` (`Return`, which
is `xpcall_ret` with its hand-off) are one step each, because a coroutine is
interrupted nowhere else. `f` itself may do anything, including nested calls;
a return and an error of `f` change the queue's state alike. `OwnerUrs` chooses
the agent's variant. `co2urs` is one table per service; the tag a coroutine gets
in this queue is modelled, tags from other queues of the service are not.

### DbCell

One action per stretch between two yields. A message is taken only when no
coroutine of the service can run (`Quiet`): skynet empties its wakeup queue
before it returns to the mailbox. Queries go out on one connection and are
answered in order (`wire`). `Run*` is a critical section from its turn to the
query, `Reply*` from the answer to the end, where the queue is released,
the request leaves `ReqTbl` and, for message handlers only, `CheckEnd` runs
(`Finish`). A query may fail in three ways: an error answer ("bad") or a broken
connection before it is executed ("drop"), or after ("lost"). The update
succeeds when the row exists, whether or not the data differs: the client
connects with MySQL's found-rows flag. Data is named by value, so the md5 sum is the value:
sums are taken to be free of collisions. The queue per module is the line of
`FifoLock`, which `SkynetQueue` is proved to implement. The index of a request
in `ReqTbl` is the coroutine that holds it. The timer's round yields in each
save, so several rounds overlap (`Timers`).

Three errors of the code are part of the model, since they decide what the cell
does:
- A save calls `UTIL.Sumhexa` (dbsave.lua:321, 647) and `DBObj.query_ptr_ex` (333, 659). Neither is defined
  anywhere in the repository, and dbsave.lua has no `UTIL`: the first call raises, the error is caught and logged by `TryCall`,
  and the entry stays in the cache. `Helpers` is what such a call may do: `{FALSE}` is the repository as
  it stands, in which nothing is ever saved (run `cell_unsaved`); with `TRUE` the two are provided and
  do what the code around them expects. `RunSet` and `RunSave` choose from it. Whatever is checked or proved of the
  save path beyond its failure (`NeedsUpdate`, `ReplySave`, `ReplyImm` are reached with `TRUE` only) is thus about
  the code with these two functions added; the run `cell` and all theorems allow both outcomes, call by call.
- The immediate save always ends in an error (`RunSet`, `ReplyImm`): also with the helpers, line 335
  of dbsave.lua builds its condition with the column of another table, and the
  test at line 339 lacks a `not`; although "立即存盘" (line 360) promises a save at once.
- `closedb` raises before its last save (state "failed").

`unsure` is a history variable: the modules with a save that was executed and whose answer was lost, since the last
acknowledged save. The cell cannot know of it; the properties use it to say exactly when its knowledge is wrong.

`ModStore` is what clients may rely on. A request is pending (`req`) from the message until it takes effect, once: a
write when it enters the cache, with the data its message carried, a read or creation with its answer. It comes after the requests for
the same module that were pending before it (`ahead`), and takes effect when none of those is left. A register
changes in no other way but one, `FallBack`: when the answer of a save was lost (`doubt`) and the module is written
with the data of the last acknowledged save (`saved`) again, the cell takes that for saved, and
the register becomes what the lost save stored. The cell's side of this is the mapping at the end of `DbCell`: `Val`, `StoreReq`,
`StoreAhead`, `StoreDoubt`.

### CallOut

Each service has its indices and functions; requests wait in stimer's mailbox
`inbox`, fired timers in `mail`. `Deal` is a whole round of `_DealWithTimer`,
which does not yield: the closed form it uses for the catch-up over several
seconds is compared with the loop of the code (`DealLoop`) in `LoopAgrees`.
The clock is `os.time()`, may jump by up to `MaxLag` seconds at once and does not
go back. A timeout that is not positive is the timeout 0. `asked`, `removed` and
`runs` are history variables.

## 3. Runs

State counts are TLC's distinct states. Type correctness (`TypeOK`) is a conjunct of the
invariant that needs it: `LineInv` of the cell, `RefExact`, `Reachable`, `WellPlaced`
and `OneHand` of the engine's modules; for the queue and the timers it is proved (section 4).

| Run | Checks | Shows |
|---|---|---|
| `queue` | `MutualExclusion`, `AssertHolds`, `NoLostWakeup`, `FifoSpec`, `EveryWaiterEnters` | 4 coroutines, nesting 2: the safety properties, the refinement of `FifoLock` and liveness. The agent's variant; the plain one differs in not keeping tags |
| `cell` | `LineInv`, `BlocksOwned`, `QueryPtrLive`, `Md5Accurate`, `DrainedAtClose`, `StoreSpec`, `EvictedIsStored`, `NotLeftWaiting` | 2 clients, 2 rounds of the timer, 3 blocks, queries that fail and answers that are lost, helpers that work or raise: memory and md5 are right, the cell implements `ModStore`, an entry is evicted only when stored (or after a lost answer, as the property says), no request leaves `closedb` waiting (186 000 states) |
| `callout` | `NotStranded`, `OnFileOnce`, `Paced`, `RemovedNeverRuns`, `LoopAgrees`, `EveryCallFires` | 2 services, every kind of timer, a clock that skips a day; what is on file is sent, and a CallOut runs or is removed (344 000 states) |
| `server` | `RefExact`, `OnePlace`, `NoneForgotten`, `AssertsHold`, `MailboxSpec`, `EverySettled`, `QuitEnds` | 2 workers, the timer thread, a service at start and one launched: exact counts, one worker a service, no lost wake-up, the refinement of `Mailbox` through the growth of the ring, requests settled, the end of the workers (121 000 states) |
| `handle` | `Reachable`, `NamesFound`, `NamesFollow`, `RetireAllEnds` | one registering thread, another that retires, names and aborts: doubling and the wrap of the index (336 000 states) |
| `timer` | `WellPlaced`, `OnTime`, `InOrder` | 2 timers with every delay through the whole range of the counter (1 080 000 states) |
| `socket` | `OneHand`, `Unmixed`, `InOrder`, `AssertsHold`, `CloseOnce` | 2 workers, 2 packages of 2 bytes, 2 connections of one slot, a close or shutdown (2 900 000 states) |
| `socket_live` | `EverySettled` | one connection: whatever was sent is written or freed (940 000 states) |

Runs that find the code at odds with its own assertions and comments:

| Run | Property | What happens |
|---|---|---|
| `cell_unsaved` | `EventuallySaved` | the repository as it stands, MySQL never failing: every save of the timer raises at `UTIL.Sumhexa`, so what a client wrote is never in the table, against "25~35分钟 存盘一次" (dbsave.lua:26) |
| `cell_lost` | `EvictedAlwaysStored` | helpers provided: data is saved and acknowledged, other data is saved and the answer lost, the first data is written again; the md5 comparison of dbsave.lua:648 takes it for saved and evicts it, while the table holds the other data |
| `handle_race` | `RehashDistinct` | two threads launch services; a context is in the table with handle 0 while the other doubles it: `assert(new_slot[hash] == NULL)` fails |
| `socket_close` | `CloseCompletes` | a close enters the pipe after another worker counted its package in `sending` and before the package's own request: the close waits for a package that is then thrown away because the connection is closing, and is never completed |

### Bounds

- Server: a ring of 2 grows with the second message in it and wraps; 2 messages
  are a request and an answer or an error; 2 workers of weights that take one
  message and the whole queue; a service at start and one launched and killed are the two
  ends of every reference. A context is not reused: a freed one has to stay visible.
- Handles: 2 places double to 4 with the third context, or earlier where the wrap of
  the index leaves out place 0; the index starts anywhere in 1..8, as after services that came and went.
  2 names are an insertion before and behind.
- Wheel: near lists of 4 and four levels of 2 have every boundary of the code's
  256 and 64, and the whole range of 64 ticks with its wrap is passed many times.
  2 timers are enough for the order within a list.
- Sockets: 2 bytes make half a package, 2 packages make two writers or two priorities;
  the second connection of the slot meets what is left of the first. `MaxSending` 2 and 1
  are the counter's limit.
- Queue: 4 coroutines give an owner, a woken successor's rival and two in the
  slots; nesting 2 tells an outermost return from a nested one; `MaxSlot` 6 lets
  the ring move on by several slots before it is reset. The proofs have none of these bounds.
- Cell: 2 values tell an overwritten datum from its successor; 2 request
  coroutines and 2 timers give every pair of handlers that can meet on a module; one module
  suffices, since modules share only the connection, which answers in the order of the
  queries and never looks at whose they are.
  3 blocks are one in the cache and one for each queued write. Blocks,
  coroutines, modules and values other than the empty one are interchangeable,
  hence the symmetry sets (not used in runs with liveness).
- Timers: a day of 2 seconds and a clock of 4 with jumps of 3 contain late
  rounds, a round over more than a day and dailies before and after their time of day. Each of the 2 services has
  one timer at a time; the proofs have any number.
- `cell_lost` and `cell_unsaved` are the smallest instances with the counterexample: one client, one timer, 2 blocks.

### Fairness

- Server: every thread in the middle of a call goes on (`WF` on its step); a handler returns;
  the timer thread wakes sleeping workers again and again, which is its loop.
- Handles: a thread inside a function goes on.
- Sockets: the socket thread and a worker inside a send go on; the kernel accepts
  bytes again and again (`SF` on `Progress`) until the peer resets. Nothing is
  assumed of the peer's closing or of services' requests.
- Queue: a woken coroutine is resumed, every `f` ends, and `f` does not nest
  for ever (`SF` on the outermost return). The first is the scheduler's loop;
  the others are what users of the queue have to guarantee.
- Cell: runnable coroutines run, every query ends (with an answer or a broken
  connection), MySQL does not fail for ever, the timer fires again and again.
  A timer message that arrives waits in the mailbox, first in first out,
  however many requests come in between: `SF` on `TimerFire`.
  No fairness for clients or for `closedb` being called. (Run `cell_unsaved`: its counterexample has
  a timer that keeps firing and queries that never fail.)
- Timers: mailboxes are emptied, stimer's loop runs, time passes. Nothing is
  assumed about calls and removals.

Deadlock is checked in every run but those of the socket server, where a free slot with
every id used up is the end: requests and timers keep coming until their
bounds are reached, and the remaining rounds of stimer, refusals of the closed cell
and the calls and returns of the queue are steps as well.

## 4. Proofs

Checked by `tlapm`, for every value of the constants that satisfies the named
assumption of the module.

`SkynetQueueProofs`, from `QueueAssumption` (nil is not a coroutine; bounds are
naturals). Mutual exclusion is not inductive: that a resumed coroutine may enter
rests on its already owning the section with no call open (`HandedOver`),
that the hand-off reaches a sleeping coroutine rests on the slots being
exactly `h..t` (`RingExact`) and holding the sleepers once each
(`NoLostWakeup`). `QueueInv` is their conjunction with `TypeOK` and
`AssertHolds`; the proof has one step per action.
- `QueueInvariant`: `Spec => []QueueInv`, and from it `Mutex`,
  `AssertNeverFires`, `WakeupsNotLost`.
- `Refinement`: `Spec => FifoSpec`. Under the invariant the owner followed by
  the slots in order is a line; `CallFree` by a newcomer and `CallBusy` append to
  it, an outermost `Return` takes its head, everything else leaves it alone.

`CallOutProofs`, from `CallOutAssumption` (a day is positive, periods are
positive, times of day lie in the day). `CallOutInv` adds to the properties
that indices in use have been given out, so a new timer is really new
(`KeysKnown`), and that periods are positive and stimer is not ahead of the clock
(`Forward`), so a period goes back on file beyond the round.
- `CallOutInvariant`: `Spec => []CallOutInv`, and from it `NothingStranded`,
  `FiledOnce` and, as an action property, `RemovedStaysRemoved`.
- `PacedHolds`: `Spec => []Paced`. `PaceInv` ties the messages sent so far to the second a timer is filed under:
  a CallFre with `n` messages sent is on file at least `n + 1` periods after it was asked for, a Daily at least `n` days,
  and nothing was sent of a timer still in the mailbox. A round that sends `n` messages of a Daily moves its second by
  `n` days (`EveryNth` counts them), however far it had to catch up.
- `LoopAgreesHolds`: `Spec => LoopAgrees`. After second `i` of the loop every entry has become its `Image` at `i`, and
  the messages sent are those of the seconds up to `i`; one second on an image is either in that second, and is
  sent and moved, or stays (`ImageOn`). Needs that a Daily has a day between (`DayLong`) and that a timer is filed once.

`DbCellProofs`, from `CellAssumption` and `JobAssumption` (the special values are not
among the ordinary ones; clients' coroutines, timers and `closedb` are different). `CellInv`:
- `Lines` is `LineInv` as a statement about who stands where; that a query is sent only by the
  first of a line needs that the connection carries exactly the coroutines that wait for an answer (`WireInv`),
  as an answer is given to the first on the wire.
- `Memory` is `BlocksOwned` without counting: cache entries and queued writes have
  different blocks. `QueryPtrLive` holds since a block is replaced or evicted only by the first of its
  module's line, and `ReadMisses` says that a read which went to the table is not overtaken by a write.
- `CloseInv`: `Invalid` is set before `closedb` waits, so `ReqTbl` only shrinks.

From it `LineCorrect`, `QueryPtrCorrect`, `BlocksCorrect`, `DrainedCorrect`, and as action properties `EvictedCorrect`
and `WakeCorrect` (`NotLeftWaiting`). `Md5Correct` adds that `Md5Accurate` is inductive with `CellInv`:
the row and the remembered sum change together, but for a lost answer, which `unsure` records. None of these has a
hypothesis on failures: `Faults` is any set of the three kinds, `Helpers` any.

`CellImplementsStore`, `Spec => StoreSpec`. `StoreReq` and `StoreAhead` follow the lines: who joins a line comes after
those in it (`JoinStore`, from `BeforeJoin`), and who has a turn is first, so no request is ahead of it, and when it
is done it is ahead of nobody (`GoneStore`, from `BeforeLeave`). The timer's saves stand in the lines too and are not requests; they
leave both alone (`GoneAlready`). The block of a queued write is nobody else's, so its data is what the message
brought (`KeepsPending`). An eviction leaves `Val` alone by `Md5Accurate`, unless the module is in `unsure`: then it is
`FallBack` (`SaveStore`). A creation does not touch a row in doubt (`UnsureHasRow`).

`SkynetServerProofs`, from `ThreadAssumption`, `BootAssumption`, `NoneAssumption`, `NoMsgAssumption`,
`WeightAssumption`, `MaxMsgAssumption` and `QueueSizeAssumption` (finitely many threads; a weight is -1 or a shift, as
in the table of skynet_start.c; a ring starts with room). `ServerInv` has six parts:
- `Types`, and `Threads`: which fields of a thread are set where it is in the code.
- `Refs`: a count is the table's reference plus the number of pairs (thread, kind of reference) held. A step moves,
  adds or removes one pair; the cardinality follows from `FiniteSetTheorems`.
- `Lives`: who finds count 0 is alone in deleting the context, and the queue outlives it.
- `PlaceInv`: `in_global` or `release` is set exactly when the queue is in the global list or in one hand. It
  makes `OnePlace` and `NoneForgotten` inductive together: neither is without the other, as
  a push trusts `in_global` and a drop trusts that nobody else has the queue.
- `InitInv`: a service still being launched is in the launcher's hands only.

From it `RefsCorrect`, `AssertsCorrect`, `OnePlaceCorrect`, `ForgottenCorrect`.

The second half of the module adds the ring: with the code's index arithmetic a push appends to the
contents, whether or not the ring is doubled, a pop takes their first, and an empty ring
has none (`PushAppends`, `PopTakes`, `EmptyContents`). Every step of the dispatcher then either leaves
`Box`, `Tasks` and `LifeOf` alone (`Hidden`) or is one of the mailbox's steps; that a message is taken
only when none is in hand is `PlaceInv`. Result: `ServerImplementsMailbox`, `Spec => MailboxSpec`.

`SocketServerProofs`, from `SizeAssumption`, `BoundAssumption`, `SendingAssumption`, `LockAssumption`
(a package has a byte; positive bounds; "nobody" is not a worker). `Base`, the invariant of a connection:
- `Pipes`, `Calls`, `Sents`, `Conn`: ids in requests, calls and packages are of announced connections, and the slot's is
  the last one given. A worker's late request is thus for this connection or for a past one.
- `Locking`: the lock is held by the worker between `socket_trylock` and `socket_unlock`; until it writes,
  `dw_buffer` is empty and the connection stays.
- `Buffers`: lists are whole packages but for a rest at the front of what is written next (`Cut`, `Fresh`),
  which `raise_uncomplete` and the mixing of `dw_buffer` into the high list both need.
- `Closing`: what was raised, by type of the slot, including while `force_close` waits for the lock.

`CloseOnceHolds` follows from `Closing`.

The packages sent, in the second half of the module. First each step of `Next` is put in one of two classes: `Calm`
(no package moves) or `Moving` (one of eight kinds of step, with lemmas on their effect); each further invariant
is shown for these classes instead of for all of `Next`.
- `Hands`: the packages in pipe, calls and buffers and those written and freed are a partition of the packages
  sent. `Loads`: no package is in two requests, requests and calls know what they carry, and `dw_buffer` shares
  nothing with the lists. `Count`: `sending` is the number of packages on their way. `SendInv` is their
  conjunction with `Base` (`SpecSendInv`); hence `SocketTypesHold`, `OneHandHolds`, `SocketAssertsHold`.
- `Flow`: while a package is open on the wire the first waiting byte is its next one; while none is open,
  what waits begins with a package, and a worker about to write directly finds none open. Hence `UnmixedHolds`.
- `Order`: in the pipe, in what waits and on the wire a worker's packages follow its high priority ones. The direct
  write is the hard case: `sending = 0` with `Count` gives that nothing of the worker is in the pipe when it takes the
  lock, and the second test of the lists that nothing waits, although the socket thread may append meanwhile (only what others
  sent, as the worker itself is here). Hence `InOrderHolds`.

`SkynetHandleProofs`, from `MaskAssumption` (positive numbers; the first table has no more places
than there are handles and 0), `NameAssumption` (names can be compared) and `NoneAssumption`. `HandleInv` holds whoever launches services:
- `Owned`: the context of a thread in `skynet_handle_register` is that thread's alone and has handle 0 until it is stored,
  and who doubles the table has the lock. `SortedNames`: the names are strictly sorted.
- From the second, `NamesFoundHolds`: every round of the binary search leaves the name, if it is there, between the
  bounds and the stretch shorter, so after as many rounds as there are names it is found or the stretch is empty, and an insertion
  at `begin` keeps the order.

`Placed`, that each context stands at the place of the handle it has or is about to get, is what `Reachable` needs, and
it is not invariant: doubling rehashes by `ctx->handle`, which may not be stored yet. `ReachableUnlessRace` says that this is
the only way to lose it: `Spec /\ []NoRace => []Reachable`, where `NoRace` is that nobody is about to double the table while
another thread's handle waits. Handles that differ modulo a size differ modulo twice the size, so contexts do not meet when the
table grows. With one launching thread (an explicit hypothesis, `\A a, b \in Registrar : a = b`) there is no race:
`ReachableHolds`, `RehashHolds` (the code's assertion, which run `handle_race` refutes for two threads) and `NamesFollowHolds`.

`SkynetTimerProofs`, from `SizeAssumption` (a near list; at least two lists a level) and `LagAssumption`. `TimerInv`:
- `Shelved`: every node is in the list in which `add_node` would put it now. Said with `Agree(e, x, i)`, that two
  ticks have the same quotient by `Unit[i]`: a node is near if its tick and the time agree at level 0, and in level `i` if they
  disagree at `i` and agree at `i + 1`.
- At a tick that is no boundary no agreement changes (`Stays`). At a boundary the list that is cascaded is the one of the
  new time's own index; a node in any other list keeps its list (`Carried`), because one that would not is due
  in the past, or in more ticks than an `int` can ask for. This includes the wrap, where list 0 of level 3 comes down.
  `move_list` is an induction over the nodes of the list.
- `HeldInv`, `KeptInv`: nodes are those of the pending timers, `left` ticks away on the wrapping counter; a node that is due
  is in the wheel only while its tick is being executed. `ThreadInv`: what is dispatched is due, and the first `timer_execute` of an
  update never finds anything.
- `Lined`: within a list nodes with the same tick lie in the order they were set, through every cascade; nodes with the same
  tick are always in the same list.

From it `WellPlacedHolds`, `OnTimeHolds` and, as an action property, `InOrderHolds`.

Loops and recursive functions in these proofs: the induction theorems of the library, which take a predicate, are not usable with the
provers, so `LineFacts` states induction over sets: a set of naturals has a least element (`Least`, from the
well-foundedness of the order), hence what holds at 0 and is handed on up to `n` holds up to `n` (`Climb`), hence a
loop of `n` rounds has its sequence of values (`Iterate`), which is the recursive function.

Every invariant, action property and refinement that a passing run checks is proved, some under the hypotheses named
above (one launching thread), which are those of their runs. Only model-checked is liveness
(`EveryWaiterEnters`, `EveryCallFires`, `EverySettled` of dispatcher
and sockets, `QuitEnds`, `RetireAllEnds`): fairness and ENABLED are out of the prover's reach.

## 5. Not modelled, and the plan

Not modelled: see the components with status `not_modelled` in PROJECT.json.
For good: schema upkeep, table loading, logging, administration (pure
I/O), generated role accessors, vendored code. In the cell: the list and role
twins of the save, whose caches nothing in the repository writes to;
`HeatBeatCheck` and `TimeOutCheck`, which nothing calls.

What the models show of the code beside the runs above, each seen as a
counterexample or kept as an effect in a model:

- queue.lua:44 clears `__co2urs` on every return, nested ones too, so the rest of the outer
  section runs without its tag.
- dbsave.lua:917: the last save of `closedb` calls `DBCACHE.GetAllCaCheUid`, which does not
  exist, and raises; what was not yet saved is lost.
- dbsave.lua:691: a save of the timer that is the last request does not call
  `CheckEnd`, so `closedb` waits for ever. `NotLeftWaiting` says that this is the only way.
- dbsave.lua:647: no save works at this commit (run `cell_unsaved`); with the two missing functions added,
  dbsave.lua:648 evicts unsaved data after a lost answer (run `cell_lost`). `EvictedIsStored`, `Md5Accurate` and
  `FallBack` of `ModStore` say that this is the only case.
- stimer.lua:106: a Daily asked for in the very second it names is filed in a second already passed.
  `NotStranded` therefore speaks of CallOut and CallFre.
- call_out.lua:120 sends `rm_call`, which stimer does not know: a removed CallFre is sent for ever
  (and ignored by its service).
- socket_server.c:489: `force_close` frees the lists before it takes the lock, so during a
  shutdown a direct write may follow half a package on the wire; `Unmixed` exempts packages that were freed.
- socket_server.c:1338: a send before the socket thread has set the connection's protocol is not counted
  but is taken off later (the assertion in line 1359); services send only once they were told.
- skynet_server.c:681: `cmd_log_svccpu_off` closes its file when the exchange fails instead of
  when it succeeds.

What is left, most important first: further components, each over the modules here. `DbParent` (`closealldb` over the cells'
`closedb`), `ModuleDb` (slices and shutdown save over `ModStore` and `CallOut`), `ClusterLink` (both ends of the handshake), the skip list against
sorted sequences, the player manager; in C the reassembly of packages in `lua-netpack.c` and the harbor's links.
