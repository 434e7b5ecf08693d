--------------------------- MODULE SocketServer ---------------------------
(***************************************************************************)
(* The socket server (socket_server.c): one slot of its table, taken by    *)
(* one connection after the other, the pipe that carries the requests of   *)
(* the worker threads, and the socket thread that serves both.  A worker   *)
(* may write to the connection itself when nothing is waiting; what it     *)
(* cannot write, and what it may not, is left to the socket thread.        *)
(*                                                                         *)
(* TCP only.  A buffer is the sequence of the bytes still to be written,   *)
(* each with its package and its number in it.                             *)
(***************************************************************************)
EXTENDS Integers, Sequences, FiniteSets

CONSTANTS Worker,            \* the threads that run services
          NPackage,          \* bound: packages sent in a behaviour
          Size,              \* the bytes of a package
          MaxId,             \* bound: connections the slot is given to
          MaxCtl,            \* bound: close, shutdown, start, pause requests
          MaxSending         \* 0xffff, the limit of the sending counter

ASSUME SizeAssumption == NPackage \in Nat /\ Size \in Nat \ {0}
ASSUME BoundAssumption == MaxId \in Nat \ {0} /\ MaxCtl \in Nat
ASSUME SendingAssumption == MaxSending \in Nat \ {0}

VARIABLES slot,      \* struct socket
          pipe,      \* the control pipe
          th,        \* where the socket thread is
          ev,        \* the event of this slot in the batch of sp_wait
          peer,      \* the other end: what it was sent and what it did
          call,      \* where each worker is in its send
          from,      \* ghost: the packages sent so far: by, to, priority
          freed,     \* ghost: the packages whose buffer was freed unsent
          done,      \* ghost: the packages written to the end
          told,      \* ghost: the connections announced to a service
          closes,    \* ghost: how often SOCKET_CLOSE was raised for each
          ctl        \* bound: requests made so far

ghosts == <<from, freed, done, told, closes, ctl>>
vars == <<slot, pipe, th, ev, peer, call, from, freed, done, told, closes, ctl>>

Id == 1 .. MaxId
Package == 1 .. NPackage
None == "none"
ASSUME LockAssumption == None \notin Worker
NoEvent == [read |-> FALSE, write |-> FALSE, error |-> FALSE, eof |-> FALSE]
Type == {"INVALID", "RESERVE", "CONNECTING", "CONNECTED", "HALFCLOSE_READ",
         "HALFCLOSE_WRITE", "PACCEPT"}
Bytes(p) == [n \in 1 .. Size |-> <<p, n>>]
Idle == [at |-> "idle", pk |-> 0, id |-> 0, prio |-> "high"]

socket_invalid(id) == slot.id # id \/ slot.type = "INVALID"
send_buffer_empty == slot.high = <<>> /\ slot.low = <<>>
nomore_sending_data ==
    \/ send_buffer_empty /\ slot.dw = <<>> /\ slot.sending = 0
    \/ slot.type = "HALFCLOSE_WRITE"

\* The packages with a byte in a buffer
In(buf) == {buf[i][1] : i \in DOMAIN buf}

-----------------------------------------------------------------------------
(* Requests of the workers                                                 *)

\* send_request; pk is the package of 'D' and 'P'
Request(cmd, id, pk) == pipe' = Append(pipe, [cmd |-> cmd, id |-> id, pk |-> pk])

\* reserve_id comes back to a slot after MAX_SOCKET other ids only: no batch
\* of events and no section under the lock is taken to last that long.
Reservable ==
    slot.type = "INVALID" /\ slot.id < MaxId /\ ev = NoEvent /\ slot.lock = None

\* socket_server_connect: reserve_id takes the slot, 'O' asks for the rest.
Connect ==
    /\ Reservable
    /\ slot' = [slot EXCEPT !.type = "RESERVE", !.id = @ + 1,
                            !.protocol = "UNKNOWN"]
    /\ Request("O", slot.id + 1, 0)
    /\ UNCHANGED <<th, ev, peer, call, ghosts>>

\* A command for a connection the service was told of
Control(cmd, id) ==
    /\ id \in told /\ ctl < MaxCtl
    /\ ctl' = ctl + 1
    /\ Request(cmd, id, 0)
    /\ UNCHANGED <<slot, th, ev, peer, call, from, freed, done, told, closes>>

\* socket_server_close and socket_server_shutdown
CloseOrShutdown(id) == \E cmd \in {"K", "shutdown"} : Control(cmd, id)

\* socket_server_start and socket_server_pause
StartOrPause(id) == \E cmd \in {"R", "S"} : Control(cmd, id)

\* socket_server_send and socket_server_send_lowpriority, first test
SendBegin(w, id, prio) ==
    LET p == Len(from) + 1
        no == socket_invalid(id) \/ (prio = "high" /\ slot.closing)
        first == IF prio = "high" THEN "try" ELSE "inc"
    IN  /\ call[w] = Idle /\ id \in told /\ Len(from) < NPackage
        /\ from' = Append(from, [by |-> w, id |-> id, prio |-> prio])
        /\ freed' = IF no THEN freed \union {p} ELSE freed
        /\ call' = IF no THEN call
                   ELSE [call EXCEPT ![w] = [at |-> first, pk |-> p,
                                             id |-> id, prio |-> prio]]
        /\ UNCHANGED <<slot, pipe, th, ev, peer, done, told, closes, ctl>>

At(w, at) == call[w].at = at
GoTo(w, at) == call' = [call EXCEPT ![w].at = at]

\* can_direct_write reads one field after the other: first the id and the
\* two lists ...
ListsOK(w) == slot.id = call[w].id /\ send_buffer_empty

\* Mutant of FlagsOK: the direct write ignores the packages in the pipe.
FlagsIgnoreSending(w) == slot.dw = <<>> /\ slot.type = "CONNECTED"

\* ... and then the rest.
FlagsOK(w) == slot.dw = <<>> /\ slot.sending = 0 /\ slot.type = "CONNECTED"

\* The test before the lock, and socket_trylock
TryLists(w) ==
    /\ At(w, "try") /\ GoTo(w, IF ListsOK(w) THEN "trylock" ELSE "inc")
    /\ UNCHANGED <<slot, pipe, th, ev, peer, ghosts>>
TryLock(w) ==
    /\ At(w, "trylock")
    /\ IF FlagsOK(w) /\ slot.lock = None
       THEN slot' = [slot EXCEPT !.lock = w] /\ GoTo(w, "lists")
       ELSE slot' = slot /\ GoTo(w, "inc")
    /\ UNCHANGED <<pipe, th, ev, peer, ghosts>>

\* The test with the lock, in which the socket thread still appends
ReadLists(w) ==
    /\ At(w, "lists") /\ GoTo(w, IF ListsOK(w) THEN "flags" ELSE "unlock")
    /\ UNCHANGED <<slot, pipe, th, ev, peer, ghosts>>
ReadFlags(w) ==
    /\ At(w, "flags") /\ ~FlagsOK(w) /\ GoTo(w, "unlock")
    /\ UNCHANGED <<slot, pipe, th, ev, peer, ghosts>>

Unlock(w) ==
    /\ At(w, "unlock") /\ GoTo(w, "inc")
    /\ slot' = [slot EXCEPT !.lock = None]
    /\ UNCHANGED <<pipe, th, ev, peer, ghosts>>

\* A write to a connection that was reset fails and takes the error with it.
Consumed == [peer EXCEPT !.rst = IF @ = "reset" THEN "dead" ELSE @]
Sent(bytes) == [peer EXCEPT !.got = @ \o bytes]

\* The direct write: n bytes are accepted, the rest goes to s->dw_buffer.
DirectWrite(w, n) ==
    LET b == Bytes(call[w].pk)
    IN  /\ At(w, "flags") /\ FlagsOK(w)
        /\ n > 0 => peer.rst = "ok"
        /\ done' = IF n = Size THEN done \union {call[w].pk} ELSE done
        /\ slot' = [slot EXCEPT !.dw = SubSeq(b, n + 1, Size), !.lock = None]
        /\ IF n = Size THEN call' = [call EXCEPT ![w] = Idle]
                       ELSE GoTo(w, "wake")
        /\ peer' = IF n = 0 THEN Consumed ELSE Sent(SubSeq(b, 1, n))
        /\ UNCHANGED <<pipe, th, ev, from, freed, told, closes, ctl>>

\* 'W': let the socket thread enable the write event.
Wake(w) ==
    /\ At(w, "wake")
    /\ Request("W", call[w].id, 0)
    /\ call' = [call EXCEPT ![w] = Idle]
    /\ UNCHANGED <<slot, th, ev, peer, ghosts>>

\* Mutant of Counts: the tag of the counter is not compared.
CountsAnyId(id) == slot.protocol = "TCP"

\* The slot still holds the connection this call is for.
Counts(id) == slot.protocol = "TCP" /\ slot.tag = id

\* inc_sending_ref; at the limit of the counter it spins.
IncSending(w) ==
    /\ At(w, "inc") /\ GoTo(w, "queue")
    /\ IF Counts(call[w].id)
       THEN /\ slot.sending < MaxSending
            /\ slot' = [slot EXCEPT !.sending = @ + 1]
       ELSE slot' = slot
    /\ UNCHANGED <<pipe, th, ev, peer, ghosts>>

\* 'D' or 'P': hand the package to the socket thread.
Queue(w) ==
    /\ At(w, "queue")
    /\ Request(IF call[w].prio = "high" THEN "D" ELSE "P", call[w].id, call[w].pk)
    /\ call' = [call EXCEPT ![w] = Idle]
    /\ UNCHANGED <<slot, th, ev, peer, ghosts>>

WorkerStep(w) ==
    \/ TryLists(w) \/ TryLock(w) \/ ReadLists(w) \/ ReadFlags(w) \/ Unlock(w)
    \/ \E n \in 0 .. Size : DirectWrite(w, n)
    \/ Wake(w) \/ IncSending(w) \/ Queue(w)

-----------------------------------------------------------------------------
(* The socket thread closes a connection                                   *)

Doing(at) == [at |-> at, msg |-> None, back |-> None, id |-> 0]
Ctrl == Doing("ctrl")
Events == Doing("event")

\* The slot with other buffers
WithBuffers(s, high, low, dw) == [s EXCEPT !.high = high, !.low = low, !.dw = dw]

Raise(id, msg) ==
    closes' = IF msg = "CLOSE" THEN [closes EXCEPT ![id] = @ + 1] ELSE closes

\* force_close frees the two lists, then waits for the lock of the direct
\* write; `back' is where the thread goes on, `msg' what it raises there.
BeginClose(msg, back) ==
    /\ slot' = WithBuffers(slot, <<>>, <<>>, slot.dw)
    /\ freed' = freed \union In(slot.high) \union In(slot.low)
    /\ th' = [at |-> "close", msg |-> msg, back |-> back.at, id |-> 0]
    /\ UNCHANGED <<done, told, closes>>

\* Mutant of Closed: what a direct write left over is forgotten.
ClosedKeepsDw(s) == [WithBuffers(s, <<>>, <<>>, s.dw) EXCEPT !.type = "INVALID"]

\* The slot after force_close
Closed(s) == [WithBuffers(s, <<>>, <<>>, <<>>) EXCEPT !.type = "INVALID"]

\* The rest of force_close, and clear_closed_event after a request
EndClose ==
    /\ th.at = "close" /\ slot.lock = None
    /\ slot' = Closed(slot)
    /\ freed' = freed \union In(slot.dw)
    /\ Raise(slot.id, th.msg)
    /\ th' = Doing(th.back)
    /\ ev' = IF th.back = "ctrl" /\ th.msg = "CLOSE" THEN NoEvent ELSE ev
    /\ UNCHANGED <<pipe, peer, call, from, done, told, ctl>>

-----------------------------------------------------------------------------
(* The socket thread serves a request (ctrl_cmd)                           *)

\* The slot after new_fd
NewFd(id, reading, type) ==
    [slot EXCEPT !.id = id, !.type = type, !.protocol = "TCP", !.tag = id,
                 !.sending = 0, !.closing = FALSE, !.reading = reading,
                 !.writing = FALSE, !.dw = <<>>]
NewPeer == [fin |-> FALSE, rst |-> "ok", got |-> <<>>]

\* open_socket: no address or no connection, connected at once, connecting
open_socket(id) ==
    /\ \/ /\ slot' = [slot EXCEPT !.type = "INVALID"]
          /\ UNCHANGED <<peer, told>>
       \/ /\ slot' = NewFd(id, TRUE, "CONNECTED")
          /\ peer' = NewPeer /\ told' = told \union {id}
       \/ /\ slot' = [NewFd(id, TRUE, "CONNECTING") EXCEPT !.writing = TRUE]
          /\ peer' = NewPeer /\ told' = told
    /\ UNCHANGED <<th, freed, done, closes>>

resume_socket(id) ==
    /\ slot' = IF socket_invalid(id) \/ slot.type = "HALFCLOSE_READ" THEN slot
               ELSE [slot EXCEPT !.reading = TRUE,
                                 !.type = IF @ = "PACCEPT" THEN "CONNECTED" ELSE @]
    /\ UNCHANGED <<th, peer, freed, done, told, closes>>

pause_socket(id) ==
    /\ slot' = IF socket_invalid(id) THEN slot ELSE [slot EXCEPT !.reading = FALSE]
    /\ UNCHANGED <<th, peer, freed, done, told, closes>>

\* The slot after close_read
ClosedRead(s) == [s EXCEPT !.type = "HALFCLOSE_READ", !.reading = FALSE]

\* Mutant of RaisedBy: SOCKET_CLOSE is raised by the close of a connection
\* that the other end had closed before.
RaisedAlways == "CLOSE"

\* What the close of the connection raises: the end of the stream already
\* raised SOCKET_CLOSE if the connection is half closed.
RaisedBy == IF slot.type = "HALFCLOSE_READ" THEN None ELSE "CLOSE"

\* close_socket
close_socket(id, shutdown) ==
    /\ peer' = peer
    /\ \/ /\ socket_invalid(id)
          /\ UNCHANGED <<slot, th, freed, done, told, closes>>
       \/ /\ ~socket_invalid(id) /\ (shutdown \/ nomore_sending_data)
          /\ BeginClose(RaisedBy, Ctrl)
       \/ /\ ~socket_invalid(id) /\ ~shutdown /\ ~nomore_sending_data
          /\ slot' = [ClosedRead(slot) EXCEPT !.closing = TRUE]
          /\ Raise(id, RaisedBy)
          /\ UNCHANGED <<th, freed, done, told>>

\* Mutant of trigger_write: only a connection with a list to send is woken.
TriggerListed(id) ==
    /\ slot' = IF socket_invalid(id) THEN slot
               ELSE [slot EXCEPT !.writing = ~send_buffer_empty]
    /\ UNCHANGED <<th, peer, freed, done, told, closes>>

trigger_write(id) ==
    /\ slot' = IF socket_invalid(id) THEN slot ELSE [slot EXCEPT !.writing = TRUE]
    /\ UNCHANGED <<th, peer, freed, done, told, closes>>

\* send_socket; dec_sending_ref is the thread's next step.
send_socket(id, p, prio) ==
    /\ IF socket_invalid(id) \/ slot.closing
          \/ slot.type \in {"HALFCLOSE_WRITE", "PACCEPT"}
       THEN slot' = slot /\ freed' = freed \union {p}
       ELSE /\ slot' = IF prio = "low" /\ ~send_buffer_empty
                       THEN [slot EXCEPT !.low = @ \o Bytes(p)]
                       ELSE [slot EXCEPT !.high = @ \o Bytes(p),
                                         !.writing = @ \/ send_buffer_empty]
            /\ freed' = freed
    /\ th' = [Doing("dec") EXCEPT !.id = id]
    /\ UNCHANGED <<peer, done, told, closes>>

ctrl_cmd ==
    /\ th = Ctrl /\ pipe # <<>>
    /\ pipe' = Tail(pipe)
    /\ LET r == Head(pipe)
       IN  \/ r.cmd = "O" /\ open_socket(r.id)
           \/ r.cmd = "R" /\ resume_socket(r.id)
           \/ r.cmd = "S" /\ pause_socket(r.id)
           \/ r.cmd = "K" /\ close_socket(r.id, FALSE)
           \/ r.cmd = "shutdown" /\ close_socket(r.id, TRUE)
           \/ r.cmd = "W" /\ trigger_write(r.id)
           \/ r.cmd = "D" /\ send_socket(r.id, r.pk, "high")
           \/ r.cmd = "P" /\ send_socket(r.id, r.pk, "low")
    /\ UNCHANGED <<ev, call, from, ctl>>

DecSending ==
    /\ th.at = "dec" /\ th' = Ctrl
    /\ slot' = IF slot.id = th.id /\ slot.protocol = "TCP"
               THEN [slot EXCEPT !.sending = @ - 1] ELSE slot
    /\ UNCHANGED <<pipe, ev, peer, call, ghosts>>

\* No request is left: on to the events.
NoCmd ==
    /\ th = Ctrl /\ pipe = <<>> /\ th' = Events
    /\ UNCHANGED <<slot, pipe, ev, peer, call, ghosts>>

-----------------------------------------------------------------------------
(* The socket thread serves the events of a batch                          *)

HasFd == slot.type \notin {"INVALID", "RESERVE"}

\* What epoll reports: data may have come whenever reading is on.
Reported(data) ==
    [read |-> slot.reading /\ (data \/ peer.fin \/ peer.rst # "ok"),
     write |-> slot.writing, error |-> peer.rst = "reset",
     eof |-> peer.rst # "ok" \/ (peer.fin /\ slot.type = "HALFCLOSE_WRITE")]

\* sp_wait returns: an event of this slot, or a request in the pipe.
Wait(data) ==
    LET e == Reported(data)
        any == HasFd /\ (e.read \/ e.write \/ e.error \/ e.eof)
    IN  /\ th = Events /\ ev = NoEvent
        /\ any \/ pipe # <<>>
        /\ ev' = IF any THEN e ELSE NoEvent
        /\ th' = Ctrl
        /\ UNCHANGED <<slot, pipe, peer, call, ghosts>>

\* report_accept, for a listening socket in another slot
Accept ==
    /\ th = Events /\ Reservable
    /\ slot' = NewFd(slot.id + 1, FALSE, "PACCEPT")
    /\ peer' = NewPeer
    /\ told' = told \union {slot.id + 1}
    /\ UNCHANGED <<pipe, th, ev, call, from, freed, done, closes, ctl>>

\* The event of a connection that was closed since
Stale ==
    /\ slot.type = "INVALID"
    /\ ev' = NoEvent
    /\ UNCHANGED <<slot, th, peer, freed, done, told, closes>>

report_connect ==
    /\ slot.type = "CONNECTING" /\ ev' = NoEvent
    /\ UNCHANGED peer
    /\ \/ BeginClose("ERR", Events)
       \/ /\ slot' = [slot EXCEPT !.type = "CONNECTED",
                                  !.writing = @ /\ ~nomore_sending_data]
          /\ told' = told \union {slot.id}
          /\ UNCHANGED <<th, freed, done, closes>>

Dispatched == slot.type \notin {"INVALID", "CONNECTING"}
AfterRead == IF ev.write THEN [ev EXCEPT !.read = FALSE] ELSE NoEvent

\* forward_message_tcp: data or nothing, an error, or the end of the stream
ReadData ==
    /\ peer.rst = "ok"
    /\ ev' = AfterRead
    /\ UNCHANGED <<slot, th, peer, freed, done, told, closes>>
ReadError ==
    /\ peer.rst = "reset"
    /\ peer' = Consumed /\ ev' = NoEvent
    /\ UNCHANGED <<slot, th, freed, done, told, closes>>
ReadEnd ==
    /\ peer.fin \/ peer.rst = "dead" \/ slot.type = "HALFCLOSE_READ"
    /\ UNCHANGED peer
    /\ \/ /\ slot.closing /\ nomore_sending_data
          /\ ev' = AfterRead /\ BeginClose(None, Events)
       \/ /\ IF slot.closing THEN ~nomore_sending_data
                             ELSE slot.type = "HALFCLOSE_READ"
          /\ ev' = AfterRead
          /\ UNCHANGED <<slot, th, freed, done, told, closes>>
       \/ /\ ~slot.closing /\ slot.type = "HALFCLOSE_WRITE"
          /\ ev' = NoEvent /\ BeginClose("CLOSE", Events)
       \/ /\ ~slot.closing /\ slot.type \notin {"HALFCLOSE_READ", "HALFCLOSE_WRITE"}
          /\ ev' = NoEvent /\ slot' = ClosedRead(slot) /\ Raise(slot.id, "CLOSE")
          /\ UNCHANGED <<th, freed, done, told>>

forward_message_tcp ==
    /\ Dispatched /\ ev.read
    /\ ReadData \/ ReadError \/ ReadEnd

\* Mutant of WithDw: the rest of the direct write goes behind the list.
WithDwLast(s) == WithBuffers(s, s.high \o s.dw, s.low, <<>>)

\* send_buffer puts the rest of a direct write before the high list.
WithDw(s) == WithBuffers(s, s.dw \o s.high, s.low, <<>>)

\* The bytes of the package at the head of a list that was begun
list_uncomplete(low) == low # <<>> /\ low[1][2] # 1
Rest(low) == IF list_uncomplete(low) THEN Size - low[1][2] + 1 ELSE 0

\* The lists after n bytes were accepted, high list first; a package of the
\* low list that was begun is moved to the high list (raise_uncomplete).
Wrote(s, n) ==
    LET high == SubSeq(s.high, n + 1, Len(s.high))
        k == IF n > Len(s.high) THEN n - Len(s.high) ELSE 0
        low == SubSeq(s.low, k + 1, Len(s.low))
    IN  WithBuffers(s, high \o SubSeq(low, 1, Rest(low)),
                    SubSeq(low, Rest(low) + 1, Len(low)), s.dw)

\* send_buffer_, n bytes accepted; with both lists empty the connection that
\* waits for this is closed, and the write event of any other turned off.
SendSome(n) ==
    LET s == WithDw(slot)
        all == s.high \o s.low
        r == Wrote(s, n)
    IN  /\ n <= Len(all)
        /\ all # <<>> => peer.rst = "ok" /\ slot.type # "HALFCLOSE_WRITE"
        /\ peer' = Sent(SubSeq(all, 1, n))
        /\ done' = done \union (In(SubSeq(all, 1, n)) \ In(SubSeq(all, n + 1, Len(all))))
        /\ slot' = IF n < Len(all) THEN r
                   ELSE IF slot.closing THEN Closed(r)
                   ELSE [r EXCEPT !.writing = FALSE]
        /\ freed' = freed

\* The write fails, for a reset or any other reason: close_write.
SendFails ==
    LET s == WithDw(slot)
        all == s.high \o s.low
    IN  /\ all # <<>>
        /\ peer' = Consumed /\ done' = done
        /\ \/ /\ slot.closing \/ slot.type = "HALFCLOSE_READ"
              /\ slot' = Closed(s) /\ freed' = freed \union In(all)
           \/ /\ ~slot.closing /\ slot.type = "HALFCLOSE_WRITE"
              /\ slot' = s /\ freed' = freed
           \/ /\ ~slot.closing /\ slot.type \notin {"HALFCLOSE_READ", "HALFCLOSE_WRITE"}
              /\ slot' = [s EXCEPT !.type = "HALFCLOSE_WRITE", !.writing = FALSE]
              /\ freed' = freed

\* send_buffer, the lock not taken by a direct write
WriteReady == Dispatched /\ ~ev.read /\ ev.write
send_buffer(n) ==
    /\ WriteReady /\ slot.lock = None /\ ev' = NoEvent
    /\ SendSome(n)
    /\ UNCHANGED <<th, told, closes>>
SendBufferFails ==
    /\ WriteReady /\ slot.lock = None /\ ev' = NoEvent
    /\ SendFails
    /\ UNCHANGED <<th, told, closes>>

\* Blocked by a direct write: send later.
SendBufferLater ==
    /\ WriteReady /\ slot.lock # None /\ ev' = NoEvent
    /\ UNCHANGED <<slot, th, peer, freed, done, told, closes>>

\* Neither read nor write: an error is reported and taken from the
\* connection, a hang-up closes it.
ErrorEvent ==
    /\ Dispatched /\ ~ev.read /\ ~ev.write /\ ev.error
    /\ ev' = NoEvent /\ peer' = Consumed
    /\ UNCHANGED <<slot, th, freed, done, told, closes>>
EofEvent ==
    /\ Dispatched /\ ~ev.read /\ ~ev.write /\ ~ev.error /\ ev.eof
    /\ ev' = NoEvent /\ peer' = peer
    /\ BeginClose(RaisedBy, Events)

InEvent == th = Events /\ ev # NoEvent
Progress ==
    /\ InEvent
    /\ \E n \in 1 .. Size * NPackage : send_buffer(n)
    /\ UNCHANGED <<pipe, call, from, ctl>>

Dispatch ==
    /\ InEvent
    /\ \/ Stale \/ report_connect \/ forward_message_tcp
       \/ \E n \in 0 .. Size * NPackage : send_buffer(n)
       \/ SendBufferFails \/ SendBufferLater \/ ErrorEvent \/ EofEvent
    /\ UNCHANGED <<pipe, call, from, ctl>>

SocketThread ==
    \/ ctrl_cmd \/ DecSending \/ NoCmd \/ EndClose
    \/ \E data \in BOOLEAN : Wait(data)
    \/ Dispatch

-----------------------------------------------------------------------------
(* The other end of the connection                                         *)

PeerCloses ==
    /\ HasFd /\ slot.type # "CONNECTING" /\ ~peer.fin
    /\ peer' = [peer EXCEPT !.fin = TRUE]
    /\ UNCHANGED <<slot, pipe, th, ev, call, ghosts>>
PeerResets ==
    /\ HasFd /\ slot.type # "CONNECTING" /\ peer.rst = "ok"
    /\ peer' = [peer EXCEPT !.rst = "reset"]
    /\ UNCHANGED <<slot, pipe, th, ev, call, ghosts>>

-----------------------------------------------------------------------------
Init ==
    /\ slot = [id |-> 0, type |-> "INVALID", protocol |-> "UNKNOWN", tag |-> 0,
               sending |-> 0, closing |-> FALSE, reading |-> FALSE,
               writing |-> FALSE, high |-> <<>>, low |-> <<>>, dw |-> <<>>,
               lock |-> None]
    /\ pipe = <<>> /\ th = Ctrl /\ ev = NoEvent /\ peer = NewPeer
    /\ call = [w \in Worker |-> Idle]
    /\ from = <<>> /\ freed = {} /\ done = {}
    /\ told = {} /\ closes = [i \in Id |-> 0] /\ ctl = 0

Requests ==
    \/ Connect
    \/ \E id \in Id : CloseOrShutdown(id) \/ StartOrPause(id)
    \/ \E w \in Worker, id \in Id, prio \in {"high", "low"} : SendBegin(w, id, prio)

Next ==
    \/ Requests
    \/ \E w \in Worker : WorkerStep(w)
    \/ SocketThread \/ Accept
    \/ PeerCloses \/ PeerResets

Spec == Init /\ [][Next]_vars

\* The threads keep running, and a connection that is not reset accepts
\* bytes again and again.
FairSpec ==
    /\ Spec
    /\ \A w \in Worker : WF_vars(WorkerStep(w))
    /\ WF_vars(SocketThread)
    /\ SF_vars(Progress)

-----------------------------------------------------------------------------
(* Properties                                                              *)

Buffer == Seq(Package \X (1 .. Size))

TypeOK ==
    /\ slot \in [id : 0 .. MaxId, type : Type, protocol : {"UNKNOWN", "TCP"},
                 tag : 0 .. MaxId, sending : 0 .. MaxSending, closing : BOOLEAN,
                 reading : BOOLEAN, writing : BOOLEAN, high : Buffer,
                 low : Buffer, dw : Buffer, lock : Worker \union {None}]
    /\ \A i \in DOMAIN pipe : pipe[i].id \in 1 .. slot.id
    /\ ev \in [read : BOOLEAN, write : BOOLEAN, error : BOOLEAN,
                            eof : BOOLEAN]
    /\ peer \in [fin : BOOLEAN, rst : {"ok", "reset", "dead"}, got : Buffer]
    /\ told \subseteq Id /\ freed \union done \subseteq Package

InPipe(p) == \E i \in DOMAIN pipe : pipe[i].cmd \in {"D", "P"} /\ pipe[i].pk = p
InCall(p) == \E w \in Worker : ~At(w, "idle") /\ ~At(w, "wake") /\ call[w].pk = p
Buffered(p) == p \in In(slot.high \o slot.low \o slot.dw)

\* The buffer of every package sent is in one hand: a worker's call, the
\* pipe, the lists or dw_buffer of the connection, or it was written to the
\* end, or freed without; never in two, never forgotten.
OneHand ==
    /\ TypeOK
    /\ \A p \in DOMAIN from :
          Cardinality({x \in {<<"pipe", InPipe(p)>>, <<"call", InCall(p)>>,
                              <<"buffered", Buffered(p)>>, <<"written", p \in done>>,
                              <<"freed", p \in freed>>} : x[2]}) = 1

\* On the wire a package that was begun goes on with its own next byte,
\* whoever writes it, unless its rest was freed by a close; and a package
\* starts with its first byte.
Unmixed ==
    \A k \in DOMAIN peer.got :
        LET b == peer.got[k]
            before == peer.got[k - 1]
        IN  \/ b[2] = 1 /\ (k > 1 => before[2] = Size \/ before[1] \in freed)
            \/ b[2] > 1 /\ k > 1 /\ before = <<b[1], b[2] - 1>>

\* What one service sends after a high priority package never gets ahead of
\* it, though one may go through the pipe and the other be written directly.
InOrder ==
    \A p, q \in DOMAIN from :
        /\ p < q /\ from[p].by = from[q].by /\ from[p].id = from[q].id
        /\ from[p].prio = "high" /\ q \in In(peer.got)
        => p \in done \union freed

\* The assertions: the counter of packages on their way is exact for the
\* connection that has the slot (dec_sending_ref never finds 0), a slot
\* without connection has no buffers (check_wb_list), and no package waits
\* half written in the low list (send_buffer_).
OnTheWay(id) ==
    Cardinality({p \in DOMAIN from : from[p].id = id /\
        (InPipe(p) \/ \E w \in Worker : At(w, "queue") /\ call[w].pk = p)})
    + (IF th.at = "dec" /\ th.id = id THEN 1 ELSE 0)
AssertsHold ==
    /\ slot.protocol = "TCP" => slot.sending = OnTheWay(slot.id)
    /\ ~HasFd => send_buffer_empty /\ slot.dw = <<>>
    /\ ~list_uncomplete(slot.low)

\* SOCKET_CLOSE is raised once, and only once, for every connection that was
\* announced: never twice, and not missing when the slot is free again.
CloseOnce ==
    \A i \in told : /\ closes[i] <= 1
                    /\ (slot.id # i \/ slot.type = "INVALID") => closes[i] = 1

\* Again and again every package sent so far is written or freed, unless the
\* connection can only be read any more and waits for its close.
EverySettled ==
    []<>(\A p \in DOMAIN from :
            \/ p \in done \union freed
            \/ slot.id = from[p].id /\ slot.type = "HALFCLOSE_WRITE")

\* A close that waits for data to go out comes to its end.
CloseCompletes ==
    \A i \in Id : (slot.id = i /\ slot.closing) ~>
                    (slot.id # i \/ slot.type = "INVALID")
=============================================================================
