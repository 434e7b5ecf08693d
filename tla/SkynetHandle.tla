-------------------------- MODULE SkynetHandle --------------------------
(***************************************************************************)
(* The handle table (skynet_handle.c): a hash table of contexts indexed by *)
(* the low bits of the handle, which doubles when it is full, and a sorted *)
(* array of names.  Every function works under the table's lock, but a     *)
(* context learns its handle only after the lock is released: the caller,  *)
(* skynet_context_new, stores the returned value.  The harbor bits of a    *)
(* handle are left out: they are the same in every handle of the table.    *)
(***************************************************************************)
EXTENDS Integers, Sequences, FiniteSets

CONSTANTS Context,           \* a set of integers: the contexts to come
          Thread,
          Registrar,         \* the threads that launch services
          Name,              \* a set of integers; < stands for strcmp
          None,
          DefaultSlotSize,   \* DEFAULT_SLOT_SIZE
          HandleMask         \* HANDLE_MASK, the largest handle

ASSUME MaskAssumption == /\ DefaultSlotSize \in Nat \ {0}
                         /\ HandleMask \in Nat \ {0}
                         /\ DefaultSlotSize - 1 <= HandleMask
ASSUME ThreadAssumption == Registrar \subseteq Thread
ASSUME NameAssumption == Name \subseteq Int /\ Context \subseteq Int
ASSUME NoneAssumption == None \notin Context \cup Thread

VARIABLES slot,          \* 0 .. slot_size - 1 -> Context or None
          handle_index,  \* where the search for a handle begins
          handle,        \* ctx->handle: 0 until it is assigned
          name,          \* the sorted array of [name, handle]
          lock,          \* the thread that keeps the write lock over steps
          thr            \* what each thread is in the middle of

vars == <<slot, handle_index, handle, name, lock, thr>>

Handle == 1 .. HandleMask
slot_size == Cardinality(DOMAIN slot)
Registered == {slot[i] : i \in DOMAIN slot} \ {None}

Idle == [pc |-> "idle", ctx |-> None, h |-> 0, i |-> 0, n |-> 0]

\* A handle's place in a table of that size (handle & (size - 1)).
Hash(h, size) == h % size

-----------------------------------------------------------------------------
(* skynet_handle_register                                                  *)

\* 0 is reserved
Wrap(h) == IF h > HandleMask THEN 1 ELSE h

\* The handles the loop tries, one for each slot.
Candidate ==
    LET try[i \in 0 .. slot_size - 1] ==
            IF i = 0 THEN Wrap(handle_index) ELSE Wrap(try[i - 1] + 1)
    IN  try

Free == {i \in DOMAIN slot : slot[Hash(Candidate[i], slot_size)] = None}

\* A slot is free: the first one tried is taken and the lock released.  The
\* handle is returned to skynet_context_new, which has not stored it yet.
Take(t, c) ==
    LET i == CHOOSE i \in Free : \A j \in Free : i <= j
        h == Candidate[i]
    IN  /\ slot' = [slot EXCEPT ![Hash(h, slot_size)] = c]
        /\ handle_index' = h + 1
        /\ lock' = None
        /\ thr' = [thr EXCEPT ![t] = [Idle EXCEPT !.pc = "assign", !.ctx = c,
                                                  !.h = h]]
        /\ UNCHANGED <<handle, name>>

Full(t, c) ==
    /\ lock' = t
    /\ thr' = [thr EXCEPT ![t] = [Idle EXCEPT !.pc = "grow", !.ctx = c]]
    /\ UNCHANGED <<slot, handle_index, handle, name>>

TakeOrGrow(t, c) == IF Free # {} THEN Take(t, c) ELSE Full(t, c)

\* The contexts not registered so far; they are taken in order.
Fresh == {c \in Context : /\ handle[c] = 0 /\ c \notin Registered
                          /\ \A t \in Thread : thr[t].ctx # c}

Register(t, c) ==
    /\ t \in Registrar /\ thr[t] = Idle /\ lock = None
    /\ c \in Fresh /\ \A d \in Fresh : c <= d
    /\ TakeOrGrow(t, c)

\* The place of slot i's context in the table of twice the size
NewPlace(i) == Hash(handle[slot[i]], 2 * slot_size)

\* Mutant of Rehash: the contexts keep their places.
RehashNothing ==
    [j \in 0 .. 2 * slot_size - 1 |-> IF j < slot_size THEN slot[j] ELSE None]

\* The table of twice the size.  When two contexts have one place the assert
\* stops the program; the model keeps one of them.
Rehash ==
    [j \in 0 .. 2 * slot_size - 1 |->
        LET from == {i \in DOMAIN slot : slot[i] # None /\ NewPlace(i) = j}
        IN  IF from = {} THEN None ELSE slot[CHOOSE i \in from : TRUE]]

\* The loop goes on with the doubled table; the lock is kept.
Grow(t) ==
    /\ thr[t].pc = "grow" /\ lock = t
    /\ 2 * slot_size - 1 <= HandleMask
    /\ slot' = Rehash
    /\ thr' = [thr EXCEPT ![t].pc = "retry"]
    /\ UNCHANGED <<handle_index, handle, name, lock>>

Retry(t) ==
    /\ thr[t].pc = "retry" /\ lock = t
    /\ TakeOrGrow(t, thr[t].ctx)

\* ctx->handle = skynet_handle_register(ctx)
Assign(t) ==
    /\ thr[t].pc = "assign"
    /\ handle' = [handle EXCEPT ![thr[t].ctx] = thr[t].h]
    /\ thr' = [thr EXCEPT ![t] = Idle]
    /\ UNCHANGED <<slot, handle_index, name, lock>>

-----------------------------------------------------------------------------
(* skynet_handle_retire, skynet_handle_retireall, skynet_handle_grab       *)

\* skynet_handle_grab's answer: the context at the handle's place, if it has
\* that handle.
skynet_handle_grab(h) ==
    LET c == slot[Hash(h, slot_size)]
    IN  IF c # None /\ handle[c] = h THEN c ELSE None

\* Mutant of WithoutNames: the loop ends before the last entry.
WithoutNamesShort(h) ==
    LET kept[k \in 0 .. Len(name)] ==
            IF k = 0 THEN <<>>
            ELSE IF name[k].handle = h /\ k < Len(name) THEN kept[k - 1]
            ELSE Append(kept[k - 1], name[k])
    IN  kept[Len(name)]

\* The loop that compacts the array: the entries of the handle are left out.
WithoutNames(h) ==
    LET kept[k \in 0 .. Len(name)] ==
            IF k = 0 THEN <<>>
            ELSE IF name[k].handle = h THEN kept[k - 1]
            ELSE Append(kept[k - 1], name[k])
    IN  kept[Len(name)]

skynet_handle_retire(h) ==
    IF skynet_handle_grab(h) # None
    THEN /\ slot' = [slot EXCEPT ![Hash(h, slot_size)] = None]
         /\ name' = WithoutNames(h)
    ELSE UNCHANGED <<slot, name>>

\* EXIT and KILL, of any handle that was given out
Retire(t, h) ==
    /\ thr[t] = Idle /\ lock = None
    /\ skynet_handle_grab(h) # None
    /\ skynet_handle_retire(h)
    /\ UNCHANGED <<handle_index, handle, lock, thr>>

\* ABORT starts skynet_handle_retireall.
RetireAll(t) ==
    /\ thr[t] = Idle
    /\ thr' = [thr EXCEPT ![t].pc = "scan"]
    /\ UNCHANGED <<slot, handle_index, handle, name, lock>>

\* Mutant of NextRound: n is not reset.
NextRoundKeepsN(r) == [r EXCEPT !.i = 0]
NextRound(r) == [r EXCEPT !.i = 0, !.n = 0]

\* The loop over the slots: read one under the lock, retire it without.  At
\* the end of a round that saw none the function returns.
Scan(t) ==
    LET r == thr[t]
        c == slot[r.i] IN
    /\ r.pc = "scan"
    /\ IF r.i < slot_size
       THEN /\ lock = None
            /\ thr' = [thr EXCEPT ![t] =
                          [r EXCEPT !.n = IF c # None THEN r.n + 1 ELSE r.n,
                                    !.h = IF c = None THEN 0 ELSE handle[c],
                                    !.i = r.i + 1, !.pc = "retire"]]
       ELSE thr' = [thr EXCEPT ![t] = IF r.n = 0 THEN Idle ELSE NextRound(r)]
    /\ UNCHANGED <<slot, handle_index, handle, name, lock>>

RetireSeen(t) ==
    /\ thr[t].pc = "retire"
    /\ IF thr[t].h = 0
       THEN UNCHANGED <<slot, name>>
       ELSE lock = None /\ skynet_handle_retire(thr[t].h)
    /\ thr' = [thr EXCEPT ![t].pc = "scan", ![t].h = 0]
    /\ UNCHANGED <<handle_index, handle, lock>>

-----------------------------------------------------------------------------
(* Names                                                                   *)

\* One round of the binary search for a name
Halve(r, x) ==
    LET mid == (r.begin + r.end) \div 2
    IN  IF r.begin > r.end \/ name[mid].name = x THEN r
        ELSE IF name[mid].name < x THEN [r EXCEPT !.begin = mid + 1]
        ELSE [r EXCEPT !.end = mid - 1]

\* Mutant of Search: the loop ends with one entry left (begin < end).
SearchShort(x) ==
    LET loop[k \in 0 .. Len(name)] ==
            IF k = 0 THEN [begin |-> 1, end |-> Len(name)] ELSE Halve(loop[k - 1], x)
        r == loop[Len(name)]
    IN  IF r.begin < r.end THEN [at |-> (r.begin + r.end) \div 2, found |-> TRUE]
                           ELSE [at |-> r.begin, found |-> FALSE]

\* The loop of _insert_name and skynet_handle_findname, which ends after at
\* most as many rounds as there are names: where the name is, or where it
\* would be inserted.
Search(x) ==
    LET loop[k \in 0 .. Len(name)] ==
            IF k = 0 THEN [begin |-> 1, end |-> Len(name)] ELSE Halve(loop[k - 1], x)
        r == loop[Len(name)]
    IN  IF r.begin <= r.end THEN [at |-> (r.begin + r.end) \div 2, found |-> TRUE]
                            ELSE [at |-> r.begin, found |-> FALSE]

skynet_handle_findname(x) ==
    LET s == Search(x) IN IF s.found THEN name[s.at].handle ELSE 0

\* REG and NAME: a name that is taken is refused.
NameHandle(t, x, h) ==
    LET s == Search(x) IN
    /\ thr[t] = Idle /\ lock = None
    /\ ~s.found
    /\ name' = SubSeq(name, 1, s.at - 1) \o <<[name |-> x, handle |-> h]>>
               \o SubSeq(name, s.at, Len(name))
    /\ UNCHANGED <<slot, handle_index, handle, lock, thr>>

-----------------------------------------------------------------------------
\* skynet_handle_init; the index may be anywhere once services have come and
\* gone.
Init ==
    /\ slot = [i \in 0 .. DefaultSlotSize - 1 |-> None]
    /\ handle_index \in 1 .. HandleMask + 1
    /\ handle = [c \in Context |-> 0]
    /\ name = <<>>
    /\ lock = None
    /\ thr = [t \in Thread |-> Idle]

Given == {handle[c] : c \in Context} \ {0}

Step(t) == Grow(t) \/ Retry(t) \/ Assign(t) \/ Scan(t) \/ RetireSeen(t)

Next ==
    \E t \in Thread :
        \/ Step(t)
        \/ \E c \in Context : Register(t, c)
        \/ RetireAll(t)
        \/ \E h \in Given : Retire(t, h) \/ \E x \in Name : NameHandle(t, x, h)

Spec == Init /\ [][Next]_vars

\* A thread inside a function of the table goes on with it.  The write lock
\* is kept from a waiting thread only while another thread registers, which
\* happens once for each context.
FairSpec == Spec /\ \A t \in Thread : WF_vars(Step(t))

-----------------------------------------------------------------------------
(* Properties.                                                             *)

\* The sizes of the table
Doubled[k \in 0 .. HandleMask] == IF k = 0 THEN DefaultSlotSize ELSE 2 * Doubled[k - 1]

TypeOK ==
    /\ \E k \in 0 .. HandleMask : slot_size = Doubled[k]
    /\ slot \in [0 .. slot_size - 1 -> Context \cup {None}]
    /\ handle_index \in 1 .. HandleMask + 1
    /\ handle \in [Context -> 0 .. HandleMask]
    /\ name \in Seq([name : Name, handle : Handle])
    /\ lock \in Thread \cup {None}
    /\ thr \in [Thread -> [pc : {"idle", "assign", "grow", "retry", "scan", "retire"},
                           ctx : Context \cup {None}, h : 0 .. HandleMask,
                           i : 0 .. 2 * HandleMask, n : Nat]]

\* The handle a registered context has or is about to have.
HandleOf(c) ==
    IF \E t \in Thread : thr[t].pc = "assign" /\ thr[t].ctx = c
    THEN thr[CHOOSE t \in Thread : thr[t].pc = "assign" /\ thr[t].ctx = c].h
    ELSE handle[c]

\* A context is at the place of its handle, from skynet_handle_register on,
\* across every doubling and with the index wrapping at HANDLE_MASK: so
\* skynet_handle_grab finds it, and no two contexts share a handle.
Reachable ==
    /\ TypeOK
    /\ \A c \in Registered :
          HandleOf(c) # 0 /\ slot[Hash(HandleOf(c), slot_size)] = c

\* assert(new_slot[hash] == NULL): no two contexts fall into one place when
\* the table doubles.
RehashDistinct ==
    (\E t \in Thread : thr[t].pc = "grow") =>
        \A i, j \in {k \in DOMAIN slot : slot[k] # None} :
            i # j => NewPlace(i) # NewPlace(j)

\* Whatever was inserted and compacted, the array is sorted without
\* duplicates and the binary search finds exactly the names in it.
NamesFound ==
    /\ \A i, j \in DOMAIN name : i < j => name[i].name < name[j].name
    /\ \A x \in Name : skynet_handle_findname(x) =
          IF \E i \in DOMAIN name : name[i].name = x
          THEN name[CHOOSE i \in DOMAIN name : name[i].name = x].handle ELSE 0

\* A service that is retired takes its names with it, by EXIT, KILL or ABORT,
\* and nothing else takes a name away.
NamesOf(h) == {name[i].name : i \in {k \in DOMAIN name : name[k].handle = h}}
NamesFollow ==
    [][\A h \in Given :
          IF skynet_handle_grab(h) # None /\ skynet_handle_grab(h)' = None
          THEN NamesOf(h)' = {}
          ELSE NamesOf(h) \subseteq NamesOf(h)']_vars

\* skynet_handle_retireall returns: a context that is being registered and
\* has no handle yet keeps it going only until the handle is stored.
RetireAllEnds == \A t \in Thread : (thr[t].pc = "scan") ~> (thr[t].pc = "idle")
=============================================================================
