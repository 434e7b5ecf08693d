------------------------------ MODULE ModStore ------------------------------
(***************************************************************************)
(* What a database cell promises the services that use it: one register    *)
(* per module.  A register changes when a request to write or create it    *)
(* takes effect: once, with the data of that request, and after every      *)
(* request for the module that came before it; a read returns the register *)
(* at such a moment, or fails.  The cache, the periodic saves and queries  *)
(* that fail do not show.                                                  *)
(*                                                                         *)
(* One thing does show.  The cell learns of a save by MySQL's answer.  When *)
(* a save is executed and its answer lost, the table holds data the cell   *)
(* takes for unsaved, until the next acknowledged save; and if the module  *)
(* is then written with the data of the last acknowledged save again, the  *)
(* cell takes it for saved, and the register falls back to what the lost   *)
(* save stored.                                                            *)
(***************************************************************************)
CONSTANTS Mods,       \* module names
          Values,     \* what can be stored
          Empty,      \* the value a module is created with
          NoRow,      \* the module does not exist; no value
          Reqs,       \* the coroutines that serve requests
          NoReq,      \* no request
          NoAnswer    \* no answer, or the answer "false"

VARIABLES val,        \* the registers
          answer,     \* what the last read of each coroutine returned
          req,        \* the requests that have not taken effect
          ahead,      \* the requests each of them comes after
          saved,      \* the data of the last acknowledged save
          doubt       \* the data of a save since then whose answer was lost

vars == <<val, answer, req, ahead, saved, doubt>>

Request == [op : {"create", "set", "get"}, mod : Mods, v : Values \cup {NoRow}]

Init == /\ val \in [Mods -> Values \cup {NoRow}]
        /\ answer = [c \in Reqs |-> NoAnswer]
        /\ req = [c \in Reqs |-> NoReq]
        /\ ahead = [c \in Reqs |-> {}]
        /\ saved = [m \in Mods |-> NoRow]
        /\ doubt = [m \in Mods |-> NoRow]

\* A request comes in, behind the ones for the same module.
Ask(c, r) ==
    /\ req[c] = NoReq
    /\ req' = [req EXCEPT ![c] = r]
    /\ ahead' = [ahead EXCEPT ![c] = {d \in Reqs : req[d] # NoReq /\ req[d].mod = r.mod}]
    /\ answer' = [answer EXCEPT ![c] = NoAnswer]
    /\ UNCHANGED <<val, saved, doubt>>

\* The first request for its module takes effect.
Take(c, op) ==
    /\ req[c] # NoReq /\ req[c].op = op /\ ahead[c] = {}
    /\ req' = [req EXCEPT ![c] = NoReq]
    /\ ahead' = [d \in Reqs |-> ahead[d] \ {c}]
    /\ UNCHANGED <<saved, doubt>>

Write(c) == /\ Take(c, "set")
            /\ val' = [val EXCEPT ![req[c].mod] = req[c].v]
            /\ UNCHANGED answer

\* Creating leaves a register that exists alone; it may fail.
Create(c) == /\ Take(c, "create")
             /\ \/ /\ val[req[c].mod] = NoRow
                   /\ val' = [val EXCEPT ![req[c].mod] = Empty]
                \/ UNCHANGED val
             /\ UNCHANGED answer

\* A read returns the register, or fails, as it does when there is none.
Read(c) == /\ Take(c, "get")
           /\ \/ /\ val[req[c].mod] # NoRow
                 /\ answer' = [answer EXCEPT ![c] = val[req[c].mod]]
              \/ answer' = [answer EXCEPT ![c] = NoAnswer]
           /\ UNCHANGED val

Save(m) == /\ val[m] # NoRow
           /\ saved' = [saved EXCEPT ![m] = val[m]]
           /\ doubt' = [doubt EXCEPT ![m] = NoRow]
           /\ UNCHANGED <<val, answer, req, ahead>>

SaveUnheard(m) == /\ val[m] # NoRow
                  /\ doubt' = [doubt EXCEPT ![m] = val[m]]
                  /\ UNCHANGED <<val, answer, req, ahead, saved>>

FallBack(m) == /\ doubt[m] # NoRow /\ val[m] = saved[m]
               /\ val' = [val EXCEPT ![m] = doubt[m]]
               /\ UNCHANGED <<answer, req, ahead, saved, doubt>>

Next == \/ \E c \in Reqs : Write(c) \/ Create(c) \/ Read(c) \/ \E r \in Request : Ask(c, r)
        \/ \E m \in Mods : Save(m) \/ SaveUnheard(m) \/ FallBack(m)

Spec == Init /\ [][Next]_vars
=============================================================================
