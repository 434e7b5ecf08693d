----------------------------- MODULE Mailbox -----------------------------
(***************************************************************************)
(* What the dispatcher promises a service: its messages arrive in one      *)
(* queue, are handled one at a time in the order in which they were        *)
(* queued, none is handled after the service is gone, and what is queued   *)
(* then is discarded in the same order.                                    *)
(***************************************************************************)
EXTENDS Sequences

CONSTANTS Service, Message, NoMsg

VARIABLES box,    \* the queued messages of each service, oldest first
          busy,   \* the message each service is handling, NoMsg for none
          life    \* each service: "none", "live" or "freed"

Init == /\ box = [s \in Service |-> <<>>]
        /\ busy = [s \in Service |-> NoMsg]
        /\ life \in [Service -> {"none", "live"}]

Create(s) == /\ life[s] = "none"
             /\ life' = [life EXCEPT ![s] = "live"]
             /\ UNCHANGED <<box, busy>>

Put(s, m) == /\ life[s] = "live"
             /\ box' = [box EXCEPT ![s] = Append(@, m)]
             /\ UNCHANGED <<busy, life>>

Take(s) == /\ life[s] = "live" /\ busy[s] = NoMsg /\ box[s] # <<>>
           /\ busy' = [busy EXCEPT ![s] = Head(box[s])]
           /\ box' = [box EXCEPT ![s] = Tail(@)]
           /\ UNCHANGED life

Finish(s) == /\ busy[s] # NoMsg
             /\ busy' = [busy EXCEPT ![s] = NoMsg]
             /\ UNCHANGED <<box, life>>

Die(s) == /\ life[s] = "live" /\ busy[s] = NoMsg
          /\ life' = [life EXCEPT ![s] = "freed"]
          /\ UNCHANGED <<box, busy>>

Discard(s) == /\ life[s] = "freed" /\ box[s] # <<>>
              /\ box' = [box EXCEPT ![s] = Tail(@)]
              /\ UNCHANGED <<busy, life>>

Next == \E s \in Service :
            \/ Create(s) \/ Take(s) \/ Finish(s) \/ Die(s) \/ Discard(s)
            \/ \E m \in Message : Put(s, m)

Spec == Init /\ [][Next]_<<box, busy, life>>
=============================================================================
