---------------------------- MODULE OrderGateway -----------------------------
(***************************************************************************)
(* What the platform relies on from a provider gateway, whatever the       *)
(* provider and the protocol: orders come from a queue, statuses go to a   *)
(* queue, and                                                              *)
(*   - "F" is only told of an order the provider completed;                *)
(*   - the gateway lets go of an order only after telling a final status,  *)
(*     or after losing it in a way the design admits (excused).            *)
(* TelkomselGateway, UniPinGateway and SmbGateway implement it.            *)
(***************************************************************************)
CONSTANT Msgs

VARIABLES
    completed,  \* orders the provider completed
    told,       \* per order: the statuses told downstream
    live,       \* orders in the queue, or that some goroutine still owes
    excused     \* orders lost in an admitted way, messages without an order

vars == <<completed, told, live, excused>>

Final == {"F", "C"}

Init == /\ completed = {}
        /\ told = [m \in Msgs |-> {}]
        /\ live \in SUBSET Msgs
        /\ excused \in SUBSET Msgs

Complete(m) == /\ completed' = completed \cup {m}
               /\ UNCHANGED <<told, live, excused>>

(* Orders are only let go of once settled or excused. *)
LetGo == \A m \in live \ live' : m \in excused' \/ told'[m] \cap Final # {}

(* A status is told; whoever told it may have been the last to hold the    *)
(* order, or goes on to follow it.  "S" may be told as the last word.      *)
Tell(m, s) == /\ s = "F" => m \in completed
              /\ s \in Final => m \in live
              /\ told' = [told EXCEPT ![m] = @ \cup {s}]
              /\ live' \in {live \ {m}, live, live \cup {m}}
              /\ \/ excused' = excused
                 \/ s = "S" /\ excused' = excused \cup {m}
              /\ LetGo
              /\ UNCHANGED completed

(* Statuses that cannot be sent, goroutines that die or give up.  The       *)
(* broker may put messages that were in hand back in the queue.            *)
Lose(S) == /\ S \subseteq live
           /\ excused' = excused \cup S
           /\ live' \in SUBSET live
           /\ LetGo
           /\ UNCHANGED <<completed, told>>

(* A goroutine takes an order up again: a redelivery that outlived its     *)
(* session, a late callback.                                               *)
TakeUp(m) == /\ live' = live \cup {m}
             /\ UNCHANGED <<completed, told, excused>>

Next == \/ \E m \in Msgs : \/ Complete(m)
                           \/ \E s \in {"F", "C", "S"} : Tell(m, s)
                           \/ TakeUp(m)
        \/ \E S \in SUBSET live : Lose(S)

Spec == Init /\ [][Next]_vars
=============================================================================
