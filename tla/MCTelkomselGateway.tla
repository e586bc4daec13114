------------------------- MODULE MCTelkomselGateway -------------------------
(* Small instances of TelkomselGateway for TLC. *)
EXTENDS TelkomselGateway

(* Either one message of one of the three kinds is left, the others being  *)
(* settled, and a session may still be lost; or all of them wait.  Swallowed *)
(* errors are left to the run over TelkomselGateway's own Spec.             *)
OneLeftOrMix ==
    \/ /\ losses = 0
       /\ \E m \in Msgs :
             /\ ready = {m}
             /\ published = [x \in Msgs |-> IF x = m \/ x \in Junk THEN {} ELSE {"C"}]
    \/ /\ losses = MaxLosses
       /\ ready = Msgs
       /\ published = [x \in Msgs |-> {}]

MCInit ==
    /\ ready \in {Msgs} \cup {{m} : m \in Msgs}
    /\ published \in [Msgs -> {{}, {"C"}}]
    /\ faults = MaxFaults
    /\ losses \in {0, MaxLosses}
    /\ OneLeftOrMix
    /\ unacked = None
    /\ handler = [t \in Trx |-> [msg |-> None, pc |-> "free", out |-> "C"]]
    /\ row = [m \in Msgs |-> [status |-> "ABSENT", trx |-> None]]
    /\ retry = [t \in Trx |-> [pc |-> "none", attempts |-> 0, out |-> "C"]]
    /\ callback = [t \in Trx |-> [pc |-> "idle", msg |-> None, sent |-> 0]]
    /\ order = [t \in Trx |-> "none"]
    /\ gap = [m \in Msgs |-> {}]
    /\ ctxDone = FALSE

MCSpec == MCInit /\ [][Next]_vars /\ Fairness
=============================================================================
