---------------------------- MODULE MCQueueWorker ----------------------------
(* Small instances of QueueWorker for TLC. *)
EXTENDS QueueWorker

CONSTANTS m1, m2, w1, w2, q1

OneQueue  == [m \in {m1, m2} |-> q1]
BothServe == [w \in {w1, w2} |-> q1]

(* An order next to a message of each other kind.                          *)
MCInit == Init /\ kind[m1] = "order" /\ kind[m2] # "order"
MCSpec == MCInit /\ [][Next]_vars /\ Fairness
=============================================================================
