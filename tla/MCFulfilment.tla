---------------------------- MODULE MCFulfilment -----------------------------
(* Small instances of Fulfilment for TLC. *)
EXTENDS Fulfilment

CONSTANTS o1, o2, q1, q2

TwoQueues == [o \in {o1, o2} |-> IF o = o1 THEN q1 ELSE q2]

New(o) == [order |-> o, n |-> 0]

(* One order of any kind with a lost connection or a restart, next to a    *)
(* queue that is drained; two orders on two queues that share the database *)
(* pool; one order after an earlier one lost the pool, while the database  *)
(* cannot be reached.                                                      *)
Scenario ==
  /\ session = [s \in Sessions |-> Fresh]
  /\ conn = [q \in Queues |-> None]
  /\ \/ /\ losses = MaxLosses - 1 /\ faults = MaxFaults - 1 /\ pool = 1
        /\ kind \in {k \in [Orders -> Kinds] : k[o2] = "invalid"}
        /\ queue = [q \in Queues |-> IF q = q1 THEN <<New(o1)>> ELSE <<>>]
     \/ /\ losses = MaxLosses /\ faults = MaxFaults - 1 /\ pool = 1
        /\ kind = [o \in Orders |-> IF o = o1 THEN "provider" ELSE "local"]
        /\ queue = [q \in Queues |-> <<New(IF q = q1 THEN o1 ELSE o2)>>]
     \/ /\ losses = MaxLosses /\ faults = 1 /\ pool = None
        /\ kind = [o \in Orders |-> IF o = o1 THEN "provider" ELSE "invalid"]
        /\ queue = [q \in Queues |-> IF q = q1 THEN <<New(o1)>> ELSE <<>>]

(* The queue's goroutine 1 has just lost its connection before it sold an  *)
(* order, which waits to be redelivered; the other queue is drained.  No   *)
(* call fails, and one more loss or restart may follow.                    *)
Outlived ==
    /\ session = [s \in Sessions |->
         CASE s = 1 -> [Fresh EXCEPT !.pc = "connect", !.queue = q1,
                                     !.msg = New(o1), !.call = "sell"]
           [] s = 2 -> [Fresh EXCEPT !.pc = "idle", !.queue = q2]
           [] OTHER -> Fresh]
    /\ conn = [q \in Queues |-> IF q = q1 THEN None ELSE 2]
    /\ losses = MaxLosses - 1 /\ faults = MaxFaults /\ pool = 1
    /\ kind = [o \in Orders |-> IF o = o1 THEN "provider" ELSE "invalid"]
    /\ queue = [q \in Queues |-> IF q = q1 THEN <<New(o1)>> ELSE <<>>]

MCInit ==
    /\ Scenario \/ Outlived
    /\ opened = 1
    /\ sold = {} /\ refused = {} /\ overtaken = {} /\ forwarded = {}
    /\ applied = [o \in Orders |-> {}]
    /\ statuses = [o \in Orders |-> <<>>]
    /\ completed = {} /\ live = {} /\ excused = {}
    /\ gap = [o \in Orders |-> {}]

MCSpec == MCInit /\ [][Next]_vars /\ Fairness
=============================================================================
