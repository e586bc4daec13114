-------------------------- MODULE QueueWorkerProofs --------------------------
(***************************************************************************)
(* For all sets of messages and workers and all limits: QueueWorker keeps  *)
(* its types, deletes a message only when its work is done, sells an order *)
(* at most once per delivery, and pays no delivery for a held message.     *)
(***************************************************************************)
EXTENDS QueueWorker, FiniteSetTheorems, TLAPS

WorkRecords == [pc : Pcs, msg : Msgs \cup {None}, ok : BOOLEAN,
                current : BOOLEAN]

(* The work a message asks for has been done. *)
Completed(m) == \/ kind[m] = "status" /\ m \in applied
                \/ kind[m] = "order" /\ sales[m] > 0 /\ m \in sent

(* A worker's records agree: it calls only what its message asks for, in   *)
(* the order of the handler; it is about to acknowledge only what is done; *)
(* and a request that counts for the breaker was not let through while it  *)
(* was open.                                                               *)
Free(w) == work[w].pc \in {"off", "idle", "ended"}
WorkerInvOf(w) ==
    LET m == work[w].msg  pc == work[w].pc IN
    /\ Free(w) <=> m = None
    /\ pc \in {"off", "ended"} => ~alive[w] /\ buffer[w] = {}
    /\ m \notin buffer[w]
    /\ pc = "settransactionstatus" => kind[m] = "status"
    /\ pc \in {"updPreOrderConsume", "request2JualRandomWithID"}
         => kind[m] = "order"
    /\ pc = "sendOrderResult" => kind[m] = "order" /\ sales[m] > 0
    /\ pc = "result" /\ work[w].ok => Completed(m)
    /\ pc = "ack" => Completed(m)
    /\ work[w].current => breaker.state # "open"

WorkerInv == \A w \in Workers : WorkerInvOf(w)

(* The broker has a message in one place: waiting, dead-lettered, or       *)
(* unacknowledged at one worker, and dead-letters it beyond the limit.     *)
PlaceInv ==
    /\ \A w \in Workers : \A m \in Unacked(w) : m \notin waiting \cup dead
    /\ \A w, v \in Workers : \A m \in Unacked(w) \cap Unacked(v) : w = v
    /\ waiting \cap dead = {}
    /\ \A m \in Msgs \ dead : returns[m] <= Limit

Inv == TypeOK /\ WorkerInv /\ PlaceInv

(* The workers that may still sell an order, on a live channel or not:     *)
(* each of them has a delivery of it to itself.                            *)
Unsold(w) == work[w].pc \in {"execute", "hold", "route", "updPreOrderConsume",
                             "request2JualRandomWithID"}
Sellers(m) == {w \in Workers : m \in buffer[w] \/ (work[w].msg = m /\ Unsold(w))}
One(P) == IF P THEN 1 ELSE 0

SaleInv == \A m \in Msgs :
    /\ IsFiniteSet(Sellers(m))
    /\ sales[m] + Cardinality(Sellers(m)) + One(m \in waiting) <= returns[m] + 1

(* As long as nothing is lost every session is open, and a message that is *)
(* about to be returned has failed once more than it came back.            *)
Returning(m) == \E w \in Workers : work[w].pc = "nack" /\ work[w].msg = m

FreeInv ==
    /\ ctxDone => losses > 0
    /\ losses = 0 =>
         /\ \A w \in Workers : work[w].pc \notin {"off", "ended"} => alive[w]
         /\ \A m \in Msgs : returns[m] + One(Returning(m)) <= failures[m] + panics

-----------------------------------------------------------------------------
(* The moves of a worker *)

Breakers == [state : {"closed", "open", "half-open"}, requests : 0..MaxRequests,
             successes : 0..MaxRequests, failures : 0..Threshold]
Counted == \A v \in Workers : work[v].current => breaker.state # "open"

(* A worker stays where it is; its request may cease to count.             *)
Keeps(v) == /\ work'[v].pc = work[v].pc
            /\ work'[v].msg = work[v].msg
            /\ work'[v].ok = work[v].ok
            /\ work'[v].current => work[v].current

(* Worker w goes on with the message it has.                               *)
At(w, pc, ok) ==
    /\ work' \in [Workers -> WorkRecords]
    /\ work'[w].pc = pc
    /\ work'[w].msg = work[w].msg
    /\ work'[w].ok = ok
    /\ \A v \in Workers \ {w} : Keeps(v)

(* Worker w is left without one.                                           *)
Freed(w, pc) ==
    /\ work' \in [Workers -> WorkRecords]
    /\ work'[w].pc = pc /\ work'[w].msg = None /\ ~work'[w].current
    /\ \A v \in Workers \ {w} : work'[v] = work[v]

LEMMA WorkTypes ==
    ASSUME TypeOK
    PROVE  /\ work \in [Workers -> WorkRecords]
           /\ \A w \in Workers : work[w] \in WorkRecords
           /\ breaker \in Breakers
BY DEF TypeOK, WorkRecords, Breakers

LEMMA GotoAt ==
    ASSUME TypeOK, NEW w \in Workers, NEW pc \in Pcs, Goto(w, pc)
    PROVE  /\ At(w, pc, work[w].ok)
           /\ work'[w].current = work[w].current
<1>1. [work[w] EXCEPT !.pc = pc] \in WorkRecords
  BY WorkTypes DEF WorkRecords
<1> QED BY <1>1, WorkTypes DEF Goto, At, Keeps, WorkRecords

LEMMA ResultAt ==
    ASSUME TypeOK, NEW w \in Workers, NEW ok \in BOOLEAN, Result(w, ok)
    PROVE  /\ At(w, "result", ok)
           /\ work'[w].current = work[w].current
<1>1. [work[w] EXCEPT !.pc = "result", !.ok = ok] \in WorkRecords
  BY WorkTypes DEF WorkRecords, Pcs
<1> QED BY <1>1, WorkTypes DEF Result, At, Keeps, WorkRecords

LEMMA OffTypes ==
    /\ Off \in WorkRecords
    /\ [Off EXCEPT !.pc = "idle"] \in WorkRecords
BY DEF Off, WorkRecords, Pcs

LEMMA DoneAt ==
    ASSUME TypeOK, NEW w \in Workers, Done(w)
    PROVE  Freed(w, "idle")
BY WorkTypes, OffTypes DEF Done, Freed, Off

LEMMA MovedAt ==
    ASSUME TypeOK, NEW w \in Workers, NEW pc \in Pcs
    PROVE  /\ Moved(w, pc) \in [Workers -> WorkRecords]
           /\ Moved(w, pc)[w].pc = pc
           /\ Moved(w, pc)[w].msg = work[w].msg
           /\ Moved(w, pc)[w].ok = work[w].ok
           /\ ~Moved(w, pc)[w].current
           /\ \A v \in Workers \ {w} : Moved(w, pc)[v] = work[v]
<1>1. [work[w] EXCEPT !.pc = pc, !.current = FALSE] \in WorkRecords
  BY WorkTypes DEF WorkRecords
<1> QED BY <1>1, WorkTypes DEF Moved, WorkRecords

(* Whatever the breaker counts or changes, it keeps to its limits, and no  *)
(* request counts for it while it is open.                                 *)
LEMMA AfterRequestAt ==
    ASSUME TypeOK, Counted, NEW w \in Workers, NEW pc \in Pcs, NEW ok \in BOOLEAN,
           AfterRequest(w, pc, ok)
    PROVE  /\ At(w, pc, work[w].ok)
           /\ breaker' \in Breakers
           /\ Counted'
<1>1. /\ breaker \in Breakers /\ work[w] \in WorkRecords
      /\ MaxRequests \in Nat \ {0} /\ Threshold \in Nat \ {0}
  BY WorkTypes, ParameterAssumption
<1>2. ASSUME NEW b, Count(w, pc, b), b \in Breakers, b.state = breaker.state
      PROVE  /\ At(w, pc, work[w].ok)
             /\ breaker' \in Breakers
             /\ Counted'
  <2>1. At(w, pc, work[w].ok) /\ breaker' = b
    BY <1>2, MovedAt DEF Count, At, Keeps
  <2>2. \A v \in Workers : work'[v].current => work[v].current
    BY <1>2, MovedAt DEF Count
  <2> QED BY <1>2, <2>1, <2>2 DEF Counted
<1>3. ASSUME NEW state \in {"open", "closed"}, Turn(w, pc, state)
      PROVE  /\ At(w, pc, work[w].ok)
             /\ breaker' \in Breakers
             /\ Counted'
  <2>1. ASSUME NEW v \in Workers
        PROVE  /\ work'[v] \in WorkRecords
               /\ work'[v].pc = Moved(w, pc)[v].pc
               /\ work'[v].msg = Moved(w, pc)[v].msg
               /\ work'[v].ok = Moved(w, pc)[v].ok
               /\ ~work'[v].current
    <3>1. /\ work'[v] = [Moved(w, pc)[v] EXCEPT !.current = FALSE]
          /\ Moved(w, pc)[v] \in WorkRecords
      BY <1>3, MovedAt DEF Turn
    <3> QED BY <3>1 DEF WorkRecords
  <2>2. work' \in [Workers -> WorkRecords]
    BY <1>3, <2>1 DEF Turn
  <2>3. At(w, pc, work[w].ok)
    BY <2>1, <2>2, MovedAt DEF At, Keeps
  <2>4. breaker' \in Breakers
    BY <1>1, <1>3 DEF Turn, Breaker, Breakers
  <2> QED BY <2>1, <2>3, <2>4 DEF Counted
<1>4. CASE ~work[w].current
  <2>1. Count(w, pc, breaker)
    BY <1>4 DEF AfterRequest
  <2> QED BY <1>1, <1>2, <2>1
<1>5. CASE work[w].current
  <2>0. breaker.state \in {"closed", "half-open"}
    BY <1>1, <1>5 DEF Counted, Breakers
  <2>1. \/ Turn(w, pc, "open")
        \/ Turn(w, pc, "closed")
        \/ /\ ~(~ok /\ (breaker.state = "half-open" \/ breaker.failures + 1 >= Threshold))
           /\ ~(ok /\ breaker.state = "half-open" /\ breaker.successes + 1 >= MaxRequests)
           /\ Count(w, pc,
                IF ~ok THEN [breaker EXCEPT !.failures = @ + 1]
                ELSE IF breaker.state = "closed" THEN [breaker EXCEPT !.failures = 0]
                ELSE [breaker EXCEPT !.successes = @ + 1])
    BY <1>5 DEF AfterRequest
  <2>2. CASE /\ ~(~ok /\ (breaker.state = "half-open" \/ breaker.failures + 1 >= Threshold))
             /\ ~(ok /\ breaker.state = "half-open" /\ breaker.successes + 1 >= MaxRequests)
             /\ Count(w, pc,
                  IF ~ok THEN [breaker EXCEPT !.failures = @ + 1]
                  ELSE IF breaker.state = "closed" THEN [breaker EXCEPT !.failures = 0]
                  ELSE [breaker EXCEPT !.successes = @ + 1])
    <3>1. CASE ~ok
      <4>1. /\ [breaker EXCEPT !.failures = @ + 1] \in Breakers
            /\ [breaker EXCEPT !.failures = @ + 1].state = breaker.state
        BY <1>1, <2>2, <3>1 DEF Breakers
      <4> QED BY <1>2, <2>2, <3>1, <4>1
    <3>2. CASE ok /\ breaker.state = "closed"
      <4>1. /\ [breaker EXCEPT !.failures = 0] \in Breakers
            /\ [breaker EXCEPT !.failures = 0].state = breaker.state
        BY <1>1 DEF Breakers
      <4> QED BY <1>2, <2>2, <3>2, <4>1
    <3>3. CASE ok /\ breaker.state = "half-open"
      <4>1. /\ [breaker EXCEPT !.successes = @ + 1] \in Breakers
            /\ [breaker EXCEPT !.successes = @ + 1].state = breaker.state
        BY <1>1, <2>2, <3>3 DEF Breakers
      <4> QED BY <1>2, <2>2, <3>3, <4>1
    <3> QED BY <2>0, <3>1, <3>2, <3>3
  <2> QED BY <1>3, <2>1, <2>2
<1> QED BY <1>4, <1>5

-----------------------------------------------------------------------------
(* The kinds of step a worker takes with a message *)

Works(w) ==
    /\ UNCHANGED <<kind, waiting, acked, dead, returns, buffer, alive, ctxDone,
                   panics, losses>>
    /\ ~Free(w) /\ ~Free(w)'
    /\ At(w, work'[w].pc, work'[w].ok)
    /\ breaker' \in Breakers /\ Counted'

(* It asks the breaker, waits for it, or finds the message's kind.         *)
Attempts(w) ==
    LET m == work[w].msg  pc == work'[w].pc IN
    /\ Works(w) /\ UNCHANGED <<applied, sales, sent, failures>>
    /\ Unsold(w)
    /\ pc \in {"execute", "hold", "route", "settransactionstatus",
               "updPreOrderConsume", "result", "nack"}
    /\ pc = "settransactionstatus" => kind[m] = "status"
    /\ pc = "updPreOrderConsume" => kind[m] = "order"
    /\ pc = "result" => ~work'[w].ok
    /\ pc = "nack" => ctxDone

(* It calls Oracle or the downstream service. *)
Serves(w) ==
    LET pc == work[w].pc IN
    /\ Works(w) /\ UNCHANGED failures
    /\ pc \in Calls
    /\ \/ /\ Effect(w) \/ UNCHANGED <<applied, sales, sent>>
          /\ work'[w].pc = "result" /\ ~work'[w].ok
       \/ /\ Effect(w)
          /\ \/ pc = "updPreOrderConsume" /\ work'[w].pc = "request2JualRandomWithID"
             \/ pc = "request2JualRandomWithID" /\ work'[w].pc = "sendOrderResult"
             \/ /\ pc \in {"settransactionstatus", "sendOrderResult"}
                /\ work'[w].pc = "result"

(* It reports to the breaker. *)
Reports(w) ==
    /\ Works(w) /\ UNCHANGED <<applied, sales, sent>>
    /\ work[w].pc = "result"
    /\ work'[w].pc = IF work[w].ok THEN "ack" ELSE "nack"
    /\ failures' = IF work[w].ok THEN failures
                   ELSE [failures EXCEPT ![work[w].msg] = @ + 1]

LEMMA CountedNow == ASSUME WorkerInv PROVE Counted
BY DEF WorkerInv, WorkerInvOf, Counted

LEMMA AttemptSteps ==
    ASSUME TypeOK, WorkerInv, NEW w \in Workers,
           Execute(w) \/ Poll(w) \/ HoldCancelled(w) \/ Route(w)
    PROVE  Attempts(w)
<1>0. /\ work \in [Workers -> WorkRecords] /\ breaker \in Breakers /\ Counted
      /\ work[w].ok \in BOOLEAN /\ work[w].pc \in Pcs
  BY WorkTypes, CountedNow DEF WorkRecords
<1> USE DEF Works, Free, Unsold, broker, effects
<1>1. ASSUME NEW pc \in Pcs, Goto(w, pc), UNCHANGED breaker
      PROVE  /\ At(w, work'[w].pc, work'[w].ok) /\ work'[w].pc = pc
             /\ breaker' \in Breakers /\ Counted'
  <2>1. At(w, pc, work[w].ok) /\ work'[w].current = work[w].current
    BY <1>1, GotoAt
  <2>2. Counted'
    BY <1>0, <1>1, <2>1 DEF At, Keeps, Counted
  <2> QED BY <1>0, <1>1, <2>1, <2>2 DEF At
<1>2. CASE Execute(w)
  <2>1. CASE Refuses /\ Hold(w) /\ UNCHANGED breaker
    BY <1>1, <1>2, <2>1 DEF Execute, Hold, Attempts, Pcs
  <2>2. CASE /\ ~Refuses
             /\ work' = [work EXCEPT ![w] = [@ EXCEPT !.pc = "route", !.current = TRUE]]
             /\ breaker' = [breaker EXCEPT
                  !.requests = IF breaker.state = "half-open" THEN @ + 1 ELSE @]
    <3>1. [work[w] EXCEPT !.pc = "route", !.current = TRUE] \in WorkRecords
      BY <1>0 DEF WorkRecords, Pcs
    <3>2. At(w, "route", work[w].ok) /\ work'[w].pc = "route"
      BY <1>0, <2>2, <3>1 DEF At, Keeps, WorkRecords
    <3>3. breaker' \in Breakers /\ breaker'.state = breaker.state
      BY <1>0, <2>2, ParameterAssumption DEF Breakers, Refuses
    <3>4. breaker.state # "open"
      BY <2>2 DEF Refuses
    <3>5. Counted'
      BY <3>3, <3>4 DEF Counted
    <3> QED BY <1>2, <3>2, <3>3, <3>5 DEF Execute, Attempts, At
  <2> QED BY <1>2, <2>1, <2>2 DEF Execute
<1>3. CASE Poll(w)
  BY <1>1, <1>3 DEF Poll, Attempts, Pcs
<1>4. CASE HoldCancelled(w)
  BY <1>1, <1>4 DEF HoldCancelled, Attempts, Pcs
<1>5. CASE Route(w)
  <2>0. kind[work[w].msg] \in {"status", "order", "poison"}
    <3>1. work[w].msg \in Msgs
      BY <1>0, <1>5 DEF Route, WorkerInv, WorkerInvOf, WorkRecords
    <3> QED BY <1>5, <3>1 DEF Route, TypeOK, Kinds
  <2>1. CASE kind[work[w].msg] = "status"
    <3>1. Goto(w, "settransactionstatus")
      BY <1>5, <2>1 DEF Route
    <3> QED BY <1>1, <1>5, <2>1, <3>1 DEF Route, Attempts, Pcs, Calls
  <2>2. CASE kind[work[w].msg] = "order"
    <3>1. Goto(w, "updPreOrderConsume")
      BY <1>5, <2>2 DEF Route
    <3> QED BY <1>1, <1>5, <2>2, <3>1 DEF Route, Attempts, Pcs, Calls
  <2>3. CASE kind[work[w].msg] = "poison"
    <3>1. Result(w, FALSE)
      BY <1>5, <2>3 DEF Route
    <3>2. At(w, "result", FALSE) /\ work'[w].current = work[w].current
      BY <3>1, ResultAt
    <3>3. Counted' /\ breaker' \in Breakers
      BY <1>0, <1>5, <3>2 DEF Route, At, Keeps, Counted
    <3> QED BY <1>5, <3>2, <3>3 DEF Route, Attempts, At
  <2> QED BY <2>0, <2>1, <2>2, <2>3
<1> QED BY <1>2, <1>3, <1>4, <1>5

LEMMA CallSteps ==
    ASSUME TypeOK, WorkerInv, NEW w \in Workers, CallSucceeds(w) \/ CallFails(w)
    PROVE  Serves(w)
<1>0. breaker \in Breakers /\ Counted /\ work[w].ok \in BOOLEAN
  BY WorkTypes, CountedNow DEF WorkRecords
<1> USE DEF Works, Free, broker, effects
<1>1. ASSUME NEW pc \in Pcs, NEW ok \in BOOLEAN, At(w, pc, ok),
             work'[w].current = work[w].current, UNCHANGED breaker
      PROVE  breaker' \in Breakers /\ Counted'
  BY <1>0, <1>1 DEF At, Keeps, Counted
<1>2. CASE CallSucceeds(w)
  <2>1. \/ work[w].pc = "updPreOrderConsume" /\ Goto(w, "request2JualRandomWithID")
        \/ work[w].pc = "request2JualRandomWithID" /\ Goto(w, "sendOrderResult")
        \/ work[w].pc \in {"settransactionstatus", "sendOrderResult"} /\ Result(w, TRUE)
    BY <1>2 DEF CallSucceeds, Calls
  <2>2. CASE work[w].pc = "updPreOrderConsume" /\ Goto(w, "request2JualRandomWithID")
    BY <1>0, <1>1, <1>2, <2>2, GotoAt DEF CallSucceeds, Serves, At, Pcs, Calls
  <2>3. CASE work[w].pc = "request2JualRandomWithID" /\ Goto(w, "sendOrderResult")
    BY <1>0, <1>1, <1>2, <2>3, GotoAt DEF CallSucceeds, Serves, At, Pcs, Calls
  <2>4. CASE /\ work[w].pc \in {"settransactionstatus", "sendOrderResult"}
             /\ Result(w, TRUE)
    BY <1>1, <1>2, <2>4, ResultAt DEF CallSucceeds, Serves, At, Pcs, Calls
  <2> QED BY <2>1, <2>2, <2>3, <2>4
<1>3. CASE CallFails(w)
  BY <1>1, <1>3, ResultAt DEF CallFails, Serves, At, Pcs, Calls
<1> QED BY <1>2, <1>3

LEMMA ReportSteps ==
    ASSUME TypeOK, WorkerInv, NEW w \in Workers, Conclude(w)
    PROVE  Reports(w)
<1>1. AfterRequest(w, IF work[w].ok THEN "ack" ELSE "nack", work[w].ok)
      /\ work[w].ok \in BOOLEAN /\ Counted
  BY WorkTypes, CountedNow DEF Conclude, WorkRecords
<1>2. /\ At(w, IF work[w].ok THEN "ack" ELSE "nack", work[w].ok)
      /\ breaker' \in Breakers /\ Counted'
  BY <1>1, AfterRequestAt DEF Pcs
<1> QED BY <1>2 DEF Conclude, Reports, Works, At, Free, broker, effects

-----------------------------------------------------------------------------
(* Types, and the records of a worker *)

LEMMA HoldsMessage ==
    ASSUME TypeOK, WorkerInv, NEW w \in Workers, ~Free(w)
    PROVE  work[w].msg \in Msgs
BY WorkTypes DEF WorkerInv, WorkerInvOf, WorkRecords

(* A worker only adds to what Oracle and downstream have. *)
LEMMA EffectsGrow ==
    ASSUME TypeOK, WorkerInv, NEW w \in Workers,
           Attempts(w) \/ Serves(w) \/ Reports(w)
    PROVE  /\ {applied', sent'} \subseteq SUBSET Msgs
           /\ sales' \in [Msgs -> Nat]
           /\ failures' \in [Msgs -> Nat]
           /\ \A m \in Msgs : /\ sales'[m] >= sales[m]
                              /\ Completed(m) => Completed(m)'
<1>1. Works(w) /\ work[w].msg \in Msgs
  BY HoldsMessage DEF Attempts, Serves, Reports, Works
<1>2. /\ {applied', sent'} \subseteq SUBSET Msgs
      /\ sales' \in [Msgs -> Nat]
      /\ applied \subseteq applied' /\ sent \subseteq sent'
      /\ \A m \in Msgs : sales'[m] >= sales[m]
  <2>1. CASE Effect(w)
    BY <1>1, <2>1 DEF Effect, TypeOK
  <2>2. CASE UNCHANGED <<applied, sales, sent>>
    BY <2>2 DEF TypeOK
  <2> QED BY <2>1, <2>2 DEF Attempts, Serves, Reports
<1>3. failures' \in [Msgs -> Nat]
  BY <1>1 DEF Attempts, Serves, Reports, TypeOK
<1>4. ASSUME NEW m \in Msgs, Completed(m)
      PROVE  Completed(m)'
  BY <1>1, <1>2, <1>4 DEF Completed, Works, TypeOK
<1> QED BY <1>2, <1>3, <1>4

LEMMA WorkType ==
    ASSUME TypeOK, WorkerInv, NEW w \in Workers,
           Attempts(w) \/ Serves(w) \/ Reports(w)
    PROVE  TypeOK'
<1>1. Works(w)
  BY DEF Attempts, Serves, Reports
<1> QED BY <1>1, EffectsGrow DEF Works, At, WorkRecords, Breakers, TypeOK

LEMMA OthersWork ==
    ASSUME TypeOK, WorkerInv, NEW v \in Workers, Keeps(v), Counted',
           UNCHANGED kind, work[v].msg # None => work[v].msg \in Msgs,
           alive'[v] = alive[v], buffer'[v] = buffer[v],
           \A m \in Msgs : sales'[m] >= sales[m] /\ (Completed(m) => Completed(m)'),
           sales \in [Msgs -> Nat], sales' \in [Msgs -> Nat]
    PROVE  WorkerInvOf(v)'
<1>1. PICK m : m = work[v].msg
  OBVIOUS
<1>2. /\ WorkerInvOf(v) /\ work'[v].pc = work[v].pc /\ work'[v].msg = m
      /\ work'[v].ok = work[v].ok
  BY <1>1 DEF WorkerInv, Keeps
<1>3. Free(v)' <=> Free(v)
  BY <1>2 DEF Free
<1>4. work[v].pc \in {"ack", "result", "sendOrderResult"} => m \in Msgs
  BY <1>1, <1>2 DEF WorkerInvOf, Free
<1>5. (Completed(m) /\ m \in Msgs => Completed(m)')
      /\ (sales[m] > 0 /\ m \in Msgs => sales'[m] > 0)
  OBVIOUS
<1> QED BY <1>1, <1>2, <1>3, <1>4, <1>5 DEF WorkerInvOf, Counted

LEMMA WorkWorker ==
    ASSUME TypeOK, WorkerInv, NEW w \in Workers,
           Attempts(w) \/ Serves(w) \/ Reports(w)
    PROVE  WorkerInv'
<1>1. Works(w)
  BY DEF Attempts, Serves, Reports
<1>2. PICK m \in Msgs : m = work[w].msg
  BY <1>1, HoldsMessage DEF Works
<1>3. ASSUME NEW v \in Workers \ {w}
      PROVE  WorkerInvOf(v)'
  <2>1. work[v].msg # None => work[v].msg \in Msgs
    BY WorkTypes DEF WorkRecords
  <2> QED BY <1>1, <2>1, OthersWork, EffectsGrow DEF Works, At, TypeOK
<1>4. WorkerInvOf(w)'
  <2>1. /\ WorkerInvOf(w) /\ work'[w].msg = m /\ m # None
        /\ ~Free(w)'
        /\ UNCHANGED <<kind, alive, buffer>>
        /\ work'[w].current => breaker'.state # "open"
    BY <1>1, <1>2, NoneAssumption DEF WorkerInv, Works, At, Counted
  <2>2. CASE Attempts(w)
    BY <1>2, <2>1, <2>2 DEF Attempts, WorkerInvOf, Free
  <2>3. CASE Serves(w)
    <3>1. CASE work'[w].pc = "result" /\ ~work'[w].ok
      BY <1>2, <2>1, <3>1 DEF WorkerInvOf, Free
    <3>2. CASE work[w].pc = "updPreOrderConsume" /\ work'[w].pc = "request2JualRandomWithID"
      BY <1>2, <2>1, <3>2 DEF WorkerInvOf, Free
    <3>3. CASE /\ work[w].pc = "request2JualRandomWithID" /\ Effect(w)
               /\ work'[w].pc = "sendOrderResult"
      <4>1. sales'[m] = sales[m] + 1 /\ sales[m] \in Nat
        BY <1>2, <3>3 DEF Effect, TypeOK
      <4>2. sales'[m] > 0
        BY <4>1
      <4> QED BY <1>2, <2>1, <3>3, <4>2 DEF WorkerInvOf, Free
    <3>4. CASE /\ work[w].pc \in {"settransactionstatus", "sendOrderResult"}
               /\ Effect(w) /\ work'[w].pc = "result"
      <4>1. Completed(m)'
        BY <1>2, <2>1, <3>4 DEF Effect, Completed, WorkerInvOf
      <4> QED BY <1>2, <2>1, <3>4, <4>1 DEF WorkerInvOf, Free
    <3> QED BY <2>3, <3>1, <3>2, <3>3, <3>4 DEF Serves
  <2>4. CASE Reports(w)
    <3>1. work[w].ok => Completed(m)'
      BY <1>2, <2>1, <2>4, EffectsGrow DEF Reports, WorkerInvOf
    <3> QED BY <1>2, <2>1, <2>4, <3>1 DEF Reports, WorkerInvOf, Free
  <2> QED BY <2>2, <2>3, <2>4
<1> QED BY <1>3, <1>4 DEF WorkerInv

-----------------------------------------------------------------------------
(* Where the broker has a message *)

LEMMA UnackedType ==
    ASSUME TypeOK, NEW w \in Workers
    PROVE  Unacked(w) \subseteq Msgs
<1>1. work[w].msg \in Msgs \cup {None}
  BY WorkTypes DEF WorkRecords
<1> QED BY <1>1 DEF TypeOK, Unacked, Hand

LEMMA SamePlaces ==
    ASSUME PlaceInv, UNCHANGED <<waiting, dead, returns>>,
           \A w \in Workers : Unacked(w)' \subseteq Unacked(w)
    PROVE  PlaceInv'
BY DEF PlaceInv

(* Messages that come back leave the workers, and those that came back too *)
(* often go to the dead letters. *)
LEMMA Returned ==
    ASSUME TypeOK, PlaceInv, NEW M \in SUBSET Msgs,
           \A m \in M : \E w \in Workers : m \in Unacked(w), Return(M)
    PROVE  /\ returns' \in [Msgs -> 0..(Limit + 1)]
           /\ {waiting', dead'} \subseteq SUBSET Msgs
           /\ M \cap waiting = {}
           /\ \A m \in M : returns'[m] = returns[m] + 1
           /\ \A m \in Msgs \ M : /\ returns'[m] = returns[m]
                                  /\ m \in waiting' <=> m \in waiting
           /\ (\A w \in Workers : Unacked(w)' \subseteq Unacked(w) \ M) => PlaceInv'
<1>1. /\ returns \in [Msgs -> 0..(Limit + 1)] /\ Limit \in Nat
      /\ waiting \subseteq Msgs /\ dead \subseteq Msgs
  BY BoundAssumption DEF TypeOK
<1>2. \A m \in M : m \notin waiting /\ m \notin dead /\ returns[m] <= Limit
  BY DEF PlaceInv
<1>3. /\ \A m \in M : returns'[m] = returns[m] + 1
      /\ \A m \in Msgs \ M : returns'[m] = returns[m]
      /\ waiting' = waiting \cup {m \in M : returns'[m] <= Limit}
      /\ dead' = dead \cup {m \in M : returns'[m] > Limit}
      /\ returns' = [m \in Msgs |-> IF m \in M THEN returns[m] + 1 ELSE returns[m]]
  BY DEF Return
<1>4. returns' \in [Msgs -> 0..(Limit + 1)]
  BY <1>1, <1>2, <1>3
<1>5. ASSUME \A w \in Workers : Unacked(w)' \subseteq Unacked(w) \ M
      PROVE  PlaceInv'
  <2>1. \A w \in Workers : \A m \in Unacked(w)' : m \notin waiting' \cup dead'
    BY <1>3, <1>5 DEF PlaceInv
  <2>2. \A w, v \in Workers : \A m \in Unacked(w)' \cap Unacked(v)' : w = v
    BY <1>5 DEF PlaceInv
  <2>3. waiting' \cap dead' = {}
    BY <1>1, <1>2, <1>3, <1>4 DEF PlaceInv
  <2>4. \A m \in Msgs \ dead' : returns'[m] <= Limit
    BY <1>1, <1>2, <1>3, <1>4 DEF PlaceInv
  <2> QED BY <2>1, <2>2, <2>3, <2>4 DEF PlaceInv
<1> QED BY <1>1, <1>2, <1>3, <1>4, <1>5

-----------------------------------------------------------------------------
(* The steps around a message: session, delivery, acknowledgement *)

LEMMA OpenAt ==
    ASSUME TypeOK, WorkerInv, NEW w \in Workers, OpenSession(w)
    PROVE  /\ work[w].pc = "off" /\ work'[w].pc \in {"idle", "ended"}
           /\ work[w].msg = None /\ buffer[w] = {}
           /\ At(w, work'[w].pc, work[w].ok)
           /\ ~work'[w].current \/ work[w].current
           /\ alive' \in [Workers -> BOOLEAN]
           /\ work'[w].pc = "idle" <=> alive'[w]
           /\ \A v \in Workers \ {w} : alive'[v] = alive[v] /\ work'[v] = work[v]
           /\ UNCHANGED <<kind, waiting, acked, dead, returns, buffer, breaker,
                          ctxDone, applied, sales, sent, failures, panics, losses>>
<1>1. /\ WorkerInvOf(w) /\ work[w].pc = "off"
      /\ alive \in [Workers -> BOOLEAN]
  BY DEF WorkerInv, TypeOK, OpenSession
<1>2. work[w].msg = None /\ buffer[w] = {} /\ ~alive[w]
  BY <1>1 DEF WorkerInvOf, Free
<1>3. CASE Goto(w, "ended") /\ UNCHANGED alive
  <2>1. At(w, "ended", work[w].ok) /\ work'[w].current = work[w].current
    BY <1>3, GotoAt DEF Pcs
  <2>2. \A v \in Workers \ {w} : work'[v] = work[v]
    BY <1>3, WorkTypes DEF Goto
  <2> QED BY <1>1, <1>2, <1>3, <2>1, <2>2 DEF OpenSession, At, effects
<1>4. CASE Goto(w, "idle") /\ alive' = [alive EXCEPT ![w] = TRUE]
  <2>1. At(w, "idle", work[w].ok) /\ work'[w].current = work[w].current
    BY <1>4, GotoAt DEF Pcs
  <2>2. \A v \in Workers \ {w} : work'[v] = work[v]
    BY <1>4, WorkTypes DEF Goto
  <2> QED BY <1>1, <1>2, <1>4, <2>1, <2>2 DEF OpenSession, At, effects
<1> QED BY <1>3, <1>4 DEF OpenSession

LEMMA TakeAt ==
    ASSUME TypeOK, WorkerInv, NEW w \in Workers, NEW m \in Msgs, Take(w, m)
    PROVE  /\ work[w].msg = None /\ work[w].pc = "idle"
           /\ work' \in [Workers -> WorkRecords]
           /\ work'[w].msg = m /\ work'[w].pc = "execute"
           /\ work'[w].current = work[w].current
           /\ \A v \in Workers \ {w} : work'[v] = work[v]
           /\ m \in buffer[w] /\ buffer' = [buffer EXCEPT ![w] = @ \ {m}]
           /\ buffer' \in [Workers -> SUBSET Msgs]
           /\ UNCHANGED <<kind, waiting, acked, dead, returns, alive, breaker,
                          ctxDone, applied, sales, sent, failures, panics, losses>>
<1>1. /\ work[w].pc = "idle" /\ WorkerInvOf(w) /\ m \in buffer[w]
      /\ buffer \in [Workers -> SUBSET Msgs]
  BY DEF Take, WorkerInv, TypeOK
<1>2. [work[w] EXCEPT !.pc = "execute", !.msg = m] \in WorkRecords
  BY WorkTypes DEF WorkRecords, Pcs
<1>3. /\ work' = [work EXCEPT ![w] = [@ EXCEPT !.pc = "execute", !.msg = m]]
      /\ buffer' = [buffer EXCEPT ![w] = @ \ {m}]
      /\ UNCHANGED <<kind, waiting, acked, dead, returns, alive, breaker,
                     ctxDone, applied, sales, sent, failures, panics, losses>>
  BY DEF Take, effects
<1>4. /\ work' \in [Workers -> WorkRecords]
      /\ work'[w].msg = m /\ work'[w].pc = "execute"
      /\ work'[w].current = work[w].current
      /\ \A v \in Workers \ {w} : work'[v] = work[v]
  BY <1>2, <1>3, WorkTypes DEF WorkRecords
<1>5. work[w].msg = None
  BY <1>1 DEF WorkerInvOf, Free
<1> QED BY <1>1, <1>3, <1>4, <1>5

(* What a worker has in hand and in its buffer, and what it may sell. *)
LEMMA SameUnacked ==
    ASSUME NEW w \in Workers, work'[w].msg = work[w].msg,
           alive'[w] = alive[w], buffer'[w] = buffer[w]
    PROVE  Unacked(w)' = Unacked(w)
BY DEF Unacked, Hand

LEMMA RestartAt ==
    ASSUME TypeOK, Restart
    PROVE  /\ work' \in [Workers -> WorkRecords]
           /\ \A w \in Workers : /\ work'[w].pc = "off" /\ work'[w].msg = None
                                 /\ ~work'[w].current
                                 /\ ~alive'[w] /\ buffer'[w] = {}
           /\ alive' \in [Workers -> BOOLEAN]
           /\ buffer' \in [Workers -> SUBSET Msgs]
           /\ breaker' \in Breakers /\ ~ctxDone'
           /\ UNCHANGED <<kind, acked, applied, sales, sent, failures>>
           /\ Return(UNION {Unacked(w) : w \in Workers})
<1>1. Breaker("closed") \in Breakers
  BY ParameterAssumption DEF Breaker, Breakers
<1> QED BY <1>1, OffTypes DEF Restart, Off, effects

LEMMA AllUnacked ==
    ASSUME TypeOK
    PROVE  /\ UNION {Unacked(w) : w \in Workers} \subseteq Msgs
           /\ \A m \in UNION {Unacked(w) : w \in Workers} :
                \E w \in Workers : m \in Unacked(w)
BY UnackedType

-----------------------------------------------------------------------------
(* The records and the places in every step *)

LEMMA InvStep ==
    ASSUME Inv, [Next]_vars
    PROVE  Inv'
<1>0. /\ TypeOK /\ WorkerInv /\ PlaceInv /\ Counted
  BY CountedNow DEF Inv
<1>1. ASSUME NEW w \in Workers, Attempts(w) \/ Serves(w) \/ Reports(w)
      PROVE  Inv'
  <2>1. Works(w)
    BY <1>1 DEF Attempts, Serves, Reports
  <2>2. \A v \in Workers : Unacked(v)' = Unacked(v)
    BY <2>1, SameUnacked DEF Works, At, Keeps
  <2>3. PlaceInv'
    BY <1>0, <2>1, <2>2, SamePlaces DEF Works
  <2> QED BY <1>0, <1>1, <2>3, WorkType, WorkWorker DEF Inv
<1>2. ASSUME NEW w \in Workers, OpenSession(w)
      PROVE  Inv'
  <2>1. TypeOK'
    BY <1>0, <1>2, OpenAt DEF TypeOK, At, WorkRecords
  <2>2. ASSUME NEW v \in Workers
        PROVE  WorkerInvOf(v)'
    <3>1. WorkerInvOf(v) /\ UNCHANGED <<kind, buffer, breaker, applied, sales, sent>>
      BY <1>0, <1>2, OpenAt DEF WorkerInv
    <3>2. CASE v = w
      BY <1>0, <1>2, <3>1, <3>2, OpenAt DEF WorkerInvOf, Free, At
    <3>3. CASE v # w
      BY <1>0, <1>2, <3>1, <3>3, OpenAt DEF WorkerInvOf, Free, Completed
    <3> QED BY <3>2, <3>3
  <2>3. \A v \in Workers : Unacked(v)' \subseteq Unacked(v)
    <3>1. Unacked(w)' = {}
      BY <1>0, <1>2, OpenAt DEF Unacked, Hand, At
    <3>2. \A v \in Workers \ {w} : Unacked(v)' = Unacked(v)
      BY <1>0, <1>2, OpenAt DEF Unacked, Hand
    <3> QED BY <3>1, <3>2
  <2> QED BY <1>0, <1>2, <2>1, <2>2, <2>3, OpenAt, SamePlaces DEF Inv, WorkerInv
<1>3. ASSUME NEW w \in Workers, NEW m \in Msgs, Push(w, m)
      PROVE  Inv'
  <2>1. /\ UNCHANGED <<kind, acked, dead, returns, alive, work, breaker, ctxDone,
                       applied, sales, sent, failures, panics, losses>>
        /\ alive[w] /\ m \in waiting /\ waiting' = waiting \ {m}
        /\ buffer' = [buffer EXCEPT ![w] = @ \cup {m}]
    BY <1>3 DEF Push, effects
  <2>2. TypeOK'
    BY <1>0, <2>1 DEF TypeOK
  <2>3. m \notin Unacked(w)
    BY <1>0, <2>1 DEF PlaceInv
  <2>4. /\ Unacked(w)' = Unacked(w) \cup {m}
        /\ \A v \in Workers \ {w} : Unacked(v)' = Unacked(v)
    BY <1>0, <2>1 DEF Unacked, Hand, TypeOK
  <2>5. PlaceInv'
    BY <1>0, <2>1, <2>4 DEF PlaceInv
  <2>6. ASSUME NEW v \in Workers
        PROVE  WorkerInvOf(v)'
    <3>1. /\ WorkerInvOf(v)
          /\ v # w => buffer'[v] = buffer[v]
          /\ v = w => buffer'[v] = buffer[v] \cup {m} /\ work[v].msg # m
      BY <1>0, <2>1, <2>3, NoneAssumption DEF WorkerInv, TypeOK, Unacked, Hand
    <3> QED BY <2>1, <3>1 DEF WorkerInvOf, Free, Completed
  <2> QED BY <2>2, <2>5, <2>6 DEF Inv, WorkerInv
<1>4. ASSUME NEW w \in Workers, NEW m \in Msgs, Take(w, m)
      PROVE  Inv'
  <2>1. TypeOK'
    BY <1>0, <1>4, TakeAt DEF TypeOK, WorkRecords
  <2>2. \A v \in Workers : Unacked(v)' \subseteq Unacked(v)
    <3>1. buffer \in [Workers -> SUBSET Msgs]
      BY <1>0 DEF TypeOK
    <3>2. ASSUME NEW v \in Workers \ {w}
          PROVE  Unacked(v)' = Unacked(v)
      <4>1. work'[v] = work[v] /\ buffer'[v] = buffer[v] /\ alive' = alive
        BY <1>0, <1>4, <3>1, <3>2, TakeAt
      <4> QED BY <4>1 DEF Unacked, Hand
    <3>3. Unacked(w)' \subseteq Unacked(w)
      BY <1>0, <1>4, <3>1, TakeAt DEF Unacked, Hand
    <3> QED BY <3>2, <3>3
  <2>3. ASSUME NEW v \in Workers
        PROVE  WorkerInvOf(v)'
    <3>1. /\ WorkerInvOf(v) /\ buffer \in [Workers -> SUBSET Msgs]
          /\ UNCHANGED <<kind, alive, breaker, applied, sales, sent>>
      BY <1>0, <1>4, TakeAt DEF WorkerInv, TypeOK
    <3>2. CASE v = w
      BY <1>0, <1>4, <3>1, <3>2, TakeAt, NoneAssumption DEF WorkerInvOf, Free
    <3>3. CASE v # w
      BY <1>0, <1>4, <3>1, <3>3, TakeAt DEF WorkerInvOf, Free, Completed
    <3> QED BY <3>2, <3>3
  <2> QED BY <1>0, <1>4, <2>1, <2>2, <2>3, TakeAt, SamePlaces DEF Inv, WorkerInv
<1>5. ASSUME NEW w \in Workers, EndSession(w)
      PROVE  Inv'
  <2>1. /\ Return(Unacked(w))
        /\ alive' = [alive EXCEPT ![w] = FALSE]
        /\ buffer' = [buffer EXCEPT ![w] = {}]
        /\ work' = [work EXCEPT ![w] = Off]
        /\ UNCHANGED <<kind, acked, breaker, ctxDone, applied, sales, sent,
                       failures, panics, losses>>
    BY <1>5 DEF EndSession, effects
  <2>2. Freed(w, "off")
    BY <1>0, <2>1, WorkTypes, OffTypes DEF Freed, Off
  <2>3. /\ alive' \in [Workers -> BOOLEAN] /\ buffer' \in [Workers -> SUBSET Msgs]
        /\ ~alive'[w] /\ buffer'[w] = {}
        /\ \A v \in Workers \ {w} : alive'[v] = alive[v] /\ buffer'[v] = buffer[v]
    BY <1>0, <2>1 DEF TypeOK
  <2>4. /\ Unacked(w)' = {}
        /\ \A v \in Workers \ {w} : Unacked(v)' = Unacked(v)
    BY <2>2, <2>3 DEF Unacked, Hand, Freed
  <2>5. \A v \in Workers : Unacked(v)' \subseteq Unacked(v) \ Unacked(w)
    BY <1>0, <2>4 DEF PlaceInv
  <2>6. /\ returns' \in [Msgs -> 0..(Limit + 1)]
        /\ {waiting', dead'} \subseteq SUBSET Msgs
        /\ PlaceInv'
    BY <1>0, <2>1, <2>5, UnackedType, Returned
  <2>7. TypeOK'
    BY <1>0, <2>1, <2>2, <2>3, <2>6 DEF TypeOK, Freed, WorkRecords
  <2>8. ASSUME NEW v \in Workers
        PROVE  WorkerInvOf(v)'
    <3>1. WorkerInvOf(v)
      BY <1>0 DEF WorkerInv
    <3>2. CASE v = w
      BY <2>2, <2>3, <3>2 DEF WorkerInvOf, Free, Freed
    <3>3. CASE v # w
      BY <2>1, <2>2, <2>3, <3>1, <3>3 DEF WorkerInvOf, Free, Freed, Completed
    <3> QED BY <3>2, <3>3
  <2> QED BY <2>6, <2>7, <2>8 DEF Inv, WorkerInv
<1>6. ASSUME NEW w \in Workers, Ack(w) \/ Nack(w)
      PROVE  Inv'
  <2>1. /\ Freed(w, "idle") /\ work[w].msg \in Msgs
        /\ work[w].pc \in {"ack", "nack"}
        /\ UNCHANGED <<kind, buffer, alive, breaker, ctxDone, applied, sales, sent,
                       failures, panics, losses>>
    BY <1>0, <1>6, DoneAt, HoldsMessage DEF Ack, Nack, Free, effects
  <2>2. ASSUME NEW v \in Workers
        PROVE  WorkerInvOf(v)'
    <3>1. WorkerInvOf(v) /\ buffer[v] \subseteq Msgs
      BY <1>0 DEF WorkerInv, TypeOK
    <3>2. CASE v = w
      BY <2>1, <3>1, <3>2, NoneAssumption DEF WorkerInvOf, Free, Freed
    <3>3. CASE v # w
      BY <2>1, <3>1, <3>3 DEF WorkerInvOf, Free, Freed, Completed
    <3> QED BY <3>2, <3>3
  <2>3. \A v \in Workers \ {w} : Unacked(v)' = Unacked(v)
    BY <2>1 DEF Unacked, Hand, Freed
  <2>4. Unacked(w)' = IF alive[w] THEN buffer[w] ELSE {}
    BY <2>1 DEF Unacked, Hand, Freed
  <2>5. CASE Ack(w)
    <3>1. UNCHANGED <<waiting, dead, returns>> /\ acked' \subseteq Msgs
      BY <1>0, <2>1, <2>5 DEF Ack, Hand, TypeOK
    <3>2. PlaceInv'
      BY <1>0, <2>3, <2>4, <3>1, SamePlaces DEF Unacked
    <3>3. TypeOK'
      BY <1>0, <2>1, <3>1 DEF TypeOK, Freed, WorkRecords
    <3> QED BY <2>2, <3>2, <3>3 DEF Inv, WorkerInv
  <2>6. CASE Nack(w)
    <3>1. PICK M : M = IF alive[w] THEN Hand(w) ELSE {}
      OBVIOUS
    <3>2. Return(M) /\ UNCHANGED acked
      BY <2>6, <3>1 DEF Nack
    <3>3. M \in SUBSET Msgs /\ \A m \in M : m \in Unacked(w)
      BY <2>1, <3>1 DEF Hand, Unacked
    <3>4. work[w].msg \notin buffer[w]
      BY <1>0 DEF WorkerInv, WorkerInvOf
    <3>5. \A v \in Workers : Unacked(v)' \subseteq Unacked(v) \ M
      <4>1. Unacked(w)' \subseteq Unacked(w) \ M
        BY <2>4, <3>1, <3>4 DEF Unacked, Hand
      <4>2. \A v \in Workers \ {w} : Unacked(v) \cap M = {}
        BY <1>0, <3>3 DEF PlaceInv
      <4> QED BY <2>3, <4>1, <4>2
    <3>6. /\ returns' \in [Msgs -> 0..(Limit + 1)]
          /\ {waiting', dead'} \subseteq SUBSET Msgs
          /\ PlaceInv'
      BY <1>0, <3>2, <3>3, <3>5, Returned
    <3>7. TypeOK'
      BY <1>0, <2>1, <3>2, <3>6 DEF TypeOK, Freed, WorkRecords
    <3> QED BY <2>2, <3>6, <3>7 DEF Inv, WorkerInv
  <2> QED BY <1>6, <2>5, <2>6
<1>7. CASE BreakerTimeout
  <2>1. UNCHANGED <<kind, waiting, acked, dead, returns, buffer, alive, ctxDone,
                    applied, sales, sent, failures, panics, losses>>
    BY <1>7 DEF BreakerTimeout, broker, effects
  <2>2. ASSUME NEW v \in Workers
        PROVE  /\ work'[v] \in WorkRecords /\ work'[v].pc = work[v].pc
               /\ work'[v].msg = work[v].msg /\ work'[v].ok = work[v].ok
               /\ ~work'[v].current
    <3>1. work'[v] = [work[v] EXCEPT !.current = FALSE] /\ work[v] \in WorkRecords
      BY <1>0, <1>7, WorkTypes DEF BreakerTimeout
    <3> QED BY <3>1 DEF WorkRecords
  <2>3. work' \in [Workers -> WorkRecords]
    BY <1>7, <2>2 DEF BreakerTimeout
  <2>4. breaker' \in Breakers
    <3>1. Breaker("closed") \in Breakers /\ Breaker("half-open") \in Breakers
      BY ParameterAssumption DEF Breaker, Breakers
    <3> QED BY <1>7, <3>1 DEF BreakerTimeout
  <2>5. TypeOK'
    BY <1>0, <2>1, <2>3, <2>4 DEF TypeOK, WorkRecords, Breakers
  <2>6. ASSUME NEW v \in Workers
        PROVE  WorkerInvOf(v)' /\ Unacked(v)' = Unacked(v)
    <3>1. WorkerInvOf(v)
      BY <1>0 DEF WorkerInv
    <3> QED BY <2>1, <2>2, <3>1, SameUnacked DEF WorkerInvOf, Free, Completed
  <2> QED BY <1>0, <2>1, <2>5, <2>6, SamePlaces DEF Inv, WorkerInv
<1>8. CASE ConnectionLost
  <2>1. /\ Return(UNION {Unacked(w) : w \in Workers})
        /\ alive' = [w \in Workers |-> FALSE] /\ losses' = losses + 1
        /\ UNCHANGED <<kind, acked, buffer, work, breaker, ctxDone, applied, sales,
                       sent, failures, panics>>
    BY <1>8 DEF ConnectionLost, effects
  <2>2. \A v \in Workers : Unacked(v)' = {}
    BY <2>1 DEF Unacked
  <2>3. /\ returns' \in [Msgs -> 0..(Limit + 1)]
        /\ {waiting', dead'} \subseteq SUBSET Msgs
        /\ PlaceInv'
    BY <1>0, <2>1, <2>2, AllUnacked, Returned
  <2>4. TypeOK'
    BY <1>0, <2>1, <2>3 DEF TypeOK
  <2>5. WorkerInv'
    BY <1>0, <2>1 DEF WorkerInv, WorkerInvOf, Free, Completed
  <2> QED BY <2>3, <2>4, <2>5 DEF Inv
<1>9. ASSUME Restart, {panics', losses'} \subseteq Nat
      PROVE  Inv'
  <2>1. \A v \in Workers : Unacked(v)' = {}
    BY <1>0, <1>9, RestartAt DEF Unacked
  <2>2. /\ returns' \in [Msgs -> 0..(Limit + 1)]
        /\ {waiting', dead'} \subseteq SUBSET Msgs
        /\ PlaceInv'
    BY <1>0, <1>9, <2>1, AllUnacked, RestartAt, Returned
  <2>3. TypeOK'
    <3>1. /\ UNCHANGED <<kind, acked, applied, sales, sent, failures>>
          /\ work' \in [Workers -> WorkRecords]
          /\ alive' \in [Workers -> BOOLEAN]
          /\ buffer' \in [Workers -> SUBSET Msgs]
          /\ breaker' \in Breakers
      BY <1>0, <1>9, RestartAt
    <3>2. ctxDone' \in BOOLEAN
      BY <1>9 DEF Restart
    <3> QED BY <1>0, <1>9, <2>2, <3>1, <3>2 DEF TypeOK, WorkRecords, Breakers
  <2>4. ASSUME NEW v \in Workers
        PROVE  WorkerInvOf(v)'
    BY <1>0, <1>9, RestartAt DEF WorkerInvOf, Free
  <2> QED BY <2>2, <2>3, <2>4 DEF Inv, WorkerInv
<1>10. CASE Shutdown \/ UNCHANGED vars
  <2>1. /\ UNCHANGED <<kind, waiting, acked, dead, returns, buffer, alive, work,
                       breaker, applied, sales, sent, failures, panics>>
        /\ ctxDone' \in BOOLEAN /\ losses' \in Nat
    <3>1. CASE Shutdown
      BY <1>0, <3>1 DEF Shutdown, broker, effects, TypeOK
    <3>2. CASE UNCHANGED vars
      BY <1>0, <3>2 DEF vars, broker, effects, TypeOK
    <3> QED BY <1>10, <3>1, <3>2
  <2>2. TypeOK'
    BY <1>0, <2>1 DEF TypeOK
  <2>3. WorkerInv'
    BY <1>0, <2>1 DEF WorkerInv, WorkerInvOf, Free, Completed
  <2>4. PlaceInv'
    BY <1>0, <2>1, SamePlaces DEF Unacked, Hand
  <2> QED BY <2>2, <2>3, <2>4 DEF Inv
<1>11. CASE Crash \/ Exit \/ \E w \in Workers : Panic(w)
  <2>1. Restart /\ {panics', losses'} \subseteq Nat
    BY <1>0, <1>11 DEF Crash, Exit, Panic, TypeOK
  <2> QED BY <1>9, <2>1
<1>12. ASSUME NEW w \in Workers, Step(w)
       PROVE  Inv'
  BY <1>0, <1>1, <1>2, <1>4, <1>5, <1>6, <1>11, <1>12, AttemptSteps, CallSteps,
     ReportSteps DEF Step
<1> QED BY <1>3, <1>7, <1>8, <1>10, <1>11, <1>12 DEF Next

LEMMA InitInv == Init => Inv
<1> SUFFICES ASSUME Init PROVE Inv
  OBVIOUS
<1>1. Breaker("closed") \in Breakers
  BY ParameterAssumption DEF Breaker, Breakers
<1>2. TypeOK
  <2>1. /\ work \in [Workers -> WorkRecords]
        /\ breaker \in Breakers
    BY <1>1, OffTypes DEF Init
  <2>2. /\ returns \in [Msgs -> 0..(Limit + 1)]
        /\ sales \in [Msgs -> Nat] /\ failures \in [Msgs -> Nat]
    BY BoundAssumption DEF Init
  <2>3. /\ {waiting, acked, dead, applied, sent} \subseteq SUBSET Msgs
        /\ buffer \in [Workers -> SUBSET Msgs]
        /\ kind \in [Msgs -> Kinds] /\ {panics, losses} \subseteq Nat
    BY DEF Init
  <2>4. alive \in [Workers -> BOOLEAN] /\ ctxDone \in BOOLEAN
    BY DEF Init
  <2> QED BY <2>1, <2>2, <2>3, <2>4 DEF TypeOK, WorkRecords, Breakers
<1>3. WorkerInv
  BY DEF Init, WorkerInv, WorkerInvOf, Free, Off
<1>4. PlaceInv
  BY BoundAssumption DEF Init, PlaceInv, Unacked
<1> QED BY <1>2, <1>3, <1>4 DEF Inv

(* Every worker's records agree, and every message has one place with the  *)
(* broker, in every reachable state.                                       *)
THEOREM InvCorrect == Spec => []Inv
<1>1. Inv /\ [Next]_vars => Inv'
  BY InvStep
<1> QED BY <1>1, InitInv, PTL DEF Spec

(* The types of every variable hold in every reachable state; in           *)
(* particular the breaker's counts never pass its limits.                  *)
THEOREM TypeCorrect == Spec => []TypeOK
<1>1. Inv => TypeOK
  BY DEF Inv
<1> QED BY <1>1, InvCorrect, PTL

-----------------------------------------------------------------------------
(* A message is deleted when its work is done *)

LEMMA AckedStep ==
    ASSUME Inv, AckedIsDone, [Next]_vars
    PROVE  AckedIsDone'
<1>0. /\ TypeOK /\ WorkerInv
      /\ acked \subseteq Msgs
  BY DEF Inv, TypeOK
<1>1. ASSUME \A m \in Msgs : Completed(m) => Completed(m)', acked' = acked
      PROVE  AckedIsDone'
  BY <1>0, <1>1 DEF AckedIsDone, Completed
<1>2. ASSUME NEW w \in Workers, Attempts(w) \/ Serves(w) \/ Reports(w)
      PROVE  AckedIsDone'
  BY <1>0, <1>1, <1>2, EffectsGrow DEF Attempts, Serves, Reports, Works
<1>3. ASSUME NEW w \in Workers, Ack(w)
      PROVE  AckedIsDone'
  <2>1. /\ UNCHANGED <<kind, applied, sales, sent>>
        /\ acked' \subseteq acked \cup {work[w].msg}
        /\ work[w].pc = "ack"
    BY <1>3 DEF Ack, Hand, effects
  <2>2. Completed(work[w].msg)
    BY <1>0, <2>1 DEF WorkerInv, WorkerInvOf
  <2> QED BY <2>1, <2>2 DEF AckedIsDone, Completed
<1>4. CASE UNCHANGED <<kind, acked, applied, sales, sent>>
  BY <1>4 DEF AckedIsDone
<1>5. ASSUME NEW w \in Workers, Step(w)
      PROVE  AckedIsDone'
  BY <1>0, <1>2, <1>3, <1>4, <1>5, AttemptSteps, CallSteps, ReportSteps
     DEF Step, OpenSession, Take, EndSession, Nack, Panic, Restart, effects
<1> QED BY <1>4, <1>5 DEF Next, Push, BreakerTimeout, ConnectionLost, Crash,
                          Shutdown, Exit, Restart, vars, broker, effects

(* No message is deleted whose work is undone, even if a worker whose      *)
(* channel died did a part of it and another one the rest.                 *)
THEOREM AckedCorrect == Spec => []AckedIsDone
<1>1. Init => AckedIsDone
  BY DEF Init, AckedIsDone
<1>2. Inv /\ AckedIsDone /\ [Next]_vars => AckedIsDone'
  BY AckedStep
<1> QED BY <1>1, <1>2, InvCorrect, PTL DEF Spec

-----------------------------------------------------------------------------
(* One sale per delivery *)

SaleTypes == /\ sales \in [Msgs -> Nat] /\ returns \in [Msgs -> Nat]

LEMMA SaleTyped == ASSUME TypeOK PROVE SaleTypes
BY BoundAssumption DEF TypeOK, SaleTypes

(* No delivery and no sale: those who may sell become fewer. *)
LEMMA SaleKeeps ==
    ASSUME TypeOK, SaleInv, UNCHANGED <<sales, returns>>,
           \A m \in Msgs : /\ Sellers(m)' \subseteq Sellers(m)
                           /\ m \in waiting' => m \in waiting
    PROVE  SaleInv'
<1> SUFFICES ASSUME NEW m \in Msgs
             PROVE  /\ IsFiniteSet(Sellers(m)')
                    /\ sales[m] + Cardinality(Sellers(m)') + One(m \in waiting')
                         <= returns[m] + 1
  BY DEF SaleInv, One
<1>1. /\ IsFiniteSet(Sellers(m))
      /\ sales[m] + Cardinality(Sellers(m)) + One(m \in waiting) <= returns[m] + 1
      /\ sales[m] \in Nat /\ returns[m] \in Nat
  BY SaleTyped DEF SaleInv, SaleTypes
<1>2. /\ IsFiniteSet(Sellers(m)')
      /\ Cardinality(Sellers(m)') <= Cardinality(Sellers(m))
  BY <1>1, FS_Subset
<1>3. Cardinality(Sellers(m)') \in Nat /\ Cardinality(Sellers(m)) \in Nat
  BY <1>1, <1>2, FS_CardinalityType
<1> QED BY <1>1, <1>2, <1>3 DEF One

(* A worker sells an order, and will not do so again for this delivery.    *)
LEMMA SaleSells ==
    ASSUME TypeOK, SaleInv, UNCHANGED <<waiting, returns>>,
           NEW w \in Workers, NEW o \in Msgs, w \in Sellers(o),
           sales' = [sales EXCEPT ![o] = @ + 1], w \notin Sellers(o)',
           \A m \in Msgs : Sellers(m)' \subseteq Sellers(m)
    PROVE  SaleInv'
<1> SUFFICES ASSUME NEW m \in Msgs
             PROVE  /\ IsFiniteSet(Sellers(m)')
                    /\ sales'[m] + Cardinality(Sellers(m)') + One(m \in waiting)
                         <= returns[m] + 1
  BY DEF SaleInv, One
<1>1. /\ IsFiniteSet(Sellers(m))
      /\ sales[m] + Cardinality(Sellers(m)) + One(m \in waiting) <= returns[m] + 1
      /\ sales[m] \in Nat /\ returns[m] \in Nat
      /\ sales'[m] = IF m = o THEN sales[m] + 1 ELSE sales[m]
  BY SaleTyped DEF SaleInv, SaleTypes
<1>2. CASE m # o
  <2>1. /\ IsFiniteSet(Sellers(m)')
        /\ Cardinality(Sellers(m)') <= Cardinality(Sellers(m))
    BY <1>1, FS_Subset
  <2>2. Cardinality(Sellers(m)') \in Nat /\ Cardinality(Sellers(m)) \in Nat
    BY <1>1, <2>1, FS_CardinalityType
  <2> QED BY <1>1, <1>2, <2>1, <2>2 DEF One
<1>3. CASE m = o
  <2>1. /\ IsFiniteSet(Sellers(m) \ {w})
        /\ Cardinality(Sellers(m) \ {w}) = Cardinality(Sellers(m)) - 1
    BY <1>1, <1>3, FS_RemoveElement
  <2>2. Sellers(m)' \subseteq Sellers(m) \ {w}
    BY <1>3
  <2>3. /\ IsFiniteSet(Sellers(m)')
        /\ Cardinality(Sellers(m)') <= Cardinality(Sellers(m) \ {w})
    BY <2>1, <2>2, FS_Subset
  <2>4. Cardinality(Sellers(m)') \in Nat /\ Cardinality(Sellers(m)) \in Nat
    BY <1>1, <2>3, FS_CardinalityType
  <2> QED BY <1>1, <1>3, <2>1, <2>3, <2>4 DEF One
<1> QED BY <1>2, <1>3

LEMMA OneMore ==
    ASSUME NEW S, IsFiniteSet(S), NEW x, NEW T \in SUBSET (S \cup {x})
    PROVE  /\ IsFiniteSet(T) /\ Cardinality(T) \in Nat
           /\ Cardinality(T) <= Cardinality(S) + 1
<1>1. PICK U : U = S \cup {x}
  OBVIOUS
<1>2. /\ IsFiniteSet(U)
      /\ Cardinality(U) = IF x \in S THEN Cardinality(S) ELSE Cardinality(S) + 1
  BY <1>1, FS_AddElement, Zenon
<1>3. T \in SUBSET U
  BY <1>1
<1>4. IsFiniteSet(T) /\ Cardinality(T) <= Cardinality(U)
  BY <1>2, <1>3, FS_Subset
<1>5. {Cardinality(S), Cardinality(T), Cardinality(U)} \subseteq Nat
  BY <1>2, <1>4, FS_CardinalityType
<1> QED BY <1>2, <1>4, <1>5

(* A delivery is one more who may sell. *)
LEMMA SalePushes ==
    ASSUME TypeOK, SaleInv, UNCHANGED <<sales, returns>>,
           NEW w \in Workers, NEW o \in Msgs, o \in waiting, waiting' = waiting \ {o},
           \A m \in Msgs : Sellers(m)' \subseteq IF m = o THEN Sellers(m) \cup {w}
                                                          ELSE Sellers(m)
    PROVE  SaleInv'
<1> SUFFICES ASSUME NEW m \in Msgs
             PROVE  /\ IsFiniteSet(Sellers(m)')
                    /\ sales[m] + Cardinality(Sellers(m)') + One(m \in waiting')
                         <= returns[m] + 1
  BY DEF SaleInv, One
<1>1. /\ IsFiniteSet(Sellers(m))
      /\ sales[m] + Cardinality(Sellers(m)) + One(m \in waiting) <= returns[m] + 1
      /\ sales[m] \in Nat /\ returns[m] \in Nat
  BY SaleTyped DEF SaleInv, SaleTypes
<1>2. Cardinality(Sellers(m)) \in Nat
  BY <1>1, FS_CardinalityType
<1>3. CASE m # o
  <2>1. Sellers(m)' \subseteq Sellers(m)
    BY <1>3
  <2>2. /\ IsFiniteSet(Sellers(m)')
        /\ Cardinality(Sellers(m)') <= Cardinality(Sellers(m))
    BY <1>1, <2>1, FS_Subset
  <2>3. Cardinality(Sellers(m)') \in Nat
    BY <2>2, FS_CardinalityType
  <2> QED BY <1>1, <1>2, <1>3, <2>2, <2>3 DEF One
<1>4. CASE m = o
  <2>1. Sellers(m)' \subseteq Sellers(m) \cup {w}
    BY <1>4
  <2>2. /\ IsFiniteSet(Sellers(m)') /\ Cardinality(Sellers(m)') \in Nat
        /\ Cardinality(Sellers(m)') <= Cardinality(Sellers(m)) + 1
    BY <1>1, <2>1, OneMore
  <2> QED BY <1>1, <1>2, <1>4, <2>2 DEF One
<1> QED BY <1>3, <1>4

(* A return is paid for by the count of returns. *)
LEMMA SaleReturns ==
    ASSUME TypeOK, PlaceInv, SaleInv, UNCHANGED sales, NEW M \in SUBSET Msgs,
           \A m \in M : \E w \in Workers : m \in Unacked(w), Return(M),
           \A m \in Msgs : Sellers(m)' \subseteq Sellers(m)
    PROVE  SaleInv'
<1> SUFFICES ASSUME NEW m \in Msgs
             PROVE  /\ IsFiniteSet(Sellers(m)')
                    /\ sales[m] + Cardinality(Sellers(m)') + One(m \in waiting')
                         <= returns'[m] + 1
  BY DEF SaleInv, One
<1>1. /\ IsFiniteSet(Sellers(m))
      /\ sales[m] + Cardinality(Sellers(m)) + One(m \in waiting) <= returns[m] + 1
      /\ sales[m] \in Nat /\ returns[m] \in Nat
  BY SaleTyped DEF SaleInv, SaleTypes
<1>2. /\ IsFiniteSet(Sellers(m)')
      /\ Cardinality(Sellers(m)') <= Cardinality(Sellers(m))
  BY <1>1, FS_Subset
<1>3. Cardinality(Sellers(m)') \in Nat /\ Cardinality(Sellers(m)) \in Nat
  BY <1>1, <1>2, FS_CardinalityType
<1>4. \/ m \in M /\ m \notin waiting /\ returns'[m] = returns[m] + 1
      \/ returns'[m] = returns[m] /\ (m \in waiting' <=> m \in waiting)
  BY Returned
<1> QED BY <1>1, <1>2, <1>3, <1>4 DEF One

LEMMA SaleStep ==
    ASSUME Inv, SaleInv, [Next]_vars
    PROVE  SaleInv'
<1>0. /\ TypeOK /\ WorkerInv /\ PlaceInv
      /\ buffer \in [Workers -> SUBSET Msgs]
  BY DEF Inv, TypeOK
<1>1. ASSUME NEW w \in Workers, Attempts(w) \/ Serves(w) \/ Reports(w)
      PROVE  SaleInv'
  <2>1. /\ Works(w)
        /\ UNCHANGED <<waiting, returns, buffer>>
        /\ \A v \in Workers \ {w} : Keeps(v)
        /\ work'[w].msg = work[w].msg
    BY <1>1 DEF Attempts, Serves, Reports, Works, At
  <2>2. Unsold(w)' => Unsold(w)
    BY <1>1 DEF Attempts, Serves, Reports, Unsold
  <2>3. \A v \in Workers : Unsold(v)' => Unsold(v)
    BY <2>1, <2>2 DEF Keeps, Unsold
  <2>4. \A m \in Msgs : Sellers(m)' \subseteq Sellers(m)
    BY <2>1, <2>3 DEF Sellers, Keeps
  <2>5. CASE UNCHANGED sales
    BY <1>0, <2>1, <2>4, <2>5, SaleKeeps
  <2>6. CASE ~UNCHANGED sales
    <3>1. PICK o \in Msgs : o = work[w].msg
      BY <1>0, <2>1, HoldsMessage DEF Works
    <3>2. /\ Serves(w) /\ work[w].pc = "request2JualRandomWithID"
          /\ sales' = [sales EXCEPT ![o] = @ + 1]
      BY <1>1, <2>6, <3>1 DEF Attempts, Serves, Reports, Effect
    <3>3. work'[w].pc \in {"sendOrderResult", "result"}
      BY <3>2 DEF Serves
    <3>4. w \in Sellers(o)
      BY <3>1, <3>2 DEF Sellers, Unsold
    <3>5. o \notin buffer[w]
      BY <1>0, <3>1 DEF WorkerInv, WorkerInvOf
    <3>6. w \notin Sellers(o)'
      BY <2>1, <3>3, <3>5 DEF Sellers, Unsold
    <3> QED BY <1>0, <2>1, <2>4, <3>2, <3>4, <3>6, SaleSells
  <2> QED BY <2>5, <2>6
<1>2. ASSUME NEW w \in Workers, OpenSession(w)
      PROVE  SaleInv'
  <2>1. \A m \in Msgs : Sellers(m)' \subseteq Sellers(m)
    BY <1>0, <1>2, OpenAt DEF Sellers, Unsold
  <2> QED BY <1>0, <1>2, <2>1, OpenAt, SaleKeeps
<1>3. ASSUME NEW w \in Workers, NEW o \in Msgs, Push(w, o)
      PROVE  SaleInv'
  <2>1. /\ UNCHANGED <<returns, work, sales>>
        /\ o \in waiting /\ waiting' = waiting \ {o}
        /\ buffer' = [buffer EXCEPT ![w] = @ \cup {o}]
    BY <1>3 DEF Push, effects
  <2>2. \A m \in Msgs : Sellers(m)' \subseteq IF m = o THEN Sellers(m) \cup {w}
                                                       ELSE Sellers(m)
    BY <1>0, <2>1 DEF Sellers, Unsold
  <2> QED BY <1>0, <2>1, <2>2, SalePushes
<1>4. ASSUME NEW w \in Workers, NEW o \in Msgs, Take(w, o)
      PROVE  SaleInv'
  <2>1. \A m \in Msgs : Sellers(m)' \subseteq Sellers(m)
    BY <1>0, <1>4, TakeAt DEF Sellers, Unsold
  <2> QED BY <1>0, <1>4, <2>1, TakeAt, SaleKeeps
<1>5. ASSUME NEW w \in Workers, EndSession(w)
      PROVE  SaleInv'
  <2>1. /\ Return(Unacked(w)) /\ UNCHANGED sales
        /\ buffer' = [buffer EXCEPT ![w] = {}]
        /\ work' = [work EXCEPT ![w] = Off]
    BY <1>5 DEF EndSession, effects
  <2>2. \A m \in Msgs : Sellers(m)' \subseteq Sellers(m)
    BY <1>0, <2>1, WorkTypes DEF Sellers, Unsold, Off
  <2> QED BY <1>0, <2>1, <2>2, UnackedType, SaleReturns
<1>6. ASSUME NEW w \in Workers, Ack(w) \/ Nack(w)
      PROVE  SaleInv'
  <2>1. Freed(w, "idle") /\ UNCHANGED <<buffer, sales>> /\ work[w].msg \in Msgs
    BY <1>0, <1>6, DoneAt, HoldsMessage DEF Ack, Nack, Free, effects
  <2>2. \A m \in Msgs : Sellers(m)' \subseteq Sellers(m)
    BY <2>1 DEF Sellers, Unsold, Freed
  <2>3. CASE Ack(w)
    BY <1>0, <2>1, <2>2, <2>3, SaleKeeps DEF Ack
  <2>4. CASE Nack(w)
    <3>1. PICK M : M = IF alive[w] THEN Hand(w) ELSE {}
      OBVIOUS
    <3>2. /\ Return(M) /\ M \in SUBSET Msgs
          /\ \A m \in M : m \in Unacked(w)
      BY <2>1, <2>4, <3>1 DEF Nack, Hand, Unacked
    <3> QED BY <1>0, <2>1, <2>2, <3>2, SaleReturns
  <2> QED BY <1>6, <2>3, <2>4
<1>7. ASSUME Return(UNION {Unacked(w) : w \in Workers}), UNCHANGED sales,
             \A m \in Msgs : Sellers(m)' \subseteq Sellers(m)
      PROVE  SaleInv'
  BY <1>0, <1>7, AllUnacked, SaleReturns
<1>8. CASE ConnectionLost
  <2>1. \A m \in Msgs : Sellers(m)' \subseteq Sellers(m)
    BY <1>8 DEF ConnectionLost, Sellers, Unsold
  <2> QED BY <1>7, <1>8, <2>1 DEF ConnectionLost, effects
<1>9. CASE Restart
  <2>1. \A m \in Msgs : Sellers(m)' \subseteq Sellers(m)
    BY <1>0, <1>9, RestartAt DEF Sellers, Unsold
  <2> QED BY <1>0, <1>7, <1>9, <2>1, RestartAt
<1>10. ASSUME UNCHANGED <<sales, returns, buffer, waiting>>,
              \A v \in Workers : work'[v].pc = work[v].pc /\ work'[v].msg = work[v].msg
       PROVE  SaleInv'
  <2>1. \A m \in Msgs : Sellers(m)' \subseteq Sellers(m)
    BY <1>10 DEF Sellers, Unsold
  <2> QED BY <1>0, <1>10, <2>1, SaleKeeps
<1>11. CASE BreakerTimeout
  <2>1. ASSUME NEW v \in Workers
        PROVE  work'[v].pc = work[v].pc /\ work'[v].msg = work[v].msg
    <3>1. work'[v] = [work[v] EXCEPT !.current = FALSE] /\ work[v] \in WorkRecords
      BY <1>0, <1>11, WorkTypes DEF BreakerTimeout
    <3> QED BY <3>1 DEF WorkRecords
  <2> QED BY <1>10, <1>11, <2>1 DEF BreakerTimeout, broker, effects
<1>12. CASE Shutdown \/ UNCHANGED vars
  BY <1>10, <1>12 DEF Shutdown, vars, broker, effects
<1>13. ASSUME NEW w \in Workers, Step(w)
       PROVE  SaleInv'
  BY <1>0, <1>1, <1>2, <1>4, <1>5, <1>6, <1>9, <1>13, AttemptSteps, CallSteps,
     ReportSteps DEF Step, Panic
<1> QED BY <1>3, <1>8, <1>9, <1>11, <1>12, <1>13 DEF Next, Crash, Exit

LEMMA SaleInit == Init => SaleInv
<1> SUFFICES ASSUME Init, NEW m \in Msgs
             PROVE  /\ IsFiniteSet(Sellers(m))
                    /\ sales[m] + Cardinality(Sellers(m)) + One(m \in waiting)
                         <= returns[m] + 1
  BY DEF SaleInv
<1>1. Sellers(m) = {}
  BY NoneAssumption DEF Init, Sellers, Unsold, Off
<1> QED BY <1>1, FS_EmptySet DEF Init, One

LEMMA SaleBound ==
    ASSUME TypeOK, SaleInv
    PROVE  OneSalePerDelivery
<1> SUFFICES ASSUME NEW m \in Msgs PROVE sales[m] <= returns[m] + 1
  BY DEF OneSalePerDelivery
<1>1. /\ IsFiniteSet(Sellers(m))
      /\ sales[m] + Cardinality(Sellers(m)) + One(m \in waiting) <= returns[m] + 1
      /\ sales[m] \in Nat /\ returns[m] \in Nat
  BY SaleTyped DEF SaleInv, SaleTypes
<1>2. Cardinality(Sellers(m)) \in Nat
  BY <1>1, FS_CardinalityType
<1> QED BY <1>1, <1>2 DEF One

(* However many workers hold an order on channels that died, it is sold at *)
(* most once per delivery: each delivery has one worker to itself.         *)
THEOREM SaleCorrect == Spec => []OneSalePerDelivery
<1>1. Inv /\ SaleInv /\ [Next]_vars => SaleInv'
  BY SaleStep
<1>2. Inv /\ SaleInv => OneSalePerDelivery
  BY SaleBound DEF Inv
<1> QED BY <1>1, <1>2, SaleInit, InvCorrect, PTL DEF Spec

-----------------------------------------------------------------------------
(* Holding costs no deliveries *)

LEMMA ReturnsTyped ==
    ASSUME TypeOK
    PROVE  /\ returns \in [Msgs -> Nat] /\ failures \in [Msgs -> Nat]
           /\ panics \in Nat /\ losses \in Nat
BY BoundAssumption DEF TypeOK

(* Two workers on live channels never hold the same message. *)
LEMMA OneHolder ==
    ASSUME PlaceInv, NEW v \in Workers, NEW w \in Workers, alive[v], alive[w],
           work[v].msg = work[w].msg, work[w].msg # None
    PROVE  v = w
BY DEF PlaceInv, Unacked, Hand

(* A step that returns nothing and fails nothing. *)
LEMMA FreeKeeps ==
    ASSUME TypeOK, FreeInv, UNCHANGED <<returns, failures, panics, losses>>,
           ctxDone' = ctxDone,
           losses = 0 => \A w \in Workers :
             /\ work'[w].pc \notin {"off", "ended"} => alive'[w]
             /\ work'[w].pc = "nack" => /\ work[w].pc = "nack"
                                        /\ work'[w].msg = work[w].msg
    PROVE  FreeInv'
<1>1. ASSUME losses = 0, NEW m \in Msgs
      PROVE  returns[m] + One(Returning(m)') <= failures[m] + panics
  <2>1. Returning(m)' => Returning(m)
    BY <1>1 DEF Returning
  <2>2. /\ returns[m] + One(Returning(m)) <= failures[m] + panics
        /\ {returns[m], failures[m], panics} \subseteq Nat
    BY <1>1, ReturnsTyped DEF FreeInv
  <2> QED BY <2>1, <2>2 DEF One
<1> QED BY <1>1 DEF FreeInv, One

LEMMA FreeStep ==
    ASSUME Inv, FreeInv, [Next]_vars
    PROVE  FreeInv'
<1>0. /\ TypeOK /\ WorkerInv /\ PlaceInv
      /\ losses \in Nat
      /\ ctxDone => losses # 0
      /\ losses = 0 => \A w \in Workers : work[w].pc \notin {"off", "ended"} => alive[w]
  BY DEF Inv, TypeOK, FreeInv
<1>1. ASSUME losses' > 0
      PROVE  FreeInv'
  BY <1>1 DEF FreeInv
<1>2. ASSUME NEW w \in Workers, Attempts(w) \/ Serves(w)
      PROVE  FreeInv'
  <2>1. Works(w) /\ UNCHANGED failures
    BY <1>2 DEF Attempts, Serves
  <2>2. work'[w].pc = "nack" => ctxDone
    BY <1>2 DEF Attempts, Serves
  <2>3. \A v \in Workers \ {w} : work'[v].pc = work[v].pc /\ work'[v].msg = work[v].msg
    BY <2>1 DEF Works, At, Keeps
  <2>4. UNCHANGED <<returns, panics, losses, ctxDone, alive>> /\ ~Free(w)
    BY <2>1 DEF Works
  <2> QED BY <1>0, <2>1, <2>2, <2>3, <2>4, FreeKeeps DEF Free
<1>3. ASSUME NEW w \in Workers, Reports(w)
      PROVE  FreeInv'
  <2>1. /\ \A v \in Workers \ {w} : work'[v].pc = work[v].pc /\ work'[v].msg = work[v].msg
        /\ UNCHANGED <<returns, panics, losses, ctxDone, alive>>
        /\ work[w].pc = "result" /\ work'[w].msg = work[w].msg
        /\ work'[w].pc = IF work[w].ok THEN "ack" ELSE "nack"
        /\ failures' = IF work[w].ok THEN failures
                       ELSE [failures EXCEPT ![work[w].msg] = @ + 1]
    BY <1>3 DEF Reports, Works, At, Keeps
  <2>2. CASE work[w].ok
    BY <1>0, <2>1, <2>2, FreeKeeps
  <2>3. CASE ~work[w].ok /\ losses = 0
    <3>1. PICK o \in Msgs : o = work[w].msg
      BY <1>0, <2>1, HoldsMessage DEF Free
    <3>2. failures' = [failures EXCEPT ![o] = @ + 1]
      BY <2>1, <2>3, <3>1
    <3>3. ~Returning(o)
      <4>1. ASSUME NEW v \in Workers, work[v].pc = "nack", work[v].msg = o
            PROVE  FALSE
        <5>1. alive[v] /\ alive[w] /\ v # w
          BY <1>0, <2>1, <2>3, <4>1
        <5> QED BY <1>0, <3>1, <4>1, <5>1, OneHolder, NoneAssumption
      <4> QED BY <4>1 DEF Returning
    <3>4. ASSUME NEW m \in Msgs
          PROVE  returns[m] + One(Returning(m)') <= failures'[m] + panics
      <4>1. /\ returns[m] + One(Returning(m)) <= failures[m] + panics
            /\ {returns[m], failures[m], panics} \subseteq Nat
            /\ failures'[m] = IF m = o THEN failures[m] + 1 ELSE failures[m]
        BY <1>0, <2>3, <3>2, ReturnsTyped DEF FreeInv
      <4>2. m # o => (Returning(m)' => Returning(m))
        BY <2>1, <3>1 DEF Returning
      <4> QED BY <3>3, <4>1, <4>2 DEF One
    <3> QED BY <1>0, <2>1, <2>3, <3>4 DEF FreeInv, One
  <2>4. CASE losses # 0
    BY <1>0, <1>1, <2>1, <2>4
  <2> QED BY <2>2, <2>3, <2>4
<1>4. ASSUME NEW w \in Workers, OpenSession(w)
      PROVE  FreeInv'
  BY <1>0, <1>4, OpenAt, FreeKeeps
<1>5. ASSUME NEW w \in Workers, NEW m \in Msgs, Push(w, m)
      PROVE  FreeInv'
  BY <1>0, <1>5, FreeKeeps DEF Push
<1>6. ASSUME NEW w \in Workers, NEW m \in Msgs, Take(w, m)
      PROVE  FreeInv'
  BY <1>0, <1>6, TakeAt, FreeKeeps
<1>7. ASSUME NEW w \in Workers, EndSession(w)
      PROVE  FreeInv'
  <2>1. losses # 0 /\ losses' = losses
    BY <1>0, <1>7 DEF EndSession
  <2> QED BY <1>0, <1>1, <2>1
<1>8. ASSUME NEW w \in Workers, Ack(w)
      PROVE  FreeInv'
  <2>1. Freed(w, "idle")
    BY <1>0, <1>8, DoneAt DEF Ack
  <2> QED BY <1>0, <1>8, <2>1, FreeKeeps DEF Ack, Freed
<1>9. ASSUME NEW w \in Workers, Nack(w)
      PROVE  FreeInv'
  <2>1. /\ Freed(w, "idle") /\ work[w].pc = "nack"
        /\ Return(IF alive[w] THEN Hand(w) ELSE {})
        /\ UNCHANGED <<alive, ctxDone, failures, panics, losses>>
    BY <1>0, <1>9, DoneAt DEF Nack
  <2>2. CASE losses # 0
    BY <1>0, <1>1, <2>1, <2>2
  <2>3. CASE losses = 0
    <3>1. PICK o \in Msgs : o = work[w].msg
      BY <1>0, <2>1, HoldsMessage DEF Free
    <3>2. Hand(w) = {o} /\ alive[w]
      BY <1>0, <2>1, <2>3, <3>1, NoneAssumption DEF Hand
    <3>3. returns' = [m \in Msgs |-> IF m \in {o} THEN returns[m] + 1 ELSE returns[m]]
      BY <2>1, <3>2 DEF Return
    <3>4. ASSUME NEW m \in Msgs
          PROVE  returns'[m] + One(Returning(m)') <= failures[m] + panics
      <4>1. /\ returns[m] + One(Returning(m)) <= failures[m] + panics
            /\ {returns[m], failures[m], panics} \subseteq Nat
            /\ returns'[m] = IF m = o THEN returns[m] + 1 ELSE returns[m]
        BY <1>0, <2>3, <3>3, ReturnsTyped DEF FreeInv
      <4>2. Returning(m)' => Returning(m)
        BY <2>1 DEF Returning, Freed
      <4>3. Returning(o)
        BY <2>1, <3>1 DEF Returning
      <4>4. ~Returning(o)'
        <5>1. ASSUME NEW v \in Workers, work'[v].pc = "nack", work'[v].msg = o
              PROVE  FALSE
          <6>1. v # w /\ work[v].pc = "nack" /\ work[v].msg = o
            BY <2>1, <5>1 DEF Freed
          <6>2. alive[v]
            BY <1>0, <2>3, <6>1
          <6> QED BY <1>0, <3>1, <3>2, <6>1, <6>2, OneHolder, NoneAssumption
        <5> QED BY <5>1 DEF Returning
      <4> QED BY <4>1, <4>2, <4>3, <4>4 DEF One
    <3>5. \A v \in Workers : work'[v].pc \notin {"off", "ended"} => alive[v]
      BY <1>0, <2>1, <2>3, <3>2 DEF Freed
    <3> QED BY <1>0, <2>1, <2>3, <3>4, <3>5 DEF FreeInv, One
  <2> QED BY <2>2, <2>3
<1>10. ASSUME NEW w \in Workers, Panic(w)
       PROVE  FreeInv'
  <2>1. /\ Restart /\ panics' = panics + 1 /\ losses' = losses
        /\ UNCHANGED failures
    BY <1>10 DEF Panic, Restart
  <2>2. CASE losses # 0
    BY <1>0, <1>1, <2>1, <2>2
  <2>3. CASE losses = 0
    <3>1. \A v \in Workers : work'[v].pc = "off"
      BY <1>0, <2>1, RestartAt
    <3>2. ASSUME NEW m \in Msgs
          PROVE  returns'[m] + One(Returning(m)') <= failures[m] + panics'
      <4>1. /\ returns[m] + One(Returning(m)) <= failures[m] + panics
            /\ {returns[m], failures[m], panics} \subseteq Nat
        BY <1>0, <2>3, ReturnsTyped DEF FreeInv
      <4>2. returns'[m] \in {returns[m], returns[m] + 1}
        BY <2>1 DEF Restart, Return
      <4>3. ~Returning(m)'
        BY <3>1 DEF Returning
      <4> QED BY <2>1, <4>1, <4>2, <4>3 DEF One
    <3>3. ~ctxDone'
      BY <1>0, <2>1, RestartAt
    <3> QED BY <2>1, <3>1, <3>2, <3>3 DEF FreeInv, One
  <2> QED BY <2>2, <2>3
<1>11. CASE ConnectionLost \/ Crash \/ Shutdown
  <2>1. losses' = losses + 1
    BY <1>11 DEF ConnectionLost, Crash, Shutdown
  <2> QED BY <1>0, <1>1, <2>1
<1>12. CASE Exit
  <2>1. losses # 0 /\ losses' = losses
    BY <1>0, <1>12 DEF Exit
  <2> QED BY <1>0, <1>1, <2>1
<1>13. CASE BreakerTimeout
  <2>1. ASSUME NEW v \in Workers
        PROVE  work'[v].pc = work[v].pc /\ work'[v].msg = work[v].msg
    <3>1. work'[v] = [work[v] EXCEPT !.current = FALSE] /\ work[v] \in WorkRecords
      BY <1>0, <1>13, WorkTypes DEF BreakerTimeout
    <3> QED BY <3>1 DEF WorkRecords
  <2> QED BY <1>0, <1>13, <2>1, FreeKeeps DEF BreakerTimeout, broker
<1>14. CASE UNCHANGED vars
  BY <1>0, <1>14, FreeKeeps DEF vars, broker
<1>15. ASSUME NEW w \in Workers, Step(w)
       PROVE  FreeInv'
  BY <1>0, <1>2, <1>3, <1>4, <1>6, <1>7, <1>8, <1>9, <1>10, <1>15, AttemptSteps,
     CallSteps, ReportSteps DEF Step
<1> QED BY <1>5, <1>11, <1>12, <1>13, <1>14, <1>15 DEF Next

LEMMA FreeInit == Init => FreeInv
<1> SUFFICES ASSUME Init PROVE FreeInv
  OBVIOUS
<1>1. \A w \in Workers : work[w].pc = "off"
  BY DEF Init, Off
<1>2. \A m \in Msgs : ~Returning(m)
  BY <1>1 DEF Returning
<1> QED BY <1>1, <1>2 DEF Init, FreeInv, One

LEMMA FreeBound ==
    ASSUME TypeOK, FreeInv
    PROVE  HoldIsFree
<1> SUFFICES ASSUME NEW m \in Msgs, losses = 0
             PROVE  returns[m] <= failures[m] + panics
  BY DEF HoldIsFree
<1>1. /\ returns[m] + One(Returning(m)) <= failures[m] + panics
      /\ {returns[m], failures[m], panics} \subseteq Nat
  BY ReturnsTyped DEF FreeInv
<1> QED BY <1>1 DEF One

(* As long as nothing is lost a message only comes back for an attempt at  *)
(* it that failed, or a worker that panicked: waiting for the breaker does *)
(* not use up its deliveries.                                              *)
THEOREM HoldCorrect == Spec => []HoldIsFree
<1>1. Inv /\ FreeInv /\ [Next]_vars => FreeInv'
  BY FreeStep
<1>2. Inv /\ FreeInv => HoldIsFree
  BY FreeBound DEF Inv
<1> QED BY <1>1, <1>2, FreeInit, InvCorrect, PTL DEF Spec

=============================================================================
