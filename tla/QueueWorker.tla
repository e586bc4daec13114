----------------------------- MODULE QueueWorker -----------------------------
(***************************************************************************)
(* pps-services-consumer-database: workers that take orders and provider   *)
(* statuses from quorum queues, hand them to Oracle and the downstream     *)
(* API, and acknowledge or return them.  All workers of the process share  *)
(* one circuit breaker (sony/gobreaker); a message it refuses is held,     *)
(* unacknowledged, until the breaker is no longer open.  The broker counts *)
(* how often a message comes back and dead-letters it beyond a limit.      *)
(***************************************************************************)
EXTENDS Naturals, FiniteSets

CONSTANTS
    Msgs, Workers,
    queueOf, serves,  \* the queue of a message, of a worker
    None,
    Prefetch,     \* rabbitmq.consumer.prefetch
    Limit,        \* x-delivery-limit of the queues
    Threshold,    \* circuit_breaker.failure_threshold
    MaxRequests,  \* circuit_breaker.max_requests
    MaxLosses     \* bound: lost connections, crashes, shutdowns

ASSUME NoneAssumption      == None \notin Msgs
ASSUME ParameterAssumption == {Prefetch, Threshold, MaxRequests} \subseteq Nat \ {0}
ASSUME BoundAssumption     == {Limit, MaxLosses} \subseteq Nat

VARIABLES
    kind,      \* per message: what it holds
    waiting,   \* messages in their queues
    acked,     \* messages the broker has deleted
    dead,      \* messages in the dead-letter queues
    returns,   \* per message: how often it came back to its queue
    buffer,    \* per worker: messages delivered to its channel, not yet read
    alive,     \* per worker: its channel is open
    work,      \* per worker: its place in processMessage
    breaker,   \* the circuit breaker with the counts of its generation
    ctxDone,   \* a signal cancelled the context
    applied,   \* statuses Oracle took (external)
    sales,     \* per order: executions of request2JualRandomWithID (external)
    sent,      \* orders the downstream API took (external)
    failures,  \* history, per message: attempts at it that failed
    panics, losses

effects == <<applied, sales, sent>>
broker  == <<waiting, acked, dead, returns, buffer, alive>>
vars == <<kind, broker, work, breaker, ctxDone, effects, failures, panics,
          losses>>

(* A provider status; an order; a message that cannot be decoded or has an *)
(* unknown source; a provider message of type game, of an unknown type or  *)
(* without the header, for which no procedure is called.                   *)
Kinds == {"status", "order", "poison", "nil"}

(* The stored procedure or call a worker is in, by name. *)
Calls == {"settransactionstatus", "updPreOrderConsume",
          "request2JualRandomWithID", "sendOrderResult"}
Pcs == {"off", "idle", "execute", "route", "result", "ack", "nack", "hold",
        "ended"} \cup Calls

(* current: the breaker has not changed its generation since the request. *)
Off == [pc |-> "off", msg |-> None, ok |-> FALSE, current |-> FALSE]
Breaker(state) == [state |-> state, requests |-> 0, successes |-> 0,
                   failures |-> 0]

Init ==
    /\ kind \in [Msgs -> Kinds]
    /\ waiting = Msgs
    /\ acked = {} /\ dead = {}
    /\ returns = [m \in Msgs |-> 0]
    /\ buffer = [w \in Workers |-> {}]
    /\ alive = [w \in Workers |-> FALSE]
    /\ work = [w \in Workers |-> Off]
    /\ breaker = Breaker("closed")
    /\ ctxDone = FALSE
    /\ applied = {} /\ sent = {}
    /\ sales = [m \in Msgs |-> 0]
    /\ failures = [m \in Msgs |-> 0]
    /\ panics = 0
    /\ losses = 0

-----------------------------------------------------------------------------
(* Helpers *)

Hand(w) == IF work[w].msg = None THEN {} ELSE {work[w].msg}
(* What the broker counts against the prefetch limit of a worker. *)
Unacked(w) == IF alive[w] THEN buffer[w] \cup Hand(w) ELSE {}

(* Messages come back to their queue, or have done so too often. *)
Return(M) ==
    /\ returns' = [m \in Msgs |-> IF m \in M THEN returns[m] + 1 ELSE returns[m]]
    /\ waiting' = waiting \cup {m \in M : returns'[m] <= Limit}
    /\ dead' = dead \cup {m \in M : returns'[m] > Limit}

Goto(w, pc) == work' = [work EXCEPT ![w].pc = pc]
Done(w) == work' = [work EXCEPT ![w] = [Off EXCEPT !.pc = "idle"]]

-----------------------------------------------------------------------------
(* workerLoop and consumeOnce *)

(* GetConnection, EnsureQueue, Qos and Consume; failing leaves it off. *)
OpenSession(w) ==
    /\ work[w].pc = "off"
    /\ IF ctxDone THEN Goto(w, "ended") /\ UNCHANGED alive
                  ELSE Goto(w, "idle") /\ alive' = [alive EXCEPT ![w] = TRUE]
    /\ UNCHANGED <<kind, waiting, acked, dead, returns, buffer, breaker,
                   ctxDone, effects, failures, panics, losses>>

(* The broker pushes up to the prefetch limit. *)
Push(w, m) ==
    /\ alive[w]
    /\ m \in waiting
    /\ queueOf[m] = serves[w]
    /\ Cardinality(Unacked(w)) < Prefetch
    /\ waiting' = waiting \ {m}
    /\ buffer' = [buffer EXCEPT ![w] = @ \cup {m}]
    /\ UNCHANGED <<kind, acked, dead, returns, alive, work, breaker, ctxDone,
                   effects, failures, panics, losses>>

(* select: a delivery may win against a closed channel or ctx.Done(). *)
Take(w, m) ==
    /\ work[w].pc = "idle"
    /\ m \in buffer[w]
    /\ buffer' = [buffer EXCEPT ![w] = @ \ {m}]
    /\ work' = [work EXCEPT ![w] = [@ EXCEPT !.pc = "execute", !.msg = m]]
    /\ UNCHANGED <<kind, waiting, acked, dead, returns, alive, breaker,
                   ctxDone, effects, failures, panics, losses>>

(* The deferred ch.Close() returns what was pushed and not read. *)
EndSession(w) ==
    /\ work[w].pc = "idle"
    /\ ~alive[w] \/ ctxDone
    /\ Return(Unacked(w))
    /\ alive' = [alive EXCEPT ![w] = FALSE]
    /\ buffer' = [buffer EXCEPT ![w] = {}]
    /\ work' = [work EXCEPT ![w] = Off]
    /\ UNCHANGED <<kind, acked, breaker, ctxDone, effects, failures, panics,
                   losses>>

-----------------------------------------------------------------------------
(* The circuit breaker: cb.Execute of sony/gobreaker *)

(* Mutation: a half-open breaker lets every request through. *)
MutRefuses == breaker.state = "open"

(* ErrOpenState, ErrTooManyRequests *)
Refuses == \/ breaker.state = "open"
           \/ breaker.state = "half-open" /\ breaker.requests >= MaxRequests

(* Mutation: a message the breaker refuses is returned. *)
MutHold(w) == Goto(w, "nack")

Hold(w) == Goto(w, "hold")

(* beforeRequest *)
Execute(w) ==
    /\ work[w].pc = "execute"
    /\ \/ Refuses /\ Hold(w) /\ UNCHANGED breaker
       \/ /\ ~Refuses
          /\ work' = [work EXCEPT ![w] =
                        [@ EXCEPT !.pc = "route", !.current = TRUE]]
          /\ breaker' = [breaker EXCEPT
               !.requests = IF breaker.state = "half-open" THEN @ + 1 ELSE @]
    /\ UNCHANGED <<kind, broker, ctxDone, effects, failures, panics, losses>>

(* afterRequest: the worker goes on to pc, and the breaker counts, or      *)
(* changes its state. *)
Moved(w, pc) == [work EXCEPT ![w] = [@ EXCEPT !.pc = pc, !.current = FALSE]]
Count(w, pc, b) == breaker' = b /\ work' = Moved(w, pc)
Turn(w, pc, state) ==
    /\ breaker' = Breaker(state)
    /\ work' = [v \in Workers |-> [Moved(w, pc)[v] EXCEPT !.current = FALSE]]

AfterRequest(w, pc, ok) ==
    LET b == breaker
        tripped  == ~ok /\ (b.state = "half-open" \/ b.failures + 1 >= Threshold)
        restored == ok /\ b.state = "half-open" /\ b.successes + 1 >= MaxRequests
    IN CASE ~work[w].current -> Count(w, pc, b)
         [] work[w].current /\ tripped  -> Turn(w, pc, "open")
         [] work[w].current /\ restored -> Turn(w, pc, "closed")
         [] OTHER -> Count(w, pc,
              IF ~ok THEN [b EXCEPT !.failures = @ + 1]
              ELSE IF b.state = "closed" THEN [b EXCEPT !.failures = 0]
              ELSE [b EXCEPT !.successes = @ + 1])

(* The clock: an open breaker half-opens, a closed one forgets failures,   *)
(* and the requests under way do not count any more. *)
BreakerTimeout ==
    /\ \/ breaker.state = "open" /\ breaker' = Breaker("half-open")
       \/ /\ breaker.state = "closed" /\ breaker.failures > 0
          /\ breaker' = Breaker("closed")
    /\ work' = [w \in Workers |-> [work[w] EXCEPT !.current = FALSE]]
    /\ UNCHANGED <<kind, broker, ctxDone, effects, failures, panics, losses>>

(* The poll finds the breaker half-open or closed. *)
Poll(w) ==
    /\ work[w].pc = "hold"
    /\ breaker.state # "open"
    /\ Goto(w, "execute")
    /\ UNCHANGED <<kind, broker, breaker, ctxDone, effects, failures, panics,
                   losses>>

(* ctx.Done() while a message is held: it is returned. *)
HoldCancelled(w) ==
    /\ work[w].pc = "hold"
    /\ ctxDone
    /\ Goto(w, "nack")
    /\ UNCHANGED <<kind, broker, breaker, ctxDone, effects, failures, panics,
                   losses>>

-----------------------------------------------------------------------------
(* HandleConsumedMessage: handleProvider, handleOrder *)

Result(w, ok) == work' = [work EXCEPT ![w] = [@ EXCEPT !.pc = "result", !.ok = ok]]

Route(w) ==
    LET k == kind[work[w].msg] IN
    /\ work[w].pc = "route"
    /\ k # "nil"
    /\ CASE k = "status" -> Goto(w, "settransactionstatus")
         [] k = "order"  -> Goto(w, "updPreOrderConsume")
         [] k = "poison" -> Result(w, FALSE)
    /\ UNCHANGED <<kind, broker, breaker, ctxDone, effects, failures, panics,
                   losses>>

(* What a call does to Oracle or the downstream service. *)
Effect(w) ==
    LET m == work[w].msg  call == work[w].pc IN
    /\ applied' = IF call = "settransactionstatus" THEN applied \cup {m} ELSE applied
    /\ sales' = IF call = "request2JualRandomWithID"
                THEN [sales EXCEPT ![m] = @ + 1] ELSE sales
    /\ sent' = IF call = "sendOrderResult" THEN sent \cup {m} ELSE sent

CallSucceeds(w) ==
    /\ work[w].pc \in Calls
    /\ ~ctxDone
    /\ Effect(w)
    /\ CASE work[w].pc = "updPreOrderConsume" -> Goto(w, "request2JualRandomWithID")
         [] work[w].pc = "request2JualRandomWithID" -> Goto(w, "sendOrderResult")
         [] OTHER -> Result(w, TRUE)
    /\ UNCHANGED <<kind, broker, breaker, ctxDone, failures, panics, losses>>

(* Mutation: the downstream call's error is only logged. *)
MutCallFails(w) ==
    /\ work[w].pc \in Calls
    /\ Effect(w) \/ UNCHANGED effects
    /\ Result(w, work[w].pc = "sendOrderResult")
    /\ UNCHANGED <<kind, broker, breaker, ctxDone, failures, panics, losses>>

(* An error of the driver or the HTTP client, which may come after the     *)
(* effect; a procedure's own error code or a status of 400 and above.      *)
CallFails(w) ==
    /\ work[w].pc \in Calls
    /\ Effect(w) \/ UNCHANGED effects
    /\ Result(w, FALSE)
    /\ UNCHANGED <<kind, broker, breaker, ctxDone, failures, panics, losses>>

(* Mutation: a message that failed is tried again in place. *)
MutConclude(w) ==
    /\ work[w].pc = "result"
    /\ AfterRequest(w, IF work[w].ok THEN "ack" ELSE "hold", work[w].ok)
    /\ UNCHANGED <<kind, broker, ctxDone, effects, failures, panics, losses>>

(* The handler has returned. *)
Conclude(w) ==
    LET m == work[w].msg  ok == work[w].ok IN
    /\ work[w].pc = "result"
    /\ AfterRequest(w, IF ok THEN "ack" ELSE "nack", ok)
    /\ failures' = IF ok THEN failures ELSE [failures EXCEPT ![m] = @ + 1]
    /\ UNCHANGED <<kind, broker, ctxDone, effects, panics, losses>>

(* msg.Ack(false); on a dead channel it fails unnoticed. *)
Ack(w) ==
    /\ work[w].pc = "ack"
    /\ acked' = IF alive[w] THEN acked \cup Hand(w) ELSE acked
    /\ Done(w)
    /\ UNCHANGED <<kind, waiting, dead, returns, buffer, alive, breaker,
                   ctxDone, effects, failures, panics, losses>>

(* Mutation: a failed message is not returned to the broker. *)
MutNack(w) ==
    /\ work[w].pc = "nack"
    /\ Done(w)
    /\ UNCHANGED <<kind, broker, breaker, ctxDone, effects, failures, panics,
                   losses>>

(* msg.Nack(false, true) *)
Nack(w) ==
    /\ work[w].pc = "nack"
    /\ Return(IF alive[w] THEN Hand(w) ELSE {})
    /\ Done(w)
    /\ UNCHANGED <<kind, acked, buffer, alive, breaker, ctxDone, effects,
                   failures, panics, losses>>

-----------------------------------------------------------------------------
(* The connection and the process *)

(* The connection closes, and with it every worker's channel. *)
ConnectionLost ==
    /\ losses < MaxLosses
    /\ \E w \in Workers : alive[w]
    /\ losses' = losses + 1
    /\ Return(UNION {Unacked(w) : w \in Workers})
    /\ alive' = [w \in Workers |-> FALSE]
    /\ UNCHANGED <<kind, acked, buffer, work, breaker, ctxDone, effects,
                   failures, panics>>

(* The process ends and is started again. *)
Restart ==
    /\ Return(UNION {Unacked(w) : w \in Workers})
    /\ buffer' = [w \in Workers |-> {}]
    /\ alive' = [w \in Workers |-> FALSE]
    /\ work' = [w \in Workers |-> Off]
    /\ breaker' = Breaker("closed")
    /\ ctxDone' = FALSE
    /\ UNCHANGED <<kind, acked, effects, failures>>

(* handleProvider dereferences a nil result; nothing recovers. *)
Panic(w) ==
    /\ work[w].pc = "route"
    /\ kind[work[w].msg] = "nil"
    /\ panics' = panics + 1
    /\ Restart
    /\ UNCHANGED losses

Crash == losses < MaxLosses /\ losses' = losses + 1 /\ Restart /\ UNCHANGED panics

(* SIGTERM *)
Shutdown ==
    /\ losses < MaxLosses
    /\ ~ctxDone
    /\ losses' = losses + 1
    /\ ctxDone' = TRUE
    /\ UNCHANGED <<kind, broker, work, breaker, effects, failures, panics>>

(* All workers have ended, or the thirty seconds are over. *)
Exit == ctxDone /\ Restart /\ UNCHANGED <<panics, losses>>

Step(w) == \/ OpenSession(w)
           \/ \E m \in Msgs : Take(w, m)
           \/ EndSession(w)
           \/ Execute(w)
           \/ Poll(w)
           \/ HoldCancelled(w)
           \/ Route(w)
           \/ CallSucceeds(w)
           \/ CallFails(w)
           \/ Conclude(w)
           \/ Ack(w)
           \/ Nack(w)
           \/ Panic(w)

Next == \/ \E w \in Workers : Step(w) \/ \E m \in Msgs : Push(w, m)
        \/ BreakerTimeout
        \/ ConnectionLost
        \/ Crash
        \/ Shutdown
        \/ Exit

Spec == Init /\ [][Next]_vars

(* Workers run, the broker delivers, the clock moves, and a process that   *)
(* was told to stop does.  No call is assumed to succeed.                  *)
Fairness ==
    /\ \A w \in Workers : WF_vars(Step(w)) /\ WF_vars(\E m \in Msgs : Push(w, m))
    /\ WF_vars(BreakerTimeout)
    /\ WF_vars(Exit)

FairSpec == Spec /\ Fairness

-----------------------------------------------------------------------------
(* Properties *)

TypeOK ==
    /\ kind \in [Msgs -> Kinds]
    /\ {waiting, acked, dead, applied, sent} \subseteq SUBSET Msgs
    /\ returns \in [Msgs -> 0..(Limit + 1)]
    /\ buffer \in [Workers -> SUBSET Msgs]
    /\ alive \in [Workers -> BOOLEAN]
    /\ work \in [Workers -> [pc : Pcs, msg : Msgs \cup {None}, ok : BOOLEAN,
                             current : BOOLEAN]]
    /\ breaker \in [state : {"closed", "open", "half-open"},
                    requests : 0..MaxRequests, successes : 0..MaxRequests,
                    failures : 0..Threshold]
    /\ ctxDone \in BOOLEAN
    /\ sales \in [Msgs -> Nat]
    /\ failures \in [Msgs -> Nat]
    /\ {panics, losses} \subseteq Nat

(* A message is deleted from its queue only when all of its work is done,  *)
(* even if a worker whose channel died finished a part of it: the status   *)
(* is in Oracle; the order is sold and downstream knows of it.             *)
AckedIsDone ==
    \A m \in acked : \/ kind[m] = "status" /\ m \in applied
                     \/ kind[m] = "order" /\ sales[m] > 0 /\ m \in sent

(* However often it comes back, whoever still holds it and however long    *)
(* the breaker keeps it: an order is sold at most once per delivery, so    *)
(* never more than Limit + 2 times.                                        *)
OneSalePerDelivery == \A m \in Msgs : sales[m] <= returns[m] + 1

(* Holding costs no deliveries: without a shutdown a message only comes    *)
(* back for an attempt at it that failed, a lost connection or a process   *)
(* that died, never for an attempt that the breaker refused.               *)
HoldIsFree ==
    \A m \in Msgs :
        ~ctxDone /\ losses = 0 => returns[m] <= failures[m] + panics

(* With no call that ever has to succeed, every message ends acknowledged  *)
(* or dead-lettered: an open breaker, a crash loop or a channel that died  *)
(* under a held message never keeps one in the queue for good.             *)
EventuallySettled == \A m \in Msgs : <>[](m \in acked \cup dead)
=============================================================================
