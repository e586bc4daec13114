----------------------------- MODULE SmbGateway ------------------------------
(***************************************************************************)
(* pps-services-gateway-smb: one process that consumes orders for          *)
(* electricity tokens (prefetch 1, manual ack), inquires and pays them     *)
(* with SMB, tracks them in the table smb_transaction, asks for advice     *)
(* about undecided payments in one goroutine per delivery, and publishes   *)
(* each outcome downstream.                                                *)
(***************************************************************************)
EXTENDS Naturals, FiniteSets

CONSTANTS
    Orders,       \* messages of the product type the consumer handles
    Junk,         \* messages it cannot parse or whose type is unsupported
    Deliveries,   \* bound: deliveries by the broker
    None,
    MaxAttempts,  \* RETRY_MAX_ATTEMPTS
    MaxFaults,    \* bound: database and publish errors, logged and swallowed
    MaxLosses     \* bound: lost sessions, crashes, shutdowns

Msgs == Orders \cup Junk

ASSUME KindAssumption     == Orders \cap Junk = {} /\ None \notin Msgs
ASSUME DeliveryAssumption == Deliveries \subseteq Nat /\ None \notin Deliveries
ASSUME AttemptAssumption  == MaxAttempts \in Nat \ {0}
ASSUME BoundAssumption    == {MaxFaults, MaxLosses} \subseteq Nat

VARIABLES
    ready,      \* messages in the queue, waiting for a consumer
    unacked,    \* the delivery the live session has not acknowledged, or None
    session,    \* "up", or "closed": it only waits for its goroutines
    handler,    \* per delivery: the session loop's place in it
    advice,     \* per delivery: its advice goroutine
    row,        \* per message: its status in smb_transaction
    order,      \* per delivery: the payment under its RefID (external)
    published,  \* per message: the statuses put on the downstream queue
    gap,        \* history, per message: why a final status may be missing
    ctxDone,    \* a shutdown signal cancelled the context
    faults, losses

vars == <<ready, unacked, session, handler, advice, row, order, published,
          gap, ctxDone, faults, losses>>

Statuses    == {"ABSENT", "PROCESSING", "SUCCESS", "FAILED"}
OrderStates == {"none", "sent", "refused", "pending", "success", "failed"}
HandlerPcs  == {"free", "insert", "inquiry", "payment", "reply", "mark",
                "publish", "ack", "done", "dead"}
AdvicePcs   == {"none", "wait", "query", "mark", "publish", "done", "dead"}
Handlers    == [msg : Msgs \cup {None}, pc : HandlerPcs, out : {"F", "C", "S"}]
Advices     == [pc : AdvicePcs, attempt : 0..MaxAttempts, out : {"F", "C"}]

Init ==
    /\ ready = Msgs
    /\ unacked = None
    /\ session = "up"
    /\ handler = [d \in Deliveries |-> [msg |-> None, pc |-> "free", out |-> "C"]]
    /\ advice = [d \in Deliveries |-> [pc |-> "none", attempt |-> 0, out |-> "C"]]
    /\ row = [m \in Msgs |-> "ABSENT"]
    /\ order = [d \in Deliveries |-> "none"]
    /\ published = [m \in Msgs |-> {}]
    /\ gap = [m \in Msgs |-> {}]
    /\ ctxDone = FALSE
    /\ faults = 0
    /\ losses = 0

-----------------------------------------------------------------------------
(* Response codes.  "err" stands for a network failure, a timeout, a body  *)
(* that is not JSON, or a cancelled context; the HTTP status is not looked *)
(* at.                                                                     *)

Codes == {"00", "28", "68", "", "other"}

ResolveRCPPS(code) == CASE code = "00" -> 0
                        [] code \in {"28", "68", ""} -> 9
                        [] OTHER -> 1

StatusToBeFromRC(rc) == CASE rc = 0 -> "F" [] rc = 9 -> "S" [] OTHER -> "C"

(* SMB is taken to be truthful in one direction: 00 only for a payment it  *)
(* completed, a failure code only for one it does not know (yet) or that   *)
(* failed.  A timeout code and a failed call say nothing.                  *)
PaymentCodes(d) == {"err", "28", "68", ""}
    \cup (IF order[d] = "success" THEN {"00"} ELSE {})
    \cup (IF order[d] \in {"pending", "success"} THEN {} ELSE {"other"})

(* A call whose context is cancelled fails. *)
Answers(S) == IF ctxDone THEN {"err"} ELSE S

(* ProcessTransaction, step 2: "S" is PENDING and asks for advice. *)
PaymentOutcome(code) == IF code = "err" THEN "S"
                        ELSE StatusToBeFromRC(ResolveRCPPS(code))

-----------------------------------------------------------------------------
(* Helpers *)

StatusOf(out) == IF out = "F" THEN "SUCCESS" ELSE "FAILED"

Swallowed == faults < MaxFaults /\ faults' = faults + 1

(* logUpdateStatus: an unconditional UPDATE ... WHERE msg_id; an error,    *)
(* which a cancelled context always gives, is only logged.                 *)
LogUpdateStatus(m, s) ==
    \/ /\ ~ctxDone
       /\ row' = IF row[m] = "ABSENT" THEN row ELSE [row EXCEPT ![m] = s]
       /\ UNCHANGED faults
    \/ ~ctxDone /\ Swallowed /\ UNCHANGED row
    \/ ctxDone /\ UNCHANGED <<row, faults>>

(* publishToDownstream: an error is only logged.  Nothing comes after an   *)
(* "S": it is only sent for an inquiry that answered with a timeout code.  *)
PublishToDownstream(m, s) ==
    \/ /\ published' = [published EXCEPT ![m] = @ \cup {s}]
       /\ gap' = [gap EXCEPT ![m] = IF s = "S" THEN @ \cup {"inquiry"} ELSE @]
       /\ UNCHANGED faults
    \/ /\ Swallowed
       /\ gap' = [gap EXCEPT ![m] = @ \cup {"publish"}]
       /\ UNCHANGED published

Goto(d, pc) == handler' = [handler EXCEPT ![d].pc = pc]
Decide(d, out) == handler' = [handler EXCEPT ![d] =
                                [@ EXCEPT !.pc = "mark", !.out = out]]
Finished(g, pc) == [g EXCEPT !.pc = pc, !.out = "C"]

Working(d)  == handler[d].pc \in {"insert", "inquiry", "payment", "reply",
                                  "mark", "publish", "ack"}
Advising(d) == advice[d].pc \in {"wait", "query", "mark", "publish"}
Idle == \A d \in Deliveries : ~Working(d)
(* wg.Wait() has returned. *)
Drained == \A d \in Deliveries : ~Advising(d)

-----------------------------------------------------------------------------
(* The session loop: consumeSession, processDelivery, handlePLNToken       *)

(* select takes a delivery or ctx.Done() at will when both are there. *)
Deliver(d, m) ==
    /\ session = "up"
    /\ Idle
    /\ unacked = None
    /\ m \in ready
    /\ handler[d].pc = "free"
    /\ \A e \in Deliveries : e < d => handler[e].pc # "free"
    /\ ready' = ready \ {m}
    /\ unacked' = d
    /\ handler' = [handler EXCEPT ![d] =
                     [@ EXCEPT !.msg = m,
                               !.pc = IF m \in Junk THEN "ack" ELSE "insert"]]
    /\ UNCHANGED <<session, advice, row, order, published, gap, ctxDone,
                   faults, losses>>

(* INSERT ... ON CONFLICT (msg_id) DO NOTHING *)
InsertTransaction(d) ==
    LET m == handler[d].msg IN
    /\ handler[d].pc = "insert"
    /\ Goto(d, "inquiry")
    /\ \/ /\ ~ctxDone
          /\ row' = [row EXCEPT ![m] = IF @ = "ABSENT" THEN "PROCESSING" ELSE @]
          /\ UNCHANGED faults
       \/ ~ctxDone /\ Swallowed /\ UNCHANGED row
       \/ ctxDone /\ UNCHANGED <<row, faults>>
    /\ UNCHANGED <<ready, unacked, session, advice, order, published, gap,
                   ctxDone, losses>>

(* Each delivery inquires anew and pays under the new RefID. *)
Inquiry(d) ==
    /\ handler[d].pc = "inquiry"
    /\ \E code \in Answers(Codes \cup {"err"}) :
         CASE code = "00"  -> Goto(d, "payment")
           [] code = "err" -> Decide(d, "C")
           [] OTHER        -> Decide(d, StatusToBeFromRC(ResolveRCPPS(code)))
    /\ UNCHANGED <<ready, unacked, session, advice, row, order, published,
                   gap, ctxDone, faults, losses>>

PostPayment(d) ==
    /\ handler[d].pc = "payment"
    /\ Goto(d, "reply")
    /\ order' = [order EXCEPT ![d] = IF ctxDone THEN @ ELSE "sent"]
    /\ UNCHANGED <<ready, unacked, session, advice, row, published, gap,
                   ctxDone, faults, losses>>

StartAdvice(d) == advice' = [advice EXCEPT ![d].pc = "wait"]

HandleReply(d) ==
    /\ handler[d].pc = "reply"
    /\ \E code \in Answers(PaymentCodes(d)) :
         LET out == PaymentOutcome(code) IN
         IF out = "S" THEN Goto(d, "ack") /\ StartAdvice(d)
                      ELSE Decide(d, out) /\ UNCHANGED advice
    /\ UNCHANGED <<ready, unacked, session, row, order, published, gap,
                   ctxDone, faults, losses>>

LogStatus(d) ==
    /\ handler[d].pc = "mark"
    /\ LogUpdateStatus(handler[d].msg, StatusOf(handler[d].out))
    /\ Goto(d, "publish")
    /\ UNCHANGED <<ready, unacked, session, advice, order, published, gap,
                   ctxDone, losses>>

Publish(d) ==
    /\ handler[d].pc = "publish"
    /\ PublishToDownstream(handler[d].msg, handler[d].out)
    /\ Goto(d, "ack")
    /\ UNCHANGED <<ready, unacked, session, advice, row, order, ctxDone,
                   losses>>

(* Mutation: messages of other types are skipped without an ack. *)
MutAck(d) ==
    /\ handler[d].pc = "ack"
    /\ handler' = [handler EXCEPT ![d] = Finished(@, "done")]
    /\ unacked' = IF unacked = d /\ handler[d].msg \notin Junk
                  THEN None ELSE unacked
    /\ UNCHANGED <<ready, session, advice, row, order, published, gap,
                   ctxDone, faults, losses>>

(* The deferred Ack; its error is ignored. *)
Ack(d) ==
    /\ handler[d].pc = "ack"
    /\ handler' = [handler EXCEPT ![d] = Finished(@, "done")]
    /\ unacked' = IF unacked = d THEN None ELSE unacked
    /\ UNCHANGED <<ready, session, advice, row, order, published, gap,
                   ctxDone, faults, losses>>

Consume(d) == \/ \E m \in Msgs : Deliver(d, m)
              \/ InsertTransaction(d)
              \/ Inquiry(d)
              \/ PostPayment(d)
              \/ HandleReply(d)
              \/ LogStatus(d)
              \/ Publish(d)
              \/ Ack(d)

-----------------------------------------------------------------------------
(* The advice goroutines: RetryAdvice and what follows it *)

Conclude(d, out) == advice' = [advice EXCEPT ![d] =
                                 [@ EXCEPT !.pc = "mark", !.out = out]]

AdviceWait(d) ==
    /\ advice[d].pc = "wait"
    /\ advice' = [advice EXCEPT ![d].pc = "query"]
    /\ UNCHANGED <<ready, unacked, session, handler, row, order, published,
                   gap, ctxDone, faults, losses>>

(* A shutdown makes every waiting payment FAILED at once. *)
AdviceCancelled(d) ==
    /\ advice[d].pc = "wait"
    /\ ctxDone
    /\ Conclude(d, "C")
    /\ UNCHANGED <<ready, unacked, session, handler, row, order, published,
                   gap, ctxDone, faults, losses>>

(* Mutation: the loop asks once more than configured. *)
MutLastAttempt(n) == n > MaxAttempts

LastAttempt(n) == n = MaxAttempts

(* After the last attempt the payment is FAILED. *)
AdviceQuery(d) ==
    LET attempt == advice[d].attempt + 1 IN
    /\ advice[d].pc = "query"
    /\ \E code \in Answers(PaymentCodes(d)) :
         LET out == PaymentOutcome(code) IN
         IF out # "S" THEN Conclude(d, out)
         ELSE advice' = [advice EXCEPT ![d] =
                [pc |-> IF LastAttempt(attempt) THEN "mark" ELSE "wait",
                 attempt |-> attempt, out |-> "C"]]
    /\ UNCHANGED <<ready, unacked, session, handler, row, order, published,
                   gap, ctxDone, faults, losses>>

AdviceLog(d) ==
    /\ advice[d].pc = "mark"
    /\ LogUpdateStatus(handler[d].msg, StatusOf(advice[d].out))
    /\ advice' = [advice EXCEPT ![d].pc = "publish"]
    /\ UNCHANGED <<ready, unacked, session, handler, order, published, gap,
                   ctxDone, losses>>

AdvicePublish(d) ==
    /\ advice[d].pc = "publish"
    /\ PublishToDownstream(handler[d].msg, advice[d].out)
    /\ advice' = [advice EXCEPT ![d] = Finished(@, "done")]
    /\ UNCHANGED <<ready, unacked, session, handler, row, order, ctxDone,
                   losses>>

AdviceStep(d) == \/ AdviceWait(d)
                 \/ AdviceCancelled(d)
                 \/ AdviceQuery(d)
                 \/ AdviceLog(d)
                 \/ AdvicePublish(d)

-----------------------------------------------------------------------------
(* The session, the process, SMB *)

ProviderDecides(d) ==
    /\ \/ order[d] = "sent" /\ \E s \in {"refused", "pending", "success"} :
                                   order' = [order EXCEPT ![d] = s]
       \/ order[d] = "pending" /\ \E s \in {"success", "failed"} :
                                      order' = [order EXCEPT ![d] = s]
    /\ UNCHANGED <<ready, unacked, session, handler, advice, row, published,
                   gap, ctxDone, faults, losses>>

(* Mutation: the broker forgets a message once it is delivered. *)
MutRequeued == ready

Requeued == IF unacked = None THEN ready ELSE ready \cup {handler[unacked].msg}

(* The delivery channel closes; the loop sees it when the message in hand  *)
(* is done, and reconnects when the advice goroutines are.                 *)
SessionLost ==
    /\ losses < MaxLosses
    /\ session = "up"
    /\ losses' = losses + 1
    /\ session' = "closed"
    /\ ready' = Requeued
    /\ unacked' = None
    /\ UNCHANGED <<handler, advice, row, order, published, gap, ctxDone, faults>>

(* Mutation: a closed session does not wait for its goroutines. *)
MutReconnect ==
    /\ session = "closed"
    /\ ~ctxDone
    /\ Idle
    /\ session' = "up"
    /\ UNCHANGED <<ready, unacked, handler, advice, row, order, published,
                   gap, ctxDone, faults, losses>>

Reconnect ==
    /\ session = "closed"
    /\ ~ctxDone
    /\ Idle /\ Drained
    /\ session' = "up"
    /\ UNCHANGED <<ready, unacked, handler, advice, row, order, published,
                   gap, ctxDone, faults, losses>>

(* SIGTERM *)
Shutdown ==
    /\ losses < MaxLosses
    /\ ~ctxDone
    /\ losses' = losses + 1
    /\ ctxDone' = TRUE
    /\ UNCHANGED <<ready, unacked, session, handler, advice, row, order,
                   published, gap, faults>>

(* The loop takes ctx.Done(). *)
StopConsuming ==
    /\ ctxDone
    /\ session = "up"
    /\ Idle
    /\ session' = "closed"
    /\ UNCHANGED <<ready, unacked, handler, advice, row, order, published,
                   gap, ctxDone, faults, losses>>

(* Somebody still has to publish for m. *)
Owed(m) == \E d \in Deliveries :
              /\ handler[d].msg = m
              /\ Advising(d) \/ handler[d].pc = "publish"

(* The process ends and is started again. *)
Restart ==
    /\ ready' = Requeued
    /\ unacked' = None
    /\ session' = "up"
    /\ handler' = [d \in Deliveries |-> IF Working(d)
                                        THEN Finished(handler[d], "dead")
                                        ELSE handler[d]]
    /\ advice' = [d \in Deliveries |-> IF Advising(d)
                                       THEN Finished(advice[d], "dead")
                                       ELSE advice[d]]
    /\ gap' = [m \in Msgs |-> gap[m] \cup IF Owed(m) THEN {"crash"} ELSE {}]
    /\ ctxDone' = FALSE
    /\ UNCHANGED <<row, order, published, faults>>

Crash == losses < MaxLosses /\ losses' = losses + 1 /\ Restart
(* A shutdown waits for the loop and for the advice goroutines. *)
Exit == ctxDone /\ session = "closed" /\ Idle /\ Drained
        /\ UNCHANGED losses /\ Restart

Session == Reconnect \/ StopConsuming \/ Exit

Next == \/ \E d \in Deliveries : \/ Consume(d)
                                 \/ AdviceStep(d)
                                 \/ ProviderDecides(d)
        \/ Session
        \/ SessionLost
        \/ Shutdown
        \/ Crash

Spec == Init /\ [][Next]_vars

(* The program's goroutines run; every HTTP call has a timeout.  Nothing   *)
(* is assumed of SMB.                                                      *)
Fairness == /\ \A d \in Deliveries : WF_vars(Consume(d)) /\ WF_vars(AdviceStep(d))
            /\ WF_vars(Session)

FairSpec == Spec /\ Fairness

-----------------------------------------------------------------------------
(* Properties *)

TypeOK ==
    /\ ready \subseteq Msgs
    /\ unacked \in Deliveries \cup {None}
    /\ session \in {"up", "closed"}
    /\ handler \in [Deliveries -> Handlers]
    /\ advice \in [Deliveries -> Advices]
    /\ row \in [Msgs -> Statuses]
    /\ order \in [Deliveries -> OrderStates]
    /\ published \in [Msgs -> SUBSET {"F", "C", "S"}]
    /\ gap \in [Msgs -> SUBSET {"publish", "crash", "inquiry"}]
    /\ ctxDone \in BOOLEAN
    /\ faults \in Nat
    /\ losses \in Nat

Acked(m)   == m \notin ready /\ (unacked = None \/ handler[unacked].msg # m)
Settled(m) == published[m] \cap {"F", "C"} # {}
Paid(m)    == \E d \in Deliveries : handler[d].msg = m /\ order[d] = "success"

(* A redelivered order is never worked on while an earlier delivery of it  *)
(* is still being paid or asked about: a session that was lost is drained  *)
(* before the next one starts.                                             *)
OneWorker ==
    \A d, e \in Deliveries :
        /\ d # e /\ handler[d].msg = handler[e].msg
        /\ Working(d) \/ Advising(d)
        => ~Working(e) /\ ~Advising(e)

(* Under fair scheduling every order ends acknowledged and settled, or in  *)
(* a known hole, and waiting for the goroutines of a lost session never    *)
(* keeps the consumer away for good.                                       *)
EventuallySettled ==
    \A m \in Orders : <>[](Acked(m) /\ (Settled(m) \/ gap[m] # {}))

(* The gateway as the platform sees it. *)
Platform == INSTANCE OrderGateway WITH
    Msgs      <- Orders,
    completed <- {m \in Orders : Paid(m)},
    told      <- [m \in Orders |-> published[m]],
    live      <- {m \in Orders : ~Acked(m) \/ Owed(m)},
    excused   <- {m \in Orders : gap[m] # {}}

(* Every step of queue, goroutines, provider and process is a step of the  *)
(* abstract gateway: no order is let go of without a final status unless   *)
(* it is lost in an admitted way at that very step, and no goroutine tells *)
(* of success before the provider completed the order.                     *)
ImplementsGateway == Platform!Spec
=============================================================================
