--------------------------- MODULE TelkomselGateway --------------------------
(***************************************************************************)
(* pps-services-gateway-telkomsel: one process that consumes order         *)
(* messages from RabbitMQ (prefetch 1, manual ack), places them with the   *)
(* provider, tracks them in the table telkomsel_transaction, follows       *)
(* pending ones with one goroutine per order, receives the provider's      *)
(* callbacks over HTTP, and publishes each outcome to a downstream queue.  *)
(*                                                                         *)
(* A delivery and the our_trx_id generated for it are the same identifier  *)
(* t \in Trx: GenerateTransactionID stamps every delivery with its time,   *)
(* so ids grow and a redelivered message gets a new one.                   *)
(***************************************************************************)
EXTENDS TelkomselClient, Naturals, FiniteSets

CONSTANTS
    Pulsa, Data,    \* messages of the two product types the consumer handles
    Junk,           \* messages it cannot parse or whose type is unsupported
    Trx,            \* transaction ids: a bound on the number of deliveries
    None,
    MaxAttempts,    \* RETRY_MAX_ATTEMPTS
    MaxFaults,      \* bound: database and publish errors, logged and swallowed
    MaxLosses,      \* bound: lost sessions, crashes, shutdowns
    MaxCallbacks    \* bound: callbacks the provider sends for one order

Orders == Pulsa \cup Data
Msgs   == Orders \cup Junk

ASSUME MsgAssumption   == /\ Pulsa \cap Data = {}
                          /\ Orders \cap Junk = {}
                          /\ None \notin Msgs
ASSUME TrxAssumption   == Trx \subseteq Nat /\ None \notin Trx
ASSUME RetryAssumption == MaxAttempts \in Nat \ {0}
ASSUME BoundAssumption == {MaxFaults, MaxLosses, MaxCallbacks} \subseteq Nat

VARIABLES
    ready,      \* messages in the queue, waiting for a consumer
    unacked,    \* the delivery the live session has not acknowledged, or None
    handler,    \* per delivery: the consumer goroutine's place in it
    row,        \* per message: its row of telkomsel_transaction
    retry,      \* per delivery: its check-status goroutine
    callback,   \* per order: the HTTP handler of a callback for it
    order,      \* per order: its state at the provider (external)
    published,  \* per message: the statuses put on the downstream queue
    gap,        \* history, per message: why a final status may be missing
    ctxDone,    \* a shutdown signal cancelled the consumer's context
    faults, losses

vars == <<ready, unacked, handler, row, retry, callback, order, published,
          gap, ctxDone, faults, losses>>

Statuses    == {"ABSENT", "PROCESSING", "SUCCESS", "FAILED"}
OrderStates == {"none", "refused", "pending", "success", "failed"}
HandlerPcs  == {"free", "insert", "browse", "call", "wait", "mark", "publish",
                "ack", "done", "returned", "dead"}
RetryPcs    == {"none", "sleep", "query", "mark", "publish", "done",
                "exhausted", "dead"}
CallbackPcs == {"idle", "record", "update", "publish"}
Gaps        == {"publish", "crash", "exhausted"}
Deliveries  == [msg : Msgs \cup {None}, pc : HandlerPcs, out : Outcomes]
Rows        == [status : Statuses, trx : Trx \cup {None}]
Retries     == [pc : RetryPcs, attempts : 0..MaxAttempts, out : {"F", "C"}]
Callbacks   == [pc : CallbackPcs, msg : Msgs \cup {None}, sent : Nat]

Init ==
    /\ ready = Msgs
    /\ unacked = None
    /\ handler = [t \in Trx |-> [msg |-> None, pc |-> "free", out |-> "C"]]
    /\ row = [m \in Msgs |-> [status |-> "ABSENT", trx |-> None]]
    /\ retry = [t \in Trx |-> [pc |-> "none", attempts |-> 0, out |-> "C"]]
    /\ callback = [t \in Trx |-> [pc |-> "idle", msg |-> None, sent |-> 0]]
    /\ order = [t \in Trx |-> "none"]
    /\ published = [m \in Msgs |-> {}]
    /\ gap = [m \in Msgs |-> {}]
    /\ ctxDone = FALSE
    /\ faults = 0
    /\ losses = 0

-----------------------------------------------------------------------------
(* Helpers *)

Resolved(m) == row[m].status \in {"SUCCESS", "FAILED"}

(* The status column that goes with an outcome sent downstream. *)
(* Mutation: the row gets the code that is published, not the status. *)
MutStatusOf(out) == out

StatusOf(out) == IF out = "F" THEN "SUCCESS"
                 ELSE IF out = "S" THEN "PROCESSING" ELSE "FAILED"
(* The status_to_be that is published for it. *)
StatusToBe(out) == IF out = "return" THEN "C" ELSE out

Swallowed == faults < MaxFaults /\ faults' = faults + 1

(* UPDATE ... WHERE msg_id = $1: unconditional, and nothing without a row. *)
UpdateTransactionStatus(m, s) ==
    row' = IF row[m].status = "ABSENT" THEN row
                                       ELSE [row EXCEPT ![m].status = s]

(* logUpdateStatus: an error is logged and the caller goes on.  ok says    *)
(* whether the caller's context still lets the statement run.              *)
LogUpdateStatus(m, s, ok) ==
    \/ ok /\ UpdateTransactionStatus(m, s) /\ UNCHANGED faults
    \/ ok /\ Swallowed /\ UNCHANGED row
    \/ ~ok /\ UNCHANGED <<row, faults>>

(* publishToDownstream: no confirm is awaited and an error is only logged. *)
PublishToDownstream(m, s) ==
    \/ /\ published' = [published EXCEPT ![m] = @ \cup {s}]
       /\ UNCHANGED <<gap, faults>>
    \/ /\ Swallowed
       /\ gap' = [gap EXCEPT ![m] = IF s = "S" THEN @ ELSE @ \cup {"publish"}]
       /\ UNCHANGED published

Goto(t, pc) == handler' = [handler EXCEPT ![t].pc = pc]
(* A goroutine that ended: its locals no longer matter. *)
Finished(g, pc) == [g EXCEPT !.pc = pc, !.out = "C"]
Decide(t, out) ==
    handler' = [handler EXCEPT ![t] =
                  [@ EXCEPT !.pc = IF out = "retry" THEN "ack" ELSE "mark",
                            !.out = out]]

(* Mutation: the pending order is logged but nobody follows it. *)
MutStartRetry(t) == UNCHANGED retry

(* go retryCheckStatus...Sync(context.Background(), ...) *)
StartRetry(t) == retry' = [retry EXCEPT ![t].pc = "sleep"]

-----------------------------------------------------------------------------
(* The consumer goroutine: consumeSession *)

Deliver(t, m) ==
    /\ ~ctxDone
    /\ unacked = None
    /\ m \in ready
    /\ handler[t].pc = "free"
    /\ \A u \in Trx : u < t => handler[u].pc # "free"
    /\ ready' = ready \ {m}
    /\ unacked' = t
    /\ handler' = [handler EXCEPT ![t] =
                     [@ EXCEPT !.msg = m,
                               !.pc = IF m \in Junk THEN "ack" ELSE "insert"]]
    /\ UNCHANGED <<row, retry, callback, order, published, gap, ctxDone,
                   faults, losses>>

(* INSERT ... ON CONFLICT (msg_id) DO NOTHING *)
InsertTransaction(t) ==
    LET m == handler[t].msg IN
    /\ handler[t].pc = "insert"
    /\ Goto(t, IF m \in Data THEN "browse" ELSE "call")
    /\ \/ /\ ~ctxDone
          /\ row' = IF row[m].status = "ABSENT"
                    THEN [row EXCEPT ![m] = [status |-> "PROCESSING", trx |-> t]]
                    ELSE row
          /\ UNCHANGED faults
       \/ ~ctxDone /\ Swallowed /\ UNCHANGED row
       \/ ctxDone /\ UNCHANGED <<row, faults>>
    /\ UNCHANGED <<ready, unacked, retry, callback, order, published, gap,
                   ctxDone, losses>>

BrowseOffer(t) ==
    /\ handler[t].pc = "browse"
    /\ \/ Goto(t, "call")
       \/ Decide(t, "C")
    /\ UNCHANGED <<ready, unacked, row, retry, callback, order, published,
                   gap, ctxDone, faults, losses>>

(* The request leaves, up to three times under one id when the client's    *)
(* attempts time out or meet HTTP 5xx; what the provider makes of it is    *)
(* the provider's.  It is taken to honour the id: one order at most.  A    *)
(* recharge may be final at once, a dealer order is at most accepted.      *)
CallProvider(t) ==
    /\ handler[t].pc = "call"
    /\ Goto(t, "wait")
    /\ \E s \in {"none", "refused", "pending"} \cup
                (IF handler[t].msg \in Pulsa THEN {"success"} ELSE {}) :
         order' = [order EXCEPT ![t] = s]
    /\ UNCHANGED <<ready, unacked, row, retry, callback, published, gap,
                   ctxDone, faults, losses>>

(* A recharge counts as taken once completed, a dealer order once accepted.*)
Accepted(t) == \/ order[t] = "success"
               \/ handler[t].msg \in Data /\ order[t] \in {"pending", "failed"}
Denied(t) == order[t] \in {"none", "refused", "failed"}

(* The reply is the one to the last POST, which may be refused as a repeat *)
(* whatever became of an earlier one.                                      *)
HandleReply(t) ==
    /\ handler[t].pc = "wait"
    /\ \E out \in IF handler[t].msg \in Pulsa
                  THEN PulsaOutcomes[Accepted(t)][TRUE]
                  ELSE DataOutcomes[Accepted(t)][TRUE] :
         /\ Decide(t, out)
         /\ IF out = "retry" THEN StartRetry(t) ELSE UNCHANGED retry
    /\ UNCHANGED <<ready, unacked, row, callback, order, published, gap,
                   ctxDone, faults, losses>>

LogStatus(t) ==
    /\ handler[t].pc = "mark"
    /\ LogUpdateStatus(handler[t].msg, StatusOf(handler[t].out), ~ctxDone)
    /\ Goto(t, "publish")
    /\ UNCHANGED <<ready, unacked, retry, callback, order, published, gap,
                   ctxDone, losses>>

(* After "S" the check-status goroutine is started; the missing-code       *)
(* branch returns from the consumer goroutine without an ack.              *)
Publish(t) ==
    LET out == handler[t].out IN
    /\ handler[t].pc = "publish"
    /\ PublishToDownstream(handler[t].msg, StatusToBe(out))
    /\ Goto(t, IF out = "return" THEN "returned" ELSE "ack")
    /\ IF out = "S" THEN StartRetry(t) ELSE UNCHANGED retry
    /\ UNCHANGED <<ready, unacked, row, callback, order, ctxDone, losses>>

(* Mutation: a message that cannot be handled is skipped without an ack. *)
MutAck(t) ==
    /\ handler[t].pc = "ack"
    /\ handler' = [handler EXCEPT ![t] = Finished(@, "done")]
    /\ unacked' = IF unacked = t /\ handler[t].msg \notin Junk
                  THEN None ELSE unacked
    /\ UNCHANGED <<ready, row, retry, callback, order, published, gap,
                   ctxDone, faults, losses>>

(* delivery.Ack(false): fails, and is only logged, on a session that died. *)
Ack(t) ==
    /\ handler[t].pc = "ack"
    /\ handler' = [handler EXCEPT ![t] = Finished(@, "done")]
    /\ unacked' = IF unacked = t THEN None ELSE unacked
    /\ UNCHANGED <<ready, row, retry, callback, order, published, gap,
                   ctxDone, faults, losses>>

Consume(t) == \/ \E m \in Msgs : Deliver(t, m)
              \/ InsertTransaction(t)
              \/ BrowseOffer(t)
              \/ CallProvider(t)
              \/ HandleReply(t)
              \/ LogStatus(t)
              \/ Publish(t)
              \/ Ack(t)

-----------------------------------------------------------------------------
(* The check-status goroutines: retryCheckStatusSync (pulsa) and           *)
(* retryCheckStatusPaketDataSync (data)                                    *)

(* After the sleep the data loop first asks the database; a failed read    *)
(* or a missing row falls back to the provider.  Pulsa has no such check.  *)
RetryWake(t) ==
    LET m == handler[t].msg IN
    /\ retry[t].pc = "sleep"
    /\ \/ /\ m \in Data /\ Resolved(m)
          /\ retry' = [retry EXCEPT ![t] = Finished(@, "done")]
          /\ UNCHANGED faults
       \/ /\ m \in Data /\ Resolved(m) /\ Swallowed
          /\ retry' = [retry EXCEPT ![t].pc = "query"]
       \/ /\ m \in Pulsa \/ ~Resolved(m)
          /\ retry' = [retry EXCEPT ![t].pc = "query"]
          /\ UNCHANGED faults
    /\ UNCHANGED <<ready, unacked, handler, row, callback, order, published,
                   gap, ctxDone, losses>>

(* The data loop asks about the id it sent.  The pulsa loop asks about     *)
(* msgID, an id the provider never saw: it cannot be told of a success,    *)
(* and may be told of a failure.                                           *)
CheckAnswers(t) ==
    IF handler[t].msg \in Pulsa
    THEN CheckOutcomes[FALSE][TRUE]
    ELSE CheckOutcomes[order[t] = "success"][Denied(t)]

LastAttempt(t) == retry[t].attempts + 1 = MaxAttempts

CheckDecides(t) ==
    /\ retry[t].pc = "query"
    /\ \E out \in CheckAnswers(t) \ {"again"} :
         retry' = [retry EXCEPT ![t] = [@ EXCEPT !.pc = "mark", !.out = out]]
    /\ UNCHANGED <<ready, unacked, handler, row, callback, order, published,
                   gap, ctxDone, faults, losses>>

CheckAgain(t) ==
    /\ retry[t].pc = "query"
    /\ "again" \in CheckAnswers(t)
    /\ ~LastAttempt(t)
    /\ retry' = [retry EXCEPT ![t] =
                   [@ EXCEPT !.pc = "sleep", !.attempts = retry[t].attempts + 1]]
    /\ UNCHANGED <<ready, unacked, handler, row, callback, order, published,
                   gap, ctxDone, faults, losses>>

(* The attempts ran out: a log line, and nothing is written or published.  *)
CheckExhausted(t) ==
    /\ retry[t].pc = "query"
    /\ "again" \in CheckAnswers(t)
    /\ LastAttempt(t)
    /\ retry' = [retry EXCEPT ![t] =
                   [@ EXCEPT !.pc = "exhausted", !.attempts = MaxAttempts]]
    /\ gap' = [gap EXCEPT ![handler[t].msg] = @ \cup {"exhausted"}]
    /\ UNCHANGED <<ready, unacked, handler, row, callback, order, published,
                   ctxDone, faults, losses>>

RetryLogStatus(t) ==
    /\ retry[t].pc = "mark"
    /\ LogUpdateStatus(handler[t].msg, StatusOf(retry[t].out), TRUE)
    /\ retry' = [retry EXCEPT ![t].pc = "publish"]
    /\ UNCHANGED <<ready, unacked, handler, callback, order, published, gap,
                   ctxDone, losses>>

RetryPublish(t) ==
    /\ retry[t].pc = "publish"
    /\ PublishToDownstream(handler[t].msg, retry[t].out)
    /\ retry' = [retry EXCEPT ![t] = Finished(@, "done")]
    /\ UNCHANGED <<ready, unacked, handler, row, callback, order, ctxDone,
                   losses>>

RetryStep(t) == \/ RetryWake(t)
                \/ CheckDecides(t)
                \/ CheckAgain(t)
                \/ CheckExhausted(t)
                \/ RetryLogStatus(t)
                \/ RetryPublish(t)

-----------------------------------------------------------------------------
(* Provider callbacks: CallbackHandler.Handle *)

(* Mutation: the handler does not look at the callback's status. *)
MutCallbackOutcome(t) == "F"

CallbackOutcome(t) == IF order[t] = "success" THEN "F" ELSE "C"

(* A callback's HTTP handler that returned. *)
Answered(c) == [c EXCEPT !.pc = "idle", !.msg = None]

(* The provider calls back for a dealer order that ended, perhaps more     *)
(* than once.  Without a row naming the order (or when the lookup fails)   *)
(* there is no downstream URL: nothing is changed and the answer is 200.   *)
CallbackLookup(t) ==
    /\ callback[t].pc = "idle"
    /\ callback[t].sent < MaxCallbacks
    /\ handler[t].msg \in Data
    /\ order[t] \in {"success", "failed"}
    /\ \/ \E m \in Msgs :
            /\ row[m].trx = t
            /\ callback' = [callback EXCEPT ![t] =
                 [pc |-> "record", msg |-> m, sent |-> @.sent + 1]]
            /\ UNCHANGED faults
       \/ /\ \A m \in Msgs : row[m].trx # t
          /\ callback' = [callback EXCEPT ![t].sent = @ + 1]
          /\ UNCHANGED faults
       \/ /\ Swallowed
          /\ callback' = [callback EXCEPT ![t].sent = @ + 1]
    /\ UNCHANGED <<ready, unacked, handler, row, retry, order, published, gap,
                   ctxDone, losses>>

(* InsertCallbackResponse writes the status, and Handle writes it again. *)
CallbackWrite(t, from, to) ==
    /\ callback[t].pc = from
    /\ LogUpdateStatus(callback[t].msg, StatusOf(CallbackOutcome(t)), TRUE)
    /\ callback' = [callback EXCEPT ![t].pc = to]
    /\ UNCHANGED <<ready, unacked, handler, retry, order, published, gap,
                   ctxDone, losses>>

CallbackPublish(t) ==
    /\ callback[t].pc = "publish"
    /\ PublishToDownstream(callback[t].msg, CallbackOutcome(t))
    /\ callback' = [callback EXCEPT ![t] = Answered(@)]
    /\ UNCHANGED <<ready, unacked, handler, row, retry, order, ctxDone,
                   losses>>

CallbackStep(t) == \/ CallbackWrite(t, "record", "update")
                   \/ CallbackWrite(t, "update", "publish")
                   \/ CallbackPublish(t)

-----------------------------------------------------------------------------
(* The environment: the provider, the broker session, the process *)

ProviderDecides(t) ==
    /\ order[t] = "pending"
    /\ \E s \in {"success", "failed"} : order' = [order EXCEPT ![t] = s]
    /\ UNCHANGED <<ready, unacked, handler, row, retry, callback, published,
                   gap, ctxDone, faults, losses>>

Requeued == IF unacked = None THEN ready ELSE ready \cup {handler[unacked].msg}

(* The channel closes: the broker requeues the unacknowledged message.     *)
(* awaitDrain waits for its handler only up to ReadTimeout, so the handler *)
(* may still run when the next session gets the message again.             *)
SessionLost ==
    /\ losses < MaxLosses
    /\ unacked # None
    /\ losses' = losses + 1
    /\ ready' = Requeued
    /\ unacked' = None
    /\ UNCHANGED <<handler, row, retry, callback, order, published, gap,
                   ctxDone, faults>>

(* SIGTERM: the consumer is cancelled and its context is dead, while the   *)
(* message in hand is still processed and acknowledged.                    *)
Shutdown ==
    /\ losses < MaxLosses
    /\ ~ctxDone
    /\ losses' = losses + 1
    /\ ctxDone' = TRUE
    /\ UNCHANGED <<ready, unacked, handler, row, retry, callback, order,
                   published, gap, faults>>

Working(t)  == handler[t].pc \in {"insert", "browse", "call", "wait", "mark",
                                  "publish", "ack", "returned"}
Retrying(t) == retry[t].pc \in {"sleep", "query", "mark", "publish"}
(* Goroutines that still have to publish a final status for m. *)
HandlerOwes(t, m) == /\ handler[t].msg = m
                     /\ handler[t].pc = "publish"
                     /\ handler[t].out # "S"
RetryOwes(t, m)   == handler[t].msg = m /\ Retrying(t)
CallbackOwes(t, m) == /\ callback[t].msg = m
                      /\ callback[t].pc \in {"update", "publish"}
Owed(m) == \E t \in Trx : \/ HandlerOwes(t, m)
                          \/ RetryOwes(t, m)
                          \/ CallbackOwes(t, m)

(* The process ends and is started again: every goroutine is gone, the     *)
(* broker requeues the unacknowledged message.                             *)
Restart ==
    /\ ready' = Requeued
    /\ unacked' = None
    /\ handler' = [t \in Trx |-> IF Working(t)
                                 THEN Finished(handler[t], "dead")
                                 ELSE handler[t]]
    /\ retry' = [t \in Trx |-> IF Retrying(t)
                               THEN Finished(retry[t], "dead")
                               ELSE retry[t]]
    /\ callback' = [t \in Trx |-> Answered(callback[t])]
    /\ gap' = [m \in Msgs |-> gap[m] \cup IF Owed(m) THEN {"crash"} ELSE {}]
    /\ ctxDone' = FALSE
    /\ UNCHANGED <<row, order, published, faults>>

Crash == losses < MaxLosses /\ losses' = losses + 1 /\ Restart
(* main returns once the drain is over or has timed out. *)
Exit  == ctxDone /\ UNCHANGED losses /\ Restart

Next == \/ \E t \in Trx : \/ Consume(t)
                          \/ RetryStep(t)
                          \/ CallbackLookup(t)
                          \/ CallbackStep(t)
                          \/ ProviderDecides(t)
        \/ SessionLost
        \/ Shutdown
        \/ Crash
        \/ Exit

Spec == Init /\ [][Next]_vars

(* The program's goroutines and HTTP handlers run; a started shutdown      *)
(* ends.  Every HTTP call has a timeout, so replies are the goroutines'    *)
(* own steps.  Nothing is assumed of the provider: it may never decide and *)
(* never call back.                                                        *)
Fairness == /\ \A t \in Trx : /\ WF_vars(Consume(t))
                              /\ WF_vars(RetryStep(t))
                              /\ WF_vars(CallbackStep(t))
            /\ WF_vars(Exit)

FairSpec == Spec /\ Fairness

-----------------------------------------------------------------------------
(* Properties *)

TypeOK ==
    /\ ready \subseteq Msgs
    /\ unacked \in Trx \cup {None}
    /\ handler \in [Trx -> Deliveries]
    /\ row \in [Msgs -> Rows]
    /\ retry \in [Trx -> Retries]
    /\ callback \in [Trx -> Callbacks]
    /\ order \in [Trx -> OrderStates]
    /\ published \in [Msgs -> SUBSET {"F", "C", "S"}]
    /\ gap \in [Msgs -> SUBSET Gaps]
    /\ ctxDone \in BOOLEAN
    /\ faults \in Nat
    /\ losses \in Nat

Acked(m)   == m \notin ready /\ (unacked = None \/ handler[unacked].msg # m)
Settled(m) == published[m] \cap {"F", "C"} # {}
Delivered(m) == \E t \in Trx : handler[t].msg = m /\ order[t] = "success"

(* The customer is told a top-up succeeded, and the table says SUCCESS,    *)
(* only if the provider completed an order placed for that very message:   *)
(* whichever of reply, status check or callback reported it, across        *)
(* redeliveries with other ids, restarts and concurrent handlers.          *)
FinishIsTrue ==
    \A m \in Msgs :
        "F" \in published[m] \/ row[m].status = "SUCCESS" => Delivered(m)

(* An order message that left the queue for good is accounted for: a final *)
(* status went downstream, or a goroutine still has to send one, or one of *)
(* the three holes of the design explains the silence (a publish error was *)
(* swallowed, the process died owing it, the status checks ran out).       *)
(* The ack comes last in consumeSession, and the data loop's "already      *)
(* resolved, stop" relies on whoever resolved the row to publish.          *)
AckedAccounted ==
    \A m \in Orders : Acked(m) => Settled(m) \/ Owed(m) \/ gap[m] # {}

(* With enough deliveries for the losses that happen, every order message  *)
(* ends acknowledged, and with a final status downstream or a known hole:  *)
(* no branch of the consumer goroutine leaves the prefetch window of one   *)
(* occupied forever, and every check-status goroutine ends.                *)
EventuallySettled ==
    \A m \in Orders : <>[](Acked(m) /\ (Settled(m) \/ gap[m] # {}))

(* The gateway as the platform sees it. *)
Platform == INSTANCE OrderGateway WITH
    Msgs      <- Orders,
    completed <- {m \in Orders : Delivered(m)},
    told      <- [m \in Orders |-> published[m]],
    live      <- {m \in Orders : ~Acked(m) \/ Owed(m)},
    excused   <- {m \in Orders : gap[m] # {}}

(* Every step of queue, goroutines, provider and process is a step of the  *)
(* abstract gateway: no order is let go of without a final status unless   *)
(* it is lost in an admitted way at that very step, and no goroutine tells *)
(* of success before the provider completed the order.                     *)
ImplementsGateway == Platform!Spec
=============================================================================
